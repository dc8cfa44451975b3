---------------------------- MODULE CoroSyncProofs ----------------------------
(***************************************************************************)
(* The objects coroutines wait on conserve what they guard, keep only live *)
(* handles and lose no wake-up, for any number of coroutines and permits.  *)
(***************************************************************************)
EXTENDS CoroSync, QueueTheorems

-----------------------------------------------------------------------------
(* The inductive invariant *)

\* The awaits an object of kind k has.
Belongs(w, k) ==
    \/ k = "semaphore" /\ w = "acquire"
    \/ k = "mutex" /\ w = "lock"
    \/ k = "rw_lock" /\ w \in {"read", "write"}
    \/ k = "barrier" /\ w = "arrive"
    \/ k \in {"event", "auto_event", "latch"} /\ w = "wait"

\* A coroutine that runs awaits nothing; one that is suspended awaits its
\* object and holds no guard of it.
Placed(k, a, o, h) ==
    \A c \in Coroutine :
        /\ a[c] = "running" => o[c] = "none"
        /\ a[c] # "running" => h[c] = "none" /\ Belongs(o[c], k)
        /\ h[c] # "none" => Belongs(h[c], k)
        /\ a[c] = "cancelled" => k = "semaphore"

Queued(a, r) == IsInjective(r) /\ Range(r) = {c \in Coroutine : a[c] \in Scheduled}

Filed(a, o, q) ==
    \A w \in Await :
        /\ IsInjective(q[w])
        /\ Range(q[w]) = {c \in Coroutine : a[c] = "parked" /\ o[c] = w}

Owned(w, a, o, h) ==
    {c \in Coroutine : h[c] = w \/ (o[c] = w /\ a[c] \in {"woken", "granted"})}

\* What the object says of its owners.
Counted(x, a, o, h) ==
    /\ x.held = Cardinality(Owned("acquire", a, o, h))
    /\ x.available + x.held = Permits
    /\ Cardinality(Owned("lock", a, o, h)) = (IF x.locked THEN 1 ELSE 0)
    /\ x.readers = Cardinality(Owned("read", a, o, h))
    /\ Cardinality(Owned("write", a, o, h)) = (IF x.write_locked THEN 1 ELSE 0)
    /\ x.write_locked => x.readers = 0

Waiting(x, a, o) ==
    \A c \in Coroutine : a[c] = "parked" =>
        /\ o[c] = "acquire" => x.available = 0 /\ x.held > 0
        /\ o[c] = "lock" => x.locked
        /\ o[c] = "write" => x.write_locked \/ x.readers > 0
        /\ o[c] = "arrive" => x.remaining > 0
        /\ o[c] = "wait" => ~x.signaled /\ x.count > 0

\* A latch has no signal, and only a latch counts down.
Apart(k, x) == (k = "latch" => ~x.signaled) /\ (k # "latch" => x.count > 0)

\* Nobody owns a part of an object that is gone.
Unowned == ~alive => kind \in Droppable /\ \A w \in Locks : Owners(w) = {}

IInv ==
    /\ TypeOK
    /\ Placed(kind, at, on, holds)
    /\ Queued(at, ready)
    /\ alive => Filed(at, on, waiters) /\ Waiting(obj, at, on)
    /\ Counted(obj, at, on, holds)
    /\ Apart(kind, obj)
    /\ Unowned

\* The inductive invariant says all that the run checks.
LEMMA IInvIsEnough == IInv => OwnershipConserved /\ HandlesAreLive /\ ParkedForAReason
BY DEF IInv, OwnershipConserved, PermitsConserved, MutexHasItsOwner, ReadersOrOneWriter, Owners,
       HandlesAreLive, ParkedForAReason, Counted, Owned, Queued, Filed, Waiting

\* It holds for a new object of each kind.
LEMMA InitIInv == Init => IInv
<1> SUFFICES ASSUME Init PROVE IInv
  OBVIOUS
<1> USE SizesAssumption
<1>1. IsFiniteSet(Coroutine) /\ Cardinality(Coroutine) \in Nat
  BY FS_CardinalityType
<1>2. TypeOK
  <2>1. obj \in [available : 0..Permits, held : 0..Permits, locked : BOOLEAN,
                 readers : 0..Cardinality(Coroutine), write_locked : BOOLEAN,
                 remaining : 0..Expected, signaled : BOOLEAN, count : 0..Count]
    BY <1>1 DEF Init
  <2>2. waiters \in [Await -> Seq(Coroutine)] /\ ready \in Seq(Coroutine)
    BY EmptyQueue DEF Init
  <2>3. at \in [Coroutine -> {"running"} \union Suspended]
    BY DEF Init
  <2>4. on \in [Coroutine -> Await \union {"none"}] /\ holds \in [Coroutine -> Locks \union {"none"}]
    BY DEF Init
  <2> QED
    BY <2>1, <2>2, <2>3, <2>4 DEF Init, TypeOK
<1>3. Placed(kind, at, on, holds)
  BY DEF Init, Placed
<1>4. Queued(at, ready) /\ Filed(at, on, waiters)
  BY EmptyQueue DEF Init, Queued, Filed, Scheduled
<1>5. \A w \in Locks : Owned(w, at, on, holds) = {}
  BY DEF Init, Owned, Locks
<1>6. Counted(obj, at, on, holds)
  <2>1. \A w \in Locks : Cardinality(Owned(w, at, on, holds)) = 0
    BY <1>5, FS_EmptySet
  <2> HIDE DEF Owned
  <2> QED
    BY <2>1 DEF Init, Counted, Locks
<1>7. Waiting(obj, at, on) /\ Apart(kind, obj) /\ Unowned
  BY DEF Init, Waiting, Apart, Unowned
<1> QED
  BY <1>2, <1>3, <1>4, <1>6, <1>7 DEF IInv

-----------------------------------------------------------------------------
(* What parking, granting and waking do to the queues and the owners *)

\* There are no more owners than coroutines.
LEMMA OwnersAreFinite ==
    ASSUME NEW w, NEW a, NEW o, NEW h
    PROVE  /\ Owned(w, a, o, h) \in SUBSET Coroutine
           /\ IsFiniteSet(Owned(w, a, o, h)) /\ Cardinality(Owned(w, a, o, h)) \in Nat
           /\ Cardinality(Owned(w, a, o, h)) <= Cardinality(Coroutine)
           /\ Cardinality(Coroutine) \in Nat
<1>1. Owned(w, a, o, h) \in SUBSET Coroutine
  BY DEF Owned
<1> QED
  BY <1>1, SizesAssumption, FS_Subset, FS_CardinalityType

\* Waking the handles cs of deque w, which leave it.
LEMMA WakeQueues ==
    ASSUME NEW w \in Await, NEW a, NEW o, NEW q, NEW r \in Seq(Coroutine),
           NEW cs \in Seq(Coroutine), NEW rest, NEW a2, NEW q2,
           Queued(a, r), Filed(a, o, q), q \in [Await -> Seq(Coroutine)],
           IsInjective(cs), Range(cs) \subseteq Range(q[w]),
           IsInjective(rest), Range(rest) = Range(q[w]) \ Range(cs),
           q2 = [q EXCEPT ![w] = rest],
           a2 = [c \in Coroutine |-> IF c \in Range(cs) THEN "woken" ELSE a[c]]
    PROVE  r \o cs \in Seq(Coroutine) /\ Queued(a2, r \o cs) /\ Filed(a2, o, q2)
<1>1. \A c \in Range(cs) : c \in Coroutine /\ a[c] = "parked" /\ o[c] = w
  BY DEF Filed
<1>2. Range(r) \cap Range(cs) = {}
  BY <1>1 DEF Queued, Scheduled
<1>3. r \o cs \in Seq(Coroutine) /\ IsInjective(r \o cs) /\ Range(r \o cs) = Range(r) \cup Range(cs)
  BY <1>2, JoinedQueues DEF Queued
<1>4. \A c \in Coroutine : c \in Range(r) \cup Range(cs) <=> a2[c] \in Scheduled
  BY <1>1 DEF Queued, Scheduled
<1>5. Queued(a2, r \o cs)
  <2>1. \A c \in Range(r) \cup Range(cs) : c \in Coroutine
    BY <1>1 DEF Queued
  <2> QED
    BY <1>3, <1>4, <2>1 DEF Queued
<1>6. ASSUME NEW v \in Await
      PROVE  IsInjective(q2[v]) /\ Range(q2[v]) = {c \in Coroutine : a2[c] = "parked" /\ o[c] = v}
  <2>1. CASE v = w
    <3>1. q2[v] = rest
      BY <2>1
    <3>2. Range(q[w]) = {c \in Coroutine : a[c] = "parked" /\ o[c] = w}
      BY DEF Filed
    <3> QED
      BY <2>1, <3>1, <3>2, <1>1
  <2>2. CASE v # w
    <3>1. q2[v] = q[v]
      BY <2>2
    <3>2. Range(q[v]) = {c \in Coroutine : a[c] = "parked" /\ o[c] = v} /\ IsInjective(q[v])
      BY DEF Filed
    <3> QED
      BY <2>2, <3>1, <3>2, <1>1
  <2> QED
    BY <2>1, <2>2
<1> QED
  BY <1>3, <1>5, <1>6 DEF Filed

\* A coroutine that holds nothing gains w, by Take or by Grant.
LEMMA GainOwners ==
    ASSUME NEW w \in Await, NEW a, NEW o, NEW h, NEW c \in Coroutine, NEW a2, NEW o2, NEW h2,
           a[c] = "running", o[c] = "none", h[c] = "none",
           \A d \in Coroutine \ {c} : a2[d] = a[d] /\ o2[d] = o[d] /\ h2[d] = h[d],
           \/ a2[c] = "running" /\ o2[c] = "none" /\ h2[c] = w
           \/ a2[c] = "granted" /\ o2[c] = w /\ h2[c] = "none"
    PROVE  /\ Owned(w, a2, o2, h2) = Owned(w, a, o, h) \cup {c}
           /\ c \notin Owned(w, a, o, h)
           /\ \A v \in Await \ {w} : Owned(v, a2, o2, h2) = Owned(v, a, o, h)
<1>1. \A d \in Coroutine : d \in Owned(w, a2, o2, h2) <=> d \in Owned(w, a, o, h) \/ d = c
  BY DEF Owned, Await
<1>2. c \notin Owned(w, a, o, h)
  BY DEF Owned, Await
<1>3. \A v \in Await \ {w} : \A d \in Coroutine : d \in Owned(v, a2, o2, h2) <=> d \in Owned(v, a, o, h)
  BY DEF Owned, Await
<1>4. \A v : Owned(v, a2, o2, h2) \subseteq Coroutine /\ Owned(v, a, o, h) \subseteq Coroutine
  BY DEF Owned
<1> HIDE DEF Owned
<1>5. Owned(w, a2, o2, h2) = Owned(w, a, o, h) \cup {c}
  BY <1>1, <1>4
<1>6. \A v \in Await \ {w} : Owned(v, a2, o2, h2) = Owned(v, a, o, h)
  BY <1>3, <1>4
<1> QED
  BY <1>2, <1>5, <1>6
-----------------------------------------------------------------------------
(* The actions keep the invariant *)

ObjType ==
    [available : 0..Permits, held : 0..Permits, locked : BOOLEAN,
     readers : 0..Cardinality(Coroutine), write_locked : BOOLEAN,
     remaining : 0..Expected, signaled : BOOLEAN, count : 0..Count]

\* A coroutine that may call is in no queue and holds nothing.
LEMMA IdleFacts ==
    ASSUME IInv, NEW c \in Coroutine, Idle(c)
    PROVE  /\ alive /\ at[c] = "running" /\ on[c] = "none" /\ holds[c] = "none"
           /\ c \notin Range(ready) /\ \A w \in Await : c \notin Range(waiters[w])
BY DEF IInv, Idle, Placed, Queued, Filed, Scheduled

\* A coroutine that has to wait joins the end of its queue.
LEMMA ParkStep ==
    ASSUME IInv, NEW c \in Coroutine, NEW w \in Await, Idle(c), Park(c, w), Belongs(w, kind),
           UNCHANGED <<kind, obj, alive, cancelled>>, token' \in [Coroutine -> BOOLEAN],
           /\ w = "acquire" => obj.available = 0
           /\ w = "lock" => obj.locked
           /\ w = "write" => obj.write_locked \/ obj.readers > 0
           /\ w = "arrive" => obj.remaining > 0
           /\ w = "wait" => ~obj.signaled /\ obj.count > 0
    PROVE  IInv'
<1>1. /\ alive /\ at[c] = "running" /\ on[c] = "none" /\ holds[c] = "none"
      /\ c \notin Range(ready) /\ \A v \in Await : c \notin Range(waiters[v])
  BY IdleFacts
<1>2. /\ waiters[w] \in Seq(Coroutine) /\ IsInjective(waiters[w])
      /\ Append(waiters[w], c) \in Seq(Coroutine) /\ IsInjective(Append(waiters[w], c))
      /\ Range(Append(waiters[w], c)) = Range(waiters[w]) \cup {c}
  BY <1>1, AppendedQueue DEF IInv, TypeOK, Filed
<1>3. TypeOK'
  BY <1>2 DEF IInv, TypeOK, Park, Suspended
<1>4. Placed(kind, at, on, holds)'
  BY <1>1 DEF IInv, TypeOK, Park, Placed
<1>5. Queued(at, ready)'
  BY <1>1 DEF IInv, TypeOK, Park, Queued, Scheduled
<1>6. Filed(at, on, waiters)'
  <2> SUFFICES ASSUME NEW v \in Await
               PROVE  /\ IsInjective(waiters'[v])
                      /\ Range(waiters'[v]) = {d \in Coroutine : at'[d] = "parked" /\ on'[d] = v}
    BY DEF Filed
  <2>1. IsInjective(waiters[v]) /\ Range(waiters[v]) = {d \in Coroutine : at[d] = "parked" /\ on[d] = v}
    BY <1>1 DEF IInv, Filed
  <2>2. waiters'[v] = IF v = w THEN Append(waiters[w], c) ELSE waiters[v]
    BY DEF IInv, TypeOK, Park
  <2>3. \A d \in Coroutine : at'[d] = (IF d = c THEN "parked" ELSE at[d]) /\ on'[d] = (IF d = c THEN w ELSE on[d])
    BY DEF IInv, TypeOK, Park
  <2>4. CASE v = w
    BY <2>1, <2>2, <2>3, <2>4, <1>2
  <2>5. CASE v # w
    BY <2>1, <2>2, <2>3, <2>5, <1>1
  <2> QED
    BY <2>4, <2>5
<1>7. Counted(obj, at, on, holds)'
  <2>1. \A v \in Locks : Owned(v, at', on', holds') = Owned(v, at, on, holds)
    BY <1>1 DEF Owned, Locks, IInv, TypeOK, Park
  <2>2. Counted(obj, at, on, holds) /\ obj' = obj
    BY DEF IInv
  <2> HIDE DEF Owned
  <2> QED
    BY <2>1, <2>2 DEF Counted, Locks
<1>8. Waiting(obj, at, on)'
  <2>1. obj' = obj /\ Waiting(obj, at, on) /\ obj.available + obj.held = Permits /\ obj \in ObjType
    BY <1>1 DEF IInv, Counted, TypeOK, ObjType
  <2>2. \A d \in Coroutine : at'[d] = (IF d = c THEN "parked" ELSE at[d]) /\ on'[d] = (IF d = c THEN w ELSE on[d])
    BY DEF IInv, TypeOK, Park
  <2>3. obj.available = 0 => obj.held > 0
    BY <2>1, SizesAssumption DEF ObjType
  <2> QED
    BY <2>1, <2>2, <2>3 DEF Waiting, Await
<1> QED
  BY <1>1, <1>3, <1>4, <1>5, <1>6, <1>7, <1>8 DEF IInv, Unowned

\* c gains w, by Take or by Grant, and the object counts it.
LEMMA GainStep ==
    ASSUME IInv, NEW c \in Coroutine, NEW w \in Locks, Idle(c), Belongs(w, kind),
           Take(c, w) \/ Grant(c, w),
           UNCHANGED <<kind, alive, cancelled>>, token' \in [Coroutine -> BOOLEAN],
           \/ w = "acquire" /\ obj.available > 0 /\ obj' = TakePermit
           \/ w = "lock" /\ ~obj.locked /\ obj' = [obj EXCEPT !.locked = TRUE]
           \/ /\ w = "read" /\ ~obj.write_locked
              /\ obj' = [obj EXCEPT !.readers = @ + 1]
           \/ /\ w = "write" /\ ~obj.write_locked /\ obj.readers = 0
              /\ obj' = [obj EXCEPT !.write_locked = TRUE]
    PROVE  IInv'
<1>1. /\ alive /\ at[c] = "running" /\ on[c] = "none" /\ holds[c] = "none"
      /\ c \notin Range(ready) /\ w \in Await /\ obj \in ObjType
  BY IdleFacts DEF Locks, Await, IInv, TypeOK, ObjType
<1>2. /\ Owned(w, at', on', holds') = Owned(w, at, on, holds) \cup {c}
      /\ c \notin Owned(w, at, on, holds)
      /\ \A v \in Await \ {w} : Owned(v, at', on', holds') = Owned(v, at, on, holds)
  <2>1. /\ \A d \in Coroutine \ {c} : at'[d] = at[d] /\ on'[d] = on[d] /\ holds'[d] = holds[d]
        /\ \/ at'[c] = "running" /\ on'[c] = "none" /\ holds'[c] = w
           \/ at'[c] = "granted" /\ on'[c] = w /\ holds'[c] = "none"
    BY <1>1 DEF Take, Grant, IInv, TypeOK
  <2> QED
    BY <1>1, <2>1, GainOwners
<1>3. /\ Cardinality(Owned(w, at', on', holds')) = Cardinality(Owned(w, at, on, holds)) + 1
      /\ Cardinality(Owned(w, at', on', holds')) <= Cardinality(Coroutine)
      /\ Cardinality(Owned(w, at', on', holds')) \in Nat /\ Cardinality(Coroutine) \in Nat
      /\ Cardinality(Owned(w, at, on, holds)) \in Nat
  <2>1. IsFiniteSet(Owned(w, at, on, holds)) /\ Cardinality(Owned(w, at, on, holds)) \in Nat
    BY OwnersAreFinite
  <2>2. /\ Cardinality(Owned(w, at', on', holds')) <= Cardinality(Coroutine)
        /\ Cardinality(Owned(w, at', on', holds')) \in Nat /\ Cardinality(Coroutine) \in Nat
    BY OwnersAreFinite
  <2>3. Cardinality(Owned(w, at, on, holds) \cup {c}) = Cardinality(Owned(w, at, on, holds)) + 1
    BY <2>1, <1>2, FS_AddElement
  <2> QED
    BY <2>1, <2>2, <2>3, <1>2
<1>4. Counted(obj, at, on, holds)
  BY DEF IInv
<1>5. obj' \in ObjType /\ Counted(obj', at', on', holds')
  <2> DEFINE n(v) == Cardinality(Owned(v, at, on, holds))
             m(v) == Cardinality(Owned(v, at', on', holds'))
  <2>1. /\ m(w) = n(w) + 1 /\ n(w) \in Nat /\ m(w) <= Cardinality(Coroutine)
        /\ Cardinality(Coroutine) \in Nat
    BY <1>3
  <2>2. \A v \in Locks \ {w} : m(v) = n(v)
    BY <1>2 DEF Locks, Await
  <2>3. /\ obj.held = n("acquire") /\ obj.available + obj.held = Permits
        /\ n("lock") = (IF obj.locked THEN 1 ELSE 0)
        /\ obj.readers = n("read") /\ n("write") = (IF obj.write_locked THEN 1 ELSE 0)
        /\ obj.write_locked => obj.readers = 0
    BY <1>4 DEF Counted
  <2> SUFFICES /\ obj' \in ObjType
               /\ obj'.held = m("acquire") /\ obj'.available + obj'.held = Permits
               /\ m("lock") = (IF obj'.locked THEN 1 ELSE 0)
               /\ obj'.readers = m("read") /\ m("write") = (IF obj'.write_locked THEN 1 ELSE 0)
               /\ obj'.write_locked => obj'.readers = 0
    BY DEF Counted
  <2> HIDE DEF n, m
  <2>4. CASE w = "acquire" /\ obj.available > 0 /\ obj' = TakePermit
    <3>1. obj' = [obj EXCEPT !.available = obj.available - 1, !.held = obj.held + 1]
      BY <2>4 DEF TakePermit
    <3>2. obj.held + 1 \in 0..Permits /\ obj.available - 1 \in 0..Permits
      BY <2>3, <2>4, <1>1, SizesAssumption DEF ObjType
    <3>3. obj' \in ObjType
      BY <3>1, <3>2, <1>1 DEF ObjType
    <3> QED
      BY <2>1, <2>2, <2>3, <2>4, <3>1, <3>2, <3>3, <1>1 DEF Locks, ObjType
  <2>5. CASE w = "lock" /\ ~obj.locked /\ obj' = [obj EXCEPT !.locked = TRUE]
    <3>1. obj' \in ObjType
      BY <2>5, <1>1 DEF ObjType
    <3> QED
      BY <2>1, <2>2, <2>3, <2>5, <3>1, <1>1 DEF Locks, ObjType
  <2>6. CASE w = "read" /\ ~obj.write_locked /\ obj' = [obj EXCEPT !.readers = @ + 1]
    BY <2>1, <2>2, <2>3, <2>6, <1>1 DEF Locks, ObjType
  <2>7. CASE w = "write" /\ ~obj.write_locked /\ obj.readers = 0 /\ obj' = [obj EXCEPT !.write_locked = TRUE]
    <3>1. obj' \in ObjType
      BY <2>7, <1>1 DEF ObjType
    <3> QED
      BY <2>1, <2>2, <2>3, <2>7, <3>1, <1>1 DEF Locks, ObjType
  <2> QED
    BY <2>4, <2>5, <2>6, <2>7
<1>6. Queued(at', ready') /\ ready' \in Seq(Coroutine)
  <2>1. CASE Take(c, w)
    BY <2>1 DEF Take, IInv, TypeOK
  <2>2. CASE Grant(c, w)
    <3>1. /\ ready' \in Seq(Coroutine) /\ IsInjective(ready') /\ Range(ready') = Range(ready) \cup {c}
      BY <2>2, <1>1, AppendedQueue DEF Grant, IInv, TypeOK, Queued
    <3>2. Range(ready) = {d \in Coroutine : at[d] \in Scheduled} /\ at' = [at EXCEPT ![c] = "granted"]
      BY <2>2 DEF Grant, IInv, Queued
    <3>3. \A d \in Coroutine : d \in Range(ready) \cup {c} <=> at'[d] \in Scheduled
      BY <3>2 DEF IInv, TypeOK, Scheduled
    <3> QED
      BY <3>1, <3>2, <3>3 DEF Queued
  <2> QED
    BY <2>1, <2>2
<1>7. TypeOK'
  <2>1. /\ at' \in [Coroutine -> {"running"} \union Suspended]
        /\ on' \in [Coroutine -> Await \union {"none"}]
        /\ holds' \in [Coroutine -> Locks \union {"none"}]
    <3>1. CASE Take(c, w)
      BY <3>1, <1>1 DEF Take, IInv, TypeOK
    <3>2. CASE Grant(c, w)
      BY <3>2, <1>1 DEF Grant, IInv, TypeOK, Suspended
    <3> QED
      BY <3>1, <3>2
  <2> QED
    BY <1>5, <1>6, <2>1 DEF IInv, TypeOK, ObjType, Take, Grant
<1>8. Placed(kind, at, on, holds)'
  BY <1>1 DEF IInv, TypeOK, Placed, Take, Grant, Locks
<1>9. Filed(at, on, waiters)'
  <2>1. \A d \in Coroutine, v \in Await : at'[d] = "parked" /\ on'[d] = v <=> at[d] = "parked" /\ on[d] = v
    BY <1>1 DEF IInv, TypeOK, Take, Grant
  <2> QED
    BY <1>1, <2>1 DEF IInv, Filed, Take, Grant
<1>10. Waiting(obj, at, on)'
  <2>1. \A d \in Coroutine : at'[d] = "parked" => at[d] = "parked" /\ on'[d] = on[d] /\ Belongs(on[d], kind)
    BY <1>1 DEF IInv, TypeOK, Take, Grant, Placed
  <2>2. Waiting(obj, at, on)
    BY <1>1 DEF IInv
  <2> QED
    BY <1>1, <2>1, <2>2 DEF Waiting, TakePermit, Belongs, ObjType
<1>11. Apart(kind, obj)'
  BY <1>1 DEF IInv, Apart, TakePermit, ObjType
<1> QED
  BY <1>1, <1>5, <1>6, <1>7, <1>8, <1>9, <1>10, <1>11 DEF IInv, Unowned
\* The handles cs that are taken from a deque q, and what stays in it: none,
\* the first, or all of them.
Popped(q, cs, rest) ==
    \/ cs = <<>> /\ rest = q
    \/ q # <<>> /\ cs = <<Head(q)>> /\ rest = Tail(q)
    \/ cs = q /\ rest = <<>>

\* Popping waiters splits a queue in two.
LEMMA PoppedIsSplit ==
    ASSUME NEW q \in Seq(Coroutine), IsInjective(q), NEW cs, NEW rest, Popped(q, cs, rest)
    PROVE  /\ cs \in Seq(Coroutine) /\ IsInjective(cs) /\ Range(cs) \subseteq Range(q)
           /\ rest \in Seq(Coroutine) /\ IsInjective(rest) /\ Range(rest) = Range(q) \ Range(cs)
<1>1. CASE cs = <<>> /\ rest = q
  BY <1>1, EmptyQueue
<1>2. CASE q # <<>> /\ cs = <<Head(q)>> /\ rest = Tail(q)
  <2>1. /\ Head(q) \in Coroutine /\ Head(q) \in Range(q)
        /\ Tail(q) \in Seq(Coroutine) /\ IsInjective(Tail(q))
        /\ Range(Tail(q)) = Range(q) \ {Head(q)}
    BY <1>2, HeadAndTail
  <2>2. cs \in Seq(Coroutine) /\ IsInjective(cs) /\ Range(cs) = {Head(q)}
    BY <2>1, <1>2, OneElement
  <2> QED
    BY <1>2, <2>1, <2>2
<1>3. CASE cs = q /\ rest = <<>>
  BY <1>3, EmptyQueue
<1> QED
  BY <1>1, <1>2, <1>3 DEF Popped

\* Where the coroutines are, and what the queues say of it.
Posed(a, o, h, r) ==
    /\ a \in [Coroutine -> {"running"} \union Suspended]
    /\ o \in [Coroutine -> Await \union {"none"}]
    /\ h \in [Coroutine -> Locks \union {"none"}]
    /\ r \in Seq(Coroutine) /\ waiters \in [Await -> Seq(Coroutine)]
    /\ Placed(kind, a, o, h) /\ Queued(a, r) /\ Filed(a, o, waiters)

\* The handles cs leave deque w and are scheduled.
Wake(w, cs, rest, a, r) ==
    /\ Popped(waiters[w], cs, rest)
    /\ Schedule(cs, a, r)
    /\ waiters' = [waiters EXCEPT ![w] = rest]

\* Whoever opens the object wakes the coroutines it takes from deque w.
LEMMA WakeStep ==
    ASSUME NEW w \in Await, NEW a, NEW o, NEW h, NEW r, NEW cs, NEW rest,
           Posed(a, o, h, r), Wake(w, cs, rest, a, r)
    PROVE  /\ at' \in [Coroutine -> {"running"} \union Suspended]
           /\ ready' \in Seq(Coroutine) /\ waiters' \in [Await -> Seq(Coroutine)]
           /\ Placed(kind, at', o, h) /\ Queued(at', ready') /\ Filed(at', o, waiters')
           /\ Len(cs) \in Nat
           /\ Cardinality(Owned(w, at', o, h)) = Cardinality(Owned(w, a, o, h)) + Len(cs)
           /\ \A v \in Await \ {w} : Owned(v, at', o, h) = Owned(v, a, o, h)
           /\ \A c \in Coroutine : at'[c] = "parked" <=> a[c] = "parked" /\ c \notin Range(cs)
<1> USE DEF Posed, Wake
<1>1. waiters[w] \in Seq(Coroutine) /\ IsInjective(waiters[w])
  BY DEF Filed
<1>2. /\ cs \in Seq(Coroutine) /\ IsInjective(cs) /\ Range(cs) \subseteq Range(waiters[w])
      /\ rest \in Seq(Coroutine) /\ IsInjective(rest) /\ Range(rest) = Range(waiters[w]) \ Range(cs)
  BY <1>1, PoppedIsSplit
<1>3. ready' \in Seq(Coroutine) /\ Queued(at', ready') /\ Filed(at', o, waiters')
  BY <1>2, WakeQueues DEF Schedule
<1>4. \A c \in Range(cs) : c \in Coroutine /\ a[c] = "parked" /\ o[c] = w /\ h[c] = "none"
  BY <1>2 DEF Filed, Placed
<1>5. Placed(kind, at', o, h)
  BY <1>4 DEF Placed, Schedule
<1>6. /\ Owned(w, at', o, h) = Owned(w, a, o, h) \cup Range(cs)
      /\ Owned(w, a, o, h) \cap Range(cs) = {}
      /\ \A v \in Await \ {w} : Owned(v, at', o, h) = Owned(v, a, o, h)
  <2>1. \A c \in Coroutine : c \in Owned(w, at', o, h) <=> c \in Owned(w, a, o, h) \/ c \in Range(cs)
    BY <1>4 DEF Owned, Await, Schedule
  <2>2. \A c \in Range(cs) : c \notin Owned(w, a, o, h)
    BY <1>4 DEF Owned, Await, Schedule
  <2>3. \A v \in Await \ {w} : \A c \in Coroutine : c \in Owned(v, at', o, h) <=> c \in Owned(v, a, o, h)
    BY <1>4 DEF Owned, Await, Schedule
  <2>4. \A v : Owned(v, at', o, h) \subseteq Coroutine /\ Owned(v, a, o, h) \subseteq Coroutine
    BY DEF Owned
  <2>5. Owned(w, at', o, h) = Owned(w, a, o, h) \cup Range(cs)
    BY <2>1, <2>4, <1>4
  <2>6. \A v \in Await \ {w} : Owned(v, at', o, h) = Owned(v, a, o, h)
    BY <2>3, <2>4
  <2> QED
    BY <2>2, <2>5, <2>6
<1>7. Len(cs) \in Nat /\ Cardinality(Owned(w, at', o, h)) = Cardinality(Owned(w, a, o, h)) + Len(cs)
  <2>1. Len(cs) \in Nat /\ IsFiniteSet(Range(cs)) /\ Cardinality(Range(cs)) = Len(cs)
    BY <1>2, QueueLength
  <2>2. IsFiniteSet(Owned(w, a, o, h)) /\ Cardinality(Owned(w, a, o, h)) \in Nat
    BY OwnersAreFinite
  <2>3. Cardinality(Owned(w, a, o, h) \cap Range(cs)) = 0
    BY <1>6, FS_EmptySet
  <2>4. Cardinality(Owned(w, a, o, h) \cup Range(cs))
          = Cardinality(Owned(w, a, o, h)) + Cardinality(Range(cs))
              - Cardinality(Owned(w, a, o, h) \cap Range(cs))
    BY <2>1, <2>2, FS_Union
  <2>5. Cardinality(Owned(w, at', o, h)) = Cardinality(Owned(w, a, o, h) \cup Range(cs))
    BY <1>6
  <2> QED
    BY <2>1, <2>2, <2>3, <2>4, <2>5
<1>8. \A c \in Coroutine : at'[c] = "parked" <=> a[c] = "parked" /\ c \notin Range(cs)
  BY DEF Schedule
<1>9. at' \in [Coroutine -> {"running"} \union Suspended] /\ waiters' \in [Await -> Seq(Coroutine)]
  BY <1>2 DEF Suspended, Schedule
<1> QED
  BY <1>3, <1>5, <1>6, <1>7, <1>8, <1>9
\* A guard or an awaiter gives w back: a, o, h and r are where the coroutines
\* and the ready queue are once it has let go of it.
LEMMA GiveBackStep ==
    ASSUME IInv, alive, NEW w \in Locks, Belongs(w, kind), NEW a, NEW o, NEW h, NEW r,
           Posed(a, o, h, r), Waiting(obj, a, o),
           \A v \in Locks \ {w} :
               Cardinality(Owned(v, a, o, h)) = Cardinality(Owned(v, at, on, holds)),
           Cardinality(Owned(w, at, on, holds)) = Cardinality(Owned(w, a, o, h)) + 1,
           GiveBack(w, a, r), on' = o, holds' = h,
           UNCHANGED <<kind, alive, cancelled>>, token' \in [Coroutine -> BOOLEAN]
    PROVE  IInv'
<1>0. /\ a \in [Coroutine -> {"running"} \union Suspended]
      /\ o \in [Coroutine -> Await \union {"none"}]
      /\ h \in [Coroutine -> Locks \union {"none"}]
      /\ r \in Seq(Coroutine)
      /\ Placed(kind, a, o, h) /\ Queued(a, r) /\ Filed(a, o, waiters)
  BY DEF Posed
<1> DEFINE n(v) == Cardinality(Owned(v, a, o, h))
           m(v) == Cardinality(Owned(v, at', o, h))
<1>1. /\ obj \in ObjType /\ waiters \in [Await -> Seq(Coroutine)] /\ w \in Await
      /\ Apart(kind, obj)
      /\ \A v \in Await : waiters[v] \in Seq(Coroutine) /\ IsInjective(waiters[v])
                          /\ Len(waiters[v]) \in Nat
  BY <1>0 DEF IInv, TypeOK, ObjType, Locks, Await, Filed
<1>2. /\ obj.held = n("acquire") + (IF w = "acquire" THEN 1 ELSE 0)
      /\ obj.available + obj.held = Permits
      /\ n("lock") + (IF w = "lock" THEN 1 ELSE 0) = (IF obj.locked THEN 1 ELSE 0)
      /\ obj.readers = n("read") + (IF w = "read" THEN 1 ELSE 0)
      /\ n("write") + (IF w = "write" THEN 1 ELSE 0) = (IF obj.write_locked THEN 1 ELSE 0)
      /\ obj.write_locked => obj.readers = 0
      /\ \A v \in Locks : n(v) \in Nat
  <2>1. \A v \in Locks : n(v) \in Nat
    BY OwnersAreFinite
  <2>2. Counted(obj, at, on, holds)
    BY DEF IInv
  <2> QED
    BY <2>1, <2>2 DEF Counted, Locks
<1>3. \A v \in Locks : m(v) \in Nat /\ m(v) <= Cardinality(Coroutine) /\ Cardinality(Coroutine) \in Nat
  BY OwnersAreFinite
<1>4. ASSUME NEW w1 \in Locks, NEW cs, NEW rest, Popped(waiters[w1], cs, rest), Schedule(cs, a, r),
             waiters' = [waiters EXCEPT ![w1] = rest]
      PROVE  /\ at' \in [Coroutine -> {"running"} \union Suspended]
             /\ ready' \in Seq(Coroutine) /\ waiters' \in [Await -> Seq(Coroutine)]
             /\ Placed(kind, at', o, h) /\ Queued(at', ready') /\ Filed(at', o, waiters')
             /\ Len(cs) \in Nat /\ m(w1) = n(w1) + Len(cs)
             /\ \A v \in Locks \ {w1} : m(v) = n(v)
             /\ \A c \in Coroutine : at'[c] = "parked" <=> a[c] = "parked" /\ c \notin Range(cs)
  <2>1. w1 \in Await
    BY DEF Locks, Await
  <2>2. /\ at' \in [Coroutine -> {"running"} \union Suspended]
        /\ ready' \in Seq(Coroutine) /\ waiters' \in [Await -> Seq(Coroutine)]
        /\ Placed(kind, at', o, h) /\ Queued(at', ready') /\ Filed(at', o, waiters')
        /\ Len(cs) \in Nat
        /\ Cardinality(Owned(w1, at', o, h)) = Cardinality(Owned(w1, a, o, h)) + Len(cs)
        /\ \A v \in Await \ {w1} : Owned(v, at', o, h) = Owned(v, a, o, h)
        /\ \A c \in Coroutine : at'[c] = "parked" <=> a[c] = "parked" /\ c \notin Range(cs)
    <3>1. Wake(w1, cs, rest, a, r)
      BY <1>4 DEF Wake
    <3> QED
      BY <2>1, <3>1, WakeStep
  <2> QED
    BY <2>2 DEF Locks, Await
<1>5. ASSUME NEW w1 \in Locks, NEW cs, NEW rest, Popped(waiters[w1], cs, rest), Schedule(cs, a, r),
             waiters' = [waiters EXCEPT ![w1] = rest],
             obj' \in ObjType, Apart(kind, obj'), Waiting(obj', at', o),
             /\ obj'.held = m("acquire") /\ obj'.available + obj'.held = Permits
             /\ m("lock") = (IF obj'.locked THEN 1 ELSE 0)
             /\ obj'.readers = m("read") /\ m("write") = (IF obj'.write_locked THEN 1 ELSE 0)
             /\ obj'.write_locked => obj'.readers = 0
      PROVE  IInv'
  <2>1. Counted(obj', at', o, h)
    BY <1>5 DEF Counted
  <2>2. /\ at' \in [Coroutine -> {"running"} \union Suspended]
        /\ ready' \in Seq(Coroutine) /\ waiters' \in [Await -> Seq(Coroutine)]
        /\ Placed(kind, at', o, h) /\ Queued(at', ready') /\ Filed(at', o, waiters')
    BY <1>5, <1>4
  <2>3. TypeOK'
    BY <1>0, <1>5, <2>2 DEF IInv, TypeOK, ObjType
  <2> QED
    BY <1>5, <2>1, <2>2, <2>3 DEF IInv, Unowned
<1>6. \A v \in Await : Popped(waiters[v], <<>>, waiters[v])
                       /\ waiters = [waiters EXCEPT ![v] = waiters[v]]
  BY <1>1 DEF Popped
<1>7. \A v \in Await : waiters[v] # <<>> => Popped(waiters[v], <<Head(waiters[v])>>, Tail(waiters[v]))
  BY DEF Popped
<1>8. \A v \in Await : Popped(waiters[v], waiters[v], <<>>)
  BY DEF Popped
<1>9. \A v \in Await : waiters[v] = <<>> => \A c \in Coroutine : ~(a[c] = "parked" /\ o[c] = v)
  BY <1>0, EmptyQueue DEF Filed
<1>10. /\ Range(<<>>) = {} /\ Len(<<>>) = 0
       /\ \A v \in Await : Len(<<Head(waiters[v])>>) = 1
  BY EmptyQueue
<1>11. \A c \in Coroutine : a[c] = "parked" => Belongs(o[c], kind)
  BY <1>0 DEF Placed
<1> HIDE DEF n, m
<1>16. ASSUME NEW v \in Locks, waiters[v] # <<>>, Schedule(<<Head(waiters[v])>>, a, r),
              waiters' = [waiters EXCEPT ![v] = Tail(waiters[v])]
       PROVE  /\ m(v) = n(v) + 1 /\ \A u \in Locks \ {v} : m(u) = n(u)
              /\ \A c \in Coroutine : at'[c] = "parked" => a[c] = "parked"
  <2>1. Popped(waiters[v], <<Head(waiters[v])>>, Tail(waiters[v])) /\ Len(<<Head(waiters[v])>>) = 1
    BY <1>7, <1>10, <1>16 DEF Locks, Await
  <2>2. /\ m(v) = n(v) + Len(<<Head(waiters[v])>>) /\ \A u \in Locks \ {v} : m(u) = n(u)
        /\ \A c \in Coroutine : at'[c] = "parked" => a[c] = "parked"
    BY <2>1, <1>16, <1>4
  <2> QED
    BY <2>1, <2>2
<1>17. ASSUME NEW v \in Locks, Schedule(<<>>, a, r), waiters' = [waiters EXCEPT ![v] = waiters[v]]
       PROVE  /\ \A u \in Locks : m(u) = n(u)
              /\ \A c \in Coroutine : at'[c] = "parked" => a[c] = "parked"
  <2>1. Popped(waiters[v], <<>>, waiters[v]) /\ Len(<<>>) = 0
    BY <1>6, <1>10 DEF Locks, Await
  <2>2. /\ m(v) = n(v) + Len(<<>>) /\ \A u \in Locks \ {v} : m(u) = n(u)
        /\ \A c \in Coroutine : at'[c] = "parked" => a[c] = "parked"
    BY <2>1, <1>17, <1>4
  <2>3. n(v) \in Nat
    BY <1>2
  <2> QED
    BY <2>1, <2>2, <2>3
<1>20. /\ obj.held \in Nat /\ obj.available \in Nat /\ obj.readers \in Nat /\ Permits \in Nat
       /\ obj.held + obj.available = Permits /\ obj.locked \in BOOLEAN /\ obj.write_locked \in BOOLEAN
       /\ \A v \in Locks : n(v) \in Nat
  BY <1>1, <1>2, SizesAssumption DEF ObjType
<1>12. CASE w = "acquire"
  <2>1. kind = "semaphore" /\ "acquire" \in Locks /\ "acquire" \in Await
    BY <1>12 DEF Belongs, Locks, Await
  <2>10. /\ n("acquire") = obj.held - 1 /\ obj.held > 0 /\ n("lock") = (IF obj.locked THEN 1 ELSE 0)
         /\ obj.readers = n("read") /\ n("write") = (IF obj.write_locked THEN 1 ELSE 0)
         /\ obj.write_locked => obj.readers = 0
    BY <1>12, <1>2, <1>20 DEF Locks
  <2>2. CASE waiters["acquire"] # <<>>
    <3>1. /\ Schedule(<<Head(waiters["acquire"])>>, a, r) /\ obj' = obj
          /\ waiters' = [waiters EXCEPT !["acquire"] = Tail(waiters["acquire"])]
      BY <2>2, <2>10, <1>12 DEF GiveBack, release
    <3>2. /\ m("acquire") = n("acquire") + 1 /\ \A v \in Locks \ {"acquire"} : m(v) = n(v)
          /\ \A c \in Coroutine : at'[c] = "parked" => a[c] = "parked"
      BY <3>1, <2>1, <2>2, <1>16
    <3>3. Waiting(obj', at', o)
      BY <3>1, <3>2 DEF Waiting
    <3>8. /\ obj'.held = m("acquire") /\ obj'.available + obj'.held = Permits
          /\ m("lock") = (IF obj'.locked THEN 1 ELSE 0)
          /\ obj'.readers = m("read") /\ m("write") = (IF obj'.write_locked THEN 1 ELSE 0)
          /\ obj'.write_locked => obj'.readers = 0
      BY <3>1, <3>2, <2>1, <2>10, <1>20 DEF Locks
    <3> QED
      BY <3>1, <3>3, <3>8, <2>1, <2>2, <1>1, <1>5, <1>7
  <2>3. CASE waiters["acquire"] = <<>>
    <3>1. /\ Schedule(<<>>, a, r)
          /\ obj' = [obj EXCEPT !.held = obj.held - 1, !.available = obj.available + 1]
          /\ waiters' = [waiters EXCEPT !["acquire"] = waiters["acquire"]]
      <4>1. obj.available < Permits /\ obj.held # 0
        BY <2>10, <1>20
      <4> QED
        BY <4>1, <2>3, <2>1, <1>12, <1>6 DEF GiveBack, release
    <3>3. /\ \A v \in Locks : m(v) = n(v)
          /\ \A c \in Coroutine : at'[c] = "parked" => a[c] = "parked"
      BY <3>1, <2>1, <1>17
    <3>4. obj.held - 1 \in 0..Permits /\ obj.available + 1 \in 0..Permits
      BY <2>10, <1>20
    <3>5. /\ obj' \in ObjType
          /\ obj'.held = obj.held - 1 /\ obj'.available = obj.available + 1 /\ obj'.locked = obj.locked /\ obj'.readers = obj.readers
          /\ obj'.write_locked = obj.write_locked /\ obj'.remaining = obj.remaining /\ obj'.signaled = obj.signaled /\ obj'.count = obj.count
      BY <3>1, <3>4, <1>1 DEF ObjType
    <3>6. Waiting(obj', at', o)
      BY <2>3, <3>3, <2>1, <1>9, <1>11 DEF Waiting, Belongs
    <3>7. Apart(kind, obj')
      BY <3>5, <1>1 DEF Apart
    <3>8. /\ obj'.held = m("acquire") /\ obj'.available + obj'.held = Permits
          /\ m("lock") = (IF obj'.locked THEN 1 ELSE 0)
          /\ obj'.readers = m("read") /\ m("write") = (IF obj'.write_locked THEN 1 ELSE 0)
          /\ obj'.write_locked => obj'.readers = 0
      BY <3>3, <3>5, <2>10, <1>20 DEF Locks
    <3> QED
      BY <3>1, <3>5, <3>6, <3>7, <3>8, <2>1, <1>5, <1>6
  <2> QED
    BY <2>2, <2>3
<1>13. CASE w = "lock"
  <2>1. kind = "mutex" /\ "lock" \in Locks /\ "lock" \in Await
    BY <1>13 DEF Belongs, Locks, Await
  <2>4. /\ obj.held = n("acquire") + 0 /\ n("lock") + 1 = (IF obj.locked THEN 1 ELSE 0)
        /\ obj.readers = n("read") + 0 /\ n("write") + 0 = (IF obj.write_locked THEN 1 ELSE 0)
    BY <1>13, <1>2
  <2>10. /\ n("acquire") = obj.held /\ n("lock") = 0 /\ obj.locked
         /\ obj.readers = n("read") /\ n("write") = (IF obj.write_locked THEN 1 ELSE 0)
         /\ obj.write_locked => obj.readers = 0
    BY <2>4, <1>2, <1>20 DEF Locks
  <2>2. CASE waiters["lock"] # <<>>
    <3>1. /\ Schedule(<<Head(waiters["lock"])>>, a, r) /\ obj' = obj
          /\ waiters' = [waiters EXCEPT !["lock"] = Tail(waiters["lock"])]
      BY <2>2, <1>13 DEF GiveBack, unlock
    <3>2. /\ m("lock") = n("lock") + 1 /\ \A v \in Locks \ {"lock"} : m(v) = n(v)
          /\ \A c \in Coroutine : at'[c] = "parked" => a[c] = "parked"
      BY <3>1, <2>1, <2>2, <1>16
    <3>3. Waiting(obj', at', o)
      BY <3>1, <3>2 DEF Waiting
    <3>8. /\ obj'.held = m("acquire") /\ obj'.available + obj'.held = Permits
          /\ m("lock") = (IF obj'.locked THEN 1 ELSE 0)
          /\ obj'.readers = m("read") /\ m("write") = (IF obj'.write_locked THEN 1 ELSE 0)
          /\ obj'.write_locked => obj'.readers = 0
      BY <3>1, <3>2, <2>1, <2>10, <1>20 DEF Locks
    <3> QED
      BY <3>1, <3>3, <3>8, <2>1, <2>2, <1>1, <1>5, <1>7
  <2>3. CASE waiters["lock"] = <<>>
    <3>1. /\ Schedule(<<>>, a, r) /\ obj' = [obj EXCEPT !.locked = FALSE]
          /\ waiters' = [waiters EXCEPT !["lock"] = waiters["lock"]]
      BY <2>3, <1>13, <1>1, <1>6, <2>1 DEF GiveBack, unlock
    <3>3. /\ \A v \in Locks : m(v) = n(v)
          /\ \A c \in Coroutine : at'[c] = "parked" => a[c] = "parked"
      BY <3>1, <2>1, <1>17
    <3>5. /\ obj' \in ObjType
          /\ obj'.held = obj.held /\ obj'.available = obj.available /\ obj'.locked = FALSE /\ obj'.readers = obj.readers
          /\ obj'.write_locked = obj.write_locked /\ obj'.remaining = obj.remaining /\ obj'.signaled = obj.signaled /\ obj'.count = obj.count
      BY <3>1, <1>1 DEF ObjType
    <3>6. Waiting(obj', at', o)
      BY <2>3, <3>3, <2>1, <1>9, <1>11 DEF Waiting, Belongs
    <3>7. Apart(kind, obj')
      BY <3>5, <1>1 DEF Apart
    <3>8. /\ obj'.held = m("acquire") /\ obj'.available + obj'.held = Permits
          /\ m("lock") = (IF obj'.locked THEN 1 ELSE 0)
          /\ obj'.readers = m("read") /\ m("write") = (IF obj'.write_locked THEN 1 ELSE 0)
          /\ obj'.write_locked => obj'.readers = 0
      BY <3>3, <3>5, <2>10, <1>20 DEF Locks
    <3> QED
      BY <3>1, <3>5, <3>6, <3>7, <3>8, <2>1, <1>5, <1>6
  <2> QED
    BY <2>2, <2>3
<1>14. CASE w = "read"
  <2>1. kind = "rw_lock" /\ {"read", "write"} \subseteq Locks \cap Await
    BY <1>14 DEF Belongs, Locks, Await
  <2>10. /\ n("acquire") = obj.held /\ n("lock") = (IF obj.locked THEN 1 ELSE 0)
         /\ n("read") = obj.readers - 1 /\ obj.readers >= 1 /\ n("write") = 0 /\ ~obj.write_locked
    <3>1. /\ obj.held = n("acquire") + 0 /\ n("lock") + 0 = (IF obj.locked THEN 1 ELSE 0)
          /\ obj.readers = n("read") + 1 /\ n("write") + 0 = (IF obj.write_locked THEN 1 ELSE 0)
      BY <1>14, <1>2
    <3> QED
      BY <3>1, <1>2, <1>20 DEF Locks
  <2>2. CASE obj.readers = 1 /\ waiters["write"] # <<>>
    <3>1. /\ Schedule(<<Head(waiters["write"])>>, a, r)
          /\ obj' = [obj EXCEPT !.readers = 0, !.write_locked = TRUE]
          /\ waiters' = [waiters EXCEPT !["write"] = Tail(waiters["write"])]
      BY <2>2, <1>14 DEF GiveBack, unlock_read, HandToWriter
    <3>2. /\ m("write") = n("write") + 1 /\ \A v \in Locks \ {"write"} : m(v) = n(v)
          /\ \A c \in Coroutine : at'[c] = "parked" => a[c] = "parked"
      BY <3>1, <2>1, <2>2, <1>16
    <3>4. 0 \in 0..Cardinality(Coroutine)
      BY <1>3, <2>1
    <3>5. /\ obj' \in ObjType
          /\ obj'.held = obj.held /\ obj'.available = obj.available /\ obj'.locked = obj.locked /\ obj'.readers = 0
          /\ obj'.write_locked = TRUE /\ obj'.remaining = obj.remaining /\ obj'.signaled = obj.signaled /\ obj'.count = obj.count
      BY <3>1, <3>4, <1>1 DEF ObjType
    <3>6. Waiting(obj', at', o)
      BY <3>2, <3>5, <2>1, <1>11 DEF Waiting, Belongs
    <3>7. Apart(kind, obj')
      BY <3>5, <1>1 DEF Apart
    <3>8. /\ obj'.held = m("acquire") /\ obj'.available + obj'.held = Permits
          /\ m("lock") = (IF obj'.locked THEN 1 ELSE 0)
          /\ obj'.readers = m("read") /\ m("write") = (IF obj'.write_locked THEN 1 ELSE 0)
          /\ obj'.write_locked => obj'.readers = 0
      BY <3>2, <3>5, <2>2, <2>10, <1>20 DEF Locks
    <3> QED
      BY <3>1, <3>5, <3>6, <3>7, <3>8, <2>1, <2>2, <1>5, <1>7
  <2>3. CASE ~(obj.readers = 1 /\ waiters["write"] # <<>>)
    <3>1. /\ Schedule(<<>>, a, r) /\ obj' = [obj EXCEPT !.readers = obj.readers - 1]
          /\ waiters' = [waiters EXCEPT !["write"] = waiters["write"]]
      <4>1. obj.readers # 0
        BY <2>10, <1>20
      <4> QED
        BY <4>1, <2>3, <1>14, <1>6, <2>1 DEF GiveBack, unlock_read
    <3>3. /\ \A v \in Locks : m(v) = n(v)
          /\ \A c \in Coroutine : at'[c] = "parked" => a[c] = "parked"
      BY <3>1, <2>1, <1>17
    <3>4. obj.readers - 1 \in 0..Cardinality(Coroutine)
      BY <1>1, <1>3, <2>1, <2>10 DEF ObjType
    <3>5. /\ obj' \in ObjType
          /\ obj'.held = obj.held /\ obj'.available = obj.available /\ obj'.locked = obj.locked /\ obj'.readers = obj.readers - 1
          /\ obj'.write_locked = obj.write_locked /\ obj'.remaining = obj.remaining /\ obj'.signaled = obj.signaled /\ obj'.count = obj.count
      BY <3>1, <3>4, <1>1 DEF ObjType
    <3>6. Waiting(obj', at', o)
      <4>1. \A c \in Coroutine : at'[c] = "parked" => a[c] = "parked" /\ o[c] \in {"read", "write"}
        BY <3>3, <2>1, <1>11 DEF Belongs
      <4>2. ASSUME NEW c \in Coroutine, at'[c] = "parked", o[c] = "write" PROVE obj'.readers > 0
        <5>1. waiters["write"] # <<>>
          BY <4>1, <4>2, <1>9, <2>1
        <5> QED
          BY <5>1, <2>3, <2>10, <3>5, <1>20
      <4> QED
        BY <4>1, <4>2 DEF Waiting
    <3>7. Apart(kind, obj')
      BY <3>5, <1>1 DEF Apart
    <3>8. /\ obj'.held = m("acquire") /\ obj'.available + obj'.held = Permits
          /\ m("lock") = (IF obj'.locked THEN 1 ELSE 0)
          /\ obj'.readers = m("read") /\ m("write") = (IF obj'.write_locked THEN 1 ELSE 0)
          /\ obj'.write_locked => obj'.readers = 0
      BY <3>3, <3>5, <2>10, <1>20 DEF Locks
    <3> QED
      BY <3>1, <3>5, <3>6, <3>7, <3>8, <2>1, <1>5, <1>6
  <2> QED
    BY <2>2, <2>3
<1>15. CASE w = "write"
  <2>1. kind = "rw_lock" /\ {"read", "write"} \subseteq Locks \cap Await
    BY <1>15 DEF Belongs, Locks, Await
  <2>10. /\ n("acquire") = obj.held /\ n("lock") = (IF obj.locked THEN 1 ELSE 0)
         /\ obj.write_locked /\ obj.readers = 0 /\ n("write") = 0 /\ n("read") = 0
    <3>1. /\ obj.held = n("acquire") + 0 /\ n("lock") + 0 = (IF obj.locked THEN 1 ELSE 0)
          /\ obj.readers = n("read") + 0 /\ n("write") + 1 = (IF obj.write_locked THEN 1 ELSE 0)
      BY <1>15, <1>2
    <3> QED
      BY <3>1, <1>2, <1>20 DEF Locks
  <2>2. CASE waiters["read"] # <<>>
    <3>1. /\ Schedule(waiters["read"], a, r)
          /\ obj' = [obj EXCEPT !.write_locked = FALSE, !.readers = obj.readers + Len(waiters["read"])]
          /\ waiters' = [waiters EXCEPT !["read"] = <<>>]
      BY <2>2, <1>15 DEF GiveBack, unlock_write
    <3>2. /\ m("read") = n("read") + Len(waiters["read"]) /\ \A v \in Locks \ {"read"} : m(v) = n(v)
          /\ \A c \in Coroutine : at'[c] = "parked" => a[c] = "parked"
      BY <3>1, <2>1, <1>4, <1>8
    <3>3. /\ Len(waiters["read"]) \in Nat /\ Len(waiters["read"]) > 0 /\ m("read") = Len(waiters["read"])
          /\ Len(waiters["read"]) \in 0..Cardinality(Coroutine)
      <4>1. Len(waiters["read"]) \in Nat /\ waiters["read"] \in Seq(Coroutine)
        BY <1>1, <2>1
      <4>2. m("read") = Len(waiters["read"])
        BY <4>1, <3>2, <2>10
      <4>3. m("read") <= Cardinality(Coroutine) /\ Cardinality(Coroutine) \in Nat
        BY <1>3, <2>1
      <4> QED
        BY <4>1, <4>2, <4>3, <2>2
    <3>4. obj' = [obj EXCEPT !.write_locked = FALSE, !.readers = Len(waiters["read"])]
      BY <3>1, <3>3, <2>10
    <3>5. /\ obj' \in ObjType
          /\ obj'.held = obj.held /\ obj'.available = obj.available /\ obj'.locked = obj.locked /\ obj'.readers = Len(waiters["read"])
          /\ obj'.write_locked = FALSE /\ obj'.remaining = obj.remaining /\ obj'.signaled = obj.signaled /\ obj'.count = obj.count
      BY <3>3, <3>4, <1>1 DEF ObjType
    <3>6. Waiting(obj', at', o)
      <4>1. \A c \in Coroutine : at'[c] = "parked" => o[c] \in {"read", "write"}
        BY <3>2, <2>1, <1>11 DEF Belongs
      <4> QED
        BY <4>1, <3>3, <3>5 DEF Waiting
    <3>7. Apart(kind, obj')
      BY <3>5, <1>1 DEF Apart
    <3>8. /\ obj'.held = m("acquire") /\ obj'.available + obj'.held = Permits
          /\ m("lock") = (IF obj'.locked THEN 1 ELSE 0)
          /\ obj'.readers = m("read") /\ m("write") = (IF obj'.write_locked THEN 1 ELSE 0)
          /\ obj'.write_locked => obj'.readers = 0
      BY <3>2, <3>3, <3>5, <2>10, <1>20 DEF Locks
    <3> QED
      BY <3>1, <3>5, <3>6, <3>7, <3>8, <2>1, <2>2, <1>5, <1>8
  <2>3. CASE waiters["read"] = <<>> /\ waiters["write"] # <<>>
    <3>1. /\ Schedule(<<Head(waiters["write"])>>, a, r) /\ obj' = obj
          /\ waiters' = [waiters EXCEPT !["write"] = Tail(waiters["write"])]
      BY <2>3, <1>15 DEF GiveBack, unlock_write, HandToWriter
    <3>2. /\ m("write") = n("write") + 1 /\ \A v \in Locks \ {"write"} : m(v) = n(v)
          /\ \A c \in Coroutine : at'[c] = "parked" => a[c] = "parked"
      BY <3>1, <2>1, <2>3, <1>16
    <3>3. Waiting(obj', at', o)
      BY <3>1, <3>2 DEF Waiting
    <3>8. /\ obj'.held = m("acquire") /\ obj'.available + obj'.held = Permits
          /\ m("lock") = (IF obj'.locked THEN 1 ELSE 0)
          /\ obj'.readers = m("read") /\ m("write") = (IF obj'.write_locked THEN 1 ELSE 0)
          /\ obj'.write_locked => obj'.readers = 0
      BY <3>1, <3>2, <2>1, <2>10, <1>20 DEF Locks
    <3> QED
      BY <3>1, <3>3, <3>8, <2>1, <2>3, <1>1, <1>5, <1>7
  <2>4. CASE waiters["read"] = <<>> /\ waiters["write"] = <<>>
    <3>1. /\ Schedule(<<>>, a, r) /\ obj' = [obj EXCEPT !.write_locked = FALSE]
          /\ waiters' = [waiters EXCEPT !["write"] = waiters["write"]]
      BY <2>4, <1>15, <1>6, <2>1 DEF GiveBack, unlock_write
    <3>3. /\ \A v \in Locks : m(v) = n(v)
          /\ \A c \in Coroutine : at'[c] = "parked" => a[c] = "parked"
      BY <3>1, <2>1, <1>17
    <3>5. /\ obj' \in ObjType
          /\ obj'.held = obj.held /\ obj'.available = obj.available /\ obj'.locked = obj.locked /\ obj'.readers = obj.readers
          /\ obj'.write_locked = FALSE /\ obj'.remaining = obj.remaining /\ obj'.signaled = obj.signaled /\ obj'.count = obj.count
      BY <3>1, <1>1 DEF ObjType
    <3>6. Waiting(obj', at', o)
      BY <3>3, <2>1, <2>4, <1>9, <1>11 DEF Waiting, Belongs
    <3>7. Apart(kind, obj')
      BY <3>5, <1>1 DEF Apart
    <3>8. /\ obj'.held = m("acquire") /\ obj'.available + obj'.held = Permits
          /\ m("lock") = (IF obj'.locked THEN 1 ELSE 0)
          /\ obj'.readers = m("read") /\ m("write") = (IF obj'.write_locked THEN 1 ELSE 0)
          /\ obj'.write_locked => obj'.readers = 0
      BY <3>3, <3>5, <2>10, <1>20 DEF Locks
    <3> QED
      BY <3>1, <3>5, <3>6, <3>7, <3>8, <2>1, <1>5, <1>6
  <2> QED
    BY <2>2, <2>3, <2>4
<1> QED
  BY <1>12, <1>13, <1>14, <1>15 DEF Locks
SameLocks ==
    /\ obj'.held = obj.held /\ obj'.available = obj.available /\ obj'.locked = obj.locked
    /\ obj'.readers = obj.readers /\ obj'.write_locked = obj.write_locked

\* Opening a barrier, an event or a latch hands nothing over.
LEMMA OpenStep ==
    ASSUME IInv, alive, NEW w \in {"arrive", "wait"}, NEW a, NEW o, NEW h, NEW r, NEW cs, NEW rest,
           Posed(a, o, h, r), Counted(obj, a, o, h), Wake(w, cs, rest, a, r),
           obj' \in ObjType, SameLocks, Apart(kind, obj'), Waiting(obj', at', o),
           on' = o, holds' = h,
           UNCHANGED <<kind, alive, cancelled>>, token' \in [Coroutine -> BOOLEAN]
    PROVE  IInv'
<1>1. w \in Await /\ Locks \subseteq Await \ {w}
  BY DEF Await, Locks
<1>2. /\ at' \in [Coroutine -> {"running"} \union Suspended]
      /\ ready' \in Seq(Coroutine) /\ waiters' \in [Await -> Seq(Coroutine)]
      /\ Placed(kind, at', o, h) /\ Queued(at', ready') /\ Filed(at', o, waiters')
      /\ \A v \in Await \ {w} : Owned(v, at', o, h) = Owned(v, a, o, h)
  BY <1>1, WakeStep
<1>3. Counted(obj', at', o, h)
  <2>1. \A v \in Locks : Owned(v, at', o, h) = Owned(v, a, o, h)
    BY <1>1, <1>2
  <2> QED
    BY <2>1 DEF Counted, Locks, SameLocks
<1>4. TypeOK'
  BY <1>2 DEF IInv, TypeOK, ObjType, Posed
<1> QED
  BY <1>2, <1>3, <1>4 DEF IInv, Unowned

\* set() of an event, by its owner or for a waiter that was reclaimed.
LEMMA SetEventStep ==
    ASSUME IInv, alive, IsEvent, NEW a, NEW o, NEW h, NEW r,
           Posed(a, o, h, r), Counted(obj, a, o, h), Waiting(obj, a, o),
           set_event(a, r), on' = o, holds' = h,
           UNCHANGED <<kind, alive, cancelled>>, token' \in [Coroutine -> BOOLEAN]
    PROVE  IInv'
<1>1. /\ obj \in ObjType /\ waiters \in [Await -> Seq(Coroutine)] /\ "wait" \in Await
      /\ Apart(kind, obj) /\ kind # "latch"
      /\ \A c \in Coroutine : a[c] = "parked" => o[c] = "wait"
  BY DEF IInv, TypeOK, ObjType, Await, IsEvent, Placed, Belongs, Posed
<1>2. \A c \in Coroutine : a[c] = "parked" => c \in Range(waiters["wait"])
  BY <1>1 DEF Filed, Posed
<1>3. ASSUME NEW cs, NEW rest, Wake("wait", cs, rest, a, r)
      PROVE  \A c \in Coroutine : at'[c] = "parked" => a[c] = "parked" /\ c \notin Range(cs)
  BY <1>1, <1>3, WakeStep
<1>4. CASE /\ kind = "auto_event" /\ waiters["wait"] # <<>>
           /\ Schedule(<<Head(waiters["wait"])>>, a, r) /\ obj' = obj
           /\ waiters' = [waiters EXCEPT !["wait"] = Tail(waiters["wait"])]
  <2>1. Wake("wait", <<Head(waiters["wait"])>>, Tail(waiters["wait"]), a, r)
    BY <1>4 DEF Popped, Wake
  <2>2. Waiting(obj', at', o)
    BY <1>3, <1>4, <2>1 DEF Waiting
  <2> QED
    BY <1>1, <1>4, <2>1, <2>2, OpenStep DEF SameLocks
<1>5. CASE /\ kind = "auto_event" /\ waiters["wait"] = <<>>
           /\ Schedule(<<>>, a, r) /\ obj' = [obj EXCEPT !.signaled = TRUE]
           /\ waiters' = waiters
  <2>1. Wake("wait", <<>>, waiters["wait"], a, r)
    BY <1>1, <1>5 DEF Popped, Wake
  <2>2. \A c \in Coroutine : a[c] # "parked"
    BY <1>2, <1>5, EmptyQueue
  <2>3. obj' \in ObjType /\ SameLocks /\ obj'.count = obj.count
    BY <1>1, <1>5 DEF ObjType, SameLocks
  <2>4. Apart(kind, obj') /\ Waiting(obj', at', o)
    BY <1>1, <1>3, <2>1, <2>2, <2>3 DEF Apart, Waiting
  <2> QED
    BY <2>1, <2>3, <2>4, OpenStep
<1>6. CASE /\ kind = "event"
           /\ Schedule(waiters["wait"], a, r) /\ obj' = [obj EXCEPT !.signaled = TRUE]
           /\ waiters' = [waiters EXCEPT !["wait"] = <<>>]
  <2>1. Wake("wait", waiters["wait"], <<>>, a, r)
    BY <1>6 DEF Popped, Wake
  <2>3. obj' \in ObjType /\ SameLocks /\ obj'.count = obj.count
    BY <1>1, <1>6 DEF ObjType, SameLocks
  <2>4. Apart(kind, obj') /\ Waiting(obj', at', o)
    BY <1>1, <1>2, <1>3, <2>1, <2>3 DEF Apart, Waiting
  <2> QED
    BY <2>1, <2>3, <2>4, OpenStep
<1> QED
  BY <1>4, <1>5, <1>6 DEF set_event

\* c lets go of everything: its guard, or the place in the queue that a
\* scheduled frame had.
Left(c, o2, h2) ==
    \/ /\ at[c] = "running" /\ o2 = on /\ h2 = [holds EXCEPT ![c] = "none"]
    \/ /\ at[c] \in Scheduled /\ o2 = [on EXCEPT ![c] = "none"] /\ h2 = holds

AtLeft(c) == [at EXCEPT ![c] = "running"]
ReadyLeft(c) == IF at[c] = "running" THEN ready ELSE Keep(ready, Coroutine \ {c})

\* A coroutine that leaves the ready queue leaves the rest as it was.
LEMMA LeaveFacts ==
    ASSUME IInv, NEW c \in Coroutine, NEW o2, NEW h2, Left(c, o2, h2)
    PROVE  /\ AtLeft(c) \in [Coroutine -> {"running"} \union Suspended]
           /\ o2 \in [Coroutine -> Await \union {"none"}]
           /\ h2 \in [Coroutine -> Locks \union {"none"}]
           /\ ReadyLeft(c) \in Seq(Coroutine)
           /\ Placed(kind, AtLeft(c), o2, h2) /\ Queued(AtLeft(c), ReadyLeft(c))
           /\ alive => Filed(AtLeft(c), o2, waiters) /\ Waiting(obj, AtLeft(c), o2)
           /\ \A v \in Locks : Owned(v, AtLeft(c), o2, h2) = Owned(v, at, on, holds) \ {c}
<1> DEFINE a2 == AtLeft(c)
           r2 == ReadyLeft(c)
<1> USE DEF AtLeft, ReadyLeft
<1>1. /\ at \in [Coroutine -> {"running"} \union Suspended]
      /\ on \in [Coroutine -> Await \union {"none"}]
      /\ holds \in [Coroutine -> Locks \union {"none"}]
      /\ ready \in Seq(Coroutine) /\ Placed(kind, at, on, holds) /\ Queued(at, ready)
  BY DEF IInv, TypeOK
<1>2. /\ a2 \in [Coroutine -> {"running"} \union Suspended]
      /\ o2 \in [Coroutine -> Await \union {"none"}]
      /\ h2 \in [Coroutine -> Locks \union {"none"}]
  BY <1>1 DEF Left
<1>3. /\ \A d \in Coroutine \ {c} : a2[d] = at[d] /\ o2[d] = on[d] /\ h2[d] = holds[d]
      /\ a2[c] = "running" /\ o2[c] = "none" /\ h2[c] = "none" /\ at[c] # "parked"
  BY <1>1 DEF Left, Placed, Scheduled
<1>4. Placed(kind, a2, o2, h2)
  BY <1>1, <1>3 DEF Placed
<1>5. r2 \in Seq(Coroutine) /\ Queued(a2, r2)
  <2>1. CASE at[c] = "running"
    <3>1. r2 = ready /\ a2 = at
      BY <2>1, <1>1
    <3> QED
      BY <3>1, <1>1
  <2>2. CASE at[c] # "running"
    <3>1. r2 = Keep(ready, Coroutine \ {c})
      BY <2>2
    <3>2. /\ r2 \in Seq(Coroutine) /\ IsInjective(r2)
          /\ Range(r2) = Range(ready) \cap (Coroutine \ {c})
      BY <1>1, <3>1, KeepIsTrue DEF Queued
    <3>3. \A d \in Coroutine : d \in Range(ready) /\ d # c <=> a2[d] \in Scheduled
      BY <1>1, <1>3 DEF Queued, Scheduled
    <3> QED
      BY <3>2, <3>3 DEF Queued
  <2> QED
    BY <2>1, <2>2
<1>6. alive => Filed(a2, o2, waiters) /\ Waiting(obj, a2, o2)
  <2> SUFFICES ASSUME alive PROVE Filed(a2, o2, waiters) /\ Waiting(obj, a2, o2)
    OBVIOUS
  <2>1. Filed(at, on, waiters) /\ Waiting(obj, at, on)
    BY DEF IInv
  <2>2. \A d \in Coroutine : /\ a2[d] = "parked" <=> at[d] = "parked"
                             /\ at[d] = "parked" => o2[d] = on[d]
    BY <1>3
  <2>3. Filed(a2, o2, waiters)
    BY <2>1, <2>2 DEF Filed
  <2>4. Waiting(obj, a2, o2)
    BY <2>1, <2>2 DEF Waiting
  <2> QED
    BY <2>3, <2>4
<1>7. ASSUME NEW v \in Locks PROVE Owned(v, a2, o2, h2) = Owned(v, at, on, holds) \ {c}
  BY <1>3 DEF Owned, Locks
<1> QED
  BY <1>2, <1>4, <1>5, <1>6, <1>7
\* There are finitely many coroutines.
LEMMA Finite == IsFiniteSet(Coroutine) /\ Cardinality(Coroutine) \in Nat
BY SizesAssumption, FS_CardinalityType

\* semaphore::acquire and try_acquire.
LEMMA AcquireStep ==
    ASSUME IInv, NEW c \in Coroutine, NEW t \in BOOLEAN, Acquire(c, t)
    PROVE  IInv'
<1>1. /\ Idle(c) /\ Belongs("acquire", kind) /\ "acquire" \in Locks /\ "acquire" \in Await
      /\ UNCHANGED <<kind, alive, cancelled>> /\ token' \in [Coroutine -> BOOLEAN]
  BY DEF Acquire, Belongs, Locks, Await, IInv, TypeOK
<1>2. CASE obj.available > 0 /\ obj' = TakePermit /\ Take(c, "acquire")
  BY <1>1, <1>2, GainStep
<1>3. CASE obj.available = 0 /\ Park(c, "acquire") /\ UNCHANGED obj
  BY <1>1, <1>3, ParkStep
<1> QED
  BY <1>2, <1>3 DEF Acquire

\* async_mutex::lock and try_lock.
LEMMA MutexStep ==
    ASSUME IInv, NEW c \in Coroutine, Lock(c) \/ TryLock(c)
    PROVE  IInv'
<1>1. /\ Idle(c) /\ Belongs("lock", kind) /\ "lock" \in Locks /\ "lock" \in Await
      /\ UNCHANGED <<kind, alive, cancelled>> /\ token' \in [Coroutine -> BOOLEAN]
  BY DEF Lock, TryLock, Belongs, Locks, Await, IInv, TypeOK
<1>2. CASE ~obj.locked /\ obj' = [obj EXCEPT !.locked = TRUE] /\ (Grant(c, "lock") \/ Take(c, "lock"))
  BY <1>1, <1>2, GainStep
<1>3. CASE obj.locked /\ Park(c, "lock") /\ UNCHANGED obj
  BY <1>1, <1>3, ParkStep
<1> QED
  BY <1>2, <1>3 DEF Lock, TryLock

\* async_rwlock::lock_read and lock_write.
LEMMA RwLockStep ==
    ASSUME IInv, NEW c \in Coroutine, LockRead(c) \/ LockWrite(c)
    PROVE  IInv'
<1>1. /\ Idle(c) /\ {"read", "write"} \subseteq Locks \cap Await
      /\ Belongs("read", kind) /\ Belongs("write", kind)
      /\ UNCHANGED <<kind, alive, cancelled>> /\ token' \in [Coroutine -> BOOLEAN]
  BY DEF LockRead, LockWrite, Belongs, Locks, Await, IInv, TypeOK
<1>2. CASE ~obj.write_locked /\ obj' = [obj EXCEPT !.readers = @ + 1] /\ Grant(c, "read")
  BY <1>1, <1>2, GainStep
<1>3. CASE Park(c, "read") /\ UNCHANGED obj
  BY <1>1, <1>3, ParkStep
<1>4. CASE /\ ~obj.write_locked /\ obj.readers = 0
           /\ obj' = [obj EXCEPT !.write_locked = TRUE] /\ Grant(c, "write")
  BY <1>1, <1>4, GainStep
<1>5. CASE ~(~obj.write_locked /\ obj.readers = 0) /\ Park(c, "write") /\ UNCHANGED obj
  <2>1. obj.write_locked \/ obj.readers > 0
    BY <1>5, Finite DEF IInv, TypeOK
  <2> QED
    BY <1>1, <1>5, <2>1, ParkStep
<1> QED
  BY <1>2, <1>3, <1>4, <1>5 DEF LockRead, LockWrite

\* A release hands what it releases to the next waiters.
LEMMA ReleaseStep ==
    ASSUME IInv, NEW c \in Coroutine, Release(c)
    PROVE  IInv'
<1> DEFINE w == holds[c]
           h == [holds EXCEPT ![c] = "none"]
<1>1. /\ w \in Locks /\ Belongs(w, kind) /\ at[c] = "running" /\ at = [at EXCEPT ![c] = "running"]
      /\ c \in Owned(w, at, on, holds) /\ holds[c] # "none" /\ on[c] = "none"
      /\ at \in [Coroutine -> {"running"} \union Suspended]
  BY DEF Release, IInv, TypeOK, Placed, Owned
<1>2. alive
  BY <1>1 DEF IInv, Unowned, Owners, Owned
<1>3. Left(c, on, h)
  BY <1>1 DEF Left
<1>4. /\ Posed(at, on, h, ready) /\ Waiting(obj, at, on)
      /\ \A v \in Locks : Owned(v, at, on, h) = Owned(v, at, on, holds) \ {c}
  <2>1. AtLeft(c) = at /\ ReadyLeft(c) = ready
    BY <1>1 DEF AtLeft, ReadyLeft
  <2> HIDE DEF w, h
  <2>2. /\ at \in [Coroutine -> {"running"} \union Suspended]
        /\ on \in [Coroutine -> Await \union {"none"}]
        /\ h \in [Coroutine -> Locks \union {"none"}]
        /\ ready \in Seq(Coroutine)
        /\ Placed(kind, at, on, h) /\ Queued(at, ready)
        /\ alive => Filed(at, on, waiters) /\ Waiting(obj, at, on)
        /\ \A v \in Locks : Owned(v, at, on, h) = Owned(v, at, on, holds) \ {c}
    BY <2>1, <1>3, LeaveFacts
  <2> QED
    BY <2>2, <1>2 DEF Posed, IInv, TypeOK
<1>5. \A v \in Locks \ {w} : c \notin Owned(v, at, on, holds)
  BY <1>1 DEF Owned, Locks
<1>6. \A v \in Locks \ {w} : Owned(v, at, on, h) = Owned(v, at, on, holds)
  BY <1>4, <1>5
<1>7. Cardinality(Owned(w, at, on, holds)) = Cardinality(Owned(w, at, on, h)) + 1
  <2>1. IsFiniteSet(Owned(w, at, on, holds)) /\ Cardinality(Owned(w, at, on, holds)) \in Nat
    BY OwnersAreFinite
  <2>2. Cardinality(Owned(w, at, on, holds) \ {c}) = Cardinality(Owned(w, at, on, holds)) - 1
    BY <2>1, <1>1, FS_RemoveElement
  <2>3. Owned(w, at, on, h) = Owned(w, at, on, holds) \ {c}
    BY <1>1, <1>4
  <2> HIDE DEF w, h
  <2> QED
    BY <2>1, <2>2, <2>3
<1>8. /\ GiveBack(w, at, ready) /\ on' = on /\ holds' = h /\ UNCHANGED <<kind, alive, cancelled>>
      /\ token' \in [Coroutine -> BOOLEAN]
  BY DEF Release, IInv, TypeOK
<1> HIDE DEF w, h
<1> QED
  BY <1>1, <1>2, <1>4, <1>6, <1>7, <1>8, GiveBackStep

\* A scheduled coroutine that is destroyed gives back what it was granted.
LEMMA DestroyScheduledStep ==
    ASSUME IInv, NEW c \in Coroutine, "granted" \notin Reclaim, DestroyScheduled(c),
           on' = [on EXCEPT ![c] = "none"], token' = [token EXCEPT ![c] = FALSE],
           UNCHANGED <<kind, alive, holds, cancelled>>
    PROVE  IInv'
<1> DEFINE a == [at EXCEPT ![c] = "running"]
           r == Keep(ready, Coroutine \ {c})
           o == [on EXCEPT ![c] = "none"]
<1>1. at[c] \in Scheduled /\ at[c] # "running" /\ at[c] \in {"woken", "cancelled"}
  BY DEF DestroyScheduled, Scheduled
<1>2. Left(c, o, holds)
  BY <1>1 DEF Left
<1>3. /\ a \in [Coroutine -> {"running"} \union Suspended]
      /\ o \in [Coroutine -> Await \union {"none"}]
      /\ holds \in [Coroutine -> Locks \union {"none"}]
      /\ r \in Seq(Coroutine)
      /\ Placed(kind, a, o, holds) /\ Queued(a, r)
      /\ alive => Filed(a, o, waiters) /\ Waiting(obj, a, o)
      /\ \A v \in Locks : Owned(v, a, o, holds) = Owned(v, at, on, holds) \ {c}
  <2>1. AtLeft(c) = a /\ ReadyLeft(c) = r
    BY <1>1 DEF AtLeft, ReadyLeft
  <2> HIDE DEF a, o, r
  <2> QED
    BY <2>1, <1>2, LeaveFacts
<1>4. /\ alive => Posed(a, o, holds, r)
      /\ on' = o /\ holds' = holds /\ UNCHANGED <<kind, alive, cancelled>>
      /\ token' \in [Coroutine -> BOOLEAN]
  BY <1>3 DEF Posed, IInv, TypeOK
<1>5. at[c] # "running" /\ holds[c] = "none"
  BY <1>1 DEF IInv, Placed
<1>6. ASSUME on[c] \notin Locks \/ at[c] = "cancelled"
      PROVE  /\ \A v \in Locks : Owned(v, a, o, holds) = Owned(v, at, on, holds)
             /\ Counted(obj, a, o, holds)
  <2>1. \A v \in Locks : c \notin Owned(v, at, on, holds)
    BY <1>5, <1>6 DEF Owned, Locks
  <2>2. \A v \in Locks : Owned(v, a, o, holds) = Owned(v, at, on, holds)
    <3> HIDE DEF a, o, r
    <3> QED
      BY <1>3, <2>1
  <2>3. Counted(obj, at, on, holds)
    BY DEF IInv
  <2> HIDE DEF a, o
  <2> QED
    BY <2>2, <2>3 DEF Counted, Locks
<1>7. CASE at[c] = "woken" /\ alive /\ on[c] \in Locks /\ GiveBack(on[c], a, r)
  <2> DEFINE w == on[c]
  <2>1. w \in Locks /\ Belongs(w, kind) /\ c \in Owned(w, at, on, holds)
    BY <1>5, <1>7 DEF IInv, Placed, Owned
  <2>2. \A v \in Locks \ {w} : Owned(v, a, o, holds) = Owned(v, at, on, holds)
    <3>1. \A v \in Locks \ {w} : c \notin Owned(v, at, on, holds)
      BY <1>5 DEF Owned, Locks
    <3> HIDE DEF a, o, r, w
    <3> QED
      BY <1>3, <3>1
  <2>3. Cardinality(Owned(w, at, on, holds)) = Cardinality(Owned(w, a, o, holds)) + 1
    <3>1. IsFiniteSet(Owned(w, at, on, holds)) /\ Cardinality(Owned(w, at, on, holds)) \in Nat
      BY OwnersAreFinite
    <3>2. Cardinality(Owned(w, at, on, holds) \ {c}) = Cardinality(Owned(w, at, on, holds)) - 1
      BY <3>1, <2>1, FS_RemoveElement
    <3>3. Owned(w, a, o, holds) = Owned(w, at, on, holds) \ {c}
      BY <2>1, <1>3
    <3> HIDE DEF a, o, r, w
    <3> QED
      BY <3>1, <3>2, <3>3
  <2>4. Waiting(obj, a, o) /\ Posed(a, o, holds, r) /\ GiveBack(w, a, r)
    BY <1>3, <1>4, <1>7
  <2> HIDE DEF w, a, o, r
  <2> QED
    BY <1>4, <1>7, <2>1, <2>2, <2>3, <2>4, GiveBackStep
<1>8. CASE alive /\ kind = "auto_event" /\ set_event(a, r)
  <2>1. on[c] \notin Locks
    BY <1>1, <1>8 DEF IInv, Placed, Belongs, Locks
  <2>2. Counted(obj, a, o, holds) /\ Waiting(obj, a, o) /\ Posed(a, o, holds, r) /\ IsEvent
    BY <2>1, <1>3, <1>4, <1>6, <1>8 DEF IsEvent
  <2> HIDE DEF a, o, r
  <2> QED
    BY <1>4, <1>8, <2>2, SetEventStep
<1>9. CASE /\ \/ at[c] = "woken" /\ (~alive \/ kind \in {"event", "barrier", "latch"})
              \/ at[c] = "cancelled"
           /\ at' = a /\ ready' = r /\ UNCHANGED <<obj, waiters>>
  <2>1. on[c] \notin Locks \/ at[c] = "cancelled"
    <3>1. CASE ~alive /\ at[c] = "woken"
      BY <3>1 DEF IInv, Unowned, Owners, Locks
    <3>2. CASE kind \in {"event", "barrier", "latch"}
      BY <3>2, <1>1 DEF IInv, Placed, Belongs, Locks
    <3> QED
      BY <1>9, <3>1, <3>2
  <2>2. Counted(obj, a, o, holds) /\ \A v \in Locks : Owned(v, a, o, holds) = Owned(v, at, on, holds)
    BY <2>1, <1>6
  <2>3. TypeOK'
    BY <1>3, <1>4, <1>9 DEF IInv, TypeOK
  <2>4. Unowned'
    BY <2>2, <1>4, <1>9 DEF IInv, Unowned, Owners, Owned
  <2> HIDE DEF a, o, r
  <2>5. /\ Placed(kind', at', on', holds') /\ Queued(at', ready') /\ Counted(obj', at', on', holds')
        /\ alive => Filed(at', on', waiters') /\ Waiting(obj', at', on')
    BY <1>3, <1>4, <1>9, <2>2
  <2> QED
    BY <1>4, <1>9, <2>3, <2>4, <2>5 DEF IInv
<1> QED
  BY <1>7, <1>8, <1>9 DEF DestroyScheduled
\* A parked one leaves its queue.
LEMMA DestroyParkedStep ==
    ASSUME IInv, NEW c \in Coroutine, DestroyParked(c),
           on' = [on EXCEPT ![c] = "none"], token' = [token EXCEPT ![c] = FALSE],
           UNCHANGED <<kind, alive, holds, cancelled>>
    PROVE  IInv'
<1>1. /\ at \in [Coroutine -> {"running"} \union Suspended]
      /\ on \in [Coroutine -> Await \union {"none"}]
      /\ waiters \in [Await -> Seq(Coroutine)]
      /\ at[c] = "parked" /\ holds[c] = "none" /\ Belongs(on[c], kind)
  BY DEF IInv, TypeOK, DestroyParked, Placed
<1>2. on[c] \in Await
  BY <1>1 DEF Belongs, Await
<1>3. /\ \A d \in Coroutine \ {c} : at'[d] = at[d] /\ on'[d] = on[d]
      /\ at'[c] = "running" /\ on'[c] = "none" /\ holds' = holds /\ ready' = ready /\ obj' = obj
  BY <1>1 DEF DestroyParked
<1>4. alive => /\ Keep(waiters[on[c]], Coroutine \ {c}) \in Seq(Coroutine)
               /\ IsInjective(Keep(waiters[on[c]], Coroutine \ {c}))
               /\ Range(Keep(waiters[on[c]], Coroutine \ {c})) = Range(waiters[on[c]]) \cap (Coroutine \ {c})
  BY <1>1, <1>2, KeepIsTrue DEF IInv, Filed
<1>5. waiters' \in [Await -> Seq(Coroutine)]
  BY <1>1, <1>4 DEF DestroyParked
<1>6. TypeOK'
  BY <1>5 DEF IInv, TypeOK, DestroyParked
<1>7. Placed(kind, at, on, holds)'
  BY <1>1, <1>3 DEF IInv, Placed
<1>8. Queued(at, ready)'
  BY <1>1, <1>3 DEF IInv, Queued, Scheduled
<1>9. ASSUME alive PROVE Filed(at, on, waiters)'
  <2> SUFFICES ASSUME NEW v \in Await
               PROVE  /\ IsInjective(waiters'[v])
                      /\ Range(waiters'[v]) = {d \in Coroutine : at'[d] = "parked" /\ on'[d] = v}
    BY DEF Filed
  <2>1. IsInjective(waiters[v]) /\ Range(waiters[v]) = {d \in Coroutine : at[d] = "parked" /\ on[d] = v}
    BY <1>9 DEF IInv, Filed
  <2>2. waiters'[v] = IF v = on[c] THEN Keep(waiters[on[c]], Coroutine \ {c}) ELSE waiters[v]
    BY <1>1, <1>9 DEF DestroyParked
  <2>3. CASE v = on[c]
    BY <2>1, <2>2, <2>3, <1>3, <1>4, <1>9
  <2>4. CASE v # on[c]
    BY <2>1, <2>2, <2>4, <1>1, <1>3
  <2> QED
    BY <2>3, <2>4
<1>10. \A v \in Locks : Owned(v, at', on', holds') = Owned(v, at, on, holds)
  BY <1>1, <1>3 DEF Owned, Locks
<1>11. Counted(obj, at, on, holds)'
  BY <1>3, <1>10 DEF IInv, Counted, Locks
<1>12. alive => Waiting(obj, at, on)'
  BY <1>3 DEF IInv, Waiting
<1>13. Unowned'
  BY <1>10 DEF IInv, Unowned, Owners, Owned
<1> QED
  BY <1>3, <1>6, <1>7, <1>8, <1>9, <1>11, <1>12, <1>13 DEF IInv

\* barrier::arrive_and_wait.
LEMMA ArriveStep ==
    ASSUME IInv, NEW c \in Coroutine, ArriveAndWait(c)
    PROVE  IInv'
<1> DEFINE all == Append(waiters["arrive"], c)
<1>1. /\ alive /\ at[c] = "running" /\ on[c] = "none" /\ holds[c] = "none"
      /\ c \notin Range(ready) /\ \A v \in Await : c \notin Range(waiters[v])
  BY IdleFacts DEF ArriveAndWait
<1>2. /\ "arrive" \in Await /\ kind = "barrier" /\ obj.remaining > 0
      /\ at \in [Coroutine -> {"running"} \union Suspended]
      /\ on \in [Coroutine -> Await \union {"none"}]
      /\ waiters \in [Await -> Seq(Coroutine)] /\ ready \in Seq(Coroutine) /\ obj \in ObjType
      /\ on' = [on EXCEPT ![c] = "arrive"] /\ UNCHANGED <<kind, alive, token, holds, cancelled>>
      /\ obj' = [obj EXCEPT !.remaining = obj.remaining - 1]
  BY DEF IInv, TypeOK, ObjType, Await, ArriveAndWait
<1>3. /\ waiters["arrive"] \in Seq(Coroutine) /\ IsInjective(waiters["arrive"])
      /\ Range(waiters["arrive"]) = {d \in Coroutine : at[d] = "parked" /\ on[d] = "arrive"}
  BY <1>1, <1>2 DEF IInv, Filed
<1>4. all \in Seq(Coroutine) /\ IsInjective(all) /\ Range(all) = Range(waiters["arrive"]) \cup {c}
  BY <1>1, <1>2, <1>3, AppendedQueue
<1>5. obj.remaining - 1 \in 0..Expected
  BY <1>2, SizesAssumption DEF ObjType
<1>6. obj' \in ObjType /\ SameLocks /\ obj'.signaled = obj.signaled /\ obj'.count = obj.count
      /\ obj'.remaining = obj.remaining - 1
  BY <1>2, <1>5 DEF ObjType, SameLocks
<1>7. \A d \in Coroutine : at[d] = "parked" => on[d] = "arrive"
  BY <1>2 DEF IInv, Placed, Belongs
<1> HIDE DEF all
<1>8. CASE obj.remaining = 1
  <2>1. /\ at' = [d \in Coroutine |-> IF d \in Range(all) THEN "woken" ELSE at[d]]
        /\ ready' = ready \o all /\ waiters' = [waiters EXCEPT !["arrive"] = <<>>]
    BY <1>8 DEF ArriveAndWait, Schedule, all
  <2>2. Range(ready) \cap Range(all) = {}
    BY <1>1, <1>3, <1>4 DEF IInv, Queued, Scheduled
  <2>3. ready' \in Seq(Coroutine) /\ IsInjective(ready') /\ Range(ready') = Range(ready) \cup Range(all)
    BY <2>1, <2>2, <1>2, <1>4, JoinedQueues DEF IInv, Queued
  <2>4. \A d \in Coroutine : d \in Range(ready) \cup Range(all) <=> at'[d] \in Scheduled
    BY <2>1 DEF IInv, Queued, Scheduled
  <2>5. Queued(at, ready)'
    BY <2>3, <2>4, <1>3, <1>4 DEF IInv, Queued
  <2>6. \A d \in Coroutine : at'[d] # "parked"
    BY <2>1, <1>3, <1>4, <1>7
  <2>7. waiters' \in [Await -> Seq(Coroutine)] /\ \A v \in Await : waiters'[v] = IF v = "arrive" THEN <<>> ELSE waiters[v]
    BY <2>1, <1>2, EmptyQueue
  <2>8. Filed(at, on, waiters)'
    <3> SUFFICES ASSUME NEW v \in Await PROVE IsInjective(waiters'[v]) /\ Range(waiters'[v]) = {}
      BY <2>6 DEF Filed
    <3>1. CASE v = "arrive"
      BY <3>1, <2>7, EmptyQueue
    <3>2. CASE v # "arrive"
      BY <3>2, <2>7, <1>1, <1>7 DEF IInv, Filed
    <3> QED
      BY <3>1, <3>2
  <2>9. Placed(kind, at, on, holds)'
    BY <2>1, <1>1, <1>2, <1>3, <1>4 DEF IInv, Placed, Belongs
  <2>10. at' \in [Coroutine -> {"running"} \union Suspended]
    BY <2>1, <1>2 DEF Suspended
  <2>11. TypeOK'
    BY <2>3, <2>7, <2>10, <1>2, <1>6 DEF IInv, TypeOK, ObjType
  <2>12. \A v \in Locks : Owned(v, at', on', holds') = Owned(v, at, on, holds)
    BY <2>1, <1>1, <1>2, <1>3, <1>4 DEF Owned, Locks
  <2>13. Counted(obj, at, on, holds)'
    BY <2>12, <1>6 DEF IInv, Counted, Locks, SameLocks
  <2>14. Waiting(obj, at, on)' /\ Apart(kind, obj)'
    BY <2>6, <1>2, <1>6 DEF Waiting, IInv, Apart
  <2> QED
    BY <2>5, <2>8, <2>9, <2>11, <2>13, <2>14, <1>1, <1>2 DEF IInv, Unowned
<1>9. CASE obj.remaining # 1
  <2>1. /\ at' = [at EXCEPT ![c] = "parked"] /\ ready' = ready
        /\ waiters' = [waiters EXCEPT !["arrive"] = all]
    BY <1>9 DEF ArriveAndWait, all
  <2>2. \A d \in Coroutine : at'[d] = (IF d = c THEN "parked" ELSE at[d]) /\ on'[d] = (IF d = c THEN "arrive" ELSE on[d])
    BY <2>1, <1>2
  <2>3. Queued(at, ready)'
    BY <2>1, <2>2, <1>1 DEF IInv, Queued, Scheduled
  <2>4. waiters' \in [Await -> Seq(Coroutine)] /\ \A v \in Await : waiters'[v] = IF v = "arrive" THEN all ELSE waiters[v]
    BY <2>1, <1>2, <1>4
  <2>5. Filed(at, on, waiters)'
    <3> SUFFICES ASSUME NEW v \in Await
                 PROVE  /\ IsInjective(waiters'[v])
                        /\ Range(waiters'[v]) = {d \in Coroutine : at'[d] = "parked" /\ on'[d] = v}
      BY DEF Filed
    <3>1. CASE v = "arrive"
      BY <3>1, <2>2, <2>4, <1>3, <1>4
    <3>2. CASE v # "arrive"
      BY <3>2, <2>2, <2>4, <1>1, <1>7 DEF IInv, Filed
    <3> QED
      BY <3>1, <3>2
  <2>6. Placed(kind, at, on, holds)'
    BY <2>2, <1>1, <1>2 DEF IInv, Placed, Belongs
  <2>7. at' \in [Coroutine -> {"running"} \union Suspended]
    BY <2>1, <1>2 DEF Suspended
  <2>8. TypeOK'
    BY <2>1, <2>4, <2>7, <1>2, <1>6 DEF IInv, TypeOK, ObjType
  <2>9. \A v \in Locks : Owned(v, at', on', holds') = Owned(v, at, on, holds)
    BY <2>2, <1>1, <1>2 DEF Owned, Locks
  <2>10. Counted(obj, at, on, holds)'
    BY <2>9, <1>6 DEF IInv, Counted, Locks, SameLocks
  <2>11. obj'.remaining > 0
    BY <1>9, <1>2, <1>6 DEF ObjType
  <2>12. Waiting(obj, at, on)' /\ Apart(kind, obj)'
    BY <2>2, <2>11, <1>2, <1>6, <1>7 DEF Waiting, IInv, Apart
  <2> QED
    BY <2>3, <2>5, <2>6, <2>8, <2>10, <2>12, <1>1, <1>2 DEF IInv, Unowned
<1> QED
  BY <1>8, <1>9
\* barrier::reset.
LEMMA ResetBarrierStep ==
    ASSUME IInv, ResetBarrier
    PROVE  IInv'
<1>1. /\ alive /\ kind = "barrier" /\ obj \in ObjType /\ obj.remaining = 0
      /\ obj' = [obj EXCEPT !.remaining = Expected] /\ waiters' = [waiters EXCEPT !["arrive"] = <<>>]
      /\ waiters \in [Await -> Seq(Coroutine)] /\ "arrive" \in Await
      /\ UNCHANGED <<kind, alive, at, on, token, holds, cancelled, ready>>
  BY DEF IInv, TypeOK, ObjType, ResetBarrier, Await
<1>2. \A d \in Coroutine : at[d] # "parked"
  BY <1>1 DEF IInv, Placed, Belongs, Waiting
<1>3. Expected \in 0..Expected /\ Expected > 0
  BY SizesAssumption
<1>4. obj' \in ObjType /\ SameLocks /\ obj'.count = obj.count
  BY <1>1, <1>3 DEF ObjType, SameLocks
<1>5. waiters' \in [Await -> Seq(Coroutine)] /\ \A v \in Await : waiters'[v] = IF v = "arrive" THEN <<>> ELSE waiters[v]
  BY <1>1, EmptyQueue
<1>6. Filed(at, on, waiters)'
  <2> SUFFICES ASSUME NEW v \in Await PROVE IsInjective(waiters'[v]) /\ Range(waiters'[v]) = {}
    BY <1>1, <1>2 DEF Filed
  <2>1. CASE v = "arrive"
    BY <2>1, <1>5, EmptyQueue
  <2>2. CASE v # "arrive"
    BY <2>2, <1>1, <1>2, <1>5 DEF IInv, Filed
  <2> QED
    BY <2>1, <2>2
<1>7. TypeOK'
  BY <1>1, <1>4, <1>5 DEF IInv, TypeOK, ObjType
<1>8. Counted(obj, at, on, holds)' /\ Waiting(obj, at, on)' /\ Apart(kind, obj)'
  BY <1>1, <1>2, <1>4 DEF IInv, Counted, SameLocks, Waiting, Apart
<1> QED
  BY <1>1, <1>6, <1>7, <1>8 DEF IInv, Unowned

\* A step that changes a flag of an event, of which nobody waits.
LEMMA SignalStep ==
    ASSUME IInv, alive, IsEvent, NEW b \in BOOLEAN, obj' = [obj EXCEPT !.signaled = b],
           obj.signaled, UNCHANGED <<kind, waiters, alive, at, on, token, holds, cancelled, ready>>
    PROVE  IInv'
<1>1. obj \in ObjType /\ kind # "latch"
  BY DEF IInv, TypeOK, ObjType, IsEvent
<1>2. obj' \in ObjType /\ SameLocks /\ obj'.count = obj.count
  BY <1>1 DEF ObjType, SameLocks
<1>3. \A d \in Coroutine : at[d] # "parked"
  BY DEF IInv, Placed, Belongs, Waiting, IsEvent
<1>4. TypeOK'
  BY <1>2 DEF IInv, TypeOK, ObjType
<1>5. Counted(obj, at, on, holds)' /\ Waiting(obj, at, on)' /\ Apart(kind, obj)' /\ Filed(at, on, waiters)'
  BY <1>1, <1>2, <1>3 DEF IInv, Counted, SameLocks, Waiting, Apart
<1> QED
  BY <1>4, <1>5 DEF IInv, Unowned

\* async_event: wait, set, reset.
LEMMA EventStep ==
    ASSUME IInv, (\E c \in Coroutine : WaitEvent(c)) \/ SetEvent \/ ResetEvent
    PROVE  IInv'
<1>1. ASSUME NEW c \in Coroutine, WaitEvent(c) PROVE IInv'
  <2>1. /\ Idle(c) /\ alive /\ IsEvent /\ Belongs("wait", kind) /\ "wait" \in Await /\ obj.count > 0
        /\ UNCHANGED <<kind, alive, token, cancelled>> /\ token' \in [Coroutine -> BOOLEAN]
    BY <1>1 DEF WaitEvent, Idle, IsEvent, Belongs, Await, IInv, TypeOK, Apart
  <2>2. CASE obj.signaled /\ obj' = [obj EXCEPT !.signaled = (kind = "event")]
             /\ UNCHANGED <<waiters, at, on, ready, holds>>
    BY <2>1, <2>2, SignalStep
  <2>3. CASE ~obj.signaled /\ Park(c, "wait") /\ UNCHANGED obj
    BY <2>1, <2>3, ParkStep
  <2> QED
    BY <1>1, <2>2, <2>3 DEF WaitEvent
<1>2. ASSUME SetEvent PROVE IInv'
  <2>1. Posed(at, on, holds, ready) /\ Counted(obj, at, on, holds) /\ Waiting(obj, at, on)
    BY <1>2 DEF SetEvent, IInv, TypeOK, Posed
  <2>2. /\ alive /\ IsEvent /\ set_event(at, ready) /\ UNCHANGED <<kind, alive, on, token, holds, cancelled>>
        /\ token' \in [Coroutine -> BOOLEAN]
    BY <1>2 DEF SetEvent, IInv, TypeOK
  <2> QED
    BY <2>1, <2>2, SetEventStep
<1>3. ASSUME ResetEvent PROVE IInv'
  BY <1>3, SignalStep DEF ResetEvent
<1> QED
  BY <1>1, <1>2, <1>3

\* latch: wait, count_down.
LEMMA LatchStep ==
    ASSUME IInv, (\E c \in Coroutine : WaitLatch(c)) \/ (\E n \in 1..Count : CountDown(n))
    PROVE  IInv'
<1>1. ASSUME NEW c \in Coroutine, WaitLatch(c) PROVE IInv'
  <2>1. /\ Idle(c) /\ Belongs("wait", kind) /\ "wait" \in Await /\ obj.count > 0 /\ ~obj.signaled
        /\ Park(c, "wait") /\ UNCHANGED <<kind, obj, alive, cancelled>> /\ token' \in [Coroutine -> BOOLEAN]
    BY <1>1 DEF WaitLatch, Belongs, Await, IInv, TypeOK, Apart
  <2> QED
    BY <2>1, ParkStep
<1>2. ASSUME NEW n \in 1..Count, CountDown(n) PROVE IInv'
  <2>1. /\ kind = "latch" /\ alive /\ obj \in ObjType /\ obj.count \in Nat /\ obj.count <= Count /\ ~obj.signaled
        /\ UNCHANGED <<kind, alive, on, token, holds, cancelled>> /\ token' \in [Coroutine -> BOOLEAN]
        /\ waiters \in [Await -> Seq(Coroutine)] /\ "wait" \in Await
    BY <1>2, SizesAssumption DEF CountDown, IInv, TypeOK, ObjType, Apart, Await
  <2>2. Posed(at, on, holds, ready) /\ Counted(obj, at, on, holds) /\ Waiting(obj, at, on)
    BY <2>1 DEF IInv, TypeOK, Posed
  <2>3. \A c \in Coroutine : at[c] = "parked" => on[c] = "wait" /\ c \in Range(waiters["wait"])
    BY <2>1 DEF IInv, Placed, Belongs, Filed
  <2>4. (IF n >= obj.count THEN 0 ELSE obj.count - n) \in 0..Count
    BY <2>1, SizesAssumption
  <2>5. /\ obj' \in ObjType /\ SameLocks /\ obj'.signaled = obj.signaled
        /\ obj'.count = IF n >= obj.count THEN 0 ELSE obj.count - n
    BY <1>2, <2>1, <2>4 DEF CountDown, ObjType, SameLocks
  <2>6. Apart(kind, obj')
    BY <2>1, <2>5 DEF Apart
  <2>7. CASE n >= obj.count
    <3>1. Wake("wait", waiters["wait"], <<>>, at, ready)
      BY <1>2, <2>7 DEF CountDown, Wake, Popped
    <3>2. \A c \in Coroutine : at'[c] # "parked"
      BY <3>1, <2>3 DEF Wake, Schedule
    <3>3. Waiting(obj', at', on)
      BY <3>2 DEF Waiting
    <3> QED
      BY <2>1, <2>2, <2>5, <2>6, <3>1, <3>3, OpenStep
  <2>8. CASE ~(n >= obj.count)
    <3>1. UNCHANGED <<waiters, at, ready>>
      BY <1>2, <2>8 DEF CountDown
    <3>2. obj'.count > 0
      BY <2>1, <2>5, <2>8
    <3>3. Waiting(obj', at', on')
      BY <2>1, <2>3, <2>5, <3>1, <3>2 DEF Waiting
    <3>4. TypeOK'
      BY <2>1, <2>5, <3>1 DEF IInv, TypeOK, ObjType
    <3>5. Counted(obj', at', on', holds')
      BY <2>1, <2>2, <2>5, <3>1 DEF Counted, SameLocks
    <3> QED
      BY <2>1, <2>6, <3>1, <3>3, <3>4, <3>5 DEF IInv, Unowned
  <2> QED
    BY <2>7, <2>8
<1> QED
  BY <1>1, <1>2

\* The scheduler resumes the first of the ready queue.
LEMMA ResumeStep ==
    ASSUME IInv, Resume
    PROVE  IInv'
<1> DEFINE c == Head(ready)
<1>1. /\ at \in [Coroutine -> {"running"} \union Suspended]
      /\ on \in [Coroutine -> Await \union {"none"}]
      /\ holds \in [Coroutine -> Locks \union {"none"}]
      /\ token \in [Coroutine -> BOOLEAN]
      /\ ready \in Seq(Coroutine) /\ ready # <<>> /\ IsInjective(ready)
      /\ Range(ready) = {d \in Coroutine : at[d] \in Scheduled}
  BY DEF IInv, TypeOK, Queued, Resume
<1>2. /\ c \in Coroutine /\ c \in Range(ready) /\ at[c] \in Scheduled
      /\ ready' \in Seq(Coroutine) /\ IsInjective(ready') /\ Range(ready') = Range(ready) \ {c}
  BY <1>1, HeadAndTail DEF Resume
<1>3. /\ at' = [at EXCEPT ![c] = "running"] /\ on' = [on EXCEPT ![c] = "none"]
      /\ token' = [token EXCEPT ![c] = FALSE]
      /\ holds' = [holds EXCEPT ![c] = IF on[c] \in Locks /\ at[c] # "cancelled" THEN on[c] ELSE "none"]
      /\ UNCHANGED <<kind, obj, waiters, alive, cancelled>>
  BY DEF Resume
<1> HIDE DEF c
<1>4. /\ \A d \in Coroutine \ {c} : at'[d] = at[d] /\ on'[d] = on[d] /\ holds'[d] = holds[d]
      /\ at'[c] = "running" /\ on'[c] = "none"
      /\ holds'[c] = IF on[c] \in Locks /\ at[c] # "cancelled" THEN on[c] ELSE "none"
      /\ holds[c] = "none" /\ Belongs(on[c], kind) /\ at[c] \in {"woken", "granted", "cancelled"}
  BY <1>1, <1>2, <1>3 DEF IInv, Placed, Scheduled
<1>5. TypeOK'
  <2>1. /\ at' \in [Coroutine -> {"running"} \union Suspended]
        /\ on' \in [Coroutine -> Await \union {"none"}] /\ token' \in [Coroutine -> BOOLEAN]
        /\ holds' \in [Coroutine -> Locks \union {"none"}]
    BY <1>1, <1>3
  <2> QED
    BY <2>1, <1>2, <1>3 DEF IInv, TypeOK
<1>6. Placed(kind, at, on, holds)'
  BY <1>3, <1>4 DEF IInv, Placed
<1>7. Queued(at, ready)'
  BY <1>1, <1>2, <1>4 DEF Queued, Scheduled
<1>8. \A d \in Coroutine : at'[d] = "parked" <=> at[d] = "parked"
  BY <1>4
<1>9. alive => Filed(at, on, waiters)' /\ Waiting(obj, at, on)'
  <2> SUFFICES ASSUME alive PROVE Filed(at', on', waiters') /\ Waiting(obj', at', on')
    OBVIOUS
  <2>1. \A d \in Coroutine, v \in Await : at'[d] = "parked" /\ on'[d] = v <=> at[d] = "parked" /\ on[d] = v
    BY <1>4
  <2>2. Filed(at', on', waiters')
    BY <1>3, <2>1 DEF IInv, Filed
  <2>3. Waiting(obj', at', on')
    BY <1>3, <1>4 DEF IInv, Waiting
  <2> QED
    BY <2>2, <2>3
<1>10. \A v \in Locks : Owned(v, at', on', holds') = Owned(v, at, on, holds)
  BY <1>4 DEF Owned, Locks
<1>11. Counted(obj, at, on, holds)'
  BY <1>3, <1>10 DEF IInv, Counted, Locks
<1>12. Unowned'
  BY <1>3, <1>10 DEF IInv, Unowned, Owners, Owned
<1> QED
  BY <1>3, <1>5, <1>6, <1>7, <1>9, <1>11, <1>12 DEF IInv

\* The object goes while coroutines wait on it.
LEMMA DropStep ==
    ASSUME IInv, DropObject
    PROVE  IInv'
<1>1. alive' = FALSE /\ kind \in Droppable /\ UNCHANGED <<kind, obj, waiters, at, on, token, holds, cancelled, ready>>
  BY DEF DropObject
<1>2. \A w \in Locks : Owners(w) = {}
  BY DEF DropObject, Owners, Locks
<1>3. Unowned'
  BY <1>1, <1>2 DEF Unowned, Owners
<1>4. TypeOK'
  BY <1>1 DEF IInv, TypeOK
<1> QED
  BY <1>1, <1>3, <1>4 DEF IInv

\* A cancellation wakes the waiters that have its token.
LEMMA CancelStep ==
    ASSUME IInv, "semaphore" \notin Droppable, Cancel
    PROVE  IInv'
<1> DEFINE q == waiters["acquire"]
           hooked == Keep(q, {c \in Coroutine : token[c]})
           kept == Keep(q, {c \in Coroutine : ~token[c]})
<1>1. /\ kind = "semaphore" /\ alive /\ "acquire" \in Await
      /\ at \in [Coroutine -> {"running"} \union Suspended]
      /\ waiters \in [Await -> Seq(Coroutine)] /\ ready \in Seq(Coroutine)
      /\ q \in Seq(Coroutine) /\ IsInjective(q)
      /\ Range(q) = {c \in Coroutine : at[c] = "parked" /\ on[c] = "acquire"}
  BY DEF IInv, TypeOK, Cancel, Unowned, Await, Filed
<1>2. /\ hooked \in Seq(Coroutine) /\ IsInjective(hooked)
      /\ Range(hooked) = Range(q) \cap {c \in Coroutine : token[c]}
  BY <1>1, KeepIsTrue
<1>3. /\ kept \in Seq(Coroutine) /\ IsInjective(kept)
      /\ Range(kept) = Range(q) \cap {c \in Coroutine : ~token[c]}
  BY <1>1, KeepIsTrue
<1>4. /\ at' = [c \in Coroutine |-> IF c \in Range(hooked) THEN "cancelled" ELSE at[c]]
      /\ ready' = ready \o hooked /\ waiters' = [waiters EXCEPT !["acquire"] = kept]
      /\ cancelled' = TRUE /\ UNCHANGED <<kind, obj, alive, on, token, holds>>
  BY DEF Cancel
<1>5. \A c \in Range(hooked) : c \in Coroutine /\ at[c] = "parked" /\ on[c] = "acquire" /\ token[c]
  BY <1>1, <1>2
<1>6. \A c : c \in Range(kept) <=> c \in Range(q) /\ c \notin Range(hooked)
  BY <1>1, <1>2, <1>3
<1> HIDE DEF q, hooked, kept
<1>7. Range(ready) \cap Range(hooked) = {}
  BY <1>5 DEF IInv, Queued, Scheduled
<1>8. ready' \in Seq(Coroutine) /\ IsInjective(ready') /\ Range(ready') = Range(ready) \cup Range(hooked)
  BY <1>1, <1>2, <1>4, <1>7, JoinedQueues DEF IInv, Queued
<1>9. Queued(at, ready)'
  <2>1. \A d \in Coroutine : d \in Range(ready) \cup Range(hooked) <=> at'[d] \in Scheduled
    BY <1>4 DEF IInv, Queued, Scheduled
  <2> QED
    BY <2>1, <1>5, <1>8 DEF IInv, Queued
<1>10. Filed(at, on, waiters)'
  <2> SUFFICES ASSUME NEW v \in Await
               PROVE  /\ IsInjective(waiters'[v])
                      /\ Range(waiters'[v]) = {d \in Coroutine : at'[d] = "parked" /\ on'[d] = v}
    BY DEF Filed
  <2>1. waiters'[v] = IF v = "acquire" THEN kept ELSE waiters[v]
    BY <1>1, <1>4
  <2>2. CASE v = "acquire"
    BY <2>1, <2>2, <1>1, <1>3, <1>4, <1>6
  <2>3. CASE v # "acquire"
    BY <2>1, <2>3, <1>1, <1>4, <1>5 DEF IInv, Filed
  <2> QED
    BY <2>2, <2>3
<1>11. Placed(kind, at, on, holds)'
  BY <1>1, <1>4, <1>5 DEF IInv, Placed
<1>12. \A v \in Locks : Owned(v, at', on', holds') = Owned(v, at, on, holds)
  BY <1>4, <1>5 DEF Owned, Locks
<1>13. Counted(obj, at, on, holds)'
  BY <1>4, <1>12 DEF IInv, Counted, Locks
<1>14. Waiting(obj, at, on)'
  BY <1>1, <1>4 DEF IInv, Waiting
<1>15. TypeOK'
  <2>1. at' \in [Coroutine -> {"running"} \union Suspended] /\ waiters' \in [Await -> Seq(Coroutine)]
    BY <1>1, <1>3, <1>4 DEF Suspended
  <2> QED
    BY <2>1, <1>4, <1>8 DEF IInv, TypeOK
<1> QED
  BY <1>1, <1>4, <1>9, <1>10, <1>11, <1>13, <1>14, <1>15 DEF IInv, Unowned

-----------------------------------------------------------------------------
(* Frames are destroyed while they are parked or woken, not after an await *)
(* that was granted at once, and a semaphore outlives its token.           *)
Bounded == "granted" \notin Reclaim /\ "semaphore" \notin Droppable

\* Every step keeps the inductive invariant.
LEMMA NextIInv == ASSUME Bounded PROVE IInv /\ [Next]_vars => IInv'
<1> SUFFICES ASSUME IInv, [Next]_vars PROVE IInv'
  OBVIOUS
<1>1. CASE UNCHANGED vars
  BY <1>1 DEF vars, IInv, TypeOK, Placed, Queued, Filed, Counted, Owned, Waiting, Apart, Unowned, Owners
<1>2. ASSUME NEW c \in Coroutine, Destroy(c) PROVE IInv'
  BY <1>2, DestroyParkedStep, DestroyScheduledStep DEF Destroy, Bounded
<1>3. CASE Next
  BY <1>2, <1>3, AcquireStep, MutexStep, RwLockStep, ReleaseStep, ArriveStep, EventStep, LatchStep,
     CancelStep, ResetBarrierStep, ResumeStep, DropStep DEF Next, Bounded
<1> QED
  BY <1>1, <1>3
\* So it holds in every state.
LEMMA Invariance == ASSUME Bounded PROVE Spec => []IInv
<1>1. Init => IInv
  BY InitIInv
<1>2. IInv /\ [Next]_vars => IInv'
  BY NextIInv
<1> QED
  BY <1>1, <1>2, PTL DEF Spec

(* Permits and locks are conserved, for any number of coroutines, permits, *)
(* arrivals and counts: what release(), unlock(), unlock_read() and        *)
(* unlock_write() hand over, what the destructors of the awaiters of a     *)
(* frame reclaimed after its hand-off give back, and what a cancelled      *)
(* acquire leaves alone.                                                   *)
THEOREM SyncConserves == ASSUME Bounded PROVE Spec => []OwnershipConserved
<1>1. IInv => OwnershipConserved
  BY IInvIsEnough
<1> QED
  BY <1>1, Invariance, PTL

(* The deques of a living object and the scheduler's ready queue hold the  *)
(* handles of suspended frames, each once, whatever is destroyed while it  *)
(* is parked or woken: no pop_front() returns a handle of a frame that is  *)
(* gone.                                                                   *)
THEOREM SyncHandlesAreLive == ASSUME Bounded PROVE Spec => []HandlesAreLive
<1>1. IInv => HandlesAreLive
  BY IInvIsEnough
<1> QED
  BY <1>1, Invariance, PTL

(* No wake-up is lost: whoever is parked on a living object waits for      *)
(* something that is still taken, closed or incomplete.                    *)
THEOREM SyncLosesNoWakeUp == ASSUME Bounded PROVE Spec => []ParkedForAReason
<1>1. IInv => ParkedForAReason
  BY IInvIsEnough
<1> QED
  BY <1>1, Invariance, PTL

\* A woken waiter of an auto-reset event goes back to running otherwise than
\* by Resume only in Destroy, whose set_event passes the signal on.
LEMMA SignalPassesOn ==
    ASSUME IInv, [Next]_vars, NEW c \in Coroutine,
           kind = "auto_event", alive, at[c] = "woken", at'[c] = "running", ~Resume
    PROVE  obj'.signaled \/ \E d \in Coroutine : at[d] = "parked" /\ at'[d] = "woken"
<1>1. /\ at \in [Coroutine -> {"running"} \union Suspended] /\ waiters \in [Await -> Seq(Coroutine)]
      /\ obj \in ObjType /\ "wait" \in Await /\ Filed(at, on, waiters) /\ on[c] = "wait"
  BY DEF IInv, TypeOK, ObjType, Await, Placed, Belongs
<1>2. DestroyScheduled(c)
  <2>1. Next
    BY <1>1 DEF vars
  <2>2. \A d \in Coroutine : ~Release(d)
    BY DEF Release, IInv, TypeOK, Placed, Belongs, Locks
  <2>3. ASSUME SetEvent PROVE FALSE
    BY <2>3 DEF SetEvent, set_event, Schedule
  <2>4. PICK d \in Coroutine : WaitEvent(d) \/ Destroy(d)
    BY <2>1, <2>2, <2>3, <1>1 DEF Next, Acquire, Lock, TryLock, LockRead, LockWrite, ArriveAndWait, WaitLatch, Cancel,
       ResetBarrier, ResetEvent, CountDown, DropObject
  <2>5. ~WaitEvent(d)
    BY <1>1 DEF WaitEvent, Park
  <2>6. Destroy(d)
    BY <2>4, <2>5
  <2>7. d = c
    <3>1. SUFFICES ASSUME d # c PROVE FALSE
      OBVIOUS
    <3>2. CASE DestroyParked(d)
      BY <3>1, <3>2, <1>1 DEF DestroyParked
    <3>3. CASE DestroyScheduled(d)
      <4>1. on[d] \notin Locks \/ at[d] # "woken"
        BY DEF IInv, Placed, Belongs, Locks
      <4> QED
        BY <3>1, <3>3, <4>1, <1>1 DEF DestroyScheduled, set_event, Schedule
    <3> QED
      BY <2>6, <3>2, <3>3 DEF Destroy
  <2> QED
    BY <2>6, <2>7 DEF Destroy, DestroyParked
<1>3. set_event([at EXCEPT ![c] = "running"], Keep(ready, Coroutine \ {c}))
  BY <1>1, <1>2 DEF DestroyScheduled, Locks
<1>4. CASE waiters["wait"] = <<>>
  BY <1>1, <1>3, <1>4 DEF set_event, ObjType
<1>5. CASE waiters["wait"] # <<>>
  <2>1. Schedule(<<Head(waiters["wait"])>>, [at EXCEPT ![c] = "running"], Keep(ready, Coroutine \ {c}))
    BY <1>3, <1>5 DEF set_event
  <2>2. /\ Head(waiters["wait"]) \in Coroutine /\ Head(waiters["wait"]) \in Range(waiters["wait"])
        /\ Range(<<Head(waiters["wait"])>>) = {Head(waiters["wait"])}
    BY <1>1, <1>5, HeadAndTail, OneElement DEF Filed
  <2>3. at[Head(waiters["wait"])] = "parked"
    BY <1>1, <2>2 DEF Filed
  <2>4. at'[Head(waiters["wait"])] = "woken"
    BY <2>1, <2>2 DEF Schedule
  <2> QED
    BY <2>2, <2>3, <2>4
<1> QED
  BY <1>4, <1>5

(* The signal of an auto-reset event is not lost with the waiter it woke:  *)
(* when that frame is reclaimed before it runs, ~wait_awaiter sets the     *)
(* event again, which wakes another waiter or leaves it set.               *)
THEOREM SignalIsNotLost == ASSUME Bounded PROVE Spec => SignalSurvivesReclaim
<1>1. IInv /\ [Next]_vars => [\A c \in Coroutine :
          (kind = "auto_event" /\ alive /\ at[c] = "woken" /\ at'[c] = "running" /\ ~Resume)
          => obj'.signaled \/ \E d \in Coroutine : at[d] = "parked" /\ at'[d] = "woken"]_vars
  BY SignalPassesOn
<1> QED
  BY <1>1, Invariance, PTL DEF Spec, SignalSurvivesReclaim
=============================================================================
