------------------------ MODULE ActorLifecycleProofs ------------------------
(***************************************************************************)
(* ActorLifecycle, for any number of actors, ids, events and any stash     *)
(* cap: the core keeps nothing stale, the stash neither loses nor          *)
(* reorders, and nobody is destroyed in another's place.                   *)
(*                                                                         *)
(* All rest on one picture of the tables.  An id belongs to the live       *)
(* actor registered under it, and whatever else is filed under the id is   *)
(* of that actor (Owned).  A killed actor is marked somewhere until it is  *)
(* gone, in the reap set, its batch, or among those that wait for their    *)
(* frame (Marked), and the place in the pass says where (InPass).  The     *)
(* last theorem adds why an id is in the reap set (Reasons).               *)
(***************************************************************************)
EXTENDS ActorLifecycle, FiniteSetTheorems, WellFoundedInduction,
        NaturalsInduction, TLAPS

(* What the theorems are about: one type of actor only, onInit() awaits    *)
(* that can be cancelled, and a pool that does not run out while actors    *)
(* with an asynchronous onInit() are added.  Without the first the router  *)
(* keeps a pointer to a refused service, without the second a dying actor  *)
(* ticks, without the third a frame outlives its actor.                    *)
Contained ==
    /\ Service = {} /\ Aware
    /\ "suspended" \in Outcomes =>
          IsFiniteSet(Obj) /\ Cardinality(Obj) <= Cardinality(Pool)

Life == [st : {"unborn", "live", "destroyed"}, id : Ids, alive : BOOLEAN,
         activated : BOOLEAN, cancelled : BOOLEAN, failed : BOOLEAN]

TablesTyped ==
    /\ obj \in [Obj -> Life]
    /\ free \subseteq Pool
    /\ actors \in [Ids -> Obj \cup {None}]
    /\ subs \in [Ids -> Obj \cup {None}]
    /\ callbacks \in [Ids -> Obj \cup {None}]
    /\ activating \in [Ids -> Activation \cup {None}]
    /\ dying \subseteq Ids
    /\ to_remove \subseteq Ids

LoopsTyped ==
    /\ pc \in {"run", "pump", "recv", "tick", "reap", "left"}
    /\ todo \subseteq Ids
    /\ due \subseteq Ids
    /\ snapshot \subseteq Ids \X Obj
    /\ replay \in [id : Ids, rest : Seq(Event)]

HistoryTyped ==
    /\ arrived \in [Obj -> Seq(Event)]
    /\ delivered \in [Obj -> Seq(Event)]
    /\ overflowed \subseteq Obj

(* An id belongs to the live actor registered under it, and so does all    *)
(* that is filed under the id.                                             *)
OwnsId(o) == obj[o].st = "live" => obj[o].id # NotFound /\ actors[obj[o].id] = o

HoldsActor(i) ==
    /\ actors[i] # None => obj[actors[i]].st = "live" /\ obj[actors[i]].id = i
    /\ subs[i] = actors[i]
    /\ callbacks[i] # None => callbacks[i] = actors[i]
    /\ activating[i] # None => activating[i].obj = actors[i]
    /\ i \in free => actors[i] = None
    /\ i \in dying => activating[i] # None /\ obj[activating[i].obj].cancelled

(* An id that is not in the pool was given to some actor, once at least.   *)
Given(i) == i \in free \/ \E o \in Obj : obj[o].st # "unborn" /\ obj[o].id = i

Owned ==
    /\ \A o \in Obj : OwnsId(o)
    /\ \A i \in Ids : HoldsActor(i)
    /\ \A i \in Pool : Given(i)

(* A killed actor is marked until it is gone.                              *)
Marked(i) == actors[i] # None =>
    \/ Alive(actors[i]) \/ i \in to_remove \/ i \in dying
    \/ pc = "reap" /\ i \in todo

(* Where the marks are in each part of the pass.                           *)
InPass ==
    /\ pc = "run" => /\ \A i \in dying : activating[i].done \/ i \in due
                     /\ ~CoroKill => to_remove = {}
    /\ pc = "pump" => /\ \A i \in todo : activating[i] # None /\ activating[i].done
                      /\ dying \subseteq todo
    /\ pc \in {"recv", "tick"} => dying = {}
    /\ pc # "tick" => snapshot = {}

(* A callback about to tick is of the actor that has its id, not killed.   *)
Ticking(i, o) == actors[i] = o /\ (i \in to_remove \/ Alive(o))

Swept ==
    /\ \A i \in Ids : Marked(i)
    /\ InPass
    /\ pc = "tick" => \A entry \in snapshot : Ticking(entry[1], entry[2])

(* The stash, and what is left of the one being replayed.                  *)
Held(i) == IF replay.id = i THEN replay.rest ELSE <<>>

InOrder(o) == Alive(o) /\ o \notin overflowed =>
    LET i == obj[o].id IN
    IF activating[i] # None
    THEN delivered[o] = <<>> /\ arrived[o] = activating[i].stash
    ELSE arrived[o] = delivered[o] \o Held(i)

Stashed ==
    /\ \A o \in Obj : InOrder(o)
    /\ \A o \in Obj : obj[o].st = "unborn" => arrived[o] = <<>> /\ delivered[o] = <<>>
    /\ \A i \in Ids : activating[i] # None => Len(activating[i].stash) <= StashCap
    /\ replay.rest # <<>> =>
          pc = "pump" /\ actors[replay.id] # None /\ activating[replay.id] = None

Typed == TablesTyped /\ LoopsTyped /\ HistoryTyped

LifeInv == Typed /\ Owned /\ Swept /\ Stashed

-----------------------------------------------------------------------------
(* Ids *)

\* ServiceIdPool::acquire takes an id that is free.
LEMMA MinIsFree ==
  ASSUME LifecycleAssumption, free \subseteq Pool, free # {}
  PROVE  Min(free) \in free
<1>1. free \subseteq Nat
  BY DEF LifecycleAssumption, Pool
<1>2. IsWellFoundedOn(OpToRel(<, Nat), Nat)
  BY NatLessThanWellFounded
<1>3. PICK x \in free : \A y \in free : ~(<<y, x>> \in OpToRel(<, Nat))
  BY <1>1, <1>2, WFMin
<1>4. ASSUME NEW y \in free PROVE x <= y
  <2>1. y \in Nat /\ x \in Nat
    BY <1>1
  <2>2. y < x => <<y, x>> \in OpToRel(<, Nat)
    BY <2>1, Zenon DEF OpToRel
  <2>3. ~(<<y, x>> \in OpToRel(<, Nat))
    BY <1>3, Zenon
  <2>4. ~(y < x)
    BY <2>2, <2>3, Zenon
  <2>5. QED
    BY <2>1, <2>4
<1>5. QED
  BY <1>4 DEF Min

\* The id of a new actor is nobody's.
LEMMA NewIdIsFresh ==
  ASSUME LifecycleAssumption, Contained, TablesTyped, Owned, NEW o \in Obj
  PROVE  /\ NewId(o) \in Ids
         /\ NewId(o) # NotFound => NewId(o) \in free
         /\ actors[NewId(o)] = None
         /\ callbacks[NewId(o)] = None
         /\ activating[NewId(o)] = None
         /\ NewId(o) \notin dying
<1>1. NewId(o) = IF free = {} THEN NotFound ELSE Min(free)
  BY DEF NewId, Contained
<1>2. NewId(o) \in Ids /\ (NewId(o) # NotFound => NewId(o) \in free)
  <2>1. free \subseteq Pool /\ Pool \subseteq Ids /\ NotFound \in Ids
    BY DEF TablesTyped, Ids, Pool, NotFound, LifecycleAssumption
  <2>2. free # {} => Min(free) \in free
    BY <2>1, MinIsFree
  <2>3. QED
    BY <1>1, <2>1, <2>2
<1>3. actors[NewId(o)] = None
  <2>1. CASE NewId(o) \in free
    BY <1>2, <2>1 DEF Owned, HoldsActor
  <2>2. CASE NewId(o) = NotFound
    BY <1>2, <2>2 DEF Owned, HoldsActor, OwnsId, TablesTyped, LifecycleAssumption
  <2>3. QED
    BY <1>2, <2>1, <2>2
<1>4. HoldsActor(NewId(o))
  BY <1>2 DEF Owned
<1>5. callbacks[NewId(o)] = None /\ activating[NewId(o)] = None
  BY <1>2, <1>3, <1>4 DEF HoldsActor, TablesTyped, LifecycleAssumption, Activation
<1>6. QED
  BY <1>2, <1>3, <1>4, <1>5 DEF HoldsActor

\* While a pool is as large as the number of actors, it does not run out.
LEMMA PoolLasts ==
  ASSUME LifecycleAssumption, Contained, TablesTyped, Owned,
         NEW o \in Obj, obj[o].st = "unborn", "suspended" \in Outcomes
  PROVE  NewId(o) # NotFound
<1>1. SUFFICES ASSUME free = {} PROVE FALSE
  BY MinIsFree DEF NewId, Contained, TablesTyped, Pool, NotFound, LifecycleAssumption
<1>2. IsFiniteSet(Obj) /\ Cardinality(Obj) <= Cardinality(Pool)
  BY DEF Contained
<1> DEFINE born == Obj \ {o}
           owner == [i \in Pool |-> CHOOSE x \in born : obj[x].id = i]
<1>3. \A i \in Pool : \E x \in born : obj[x].id = i
  BY <1>1 DEF Owned, Given
<1>4. owner \in Injection(Pool, born)
  <2>1. \A i \in Pool : owner[i] \in born /\ obj[owner[i]].id = i
    BY <1>3
  <2>2. QED
    BY <2>1 DEF Injection, IsInjective
<1>5. IsFiniteSet(born) /\ Cardinality(born) = Cardinality(Obj) - 1 /\ Cardinality(Obj) \in Nat
  BY <1>2, FS_RemoveElement, FS_CardinalityType
<1> HIDE DEF born, owner
<1>6. Cardinality(Pool) <= Cardinality(born) /\ IsFiniteSet(Pool)
  BY <1>4, <1>5, FS_Injection
<1>7. QED
  BY <1>2, <1>5, <1>6, FS_CardinalityType

-----------------------------------------------------------------------------
(* What user code does to the tables *)

(* An effect of user code creates or kills an actor, or adds a callback:   *)
(* what is filed under an id in use stays, and a kill is marked.           *)
KeepsActor(i) ==
    /\ actors[i] # None => actors'[i] = actors[i] /\ activating'[i] = activating[i]
    /\ \A o \in Obj : actors[i] = None /\ actors'[i] = o =>
          obj[o].st = "unborn" /\ Alive(o)'
    /\ actors[i] = None /\ activating'[i] # None => activating'[i].stash = <<>>

KeepsObject(o) ==
    /\ Alive(o)' => Alive(o) \/ obj[o].st = "unborn"
    /\ Alive(o) => Alive(o)' \/ obj[o].id \in to_remove'
    /\ obj[o].st # "unborn" => obj'[o].id = obj[o].id /\ obj'[o].st # "unborn"

Effected ==
    /\ TablesTyped' /\ Owned'
    /\ dying' = dying
    /\ to_remove \subseteq to_remove'
    /\ \A i \in Ids : KeepsActor(i)
    /\ \A o \in Obj : KeepsObject(o)

Tables == TablesTyped /\ Owned

\* A step that leaves the tables alone is an effect.
LEMMA NothingEffected ==
  ASSUME LifecycleAssumption, Tables, UNCHANGED tables
  PROVE  Effected
<1>0. TablesTyped /\ Owned
  BY DEF Tables
<1>1. \A o : Alive(o)' <=> Alive(o)
  BY DEF tables, Alive
<1>2. TablesTyped'
  BY <1>0 DEF TablesTyped, tables
<1>3. Owned'
  BY <1>0 DEF Owned, OwnsId, HoldsActor, Given, tables
<1>4. ASSUME NEW i \in Ids PROVE KeepsActor(i)
  <2>1. HoldsActor(i)
    BY <1>0 DEF Owned
  <2>2. actors[i] = None => activating[i] = None
    BY <1>0, <2>1 DEF HoldsActor, TablesTyped, Activation, LifecycleAssumption
  <2>3. QED
    BY <2>2 DEF KeepsActor, tables
<1>5. \A o \in Obj : KeepsObject(o)
  BY <1>1 DEF KeepsObject, tables
<1>6. QED
  BY <1>2, <1>3, <1>4, <1>5 DEF Effected, tables

\* kill() marks its actor and leaves every table entry where it is.
LEMMA KillEffected ==
  ASSUME LifecycleAssumption, Tables, NEW v \in Obj, Kill(v)
  PROVE  Effected
<1>0. TablesTyped /\ Owned
  BY DEF Tables
<1>1. obj[v].st = "live" /\ obj[v].id \in Ids
  BY <1>0 DEF Kill, Alive, TablesTyped, Life
<1>2. /\ \A o \in Obj : /\ obj'[o] \in Life
                        /\ obj'[o].st = obj[o].st /\ obj'[o].id = obj[o].id
                        /\ obj[o].cancelled => obj'[o].cancelled
                        /\ o # v => obj'[o] = obj[o]
      /\ obj'[v].alive = FALSE
      /\ obj' \in [Obj -> Life]
  <2>1. /\ obj' = [obj EXCEPT ![v] = [@ EXCEPT !.alive = FALSE, !.cancelled = TRUE]]
        /\ obj \in [Obj -> Life]
    BY <1>0 DEF Kill, TablesTyped
  <2>2. [obj[v] EXCEPT !.alive = FALSE, !.cancelled = TRUE] \in Life
    BY <2>1 DEF Life
  <2>3. obj'[v] = [obj[v] EXCEPT !.alive = FALSE, !.cancelled = TRUE]
    BY <2>1
  <2>4. /\ obj'[v].st = obj[v].st /\ obj'[v].id = obj[v].id
        /\ obj'[v].cancelled /\ obj'[v].alive = FALSE
    BY <2>1, <2>3 DEF Life
  <2>5. QED
    BY <2>1, <2>2, <2>4
<1>3. \A o \in Obj : o # v => (Alive(o)' <=> Alive(o))
  BY <1>2 DEF Alive
<1>4. ~Alive(v)'
  BY <1>2 DEF Alive
<1>5. TablesTyped'
  BY <1>0, <1>1, <1>2 DEF TablesTyped, Kill
<1>6. Owned'
  <2>1. ASSUME NEW o \in Obj PROVE OwnsId(o)'
    BY <1>0, <1>2 DEF Owned, OwnsId, Kill
  <2>2. ASSUME NEW i \in Ids PROVE HoldsActor(i)'
    <3>1. HoldsActor(i)
      BY <1>0 DEF Owned
    <3>2. /\ actors[i] = None \/ actors[i] \in Obj
          /\ activating[i] = None \/ activating[i].obj \in Obj
      BY <1>0 DEF TablesTyped, Activation
    <3>3. QED
      BY <3>1, <3>2, <1>2 DEF HoldsActor, Kill
  <2>3. ASSUME NEW i \in Pool PROVE Given(i)'
    BY <1>0, <1>2 DEF Owned, Given, Kill
  <2>4. QED
    BY <2>1, <2>2, <2>3 DEF Owned
<1>7. ASSUME NEW i \in Ids PROVE KeepsActor(i)
  <2>1. HoldsActor(i)
    BY <1>0 DEF Owned
  <2>2. actors[i] = None => activating[i] = None
    BY <1>0, <2>1 DEF HoldsActor, TablesTyped, Activation, LifecycleAssumption
  <2>3. QED
    BY <2>2 DEF KeepsActor, Kill
<1>8. ASSUME NEW o \in Obj PROVE KeepsObject(o)
  BY <1>1, <1>2, <1>3, <1>4 DEF KeepsObject, Kill
<1>9. QED
  BY <1>5, <1>6, <1>7, <1>8 DEF Effected, Kill

\* registerCallback() files a live actor under the id it owns.
LEMMA RegisterEffected ==
  ASSUME LifecycleAssumption, Tables, NEW o \in Obj, obj[o].st = "live", RegisterCallback(o)
  PROVE  Effected
<1>0. TablesTyped /\ Owned
  BY DEF Tables
<1>1. obj[o].id \in Ids /\ actors[obj[o].id] = o
  BY <1>0 DEF TablesTyped, Life, Owned, OwnsId
<1>2. \A x : Alive(x)' <=> Alive(x)
  BY DEF Alive, RegisterCallback
<1>3. TablesTyped'
  BY <1>0, <1>1 DEF TablesTyped, RegisterCallback
<1>4. Owned'
  <2>1. ASSUME NEW i \in Ids PROVE HoldsActor(i)'
    <3>1. HoldsActor(i)
      BY <1>0 DEF Owned
    <3>2. callbacks'[i] = callbacks[i] \/ callbacks'[i] = actors[i]
      BY <1>0, <1>1 DEF RegisterCallback, TablesTyped
    <3>3. QED
      BY <3>1, <3>2 DEF HoldsActor, RegisterCallback
  <2>2. QED
    BY <1>0, <2>1 DEF Owned, OwnsId, Given, RegisterCallback
<1>5. ASSUME NEW i \in Ids PROVE KeepsActor(i)
  <2>1. HoldsActor(i)
    BY <1>0 DEF Owned
  <2>2. actors[i] = None => activating[i] = None
    BY <1>0, <2>1 DEF HoldsActor, TablesTyped, Activation, LifecycleAssumption
  <2>3. QED
    BY <2>2 DEF KeepsActor, RegisterCallback
<1>6. ASSUME NEW x \in Obj PROVE KeepsObject(x)
  BY <1>2 DEF KeepsObject, RegisterCallback
<1>7. QED
  BY <1>3, <1>4, <1>5, <1>6 DEF Effected, RegisterCallback

\* addReferencedActor(): the actor that joins gets an id nobody has, and one
\* whose onInit() fails leaves no trace but its object.
LEMMA AddEffected ==
  ASSUME LifecycleAssumption, Contained, Tables,
         NEW o \in Obj, NEW out \in Outcomes, AddRefActor(o, out)
  PROVE  Effected
<1>0. TablesTyped /\ Owned
  BY DEF Tables
<1>1. PICK n : n = NewId(o)
  OBVIOUS
<1>2. /\ n \in Ids /\ (n # NotFound => n \in free)
      /\ actors[n] = None /\ callbacks[n] = None /\ activating[n] = None
      /\ n \notin dying
  BY <1>0, <1>1, NewIdIsFresh
<1>3. obj[o].st = "unborn"
  BY DEF AddRefActor
<1>4. out = "suspended" => n # NotFound
  BY <1>0, <1>1, <1>3, PoolLasts
<1>5. PICK kept \in BOOLEAN : kept = (n # NotFound /\ out # "false")
  OBVIOUS
<1>6. /\ obj' = [obj EXCEPT ![o] =
                   [st |-> IF kept THEN "live" ELSE "destroyed", id |-> n,
                    alive |-> TRUE, activated |-> out # "suspended",
                    cancelled |-> FALSE, failed |-> ~kept]]
      /\ free' = free \ {n}
      /\ subs' = [subs EXCEPT ![n] =
                    IF n = NotFound THEN @ ELSE IF out = "false" THEN None ELSE o]
      /\ callbacks' = callbacks
      /\ actors' = [actors EXCEPT ![n] = IF kept THEN o ELSE @]
      /\ activating' = [activating EXCEPT ![n] = IF out = "suspended" THEN Frame(o) ELSE @]
      /\ dying' = dying /\ to_remove' = to_remove
  BY <1>0, <1>1, <1>2, <1>5 DEF AddRefActor, TablesTyped
<1>7. n # NotFound => subs[n] = None
  BY <1>0, <1>2 DEF Owned, HoldsActor
<1>8. /\ subs'[n] = actors'[n]
      /\ actors'[n] = IF kept THEN o ELSE None
      /\ activating'[n] = IF out = "suspended" THEN Frame(o) ELSE None
      /\ callbacks'[n] = None
      /\ \A i \in Ids \ {n} : /\ subs'[i] = subs[i] /\ actors'[i] = actors[i]
                              /\ activating'[i] = activating[i]
                              /\ callbacks'[i] = callbacks[i]
  <2>1. subs[n] = actors[n]
    BY <1>0, <1>2 DEF Owned, HoldsActor
  <2>2. QED
    BY <2>1, <1>0, <1>2, <1>5, <1>6, <1>7 DEF TablesTyped
<1>9. /\ obj'[o].st = (IF kept THEN "live" ELSE "destroyed")
      /\ obj'[o].id = n /\ obj'[o].alive = TRUE /\ obj'[o] \in Life
      /\ \A x \in Obj \ {o} : obj'[x] = obj[x]
      /\ obj' \in [Obj -> Life]
  <2>1. obj \in [Obj -> Life]
    BY <1>0 DEF TablesTyped
  <2>2. [st |-> IF kept THEN "live" ELSE "destroyed", id |-> n,
         alive |-> TRUE, activated |-> out # "suspended",
         cancelled |-> FALSE, failed |-> ~kept] \in Life
    BY <1>2 DEF Life
  <2>3. QED
    BY <1>6, <2>1, <2>2
<1>10. Frame(o) \in Activation /\ Frame(o) # None /\ Frame(o).obj = o /\ Frame(o).stash = <<>>
  <2>1. <<>> \in Seq(Event)
    OBVIOUS
  <2>2. Frame(o) \in Activation
    BY <2>1 DEF Frame, Activation
  <2>3. QED
    BY <2>2 DEF Frame, LifecycleAssumption
<1>11. TablesTyped'
  BY <1>0, <1>2, <1>6, <1>9, <1>10 DEF TablesTyped
<1>12. Alive(o)' <=> kept
  BY <1>9 DEF Alive, LifecycleAssumption
<1>13. \A x \in Obj \ {o} : Alive(x)' <=> Alive(x)
  BY <1>9 DEF Alive
<1>14. ~Alive(o)
  BY <1>3 DEF Alive
<1>15. ASSUME NEW x \in Obj PROVE OwnsId(x)'
  <2>1. CASE x = o
    BY <2>1, <1>5, <1>8, <1>9 DEF OwnsId
  <2>2. CASE x # o /\ obj[x].st = "live"
    <3>1. obj[x].id \in Ids /\ actors[obj[x].id] = x /\ obj[x].id # NotFound
      BY <1>0, <2>2 DEF Owned, OwnsId, TablesTyped, Life
    <3>2. obj[x].id # n
      BY <3>1, <1>2 DEF LifecycleAssumption
    <3>3. QED
      BY <3>1, <3>2, <2>2, <1>8, <1>9 DEF OwnsId
  <2>3. QED
    BY <2>1, <2>2, <1>9 DEF OwnsId
<1>16. ASSUME NEW i \in Ids PROVE HoldsActor(i)'
  <2>1. CASE i = n
    <3>1. activating'[n] # None => kept
      BY <1>4, <1>5, <1>8
    <3>2. QED
      BY <2>1, <3>1, <1>2, <1>6, <1>8, <1>9, <1>10 DEF HoldsActor, LifecycleAssumption
  <2>2. CASE i # n
    <3>1. HoldsActor(i)
      BY <1>0 DEF Owned
    <3>2. actors[i] = None \/ (actors[i] \in Obj /\ actors[i] # o)
      BY <3>1, <1>0, <1>3 DEF TablesTyped, HoldsActor
    <3>3. activating[i] # None => activating[i].obj \in Obj /\ activating[i].obj # o
      BY <3>1, <3>2, <1>0 DEF TablesTyped, HoldsActor, Activation, LifecycleAssumption
    <3>4. QED
      BY <2>2, <3>1, <3>2, <3>3, <1>6, <1>8, <1>9 DEF HoldsActor
  <2>3. QED
    BY <2>1, <2>2
<1>17. ASSUME NEW i \in Pool PROVE Given(i)'
  <2>1. CASE i = n
    BY <2>1, <1>9 DEF Given
  <2>2. CASE i # n
    BY <2>2, <1>0, <1>3, <1>6, <1>9 DEF Owned, Given
  <2>3. QED
    BY <2>1, <2>2
<1>18. Owned'
  BY <1>15, <1>16, <1>17 DEF Owned
<1>19. ASSUME NEW i \in Ids PROVE KeepsActor(i)
  <2>1. CASE i = n
    BY <2>1, <1>2, <1>3, <1>8, <1>10, <1>12 DEF KeepsActor, LifecycleAssumption
  <2>2. CASE i # n
    <3>1. HoldsActor(i)
      BY <1>0 DEF Owned
    <3>2. actors[i] = None => activating[i] = None
      BY <1>0, <3>1 DEF HoldsActor, TablesTyped, Activation, LifecycleAssumption
    <3>3. QED
      BY <2>2, <3>2, <1>8 DEF KeepsActor, LifecycleAssumption
  <2>3. QED
    BY <2>1, <2>2
<1>20. ASSUME NEW x \in Obj PROVE KeepsObject(x)
  BY <1>3, <1>9, <1>13, <1>14 DEF KeepsObject
<1>21. QED
  BY <1>6, <1>11, <1>18, <1>19, <1>20 DEF Effected

\* One effect of the code of a live actor; without mayKill it marks nobody.
LEMMA EffectEffected ==
  ASSUME LifecycleAssumption, Contained, Tables,
         NEW o \in Obj, obj[o].st = "live", NEW mayKill \in BOOLEAN, Effect(o, mayKill)
  PROVE  Effected /\ (~mayKill => to_remove' = to_remove)
<1>1. CASE UNCHANGED tables
  BY <1>1, NothingEffected DEF tables
<1>2. CASE mayKill /\ \E v \in Obj : Kill(v)
  BY <1>2, KillEffected
<1>3. CASE RegisterCallback(o)
  BY <1>3, RegisterEffected DEF RegisterCallback
<1>4. CASE \E n \in Obj, out \in Outcomes : AddRefActor(n, out)
  <2>1. PICK n \in Obj, out \in Outcomes : AddRefActor(n, out)
    BY <1>4
  <2>2. to_remove' = to_remove
    BY <2>1 DEF AddRefActor
  <2>3. Effected
    BY <2>1, AddEffected
  <2>4. QED
    BY <2>2, <2>3
<1>5. QED
  BY <1>1, <1>2, <1>3, <1>4 DEF Effect

-----------------------------------------------------------------------------
(* The pass, while user code runs *)

\* An effect of user code in the middle of a pass leaves the marks where the
\* pass looks for them.
LEMMA EffectSweeps ==
  ASSUME LifecycleAssumption, Typed, Owned, Swept, Effected,
         UNCHANGED <<pc, todo, due>>, snapshot' \subseteq snapshot,
         pc = "run" /\ ~CoroKill => to_remove' = to_remove
  PROVE  Swept'
<1>0. TablesTyped /\ LoopsTyped
  BY DEF Typed
<1>1. ASSUME NEW i \in Ids PROVE Marked(i)'
  <2>1. Marked(i) /\ KeepsActor(i) /\ HoldsActor(i)
    BY DEF Swept, Effected, Owned
  <2>2. CASE actors[i] # None
    <3>1. PICK o \in Obj : o = actors[i]
      BY <1>0, <2>2 DEF TablesTyped
    <3>2. actors'[i] = o /\ obj[o].id = i
      BY <2>1, <2>2, <3>1 DEF KeepsActor, HoldsActor
    <3>3. KeepsObject(o)
      BY DEF Effected
    <3>4. QED
      BY <2>1, <2>2, <3>1, <3>2, <3>3 DEF Marked, KeepsObject, Effected
  <2>3. CASE actors[i] = None /\ actors'[i] # None
    <3>1. PICK o \in Obj : o = actors'[i]
      BY <2>3 DEF Effected, TablesTyped
    <3>2. Alive(o)'
      BY <2>1, <2>3, <3>1 DEF KeepsActor
    <3>3. QED
      BY <3>1, <3>2 DEF Marked
  <2>4. QED
    BY <2>2, <2>3 DEF Marked
<1>2. \A i \in Ids : activating[i] # None => activating'[i] = activating[i]
  <2>1. ASSUME NEW i \in Ids, activating[i] # None PROVE activating'[i] = activating[i]
    <3>1. HoldsActor(i) /\ KeepsActor(i)
      BY DEF Owned, Effected
    <3>2. activating[i].obj \in Obj
      BY <1>0, <2>1 DEF TablesTyped, Activation
    <3>3. actors[i] # None
      BY <2>1, <3>1, <3>2 DEF HoldsActor, LifecycleAssumption
    <3>4. QED
      BY <3>1, <3>3 DEF KeepsActor
  <2>2. QED
    BY <2>1
<1>3. InPass'
  <2>1. \A i \in dying : i \in Ids /\ activating[i] # None
    BY <1>0 DEF Owned, HoldsActor, TablesTyped
  <2>2. dying' = dying
    BY DEF Effected
  <2>3. InPass /\ todo \subseteq Ids
    BY <1>0 DEF Swept, LoopsTyped
  <2>4. QED
    BY <1>2, <2>1, <2>2, <2>3 DEF InPass
<1>4. ASSUME pc = "tick", NEW entry \in snapshot PROVE Ticking(entry[1], entry[2])'
  <2>1. Ticking(entry[1], entry[2])
    BY <1>4 DEF Swept
  <2>2. PICK i \in Ids, o \in Obj : entry = <<i, o>>
    BY <1>0, <1>4 DEF LoopsTyped
  <2>3. KeepsActor(i) /\ HoldsActor(i) /\ KeepsObject(o)
    BY DEF Owned, Effected
  <2>4. actors[i] = o /\ obj[o].id = i /\ actors'[i] = o /\ (i \in to_remove \/ Alive(o))
    BY <2>1, <2>2, <2>3 DEF Ticking, HoldsActor, KeepsActor, LifecycleAssumption
  <2>5. i \in to_remove' \/ Alive(o)'
    BY <2>3, <2>4 DEF KeepsObject, Effected
  <2>6. QED
    BY <2>2, <2>4, <2>5 DEF Ticking
<1>5. QED
  BY <1>1, <1>3, <1>4 DEF Swept

(* What an effect leaves of an actor's stash: an actor alive after it was  *)
(* alive before, with the same activation, or is new.                      *)
LEMMA EffectStash ==
  ASSUME LifecycleAssumption, Tables, Effected, NEW o \in Obj, Alive(o)'
  PROVE  /\ obj'[o].id \in Ids /\ actors'[obj'[o].id] = o
         /\ \/ /\ Alive(o) /\ obj'[o].id = obj[o].id
               /\ activating'[obj[o].id] = activating[obj[o].id]
            \/ /\ obj[o].st = "unborn" /\ actors[obj'[o].id] = None
               /\ activating'[obj'[o].id] # None => activating'[obj'[o].id].stash = <<>>
<1>0. TablesTyped /\ Owned /\ TablesTyped' /\ Owned' /\ KeepsObject(o)
  BY DEF Tables, Effected
<1>1. obj'[o].id \in Ids /\ actors'[obj'[o].id] = o
  <2>1. obj'[o].st = "live"
    BY DEF Alive
  <2>2. OwnsId(o)'
    BY <1>0 DEF Owned
  <2>3. QED
    BY <1>0, <2>1, <2>2 DEF OwnsId, TablesTyped, Life
<1>2. PICK i \in Ids : i = obj'[o].id
  BY <1>1
<1>3. KeepsActor(i)
  BY DEF Effected
<1>4. CASE Alive(o)
  <2>1. obj[o].st = "live" /\ OwnsId(o)
    BY <1>0, <1>4 DEF Alive, Owned
  <2>2. obj[o].id = i /\ actors[i] = o
    BY <1>0, <1>2, <2>1 DEF KeepsObject, OwnsId
  <2>3. QED
    BY <1>1, <1>2, <1>3, <1>4, <2>2 DEF KeepsActor, LifecycleAssumption
<1>5. CASE ~Alive(o)
  <2>1. obj[o].st = "unborn"
    BY <1>0, <1>5 DEF KeepsObject
  <2>2. actors[i] = None
    <3>1. SUFFICES ASSUME actors[i] # None PROVE FALSE
      OBVIOUS
    <3>2. actors[i] = o
      BY <1>1, <1>2, <1>3, <3>1 DEF KeepsActor
    <3>3. HoldsActor(i)
      BY <1>0 DEF Owned
    <3>4. QED
      BY <2>1, <3>1, <3>2, <3>3 DEF HoldsActor
  <2>3. QED
    BY <1>1, <1>2, <1>3, <2>1, <2>2 DEF KeepsActor
<1>6. QED
  BY <1>4, <1>5

(* The rest of the stash invariant, while user code runs.                  *)
LEMMA EffectKeepsStashes ==
  ASSUME LifecycleAssumption, Typed, Owned, Effected, Stashed
  PROVE  /\ \A o \in Obj : obj'[o].st = "unborn" => obj[o].st = "unborn"
         /\ \A i \in Ids : activating'[i] # None => Len(activating'[i].stash) <= StashCap
         /\ replay.rest # <<>> =>
               actors'[replay.id] # None /\ activating'[replay.id] = None
<1>0. TablesTyped /\ LoopsTyped
  BY DEF Typed
<1>1. \A o \in Obj : obj'[o].st = "unborn" => obj[o].st = "unborn"
  BY DEF Effected, KeepsObject
<1>2. ASSUME NEW i \in Ids, activating'[i] # None PROVE Len(activating'[i].stash) <= StashCap
  <2>1. KeepsActor(i)
    BY DEF Effected
  <2>2. CASE actors[i] # None
    BY <1>2, <2>1, <2>2 DEF KeepsActor, Stashed
  <2>3. CASE actors[i] = None
    <3>1. activating'[i].stash = <<>>
      BY <1>2, <2>1, <2>3 DEF KeepsActor
    <3>2. QED
      BY <3>1 DEF LifecycleAssumption
  <2>4. QED
    BY <2>2, <2>3
<1>3. replay.rest # <<>> =>
         actors'[replay.id] # None /\ activating'[replay.id] = None
  <2>1. replay.id \in Ids
    BY <1>0 DEF LoopsTyped
  <2>2. KeepsActor(replay.id)
    BY <2>1 DEF Effected
  <2>3. QED
    BY <2>2 DEF Stashed, KeepsActor
<1>4. QED
  BY <1>1, <1>2, <1>3

(* A new actor finds no stash to replay under its id.                      *)
LEMMA NothingHeld ==
  ASSUME Typed, Stashed, NEW i \in Ids, actors[i] = None
  PROVE  Held(i) = <<>>
BY DEF Held, Stashed

\* A step of user code that no event is involved in.
LEMMA QuietStep ==
  ASSUME LifecycleAssumption, LifeInv, Effected,
         UNCHANGED <<pc, todo, due, replay, history>>, snapshot' \subseteq snapshot,
         pc = "run" /\ ~CoroKill => to_remove' = to_remove
  PROVE  LifeInv'
<1>0. Typed /\ Owned /\ Swept /\ Stashed /\ Tables
  BY DEF LifeInv, Typed, Tables
<1>1. Typed'
  BY <1>0 DEF Typed, Effected, LoopsTyped, HistoryTyped, history
<1>2. Swept'
  BY <1>0, EffectSweeps
<1>3. /\ \A o \in Obj : obj'[o].st = "unborn" => obj[o].st = "unborn"
      /\ \A i \in Ids : activating'[i] # None => Len(activating'[i].stash) <= StashCap
      /\ replay.rest # <<>> => actors'[replay.id] # None /\ activating'[replay.id] = None
  BY <1>0, EffectKeepsStashes
<1>4. ASSUME NEW o \in Obj, Alive(o)', o \notin overflowed PROVE InOrder(o)'
  <2>1. /\ obj'[o].id \in Ids
        /\ \/ /\ Alive(o) /\ obj'[o].id = obj[o].id
              /\ activating'[obj[o].id] = activating[obj[o].id]
           \/ /\ obj[o].st = "unborn" /\ actors[obj'[o].id] = None
              /\ activating'[obj'[o].id] # None => activating'[obj'[o].id].stash = <<>>
    BY <1>0, <1>4, EffectStash
  <2>2. \A i : Held(i)' = Held(i)
    BY DEF Held
  <2>3. CASE Alive(o) /\ obj'[o].id = obj[o].id /\ activating'[obj[o].id] = activating[obj[o].id]
    <3>1. InOrder(o)
      BY <1>0 DEF Stashed
    <3>2. QED
      BY <1>4, <2>2, <2>3, <3>1 DEF InOrder, history
  <2>4. CASE /\ obj[o].st = "unborn" /\ actors[obj'[o].id] = None
             /\ activating'[obj'[o].id] # None => activating'[obj'[o].id].stash = <<>>
    <3>1. Held(obj'[o].id) = <<>>
      BY <1>0, <2>1, <2>4, NothingHeld
    <3>2. arrived[o] = <<>> /\ delivered[o] = <<>>
      BY <1>0, <2>4 DEF Stashed
    <3>3. <<>> = <<>> \o <<>>
      OBVIOUS
    <3>4. QED
      BY <2>2, <2>4, <3>1, <3>2, <3>3 DEF InOrder, history
  <2>5. QED
    BY <2>1, <2>3, <2>4
<1>5. \A o \in Obj : InOrder(o)'
  BY <1>4 DEF InOrder, history
<1>6. Stashed'
  BY <1>0, <1>3, <1>5 DEF Stashed, history
<1>7. QED
  BY <1>1, <1>2, <1>6 DEF LifeInv, Effected

\* A coroutine resumed by the listener.
LEMMA CoroutineStepKeeps ==
  ASSUME LifecycleAssumption, Contained, LifeInv, CoroutineStep
  PROVE  LifeInv'
<1>1. PICK o \in Obj : Alive(o) /\ Effect(o, CoroKill)
  BY DEF CoroutineStep
<1>2. obj[o].st = "live" /\ Tables /\ CoroKill \in BOOLEAN
  BY <1>1 DEF Alive, LifeInv, Typed, Tables, LifecycleAssumption
<1>3. Effected /\ (~CoroKill => to_remove' = to_remove)
  BY <1>1, <1>2, EffectEffected
<1>4. UNCHANGED <<pc, todo, due, replay, history>> /\ snapshot' \subseteq snapshot
  BY DEF CoroutineStep, loops
<1>5. QED
  BY <1>3, <1>4, QuietStep

\* One callback of the snapshot: it ticks, or is skipped since its actor was
\* killed.
LEMMA TickKeeps ==
  ASSUME LifecycleAssumption, Contained, LifeInv, Tick
  PROVE  LifeInv'
<1>1. PICK entry \in snapshot :
         /\ pc = "tick" /\ snapshot' = snapshot \ {entry}
         /\ IF entry[1] \in to_remove THEN UNCHANGED tables ELSE Effect(entry[2], TRUE)
         /\ UNCHANGED <<pc, todo, due, replay, history>>
  BY DEF Tick
<1>2. Tables /\ LoopsTyped
  BY DEF LifeInv, Typed, Tables
<1>3. Effected
  <2>1. CASE entry[1] \in to_remove
    BY <1>1, <1>2, <2>1, NothingEffected
  <2>2. CASE entry[1] \notin to_remove
    <3>1. Ticking(entry[1], entry[2])
      BY <1>1 DEF LifeInv, Swept
    <3>2. obj[entry[2]].st = "live" /\ entry[2] \in Obj
      BY <1>1, <1>2, <2>2, <3>1 DEF Ticking, Alive, LoopsTyped
    <3>3. Effect(entry[2], TRUE)
      BY <1>1, <2>2
    <3>4. QED
      BY <1>2, <3>2, <3>3, EffectEffected
  <2>3. QED
    BY <2>1, <2>2
<1>4. UNCHANGED <<pc, todo, due, replay, history>> /\ snapshot' \subseteq snapshot
      /\ ~(pc = "run" /\ ~CoroKill)
  BY <1>1
<1>5. QED
  BY <1>3, <1>4, QuietStep

-----------------------------------------------------------------------------
(* The router *)

\* unregisterCallback() takes one callback away.
LEMMA UnregisterEffected ==
  ASSUME LifecycleAssumption, Tables, NEW i \in Ids, unregisterCallback(i),
         UNCHANGED <<obj, free, actors, subs, activating, dying, to_remove>>
  PROVE  Effected
<1>0. TablesTyped /\ Owned
  BY DEF Tables
<1>1. \A x : Alive(x)' <=> Alive(x)
  BY DEF Alive
<1>2. TablesTyped'
  BY <1>0 DEF TablesTyped, unregisterCallback
<1>3. Owned'
  <2>1. ASSUME NEW j \in Ids PROVE HoldsActor(j)'
    <3>1. HoldsActor(j)
      BY <1>0 DEF Owned
    <3>2. callbacks'[j] = callbacks[j] \/ callbacks'[j] = None
      BY <1>0 DEF unregisterCallback, TablesTyped
    <3>3. QED
      BY <3>1, <3>2 DEF HoldsActor
  <2>2. QED
    BY <1>0, <2>1 DEF Owned, OwnsId, Given
<1>4. ASSUME NEW j \in Ids PROVE KeepsActor(j)
  <2>1. HoldsActor(j)
    BY <1>0 DEF Owned
  <2>2. actors[j] = None => activating[j] = None
    BY <1>0, <2>1 DEF HoldsActor, TablesTyped, Activation, LifecycleAssumption
  <2>3. QED
    BY <2>2 DEF KeepsActor
<1>5. ASSUME NEW x \in Obj PROVE KeepsObject(x)
  BY <1>1 DEF KeepsObject
<1>6. QED
  BY <1>2, <1>3, <1>4, <1>5 DEF Effected

\* The handler of the actor with the id gets the event if the actor is alive.
LEMMA RouteEffected ==
  ASSUME LifecycleAssumption, Contained, Tables, NEW i \in Ids, NEW e \in Event, Route(i, e)
  PROVE  /\ Effected
         /\ delivered' = IF Alive(actors[i])
                         THEN [delivered EXCEPT ![actors[i]] = Append(@, e)]
                         ELSE delivered
<1>0. TablesTyped /\ Owned
  BY DEF Tables
<1>1. subs[i] = actors[i]
  BY <1>0 DEF Owned, HoldsActor
<1>2. CASE ~Alive(actors[i])
  BY <1>1, <1>2, NothingEffected DEF Route
<1>3. CASE Alive(actors[i])
  <2>1. actors[i] \in Obj /\ obj[actors[i]].st = "live"
    BY <1>0, <1>3 DEF TablesTyped, Alive
  <2>2. PICK o \in Obj : o = actors[i]
    BY <2>1
  <2>3. delivered' = [delivered EXCEPT ![o] = Append(@, e)]
    BY <1>1, <1>3, <2>2 DEF Route
  <2>4. CASE e.kind = "unregister"
    <3>1. /\ unregisterCallback(i)
          /\ UNCHANGED <<obj, free, actors, subs, activating, dying, to_remove>>
      BY <1>1, <1>3, <2>4 DEF Route
    <3>2. Effected
      BY <3>1, UnregisterEffected
    <3>3. QED
      BY <1>3, <2>2, <2>3, <3>2
  <2>5. CASE e.kind # "unregister"
    <3>1. Effect(o, TRUE)
      BY <1>1, <1>3, <2>2, <2>5 DEF Route
    <3>2. Effected
      BY <2>1, <2>2, <3>1, EffectEffected
    <3>3. QED
      BY <1>3, <2>2, <2>3, <3>2
  <2>6. QED
    BY <2>4, <2>5
<1>4. QED
  BY <1>2, <1>3

(* The order of what was handled and what is left is that of what arrived. *)
LEMMA HeadMovesOver ==
  ASSUME NEW S, NEW s \in Seq(S), NEW r \in Seq(S), r # <<>>
  PROVE  s \o r = Append(s, Head(r)) \o Tail(r)
<1> DEFINE t == Append(s, Head(r)) \o Tail(r)
<1>1. Head(r) = r[1] /\ Tail(r) \in Seq(S) /\ Len(Tail(r)) = Len(r) - 1 /\ Len(r) \in Nat \ {0}
  OBVIOUS
<1>2. Head(r) \in S /\ Append(s, Head(r)) \in Seq(S) /\ Len(Append(s, Head(r))) = Len(s) + 1
  OBVIOUS
<1>3. Len(s \o r) = Len(t) /\ s \o r \in Seq(S) /\ t \in Seq(S)
  BY <1>1, <1>2
<1>4. ASSUME NEW k \in 1 .. Len(s \o r) PROVE (s \o r)[k] = t[k]
  <2>1. \A j \in 1 .. Len(r) - 1 : Tail(r)[j] = r[j + 1]
    BY <1>1
  <2>2. CASE k <= Len(s)
    BY <1>1, <1>2, <2>2
  <2>3. CASE k = Len(s) + 1
    BY <1>1, <1>2, <2>3
  <2>4. CASE k > Len(s) + 1
    BY <1>1, <1>2, <2>1, <2>4
  <2>5. QED
    BY <2>2, <2>3, <2>4
<1>5. QED
  BY <1>3, <1>4

\* One stashed event handed to the handler of the actor just activated.
LEMMA ReplayStashedKeeps ==
  ASSUME LifecycleAssumption, Contained, LifeInv, ReplayStashed
  PROVE  LifeInv'
<1>0. Typed /\ Owned /\ Swept /\ Stashed /\ Tables /\ LoopsTyped /\ TablesTyped /\ HistoryTyped
  BY DEF LifeInv, Typed, Tables
<1>1. PICK i \in Ids, r \in Seq(Event) : replay = [id |-> i, rest |-> r]
  BY <1>0 DEF LoopsTyped
<1>2. /\ pc = "pump" /\ r # <<>>
      /\ replay' = [id |-> i, rest |-> Tail(r)]
      /\ Route(i, Head(r))
      /\ UNCHANGED <<pc, todo, due, snapshot, arrived, overflowed>>
  BY <1>1 DEF ReplayStashed
<1>3. PICK a \in Obj : a = actors[i]
  BY <1>0, <1>1, <1>2 DEF Stashed, TablesTyped
<1>4. activating[i] = None /\ obj[a].id = i /\ obj[a].st = "live"
  BY <1>0, <1>1, <1>2, <1>3 DEF Stashed, Owned, HoldsActor, LifecycleAssumption
<1>5. /\ Effected
      /\ delivered' = IF Alive(a) THEN [delivered EXCEPT ![a] = Append(@, Head(r))] ELSE delivered
  <2>1. Head(r) \in Event
    BY <1>2
  <2>2. QED
    BY <1>0, <1>2, <1>3, <2>1, RouteEffected
<1>6. delivered' \in [Obj -> Seq(Event)]
  <2>1. delivered[a] \in Seq(Event) /\ Head(r) \in Event
    BY <1>0, <1>2 DEF HistoryTyped
  <2>2. Append(delivered[a], Head(r)) \in Seq(Event)
    BY <2>1
  <2>3. QED
    BY <1>0, <1>5, <2>2 DEF HistoryTyped
<1>7. \A o \in Obj : o # a => delivered'[o] = delivered[o]
  BY <1>0, <1>5 DEF HistoryTyped
<1>8. Typed'
  <2>1. replay' \in [id : Ids, rest : Seq(Event)]
    <3>1. Tail(r) \in Seq(Event)
      BY <1>2
    <3>2. QED
      BY <1>2, <3>1
  <2>2. QED
    BY <1>0, <1>2, <1>5, <1>6, <2>1 DEF Typed, Effected, LoopsTyped, HistoryTyped
<1>9. Swept'
  BY <1>0, <1>2, <1>5, EffectSweeps
<1>10. /\ \A o \in Obj : obj'[o].st = "unborn" => obj[o].st = "unborn"
       /\ \A j \in Ids : activating'[j] # None => Len(activating'[j].stash) <= StashCap
       /\ actors'[i] # None /\ activating'[i] = None
  BY <1>0, <1>1, <1>2, <1>5, EffectKeepsStashes
<1>11. ASSUME NEW j \in Ids, j # i PROVE Held(j) = <<>> /\ Held(j)' = <<>>
  BY <1>1, <1>2, <1>11 DEF Held
<1>12. Held(i) = r /\ Held(i)' = Tail(r)
  BY <1>1, <1>2 DEF Held
<1>13. ASSUME NEW o \in Obj, Alive(o)', o \notin overflowed PROVE InOrder(o)'
  <2>1. /\ obj'[o].id \in Ids
        /\ \/ /\ Alive(o) /\ obj'[o].id = obj[o].id
              /\ activating'[obj[o].id] = activating[obj[o].id]
           \/ /\ obj[o].st = "unborn" /\ actors[obj'[o].id] = None
              /\ activating'[obj'[o].id] # None => activating'[obj'[o].id].stash = <<>>
    BY <1>0, <1>5, <1>13, EffectStash
  <2>2. InOrder(o)
    BY <1>0 DEF Stashed
  <2>3. CASE /\ Alive(o) /\ obj'[o].id = obj[o].id
             /\ activating'[obj[o].id] = activating[obj[o].id]
    <3>1. CASE o = a
      <4>1. arrived[a] = delivered[a] \o r
        BY <1>4, <1>12, <1>13, <2>2, <2>3, <3>1 DEF InOrder
      <4>2. delivered'[a] = Append(delivered[a], Head(r)) /\ delivered[a] \in Seq(Event)
        BY <1>0, <1>5, <2>3, <3>1 DEF HistoryTyped
      <4>3. arrived[a] = delivered'[a] \o Tail(r)
        BY <1>2, <4>1, <4>2, HeadMovesOver
      <4>4. QED
        BY <1>2, <1>4, <1>12, <2>3, <3>1, <4>3 DEF InOrder
    <3>2. CASE o # a
      <4>1. obj[o].id # i
        BY <1>0, <1>3, <2>3, <3>2 DEF Owned, OwnsId, Alive
      <4>2. Held(obj[o].id)' = Held(obj[o].id)
        BY <1>11, <2>1, <2>3, <4>1
      <4>3. QED
        BY <1>2, <1>7, <1>13, <2>2, <2>3, <3>2, <4>2 DEF InOrder
    <3>3. QED
      BY <3>1, <3>2
  <2>4. CASE /\ obj[o].st = "unborn" /\ actors[obj'[o].id] = None
             /\ activating'[obj'[o].id] # None => activating'[obj'[o].id].stash = <<>>
    <3>1. o # a /\ obj'[o].id # i
      BY <1>3, <1>4, <2>4 DEF LifecycleAssumption
    <3>2. PICK j \in Ids : j = obj'[o].id
      BY <2>1
    <3>3. Held(j)' = <<>>
      BY <1>11, <3>1, <3>2
    <3>4. arrived[o] = <<>> /\ delivered'[o] = <<>>
      BY <1>0, <1>7, <2>4, <3>1 DEF Stashed
    <3>5. <<>> = <<>> \o <<>>
      OBVIOUS
    <3>6. QED
      BY <1>2, <2>4, <3>2, <3>3, <3>4, <3>5 DEF InOrder
  <2>5. QED
    BY <2>1, <2>3, <2>4
<1>14. \A o \in Obj : InOrder(o)'
  BY <1>2, <1>13 DEF InOrder
<1>15. \A o \in Obj : obj'[o].st = "unborn" => arrived'[o] = <<>> /\ delivered'[o] = <<>>
  BY <1>0, <1>2, <1>4, <1>7, <1>10 DEF Stashed
<1>16. replay'.id = i
  BY <1>2
<1>17. Stashed'
  BY <1>2, <1>10, <1>14, <1>15, <1>16 DEF Stashed
<1>18. QED
  BY <1>5, <1>8, <1>9, <1>17 DEF LifeInv, Effected

\* An event for an actor whose onInit() is suspended is stashed, or dropped and
\* the actor noted when the stash is full.
LEMMA ReceiveGatedKeeps ==
  ASSUME LifecycleAssumption, LifeInv, NEW i \in Ids,
         NEW kind \in {"business", "unregister"}, Receive(i, kind), activating[i] # None
  PROVE  LifeInv'
<1>0. Typed /\ Owned /\ Swept /\ Stashed /\ LoopsTyped /\ TablesTyped /\ HistoryTyped
  BY DEF LifeInv, Typed
<1>1. PICK act \in Activation : act = activating[i]
  BY <1>0 DEF TablesTyped
<1>2. PICK o \in Obj : o = act.obj
  BY DEF Activation
<1>3. actors[i] = o /\ obj[o].st = "live" /\ obj[o].id = i
  BY <1>0, <1>1, <1>2 DEF Owned, HoldsActor, LifecycleAssumption
<1>4. PICK e : e = [n |-> Len(arrived[o]) + 1, kind |-> kind]
  OBVIOUS
<1>5. e \in Event
  <2>1. arrived[o] \in Seq(Event)
    BY <1>0 DEF HistoryTyped
  <2>2. Len(arrived[o]) + 1 \in Nat
    BY <2>1
  <2>3. QED
    BY <1>4, <2>2 DEF Event
<1>6. PICK full \in BOOLEAN : full <=> Len(act.stash) >= StashCap
  OBVIOUS
<1>7. PICK new : new = [act EXCEPT !.stash = IF full THEN @ ELSE Append(@, e),
                                   !.expired = @ \/ full]
  OBVIOUS
<1>8. /\ pc = "recv"
      /\ arrived' = [arrived EXCEPT ![o] = IF Alive(o) THEN Append(@, e) ELSE @]
      /\ activating' = [activating EXCEPT ![i] = new]
      /\ overflowed' = IF full THEN overflowed \cup {o} ELSE overflowed
      /\ UNCHANGED <<pc, obj, free, actors, subs, callbacks, dying, to_remove,
                     delivered, todo, due, snapshot, replay>>
  BY <1>0, <1>1, <1>2, <1>4, <1>6, <1>7 DEF Receive, StashFull, loops
<1>9. act.stash \in Seq(Event) /\ Append(act.stash, e) \in Seq(Event)
      /\ Len(Append(act.stash, e)) = Len(act.stash) + 1 /\ Len(act.stash) \in Nat
  <2>1. act.stash \in Seq(Event)
    BY DEF Activation
  <2>2. QED
    BY <2>1, <1>5
<1>10. /\ new \in Activation /\ new # None
       /\ new.obj = o /\ new.done = act.done
       /\ new.stash = IF full THEN act.stash ELSE Append(act.stash, e)
  <2>1. new \in Activation
    BY <1>7, <1>9 DEF Activation
  <2>2. QED
    BY <2>1, <1>2, <1>7 DEF Activation, LifecycleAssumption
<1>11. activating'[i] = new /\ \A j \in Ids \ {i} : activating'[j] = activating[j]
  BY <1>0, <1>8 DEF TablesTyped
<1>12. \A x : Alive(x)' <=> Alive(x)
  BY <1>8 DEF Alive
<1>13. Typed'
  <2>1. arrived' \in [Obj -> Seq(Event)]
    <3>1. arrived[o] \in Seq(Event)
      BY <1>0 DEF HistoryTyped
    <3>2. Append(arrived[o], e) \in Seq(Event)
      BY <3>1, <1>5
    <3>3. QED
      BY <1>0, <1>8, <3>1, <3>2 DEF HistoryTyped
  <2>2. activating' \in [Ids -> Activation \cup {None}]
    BY <1>0, <1>8, <1>10 DEF TablesTyped
  <2>3. QED
    BY <1>0, <1>8, <2>1, <2>2 DEF Typed, TablesTyped, LoopsTyped, HistoryTyped
<1>14. Owned'
  <2>1. ASSUME NEW j \in Ids PROVE HoldsActor(j)'
    <3>1. HoldsActor(j)
      BY <1>0 DEF Owned
    <3>2. CASE j = i
      BY <1>1, <1>2, <1>3, <1>8, <1>10, <1>11, <3>1, <3>2 DEF HoldsActor
    <3>3. CASE j # i
      BY <1>8, <1>11, <3>1, <3>3 DEF HoldsActor
    <3>4. QED
      BY <3>2, <3>3
  <2>2. QED
    BY <1>0, <1>8, <2>1 DEF Owned, OwnsId, Given
<1>15. Swept'
  <2>1. \A j \in Ids : Marked(j)'
    BY <1>0, <1>8, <1>12 DEF Swept, Marked
  <2>2. InPass'
    BY <1>0, <1>8 DEF Swept, InPass
  <2>3. QED
    BY <1>8, <2>1, <2>2 DEF Swept
<1>16. ASSUME NEW x \in Obj, Alive(x), x \notin overflowed' PROVE InOrder(x)'
  <2>1. InOrder(x) /\ x \notin overflowed
    BY <1>0, <1>8, <1>16 DEF Stashed
  <2>2. \A j : Held(j)' = Held(j)
    BY <1>8 DEF Held
  <2>3. CASE x = o
    <3>1. ~full
      BY <1>8, <1>16, <2>3
    <3>2. delivered[o] = <<>> /\ arrived[o] = act.stash
      BY <1>1, <1>3, <1>16, <2>1, <2>3 DEF InOrder
    <3>3. arrived'[o] = Append(act.stash, e)
      BY <1>0, <1>8, <1>16, <2>3, <3>2 DEF HistoryTyped
    <3>4. QED
      BY <1>3, <1>8, <1>10, <1>11, <2>3, <3>1, <3>2, <3>3 DEF InOrder
  <2>4. CASE x # o
    <3>1. obj[x].id \in Ids /\ obj[x].id # i
      BY <1>0, <1>3, <1>16, <2>4 DEF Owned, OwnsId, Alive, TablesTyped, Life
    <3>2. arrived'[x] = arrived[x] /\ activating'[obj[x].id] = activating[obj[x].id]
      BY <1>0, <1>8, <1>11, <2>4, <3>1 DEF HistoryTyped
    <3>3. QED
      BY <1>8, <1>16, <2>1, <2>2, <3>2 DEF InOrder
  <2>5. QED
    BY <2>3, <2>4
<1>17. Stashed'
  <2>1. \A x \in Obj : InOrder(x)'
    BY <1>12, <1>16 DEF InOrder
  <2>2. \A x \in Obj : obj'[x].st = "unborn" => arrived'[x] = <<>> /\ delivered'[x] = <<>>
    BY <1>0, <1>3, <1>8 DEF Stashed, HistoryTyped
  <2>3. ASSUME NEW j \in Ids, activating'[j] # None PROVE Len(activating'[j].stash) <= StashCap
    <3>1. CASE j = i
      <4>1. Len(act.stash) <= StashCap /\ StashCap \in Nat
        BY <1>0, <1>1 DEF Stashed, LifecycleAssumption
      <4>2. QED
        <5>1. CASE full
          BY <1>10, <1>11, <3>1, <4>1, <5>1
        <5>2. CASE ~full
          <6>1. activating'[j].stash = Append(act.stash, e) /\ ~(Len(act.stash) >= StashCap)
            BY <1>6, <1>10, <1>11, <3>1, <5>2
          <6>2. QED
            BY <1>9, <4>1, <6>1
        <5>3. QED
          BY <5>1, <5>2
    <3>2. CASE j # i
      BY <1>0, <1>11, <2>3, <3>2 DEF Stashed
    <3>3. QED
      BY <3>1, <3>2
  <2>4. replay.rest = <<>> /\ replay' = replay
    BY <1>0, <1>8 DEF Stashed
  <2>5. QED
    BY <2>1, <2>2, <2>3, <2>4 DEF Stashed
<1>18. QED
  BY <1>13, <1>14, <1>15, <1>17 DEF LifeInv

\* Any other event goes to the handler at once: nothing is left to replay.
LEMMA ReceiveOpenKeeps ==
  ASSUME LifecycleAssumption, Contained, LifeInv, NEW i \in Ids,
         NEW kind \in {"business", "unregister"}, Receive(i, kind), activating[i] = None
  PROVE  LifeInv'
<1>0. Typed /\ Owned /\ Swept /\ Stashed /\ Tables /\ LoopsTyped /\ TablesTyped /\ HistoryTyped
  BY DEF LifeInv, Typed, Tables
<1>1. HoldsActor(i)
  BY <1>0 DEF Owned
<1>2. PICK o \in Obj : o = actors[i]
  BY <1>0, <1>1 DEF Receive, HoldsActor, TablesTyped
<1>3. obj[o].st = "live" /\ obj[o].id = i /\ subs[i] = o
  BY <1>1, <1>2 DEF HoldsActor, LifecycleAssumption
<1>4. PICK e : e = [n |-> Len(arrived[o]) + 1, kind |-> kind]
  OBVIOUS
<1>5. e \in Event
  <2>1. arrived[o] \in Seq(Event)
    BY <1>0 DEF HistoryTyped
  <2>2. Len(arrived[o]) + 1 \in Nat
    BY <2>1
  <2>3. QED
    BY <1>4, <2>2 DEF Event
<1>6. /\ pc = "recv"
      /\ arrived' = [arrived EXCEPT ![o] = IF Alive(o) THEN Append(@, e) ELSE @]
      /\ Route(i, e)
      /\ UNCHANGED <<pc, todo, due, snapshot, replay, overflowed>>
  BY <1>3, <1>4 DEF Receive, loops
<1>7. /\ Effected
      /\ delivered' = IF Alive(o) THEN [delivered EXCEPT ![o] = Append(@, e)] ELSE delivered
  BY <1>0, <1>2, <1>5, <1>6, RouteEffected
<1>8. /\ arrived[o] \in Seq(Event) /\ delivered[o] \in Seq(Event)
      /\ Append(arrived[o], e) \in Seq(Event) /\ Append(delivered[o], e) \in Seq(Event)
  <2>1. arrived[o] \in Seq(Event) /\ delivered[o] \in Seq(Event)
    BY <1>0 DEF HistoryTyped
  <2>2. QED
    BY <1>5, <2>1
<1>9. Typed'
  BY <1>0, <1>6, <1>7, <1>8 DEF Typed, Effected, LoopsTyped, HistoryTyped
<1>10. Swept'
  <2>1. ~(pc = "run" /\ ~CoroKill)
    BY <1>6
  <2>2. QED
    BY <1>0, <1>6, <1>7, <2>1, EffectSweeps
<1>11. /\ \A x \in Obj : obj'[x].st = "unborn" => obj[x].st = "unborn"
       /\ \A j \in Ids : activating'[j] # None => Len(activating'[j].stash) <= StashCap
  BY <1>0, <1>7, EffectKeepsStashes
<1>12. \A x \in Obj \ {o} : arrived'[x] = arrived[x] /\ delivered'[x] = delivered[x]
  BY <1>0, <1>6, <1>7 DEF HistoryTyped
<1>13. replay.rest = <<>> /\ \A j : Held(j)' = <<>> /\ Held(j) = <<>>
  BY <1>0, <1>6 DEF Stashed, Held
<1>14. ASSUME NEW x \in Obj, Alive(x)', x \notin overflowed PROVE InOrder(x)'
  <2>1. /\ obj'[x].id \in Ids
        /\ \/ /\ Alive(x) /\ obj'[x].id = obj[x].id
              /\ activating'[obj[x].id] = activating[obj[x].id]
           \/ /\ obj[x].st = "unborn" /\ actors[obj'[x].id] = None
              /\ activating'[obj'[x].id] # None => activating'[obj'[x].id].stash = <<>>
    BY <1>0, <1>7, <1>14, EffectStash
  <2>2. InOrder(x)
    BY <1>0 DEF Stashed
  <2>3. CASE /\ Alive(x) /\ obj'[x].id = obj[x].id
             /\ activating'[obj[x].id] = activating[obj[x].id]
    <3>1. CASE x = o
      <4>1. arrived[o] = delivered[o] \o <<>>
        BY <1>3, <1>13, <1>14, <2>2, <2>3, <3>1 DEF InOrder
      <4>2. /\ delivered'[o] = Append(delivered[o], e)
            /\ arrived'[o] = Append(arrived[o], e)
        BY <1>0, <1>6, <1>7, <2>3, <3>1 DEF HistoryTyped
      <4>3. arrived'[o] = delivered'[o] \o <<>>
        <5>1. arrived[o] = delivered[o]
          BY <1>8, <4>1
        <5>2. QED
          BY <1>8, <4>2, <5>1
      <4>4. QED
        BY <1>3, <1>13, <2>3, <3>1, <4>3 DEF InOrder
    <3>2. CASE x # o
      BY <1>6, <1>12, <1>13, <1>14, <2>2, <2>3, <3>2 DEF InOrder
    <3>3. QED
      BY <3>1, <3>2
  <2>4. CASE /\ obj[x].st = "unborn" /\ actors[obj'[x].id] = None
             /\ activating'[obj'[x].id] # None => activating'[obj'[x].id].stash = <<>>
    <3>1. x # o
      BY <1>3, <2>4
    <3>2. arrived'[x] = <<>> /\ delivered'[x] = <<>>
      BY <1>0, <1>12, <2>4, <3>1 DEF Stashed
    <3>3. <<>> = <<>> \o <<>>
      OBVIOUS
    <3>4. PICK j \in Ids : j = obj'[x].id
      BY <2>1
    <3>5. QED
      BY <1>13, <2>4, <3>2, <3>3, <3>4 DEF InOrder
  <2>5. QED
    BY <2>1, <2>3, <2>4
<1>15. Stashed'
  <2>1. \A x \in Obj : InOrder(x)'
    BY <1>6, <1>14 DEF InOrder
  <2>2. \A x \in Obj : obj'[x].st = "unborn" => arrived'[x] = <<>> /\ delivered'[x] = <<>>
    BY <1>0, <1>3, <1>11, <1>12 DEF Stashed
  <2>3. replay'.rest = <<>>
    BY <1>6, <1>13
  <2>4. QED
    BY <1>11, <2>1, <2>2, <2>3 DEF Stashed
<1>16. QED
  BY <1>7, <1>9, <1>10, <1>15 DEF LifeInv, Effected

-----------------------------------------------------------------------------
(* Steps that leave every id with its owner *)

TouchesObject(o) ==
    /\ obj'[o] \in Life
    /\ obj'[o].st = obj[o].st /\ obj'[o].id = obj[o].id
    /\ obj[o].cancelled => obj'[o].cancelled
    /\ obj'[o].alive => obj[o].alive

TouchesActivation(i) ==
    /\ activating[i] = None => activating'[i] = None
    /\ activating[i] # None =>
          /\ activating'[i] \in Activation
          /\ activating'[i].obj = activating[i].obj
          /\ activating'[i].stash = activating[i].stash

Touched ==
    /\ UNCHANGED <<free, actors, subs, callbacks, dying, replay, history>>
    /\ obj' = [o \in Obj |-> obj'[o]] /\ \A o \in Obj : TouchesObject(o)
    /\ activating' = [i \in Ids |-> activating'[i]] /\ \A i \in Ids : TouchesActivation(i)
    /\ to_remove' \subseteq Ids

\* What such a step keeps, wherever the pass is.
LEMMA TouchKeeps ==
  ASSUME LifecycleAssumption, LifeInv, Touched, pc = "pump" => pc' = "pump" \/ replay.rest = <<>>
  PROVE  /\ TablesTyped' /\ HistoryTyped' /\ Owned' /\ Stashed'
         /\ \A o \in Obj : Alive(o)' => Alive(o)
<1>0. TablesTyped /\ LoopsTyped /\ HistoryTyped /\ Owned /\ Stashed
  BY DEF LifeInv, Typed
<1>1. \A o \in Obj : obj'[o].st = obj[o].st /\ obj'[o].id = obj[o].id /\ (Alive(o)' => Alive(o))
  BY DEF Touched, TouchesObject, Alive
<1>2. TablesTyped' /\ HistoryTyped'
  <2>1. obj' \in [Obj -> Life]
    BY DEF Touched, TouchesObject
  <2>2. activating' \in [Ids -> Activation \cup {None}]
    BY DEF Touched, TouchesActivation
  <2>3. QED
    BY <1>0, <2>1, <2>2 DEF TablesTyped, HistoryTyped, Touched, history
<1>3. ASSUME NEW i \in Ids PROVE HoldsActor(i)'
  <2>1. HoldsActor(i) /\ TouchesActivation(i)
    BY <1>0 DEF Owned, Touched
  <2>2. actors[i] = None \/ actors[i] \in Obj
    BY <1>0 DEF TablesTyped
  <2>3. activating[i] # None => activating[i].obj \in Obj /\ activating'[i] # None
    BY <1>0, <2>1 DEF TablesTyped, Activation, TouchesActivation, LifecycleAssumption
  <2>4. QED
    BY <1>1, <2>1, <2>2, <2>3 DEF HoldsActor, Touched, TouchesObject, TouchesActivation
<1>4. Owned'
  BY <1>0, <1>1, <1>3 DEF Owned, OwnsId, Given, Touched
<1>5. ASSUME NEW i \in Ids
      PROVE  /\ activating'[i] = None <=> activating[i] = None
             /\ activating[i] # None => activating'[i].stash = activating[i].stash
  BY DEF Touched, TouchesActivation, LifecycleAssumption
<1>6. ASSUME NEW o \in Obj, Alive(o)', o \notin overflowed PROVE InOrder(o)'
  <2>1. InOrder(o) /\ Alive(o) /\ obj[o].id \in Ids
    BY <1>0, <1>1, <1>6 DEF Stashed, TablesTyped, Life
  <2>2. \A i : Held(i)' = Held(i)
    BY DEF Held, Touched
  <2>3. QED
    BY <1>1, <1>5, <1>6, <2>1, <2>2 DEF InOrder, Touched, history
<1>7. Stashed'
  <2>1. \A o \in Obj : InOrder(o)'
    BY <1>6 DEF InOrder, Touched, history
  <2>2. \A o \in Obj : obj'[o].st = "unborn" => arrived'[o] = <<>> /\ delivered'[o] = <<>>
    BY <1>0, <1>1 DEF Stashed, Touched, history
  <2>3. \A i \in Ids : activating'[i] # None => Len(activating'[i].stash) <= StashCap
    BY <1>0, <1>5 DEF Stashed
  <2>4. replay'.rest # <<>> =>
           pc' = "pump" /\ actors'[replay'.id] # None /\ activating'[replay'.id] = None
    <3>1. replay' = replay /\ actors' = actors /\ replay.id \in Ids
      BY <1>0 DEF Touched, LoopsTyped
    <3>2. QED
      BY <1>0, <1>5, <3>1 DEF Stashed
  <2>5. QED
    BY <2>1, <2>2, <2>3, <2>4 DEF Stashed
<1>8. QED
  BY <1>1, <1>2, <1>4, <1>7

\* A step of the loop alone touches nothing.
LEMMA NothingTouched ==
  ASSUME LifeInv, UNCHANGED tables, UNCHANGED <<replay, history>>
  PROVE  Touched
<1>1. TablesTyped
  BY DEF LifeInv, Typed
<1>2. ASSUME NEW o \in Obj PROVE TouchesObject(o)
  BY <1>1 DEF TouchesObject, TablesTyped, tables
<1>3. ASSUME NEW i \in Ids PROVE TouchesActivation(i)
  BY <1>1 DEF TouchesActivation, TablesTyped, tables
<1>4. QED
  BY <1>1, <1>2, <1>3 DEF Touched, TablesTyped, tables

\* The pump has seen every activation: the core goes on to its events.
LEMMA PumpReturnsKeeps ==
  ASSUME LifecycleAssumption, LifeInv, PumpReturns
  PROVE  LifeInv'
<1>0. LoopsTyped /\ Swept
  BY DEF LifeInv, Typed
<1>1. /\ pc = "pump" /\ todo = {} /\ replay.rest = <<>> /\ pc' \in {"left", "recv"}
      /\ UNCHANGED tables /\ UNCHANGED <<replay, history>>
      /\ UNCHANGED <<obj, actors, to_remove, dying, todo, due, snapshot>>
  BY DEF PumpReturns, loops, tables
<1>2. TablesTyped' /\ HistoryTyped' /\ Owned' /\ Stashed'
  BY <1>1, NothingTouched, TouchKeeps
<1>3. LoopsTyped'
  BY <1>0, <1>1 DEF LoopsTyped
<1>4. Swept'
  <2>1. dying = {} /\ snapshot = {}
    BY <1>0, <1>1 DEF Swept, InPass
  <2>2. \A x : Alive(x)' <=> Alive(x)
    BY <1>1 DEF Alive
  <2>3. QED
    BY <1>0, <1>1, <2>1, <2>2 DEF Swept, InPass, Marked
<1>5. QED
  BY <1>2, <1>3, <1>4 DEF LifeInv, Typed

\* The events are handled: the callbacks to tick are copied, or the reap loop
\* begins.
LEMMA ReceiveEndKeeps ==
  ASSUME LifecycleAssumption, LifeInv, ReceiveEnd
  PROVE  LifeInv'
<1>0. LoopsTyped /\ Swept /\ TablesTyped /\ Owned
  BY DEF LifeInv, Typed
<1>1. /\ pc = "recv" /\ pc' \in {"reap", "tick"}
      /\ UNCHANGED tables /\ UNCHANGED <<replay, history>>
      /\ UNCHANGED <<obj, actors, to_remove, dying, due, callbacks>>
  BY DEF ReceiveEnd, tables
<1>2. TablesTyped' /\ HistoryTyped' /\ Owned' /\ Stashed'
  BY <1>1, NothingTouched, TouchKeeps
<1>3. dying = {} /\ snapshot = {}
  BY <1>0, <1>1 DEF Swept, InPass
<1>4. \A x : Alive(x)' <=> Alive(x)
  BY <1>1 DEF Alive
<1>5. CASE to_remove # {}
  <2>1. pc' = "reap" /\ todo' = {} /\ snapshot' = snapshot
    BY <1>5 DEF ReceiveEnd
  <2>2. Swept' /\ LoopsTyped'
    BY <1>0, <1>1, <1>3, <1>4, <2>1 DEF Swept, InPass, Marked, LoopsTyped
  <2>3. QED
    BY <1>2, <2>2 DEF LifeInv, Typed
<1>6. CASE to_remove = {}
  <2>1. /\ pc' = "tick" /\ todo' = todo
        /\ snapshot' = {<<i, callbacks[i]>> : i \in {j \in Ids : callbacks[j] # None}}
    BY <1>6 DEF ReceiveEnd
  <2>2. ASSUME NEW entry \in snapshot'
        PROVE entry \in Ids \X Obj /\ Ticking(entry[1], entry[2])'
    <3>1. PICK i \in Ids : callbacks[i] # None /\ entry = <<i, callbacks[i]>>
      BY <2>1, <2>2
    <3>2. callbacks[i] \in Obj /\ callbacks[i] = actors[i] /\ Marked(i)
      BY <1>0, <3>1 DEF TablesTyped, Owned, HoldsActor, Swept
    <3>3. Alive(actors[i])
      BY <1>1, <1>3, <1>6, <3>1, <3>2 DEF Marked
    <3>4. QED
      BY <1>1, <1>4, <3>1, <3>2, <3>3 DEF Ticking
  <2>3. LoopsTyped'
    BY <1>0, <1>1, <2>1, <2>2 DEF LoopsTyped
  <2>4. Swept'
    <3>1. \A i \in Ids : Marked(i)'
      BY <1>0, <1>1, <1>4 DEF Swept, Marked
    <3>2. InPass'
      BY <1>1, <1>3, <2>1 DEF InPass
    <3>3. QED
      BY <2>2, <3>1, <3>2 DEF Swept
  <2>5. QED
    BY <1>2, <2>3, <2>4 DEF LifeInv, Typed
<1>7. QED
  BY <1>5, <1>6

\* The last callback has ticked.
LEMMA TickEndKeeps ==
  ASSUME LifecycleAssumption, LifeInv, TickEnd
  PROVE  LifeInv'
<1>0. LoopsTyped /\ Swept
  BY DEF LifeInv, Typed
<1>1. /\ pc = "tick" /\ snapshot = {}
      /\ UNCHANGED tables /\ UNCHANGED <<replay, history>>
      /\ UNCHANGED <<obj, actors, to_remove, dying, snapshot>>
      /\ due' \subseteq Ids
      /\ \/ pc' = "reap" /\ todo' = {}
         \/ pc' = "run" /\ todo' = todo /\ to_remove = {}
  BY <1>0 DEF TickEnd, NextPass, tables, Activating, LoopsTyped
<1>2. TablesTyped' /\ HistoryTyped' /\ Owned' /\ Stashed'
  BY <1>1, NothingTouched, TouchKeeps
<1>3. LoopsTyped'
  BY <1>0, <1>1 DEF LoopsTyped
<1>4. dying = {}
  BY <1>0, <1>1 DEF Swept, InPass
<1>5. \A x : Alive(x)' <=> Alive(x)
  BY <1>1 DEF Alive
<1>6. Swept'
  BY <1>0, <1>1, <1>4, <1>5 DEF Swept, InPass, Marked
<1>7. QED
  BY <1>2, <1>3, <1>6 DEF LifeInv, Typed

\* The reap loop takes the set of killed actors.
LEMMA ReapSwapKeeps ==
  ASSUME LifecycleAssumption, LifeInv, ReapSwap
  PROVE  LifeInv'
<1>0. LoopsTyped /\ Swept /\ TablesTyped
  BY DEF LifeInv, Typed
<1>1. /\ pc = "reap" /\ pc' = "reap" /\ todo = {} /\ todo' = to_remove /\ to_remove' = {}
      /\ UNCHANGED <<obj, free, actors, subs, callbacks, activating, dying, due,
                     snapshot, replay, history>>
  BY DEF ReapSwap
<1>2. Touched
  <2>1. ASSUME NEW o \in Obj PROVE TouchesObject(o)
    BY <1>0, <1>1 DEF TouchesObject, TablesTyped
  <2>2. ASSUME NEW i \in Ids PROVE TouchesActivation(i)
    BY <1>0, <1>1 DEF TouchesActivation, TablesTyped
  <2>3. QED
    BY <1>0, <1>1, <2>1, <2>2 DEF Touched, TablesTyped
<1>3. TablesTyped' /\ HistoryTyped' /\ Owned' /\ Stashed'
  BY <1>1, <1>2, TouchKeeps
<1>4. LoopsTyped'
  BY <1>0, <1>1 DEF LoopsTyped, TablesTyped
<1>5. \A x : Alive(x)' <=> Alive(x)
  BY <1>1 DEF Alive
<1>6. Swept'
  BY <1>0, <1>1, <1>5 DEF Swept, InPass, Marked
<1>7. QED
  BY <1>3, <1>4, <1>6 DEF LifeInv, Typed

\* Those that wait for their frame are cancelled, so the next pass resumes them.
LEMMA ReapEndKeeps ==
  ASSUME LifecycleAssumption, LifeInv, ReapEnd
  PROVE  LifeInv'
<1>0. LoopsTyped /\ Swept /\ Owned /\ TablesTyped
  BY DEF LifeInv, Typed
<1>1. /\ pc = "reap" /\ todo = {} /\ to_remove = {} /\ todo' = todo
      /\ UNCHANGED tables /\ UNCHANGED <<replay, history>>
      /\ UNCHANGED <<obj, actors, activating, to_remove, dying, snapshot>>
      /\ \/ pc' = "left" /\ due' = due
         \/ /\ pc' = "run"
            /\ due' = {i \in Activating : ~activating[i].done
                                          /\ obj[activating[i].obj].cancelled}
  BY DEF ReapEnd, NextPass, tables
<1>2. TablesTyped' /\ HistoryTyped' /\ Owned' /\ Stashed'
  BY <1>1, NothingTouched, TouchKeeps
<1>3. LoopsTyped'
  BY <1>0, <1>1 DEF LoopsTyped, Activating
<1>4. \A x : Alive(x)' <=> Alive(x)
  BY <1>1 DEF Alive
<1>5. \A i \in dying : i \in Activating /\ obj[activating[i].obj].cancelled
  BY <1>0 DEF TablesTyped, Owned, HoldsActor, Activating
<1>6. InPass'
  <2>1. snapshot = {}
    BY <1>0, <1>1 DEF Swept, InPass
  <2>2. CASE pc' = "left"
    BY <1>1, <2>1, <2>2 DEF InPass
  <2>3. CASE pc' = "run"
    BY <1>1, <1>5, <2>1, <2>3 DEF InPass
  <2>4. QED
    BY <1>1, <2>2, <2>3
<1>7. Swept'
  BY <1>0, <1>1, <1>4, <1>6 DEF Swept, Marked
<1>8. QED
  BY <1>2, <1>3, <1>7 DEF LifeInv, Typed

-----------------------------------------------------------------------------
(* The listener and the first loop of the pump *)

\* Every actor that waits for its frame is due, and the listener has resumed all
\* that were due: their frames are done, the pump will see them.
LEMMA ListenerReturnsKeeps ==
  ASSUME LifecycleAssumption, Contained, LifeInv, ListenerReturns
  PROVE  LifeInv'
<1>0. LoopsTyped /\ Swept /\ Owned /\ TablesTyped /\ Stashed
  BY DEF LifeInv, Typed
<1>1. /\ pc = "run" /\ due = {}
      /\ UNCHANGED <<free, actors, subs, callbacks, dying, to_remove, due,
                     snapshot, replay, history>>
  BY DEF ListenerReturns, Contained
<1>2. /\ \A i \in dying : i \in Activating /\ activating[i].done
      /\ snapshot = {} /\ replay.rest = <<>>
  BY <1>0, <1>1 DEF Swept, InPass, TablesTyped, Owned, HoldsActor, Activating, Stashed
<1>3. CASE Activating = {}
  <2>1. pc' = "recv" /\ UNCHANGED <<todo, activating, obj>>
    BY <1>3 DEF ListenerReturns
  <2>2. UNCHANGED tables /\ UNCHANGED <<replay, history>>
    BY <1>1, <2>1 DEF tables
  <2>3. TablesTyped' /\ HistoryTyped' /\ Owned' /\ Stashed'
    BY <1>1, <2>2, NothingTouched, TouchKeeps
  <2>4. LoopsTyped'
    BY <1>0, <1>1, <2>1 DEF LoopsTyped
  <2>5. dying = {}
    BY <1>2, <1>3
  <2>6. \A x : Alive(x)' <=> Alive(x)
    BY <2>1 DEF Alive
  <2>7. Swept'
    BY <1>0, <1>1, <1>2, <2>1, <2>5, <2>6 DEF Swept, InPass, Marked
  <2>8. QED
    BY <2>3, <2>4, <2>7 DEF LifeInv, Typed
<1>4. CASE Activating # {}
  <2>1. /\ pc' = "pump"
        /\ todo' = {i \in Activating : activating[i].done}
        /\ activating' = [i \in Ids |->
              IF Expires(i) THEN [activating[i] EXCEPT !.cancelling = TRUE]
              ELSE activating[i]]
        /\ obj' = [o \in Obj |->
              IF \E i \in Ids : Expires(i) /\ actors[i] = o
              THEN [obj[o] EXCEPT !.cancelled = TRUE] ELSE obj[o]]
    BY <1>4 DEF ListenerReturns
  <2>2. ASSUME NEW o \in Obj PROVE TouchesObject(o) /\ obj'[o].alive = obj[o].alive
    <3>1. obj[o] \in Life
      BY <1>0 DEF TablesTyped
    <3>2. PICK w : w = [obj[o] EXCEPT !.cancelled = TRUE]
      OBVIOUS
    <3>3. w \in Life /\ w.st = obj[o].st /\ w.id = obj[o].id /\ w.alive = obj[o].alive /\ w.cancelled
      BY <3>1, <3>2 DEF Life
    <3>4. obj'[o] = obj[o] \/ obj'[o] = w
      BY <2>1, <3>2
    <3>5. QED
      BY <3>1, <3>3, <3>4 DEF TouchesObject
  <2>3. ASSUME NEW i \in Ids
        PROVE  TouchesActivation(i) /\ (activating[i] # None =>
                   activating'[i] # None /\ activating'[i].done = activating[i].done)
    <3>1. CASE activating[i] = None
      BY <2>1, <3>1 DEF TouchesActivation, Expires
    <3>2. CASE activating[i] # None
      <4>1. activating[i] \in Activation
        BY <1>0, <3>2 DEF TablesTyped
      <4>2. PICK w : w = [activating[i] EXCEPT !.cancelling = TRUE]
        OBVIOUS
      <4>3. /\ w \in Activation /\ w.obj = activating[i].obj
            /\ w.stash = activating[i].stash /\ w.done = activating[i].done
        BY <4>1, <4>2 DEF Activation
      <4>4. activating'[i] = activating[i] \/ activating'[i] = w
        BY <2>1, <4>2
      <4>5. w # None
        BY <4>3 DEF LifecycleAssumption
      <4>6. QED
        BY <3>2, <4>1, <4>3, <4>4, <4>5 DEF TouchesActivation
    <3>3. QED
      BY <3>1, <3>2
  <2>4. Touched
    BY <1>0, <1>1, <2>1, <2>2, <2>3 DEF Touched, TablesTyped
  <2>5. TablesTyped' /\ HistoryTyped' /\ Owned' /\ Stashed'
    BY <1>1, <2>4, TouchKeeps
  <2>6. LoopsTyped'
    BY <1>0, <1>1, <2>1 DEF LoopsTyped, Activating
  <2>7. \A x \in Obj : Alive(x)' <=> Alive(x)
    BY <2>2 DEF Alive, TouchesObject
  <2>8. ASSUME NEW i \in Ids PROVE Marked(i)'
    <3>1. Marked(i) /\ (actors[i] = None \/ actors[i] \in Obj)
      BY <1>0 DEF Swept, TablesTyped
    <3>2. QED
      BY <1>1, <2>7, <3>1 DEF Marked
  <2>9. InPass'
    <3>1. \A i \in todo' : i \in Ids /\ activating[i] # None /\ activating[i].done
      BY <2>1 DEF Activating
    <3>2. dying \subseteq todo'
      BY <1>2, <2>1
    <3>3. QED
      BY <1>1, <1>2, <2>1, <2>3, <3>1, <3>2 DEF InPass
  <2>10. Swept'
    BY <2>1, <2>8, <2>9 DEF Swept
  <2>11. QED
    BY <2>5, <2>6, <2>10 DEF LifeInv, Typed
<1>5. QED
  BY <1>3, <1>4

\* An asynchronous onInit() returns, throws or was cancelled.
LEMMA InitEndsKeeps ==
  ASSUME LifecycleAssumption, LifeInv, NEW i \in Ids, NEW ok \in BOOLEAN, NEW k \in BOOLEAN,
         InitEnds(i, ok, k)
  PROVE  LifeInv'
<1>0. LoopsTyped /\ Swept /\ Owned /\ TablesTyped /\ Stashed
  BY DEF LifeInv, Typed
<1>1. PICK act \in Activation : act = activating[i]
  BY <1>0 DEF InitEnds, TablesTyped
<1>2. PICK o \in Obj : o = act.obj
  BY DEF Activation
<1>3. activating[i] # None /\ actors[i] = o
  BY <1>0, <1>1, <1>2 DEF InitEnds, Owned, HoldsActor
<1>4. /\ pc = "run" /\ (k => CoroKill)
      /\ activating' = [activating EXCEPT ![i] = [@ EXCEPT !.done = TRUE, !.ok = ok]]
      /\ obj' = [obj EXCEPT ![o].failed = ~ok, ![o].alive = @ /\ ~k,
                            ![o].cancelled = @ \/ k]
      /\ to_remove' = (IF k THEN to_remove \cup {i} ELSE to_remove)
      /\ due' = due \ {i}
      /\ UNCHANGED <<pc, free, actors, subs, callbacks, dying, todo, snapshot,
                     replay, history>>
  BY <1>1, <1>2 DEF InitEnds
<1>5. PICK w : w = [act EXCEPT !.done = TRUE, !.ok = ok]
  OBVIOUS
<1>6. /\ w \in Activation /\ w # None
      /\ w.obj = act.obj /\ w.stash = act.stash /\ w.done
  <2>1. /\ w \in Activation
        /\ w.obj = act.obj /\ w.stash = act.stash /\ w.done
    BY <1>5 DEF Activation
  <2>2. QED
    BY <2>1 DEF LifecycleAssumption
<1>7. activating'[i] = w /\ \A j \in Ids \ {i} : activating'[j] = activating[j]
  BY <1>0, <1>1, <1>4, <1>5 DEF TablesTyped
<1>8. obj \in [Obj -> Life] /\ obj[o].alive \in BOOLEAN /\ obj[o].cancelled \in BOOLEAN
  BY <1>0 DEF TablesTyped, Life
<1>9. PICK a \in BOOLEAN, c \in BOOLEAN, f \in BOOLEAN :
         /\ a = (obj[o].alive /\ ~k) /\ c = (obj[o].cancelled \/ k) /\ f = ~ok
  BY <1>8
<1>10. /\ obj' \in [Obj -> Life] /\ \A x \in Obj \ {o} : obj'[x] = obj[x]
       /\ obj'[o] \in Life /\ obj'[o].st = obj[o].st /\ obj'[o].id = obj[o].id
       /\ (obj[o].cancelled => obj'[o].cancelled) /\ (obj'[o].alive <=> obj[o].alive /\ ~k)
  <2>1. obj' = [obj EXCEPT ![o].failed = f, ![o].alive = a, ![o].cancelled = c]
    BY <1>4, <1>8, <1>9
  <2>2. /\ obj'[o] = [obj[o] EXCEPT !.failed = f, !.alive = a, !.cancelled = c]
        /\ obj' = [obj EXCEPT ![o] = [obj[o] EXCEPT !.failed = f, !.alive = a, !.cancelled = c]]
    BY <1>8, <2>1
  <2>3. /\ obj'[o] \in Life /\ obj'[o].st = obj[o].st /\ obj'[o].id = obj[o].id
        /\ obj'[o].cancelled = c /\ obj'[o].alive = a
    <3>1. obj[o] \in Life
      BY <1>8
    <3>2. PICK u : u = obj'[o]
      OBVIOUS
    <3>3. u = [obj[o] EXCEPT !.failed = f, !.alive = a, !.cancelled = c]
      BY <2>2, <3>2
    <3>4. u \in Life
      BY <3>1, <3>3 DEF Life
    <3>5. u.st = obj[o].st /\ u.id = obj[o].id /\ u.cancelled = c /\ u.alive = a
      BY <3>1, <3>3 DEF Life
    <3>6. QED
      BY <3>2, <3>4, <3>5
  <2>4. QED
    BY <1>8, <1>9, <2>2, <2>3
<1>11. Touched
  <2>1. ASSUME NEW x \in Obj PROVE TouchesObject(x)
    BY <1>0, <1>9, <1>10 DEF TouchesObject, TablesTyped
  <2>2. ASSUME NEW j \in Ids PROVE TouchesActivation(j)
    BY <1>0, <1>1, <1>3, <1>6, <1>7 DEF TouchesActivation, TablesTyped
  <2>3. QED
    BY <1>0, <1>4, <2>1, <2>2 DEF Touched, TablesTyped
<1>12. TablesTyped' /\ HistoryTyped' /\ Owned' /\ Stashed'
  BY <1>4, <1>11, TouchKeeps
<1>13. LoopsTyped'
  BY <1>0, <1>4 DEF LoopsTyped
<1>14. \A x \in Obj : Alive(x) => Alive(x)' \/ (x = o /\ k)
  BY <1>9, <1>10 DEF Alive
<1>15. ASSUME NEW j \in Ids PROVE Marked(j)'
  <2>1. Marked(j) /\ (actors[j] = None \/ actors[j] \in Obj)
    BY <1>0 DEF Swept, TablesTyped
  <2>2. actors[j] = o => j = i
    BY <1>0, <1>3 DEF Owned, HoldsActor, LifecycleAssumption
  <2>3. QED
    BY <1>4, <1>14, <2>1, <2>2 DEF Marked
<1>16. InPass'
  <2>1. InPass /\ dying \subseteq Ids
    BY <1>0 DEF Swept, TablesTyped
  <2>2. \A j \in dying : activating'[j].done \/ j \in due'
    BY <1>4, <1>6, <1>7, <2>1 DEF InPass
  <2>3. ~CoroKill => to_remove' = {}
    BY <1>4, <2>1 DEF InPass
  <2>4. QED
    BY <1>4, <2>1, <2>2, <2>3 DEF InPass
<1>17. Swept'
  BY <1>4, <1>15, <1>16 DEF Swept
<1>18. QED
  BY <1>12, <1>13, <1>17 DEF LifeInv, Typed

\* The wall clock passes the deadline of an activation.
LEMMA DeadlinePassesKeeps ==
  ASSUME LifecycleAssumption, LifeInv, NEW i \in Ids, DeadlinePasses(i)
  PROVE  LifeInv'
<1>0. LoopsTyped /\ Swept /\ Owned /\ TablesTyped /\ Stashed
  BY DEF LifeInv, Typed
<1>1. PICK act \in Activation : act = activating[i]
  BY <1>0 DEF DeadlinePasses, TablesTyped
<1>2. /\ activating[i] # None
      /\ activating' = [activating EXCEPT ![i] = [@ EXCEPT !.expired = TRUE]]
      /\ UNCHANGED <<pc, obj, free, actors, subs, callbacks, dying, to_remove,
                     todo, due, snapshot, replay, history>>
  BY DEF DeadlinePasses, loops
<1>3. PICK w : w = [act EXCEPT !.expired = TRUE]
  OBVIOUS
<1>4. w \in Activation /\ w.obj = act.obj /\ w.stash = act.stash /\ w.done = act.done
  BY <1>3 DEF Activation
<1>5. activating'[i] = w /\ \A j \in Ids \ {i} : activating'[j] = activating[j]
  BY <1>0, <1>1, <1>2, <1>3 DEF TablesTyped
<1>6. Touched
  <2>1. ASSUME NEW x \in Obj PROVE TouchesObject(x)
    BY <1>0, <1>2 DEF TouchesObject, TablesTyped
  <2>2. ASSUME NEW j \in Ids PROVE TouchesActivation(j)
    BY <1>0, <1>1, <1>2, <1>4, <1>5 DEF TouchesActivation, TablesTyped
  <2>3. QED
    BY <1>0, <1>2, <2>1, <2>2 DEF Touched, TablesTyped
<1>7. TablesTyped' /\ HistoryTyped' /\ Owned' /\ Stashed'
  BY <1>2, <1>6, TouchKeeps
<1>8. LoopsTyped'
  BY <1>0, <1>2 DEF LoopsTyped
<1>9. \A x : Alive(x)' <=> Alive(x)
  BY <1>2 DEF Alive
<1>10. \A j \in Ids : activating[j] # None => activating'[j] # None /\ activating'[j].done = activating[j].done
  BY <1>1, <1>4, <1>5 DEF LifecycleAssumption
<1>11. InPass'
  <2>1. \A j \in dying : j \in Ids /\ activating[j] # None
    BY <1>0 DEF TablesTyped, Owned, HoldsActor
  <2>2. InPass /\ todo \subseteq Ids
    BY <1>0 DEF Swept, LoopsTyped
  <2>3. QED
    BY <1>2, <1>10, <2>1, <2>2 DEF InPass
<1>12. Swept'
  BY <1>0, <1>2, <1>9, <1>11 DEF Swept, Marked, Ticking
<1>13. QED
  BY <1>7, <1>8, <1>12 DEF LifeInv, Typed

-----------------------------------------------------------------------------
(* Kills that arrive as events *)

\* A KillEvent, which passes the gate.
LEMMA ReceiveKillKeeps ==
  ASSUME LifecycleAssumption, LifeInv, NEW i \in Ids, ReceiveKill(i)
  PROVE  LifeInv'
<1>0. TablesTyped /\ Tables
  BY DEF LifeInv, Typed, Tables
<1>1. PICK v : v = subs[i]
  OBVIOUS
<1>2. v \in Obj /\ Kill(v)
  BY <1>0, <1>1 DEF ReceiveKill, Kill, Alive, TablesTyped
<1>3. Effected
  BY <1>0, <1>2, KillEffected
<1>4. /\ pc = "recv" /\ UNCHANGED <<pc, todo, due, replay, history>> /\ snapshot' \subseteq snapshot
      /\ ~(pc = "run" /\ ~CoroKill)
  BY DEF ReceiveKill, loops
<1>5. QED
  BY <1>3, <1>4, QuietStep

\* A SignalEvent, which kills every actor of the core.
LEMMA ReceiveSignalKeeps ==
  ASSUME LifecycleAssumption, LifeInv, ReceiveSignal
  PROVE  LifeInv'
<1>0. LoopsTyped /\ Swept /\ Owned /\ TablesTyped /\ Stashed
  BY DEF LifeInv, Typed
<1>1. PICK hit \in SUBSET Obj :
        /\ pc = "recv"
        /\ obj' = [o \in Obj |->
              IF o \in hit THEN [obj[o] EXCEPT !.alive = FALSE, !.cancelled = TRUE]
              ELSE obj[o]]
        /\ to_remove' = to_remove \cup {obj[o].id : o \in hit}
        /\ UNCHANGED <<pc, free, actors, subs, callbacks, activating, dying, todo, due,
                       snapshot, replay, history>>
  BY DEF ReceiveSignal, loops
<1>2. ASSUME NEW o \in Obj
      PROVE  TouchesObject(o) /\ (o \notin hit => obj'[o] = obj[o])
  <2>1. obj[o] \in Life
    BY <1>0 DEF TablesTyped
  <2>2. PICK w : w = [obj[o] EXCEPT !.alive = FALSE, !.cancelled = TRUE]
    OBVIOUS
  <2>3. w \in Life /\ w.st = obj[o].st /\ w.id = obj[o].id /\ w.alive = FALSE /\ w.cancelled
    BY <2>1, <2>2 DEF Life
  <2>4. obj'[o] = IF o \in hit THEN w ELSE obj[o]
    BY <1>1, <2>2
  <2>5. QED
    BY <2>1, <2>3, <2>4 DEF TouchesObject
<1>3. Touched
  <2>1. ASSUME NEW i \in Ids PROVE TouchesActivation(i)
    BY <1>0, <1>1 DEF TouchesActivation, TablesTyped
  <2>2. to_remove' \subseteq Ids
    <3>1. to_remove \subseteq Ids /\ \A o \in Obj : obj[o].id \in Ids
      BY <1>0 DEF TablesTyped, Life
    <3>2. QED
      BY <1>1, <3>1
  <2>3. QED
    BY <1>0, <1>1, <1>2, <2>1, <2>2 DEF Touched, TablesTyped
<1>4. TablesTyped' /\ HistoryTyped' /\ Owned' /\ Stashed'
  BY <1>1, <1>3, TouchKeeps
<1>5. LoopsTyped'
  BY <1>0, <1>1 DEF LoopsTyped
<1>6. ASSUME NEW i \in Ids PROVE Marked(i)'
  <2>1. Marked(i) /\ HoldsActor(i) /\ (actors[i] = None \/ actors[i] \in Obj)
    BY <1>0 DEF Swept, Owned, TablesTyped
  <2>2. CASE actors[i] \in hit
    BY <1>1, <2>1, <2>2 DEF Marked, HoldsActor
  <2>3. CASE actors[i] \notin hit
    BY <1>1, <1>2, <2>1, <2>3 DEF Marked, Alive
  <2>4. QED
    BY <2>2, <2>3
<1>7. Swept'
  BY <1>0, <1>1, <1>6 DEF Swept, InPass
<1>8. QED
  BY <1>4, <1>5, <1>7 DEF LifeInv, Typed

-----------------------------------------------------------------------------
(* Removal *)

(* The id is free of the actor, or the actor waits for its frame; whoever  *)
(* its destructor killed is marked.                                        *)
Removed(i) ==
    /\ TablesTyped' /\ Owned' /\ Stashed'
    /\ \A j \in Ids \ {i} : actors'[j] = actors[j] /\ activating'[j] = activating[j]
    /\ \/ actors'[i] = None /\ dying' = dying \ {i}
       \/ /\ Deferred(i) /\ dying' = dying \cup {i}
          /\ actors'[i] = actors[i] /\ activating'[i] = activating[i]
    /\ to_remove \subseteq to_remove'
    /\ \A o \in Obj : Alive(o) => Alive(o)' \/ obj[o].id \in to_remove' \/ obj[o].id = i

\* removeActor() of an actor whose frame must unwind first.
LEMMA RemoveDeferred ==
  ASSUME LifecycleAssumption, LifeInv, NEW i \in Ids, NEW v \in Obj \cup {None},
         RemoveActor(i, to_remove, v), Deferred(i),
         replay.rest = <<>>, UNCHANGED <<replay, history>>
  PROVE  Removed(i)
<1>0. LoopsTyped /\ Owned /\ TablesTyped /\ Stashed /\ HistoryTyped
  BY DEF LifeInv, Typed
<1>1. HoldsActor(i) /\ activating[i] # None /\ activating[i] \in Activation
  BY <1>0 DEF Owned, Deferred, TablesTyped
<1>2. PICK o \in Obj : o = actors[i] /\ o = activating[i].obj
  BY <1>1 DEF HoldsActor, Activation
<1>3. /\ dying' = dying \cup {i} /\ to_remove' = to_remove
      /\ UNCHANGED <<free, actors, subs, callbacks, activating>>
      /\ obj' = [x \in Obj |-> IF x = o THEN [obj[x] EXCEPT !.cancelled = TRUE, !.st = @]
                               ELSE obj[x]]
  BY <1>2 DEF RemoveActor
<1>4. PICK u : u = [obj[o] EXCEPT !.cancelled = TRUE, !.st = @]
  OBVIOUS
<1>5. u \in Life /\ u.st = obj[o].st /\ u.id = obj[o].id /\ u.alive = obj[o].alive /\ u.cancelled
  <2>1. obj[o] \in Life
    BY <1>0 DEF TablesTyped
  <2>2. u \in Life
    BY <1>4, <2>1 DEF Life
  <2>3. QED
    BY <1>4, <2>1, <2>2 DEF Life
<1>6. obj'[o] = u /\ (\A x \in Obj \ {o} : obj'[x] = obj[x]) /\ obj' \in [Obj -> Life]
  BY <1>0, <1>3, <1>4, <1>5 DEF TablesTyped
<1>7. \A x \in Obj : Alive(x)' <=> Alive(x)
  BY <1>5, <1>6 DEF Alive
<1>8. TablesTyped'
  BY <1>0, <1>3, <1>6 DEF TablesTyped
<1>9. Owned'
  <2>1. ASSUME NEW j \in Ids PROVE HoldsActor(j)'
    <3>1. HoldsActor(j) /\ (actors[j] = None \/ actors[j] \in Obj)
      BY <1>0 DEF Owned, TablesTyped
    <3>2. activating[j] # None => activating[j].obj \in Obj
      BY <1>0 DEF TablesTyped, Activation
    <3>3. \A x \in Obj : /\ obj'[x].st = obj[x].st /\ obj'[x].id = obj[x].id
                          /\ (obj[x].cancelled \/ x = o => obj'[x].cancelled)
      BY <1>5, <1>6
    <3>4. actors[j] # None => obj'[actors[j]].st = "live" /\ obj'[actors[j]].id = j
      BY <3>1, <3>3 DEF HoldsActor
    <3>5. j \in dying' => activating[j] # None /\ obj'[activating[j].obj].cancelled
      BY <1>1, <1>2, <1>3, <3>1, <3>2, <3>3 DEF HoldsActor
    <3>6. QED
      BY <1>3, <3>1, <3>4, <3>5 DEF HoldsActor
  <2>2. \A x \in Obj : obj'[x].st = obj[x].st /\ obj'[x].id = obj[x].id
    BY <1>5, <1>6
  <2>3. ASSUME NEW x \in Obj PROVE OwnsId(x)'
    BY <1>0, <1>3, <2>2 DEF Owned, OwnsId
  <2>4. ASSUME NEW j \in Pool PROVE Given(j)'
    <3>1. Given(j) /\ free' = free
      BY <1>0, <1>3 DEF Owned
    <3>2. \A x \in Obj : obj[x].st # "unborn" /\ obj[x].id = j =>
                         obj'[x].st # "unborn" /\ obj'[x].id = j
      BY <2>2
    <3>3. QED
      BY <3>1, <3>2 DEF Given
  <2>5. QED
    BY <2>1, <2>3, <2>4 DEF Owned
<1>10. Stashed'
  <2>1. \A j : Held(j)' = Held(j)
    BY DEF Held
  <2>2. \A x \in Obj : obj'[x].id = obj[x].id /\ obj'[x].st = obj[x].st
    BY <1>5, <1>6
  <2>3. ASSUME NEW x \in Obj PROVE InOrder(x)'
    <3>1. InOrder(x)
      BY <1>0 DEF Stashed
    <3>2. QED
      BY <1>3, <1>7, <2>1, <2>2, <3>1 DEF InOrder, history
  <2>4. QED
    BY <1>0, <1>3, <2>2, <2>3 DEF Stashed, history
<1>11. QED
  BY <1>3, <1>7, <1>8, <1>9, <1>10 DEF Removed

\* removeActor() of an actor without a frame: its destructor may kill
\* another.
LEMMA RemoveAtOnce ==
  ASSUME LifecycleAssumption, LifeInv, NEW i \in Ids, NEW v \in Obj \cup {None},
         RemoveActor(i, to_remove, v), ~Deferred(i),
         replay.rest = <<>>, UNCHANGED <<replay, history>>
  PROVE  Removed(i)
<1>0. LoopsTyped /\ Owned /\ TablesTyped /\ Stashed /\ HistoryTyped
  BY DEF LifeInv, Typed
<1>1. HoldsActor(i)
  BY <1>0 DEF Owned
<1>2. /\ v # None => actors[i] # None /\ v # actors[i] /\ Alive(v)
      /\ to_remove' = (IF v # None THEN to_remove \cup {obj[v].id} ELSE to_remove)
      /\ dying' = dying \ {i}
      /\ activating' = [activating EXCEPT ![i] = None]
      /\ callbacks' = [callbacks EXCEPT ![i] = None]
      /\ subs' = [subs EXCEPT ![i] = None]
      /\ actors' = [actors EXCEPT ![i] = None]
      /\ free' = (IF actors[i] # None /\ i > NbService THEN free \cup {i} ELSE free)
      /\ obj' = [x \in Obj |->
            IF x = actors[i] THEN [obj[x] EXCEPT !.cancelled = TRUE, !.st = "destroyed"]
            ELSE IF v # None /\ x = v
                 THEN [obj[x] EXCEPT !.alive = FALSE, !.cancelled = TRUE]
                 ELSE obj[x]]
  <2>1. v # None => actors[i] # None /\ v # actors[i] /\ Alive(v)
    BY DEF RemoveActor
  <2>2. /\ dying' = dying \ {i}
        /\ activating' = [activating EXCEPT ![i] = None]
        /\ callbacks' = [callbacks EXCEPT ![i] = None]
        /\ subs' = [subs EXCEPT ![i] = None]
        /\ actors' = [actors EXCEPT ![i] = None]
        /\ free' = (IF actors[i] # None /\ i > NbService THEN free \cup {i} ELSE free)
    BY DEF RemoveActor, eraseActivation, unregisterCallback, unregisterEvents
  <2>3. to_remove' = (IF v # None THEN to_remove \cup {obj[v].id} ELSE to_remove)
    BY <2>1 DEF RemoveActor
  <2>4. obj' = [x \in Obj |->
            IF x = actors[i] THEN [obj[x] EXCEPT !.cancelled = TRUE, !.st = "destroyed"]
            ELSE IF v # None /\ x = v
                 THEN [obj[x] EXCEPT !.alive = FALSE, !.cancelled = TRUE]
                 ELSE obj[x]]
    <3>1. CASE actors[i] # None
      BY <3>1 DEF RemoveActor
    <3>2. CASE actors[i] = None
      <4>1. v = None /\ \A x \in Obj : x # actors[i]
        BY <2>1, <3>2 DEF LifecycleAssumption
      <4>2. obj' = [x \in Obj |-> obj[x]]
        BY <4>1 DEF RemoveActor
      <4>3. QED
        BY <4>1, <4>2
    <3>3. QED
      BY <3>1, <3>2
  <2>5. QED
    BY <2>1, <2>2, <2>3, <2>4
<1>3. ASSUME NEW x \in Obj
      PROVE  /\ obj'[x] \in Life /\ obj'[x].id = obj[x].id
             /\ obj'[x].st = IF x = actors[i] THEN "destroyed" ELSE obj[x].st
             /\ obj[x].cancelled => obj'[x].cancelled
             /\ Alive(x)' <=> Alive(x) /\ x # actors[i] /\ x # v
  <2>1. obj[x] \in Life
    BY <1>0 DEF TablesTyped
  <2>2. PICK a : a = [obj[x] EXCEPT !.cancelled = TRUE, !.st = "destroyed"]
    OBVIOUS
  <2>3. PICK b : b = [obj[x] EXCEPT !.alive = FALSE, !.cancelled = TRUE]
    OBVIOUS
  <2>4. a \in Life /\ a.id = obj[x].id /\ a.st = "destroyed" /\ a.cancelled
    BY <2>1, <2>2 DEF Life
  <2>5. b \in Life /\ b.id = obj[x].id /\ b.st = obj[x].st /\ b.cancelled /\ b.alive = FALSE
    BY <2>1, <2>3 DEF Life
  <2>6. obj'[x] = IF x = actors[i] THEN a ELSE IF x = v THEN b ELSE obj[x]
    BY <1>2, <2>2, <2>3 DEF LifecycleAssumption
  <2>7. QED
    BY <2>1, <2>4, <2>5, <2>6 DEF Alive
<1>4. obj' \in [Obj -> Life]
  BY <1>2, <1>3
<1>5. /\ actors'[i] = None /\ subs'[i] = None /\ callbacks'[i] = None /\ activating'[i] = None
      /\ \A j \in Ids \ {i} : /\ actors'[j] = actors[j] /\ subs'[j] = subs[j]
                              /\ callbacks'[j] = callbacks[j] /\ activating'[j] = activating[j]
  BY <1>0, <1>2 DEF TablesTyped
<1>6. v # None => obj[v].id \in Ids
  BY <1>0 DEF TablesTyped, Life
<1>7. i > NbService => i \in Pool
  BY DEF Ids, Pool, LifecycleAssumption, NotFound
<1>8. TablesTyped'
  BY <1>0, <1>2, <1>4, <1>6, <1>7 DEF TablesTyped
<1>9. ASSUME NEW x \in Obj PROVE OwnsId(x)'
  <2>1. CASE obj'[x].st = "live"
    <3>1. x # actors[i] /\ obj[x].st = "live"
      BY <1>3, <2>1
    <3>2. obj[x].id \in Ids /\ obj[x].id # NotFound /\ actors[obj[x].id] = x
      BY <1>0, <3>1 DEF Owned, OwnsId, TablesTyped, Life
    <3>3. obj[x].id # i
      BY <3>1, <3>2
    <3>4. QED
      BY <1>3, <1>5, <3>2, <3>3 DEF OwnsId
  <2>2. QED
    BY <2>1 DEF OwnsId
<1>10. ASSUME NEW j \in Ids PROVE HoldsActor(j)'
  <2>1. CASE j = i
    BY <1>2, <1>5, <2>1 DEF HoldsActor
  <2>2. CASE j # i
    <3>1. HoldsActor(j) /\ (actors[j] = None \/ actors[j] \in Obj)
      BY <1>0 DEF Owned, TablesTyped
    <3>2. activating[j] # None => activating[j].obj \in Obj
      BY <1>0 DEF TablesTyped, Activation
    <3>3. actors[j] # None => actors[j] # actors[i]
      BY <1>1, <2>2, <3>1 DEF HoldsActor
    <3>4. /\ actors'[j] = actors[j] /\ subs'[j] = subs[j] /\ callbacks'[j] = callbacks[j]
          /\ activating'[j] = activating[j] /\ (j \in free' => j \in free)
          /\ (j \in dying' => j \in dying)
      BY <1>2, <1>5, <2>2
    <3>5. QED
      BY <1>3, <3>1, <3>2, <3>3, <3>4 DEF HoldsActor
  <2>3. QED
    BY <2>1, <2>2
<1>11. ASSUME NEW j \in Pool PROVE Given(j)'
  <2>1. Given(j) /\ (j \in free => j \in free')
    BY <1>0, <1>2 DEF Owned
  <2>2. ASSUME NEW x \in Obj, obj[x].st # "unborn", obj[x].id = j
        PROVE  obj'[x].st # "unborn" /\ obj'[x].id = j
    BY <1>3, <2>2
  <2>3. QED
    BY <2>1, <2>2 DEF Given
<1>12. Owned'
  BY <1>9, <1>10, <1>11 DEF Owned
<1>13. Stashed'
  <2>1. \A j : Held(j)' = Held(j)
    BY DEF Held
  <2>2. ASSUME NEW x \in Obj, Alive(x)', x \notin overflowed PROVE InOrder(x)'
    <3>1. InOrder(x) /\ Alive(x) /\ x # actors[i] /\ obj'[x].id = obj[x].id
      BY <1>0, <1>3, <2>2 DEF Stashed
    <3>2. obj[x].id \in Ids \ {i}
      BY <1>0, <3>1 DEF Owned, OwnsId, Alive, TablesTyped, Life
    <3>3. activating'[obj[x].id] = activating[obj[x].id]
      BY <1>5, <3>2
    <3>4. QED
      BY <2>1, <2>2, <3>1, <3>3 DEF InOrder, history
  <2>3. \A x \in Obj : InOrder(x)'
    BY <2>2 DEF InOrder, history
  <2>4. \A x \in Obj : obj'[x].st = "unborn" => arrived'[x] = <<>> /\ delivered'[x] = <<>>
    BY <1>0, <1>3 DEF Stashed, history
  <2>5. \A j \in Ids : activating'[j] # None => Len(activating'[j].stash) <= StashCap
    BY <1>0, <1>5 DEF Stashed
  <2>6. QED
    BY <2>3, <2>4, <2>5 DEF Stashed
<1>14. ASSUME NEW o \in Obj, Alive(o) PROVE Alive(o)' \/ obj[o].id \in to_remove' \/ obj[o].id = i
  <2>1. CASE o = actors[i]
    BY <1>1, <2>1 DEF HoldsActor, LifecycleAssumption
  <2>2. CASE o = v
    BY <1>2, <2>2 DEF LifecycleAssumption
  <2>3. QED
    BY <1>3, <1>14, <2>1, <2>2
<1>15. to_remove \subseteq to_remove'
  BY <1>2
<1>16. QED
  BY <1>2, <1>5, <1>8, <1>12, <1>13, <1>14, <1>15 DEF Removed

\* removeActor(), in both cases.
LEMMA RemoveActorRemoves ==
  ASSUME LifecycleAssumption, LifeInv, NEW i \in Ids, NEW v \in Obj \cup {None},
         RemoveActor(i, to_remove, v), replay.rest = <<>>, UNCHANGED <<replay, history>>
  PROVE  Removed(i)
BY RemoveDeferred, RemoveAtOnce

(* Whoever is left is marked as before.                                    *)
LEMMA RemovedMarks ==
  ASSUME LifecycleAssumption, LifeInv, NEW i \in Ids, Removed(i),
         UNCHANGED pc, todo' = todo \ {i}
  PROVE  \A j \in Ids : Marked(j)'
<1>0. Owned /\ Swept /\ TablesTyped
  BY DEF LifeInv, Typed
<1>1. ASSUME NEW j \in Ids, actors'[j] # None PROVE Marked(j)'
  <2>1. CASE j = i
    BY <1>1, <2>1 DEF Removed, Marked
  <2>2. CASE j # i
    <3>1. actors'[j] = actors[j] /\ (j \in dying => j \in dying')
      BY <2>2 DEF Removed
    <3>2. Marked(j) /\ HoldsActor(j)
      BY <1>0 DEF Swept, Owned
    <3>3. PICK o \in Obj : o = actors[j]
      BY <1>0, <1>1, <3>1 DEF TablesTyped
    <3>4. obj[o].id = j
      BY <3>2, <3>3 DEF HoldsActor, LifecycleAssumption
    <3>5. Alive(o) => Alive(o)' \/ j \in to_remove'
      BY <2>2, <3>4 DEF Removed
    <3>6. to_remove \subseteq to_remove'
      BY DEF Removed
    <3>7. QED
      BY <1>1, <2>2, <3>1, <3>2, <3>3, <3>5, <3>6 DEF Marked
  <2>3. QED
    BY <2>1, <2>2
<1>2. QED
  BY <1>1 DEF Marked

\* One actor of the reap batch is removed.
LEMMA ReapOneKeeps ==
  ASSUME LifecycleAssumption, LifeInv, NEW i \in Ids, NEW v \in Obj \cup {None}, ReapOne(i, v)
  PROVE  LifeInv'
<1>0. LoopsTyped /\ HistoryTyped /\ Swept /\ Stashed
  BY DEF LifeInv, Typed
<1>1. /\ pc = "reap" /\ todo' = todo \ {i} /\ RemoveActor(i, to_remove, v)
      /\ UNCHANGED <<pc, due, snapshot, replay, history>>
  BY DEF ReapOne
<1>2. replay.rest = <<>> /\ snapshot = {}
  BY <1>0, <1>1 DEF Stashed, Swept, InPass
<1>3. Removed(i)
  BY <1>1, <1>2, RemoveActorRemoves
<1>4. LoopsTyped' /\ HistoryTyped'
  BY <1>0, <1>1 DEF LoopsTyped, HistoryTyped, history
<1>5. Swept'
  <2>1. \A j \in Ids : Marked(j)'
    BY <1>1, <1>3, RemovedMarks
  <2>2. InPass'
    BY <1>1, <1>2 DEF InPass
  <2>3. QED
    BY <1>1, <2>1, <2>2 DEF Swept
<1>6. QED
  BY <1>3, <1>4, <1>5 DEF LifeInv, Typed, Removed

\* The pump removes an actor whose onInit() failed.
LEMMA PumpFailsKeeps ==
  ASSUME LifecycleAssumption, LifeInv, NEW i \in Ids, NEW v \in Obj \cup {None}, PumpFails(i, v)
  PROVE  LifeInv'
<1>0. LoopsTyped /\ HistoryTyped /\ TablesTyped /\ Swept /\ Owned
  BY DEF LifeInv, Typed
<1>1. /\ pc = "pump" /\ i \in todo /\ replay.rest = <<>> /\ todo' = todo \ {i}
      /\ UNCHANGED <<pc, due, snapshot, replay, history>>
  BY DEF PumpFails
<1>2. activating[i] # None /\ activating[i].done /\ ~Deferred(i)
  BY <1>0, <1>1 DEF Swept, InPass, Deferred
<1>3. actors[i] # None
  <2>1. activating[i].obj \in Obj /\ HoldsActor(i)
    BY <1>0, <1>2 DEF TablesTyped, Activation, Owned
  <2>2. QED
    BY <1>2, <2>1 DEF HoldsActor, LifecycleAssumption
<1>4. RemoveActor(i, to_remove, v)
  BY <1>3 DEF PumpFails
<1>5. Removed(i)
  BY <1>1, <1>4, RemoveActorRemoves
<1>6. LoopsTyped' /\ HistoryTyped'
  BY <1>0, <1>1 DEF LoopsTyped, HistoryTyped, history
<1>7. Swept'
  <2>1. \A j \in Ids : Marked(j)'
    BY <1>1, <1>5, RemovedMarks
  <2>2. InPass'
    <3>1. InPass /\ todo \subseteq Ids
      BY <1>0 DEF Swept, LoopsTyped
    <3>2. dying' = dying \ {i} /\ \A j \in Ids \ {i} : activating'[j] = activating[j]
      BY <1>2, <1>5 DEF Removed
    <3>3. QED
      BY <1>1, <3>1, <3>2 DEF InPass
  <2>3. QED
    BY <1>1, <2>1, <2>2 DEF Swept
<1>8. QED
  BY <1>5, <1>6, <1>7 DEF LifeInv, Typed, Removed

\* The pump activates an actor and begins to replay its stash.
LEMMA PumpActivatesKeeps ==
  ASSUME LifecycleAssumption, LifeInv, NEW i \in Ids, PumpActivates(i)
  PROVE  LifeInv'
<1>0. LoopsTyped /\ HistoryTyped /\ TablesTyped /\ Swept /\ Owned /\ Stashed
  BY DEF LifeInv, Typed
<1>1. PICK o \in Obj : o = actors[i]
  BY <1>0 DEF PumpActivates, TablesTyped
<1>2. /\ pc = "pump" /\ i \in todo /\ replay.rest = <<>> /\ i \notin dying
      /\ todo' = todo \ {i}
      /\ obj' = [obj EXCEPT ![o].activated = TRUE]
      /\ replay' = [id |-> i, rest |-> activating[i].stash]
      /\ activating' = [activating EXCEPT ![i] = None]
      /\ UNCHANGED <<pc, free, actors, subs, callbacks, dying, to_remove, due,
                     snapshot, history>>
  BY <1>1 DEF PumpActivates
<1>3. PICK act \in Activation : act = activating[i] /\ act # None
  BY <1>0, <1>2 DEF Swept, InPass, TablesTyped
<1>4. obj[o].st = "live" /\ obj[o].id = i
  BY <1>0, <1>1 DEF Owned, HoldsActor, LifecycleAssumption
<1>5. /\ obj' \in [Obj -> Life]
      /\ \A x \in Obj : /\ obj'[x].st = obj[x].st /\ obj'[x].id = obj[x].id
                        /\ obj'[x].alive = obj[x].alive /\ obj'[x].cancelled = obj[x].cancelled
  <2>1. obj \in [Obj -> Life] /\ obj[o] \in Life
    BY <1>0 DEF TablesTyped
  <2>2. PICK u : u = [obj[o] EXCEPT !.activated = TRUE]
    OBVIOUS
  <2>3. /\ u \in Life /\ u.st = obj[o].st /\ u.id = obj[o].id
        /\ u.alive = obj[o].alive /\ u.cancelled = obj[o].cancelled
    BY <2>1, <2>2 DEF Life
  <2>4. obj' = [obj EXCEPT ![o] = u]
    BY <1>2, <2>1, <2>2
  <2>5. QED
    BY <2>1, <2>3, <2>4
<1>6. activating'[i] = None /\ \A j \in Ids \ {i} : activating'[j] = activating[j]
  BY <1>0, <1>2 DEF TablesTyped
<1>7. \A x \in Obj : Alive(x)' <=> Alive(x)
  BY <1>5 DEF Alive
<1>8. act.stash \in Seq(Event)
  BY DEF Activation
<1>9. Typed'
  <2>1. replay' \in [id : Ids, rest : Seq(Event)]
    BY <1>2, <1>3, <1>8
  <2>2. TablesTyped'
    BY <1>0, <1>2, <1>5 DEF TablesTyped
  <2>3. QED
    BY <1>0, <1>2, <2>1, <2>2 DEF Typed, LoopsTyped, HistoryTyped, history
<1>10. Owned'
  <2>1. ASSUME NEW j \in Ids PROVE HoldsActor(j)'
    <3>1. HoldsActor(j) /\ (actors[j] = None \/ actors[j] \in Obj)
      BY <1>0 DEF Owned, TablesTyped
    <3>2. activating[j] # None => activating[j].obj \in Obj
      BY <1>0 DEF TablesTyped, Activation
    <3>3. QED
      BY <1>2, <1>5, <1>6, <3>1, <3>2 DEF HoldsActor
  <2>2. ASSUME NEW x \in Obj PROVE OwnsId(x)'
    BY <1>0, <1>2, <1>5 DEF Owned, OwnsId
  <2>3. ASSUME NEW j \in Pool PROVE Given(j)'
    BY <1>0, <1>2, <1>5 DEF Owned, Given
  <2>4. QED
    BY <2>1, <2>2, <2>3 DEF Owned
<1>11. Swept'
  <2>1. ASSUME NEW j \in Ids PROVE Marked(j)'
    <3>1. Marked(j) /\ (actors[j] = None \/ actors[j] \in Obj)
      BY <1>0 DEF Swept, TablesTyped
    <3>2. QED
      BY <1>2, <1>7, <3>1 DEF Marked
  <2>2. InPass'
    <3>1. InPass /\ todo \subseteq Ids
      BY <1>0 DEF Swept, LoopsTyped
    <3>2. QED
      BY <1>2, <1>6, <3>1 DEF InPass
  <2>3. QED
    BY <1>2, <2>1, <2>2 DEF Swept
<1>12. Held(i)' = act.stash /\ \A j \in Ids \ {i} : Held(j)' = <<>> /\ Held(j) = <<>>
  BY <1>2, <1>3 DEF Held
<1>13. ASSUME NEW x \in Obj, Alive(x), x \notin overflowed PROVE InOrder(x)'
  <2>1. InOrder(x)
    BY <1>0 DEF Stashed
  <2>2. CASE x = o
    <3>1. delivered[o] = <<>> /\ arrived[o] = act.stash
      BY <1>3, <1>4, <1>13, <2>1, <2>2 DEF InOrder
    <3>2. act.stash = <<>> \o act.stash
      BY <1>8
    <3>3. QED
      BY <1>2, <1>4, <1>5, <1>6, <1>12, <2>2, <3>1, <3>2 DEF InOrder, history
  <2>3. CASE x # o
    <3>1. obj[x].id \in Ids \ {i}
      BY <1>0, <1>1, <1>13, <2>3 DEF Owned, OwnsId, Alive, TablesTyped, Life
    <3>2. activating'[obj[x].id] = activating[obj[x].id] /\ Held(obj[x].id)' = Held(obj[x].id)
      BY <1>5, <1>6, <1>12, <3>1
    <3>3. QED
      BY <1>2, <1>5, <1>13, <2>1, <3>2 DEF InOrder, history
  <2>4. QED
    BY <2>2, <2>3
<1>14. Stashed'
  <2>1. \A x \in Obj : InOrder(x)'
    BY <1>2, <1>7, <1>13 DEF InOrder, history
  <2>2. \A x \in Obj : obj'[x].st = "unborn" => arrived'[x] = <<>> /\ delivered'[x] = <<>>
    BY <1>0, <1>2, <1>5 DEF Stashed, history
  <2>3. \A j \in Ids : activating'[j] # None => Len(activating'[j].stash) <= StashCap
    BY <1>0, <1>6 DEF Stashed
  <2>4. pc' = "pump" /\ actors'[replay'.id] # None /\ activating'[replay'.id] = None
    BY <1>1, <1>2, <1>6 DEF LifecycleAssumption
  <2>5. QED
    BY <2>1, <2>2, <2>3, <2>4 DEF Stashed
<1>15. QED
  BY <1>9, <1>10, <1>11, <1>14 DEF LifeInv

-----------------------------------------------------------------------------
(* The theorems *)

\* The invariant holds when the core has added its initial actors.
LEMMA LifeInit ==
  ASSUME LifecycleAssumption, Contained, Init
  PROVE  LifeInv
<1>1. PICK f \in InitialIds, susp \in SUBSET Initial :
        LET at(i) == {o \in Initial : f[o] = i}
            owner(i) == IF at(i) = {} THEN None ELSE CHOOSE o \in at(i) : TRUE
        IN /\ pc = "run"
           /\ obj = [o \in Obj |->
                 [st |-> IF o \in Initial THEN "live" ELSE "unborn",
                  id |-> IF o \in Initial THEN f[o] ELSE NotFound,
                  alive |-> TRUE, activated |-> o \notin susp,
                  cancelled |-> FALSE, failed |-> FALSE]]
           /\ free = Pool \ {f[o] : o \in Initial}
           /\ actors = [i \in Ids |-> owner(i)]
           /\ subs = [i \in Ids |-> owner(i)]
           /\ callbacks = [i \in Ids |-> None]
           /\ activating = [i \in Ids |->
                 IF owner(i) \in susp THEN Frame(owner(i)) ELSE None]
           /\ dying = {} /\ to_remove = {} /\ todo = {} /\ due = {}
           /\ snapshot = {}
           /\ replay = [id |-> NotFound, rest |-> <<>>]
           /\ arrived = [o \in Obj |-> <<>>]
           /\ delivered = [o \in Obj |-> <<>>]
           /\ overflowed = {}
  BY DEF Init
<1> DEFINE at(i) == {o \in Initial : f[o] = i}
           owner(i) == IF at(i) = {} THEN None ELSE CHOOSE o \in at(i) : TRUE
<1>2. /\ pc = "run"
      /\ obj = [o \in Obj |->
            [st |-> IF o \in Initial THEN "live" ELSE "unborn",
             id |-> IF o \in Initial THEN f[o] ELSE NotFound,
             alive |-> TRUE, activated |-> o \notin susp,
             cancelled |-> FALSE, failed |-> FALSE]]
      /\ free = Pool \ {f[o] : o \in Initial}
      /\ actors = [i \in Ids |-> owner(i)]
      /\ subs = [i \in Ids |-> owner(i)]
      /\ callbacks = [i \in Ids |-> None]
      /\ activating = [i \in Ids |-> IF owner(i) \in susp THEN Frame(owner(i)) ELSE None]
      /\ dying = {} /\ to_remove = {} /\ todo = {} /\ due = {}
      /\ snapshot = {}
      /\ replay = [id |-> NotFound, rest |-> <<>>]
      /\ arrived = [o \in Obj |-> <<>>]
      /\ delivered = [o \in Obj |-> <<>>]
      /\ overflowed = {}
  BY <1>1
<1>3. /\ Initial \subseteq Obj /\ susp \subseteq Initial
      /\ \A o \in Initial : f[o] \in Ids /\ f[o] # NotFound
      /\ \A x, y \in Initial : x # y => f[x] # f[y]
      /\ NotFound \in Ids
  BY DEF InitialIds, Pool, Ids, NotFound, LifecycleAssumption
<1>4. ASSUME NEW i \in Ids
      PROVE  \/ owner(i) = None /\ \A o \in Initial : f[o] # i
             \/ owner(i) \in Initial /\ f[owner(i)] = i
  <2>1. CASE at(i) = {}
    BY <2>1
  <2>2. CASE at(i) # {}
    BY <2>2
  <2>3. QED
    BY <2>1, <2>2
<1> HIDE DEF owner, at
<1>5. \A o \in Initial : owner(f[o]) = o
  BY <1>3, <1>4
<1>6. \A i \in Ids : actors[i] = owner(i) /\ subs[i] = owner(i) /\ callbacks[i] = None
  BY <1>2
<1>7. \A o \in Obj : /\ obj[o] \in Life /\ obj[o].alive
                     /\ o \in Initial => obj[o].st = "live" /\ obj[o].id = f[o]
                     /\ o \notin Initial => obj[o].st = "unborn"
  BY <1>2, <1>3 DEF Life
<1>8. \A o \in Obj : Frame(o) \in Activation /\ Frame(o).obj = o /\ Frame(o).stash = <<>>
  <2>1. <<>> \in Seq(Event)
    OBVIOUS
  <2>2. QED
    BY <2>1 DEF Frame, Activation
<1>9. \A i \in Ids : \/ activating[i] = None
                     \/ owner(i) \in susp /\ activating[i] = Frame(owner(i))
  BY <1>2
<1>10. None \notin Obj
  BY DEF LifecycleAssumption
<1>11. TablesTyped
  <2>1. obj \in [Obj -> Life]
    BY <1>2, <1>7
  <2>2. actors \in [Ids -> Obj \cup {None}] /\ subs \in [Ids -> Obj \cup {None}]
    BY <1>2, <1>3, <1>4
  <2>3. activating \in [Ids -> Activation \cup {None}]
    BY <1>2, <1>3, <1>8
  <2>4. QED
    BY <1>2, <2>1, <2>2, <2>3 DEF TablesTyped
<1>12. LoopsTyped /\ HistoryTyped
  <2>1. <<>> \in Seq(Event)
    OBVIOUS
  <2>2. QED
    BY <1>2, <1>3, <2>1 DEF LoopsTyped, HistoryTyped
<1>13. Owned
  <2>1. ASSUME NEW o \in Obj PROVE OwnsId(o)
    BY <1>3, <1>5, <1>6, <1>7 DEF OwnsId
  <2>2. ASSUME NEW i \in Ids PROVE HoldsActor(i)
    <3>1. actors[i] # None => obj[actors[i]].st = "live" /\ obj[actors[i]].id = i
      BY <1>3, <1>4, <1>6, <1>7
    <3>2. activating[i] # None => activating[i].obj = actors[i]
      BY <1>3, <1>6, <1>8, <1>9
    <3>3. i \in free => actors[i] = None
      BY <1>2, <1>4, <1>6
    <3>4. QED
      BY <1>2, <1>6, <3>1, <3>2, <3>3 DEF HoldsActor
  <2>3. ASSUME NEW i \in Pool PROVE Given(i)
    BY <1>2, <1>3, <1>7 DEF Given
  <2>4. QED
    BY <2>1, <2>2, <2>3 DEF Owned
<1>14. Swept
  <2>1. ASSUME NEW i \in Ids PROVE Marked(i)
    BY <1>3, <1>4, <1>6, <1>7, <1>10 DEF Marked, Alive
  <2>2. QED
    BY <1>2, <2>1 DEF Swept, InPass
<1>15. Stashed
  <2>1. \A i : Held(i) = <<>>
    BY <1>2 DEF Held
  <2>2. \A o \in Obj : arrived[o] = <<>> /\ delivered[o] = <<>>
    BY <1>2
  <2>3. <<>> = <<>> \o <<>> /\ Len(<<>>) <= StashCap
    BY DEF LifecycleAssumption
  <2>4. \A i \in Ids : activating[i] # None => activating[i].stash = <<>>
    BY <1>3, <1>8, <1>9
  <2>5. \A o \in Obj : obj[o].id \in Ids
    BY <1>7 DEF Life
  <2>6. \A o \in Obj : InOrder(o)
    BY <2>1, <2>2, <2>3, <2>4, <2>5 DEF InOrder
  <2>7. replay.rest = <<>>
    BY <1>2
  <2>8. QED
    BY <2>2, <2>3, <2>4, <2>6, <2>7 DEF Stashed
<1>16. QED
  BY <1>11, <1>12, <1>13, <1>14, <1>15 DEF LifeInv, Typed

\* Every step keeps the invariant.
LEMMA LifeNext ==
  ASSUME LifecycleAssumption, Contained, LifeInv, [Next]_vars
  PROVE  LifeInv'
<1>1. CASE UNCHANGED vars
  <2>1. UNCHANGED tables /\ UNCHANGED <<replay, history, pc, todo, due>> /\ snapshot' \subseteq snapshot
        /\ to_remove' = to_remove
    BY <1>1 DEF vars, loops, tables
  <2>2. Tables
    BY DEF LifeInv, Typed, Tables
  <2>3. Effected
    BY <2>1, <2>2, NothingEffected
  <2>4. QED
    BY <2>1, <2>3, QuietStep
<1>2. CASE LoopStep
  <2>1. CASE ListenerReturns
    BY <2>1, ListenerReturnsKeeps
  <2>2. CASE \E i \in Ids, v \in Obj \cup {None} : PumpFails(i, v)
    BY <2>2, PumpFailsKeeps
  <2>3. CASE \E i \in Ids : PumpActivates(i)
    BY <2>3, PumpActivatesKeeps
  <2>4. CASE ReplayStashed
    BY <2>4, ReplayStashedKeeps
  <2>5. CASE PumpReturns
    BY <2>5, PumpReturnsKeeps
  <2>6. CASE ReceiveEnd
    BY <2>6, ReceiveEndKeeps
  <2>7. CASE Tick
    BY <2>7, TickKeeps
  <2>8. CASE TickEnd
    BY <2>8, TickEndKeeps
  <2>9. CASE ReapSwap
    BY <2>9, ReapSwapKeeps
  <2>10. CASE \E i \in Ids, v \in Obj \cup {None} : ReapOne(i, v)
    BY <2>10, ReapOneKeeps
  <2>11. CASE ReapEnd
    BY <2>11, ReapEndKeeps
  <2>12. QED
    BY <1>2, <2>1, <2>2, <2>3, <2>4, <2>5, <2>6, <2>7, <2>8, <2>9, <2>10, <2>11 DEF LoopStep
<1>3. CASE CoroutineStep
  BY <1>3, CoroutineStepKeeps
<1>4. CASE \E i \in Ids, ok, k \in BOOLEAN : InitEnds(i, ok, k)
  BY <1>4, InitEndsKeeps
<1>5. CASE \E i \in Ids : DeadlinePasses(i)
  BY <1>5, DeadlinePassesKeeps
<1>6. CASE \E i \in Ids, kind \in {"business", "unregister"} : Receive(i, kind)
  BY <1>6, ReceiveGatedKeeps, ReceiveOpenKeeps
<1>7. CASE \E i \in Ids : ReceiveKill(i)
  BY <1>7, ReceiveKillKeeps
<1>8. CASE ReceiveSignal
  BY <1>8, ReceiveSignalKeeps
<1>9. QED
  BY <1>1, <1>2, <1>3, <1>4, <1>5, <1>6, <1>7, <1>8 DEF Next

(* The tables, the pass and the stashes agree in every state.              *)
THEOREM LifecycleInvariant == Contained => (Spec => []LifeInv)
<1>1. SUFFICES ASSUME Contained PROVE Spec => []LifeInv
  OBVIOUS
<1>2. Init => LifeInv
  BY <1>1, LifecycleAssumption, LifeInit
<1>3. LifeInv /\ [Next]_vars => LifeInv'
  BY <1>1, LifecycleAssumption, LifeNext
<1>4. QED
  BY <1>2, <1>3, PTL DEF Spec

(* The core keeps nothing stale: no pointer to a destroyed actor in the    *)
(* router, the callbacks, the snapshot or an activation; an id in the pool *)
(* has no trace of its last owner; when a pass begins the reap loop has    *)
(* removed every killed actor that has no frame to unwind; and no killed   *)
(* actor ticks again.                                                      *)
THEOREM NothingStaysStale == Contained => (Spec => []NothingStale)
<1>1. SUFFICES ASSUME Contained PROVE Spec => []NothingStale
  OBVIOUS
<1>2. LifeInv => NothingStale
  <2>1. SUFFICES ASSUME LifeInv PROVE NothingStale
    OBVIOUS
  <2>2. TablesTyped /\ LoopsTyped /\ Owned /\ Swept /\ Stashed
    BY <2>1 DEF LifeInv, Typed
  <2>3. TypeOK
    BY <2>2 DEF TypeOK, TablesTyped, LoopsTyped, Stashed, Activating
  <2>4. None \notin Obj
    BY LifecycleAssumption DEF LifecycleAssumption
  <2>5. ASSUME NEW i \in Ids
        PROVE  /\ subs[i] # None => obj[subs[i]].st = "live"
               /\ callbacks[i] # None => obj[callbacks[i]].st = "live"
               /\ activating[i] # None => obj[activating[i].obj].st = "live"
    <3>1. HoldsActor(i)
      BY <2>2 DEF Owned
    <3>2. activating[i] # None => activating[i].obj \in Obj
      BY <2>2 DEF TablesTyped, Activation
    <3>3. QED
      BY <2>4, <3>1, <3>2 DEF HoldsActor
  <2>6. ASSUME NEW entry \in snapshot PROVE obj[entry[2]].st = "live"
    <3>1. PICK i \in Ids, o \in Obj : entry = <<i, o>>
      BY <2>2 DEF LoopsTyped
    <3>2. pc = "tick" /\ Ticking(i, o)
      BY <2>2, <2>6, <3>1 DEF Swept, InPass
    <3>3. QED
      BY <2>2, <2>4, <3>1, <3>2 DEF Ticking, Owned, HoldsActor
  <2>7. NoDanglingPointer
    BY <2>5, <2>6 DEF NoDanglingPointer, Activating
  <2>8. FreeIdIsClean
    <3>1. ASSUME NEW i \in free
          PROVE  /\ actors[i] = None /\ subs[i] = None /\ callbacks[i] = None
                 /\ activating[i] = None /\ i \notin dying
      <4>1. i \in Ids
        BY <2>2, LifecycleAssumption DEF TablesTyped, Pool, Ids, NotFound, LifecycleAssumption
      <4>2. HoldsActor(i) /\ (activating[i] # None => activating[i].obj \in Obj)
        BY <2>2, <4>1 DEF Owned, TablesTyped, Activation
      <4>3. QED
        BY <2>4, <4>2 DEF HoldsActor
    <3>2. QED
      BY <3>1 DEF FreeIdIsClean
  <2>9. NoKilledActorStranded
    BY <2>2 DEF NoKilledActorStranded, Swept, InPass, Marked
  <2>10. KilledActorsDoNotTick
    BY <2>2 DEF KilledActorsDoNotTick, Swept, Ticking
  <2>11. QED
    BY <2>3, <2>7, <2>8, <2>9, <2>10 DEF NothingStale
<1>3. Spec => []LifeInv
  BY <1>1, LifecycleInvariant
<1>4. QED
  BY <1>2, <1>3, PTL

(* The stash of a suspended onInit() neither loses nor reorders: what      *)
(* arrived is what was handled, then what is stashed or being replayed.    *)
THEOREM StashesKeepOrder == Contained => (Spec => []StashKeepsOrder)
<1>1. SUFFICES ASSUME Contained PROVE Spec => []StashKeepsOrder
  OBVIOUS
<1>2. LifeInv => StashKeepsOrder
  BY DEF LifeInv, Stashed, InOrder, Held, StashKeepsOrder
<1>3. Spec => []LifeInv
  BY <1>1, LifecycleInvariant
<1>4. QED
  BY <1>2, <1>3, PTL

-----------------------------------------------------------------------------
(* Nobody is destroyed for another *)

(* The condition of the last theorem: one actor at most may have a         *)
(* suspended onInit(), and no coroutine kills.  Without it the pump may    *)
(* recycle an id that is still in the reap set, and the next actor that    *)
(* gets the id is destroyed.                                               *)
Alone ==
    /\ Contained /\ ~CoroKill /\ "suspended" \notin Outcomes
    /\ \A x, y \in Initial : x = y

Condemned(i) == actors[i] # None /\ ~obj[actors[i]].alive

(* An id set aside for removal has a killed actor, an activation that      *)
(* failed has told its actor, and while an activation ends nobody is set   *)
(* aside.                                                                  *)
Failed(i) ==
    activating[i] # None /\ activating[i].done /\ ~activating[i].ok =>
        obj[activating[i].obj].failed

Reaping == pc = "reap" => \A i \in todo : Condemned(i) /\ i \notin to_remove

OneAtATime ==
    /\ \A i, j \in Ids : activating[i] # None /\ activating[j] # None => i = j
    /\ pc = "pump" /\ todo # {} => to_remove = {}
    /\ replay.rest # <<>> => \A i \in Ids : activating[i] = None

Reasons ==
    /\ DestroyedForAReason
    /\ \A i \in to_remove \cup dying : Condemned(i)
    /\ \A i \in Ids : Failed(i)
    /\ Reaping
    /\ OneAtATime

(* A step that removes nobody.                                             *)
MildTo(x) ==
    /\ obj[x].st # "unborn" => obj'[x].st = obj[x].st /\ (obj'[x].alive => obj[x].alive)
    /\ obj[x].st = "destroyed" => (obj[x].failed => obj'[x].failed)
    /\ obj[x].st = "unborn" /\ obj'[x].st = "destroyed" => obj'[x].failed

Mild ==
    /\ \A i \in Ids : actors[i] # None => actors'[i] = actors[i]
    /\ \A x \in Obj : MildTo(x)
    /\ dying' = dying
    /\ \A i \in to_remove' : i \in to_remove \/
          \E v \in Obj : Alive(v) /\ obj[v].id = i /\ ~obj'[v].alive
    /\ \A i \in Ids : activating'[i] # None => activating[i] # None
    /\ \A i \in Ids : Failed(i)'

\* A step that removes nobody keeps the reasons.
LEMMA MildReasons ==
  ASSUME LifecycleAssumption, LifeInv, Reasons, Mild, Reaping',
         pc' = "pump" /\ todo' # {} => to_remove' = {},
         replay'.rest # <<>> => \A i \in Ids : activating'[i] = None
  PROVE  Reasons'
<1>0. TablesTyped /\ Owned
  BY DEF LifeInv, Typed
<1>1. ASSUME NEW i \in Ids, Condemned(i) PROVE Condemned(i)'
  <2>1. PICK o \in Obj : o = actors[i]
    BY <1>0, <1>1 DEF Condemned, TablesTyped
  <2>2. actors'[i] = o /\ obj[o].st = "live" /\ ~obj[o].alive
    BY <1>0, <1>1, <2>1 DEF Mild, Condemned, Owned, HoldsActor
  <2>3. MildTo(o)
    BY DEF Mild
  <2>4. QED
    BY <2>1, <2>2, <2>3 DEF Condemned, MildTo, LifecycleAssumption
<1>2. DestroyedForAReason'
  <2>1. ASSUME NEW o \in Obj, obj'[o].st = "destroyed" PROVE ~obj'[o].alive \/ obj'[o].failed
    <3>1. MildTo(o) /\ (obj[o].st = "destroyed" => ~obj[o].alive \/ obj[o].failed)
      BY DEF Mild, Reasons, DestroyedForAReason
    <3>2. QED
      BY <2>1, <3>1 DEF MildTo
  <2>2. QED
    BY <2>1 DEF DestroyedForAReason
<1>3. ASSUME NEW i \in to_remove' \cup dying' PROVE Condemned(i)'
  <2>1. CASE i \in to_remove \cup dying
    <3>1. i \in Ids /\ Condemned(i)
      BY <1>0, <2>1 DEF TablesTyped, Reasons
    <3>2. QED
      BY <1>1, <3>1
  <2>2. CASE \E v \in Obj : Alive(v) /\ obj[v].id = i /\ ~obj'[v].alive
    <3>1. PICK v \in Obj : Alive(v) /\ obj[v].id = i /\ ~obj'[v].alive
      BY <2>2
    <3>2. i \in Ids /\ actors[i] = v
      BY <1>0, <3>1 DEF TablesTyped, Life, Owned, OwnsId, Alive
    <3>3. actors'[i] = v
      BY <3>2 DEF Mild, LifecycleAssumption
    <3>4. QED
      BY <3>1, <3>3 DEF Condemned, LifecycleAssumption
  <2>3. QED
    BY <1>3, <2>1, <2>2 DEF Mild
<1>4. OneAtATime'
  BY DEF OneAtATime, Reasons, Mild
<1>5. QED
  BY <1>2, <1>3, <1>4 DEF Reasons, Mild

\* User code removes nobody: it kills, and the reap loop removes.
LEMMA EffectIsMild ==
  ASSUME LifecycleAssumption, Alone, Tables, Reasons, Effected,
         \/ \E o \in Obj, mayKill \in BOOLEAN : Effect(o, mayKill)
         \/ \E i \in Ids : /\ unregisterCallback(i)
                           /\ UNCHANGED <<obj, free, actors, subs, activating, dying, to_remove>>
         \/ UNCHANGED tables
  PROVE  Mild
<1>0. TablesTyped /\ Owned
  BY DEF Tables
<1>1. (\A i \in Ids : actors[i] # None => actors'[i] = actors[i]) /\ dying' = dying
  BY DEF Effected, KeepsActor
<1>2. CASE UNCHANGED <<obj, activating, to_remove>>
  <2>1. \A x \in Obj : MildTo(x)
    BY <1>2 DEF MildTo
  <2>2. \A i \in Ids : Failed(i)'
    BY <1>2 DEF Reasons, Failed
  <2>3. QED
    BY <1>1, <1>2, <2>1, <2>2 DEF Mild
<1>3. ASSUME NEW v \in Obj, Kill(v) PROVE Mild
  <2>1. /\ obj' = [obj EXCEPT ![v].alive = FALSE, ![v].cancelled = TRUE]
        /\ to_remove' = to_remove \cup {obj[v].id} /\ activating' = activating /\ Alive(v)
        /\ obj \in [Obj -> Life]
    BY <1>0, <1>3 DEF Kill, TablesTyped
  <2>2. ASSUME NEW x \in Obj
        PROVE  /\ obj'[x].st = obj[x].st /\ obj'[x].failed = obj[x].failed
               /\ obj'[x].alive => obj[x].alive
    BY <2>1 DEF Life
  <2>3. ~obj'[v].alive
    BY <2>1 DEF Life
  <2>4. \A x \in Obj : MildTo(x)
    BY <2>2 DEF MildTo
  <2>5. ASSUME NEW i \in Ids PROVE Failed(i)'
    <3>1. Failed(i) /\ (activating[i] # None => activating[i].obj \in Obj)
      BY <1>0 DEF Reasons, TablesTyped, Activation
    <3>2. QED
      BY <2>1, <2>2, <3>1 DEF Failed
  <2>6. QED
    BY <1>1, <2>1, <2>3, <2>4, <2>5 DEF Mild
<1>4. ASSUME NEW n \in Obj, NEW out \in Outcomes, AddRefActor(n, out) PROVE Mild
  <2>1. out # "suspended" /\ to_remove' = to_remove
    BY <1>4 DEF Alone, AddRefActor
  <2>2. activating' = activating
    BY <1>0, <1>4, <2>1 DEF AddRefActor, TablesTyped
  <2>3. PICK kept \in BOOLEAN :
           kept <=> /\ NewId(n) # NotFound /\ ~(NewId(n) # NotFound /\ actors[NewId(n)] # None)
                    /\ out # "false"
    OBVIOUS
  <2>4. obj' = [obj EXCEPT ![n] = [st |-> IF kept THEN "live" ELSE "destroyed", id |-> NewId(n),
                                   alive |-> TRUE, activated |-> TRUE, cancelled |-> FALSE,
                                   failed |-> ~kept]]
    BY <1>4, <2>1, <2>3 DEF AddRefActor
  <2>5. /\ obj[n].st = "unborn" /\ \A x \in Obj \ {n} : obj'[x] = obj[x]
        /\ obj'[n].st = (IF kept THEN "live" ELSE "destroyed") /\ obj'[n].failed = ~kept
    BY <1>0, <1>4, <2>4 DEF AddRefActor, TablesTyped
  <2>6. ASSUME NEW x \in Obj PROVE MildTo(x)
    BY <2>5 DEF MildTo
  <2>7. ASSUME NEW i \in Ids PROVE Failed(i)'
    <3>1. Failed(i) /\ HoldsActor(i) /\ (activating[i] # None => activating[i].obj \in Obj)
      BY <1>0 DEF Reasons, Owned, TablesTyped, Activation
    <3>2. activating[i] # None => activating[i].obj # n
      BY <2>5, <3>1 DEF HoldsActor, LifecycleAssumption
    <3>3. QED
      BY <2>2, <2>5, <3>1, <3>2 DEF Failed
  <2>8. QED
    BY <1>1, <2>1, <2>2, <2>6, <2>7 DEF Mild
<1>5. CASE \E o \in Obj, mayKill \in BOOLEAN : Effect(o, mayKill)
  <2>1. PICK o \in Obj, mayKill \in BOOLEAN : Effect(o, mayKill)
    BY <1>5
  <2>2. CASE UNCHANGED tables
    BY <1>2, <2>2 DEF tables
  <2>3. CASE \E v \in Obj : Kill(v)
    BY <1>3, <2>3
  <2>4. CASE RegisterCallback(o)
    BY <1>2, <2>4 DEF RegisterCallback
  <2>5. CASE \E n \in Obj, out \in Outcomes : AddRefActor(n, out)
    BY <1>4, <2>5
  <2>6. QED
    BY <2>1, <2>2, <2>3, <2>4, <2>5 DEF Effect
<1>6. QED
  BY <1>2, <1>5 DEF tables

\* Steps of user code.
LEMMA UserReasons ==
  ASSUME LifecycleAssumption, Alone, LifeInv, Reasons,
         \/ CoroutineStep
         \/ Tick
         \/ ReplayStashed
         \/ \E i \in Ids : ReceiveKill(i)
         \/ \E i \in Ids, kind \in {"business", "unregister"} :
               Receive(i, kind) /\ activating[i] = None
  PROVE  Reasons'
<1>0. Tables /\ TablesTyped /\ Owned /\ LoopsTyped /\ HistoryTyped /\ Swept /\ Stashed /\ Contained
      /\ CoroKill \in BOOLEAN
  BY DEF LifeInv, Typed, Tables, Alone, LifecycleAssumption
<1>1. ASSUME Mild, UNCHANGED <<pc, todo>>, pc # "reap", pc = "pump" => todo = {},
             replay'.rest # <<>> => replay.rest # <<>>
      PROVE  Reasons'
  <2>1. Reaping'
    BY <1>1 DEF Reaping
  <2>2. replay'.rest # <<>> => \A i \in Ids : activating'[i] = None
    BY <1>1 DEF Reasons, OneAtATime, Mild
  <2>3. QED
    BY <1>1, <2>1, <2>2, MildReasons
<1>2. ASSUME NEW i \in Ids, NEW e \in Event, Route(i, e) PROVE Mild
  <2>1. Effected
    BY <1>0, <1>2, RouteEffected
  <2>2. subs[i] = None \/ subs[i] \in Obj
    BY <1>0 DEF TablesTyped
  <2>3. \/ \E o \in Obj, mayKill \in BOOLEAN : Effect(o, mayKill)
        \/ /\ unregisterCallback(i)
           /\ UNCHANGED <<obj, free, actors, subs, activating, dying, to_remove>>
        \/ UNCHANGED tables
    BY <1>2, <2>2 DEF Route, Alive
  <2>4. QED
    BY <1>0, <2>1, <2>3, EffectIsMild
<1>3. ASSUME NEW o \in Obj, NEW mayKill \in BOOLEAN, obj[o].st = "live", Effect(o, mayKill) PROVE Mild
  BY <1>0, <1>3, EffectEffected, EffectIsMild
<1>4. CASE CoroutineStep
  <2>1. PICK o \in Obj : Alive(o) /\ Effect(o, CoroKill)
    BY <1>4 DEF CoroutineStep
  <2>2. Mild
    BY <1>0, <1>3, <2>1 DEF Alive
  <2>3. QED
    BY <1>1, <1>4, <2>2 DEF CoroutineStep, loops
<1>5. CASE Tick
  <2>1. PICK entry \in snapshot :
           /\ pc = "tick"
           /\ IF entry[1] \in to_remove THEN UNCHANGED tables ELSE Effect(entry[2], TRUE)
           /\ UNCHANGED <<pc, todo, due, replay, history>>
    BY <1>5 DEF Tick
  <2>2. Mild
    <3>1. CASE entry[1] \in to_remove
      BY <1>0, <2>1, <3>1, NothingEffected, EffectIsMild
    <3>2. CASE entry[1] \notin to_remove
      <4>1. Ticking(entry[1], entry[2]) /\ entry[2] \in Obj
        BY <1>0, <2>1 DEF Swept, LoopsTyped
      <4>2. QED
        BY <1>3, <2>1, <3>2, <4>1 DEF Ticking, Alive
    <3>3. QED
      BY <3>1, <3>2
  <2>3. QED
    BY <1>1, <2>1, <2>2
<1>6. CASE ReplayStashed
  <2>1. /\ pc = "pump" /\ replay.rest # <<>> /\ replay.id \in Ids /\ replay.rest \in Seq(Event)
        /\ Route(replay.id, Head(replay.rest)) /\ UNCHANGED <<pc, todo>>
    BY <1>0, <1>6 DEF ReplayStashed, LoopsTyped
  <2>2. todo = {}
    BY <1>0, <2>1 DEF Reasons, OneAtATime, Swept, InPass, LoopsTyped
  <2>3. Head(replay.rest) \in Event
    BY <2>1
  <2>4. Mild
    BY <1>2, <2>1, <2>3
  <2>5. QED
    BY <1>1, <2>1, <2>2, <2>4
<1>7. ASSUME NEW i \in Ids, ReceiveKill(i) PROVE Reasons'
  <2>1. /\ Kill(subs[i]) /\ subs[i] \in Obj /\ obj[subs[i]].st = "live"
        /\ pc = "recv" /\ UNCHANGED <<pc, todo, replay>>
    BY <1>0, <1>7 DEF ReceiveKill, Kill, Alive, TablesTyped, loops
  <2>2. Effect(subs[i], TRUE)
    BY <2>1 DEF Effect
  <2>3. Mild
    BY <1>3, <2>1, <2>2
  <2>4. QED
    BY <1>1, <2>1, <2>3
<1>8. ASSUME NEW i \in Ids, NEW kind \in {"business", "unregister"}, Receive(i, kind),
             activating[i] = None
      PROVE  Reasons'
  <2>1. PICK o \in Obj : o = subs[i]
    BY <1>0, <1>8 DEF Receive, TablesTyped
  <2>2. PICK e : e = [n |-> Len(arrived[o]) + 1, kind |-> kind]
    OBVIOUS
  <2>3. e \in Event
    <3>1. arrived[o] \in Seq(Event)
      BY <1>0 DEF HistoryTyped
    <3>2. Len(arrived[o]) + 1 \in Nat
      BY <3>1
    <3>3. QED
      BY <2>2, <3>2 DEF Event
  <2>4. Route(i, e) /\ pc = "recv" /\ UNCHANGED <<pc, todo, replay>>
    BY <1>8, <2>1, <2>2 DEF Receive, loops
  <2>5. Mild
    BY <1>2, <2>3, <2>4
  <2>6. QED
    BY <1>1, <2>4, <2>5
<1>9. QED
  BY <1>4, <1>5, <1>6, <1>7, <1>8

\* Steps that change nothing in the tables.
LEMMA ControlReasons ==
  ASSUME LifecycleAssumption, Alone, LifeInv, Reasons, UNCHANGED tables, UNCHANGED replay,
         \/ UNCHANGED <<pc, todo>>
         \/ pc' # "reap" /\ pc' # "pump"
         \/ pc' = "reap" /\ todo' = {}
  PROVE  Reasons'
<1>0. Tables
  BY DEF LifeInv, Typed, Tables
<1>1. Mild
  BY <1>0, NothingEffected, EffectIsMild
<1>2. Reaping'
  BY DEF Reaping, Reasons, Condemned, tables
<1>3. pc' = "pump" /\ todo' # {} => to_remove' = {}
  BY DEF Reasons, OneAtATime, tables
<1>4. replay'.rest # <<>> => \A i \in Ids : activating'[i] = None
  BY DEF Reasons, OneAtATime, tables
<1>5. QED
  BY <1>1, <1>2, <1>3, <1>4, MildReasons

\* The batch of the reap loop holds killed actors only.
LEMMA ReapSwapReasons ==
  ASSUME LifecycleAssumption, LifeInv, Reasons, ReapSwap
  PROVE  Reasons'
<1>1. /\ pc = "reap" /\ pc' = "reap" /\ todo' = to_remove /\ to_remove' = {}
      /\ UNCHANGED <<obj, actors, activating, dying, replay>>
  BY DEF ReapSwap
<1>2. Mild
  <2>1. \A x \in Obj : MildTo(x)
    BY <1>1 DEF MildTo
  <2>2. \A i \in Ids : Failed(i)'
    BY <1>1 DEF Reasons, Failed
  <2>3. QED
    BY <1>1, <2>1, <2>2 DEF Mild
<1>3. Reaping'
  BY <1>1 DEF Reaping, Reasons, Condemned
<1>4. replay'.rest # <<>> => \A i \in Ids : activating'[i] = None
  BY <1>1 DEF Reasons, OneAtATime
<1>5. QED
  BY <1>1, <1>2, <1>3, <1>4, MildReasons

(* A step that only touches the stash or the deadline of an activation.    *)
SameAnswer(i) ==
    /\ activating[i] # None
    /\ activating'[i].done = activating[i].done /\ activating'[i].ok = activating[i].ok
    /\ activating'[i].obj = activating[i].obj
    /\ \A j \in Ids \ {i} : activating'[j] = activating[j]
    /\ UNCHANGED <<obj, actors, dying, to_remove, pc, todo, replay>>

\* An event for an actor that is not activated yet goes to its stash.
LEMMA StashReceives ==
  ASSUME LifeInv, NEW i \in Ids, NEW kind \in {"business", "unregister"}, Receive(i, kind),
         activating[i] # None
  PROVE  SameAnswer(i)
<1>0. TablesTyped
  BY DEF LifeInv, Typed
<1>1. PICK act \in Activation : act = activating[i]
  BY <1>0 DEF TablesTyped
<1>2. PICK o \in Obj : o = act.obj
  BY DEF Activation
<1>3. PICK e : e = [n |-> Len(arrived[o]) + 1, kind |-> kind]
  OBVIOUS
<1>4. PICK full \in BOOLEAN : full <=> Len(act.stash) >= StashCap
  OBVIOUS
<1>5. PICK new : new = [act EXCEPT !.stash = IF full THEN @ ELSE Append(@, e),
                                   !.expired = @ \/ full]
  OBVIOUS
<1>6. /\ activating' = [activating EXCEPT ![i] = new]
      /\ UNCHANGED <<obj, actors, dying, to_remove, pc, todo, replay>>
  BY <1>0, <1>1, <1>2, <1>3, <1>4, <1>5 DEF Receive, StashFull, loops
<1>7. new.done = act.done /\ new.ok = act.ok /\ new.obj = act.obj
  BY <1>5 DEF Activation
<1>8. activating'[i] = new /\ \A j \in Ids \ {i} : activating'[j] = activating[j]
  BY <1>0, <1>6 DEF TablesTyped
<1>9. QED
  BY <1>1, <1>6, <1>7, <1>8 DEF SameAnswer

\* A deadline that passes answers for no activation.
LEMMA DeadlineKeepsAnswer ==
  ASSUME LifeInv, NEW i \in Ids, DeadlinePasses(i)
  PROVE  SameAnswer(i)
<1>0. TablesTyped
  BY DEF LifeInv, Typed
<1>1. PICK act \in Activation : act = activating[i]
  BY <1>0 DEF DeadlinePasses, TablesTyped
<1>2. PICK new : new = [act EXCEPT !.expired = TRUE]
  OBVIOUS
<1>3. /\ activating' = [activating EXCEPT ![i] = new] /\ activating[i] # None
      /\ UNCHANGED <<obj, actors, dying, to_remove, pc, todo, replay>>
  BY <1>0, <1>1, <1>2 DEF DeadlinePasses, loops
<1>4. new.done = act.done /\ new.ok = act.ok /\ new.obj = act.obj
  BY <1>2 DEF Activation
<1>5. activating'[i] = new /\ \A j \in Ids \ {i} : activating'[j] = activating[j]
  BY <1>0, <1>3 DEF TablesTyped
<1>6. QED
  BY <1>1, <1>3, <1>4, <1>5 DEF SameAnswer

\* Such a step keeps the reasons.
LEMMA StashReasons ==
  ASSUME LifecycleAssumption, LifeInv, Reasons, NEW i \in Ids, SameAnswer(i)
  PROVE  Reasons'
<1>1. UNCHANGED <<obj, actors, dying, to_remove, pc, todo, replay>>
  BY DEF SameAnswer
<1>2. Mild
  <2>1. \A x \in Obj : MildTo(x)
    BY <1>1 DEF MildTo
  <2>2. ASSUME NEW j \in Ids PROVE Failed(j)'
    <3>1. Failed(j) /\ Failed(i)
      BY DEF Reasons
    <3>2. QED
      BY <3>1 DEF Failed, SameAnswer
  <2>3. \A j \in Ids : activating'[j] # None => activating[j] # None
    BY DEF SameAnswer
  <2>4. QED
    BY <1>1, <2>1, <2>2, <2>3 DEF Mild
<1>3. Reaping'
  BY <1>1 DEF Reaping, Reasons, Condemned
<1>4. replay'.rest # <<>> => \A j \in Ids : activating'[j] = None
  BY <1>1, <1>2 DEF Reasons, OneAtATime, Mild
<1>5. pc' = "pump" /\ todo' # {} => to_remove' = {}
  BY <1>1 DEF Reasons, OneAtATime
<1>6. QED
  BY <1>2, <1>3, <1>4, <1>5, MildReasons

\* A SignalEvent kills every actor it sets aside.
LEMMA ReceiveSignalReasons ==
  ASSUME LifecycleAssumption, LifeInv, Reasons, ReceiveSignal
  PROVE  Reasons'
<1>0. TablesTyped
  BY DEF LifeInv, Typed
<1>1. PICK hit \in SUBSET Obj :
        /\ pc = "recv" /\ \A o \in hit : Alive(o)
        /\ obj' = [o \in Obj |->
              IF o \in hit THEN [obj[o] EXCEPT !.alive = FALSE, !.cancelled = TRUE]
              ELSE obj[o]]
        /\ to_remove' = to_remove \cup {obj[o].id : o \in hit}
        /\ UNCHANGED <<pc, actors, activating, dying, todo, replay>>
  BY DEF ReceiveSignal, loops
<1>2. ASSUME NEW x \in Obj
      PROVE  /\ obj'[x].st = obj[x].st /\ obj'[x].failed = obj[x].failed
             /\ obj'[x].alive => obj[x].alive
             /\ x \in hit => ~obj'[x].alive
  <2>1. obj[x] \in Life
    BY <1>0 DEF TablesTyped
  <2>2. PICK w : w = [obj[x] EXCEPT !.alive = FALSE, !.cancelled = TRUE]
    OBVIOUS
  <2>3. w.st = obj[x].st /\ w.failed = obj[x].failed /\ w.alive = FALSE
    BY <2>1, <2>2 DEF Life
  <2>4. obj'[x] = IF x \in hit THEN w ELSE obj[x]
    BY <1>1, <2>2
  <2>5. QED
    BY <2>3, <2>4
<1>3. Mild
  <2>1. \A x \in Obj : MildTo(x)
    BY <1>2 DEF MildTo
  <2>2. ASSUME NEW i \in Ids PROVE Failed(i)'
    <3>1. Failed(i) /\ (activating[i] # None => activating[i].obj \in Obj)
      BY <1>0 DEF Reasons, TablesTyped, Activation
    <3>2. QED
      BY <1>1, <1>2, <3>1 DEF Failed
  <2>3. \A i \in to_remove' : i \in to_remove \/
           \E v \in Obj : Alive(v) /\ obj[v].id = i /\ ~obj'[v].alive
    BY <1>1, <1>2
  <2>4. QED
    BY <1>1, <2>1, <2>2, <2>3 DEF Mild
<1>4. Reaping' /\ ~(pc' = "pump" /\ todo' # {})
  BY <1>1 DEF Reaping
<1>5. replay'.rest # <<>> => \A i \in Ids : activating'[i] = None
  BY <1>1 DEF Reasons, OneAtATime
<1>6. QED
  BY <1>3, <1>4, <1>5, MildReasons

\* The pump starts with the activations that are done.
LEMMA ListenerReasons ==
  ASSUME LifecycleAssumption, Alone, LifeInv, Reasons, ListenerReturns
  PROVE  Reasons'
<1>0. TablesTyped /\ Swept
  BY DEF LifeInv, Typed
<1>1. /\ pc = "run" /\ pc' \in {"recv", "pump"} /\ to_remove = {} /\ to_remove' = {}
      /\ UNCHANGED <<actors, dying, replay>>
  BY <1>0 DEF ListenerReturns, Alone, Swept, InPass
<1>2. ASSUME NEW x \in Obj
      PROVE  /\ obj'[x].st = obj[x].st /\ obj'[x].failed = obj[x].failed
             /\ obj'[x].alive = obj[x].alive
  <2>1. obj[x] \in Life
    BY <1>0 DEF TablesTyped
  <2>2. PICK w : w = [obj[x] EXCEPT !.cancelled = TRUE]
    OBVIOUS
  <2>3. w.st = obj[x].st /\ w.failed = obj[x].failed /\ w.alive = obj[x].alive
    BY <2>1, <2>2 DEF Life
  <2>4. obj'[x] = obj[x] \/ obj'[x] = w
    BY <2>2 DEF ListenerReturns
  <2>5. QED
    BY <2>3, <2>4
<1>3. ASSUME NEW i \in Ids
      PROVE  \/ activating'[i] = activating[i]
             \/ /\ activating[i] # None /\ activating'[i].obj = activating[i].obj
                /\ activating'[i].done = activating[i].done /\ activating'[i].ok = activating[i].ok
  <2>1. CASE Activating = {} \/ ~Expires(i)
    BY <2>1 DEF ListenerReturns
  <2>2. CASE Activating # {} /\ Expires(i)
    <3>1. activating[i] # None /\ activating[i] \in Activation
      BY <1>0, <2>2 DEF Expires, TablesTyped
    <3>2. activating'[i] = [activating[i] EXCEPT !.cancelling = TRUE]
      BY <2>2 DEF ListenerReturns
    <3>3. QED
      BY <3>1, <3>2 DEF Activation
  <2>3. QED
    BY <2>1, <2>2
<1>4. Mild
  <2>1. \A x \in Obj : MildTo(x)
    BY <1>2 DEF MildTo
  <2>2. ASSUME NEW i \in Ids PROVE Failed(i)'
    <3>1. Failed(i) /\ (activating[i] # None => activating[i].obj \in Obj)
      BY <1>0 DEF Reasons, TablesTyped, Activation
    <3>2. QED
      BY <1>2, <1>3, <3>1 DEF Failed
  <2>3. \A i \in Ids : activating'[i] # None => activating[i] # None
    BY <1>3
  <2>4. QED
    BY <1>1, <2>1, <2>2, <2>3 DEF Mild
<1>5. Reaping'
  BY <1>1 DEF Reaping
<1>6. replay'.rest # <<>> => \A i \in Ids : activating'[i] = None
  BY <1>1, <1>4 DEF Reasons, OneAtATime, Mild
<1>7. QED
  BY <1>1, <1>4, <1>5, <1>6, MildReasons

\* An onInit() that fails says so on its actor.
LEMMA InitEndsReasons ==
  ASSUME LifecycleAssumption, Alone, LifeInv, Reasons,
         NEW i \in Ids, NEW ok \in BOOLEAN, NEW k \in BOOLEAN, InitEnds(i, ok, k)
  PROVE  Reasons'
<1>0. TablesTyped /\ Owned
  BY DEF LifeInv, Typed
<1>1. PICK act \in Activation : act = activating[i]
  BY <1>0 DEF InitEnds, TablesTyped
<1>2. PICK o \in Obj : o = act.obj
  BY DEF Activation
<1>3. activating[i] # None /\ obj[o].st = "live"
  BY <1>0, <1>1, <1>2 DEF InitEnds, Owned, HoldsActor, LifecycleAssumption
<1>4. /\ pc = "run" /\ ~k
      /\ activating' = [activating EXCEPT ![i].done = TRUE, ![i].ok = ok]
      /\ obj' = [obj EXCEPT ![o].failed = ~ok, ![o].alive = @ /\ ~k, ![o].cancelled = @ \/ k]
      /\ to_remove' = to_remove
      /\ UNCHANGED <<pc, actors, dying, todo, replay>>
  BY <1>1, <1>2 DEF InitEnds, Alone
<1>5. PICK a \in BOOLEAN, c \in BOOLEAN, f \in BOOLEAN :
         a = (obj[o].alive /\ ~k) /\ c = (obj[o].cancelled \/ k) /\ f = ~ok
  BY <1>0 DEF TablesTyped, Life
<1>6. obj' = [obj EXCEPT ![o].failed = f, ![o].alive = a, ![o].cancelled = c]
  BY <1>0, <1>4, <1>5 DEF TablesTyped
<1>7. /\ \A x \in Obj \ {o} : obj'[x] = obj[x]
      /\ obj'[o].st = obj[o].st /\ obj'[o].failed = f /\ obj'[o].alive = a
  BY <1>0, <1>6 DEF TablesTyped, Life
<1>8. activating'[i].obj = o /\ activating'[i].ok = ok
  BY <1>0, <1>1, <1>2, <1>4 DEF TablesTyped, Activation
<1>9. \A j \in Ids \ {i} : activating[j] = None /\ activating'[j] = None
  BY <1>0, <1>3, <1>4 DEF Reasons, OneAtATime, TablesTyped
<1>10. Mild
  <2>1. \A x \in Obj : MildTo(x)
    BY <1>3, <1>5, <1>7 DEF MildTo
  <2>2. ASSUME NEW j \in Ids PROVE Failed(j)'
    BY <1>5, <1>7, <1>8, <1>9 DEF Failed
  <2>3. \A j \in Ids : activating'[j] # None => activating[j] # None
    BY <1>3, <1>9
  <2>4. QED
    BY <1>4, <2>1, <2>2, <2>3 DEF Mild
<1>11. Reaping' /\ ~(pc' = "pump" /\ todo' # {})
  BY <1>4 DEF Reaping
<1>12. replay'.rest # <<>> => \A j \in Ids : activating'[j] = None
  BY <1>4, <1>10 DEF Reasons, OneAtATime, Mild
<1>13. QED
  BY <1>10, <1>11, <1>12, MildReasons

\* An activation ends and its stash begins to be replayed.
LEMMA PumpActivatesReasons ==
  ASSUME LifecycleAssumption, LifeInv, Reasons, NEW i \in Ids, PumpActivates(i)
  PROVE  Reasons'
<1>0. TablesTyped /\ Swept
  BY DEF LifeInv, Typed
<1>1. PICK o \in Obj : o = actors[i]
  BY <1>0 DEF PumpActivates, TablesTyped
<1>2. /\ pc = "pump" /\ i \in todo /\ todo' = todo \ {i}
      /\ obj' = [obj EXCEPT ![o].activated = TRUE]
      /\ activating' = [activating EXCEPT ![i] = None]
      /\ UNCHANGED <<pc, actors, dying, to_remove>>
  BY <1>1 DEF PumpActivates
<1>3. activating[i] # None /\ to_remove = {}
  BY <1>0, <1>2 DEF Swept, InPass, Reasons, OneAtATime
<1>4. \A j \in Ids : activating'[j] = None
  BY <1>0, <1>2, <1>3 DEF TablesTyped, Reasons, OneAtATime
<1>5. \A x \in Obj : /\ obj'[x].st = obj[x].st /\ obj'[x].failed = obj[x].failed
                     /\ obj'[x].alive = obj[x].alive
  BY <1>0, <1>2 DEF TablesTyped, Life
<1>6. Mild
  BY <1>2, <1>4, <1>5 DEF Mild, MildTo, Failed
<1>7. Reaping'
  BY <1>2 DEF Reaping
<1>8. QED
  BY <1>2, <1>3, <1>4, <1>6, <1>7, MildReasons

(* What a removal does to the objects: at most one is destroyed, at most   *)
(* one other is killed.                                                    *)
LEMMA RemoveObjects ==
  ASSUME LifecycleAssumption, TablesTyped, Owned, NEW i \in Ids, NEW v \in Obj \cup {None},
         RemoveActor(i, to_remove, v)
  PROVE  /\ v # None => v \in Obj /\ Alive(v) /\ v # actors[i]
         /\ to_remove' = IF v # None THEN to_remove \cup {obj[v].id} ELSE to_remove
         /\ IF Deferred(i) THEN activating' = activating ELSE activating'[i] = None
         /\ \A x \in Obj :
               /\ obj'[x].failed = obj[x].failed
               /\ obj'[x].st = IF x = actors[i] /\ ~Deferred(i) THEN "destroyed" ELSE obj[x].st
               /\ obj'[x].alive => obj[x].alive
               /\ x = v => ~obj'[x].alive
<1>1. v # None => actors[i] # None /\ ~Deferred(i) /\ v # actors[i] /\ Alive(v)
  BY DEF RemoveActor
<1>2. to_remove' = IF v # None THEN to_remove \cup {obj[v].id} ELSE to_remove
  BY <1>1 DEF RemoveActor
<1>3. IF Deferred(i) THEN activating' = activating ELSE activating'[i] = None
  BY DEF RemoveActor, eraseActivation, TablesTyped
<1>4. ASSUME NEW x \in Obj
      PROVE  /\ obj'[x].failed = obj[x].failed
             /\ obj'[x].st = IF x = actors[i] /\ ~Deferred(i) THEN "destroyed" ELSE obj[x].st
             /\ obj'[x].alive => obj[x].alive
             /\ x = v => ~obj'[x].alive
  <2>1. obj[x] \in Life /\ x # None
    BY DEF TablesTyped, LifecycleAssumption
  <2>2. CASE x = actors[i]
    <3>1. obj'[x] = [obj[x] EXCEPT !.cancelled = TRUE,
                                   !.st = IF ~Deferred(i) THEN "destroyed" ELSE @]
      BY <2>1, <2>2 DEF RemoveActor
    <3>2. PICK s \in {"unborn", "live", "destroyed"} :
             s = IF ~Deferred(i) THEN "destroyed" ELSE obj[x].st
      BY <2>1 DEF Life
    <3>3. obj'[x] = [obj[x] EXCEPT !.cancelled = TRUE, !.st = s]
      BY <2>1, <3>1, <3>2 DEF Life
    <3>4. obj'[x].failed = obj[x].failed /\ obj'[x].st = s /\ obj'[x].alive = obj[x].alive
      BY <2>1, <3>3 DEF Life
    <3>5. QED
      BY <1>1, <2>1, <2>2, <3>2, <3>4
  <2>3. CASE x # actors[i] /\ x = v
    <3>1. obj'[x] = [obj[x] EXCEPT !.alive = FALSE, !.cancelled = TRUE]
      BY <1>1, <2>1, <2>3 DEF RemoveActor
    <3>2. QED
      BY <2>1, <2>3, <3>1 DEF Life
  <2>4. CASE x # actors[i] /\ x # v
    <3>1. obj'[x] = obj[x]
      BY <2>4 DEF RemoveActor
    <3>2. QED
      BY <2>4, <3>1
  <2>5. QED
    BY <2>2, <2>3, <2>4
<1>5. QED
  BY <1>1, <1>2, <1>3, <1>4

\* removeActor() destroys an actor that was killed or whose onInit() failed.
LEMMA RemoveReasons ==
  ASSUME LifecycleAssumption, LifeInv, Reasons, NEW i \in Ids, NEW v \in Obj \cup {None},
         RemoveActor(i, to_remove, v), replay.rest = <<>>, UNCHANGED <<replay, history, pc>>,
         todo' = todo \ {i}, i \notin to_remove,
         actors[i] # None, Condemned(i) \/ (~Deferred(i) /\ obj[actors[i]].failed),
         pc = "pump" => todo' = {}
  PROVE  Reasons'
<1>0. TablesTyped /\ Owned
  BY DEF LifeInv, Typed
<1>1. Removed(i)
  BY RemoveActorRemoves
<1>2. /\ v # None => v \in Obj /\ Alive(v) /\ v # actors[i]
      /\ to_remove' = IF v # None THEN to_remove \cup {obj[v].id} ELSE to_remove
      /\ IF Deferred(i) THEN activating' = activating ELSE activating'[i] = None
  BY <1>0, RemoveObjects
<1>3. \A x \in Obj :
         /\ obj'[x].failed = obj[x].failed
         /\ obj'[x].st = IF x = actors[i] /\ ~Deferred(i) THEN "destroyed" ELSE obj[x].st
         /\ obj'[x].alive => obj[x].alive
         /\ x = v => ~obj'[x].alive
  BY <1>0, RemoveObjects
<1>4. /\ \A j \in Ids \ {i} : actors'[j] = actors[j] /\ activating'[j] = activating[j]
      /\ \/ actors'[i] = None /\ dying' = dying \ {i}
         \/ /\ Deferred(i) /\ dying' = dying \cup {i}
            /\ actors'[i] = actors[i] /\ activating'[i] = activating[i]
  BY <1>1 DEF Removed
<1>5. DestroyedForAReason'
  <2>1. ASSUME NEW x \in Obj, obj'[x].st = "destroyed" PROVE ~obj'[x].alive \/ obj'[x].failed
    <3>1. CASE x = actors[i] /\ ~Deferred(i)
      BY <1>3, <3>1 DEF Condemned
    <3>2. CASE obj[x].st = "destroyed"
      BY <1>3, <3>2 DEF Reasons, DestroyedForAReason
    <3>3. QED
      BY <1>3, <2>1, <3>1, <3>2
  <2>2. QED
    BY <2>1 DEF DestroyedForAReason
<1>6. ASSUME NEW j \in Ids, Condemned(j), actors'[j] = actors[j] PROVE Condemned(j)'
  <2>1. actors[j] \in Obj
    BY <1>0, <1>6 DEF Condemned, TablesTyped
  <2>2. QED
    BY <1>3, <1>6, <2>1 DEF Condemned
<1>7. v # None => \E j \in Ids \ {i} :
         j = obj[v].id /\ actors[j] = v /\ Condemned(j)' /\ ~Condemned(j)
  <2>1. SUFFICES ASSUME v # None
                 PROVE  \E j \in Ids \ {i} :
                           j = obj[v].id /\ actors[j] = v /\ Condemned(j)' /\ ~Condemned(j)
    OBVIOUS
  <2>2. PICK j \in Ids : j = obj[v].id
    BY <1>0, <1>2, <2>1 DEF TablesTyped, Life
  <2>3. actors[j] = v /\ j # i
    BY <1>0, <1>2, <2>1, <2>2 DEF Owned, OwnsId, Alive
  <2>4. actors'[j] = v
    BY <1>4, <2>3
  <2>5. Condemned(j)' /\ ~Condemned(j)
    BY <1>2, <1>3, <2>1, <2>3, <2>4 DEF Condemned, Alive
  <2>6. QED
    BY <2>2, <2>3, <2>5
<1>8. ASSUME NEW j \in to_remove' \cup dying' PROVE Condemned(j)'
  <2>1. CASE j \in (to_remove \cup dying) \ {i}
    <3>1. j \in Ids /\ Condemned(j) /\ actors'[j] = actors[j]
      BY <1>0, <1>4, <2>1 DEF TablesTyped, Reasons
    <3>2. QED
      BY <1>6, <3>1
  <2>2. CASE v # None /\ j = obj[v].id
    BY <1>7, <2>2
  <2>3. CASE j = i /\ i \in dying'
    BY <1>4, <1>6, <2>3
  <2>4. QED
    BY <1>2, <1>4, <1>8, <2>1, <2>2, <2>3
<1>9. \A j \in Ids : activating'[j] # None => activating'[j] = activating[j]
  BY <1>2, <1>4
<1>10. ASSUME NEW j \in Ids PROVE Failed(j)'
  <2>1. Failed(j) /\ (activating[j] # None => activating[j].obj \in Obj)
    BY <1>0 DEF Reasons, TablesTyped, Activation
  <2>2. QED
    BY <1>3, <1>9, <2>1 DEF Failed
<1>11. Reaping'
  <2>1. ASSUME pc = "reap", NEW j \in todo' PROVE Condemned(j)' /\ j \notin to_remove'
    <3>1. j \in Ids \ {i} /\ Condemned(j) /\ j \notin to_remove
      BY <2>1 DEF Reasons, Reaping, LifeInv, Typed, LoopsTyped
    <3>2. Condemned(j)'
      BY <1>4, <1>6, <3>1
    <3>3. j \notin to_remove'
      BY <1>2, <1>7, <3>1
    <3>4. QED
      BY <3>2, <3>3
  <2>2. QED
    BY <2>1 DEF Reaping
<1>12. OneAtATime'
  <2>1. \A j \in Ids : activating'[j] # None => activating[j] # None
    BY <1>9
  <2>2. QED
    BY <2>1 DEF OneAtATime, Reasons
<1>13. QED
  BY <1>5, <1>8, <1>10, <1>11, <1>12 DEF Reasons

\* What the reap loop removes was killed.
LEMMA ReapOneReasons ==
  ASSUME LifecycleAssumption, LifeInv, Reasons, NEW i \in Ids, NEW v \in Obj \cup {None},
         ReapOne(i, v)
  PROVE  Reasons'
<1>1. /\ pc = "reap" /\ i \in todo /\ todo' = todo \ {i} /\ RemoveActor(i, to_remove, v)
      /\ UNCHANGED <<replay, history, pc>>
  BY DEF ReapOne
<1>2. replay.rest = <<>>
  BY <1>1 DEF LifeInv, Stashed
<1>3. Condemned(i) /\ i \notin to_remove /\ actors[i] # None
  BY <1>1 DEF Reasons, Reaping, Condemned
<1>4. QED
  BY <1>1, <1>2, <1>3, RemoveReasons

\* What the pump removes has failed.
LEMMA PumpFailsReasons ==
  ASSUME LifecycleAssumption, LifeInv, Reasons, NEW i \in Ids, NEW v \in Obj \cup {None},
         PumpFails(i, v)
  PROVE  Reasons'
<1>0. TablesTyped /\ LoopsTyped /\ Owned /\ Swept
  BY DEF LifeInv, Typed
<1>1. /\ pc = "pump" /\ i \in todo /\ replay.rest = <<>> /\ todo' = todo \ {i}
      /\ UNCHANGED <<replay, history, pc>>
  BY DEF PumpFails
<1>2. activating[i] # None /\ activating[i].done /\ activating[i] \in Activation
  BY <1>0, <1>1 DEF Swept, InPass, TablesTyped
<1>3. activating[i].obj = actors[i] /\ actors[i] # None /\ ~Deferred(i)
  BY <1>0, <1>2 DEF Owned, HoldsActor, Activation, Deferred, LifecycleAssumption
<1>4. RemoveActor(i, to_remove, v)
  BY <1>3 DEF PumpFails
<1>5. to_remove = {} /\ todo' = {}
  BY <1>0, <1>1, <1>2 DEF Reasons, OneAtATime, Swept, InPass, LoopsTyped
<1>6. Condemned(i) \/ obj[actors[i]].failed
  <2>1. CASE i \in dying
    BY <2>1 DEF Reasons
  <2>2. CASE ~activating[i].ok
    BY <1>2, <1>3, <2>2 DEF Reasons, Failed
  <2>3. QED
    BY <1>3, <2>1, <2>2 DEF PumpFails
<1>7. QED
  BY <1>1, <1>3, <1>4, <1>5, <1>6, RemoveReasons

\* Nobody is destroyed or set aside at first.
LEMMA ReasonsInit ==
  ASSUME LifecycleAssumption, Alone, Init
  PROVE  Reasons
<1>1. PICK f \in InitialIds, susp \in SUBSET Initial :
        LET at(i) == {o \in Initial : f[o] = i}
            owner(i) == IF at(i) = {} THEN None ELSE CHOOSE o \in at(i) : TRUE
        IN /\ pc = "run"
           /\ obj = [o \in Obj |->
                 [st |-> IF o \in Initial THEN "live" ELSE "unborn",
                  id |-> IF o \in Initial THEN f[o] ELSE NotFound,
                  alive |-> TRUE, activated |-> o \notin susp,
                  cancelled |-> FALSE, failed |-> FALSE]]
           /\ free = Pool \ {f[o] : o \in Initial}
           /\ actors = [i \in Ids |-> owner(i)]
           /\ subs = [i \in Ids |-> owner(i)]
           /\ callbacks = [i \in Ids |-> None]
           /\ activating = [i \in Ids |->
                 IF owner(i) \in susp THEN Frame(owner(i)) ELSE None]
           /\ dying = {} /\ to_remove = {} /\ todo = {} /\ due = {}
           /\ snapshot = {}
           /\ replay = [id |-> NotFound, rest |-> <<>>]
           /\ arrived = [o \in Obj |-> <<>>]
           /\ delivered = [o \in Obj |-> <<>>]
           /\ overflowed = {}
  BY DEF Init
<1>2. pc = "run" /\ dying = {} /\ to_remove = {} /\ replay.rest = <<>>
  BY <1>1
<1>3. LifeInv
  BY LifeInit DEF Alone
<1>4. ASSUME NEW i \in Ids, activating[i] # None PROVE activating[i].done = FALSE
  BY <1>1, <1>4 DEF Frame
<1>5. ASSUME NEW i \in Ids, NEW j \in Ids, activating[i] # None, activating[j] # None PROVE i = j
  <2>1. /\ activating[i].obj = actors[i] /\ activating[j].obj = actors[j]
        /\ actors[i] \in Obj /\ actors[j] \in Obj
    BY <1>3, <1>5 DEF LifeInv, Typed, TablesTyped, Activation, Owned, HoldsActor
  <2>2. /\ obj[actors[i]].st = "live" /\ obj[actors[i]].id = i
        /\ obj[actors[j]].st = "live" /\ obj[actors[j]].id = j
    BY <1>3, <2>1 DEF LifeInv, Owned, HoldsActor, LifecycleAssumption
  <2>3. \A o \in Obj : obj[o].st = "live" => o \in Initial
    BY <1>1
  <2>4. actors[i] = actors[j]
    BY <2>1, <2>2, <2>3 DEF Alone
  <2>5. QED
    BY <2>2, <2>4
<1>6. DestroyedForAReason
  BY <1>1 DEF DestroyedForAReason
<1>7. QED
  BY <1>2, <1>4, <1>5, <1>6 DEF Reasons, Failed, Reaping, OneAtATime

\* Every step keeps the reasons.
LEMMA ReasonsNext ==
  ASSUME LifecycleAssumption, Alone, LifeInv, Reasons, [Next]_vars
  PROVE  Reasons'
<1>1. CASE UNCHANGED vars
  BY <1>1, ControlReasons DEF vars, loops
<1>2. CASE LoopStep
  <2>1. CASE ListenerReturns
    BY <2>1, ListenerReasons
  <2>2. CASE \E i \in Ids, v \in Obj \cup {None} : PumpFails(i, v)
    BY <2>2, PumpFailsReasons
  <2>3. CASE \E i \in Ids : PumpActivates(i)
    BY <2>3, PumpActivatesReasons
  <2>4. CASE ReplayStashed \/ Tick
    BY <2>4, UserReasons
  <2>5. CASE PumpReturns
    <3>1. UNCHANGED tables /\ UNCHANGED replay /\ pc' # "reap" /\ pc' # "pump"
      BY <2>5 DEF PumpReturns, loops
    <3>2. QED
      BY <3>1, ControlReasons
  <2>6. CASE ReceiveEnd
    <3>1. UNCHANGED tables /\ UNCHANGED replay /\ (pc' = "tick" \/ (pc' = "reap" /\ todo' = {}))
      BY <2>6 DEF ReceiveEnd
    <3>2. QED
      BY <3>1, ControlReasons
  <2>7. CASE TickEnd
    <3>1. UNCHANGED tables /\ UNCHANGED replay /\ (pc' = "run" \/ (pc' = "reap" /\ todo' = {}))
      BY <2>7 DEF TickEnd, NextPass
    <3>2. QED
      BY <3>1, ControlReasons
  <2>8. CASE ReapSwap
    BY <2>8, ReapSwapReasons
  <2>9. CASE \E i \in Ids, v \in Obj \cup {None} : ReapOne(i, v)
    BY <2>9, ReapOneReasons
  <2>10. CASE ReapEnd
    <3>1. UNCHANGED tables /\ UNCHANGED replay /\ pc' # "reap" /\ pc' # "pump"
      BY <2>10 DEF ReapEnd, NextPass
    <3>2. QED
      BY <3>1, ControlReasons
  <2>11. QED
    BY <1>2, <2>1, <2>2, <2>3, <2>4, <2>5, <2>6, <2>7, <2>8, <2>9, <2>10 DEF LoopStep
<1>3. CASE CoroutineStep
  BY <1>3, UserReasons
<1>4. CASE \E i \in Ids, ok, k \in BOOLEAN : InitEnds(i, ok, k)
  BY <1>4, InitEndsReasons
<1>5. CASE \E i \in Ids : DeadlinePasses(i)
  BY <1>5, DeadlineKeepsAnswer, StashReasons
<1>6. ASSUME NEW i \in Ids, NEW kind \in {"business", "unregister"}, Receive(i, kind)
      PROVE  Reasons'
  <2>1. CASE activating[i] = None
    BY <1>6, <2>1, UserReasons
  <2>2. CASE activating[i] # None
    BY <1>6, <2>2, StashReceives, StashReasons
  <2>3. QED
    BY <2>1, <2>2
<1>7. CASE \E i \in Ids : ReceiveKill(i)
  BY <1>7, UserReasons
<1>8. CASE ReceiveSignal
  BY <1>8, ReceiveSignalReasons
<1>9. QED
  BY <1>1, <1>2, <1>3, <1>4, <1>5, <1>6, <1>7, <1>8 DEF Next

(* An actor is destroyed only because it was killed or its onInit()        *)
(* failed: kill() ends this actor and, through a recycled id, no other.    *)
THEOREM NobodyIsDestroyedForAnother == Alone => (Spec => []DestroyedForAReason)
<1>1. SUFFICES ASSUME Alone PROVE Spec => []DestroyedForAReason
  OBVIOUS
<1>2. Contained
  BY <1>1 DEF Alone
<1>3. Spec => []LifeInv
  BY <1>2, LifecycleInvariant
<1>4. Init => Reasons
  BY <1>1, LifecycleAssumption, ReasonsInit
<1>5. LifeInv /\ Reasons /\ [Next]_vars => Reasons'
  BY <1>1, LifecycleAssumption, ReasonsNext
<1>6. Reasons => DestroyedForAReason
  BY DEF Reasons
<1>7. QED
  BY <1>3, <1>4, <1>5, <1>6, PTL DEF Spec
=============================================================================
