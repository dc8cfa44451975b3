------------------------- MODULE CoreMessagingProofs -------------------------
(***************************************************************************)
(* No event is lost or doubled between the cores, a guaranteed one is      *)
(* dropped only where its destination is gone, and pushes arrive in order, *)
(* for any number of cores and events, any ring capacity and any order of  *)
(* pushes, sends, relays and stops.                                        *)
(***************************************************************************)
EXTENDS CoreMessaging, QueueTheorems

-----------------------------------------------------------------------------
(* The queues *)

Ids == UNION {Towards(d) : d \in Cores}

Held(q) == ToSet(Queue(q))

\* The three kinds of queue, by name.
Batch(d) == <<"batch", d, d>>
Pipe(c, d) == <<"pipe", c, d>>
Ring(c, d) == <<"ring", c, d>>

\* A queue is a batch, a pipe or a ring, and its name says which.
LEMMA QueueNames ==
    /\ \A q \in Ids : \/ \E d \in Cores : q = Batch(d)
                      \/ \E c, d \in Cores : q = Pipe(c, d) \/ q = Ring(c, d)
    /\ \A c, d \in Cores : Batch(d) \in Ids /\ Pipe(c, d) \in Ids /\ Ring(c, d) \in Ids
    /\ \A c, d, x, y : /\ Pipe(c, d) # Ring(x, y) /\ Pipe(c, d) # Batch(x) /\ Ring(c, d) # Batch(x)
                       /\ Pipe(c, d) = Pipe(x, y) => c = x /\ d = y
                       /\ Ring(c, d) = Ring(x, y) => c = x /\ d = y
                       /\ Batch(c) = Batch(x) => c = x
<1>1. \A q \in Ids : \/ \E d \in Cores : q = Batch(d)
                     \/ \E c, d \in Cores : q = Pipe(c, d) \/ q = Ring(c, d)
  BY DEF Ids, Towards, Batch, Pipe, Ring
<1>2. \A c, d \in Cores : Batch(d) \in Ids /\ Pipe(c, d) \in Ids /\ Ring(c, d) \in Ids
  BY DEF Ids, Towards, Batch, Pipe, Ring
<1>3. \A c, d, x, y : /\ Pipe(c, d) # Ring(x, y) /\ Pipe(c, d) # Batch(x) /\ Ring(c, d) # Batch(x)
                      /\ Pipe(c, d) = Pipe(x, y) => c = x /\ d = y
                      /\ Ring(c, d) = Ring(x, y) => c = x /\ d = y
                      /\ Batch(c) = Batch(x) => c = x
  BY DEF Batch, Pipe, Ring
<1> QED
  BY <1>1, <1>2, <1>3

\* What each name stands for.
LEMMA QueueContents ==
    \A c, d : /\ Queue(Batch(d)) = batch[d]
              /\ Queue(Pipe(c, d)) = pipes[c][d]
              /\ Queue(Ring(c, d)) = mailbox[d][c]
BY DEF Queue, Batch, Pipe, Ring

\* The same after a step.
LEMMA QueueContentsNext ==
    \A c, d : /\ Queue(Batch(d))' = batch'[d]
              /\ Queue(Pipe(c, d))' = pipes'[c][d]
              /\ Queue(Ring(c, d))' = mailbox'[d][c]
BY DEF Queue, Batch, Pipe, Ring

-----------------------------------------------------------------------------
(* Every event has one home *)

\* No queue has anything twice, no event is in two queues, and the live
\* events are those that are in one.
Distinct == \A q \in Ids : IsInjective(Queue(q))
OneHome == \A q, p \in Ids, e \in Event : e \in Held(q) /\ e \in Held(p) => q = p
HomeIffLive == \A e \in Event : fate[e] = "live" <=> \E q \in Ids : e \in Held(q)

\* An event with one home is in one place.
LEMMA HomesArePlaces == Distinct /\ OneHome /\ HomeIffLive => OnePlacePerLiveEvent
<1> SUFFICES ASSUME Distinct, OneHome, HomeIffLive, NEW e \in Event
             PROVE  Cardinality(Places(e)) = IF fate[e] = "live" THEN 1 ELSE 0
  BY DEF OnePlacePerLiveEvent
<1>1. \A p : p \in Places(e) <=> \E q \in Ids : \E i \in DOMAIN Queue(q) : Queue(q)[i] = e /\ p = <<q, i>>
  BY DEF Places, Ids
<1>2. CASE fate[e] = "live"
  <2>1. PICK q \in Ids : e \in Held(q)
    BY <1>2 DEF HomeIffLive
  <2>2. PICK i \in DOMAIN Queue(q) : Queue(q)[i] = e
    BY <2>1 DEF Held, ToSet
  <2>3. ASSUME NEW p \in Ids, NEW j \in DOMAIN Queue(p), Queue(p)[j] = e
        PROVE  p = q /\ j = i
    <3>1. e \in Held(p)
      BY <2>3 DEF Held, ToSet
    <3>2. p = q
      BY <3>1, <2>1 DEF OneHome
    <3> QED
      BY <3>2, <2>2, <2>3 DEF Distinct, IsInjective
  <2>4. Places(e) = {<<q, i>>}
    BY <1>1, <2>2, <2>3
  <2> QED
    BY <1>2, <2>4, FS_Singleton
<1>3. CASE fate[e] # "live"
  <2>1. Places(e) = {}
    BY <1>1, <1>3 DEF HomeIffLive, Held, ToSet
  <2> QED
    BY <1>3, <2>1, FS_EmptySet
<1> QED
  BY <1>2, <1>3

\* What a step may do with an event: leave it where it is, settle it, or put
\* it in one place.
Stays(e) == /\ \A q \in Ids : e \in Held(q)' <=> e \in Held(q)
            /\ fate'[e] = "live" <=> fate[e] = "live"
Settles(e) == (\A q \in Ids : e \notin Held(q)') /\ fate'[e] # "live"
MovesTo(e, p) == (\A q \in Ids : e \in Held(q)' <=> q = p) /\ fate'[e] = "live"

\* An event that stays, settles or moves to one queue has one home.
LEMMA EachEventKept ==
    ASSUME OneHome, HomeIffLive,
           \A e \in Event : Stays(e) \/ Settles(e) \/ \E p \in Ids : MovesTo(e, p)
    PROVE  OneHome' /\ HomeIffLive'
<1>1. ASSUME NEW e \in Event
      PROVE  /\ \A q, p \in Ids : e \in Held(q)' /\ e \in Held(p)' => q = p
             /\ fate'[e] = "live" <=> \E q \in Ids : e \in Held(q)'
  <2>1. CASE Stays(e)
    BY <2>1 DEF Stays, OneHome, HomeIffLive
  <2>2. CASE Settles(e)
    BY <2>2 DEF Settles
  <2>3. CASE \E p \in Ids : MovesTo(e, p)
    BY <2>3 DEF MovesTo
  <2> QED
    BY <2>1, <2>2, <2>3
<1>2. Ids' = Ids
  BY DEF Ids, Towards, Cores
<1> QED
  BY <1>1, <1>2 DEF OneHome, HomeIffLive

-----------------------------------------------------------------------------
(* Kinds of steps *)

Homes == Distinct /\ OneHome /\ HomeIffLive

\* e joins queue p, at the back or in front.
Joins(e, p) == Queue(p)' = Append(Queue(p), e) \/ Queue(p)' = <<e>> \o Queue(p)

\* A queue that an item joins, at either end.
LEMMA JoinedHeld ==
    ASSUME Homes, NEW p \in Ids, NEW e \in Items, Queue(p) \in Seq(Items), e \notin Held(p), Joins(e, p)
    PROVE  IsInjective(Queue(p)') /\ Held(p)' = Held(p) \cup {e} /\ Queue(p)' \in Seq(Items)
<1>1. IsInjective(Queue(p)) /\ Held(p) = Range(Queue(p)) /\ Held(p)' = Range(Queue(p)')
  BY DEF Homes, Distinct, Held, ToSet, Range
<1>2. CASE Queue(p)' = Append(Queue(p), e)
  BY <1>1, <1>2, AppendedQueue
<1>3. CASE Queue(p)' = <<e>> \o Queue(p)
  <2> DEFINE r == <<e>>
  <2>1. r \in Seq(Items) /\ IsInjective(r) /\ Range(r) = {e}
    BY OneElement
  <2>2. Range(r) \cap Range(Queue(p)) = {}
    BY <2>1, <1>1
  <2> HIDE DEF r
  <2>3. r \o Queue(p) \in Seq(Items) /\ IsInjective(r \o Queue(p)) /\ Range(r \o Queue(p)) = Range(r) \cup Range(Queue(p))
    BY <2>1, <2>2, <1>1, JoinedQueues
  <2> QED
    BY <2>1, <2>3, <1>1, <1>3 DEF r
<1> QED
  BY <1>2, <1>3 DEF Joins

\* A queue whose first item is taken.
LEMMA TakenHeld ==
    ASSUME Homes, NEW q \in Ids, Queue(q) \in Seq(Items), Queue(q) # <<>>, Queue(q)' = Tail(Queue(q))
    PROVE  /\ IsInjective(Queue(q)') /\ Held(q)' = Held(q) \ {Head(Queue(q))}
           /\ Head(Queue(q)) \in Held(q) /\ Head(Queue(q)) \in Items /\ Queue(q)' \in Seq(Items)
<1>1. IsInjective(Queue(q)) /\ Held(q) = Range(Queue(q)) /\ Held(q)' = Range(Queue(q)')
  BY DEF Homes, Distinct, Held, ToSet, Range
<1> QED
  BY <1>1, HeadAndTail

\* The names do not depend on the state.
LEMMA IdsNext == Ids' = Ids
BY DEF Ids, Towards, Cores

\* Nothing moves and nothing is settled.
LEMMA NothingMoves ==
    ASSUME Homes, UNCHANGED <<pipes, mailbox, batch, fate>>
    PROVE  Homes'
BY IdsNext DEF Homes, Distinct, OneHome, HomeIffLive, Held, Queue

\* A new event joins queue p.
LEMMA NewEvent ==
    ASSUME Homes, NEW p \in Ids, NEW e \in Event, Queue(p) \in Seq(Items), Joins(e, p),
           \A q \in Ids \ {p} : Queue(q)' = Queue(q),
           fate \in [Event -> Fates], fate[e] = "unborn", fate' = [fate EXCEPT ![e] = "live"]
    PROVE  Homes'
<1>1. e \in Items /\ \A q \in Ids : e \notin Held(q)
  BY DEF Homes, HomeIffLive, Items
<1>2. IsInjective(Queue(p)') /\ Held(p)' = Held(p) \cup {e}
  BY <1>1, JoinedHeld
<1>3. \A q \in Ids \ {p} : Held(q)' = Held(q)
  BY DEF Held
<1>4. MovesTo(e, p)
  BY <1>1, <1>2, <1>3 DEF MovesTo
<1>5. ASSUME NEW f \in Event, f # e PROVE Stays(f)
  BY <1>2, <1>3, <1>5 DEF Stays
<1>6. OneHome' /\ HomeIffLive'
  BY <1>4, <1>5, EachEventKept DEF Homes
<1>7. Distinct'
  BY <1>2, IdsNext DEF Homes, Distinct
<1> QED
  BY <1>6, <1>7 DEF Homes

\* The head of queue q joins queue p.
LEMMA HeadMoves ==
    ASSUME Homes, NEW q \in Ids, NEW p \in Ids, p # q, NEW e \in Event,
           Queue(q) \in Seq(Items), Queue(p) \in Seq(Items),
           Queue(q) # <<>>, e = Head(Queue(q)), Queue(q)' = Tail(Queue(q)), Joins(e, p),
           \A r \in Ids \ {p, q} : Queue(r)' = Queue(r), fate' = fate
    PROVE  Homes'
<1>1. IsInjective(Queue(q)') /\ Held(q)' = Held(q) \ {e} /\ e \in Held(q)
  BY TakenHeld
<1>2. e \in Items /\ \A r \in Ids \ {q} : e \notin Held(r)
  BY <1>1 DEF Homes, OneHome, Items
<1>3. IsInjective(Queue(p)') /\ Held(p)' = Held(p) \cup {e}
  BY <1>2, JoinedHeld
<1>4. \A r \in Ids \ {p, q} : Held(r)' = Held(r)
  BY DEF Held
<1>5. fate[e] = "live"
  BY <1>1 DEF Homes, HomeIffLive
<1>6. MovesTo(e, p)
  BY <1>1, <1>2, <1>3, <1>4, <1>5 DEF MovesTo
<1>7. ASSUME NEW f \in Event, f # e PROVE Stays(f)
  BY <1>1, <1>3, <1>4, <1>7 DEF Stays
<1>8. OneHome' /\ HomeIffLive'
  BY <1>6, <1>7, EachEventKept DEF Homes
<1>9. Distinct'
  BY <1>1, <1>3, IdsNext DEF Homes, Distinct
<1> QED
  BY <1>8, <1>9 DEF Homes

\* The head of queue q is settled.
LEMMA HeadSettles ==
    ASSUME Homes, NEW q \in Ids, NEW e \in Event, Queue(q) \in Seq(Items),
           Queue(q) # <<>>, e = Head(Queue(q)), Queue(q)' = Tail(Queue(q)),
           \A r \in Ids \ {q} : Queue(r)' = Queue(r),
           NEW s \in Fates \ {"live"}, fate \in [Event -> Fates], fate' = [fate EXCEPT ![e] = s]
    PROVE  Homes'
<1>1. IsInjective(Queue(q)') /\ Held(q)' = Held(q) \ {e} /\ e \in Held(q)
  BY TakenHeld
<1>2. \A r \in Ids \ {q} : e \notin Held(r)
  BY <1>1 DEF Homes, OneHome
<1>3. \A r \in Ids \ {q} : Held(r)' = Held(r)
  BY DEF Held
<1>4. Settles(e)
  BY <1>1, <1>2, <1>3 DEF Settles
<1>5. ASSUME NEW f \in Event, f # e PROVE Stays(f)
  BY <1>1, <1>3, <1>5 DEF Stays
<1>6. OneHome' /\ HomeIffLive'
  BY <1>4, <1>5, EachEventKept DEF Homes
<1>7. Distinct'
  BY <1>1, IdsNext DEF Homes, Distinct
<1> QED
  BY <1>6, <1>7 DEF Homes

\* The signal joins or leaves a queue.
LEMMA SignalMoves ==
    ASSUME Homes, NEW q \in Ids, Queue(q) \in Seq(Items), Sig \notin Event,
           \/ Sig \notin Held(q) /\ Queue(q)' = Append(Queue(q), Sig)
           \/ Queue(q) # <<>> /\ Head(Queue(q)) = Sig /\ Queue(q)' = Tail(Queue(q)),
           \A r \in Ids \ {q} : Queue(r)' = Queue(r), fate' = fate
    PROVE  Homes'
<1>1. IsInjective(Queue(q)') /\ \A f \in Event : f \in Held(q)' <=> f \in Held(q)
  <2>1. CASE Sig \notin Held(q) /\ Queue(q)' = Append(Queue(q), Sig)
    <3>1. Sig \in Items /\ Joins(Sig, q) /\ Sig \notin Held(q)
      BY <2>1 DEF Joins, Items
    <3>2. IsInjective(Queue(q)') /\ Held(q)' = Held(q) \cup {Sig}
      BY <3>1, JoinedHeld
    <3> QED
      BY <3>2
  <2>2. CASE Queue(q) # <<>> /\ Head(Queue(q)) = Sig /\ Queue(q)' = Tail(Queue(q))
    BY <2>2, TakenHeld
  <2> QED
    BY <2>1, <2>2
<1>2. \A r \in Ids \ {q} : Held(r)' = Held(r)
  BY DEF Held
<1>3. ASSUME NEW f \in Event PROVE Stays(f)
  BY <1>1, <1>2 DEF Stays
<1>4. OneHome' /\ HomeIffLive'
  BY <1>3, EachEventKept DEF Homes
<1>5. Distinct'
  BY <1>1, IdsNext DEF Homes, Distinct
<1> QED
  BY <1>4, <1>5 DEF Homes

\* The contents of queue q become those of queue p, which was empty.
LEMMA QueueMoves ==
    ASSUME Homes, NEW q \in Ids, NEW p \in Ids, p # q,
           Queue(p) = <<>>, Queue(p)' = Queue(q), Queue(q)' = <<>>,
           \A r \in Ids \ {p, q} : Queue(r)' = Queue(r), fate' = fate
    PROVE  Homes'
<1>1. /\ IsInjective(Queue(q)') /\ Held(q)' = {} /\ Held(p) = {} /\ Held(p)' = Held(q)
      /\ IsInjective(Queue(p)')
  BY EmptyQueue DEF Held, ToSet, Range, Homes, Distinct
<1>2. \A r \in Ids \ {p, q} : Held(r)' = Held(r)
  BY DEF Held
<1>3. ASSUME NEW e \in Event PROVE Stays(e) \/ MovesTo(e, p)
  <2>1. CASE e \in Held(q)
    <3>1. \A r \in Ids \ {q} : e \notin Held(r)
      BY <2>1 DEF Homes, OneHome
    <3>2. fate[e] = "live"
      BY <2>1 DEF Homes, HomeIffLive
    <3> QED
      BY <1>1, <1>2, <2>1, <3>1, <3>2 DEF MovesTo
  <2>2. CASE e \notin Held(q)
    BY <1>1, <1>2, <2>2 DEF Stays
  <2> QED
    BY <2>1, <2>2
<1>4. OneHome' /\ HomeIffLive'
  BY <1>3, EachEventKept DEF Homes
<1>5. Distinct'
  BY <1>1, IdsNext DEF Homes, Distinct
<1> QED
  BY <1>4, <1>5 DEF Homes

\* The queues in G are emptied and what they held is settled.
LEMMA QueuesSettle ==
    ASSUME Homes, NEW G \in SUBSET Ids,
           \A q \in G : Queue(q)' = <<>>, \A q \in Ids \ G : Queue(q)' = Queue(q),
           \A e \in Event : IF \E q \in G : e \in Held(q) THEN fate'[e] # "live" ELSE fate'[e] = fate[e]
    PROVE  Homes'
<1>1. \A q \in G : IsInjective(Queue(q)') /\ Held(q)' = {}
  BY EmptyQueue DEF Held, ToSet, Range
<1>2. \A q \in Ids \ G : Held(q)' = Held(q)
  BY DEF Held
<1>3. ASSUME NEW e \in Event PROVE Stays(e) \/ Settles(e)
  <2>1. CASE \E q \in G : e \in Held(q)
    <3>1. \A q \in Ids \ G : e \notin Held(q)
      BY <2>1 DEF Homes, OneHome
    <3> QED
      BY <1>1, <1>2, <2>1, <3>1 DEF Settles
  <2>2. CASE ~\E q \in G : e \in Held(q)
    BY <1>1, <1>2, <2>2 DEF Stays
  <2> QED
    BY <2>1, <2>2
<1>4. OneHome' /\ HomeIffLive'
  BY <1>3, EachEventKept DEF Homes
<1>5. Distinct'
  BY <1>1, IdsNext DEF Homes, Distinct
<1> QED
  BY <1>4, <1>5 DEF Homes

-----------------------------------------------------------------------------
(* The invariant *)

\* Where the thread of core c is tells whether it is receiving, draining,
\* or gone, and whether its actor can still run.
Control(c) ==
    /\ pc[c] \notin {"self", "mail"} => batch[c] = <<>>
    /\ pc[c] = "tick" => alive[c]
    /\ draining[c] => ~alive[c]
    /\ pc[c] = "gone" => ~alive[c]
    /\ stopped[c] => pc[c] = "gone"
    /\ pc[c] \in {"poll", "tick", "reap"} => ~draining[c]
    /\ pc[c] \in {"residual", "halt"} => draining[c]

\* A draining core works its own pipe off before it flushes the others, a flush
\* that has moved nothing has seen only empty pipes, and a core that halts leaves
\* nothing behind.
Drained(c) ==
    /\ draining[c] /\ pc[c] \in {"self", "mail", "flush", "residual", "halt"} => pipes[c][c] = <<>>
    /\ pc[c] = "flush" /\ ~any_work[c] => \A d \in Cores : d < at[c] /\ d # c => pipes[c][d] = <<>>
    /\ pc[c] \in {"halt", "gone"} => \A d \in Cores : pipes[c][d] = <<>>

\* Until a core has synthesised its signal there is none in its own pipe.
Unsignalled(c) == ~signalled[c] => Sig \notin Held(Pipe(c, c))

Swept == joined => \A c \in Cores : pc[c] = "gone" /\ \A d \in Cores : mailbox[d][c] = <<>>

\* Why an event was given up.
Excused(e) ==
    /\ fate[e] = "dropped" => qos[e] = 0
    /\ fate[e] = "discarded" => \E f \in Event : bucket_size[f] = 0 /\ fate[f] # "unborn"
    /\ fate[e] = "leaked" => MayThrow

Controlled == \A c \in Cores : Control(c) /\ Drained(c) /\ Unsignalled(c)
Justified == \A e \in Event : Excused(e)

IInv == TypeOK /\ Homes /\ Controlled /\ Swept /\ Justified

-----------------------------------------------------------------------------
(* Types *)

\* The scan over the peers stays within the cores.
LEMMA PeerBounds ==
    /\ \A c \in Cores, i \in 0 .. NbCore : Peer(c, i) \in 0 .. NbCore
    /\ \A c \in Cores, i \in 0 .. NbCore : i < NbCore => i \in Cores /\ Peer(c, i + 1) \in 0 .. NbCore
    /\ \A c \in Cores : Peer(c, 0) \in 0 .. NbCore
BY MessagingAssumption DEF Peer, Cores

\* Types of queues that grow and shrink.
LEMMA SequencesOfItems ==
    /\ \A q \in Seq(Event) : q \in Seq(Items)
    /\ \A S : \A q \in Seq(S) : q # <<>> => Tail(q) \in Seq(S) /\ Head(q) \in S
    /\ \A S : \A q \in Seq(S), e \in S : Append(q, e) \in Seq(S) /\ <<e>> \o q \in Seq(S)
    /\ \A S : <<>> \in Seq(S)
<1>1. \A q \in Seq(Event) : q \in Seq(Items)
  BY DEF Items
<1>2. \A S : \A q \in Seq(S) : q # <<>> => Tail(q) \in Seq(S) /\ Head(q) \in S
  OBVIOUS
<1>3. \A S : \A q \in Seq(S), e \in S : Append(q, e) \in Seq(S) /\ <<e>> \o q \in Seq(S)
  OBVIOUS
<1>4. \A S : <<>> \in Seq(S)
  OBVIOUS
<1> QED
  BY <1>1, <1>2, <1>3, <1>4

\* Types of the tables of queues after one of them changed.
LEMMA QueueUpdates ==
    ASSUME TypeOK, NEW c \in Cores, NEW d \in Cores
    PROVE  /\ \A q \in Seq(Items) : [pipes EXCEPT ![c][d] = q] \in [Cores -> [Cores -> Seq(Items)]]
           /\ \A q \in Seq(Event) : [mailbox EXCEPT ![c][d] = q] \in [Cores -> [Cores -> Seq(Event)]]
           /\ \A q \in Seq(Event) : [pushed EXCEPT ![c][d] = q] \in [Cores -> [Cores -> Seq(Event)]]
           /\ \A n \in Nat : [front EXCEPT ![c][d] = n] \in [Cores -> [Cores -> Nat]]
BY DEF TypeOK

\* Types of single queues.
LEMMA QueueTypes ==
    ASSUME TypeOK, NEW c \in Cores, NEW d \in Cores
    PROVE  /\ pipes[c][d] \in Seq(Items) /\ mailbox[c][d] \in Seq(Event) /\ batch[c] \in Seq(Items)
           /\ pushed[c][d] \in Seq(Event) /\ front[c][d] \in Nat
BY DEF TypeOK

\* Compaction moves the front of a pipe.
LEMMA CompactTypes ==
    ASSUME TypeOK, NEW c \in Cores, NEW d \in Cores, MayCompact(c, d)
    PROVE  front' \in [Cores -> [Cores -> Nat]]
<1>1. front \in [Cores -> [Cores -> Nat]] /\ 0 \in Nat
  BY DEF TypeOK
<1>2. [front EXCEPT ![c][d] = 0] \in [Cores -> [Cores -> Nat]]
  BY <1>1
<1>3. front' = front \/ front' = [front EXCEPT ![c][d] = 0]
  BY DEF MayCompact
<1> QED
  BY <1>1, <1>2, <1>3

\* A dispatched event keeps the types.
LEMMA DispatchTypes ==
    ASSUME TypeOK, NEW c \in Cores, NEW d \in Cores, NEW e \in Event, Dispatch(c, d, e)
    PROVE  /\ pipes' \in [Cores -> [Cores -> Seq(Items)]]
           /\ front' \in [Cores -> [Cores -> Nat]]
           /\ mailbox' \in [Cores -> [Cores -> Seq(Event)]]
<1>1. /\ pipes \in [Cores -> [Cores -> Seq(Items)]] /\ front \in [Cores -> [Cores -> Nat]]
      /\ mailbox \in [Cores -> [Cores -> Seq(Event)]]
      /\ pipes[c][d] \in Seq(Items) /\ mailbox[d][c] \in Seq(Event) /\ front[c][d] \in Nat /\ bucket_size[e] \in Nat
      /\ e \in Items
  <2>1. bucket_size[e] \in Nat /\ e \in Items
    BY MessagingAssumption DEF Items
  <2>2. /\ pipes \in [Cores -> [Cores -> Seq(Items)]] /\ front \in [Cores -> [Cores -> Nat]]
        /\ mailbox \in [Cores -> [Cores -> Seq(Event)]]
    BY DEF TypeOK
  <2> QED
    BY <2>1, <2>2, QueueTypes
<1>2. MayCompact(c, d) => front' \in [Cores -> [Cores -> Nat]]
  BY CompactTypes
<1>3. CASE d # c /\ CanSend(c, d, e)
  <2>1. mailbox' = [mailbox EXCEPT ![d][c] = Append(mailbox[d][c], e)] /\ MayCompact(c, d) /\ pipes' = pipes
    BY <1>3 DEF Dispatch, Enqueue
  <2>2. Append(mailbox[d][c], e) \in Seq(Event)
    BY <1>1, SequencesOfItems
  <2> QED
    BY <2>1, <2>2, <1>1, <1>2, QueueUpdates
<1>4. CASE ~(d # c /\ CanSend(c, d, e))
  <2>1. <<e>> \o pipes[c][d] \in Seq(Items) /\ Append(pipes[c][d], e) \in Seq(Items)
    BY <1>1, SequencesOfItems
  <2>2. CASE front[c][d] >= bucket_size[e] + 1
    <3>1. pipes' = [pipes EXCEPT ![c][d] = <<e>> \o pipes[c][d]] /\ mailbox' = mailbox
          /\ front' = [front EXCEPT ![c][d] = front[c][d] - bucket_size[e]]
      BY <1>4, <2>2 DEF Dispatch
    <3>2. front[c][d] - bucket_size[e] \in Nat
      BY <2>2, <1>1
    <3> QED
      BY <3>1, <3>2, <2>1, <1>1, QueueUpdates
  <2>3. CASE ~(front[c][d] >= bucket_size[e] + 1)
    <3>1. pipes' = [pipes EXCEPT ![c][d] = Append(pipes[c][d], e)] /\ mailbox' = mailbox /\ MayCompact(c, d)
      BY <1>4, <2>3 DEF Dispatch
    <3> QED
      BY <3>1, <2>1, <1>1, <1>2, QueueUpdates
  <2> QED
    BY <2>2, <2>3
<1> QED
  BY <1>3, <1>4

\* So does an event that is flushed or given up.
LEMMA FlushTypes ==
    ASSUME TypeOK, NEW c \in Cores, NEW e \in Event, FlushHead(c, e), FlushStep(c, e),
           mailbox' \in [Cores -> [Cores -> Seq(Event)]], fate' \in [Event -> Fates]
    PROVE  TypeOK'
<1>1. /\ at[c] \in Cores /\ pipes[c][at[c]] \in Seq(Items) /\ front[c][at[c]] + bucket_size[e] \in Nat
      /\ pipes[c][at[c]] # <<>>
  <2>1. at[c] \in 0 .. NbCore /\ at[c] < NbCore /\ pipes[c][at[c]] # <<>>
    BY DEF TypeOK, FlushHead
  <2>2. at[c] \in Cores
    BY <2>1, PeerBounds
  <2>3. pipes[c][at[c]] \in Seq(Items) /\ front[c][at[c]] \in Nat
    BY <2>2 DEF TypeOK
  <2>4. bucket_size[e] \in Nat
    BY MessagingAssumption
  <2> QED
    BY <2>1, <2>2, <2>3, <2>4
<1>2. Tail(pipes[c][at[c]]) \in Seq(Items)
  BY <1>1, SequencesOfItems
<1>3. pipes' \in [Cores -> [Cores -> Seq(Items)]] /\ front' \in [Cores -> [Cores -> Nat]]
  <2>1. /\ pipes' = [pipes EXCEPT ![c][at[c]] = Tail(pipes[c][at[c]])]
        /\ front' = [front EXCEPT ![c][at[c]] = front[c][at[c]] + bucket_size[e]]
    BY DEF FlushStep
  <2> QED
    BY <2>1, <1>1, <1>2, QueueUpdates
<1> QED
  BY <1>3 DEF TypeOK, FlushStep, engine

\* So does everything a handler does.
LEMMA ActTypes == ASSUME TypeOK, NEW c \in Cores, Act(c) PROVE TypeOK'
<1>1. CASE Push(c)
  <2>1. PICK e \in Event : /\ Creates(c, e, "push")
                           /\ pipes' = [pipes EXCEPT ![c][dest[e]] = Append(pipes[c][dest[e]], e)]
                           /\ MayCompact(c, dest[e])
                           /\ pushed' = [pushed EXCEPT ![c][dest[e]] = Append(pushed[c][dest[e]], e)]
                           /\ UNCHANGED <<thread, alive, mailbox, batch, engine, hops, handled>>
    BY <1>1 DEF Push
  <2>2. dest[e] \in Cores /\ e \in Items
    BY MessagingAssumption DEF Cores, Items
  <2>3. Append(pipes[c][dest[e]], e) \in Seq(Items) /\ Append(pushed[c][dest[e]], e) \in Seq(Event)
    <3>1. pipes[c][dest[e]] \in Seq(Items) /\ pushed[c][dest[e]] \in Seq(Event)
      BY <2>2, QueueTypes
    <3> QED
      BY <3>1, <2>2, SequencesOfItems
  <2>4. /\ pipes' \in [Cores -> [Cores -> Seq(Items)]] /\ pushed' \in [Cores -> [Cores -> Seq(Event)]]
        /\ front' \in [Cores -> [Cores -> Nat]]
    BY <2>1, <2>2, <2>3, QueueUpdates, CompactTypes
  <2>5. fate' \in [Event -> Fates]
    BY <2>1 DEF Creates, TypeOK, Fates
  <2> QED
    BY <2>1, <2>4, <2>5 DEF TypeOK, thread, engine
<1>2. CASE Send(c)
  <2>1. PICK e \in Event : /\ Creates(c, e, "send") /\ Dispatch(c, dest[e], e)
                           /\ UNCHANGED <<thread, alive, batch, engine, hops, pushed, handled>>
    BY <1>2 DEF Send
  <2>2. dest[e] \in Cores
    BY MessagingAssumption DEF Cores
  <2>3. fate' \in [Event -> Fates]
    BY <2>1 DEF Creates, TypeOK, Fates
  <2> QED
    BY <2>1, <2>2, <2>3, DispatchTypes DEF TypeOK, thread, engine
<1>3. ASSUME NEW d \in Cores, Relay(c, d) PROVE TypeOK'
  <2>1. PICK e \in Event : /\ Incoming(c, e) /\ hops[e] < MaxHops[e] /\ PopBatch(c)
                           /\ handled' = [handled EXCEPT ![c] = Append(@, e)]
                           /\ hops' = [hops EXCEPT ![e] = @ + 1]
                           /\ Dispatch(c, d, e)
                           /\ UNCHANGED <<thread, alive, engine, fate, pushed>>
    BY <1>3 DEF Relay
  <2>2. batch' \in [Cores -> Seq(Items)] /\ handled' \in [Cores -> Seq(Event)]
    BY <2>1, SequencesOfItems DEF Incoming, PopBatch, TypeOK
  <2>3. hops' \in [Event -> Nat] /\ \A f \in Event : hops'[f] <= MaxHops[f]
    <3>1. hops \in [Event -> Nat] /\ (\A f \in Event : hops[f] <= MaxHops[f]) /\ MaxHops[e] \in Nat
      BY MessagingAssumption DEF TypeOK
    <3>2. hops[e] + 1 \in Nat /\ hops[e] + 1 <= MaxHops[e] /\ hops' = [hops EXCEPT ![e] = hops[e] + 1]
      BY <2>1, <3>1
    <3> QED
      BY <3>1, <3>2
  <2> QED
    BY <2>1, <2>2, <2>3, DispatchTypes DEF TypeOK, thread, engine
<1> QED
  BY <1>1, <1>2, <1>3 DEF Act

\* And every step of a core's loop.
LEMMA WorkTypes == ASSUME TypeOK, NEW c \in Cores, Work(c) PROVE TypeOK'
<1>0. at[c] \in 0 .. NbCore /\ (at[c] < NbCore => at[c] \in Cores)
  BY PeerBounds DEF TypeOK
<1>1. CASE Poll(c)
  <2>1. Sig \in Items /\ Append(pipes[c][c], Sig) \in Seq(Items)
    BY SequencesOfItems DEF TypeOK, Items
  <2>2. pipes' \in [Cores -> [Cores -> Seq(Items)]] /\ signalled' \in [Cores -> BOOLEAN]
    <3>1. CASE stop /\ ~signalled[c]
      <4>1. pipes' = [pipes EXCEPT ![c][c] = Append(pipes[c][c], Sig)] /\ signalled' = [signalled EXCEPT ![c] = TRUE]
        BY <1>1, <3>1 DEF Poll
      <4>2. signalled' \in [Cores -> BOOLEAN]
        BY <4>1 DEF TypeOK
      <4> QED
        BY <4>1, <4>2, <2>1, QueueUpdates
    <3>2. CASE ~(stop /\ ~signalled[c])
      BY <1>1, <3>2 DEF Poll, TypeOK
    <3> QED
      BY <3>1, <3>2
  <2>3. at' \in [Cores -> 0 .. NbCore] /\ any_work' \in [Cores -> BOOLEAN]
    BY <1>1, PeerBounds DEF Poll, TypeOK
  <2> QED
    BY <1>1, <2>2, <2>3 DEF Poll, Goto, TypeOK, history
<1>2. CASE FlushNextPipe(c)
  <2>1. at' \in [Cores -> 0 .. NbCore]
    BY <1>2, PeerBounds DEF FlushNextPipe, TypeOK
  <2>2. front' \in [Cores -> [Cores -> Nat]]
    BY <1>2, <1>0, QueueUpdates DEF FlushNextPipe
  <2> QED
    BY <1>2, <2>1, <2>2 DEF FlushNextPipe, TypeOK, engine, history
<1>3. CASE FlushSend(c)
  <2>1. PICK e \in Event : /\ FlushHead(c, e) /\ FlushStep(c, e) /\ fate' = fate
                           /\ mailbox' = [mailbox EXCEPT ![at[c]][c] = Append(mailbox[at[c]][c], e)]
    BY <1>3 DEF FlushSend, Enqueue
  <2>2. at[c] \in Cores
    BY <2>1, <1>0 DEF FlushHead
  <2>3. Append(mailbox[at[c]][c], e) \in Seq(Event)
    BY <2>2, SequencesOfItems DEF TypeOK
  <2>4. mailbox' \in [Cores -> [Cores -> Seq(Event)]]
    BY <2>1, <2>2, <2>3, QueueUpdates
  <2> QED
    BY <2>1, <2>4, FlushTypes DEF TypeOK
<1>4. CASE FlushOversize(c) \/ FlushDrop(c)
  <2>1. PICK e \in Event : /\ FlushHead(c, e) /\ FlushStep(c, e) /\ mailbox' = mailbox
                           /\ fate' = [fate EXCEPT ![e] = "disposed"] \/ fate' = [fate EXCEPT ![e] = "dropped"]
    BY <1>4 DEF FlushOversize, FlushDrop
  <2>2. fate' \in [Event -> Fates]
    BY <2>1 DEF TypeOK, Fates
  <2> QED
    BY <2>1, <2>2, FlushTypes DEF TypeOK
<1>5. CASE FlushMalformed(c)
  <2>1. at[c] \in Cores
    BY <1>5, <1>0 DEF FlushMalformed, FlushHead
  <2>2. pipes' \in [Cores -> [Cores -> Seq(Items)]]
    <3>1. <<>> \in Seq(Items) /\ pipes' = [pipes EXCEPT ![c][at[c]] = <<>>]
      BY <1>5, SequencesOfItems DEF FlushMalformed
    <3> QED
      BY <3>1, <2>1, QueueUpdates
  <2>3. fate' \in [Event -> Fates] /\ any_work' \in [Cores -> BOOLEAN]
    BY <1>5 DEF FlushMalformed, TypeOK, Fates
  <2> QED
    BY <1>5, <2>2, <2>3 DEF FlushMalformed, TypeOK, engine
<1>6. CASE FlushGiveUp(c)
  <2>1. at' \in [Cores -> 0 .. NbCore]
    BY <1>6, PeerBounds DEF FlushGiveUp, FlushHead, TypeOK
  <2> QED
    BY <1>6, <2>1 DEF FlushGiveUp, TypeOK, queues, engine, history
<1>7. CASE FlushEnd(c)
  BY <1>7 DEF FlushEnd, Goto, TypeOK, queues, engine, history
<1>8. CASE SwapOwnPipe(c)
  <2>1. pipes' \in [Cores -> [Cores -> Seq(Items)]]
    BY <1>8, QueueUpdates, SequencesOfItems DEF SwapOwnPipe
  <2> QED
    BY <1>8, <2>1 DEF SwapOwnPipe, Goto, TypeOK, engine, history
<1>9. CASE OwnPipeDone(c)
  BY <1>9, PeerBounds DEF OwnPipeDone, Goto, TypeOK, queues, engine, history
<1>10. CASE NextRing(c)
  <2>1. mailbox' \in [Cores -> [Cores -> Seq(Event)]]
    BY <1>10, <1>0, QueueUpdates, SequencesOfItems DEF NextRing
  <2>2. mailbox[c][at[c]] \in Seq(Items)
    BY <1>10, <1>0, SequencesOfItems DEF NextRing, TypeOK
  <2>3. batch' \in [Cores -> Seq(Items)] /\ at' \in [Cores -> 0 .. NbCore]
    BY <1>10, <2>2, PeerBounds DEF NextRing, TypeOK
  <2> QED
    BY <1>10, <2>1, <2>3 DEF NextRing, TypeOK, engine, history
<1>11. CASE ReceiveEnd(c)
  BY <1>11, PeerBounds DEF ReceiveEnd, Goto, TypeOK, queues, engine, history
<1>12. ASSUME NEW e \in Items, Incoming(c, e), PopBatch(c) PROVE batch' \in [Cores -> Seq(Items)]
  BY <1>12, SequencesOfItems DEF Incoming, PopBatch, TypeOK
<1>13. CASE HandleEvent(c)
  <2>1. PICK e \in Event, killed \in BOOLEAN :
            /\ Incoming(c, e) /\ PopBatch(c)
            /\ handled' = [handled EXCEPT ![c] = Append(@, e)]
            /\ fate' = [fate EXCEPT ![e] = "handled"]
            /\ alive' = [alive EXCEPT ![c] = ~killed]
            /\ UNCHANGED <<thread, pipes, front, mailbox, engine, hops, pushed>>
    BY <1>13 DEF HandleEvent
  <2>2. batch' \in [Cores -> Seq(Items)]
    BY <2>1, <1>12 DEF Items
  <2>3. handled' \in [Cores -> Seq(Event)] /\ fate' \in [Event -> Fates] /\ alive' \in [Cores -> BOOLEAN]
    BY <2>1, SequencesOfItems DEF TypeOK, Fates
  <2> QED
    BY <2>1, <2>2, <2>3 DEF TypeOK, thread, engine
<1>14. CASE RouteNowhere(c)
  <2>1. PICK e \in Event : Incoming(c, e) /\ PopBatch(c) /\ fate' = [fate EXCEPT ![e] = "disposed"]
    BY <1>14 DEF RouteNowhere
  <2>2. batch' \in [Cores -> Seq(Items)]
    BY <2>1, <1>12 DEF Items
  <2>3. fate' \in [Event -> Fates]
    BY <2>1 DEF TypeOK, Fates
  <2> QED
    BY <1>14, <2>2, <2>3 DEF RouteNowhere, TypeOK, thread, engine
<1>15. CASE AbortBatch(c)
  BY <1>15, SequencesOfItems DEF AbortBatch, TypeOK, Fates, thread, engine
<1>16. CASE HandleSignal(c)
  <2>1. batch' \in [Cores -> Seq(Items)]
    BY <1>16, <1>12 DEF HandleSignal, Items
  <2> QED
    BY <1>16, <2>1 DEF HandleSignal, TypeOK, thread, engine, history
<1>17. CASE Tick(c)
  BY <1>17 DEF Tick, Goto, TypeOK, queues, engine, history
<1>18. CASE Reap(c)
  BY <1>18 DEF Reap, Goto, TypeOK, queues, engine, history
<1>19. CASE Residual(c)
  <2>1. pipes' \in [Cores -> [Cores -> Seq(Items)]] /\ front' \in [Cores -> [Cores -> Nat]]
    <3> DEFINE gone == {d \in Cores \ {c} : stopped[d]}
               left == [d \in Cores |-> IF d \in gone THEN <<>> ELSE pipes[c][d]]
               room == [d \in Cores |-> IF d \in gone THEN 0 ELSE front[c][d]]
    <3>1. pipes' = [pipes EXCEPT ![c] = left] /\ front' = [front EXCEPT ![c] = room]
      BY <1>19 DEF Residual
    <3>2. left \in [Cores -> Seq(Items)] /\ room \in [Cores -> Nat]
      BY SequencesOfItems DEF TypeOK
    <3> HIDE DEF left, room
    <3> QED
      BY <3>1, <3>2 DEF TypeOK
  <2>2. fate' \in [Event -> Fates] /\ pc' \in [Cores -> {"poll", "flush", "swap", "self", "mail", "tick", "reap",
                        "residual", "halt", "gone"}]
    BY <1>19 DEF Residual, TypeOK, Fates, Goto
  <2> QED
    BY <1>19, <2>1, <2>2 DEF Residual, TypeOK, engine
<1>20. CASE Halt(c)
  BY <1>20 DEF Halt, Goto, TypeOK, queues, history
<1> QED
  BY <1>1, <1>2, <1>3, <1>4, <1>5, <1>6, <1>7, <1>8, <1>9, <1>10, <1>11, <1>13, <1>14, <1>15, <1>16,
     <1>17, <1>18, <1>19, <1>20 DEF Work

\* Every step keeps the types.
LEMMA TypeStep == ASSUME TypeOK, Next PROVE TypeOK'
<1>1. CASE Stop
  BY <1>1 DEF TypeOK, Stop, thread, queues, history
<1>2. CASE Join
  BY <1>2, SequencesOfItems DEF TypeOK, Join, thread, Fates
<1>3. ASSUME NEW c \in Cores, Throw(c) PROVE TypeOK'
  <2>1. pipes' \in [Cores -> [Cores -> Seq(Items)]]
    BY <1>3, SequencesOfItems DEF Throw, TypeOK
  <2> QED
    BY <1>3, <2>1 DEF TypeOK, Throw, Goto, Fates
<1> QED
  BY <1>1, <1>2, <1>3, WorkTypes, ActTypes DEF Next

-----------------------------------------------------------------------------
(* Every step moves events from one home to another *)

\* The queues outside S are as they were, kind by kind.
PipesKept(S) == \A x, y \in Cores : Pipe(x, y) \in S \/ pipes'[x][y] = pipes[x][y]
RingsKept(S) == \A x, y \in Cores : Ring(x, y) \in S \/ mailbox'[y][x] = mailbox[y][x]
BatchesKept(S) == \A x \in Cores : Batch(x) \in S \/ batch'[x] = batch[x]

\* Queues that no update names are as they were.
LEMMA OthersKept ==
    ASSUME NEW S, PipesKept(S), RingsKept(S), BatchesKept(S)
    PROVE  \A r \in Ids \ S : Queue(r)' = Queue(r)
<1> SUFFICES ASSUME NEW r \in Ids \ S PROVE Queue(r)' = Queue(r)
  OBVIOUS
<1>1. ASSUME NEW d \in Cores, r = Batch(d) PROVE Queue(r)' = Queue(r)
  BY <1>1, QueueContents, QueueContentsNext DEF BatchesKept
<1>2. ASSUME NEW c \in Cores, NEW d \in Cores, r = Pipe(c, d) PROVE Queue(r)' = Queue(r)
  BY <1>2, QueueContents, QueueContentsNext DEF PipesKept
<1>3. ASSUME NEW c \in Cores, NEW d \in Cores, r = Ring(c, d) PROVE Queue(r)' = Queue(r)
  BY <1>3, QueueContents, QueueContentsNext DEF RingsKept
<1> QED
  BY <1>1, <1>2, <1>3, QueueNames

\* Every queue is a sequence of items.
LEMMA QueuesHoldItems == ASSUME TypeOK PROVE \A q \in Ids : Queue(q) \in Seq(Items)
<1>1. \A c, d \in Cores : /\ Queue(Batch(d)) \in Seq(Items) /\ Queue(Pipe(c, d)) \in Seq(Items)
                          /\ Queue(Ring(c, d)) \in Seq(Items)
  BY QueueContents, QueueTypes, SequencesOfItems
<1> QED
  BY <1>1, QueueNames

\* An update of one pipe.
LEMMA PipeUpdated ==
    ASSUME TypeOK, NEW c \in Cores, NEW d \in Cores, NEW v, pipes' = [pipes EXCEPT ![c][d] = v]
    PROVE  pipes'[c][d] = v /\ Queue(Pipe(c, d))' = v /\ PipesKept({Pipe(c, d)})
<1>1. pipes'[c][d] = v /\ \A x, y \in Cores : x # c \/ y # d => pipes'[x][y] = pipes[x][y]
  BY DEF TypeOK
<1> QED
  BY <1>1, QueueContentsNext DEF PipesKept

\* An update of one ring.
LEMMA RingUpdated ==
    ASSUME TypeOK, NEW c \in Cores, NEW d \in Cores, NEW v, mailbox' = [mailbox EXCEPT ![d][c] = v]
    PROVE  mailbox'[d][c] = v /\ Queue(Ring(c, d))' = v /\ RingsKept({Ring(c, d)})
<1>1. mailbox'[d][c] = v /\ \A x, y \in Cores : x # c \/ y # d => mailbox'[y][x] = mailbox[y][x]
  BY DEF TypeOK
<1> QED
  BY <1>1, QueueContentsNext DEF RingsKept

\* An update of one batch.
LEMMA BatchUpdated ==
    ASSUME TypeOK, NEW c \in Cores, NEW v, batch' = [batch EXCEPT ![c] = v]
    PROVE  batch'[c] = v /\ Queue(Batch(c))' = v /\ BatchesKept({Batch(c)})
<1>1. batch'[c] = v /\ \A x \in Cores : x # c => batch'[x] = batch[x]
  BY DEF TypeOK
<1> QED
  BY <1>1, QueueContentsNext DEF BatchesKept

\* A larger set of exceptions says less.
LEMMA KeptMore ==
    ASSUME NEW S, NEW R, S \subseteq R
    PROVE  /\ PipesKept(S) => PipesKept(R)
           /\ RingsKept(S) => RingsKept(R)
           /\ BatchesKept(S) => BatchesKept(R)
BY DEF PipesKept, RingsKept, BatchesKept

\* No update at all.
LEMMA KeptUnchanged ==
    /\ pipes' = pipes => \A S : PipesKept(S)
    /\ mailbox' = mailbox => \A S : RingsKept(S)
    /\ batch' = batch => \A S : BatchesKept(S)
BY DEF PipesKept, RingsKept, BatchesKept

\* A dispatched event joins the pipe or the ring to its destination.
LEMMA DispatchJoins ==
    ASSUME TypeOK, NEW c \in Cores, NEW d \in Cores, NEW e \in Event, Dispatch(c, d, e)
    PROVE  \E p \in {Pipe(c, d), Ring(c, d)} : Joins(e, p) /\ PipesKept({p}) /\ RingsKept({p})
<1>1. CASE d # c /\ CanSend(c, d, e)
  <2>1. mailbox' = [mailbox EXCEPT ![d][c] = Append(mailbox[d][c], e)] /\ pipes' = pipes
    BY <1>1 DEF Dispatch, Enqueue
  <2>2. Queue(Ring(c, d))' = Append(mailbox[d][c], e) /\ RingsKept({Ring(c, d)})
    BY <2>1, RingUpdated
  <2>3. Joins(e, Ring(c, d)) /\ PipesKept({Ring(c, d)})
    BY <2>1, <2>2, KeptUnchanged, QueueContents DEF Joins
  <2> QED
    BY <2>2, <2>3
<1>2. CASE ~(d # c /\ CanSend(c, d, e))
  <2>1. PICK v : pipes' = [pipes EXCEPT ![c][d] = v] /\ (v = <<e>> \o pipes[c][d] \/ v = Append(pipes[c][d], e))
    BY <1>2 DEF Dispatch
  <2>2. mailbox' = mailbox
    BY <1>2 DEF Dispatch
  <2>3. Queue(Pipe(c, d))' = v /\ PipesKept({Pipe(c, d)})
    BY <2>1, PipeUpdated
  <2>4. Joins(e, Pipe(c, d)) /\ RingsKept({Pipe(c, d)})
    BY <2>1, <2>2, <2>3, KeptUnchanged, QueueContents DEF Joins
  <2> QED
    BY <2>3, <2>4
<1> QED
  BY <1>1, <1>2

\* What a handler pushes, sends or signals gets one home.
LEMMA ActHomes == ASSUME TypeOK, Homes, NEW c \in Cores, Act(c) PROVE Homes'
<1>0. \A e \in Event : dest[e] \in Cores
  BY MessagingAssumption DEF Cores
<1>1. CASE Push(c)
  <2>1. PICK e \in Event, d \in Cores : /\ Creates(c, e, "push")
                                       /\ pipes' = [pipes EXCEPT ![c][d] = Append(pipes[c][d], e)]
                                       /\ mailbox' = mailbox /\ batch' = batch
    BY <1>1, <1>0 DEF Push
  <2> DEFINE p == Pipe(c, d)
  <2>2. Queue(p)' = Append(pipes[c][d], e) /\ PipesKept({p})
    BY <2>1, PipeUpdated
  <2>3. p \in Ids /\ Queue(p) \in Seq(Items)
    BY QueueNames, QueuesHoldItems
  <2>4. Joins(e, p)
    BY <2>2, QueueContents DEF Joins
  <2>5. \A r \in Ids \ {p} : Queue(r)' = Queue(r)
    BY <2>1, <2>2, KeptUnchanged, OthersKept
  <2>6. fate \in [Event -> Fates] /\ fate[e] = "unborn" /\ fate' = [fate EXCEPT ![e] = "live"]
    BY <2>1 DEF Creates, TypeOK
  <2> HIDE DEF p
  <2> QED
    BY <2>3, <2>4, <2>5, <2>6, NewEvent
<1>2. CASE Send(c)
  <2>1. PICK e \in Event : Creates(c, e, "send") /\ Dispatch(c, dest[e], e) /\ batch' = batch
    BY <1>2 DEF Send
  <2>2. PICK p \in {Pipe(c, dest[e]), Ring(c, dest[e])} : Joins(e, p) /\ PipesKept({p}) /\ RingsKept({p})
    BY <2>1, <1>0, DispatchJoins
  <2>3. p \in Ids /\ Queue(p) \in Seq(Items)
    BY <1>0, QueueNames, QueuesHoldItems
  <2>4. \A r \in Ids \ {p} : Queue(r)' = Queue(r)
    BY <2>1, <2>2, KeptUnchanged, OthersKept
  <2>5. fate \in [Event -> Fates] /\ fate[e] = "unborn" /\ fate' = [fate EXCEPT ![e] = "live"]
    BY <2>1 DEF Creates, TypeOK
  <2> QED
    BY <2>2, <2>3, <2>4, <2>5, NewEvent
<1>3. ASSUME NEW d \in Cores, Relay(c, d) PROVE Homes'
  <2>1. PICK e \in Event : /\ Incoming(c, e) /\ PopBatch(c) /\ Dispatch(c, d, e) /\ fate' = fate
    BY <1>3 DEF Relay
  <2>2. PICK p \in {Pipe(c, d), Ring(c, d)} : Joins(e, p) /\ PipesKept({p}) /\ RingsKept({p})
    BY <2>1, DispatchJoins
  <2> DEFINE q == Batch(c)
  <2>3. p \in Ids /\ q \in Ids /\ p # q /\ Queue(p) \in Seq(Items) /\ Queue(q) \in Seq(Items)
    BY QueueNames, QueuesHoldItems
  <2>4. Queue(q) # <<>> /\ e = Head(Queue(q)) /\ Queue(q)' = Tail(Queue(q)) /\ BatchesKept({q})
    BY <2>1, BatchUpdated, QueueContents DEF Incoming, PopBatch
  <2>5. \A r \in Ids \ {p, q} : Queue(r)' = Queue(r)
    <3>1. {p} \subseteq {p, q} /\ {q} \subseteq {p, q}
      OBVIOUS
    <3> HIDE DEF q
    <3> QED
      BY <2>2, <2>4, <3>1, KeptMore, OthersKept
  <2> HIDE DEF q
  <2> QED
    BY <2>1, <2>2, <2>3, <2>4, <2>5, HeadMoves
<1> QED
  BY <1>1, <1>2, <1>3 DEF Act

\* The head of the pipe being flushed leaves it.
LEMMA FlushHomes ==
    ASSUME TypeOK, NEW c \in Cores, NEW e \in Event, FlushHead(c, e), FlushStep(c, e)
    PROVE  \E d \in Cores :
              /\ d = at[c] /\ Pipe(c, d) \in Ids /\ Queue(Pipe(c, d)) \in Seq(Items)
              /\ Queue(Pipe(c, d)) # <<>> /\ e = Head(Queue(Pipe(c, d)))
              /\ Queue(Pipe(c, d))' = Tail(Queue(Pipe(c, d)))
              /\ PipesKept({Pipe(c, d)}) /\ BatchesKept({Pipe(c, d)})
<1>1. at[c] \in Cores
  BY PeerBounds DEF TypeOK, FlushHead
<1>2. PICK d \in Cores : d = at[c]
  BY <1>1
<1>3. pipes' = [pipes EXCEPT ![c][d] = Tail(pipes[c][d])] /\ batch' = batch
  BY <1>2 DEF FlushStep
<1>4. Queue(Pipe(c, d))' = Tail(pipes[c][d]) /\ PipesKept({Pipe(c, d)})
  BY <1>3, PipeUpdated
<1>5. Queue(Pipe(c, d)) = pipes[c][d] /\ pipes[c][d] # <<>> /\ e = Head(pipes[c][d])
  BY <1>2, QueueContents DEF FlushHead
<1>6. Pipe(c, d) \in Ids /\ Queue(Pipe(c, d)) \in Seq(Items) /\ BatchesKept({Pipe(c, d)})
  BY <1>3, QueueNames, QueuesHoldItems, KeptUnchanged
<1> QED
  BY <1>1, <1>2, <1>4, <1>5, <1>6

\* The head of the batch leaves it.
LEMMA BatchHomes ==
    ASSUME TypeOK, NEW c \in Cores, NEW e \in Items, Incoming(c, e), PopBatch(c),
           pipes' = pipes, mailbox' = mailbox
    PROVE  /\ Batch(c) \in Ids /\ Queue(Batch(c)) \in Seq(Items) /\ Queue(Batch(c)) # <<>>
           /\ e = Head(Queue(Batch(c))) /\ Queue(Batch(c))' = Tail(Queue(Batch(c)))
           /\ \A r \in Ids \ {Batch(c)} : Queue(r)' = Queue(r)
<1>1. batch' = [batch EXCEPT ![c] = Tail(batch[c])]
  BY DEF PopBatch
<1>2. Queue(Batch(c))' = Tail(batch[c]) /\ BatchesKept({Batch(c)})
  BY <1>1, BatchUpdated
<1>3. Queue(Batch(c)) = batch[c] /\ batch[c] # <<>> /\ e = Head(batch[c])
  BY QueueContents DEF Incoming
<1>4. Batch(c) \in Ids /\ Queue(Batch(c)) \in Seq(Items)
  BY QueueNames, QueuesHoldItems
<1>5. \A r \in Ids \ {Batch(c)} : Queue(r)' = Queue(r)
  BY <1>2, KeptUnchanged, OthersKept
<1> QED
  BY <1>2, <1>3, <1>4, <1>5

\* A core's loop moves each event from one home to the next, or settles it.
LEMMA WorkHomes == ASSUME TypeOK, Homes, Controlled, NEW c \in Cores, Work(c) PROVE Homes'
<1>1. CASE Poll(c)
  <2>1. CASE stop /\ ~signalled[c]
    <3> DEFINE q == Pipe(c, c)
    <3>1. /\ pipes' = [pipes EXCEPT ![c][c] = Append(pipes[c][c], Sig)]
          /\ mailbox' = mailbox /\ batch' = batch /\ fate' = fate
      BY <1>1, <2>1 DEF Poll, history
    <3>2. Queue(q)' = Append(Queue(q), Sig) /\ PipesKept({q})
      <4>1. Queue(q)' = Append(pipes[c][c], Sig) /\ PipesKept({q})
        BY <3>1, PipeUpdated
      <4> QED
        BY <4>1, QueueContents
    <3>3. q \in Ids /\ Queue(q) \in Seq(Items)
      BY QueueNames, QueuesHoldItems
    <3>4. Sig \notin Held(q) /\ Sig \notin Event
      BY <2>1, MessagingAssumption DEF Controlled, Unsignalled
    <3>5. \A r \in Ids \ {q} : Queue(r)' = Queue(r)
      BY <3>1, <3>2, KeptUnchanged, OthersKept
    <3> HIDE DEF q
    <3> QED
      BY <3>1, <3>2, <3>3, <3>4, <3>5, SignalMoves
  <2>2. CASE ~(stop /\ ~signalled[c])
    BY <1>1, <2>2, NothingMoves DEF Poll, history
  <2> QED
    BY <2>1, <2>2
<1>2. CASE \/ FlushNextPipe(c) \/ FlushGiveUp(c) \/ FlushEnd(c) \/ OwnPipeDone(c) \/ ReceiveEnd(c)
           \/ Tick(c) \/ Reap(c) \/ Halt(c)
  <2>1. UNCHANGED <<pipes, mailbox, batch, fate>>
    BY <1>2 DEF FlushNextPipe, FlushGiveUp, FlushEnd, OwnPipeDone, ReceiveEnd, Tick, Reap, Halt, queues, history
  <2> QED
    BY <2>1, NothingMoves
<1>3. CASE FlushSend(c)
  <2>1. PICK e \in Event : /\ FlushHead(c, e) /\ FlushStep(c, e) /\ fate' = fate
                           /\ mailbox' = [mailbox EXCEPT ![at[c]][c] = Append(mailbox[at[c]][c], e)]
    BY <1>3 DEF FlushSend, Enqueue
  <2>2. PICK d \in Cores :
            /\ d = at[c] /\ Pipe(c, d) \in Ids /\ Queue(Pipe(c, d)) \in Seq(Items)
            /\ Queue(Pipe(c, d)) # <<>> /\ e = Head(Queue(Pipe(c, d)))
            /\ Queue(Pipe(c, d))' = Tail(Queue(Pipe(c, d)))
            /\ PipesKept({Pipe(c, d)}) /\ BatchesKept({Pipe(c, d)})
    BY <2>1, FlushHomes
  <2> DEFINE q == Pipe(c, d)
             p == Ring(c, d)
  <2>3. /\ q \in Ids /\ Queue(q) \in Seq(Items) /\ Queue(q) # <<>> /\ e = Head(Queue(q))
        /\ Queue(q)' = Tail(Queue(q)) /\ PipesKept({q}) /\ BatchesKept({q})
    BY <2>2
  <2>4. p \in Ids /\ p # q /\ Queue(p) \in Seq(Items)
    BY QueueNames, QueuesHoldItems
  <2>5. Joins(e, p) /\ RingsKept({p})
    <3>1. mailbox' = [mailbox EXCEPT ![d][c] = Append(mailbox[d][c], e)]
      BY <2>1, <2>2
    <3>2. Queue(p)' = Append(mailbox[d][c], e) /\ RingsKept({p})
      BY <3>1, RingUpdated
    <3> QED
      BY <3>2, QueueContents DEF Joins
  <2>6. \A r \in Ids \ {p, q} : Queue(r)' = Queue(r)
    <3>1. {p} \subseteq {p, q} /\ {q} \subseteq {p, q}
      OBVIOUS
    <3> HIDE DEF p, q
    <3> QED
      BY <2>3, <2>5, <3>1, KeptMore, OthersKept
  <2> HIDE DEF p, q
  <2> QED
    BY <2>1, <2>3, <2>4, <2>5, <2>6, HeadMoves
<1>4. CASE FlushOversize(c) \/ FlushDrop(c)
  <2>1. PICK e \in Event, s \in {"disposed", "dropped"} :
            FlushHead(c, e) /\ FlushStep(c, e) /\ mailbox' = mailbox /\ fate' = [fate EXCEPT ![e] = s]
    BY <1>4 DEF FlushOversize, FlushDrop
  <2>2. PICK q \in Ids :
            /\ Queue(q) \in Seq(Items) /\ Queue(q) # <<>> /\ e = Head(Queue(q))
            /\ Queue(q)' = Tail(Queue(q)) /\ PipesKept({q}) /\ BatchesKept({q})
    BY <2>1, FlushHomes
  <2>3. \A r \in Ids \ {q} : Queue(r)' = Queue(r)
    BY <2>1, <2>2, KeptUnchanged, OthersKept
  <2>4. s \in Fates \ {"live"} /\ fate \in [Event -> Fates]
    BY DEF Fates, TypeOK
  <2> QED
    BY <2>1, <2>2, <2>3, <2>4, HeadSettles
<1>5. CASE FlushMalformed(c)
  <2>1. PICK d \in Cores : d = at[c]
    BY <1>5, PeerBounds DEF FlushMalformed, FlushHead, TypeOK
  <2> DEFINE q == Pipe(c, d)
  <2>2. pipes' = [pipes EXCEPT ![c][d] = <<>>] /\ mailbox' = mailbox /\ batch' = batch
    BY <1>5, <2>1 DEF FlushMalformed
  <2>3. q \in Ids /\ Queue(q)' = <<>> /\ PipesKept({q}) /\ Held(q) = ToSet(pipes[c][d])
    BY <2>2, PipeUpdated, QueueNames, QueueContents DEF Held
  <2>4. \A r \in Ids \ {q} : Queue(r)' = Queue(r)
    BY <2>2, <2>3, KeptUnchanged, OthersKept
  <2>5. \A e \in Event : IF e \in Held(q) THEN fate'[e] # "live" ELSE fate'[e] = fate[e]
    BY <1>5, <2>1, <2>3 DEF FlushMalformed
  <2> HIDE DEF q
  <2> DEFINE G == {q}
  <2>6. G \in SUBSET Ids /\ (\A r \in G : Queue(r)' = <<>>) /\ (\A r \in Ids \ G : Queue(r)' = Queue(r))
    BY <2>3, <2>4
  <2>7. \A e \in Event : IF \E r \in G : e \in Held(r) THEN fate'[e] # "live" ELSE fate'[e] = fate[e]
    BY <2>5
  <2> HIDE DEF G
  <2> QED
    BY <2>6, <2>7, QueuesSettle
<1>6. CASE SwapOwnPipe(c)
  <2> DEFINE q == Pipe(c, c)
             p == Batch(c)
  <2>1. /\ batch' = [batch EXCEPT ![c] = pipes[c][c]] /\ pipes' = [pipes EXCEPT ![c][c] = <<>>]
        /\ mailbox' = mailbox /\ fate' = fate /\ batch[c] = <<>>
    BY <1>6 DEF SwapOwnPipe, Controlled, Control, history
  <2>2. p \in Ids /\ q \in Ids /\ p # q
    BY QueueNames
  <2>3. Queue(q)' = <<>> /\ Queue(p)' = Queue(q) /\ Queue(p) = <<>> /\ PipesKept({q}) /\ BatchesKept({p})
    <3>1. Queue(q)' = <<>> /\ PipesKept({q})
      BY <2>1, PipeUpdated
    <3>2. Queue(p)' = pipes[c][c] /\ BatchesKept({p})
      BY <2>1, BatchUpdated
    <3> QED
      BY <2>1, <3>1, <3>2, QueueContents
  <2>4. \A r \in Ids \ {p, q} : Queue(r)' = Queue(r)
    <3>1. {p} \subseteq {p, q} /\ {q} \subseteq {p, q}
      OBVIOUS
    <3> HIDE DEF p, q
    <3> QED
      BY <2>1, <2>3, <3>1, KeptMore, KeptUnchanged, OthersKept
  <2> HIDE DEF p, q
  <2> QED
    BY <2>1, <2>2, <2>3, <2>4, QueueMoves
<1>7. CASE NextRing(c)
  <2>1. PICK d \in Cores : d = at[c]
    BY <1>7, PeerBounds DEF NextRing, TypeOK
  <2> DEFINE q == Ring(d, c)
             p == Batch(c)
  <2>2. /\ batch' = [batch EXCEPT ![c] = mailbox[c][d]] /\ mailbox' = [mailbox EXCEPT ![c][d] = <<>>]
        /\ pipes' = pipes /\ fate' = fate /\ batch[c] = <<>>
    BY <1>7, <2>1 DEF NextRing, history
  <2>3. p \in Ids /\ q \in Ids /\ p # q
    BY QueueNames
  <2>4. Queue(q)' = <<>> /\ Queue(p)' = Queue(q) /\ Queue(p) = <<>> /\ RingsKept({q}) /\ BatchesKept({p})
    <3>1. Queue(q)' = <<>> /\ RingsKept({q})
      BY <2>2, RingUpdated
    <3>2. Queue(p)' = mailbox[c][d] /\ BatchesKept({p})
      BY <2>2, BatchUpdated
    <3> QED
      BY <2>2, <3>1, <3>2, QueueContents
  <2>5. \A r \in Ids \ {p, q} : Queue(r)' = Queue(r)
    <3>1. {p} \subseteq {p, q} /\ {q} \subseteq {p, q}
      OBVIOUS
    <3> HIDE DEF p, q
    <3> QED
      BY <2>2, <2>4, <3>1, KeptMore, KeptUnchanged, OthersKept
  <2> HIDE DEF p, q
  <2> QED
    BY <2>2, <2>3, <2>4, <2>5, QueueMoves
<1>8. CASE HandleEvent(c) \/ RouteNowhere(c)
  <2>1. PICK e \in Event, s \in {"handled", "disposed"} :
            /\ Incoming(c, e) /\ PopBatch(c) /\ pipes' = pipes /\ mailbox' = mailbox
            /\ fate' = [fate EXCEPT ![e] = s]
    BY <1>8 DEF HandleEvent, RouteNowhere
  <2> DEFINE q == Batch(c)
  <2>2. e \in Items /\ s \in Fates \ {"live"} /\ fate \in [Event -> Fates]
    BY DEF Items, Fates, TypeOK
  <2>3. /\ q \in Ids /\ Queue(q) \in Seq(Items) /\ Queue(q) # <<>> /\ e = Head(Queue(q))
        /\ Queue(q)' = Tail(Queue(q)) /\ \A r \in Ids \ {q} : Queue(r)' = Queue(r)
    BY <2>1, <2>2, BatchHomes
  <2> HIDE DEF q
  <2> QED
    BY <2>1, <2>2, <2>3, HeadSettles
<1>9. CASE AbortBatch(c)
  <2> DEFINE q == Batch(c)
  <2>1. batch' = [batch EXCEPT ![c] = <<>>] /\ mailbox' = mailbox /\ pipes' = pipes
    BY <1>9 DEF AbortBatch
  <2>2. q \in Ids /\ Queue(q)' = <<>> /\ BatchesKept({q}) /\ Held(q) = ToSet(batch[c])
    BY <2>1, BatchUpdated, QueueNames, QueueContents DEF Held
  <2>3. \A r \in Ids \ {q} : Queue(r)' = Queue(r)
    BY <2>1, <2>2, KeptUnchanged, OthersKept
  <2>4. \A e \in Event : IF e \in Held(q) THEN fate'[e] # "live" ELSE fate'[e] = fate[e]
    BY <1>9, <2>2 DEF AbortBatch
  <2> HIDE DEF q
  <2> DEFINE G == {q}
  <2>5. G \in SUBSET Ids /\ (\A r \in G : Queue(r)' = <<>>) /\ (\A r \in Ids \ G : Queue(r)' = Queue(r))
    BY <2>2, <2>3
  <2>6. \A e \in Event : IF \E r \in G : e \in Held(r) THEN fate'[e] # "live" ELSE fate'[e] = fate[e]
    BY <2>4
  <2> HIDE DEF G
  <2> QED
    BY <2>5, <2>6, QueuesSettle
<1>10. CASE HandleSignal(c)
  <2> DEFINE q == Batch(c)
  <2>1. Incoming(c, Sig) /\ PopBatch(c) /\ pipes' = pipes /\ mailbox' = mailbox /\ fate' = fate
    BY <1>10 DEF HandleSignal, history
  <2>2. Sig \in Items /\ Sig \notin Event
    BY MessagingAssumption DEF Items
  <2>3. /\ q \in Ids /\ Queue(q) \in Seq(Items) /\ Queue(q) # <<>> /\ Sig = Head(Queue(q))
        /\ Queue(q)' = Tail(Queue(q)) /\ \A r \in Ids \ {q} : Queue(r)' = Queue(r)
    BY <2>1, <2>2, BatchHomes
  <2> HIDE DEF q
  <2> QED
    BY <2>1, <2>2, <2>3, SignalMoves
<1>11. CASE Residual(c)
  <2> DEFINE gone == {d \in Cores \ {c} : stopped[d]}
             G == {Pipe(c, d) : d \in gone}
             lost == UNION {ToSet(pipes[c][d]) : d \in gone}
  <2>1. /\ mailbox' = mailbox /\ batch' = batch
        /\ pipes' = [pipes EXCEPT ![c] = [d \in Cores |-> IF d \in gone THEN <<>> ELSE pipes[c][d]]]
        /\ fate' = [e \in Event |-> IF e \in lost THEN "disposed" ELSE fate[e]]
    BY <1>11 DEF Residual
  <2>2. /\ \A d \in Cores : pipes'[c][d] = IF d \in gone THEN <<>> ELSE pipes[c][d]
        /\ \A x, y \in Cores : x # c => pipes'[x][y] = pipes[x][y]
    BY <2>1 DEF TypeOK
  <2>3. \A e : e \in lost <=> \E q \in G : e \in Held(q)
    BY QueueContents DEF Held
  <2>4. \A e \in Event : IF \E q \in G : e \in Held(q) THEN fate'[e] # "live" ELSE fate'[e] = fate[e]
    BY <2>1, <2>3
  <2> HIDE DEF lost
  <2>5. \A q \in G : q \in Ids /\ Queue(q)' = <<>>
    BY <2>2, QueueNames, QueueContentsNext
  <2>6. PipesKept(G)
    BY <2>2 DEF PipesKept
  <2> HIDE DEF G
  <2>7. \A r \in Ids \ G : Queue(r)' = Queue(r)
    BY <2>1, <2>6, KeptUnchanged, OthersKept
  <2> QED
    BY <2>4, <2>5, <2>7, QueuesSettle
<1> QED
  BY <1>1, <1>2, <1>3, <1>4, <1>5, <1>6, <1>7, <1>8, <1>9, <1>10, <1>11 DEF Work

\* Every step keeps every event in one home.
LEMMA HomesStep == ASSUME TypeOK, Homes, Controlled, Next PROVE Homes'
<1>1. CASE Stop
  BY <1>1, NothingMoves DEF Stop, queues, history
<1>2. CASE Join
  <2> DEFINE G == {q \in Ids : \E c, d \in Cores : q = Ring(c, d)}
             left == UNION {ToSet(mailbox[d][c]) : c, d \in Cores}
  <2>1. /\ pipes' = pipes /\ batch' = batch /\ mailbox' = [d \in Cores |-> [c \in Cores |-> <<>>]]
        /\ fate' = [e \in Event |-> IF e \in left THEN "disposed" ELSE fate[e]]
    BY <1>2 DEF Join
  <2>2. \A e : e \in left <=> \E q \in G : e \in Held(q)
    BY QueueNames, QueueContents DEF Held
  <2>3. \A e \in Event : IF \E q \in G : e \in Held(q) THEN fate'[e] # "live" ELSE fate'[e] = fate[e]
    <3> HIDE DEF left, G
    <3>1. \A e \in Event : fate'[e] = IF e \in left THEN "disposed" ELSE fate[e]
      BY <2>1
    <3> QED
      BY <3>1, <2>2
  <2> HIDE DEF left
  <2>4. \A q \in G : Queue(q)' = <<>>
    BY <2>1, QueueContentsNext
  <2>5. RingsKept(G)
    BY QueueNames DEF RingsKept
  <2>6. G \in SUBSET Ids
    OBVIOUS
  <2> HIDE DEF G
  <2>7. \A r \in Ids \ G : Queue(r)' = Queue(r)
    BY <2>1, <2>5, KeptUnchanged, OthersKept
  <2> QED
    BY <2>3, <2>4, <2>6, <2>7, QueuesSettle
<1>3. ASSUME NEW c \in Cores, Throw(c) PROVE Homes'
  <2> DEFINE G == {Pipe(c, d) : d \in Cores}
             held == UNION {ToSet(pipes[c][d]) : d \in Cores}
  <2>1. /\ mailbox' = mailbox /\ batch' = batch /\ pipes' = [pipes EXCEPT ![c] = [d \in Cores |-> <<>>]]
        /\ fate' = [e \in Event |-> IF e \in held THEN "leaked" ELSE fate[e]]
    BY <1>3 DEF Throw
  <2>2. /\ \A d \in Cores : pipes'[c][d] = <<>>
        /\ \A x, y \in Cores : x # c => pipes'[x][y] = pipes[x][y]
    BY <2>1 DEF TypeOK
  <2>3. \A e : e \in held <=> \E q \in G : e \in Held(q)
    BY QueueContents DEF Held
  <2>4. \A e \in Event : IF \E q \in G : e \in Held(q) THEN fate'[e] # "live" ELSE fate'[e] = fate[e]
    BY <2>1, <2>3
  <2> HIDE DEF held
  <2>5. \A q \in G : q \in Ids /\ Queue(q)' = <<>>
    BY <2>2, QueueNames, QueueContentsNext
  <2>6. PipesKept(G)
    BY <2>2 DEF PipesKept
  <2> HIDE DEF G
  <2>7. \A r \in Ids \ G : Queue(r)' = Queue(r)
    BY <2>1, <2>6, KeptUnchanged, OthersKept
  <2> QED
    BY <2>4, <2>5, <2>7, QueuesSettle
<1> QED
  BY <1>1, <1>2, <1>3, ActHomes, WorkHomes DEF Next

-----------------------------------------------------------------------------
(* Every step keeps the control invariant *)

\* What the control invariant reads of core x.
Local(x) ==
    /\ pc'[x] = pc[x] /\ draining'[x] = draining[x] /\ at'[x] = at[x] /\ any_work'[x] = any_work[x]
    /\ alive'[x] = alive[x] /\ stopped'[x] = stopped[x] /\ signalled'[x] = signalled[x]
    /\ pipes'[x] = pipes[x] /\ batch'[x] = batch[x]

\* What a core's control depends on is its own.
LEMMA LocalKeeps ==
    ASSUME NEW x \in Cores, Local(x), Control(x), Drained(x), Unsignalled(x)
    PROVE  Control(x)' /\ Drained(x)' /\ Unsignalled(x)'
<1>1. Control(x)'
  BY DEF Local, Control
<1>2. Drained(x)'
  BY DEF Local, Drained, Cores
<1>3. Unsignalled(x)'
  <2>1. Held(Pipe(x, x))' = Held(Pipe(x, x))
    BY QueueContents, QueueContentsNext DEF Local, Held
  <2> QED
    BY <2>1 DEF Local, Unsignalled
<1> QED
  BY <1>1, <1>2, <1>3

\* A dispatch touches only the sender's pipes.
LEMMA DispatchLocal ==
    ASSUME TypeOK, NEW c \in Cores, NEW d \in Cores, NEW e \in Event, Dispatch(c, d, e),
           NEW x \in Cores, x # c
    PROVE  pipes'[x] = pipes[x]
<1>1. pipes' = pipes \/ \E v : pipes' = [pipes EXCEPT ![c][d] = v]
  BY DEF Dispatch
<1> QED
  BY <1>1 DEF TypeOK

\* A core's step changes nothing of another core but its mailbox.
LEMMA OthersLocal ==
    ASSUME TypeOK, NEW c \in Cores, Work(c) \/ Act(c) \/ Throw(c), NEW x \in Cores, x # c
    PROVE  Local(x)
<1> USE DEF TypeOK, Local
<1>1. CASE Poll(c)
  <2>1. pipes'[x] = pipes[x] /\ signalled'[x] = signalled[x]
    BY <1>1 DEF Poll
  <2> QED
    BY <1>1, <2>1 DEF Poll, Goto
<1>2. CASE FlushNextPipe(c) \/ FlushGiveUp(c) \/ FlushEnd(c)
  BY <1>2 DEF FlushNextPipe, FlushGiveUp, FlushEnd, Goto, queues, engine
<1>3. CASE FlushSend(c) \/ FlushOversize(c) \/ FlushDrop(c)
  <2>1. PICK e : FlushStep(c, e)
    BY <1>3 DEF FlushSend, FlushOversize, FlushDrop
  <2> QED
    BY <2>1 DEF FlushStep, engine
<1>4. CASE FlushMalformed(c) \/ SwapOwnPipe(c)
  BY <1>4 DEF FlushMalformed, SwapOwnPipe, Goto, engine
<1>5. CASE OwnPipeDone(c) \/ NextRing(c) \/ ReceiveEnd(c)
  BY <1>5 DEF OwnPipeDone, NextRing, ReceiveEnd, Goto, queues, engine
<1>6. CASE HandleEvent(c) \/ RouteNowhere(c) \/ AbortBatch(c) \/ HandleSignal(c)
  BY <1>6 DEF HandleEvent, RouteNowhere, AbortBatch, HandleSignal, PopBatch, thread, engine
<1>7. CASE Tick(c) \/ Reap(c) \/ Halt(c)
  BY <1>7 DEF Tick, Reap, Halt, Goto, queues, engine
<1>8. CASE Residual(c) \/ Throw(c)
  BY <1>8 DEF Residual, Throw, Goto, engine
<1>9. CASE Push(c)
  BY <1>9 DEF Push, thread, engine
<1>10. CASE Send(c)
  <2>1. PICK e \in Event : Dispatch(c, dest[e], e) /\ dest[e] \in Cores
    BY <1>10, MessagingAssumption DEF Send, Cores
  <2>2. pipes'[x] = pipes[x]
    BY <2>1, DispatchLocal
  <2> QED
    BY <1>10, <2>2 DEF Send, thread, engine
<1>11. ASSUME NEW d \in Cores, Relay(c, d) PROVE Local(x)
  <2>1. pipes'[x] = pipes[x]
    BY <1>11, DispatchLocal DEF Relay
  <2> QED
    BY <1>11, <2>1 DEF Relay, PopBatch, thread, engine
<1> QED
  BY <1>1, <1>2, <1>3, <1>4, <1>5, <1>6, <1>7, <1>8, <1>9, <1>10, <1>11 DEF Work, Act

\* An event that joins a queue, or a head that leaves it, brings no signal.
LEMMA NoSignalJoins ==
    ASSUME NEW q \in Seq(Items), Sig \notin ToSet(q)
    PROVE  /\ \A e \in Event : Sig \notin ToSet(Append(q, e)) /\ Sig \notin ToSet(<<e>> \o q)
           /\ q # <<>> => Sig \notin ToSet(Tail(q))
           /\ Sig \notin ToSet(<<>>)
<1>1. ASSUME NEW e \in Event PROVE Sig \notin ToSet(Append(q, e))
  BY MessagingAssumption DEF ToSet
<1>2. ASSUME NEW e \in Event PROVE Sig \notin ToSet(<<e>> \o q)
  <2> DEFINE r == <<e>> \o q
  <2>1. /\ DOMAIN q = 1 .. Len(q) /\ Len(q) \in Nat /\ DOMAIN r = 1 .. (Len(q) + 1) /\ r[1] = e
        /\ \A i \in 2 .. (Len(q) + 1) : r[i] = q[i - 1]
    OBVIOUS
  <2>2. ASSUME NEW i \in DOMAIN r PROVE r[i] # Sig
    <3>1. CASE i = 1
      BY <2>1, <3>1, MessagingAssumption
    <3>2. CASE i # 1
      <4>1. i \in 2 .. (Len(q) + 1) /\ i - 1 \in DOMAIN q
        BY <2>1, <3>2
      <4> QED
        BY <2>1, <4>1 DEF ToSet
    <3> QED
      BY <3>1, <3>2
  <2> HIDE DEF r
  <2>3. Sig \notin ToSet(r)
    BY <2>2 DEF ToSet
  <2> QED
    BY <2>3 DEF r
<1>3. ASSUME q # <<>> PROVE Sig \notin ToSet(Tail(q))
  BY <1>3 DEF ToSet
<1>4. Sig \notin ToSet(<<>>)
  BY DEF ToSet
<1> QED
  BY <1>1, <1>2, <1>3, <1>4

\* A core without the signal does not get one from elsewhere.
LEMMA UnsignalledKept ==
    ASSUME NEW c \in Cores, Unsignalled(c), signalled'[c] = signalled[c],
           Sig \notin ToSet(pipes[c][c]) => Sig \notin ToSet(pipes'[c][c])
    PROVE  Unsignalled(c)'
<1>1. Held(Pipe(c, c)) = ToSet(pipes[c][c]) /\ Held(Pipe(c, c))' = ToSet(pipes'[c][c])
  BY QueueContents, QueueContentsNext DEF Held
<1> QED
  BY <1>1 DEF Unsignalled

\* The signal is in the core's own pipe only once it was given.
LEMMA UnsignalledStep ==
    ASSUME TypeOK, NEW c \in Cores, Unsignalled(c), Work(c) \/ Act(c) \/ Throw(c)
    PROVE  Unsignalled(c)'
<1>0. pipes[c][c] \in Seq(Items)
  BY QueueTypes
<1>1. CASE pipes' = pipes /\ signalled' = signalled
  BY <1>1, UnsignalledKept
<1>2. ASSUME signalled' = signalled, NEW d \in Cores, NEW e \in Event, Dispatch(c, d, e)
      PROVE  Unsignalled(c)'
  <2>1. PICK v : /\ pipes' = pipes \/ pipes' = [pipes EXCEPT ![c][d] = v]
                 /\ v = <<e>> \o pipes[c][d] \/ v = Append(pipes[c][d], e)
    BY <1>2 DEF Dispatch
  <2>2. pipes'[c][c] = pipes[c][c] \/ (d = c /\ pipes'[c][c] = v)
    <3>1. CASE d = c
      BY <2>1, <3>1, PipeUpdated
    <3>2. CASE d # c
      <4>1. Pipe(c, c) # Pipe(c, d)
        BY <3>2, QueueNames
      <4>2. CASE pipes' = [pipes EXCEPT ![c][d] = v]
        BY <4>1, <4>2, PipeUpdated DEF PipesKept
      <4> QED
        BY <2>1, <4>2
    <3> QED
      BY <3>1, <3>2
  <2>3. Sig \notin ToSet(pipes[c][c]) => Sig \notin ToSet(pipes'[c][c])
    BY <1>0, <2>1, <2>2, NoSignalJoins
  <2> QED
    BY <1>2, <2>3, UnsignalledKept
<1>3. CASE Poll(c)
  <2>1. CASE stop /\ ~signalled[c]
    BY <1>3, <2>1 DEF Poll, Unsignalled, TypeOK
  <2>2. CASE ~(stop /\ ~signalled[c])
    BY <1>3, <2>2, <1>1 DEF Poll
  <2> QED
    BY <2>1, <2>2
<1>4. CASE FlushSend(c) \/ FlushOversize(c) \/ FlushDrop(c)
  <2>1. PICK e \in Event : FlushHead(c, e) /\ FlushStep(c, e)
    BY <1>4 DEF FlushSend, FlushOversize, FlushDrop
  <2>2. pipes' = [pipes EXCEPT ![c][at[c]] = Tail(pipes[c][at[c]])] /\ pipes[c][at[c]] # <<>> /\ signalled' = signalled
    BY <2>1 DEF FlushStep, FlushHead, engine
  <2>3. pipes'[c][c] = pipes[c][c] \/ (pipes[c][c] # <<>> /\ pipes'[c][c] = Tail(pipes[c][c]))
    BY <2>2 DEF TypeOK
  <2> QED
    BY <1>0, <2>2, <2>3, NoSignalJoins, UnsignalledKept
<1>5. CASE FlushMalformed(c) \/ SwapOwnPipe(c)
  <2>1. /\ signalled' = signalled
        /\ pipes' = [pipes EXCEPT ![c][at[c]] = <<>>] \/ pipes' = [pipes EXCEPT ![c][c] = <<>>]
    BY <1>5 DEF FlushMalformed, SwapOwnPipe, engine
  <2>2. pipes'[c][c] = pipes[c][c] \/ pipes'[c][c] = <<>>
    BY <2>1 DEF TypeOK
  <2> QED
    BY <1>0, <2>1, <2>2, NoSignalJoins, UnsignalledKept
<1>6. CASE Residual(c) \/ Throw(c)
  <2>1. signalled' = signalled
    BY <1>6 DEF Residual, Throw, engine
  <2>2. pipes'[c][c] = pipes[c][c] \/ pipes'[c][c] = <<>>
    BY <1>6 DEF Residual, Throw, TypeOK
  <2> QED
    BY <1>0, <2>1, <2>2, NoSignalJoins, UnsignalledKept
<1>7. CASE Push(c)
  <2>1. PICK e \in Event : pipes' = [pipes EXCEPT ![c][dest[e]] = Append(pipes[c][dest[e]], e)] /\ signalled' = signalled
    BY <1>7 DEF Push, engine
  <2>2. pipes'[c][c] = pipes[c][c] \/ pipes'[c][c] = Append(pipes[c][c], e)
    BY <2>1 DEF TypeOK
  <2> QED
    BY <1>0, <2>1, <2>2, NoSignalJoins, UnsignalledKept
<1>8. CASE Send(c)
  <2>1. PICK e \in Event : Dispatch(c, dest[e], e) /\ dest[e] \in Cores /\ signalled' = signalled
    BY <1>8, MessagingAssumption DEF Send, Cores, engine
  <2> QED
    BY <2>1, <1>2
<1>9. ASSUME NEW d \in Cores, Relay(c, d) PROVE Unsignalled(c)'
  BY <1>9, <1>2 DEF Relay, engine
<1>10. CASE \/ FlushNextPipe(c) \/ FlushGiveUp(c) \/ FlushEnd(c) \/ OwnPipeDone(c) \/ NextRing(c) \/ ReceiveEnd(c)
            \/ HandleEvent(c) \/ RouteNowhere(c) \/ AbortBatch(c) \/ HandleSignal(c) \/ Tick(c) \/ Reap(c) \/ Halt(c)
  <2>1. pipes' = pipes /\ signalled' = signalled
    BY <1>10 DEF FlushNextPipe, FlushGiveUp, FlushEnd, OwnPipeDone, NextRing, ReceiveEnd, HandleEvent, RouteNowhere,
              AbortBatch, HandleSignal, Tick, Reap, Halt, queues, engine
  <2> QED
    BY <2>1, <1>1
<1> QED
  BY <1>3, <1>4, <1>5, <1>6, <1>7, <1>8, <1>9, <1>10 DEF Work, Act

\* The program counter of a core and what it works on agree.
LEMMA ControlStep ==
    ASSUME TypeOK, NEW c \in Cores, Control(c), Work(c) \/ Act(c) \/ Throw(c)
    PROVE  Control(c)'
<1> USE DEF TypeOK, Control
<1>1. CASE Poll(c)
  BY <1>1 DEF Poll, Goto
<1>2. CASE FlushNextPipe(c) \/ FlushGiveUp(c)
  BY <1>2 DEF FlushNextPipe, FlushGiveUp, queues, engine
<1>3. CASE FlushEnd(c)
  BY <1>3 DEF FlushEnd, Goto, queues, engine
<1>4. CASE FlushSend(c) \/ FlushOversize(c) \/ FlushDrop(c)
  <2>1. PICK e : FlushStep(c, e)
    BY <1>4 DEF FlushSend, FlushOversize, FlushDrop
  <2> QED
    BY <2>1 DEF FlushStep, engine
<1>5. CASE FlushMalformed(c)
  BY <1>5 DEF FlushMalformed, engine
<1>6. CASE SwapOwnPipe(c)
  BY <1>6 DEF SwapOwnPipe, Goto, engine
<1>7. CASE OwnPipeDone(c) \/ NextRing(c)
  BY <1>7 DEF OwnPipeDone, NextRing, Goto, queues, engine
<1>8. CASE ReceiveEnd(c)
  BY <1>8 DEF ReceiveEnd, Goto, queues, engine
<1>9. CASE HandleEvent(c) \/ RouteNowhere(c) \/ AbortBatch(c) \/ HandleSignal(c)
  BY <1>9 DEF HandleEvent, RouteNowhere, AbortBatch, HandleSignal, Incoming, PopBatch, thread, engine
<1>10. CASE Tick(c)
  BY <1>10 DEF Tick, Goto, queues, engine
<1>11. CASE Reap(c)
  BY <1>11 DEF Reap, Goto, queues, engine
<1>12. CASE Halt(c)
  BY <1>12 DEF Halt, Goto, queues, engine
<1>13. CASE Residual(c)
  BY <1>13 DEF Residual, Goto, engine
<1>14. CASE Throw(c)
  BY <1>14 DEF Throw, Goto
<1>15. CASE Push(c) \/ Send(c)
  BY <1>15 DEF Push, Send, thread, engine
<1>16. ASSUME NEW d \in Cores, Relay(c, d) PROVE Control(c)'
  BY <1>16 DEF Relay, Incoming, PopBatch, thread, engine
<1> QED
  BY <1>1, <1>2, <1>3, <1>4, <1>5, <1>6, <1>7, <1>8, <1>9, <1>10, <1>11, <1>12, <1>13, <1>14, <1>15, <1>16 DEF Work, Act

\* What a core has drained stays drained while it goes on.
LEMMA DrainedStep ==
    ASSUME TypeOK, NEW c \in Cores, Control(c), Drained(c), Work(c) \/ Act(c) \/ Throw(c)
    PROVE  Drained(c)'
<1>0. Cores' = Cores
  BY DEF Cores
<1>1. \A d \in Cores : ~(d < Peer(c, 0) /\ d # c)
  BY MessagingAssumption DEF Peer, Cores
<1>2. CASE Poll(c)
  <2>1. /\ pc'[c] = "flush" /\ at'[c] = Peer(c, 0) /\ ~draining'[c]
    BY <1>2 DEF Poll, Goto, TypeOK, Control
  <2> QED
    BY <1>0, <1>1, <2>1 DEF Drained
<1>3. CASE FlushNextPipe(c)
  <2>1. /\ pc[c] = "flush" /\ pc' = pc /\ draining' = draining /\ any_work' = any_work /\ pipes' = pipes
        /\ at[c] < NbCore /\ pipes[c][at[c]] = <<>> /\ at'[c] = Peer(c, at[c] + 1)
    BY <1>3 DEF FlushNextPipe, TypeOK
  <2>2. at[c] \in 0 .. NbCore /\ c \in Int /\ \A d \in Cores : d \in Int
    BY DEF TypeOK, Cores
  <2>3. \A d \in Cores : d < Peer(c, at[c] + 1) /\ d # c => d < at[c] \/ d = at[c]
    BY <2>2 DEF Peer
  <2> QED
    BY <1>0, <2>1, <2>3 DEF Drained
<1>4. CASE FlushSend(c) \/ FlushOversize(c) \/ FlushDrop(c)
  <2>1. PICK e \in Event : FlushHead(c, e) /\ FlushStep(c, e)
    BY <1>4 DEF FlushSend, FlushOversize, FlushDrop
  <2>2. /\ pc[c] = "flush" /\ pc' = pc /\ draining' = draining /\ any_work'[c] /\ pipes[c][at[c]] # <<>>
        /\ pipes' = [pipes EXCEPT ![c][at[c]] = Tail(pipes[c][at[c]])]
    BY <2>1 DEF FlushHead, FlushStep, TypeOK
  <2>3. pipes[c][c] = <<>> => pipes'[c][c] = <<>>
    BY <2>2 DEF TypeOK
  <2> QED
    BY <1>0, <2>2, <2>3 DEF Drained
<1>5. CASE FlushMalformed(c)
  <2>1. /\ pc[c] = "flush" /\ pc' = pc /\ draining' = draining /\ any_work'[c]
        /\ pipes' = [pipes EXCEPT ![c][at[c]] = <<>>]
    BY <1>5 DEF FlushMalformed, FlushHead, TypeOK
  <2>2. pipes[c][c] = <<>> => pipes'[c][c] = <<>>
    BY <2>1 DEF TypeOK
  <2> QED
    BY <1>0, <2>1, <2>2 DEF Drained
<1>6. CASE FlushGiveUp(c)
  <2>1. pc[c] = "flush" /\ pc' = pc /\ draining' = draining /\ any_work'[c] /\ pipes' = pipes
    BY <1>6 DEF FlushGiveUp, FlushHead, TypeOK, queues
  <2> QED
    BY <1>0, <2>1 DEF Drained
<1>7. CASE FlushEnd(c)
  <2>1. /\ pc[c] = "flush" /\ at[c] = NbCore /\ draining' = draining /\ pipes' = pipes
        /\ pc'[c] = IF ~draining[c] THEN "swap" ELSE IF any_work[c] THEN "residual" ELSE "halt"
    BY <1>7 DEF FlushEnd, Goto, TypeOK, queues
  <2>2. \A d \in Cores : d < NbCore
    BY MessagingAssumption DEF Cores
  <2>3. CASE ~draining[c]
    BY <1>0, <2>1, <2>3 DEF Drained
  <2>4. CASE draining[c] /\ any_work[c]
    BY <1>0, <2>1, <2>4 DEF Drained
  <2>5. CASE draining[c] /\ ~any_work[c]
    BY <1>0, <2>1, <2>2, <2>5 DEF Drained
  <2> QED
    BY <2>3, <2>4, <2>5
<1>8. CASE SwapOwnPipe(c)
  <2>1. pc'[c] = "self" /\ pipes'[c][c] = <<>>
    BY <1>8 DEF SwapOwnPipe, Goto, TypeOK
  <2> QED
    BY <2>1 DEF Drained
<1>9. CASE OwnPipeDone(c) \/ NextRing(c) \/ ReceiveEnd(c)
  <2>1. /\ pc[c] \in {"self", "mail"} /\ draining' = draining /\ pipes' = pipes
        /\ pc'[c] \in {"mail", "flush", "tick", "reap"} /\ (pc'[c] = "flush" => at'[c] = Peer(c, 0))
    BY <1>9 DEF OwnPipeDone, NextRing, ReceiveEnd, Goto, TypeOK, queues
  <2> QED
    BY <1>0, <1>1, <2>1 DEF Drained
<1>10. CASE HandleEvent(c) \/ RouteNowhere(c) \/ AbortBatch(c) \/ HandleSignal(c)
  <2>1. pc[c] \in {"self", "mail"} /\ pc' = pc /\ draining' = draining /\ pipes' = pipes
    BY <1>10 DEF HandleEvent, RouteNowhere, AbortBatch, HandleSignal, Incoming, thread
  <2> QED
    BY <2>1 DEF Drained
<1>11. CASE Tick(c) \/ Reap(c)
  <2>1. pc'[c] \in {"reap", "poll", "swap"}
    BY <1>11 DEF Tick, Reap, Goto, TypeOK
  <2> QED
    BY <2>1 DEF Drained
<1>12. CASE Residual(c)
  <2> DEFINE gone == {d \in Cores \ {c} : stopped[d]}
             live == \E d \in Cores \ ({c} \cup gone) : pipes[c][d] # <<>>
  <2>1. /\ pc[c] = "residual" /\ draining[c] /\ pipes[c][c] = <<>>
    BY <1>12 DEF Residual, Control, Drained
  <2>2. /\ pc'[c] = IF live THEN "swap" ELSE "halt"
        /\ pipes' = [pipes EXCEPT ![c] = [d \in Cores |-> IF d \in gone THEN <<>> ELSE pipes[c][d]]]
    BY <1>12 DEF Residual, Goto, TypeOK
  <2>3. \A d \in Cores : pipes'[c][d] = IF d \in gone THEN <<>> ELSE pipes[c][d]
    BY <2>2 DEF TypeOK
  <2>4. CASE live
    BY <2>2, <2>4 DEF Drained
  <2>5. CASE ~live
    <3>1. \A d \in Cores : pipes'[c][d] = <<>>
      BY <2>1, <2>3, <2>5
    <3>2. pc'[c] = "halt"
      BY <2>2, <2>5
    <3> QED
      BY <1>0, <3>1, <3>2 DEF Drained
  <2> QED
    BY <2>4, <2>5
<1>13. CASE Halt(c)
  <2>1. pc[c] = "halt" /\ pc'[c] = "gone" /\ pipes' = pipes
    BY <1>13 DEF Halt, Goto, TypeOK, queues
  <2> QED
    BY <1>0, <2>1 DEF Drained
<1>14. CASE Throw(c)
  <2>1. pc'[c] = "gone" /\ \A d \in Cores : pipes'[c][d] = <<>>
    BY <1>14 DEF Throw, Goto, TypeOK
  <2> QED
    BY <1>0, <2>1 DEF Drained
<1>15. CASE Act(c)
  <2>1. pc[c] \in {"self", "mail", "tick"} /\ alive[c] /\ pc' = pc /\ draining' = draining
    BY <1>15 DEF Act, Push, Send, Relay, Creates, InHandler, Incoming, thread
  <2> QED
    BY <2>1 DEF Drained, Control
<1> QED
  BY <1>2, <1>3, <1>4, <1>5, <1>6, <1>7, <1>8, <1>9, <1>10, <1>11, <1>12, <1>13, <1>14, <1>15 DEF Work

\* So for every core, in every step.
LEMMA ControlledStep == ASSUME TypeOK, Controlled, Next PROVE Controlled'
<1>0. Cores' = Cores
  BY DEF Cores
<1>1. ASSUME NEW c \in Cores, Work(c) \/ Act(c) \/ Throw(c) PROVE Controlled'
  <2>1. ASSUME NEW x \in Cores PROVE Control(x)' /\ Drained(x)' /\ Unsignalled(x)'
    <3>1. Control(x) /\ Drained(x) /\ Unsignalled(x)
      BY DEF Controlled
    <3>2. CASE x = c
      BY <1>1, <3>1, <3>2, ControlStep, DrainedStep, UnsignalledStep
    <3>3. CASE x # c
      BY <1>1, <3>1, <3>3, OthersLocal, LocalKeeps
    <3> QED
      BY <3>2, <3>3
  <2> QED
    BY <2>1, <1>0 DEF Controlled
<1>2. CASE Stop \/ Join
  <2>1. ASSUME NEW x \in Cores PROVE Control(x)' /\ Drained(x)' /\ Unsignalled(x)'
    <3>1. Control(x) /\ Drained(x) /\ Unsignalled(x)
      BY DEF Controlled
    <3>2. Local(x)
      BY <1>2 DEF Stop, Join, Local, thread, queues
    <3> QED
      BY <3>1, <3>2, LocalKeeps
  <2> QED
    BY <2>1, <1>0 DEF Controlled
<1> QED
  BY <1>1, <1>2 DEF Next

-----------------------------------------------------------------------------
(* Why a step may settle an event *)

\* Event e waits in a queue towards a core that has no live actor.
Stranded(e) == \E q \in Ids : e \in Held(q) /\ ~alive[q[3]]

Settlement(e) ==
    \/ fate'[e] = fate[e]
    \/ fate[e] = "unborn" /\ fate'[e] = "live"
    \/ fate'[e] = "handled"
    \/ fate'[e] = "disposed" /\ (bucket_size[e] > MaxRingEvents \/ Stranded(e))
    \/ fate'[e] = "dropped" /\ qos[e] = 0
    \/ fate'[e] = "discarded" /\ \E f \in Event : bucket_size[f] = 0 /\ fate[f] # "unborn" /\ fate'[f] # "unborn"
    \/ fate'[e] = "leaked" /\ MayThrow

\* The head of a queue is live.
LEMMA HeadIsLive ==
    ASSUME TypeOK, Homes, NEW q \in Ids, NEW e \in Event, Queue(q) # <<>>, e = Head(Queue(q))
    PROVE  e \in Held(q) /\ fate[e] = "live"
<1>1. Queue(q) \in Seq(Items)
  BY QueuesHoldItems
<1>2. e \in Held(q)
  BY <1>1 DEF Held, ToSet
<1> QED
  BY <1>2 DEF Homes, HomeIffLive

\* Every step settles an event for a reason, or leaves it live.
LEMMA FateStep ==
    ASSUME TypeOK, Homes, Controlled, Next
    PROVE  \A e \in Event : Settlement(e)
<1>0. fate \in [Event -> Fates]
  BY DEF TypeOK
<1>1. CASE fate' = fate
  BY <1>1 DEF Settlement
<1>2. CASE Join
  <2> DEFINE left == UNION {ToSet(mailbox[d][c]) : c, d \in Cores}
  <2>1. fate' = [e \in Event |-> IF e \in left THEN "disposed" ELSE fate[e]] /\ \A c \in Cores : pc[c] = "gone"
    BY <1>2 DEF Join
  <2>2. ASSUME NEW e \in left PROVE Stranded(e)
    <3>1. PICK c \in Cores, d \in Cores : e \in ToSet(mailbox[d][c])
      OBVIOUS
    <3>2. Ring(c, d) \in Ids /\ e \in Held(Ring(c, d)) /\ Ring(c, d)[3] = d
      BY <3>1, QueueNames, QueueContents DEF Held, Ring
    <3>3. ~alive[d]
      BY <2>1 DEF Controlled, Control
    <3> QED
      BY <3>2, <3>3 DEF Stranded
  <2> HIDE DEF left
  <2> QED
    BY <2>1, <2>2 DEF Settlement
<1>3. ASSUME NEW c \in Cores, Push(c) \/ Send(c) PROVE \A e \in Event : Settlement(e)
  BY <1>0, <1>3 DEF Push, Send, Creates, Settlement
<1>4. ASSUME NEW c \in Cores, FlushOversize(c) \/ FlushDrop(c) PROVE \A e \in Event : Settlement(e)
  BY <1>0, <1>4 DEF FlushOversize, FlushDrop, Settlement
<1>5. ASSUME NEW c \in Cores, FlushMalformed(c) \/ AbortBatch(c) PROVE \A e \in Event : Settlement(e)
  <2>1. PICK e \in Event, q \in Ids :
            /\ bucket_size[e] = 0 /\ Queue(q) # <<>> /\ e = Head(Queue(q))
            /\ fate' = [f \in Event |-> IF f \in Held(q) THEN "discarded" ELSE fate[f]]
    <3>1. CASE FlushMalformed(c)
      <4>1. at[c] \in Cores
        BY <3>1, PeerBounds DEF FlushMalformed, FlushHead, TypeOK
      <4>2. Pipe(c, at[c]) \in Ids /\ Queue(Pipe(c, at[c])) = pipes[c][at[c]]
        BY <4>1, QueueNames, QueueContents
      <4> QED
        BY <3>1, <4>2 DEF FlushMalformed, FlushHead, Held
    <3>2. CASE AbortBatch(c)
      <4>1. Batch(c) \in Ids /\ Queue(Batch(c)) = batch[c]
        BY QueueNames, QueueContents
      <4> QED
        BY <3>2, <4>1 DEF AbortBatch, Incoming, Held
    <3> QED
      BY <1>5, <3>1, <3>2
  <2>2. e \in Held(q) /\ fate[e] = "live" /\ fate'[e] = "discarded"
    BY <2>1, HeadIsLive
  <2> QED
    BY <2>1, <2>2 DEF Settlement
<1>6. ASSUME NEW c \in Cores, HandleEvent(c) PROVE \A e \in Event : Settlement(e)
  BY <1>0, <1>6 DEF HandleEvent, Settlement
<1>7. ASSUME NEW c \in Cores, RouteNowhere(c) PROVE \A e \in Event : Settlement(e)
  <2>1. PICK e \in Event : Incoming(c, e) /\ ~alive[c] /\ fate' = [fate EXCEPT ![e] = "disposed"]
    BY <1>7 DEF RouteNowhere
  <2>2. Batch(c) \in Ids /\ Queue(Batch(c)) = batch[c] /\ Batch(c)[3] = c
    BY QueueNames, QueueContents DEF Batch
  <2>3. Stranded(e)
    BY <2>1, <2>2, HeadIsLive DEF Incoming, Stranded
  <2> QED
    BY <1>0, <2>1, <2>3 DEF Settlement
<1>8. ASSUME NEW c \in Cores, Residual(c) PROVE \A e \in Event : Settlement(e)
  <2> DEFINE gone == {d \in Cores \ {c} : stopped[d]}
             lost == UNION {ToSet(pipes[c][d]) : d \in gone}
  <2>1. fate' = [e \in Event |-> IF e \in lost THEN "disposed" ELSE fate[e]]
    BY <1>8 DEF Residual
  <2>2. ASSUME NEW e \in lost PROVE Stranded(e)
    <3>1. PICK d \in gone : e \in ToSet(pipes[c][d])
      OBVIOUS
    <3>2. Pipe(c, d) \in Ids /\ e \in Held(Pipe(c, d)) /\ Pipe(c, d)[3] = d
      BY <3>1, QueueNames, QueueContents DEF Held, Pipe
    <3>3. ~alive[d]
      BY DEF Controlled, Control
    <3> QED
      BY <3>2, <3>3 DEF Stranded
  <2> HIDE DEF lost
  <2> QED
    BY <2>1, <2>2 DEF Settlement
<1>9. ASSUME NEW c \in Cores, Throw(c) PROVE \A e \in Event : Settlement(e)
  <2>1. PICK held : fate' = [e \in Event |-> IF e \in held THEN "leaked" ELSE fate[e]]
    BY <1>9 DEF Throw
  <2>2. MayThrow
    BY <1>9 DEF Throw
  <2> QED
    BY <2>1, <2>2 DEF Settlement
<1>10. ASSUME NEW c \in Cores, Work(c) \/ Act(c),
              ~(\/ Push(c) \/ Send(c) \/ FlushOversize(c) \/ FlushDrop(c) \/ FlushMalformed(c) \/ AbortBatch(c)
                \/ HandleEvent(c) \/ RouteNowhere(c) \/ Residual(c))
       PROVE  fate' = fate
  BY <1>10 DEF Work, Act, Relay, Poll, FlushNextPipe, FlushSend, FlushGiveUp, FlushEnd, SwapOwnPipe, OwnPipeDone,
               NextRing, ReceiveEnd, HandleSignal, Tick, Reap, Halt, history
<1>11. CASE Stop
  BY <1>11, <1>1 DEF Stop, history
<1> QED
  BY <1>1, <1>2, <1>3, <1>4, <1>5, <1>6, <1>7, <1>8, <1>9, <1>10, <1>11 DEF Next

\* So the fates stay justified.
LEMMA JustifiedStep ==
    ASSUME Justified, \A e \in Event : Settlement(e)
    PROVE  Justified'
<1>1. \A f \in Event : fate[f] # "unborn" => fate'[f] # "unborn"
  BY DEF Settlement
<1>2. ASSUME NEW e \in Event PROVE Excused(e)'
  <2>1. Excused(e) /\ Settlement(e)
    BY DEF Justified
  <2>2. CASE fate'[e] = fate[e]
    BY <1>1, <2>1, <2>2 DEF Excused
  <2>3. CASE fate'[e] # fate[e]
    BY <2>1, <2>3 DEF Excused, Settlement
  <2> QED
    BY <2>2, <2>3
<1> QED
  BY <1>2 DEF Justified

\* Nothing is left in the rings once the engine has joined its cores.
LEMMA SweptStep == ASSUME TypeOK, Swept, Next PROVE Swept'
<1>0. Cores' = Cores
  BY DEF Cores
<1>1. CASE Stop
  BY <1>0, <1>1 DEF Stop, Swept, thread, queues
<1>2. CASE Join
  BY <1>0, <1>2 DEF Join, Swept, thread
<1>3. ASSUME NEW c \in Cores, Work(c) \/ Act(c) \/ Throw(c) PROVE Swept'
  <2>1. pc[c] # "gone"
    BY <1>3 DEF Work, Act, Throw, Poll, FlushNextPipe, FlushSend, FlushOversize, FlushDrop, FlushMalformed, FlushGiveUp,
                FlushHead, FlushEnd, SwapOwnPipe, OwnPipeDone, NextRing, ReceiveEnd, HandleEvent, RouteNowhere, AbortBatch,
                HandleSignal, Incoming, Tick, Reap, Residual, Halt, Push, Send, Creates, InHandler, Relay
  <2>2. joined' = joined
    BY <1>3 DEF Work, Act, Throw, Poll, FlushNextPipe, FlushSend, FlushOversize, FlushDrop, FlushMalformed, FlushGiveUp,
                FlushStep, FlushEnd, SwapOwnPipe, OwnPipeDone, NextRing, ReceiveEnd, HandleEvent, RouteNowhere, AbortBatch,
                HandleSignal, Tick, Reap, Residual, Halt, Push, Send, Relay, engine
  <2> QED
    BY <2>1, <2>2 DEF Swept
<1> QED
  BY <1>1, <1>2, <1>3 DEF Next

-----------------------------------------------------------------------------
(* The theorems *)

\* The invariant holds at the start.
LEMMA InitHolds == ASSUME Init PROVE IInv
<1>1. TypeOK
  <2>1. 0 \in 0 .. NbCore /\ \A e \in Event : 0 <= MaxHops[e]
    BY MessagingAssumption
  <2>2. pipes \in [Cores -> [Cores -> Seq(Items)]] /\ mailbox \in [Cores -> [Cores -> Seq(Event)]]
    BY SequencesOfItems DEF Init
  <2>3. pushed \in [Cores -> [Cores -> Seq(Event)]] /\ batch \in [Cores -> Seq(Items)] /\ handled \in [Cores -> Seq(Event)]
    BY SequencesOfItems DEF Init
  <2>4. fate \in [Event -> Fates] /\ hops \in [Event -> Nat] /\ front \in [Cores -> [Cores -> Nat]]
    BY DEF Init, Fates
  <2>5. at \in [Cores -> 0 .. NbCore] /\ \A e \in Event : hops[e] <= MaxHops[e]
    BY <2>1 DEF Init
  <2>6. /\ pc \in [Cores -> {"poll", "flush", "swap", "self", "mail", "tick", "reap", "residual", "halt", "gone"}]
        /\ draining \in [Cores -> BOOLEAN] /\ any_work \in [Cores -> BOOLEAN] /\ alive \in [Cores -> BOOLEAN]
        /\ stopped \in [Cores -> BOOLEAN] /\ stop \in BOOLEAN /\ signalled \in [Cores -> BOOLEAN] /\ joined \in BOOLEAN
    BY DEF Init
  <2> QED
    BY <2>2, <2>3, <2>4, <2>5, <2>6 DEF TypeOK
<1>2. \A q \in Ids : Queue(q) = <<>>
  <2>1. \A c, d \in Cores : Queue(Batch(d)) = <<>> /\ Queue(Pipe(c, d)) = <<>> /\ Queue(Ring(c, d)) = <<>>
    BY QueueContents DEF Init
  <2> QED
    BY <2>1, QueueNames
<1>3. \A q \in Ids : Held(q) = {} /\ IsInjective(Queue(q))
  BY <1>2, EmptyQueue DEF Held, ToSet, Range
<1>4. Homes
  BY <1>3 DEF Homes, Distinct, OneHome, HomeIffLive, Init
<1>5. Controlled
  <2> SUFFICES ASSUME NEW c \in Cores PROVE Control(c) /\ Drained(c) /\ Unsignalled(c)
    BY DEF Controlled
  <2>1. Unsignalled(c)
    BY <1>3, QueueNames DEF Unsignalled
  <2> QED
    BY <2>1 DEF Init, Control, Drained
<1>6. Swept /\ Justified
  BY DEF Init, Swept, Justified, Excused
<1> QED
  BY <1>1, <1>4, <1>5, <1>6 DEF IInv

\* And when nothing happens.
LEMMA StutterHolds == ASSUME IInv, UNCHANGED vars PROVE IInv'
<1>1. TypeOK'
  BY DEF IInv, TypeOK, vars
<1>2. Homes'
  BY NothingMoves DEF IInv, vars
<1>3. Controlled'
  <2>1. Cores' = Cores
    BY DEF Cores
  <2>2. \A x \in Cores : Local(x)
    BY DEF Local, vars
  <2> QED
    BY <2>1, <2>2, LocalKeeps DEF IInv, Controlled
<1>4. Swept' /\ Justified'
  BY DEF IInv, Swept, Justified, Excused, vars, Cores
<1> QED
  BY <1>1, <1>2, <1>3, <1>4 DEF IInv

\* The inductive invariant holds throughout.
THEOREM MessagingInvariant == Spec => []IInv
<1>1. ASSUME IInv, Next PROVE IInv'
  <2>1. TypeOK /\ Homes /\ Controlled /\ Swept /\ Justified
    BY <1>1 DEF IInv
  <2> QED
    BY <1>1, <2>1, TypeStep, HomesStep, ControlledStep, SweptStep, FateStep, JustifiedStep DEF IInv
<1>2. IInv /\ [Next]_vars => IInv'
  BY <1>1, StutterHolds
<1> QED
  BY InitHolds, <1>2, PTL DEF Spec

\* Every event is accounted for, from its creation to the join, whatever the
\* number of cores, the events, their widths, the ring capacity, and whether
\* callbacks throw: one that is not settled is in exactly one queue and once,
\* and after Main::join none is left and none was lost without a reason.
THEOREM EventsAreAccountedFor == Spec => []EventsAccountedFor
<1>1. ASSUME IInv PROVE EventsAccountedFor
  <2>1. OnePlacePerLiveEvent
    BY <1>1, HomesArePlaces DEF IInv, Homes
  <2>2. ASSUME joined, NEW e \in Event PROVE fate[e] # "live"
    <3>1. \A c, d \in Cores : Queue(Batch(d)) = <<>> /\ Queue(Pipe(c, d)) = <<>> /\ Queue(Ring(c, d)) = <<>>
      BY <1>1, <2>2, QueueContents DEF IInv, Swept, Controlled, Control, Drained
    <3>2. \A q \in Ids : Queue(q) = <<>>
      BY <3>1, QueueNames
    <3>3. \A q \in Ids : Held(q) = {}
      BY <3>2, EmptyQueue DEF Held, ToSet, Range
    <3> QED
      BY <1>1, <3>3 DEF IInv, Homes, HomeIffLive
  <2>3. ASSUME joined, NEW e \in Event, qos[e] = 2,
               \A f \in Event : bucket_size[f] = 0 => fate[f] = "unborn"
        PROVE  fate[e] \in {"unborn", "handled", "disposed"} \/ (MayThrow /\ fate[e] = "leaked")
    <3>1. fate[e] \in Fates /\ fate[e] # "live" /\ Excused(e)
      BY <1>1, <2>2, <2>3 DEF IInv, TypeOK, Justified
    <3> QED
      BY <2>3, <3>1 DEF Fates, Excused
  <2>4. NothingLeftBehind
    BY <2>2, <2>3 DEF NothingLeftBehind
  <2> QED
    BY <1>1, <2>1, <2>4 DEF EventsAccountedFor, IInv
<1> QED
  BY <1>1, MessagingInvariant, PTL

\* A guaranteed event of deliverable width is given up only when the core it
\* is bound for has no live actor: never because a mailbox was full, for any
\* ring capacity and any traffic (__flush_all__, the residual drain, join).
THEOREM GuaranteedEventsAreKept == Spec => GuaranteedUnlessDead
<1> DEFINE GivenUp(e, d) ==
              /\ fate[e] = "live" /\ fate'[e] \in {"disposed", "dropped"}
              /\ qos[e] = 2 /\ bucket_size[e] \in 1 .. MaxRingEvents
              /\ \E p \in Places(e) : p[1] \in Towards(d)
<1>1. ASSUME IInv, [Next]_vars, NEW e \in Event, NEW d \in Cores, GivenUp(e, d)
      PROVE  ~alive[d]
  <2>1. TypeOK /\ Homes /\ Controlled
    BY <1>1 DEF IInv
  <2>2. Next
    BY <1>1 DEF vars
  <2>3. Settlement(e)
    BY <2>1, <2>2, FateStep
  <2>4. MaxRingEvents \in Nat /\ bucket_size[e] \in Nat
    BY MessagingAssumption
  <2>5. Stranded(e)
    BY <1>1, <2>3, <2>4 DEF Settlement
  <2>6. PICK q \in Ids : e \in Held(q) /\ ~alive[q[3]]
    BY <2>5 DEF Stranded
  <2>7. PICK r \in Towards(d) : \E i \in DOMAIN Queue(r) : Queue(r)[i] = e
    BY <1>1 DEF Places
  <2>8. r \in Ids /\ e \in Held(r) /\ r[3] = d
    BY <2>7 DEF Ids, Towards, Held, ToSet
  <2>9. r = q
    BY <2>1, <2>6, <2>8 DEF Homes, OneHome
  <2> QED
    BY <2>6, <2>8, <2>9
<1>2. IInv /\ [Next]_vars => [\A e \in Event, d \in Cores : GivenUp(e, d) => ~alive[d]]_vars
  BY <1>1
<1> QED
  BY <1>2, MessagingInvariant, PTL DEF Spec, GuaranteedUnlessDead

-----------------------------------------------------------------------------
(* Pushes arrive in the order they were made *)

\* Queue q is further on the way that leads through queue p.
Downstream(q, p) == \E c, d \in Cores :
    \/ q = Batch(d) /\ p = Pipe(c, d)
    \/ c # d /\ q = Batch(d) /\ p = Ring(c, d)
    \/ c # d /\ q = Ring(c, d) /\ p = Pipe(c, d)

\* Where both are in a queue, e is ahead of f.
Ahead(e, f) ==
    \A q, p \in Ids : \A i \in DOMAIN Queue(q), j \in DOMAIN Queue(p) :
        Queue(q)[i] = e /\ Queue(p)[j] = f => Downstream(q, p) \/ (q = p /\ i < j)

\* Event e is nowhere but on the way from c to d.
OnRoute(c, d, e) ==
    \A q \in Ids : e \in Held(q) => q = Pipe(c, d) \/ q = Batch(d) \/ (c # d /\ q = Ring(c, d))

\* Once f has been handled by d, e no longer waits, and was not handled later.
Arrived(d, e, f) ==
    \A n \in DOMAIN handled[d] : handled[d][n] = f =>
        /\ fate[e] # "live"
        /\ \A m \in DOMAIN handled[d] : handled[d][m] = e => m < n

Sent(c, d, e) == \E i \in DOMAIN pushed[c][d] : pushed[c][d][i] = e
SentBefore(c, d, e, f) == \E i, j \in DOMAIN pushed[c][d] : i < j /\ pushed[c][d][i] = e /\ pushed[c][d][j] = f

\* The loops over pipes and rings are never at the core's own.
Elsewhere(c) == pc[c] \in {"flush", "mail"} => at[c] # c

Routed(c, d, e) == Sent(c, d, e) => fate[e] # "unborn" /\ (hops[e] = 0 => OnRoute(c, d, e))
Ordered(c, d, e, f) ==
    SentBefore(c, d, e, f) => e # f /\ (hops[e] = 0 /\ hops[f] = 0 => Ahead(e, f) /\ Arrived(d, e, f))
HandledOnly == \A d \in Cores : \A n \in DOMAIN handled[d] : fate[handled[d][n]] # "unborn"

OrderInv ==
    /\ \A c \in Cores : Elsewhere(c)
    /\ HandledOnly
    /\ \A c, d \in Cores, e \in Event : Routed(c, d, e)
    /\ \A c, d \in Cores, e, f \in Event : Ordered(c, d, e, f)

-----------------------------------------------------------------------------
(* How a step moves the events in the queues *)

\* Whatever of X is in t was in s, and in the same order.
Shift(s, t, X) ==
    \E k \in Int : \A i \in DOMAIN t : t[i] \in X => i - k \in DOMAIN s /\ s[i - k] = t[i]

\* The events of X stay on their ways and in their order.
Steers(X) ==
    /\ \A c, d \in Cores, e \in X : OnRoute(c, d, e) => OnRoute(c, d, e)'
    /\ \A e, f \in X : e # f /\ Ahead(e, f) => Ahead(e, f)'

AreQueues == \A q \in Ids : Queue(q) \in Seq(Items) /\ Queue(q)' \in Seq(Items)

\* Every queue is a sequence of items, before and after a step.
LEMMA QueuesStay == ASSUME TypeOK, TypeOK' PROVE AreQueues
<1>0. /\ batch' \in [Cores -> Seq(Items)] /\ pipes' \in [Cores -> [Cores -> Seq(Items)]]
      /\ mailbox' \in [Cores -> [Cores -> Seq(Event)]]
  BY DEF TypeOK, Cores, Items
<1>1. \A c, d \in Cores : /\ batch'[d] \in Seq(Items) /\ pipes'[c][d] \in Seq(Items) /\ mailbox'[d][c] \in Seq(Event)
  BY <1>0
<1>2. \A c, d \in Cores : /\ Queue(Batch(d))' \in Seq(Items) /\ Queue(Pipe(c, d))' \in Seq(Items)
                          /\ Queue(Ring(c, d))' \in Seq(Items)
  BY <1>1, QueueContentsNext, SequencesOfItems
<1>3. \A q \in Ids : Queue(q)' \in Seq(Items)
  BY <1>2, QueueNames
<1> QED
  BY <1>3, QueuesHoldItems DEF AreQueues

\* A queue that loses its head, gains an item that is not of X, or is emptied.
LEMMA Shifts ==
    ASSUME NEW s \in Seq(Items), NEW X
    PROVE  /\ Shift(s, s, X) /\ Shift(s, <<>>, X)
           /\ s # <<>> => Shift(s, Tail(s), X)
           /\ \A g \in Items \ X : Shift(s, Append(s, g), X) /\ Shift(s, <<g>> \o s, X)
<1>0. Len(s) \in Nat /\ DOMAIN s = 1..Len(s)
  OBVIOUS
<1>1. Shift(s, s, X)
  <2>1. \A i \in DOMAIN s : i - 0 = i
    BY <1>0
  <2> QED
    BY <2>1, 0 \in Int DEF Shift
<1>2. Shift(s, <<>>, X)
  <2>1. DOMAIN <<>> = {}
    OBVIOUS
  <2> QED
    BY <2>1, 0 \in Int DEF Shift
<1>3. ASSUME s # <<>> PROVE Shift(s, Tail(s), X)
  <2>1. ASSUME NEW i \in DOMAIN Tail(s) PROVE i - (-1) \in DOMAIN s /\ s[i - (-1)] = Tail(s)[i]
    BY <1>0, <1>3, <2>1
  <2>2. -1 \in Int
    OBVIOUS
  <2> QED
    BY <2>1, <2>2 DEF Shift
<1>4. ASSUME NEW g \in Items \ X PROVE Shift(s, Append(s, g), X) /\ Shift(s, <<g>> \o s, X)
  <2>1. ASSUME NEW i \in DOMAIN Append(s, g), Append(s, g)[i] \in X
        PROVE  i - 0 \in DOMAIN s /\ s[i - 0] = Append(s, g)[i]
    <3>1. i \in 1..(Len(s) + 1) /\ Append(s, g)[Len(s) + 1] = g
      BY <1>0, <2>1
    <3>2. i # Len(s) + 1
      BY <3>1, <2>1, <1>4
    <3> QED
      BY <1>0, <3>1, <3>2
  <2> DEFINE t == <<g>> \o s
  <2>2. t \in Seq(Items) /\ Len(t) = Len(s) + 1 /\ t[1] = g /\ \A i \in 2..(Len(s) + 1) : t[i] = s[i - 1]
    BY <1>0
  <2> HIDE DEF t
  <2>3. ASSUME NEW i \in DOMAIN t, t[i] \in X
        PROVE  i - 1 \in DOMAIN s /\ s[i - 1] = t[i]
    BY <1>0, <2>2, <2>3, <1>4
  <2>4. Shift(s, Append(s, g), X)
    BY <2>1, 0 \in Int DEF Shift
  <2>5. Shift(s, t, X)
    BY <2>3, 1 \in Int DEF Shift
  <2> QED
    BY <2>4, <2>5 DEF t
<1> QED
  BY <1>1, <1>2, <1>3, <1>4

\* Which queues are further on.
LEMMA Ways ==
    /\ \A q, p : Downstream(q, p)' <=> Downstream(q, p)
    /\ \A c, d \in Cores : \A q :
        /\ ~Downstream(Pipe(c, d), q)
        /\ ~Downstream(q, Batch(d))
        /\ Downstream(q, Pipe(c, d)) <=> q = Batch(d) \/ (c # d /\ q = Ring(c, d))
        /\ Downstream(q, Ring(c, d)) <=> c # d /\ q = Batch(d)
        /\ Downstream(Ring(c, d), q) <=> c # d /\ q = Pipe(c, d)
<1>1. \A q, p : Downstream(q, p)' <=> Downstream(q, p)
  BY DEF Downstream, Cores, Batch, Pipe, Ring
<1>2. ASSUME NEW c \in Cores, NEW d \in Cores, NEW q
      PROVE  /\ ~Downstream(Pipe(c, d), q)
             /\ ~Downstream(q, Batch(d))
             /\ Downstream(q, Pipe(c, d)) <=> q = Batch(d) \/ (c # d /\ q = Ring(c, d))
             /\ Downstream(q, Ring(c, d)) <=> c # d /\ q = Batch(d)
             /\ Downstream(Ring(c, d), q) <=> c # d /\ q = Pipe(c, d)
  BY QueueNames DEF Downstream
<1> QED
  BY <1>1, <1>2

\* Routes and order are about where the events are.
LEMMA WhereNext ==
    /\ \A c, d, e : OnRoute(c, d, e)' <=>
          \A q \in Ids : \A i \in DOMAIN Queue(q)' : Queue(q)'[i] = e =>
              q = Pipe(c, d) \/ q = Batch(d) \/ (c # d /\ q = Ring(c, d))
    /\ \A e, f : Ahead(e, f)' <=>
          \A q, p \in Ids : \A i \in DOMAIN Queue(q)', j \in DOMAIN Queue(p)' :
              Queue(q)'[i] = e /\ Queue(p)'[j] = f => Downstream(q, p) \/ (q = p /\ i < j)
<1>1. ASSUME NEW c, NEW d, NEW e
      PROVE  OnRoute(c, d, e)' <=>
                \A q \in Ids : \A i \in DOMAIN Queue(q)' : Queue(q)'[i] = e =>
                    q = Pipe(c, d) \/ q = Batch(d) \/ (c # d /\ q = Ring(c, d))
  BY IdsNext DEF OnRoute, Held, ToSet, Pipe, Batch, Ring
<1>2. ASSUME NEW e, NEW f
      PROVE  Ahead(e, f)' <=>
                \A q, p \in Ids : \A i \in DOMAIN Queue(q)', j \in DOMAIN Queue(p)' :
                    Queue(q)'[i] = e /\ Queue(p)'[j] = f => Downstream(q, p) \/ (q = p /\ i < j)
  BY IdsNext, Ways DEF Ahead
<1> QED
  BY <1>1, <1>2

\* Queues that only shift keep routes and order.
LEMMA ShiftSteers ==
    ASSUME AreQueues, NEW X, \A q \in Ids : Shift(Queue(q), Queue(q)', X)
    PROVE  Steers(X)
<1>1. ASSUME NEW c \in Cores, NEW d \in Cores, NEW e \in X, OnRoute(c, d, e),
             NEW q \in Ids, NEW i \in DOMAIN Queue(q)', Queue(q)'[i] = e
      PROVE  q = Pipe(c, d) \/ q = Batch(d) \/ (c # d /\ q = Ring(c, d))
  <2>1. PICK j \in DOMAIN Queue(q) : Queue(q)[j] = e
    BY <1>1 DEF Shift
  <2> QED
    BY <1>1, <2>1 DEF OnRoute, Held, ToSet
<1>2. ASSUME NEW e \in X, NEW f \in X, Ahead(e, f), NEW q \in Ids, NEW p \in Ids,
             NEW i \in DOMAIN Queue(q)', NEW j \in DOMAIN Queue(p)', Queue(q)'[i] = e, Queue(p)'[j] = f
      PROVE  Downstream(q, p) \/ (q = p /\ i < j)
  <2>0. i \in Int /\ j \in Int
    BY DEF AreQueues
  <2>1. PICK k \in Int : i - k \in DOMAIN Queue(q) /\ Queue(q)[i - k] = e /\ (p = q => j - k \in DOMAIN Queue(p) /\ Queue(p)[j - k] = f)
    BY <1>2 DEF Shift
  <2>2. PICK l \in Int : j - l \in DOMAIN Queue(p) /\ Queue(p)[j - l] = f /\ (p = q => l = k)
    <3>1. CASE p = q
      BY <2>1, <3>1
    <3>2. CASE p # q
      BY <1>2, <3>2 DEF Shift
    <3> QED
      BY <3>1, <3>2
  <2>3. Downstream(q, p) \/ (q = p /\ i - k < j - l)
    BY <1>2, <2>1, <2>2 DEF Ahead
  <2> QED
    BY <2>0, <2>2, <2>3
<1> QED
  BY <1>1, <1>2, WhereNext DEF Steers

\* All queues but p are left alone.
LEMMA OneShift ==
    ASSUME AreQueues, NEW X, NEW p \in Ids, Shift(Queue(p), Queue(p)', X), \A r \in Ids \ {p} : Queue(r)' = Queue(r)
    PROVE  Steers(X)
<1>1. ASSUME NEW q \in Ids PROVE Shift(Queue(q), Queue(q)', X)
  <2>1. CASE q = p
    BY <2>1
  <2>2. CASE q # p
    BY <2>2, Shifts DEF AreQueues
  <2> QED
    BY <2>1, <2>2
<1> QED
  BY <1>1, ShiftSteers

\* Queues are emptied or left alone.
LEMMA EmptiedSteers ==
    ASSUME AreQueues, NEW X, \A q \in Ids : Queue(q)' = Queue(q) \/ Queue(q)' = <<>>
    PROVE  Steers(X)
<1>1. ASSUME NEW q \in Ids PROVE Shift(Queue(q), Queue(q)', X)
  <2>1. Shift(Queue(q), Queue(q), X) /\ Shift(Queue(q), <<>>, X)
    BY Shifts DEF AreQueues
  <2>2. CASE Queue(q)' = Queue(q)
    BY <2>1, <2>2
  <2>3. CASE Queue(q)' = <<>>
    BY <2>1, <2>3
  <2> QED
    BY <2>2, <2>3
<1> QED
  BY <1>1, ShiftSteers

\* The flush takes the head of a pipe to the back of the ring it leads to.
LEMMA FlushSteers ==
    ASSUME AreQueues, Homes, NEW c \in Cores, NEW d \in Cores, c # d, NEW g \in Event,
           Queue(Pipe(c, d)) # <<>>, g = Head(Queue(Pipe(c, d))), Queue(Pipe(c, d))' = Tail(Queue(Pipe(c, d))),
           Queue(Ring(c, d))' = Append(Queue(Ring(c, d)), g),
           \A r \in Ids \ {Pipe(c, d), Ring(c, d)} : Queue(r)' = Queue(r)
    PROVE  Steers(Event)
<1> DEFINE P == Pipe(c, d)
           R == Ring(c, d)
           n == Len(Queue(R)) + 1
<1>0. P \in Ids /\ R \in Ids /\ P # R /\ Queue(P) \in Seq(Items) /\ Queue(R) \in Seq(Items) /\ g \in Items
  BY QueueNames DEF AreQueues, Items
<1>1. g \in Held(P) /\ Held(P)' = Held(P) \ {g} /\ Queue(P)[1] = g /\ 1 \in DOMAIN Queue(P)
  BY <1>0, TakenHeld
<1>2. \A r \in Ids \ {P} : g \notin Held(r)
  BY <1>0, <1>1 DEF Homes, OneHome
<1>3. /\ \A i \in DOMAIN Queue(R)' : i \in Int /\ i <= n
      /\ \A i \in DOMAIN Queue(R)' : i # n => i \in DOMAIN Queue(R) /\ Queue(R)'[i] = Queue(R)[i]
      /\ n \in DOMAIN Queue(R)' /\ Queue(R)'[n] = g
  BY <1>0
<1>4. ASSUME NEW q \in Ids, NEW i \in DOMAIN Queue(q)', Queue(q)'[i] = g
      PROVE  q = R /\ i = n
  <2>1. q # P
    BY <1>1, <1>4 DEF Held, ToSet
  <2>2. CASE q # R
    BY <1>2, <1>4, <2>1, <2>2 DEF Held, ToSet
  <2>3. CASE q = R /\ i # n
    BY <1>2, <1>3, <1>4, <1>0, <2>3 DEF Held, ToSet
  <2> QED
    BY <2>2, <2>3
<1> DEFINE X == Event \ {g}
<1>5. ASSUME NEW q \in Ids PROVE Shift(Queue(q), Queue(q)', X)
  <2>1. g \in Items \ X
    BY <1>0
  <2> HIDE DEF X
  <2>2. CASE q = P
    BY <2>2, <1>0, Shifts
  <2>3. CASE q = R
    BY <2>1, <2>3, <1>0, Shifts
  <2>4. CASE q \notin {P, R}
    BY <2>4, Shifts DEF AreQueues
  <2> QED
    BY <2>2, <2>3, <2>4
<1>6. Steers(X)
  <2> HIDE DEF X
  <2> QED
    BY <1>5, ShiftSteers
<1>7. \A q \in Ids : \A i \in DOMAIN Queue(q)' : Queue(q)'[i] \in X => \E k \in DOMAIN Queue(q) : Queue(q)[k] = Queue(q)'[i]
  BY <1>5 DEF Shift
<1> HIDE DEF n
<1>8. ASSUME NEW x \in Cores, NEW y \in Cores, OnRoute(x, y, g) PROVE OnRoute(x, y, g)'
  <2>1. x = c /\ y = d
    BY <1>0, <1>1, <1>8, QueueNames DEF OnRoute
  <2> QED
    BY <2>1, <1>4, WhereNext
<1>9. ASSUME NEW f \in X, Ahead(g, f) PROVE Ahead(g, f)'
  <2>1. ASSUME NEW p \in Ids, NEW j \in DOMAIN Queue(p)', Queue(p)'[j] = f PROVE p = P
    <3>1. PICK k \in DOMAIN Queue(p) : Queue(p)[k] = f
      BY <2>1, <1>7
    <3>2. Downstream(P, p) \/ P = p
      BY <1>0, <1>1, <1>9, <3>1 DEF Ahead
    <3> QED
      BY <3>2, Ways
  <2>2. Downstream(R, P)
    BY Ways
  <2> QED
    BY <2>1, <2>2, <1>4, WhereNext
<1>10. ASSUME NEW e \in X, Ahead(e, g) PROVE Ahead(e, g)'
  <2>1. ASSUME NEW q \in Ids, NEW i \in DOMAIN Queue(q)', Queue(q)'[i] = e
        PROVE  Downstream(q, R) \/ (q = R /\ i < n)
    <3>1. CASE q = R
      <4>1. i # n /\ i <= n /\ i \in Int /\ n \in Int
        BY <1>0, <1>3, <2>1, <3>1 DEF n
      <4> QED
        BY <3>1, <4>1
    <3>2. CASE q # R
      <4>1. PICK k \in DOMAIN Queue(q) : Queue(q)[k] = e
        BY <2>1, <1>7
      <4>2. k \in Int /\ k >= 1
        BY <4>1 DEF AreQueues
      <4>3. Downstream(q, P) \/ (q = P /\ k < 1)
        BY <1>0, <1>1, <1>10, <4>1 DEF Ahead
      <4>4. q = Batch(d)
        BY <3>2, <4>2, <4>3, Ways
      <4> QED
        BY <4>4, Ways
    <3> QED
      BY <3>1, <3>2
  <2> QED
    BY <2>1, <1>4, WhereNext
<1> QED
  BY <1>6, <1>8, <1>9, <1>10 DEF Steers

\* A core takes its own pipe or one of its rings as its batch.
LEMMA BatchSteers ==
    ASSUME AreQueues, NEW d \in Cores, NEW x \in Cores, NEW q, q = Pipe(d, d) \/ (x # d /\ q = Ring(x, d)),
           Queue(Batch(d)) = <<>>, Queue(Batch(d))' = Queue(q), Queue(q)' = <<>>,
           \A r \in Ids \ {Batch(d), q} : Queue(r)' = Queue(r)
    PROVE  Steers(Event)
<1> DEFINE B == Batch(d)
           was(r) == IF r = B THEN q ELSE r
<1>1. B \in Ids /\ q \in Ids /\ B # q
  BY QueueNames
<1>2. ASSUME NEW r \in Ids, NEW i \in DOMAIN Queue(r)'
      PROVE  r # q /\ was(r) \in Ids /\ i \in DOMAIN Queue(was(r)) /\ Queue(r)'[i] = Queue(was(r))[i]
  <2>1. r # q
    <3>1. DOMAIN <<>> = {}
      OBVIOUS
    <3> QED
      BY <1>2, <3>1
  <2>2. CASE r = B
    BY <1>1, <2>1, <2>2
  <2>3. CASE r # B
    BY <2>1, <2>3
  <2> QED
    BY <2>1, <2>2, <2>3
<1>3. \A r \in Ids : r # B /\ Downstream(r, q) => FALSE
  BY Ways
<1>4. \A r \in Ids : Downstream(q, r) => Downstream(B, r)
  BY Ways
<1>5. \A y, z \in Cores : q = Pipe(y, z) \/ q = Batch(z) \/ (y # z /\ q = Ring(y, z)) => B = Batch(z)
  BY QueueNames
<1>6. ASSUME NEW y \in Cores, NEW z \in Cores, NEW e \in Event, OnRoute(y, z, e),
             NEW r \in Ids, NEW i \in DOMAIN Queue(r)', Queue(r)'[i] = e
      PROVE  r = Pipe(y, z) \/ r = Batch(z) \/ (y # z /\ r = Ring(y, z))
  <2>1. was(r) = Pipe(y, z) \/ was(r) = Batch(z) \/ (y # z /\ was(r) = Ring(y, z))
    BY <1>2, <1>6 DEF OnRoute, Held, ToSet
  <2> QED
    BY <2>1, <1>5
<1>7. ASSUME NEW e \in Event, NEW f \in Event, Ahead(e, f), NEW r \in Ids, NEW p \in Ids,
             NEW i \in DOMAIN Queue(r)', NEW j \in DOMAIN Queue(p)', Queue(r)'[i] = e, Queue(p)'[j] = f
      PROVE  Downstream(r, p) \/ (r = p /\ i < j)
  <2>1. Downstream(was(r), was(p)) \/ (was(r) = was(p) /\ i < j)
    <3> HIDE DEF was
    <3> QED
      BY <1>2, <1>7 DEF Ahead
  <2>2. r # q /\ p # q
    BY <1>2
  <2>3. CASE r = B /\ p = B
    BY <2>1, <2>3, <1>3, Ways, <1>1
  <2>4. CASE r = B /\ p # B
    BY <2>1, <2>2, <2>4, <1>4
  <2>5. CASE r # B /\ p = B
    BY <2>1, <2>2, <2>5, <1>3
  <2>6. CASE r # B /\ p # B
    BY <2>1, <2>6
  <2> QED
    BY <2>3, <2>4, <2>5, <2>6
<1> QED
  BY <1>6, <1>7, WhereNext DEF Steers

\* What an event is ahead of is not at the head of a batch.
LEMMA BatchHead ==
    ASSUME AreQueues, Homes, NEW d \in Cores, Queue(Batch(d)) # <<>>,
           NEW e \in Event, Ahead(e, Head(Queue(Batch(d))))
    PROVE  fate[e] # "live"
<1>1. Batch(d) \in Ids /\ Queue(Batch(d)) \in Seq(Items)
  BY QueueNames DEF AreQueues
<1>2. 1 \in DOMAIN Queue(Batch(d)) /\ Queue(Batch(d))[1] = Head(Queue(Batch(d)))
  BY <1>1
<1>3. ASSUME NEW q \in Ids, NEW i \in DOMAIN Queue(q), Queue(q)[i] = e PROVE FALSE
  <2>1. i \in Int /\ i >= 1
    BY <1>3 DEF AreQueues
  <2>2. Downstream(q, Batch(d)) \/ i < 1
    BY <1>1, <1>2, <1>3 DEF Ahead
  <2> QED
    BY <2>1, <2>2, Ways
<1>4. \A q \in Ids : e \notin Held(q)
  BY <1>3 DEF Held, ToSet
<1> QED
  BY <1>4 DEF Homes, HomeIffLive

-----------------------------------------------------------------------------
(* Every step keeps the order *)

\* The handler of core d has begun on the head of its batch.
Delivers(d, g) ==
    /\ Queue(Batch(d)) # <<>> /\ g = Head(Queue(Batch(d)))
    /\ handled' = [handled EXCEPT ![d] = Append(handled[d], g)]

\* Fates only go forward.
LEMMA FatesGoOn ==
    ASSUME NEW e \in Event, Settlement(e), fate[e] # "unborn"
    PROVE  fate'[e] # "unborn" /\ (fate'[e] = "live" => fate[e] = "live")
BY DEF Settlement

\* What was handled stays handled, in its place; at most the head of a batch joins.
LEMMA HandledStep ==
    ASSUME TypeOK, handled' = handled \/ \E x \in Cores, g \in Event : Delivers(x, g), NEW d \in Cores
    PROVE  \A n \in DOMAIN handled'[d] :
              /\ n \in Int
              /\ \/ n \in DOMAIN handled[d] /\ handled'[d][n] = handled[d][n]
                 \/ /\ \A m \in DOMAIN handled'[d] : m <= n
                    /\ Queue(Batch(d)) # <<>> /\ handled'[d][n] = Head(Queue(Batch(d)))
<1>0. handled \in [Cores -> Seq(Event)] /\ Len(handled[d]) \in Nat /\ DOMAIN handled[d] = 1..Len(handled[d])
  BY DEF TypeOK
<1>1. CASE handled' = handled
  BY <1>0, <1>1
<1>2. ASSUME NEW x \in Cores, NEW g \in Event, Delivers(x, g), x # d
      PROVE  handled'[d] = handled[d]
  BY <1>0, <1>2 DEF Delivers
<1>3. ASSUME NEW g \in Event, Delivers(d, g)
      PROVE  \A n \in DOMAIN handled'[d] :
              /\ n \in Int
              /\ \/ n \in DOMAIN handled[d] /\ handled'[d][n] = handled[d][n]
                 \/ /\ \A m \in DOMAIN handled'[d] : m <= n
                    /\ Queue(Batch(d)) # <<>> /\ handled'[d][n] = Head(Queue(Batch(d)))
  <2>1. handled'[d] = Append(handled[d], g) /\ Queue(Batch(d)) # <<>> /\ g = Head(Queue(Batch(d)))
    BY <1>0, <1>3 DEF Delivers
  <2> DEFINE h == handled[d]
             b == Queue(Batch(d))
  <2>2. h \in Seq(Event)
    BY <1>0
  <2> HIDE DEF h, b
  <2>3. \A n \in DOMAIN Append(h, g) :
           /\ n \in Int
           /\ \/ n \in DOMAIN h /\ Append(h, g)[n] = h[n]
              \/ (\A m \in DOMAIN Append(h, g) : m <= n) /\ Append(h, g)[n] = g
    BY <2>2
  <2> QED
    BY <2>1, <2>3 DEF h, b
<1> QED
  BY <1>0, <1>1, <1>2, <1>3

\* A step that pushes nothing keeps the order if it keeps the ways of all events
\* that have not been relayed.
LEMMA OrderKept ==
    ASSUME TypeOK, AreQueues, Homes, OrderInv, \A e \in Event : Settlement(e),
           NEW X \in SUBSET Event, Steers(X), \A e \in Event \ X : fate[e] = "unborn" \/ hops'[e] # 0,
           \A e \in Event : hops'[e] = 0 => hops[e] = 0,
           pushed' = pushed, handled' = handled \/ \E d \in Cores, g \in Event : Delivers(d, g),
           \A c \in Cores : Elsewhere(c)'
    PROVE  OrderInv'
<1>0. Cores' = Cores
  BY DEF Cores
<1>1. handled \in [Cores -> Seq(Event)]
  BY DEF TypeOK
<1>2. \A c, d, e, f : (Sent(c, d, e)' <=> Sent(c, d, e)) /\ (SentBefore(c, d, e, f)' <=> SentBefore(c, d, e, f))
  BY DEF Sent, SentBefore
<1>3. ASSUME NEW d \in Cores, NEW n \in DOMAIN handled'[d] PROVE fate'[handled'[d][n]] # "unborn"
  <2>1. CASE n \in DOMAIN handled[d] /\ handled'[d][n] = handled[d][n]
    <3>1. handled[d][n] \in Event /\ fate[handled[d][n]] # "unborn"
      BY <1>1, <2>1 DEF OrderInv, HandledOnly
    <3> QED
      BY <2>1, <3>1, FatesGoOn
  <2>2. CASE Queue(Batch(d)) # <<>> /\ handled'[d][n] = Head(Queue(Batch(d))) /\ handled' # handled
    <3>1. PICK x \in Cores, g \in Event : Delivers(x, g)
      BY <2>2
    <3>2. CASE x = d
      <4>1. Batch(d) \in Ids
        BY QueueNames
      <4>2. g = handled'[d][n] /\ fate[g] = "live"
        BY <3>1, <3>2, <2>2, <4>1, HeadIsLive DEF Delivers
      <4> QED
        BY <4>2, FatesGoOn
    <3>3. CASE x # d
      <4>1. handled'[d] = handled[d]
        BY <1>1, <3>1, <3>3 DEF Delivers
      <4> QED
        BY <2>1, <4>1, <1>3
    <3> QED
      BY <3>2, <3>3
  <2>3. CASE handled' = handled
    BY <2>1, <2>3, <1>3
  <2> QED
    BY <2>1, <2>2, <2>3, <1>3, HandledStep
<1>4. ASSUME NEW c \in Cores, NEW d \in Cores, NEW e \in Event PROVE Routed(c, d, e)'
  <2> SUFFICES ASSUME Sent(c, d, e) PROVE fate'[e] # "unborn" /\ (hops'[e] = 0 => OnRoute(c, d, e)')
    BY <1>2 DEF Routed
  <2>1. fate[e] # "unborn" /\ (hops[e] = 0 => OnRoute(c, d, e))
    BY DEF OrderInv, Routed
  <2>2. hops'[e] = 0 => e \in X /\ hops[e] = 0
    BY <2>1
  <2> QED
    BY <2>1, <2>2, FatesGoOn DEF Steers
<1>5. ASSUME NEW c \in Cores, NEW d \in Cores, NEW e \in Event, NEW f \in Event PROVE Ordered(c, d, e, f)'
  <2> SUFFICES ASSUME SentBefore(c, d, e, f)
               PROVE  e # f /\ (hops'[e] = 0 /\ hops'[f] = 0 => Ahead(e, f)' /\ Arrived(d, e, f)')
    BY <1>2 DEF Ordered
  <2>1. e # f /\ (hops[e] = 0 /\ hops[f] = 0 => Ahead(e, f) /\ Arrived(d, e, f))
    BY DEF OrderInv, Ordered
  <2>2. fate[e] # "unborn" /\ fate[f] # "unborn"
    <3>1. Sent(c, d, e) /\ Sent(c, d, f)
      BY DEF Sent, SentBefore
    <3> QED
      BY <3>1 DEF OrderInv, Routed
  <2>3. ASSUME hops'[e] = 0, hops'[f] = 0 PROVE Ahead(e, f)' /\ Arrived(d, e, f)'
    <3>1. e \in X /\ f \in X /\ Ahead(e, f) /\ Arrived(d, e, f)
      BY <2>1, <2>2, <2>3
    <3>2. Ahead(e, f)'
      BY <2>1, <3>1 DEF Steers
    <3>3. ASSUME NEW n \in DOMAIN handled'[d], handled'[d][n] = f
          PROVE  fate'[e] # "live" /\ \A m \in DOMAIN handled'[d] : handled'[d][m] = e => m < n
      <4>1. fate[e] # "live"
        <5>1. CASE n \in DOMAIN handled[d] /\ handled'[d][n] = handled[d][n]
          BY <3>1, <3>3, <5>1 DEF Arrived
        <5>2. CASE Queue(Batch(d)) # <<>> /\ handled'[d][n] = Head(Queue(Batch(d)))
          BY <3>1, <3>3, <5>2, BatchHead
        <5> QED
          BY <5>1, <5>2, HandledStep
      <4>2. ASSUME NEW m \in DOMAIN handled'[d], handled'[d][m] = e PROVE m < n
        <5>1. m \in Int /\ n \in Int /\ m # n
          BY <2>1, <3>3, <4>2, HandledStep
        <5>2. m \in DOMAIN handled[d] /\ handled[d][m] = e
          <6>1. ASSUME Queue(Batch(d)) # <<>>, e = Head(Queue(Batch(d))) PROVE FALSE
            <7>1. Batch(d) \in Ids
              BY QueueNames
            <7> QED
              BY <4>1, <6>1, <7>1, HeadIsLive
          <6> QED
            BY <4>2, <6>1, HandledStep
        <5>3. CASE n \in DOMAIN handled[d] /\ handled'[d][n] = handled[d][n]
          BY <3>1, <3>3, <5>2, <5>3 DEF Arrived
        <5>4. CASE \A l \in DOMAIN handled'[d] : l <= n
          BY <4>2, <5>1, <5>4
        <5> QED
          BY <5>3, <5>4, HandledStep
      <4> QED
        BY <2>2, <4>1, <4>2, FatesGoOn
    <3> QED
      BY <3>2, <3>3 DEF Arrived
  <2> QED
    BY <2>1, <2>3
<1>6. HandledOnly'
  BY <1>0, <1>3 DEF HandledOnly
<1> QED
  BY <1>0, <1>4, <1>5, <1>6 DEF OrderInv

\* A new event that is pushed comes last.
LEMMA PushOrder ==
    ASSUME TypeOK, TypeOK', Homes, OrderInv, \A e \in Event : Settlement(e), NEW c \in Cores, Push(c),
           \A x \in Cores : Elsewhere(x)'
    PROVE  OrderInv'
<1>0. Cores' = Cores /\ AreQueues
  BY QueuesStay DEF Cores
<1>1. \A e \in Event : dest[e] \in Cores
  BY MessagingAssumption DEF Cores
<1>2. PICK g \in Event, d \in Cores :
          /\ fate[g] = "unborn" /\ fate' = [fate EXCEPT ![g] = "live"]
          /\ pipes' = [pipes EXCEPT ![c][d] = Append(pipes[c][d], g)]
          /\ pushed' = [pushed EXCEPT ![c][d] = Append(pushed[c][d], g)]
          /\ mailbox' = mailbox /\ batch' = batch /\ hops' = hops /\ handled' = handled
  BY <1>1 DEF Push, Creates
<1> DEFINE P == Pipe(c, d)
           X == Event \ {g}
           n == Len(Queue(P)) + 1
<1>3. Queue(P)' = Append(Queue(P), g) /\ PipesKept({P})
  <2>0. pipes' = [pipes EXCEPT ![c][d] = Append(pipes[c][d], g)]
    BY <1>2
  <2>1. Queue(P)' = Append(pipes[c][d], g) /\ PipesKept({P})
    BY <2>0, PipeUpdated
  <2> QED
    BY <2>1, QueueContents
<1>4. P \in Ids /\ Queue(P) \in Seq(Items) /\ g \in Items \ X
  BY <1>0, QueueNames DEF AreQueues, Items
<1>5. \A r \in Ids \ {P} : Queue(r)' = Queue(r)
  BY <1>2, <1>3, KeptUnchanged, OthersKept
<1>6. Steers(X)
  <2> HIDE DEF P, X
  <2>1. Shift(Queue(P), Queue(P)', X)
    BY <1>3, <1>4, Shifts
  <2> QED
    BY <1>0, <1>4, <1>5, <2>1, OneShift
<1>7. \A q \in Ids : g \notin Held(q)
  BY <1>2 DEF Homes, HomeIffLive
<1>8. /\ n \in Int /\ n \in DOMAIN Queue(P)' /\ Queue(P)'[n] = g
      /\ \A i \in DOMAIN Queue(P)' : i \in Int /\ i <= n /\ (i # n => i \in DOMAIN Queue(P) /\ Queue(P)'[i] = Queue(P)[i])
  <2> HIDE DEF P
  <2> QED
    BY <1>3, <1>4
<1>9. ASSUME NEW q \in Ids, NEW i \in DOMAIN Queue(q)', Queue(q)'[i] = g PROVE q = P /\ i = n
  <2>1. CASE q # P
    BY <1>5, <1>7, <1>9, <2>1 DEF Held, ToSet
  <2>2. CASE q = P /\ i # n
    <3>1. i \in DOMAIN Queue(P) /\ Queue(P)[i] = g
      BY <1>8, <1>9, <2>2
    <3>2. g \in Held(P)
      BY <3>1 DEF Held, ToSet
    <3> QED
      BY <1>4, <1>7, <3>2
  <2> QED
    BY <2>1, <2>2
<1> HIDE DEF n
<1>10. \A x, y \in Cores, e \in Event : Sent(x, y, e) => e \in X
  BY <1>2 DEF OrderInv, Routed
<1>11. ASSUME NEW x \in Cores, NEW y \in Cores
       PROVE  /\ \A e : Sent(x, y, e)' => Sent(x, y, e) \/ (x = c /\ y = d /\ e = g)
              /\ \A e, f : SentBefore(x, y, e, f)' => SentBefore(x, y, e, f) \/ (x = c /\ y = d /\ f = g /\ Sent(x, y, e))
  <2>1. pushed[x][y] \in Seq(Event)
    BY DEF TypeOK
  <2>2. CASE x # c \/ y # d
    <3>1. pushed'[x][y] = pushed[x][y]
      BY <1>2, <2>2 DEF TypeOK
    <3> QED
      BY <3>1 DEF Sent, SentBefore
  <2>3. CASE x = c /\ y = d
    <3>1. pushed'[x][y] = Append(pushed[x][y], g)
      BY <1>2, <2>3 DEF TypeOK
    <3> DEFINE s == pushed[x][y]
               t == pushed'[x][y]
    <3>2. s \in Seq(Event) /\ t = Append(s, g)
      BY <2>1, <3>1
    <3> HIDE DEF s, t
    <3>3. \A i \in DOMAIN t : i \in Int /\ ((i \in DOMAIN s /\ t[i] = s[i]) \/ (i = Len(s) + 1 /\ t[i] = g))
      BY <3>2
    <3>4. \A i, j \in DOMAIN t : i < j => i \in DOMAIN s /\ t[i] = s[i]
      BY <3>2
    <3>5. \A e : (\E i \in DOMAIN t : t[i] = e) => (\E i \in DOMAIN s : s[i] = e) \/ e = g
      BY <3>3
    <3>6. ASSUME NEW e, NEW f, \E i, j \in DOMAIN t : i < j /\ t[i] = e /\ t[j] = f
          PROVE  (\E i, j \in DOMAIN s : i < j /\ s[i] = e /\ s[j] = f) \/ (f = g /\ \E i \in DOMAIN s : s[i] = e)
      BY <3>3, <3>4, <3>6
    <3> QED
      BY <2>3, <3>5, <3>6 DEF s, t, Sent, SentBefore
  <2> QED
    BY <2>2, <2>3
<1>12. ASSUME NEW x \in Cores, NEW y \in Cores, NEW e \in Event PROVE Routed(x, y, e)'
  <2> SUFFICES ASSUME Sent(x, y, e)' PROVE fate'[e] # "unborn" /\ (hops'[e] = 0 => OnRoute(x, y, e)')
    BY DEF Routed
  <2>1. CASE Sent(x, y, e)
    <3>1. e \in X /\ fate[e] # "unborn" /\ (hops[e] = 0 => OnRoute(x, y, e))
      BY <1>10, <2>1 DEF OrderInv, Routed
    <3> QED
      BY <1>2, <1>6, <3>1, FatesGoOn DEF Steers
  <2>2. CASE x = c /\ y = d /\ e = g
    <3>1. OnRoute(c, d, g)'
      BY <1>9, WhereNext
    <3>2. fate'[g] = "live"
      BY <1>2 DEF TypeOK
    <3> QED
      BY <2>2, <3>1, <3>2
  <2> QED
    BY <1>11, <2>1, <2>2
<1>13. ASSUME NEW e \in X, OnRoute(c, d, e) PROVE Ahead(e, g)'
  <2>1. ASSUME NEW q \in Ids, NEW i \in DOMAIN Queue(q)', Queue(q)'[i] = e PROVE Downstream(q, P) \/ (q = P /\ i < n)
    <3>1. CASE q = P
      BY <1>8, <2>1, <3>1
    <3>2. CASE q # P
      <4>1. e \in Held(q)
        BY <1>5, <2>1, <3>2 DEF Held, ToSet
      <4> QED
        BY <1>13, <3>2, <4>1, Ways DEF OnRoute
    <3> QED
      BY <3>1, <3>2
  <2> QED
    BY <2>1, <1>9, WhereNext
<1>14. ASSUME NEW x \in Cores, NEW y \in Cores, NEW e \in Event, NEW f \in Event PROVE Ordered(x, y, e, f)'
  <2> SUFFICES ASSUME SentBefore(x, y, e, f)'
               PROVE  e # f /\ (hops'[e] = 0 /\ hops'[f] = 0 => Ahead(e, f)' /\ Arrived(y, e, f)')
    BY DEF Ordered
  <2>1. CASE SentBefore(x, y, e, f)
    <3>1. Sent(x, y, e) /\ Sent(x, y, f)
      BY <2>1 DEF Sent, SentBefore
    <3>2. e \in X /\ f \in X /\ fate[e] # "unborn" /\ e # f /\ (hops[e] = 0 /\ hops[f] = 0 => Ahead(e, f) /\ Arrived(y, e, f))
      BY <1>10, <2>1, <3>1 DEF OrderInv, Ordered, Routed
    <3>3. Arrived(y, e, f) => Arrived(y, e, f)'
      BY <1>2, <3>2, FatesGoOn DEF Arrived
    <3> QED
      BY <1>2, <1>6, <3>2, <3>3 DEF Steers
  <2>2. CASE x = c /\ y = d /\ f = g /\ Sent(x, y, e)
    <3>1. e \in X /\ (hops[e] = 0 => OnRoute(c, d, e))
      BY <1>10, <2>2 DEF OrderInv, Routed
    <3>2. \A n_ \in DOMAIN handled'[d] : handled'[d][n_] # g
      BY <1>2 DEF OrderInv, HandledOnly
    <3>3. Arrived(d, e, g)'
      BY <3>2 DEF Arrived
    <3> QED
      BY <1>2, <1>13, <2>2, <3>1, <3>3
  <2> QED
    BY <1>11, <2>1, <2>2
<1>15. HandledOnly'
  <2>1. ASSUME NEW x \in Cores, NEW m \in DOMAIN handled[x] PROVE fate'[handled[x][m]] # "unborn"
    <3>0. handled[x] \in Seq(Event)
      BY DEF TypeOK
    <3>1. handled[x][m] \in Event /\ fate[handled[x][m]] # "unborn"
      BY <2>1, <3>0 DEF OrderInv, HandledOnly
    <3> QED
      BY <3>1, FatesGoOn
  <2> QED
    BY <1>0, <1>2, <2>1 DEF HandledOnly
<1> QED
  BY <1>0, <1>12, <1>14, <1>15 DEF OrderInv

\* The loops pass over the core's own pipe and ring.
LEMMA ElsewhereStep ==
    ASSUME TypeOK, NEW c \in Cores, Elsewhere(c), Work(c) \/ Act(c) \/ Throw(c)
    PROVE  Elsewhere(c)'
<1>0. \A i \in 0 .. NbCore : Peer(c, i) # c /\ Peer(c, i + 1) # c
  BY MessagingAssumption DEF Peer, Cores
<1>1. Peer(c, 0) # c /\ Peer(c, at[c] + 1) # c
  BY <1>0, MessagingAssumption DEF TypeOK
<1> USE DEF TypeOK, Elsewhere
<1>2. CASE Poll(c) \/ FlushNextPipe(c) \/ FlushGiveUp(c) \/ OwnPipeDone(c) \/ NextRing(c) \/ ReceiveEnd(c)
  BY <1>1, <1>2 DEF Poll, FlushNextPipe, FlushGiveUp, OwnPipeDone, NextRing, ReceiveEnd, Goto
<1>3. CASE FlushSend(c) \/ FlushOversize(c) \/ FlushDrop(c)
  <2>1. PICK e : FlushStep(c, e)
    BY <1>3 DEF FlushSend, FlushOversize, FlushDrop
  <2> QED
    BY <2>1 DEF FlushStep
<1>4. CASE FlushMalformed(c) \/ HandleEvent(c) \/ RouteNowhere(c) \/ AbortBatch(c) \/ HandleSignal(c) \/ Push(c) \/ Send(c)
  BY <1>4 DEF FlushMalformed, HandleEvent, RouteNowhere, AbortBatch, HandleSignal, Push, Send, thread
<1>5. CASE FlushEnd(c) \/ SwapOwnPipe(c) \/ Tick(c) \/ Reap(c) \/ Residual(c) \/ Halt(c) \/ Throw(c)
  BY <1>5 DEF FlushEnd, SwapOwnPipe, Tick, Reap, Residual, Halt, Throw, Goto
<1>6. ASSUME NEW d \in Cores, Relay(c, d) PROVE Elsewhere(c)'
  BY <1>6 DEF Relay, thread
<1> QED
  BY <1>2, <1>3, <1>4, <1>5, <1>6 DEF Work, Act

\* Those of the other cores do not move.
LEMMA ElsewhereAll ==
    ASSUME TypeOK, \A c \in Cores : Elsewhere(c), Next
    PROVE  \A c \in Cores : Elsewhere(c)'
<1>1. CASE Stop \/ Join
  BY <1>1 DEF Stop, Join, thread, Elsewhere
<1>2. ASSUME NEW c \in Cores, Work(c) \/ Act(c) \/ Throw(c), NEW x \in Cores PROVE Elsewhere(x)'
  <2>1. CASE x = c
    BY <1>2, <2>1, ElsewhereStep
  <2>2. CASE x # c
    BY <1>2, <2>2, OthersLocal DEF Local, Elsewhere
  <2> QED
    BY <2>1, <2>2
<1> QED
  BY <1>1, <1>2 DEF Next

\* A dispatched event moves, and no other.
LEMMA DispatchSteers ==
    ASSUME TypeOK, AreQueues, NEW c \in Cores, NEW d \in Cores, NEW e \in Event, Dispatch(c, d, e),
           batch' = batch \/ (batch[c] # <<>> /\ PopBatch(c))
    PROVE  Steers(Event \ {e})
<1>1. PICK p \in {Pipe(c, d), Ring(c, d)} : Joins(e, p) /\ PipesKept({p}) /\ RingsKept({p})
  BY DispatchJoins
<1> DEFINE q == Batch(c)
           X == Event \ {e}
<1>2. p \in Ids /\ q \in Ids /\ p # q /\ e \in Items \ X
  BY QueueNames DEF Items
<1>3. BatchesKept({q}) /\ (Queue(q)' = Queue(q) \/ (Queue(q) # <<>> /\ Queue(q)' = Tail(Queue(q))))
  <2>1. CASE batch' = batch
    BY <2>1, KeptUnchanged, QueueContents, QueueContentsNext
  <2>2. CASE batch[c] # <<>> /\ PopBatch(c)
    BY <2>2, BatchUpdated, QueueContents DEF PopBatch
  <2> QED
    BY <2>1, <2>2
<1>4. \A r \in Ids \ {p, q} : Queue(r)' = Queue(r)
  <2>1. {p} \subseteq {p, q} /\ {q} \subseteq {p, q}
    OBVIOUS
  <2> HIDE DEF q
  <2> QED
    BY <1>1, <1>3, <2>1, KeptMore, OthersKept
<1> HIDE DEF q, X
<1>5. ASSUME NEW r \in Ids PROVE Shift(Queue(r), Queue(r)', X)
  <2>1. Queue(r) \in Seq(Items)
    BY DEF AreQueues
  <2>2. CASE r = p
    BY <1>1, <1>2, <2>1, <2>2, Shifts DEF Joins
  <2>3. CASE r = q
    BY <1>3, <2>1, <2>3, Shifts
  <2>4. CASE r \notin {p, q}
    BY <1>4, <2>1, <2>4, Shifts
  <2> QED
    BY <2>2, <2>3, <2>4
<1>6. Steers(X)
  BY <1>5, ShiftSteers
<1> QED
  BY <1>6 DEF X

\* The head of a queue leaves it for good.
LEMMA HeadLeaves ==
    ASSUME AreQueues, NEW q \in Ids, Queue(q) # <<>>, Queue(q)' = Tail(Queue(q)),
           \A r \in Ids \ {q} : Queue(r)' = Queue(r)
    PROVE  Steers(Event)
<1>1. Shift(Queue(q), Queue(q)', Event)
  BY Shifts DEF AreQueues
<1> QED
  BY <1>1, OneShift

\* The steps of a core's loop that leave the histories alone keep the events on
\* their ways and in their order.
LEMMA WorkSteers ==
    ASSUME TypeOK, AreQueues, Homes, Controlled, NEW c \in Cores, Elsewhere(c), Work(c)
    PROVE  Steers(Event)
<1>1. CASE Poll(c)
  <2>1. CASE stop /\ ~signalled[c]
    <3> DEFINE q == Pipe(c, c)
    <3>1. pipes' = [pipes EXCEPT ![c][c] = Append(pipes[c][c], Sig)] /\ mailbox' = mailbox /\ batch' = batch
      BY <1>1, <2>1 DEF Poll
    <3>2. Queue(q)' = Append(Queue(q), Sig) /\ PipesKept({q})
      <4>1. Queue(q)' = Append(pipes[c][c], Sig) /\ PipesKept({q})
        BY <3>1, PipeUpdated
      <4> QED
        BY <4>1, QueueContents
    <3>3. q \in Ids /\ Queue(q) \in Seq(Items) /\ Sig \in Items \ Event
      BY QueueNames, MessagingAssumption DEF AreQueues, Items
    <3>4. \A r \in Ids \ {q} : Queue(r)' = Queue(r)
      BY <3>1, <3>2, KeptUnchanged, OthersKept
    <3> HIDE DEF q
    <3>5. Shift(Queue(q), Queue(q)', Event)
      BY <3>2, <3>3, Shifts
    <3> QED
      BY <3>3, <3>4, <3>5, OneShift
  <2>2. CASE ~(stop /\ ~signalled[c])
    <3>1. UNCHANGED <<pipes, mailbox, batch>>
      BY <1>1, <2>2 DEF Poll
    <3>2. \A r \in Ids : Queue(r)' = Queue(r)
      BY <3>1 DEF Queue
    <3> QED
      BY <3>2, EmptiedSteers
  <2> QED
    BY <2>1, <2>2
<1>2. CASE \/ FlushNextPipe(c) \/ FlushGiveUp(c) \/ FlushEnd(c) \/ OwnPipeDone(c) \/ ReceiveEnd(c)
           \/ Tick(c) \/ Reap(c) \/ Halt(c)
  <2>1. UNCHANGED <<pipes, mailbox, batch>>
    BY <1>2 DEF FlushNextPipe, FlushGiveUp, FlushEnd, OwnPipeDone, ReceiveEnd, Tick, Reap, Halt, queues
  <2>2. \A r \in Ids : Queue(r)' = Queue(r)
    BY <2>1 DEF Queue
  <2> QED
    BY <2>2, EmptiedSteers
<1>3. CASE FlushSend(c)
  <2>1. PICK e \in Event : /\ FlushHead(c, e) /\ FlushStep(c, e)
                           /\ mailbox' = [mailbox EXCEPT ![at[c]][c] = Append(mailbox[at[c]][c], e)]
    BY <1>3 DEF FlushSend, Enqueue
  <2>2. PICK d \in Cores :
            /\ d = at[c] /\ Queue(Pipe(c, d)) # <<>> /\ e = Head(Queue(Pipe(c, d)))
            /\ Queue(Pipe(c, d))' = Tail(Queue(Pipe(c, d)))
            /\ PipesKept({Pipe(c, d)}) /\ BatchesKept({Pipe(c, d)})
    BY <2>1, FlushHomes
  <2> DEFINE q == Pipe(c, d)
             p == Ring(c, d)
  <2>3. c # d
    BY <2>1, <2>2 DEF Elsewhere, FlushHead
  <2>4. Queue(p)' = Append(Queue(p), e) /\ RingsKept({p})
    <3>1. mailbox' = [mailbox EXCEPT ![d][c] = Append(mailbox[d][c], e)]
      BY <2>1, <2>2
    <3>2. Queue(p)' = Append(mailbox[d][c], e) /\ RingsKept({p})
      BY <3>1, RingUpdated
    <3> QED
      BY <3>2, QueueContents
  <2>5. \A r \in Ids \ {q, p} : Queue(r)' = Queue(r)
    <3>1. {p} \subseteq {q, p} /\ {q} \subseteq {q, p} /\ PipesKept({q}) /\ BatchesKept({q})
      BY <2>2
    <3> HIDE DEF p, q
    <3> QED
      BY <2>4, <3>1, KeptMore, OthersKept
  <2> QED
    BY <2>2, <2>3, <2>4, <2>5, FlushSteers
<1>4. CASE FlushOversize(c) \/ FlushDrop(c)
  <2>1. PICK e \in Event : FlushHead(c, e) /\ FlushStep(c, e) /\ mailbox' = mailbox
    BY <1>4 DEF FlushOversize, FlushDrop
  <2>2. PICK q \in Ids :
            /\ Queue(q) # <<>> /\ Queue(q)' = Tail(Queue(q)) /\ PipesKept({q}) /\ BatchesKept({q})
    BY <2>1, FlushHomes
  <2>3. \A r \in Ids \ {q} : Queue(r)' = Queue(r)
    BY <2>1, <2>2, KeptUnchanged, OthersKept
  <2> QED
    BY <2>2, <2>3, HeadLeaves
<1>5. CASE FlushMalformed(c)
  <2>1. PICK d \in Cores : d = at[c]
    BY <1>5, PeerBounds DEF FlushMalformed, FlushHead, TypeOK
  <2> DEFINE q == Pipe(c, d)
  <2>2. pipes' = [pipes EXCEPT ![c][d] = <<>>] /\ mailbox' = mailbox /\ batch' = batch
    BY <1>5, <2>1 DEF FlushMalformed
  <2>3. Queue(q)' = <<>> /\ PipesKept({q})
    BY <2>2, PipeUpdated
  <2> HIDE DEF q
  <2>4. \A r \in Ids \ {q} : Queue(r)' = Queue(r)
    BY <2>2, <2>3, KeptUnchanged, OthersKept
  <2> QED
    BY <2>3, <2>4, EmptiedSteers
<1>6. CASE SwapOwnPipe(c)
  <2> DEFINE q == Pipe(c, c)
             p == Batch(c)
  <2>1. /\ batch' = [batch EXCEPT ![c] = pipes[c][c]] /\ pipes' = [pipes EXCEPT ![c][c] = <<>>]
        /\ mailbox' = mailbox /\ batch[c] = <<>>
    BY <1>6 DEF SwapOwnPipe, Controlled, Control
  <2>2. Queue(q)' = <<>> /\ Queue(p)' = Queue(q) /\ Queue(p) = <<>> /\ PipesKept({q}) /\ BatchesKept({p})
    <3>1. Queue(q)' = <<>> /\ PipesKept({q})
      BY <2>1, PipeUpdated
    <3>2. Queue(p)' = pipes[c][c] /\ BatchesKept({p})
      BY <2>1, BatchUpdated
    <3> QED
      BY <2>1, <3>1, <3>2, QueueContents
  <2>3. \A r \in Ids \ {p, q} : Queue(r)' = Queue(r)
    <3>1. {p} \subseteq {p, q} /\ {q} \subseteq {p, q}
      OBVIOUS
    <3> HIDE DEF p, q
    <3> QED
      BY <2>1, <2>2, <3>1, KeptMore, KeptUnchanged, OthersKept
  <2> QED
    BY <2>2, <2>3, BatchSteers
<1>7. CASE NextRing(c)
  <2>1. PICK d \in Cores : d = at[c] /\ d # c
    BY <1>7, PeerBounds DEF NextRing, TypeOK, Elsewhere
  <2> DEFINE q == Ring(d, c)
             p == Batch(c)
  <2>2. /\ batch' = [batch EXCEPT ![c] = mailbox[c][d]] /\ mailbox' = [mailbox EXCEPT ![c][d] = <<>>]
        /\ pipes' = pipes /\ batch[c] = <<>>
    BY <1>7, <2>1 DEF NextRing
  <2>3. Queue(q)' = <<>> /\ Queue(p)' = Queue(q) /\ Queue(p) = <<>> /\ RingsKept({q}) /\ BatchesKept({p})
    <3>1. Queue(q)' = <<>> /\ RingsKept({q})
      BY <2>2, RingUpdated
    <3>2. Queue(p)' = mailbox[c][d] /\ BatchesKept({p})
      BY <2>2, BatchUpdated
    <3> QED
      BY <2>2, <3>1, <3>2, QueueContents
  <2>4. \A r \in Ids \ {p, q} : Queue(r)' = Queue(r)
    <3>1. {p} \subseteq {p, q} /\ {q} \subseteq {p, q}
      OBVIOUS
    <3> HIDE DEF p, q
    <3> QED
      BY <2>2, <2>3, <3>1, KeptMore, KeptUnchanged, OthersKept
  <2> QED
    BY <2>1, <2>3, <2>4, BatchSteers
<1>8. CASE HandleEvent(c) \/ RouteNowhere(c) \/ HandleSignal(c)
  <2>1. PICK e \in Items : Incoming(c, e) /\ PopBatch(c) /\ pipes' = pipes /\ mailbox' = mailbox
    BY <1>8 DEF HandleEvent, RouteNowhere, HandleSignal, Items
  <2>2. /\ Batch(c) \in Ids /\ Queue(Batch(c)) # <<>> /\ Queue(Batch(c))' = Tail(Queue(Batch(c)))
        /\ \A r \in Ids \ {Batch(c)} : Queue(r)' = Queue(r)
    BY <2>1, BatchHomes
  <2> QED
    BY <2>2, HeadLeaves
<1>9. CASE AbortBatch(c)
  <2> DEFINE q == Batch(c)
  <2>1. batch' = [batch EXCEPT ![c] = <<>>] /\ mailbox' = mailbox /\ pipes' = pipes
    BY <1>9 DEF AbortBatch
  <2>2. Queue(q)' = <<>> /\ BatchesKept({q})
    BY <2>1, BatchUpdated
  <2> HIDE DEF q
  <2>3. \A r \in Ids \ {q} : Queue(r)' = Queue(r)
    BY <2>1, <2>2, KeptUnchanged, OthersKept
  <2> QED
    BY <2>2, <2>3, EmptiedSteers
<1>10. CASE Residual(c)
  <2> DEFINE gone == {d \in Cores \ {c} : stopped[d]}
             G == {Pipe(c, d) : d \in gone}
  <2>1. /\ mailbox' = mailbox /\ batch' = batch
        /\ pipes' = [pipes EXCEPT ![c] = [d \in Cores |-> IF d \in gone THEN <<>> ELSE pipes[c][d]]]
    BY <1>10 DEF Residual
  <2>2. /\ \A d \in Cores : pipes'[c][d] = IF d \in gone THEN <<>> ELSE pipes[c][d]
        /\ \A x, y \in Cores : x # c => pipes'[x][y] = pipes[x][y]
    BY <2>1 DEF TypeOK
  <2>3. \A q \in G : Queue(q)' = <<>>
    BY <2>2, QueueContentsNext
  <2>4. PipesKept(G)
    BY <2>2 DEF PipesKept
  <2> HIDE DEF G
  <2>5. \A r \in Ids \ G : Queue(r)' = Queue(r)
    BY <2>1, <2>4, KeptUnchanged, OthersKept
  <2> QED
    BY <2>3, <2>5, EmptiedSteers
<1> QED
  BY <1>1, <1>2, <1>3, <1>4, <1>5, <1>6, <1>7, <1>8, <1>9, <1>10 DEF Work

\* Every step keeps the order of the pushes.
LEMMA OrderStep == ASSUME IInv, IInv', OrderInv, Next PROVE OrderInv'
<1>1. TypeOK /\ TypeOK' /\ Homes /\ Controlled /\ AreQueues
  BY QueuesStay DEF IInv
<1>2. \A e \in Event : Settlement(e)
  BY <1>1, FateStep
<1>3. \A c \in Cores : Elsewhere(c) /\ Elsewhere(c)'
  BY <1>1, ElsewhereAll DEF OrderInv
<1>4. hops \in [Event -> Nat] /\ Event \in SUBSET Event
  BY <1>1 DEF TypeOK
<1>5. ASSUME Steers(Event), hops' = hops, pushed' = pushed,
             handled' = handled \/ \E d \in Cores, g \in Event : Delivers(d, g)
      PROVE  OrderInv'
  BY <1>1, <1>2, <1>3, <1>4, <1>5, OrderKept
<1>6. CASE Stop
  <2>1. \A r \in Ids : Queue(r)' = Queue(r)
    BY <1>6 DEF Stop, queues, Queue
  <2>2. Steers(Event)
    BY <1>1, <2>1, EmptiedSteers
  <2> QED
    BY <1>5, <1>6, <2>2 DEF Stop, history
<1>7. CASE Join
  <2> DEFINE G == {q \in Ids : \E c, d \in Cores : q = Ring(c, d)}
  <2>1. pipes' = pipes /\ batch' = batch /\ mailbox' = [d \in Cores |-> [c \in Cores |-> <<>>]]
    BY <1>7 DEF Join
  <2>2. \A q \in G : Queue(q)' = <<>>
    BY <2>1, QueueContentsNext
  <2>3. RingsKept(G)
    BY QueueNames DEF RingsKept
  <2> HIDE DEF G
  <2>4. \A r \in Ids \ G : Queue(r)' = Queue(r)
    BY <2>1, <2>3, KeptUnchanged, OthersKept
  <2>5. Steers(Event)
    BY <1>1, <2>2, <2>4, EmptiedSteers
  <2> QED
    BY <1>5, <1>7, <2>5 DEF Join
<1>8. ASSUME NEW c \in Cores, Throw(c) PROVE OrderInv'
  <2> DEFINE G == {Pipe(c, d) : d \in Cores}
  <2>1. mailbox' = mailbox /\ batch' = batch /\ pipes' = [pipes EXCEPT ![c] = [d \in Cores |-> <<>>]]
    BY <1>8 DEF Throw
  <2>2. /\ \A d \in Cores : pipes'[c][d] = <<>>
        /\ \A x, y \in Cores : x # c => pipes'[x][y] = pipes[x][y]
    BY <1>1, <2>1 DEF TypeOK
  <2>3. \A q \in G : Queue(q)' = <<>>
    BY <2>2, QueueContentsNext
  <2>4. PipesKept(G)
    BY <2>2 DEF PipesKept
  <2> HIDE DEF G
  <2>5. \A r \in Ids \ G : Queue(r)' = Queue(r)
    BY <2>1, <2>4, KeptUnchanged, OthersKept
  <2>6. Steers(Event)
    BY <1>1, <2>3, <2>5, EmptiedSteers
  <2> QED
    BY <1>5, <1>8, <2>6 DEF Throw
<1>9. ASSUME NEW c \in Cores, Work(c) PROVE OrderInv'
  <2>1. Steers(Event)
    BY <1>1, <1>3, <1>9, WorkSteers
  <2>2. CASE HandleEvent(c)
    <3>1. PICK e \in Event : Incoming(c, e) /\ handled' = [handled EXCEPT ![c] = Append(handled[c], e)]
      BY <2>2 DEF HandleEvent
    <3>2. Delivers(c, e)
      BY <3>1, QueueContents DEF Delivers, Incoming
    <3>3. hops' = hops /\ pushed' = pushed
      BY <2>2 DEF HandleEvent
    <3> QED
      BY <1>5, <2>1, <3>2, <3>3
  <2>3. CASE ~HandleEvent(c)
    <3>1. hops' = hops /\ pushed' = pushed /\ handled' = handled
      BY <1>9, <2>3 DEF Work, Poll, FlushNextPipe, FlushSend, FlushOversize, FlushDrop, FlushMalformed, FlushGiveUp,
                FlushStep, FlushEnd, SwapOwnPipe, OwnPipeDone, NextRing, ReceiveEnd, RouteNowhere, AbortBatch,
                HandleSignal, Tick, Reap, Residual, Halt, history
    <3> QED
      BY <1>5, <2>1, <3>1
  <2> QED
    BY <2>2, <2>3
<1>10. ASSUME NEW c \in Cores, Push(c) PROVE OrderInv'
  BY <1>1, <1>2, <1>3, <1>10, PushOrder
<1>11. ASSUME NEW c \in Cores, Send(c) PROVE OrderInv'
  <2>1. PICK e \in Event : fate[e] = "unborn" /\ Dispatch(c, dest[e], e) /\ batch' = batch
    BY <1>11 DEF Send, Creates
  <2>2. dest[e] \in Cores
    BY MessagingAssumption DEF Cores
  <2> DEFINE X == Event \ {e}
  <2>3. Steers(X)
    BY <1>1, <2>1, <2>2, DispatchSteers
  <2>4. X \in SUBSET Event /\ \A f \in Event \ X : fate[f] = "unborn"
    BY <2>1
  <2> HIDE DEF X
  <2>5. hops' = hops /\ pushed' = pushed /\ handled' = handled
    BY <1>11 DEF Send
  <2> QED
    BY <1>1, <1>2, <1>3, <2>3, <2>4, <2>5, OrderKept
<1>12. ASSUME NEW c \in Cores, NEW d \in Cores, Relay(c, d) PROVE OrderInv'
  <2>1. PICK e \in Event : /\ Incoming(c, e) /\ PopBatch(c) /\ Dispatch(c, d, e)
                           /\ handled' = [handled EXCEPT ![c] = Append(handled[c], e)]
                           /\ hops' = [hops EXCEPT ![e] = hops[e] + 1]
    BY <1>12 DEF Relay
  <2>2. Delivers(c, e)
    BY <2>1, QueueContents DEF Delivers, Incoming
  <2> DEFINE X == Event \ {e}
  <2>3. Steers(X)
    BY <1>1, <2>1, DispatchSteers DEF Incoming
  <2>4. hops'[e] # 0 /\ \A f \in X : hops'[f] = hops[f]
    BY <1>4, <2>1
  <2>5. X \in SUBSET Event /\ (\A f \in Event \ X : hops'[f] # 0) /\ \A f \in Event : hops'[f] = 0 => hops[f] = 0
    BY <2>4
  <2> HIDE DEF X
  <2>6. pushed' = pushed
    BY <1>12 DEF Relay
  <2> QED
    BY <1>1, <1>2, <1>3, <2>2, <2>3, <2>5, <2>6, OrderKept
<1> QED
  BY <1>6, <1>7, <1>8, <1>9, <1>10, <1>11, <1>12 DEF Next, Act

\* Of two events that one core pushes to another, and that were not relayed, the
\* first is handled first: for any number of cores, any ring capacity, any retry of
\* a partial flush and any send() or relay that overtakes them.
THEOREM PushesStayInOrder == Spec => []PushesArriveInOrder
<1>1. ASSUME Init PROVE OrderInv
  <2>1. \A c, d \in Cores : DOMAIN pushed[c][d] = {} /\ DOMAIN handled[d] = {}
    BY <1>1 DEF Init
  <2>2. \A c, d \in Cores, e, f \in Event : ~Sent(c, d, e) /\ ~SentBefore(c, d, e, f)
    BY <2>1 DEF Sent, SentBefore
  <2> QED
    BY <1>1, <2>1, <2>2 DEF OrderInv, HandledOnly, Routed, Ordered, Elsewhere, Init
<1>2. ASSUME IInv, IInv', OrderInv, [Next]_vars PROVE OrderInv'
  <2>1. CASE UNCHANGED vars
    <3>1. \A r \in Ids : Queue(r)' = Queue(r)
      BY <2>1 DEF vars, Queue
    <3>2. TypeOK /\ Homes /\ AreQueues /\ Event \in SUBSET Event
      BY <1>2, QueuesStay DEF IInv
    <3>3. Steers(Event)
      BY <3>1, <3>2, EmptiedSteers
    <3>4. /\ \A e \in Event : Settlement(e)
          /\ \A c \in Cores : Elsewhere(c)'
          /\ hops' = hops /\ pushed' = pushed /\ handled' = handled
      BY <1>2, <2>1 DEF vars, Settlement, OrderInv, Elsewhere
    <3> QED
      BY <1>2, <3>2, <3>3, <3>4, OrderKept
  <2> QED
    BY <1>2, <2>1, OrderStep
<1>3. ASSUME IInv, OrderInv PROVE PushesArriveInOrder
  <2> SUFFICES ASSUME NEW c \in Cores, NEW d \in Cores, NEW i \in 1 .. Len(pushed[c][d]), NEW j \in 1 .. Len(pushed[c][d]),
                      NEW e, NEW f, e = pushed[c][d][i], f = pushed[c][d][j],
                      i < j, f \in ToSet(handled[d]), hops[e] = 0, hops[f] = 0
               PROVE  /\ fate[e] # "live"
                      /\ e \in ToSet(handled[d]) => Position(handled[d], e) < Position(handled[d], f)
    BY DEF PushesArriveInOrder
  <2>1. pushed[c][d] \in Seq(Event) /\ handled[d] \in Seq(Event)
    BY <1>3 DEF IInv, TypeOK
  <2>2. e \in Event /\ f \in Event /\ i \in DOMAIN pushed[c][d] /\ j \in DOMAIN pushed[c][d]
    BY <2>1
  <2>3. Arrived(d, e, f)
    <3>1. SentBefore(c, d, e, f)
      BY <2>2 DEF SentBefore
    <3> QED
      BY <1>3, <2>2, <3>1 DEF OrderInv, Ordered
  <2>4. \A x \in ToSet(handled[d]) : Position(handled[d], x) \in DOMAIN handled[d] /\ handled[d][Position(handled[d], x)] = x
    <3>1. \A x \in ToSet(handled[d]) : \E n \in 1 .. Len(handled[d]) : handled[d][n] = x
      BY <2>1 DEF ToSet
    <3> QED
      BY <2>1, <3>1 DEF Position
  <2> QED
    BY <2>3, <2>4 DEF Arrived
<1>4. IInv /\ IInv' /\ OrderInv /\ [Next]_vars => OrderInv'
  BY <1>2
<1>5. IInv /\ OrderInv => PushesArriveInOrder
  BY <1>3
<1> QED
  BY <1>1, <1>4, <1>5, MessagingInvariant, PTL DEF Spec
=============================================================================
