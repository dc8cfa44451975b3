---------------------------- MODULE ChannelProofs ----------------------------
(***************************************************************************)
(* A channel loses no message, delivers none twice and queues no handle    *)
(* that is gone, for any number of channels, senders and receivers, any    *)
(* capacity, with timers and selects, and whichever frames are destroyed.  *)
(*                                                                         *)
(* None of the three properties is inductive.  What the queues of every    *)
(* channel hold follows from where the coroutines are (LinesInv); which    *)
(* message is where, from every offered one having one home (Homes); and   *)
(* that no slot goes unclaimed, from the senders already woken counting    *)
(* against the room and the receivers that wait (Claimed).                 *)
(***************************************************************************)
EXTENDS CoroChannel, QueueTheorems

-----------------------------------------------------------------------------
(* Queues with stale entries *)

\* Who still waits in queue q.
Waiting(q) == Range(q) \ {Stale}

\* Nobody waits in it twice.
Once(q) == \A i, j \in DOMAIN q : q[i] = q[j] /\ q[i] # Stale => i = j

\* The first of some positions.
LEMMA FirstPosition ==
    ASSUME NEW n \in Nat, NEW S \in SUBSET (1..n), S # {}
    PROVE  Min(S) \in S /\ \A i \in S : Min(S) <= i
<1> DEFINE rank == [i \in S |-> Cardinality({j \in S : j <= i})]
<1>1. IsFiniteSet(S) /\ Cardinality(S) \in Nat /\ rank \in Bijection(S, 1..Cardinality(S))
  BY RankIsBijection
<1>2. Cardinality(S) # 0
  BY <1>1, FS_EmptySet
<1>3. PICK m \in S : rank[m] = 1
  BY <1>1, <1>2 DEF Bijection, Surjection
<1>4. \A i \in S : m <= i
  <2> SUFFICES ASSUME NEW i \in S, ~(m <= i) PROVE FALSE
    OBVIOUS
  <2>1. i \in Nat /\ m \in Nat /\ i < m
    OBVIOUS
  <2>2. {i, m} \subseteq {j \in S : j <= m} /\ i # m
    BY <2>1
  <2>3. IsFiniteSet({j \in S : j <= m})
    BY <1>1, FS_Subset
  <2>4. Cardinality({i, m}) <= Cardinality({j \in S : j <= m})
    BY <2>2, <2>3, FS_Subset
  <2>5. Cardinality({i, m}) = 2
    <3>1. IsFiniteSet({i}) /\ Cardinality({i}) = 1
      BY FS_Singleton
    <3>2. Cardinality({i} \cup {m}) = 2
      BY <3>1, <2>2, FS_AddElement
    <3>3. {i} \cup {m} = {i, m}
      OBVIOUS
    <3> QED  BY <3>2, <3>3
  <2>6. Cardinality({j \in S : j <= m}) = 1
    BY SMTT(40), <1>3
  <2> QED  BY <2>4, <2>5, <2>6
<1> QED
  BY <1>4 DEF Min

\* What is left of a queue behind position m.
LEMMA RestOfQueue ==
    ASSUME NEW S, NEW q \in Seq(S), NEW m \in 1..Len(q)
    PROVE  LET r == SubSeq(q, m + 1, Len(q))
           IN  /\ r \in Seq(S) /\ Len(r) = Len(q) - m /\ DOMAIN r = 1..(Len(q) - m)
               /\ \A i \in 1..(Len(q) - m) : r[i] = q[i + m]
<1> DEFINE r == SubSeq(q, m + 1, Len(q))
<1>1. Len(q) \in Nat /\ DOMAIN q = 1..Len(q) /\ m \in Nat /\ m <= Len(q)
  OBVIOUS
<1>2. r = [i \in 1..(Len(q) - m) |-> q[i + m]]
  BY <1>1
<1>3. r \in Seq(S) /\ Len(r) = Len(q) - m
  <2>1. \A i \in 1..(Len(q) - m) : q[i + m] \in S
    BY <1>1
  <2>2. Len(q) - m \in Nat
    BY <1>1
  <2>3. r \in [1..(Len(q) - m) -> S]
    BY <1>2, <2>1
  <2> HIDE DEF r
  <2>4. r \in Seq(S)
    BY <2>2, <2>3
  <2>5. DOMAIN r = 1..(Len(q) - m)
    BY <2>3
  <2> QED  BY <2>2, <2>4, <2>5
<1> HIDE DEF r
<1> QED
  BY <1>1, <1>2, <1>3 DEF r

\* FirstLive finds the first who waits; what is behind it is left.
LEMMA FirstLiveIsTrue ==
    ASSUME NEW T, Stale \notin T, NEW q \in Seq(T \cup {Stale}), Once(q)
    PROVE  /\ AfterLive(q) \in Seq(T \cup {Stale}) /\ Once(AfterLive(q))
           /\ FirstLive(q) = 0 <=> Waiting(q) = {}
           /\ FirstLive(q) = 0 => AfterLive(q) = <<>> /\ Waiting(AfterLive(q)) = {}
           /\ FirstLive(q) # 0 =>
                 /\ FirstLive(q) \in DOMAIN q
                 /\ q[FirstLive(q)] \in Waiting(q) /\ q[FirstLive(q)] \in T
                 /\ Waiting(AfterLive(q)) = Waiting(q) \ {q[FirstLive(q)]}
<1> DEFINE live == {i \in 1..Len(q) : q[i] # Stale}
           f == FirstLive(q)
<1>1. Len(q) \in Nat /\ DOMAIN q = 1..Len(q) /\ \A i \in 1..Len(q) : q[i] \in T \cup {Stale}
  OBVIOUS
<1>2. CASE live = {}
  <2>1. f = 0 /\ AfterLive(q) = <<>>
    BY <1>2 DEF FirstLive, AfterLive
  <2>2. Waiting(q) = {}
    BY <1>1, <1>2 DEF Waiting, Range
  <2>3. Once(<<>>) /\ Waiting(<<>>) = {} /\ <<>> \in Seq(T \cup {Stale})
    BY EmptyQueue DEF Once, Waiting
  <2> QED  BY <2>1, <2>2, <2>3
<1>3. CASE live # {}
  <2>1. f = Min(live)
    BY <1>3 DEF FirstLive
  <2>2. f \in live /\ \A i \in live : f <= i
    <3>1. live \in SUBSET (1..Len(q))
      OBVIOUS
    <3> HIDE DEF live
    <3>2. Min(live) \in live /\ \A i \in live : Min(live) <= i
      BY <1>1, <1>3, <3>1, FirstPosition
    <3> QED  BY <2>1, <3>2
  <2>3. f \in 1..Len(q) /\ q[f] # Stale /\ f # 0
    BY <2>2
  <2> DEFINE r == AfterLive(q)
  <2>4. r = SubSeq(q, f + 1, Len(q))
    BY <2>3 DEF AfterLive
  <2>5. /\ r \in Seq(T \cup {Stale}) /\ Len(r) = Len(q) - f /\ DOMAIN r = 1..(Len(q) - f)
        /\ \A i \in 1..(Len(q) - f) : r[i] = q[i + f]
    BY <1>1, <2>3, <2>4, RestOfQueue
  <2>6. Once(r)
    <3> SUFFICES ASSUME NEW i \in DOMAIN r, NEW j \in DOMAIN r, r[i] = r[j], r[i] # Stale
                 PROVE  i = j
      BY DEF Once
    <3>1. i + f \in DOMAIN q /\ j + f \in DOMAIN q /\ q[i + f] = q[j + f] /\ q[i + f] # Stale
      BY <2>3, <2>5, <1>1
    <3>2. i + f = j + f
      BY <3>1 DEF Once
    <3> QED  BY <3>2, <2>3, <2>5, <1>1
  <2>7. q[f] \in Waiting(q) /\ q[f] \in T
    BY <2>3, <1>1 DEF Waiting, Range
  <2>8. ASSUME NEW c \in Waiting(r) PROVE c \in Waiting(q) \ {q[f]}
    <3>1. PICK i \in DOMAIN r : c = r[i] /\ c # Stale
      BY <2>8 DEF Waiting, Range
    <3>2. i + f \in DOMAIN q /\ c = q[i + f] /\ i + f # f
      BY <3>1, <2>3, <2>5, <1>1
    <3>3. c # q[f]
      BY <3>1, <3>2, <2>3, <1>1 DEF Once
    <3> QED  BY <3>1, <3>2, <3>3 DEF Waiting, Range
  <2>9. ASSUME NEW c \in Waiting(q) \ {q[f]} PROVE c \in Waiting(r)
    <3>1. PICK i \in DOMAIN q : c = q[i] /\ c # Stale
      BY <2>9 DEF Waiting, Range
    <3>2. i \in live /\ i # f
      BY <3>1, <1>1, <2>9
    <3>3. i \in 1..Len(q) /\ f < i
      BY <3>2, <2>2, <2>3
    <3>4. i - f \in DOMAIN r /\ r[i - f] = q[i]
      BY SMTT(40), <3>3, <2>3, <2>5, <1>1
    <3> QED  BY <3>1, <3>4 DEF Waiting, Range
  <2> HIDE DEF f, r
  <2> QED  BY <2>3, <2>5, <2>6, <2>7, <2>8, <2>9, <1>1 DEF f, r
<1> QED
  BY <1>2, <1>3

\* Who joins a line is last in it.
LEMMA JoinedLine ==
    ASSUME NEW T, Stale \notin T, NEW q \in Seq(T \cup {Stale}), Once(q),
           NEW c \in T, c \notin Waiting(q)
    PROVE  /\ Append(q, c) \in Seq(T \cup {Stale}) /\ Once(Append(q, c))
           /\ Waiting(Append(q, c)) = Waiting(q) \cup {c}
<1> DEFINE r == Append(q, c)
<1>1. /\ r \in Seq(T \cup {Stale}) /\ Len(q) \in Nat
      /\ DOMAIN q = 1..Len(q) /\ DOMAIN r = 1..(Len(q) + 1)
      /\ r[Len(q) + 1] = c /\ \A i \in 1..Len(q) : r[i] = q[i]
      /\ Range(r) = Range(q) \cup {c}
  BY AppendedRange
<1>2. \A i \in DOMAIN q : q[i] # c
  BY DEF Waiting, Range
<1>3. Once(r)
  <2> SUFFICES ASSUME NEW i \in DOMAIN r, NEW j \in DOMAIN r, r[i] = r[j], r[i] # Stale
               PROVE  i = j
    BY DEF Once
  <2>1. i \in 1..Len(q) \/ i = Len(q) + 1
    BY <1>1
  <2>2. j \in 1..Len(q) \/ j = Len(q) + 1
    BY <1>1
  <2>3. CASE i \in 1..Len(q) /\ j \in 1..Len(q)
    BY <1>1, <2>3 DEF Once
  <2> QED  BY <1>1, <1>2, <2>1, <2>2, <2>3
<1> HIDE DEF r
<1>4. Waiting(r) = Waiting(q) \cup {c}
  BY <1>1 DEF Waiting
<1> QED  BY <1>1, <1>3, <1>4 DEF r

\* Those whose entries go stale wait no longer.
LEMMA StaleLine ==
    ASSUME NEW T, Stale \notin T, NEW q \in Seq(T \cup {Stale}), Once(q), NEW S
    PROVE  /\ GoStale(q, S) \in Seq(T \cup {Stale}) /\ Once(GoStale(q, S))
           /\ Len(GoStale(q, S)) = Len(q)
           /\ Waiting(GoStale(q, S)) = Waiting(q) \ S
<1> DEFINE r == GoStale(q, S)
<1>1. Len(q) \in Nat /\ DOMAIN q = 1..Len(q) /\ \A i \in 1..Len(q) : q[i] \in T \cup {Stale}
  OBVIOUS
<1>2. DOMAIN r = DOMAIN q /\ \A i \in DOMAIN q : r[i] = IF q[i] \in S THEN Stale ELSE q[i]
  BY DEF GoStale
<1>3. r \in [1..Len(q) -> T \cup {Stale}]
  BY <1>1 DEF GoStale
<1> HIDE DEF r
<1>4. r \in Seq(T \cup {Stale}) /\ Len(r) = Len(q)
  <2>1. r \in Seq(T \cup {Stale})
    BY <1>1, <1>3
  <2> QED  BY <1>1, <1>2, <2>1
<1>5. Once(r)
  BY <1>2 DEF Once
<1>6. Waiting(r) = Waiting(q) \ S
  <2>1. ASSUME NEW c \in Waiting(r) PROVE c \in Waiting(q) \ S
    <3>1. PICK i \in DOMAIN r : c = r[i] /\ c # Stale
      BY <2>1 DEF Waiting, Range
    <3> QED  BY <3>1, <1>2 DEF Waiting, Range
  <2>2. ASSUME NEW c \in Waiting(q) \ S PROVE c \in Waiting(r)
    <3>1. PICK i \in DOMAIN q : c = q[i] /\ c # Stale
      BY <2>2 DEF Waiting, Range
    <3> QED  BY <3>1, <1>2, <2>2 DEF Waiting, Range
  <2> QED  BY <2>1, <2>2
<1> QED  BY <1>4, <1>5, <1>6 DEF r

\* One who is taken out of a line leaves the others where they are.
LEMMA LeftLine ==
    ASSUME NEW T, Stale \notin T, NEW q \in Seq(T \cup {Stale}), Once(q), NEW c, c # Stale
    PROVE  /\ Without(q, {c}) \in Seq(T \cup {Stale}) /\ Once(Without(q, {c}))
           /\ Waiting(Without(q, {c})) = Waiting(q) \ {c}
<1> DEFINE S == Range(q) \ {c}
           r == Keep(q, S)
<1>1. Without(q, {c}) = r
  BY DEF Without
<1> HIDE DEF S
<1>2. /\ r \in Seq(T \cup {Stale})
      /\ \E f \in [1..Len(r) -> {i \in DOMAIN q : q[i] \in S}] :
            /\ \A k \in 1..Len(r) : r[k] = q[f[k]]
            /\ \A k, l \in 1..Len(r) : k < l => f[k] < f[l]
            /\ \A i \in DOMAIN q : q[i] \in S => \E k \in 1..Len(r) : f[k] = i
  BY KeepPicks
<1> HIDE DEF r
<1>3. PICK f \in [1..Len(r) -> {i \in DOMAIN q : q[i] \in S}] :
            /\ \A k \in 1..Len(r) : r[k] = q[f[k]]
            /\ \A k, l \in 1..Len(r) : k < l => f[k] < f[l]
            /\ \A i \in DOMAIN q : q[i] \in S => \E k \in 1..Len(r) : f[k] = i
  BY <1>2
<1>4. /\ Len(r) \in Nat /\ DOMAIN r = 1..Len(r) /\ DOMAIN q = 1..Len(q) /\ Len(q) \in Nat
      /\ \A k \in 1..Len(r) : f[k] \in DOMAIN q /\ q[f[k]] \in S
  <2>1. r \in Seq(T \cup {Stale})
    BY <1>2
  <2>2. Len(r) \in Nat /\ DOMAIN r = 1..Len(r) /\ DOMAIN q = 1..Len(q) /\ Len(q) \in Nat
    BY <2>1
  <2>3. \A k \in 1..Len(r) : f[k] \in {i \in DOMAIN q : q[i] \in S}
    BY <1>3
  <2> QED  BY <2>2, <2>3
<1>5. Once(r)
  <2> SUFFICES ASSUME NEW i \in 1..Len(r), NEW j \in 1..Len(r), r[i] = r[j], r[i] # Stale
               PROVE  i = j
    BY <1>4 DEF Once
  <2>1. f[i] = f[j]
    BY <1>3, <1>4 DEF Once
  <2>2. ~(i < j) /\ ~(j < i)
    BY <1>3, <1>4, <2>1
  <2> QED  BY <2>2, <1>4
<1>6. Range(r) = Range(q) \ {c}
  <2>1. ASSUME NEW x \in Range(r) PROVE x \in Range(q) \ {c}
    <3>1. PICK k \in 1..Len(r) : x = r[k]
      BY <1>4, <2>1 DEF Range
    <3> QED  BY <3>1, <1>3, <1>4 DEF S
  <2>2. ASSUME NEW x \in Range(q) \ {c} PROVE x \in Range(r)
    <3>1. PICK i \in DOMAIN q : x = q[i]
      BY <2>2 DEF Range
    <3>2. PICK k \in 1..Len(r) : f[k] = i
      BY <3>1, <2>2, <1>3 DEF S
    <3> QED  BY <3>1, <3>2, <1>3, <1>4 DEF Range
  <2> QED  BY <2>1, <2>2
<1>7. Waiting(r) = Waiting(q) \ {c}
  BY <1>6 DEF Waiting
<1> QED  BY <1>1, <1>2, <1>5, <1>7

\* Without its stale entries a line is the queue of those who wait.
LEMMA FreshLine ==
    ASSUME NEW T, Stale \notin T, NEW q \in Seq(T \cup {Stale}), Once(q)
    PROVE  /\ Without(q, {Stale}) \in Seq(T) /\ IsInjective(Without(q, {Stale}))
           /\ Range(Without(q, {Stale})) = Waiting(q)
<1> DEFINE S == Range(q) \ {Stale}
           r == Keep(q, S)
<1>1. Without(q, {Stale}) = r
  BY DEF Without
<1> HIDE DEF S
<1>2. /\ r \in Seq(T \cup {Stale})
      /\ \E f \in [1..Len(r) -> {i \in DOMAIN q : q[i] \in S}] :
            /\ \A k \in 1..Len(r) : r[k] = q[f[k]]
            /\ \A k, l \in 1..Len(r) : k < l => f[k] < f[l]
            /\ \A i \in DOMAIN q : q[i] \in S => \E k \in 1..Len(r) : f[k] = i
  BY KeepPicks
<1> HIDE DEF r
<1>3. PICK f \in [1..Len(r) -> {i \in DOMAIN q : q[i] \in S}] :
            /\ \A k \in 1..Len(r) : r[k] = q[f[k]]
            /\ \A k, l \in 1..Len(r) : k < l => f[k] < f[l]
            /\ \A i \in DOMAIN q : q[i] \in S => \E k \in 1..Len(r) : f[k] = i
  BY <1>2
<1>4. /\ Len(r) \in Nat /\ DOMAIN r = 1..Len(r) /\ DOMAIN q = 1..Len(q) /\ Len(q) \in Nat
      /\ \A i \in 1..Len(q) : q[i] \in T \cup {Stale}
      /\ \A k \in 1..Len(r) : f[k] \in DOMAIN q /\ q[f[k]] \in S /\ q[f[k]] # Stale
  <2>1. \A x \in S : x # Stale
    BY DEF S
  <2>2. /\ Len(r) \in Nat /\ DOMAIN r = 1..Len(r) /\ DOMAIN q = 1..Len(q) /\ Len(q) \in Nat
        /\ \A i \in 1..Len(q) : q[i] \in T \cup {Stale}
    BY <1>2
  <2> QED  BY <1>3, <2>1, <2>2
<1>5. IsInjective(r)
  <2> SUFFICES ASSUME NEW i \in 1..Len(r), NEW j \in 1..Len(r), r[i] = r[j]
               PROVE  i = j
    BY <1>4 DEF IsInjective
  <2>1. f[i] = f[j]
    BY <1>3, <1>4 DEF Once
  <2>2. ~(i < j) /\ ~(j < i)
    BY <1>3, <1>4, <2>1
  <2> QED  BY <2>2, <1>4
<1>6. Range(r) = Waiting(q)
  <2>1. ASSUME NEW x \in Range(r) PROVE x \in Waiting(q)
    <3>1. PICK k \in 1..Len(r) : x = r[k]
      BY <1>4, <2>1 DEF Range
    <3> QED  BY <3>1, <1>3, <1>4 DEF Waiting, Range
  <2>2. ASSUME NEW x \in Waiting(q) PROVE x \in Range(r)
    <3>1. PICK i \in DOMAIN q : x = q[i]
      BY <2>2 DEF Range, Waiting
    <3>2. PICK k \in 1..Len(r) : f[k] = i
      BY <3>1, <2>2, <1>3 DEF S, Waiting
    <3> QED  BY <3>1, <3>2, <1>3, <1>4 DEF Range
  <2> QED  BY <2>1, <2>2
<1>7. r \in Seq(T)
  <2>1. \A k \in 1..Len(r) : r[k] \in T
    BY <1>3, <1>4
  <2> QED  BY <1>2, <1>4, <2>1
<1> QED  BY <1>1, <1>5, <1>6, <1>7

\* Whoever NextSender wakes is taken out of the line; nobody is left when it
\* wakes none.
LEMMA NextSenderIsTrue ==
    ASSUME NEW T, Stale \notin T, NEW q \in Seq(T \cup {Stale}), Once(q)
    PROVE  /\ AfterLive(q) \in Seq(T \cup {Stale}) /\ Once(AfterLive(q))
           /\ NextSender(q) \in Seq(T) /\ IsInjective(NextSender(q))
           /\ Range(NextSender(q)) \subseteq Waiting(q)
           /\ Waiting(AfterLive(q)) = Waiting(q) \ Range(NextSender(q))
           /\ (Waiting(q) = {} /\ NextSender(q) = <<>>) \/ \E c \in Waiting(q) : NextSender(q) = <<c>>
<1>1. /\ AfterLive(q) \in Seq(T \cup {Stale}) /\ Once(AfterLive(q))
      /\ FirstLive(q) = 0 <=> Waiting(q) = {}
      /\ FirstLive(q) = 0 => AfterLive(q) = <<>> /\ Waiting(AfterLive(q)) = {}
      /\ FirstLive(q) # 0 =>
            /\ FirstLive(q) \in DOMAIN q
            /\ q[FirstLive(q)] \in Waiting(q) /\ q[FirstLive(q)] \in T
            /\ Waiting(AfterLive(q)) = Waiting(q) \ {q[FirstLive(q)]}
  BY FirstLiveIsTrue
<1>2. CASE FirstLive(q) = 0
  <2>1. NextSender(q) = <<>>
    BY <1>2 DEF NextSender
  <2> QED  BY <1>1, <1>2, <2>1, EmptyQueue
<1>3. CASE FirstLive(q) # 0
  <2>1. NextSender(q) = <<q[FirstLive(q)]>>
    BY <1>3 DEF NextSender
  <2>2. /\ NextSender(q) \in Seq(T) /\ IsInjective(NextSender(q))
        /\ Range(NextSender(q)) = {q[FirstLive(q)]}
    BY <1>1, <1>3, <2>1, OneElement
  <2> QED  BY <1>1, <1>3, <2>1, <2>2
<1> QED  BY <1>2, <1>3

\* The sequences of a finite set hold its members, each once.
LEMMA SetToSeqsIsTrue ==
    ASSUME NEW S, IsFiniteSet(S), NEW q \in SetToSeqs(S)
    PROVE  q \in Seq(S) /\ IsInjective(q) /\ Range(q) = S
<1> DEFINE n == Cardinality(S)
<1>1. n \in Nat
  BY FS_CardinalityType
<1>2. q \in [1..n -> S] /\ \A i, j \in 1..n : i # j => q[i] # q[j]
  BY DEF SetToSeqs
<1> HIDE DEF n
<1>3. q \in Seq(S) /\ DOMAIN q = 1..n
  BY <1>1, <1>2
<1>4. IsInjective(q)
  BY <1>2, <1>3 DEF IsInjective
<1>5. q \in Injection(1..n, S)
  BY <1>2, <1>4 DEF Injection
<1>6. Cardinality(1..n) = n
  BY <1>1, FS_Interval
<1>7. q \in Surjection(1..n, S)
  BY <1>5, <1>6, FS_Injection DEF n
<1> QED  BY <1>2, <1>3, <1>4, <1>7 DEF Surjection, Range

-----------------------------------------------------------------------------
(* The inductive invariant *)

States == {"running", "parked", "woken", "fired"}
Conduit == [buffer : Seq(Values), senders : Seq(Sender \union {Stale}),
            receivers : Seq(Receiver), selects : Seq(Receiver \union {Stale}),
            closed : BOOLEAN, alive : BOOLEAN]

ChannelTypes == ChannelTypeOK /\ \A s \in Sender : sent[s] <= MaxSends[s]

\* The lines of a channel hold those who are parked there, each once.
SenderLine(k) ==
    /\ Once(chan[k].senders)
    /\ \A s \in Sender : s \in Waiting(chan[k].senders) <=> at[s] = "parked" /\ Dest[s] = k
ReceiverLine(k) ==
    /\ IsInjective(chan[k].receivers)
    /\ \A r \in Receiver : r \in Range(chan[k].receivers) <=> at[r] = "parked" /\ on[r] = k /\ ~timed[r]
SelectLine(k) ==
    /\ Once(chan[k].selects)
    /\ \A r \in Receiver :
          r \in Waiting(chan[k].selects) <=> at[r] = "parked" /\ (on[r] = All \/ (on[r] = k /\ timed[r]))
Lines == \A k \in Channel : SenderLine(k) /\ ReceiverLine(k) /\ SelectLine(k)

\* Whoever is suspended is so on a channel, a sender on its own with a value.
Posted ==
    /\ \A s \in Sender : at[s] # "running" => on[s] = Dest[s] /\ sent[s] # 0
    /\ \A r \in Receiver : at[r] # "fired" /\ (at[r] # "running" => on[r] \in Channel \union {All})

\* The ready queue holds those who were scheduled.
Scheduled == IsInjective(readyQueue) /\ Range(readyQueue) = {c \in Coroutine : at[c] \in {"woken", "fired"}}

\* Something is in a receiver's frame when, and only when, it was woken.
Filled == \A r \in Receiver : result[r] = NoValue <=> at[r] # "woken"

\* A channel that is gone is closed, and no sender waits for a closed one.
Shut ==
    /\ \A k \in Channel : ~chan[k].alive => chan[k].closed
    /\ \A s \in Sender : chan[Dest[s]].closed => at[s] # "parked"

LinesInv == ChannelTypes /\ Lines /\ Posted /\ Scheduled /\ Filled /\ Shut

-----------------------------------------------------------------------------
(* Types and values *)

\* What values are: pairs, apart from the marks a frame can hold instead.
LEMMA ValuesArePairs ==
    /\ \A s \in Sender, n \in Nat : n \in 1..MaxSends[s] => <<s, n>> \in Values
    /\ \A v \in Values : \E s \in Sender : \E n \in 1..MaxSends[s] : v = <<s, n>>
    /\ NoValue \notin Values /\ Closed \notin Values /\ Timeout \notin Values
    /\ NoValue # Closed /\ NoValue # Timeout /\ Closed # Timeout
<1>1. \A s \in Sender, n \in Nat : n \in 1..MaxSends[s] => <<s, n>> \in Values
  BY DEF Values
<1>2. \A v \in Values : \E s \in Sender : \E n \in 1..MaxSends[s] : v = <<s, n>>
  BY DEF Values
<1>3. NoValue # Closed /\ NoValue # Timeout /\ Closed # Timeout
  BY DEF NoValue, Closed, Timeout
<1>4. \A x, y, z : <<x, y>> # <<z>>
  OBVIOUS
<1> QED
  BY <1>1, <1>2, <1>3, <1>4 DEF NoValue, Closed, Timeout

\* The types, one by one.
LEMMA ChannelTypesAre ==
    ASSUME ChannelTypes
    PROVE  /\ chan \in [Channel -> Conduit]
           /\ \A k \in Channel :
                 /\ chan[k] \in Conduit
                 /\ chan[k].buffer \in Seq(Values) /\ chan[k].senders \in Seq(Sender \union {Stale})
                 /\ chan[k].receivers \in Seq(Receiver) /\ chan[k].selects \in Seq(Receiver \union {Stale})
                 /\ chan[k].closed \in BOOLEAN /\ chan[k].alive \in BOOLEAN
           /\ at \in [Coroutine -> States]
           /\ on \in [Coroutine -> Channel \union {None, All}]
           /\ timed \in [Coroutine -> BOOLEAN]
           /\ result \in [Receiver -> Values \union {NoValue, Closed, Timeout}]
           /\ sent \in [Sender -> Nat] /\ \A s \in Sender : sent[s] <= MaxSends[s]
           /\ readyQueue \in Seq(Coroutine)
           /\ taken \subseteq Values /\ refused \subseteq Values
           /\ dropped \subseteq Values /\ rebuffered \subseteq Values
<1>1. chan \in [Channel -> Conduit]
  BY DEF ChannelTypes, ChannelTypeOK, Conduit
<1>2. \A k \in Channel :
                 /\ chan[k] \in Conduit
                 /\ chan[k].buffer \in Seq(Values) /\ chan[k].senders \in Seq(Sender \union {Stale})
                 /\ chan[k].receivers \in Seq(Receiver) /\ chan[k].selects \in Seq(Receiver \union {Stale})
                 /\ chan[k].closed \in BOOLEAN /\ chan[k].alive \in BOOLEAN
  BY <1>1 DEF Conduit
<1> QED
  BY <1>1, <1>2 DEF ChannelTypes, ChannelTypeOK, States

\* The same for the lines: what FirstLive finds in them.
LEMMA LinesAre ==
    ASSUME LinesInv, NEW k \in Channel
    PROVE  /\ Stale \notin Sender /\ Stale \notin Receiver /\ Sender \cap Receiver = {}
           /\ chan[k].senders \in Seq(Sender \union {Stale}) /\ Once(chan[k].senders)
           /\ chan[k].selects \in Seq(Receiver \union {Stale}) /\ Once(chan[k].selects)
           /\ chan[k].receivers \in Seq(Receiver) /\ IsInjective(chan[k].receivers)
           /\ Waiting(chan[k].senders) \subseteq Sender
           /\ Waiting(chan[k].selects) \subseteq Receiver
           /\ Range(chan[k].receivers) \subseteq Receiver
           /\ \A s \in Sender : s \in Waiting(chan[k].senders) <=> at[s] = "parked" /\ Dest[s] = k
           /\ \A r \in Receiver : r \in Range(chan[k].receivers) <=> at[r] = "parked" /\ on[r] = k /\ ~timed[r]
           /\ \A r \in Receiver :
                 r \in Waiting(chan[k].selects) <=> at[r] = "parked" /\ (on[r] = All \/ (on[r] = k /\ timed[r]))
<1>1. /\ chan[k].senders \in Seq(Sender \union {Stale})
      /\ chan[k].receivers \in Seq(Receiver) /\ chan[k].selects \in Seq(Receiver \union {Stale})
  BY ChannelTypesAre DEF LinesInv
<1>2. SenderLine(k) /\ ReceiverLine(k) /\ SelectLine(k)
  BY DEF LinesInv, Lines
<1>3. \A T : \A q \in Seq(T) : Range(q) \subseteq T
  BY DEF Range
<1>4. /\ Waiting(chan[k].senders) \subseteq Sender
      /\ Waiting(chan[k].selects) \subseteq Receiver
      /\ Range(chan[k].receivers) \subseteq Receiver
  BY <1>1, <1>3 DEF Waiting
<1> QED
  BY <1>1, <1>2, <1>4, ChannelAssumption DEF SenderLine, ReceiverLine, SelectLine

-----------------------------------------------------------------------------
(* A value is handed over or buffered *)

\* What a step leaves typed besides the channels, the coroutines and frames.
RestTypes ==
    /\ on \in [Coroutine -> Channel \union {None, All}]
    /\ timed \in [Coroutine -> BOOLEAN]
    /\ sent \in [Sender -> Nat] /\ \A s \in Sender : sent[s] <= MaxSends[s]
    /\ taken \subseteq Values /\ refused \subseteq Values
    /\ dropped \subseteq Values /\ rebuffered \subseteq Values

\* a and q are where the coroutines are and the ready queue, a sender that was
\* woken perhaps running again.
Underway(a, q) ==
    /\ a \in [Coroutine -> States]
    /\ \A c \in Coroutine : a[c] # at[c] => c \in Sender /\ at[c] = "woken" /\ a[c] = "running"
    /\ q \in Seq(Coroutine) /\ IsInjective(q)
    /\ Range(q) = {c \in Coroutine : a[c] \in {"woken", "fired"}}

\* The types of the next state put together again.
LEMMA ChannelTypesFrom ==
    ASSUME RestTypes', chan' \in [Channel -> Conduit], at' \in [Coroutine -> States],
           result' \in [Receiver -> Values \union {NoValue, Closed, Timeout}],
           readyQueue' \in Seq(Coroutine)
    PROVE  ChannelTypes'
BY DEF RestTypes, ChannelTypes, ChannelTypeOK, Conduit, States

\* A value is handed to r, which waited for k.
Handed(k, v, a, q, r) ==
    /\ at[r] = "parked" /\ on[r] \in {k, All}
    /\ result' = [result EXCEPT ![r] = v]
    /\ at' = [a EXCEPT ![r] = "woken"] /\ readyQueue' = Append(q, r)
    /\ chan' \in [Channel -> Conduit]
    /\ \A j \in Channel :
          /\ chan'[j].buffer = chan[j].buffer /\ chan'[j].senders = chan[j].senders
          /\ chan'[j].closed = chan[j].closed /\ chan'[j].alive = chan[j].alive
          /\ IsInjective(chan'[j].receivers) /\ Once(chan'[j].selects)
          /\ Range(chan'[j].receivers) = Range(chan[j].receivers) \ {r}
          /\ Waiting(chan'[j].selects) = Waiting(chan[j].selects) \ {r}

\* Where a value that is handed over goes.
LEMMA HandGoes ==
    ASSUME LinesInv, NEW k \in Channel, NEW v, NEW a, NEW q, Hand(k, v, a, q)
    PROVE  \E r \in Receiver : Handed(k, v, a, q, r)
<1> USE ChannelTypesAre DEF LinesInv
<1>1. \A j \in Channel :
         /\ Stale \notin Receiver
         /\ chan[j].selects \in Seq(Receiver \union {Stale}) /\ Once(chan[j].selects)
         /\ chan[j].receivers \in Seq(Receiver) /\ IsInjective(chan[j].receivers)
         /\ Range(chan[j].receivers) \subseteq Receiver
         /\ \A r \in Receiver : r \in Range(chan[j].receivers) <=> at[r] = "parked" /\ on[r] = j /\ ~timed[r]
         /\ \A r \in Receiver :
               r \in Waiting(chan[j].selects) <=> at[r] = "parked" /\ (on[r] = All \/ (on[r] = j /\ timed[r]))
  BY LinesAre
<1>2. CASE HasReceiver(k)
  <2> DEFINE r == Head(chan[k].receivers)
  <2>1. /\ result' = [result EXCEPT ![r] = v]
        /\ chan' = [chan EXCEPT ![k].receivers = Tail(@)]
        /\ at' = [a EXCEPT ![r] = "woken"] /\ readyQueue' = Append(q, r)
    BY <1>2 DEF Hand
  <2>2. /\ r \in Receiver /\ r \in Range(chan[k].receivers)
        /\ Tail(chan[k].receivers) \in Seq(Receiver) /\ IsInjective(Tail(chan[k].receivers))
        /\ Range(Tail(chan[k].receivers)) = Range(chan[k].receivers) \ {r}
    <3>1. chan[k].receivers # <<>>
      BY <1>2 DEF HasReceiver
    <3> QED  BY <1>1, <3>1, HeadAndTail
  <2> HIDE DEF r
  <2>3. at[r] = "parked" /\ on[r] = k /\ ~timed[r]
    BY <1>1, <2>2
  <2>4. k # All
    BY ChannelAssumption DEF All
  <2>5. /\ chan' \in [Channel -> Conduit]
        /\ \A j \in Channel :
              /\ chan'[j].buffer = chan[j].buffer /\ chan'[j].senders = chan[j].senders
              /\ chan'[j].closed = chan[j].closed /\ chan'[j].alive = chan[j].alive
              /\ chan'[j].selects = chan[j].selects
              /\ chan'[j].receivers = IF j = k THEN Tail(chan[k].receivers) ELSE chan[j].receivers
    BY ZenonT(60), <2>1, <2>2 DEF Conduit
  <2>6. \A j \in Channel : r \notin Waiting(chan[j].selects)
    BY <1>1, <2>2, <2>3, <2>4
  <2>7. \A j \in Channel : j # k => r \notin Range(chan[j].receivers)
    BY <1>1, <2>2, <2>3
  <2>8. \A j \in Channel :
           /\ IsInjective(chan'[j].receivers) /\ Once(chan'[j].selects)
           /\ Range(chan'[j].receivers) = Range(chan[j].receivers) \ {r}
           /\ Waiting(chan'[j].selects) = Waiting(chan[j].selects) \ {r}
    BY <1>1, <2>2, <2>5, <2>6, <2>7
  <2>9. r \in Receiver
    BY <2>2
  <2> WITNESS r \in Receiver
  <2> QED  BY <2>1, <2>3, <2>5, <2>8 DEF Handed
<1>3. CASE ~HasReceiver(k)
  <2> DEFINE n == FirstLive(chan[k].selects)
             r == chan[k].selects[n]
             w == AfterLive(chan[k].selects)
  <2>1. n # 0
    BY <1>3 DEF Hand, Nobody, HasSelect
  <2>2. /\ result' = [result EXCEPT ![r] = v]
        /\ chan' = Retire([chan EXCEPT ![k].selects = AfterLive(@)], r)
        /\ at' = [a EXCEPT ![r] = "woken"] /\ readyQueue' = Append(q, r)
    BY <1>3 DEF Hand
  <2>3. /\ w \in Seq(Receiver \cup {Stale}) /\ Once(w)
        /\ r \in Waiting(chan[k].selects) /\ r \in Receiver
        /\ Waiting(w) = Waiting(chan[k].selects) \ {r}
    BY <1>1, <2>1, FirstLiveIsTrue
  <2> DEFINE ch == [chan EXCEPT ![k].selects = w]
  <2> HIDE DEF n, r, w
  <2>4. at[r] = "parked" /\ on[r] \in {k, All} /\ r \in Receiver
    BY <1>1, <2>3
  <2>5. /\ ch \in [Channel -> Conduit]
        /\ \A j \in Channel :
              /\ ch[j].buffer = chan[j].buffer /\ ch[j].senders = chan[j].senders
              /\ ch[j].closed = chan[j].closed /\ ch[j].alive = chan[j].alive
              /\ ch[j].receivers = chan[j].receivers
              /\ ch[j].selects = IF j = k THEN w ELSE chan[j].selects
    BY ZenonT(60), <2>3 DEF Conduit
  <2>6. chan' = Retire(ch, r)
    BY <2>2 DEF w
  <2> HIDE DEF ch
  <2>7. \A j \in Channel :
           /\ GoStale(ch[j].selects, {r}) \in Seq(Receiver \cup {Stale})
           /\ Once(GoStale(ch[j].selects, {r}))
           /\ Waiting(GoStale(ch[j].selects, {r})) = Waiting(chan[j].selects) \ {r}
    <3> TAKE j \in Channel
    <3>1. /\ Stale \notin Receiver /\ ch[j].selects \in Seq(Receiver \cup {Stale}) /\ Once(ch[j].selects)
          /\ Waiting(ch[j].selects) \ {r} = Waiting(chan[j].selects) \ {r}
      BY <1>1, <2>3, <2>5
    <3> DEFINE u == ch[j].selects
               x == Waiting(chan[j].selects) \ {r}
    <3>2. Stale \notin Receiver /\ u \in Seq(Receiver \cup {Stale}) /\ Once(u) /\ Waiting(u) \ {r} = x
      BY <3>1
    <3> HIDE ChannelTypesAre DEF LinesInv, u, x
    <3>3. GoStale(u, {r}) \in Seq(Receiver \cup {Stale}) /\ Once(GoStale(u, {r})) /\ Waiting(GoStale(u, {r})) = x
      BY <3>2, StaleLine
    <3> QED  BY <3>3 DEF u, x
  <2>8. /\ chan' \in [Channel -> Conduit]
        /\ \A j \in Channel :
              /\ chan'[j].buffer = chan[j].buffer /\ chan'[j].senders = chan[j].senders
              /\ chan'[j].closed = chan[j].closed /\ chan'[j].alive = chan[j].alive
              /\ chan'[j].receivers = chan[j].receivers
              /\ chan'[j].selects = GoStale(ch[j].selects, {r})
    <3>1. DOMAIN chan' = Channel /\ chan' = [j \in Channel |-> chan'[j]]
      BY <2>6 DEF Retire
    <3>2. \A j \in Channel : chan'[j] = [ch[j] EXCEPT !.selects = GoStale(ch[j].selects, {r})]
      BY <2>6 DEF Retire
    <3>3. \A j \in Channel :
             /\ chan'[j] \in Conduit
             /\ chan'[j].buffer = chan[j].buffer /\ chan'[j].senders = chan[j].senders
             /\ chan'[j].closed = chan[j].closed /\ chan'[j].alive = chan[j].alive
             /\ chan'[j].receivers = chan[j].receivers
             /\ chan'[j].selects = GoStale(ch[j].selects, {r})
      <4> TAKE j \in Channel
      <4> DEFINE w2 == GoStale(ch[j].selects, {r})
      <4>1. ch[j] \in Conduit /\ w2 \in Seq(Receiver \cup {Stale}) /\ chan'[j] = [ch[j] EXCEPT !.selects = w2]
        BY <2>5, <2>7, <3>2
      <4> HIDE DEF w2
      <4>2. /\ chan'[j] \in Conduit
            /\ chan'[j].buffer = ch[j].buffer /\ chan'[j].senders = ch[j].senders
            /\ chan'[j].closed = ch[j].closed /\ chan'[j].alive = ch[j].alive
            /\ chan'[j].receivers = ch[j].receivers /\ chan'[j].selects = w2
        BY <4>1 DEF Conduit
      <4> QED  BY <2>5, <4>2 DEF w2
    <3> QED  BY <3>1, <3>3
  <2>9. \A j \in Channel : r \notin Range(chan[j].receivers)
    <3> SUFFICES ASSUME NEW j \in Channel, r \in Range(chan[j].receivers) PROVE FALSE
      OBVIOUS
    <3>1. on[r] = j /\ ~timed[r]
      BY <1>1, <2>4
    <3>2. on[r] = All
      BY <1>1, <2>3, <3>1
    <3> QED  BY <3>1, <3>2, ChannelAssumption DEF All
  <2>10. \A j \in Channel :
            /\ IsInjective(chan'[j].receivers) /\ Once(chan'[j].selects)
            /\ Range(chan'[j].receivers) = Range(chan[j].receivers) \ {r}
            /\ Waiting(chan'[j].selects) = Waiting(chan[j].selects) \ {r}
    <3>1. \A j \in Channel : IsInjective(chan'[j].receivers) /\ Range(chan'[j].receivers) = Range(chan[j].receivers) \ {r}
      BY <1>1, <2>8, <2>9
    <3>2. \A j \in Channel : Once(chan'[j].selects) /\ Waiting(chan'[j].selects) = Waiting(chan[j].selects) \ {r}
      BY <2>7, <2>8
    <3> QED  BY <3>1, <3>2
  <2>11. r \in Receiver
    BY <2>4
  <2> WITNESS r \in Receiver
  <2> QED  BY <2>2, <2>4, <2>8, <2>10 DEF r, Handed
<1> QED  BY <1>2, <1>3

\* The lines of a channel in the next state.
LEMMA LinesFrom ==
    ASSUME NEW k \in Channel, Once(chan[k].senders)', IsInjective(chan[k].receivers)', Once(chan[k].selects)',
           \A s \in Sender : s \in Waiting(chan[k].senders)' <=> at'[s] = "parked" /\ Dest[s] = k,
           \A r \in Receiver : r \in Range(chan[k].receivers)' <=> at'[r] = "parked" /\ on'[r] = k /\ ~timed'[r],
           \A r \in Receiver :
              r \in Waiting(chan[k].selects)' <=> at'[r] = "parked" /\ (on'[r] = All \/ (on'[r] = k /\ timed'[r]))
    PROVE  (SenderLine(k) /\ ReceiverLine(k) /\ SelectLine(k))'
BY DEF SenderLine, ReceiverLine, SelectLine

\* Handing a value over keeps the invariant.
LEMMA HandKeeps ==
    ASSUME LinesInv, NEW k \in Channel, NEW v \in Values, NEW a, NEW q, Underway(a, q), Hand(k, v, a, q),
           RestTypes', \A s \in Sender : a[s] # "running" => on'[s] = Dest[s] /\ sent'[s] # 0,
           \A r \in Receiver : on'[r] = on[r] /\ timed'[r] = timed[r]
    PROVE  LinesInv'
<1>0. PICK r \in Receiver : Handed(k, v, a, q, r)
  BY HandGoes
<1>1. /\ at[r] = "parked" /\ on[r] \in {k, All}
      /\ result' = [result EXCEPT ![r] = v]
      /\ at' = [a EXCEPT ![r] = "woken"] /\ readyQueue' = Append(q, r)
  BY <1>0 DEF Handed
<1>12. /\ chan' \in [Channel -> Conduit]
       /\ \A j \in Channel :
             /\ chan'[j].senders = chan[j].senders
             /\ chan'[j].closed = chan[j].closed /\ chan'[j].alive = chan[j].alive
             /\ IsInjective(chan'[j].receivers) /\ Once(chan'[j].selects)
             /\ Range(chan'[j].receivers) = Range(chan[j].receivers) \ {r}
             /\ Waiting(chan'[j].selects) = Waiting(chan[j].selects) \ {r}
  BY <1>0 DEF Handed
<1>2. r \in Coroutine /\ r \notin Sender /\ Sender \subseteq Coroutine /\ Receiver \subseteq Coroutine
  BY ChannelAssumption DEF Coroutine
<1>3. a \in [Coroutine -> States] /\ a[r] = "parked"
  BY <1>1, <1>2 DEF Underway
<1>4. /\ at' \in [Coroutine -> States] /\ at'[r] = "woken"
      /\ \A c \in Coroutine : c # r => at'[c] = a[c]
      /\ \A c \in Coroutine : c # r => (at'[c] = "parked" <=> at[c] = "parked")
      /\ \A c \in Receiver : c # r => at'[c] = at[c]
  <2>1. at' \in [Coroutine -> States] /\ at'[r] = "woken" /\ \A c \in Coroutine : c # r => at'[c] = a[c]
    BY <1>1, <1>2, <1>3 DEF States
  <2> QED  BY <2>1, <1>2, ChannelAssumption DEF Underway
<1>5. /\ result \in [Receiver -> Values \union {NoValue, Closed, Timeout}]
      /\ result' \in [Receiver -> Values \union {NoValue, Closed, Timeout}]
      /\ result'[r] = v /\ \A c \in Receiver : c # r => result'[c] = result[c]
  BY <1>1, ChannelTypesAre DEF LinesInv
<1>6. Scheduled' /\ readyQueue' \in Seq(Coroutine)
  <2>1. q \in Seq(Coroutine) /\ IsInjective(q) /\ r \notin Range(q)
    BY <1>3 DEF Underway
  <2>2. /\ readyQueue' \in Seq(Coroutine) /\ IsInjective(readyQueue')
        /\ Range(readyQueue') = Range(q) \cup {r}
    BY <1>1, <1>2, <2>1, AppendedQueue
  <2>3. Range(readyQueue') = {c \in Coroutine : at'[c] \in {"woken", "fired"}}
    BY <1>2, <1>4, <2>2 DEF Underway
  <2> QED  BY <2>2, <2>3 DEF Scheduled
<1>7. ChannelTypes'
  BY <1>12, <1>4, <1>5, <1>6, ChannelTypesFrom
<1>8. Lines'
  <2> SUFFICES ASSUME NEW j \in Channel PROVE (SenderLine(j) /\ ReceiverLine(j) /\ SelectLine(j))'
    BY DEF Lines
  <2>1. /\ Once(chan[j].senders)
        /\ \A s \in Sender : s \in Waiting(chan[j].senders) <=> at[s] = "parked" /\ Dest[s] = j
        /\ \A c \in Receiver : c \in Range(chan[j].receivers) <=> at[c] = "parked" /\ on[c] = j /\ ~timed[c]
        /\ \A c \in Receiver :
              c \in Waiting(chan[j].selects) <=> at[c] = "parked" /\ (on[c] = All \/ (on[c] = j /\ timed[c]))
    BY LinesAre
  <2>2. Once(chan[j].senders)' /\ IsInjective(chan[j].receivers)' /\ Once(chan[j].selects)'
    BY <1>12, <2>1
  <2>3. \A s \in Sender : s \in Waiting(chan[j].senders)' <=> at'[s] = "parked" /\ Dest[s] = j
    BY <1>12, <1>2, <1>4, <2>1
  <2>4. \A c \in Receiver : c \in Range(chan[j].receivers)' <=> at'[c] = "parked" /\ on'[c] = j /\ ~timed'[c]
    <3>1. Range(chan'[j].receivers) = Range(chan[j].receivers) \ {r}
      BY <1>12
    <3>2. \A c \in Receiver : at'[c] = "parked" <=> at[c] = "parked" /\ c # r
      BY <1>4
    <3> QED  BY <2>1, <3>1, <3>2
  <2>5. \A c \in Receiver :
           c \in Waiting(chan[j].selects)' <=> at'[c] = "parked" /\ (on'[c] = All \/ (on'[c] = j /\ timed'[c]))
    <3>1. Waiting(chan'[j].selects) = Waiting(chan[j].selects) \ {r}
      BY <1>12
    <3>2. \A c \in Receiver : at'[c] = "parked" <=> at[c] = "parked" /\ c # r
      BY <1>4
    <3> QED  BY <2>1, <3>1, <3>2
  <2> QED  BY <2>2, <2>3, <2>4, <2>5, LinesFrom
<1>9. Posted'
  <2>1. \A s \in Sender : at'[s] # "running" => on'[s] = Dest[s] /\ sent'[s] # 0
    BY <1>2, <1>4
  <2>2. \A c \in Receiver : at'[c] # "fired" /\ (at'[c] # "running" => on'[c] \in Channel \union {All})
    BY <1>1, <1>4 DEF LinesInv, Posted
  <2> QED  BY <2>1, <2>2 DEF Posted
<1>10. Filled'
  BY <1>4, <1>5, ValuesArePairs DEF LinesInv, Filled
<1>11. Shut'
  <2>1. \A s \in Sender : Dest[s] \in Channel
    BY ChannelAssumption
  <2> QED  BY <1>12, <1>2, <1>4, <2>1 DEF LinesInv, Shut
<1> QED
  BY <1>6, <1>7, <1>8, <1>9, <1>10, <1>11 DEF LinesInv

\* Buffering a value keeps the invariant.
LEMMA BufferKeeps ==
    ASSUME LinesInv, NEW k \in Channel, NEW v \in Values, NEW a, NEW q, Underway(a, q), Buffer(k, v, a, q),
           RestTypes', \A s \in Sender : a[s] # "running" => on'[s] = Dest[s] /\ sent'[s] # 0,
           \A r \in Receiver : on'[r] = on[r] /\ timed'[r] = timed[r]
    PROVE  LinesInv'
<1> USE ChannelTypesAre
<1>1. /\ chan' = [chan EXCEPT ![k].buffer = Append(@, v), ![k].selects = <<>>]
      /\ at' = a /\ readyQueue' = q /\ result' = result
  BY DEF Buffer
<1>2. /\ chan' \in [Channel -> Conduit]
      /\ \A j \in Channel :
            /\ chan'[j].senders = chan[j].senders /\ chan'[j].receivers = chan[j].receivers
            /\ chan'[j].closed = chan[j].closed /\ chan'[j].alive = chan[j].alive
            /\ chan'[j].selects = IF j = k THEN <<>> ELSE chan[j].selects
  <2>1. Append(chan[k].buffer, v) \in Seq(Values) /\ <<>> \in Seq(Receiver \union {Stale})
    BY DEF LinesInv
  <2> QED  BY ZenonT(60), <1>1, <2>1 DEF LinesInv, Conduit
<1>3. Sender \subseteq Coroutine /\ Receiver \subseteq Coroutine /\ Sender \cap Receiver = {}
  BY ChannelAssumption DEF Coroutine
<1>4. /\ at' \in [Coroutine -> States]
      /\ \A c \in Coroutine : at'[c] = "parked" <=> at[c] = "parked"
      /\ \A c \in Receiver : at'[c] = at[c]
  BY <1>1, <1>3 DEF Underway
<1>5. Scheduled' /\ readyQueue' \in Seq(Coroutine)
  BY <1>1 DEF Underway, Scheduled
<1>6. ChannelTypes'
  BY <1>1, <1>2, <1>4, <1>5, ChannelTypesFrom DEF LinesInv
<1>7. Lines'
  <2> SUFFICES ASSUME NEW j \in Channel PROVE (SenderLine(j) /\ ReceiverLine(j) /\ SelectLine(j))'
    BY DEF Lines
  <2>1. /\ Once(chan[j].senders) /\ IsInjective(chan[j].receivers) /\ Once(chan[j].selects)
        /\ \A s \in Sender : s \in Waiting(chan[j].senders) <=> at[s] = "parked" /\ Dest[s] = j
        /\ \A c \in Receiver : c \in Range(chan[j].receivers) <=> at[c] = "parked" /\ on[c] = j /\ ~timed[c]
        /\ \A c \in Receiver :
              c \in Waiting(chan[j].selects) <=> at[c] = "parked" /\ (on[c] = All \/ (on[c] = j /\ timed[c]))
    BY LinesAre
  <2>2. Once(<<>>) /\ Waiting(<<>>) = {}
    BY EmptyQueue DEF Once, Waiting
  <2>3. Once(chan'[j].selects) /\ Waiting(chan'[j].selects) = Waiting(chan[j].selects)
    <3>1. CASE j = k
      <4>1. FirstLive(chan[k].selects) = 0
        BY DEF Buffer, Nobody, HasSelect
      <4>2. Waiting(chan[k].selects) = {}
        BY <4>1, LinesAre, FirstLiveIsTrue
      <4> QED  BY <1>2, <2>2, <3>1, <4>2
    <3> QED  BY <3>1, <1>2, <2>1
  <2>4. Once(chan[j].senders)' /\ IsInjective(chan[j].receivers)' /\ Once(chan[j].selects)'
    BY <1>2, <2>1, <2>3
  <2>5. \A s \in Sender : s \in Waiting(chan[j].senders)' <=> at'[s] = "parked" /\ Dest[s] = j
    BY <1>2, <1>3, <1>4, <2>1
  <2>6. \A c \in Receiver : c \in Range(chan[j].receivers)' <=> at'[c] = "parked" /\ on'[c] = j /\ ~timed'[c]
    BY <1>2, <1>4, <2>1
  <2>7. \A c \in Receiver :
           c \in Waiting(chan[j].selects)' <=> at'[c] = "parked" /\ (on'[c] = All \/ (on'[c] = j /\ timed'[c]))
    BY <1>4, <2>1, <2>3
  <2> QED  BY <2>4, <2>5, <2>6, <2>7, LinesFrom
<1>8. Posted'
  BY <1>1, <1>4 DEF LinesInv, Posted
<1>9. Filled'
  BY <1>1, <1>4 DEF LinesInv, Filled
<1>10. Shut'
  <2>1. \A s \in Sender : Dest[s] \in Channel
    BY ChannelAssumption
  <2> QED  BY <1>2, <1>3, <1>4, <2>1 DEF LinesInv, Shut
<1> QED
  BY <1>5, <1>6, <1>7, <1>8, <1>9, <1>10 DEF LinesInv

-----------------------------------------------------------------------------
(* Steps in which some stop waiting and some begin to *)

\* Those in G stop waiting and those in P begin to; the rest stay where they are.
Shifts(G, P) ==
    /\ \A c \in Coroutine : at'[c] = "parked" <=> (at[c] = "parked" /\ c \notin G) \/ c \in P
    /\ \A c \in Coroutine :
          c \notin P /\ at'[c] # "running" => at[c] # "running" /\ on'[c] = on[c] /\ timed'[c] = timed[c]
    /\ P \subseteq Coroutine /\ \A c \in P : at[c] # "parked"
    /\ \A s \in Sender : (s \in P => on'[s] = Dest[s]) /\ (s \in P \/ sent[s] # 0 => sent'[s] # 0)
    /\ \A r \in Receiver : at'[r] # "fired" /\ (r \in P => on'[r] \in Channel \union {All})

\* The lines of k tell of it.
Shifted(k, G, P) ==
    /\ Once(chan[k].senders)' /\ IsInjective(chan[k].receivers)' /\ Once(chan[k].selects)'
    /\ \A s \in Sender :
          s \in Waiting(chan[k].senders)'
          <=> (s \in Waiting(chan[k].senders) /\ s \notin G) \/ (s \in P /\ Dest[s] = k)
    /\ \A r \in Receiver :
          r \in Range(chan[k].receivers)'
          <=> (r \in Range(chan[k].receivers) /\ r \notin G) \/ (r \in P /\ on'[r] = k /\ ~timed'[r])
    /\ \A r \in Receiver :
          r \in Waiting(chan[k].selects)'
          <=> \/ r \in Waiting(chan[k].selects) /\ r \notin G
              \/ r \in P /\ (on'[r] = All \/ (on'[r] = k /\ timed'[r]))

\* Such a step keeps the invariant.
LEMMA ShiftKeeps ==
    ASSUME LinesInv, ChannelTypes', Scheduled', Filled', Shut', NEW G, NEW P,
           Shifts(G, P), \A k \in Channel : Shifted(k, G, P)
    PROVE  LinesInv'
<1>1. Sender \subseteq Coroutine /\ Receiver \subseteq Coroutine
  BY DEF Coroutine
<1>2. Posted'
  <2>1. \A s \in Sender : at'[s] # "running" => on'[s] = Dest[s] /\ sent'[s] # 0
    BY <1>1 DEF Shifts, LinesInv, Posted
  <2>2. \A r \in Receiver : at'[r] # "fired" /\ (at'[r] # "running" => on'[r] \in Channel \union {All})
    BY <1>1 DEF Shifts, LinesInv, Posted
  <2> QED  BY <2>1, <2>2 DEF Posted
<1>3. Lines'
  <2> SUFFICES ASSUME NEW k \in Channel PROVE (SenderLine(k) /\ ReceiverLine(k) /\ SelectLine(k))'
    BY DEF Lines
  <2>1. /\ \A s \in Sender : s \in Waiting(chan[k].senders) <=> at[s] = "parked" /\ Dest[s] = k
        /\ \A c \in Receiver : c \in Range(chan[k].receivers) <=> at[c] = "parked" /\ on[c] = k /\ ~timed[c]
        /\ \A c \in Receiver :
              c \in Waiting(chan[k].selects) <=> at[c] = "parked" /\ (on[c] = All \/ (on[c] = k /\ timed[c]))
    BY LinesAre
  <2>2. Once(chan[k].senders)' /\ IsInjective(chan[k].receivers)' /\ Once(chan[k].selects)'
    BY DEF Shifted
  <2>3. \A s \in Sender : s \in Waiting(chan[k].senders)' <=> at'[s] = "parked" /\ Dest[s] = k
    <3>1. \A s \in Sender :
             s \in Waiting(chan[k].senders)'
             <=> (s \in Waiting(chan[k].senders) /\ s \notin G) \/ (s \in P /\ Dest[s] = k)
      BY DEF Shifted
    <3> QED  BY <1>1, <2>1, <3>1 DEF Shifts
  <2>4. \A c \in Receiver : c \in Range(chan[k].receivers)' <=> at'[c] = "parked" /\ on'[c] = k /\ ~timed'[c]
    <3>1. \A r \in Receiver :
             r \in Range(chan[k].receivers)'
             <=> (r \in Range(chan[k].receivers) /\ r \notin G) \/ (r \in P /\ on'[r] = k /\ ~timed'[r])
      BY DEF Shifted
    <3> QED  BY <1>1, <2>1, <3>1 DEF Shifts
  <2>5. \A c \in Receiver :
           c \in Waiting(chan[k].selects)' <=> at'[c] = "parked" /\ (on'[c] = All \/ (on'[c] = k /\ timed'[c]))
    <3>1. \A r \in Receiver :
             r \in Waiting(chan[k].selects)'
             <=> \/ r \in Waiting(chan[k].selects) /\ r \notin G
                 \/ r \in P /\ (on'[r] = All \/ (on'[r] = k /\ timed'[r]))
      BY DEF Shifted
    <3> QED  BY <1>1, <2>1, <3>1 DEF Shifts
  <2> QED  BY <2>2, <2>3, <2>4, <2>5, LinesFrom
<1> QED
  BY <1>2, <1>3 DEF LinesInv

\* Those who are scheduled join the ready queue.
LEMMA ReadyGrows ==
    ASSUME LinesInv, NEW q \in Seq(Coroutine), IsInjective(q),
           Range(q) \subseteq Range(readyQueue),
           NEW cs \in Seq(Coroutine), IsInjective(cs),
           \A c \in Range(cs) : at[c] \notin {"woken", "fired"},
           readyQueue' = q \o cs,
           \A c \in Coroutine : at'[c] \in {"woken", "fired"} <=> c \in Range(q) \/ c \in Range(cs)
    PROVE  Scheduled' /\ readyQueue' \in Seq(Coroutine)
<1>1. Range(q) \cap Range(cs) = {}
  BY DEF LinesInv, Scheduled
<1>2. /\ readyQueue' \in Seq(Coroutine) /\ IsInjective(readyQueue')
      /\ Range(readyQueue') = Range(q) \cup Range(cs)
  BY <1>1, JoinedQueues
<1>3. Range(readyQueue') \subseteq Coroutine
  BY <1>2 DEF Range
<1> QED
  BY <1>2, <1>3 DEF Scheduled

\* The same for one of them.
LEMMA ReadyGrowsByOne ==
    ASSUME LinesInv, NEW c \in Coroutine, at[c] \notin {"woken", "fired"},
           readyQueue' = Append(readyQueue, c),
           \A d \in Coroutine : at'[d] \in {"woken", "fired"} <=> at[d] \in {"woken", "fired"} \/ d = c
    PROVE  Scheduled' /\ readyQueue' \in Seq(Coroutine)
<1>1. readyQueue \in Seq(Coroutine) /\ IsInjective(readyQueue) /\ c \notin Range(readyQueue)
  BY ChannelTypesAre DEF LinesInv, Scheduled
<1>2. /\ readyQueue' \in Seq(Coroutine) /\ IsInjective(readyQueue')
      /\ Range(readyQueue') = Range(readyQueue) \cup {c}
  BY <1>1, AppendedQueue
<1> QED
  BY <1>2 DEF LinesInv, Scheduled

\* Who leaves it runs, or is gone.
LEMMA ReadyShrinks ==
    ASSUME LinesInv, NEW c \in Coroutine,
           \/ readyQueue # <<>> /\ c = Head(readyQueue) /\ readyQueue' = Tail(readyQueue)
           \/ readyQueue' = Without(readyQueue, {c}),
           \A d \in Coroutine : at'[d] \in {"woken", "fired"} <=> at[d] \in {"woken", "fired"} /\ d # c
    PROVE  Scheduled' /\ readyQueue' \in Seq(Coroutine)
<1>1. readyQueue \in Seq(Coroutine) /\ IsInjective(readyQueue)
  BY ChannelTypesAre DEF LinesInv, Scheduled
<1>2. /\ readyQueue' \in Seq(Coroutine) /\ IsInjective(readyQueue')
      /\ Range(readyQueue') = Range(readyQueue) \ {c}
  <2>1. CASE readyQueue # <<>> /\ c = Head(readyQueue) /\ readyQueue' = Tail(readyQueue)
    BY <1>1, <2>1, HeadAndTail
  <2>2. CASE readyQueue' = Without(readyQueue, {c})
    BY <1>1, <2>2, WithoutIsTrue
  <2> QED  BY <2>1, <2>2
<1> QED
  BY <1>2 DEF LinesInv, Scheduled

-----------------------------------------------------------------------------
(* Steps of senders *)

\* The value a sender offers.
LEMMA OfferIsValue ==
    ASSUME LinesInv, NEW s \in Sender, Offers(s)
    PROVE  /\ <<s, sent[s] + 1>> \in Values
           /\ sent' = [sent EXCEPT ![s] = sent[s] + 1] /\ at[s] = "running"
           /\ sent' \in [Sender -> Nat] /\ \A d \in Sender : sent'[d] <= MaxSends[d]
           /\ sent'[s] # 0 /\ \A d \in Sender : sent[d] # 0 => sent'[d] # 0
<1>1. sent \in [Sender -> Nat] /\ \A d \in Sender : sent[d] <= MaxSends[d]
  BY ChannelTypesAre DEF LinesInv
<1>2. MaxSends \in [Sender -> Nat]
  BY ChannelAssumption
<1>3. sent' = [sent EXCEPT ![s] = sent[s] + 1] /\ at[s] = "running" /\ sent[s] < MaxSends[s]
  BY DEF Offers
<1>4. sent[s] + 1 \in Nat /\ sent[s] + 1 \in 1..MaxSends[s]
  BY <1>1, <1>2, <1>3
<1>5. <<s, sent[s] + 1>> \in Values
  BY <1>4, ValuesArePairs
<1> QED
  BY <1>1, <1>2, <1>3, <1>4, <1>5

\* The value a suspended sender holds is one.
LEMMA HeldIsValue ==
    ASSUME LinesInv, NEW s \in Sender, at[s] # "running"
    PROVE  Value(s) \in Values
<1>1. sent[s] \in Nat /\ sent[s] <= MaxSends[s] /\ MaxSends[s] \in Nat
  BY ChannelTypesAre, ChannelAssumption DEF LinesInv
<1>2. sent[s] \in 1..MaxSends[s]
  BY <1>1 DEF LinesInv, Posted
<1> QED  BY <1>1, <1>2, ValuesArePairs DEF Value

\* Where the coroutines are is consistent as it stands.
LEMMA UnderwayNow ==
    ASSUME LinesInv
    PROVE  Underway(at, readyQueue)
BY ChannelTypesAre DEF LinesInv, Scheduled, Underway

\* A send that need not wait keeps the queues.
LEMMA SendNowKeeps ==
    ASSUME LinesInv, NEW s \in Sender, SendNow(s)
    PROVE  LinesInv'
<1> DEFINE v == <<s, sent[s] + 1>>
           k == Dest[s]
<1>1. k \in Channel /\ v \in Values
  BY OfferIsValue, ChannelAssumption DEF SendNow
<1>2. UNCHANGED <<taken, dropped, rebuffered>>
  BY DEF SendNow
<1>3. sent' \in [Sender -> Nat] /\ \A d \in Sender : sent'[d] <= MaxSends[d]
  BY OfferIsValue DEF SendNow
<1>6. \A d \in Sender : sent[d] # 0 => sent'[d] # 0
  BY OfferIsValue DEF SendNow
<1>4. CASE chan[k].closed
  <2>1. UNCHANGED <<chan, at, on, timed, result, readyQueue>> /\ refused' = refused \union {v}
    BY <1>4 DEF SendNow, sys
  <2>2. refused' \subseteq Values
    BY <1>1, <2>1, ChannelTypesAre DEF LinesInv
  <2> HIDE DEF v
  <2>3. ChannelTypes'
    BY <1>2, <1>3, <2>1, <2>2 DEF LinesInv, ChannelTypes, ChannelTypeOK
  <2>4. (Lines /\ Posted /\ Scheduled /\ Filled /\ Shut)'
    BY <1>6, <2>1 DEF LinesInv, Lines, SenderLine, ReceiverLine, SelectLine, Posted, Scheduled, Filled, Shut
  <2> QED  BY <2>3, <2>4 DEF LinesInv
<1>5. CASE ~chan[k].closed
  <2>1. /\ Hand(k, v, at, readyQueue) \/ Buffer(k, v, at, readyQueue)
        /\ UNCHANGED <<on, timed, refused>>
    BY <1>5 DEF SendNow
  <2>2. RestTypes'
    BY <1>2, <1>3, <2>1, ChannelTypesAre DEF RestTypes, LinesInv
  <2>3. \A d \in Sender : at[d] # "running" => on'[d] = Dest[d] /\ sent'[d] # 0
    BY <1>6, <2>1 DEF LinesInv, Posted
  <2>4. \A r \in Receiver : on'[r] = on[r] /\ timed'[r] = timed[r]
    BY <2>1
  <2> HIDE DEF v, k
  <2> QED  BY <1>1, <2>1, <2>2, <2>3, <2>4, UnderwayNow, HandKeeps, BufferKeeps
<1> QED  BY <1>4, <1>5

\* Nobody waits in a line that is emptied of its stale entries.
LEMMA NobodyWaits ==
    ASSUME LinesInv, NEW k \in Channel, Nobody(k)
    PROVE  /\ Waiting(chan[k].selects) = {} /\ Range(chan[k].receivers) = {}
           /\ Once(<<>>) /\ Waiting(<<>>) = {} /\ <<>> \in Seq(Receiver \union {Stale})
<1>1. FirstLive(chan[k].selects) = 0 /\ chan[k].receivers = <<>>
  BY DEF Nobody, HasSelect, HasReceiver
<1>2. Waiting(chan[k].selects) = {}
  BY <1>1, LinesAre, FirstLiveIsTrue
<1>3. Range(<<>>) = {} /\ <<>> \in Seq(Receiver \union {Stale})
  BY EmptyQueue
<1> QED
  BY <1>1, <1>2, <1>3 DEF Once, Waiting

\* So does a try_send that is refused,
LEMMA TrySendFailsKeeps ==
    ASSUME LinesInv, NEW s \in Sender, TrySendFails(s)
    PROVE  LinesInv'
<1> DEFINE k == Dest[s]
<1>1. k \in Channel /\ Nobody(k)
  BY ChannelAssumption DEF TrySendFails, Full
<1>2. /\ chan' = [chan EXCEPT ![k].selects = <<>>] /\ refused' = refused \union {<<s, sent[s] + 1>>}
      /\ UNCHANGED <<at, on, timed, result, readyQueue, taken, dropped, rebuffered>>
  BY DEF TrySendFails
<1>3. /\ <<s, sent[s] + 1>> \in Values
      /\ sent' \in [Sender -> Nat] /\ \A d \in Sender : sent'[d] <= MaxSends[d]
      /\ \A d \in Sender : sent[d] # 0 => sent'[d] # 0
  BY OfferIsValue DEF TrySendFails
<1> HIDE DEF k
<1>4. RestTypes'
  BY <1>2, <1>3, ChannelTypesAre DEF RestTypes, LinesInv
<1>5. /\ chan' \in [Channel -> Conduit]
      /\ \A j \in Channel :
            /\ chan'[j].senders = chan[j].senders /\ chan'[j].receivers = chan[j].receivers
            /\ chan'[j].closed = chan[j].closed /\ chan'[j].alive = chan[j].alive
            /\ chan'[j].selects = IF j = k THEN <<>> ELSE chan[j].selects
  <2>1. <<>> \in Seq(Receiver \union {Stale}) /\ chan \in [Channel -> Conduit]
    BY ChannelTypesAre DEF LinesInv
  <2> QED  BY <1>1, <1>2, <2>1 DEF Conduit
<1>6. ChannelTypes'
  BY <1>2, <1>4, <1>5, ChannelTypesAre, ChannelTypesFrom DEF LinesInv
<1>7. Scheduled' /\ Filled'
  BY <1>2 DEF LinesInv, Scheduled, Filled
<1>8. Shut'
  BY ZenonT(60), <1>2, <1>5, ChannelAssumption DEF LinesInv, Shut
<1>9. Shifts({}, {})
  BY <1>2, <1>3 DEF Shifts, LinesInv, Posted
<1>10. ASSUME NEW j \in Channel PROVE Shifted(j, {}, {})
  <2>1. Once(chan[j].senders) /\ IsInjective(chan[j].receivers) /\ Once(chan[j].selects)
    BY LinesAre
  <2>2. Once(chan'[j].selects) /\ Waiting(chan'[j].selects) = Waiting(chan[j].selects)
    BY <1>1, <1>5, <2>1, NobodyWaits
  <2> QED  BY <1>5, <2>1, <2>2 DEF Shifted
<1> QED
  BY <1>6, <1>7, <1>8, <1>9, <1>10, ShiftKeeps

\* a send that parks its sender at the end of one,
LEMMA SendParksKeeps ==
    ASSUME LinesInv, NEW s \in Sender, NEW t \in BOOLEAN, SendParks(s, t)
    PROVE  LinesInv'
<1> DEFINE k == Dest[s]
           w == IF t THEN chan[k].selects ELSE <<>>
<1>1. k \in Channel /\ Nobody(k) /\ ~chan[k].closed
  BY ChannelAssumption DEF SendParks, Full
<1>2. /\ chan' = [chan EXCEPT ![k].senders = Append(@, s), ![k].selects = IF t THEN @ ELSE <<>>]
      /\ at' = [at EXCEPT ![s] = "parked"] /\ on' = [on EXCEPT ![s] = k]
      /\ timed' = [timed EXCEPT ![s] = t]
      /\ UNCHANGED <<result, readyQueue, taken, refused, dropped, rebuffered>>
  BY DEF SendParks, hist
<1>3. /\ sent' \in [Sender -> Nat] /\ \A d \in Sender : sent'[d] <= MaxSends[d]
      /\ sent'[s] # 0 /\ \A d \in Sender : sent[d] # 0 => sent'[d] # 0
  BY OfferIsValue DEF SendParks
<1>4. at[s] = "running"
  BY OfferIsValue DEF SendParks
<1>5. s \in Coroutine /\ Sender \subseteq Coroutine /\ Receiver \subseteq Coroutine /\ s \notin Receiver
  BY ChannelAssumption DEF Coroutine
<1> HIDE DEF k
<1>6. /\ at' \in [Coroutine -> States] /\ at'[s] = "parked" /\ on'[s] = k
      /\ \A c \in Coroutine : c # s => at'[c] = at[c] /\ on'[c] = on[c] /\ timed'[c] = timed[c]
      /\ on' \in [Coroutine -> Channel \union {None, All}] /\ timed' \in [Coroutine -> BOOLEAN]
  BY <1>1, <1>2, <1>5, ChannelTypesAre DEF LinesInv, States
<1>7. RestTypes'
  BY <1>2, <1>3, <1>6, ChannelTypesAre DEF RestTypes, LinesInv
<1>8. /\ Append(chan[k].senders, s) \in Seq(Sender \union {Stale}) /\ Once(Append(chan[k].senders, s))
      /\ Waiting(Append(chan[k].senders, s)) = Waiting(chan[k].senders) \cup {s}
  <2>1. /\ Stale \notin Sender /\ chan[k].senders \in Seq(Sender \union {Stale}) /\ Once(chan[k].senders)
        /\ s \notin Waiting(chan[k].senders)
    BY <1>1, <1>4, LinesAre
  <2> QED  BY <2>1, JoinedLine
<1>9. w \in Seq(Receiver \union {Stale}) /\ Once(w) /\ Waiting(w) = Waiting(chan[k].selects)
  BY <1>1, NobodyWaits, LinesAre
<1>10. /\ chan' \in [Channel -> Conduit]
       /\ \A j \in Channel :
             /\ chan'[j].receivers = chan[j].receivers
             /\ chan'[j].closed = chan[j].closed /\ chan'[j].alive = chan[j].alive
             /\ chan'[j].senders = IF j = k THEN Append(chan[k].senders, s) ELSE chan[j].senders
             /\ chan'[j].selects = IF j = k THEN w ELSE chan[j].selects
  <2>1. chan' = [chan EXCEPT ![k] = [chan[k] EXCEPT !.senders = Append(chan[k].senders, s), !.selects = w]]
    BY <1>1, <1>2
  <2> HIDE DEF w
  <2>2. chan \in [Channel -> Conduit]
    BY ChannelTypesAre DEF LinesInv
  <2> QED  BY <1>1, <1>8, <1>9, <2>1, <2>2 DEF Conduit
<1> HIDE DEF w
<1>11. ChannelTypes'
  BY <1>2, <1>6, <1>7, <1>10, ChannelTypesAre, ChannelTypesFrom DEF LinesInv
<1>12. Scheduled' /\ Filled'
  BY <1>2, <1>4, <1>5, <1>6 DEF LinesInv, Scheduled, Filled
<1>13. Shut'
  <2>1. \A d \in Sender : Dest[d] \in Channel
    BY ChannelAssumption
  <2> QED  BY <1>1, <1>5, <1>6, <1>10, <2>1 DEF LinesInv, Shut, k
<1>14. Shifts({}, {s})
  BY <1>3, <1>4, <1>5, <1>6 DEF Shifts, LinesInv, Posted, k
<1>15. ASSUME NEW j \in Channel PROVE Shifted(j, {}, {s})
  <2>1. Once(chan[j].senders) /\ IsInjective(chan[j].receivers) /\ Once(chan[j].selects)
    BY LinesAre
  <2>2. Once(chan'[j].selects) /\ Waiting(chan'[j].selects) = Waiting(chan[j].selects)
    BY <1>9, <1>10, <2>1
  <2>3. /\ Once(chan'[j].senders)
        /\ Waiting(chan'[j].senders) = Waiting(chan[j].senders) \cup (IF j = k THEN {s} ELSE {})
    BY <1>8, <1>10, <2>1
  <2> QED  BY <1>5, <1>10, <2>1, <2>2, <2>3 DEF Shifted, k
<1> QED
  BY <1>11, <1>12, <1>13, <1>14, <1>15, ShiftKeeps

\* A woken sender that runs again is out of the ready queue.
LEMMA UnderwayAgain ==
    ASSUME LinesInv, NEW s \in Sender, readyQueue # <<>>, s = Head(readyQueue), at[s] = "woken"
    PROVE  Underway([at EXCEPT ![s] = "running"], Tail(readyQueue))
<1> DEFINE a == [at EXCEPT ![s] = "running"]
<1>1. at \in [Coroutine -> States] /\ readyQueue \in Seq(Coroutine) /\ IsInjective(readyQueue)
  BY ChannelTypesAre DEF LinesInv, Scheduled
<1>2. s \in Coroutine
  BY DEF Coroutine
<1>3. a \in [Coroutine -> States] /\ a[s] = "running" /\ \A c \in Coroutine : c # s => a[c] = at[c]
  BY <1>1, <1>2 DEF States
<1>4. /\ Tail(readyQueue) \in Seq(Coroutine) /\ IsInjective(Tail(readyQueue))
      /\ Range(Tail(readyQueue)) = Range(readyQueue) \ {s}
  BY <1>1, HeadAndTail
<1> HIDE DEF a
<1>5. Range(Tail(readyQueue)) = {c \in Coroutine : a[c] \in {"woken", "fired"}}
  BY <1>2, <1>3, <1>4 DEF LinesInv, Scheduled
<1>6. Underway(a, Tail(readyQueue))
  BY <1>3, <1>4, <1>5 DEF Underway
<1> QED  BY <1>6 DEF a

\* and the resumption of a sender that was woken.
LEMMA SenderResumesKeeps ==
    ASSUME LinesInv, NEW s \in Sender, SenderResumes(s)
    PROVE  LinesInv'
<1> DEFINE k == on[s]
           a == [at EXCEPT ![s] = "running"]
           v == Value(s)
<1>1. /\ readyQueue # <<>> /\ s = Head(readyQueue) /\ at[s] = "woken"
      /\ on' = [on EXCEPT ![s] = None] /\ timed' = [timed EXCEPT ![s] = FALSE]
      /\ UNCHANGED <<sent, taken, dropped, rebuffered>>
  BY DEF SenderResumes
<1>2. k = Dest[s] /\ k \in Channel /\ v \in Values
  BY <1>1, HeldIsValue, ChannelAssumption DEF LinesInv, Posted
<1>3. s \in Coroutine /\ Sender \subseteq Coroutine /\ Receiver \subseteq Coroutine /\ s \notin Receiver
  BY ChannelAssumption DEF Coroutine
<1>4. /\ on' \in [Coroutine -> Channel \union {None, All}] /\ timed' \in [Coroutine -> BOOLEAN]
      /\ \A c \in Coroutine : c # s => on'[c] = on[c] /\ timed'[c] = timed[c]
  BY <1>1, <1>3, ChannelTypesAre DEF LinesInv
<1>5. Underway(a, Tail(readyQueue))
  BY <1>1, UnderwayAgain
<1>6. a \in [Coroutine -> States] /\ a[s] = "running" /\ \A c \in Coroutine : c # s => a[c] = at[c]
  BY <1>3, ChannelTypesAre DEF LinesInv, States
<1>7. \A d \in Sender : a[d] # "running" => on'[d] = Dest[d] /\ sent'[d] # 0
  BY <1>1, <1>3, <1>4, <1>6 DEF LinesInv, Posted
<1>8. \A r \in Receiver : on'[r] = on[r] /\ timed'[r] = timed[r]
  BY <1>3, <1>4
<1>9. CASE chan[k].closed \/ ~chan[k].alive
  <2>1. refused' = refused \union {v} /\ at' = a /\ readyQueue' = Tail(readyQueue) /\ UNCHANGED <<chan, result>>
    BY <1>9 DEF SenderResumes
  <2> HIDE DEF k, a, v
  <2>2. RestTypes'
    BY <1>1, <1>2, <1>4, <2>1, ChannelTypesAre DEF RestTypes, LinesInv
  <2>3. Scheduled' /\ readyQueue' \in Seq(Coroutine)
    BY <1>5, <2>1 DEF Underway, Scheduled
  <2>4. ChannelTypes'
    BY <1>6, <2>1, <2>2, <2>3, ChannelTypesAre, ChannelTypesFrom DEF LinesInv
  <2>5. Filled'
    BY <1>3, <1>6, <2>1 DEF LinesInv, Filled
  <2>6. Shut'
    BY <1>1, <1>3, <1>6, <2>1 DEF LinesInv, Shut
  <2>7. Shifts({}, {})
    BY ZenonT(60), <1>1, <1>3, <1>4, <1>6, <2>1 DEF Shifts, LinesInv, Posted
  <2>8. ASSUME NEW j \in Channel PROVE Shifted(j, {}, {})
    BY <2>1, LinesAre DEF Shifted
  <2> QED  BY <2>3, <2>4, <2>5, <2>6, <2>7, <2>8, ShiftKeeps
<1>10. CASE ~(chan[k].closed \/ ~chan[k].alive)
  <2>1. /\ Hand(k, v, a, Tail(readyQueue)) \/ Buffer(k, v, a, Tail(readyQueue))
        /\ UNCHANGED refused
    BY <1>10 DEF SenderResumes
  <2> HIDE DEF k, a, v
  <2>2. RestTypes'
    BY <1>1, <1>4, <2>1, ChannelTypesAre DEF RestTypes, LinesInv
  <2> QED  BY <1>2, <1>5, <1>7, <1>8, <2>1, <2>2, HandKeeps, BufferKeeps
<1> QED  BY <1>9, <1>10

\* The timer of a send makes its sender's entry stale.
LEMMA SendTimerKeeps ==
    ASSUME LinesInv, NEW s \in Sender, SendTimer(s)
    PROVE  LinesInv'
<1> DEFINE k == Dest[s]
           q == GoStale(chan[k].senders, {s})
<1>1. on[s] = k /\ k \in Channel /\ at[s] = "parked"
  BY ChannelAssumption DEF SendTimer, LinesInv, Posted
<1>2. /\ chan' = [chan EXCEPT ![k].senders = GoStale(@, {s})]
      /\ at' = [at EXCEPT ![s] = "fired"] /\ readyQueue' = Append(readyQueue, s)
      /\ UNCHANGED <<on, timed, result, sent, taken, refused, dropped, rebuffered>>
  BY <1>1 DEF SendTimer, hist
<1>3. s \in Coroutine /\ Sender \subseteq Coroutine /\ Receiver \subseteq Coroutine /\ s \notin Receiver
  BY ChannelAssumption DEF Coroutine
<1>4. /\ q \in Seq(Sender \cup {Stale}) /\ Once(q) /\ Waiting(q) = Waiting(chan[k].senders) \ {s}
  BY <1>1, LinesAre, StaleLine
<1>5. /\ chan' \in [Channel -> Conduit]
      /\ \A j \in Channel :
            /\ chan'[j].receivers = chan[j].receivers /\ chan'[j].selects = chan[j].selects
            /\ chan'[j].closed = chan[j].closed /\ chan'[j].alive = chan[j].alive
            /\ chan'[j].senders = IF j = k THEN q ELSE chan[j].senders
  <2>1. chan' = [chan EXCEPT ![k] = [chan[k] EXCEPT !.senders = q]]
    BY <1>1, <1>2
  <2> HIDE DEF q, k
  <2>2. chan \in [Channel -> Conduit]
    BY ChannelTypesAre DEF LinesInv
  <2> QED  BY ZenonT(60), <1>1, <1>4, <2>1, <2>2 DEF Conduit
<1> HIDE DEF q, k
<1>6. /\ at' \in [Coroutine -> States] /\ at'[s] = "fired"
      /\ \A c \in Coroutine : c # s => at'[c] = at[c]
  BY <1>2, <1>3, ChannelTypesAre DEF LinesInv, States
<1>7. Scheduled' /\ readyQueue' \in Seq(Coroutine)
  <2>1. \A d \in Coroutine : at'[d] \in {"woken", "fired"} <=> at[d] \in {"woken", "fired"} \/ d = s
    BY <1>6
  <2> QED  BY <1>1, <1>2, <1>3, <2>1, ReadyGrowsByOne
<1>8. ChannelTypes'
  BY <1>2, <1>5, <1>6, <1>7, ChannelTypesAre, ChannelTypesFrom DEF LinesInv, RestTypes
<1>9. Filled'
  BY <1>2, <1>3, <1>6 DEF LinesInv, Filled
<1>10. Shut'
  <2>1. \A d \in Sender : Dest[d] \in Channel
    BY ChannelAssumption
  <2> QED  BY <1>3, <1>5, <1>6, <2>1 DEF LinesInv, Shut
<1>11. Shifts({s}, {})
  BY <1>1, <1>2, <1>3, <1>6 DEF Shifts, LinesInv, Posted
<1>12. ASSUME NEW j \in Channel PROVE Shifted(j, {s}, {})
  <2>1. /\ Once(chan[j].senders) /\ IsInjective(chan[j].receivers) /\ Once(chan[j].selects)
        /\ j # k => s \notin Waiting(chan[j].senders)
    BY LinesAre DEF k
  <2>2. Once(chan'[j].senders) /\ Waiting(chan'[j].senders) = Waiting(chan[j].senders) \ {s}
    BY <1>4, <1>5, <2>1
  <2> QED  BY <1>3, <1>5, <2>1, <2>2 DEF Shifted
<1> QED
  BY <1>7, <1>8, <1>9, <1>10, <1>11, <1>12, ShiftKeeps

\* The sender whose timer fired goes on refused.
LEMMA FiredResumesKeeps ==
    ASSUME LinesInv, NEW s \in Sender, FiredResumes(s)
    PROVE  LinesInv'
<1>1. /\ readyQueue # <<>> /\ s = Head(readyQueue) /\ at[s] = "fired"
      /\ at' = [at EXCEPT ![s] = "running"] /\ readyQueue' = Tail(readyQueue)
      /\ on' = [on EXCEPT ![s] = None] /\ timed' = [timed EXCEPT ![s] = FALSE]
      /\ refused' = refused \union {Value(s)}
      /\ UNCHANGED <<chan, result, sent, taken, dropped, rebuffered>>
  BY DEF FiredResumes
<1>2. s \in Coroutine /\ Sender \subseteq Coroutine /\ Receiver \subseteq Coroutine /\ s \notin Receiver
  BY ChannelAssumption DEF Coroutine
<1>3. /\ at' \in [Coroutine -> States] /\ at'[s] = "running"
      /\ \A c \in Coroutine : c # s => at'[c] = at[c] /\ on'[c] = on[c] /\ timed'[c] = timed[c]
      /\ on' \in [Coroutine -> Channel \union {None, All}] /\ timed' \in [Coroutine -> BOOLEAN]
  BY <1>1, <1>2, ChannelTypesAre DEF LinesInv, States
<1>4. Value(s) \in Values
  BY <1>1, HeldIsValue
<1>5. RestTypes'
  BY <1>1, <1>3, <1>4, ChannelTypesAre DEF RestTypes, LinesInv
<1>6. Scheduled' /\ readyQueue' \in Seq(Coroutine)
  <2>1. \A d \in Coroutine : at'[d] \in {"woken", "fired"} <=> at[d] \in {"woken", "fired"} /\ d # s
    BY <1>1, <1>3
  <2> QED  BY <1>1, <1>2, <2>1, ReadyShrinks
<1>7. ChannelTypes'
  BY <1>1, <1>3, <1>5, <1>6, ChannelTypesAre, ChannelTypesFrom DEF LinesInv
<1>8. Filled' /\ Shut'
  BY <1>1, <1>2, <1>3 DEF LinesInv, Filled, Shut
<1>9. Shifts({}, {})
  BY <1>1, <1>2, <1>3 DEF Shifts, LinesInv, Posted
<1>10. ASSUME NEW j \in Channel PROVE Shifted(j, {}, {})
  BY <1>1, LinesAre DEF Shifted
<1> QED
  BY <1>6, <1>7, <1>8, <1>9, <1>10, ShiftKeeps

-----------------------------------------------------------------------------
(* Steps of receivers *)

\* The sender that is woken when room is made on k, or a receiver comes.
LEMMA WokenSenders ==
    ASSUME LinesInv, NEW k \in Channel
    PROVE  LET cs == NextSender(chan[k].senders)
           IN  /\ cs \in Seq(Coroutine) /\ IsInjective(cs)
               /\ Range(cs) \subseteq Sender /\ \A c \in Range(cs) : at[c] = "parked" /\ Dest[c] = k
               /\ AfterLive(chan[k].senders) \in Seq(Sender \cup {Stale}) /\ Once(AfterLive(chan[k].senders))
               /\ Waiting(AfterLive(chan[k].senders)) = Waiting(chan[k].senders) \ Range(cs)
               /\ (\A s \in Sender : ~(at[s] = "parked" /\ Dest[s] = k)) \/ \E c \in Sender : cs = <<c>>
<1> DEFINE q == chan[k].senders
           cs == NextSender(q)
<1>1. /\ Stale \notin Sender /\ q \in Seq(Sender \union {Stale}) /\ Once(q) /\ Waiting(q) \subseteq Sender
      /\ \A s \in Sender : s \in Waiting(q) <=> at[s] = "parked" /\ Dest[s] = k
  BY LinesAre
<1> HIDE DEF q
<1>2. /\ AfterLive(q) \in Seq(Sender \cup {Stale}) /\ Once(AfterLive(q))
      /\ cs \in Seq(Sender) /\ IsInjective(cs)
      /\ Range(cs) \subseteq Waiting(q)
      /\ Waiting(AfterLive(q)) = Waiting(q) \ Range(cs)
      /\ (Waiting(q) = {} /\ cs = <<>>) \/ \E c \in Waiting(q) : cs = <<c>>
  BY <1>1, NextSenderIsTrue
<1> HIDE DEF cs
<1>3. cs \in Seq(Coroutine)
  BY <1>2 DEF Coroutine
<1>4. Range(cs) \subseteq Sender /\ \A c \in Range(cs) : at[c] = "parked" /\ Dest[c] = k
  BY <1>1, <1>2
<1>5. (\A s \in Sender : ~(at[s] = "parked" /\ Dest[s] = k)) \/ \E c \in Sender : cs = <<c>>
  BY <1>1, <1>2
<1> QED  BY <1>2, <1>3, <1>4, <1>5 DEF q, cs

\* Waking some.
LEMMA WakeIs ==
    ASSUME NEW a \in [Coroutine -> States], NEW cs
    PROVE  /\ Wake(a, cs) \in [Coroutine -> States]
           /\ \A c \in Coroutine : Wake(a, cs)[c] = IF c \in Range(cs) THEN "woken" ELSE a[c]
BY DEF Wake, States

\* A receive that need not wait keeps the queues,
LEMMA RecvNowKeeps ==
    ASSUME LinesInv, NEW r \in Receiver, NEW k \in Channel, RecvNow(r, k)
    PROVE  LinesInv'
<1> DEFINE cs == NextSender(chan[k].senders)
           rest == AfterLive(chan[k].senders)
           v == Head(chan[k].buffer)
<1>1. /\ at' = Wake(at, cs) /\ readyQueue' = readyQueue \o cs /\ taken' = taken \union {v}
      /\ chan[k].buffer # <<>>
      /\ chan' = [chan EXCEPT ![k].buffer = Tail(@), ![k].senders = AfterLive(@)]
      /\ UNCHANGED <<on, timed, result, sent, refused, dropped, rebuffered>>
  BY DEF RecvNow, Pop
<1>2. /\ cs \in Seq(Coroutine) /\ IsInjective(cs)
      /\ Range(cs) \subseteq Sender /\ \A c \in Range(cs) : at[c] = "parked" /\ Dest[c] = k
      /\ rest \in Seq(Sender \cup {Stale}) /\ Once(rest)
      /\ Waiting(rest) = Waiting(chan[k].senders) \ Range(cs)
  BY WokenSenders
<1>3. v \in Values /\ Tail(chan[k].buffer) \in Seq(Values)
  BY <1>1, ChannelTypesAre DEF LinesInv
<1>4. Sender \subseteq Coroutine /\ Receiver \subseteq Coroutine /\ Sender \cap Receiver = {}
  BY ChannelAssumption DEF Coroutine
<1>5. /\ chan' \in [Channel -> Conduit]
      /\ \A j \in Channel :
            /\ chan'[j].receivers = chan[j].receivers /\ chan'[j].selects = chan[j].selects
            /\ chan'[j].closed = chan[j].closed /\ chan'[j].alive = chan[j].alive
            /\ chan'[j].senders = IF j = k THEN rest ELSE chan[j].senders
  <2>1. chan' = [chan EXCEPT ![k] = [chan[k] EXCEPT !.buffer = Tail(chan[k].buffer), !.senders = rest]]
    BY <1>1
  <2> HIDE DEF rest
  <2>2. chan \in [Channel -> Conduit]
    BY ChannelTypesAre DEF LinesInv
  <2> QED  BY ZenonT(60), <1>2, <1>3, <2>1, <2>2 DEF Conduit
<1> HIDE DEF cs, rest, v
<1>6. /\ at' \in [Coroutine -> States]
      /\ \A c \in Coroutine : at'[c] = IF c \in Range(cs) THEN "woken" ELSE at[c]
  <2>1. at \in [Coroutine -> States]
    BY ChannelTypesAre DEF LinesInv
  <2> QED  BY <1>1, <2>1, WakeIs
<1>7. Scheduled' /\ readyQueue' \in Seq(Coroutine)
  <2>1. readyQueue \in Seq(Coroutine) /\ IsInjective(readyQueue)
    BY ChannelTypesAre DEF LinesInv, Scheduled
  <2>2. \A c \in Coroutine : at'[c] \in {"woken", "fired"} <=> c \in Range(readyQueue) \/ c \in Range(cs)
    BY <1>6 DEF LinesInv, Scheduled
  <2> QED  BY <1>1, <1>2, <2>1, <2>2, ReadyGrows
<1>8. RestTypes'
  BY <1>1, <1>3, ChannelTypesAre DEF RestTypes, LinesInv
<1>9. ChannelTypes'
  BY <1>1, <1>5, <1>6, <1>7, <1>8, ChannelTypesAre, ChannelTypesFrom DEF LinesInv
<1>10. Filled'
  BY <1>1, <1>2, <1>4, <1>6 DEF LinesInv, Filled
<1>11. Shut'
  BY <1>4, <1>5, <1>6, ChannelAssumption DEF LinesInv, Shut
<1>12. Shifts(Range(cs), {})
  BY <1>1, <1>2, <1>4, <1>6 DEF Shifts, LinesInv, Posted
<1>13. ASSUME NEW j \in Channel PROVE Shifted(j, Range(cs), {})
  <2>1. /\ Once(chan[j].senders) /\ IsInjective(chan[j].receivers) /\ Once(chan[j].selects)
        /\ \A s \in Sender : s \in Waiting(chan[j].senders) => Dest[s] = j
    BY LinesAre
  <2>2. /\ Once(chan'[j].senders)
        /\ \A s \in Sender : s \in Waiting(chan'[j].senders) <=> s \in Waiting(chan[j].senders) /\ s \notin Range(cs)
    BY <1>2, <1>5, <2>1
  <2> QED  BY <1>2, <1>4, <1>5, <2>1, <2>2 DEF Shifted
<1> QED
  BY <1>7, <1>9, <1>10, <1>11, <1>12, <1>13, ShiftKeeps

\* What parking does, besides the lines: some senders are woken.
LEMMA ParksIs ==
    ASSUME LinesInv, NEW r \in Receiver, at[r] = "running", NEW k \in Channel \union {All},
           NEW t \in BOOLEAN, NEW cs \in Seq(Coroutine), IsInjective(cs), Range(cs) \subseteq Sender,
           \A c \in Range(cs) : at[c] = "parked", Parks(r, k, t, at, cs)
    PROVE  /\ at' \in [Coroutine -> States] /\ readyQueue' \in Seq(Coroutine)
           /\ at'[r] = "parked" /\ on'[r] = k /\ timed'[r] = t
           /\ \A c \in Coroutine : c # r =>
                 at'[c] = (IF c \in Range(cs) THEN "woken" ELSE at[c]) /\ on'[c] = on[c] /\ timed'[c] = timed[c]
           /\ RestTypes' /\ Scheduled' /\ Filled' /\ Shifts(Range(cs), {r})
           /\ result' \in [Receiver -> Values \union {NoValue, Closed, Timeout}]
<1>1. /\ at' = Wake([at EXCEPT ![r] = "parked"], cs)
      /\ on' = [on EXCEPT ![r] = k] /\ timed' = [timed EXCEPT ![r] = t]
      /\ readyQueue' = readyQueue \o cs
      /\ UNCHANGED <<result, sent, taken, refused, dropped, rebuffered>>
  BY DEF Parks, hist
<1>2. /\ r \in Coroutine /\ Sender \subseteq Coroutine /\ Receiver \subseteq Coroutine
      /\ r \notin Sender /\ Sender \cap Receiver = {}
  BY ChannelAssumption DEF Coroutine
<1>3. /\ at' \in [Coroutine -> States] /\ at'[r] = "parked"
      /\ \A c \in Coroutine : c # r => at'[c] = IF c \in Range(cs) THEN "woken" ELSE at[c]
  <2> DEFINE a == [at EXCEPT ![r] = "parked"]
  <2>1. a \in [Coroutine -> States] /\ a[r] = "parked" /\ \A c \in Coroutine : c # r => a[c] = at[c]
    BY <1>2, ChannelTypesAre DEF LinesInv, States
  <2>2. at' = Wake(a, cs)
    BY <1>1
  <2> HIDE DEF a
  <2>3. at' \in [Coroutine -> States] /\ \A c \in Coroutine : at'[c] = IF c \in Range(cs) THEN "woken" ELSE a[c]
    BY <2>1, <2>2, WakeIs
  <2> QED  BY <1>2, <2>1, <2>3
<1>4. /\ on' \in [Coroutine -> Channel \union {None, All}] /\ timed' \in [Coroutine -> BOOLEAN]
      /\ on'[r] = k /\ timed'[r] = t
      /\ \A c \in Coroutine : c # r => on'[c] = on[c] /\ timed'[c] = timed[c]
  BY <1>1, <1>2, ChannelTypesAre DEF LinesInv
<1>5. RestTypes' /\ result' \in [Receiver -> Values \union {NoValue, Closed, Timeout}]
  BY <1>1, <1>4, ChannelTypesAre DEF RestTypes, LinesInv
<1>6. Scheduled' /\ readyQueue' \in Seq(Coroutine)
  <2>1. readyQueue \in Seq(Coroutine) /\ IsInjective(readyQueue)
    BY ChannelTypesAre DEF LinesInv, Scheduled
  <2>2. \A c \in Coroutine : at'[c] \in {"woken", "fired"} <=> c \in Range(readyQueue) \/ c \in Range(cs)
    BY <1>2, <1>3 DEF LinesInv, Scheduled
  <2> QED  BY <1>1, <2>1, <2>2, ReadyGrows
<1>7. Filled'
  BY <1>1, <1>2, <1>3 DEF LinesInv, Filled
<1>8. Shifts(Range(cs), {r})
  BY ZenonT(60), <1>1, <1>2, <1>3, <1>4 DEF Shifts, LinesInv, Posted
<1> QED  BY <1>3, <1>4, <1>5, <1>6, <1>7, <1>8

\* as does one that parks its receiver at the end of one.
LEMMA RecvParksKeeps ==
    ASSUME LinesInv, NEW r \in Receiver, NEW k \in Channel, RecvParks(r, k)
    PROVE  LinesInv'
<1> DEFINE cs == NextSender(chan[k].senders)
           rest == AfterLive(chan[k].senders)
           line == Append(chan[k].receivers, r)
<1>1. /\ at[r] = "running" /\ Parks(r, k, FALSE, at, cs)
      /\ chan' = [chan EXCEPT ![k].receivers = Append(@, r), ![k].senders = AfterLive(@)]
  BY DEF RecvParks
<1>2. /\ cs \in Seq(Coroutine) /\ IsInjective(cs)
      /\ Range(cs) \subseteq Sender /\ \A c \in Range(cs) : at[c] = "parked" /\ Dest[c] = k
      /\ rest \in Seq(Sender \cup {Stale}) /\ Once(rest)
      /\ Waiting(rest) = Waiting(chan[k].senders) \ Range(cs)
  BY WokenSenders
<1>3. /\ line \in Seq(Receiver) /\ IsInjective(line)
      /\ Range(line) = Range(chan[k].receivers) \cup {r}
  <2>1. chan[k].receivers \in Seq(Receiver) /\ IsInjective(chan[k].receivers) /\ r \notin Range(chan[k].receivers)
    BY <1>1, LinesAre
  <2> QED  BY <2>1, AppendedQueue
<1>4. Sender \subseteq Coroutine /\ Receiver \subseteq Coroutine /\ Sender \cap Receiver = {}
  BY ChannelAssumption DEF Coroutine
<1>5. /\ chan' \in [Channel -> Conduit]
      /\ \A j \in Channel :
            /\ chan'[j].selects = chan[j].selects
            /\ chan'[j].closed = chan[j].closed /\ chan'[j].alive = chan[j].alive
            /\ chan'[j].receivers = IF j = k THEN line ELSE chan[j].receivers
            /\ chan'[j].senders = IF j = k THEN rest ELSE chan[j].senders
  <2>1. chan' = [chan EXCEPT ![k] = [chan[k] EXCEPT !.receivers = line, !.senders = rest]]
    BY <1>1
  <2> HIDE DEF rest, line
  <2>2. chan \in [Channel -> Conduit]
    BY ChannelTypesAre DEF LinesInv
  <2> QED  BY ZenonT(60), <1>2, <1>3, <2>1, <2>2 DEF Conduit
<1> HIDE DEF cs, rest, line
<1>6. /\ at' \in [Coroutine -> States] /\ readyQueue' \in Seq(Coroutine)
      /\ at'[r] = "parked" /\ on'[r] = k /\ timed'[r] = FALSE
      /\ \A c \in Coroutine : c # r =>
            at'[c] = (IF c \in Range(cs) THEN "woken" ELSE at[c]) /\ on'[c] = on[c] /\ timed'[c] = timed[c]
      /\ RestTypes' /\ Scheduled' /\ Filled' /\ Shifts(Range(cs), {r})
      /\ result' \in [Receiver -> Values \union {NoValue, Closed, Timeout}]
  BY <1>1, <1>2, ParksIs
<1>7. ChannelTypes'
  BY <1>5, <1>6, ChannelTypesFrom
<1>8. Shut'
  BY ZenonT(60), <1>4, <1>5, <1>6, ChannelAssumption DEF LinesInv, Shut
<1>9. ASSUME NEW j \in Channel PROVE Shifted(j, Range(cs), {r})
  <2>1. /\ Once(chan[j].senders) /\ IsInjective(chan[j].receivers) /\ Once(chan[j].selects)
        /\ \A s \in Sender : s \in Waiting(chan[j].senders) => Dest[s] = j
    BY LinesAre
  <2>2. /\ Once(chan'[j].senders)
        /\ \A s \in Sender : s \in Waiting(chan'[j].senders) <=> s \in Waiting(chan[j].senders) /\ s \notin Range(cs)
    BY <1>2, <1>5, <2>1
  <2>3. /\ IsInjective(chan'[j].receivers)
        /\ Range(chan'[j].receivers) = Range(chan[j].receivers) \cup (IF j = k THEN {r} ELSE {})
    BY <1>3, <1>5, <2>1
  <2>4. on'[r] # All
    BY <1>6, ChannelAssumption DEF All
  <2> QED  BY <1>2, <1>4, <1>5, <1>6, <2>1, <2>2, <2>3, <2>4 DEF Shifted
<1> QED
  BY <1>6, <1>7, <1>8, <1>9, ShiftKeeps

\* A timed receive waits in the line of the selects.
LEMMA RecvForParksKeeps ==
    ASSUME LinesInv, NEW r \in Receiver, NEW k \in Channel, RecvForParks(r, k)
    PROVE  LinesInv'
<1> DEFINE cs == NextSender(chan[k].senders)
           rest == AfterLive(chan[k].senders)
           line == Append(chan[k].selects, r)
<1>1. /\ at[r] = "running" /\ Parks(r, k, TRUE, at, cs)
      /\ chan' = [chan EXCEPT ![k].selects = Append(@, r), ![k].senders = AfterLive(@)]
  BY DEF RecvForParks
<1>2. /\ cs \in Seq(Coroutine) /\ IsInjective(cs)
      /\ Range(cs) \subseteq Sender /\ \A c \in Range(cs) : at[c] = "parked" /\ Dest[c] = k
      /\ rest \in Seq(Sender \cup {Stale}) /\ Once(rest)
      /\ Waiting(rest) = Waiting(chan[k].senders) \ Range(cs)
  BY WokenSenders
<1>3. /\ line \in Seq(Receiver \cup {Stale}) /\ Once(line)
      /\ Waiting(line) = Waiting(chan[k].selects) \cup {r}
  <2>1. /\ Stale \notin Receiver /\ chan[k].selects \in Seq(Receiver \cup {Stale})
        /\ Once(chan[k].selects) /\ r \notin Waiting(chan[k].selects)
    BY <1>1, LinesAre
  <2> QED  BY <2>1, JoinedLine
<1>4. Sender \subseteq Coroutine /\ Receiver \subseteq Coroutine /\ Sender \cap Receiver = {}
  BY ChannelAssumption DEF Coroutine
<1>5. /\ chan' \in [Channel -> Conduit]
      /\ \A j \in Channel :
            /\ chan'[j].receivers = chan[j].receivers
            /\ chan'[j].closed = chan[j].closed /\ chan'[j].alive = chan[j].alive
            /\ chan'[j].selects = IF j = k THEN line ELSE chan[j].selects
            /\ chan'[j].senders = IF j = k THEN rest ELSE chan[j].senders
  <2>1. chan' = [chan EXCEPT ![k] = [chan[k] EXCEPT !.selects = line, !.senders = rest]]
    BY <1>1
  <2> HIDE DEF rest, line
  <2>2. chan \in [Channel -> Conduit]
    BY ChannelTypesAre DEF LinesInv
  <2> QED  BY ZenonT(60), <1>2, <1>3, <2>1, <2>2 DEF Conduit
<1> HIDE DEF cs, rest, line
<1>6. /\ at' \in [Coroutine -> States] /\ readyQueue' \in Seq(Coroutine)
      /\ at'[r] = "parked" /\ on'[r] = k /\ timed'[r] = TRUE
      /\ \A c \in Coroutine : c # r =>
            at'[c] = (IF c \in Range(cs) THEN "woken" ELSE at[c]) /\ on'[c] = on[c] /\ timed'[c] = timed[c]
      /\ RestTypes' /\ Scheduled' /\ Filled' /\ Shifts(Range(cs), {r})
      /\ result' \in [Receiver -> Values \union {NoValue, Closed, Timeout}]
  BY <1>1, <1>2, ParksIs
<1>7. ChannelTypes'
  BY <1>5, <1>6, ChannelTypesFrom
<1>8. Shut'
  BY ZenonT(60), <1>4, <1>5, <1>6, ChannelAssumption DEF LinesInv, Shut
<1>9. ASSUME NEW j \in Channel PROVE Shifted(j, Range(cs), {r})
  <2>1. /\ Once(chan[j].senders) /\ IsInjective(chan[j].receivers) /\ Once(chan[j].selects)
        /\ \A s \in Sender : s \in Waiting(chan[j].senders) => Dest[s] = j
    BY LinesAre
  <2>2. /\ Once(chan'[j].senders)
        /\ \A s \in Sender : s \in Waiting(chan'[j].senders) <=> s \in Waiting(chan[j].senders) /\ s \notin Range(cs)
    BY <1>2, <1>5, <2>1
  <2>3. /\ Once(chan'[j].selects)
        /\ Waiting(chan'[j].selects) = Waiting(chan[j].selects) \cup (IF j = k THEN {r} ELSE {})
    BY <1>3, <1>5, <2>1
  <2>4. on'[r] # All
    BY <1>6, ChannelAssumption DEF All
  <2> QED  BY <1>2, <1>4, <1>5, <1>6, <2>1, <2>2, <2>3, <2>4 DEF Shifted
<1> QED
  BY <1>6, <1>7, <1>8, <1>9, ShiftKeeps

\* select() wakes the first sender of each channel.
FirstOfEach == {c \in Sender : \E k \in Channel : NextSender(chan[k].senders) = <<c>>}

\* They were parked, each in the line of its channel.
LEMMA FirstOfEachIs ==
    ASSUME LinesInv, NEW cs \in SetToSeqs(FirstOfEach)
    PROVE  /\ cs \in Seq(Coroutine) /\ IsInjective(cs) /\ Range(cs) = FirstOfEach
           /\ Range(cs) \subseteq Sender /\ \A c \in Range(cs) : at[c] = "parked"
           /\ \A k \in Channel :
                 \A s \in Sender : s \in Range(cs) /\ Dest[s] = k <=> s \in Range(NextSender(chan[k].senders))
<1>1. FirstOfEach \subseteq Sender /\ IsFiniteSet(FirstOfEach)
  BY ChannelAssumption, FS_Subset DEF FirstOfEach
<1>2. cs \in Seq(FirstOfEach) /\ IsInjective(cs) /\ Range(cs) = FirstOfEach
  BY <1>1, SetToSeqsIsTrue
<1>3. cs \in Seq(Coroutine)
  <2>1. FirstOfEach \subseteq Coroutine
    BY <1>1 DEF Coroutine
  <2> QED  BY <1>2, <2>1
<1>4. \A k \in Channel :
         /\ Range(NextSender(chan[k].senders)) \subseteq Sender
         /\ \A c \in Range(NextSender(chan[k].senders)) : at[c] = "parked" /\ Dest[c] = k
         /\ \A c : NextSender(chan[k].senders) = <<c>> => Range(NextSender(chan[k].senders)) = {c}
  <2>1. \A c : Range(<<c>>) = {c}
    BY OneElement
  <2> TAKE k \in Channel
  <2> QED  BY <2>1, WokenSenders
<1>5. \A k \in Channel : \A c \in Sender :
         c \in Range(NextSender(chan[k].senders)) => NextSender(chan[k].senders) = <<c>>
  <2> TAKE k \in Channel
  <2> TAKE c \in Sender
  <2> HAVE c \in Range(NextSender(chan[k].senders))
  <2>1. at[c] = "parked" /\ Dest[c] = k
    BY <1>4
  <2>2. PICK d \in Sender : NextSender(chan[k].senders) = <<d>>
    BY <2>1, WokenSenders
  <2> QED  BY <1>4, <2>2
<1>6. \A c \in Range(cs) : c \in Sender /\ at[c] = "parked"
  BY <1>2, <1>4 DEF FirstOfEach
<1>7. ASSUME NEW k \in Channel, NEW s \in Sender
      PROVE  s \in Range(cs) /\ Dest[s] = k <=> s \in Range(NextSender(chan[k].senders))
  <2>1. ASSUME s \in Range(cs), Dest[s] = k PROVE s \in Range(NextSender(chan[k].senders))
    <3>1. PICK j \in Channel : NextSender(chan[j].senders) = <<s>>
      BY <1>2, <2>1 DEF FirstOfEach
    <3>2. s \in Range(NextSender(chan[j].senders)) /\ j = k
      BY <1>4, <2>1, <3>1
    <3> QED  BY <3>2
  <2>2. ASSUME s \in Range(NextSender(chan[k].senders)) PROVE s \in Range(cs) /\ Dest[s] = k
    BY <1>2, <1>4, <1>5, <2>2 DEF FirstOfEach
  <2> QED  BY <2>1, <2>2
<1> QED  BY <1>2, <1>3, <1>6, <1>7

\* A select parks its receiver in a line of every channel.
LEMMA SelectParksKeeps ==
    ASSUME LinesInv, NEW r \in Receiver, SelectParks(r)
    PROVE  LinesInv'
<1>1. /\ at[r] = "running"
      /\ chan' = [k \in Channel |-> [chan[k] EXCEPT !.selects = Append(@, r), !.senders = AfterLive(@)]]
  BY DEF SelectParks
<1>2. PICK cs \in SetToSeqs(FirstOfEach) : Parks(r, All, FALSE, at, cs)
  BY DEF SelectParks, FirstOfEach
<1>3. /\ cs \in Seq(Coroutine) /\ IsInjective(cs)
      /\ Range(cs) \subseteq Sender /\ \A c \in Range(cs) : at[c] = "parked"
      /\ \A k \in Channel :
            \A s \in Sender : s \in Range(cs) /\ Dest[s] = k <=> s \in Range(NextSender(chan[k].senders))
  BY FirstOfEachIs
<1>4. Sender \subseteq Coroutine /\ Receiver \subseteq Coroutine /\ Sender \cap Receiver = {}
  BY ChannelAssumption DEF Coroutine
<1>5. \A k \in Channel :
         /\ AfterLive(chan[k].senders) \in Seq(Sender \cup {Stale}) /\ Once(AfterLive(chan[k].senders))
         /\ Waiting(AfterLive(chan[k].senders)) = Waiting(chan[k].senders) \ Range(NextSender(chan[k].senders))
  BY WokenSenders
<1>6. \A k \in Channel :
         /\ Append(chan[k].selects, r) \in Seq(Receiver \cup {Stale}) /\ Once(Append(chan[k].selects, r))
         /\ Waiting(Append(chan[k].selects, r)) = Waiting(chan[k].selects) \cup {r}
  <2> TAKE k \in Channel
  <2>1. /\ Stale \notin Receiver /\ chan[k].selects \in Seq(Receiver \cup {Stale})
        /\ Once(chan[k].selects) /\ r \notin Waiting(chan[k].selects)
    BY <1>1, LinesAre
  <2> QED  BY <2>1, JoinedLine
<1>7. /\ chan' \in [Channel -> Conduit]
      /\ \A j \in Channel :
            /\ chan'[j].receivers = chan[j].receivers
            /\ chan'[j].closed = chan[j].closed /\ chan'[j].alive = chan[j].alive
            /\ chan'[j].selects = Append(chan[j].selects, r)
            /\ chan'[j].senders = AfterLive(chan[j].senders)
  <2>1. DOMAIN chan' = Channel /\ chan' = [j \in Channel |-> chan'[j]]
    BY <1>1
  <2>2. ASSUME NEW j \in Channel
        PROVE  /\ chan'[j] \in Conduit
               /\ chan'[j].receivers = chan[j].receivers
               /\ chan'[j].closed = chan[j].closed /\ chan'[j].alive = chan[j].alive
               /\ chan'[j].selects = Append(chan[j].selects, r)
               /\ chan'[j].senders = AfterLive(chan[j].senders)
    <3> DEFINE w == Append(chan[j].selects, r)
               q == AfterLive(chan[j].senders)
    <3>1. /\ chan[j] \in Conduit /\ w \in Seq(Receiver \cup {Stale}) /\ q \in Seq(Sender \cup {Stale})
          /\ chan'[j] = [chan[j] EXCEPT !.selects = w, !.senders = q]
      BY <1>1, <1>5, <1>6, ChannelTypesAre DEF LinesInv
    <3> HIDE DEF w, q
    <3>2. /\ chan'[j] \in Conduit
          /\ chan'[j].receivers = chan[j].receivers
          /\ chan'[j].closed = chan[j].closed /\ chan'[j].alive = chan[j].alive
          /\ chan'[j].selects = w /\ chan'[j].senders = q
      BY <3>1 DEF Conduit
    <3> QED  BY <3>2 DEF w, q
  <2> QED  BY <2>1, <2>2
<1>8. /\ at' \in [Coroutine -> States] /\ readyQueue' \in Seq(Coroutine)
      /\ at'[r] = "parked" /\ on'[r] = All /\ timed'[r] = FALSE
      /\ \A c \in Coroutine : c # r =>
            at'[c] = (IF c \in Range(cs) THEN "woken" ELSE at[c]) /\ on'[c] = on[c] /\ timed'[c] = timed[c]
      /\ RestTypes' /\ Scheduled' /\ Filled' /\ Shifts(Range(cs), {r})
      /\ result' \in [Receiver -> Values \union {NoValue, Closed, Timeout}]
  BY <1>1, <1>2, <1>3, ParksIs
<1>9. ChannelTypes'
  BY <1>7, <1>8, ChannelTypesFrom
<1>10. Shut'
  BY ZenonT(60), <1>4, <1>7, <1>8, ChannelAssumption DEF LinesInv, Shut
<1>11. ASSUME NEW j \in Channel PROVE Shifted(j, Range(cs), {r})
  <2>1. /\ IsInjective(chan[j].receivers)
        /\ \A s \in Sender : s \in Waiting(chan[j].senders) => Dest[s] = j
    BY LinesAre
  <2>2. /\ Once(chan'[j].senders)
        /\ \A s \in Sender : s \in Waiting(chan'[j].senders) <=> s \in Waiting(chan[j].senders) /\ s \notin Range(cs)
    <3>1. /\ Once(chan'[j].senders)
          /\ Waiting(chan'[j].senders) = Waiting(chan[j].senders) \ Range(NextSender(chan[j].senders))
      BY <1>5, <1>7
    <3>2. \A s \in Sender : s \in Range(cs) /\ Dest[s] = j <=> s \in Range(NextSender(chan[j].senders))
      BY <1>3
    <3> QED  BY <2>1, <3>1, <3>2
  <2>3. Once(chan'[j].selects) /\ Waiting(chan'[j].selects) = Waiting(chan[j].selects) \cup {r}
    BY <1>6, <1>7
  <2>4. on'[r] # j
    BY <1>8, ChannelAssumption DEF All
  <2> QED  BY <1>3, <1>4, <1>7, <1>8, <2>1, <2>2, <2>3, <2>4 DEF Shifted
<1> QED
  BY <1>8, <1>9, <1>10, <1>11, ShiftKeeps

\* The timer of a receive makes its receiver's entries stale.
LEMMA RecvTimerKeeps ==
    ASSUME LinesInv, NEW r \in Receiver, RecvTimer(r)
    PROVE  LinesInv'
<1>1. /\ at[r] = "parked" /\ timed[r] /\ result' = [result EXCEPT ![r] = Timeout]
      /\ chan' = Retire(chan, r) /\ at' = [at EXCEPT ![r] = "woken"] /\ readyQueue' = Append(readyQueue, r)
      /\ UNCHANGED <<on, timed, sent, taken, refused, dropped, rebuffered>>
  BY DEF RecvTimer, hist
<1>2. r \in Coroutine /\ Sender \subseteq Coroutine /\ Receiver \subseteq Coroutine /\ r \notin Sender
  BY ChannelAssumption DEF Coroutine
<1>3. \A j \in Channel :
         /\ GoStale(chan[j].selects, {r}) \in Seq(Receiver \cup {Stale})
         /\ Once(GoStale(chan[j].selects, {r}))
         /\ Waiting(GoStale(chan[j].selects, {r})) = Waiting(chan[j].selects) \ {r}
  BY SMTT(40), LinesAre, StaleLine
<1>4. /\ chan' \in [Channel -> Conduit]
      /\ \A j \in Channel :
            /\ chan'[j].receivers = chan[j].receivers /\ chan'[j].senders = chan[j].senders
            /\ chan'[j].closed = chan[j].closed /\ chan'[j].alive = chan[j].alive
            /\ chan'[j].selects = GoStale(chan[j].selects, {r})
  <2>1. DOMAIN chan' = Channel /\ chan' = [j \in Channel |-> chan'[j]]
    BY <1>1 DEF Retire
  <2>2. ASSUME NEW j \in Channel
        PROVE  /\ chan'[j] \in Conduit
               /\ chan'[j].receivers = chan[j].receivers /\ chan'[j].senders = chan[j].senders
               /\ chan'[j].closed = chan[j].closed /\ chan'[j].alive = chan[j].alive
               /\ chan'[j].selects = GoStale(chan[j].selects, {r})
    <3> DEFINE w == GoStale(chan[j].selects, {r})
    <3>1. /\ chan[j] \in Conduit /\ w \in Seq(Receiver \cup {Stale})
          /\ chan'[j] = [chan[j] EXCEPT !.selects = w]
      BY <1>1, <1>3, ChannelTypesAre DEF LinesInv, Retire
    <3> HIDE DEF w
    <3>2. /\ chan'[j] \in Conduit
          /\ chan'[j].receivers = chan[j].receivers /\ chan'[j].senders = chan[j].senders
          /\ chan'[j].closed = chan[j].closed /\ chan'[j].alive = chan[j].alive
          /\ chan'[j].selects = w
      BY <3>1 DEF Conduit
    <3> QED  BY <3>2 DEF w
  <2> QED  BY <2>1, <2>2
<1>5. /\ at' \in [Coroutine -> States] /\ at'[r] = "woken"
      /\ \A c \in Coroutine : c # r => at'[c] = at[c]
      /\ result' \in [Receiver -> Values \union {NoValue, Closed, Timeout}]
      /\ result'[r] = Timeout /\ \A c \in Receiver : c # r => result'[c] = result[c]
  BY <1>1, <1>2, ChannelTypesAre DEF LinesInv, States
<1>6. Scheduled' /\ readyQueue' \in Seq(Coroutine)
  <2>1. \A d \in Coroutine : at'[d] \in {"woken", "fired"} <=> at[d] \in {"woken", "fired"} \/ d = r
    BY <1>5
  <2> QED  BY <1>1, <1>2, <2>1, ReadyGrowsByOne
<1>7. ChannelTypes'
  BY <1>1, <1>4, <1>5, <1>6, ChannelTypesAre, ChannelTypesFrom DEF LinesInv, RestTypes
<1>8. Filled'
  BY <1>2, <1>5, ValuesArePairs DEF LinesInv, Filled
<1>9. Shut'
  BY ZenonT(60), <1>2, <1>4, <1>5, ChannelAssumption DEF LinesInv, Shut
<1>10. Shifts({r}, {})
  BY <1>1, <1>2, <1>5 DEF Shifts, LinesInv, Posted
<1>11. ASSUME NEW j \in Channel PROVE Shifted(j, {r}, {})
  <2>1. Once(chan[j].senders) /\ IsInjective(chan[j].receivers) /\ r \notin Range(chan[j].receivers)
    BY <1>1, LinesAre
  <2>2. Once(chan'[j].selects) /\ Waiting(chan'[j].selects) = Waiting(chan[j].selects) \ {r}
    BY <1>3, <1>4
  <2> QED  BY <1>2, <1>4, <2>1, <2>2 DEF Shifted
<1> QED
  BY <1>6, <1>7, <1>8, <1>9, <1>10, <1>11, ShiftKeeps

\* The head of the ready queue was scheduled.
LEMMA HeadIsReady ==
    ASSUME LinesInv, readyQueue # <<>>
    PROVE  /\ Head(readyQueue) \in Coroutine /\ at[Head(readyQueue)] \in {"woken", "fired"}
           /\ Tail(readyQueue) \in Seq(Coroutine) /\ IsInjective(Tail(readyQueue))
           /\ Range(Tail(readyQueue)) = Range(readyQueue) \ {Head(readyQueue)}
<1>1. readyQueue \in Seq(Coroutine) /\ IsInjective(readyQueue)
  BY ChannelTypesAre DEF LinesInv, Scheduled
<1>2. /\ Head(readyQueue) \in Coroutine /\ Head(readyQueue) \in Range(readyQueue)
      /\ Tail(readyQueue) \in Seq(Coroutine) /\ IsInjective(Tail(readyQueue))
      /\ Range(Tail(readyQueue)) = Range(readyQueue) \ {Head(readyQueue)}
  BY <1>1, HeadAndTail
<1> QED  BY <1>2 DEF LinesInv, Scheduled

\* A receiver that was woken takes what was handed to it.
LEMMA ReceiverResumesKeeps ==
    ASSUME LinesInv, NEW r \in Receiver, ReceiverResumes(r)
    PROVE  LinesInv'
<1> DEFINE k == on[r]
           again == result[r] = Closed /\ k # All /\ ~timed[r] /\ chan[k].alive /\ chan[k].buffer # <<>>
           cs == IF again THEN NextSender(chan[k].senders) ELSE <<>>
           got == IF again THEN Head(chan[k].buffer) ELSE result[r]
           rest == AfterLive(chan[k].senders)
<1>1. /\ readyQueue # <<>> /\ r = Head(readyQueue)
      /\ at' = Wake([at EXCEPT ![r] = "running"], cs) /\ readyQueue' = Tail(readyQueue) \o cs
      /\ taken' = (IF got \in {Closed, Timeout} THEN taken ELSE taken \union {got})
      /\ result' = [result EXCEPT ![r] = NoValue]
      /\ on' = [on EXCEPT ![r] = None] /\ timed' = [timed EXCEPT ![r] = FALSE]
      /\ UNCHANGED <<sent, refused, dropped, rebuffered>>
  BY ZenonT(60) DEF ReceiverResumes
<1>2. IF again THEN Pop(k) ELSE UNCHANGED chan
  BY DEF ReceiverResumes
<1>3. /\ r \in Coroutine /\ Sender \subseteq Coroutine /\ Receiver \subseteq Coroutine
      /\ r \notin Sender /\ Sender \cap Receiver = {}
  BY ZenonT(60), ChannelAssumption DEF Coroutine
<1>4. at[r] = "woken" /\ k \in Channel \union {All} /\ result[r] # NoValue
  BY <1>1, HeadIsReady DEF LinesInv, Posted, Filled
<1>5. again => k \in Channel
  BY <1>4
<1>6. /\ cs \in Seq(Coroutine) /\ IsInjective(cs)
      /\ Range(cs) \subseteq Sender /\ \A c \in Range(cs) : at[c] = "parked" /\ Dest[c] = k
  BY <1>5, WokenSenders, EmptyQueue
<1>7. taken' \subseteq Values
  <2>1. taken \subseteq Values /\ result[r] \in Values \union {NoValue, Closed, Timeout}
    BY ChannelTypesAre DEF LinesInv
  <2>2. again => got \in Values
    <3> SUFFICES ASSUME again PROVE Head(chan[k].buffer) \in Values
      OBVIOUS
    <3>1. chan[k].buffer \in Seq(Values) /\ chan[k].buffer # <<>>
      BY <1>5, ChannelTypesAre DEF LinesInv
    <3> QED  BY <3>1
  <2>3. ~again => got \in Values \union {Closed, Timeout}
    BY <1>4, <2>1
  <2> HIDE DEF got, again
  <2> QED  BY <1>1, <2>1, <2>2, <2>3
<1>8. /\ chan' \in [Channel -> Conduit]
      /\ \A j \in Channel :
            /\ chan'[j].receivers = chan[j].receivers /\ chan'[j].selects = chan[j].selects
            /\ chan'[j].closed = chan[j].closed /\ chan'[j].alive = chan[j].alive
            /\ Once(chan'[j].senders)
            /\ \A s \in Sender :
                  s \in Waiting(chan'[j].senders) <=> s \in Waiting(chan[j].senders) /\ s \notin Range(cs)
  <2>1. CASE ~again
    <3>1. chan' = chan /\ Range(cs) = {}
      BY <1>2, <2>1, EmptyQueue
    <3> QED  BY <3>1, ChannelTypesAre, LinesAre DEF LinesInv
  <2>2. CASE again
    <3>1. k \in Channel /\ Pop(k) /\ cs = NextSender(chan[k].senders)
      BY <1>2, <1>5, <2>2
    <3> HIDE DEF k, cs
    <3>2. chan' = [chan EXCEPT ![k] = [chan[k] EXCEPT !.buffer = Tail(chan[k].buffer), !.senders = rest]]
      BY <3>1 DEF Pop
    <3>3. /\ rest \in Seq(Sender \cup {Stale}) /\ Once(rest)
          /\ Waiting(rest) = Waiting(chan[k].senders) \ Range(cs)
      BY <3>1, WokenSenders
    <3> HIDE DEF rest
    <3>4. chan \in [Channel -> Conduit] /\ Tail(chan[k].buffer) \in Seq(Values)
      BY <3>1, ChannelTypesAre DEF LinesInv, Pop
    <3>5. /\ chan' \in [Channel -> Conduit]
          /\ \A j \in Channel :
                /\ chan'[j].receivers = chan[j].receivers /\ chan'[j].selects = chan[j].selects
                /\ chan'[j].closed = chan[j].closed /\ chan'[j].alive = chan[j].alive
                /\ chan'[j].senders = IF j = k THEN rest ELSE chan[j].senders
      BY ZenonT(60), <3>1, <3>2, <3>3, <3>4 DEF Conduit
    <3>6. ASSUME NEW j \in Channel
          PROVE  /\ Once(chan'[j].senders)
                 /\ \A s \in Sender :
                       s \in Waiting(chan'[j].senders) <=> s \in Waiting(chan[j].senders) /\ s \notin Range(cs)
      <4>1. Once(chan[j].senders) /\ \A s \in Sender : s \in Waiting(chan[j].senders) => Dest[s] = j
        BY LinesAre
      <4> QED  BY <1>6, <3>3, <3>5, <4>1
    <3> QED  BY <3>5, <3>6
  <2> QED  BY <2>1, <2>2
<1> HIDE DEF k, again, cs, got, rest
<1>9. /\ at' \in [Coroutine -> States] /\ at'[r] = "running"
      /\ \A c \in Coroutine : c # r => at'[c] = IF c \in Range(cs) THEN "woken" ELSE at[c]
  <2> DEFINE a == [at EXCEPT ![r] = "running"]
  <2>1. a \in [Coroutine -> States] /\ a[r] = "running" /\ \A c \in Coroutine : c # r => a[c] = at[c]
    BY <1>3, ChannelTypesAre DEF LinesInv, States
  <2>2. at' = Wake(a, cs)
    BY <1>1
  <2> HIDE DEF a
  <2>3. at' \in [Coroutine -> States] /\ \A c \in Coroutine : at'[c] = IF c \in Range(cs) THEN "woken" ELSE a[c]
    BY <2>1, <2>2, WakeIs
  <2> QED  BY <1>3, <1>6, <2>1, <2>3
<1>10. /\ on' \in [Coroutine -> Channel \union {None, All}] /\ timed' \in [Coroutine -> BOOLEAN]
       /\ \A c \in Coroutine : c # r => on'[c] = on[c] /\ timed'[c] = timed[c]
       /\ result' \in [Receiver -> Values \union {NoValue, Closed, Timeout}]
       /\ result'[r] = NoValue /\ \A c \in Receiver : c # r => result'[c] = result[c]
  BY <1>1, <1>3, ChannelTypesAre DEF LinesInv
<1>11. Scheduled' /\ readyQueue' \in Seq(Coroutine)
  <2>1. /\ Tail(readyQueue) \in Seq(Coroutine) /\ IsInjective(Tail(readyQueue))
        /\ Range(Tail(readyQueue)) = Range(readyQueue) \ {r}
    BY <1>1, HeadIsReady
  <2>2. \A c \in Coroutine : at'[c] \in {"woken", "fired"} <=> c \in Range(Tail(readyQueue)) \/ c \in Range(cs)
    BY <1>3, <1>6, <1>9, <2>1 DEF LinesInv, Scheduled
  <2> QED  BY <1>1, <1>6, <2>1, <2>2, ReadyGrows
<1>12. RestTypes'
  BY <1>1, <1>7, <1>10, ChannelTypesAre DEF RestTypes, LinesInv
<1>13. ChannelTypes'
  BY <1>8, <1>9, <1>10, <1>11, <1>12, ChannelTypesFrom
<1>14. Filled'
  BY <1>3, <1>6, <1>9, <1>10 DEF LinesInv, Filled
<1>15. Shut'
  BY <1>3, <1>8, <1>9, ChannelAssumption DEF LinesInv, Shut
<1>16. Shifts(Range(cs), {})
  <2>1. \A c \in Coroutine : at'[c] = "parked" <=> at[c] = "parked" /\ c \notin Range(cs)
    BY <1>3, <1>4, <1>6, <1>9
  <2>2. \A c \in Coroutine : at'[c] # "running" => at[c] # "running" /\ on'[c] = on[c] /\ timed'[c] = timed[c]
    BY <1>3, <1>4, <1>6, <1>9, <1>10
  <2>3. \A c \in Receiver : at'[c] # "fired"
    BY <1>3, <1>6, <1>9 DEF LinesInv, Posted
  <2> QED  BY <1>1, <2>1, <2>2, <2>3 DEF Shifts
<1>17. ASSUME NEW j \in Channel PROVE Shifted(j, Range(cs), {})
  BY <1>3, <1>6, <1>8, LinesAre DEF Shifted
<1> QED
  BY <1>11, <1>13, <1>14, <1>15, <1>16, <1>17, ShiftKeeps

-----------------------------------------------------------------------------
(* Closing, dropping and destroying *)

\* Those whom close() schedules, in their order.
LEMMA ClosedLine ==
    ASSUME LinesInv, NEW k \in Channel
    PROVE  LET rs == chan[k].receivers
               ss == Without(chan[k].senders, {Stale})
               ws == Without(chan[k].selects, {Stale})
               cs == rs \o ss \o ws
           IN  /\ cs \in Seq(Coroutine) /\ IsInjective(cs)
               /\ Range(cs) = Range(rs) \cup Waiting(chan[k].senders) \cup Waiting(chan[k].selects)
               /\ Range(ws) = Waiting(chan[k].selects)
               /\ \A c \in Range(cs) : c \in Coroutine /\ at[c] = "parked"
<1> DEFINE rs == chan[k].receivers
           ss == Without(chan[k].senders, {Stale})
           ws == Without(chan[k].selects, {Stale})
           cs == rs \o ss \o ws
<1>1. /\ rs \in Seq(Receiver) /\ IsInjective(rs) /\ Range(rs) \subseteq Receiver
      /\ ss \in Seq(Sender) /\ IsInjective(ss) /\ Range(ss) = Waiting(chan[k].senders)
      /\ ws \in Seq(Receiver) /\ IsInjective(ws) /\ Range(ws) = Waiting(chan[k].selects)
  BY ZenonT(60), LinesAre, FreshLine
<1>2. /\ Waiting(chan[k].senders) \subseteq Sender /\ Waiting(chan[k].selects) \subseteq Receiver
      /\ Sender \cap Receiver = {}
      /\ \A s \in Sender : s \in Waiting(chan[k].senders) => at[s] = "parked"
      /\ \A r \in Receiver : r \in Range(rs) => at[r] = "parked" /\ on[r] = k /\ ~timed[r]
      /\ \A r \in Receiver :
            r \in Waiting(chan[k].selects) => at[r] = "parked" /\ (on[r] = All \/ (on[r] = k /\ timed[r]))
  BY LinesAre
<1>3. k # All
  BY ChannelAssumption DEF All
<1>4. Range(rs) \cap Waiting(chan[k].selects) = {}
  BY <1>1, <1>2, <1>3
<1> HIDE DEF rs, ss, ws
<1>5. rs \in Seq(Coroutine) /\ ss \in Seq(Coroutine) /\ ws \in Seq(Coroutine)
  BY <1>1 DEF Coroutine
<1>6. /\ rs \o ss \in Seq(Coroutine) /\ IsInjective(rs \o ss)
      /\ Range(rs \o ss) = Range(rs) \cup Range(ss)
  <2>1. Range(rs) \cap Range(ss) = {}
    BY <1>1, <1>2
  <2> QED  BY <1>1, <1>5, <2>1, JoinedQueues
<1>7. /\ (rs \o ss) \o ws \in Seq(Coroutine) /\ IsInjective((rs \o ss) \o ws)
      /\ Range((rs \o ss) \o ws) = Range(rs \o ss) \cup Range(ws)
  <2>1. Range(rs \o ss) \cap Range(ws) = {}
    BY <1>1, <1>2, <1>4, <1>6
  <2> DEFINE x == rs \o ss
  <2>2. x \in Seq(Coroutine) /\ IsInjective(x) /\ Range(x) \cap Range(ws) = {}
    BY <1>6, <2>1
  <2> HIDE DEF x
  <2>3. x \o ws \in Seq(Coroutine) /\ IsInjective(x \o ws) /\ Range(x \o ws) = Range(x) \cup Range(ws)
    BY <1>1, <1>5, <2>2, JoinedQueues
  <2> QED  BY <2>3 DEF x
<1>8. \A c \in Range(cs) : c \in Coroutine /\ at[c] = "parked"
  BY <1>1, <1>2, <1>6, <1>7 DEF Coroutine
<1> QED  BY <1>1, <1>6, <1>7, <1>8 DEF rs, ss, ws

\* It does not matter in which order queues are joined.
LEMMA JoinsAssociate ==
    ASSUME NEW s \in Seq(Coroutine), NEW t \in Seq(Coroutine), NEW u \in Seq(Coroutine)
    PROVE  (s \o t) \o u = s \o (t \o u)
<1> DEFINE x == (s \o t) \o u
           y == s \o (t \o u)
           n == Len(s) + Len(t) + Len(u)
<1>1. Len(s) \in Nat /\ Len(t) \in Nat /\ Len(u) \in Nat
  OBVIOUS
<1>2. s \o t \in Seq(Coroutine) /\ Len(s \o t) = Len(s) + Len(t) /\ t \o u \in Seq(Coroutine) /\ Len(t \o u) = Len(t) + Len(u)
  OBVIOUS
<1>3. x \in Seq(Coroutine) /\ Len(x) = n /\ y \in Seq(Coroutine) /\ Len(y) = n
  BY <1>1, <1>2
<1>4. \A i \in 1..n : x[i] = y[i]
  BY <1>1, <1>2
<1> HIDE DEF x, y, n
<1>5. x = y
  BY <1>3, <1>4
<1> QED  BY <1>5 DEF x, y

\* Closing a channel wakes everyone in its queues and empties them.
LEMMA CloseChannelKeeps ==
    ASSUME LinesInv, NEW k \in Channel, NEW up \in BOOLEAN, CloseChannel(k, up)
    PROVE  LinesInv'
<1> DEFINE rs == chan[k].receivers
           ss == Without(chan[k].senders, {Stale})
           ws == Without(chan[k].selects, {Stale})
           cs == rs \o ss \o ws
           shut == [chan EXCEPT ![k].receivers = <<>>, ![k].senders = <<>>, ![k].selects = <<>>,
                                ![k].closed = TRUE, ![k].alive = up]
<1>1. /\ result' = [r \in Receiver |-> IF r \in Range(rs) \union Range(ws) THEN Closed ELSE result[r]]
      /\ at' = Wake(at, cs) /\ readyQueue' = readyQueue \o rs \o ss \o ws
      /\ chan' = [j \in Channel |-> [shut[j] EXCEPT !.selects = GoStale(@, Range(ws))]]
      /\ UNCHANGED <<on, timed, sent, taken, refused, dropped, rebuffered>>
  BY DEF CloseChannel, hist
<1>2. /\ cs \in Seq(Coroutine) /\ IsInjective(cs)
      /\ Range(cs) = Range(rs) \cup Waiting(chan[k].senders) \cup Waiting(chan[k].selects)
      /\ Range(ws) = Waiting(chan[k].selects)
      /\ \A c \in Range(cs) : c \in Coroutine /\ at[c] = "parked"
  BY ClosedLine
<1>3. readyQueue' = readyQueue \o cs
  <2>1. readyQueue \in Seq(Coroutine) /\ rs \in Seq(Coroutine) /\ ss \in Seq(Coroutine) /\ ws \in Seq(Coroutine)
    <3>1. rs \in Seq(Receiver) /\ ss \in Seq(Sender) /\ ws \in Seq(Receiver)
      BY LinesAre, FreshLine
    <3> HIDE DEF rs, ss, ws
    <3>2. readyQueue \in Seq(Coroutine)
      BY ChannelTypesAre DEF LinesInv
    <3> QED  BY <3>1, <3>2 DEF Coroutine
  <2> HIDE DEF rs, ss, ws
  <2> DEFINE m == rs \o ss
  <2>2. m \in Seq(Coroutine)
    BY <2>1
  <2>3. cs = m \o ws
    OBVIOUS
  <2>4. (readyQueue \o rs) \o ss = readyQueue \o m
    BY SMTT(40), <2>1, JoinsAssociate
  <2> HIDE DEF m, cs
  <2>5. (readyQueue \o m) \o ws = readyQueue \o (m \o ws)
    BY SMTT(40), <2>1, <2>2, JoinsAssociate
  <2> QED  BY <1>1, <2>3, <2>4, <2>5
<1>4. Sender \subseteq Coroutine /\ Receiver \subseteq Coroutine /\ Sender \cap Receiver = {}
  BY ChannelAssumption DEF Coroutine
<1>5. /\ Range(rs) \subseteq Receiver /\ Waiting(chan[k].selects) \subseteq Receiver
      /\ Waiting(chan[k].senders) \subseteq Sender
  BY LinesAre
<1>6. /\ shut \in [Channel -> Conduit]
      /\ \A j \in Channel : j # k => shut[j] = chan[j]
      /\ shut[k].receivers = <<>> /\ shut[k].senders = <<>> /\ shut[k].selects = <<>>
      /\ shut[k].closed = TRUE /\ shut[k].alive = up
  <2>1. chan \in [Channel -> Conduit] /\ chan[k].buffer \in Seq(Values)
    BY ChannelTypesAre DEF LinesInv
  <2> DEFINE c == [chan[k] EXCEPT !.receivers = <<>>, !.senders = <<>>, !.selects = <<>>,
                                  !.closed = TRUE, !.alive = up]
  <2>2. shut = [chan EXCEPT ![k] = c]
    BY <2>1
  <2>3. /\ c \in Conduit /\ c.receivers = <<>> /\ c.senders = <<>> /\ c.selects = <<>>
        /\ c.closed = TRUE /\ c.alive = up
    <3>1. chan[k] \in Conduit /\ \A S : <<>> \in Seq(S)
      BY <2>1
    <3> QED  BY <3>1 DEF Conduit
  <2> HIDE DEF c, shut
  <2> QED  BY <2>1, <2>2, <2>3
<1> HIDE DEF rs, ss, ws, shut
<1>7. \A j \in Channel :
         /\ GoStale(shut[j].selects, Range(ws)) \in Seq(Receiver \cup {Stale})
         /\ Once(GoStale(shut[j].selects, Range(ws)))
         /\ Waiting(GoStale(shut[j].selects, Range(ws))) = Waiting(chan[j].selects) \ Range(ws)
  <2> TAKE j \in Channel
  <2>1. Stale \notin Receiver /\ chan[j].selects \in Seq(Receiver \cup {Stale}) /\ Once(chan[j].selects)
    BY LinesAre
  <2>2. <<>> \in Seq(Receiver \cup {Stale}) /\ Once(<<>>) /\ Waiting(<<>>) = {}
    BY EmptyQueue DEF Once, Waiting
  <2>3. /\ shut[j].selects \in Seq(Receiver \cup {Stale}) /\ Once(shut[j].selects)
        /\ Waiting(shut[j].selects) \ Range(ws) = Waiting(chan[j].selects) \ Range(ws)
    <3>1. CASE j = k
      BY <1>2, <1>6, <2>2, <3>1
    <3>2. CASE j # k
      BY <1>6, <2>1, <3>2
    <3> QED  BY <3>1, <3>2
  <2> QED  BY <2>1, <2>3, StaleLine
<1>8. /\ chan' \in [Channel -> Conduit]
      /\ \A j \in Channel :
            /\ chan'[j].receivers = shut[j].receivers /\ chan'[j].senders = shut[j].senders
            /\ chan'[j].closed = shut[j].closed /\ chan'[j].alive = shut[j].alive
            /\ chan'[j].selects = GoStale(shut[j].selects, Range(ws))
  <2>1. DOMAIN chan' = Channel /\ chan' = [j \in Channel |-> chan'[j]]
    BY <1>1
  <2>2. ASSUME NEW j \in Channel
        PROVE  /\ chan'[j] \in Conduit
               /\ chan'[j].receivers = shut[j].receivers /\ chan'[j].senders = shut[j].senders
               /\ chan'[j].closed = shut[j].closed /\ chan'[j].alive = shut[j].alive
               /\ chan'[j].selects = GoStale(shut[j].selects, Range(ws))
    <3> DEFINE w == GoStale(shut[j].selects, Range(ws))
    <3>1. /\ shut[j] \in Conduit /\ w \in Seq(Receiver \cup {Stale})
          /\ chan'[j] = [shut[j] EXCEPT !.selects = w]
      BY <1>1, <1>6, <1>7
    <3> HIDE DEF w
    <3>2. /\ chan'[j] \in Conduit
          /\ chan'[j].receivers = shut[j].receivers /\ chan'[j].senders = shut[j].senders
          /\ chan'[j].closed = shut[j].closed /\ chan'[j].alive = shut[j].alive
          /\ chan'[j].selects = w
      BY <3>1 DEF Conduit
    <3> QED  BY <3>2 DEF w
  <2> QED  BY <2>1, <2>2
<1> HIDE DEF cs
<1>9. /\ at' \in [Coroutine -> States]
      /\ \A c \in Coroutine : at'[c] = IF c \in Range(cs) THEN "woken" ELSE at[c]
  <2>1. at \in [Coroutine -> States]
    BY ChannelTypesAre DEF LinesInv
  <2> QED  BY <1>1, <2>1, WakeIs
<1>10. /\ result' \in [Receiver -> Values \union {NoValue, Closed, Timeout}]
       /\ \A r \in Receiver : result'[r] = IF r \in Range(cs) THEN Closed ELSE result[r]
  <2>1. \A r \in Receiver : r \in Range(cs) <=> r \in Range(rs) \union Range(ws)
    BY <1>2, <1>4, <1>5
  <2>2. result \in [Receiver -> Values \union {NoValue, Closed, Timeout}]
    BY ChannelTypesAre DEF LinesInv
  <2> QED  BY <1>1, <2>1, <2>2
<1>11. Scheduled' /\ readyQueue' \in Seq(Coroutine)
  <2>1. readyQueue \in Seq(Coroutine) /\ IsInjective(readyQueue)
    BY ChannelTypesAre DEF LinesInv, Scheduled
  <2>2. \A c \in Coroutine : at'[c] \in {"woken", "fired"} <=> c \in Range(readyQueue) \/ c \in Range(cs)
    BY <1>9 DEF LinesInv, Scheduled
  <2> QED  BY <1>2, <1>3, <2>1, <2>2, ReadyGrows
<1>12. ChannelTypes'
  BY <1>1, <1>8, <1>9, <1>10, <1>11, ChannelTypesAre, ChannelTypesFrom DEF LinesInv, RestTypes
<1>13. Filled'
  BY <1>2, <1>4, <1>9, <1>10, ValuesArePairs DEF LinesInv, Filled
<1>14. Shut'
  <2>1. \A j \in Channel : ~chan'[j].alive => chan'[j].closed
    BY <1>6, <1>8 DEF LinesInv, Shut
  <2>2. ASSUME NEW s \in Sender, chan'[Dest[s]].closed PROVE at'[s] # "parked"
    <3>1. Dest[s] \in Channel /\ s \in Coroutine
      BY <1>4, ChannelAssumption
    <3>2. CASE Dest[s] = k
      <4>1. at[s] = "parked" => s \in Waiting(chan[k].senders)
        BY <3>2, LinesAre
      <4> QED  BY <1>2, <1>9, <3>1, <4>1
    <3>3. CASE Dest[s] # k
      <4>1. chan[Dest[s]].closed
        BY <1>6, <1>8, <2>2, <3>1, <3>3
      <4> QED  BY <1>9, <3>1, <4>1 DEF LinesInv, Shut
    <3> QED  BY <3>2, <3>3
  <2> QED  BY <2>1, <2>2 DEF Shut
<1>15. Shifts(Range(cs), {})
  <2>1. \A c \in Coroutine : at'[c] = "parked" <=> at[c] = "parked" /\ c \notin Range(cs)
    BY <1>9
  <2>2. \A c \in Coroutine : at'[c] # "running" => at[c] # "running" /\ on'[c] = on[c] /\ timed'[c] = timed[c]
    BY <1>1, <1>2, <1>9
  <2>3. \A c \in Receiver : at'[c] # "fired"
    BY <1>4, <1>9 DEF LinesInv, Posted
  <2> QED  BY <1>1, <2>1, <2>2, <2>3 DEF Shifts
<1>16. ASSUME NEW j \in Channel PROVE Shifted(j, Range(cs), {})
  <2>1. /\ Once(chan[j].senders) /\ IsInjective(chan[j].receivers) /\ Once(chan[j].selects)
        /\ \A s \in Sender : s \in Waiting(chan[j].senders) => Dest[s] = j
        /\ \A r \in Receiver : r \in Range(chan[j].receivers) => on[r] = j /\ ~timed[r]
        /\ \A r \in Receiver : r \in Waiting(chan[j].selects) => (on[r] = All \/ (on[r] = j /\ timed[r]))
    BY LinesAre
  <2>2. /\ \A s \in Sender : s \in Waiting(chan[k].senders) => Dest[s] = k
        /\ \A r \in Receiver : r \in Range(rs) => on[r] = k /\ ~timed[r]
        /\ \A r \in Receiver : r \in Waiting(chan[k].selects) => (on[r] = All \/ (on[r] = k /\ timed[r]))
    BY LinesAre DEF rs
  <2>3. Once(<<>>) /\ Waiting(<<>>) = {} /\ IsInjective(<<>>) /\ Range(<<>>) = {}
    BY EmptyQueue DEF Once, Waiting
  <2>4. j # All
    BY ChannelAssumption DEF All
  <2>5. /\ Once(chan'[j].senders)
        /\ \A s \in Sender : s \in Waiting(chan'[j].senders) <=> s \in Waiting(chan[j].senders) /\ s \notin Range(cs)
    <3>1. CASE j = k
      BY <1>2, <1>6, <1>8, <2>3, <3>1
    <3>2. CASE j # k
      <4>1. chan'[j].senders = chan[j].senders
        BY <1>6, <1>8, <3>2
      <4>2. \A s \in Sender : s \in Range(cs) => Dest[s] = k
        BY <1>2, <1>4, <1>5, <2>2
      <4> QED  BY <2>1, <3>2, <4>1, <4>2
    <3> QED  BY <3>1, <3>2
  <2>6. /\ IsInjective(chan'[j].receivers)
        /\ \A r \in Receiver : r \in Range(chan'[j].receivers) <=> r \in Range(chan[j].receivers) /\ r \notin Range(cs)
    <3>1. CASE j = k
      BY <1>2, <1>6, <1>8, <2>3, <3>1 DEF rs
    <3>2. CASE j # k
      <4>1. chan'[j].receivers = chan[j].receivers
        BY <1>6, <1>8, <3>2
      <4>2. \A r \in Receiver : r \in Range(cs) => on[r] = k \/ on[r] = All
        BY <1>2, <1>4, <1>5, <2>2
      <4> QED  BY <2>1, <2>4, <3>2, <4>1, <4>2
    <3> QED  BY <3>1, <3>2
  <2>7. /\ Once(chan'[j].selects)
        /\ \A r \in Receiver : r \in Waiting(chan'[j].selects) <=> r \in Waiting(chan[j].selects) /\ r \notin Range(cs)
    <3>1. Once(chan'[j].selects) /\ Waiting(chan'[j].selects) = Waiting(chan[j].selects) \ Range(ws)
      BY <1>7, <1>8
    <3>2. \A r \in Receiver : r \in Waiting(chan[j].selects) => (r \in Range(cs) <=> r \in Range(ws))
      <4> SUFFICES ASSUME NEW r \in Receiver, r \in Waiting(chan[j].selects), r \in Range(cs)
                   PROVE  r \in Range(ws)
        BY <1>2
      <4>1. r \notin Range(rs)
        <5> SUFFICES ASSUME r \in Range(rs) PROVE FALSE
          OBVIOUS
        <5>1. on[r] = k /\ ~timed[r]
          BY <2>2
        <5>2. on[r] = All
          BY <2>1, <5>1
        <5> QED  BY <5>1, <5>2, ChannelAssumption DEF All
      <4> QED  BY <1>2, <1>4, <1>5, <4>1
    <3> QED  BY <3>1, <3>2
  <2> QED  BY <2>5, <2>6, <2>7 DEF Shifted
<1> QED
  BY <1>11, <1>12, <1>13, <1>14, <1>15, <1>16, ShiftKeeps

\* close() and the destructor both do.
LEMMA CloseKeeps ==
    ASSUME LinesInv, NEW k \in Channel, Close(k) \/ DropChannel(k)
    PROVE  LinesInv'
<1>1. CASE CloseChannel(k, TRUE) \/ CloseChannel(k, FALSE)
  BY <1>1, CloseChannelKeeps
<1>2. CASE /\ chan[k].closed /\ chan' = [chan EXCEPT ![k].alive = FALSE]
           /\ UNCHANGED <<at, on, timed, result, readyQueue, sent, hist>>
  <2>1. /\ UNCHANGED <<at, on, timed, result, readyQueue, sent, taken, refused, dropped, rebuffered>>
        /\ chan' = [chan EXCEPT ![k].alive = FALSE]
    BY <1>2 DEF hist
  <2>2. /\ chan' \in [Channel -> Conduit]
        /\ \A j \in Channel :
              /\ chan'[j].receivers = chan[j].receivers /\ chan'[j].senders = chan[j].senders
              /\ chan'[j].selects = chan[j].selects /\ chan'[j].closed = chan[j].closed
              /\ j # k => chan'[j].alive = chan[j].alive
    <3>1. chan \in [Channel -> Conduit]
      BY ChannelTypesAre DEF LinesInv
    <3> QED  BY <2>1, <3>1 DEF Conduit
  <2>3. ChannelTypes'
    BY <2>1, <2>2, ChannelTypesAre, ChannelTypesFrom DEF LinesInv, RestTypes
  <2>4. Scheduled' /\ Filled'
    BY <2>1 DEF LinesInv, Scheduled, Filled
  <2>5. Shut'
    BY <1>2, <2>1, <2>2, ChannelAssumption DEF LinesInv, Shut
  <2>6. Shifts({}, {})
    BY <2>1 DEF Shifts, LinesInv, Posted
  <2>7. ASSUME NEW j \in Channel PROVE Shifted(j, {}, {})
    BY <2>2, LinesAre DEF Shifted
  <2> QED  BY <2>3, <2>4, <2>5, <2>6, <2>7, ShiftKeeps
<1> QED  BY <1>1, <1>2 DEF Close, DropChannel

\* What destroying a frame does besides: its coroutine may start anew.
LEMMA DestroyIs ==
    ASSUME LinesInv, NEW c \in Coroutine, Destroy(c)
    PROVE  /\ at' \in [Coroutine -> States] /\ at'[c] = "running"
           /\ \A d \in Coroutine : d # c => at'[d] = at[d] /\ on'[d] = on[d] /\ timed'[d] = timed[d]
           /\ on' \in [Coroutine -> Channel \union {None, All}] /\ timed' \in [Coroutine -> BOOLEAN]
           /\ sent' = sent
<1>1. /\ at' = [at EXCEPT ![c] = "running"] /\ on' = [on EXCEPT ![c] = None]
      /\ timed' = [timed EXCEPT ![c] = FALSE] /\ sent' = sent
  BY DEF Destroy
<1> QED  BY <1>1, ChannelTypesAre DEF LinesInv, States

\* A parked frame that is destroyed leaves every line.
LEMMA DestroyParkedKeeps ==
    ASSUME LinesInv, NEW c \in Coroutine, Destroy(c), DestroyParked(c)
    PROVE  LinesInv'
<1> DEFINE Sd(j) == IF timed[c] THEN GoStale(chan[j].senders, {c}) ELSE Without(chan[j].senders, {c})
           Rc(j) == Without(chan[j].receivers, {c})
           Sl(j) == GoStale(chan[j].selects, {c})
<1>1. /\ at[c] = "parked"
      /\ refused' = IF c \in Sender THEN refused \union {Value(c)} ELSE refused
      /\ UNCHANGED <<result, readyQueue, taken, dropped, rebuffered>>
  BY DEF DestroyParked
<1>2. \A j \in Channel : chan'[j] = [chan[j] EXCEPT !.senders = Sd(j), !.receivers = Rc(j), !.selects = Sl(j)]
  BY DEF DestroyParked
<1>3. DOMAIN chan' = Channel /\ chan' = [j \in Channel |-> chan'[j]]
  BY DEF DestroyParked
<1>4. /\ at' \in [Coroutine -> States] /\ at'[c] = "running"
      /\ \A d \in Coroutine : d # c => at'[d] = at[d] /\ on'[d] = on[d] /\ timed'[d] = timed[d]
      /\ on' \in [Coroutine -> Channel \union {None, All}] /\ timed' \in [Coroutine -> BOOLEAN]
      /\ sent' = sent
  BY DestroyIs
<1>5. Sender \subseteq Coroutine /\ Receiver \subseteq Coroutine /\ Sender \cap Receiver = {} /\ c # Stale
  BY ChannelAssumption DEF Coroutine
<1>6. ASSUME NEW j \in Channel
      PROVE  /\ Sd(j) \in Seq(Sender \cup {Stale}) /\ Once(Sd(j)) /\ Waiting(Sd(j)) = Waiting(chan[j].senders) \ {c}
             /\ Rc(j) \in Seq(Receiver) /\ IsInjective(Rc(j)) /\ Range(Rc(j)) = Range(chan[j].receivers) \ {c}
             /\ Sl(j) \in Seq(Receiver \cup {Stale}) /\ Once(Sl(j))
             /\ Waiting(Sl(j)) = Waiting(chan[j].selects) \ {c}
  <2>1. /\ Stale \notin Sender /\ Stale \notin Receiver
        /\ chan[j].senders \in Seq(Sender \union {Stale}) /\ Once(chan[j].senders)
        /\ chan[j].selects \in Seq(Receiver \union {Stale}) /\ Once(chan[j].selects)
        /\ chan[j].receivers \in Seq(Receiver) /\ IsInjective(chan[j].receivers)
    BY LinesAre
  <2>2. /\ GoStale(chan[j].senders, {c}) \in Seq(Sender \cup {Stale}) /\ Once(GoStale(chan[j].senders, {c}))
        /\ Waiting(GoStale(chan[j].senders, {c})) = Waiting(chan[j].senders) \ {c}
    BY <2>1, StaleLine
  <2>3. /\ Without(chan[j].senders, {c}) \in Seq(Sender \cup {Stale}) /\ Once(Without(chan[j].senders, {c}))
        /\ Waiting(Without(chan[j].senders, {c})) = Waiting(chan[j].senders) \ {c}
    BY ZenonT(60), <1>5, <2>1, LeftLine
  <2>4. /\ Rc(j) \in Seq(Receiver) /\ IsInjective(Rc(j)) /\ Range(Rc(j)) = Range(chan[j].receivers) \ {c}
    BY <2>1, WithoutIsTrue
  <2>5. /\ Sl(j) \in Seq(Receiver \cup {Stale}) /\ Once(Sl(j))
        /\ Waiting(Sl(j)) = Waiting(chan[j].selects) \ {c}
    BY <2>1, StaleLine
  <2> QED  BY <2>2, <2>3, <2>4, <2>5
<1> HIDE DEF Sd, Rc, Sl
<1>7. /\ chan' \in [Channel -> Conduit]
      /\ \A j \in Channel :
            /\ chan'[j].senders = Sd(j) /\ chan'[j].receivers = Rc(j) /\ chan'[j].selects = Sl(j)
            /\ chan'[j].closed = chan[j].closed /\ chan'[j].alive = chan[j].alive
  <2>1. ASSUME NEW j \in Channel
        PROVE  /\ chan'[j] \in Conduit
               /\ chan'[j].senders = Sd(j) /\ chan'[j].receivers = Rc(j) /\ chan'[j].selects = Sl(j)
               /\ chan'[j].closed = chan[j].closed /\ chan'[j].alive = chan[j].alive
    <3>1. chan[j] \in Conduit
      BY ChannelTypesAre DEF LinesInv
    <3>2. chan'[j] = [chan[j] EXCEPT !.senders = Sd(j), !.receivers = Rc(j), !.selects = Sl(j)]
      BY <1>2
    <3>3. Sd(j) \in Seq(Sender \cup {Stale}) /\ Rc(j) \in Seq(Receiver) /\ Sl(j) \in Seq(Receiver \cup {Stale})
      BY <1>6
    <3> QED  BY <3>1, <3>2, <3>3 DEF Conduit
  <2> QED  BY <1>3, <2>1
<1>8. RestTypes'
  <2>1. c \in Sender => Value(c) \in Values
    BY <1>1, HeldIsValue
  <2> QED  BY <1>1, <1>4, <2>1, ChannelTypesAre DEF RestTypes, LinesInv
<1>9. ChannelTypes'
  BY <1>1, <1>4, <1>7, <1>8, ChannelTypesAre, ChannelTypesFrom DEF LinesInv
<1>10. Scheduled' /\ Filled'
  BY <1>1, <1>4, <1>5 DEF LinesInv, Scheduled, Filled
<1>11. Shut'
  BY <1>4, <1>5, <1>7, ChannelAssumption DEF LinesInv, Shut
<1>12. Shifts({c}, {})
  BY <1>1, <1>4, <1>5 DEF Shifts, LinesInv, Posted
<1>13. ASSUME NEW j \in Channel PROVE Shifted(j, {c}, {})
  BY <1>6, <1>7 DEF Shifted
<1> QED
  BY <1>9, <1>10, <1>11, <1>12, <1>13, ShiftKeeps

\* A scheduled sender that is destroyed leaves the ready queue,
LEMMA DestroyScheduledSenderKeeps ==
    ASSUME LinesInv, NEW s \in Sender, Destroy(s), DestroyScheduledSender(s)
    PROVE  LinesInv'
<1>1. /\ at[s] = "woken" \/ at[s] = "fired"
      /\ refused' = refused \union {Value(s)} /\ readyQueue' = Without(readyQueue, {s})
      /\ UNCHANGED <<chan, result, taken, dropped, rebuffered>>
  BY DEF DestroyScheduledSender
<1>2. s \in Coroutine /\ Sender \subseteq Coroutine /\ Receiver \subseteq Coroutine /\ s \notin Receiver
  BY ChannelAssumption DEF Coroutine
<1>3. /\ at' \in [Coroutine -> States] /\ at'[s] = "running"
      /\ \A d \in Coroutine : d # s => at'[d] = at[d] /\ on'[d] = on[d] /\ timed'[d] = timed[d]
      /\ on' \in [Coroutine -> Channel \union {None, All}] /\ timed' \in [Coroutine -> BOOLEAN]
      /\ sent' = sent
  BY <1>2, DestroyIs
<1>4. Value(s) \in Values
  BY <1>1, HeldIsValue
<1>5. RestTypes'
  BY <1>1, <1>3, <1>4, ChannelTypesAre DEF RestTypes, LinesInv
<1>6. Scheduled' /\ readyQueue' \in Seq(Coroutine)
  <2>1. \A d \in Coroutine : at'[d] \in {"woken", "fired"} <=> at[d] \in {"woken", "fired"} /\ d # s
    BY <1>1, <1>3
  <2> QED  BY <1>1, <1>2, <2>1, ReadyShrinks
<1>7. ChannelTypes'
  BY <1>1, <1>3, <1>5, <1>6, ChannelTypesAre, ChannelTypesFrom DEF LinesInv
<1>8. Filled' /\ Shut'
  BY <1>1, <1>2, <1>3 DEF LinesInv, Filled, Shut
<1>9. Shifts({}, {})
  BY <1>1, <1>2, <1>3 DEF Shifts, LinesInv, Posted
<1>10. ASSUME NEW j \in Channel PROVE Shifted(j, {}, {})
  BY <1>1, LinesAre DEF Shifted
<1> QED
  BY <1>6, <1>7, <1>8, <1>9, <1>10, ShiftKeeps

\* as does a receiver, whose message goes back to the buffer.
LEMMA DestroyWokenReceiverKeeps ==
    ASSUME LinesInv, NEW r \in Receiver, Destroy(r), DestroyWokenReceiver(r)
    PROVE  LinesInv'
<1> DEFINE v == result[r]
           k == on[r]
<1>1. /\ at[r] = "woken" /\ readyQueue' = Without(readyQueue, {r})
      /\ result' = [result EXCEPT ![r] = NoValue] /\ UNCHANGED <<taken, refused>>
  BY DEF DestroyWokenReceiver
<1>2. \/ UNCHANGED <<chan, dropped, rebuffered>>
      \/ v \in Values /\ dropped' = dropped \union {v} /\ UNCHANGED <<chan, rebuffered>>
      \/ /\ v \in Values /\ k # All /\ chan' = [chan EXCEPT ![k].buffer = Append(@, v)]
         /\ rebuffered' = rebuffered \union {v} /\ UNCHANGED dropped
  BY DEF DestroyWokenReceiver
<1>3. /\ r \in Coroutine /\ Sender \subseteq Coroutine /\ Receiver \subseteq Coroutine
      /\ r \notin Sender /\ Sender \cap Receiver = {}
  BY ChannelAssumption DEF Coroutine
<1>4. /\ at' \in [Coroutine -> States] /\ at'[r] = "running"
      /\ \A d \in Coroutine : d # r => at'[d] = at[d] /\ on'[d] = on[d] /\ timed'[d] = timed[d]
      /\ on' \in [Coroutine -> Channel \union {None, All}] /\ timed' \in [Coroutine -> BOOLEAN]
      /\ sent' = sent
  BY <1>3, DestroyIs
<1>5. k \in Channel \union {All}
  BY <1>1 DEF LinesInv, Posted
<1>6. /\ chan' \in [Channel -> Conduit]
      /\ \A j \in Channel :
            /\ chan'[j].receivers = chan[j].receivers /\ chan'[j].senders = chan[j].senders
            /\ chan'[j].selects = chan[j].selects
            /\ chan'[j].closed = chan[j].closed /\ chan'[j].alive = chan[j].alive
  <2>1. chan \in [Channel -> Conduit]
    BY ChannelTypesAre DEF LinesInv
  <2>2. CASE chan' = chan
    BY <2>1, <2>2
  <2>3. CASE v \in Values /\ k # All /\ chan' = [chan EXCEPT ![k].buffer = Append(@, v)]
    <3>1. k \in Channel /\ Append(chan[k].buffer, v) \in Seq(Values)
      BY <1>5, <2>3, ChannelTypesAre DEF LinesInv
    <3> HIDE DEF k, v
    <3> QED  BY <2>1, <2>3, <3>1 DEF Conduit
  <2> QED  BY <1>2, <2>2, <2>3
<1> HIDE DEF k, v
<1>7. RestTypes'
  BY <1>1, <1>2, <1>4, ChannelTypesAre DEF RestTypes, LinesInv
<1>8. /\ result' \in [Receiver -> Values \union {NoValue, Closed, Timeout}]
      /\ result'[r] = NoValue /\ \A c \in Receiver : c # r => result'[c] = result[c]
  BY <1>1, ChannelTypesAre DEF LinesInv
<1>9. Scheduled' /\ readyQueue' \in Seq(Coroutine)
  <2>1. \A d \in Coroutine : at'[d] \in {"woken", "fired"} <=> at[d] \in {"woken", "fired"} /\ d # r
    BY <1>1, <1>4
  <2> QED  BY <1>1, <1>3, <2>1, ReadyShrinks
<1>10. ChannelTypes'
  BY <1>4, <1>6, <1>7, <1>8, <1>9, ChannelTypesFrom
<1>11. Filled'
  BY <1>3, <1>4, <1>8 DEF LinesInv, Filled
<1>12. Shut'
  BY ZenonT(60), <1>3, <1>4, <1>6, ChannelAssumption DEF LinesInv, Shut
<1>13. Shifts({}, {})
  BY <1>1, <1>3, <1>4 DEF Shifts, LinesInv, Posted
<1>14. ASSUME NEW j \in Channel PROVE Shifted(j, {}, {})
  BY <1>6, LinesAre DEF Shifted
<1> QED
  BY <1>9, <1>10, <1>11, <1>12, <1>13, <1>14, ShiftKeeps

\* The invariant of the lines holds at first, and every step keeps it.
LEMMA LinesStart ==
    ASSUME ChannelInit
    PROVE  LinesInv
<1>1. /\ chan = [k \in Channel |-> [buffer |-> <<>>, senders |-> <<>>, receivers |-> <<>>,
                                    selects |-> <<>>, closed |-> FALSE, alive |-> TRUE]]
      /\ at = [c \in Coroutine |-> "running"] /\ on = [c \in Coroutine |-> None]
      /\ timed = [c \in Coroutine |-> FALSE] /\ result = [r \in Receiver |-> NoValue]
      /\ sent = [s \in Sender |-> 0] /\ readyQueue = <<>>
      /\ taken = {} /\ refused = {} /\ dropped = {} /\ rebuffered = {}
  BY DEF ChannelInit
<1>2. MaxSends \in [Sender -> Nat] /\ Dest \in [Sender -> Channel]
  BY ChannelAssumption
<1>3. Sender \subseteq Coroutine /\ Receiver \subseteq Coroutine
  BY DEF Coroutine
<1>4. /\ Once(<<>>) /\ Waiting(<<>>) = {} /\ IsInjective(<<>>) /\ Range(<<>>) = {}
      /\ \A S : <<>> \in Seq(S)
  BY EmptyQueue DEF Once, Waiting
<1>5. ChannelTypes
  BY <1>1, <1>2, <1>4 DEF ChannelTypes, ChannelTypeOK
<1>6. Lines
  BY <1>1, <1>3, <1>4 DEF Lines, SenderLine, ReceiverLine, SelectLine
<1>7. Posted /\ Scheduled /\ Filled /\ Shut
  BY <1>1, <1>2, <1>3, <1>4 DEF Posted, Scheduled, Filled, Shut
<1> QED  BY <1>5, <1>6, <1>7 DEF LinesInv

\* Each step keeps the queues.
LEMMA LinesStep ==
    ASSUME LinesInv, [ChannelNext]_channelVars
    PROVE  LinesInv'
<1>1. CASE UNCHANGED channelVars
  BY <1>1 DEF channelVars, sys, hist, LinesInv, ChannelTypes, ChannelTypeOK, Lines, SenderLine, ReceiverLine,
              SelectLine, Posted, Scheduled, Filled, Shut
<1>2. ASSUME NEW s \in Sender,
             \/ SendNow(s) \/ TrySendFails(s) \/ \E t \in BOOLEAN : SendParks(s, t)
             \/ SenderResumes(s) \/ SendTimer(s) \/ FiredResumes(s)
      PROVE  LinesInv'
  BY <1>2, SendNowKeeps, TrySendFailsKeeps, SendParksKeeps, SenderResumesKeeps, SendTimerKeeps, FiredResumesKeeps
<1>3. ASSUME NEW r \in Receiver,
             \/ \E k \in Channel : RecvNow(r, k) \/ RecvParks(r, k) \/ RecvForParks(r, k)
             \/ SelectParks(r) \/ RecvTimer(r) \/ ReceiverResumes(r)
      PROVE  LinesInv'
  BY <1>3, RecvNowKeeps, RecvParksKeeps, RecvForParksKeeps, SelectParksKeeps, RecvTimerKeeps, ReceiverResumesKeeps
<1>4. ASSUME NEW k \in Channel, Close(k) \/ DropChannel(k) PROVE LinesInv'
  BY <1>4, CloseKeeps
<1>5. ASSUME NEW c \in Coroutine, Destroy(c) PROVE LinesInv'
  <2>1. \/ DestroyParked(c)
        \/ c \in Sender /\ DestroyScheduledSender(c)
        \/ c \in Receiver /\ DestroyWokenReceiver(c)
    BY <1>5 DEF Destroy
  <2> QED  BY <1>5, <2>1, DestroyParkedKeeps, DestroyScheduledSenderKeeps, DestroyWokenReceiverKeeps
<1> QED
  BY <1>1, <1>2, <1>3, <1>4, <1>5 DEF ChannelNext

-----------------------------------------------------------------------------
(* Every value has one home *)

\* Where a value can be: in a buffer, in a receiver's frame, with a suspended
\* sender, or told to be received, refused or dropped.
Home == ({"buffer"} \X Channel) \union ({"frame"} \X Receiver) \union ({"sender"} \X Sender)
        \union ({"told"} \X {"taken", "refused", "dropped"})

Held(h) ==
    IF h[1] = "buffer" THEN Range(chan[h[2]].buffer)
    ELSE IF h[1] = "frame" THEN {result[h[2]]} \cap Values
    ELSE IF h[1] = "sender" THEN IF at[h[2]] = "running" THEN {} ELSE {Value(h[2])}
    ELSE IF h[2] = "taken" THEN taken
    ELSE IF h[2] = "refused" THEN refused ELSE dropped

Offered == {v \in Values : v[2] <= sent[v[1]]}

\* The values offered are those that have a home, and each has one.
Homes ==
    /\ \A k \in Channel : IsInjective(chan[k].buffer)
    /\ \A g, h \in Home : g # h => Held(g) \cap Held(h) = {}
    /\ \A v : v \in Offered <=> \E h \in Home : v \in Held(h)

\* The homes, kind by kind.
LEMMA HomeKinds ==
    /\ \A k \in Channel : <<"buffer", k>> \in Home
    /\ \A r \in Receiver : <<"frame", r>> \in Home
    /\ \A s \in Sender : <<"sender", s>> \in Home
    /\ <<"told", "taken">> \in Home /\ <<"told", "refused">> \in Home /\ <<"told", "dropped">> \in Home
    /\ \A h \in Home :
          \/ \E k \in Channel : h = <<"buffer", k>>
          \/ \E r \in Receiver : h = <<"frame", r>>
          \/ \E s \in Sender : h = <<"sender", s>>
          \/ h = <<"told", "taken">> \/ h = <<"told", "refused">> \/ h = <<"told", "dropped">>
BY DEF Home

\* What is in them, before and after a step.
LEMMA HeldIs ==
    /\ \A k : Held(<<"buffer", k>>) = Range(chan[k].buffer) /\ Held(<<"buffer", k>>)' = Range(chan'[k].buffer)
    /\ \A r : Held(<<"frame", r>>) = {result[r]} \cap Values /\ Held(<<"frame", r>>)' = {result'[r]} \cap Values
    /\ \A s : /\ Held(<<"sender", s>>) = IF at[s] = "running" THEN {} ELSE {<<s, sent[s]>>}
              /\ Held(<<"sender", s>>)' = IF at'[s] = "running" THEN {} ELSE {<<s, sent'[s]>>}
    /\ Held(<<"told", "taken">>) = taken /\ Held(<<"told", "taken">>)' = taken'
    /\ Held(<<"told", "refused">>) = refused /\ Held(<<"told", "refused">>)' = refused'
    /\ Held(<<"told", "dropped">>) = dropped /\ Held(<<"told", "dropped">>)' = dropped'
BY DEF Held, Value

\* A step moves nothing.
LEMMA NothingMoves ==
    ASSUME Homes, sent' = sent, \A k \in Channel : IsInjective(chan'[k].buffer),
           \A h \in Home : Held(h)' = Held(h)
    PROVE  Homes'
<1>1. Offered' = Offered
  BY DEF Offered
<1>2. \A g, h \in Home : g # h => Held(g)' \cap Held(h)' = {}
  BY DEF Homes
<1>3. \A v : v \in Offered' <=> \E h \in Home : v \in Held(h)'
  BY <1>1 DEF Homes
<1> QED  BY <1>2, <1>3 DEF Homes

\* A step moves one value.
LEMMA OneMoves ==
    ASSUME Homes, sent' = sent, \A k \in Channel : IsInjective(chan'[k].buffer),
           NEW g \in Home, NEW h \in Home, g # h, NEW v \in Held(g),
           Held(g)' = Held(g) \ {v}, Held(h)' = Held(h) \cup {v},
           \A x \in Home : x # g /\ x # h => Held(x)' = Held(x)
    PROVE  Homes'
<1>1. Offered' = Offered
  BY DEF Offered
<1>2. ASSUME NEW x \in Home, NEW y \in Home, x # y PROVE Held(x)' \cap Held(y)' = {}
  <2>1. \A z \in Home : z # g => v \notin Held(z)
    BY DEF Homes
  <2>2. Held(x) \cap Held(y) = {}
    BY <1>2 DEF Homes
  <2> QED  BY <1>2, <2>1, <2>2
<1>3. ASSUME NEW w PROVE w \in Offered' <=> \E x \in Home : w \in Held(x)'
  <2>1. w \in Offered <=> \E x \in Home : w \in Held(x)
    BY DEF Homes
  <2>2. CASE w = v
    BY <1>1, <2>1, <2>2
  <2>3. CASE w # v
    <3>1. \A x \in Home : w \in Held(x)' <=> w \in Held(x)
      BY <2>3
    <3> QED  BY <1>1, <2>1, <3>1
  <2> QED  BY <2>2, <2>3
<1> QED  BY <1>2, <1>3 DEF Homes

\* A step offers one.
LEMMA OneComes ==
    ASSUME LinesInv, Homes, NEW s \in Sender, Offers(s), \A k \in Channel : IsInjective(chan'[k].buffer),
           NEW h \in Home, Held(h)' = Held(h) \cup {<<s, sent[s] + 1>>},
           \A x \in Home : x # h => Held(x)' = Held(x)
    PROVE  Homes'
<1> DEFINE v == <<s, sent[s] + 1>>
<1>1. sent \in [Sender -> Nat] /\ v \in Values /\ sent' = [sent EXCEPT ![s] = sent[s] + 1]
  BY ChannelTypesAre, OfferIsValue DEF LinesInv
<1>2. v \notin Offered
  BY <1>1 DEF Offered
<1>3. Offered' = Offered \cup {v}
  <2>1. ASSUME NEW w \in Values PROVE w[2] <= sent'[w[1]] <=> w[2] <= sent[w[1]] \/ w = v
    <3>1. PICK d \in Sender : \E n \in 1..MaxSends[d] : w = <<d, n>>
      BY ValuesArePairs
    <3>2. PICK n \in 1..MaxSends[d] : w = <<d, n>>
      BY <3>1
    <3>3. n \in Nat /\ w[1] = d /\ w[2] = n
      <4>1. MaxSends[d] \in Nat
        BY ChannelAssumption
      <4> QED  BY <3>2, <4>1
    <3>4. CASE d = s
      <4>1. sent'[d] = sent[s] + 1 /\ sent[s] \in Nat
        BY <1>1, <3>4
      <4>2. w = v <=> n = sent[s] + 1
        BY <3>2, <3>4
      <4> QED  BY <3>3, <3>4, <4>1, <4>2
    <3>5. CASE d # s
      BY <1>1, <3>2, <3>3, <3>5
    <3> QED  BY <3>4, <3>5
  <2> HIDE DEF v
  <2> QED  BY <1>1, <2>1 DEF Offered
<1> HIDE DEF v
<1>4. \A x \in Home : v \notin Held(x)
  BY <1>2 DEF Homes
<1>5. Held(h)' = Held(h) \cup {v}
  BY DEF v
<1>6. ASSUME NEW x \in Home, NEW y \in Home, x # y PROVE Held(x)' \cap Held(y)' = {}
  <2>1. Held(x) \cap Held(y) = {}
    BY <1>6 DEF Homes
  <2> QED  BY <1>4, <1>5, <1>6, <2>1
<1>7. ASSUME NEW w PROVE w \in Offered' <=> \E x \in Home : w \in Held(x)'
  <2>1. w \in Offered <=> \E x \in Home : w \in Held(x)
    BY DEF Homes
  <2>2. CASE w = v
    BY <1>3, <1>5, <2>2
  <2>3. CASE w # v
    <3>1. \A x \in Home : w \in Held(x)' <=> w \in Held(x)
      BY <1>5, <2>3
    <3> QED  BY <1>3, <2>1, <2>3, <3>1
  <2> QED  BY <2>2, <2>3
<1> QED  BY <1>6, <1>7 DEF Homes

\* Which homes a step leaves alone: all but those of the buffers in Bs, the
\* frames in Rs, the senders in Ss and what is told in Ts.
Alone(Bs, Rs, Ss, Ts) ==
    /\ \A k \in Channel : k \notin Bs => chan'[k].buffer = chan[k].buffer
    /\ \A r \in Receiver : r \notin Rs => {result'[r]} \cap Values = {result[r]} \cap Values
    /\ \A s \in Sender : s \notin Ss => (at'[s] = "running" <=> at[s] = "running")
                                        /\ (at[s] # "running" => sent'[s] = sent[s])
    /\ "taken" \notin Ts => taken' = taken
    /\ "refused" \notin Ts => refused' = refused
    /\ "dropped" \notin Ts => dropped' = dropped

\* A place that no step touched holds what it held.
LEMMA AloneHolds ==
    ASSUME NEW Bs, NEW Rs, NEW Ss, NEW Ts, Alone(Bs, Rs, Ss, Ts), NEW h \in Home,
           \/ h[1] = "buffer" /\ h[2] \notin Bs
           \/ h[1] = "frame" /\ h[2] \notin Rs
           \/ h[1] = "sender" /\ h[2] \notin Ss
           \/ h[1] = "told" /\ h[2] \notin Ts
    PROVE  Held(h)' = Held(h)
<1>1. CASE \E k \in Channel : h = <<"buffer", k>>
  <2>1. PICK k \in Channel : h = <<"buffer", k>>
    BY <1>1
  <2>2. k \notin Bs
    BY <2>1
  <2> QED  BY <2>1, <2>2, HeldIs DEF Alone
<1>2. CASE \E r \in Receiver : h = <<"frame", r>>
  <2>1. PICK r \in Receiver : h = <<"frame", r>>
    BY <1>2
  <2>2. r \notin Rs
    BY <2>1
  <2> QED  BY <2>1, <2>2, HeldIs DEF Alone
<1>3. CASE \E s \in Sender : h = <<"sender", s>>
  <2>1. PICK s \in Sender : h = <<"sender", s>>
    BY <1>3
  <2>2. s \notin Ss
    BY <2>1
  <2>3. (at'[s] = "running" <=> at[s] = "running") /\ (at[s] # "running" => sent'[s] = sent[s])
    BY <2>2 DEF Alone
  <2>4. /\ Held(h) = IF at[s] = "running" THEN {} ELSE {<<s, sent[s]>>}
        /\ Held(h)' = IF at'[s] = "running" THEN {} ELSE {<<s, sent'[s]>>}
    BY <2>1, HeldIs
  <2> QED  BY <2>3, <2>4
<1>4. CASE h = <<"told", "taken">> \/ h = <<"told", "refused">> \/ h = <<"told", "dropped">>
  BY <1>4, HeldIs DEF Alone
<1> QED  BY <1>1, <1>2, <1>3, <1>4, HomeKinds

\* The buffers stay as they are.
LEMMA BuffersStay ==
    ASSUME Homes, \A k \in Channel : chan'[k].buffer = chan[k].buffer
    PROVE  \A k \in Channel : IsInjective(chan'[k].buffer)
BY DEF Homes

\* Steps that move nothing.
LEMMA AloneKeeps ==
    ASSUME Homes, sent' = sent, Alone({}, {}, {}, {})
    PROVE  Homes'
<1>1. \A h \in Home : Held(h)' = Held(h)
  <2> TAKE h \in Home
  <2>1. h[1] \in {"buffer", "frame", "sender", "told"}
    BY HomeKinds
  <2> QED  BY <2>1, AloneHolds
<1>2. \A k \in Channel : IsInjective(chan'[k].buffer)
  BY BuffersStay DEF Alone
<1> QED  BY <1>1, <1>2, NothingMoves

\* A suspended sender's value is refused.
LEMMA RefusedKeeps ==
    ASSUME LinesInv, Homes, NEW s \in Sender, at[s] # "running", at'[s] = "running", sent' = sent,
           refused' = refused \union {Value(s)}, Alone({}, {}, {s}, {"refused"})
    PROVE  Homes'
<1> DEFINE g == <<"sender", s>>
           h == <<"told", "refused">>
<1>1. g \in Home /\ h \in Home /\ g # h
  BY HomeKinds
<1>2. Held(g) = {Value(s)} /\ Held(g)' = {} /\ Held(h) = refused /\ Held(h)' = refused \union {Value(s)}
  BY HeldIs DEF Value
<1>3. ASSUME NEW x \in Home, x # g, x # h PROVE Held(x)' = Held(x)
  <2>1. \/ x[1] = "buffer" \/ x[1] = "frame"
        \/ x[1] = "sender" /\ x[2] # s
        \/ x[1] = "told" /\ x[2] # "refused"
    BY <1>3, HomeKinds
  <2> QED  BY <2>1, AloneHolds
<1>4. \A k \in Channel : IsInjective(chan'[k].buffer)
  BY BuffersStay DEF Alone
<1> HIDE DEF g, h
<1> QED  BY <1>1, <1>2, <1>3, <1>4, OneMoves

\* A value that is offered is refused.
LEMMA OfferRefused ==
    ASSUME LinesInv, Homes, NEW s \in Sender, Offers(s),
           refused' = refused \union {<<s, sent[s] + 1>>}, Alone({}, {}, {}, {"refused"})
    PROVE  Homes'
<1> DEFINE h == <<"told", "refused">>
<1>1. h \in Home /\ Held(h)' = Held(h) \union {<<s, sent[s] + 1>>}
  BY HomeKinds, HeldIs
<1>2. ASSUME NEW x \in Home, x # h PROVE Held(x)' = Held(x)
  <2>1. x[1] = "buffer" \/ x[1] = "frame" \/ x[1] = "sender" \/ (x[1] = "told" /\ x[2] # "refused")
    BY <1>2, HomeKinds
  <2> QED  BY <2>1, AloneHolds
<1>3. \A k \in Channel : IsInjective(chan'[k].buffer)
  BY BuffersStay DEF Alone
<1> HIDE DEF h
<1> QED  BY <1>1, <1>2, <1>3, OneComes

\* A value is put behind those in a buffer that does not hold it.
LEMMA BufferGrows ==
    ASSUME LinesInv, Homes, NEW k \in Channel, NEW v \in Values, v \notin Range(chan[k].buffer),
           chan'[k].buffer = Append(chan[k].buffer, v),
           \A j \in Channel : j # k => chan'[j].buffer = chan[j].buffer
    PROVE  /\ \A j \in Channel : IsInjective(chan'[j].buffer)
           /\ Range(chan'[k].buffer) = Range(chan[k].buffer) \cup {v}
<1>1. chan[k].buffer \in Seq(Values) /\ IsInjective(chan[k].buffer)
  BY ChannelTypesAre DEF LinesInv, Homes
<1>2. IsInjective(chan'[k].buffer) /\ Range(chan'[k].buffer) = Range(chan[k].buffer) \cup {v}
  BY <1>1, AppendedQueue
<1> QED  BY <1>2 DEF Homes

\* A value that is not with its home is in no other.
LEMMA NotElsewhere ==
    ASSUME Homes, NEW g \in Home, NEW h \in Home, g # h, NEW v \in Held(g)
    PROVE  v \notin Held(h)
BY DEF Homes

\* A value not offered yet has no home.
LEMMA NotYet ==
    ASSUME LinesInv, Homes, NEW s \in Sender, NEW h \in Home
    PROVE  <<s, sent[s] + 1>> \notin Held(h)
<1>1. sent[s] \in Nat
  BY ChannelTypesAre DEF LinesInv
<1>2. <<s, sent[s] + 1>> \notin Offered
  BY <1>1 DEF Offered
<1> QED  BY <1>2 DEF Homes

\* A value that is offered is handed over.
LEMMA OfferHanded ==
    ASSUME LinesInv, Homes, NEW s \in Sender, Offers(s), NEW k \in Channel,
           Hand(k, <<s, sent[s] + 1>>, at, readyQueue), UNCHANGED <<taken, refused, dropped>>
    PROVE  Homes'
<1> DEFINE v == <<s, sent[s] + 1>>
<1>0. PICK r \in Receiver : Handed(k, v, at, readyQueue, r)
  BY HandGoes
<1> DEFINE h == <<"frame", r>>
<1>1. v \in Values /\ sent' = [sent EXCEPT ![s] = sent[s] + 1] /\ at[s] = "running"
  BY OfferIsValue
<1> HIDE DEF v
<1>2. /\ at[r] = "parked" /\ result' = [result EXCEPT ![r] = v]
      /\ at' = [at EXCEPT ![r] = "woken"]
      /\ \A j \in Channel : chan'[j].buffer = chan[j].buffer
  BY <1>0 DEF Handed
<1>3. /\ result \in [Receiver -> Values \union {NoValue, Closed, Timeout}] /\ at \in [Coroutine -> States]
      /\ sent \in [Sender -> Nat] /\ result[r] = NoValue
  BY <1>2, ChannelTypesAre DEF LinesInv, Filled
<1>4. Sender \subseteq Coroutine /\ Receiver \subseteq Coroutine /\ r \notin Sender
  BY ChannelAssumption DEF Coroutine
<1>5. Alone({}, {r}, {}, {})
  BY <1>1, <1>2, <1>3, <1>4 DEF Alone
<1>6. h \in Home /\ Held(h)' = Held(h) \union {v}
  BY <1>1, <1>2, <1>3, HomeKinds, HeldIs, ValuesArePairs
<1>7. ASSUME NEW x \in Home, x # h PROVE Held(x)' = Held(x)
  <2>1. x[1] = "buffer" \/ (x[1] = "frame" /\ x[2] # r) \/ x[1] = "sender" \/ x[1] = "told"
    BY <1>7, HomeKinds
  <2> QED  BY <1>5, <2>1, AloneHolds
<1>8. \A j \in Channel : IsInjective(chan'[j].buffer)
  BY <1>2, BuffersStay
<1> HIDE DEF h
<1> QED  BY <1>6, <1>7, <1>8, OneComes DEF v

\* A value that is offered is buffered.
LEMMA OfferBuffered ==
    ASSUME LinesInv, Homes, NEW s \in Sender, Offers(s), NEW k \in Channel,
           Buffer(k, <<s, sent[s] + 1>>, at, readyQueue), UNCHANGED <<taken, refused, dropped>>
    PROVE  Homes'
<1> DEFINE v == <<s, sent[s] + 1>>
           h == <<"buffer", k>>
<1>1. v \in Values /\ sent' = [sent EXCEPT ![s] = sent[s] + 1] /\ at[s] = "running"
  BY OfferIsValue
<1>2. h \in Home /\ v \notin Held(h)
  BY HomeKinds, NotYet
<1>3. /\ chan' = [chan EXCEPT ![k].buffer = Append(@, v), ![k].selects = <<>>]
      /\ at' = at /\ result' = result
  BY DEF Buffer
<1> HIDE DEF v
<1>4. /\ chan'[k].buffer = Append(chan[k].buffer, v)
      /\ \A j \in Channel : j # k => chan'[j].buffer = chan[j].buffer
  <2>1. chan \in [Channel -> Conduit]
    BY ChannelTypesAre DEF LinesInv
  <2> QED  BY <1>3, <2>1 DEF Conduit
<1>5. v \notin Range(chan[k].buffer)
  BY <1>2, HeldIs
<1>6. /\ \A j \in Channel : IsInjective(chan'[j].buffer)
      /\ Range(chan'[k].buffer) = Range(chan[k].buffer) \cup {v}
  BY <1>1, <1>4, <1>5, BufferGrows
<1>7. Alone({k}, {}, {}, {})
  <2>1. sent \in [Sender -> Nat]
    BY ChannelTypesAre DEF LinesInv
  <2> QED  BY <1>1, <1>3, <1>4, <2>1 DEF Alone
<1>8. Held(h)' = Held(h) \union {v}
  BY <1>6, HeldIs
<1>9. ASSUME NEW x \in Home, x # h PROVE Held(x)' = Held(x)
  <2>1. (x[1] = "buffer" /\ x[2] # k) \/ x[1] = "frame" \/ x[1] = "sender" \/ x[1] = "told"
    BY <1>9, HomeKinds
  <2> QED  BY <1>7, <2>1, AloneHolds
<1> HIDE DEF h
<1> QED  BY <1>2, <1>6, <1>8, <1>9, OneComes DEF v

\* A sender that was woken hands its value over.
LEMMA SenderHanded ==
    ASSUME LinesInv, Homes, NEW s \in Sender, at[s] = "woken", NEW k \in Channel, NEW q,
           Hand(k, Value(s), [at EXCEPT ![s] = "running"], q), UNCHANGED <<sent, taken, refused, dropped>>
    PROVE  Homes'
<1> DEFINE v == Value(s)
           a == [at EXCEPT ![s] = "running"]
           g == <<"sender", s>>
<1>0. PICK r \in Receiver : Handed(k, v, a, q, r)
  BY HandGoes
<1> DEFINE h == <<"frame", r>>
<1>1. v \in Values /\ v = <<s, sent[s]>>
  BY HeldIsValue DEF Value
<1> HIDE DEF v
<1>2. Sender \subseteq Coroutine /\ Receiver \subseteq Coroutine /\ r \notin Sender
  BY ChannelAssumption DEF Coroutine
<1>3. a \in [Coroutine -> States] /\ a[s] = "running" /\ \A c \in Coroutine : c # s => a[c] = at[c]
  BY <1>2, ChannelTypesAre DEF LinesInv, States
<1> HIDE DEF a
<1>4. /\ at[r] = "parked" /\ result' = [result EXCEPT ![r] = v]
      /\ at' = [a EXCEPT ![r] = "woken"]
      /\ \A j \in Channel : chan'[j].buffer = chan[j].buffer
  BY <1>0 DEF Handed
<1>5. /\ result \in [Receiver -> Values \union {NoValue, Closed, Timeout}] /\ result[r] = NoValue
  BY <1>4, ChannelTypesAre DEF LinesInv, Filled
<1>6. at'[s] = "running" /\ \A d \in Sender : d # s => at'[d] = at[d]
  BY <1>2, <1>3, <1>4
<1>7. Alone({}, {r}, {s}, {})
  BY <1>4, <1>5, <1>6 DEF Alone
<1>8. g \in Home /\ h \in Home /\ g # h /\ Held(h)' = Held(h) \union {v}
  BY <1>1, <1>4, <1>5, HomeKinds, HeldIs, ValuesArePairs
<1>9. Held(g) = {v} /\ Held(g)' = {}
  BY <1>1, <1>6, HeldIs
<1>10. ASSUME NEW x \in Home, x # g, x # h PROVE Held(x)' = Held(x)
  <2>1. x[1] = "buffer" \/ (x[1] = "frame" /\ x[2] # r) \/ (x[1] = "sender" /\ x[2] # s) \/ x[1] = "told"
    BY <1>10, HomeKinds
  <2> QED  BY <1>7, <2>1, AloneHolds
<1>11. \A j \in Channel : IsInjective(chan'[j].buffer)
  BY <1>4, BuffersStay
<1> HIDE DEF g, h
<1> QED  BY <1>8, <1>9, <1>10, <1>11, OneMoves

\* A sender that was woken buffers its value.
LEMMA SenderBuffered ==
    ASSUME LinesInv, Homes, NEW s \in Sender, at[s] = "woken", NEW k \in Channel, NEW q,
           Buffer(k, Value(s), [at EXCEPT ![s] = "running"], q), UNCHANGED <<sent, taken, refused, dropped>>
    PROVE  Homes'
<1> DEFINE v == Value(s)
           g == <<"sender", s>>
           h == <<"buffer", k>>
<1>1. v \in Values /\ v = <<s, sent[s]>>
  BY HeldIsValue DEF Value
<1>2. /\ chan' = [chan EXCEPT ![k].buffer = Append(@, v), ![k].selects = <<>>]
      /\ at' = [at EXCEPT ![s] = "running"] /\ result' = result
  BY DEF Buffer
<1> HIDE DEF v
<1>3. at'[s] = "running" /\ \A d \in Sender : d # s => at'[d] = at[d]
  BY <1>2, ChannelTypesAre DEF LinesInv, Coroutine
<1>4. /\ chan'[k].buffer = Append(chan[k].buffer, v)
      /\ \A j \in Channel : j # k => chan'[j].buffer = chan[j].buffer
  <2>1. chan \in [Channel -> Conduit]
    BY ChannelTypesAre DEF LinesInv
  <2> QED  BY <1>2, <2>1 DEF Conduit
<1>5. g \in Home /\ h \in Home /\ g # h
  BY HomeKinds
<1>6. Held(g) = {v} /\ Held(g)' = {}
  BY <1>1, <1>3, HeldIs
<1>7. v \notin Range(chan[k].buffer)
  <2>1. v \notin Held(h)
    BY <1>5, <1>6, NotElsewhere
  <2> QED  BY <2>1, HeldIs
<1>8. /\ \A j \in Channel : IsInjective(chan'[j].buffer)
      /\ Range(chan'[k].buffer) = Range(chan[k].buffer) \cup {v}
  BY <1>1, <1>4, <1>7, BufferGrows
<1>9. Held(h)' = Held(h) \union {v}
  BY <1>8, HeldIs
<1>10. Alone({k}, {}, {s}, {})
  BY <1>2, <1>3, <1>4 DEF Alone
<1>11. ASSUME NEW x \in Home, x # g, x # h PROVE Held(x)' = Held(x)
  <2>1. (x[1] = "buffer" /\ x[2] # k) \/ x[1] = "frame" \/ (x[1] = "sender" /\ x[2] # s) \/ x[1] = "told"
    BY <1>11, HomeKinds
  <2> QED  BY <1>10, <2>1, AloneHolds
<1> HIDE DEF g, h
<1> QED  BY <1>5, <1>6, <1>8, <1>9, <1>11, OneMoves

\* The values of the senders keep their homes: an offer that is not parked.
LEMMA SendNowHomes ==
    ASSUME LinesInv, Homes, NEW s \in Sender, SendNow(s) \/ TrySendFails(s)
    PROVE  Homes'
<1> DEFINE v == <<s, sent[s] + 1>>
           k == Dest[s]
<1>1. k \in Channel /\ Offers(s)
  BY ChannelAssumption DEF SendNow, TrySendFails
<1>2. sent' = [sent EXCEPT ![s] = sent[s] + 1] /\ at[s] = "running" /\ sent \in [Sender -> Nat]
  BY <1>1, OfferIsValue, ChannelTypesAre DEF LinesInv
<1>3. CASE SendNow(s) /\ chan[k].closed
  <2>1. /\ refused' = refused \union {v}
        /\ UNCHANGED <<chan, at, result, taken, dropped>>
    BY <1>3 DEF SendNow, sys
  <2> HIDE DEF v
  <2>2. Alone({}, {}, {}, {"refused"})
    BY <1>2, <2>1 DEF Alone
  <2> QED  BY <1>1, <2>1, <2>2, OfferRefused DEF v
<1>4. CASE SendNow(s) /\ ~chan[k].closed
  <2>1. /\ Hand(k, v, at, readyQueue) \/ Buffer(k, v, at, readyQueue)
        /\ UNCHANGED <<taken, refused, dropped>>
    BY <1>4 DEF SendNow
  <2> QED  BY <1>1, <2>1, OfferHanded, OfferBuffered
<1>5. CASE TrySendFails(s)
  <2>1. /\ chan' = [chan EXCEPT ![k].selects = <<>>] /\ refused' = refused \union {v}
        /\ UNCHANGED <<at, result, taken, dropped>>
    BY <1>5 DEF TrySendFails
  <2> HIDE DEF v
  <2>2. \A j \in Channel : chan'[j].buffer = chan[j].buffer
    <3>1. chan \in [Channel -> Conduit]
      BY ChannelTypesAre DEF LinesInv
    <3> QED  BY <1>1, <2>1, <3>1 DEF Conduit
  <2>3. Alone({}, {}, {}, {"refused"})
    BY <1>2, <2>1, <2>2 DEF Alone
  <2> QED  BY <1>1, <2>1, <2>3, OfferRefused DEF v
<1> QED  BY <1>3, <1>4, <1>5

\* The offer is parked with its sender.
LEMMA SendParksHomes ==
    ASSUME LinesInv, Homes, NEW s \in Sender, NEW t \in BOOLEAN, SendParks(s, t)
    PROVE  Homes'
<1> DEFINE k == Dest[s]
           h == <<"sender", s>>
           w == IF t THEN chan[k].selects ELSE <<>>
<1>1. k \in Channel /\ Offers(s)
  BY ChannelAssumption DEF SendParks
<1>2. sent' = [sent EXCEPT ![s] = sent[s] + 1] /\ at[s] = "running" /\ sent \in [Sender -> Nat]
  BY <1>1, OfferIsValue, ChannelTypesAre DEF LinesInv
<1>3. /\ chan' = [chan EXCEPT ![k].senders = Append(@, s), ![k].selects = IF t THEN @ ELSE <<>>]
      /\ at' = [at EXCEPT ![s] = "parked"]
      /\ UNCHANGED <<result, taken, refused, dropped>>
  BY DEF SendParks, hist
<1>4. \A j \in Channel : chan'[j].buffer = chan[j].buffer
  <2>1. chan' = [chan EXCEPT ![k] = [chan[k] EXCEPT !.senders = Append(chan[k].senders, s), !.selects = w]]
    BY <1>1, <1>3
  <2>2. chan \in [Channel -> Conduit]
    BY ChannelTypesAre DEF LinesInv
  <2> HIDE DEF w
  <2> QED  BY <1>1, <2>1, <2>2 DEF Conduit
<1>5. at'[s] = "parked" /\ \A d \in Sender : d # s => at'[d] = at[d]
  BY <1>3, ChannelTypesAre DEF LinesInv, Coroutine
<1> HIDE DEF k, w
<1>6. Alone({}, {}, {s}, {})
  BY <1>2, <1>3, <1>4, <1>5 DEF Alone
<1>7. h \in Home /\ Held(h) = {} /\ Held(h)' = {<<s, sent[s] + 1>>}
  <2>1. sent'[s] = sent[s] + 1
    BY <1>2
  <2> QED  BY <1>2, <1>5, <2>1, HomeKinds, HeldIs
<1>8. ASSUME NEW x \in Home, x # h PROVE Held(x)' = Held(x)
  <2>1. x[1] = "buffer" \/ x[1] = "frame" \/ (x[1] = "sender" /\ x[2] # s) \/ x[1] = "told"
    BY <1>8, HomeKinds
  <2> QED  BY <1>6, <2>1, AloneHolds
<1>9. \A j \in Channel : IsInjective(chan'[j].buffer)
  BY <1>4, BuffersStay
<1> HIDE DEF h
<1>10. Held(h)' = Held(h) \cup {<<s, sent[s] + 1>>}
  BY <1>7
<1> QED  BY <1>1, <1>7, <1>8, <1>9, <1>10, OneComes

\* A sender that was scheduled is resumed, and one that waits times out.
LEMMA ResumedSenderHomes ==
    ASSUME LinesInv, Homes, NEW s \in Sender, SenderResumes(s) \/ SendTimer(s) \/ FiredResumes(s)
    PROVE  Homes'
<1> DEFINE k == Dest[s]
           a == [at EXCEPT ![s] = "running"]
<1>1. k \in Channel /\ (at[s] # "running" => on[s] = k)
  BY ChannelAssumption DEF LinesInv, Posted
<1>2. at \in [Coroutine -> States] /\ s \in Coroutine /\ Sender \subseteq Coroutine
  BY ChannelTypesAre DEF LinesInv, Coroutine
<1>3. a[s] = "running" /\ \A d \in Sender : d # s => a[d] = at[d]
  BY <1>2
<1>4. CASE SenderResumes(s)
  <2>1. at[s] = "woken" /\ UNCHANGED <<sent, taken, dropped>>
    BY <1>4 DEF SenderResumes
  <2>2. CASE chan[k].closed \/ ~chan[k].alive
    <3>1. refused' = refused \union {Value(s)} /\ at' = a /\ UNCHANGED <<chan, result>>
      BY <1>1, <1>4, <2>1, <2>2 DEF SenderResumes
    <3> HIDE DEF a
    <3>2. Alone({}, {}, {s}, {"refused"})
      BY <1>3, <2>1, <3>1 DEF Alone
    <3> QED  BY <1>3, <2>1, <3>1, <3>2, RefusedKeeps
  <2>3. CASE ~(chan[k].closed \/ ~chan[k].alive)
    <3>1. /\ Hand(k, Value(s), a, Tail(readyQueue)) \/ Buffer(k, Value(s), a, Tail(readyQueue))
          /\ UNCHANGED refused
      BY <1>1, <1>4, <2>1, <2>3 DEF SenderResumes
    <3> QED  BY <1>1, <2>1, <3>1, SenderHanded, SenderBuffered
  <2> QED  BY <2>2, <2>3
<1>5. CASE SendTimer(s)
  <2>1. /\ at[s] = "parked" /\ at' = [at EXCEPT ![s] = "fired"]
        /\ chan' = [chan EXCEPT ![on[s]].senders = GoStale(@, {s})]
        /\ UNCHANGED <<result, sent, taken, refused, dropped>>
    BY <1>5 DEF SendTimer, hist
  <2>2. \A j \in Channel : chan'[j].buffer = chan[j].buffer
    <3>1. chan \in [Channel -> Conduit]
      BY ChannelTypesAre DEF LinesInv
    <3> QED  BY <1>1, <2>1, <3>1 DEF Conduit
  <2>3. \A d \in Sender : at'[d] = "running" <=> at[d] = "running"
    BY <1>2, <2>1
  <2>4. Alone({}, {}, {}, {})
    BY <2>1, <2>2, <2>3 DEF Alone
  <2> QED  BY <2>1, <2>4, AloneKeeps
<1>6. CASE FiredResumes(s)
  <2>1. /\ at[s] = "fired" /\ at' = a /\ refused' = refused \union {Value(s)}
        /\ UNCHANGED <<chan, result, sent, taken, dropped>>
    BY <1>6 DEF FiredResumes
  <2> HIDE DEF a
  <2>2. Alone({}, {}, {s}, {"refused"})
    BY <1>3, <2>1 DEF Alone
  <2> QED  BY <1>3, <2>1, <2>2, RefusedKeeps
<1> QED  BY <1>4, <1>5, <1>6

\* The front of a buffer is received.
LEMMA BufferTaken ==
    ASSUME LinesInv, Homes, NEW k \in Channel, chan[k].buffer # <<>>, sent' = sent,
           chan'[k].buffer = Tail(chan[k].buffer), taken' = taken \union {Head(chan[k].buffer)},
           Alone({k}, {}, {}, {"taken"})
    PROVE  Homes'
<1> DEFINE v == Head(chan[k].buffer)
           g == <<"buffer", k>>
           h == <<"told", "taken">>
<1>1. chan[k].buffer \in Seq(Values) /\ IsInjective(chan[k].buffer)
  BY ChannelTypesAre DEF LinesInv, Homes
<1>2. /\ v \in Range(chan[k].buffer) /\ IsInjective(chan'[k].buffer)
      /\ Range(chan'[k].buffer) = Range(chan[k].buffer) \ {v}
  BY <1>1, HeadAndTail
<1> HIDE DEF v
<1>3. g \in Home /\ h \in Home /\ g # h
  BY HomeKinds
<1>4. v \in Held(g) /\ Held(g)' = Held(g) \ {v} /\ Held(h)' = Held(h) \union {v}
  BY <1>2, HeldIs DEF v
<1>5. ASSUME NEW x \in Home, x # g, x # h PROVE Held(x)' = Held(x)
  <2>1. \/ x[1] = "buffer" /\ x[2] # k
        \/ x[1] = "frame" \/ x[1] = "sender"
        \/ x[1] = "told" /\ x[2] # "taken"
    BY <1>5, HomeKinds
  <2> QED  BY <2>1, AloneHolds
<1>6. \A j \in Channel : IsInjective(chan'[j].buffer)
  BY <1>2 DEF Homes, Alone
<1> HIDE DEF g, h
<1> QED  BY <1>3, <1>4, <1>5, <1>6, OneMoves

\* Waking senders leaves their values with them.
LEMMA WakingHoldsValues ==
    ASSUME LinesInv, NEW r \in Receiver, NEW S, NEW cs, \A c \in Range(cs) : at[c] = "parked",
           at' = Wake(at, cs) \/ at' = Wake([at EXCEPT ![r] = S], cs), S \in States
    PROVE  \A s \in Sender : at'[s] = "running" <=> at[s] = "running"
<1>1. Sender \subseteq Coroutine /\ r \notin Sender /\ at \in [Coroutine -> States] /\ r \in Coroutine
  BY ChannelAssumption, ChannelTypesAre DEF LinesInv, Coroutine
<1> DEFINE a == [at EXCEPT ![r] = S]
<1>2. a \in [Coroutine -> States] /\ \A s \in Sender : a[s] = at[s]
  BY <1>1
<1> HIDE DEF a
<1>3. \A s \in Sender : at'[s] = IF s \in Range(cs) THEN "woken" ELSE at[s]
  <2>1. CASE at' = Wake(at, cs)
    BY <1>1, <2>1, WakeIs
  <2>2. CASE at' = Wake(a, cs)
    BY <1>1, <1>2, <2>2, WakeIs
  <2> QED  BY <2>1, <2>2 DEF a
<1> QED  BY <1>3

\* The values keep their homes when a receiver finds one in a buffer.
LEMMA RecvNowHomes ==
    ASSUME LinesInv, Homes, NEW r \in Receiver, NEW k \in Channel, RecvNow(r, k)
    PROVE  Homes'
<1> DEFINE cs == NextSender(chan[k].senders)
<1>1. /\ at' = Wake(at, cs) /\ taken' = taken \union {Head(chan[k].buffer)}
      /\ chan[k].buffer # <<>>
      /\ chan' = [chan EXCEPT ![k].buffer = Tail(@), ![k].senders = AfterLive(@)]
      /\ UNCHANGED <<result, sent, refused, dropped>>
  BY DEF RecvNow, Pop
<1>2. \A c \in Range(cs) : at[c] = "parked"
  BY WokenSenders
<1>3. chan'[k].buffer = Tail(chan[k].buffer) /\ \A j \in Channel : j # k => chan'[j].buffer = chan[j].buffer
  <2>1. chan \in [Channel -> Conduit]
    BY ChannelTypesAre DEF LinesInv
  <2> QED  BY <1>1, <2>1 DEF Conduit
<1> HIDE DEF cs
<1>4. \A s \in Sender : at'[s] = "running" <=> at[s] = "running"
  <2>1. "parked" \in States
    BY DEF States
  <2> QED  BY <1>1, <1>2, <2>1, WakingHoldsValues
<1>5. Alone({k}, {}, {}, {"taken"})
  BY <1>1, <1>3, <1>4 DEF Alone
<1> QED  BY <1>1, <1>3, <1>5, BufferTaken

\* When it parks.
LEMMA ParksHomes ==
    ASSUME LinesInv, Homes, NEW r \in Receiver,
           (\E k \in Channel : RecvParks(r, k) \/ RecvForParks(r, k)) \/ SelectParks(r)
    PROVE  Homes'
<1>1. ASSUME NEW j, NEW t, NEW cs, \A c \in Range(cs) : at[c] = "parked", Parks(r, j, t, at, cs),
             \A k \in Channel : chan'[k].buffer = chan[k].buffer
      PROVE  Homes'
  <2>1. at' = Wake([at EXCEPT ![r] = "parked"], cs) /\ UNCHANGED <<result, sent, taken, refused, dropped>>
    BY <1>1 DEF Parks, hist
  <2>2. \A s \in Sender : at'[s] = "running" <=> at[s] = "running"
    <3>1. "parked" \in States
      BY DEF States
    <3> QED  BY <1>1, <2>1, <3>1, WakingHoldsValues
  <2>3. Alone({}, {}, {}, {})
    BY <1>1, <2>1, <2>2 DEF Alone
  <2> QED  BY <2>1, <2>3, AloneKeeps
<1>2. chan \in [Channel -> Conduit]
  BY ChannelTypesAre DEF LinesInv
<1>3. ASSUME NEW k \in Channel, RecvParks(r, k) \/ RecvForParks(r, k) PROVE Homes'
  <2> DEFINE cs == NextSender(chan[k].senders)
  <2>1. \A c \in Range(cs) : at[c] = "parked"
    BY WokenSenders
  <2>2. \E t \in BOOLEAN : Parks(r, k, t, at, cs)
    BY <1>3 DEF RecvParks, RecvForParks
  <2>3. \A j \in Channel : chan'[j].buffer = chan[j].buffer
    <3>1. CASE RecvParks(r, k)
      BY <1>2, <3>1 DEF RecvParks, Conduit
    <3>2. CASE RecvForParks(r, k)
      BY <1>2, <3>2 DEF RecvForParks, Conduit
    <3> QED  BY <1>3, <3>1, <3>2
  <2> HIDE DEF cs
  <2> QED  BY <1>1, <2>1, <2>2, <2>3
<1>4. CASE SelectParks(r)
  <2>1. PICK cs \in SetToSeqs(FirstOfEach) : Parks(r, All, FALSE, at, cs)
    BY <1>4 DEF SelectParks, FirstOfEach
  <2>2. \A c \in Range(cs) : at[c] = "parked"
    BY <2>1, FirstOfEachIs
  <2>3. \A j \in Channel : chan'[j].buffer = chan[j].buffer
    BY <1>2, <1>4 DEF SelectParks, Conduit
  <2> QED  BY <1>1, <2>1, <2>2, <2>3
<1> QED  BY <1>3, <1>4

\* The value in a receiver's frame is received, or dropped with the frame.
LEMMA FrameTold ==
    ASSUME LinesInv, Homes, NEW r \in Receiver, result[r] \in Values, sent' = sent, result'[r] = NoValue,
           NEW t \in {"taken", "dropped"}, Alone({}, {r}, {}, {t}),
           Held(<<"told", t>>)' = Held(<<"told", t>>) \union {result[r]}
    PROVE  Homes'
<1> DEFINE g == <<"frame", r>>
           h == <<"told", t>>
<1>1. g \in Home /\ h \in Home /\ g # h
  BY HomeKinds
<1>2. Held(g) = {result[r]} /\ Held(g)' = {}
  BY HeldIs, ValuesArePairs
<1>3. ASSUME NEW x \in Home, x # g, x # h PROVE Held(x)' = Held(x)
  <2>1. x[1] = "buffer" \/ (x[1] = "frame" /\ x[2] # r) \/ x[1] = "sender" \/ (x[1] = "told" /\ x[2] # t)
    BY <1>3, HomeKinds
  <2> QED  BY <2>1, AloneHolds
<1>4. \A k \in Channel : IsInjective(chan'[k].buffer)
  BY BuffersStay DEF Alone
<1> HIDE DEF g
<1>5. Held(h)' = Held(h) \union {result[r]}
  OBVIOUS
<1> HIDE DEF h
<1> QED  BY <1>1, <1>2, <1>3, <1>4, <1>5, OneMoves

\* It is put back into the buffer.
LEMMA FrameBuffered ==
    ASSUME LinesInv, Homes, NEW r \in Receiver, result[r] \in Values, sent' = sent, result'[r] = NoValue,
           NEW k \in Channel, chan'[k].buffer = Append(chan[k].buffer, result[r]), Alone({k}, {r}, {}, {})
    PROVE  Homes'
<1> DEFINE g == <<"frame", r>>
           h == <<"buffer", k>>
           v == result[r]
<1>1. g \in Home /\ h \in Home /\ g # h
  BY HomeKinds
<1>2. Held(g) = {v} /\ Held(g)' = {}
  BY HeldIs, ValuesArePairs
<1>3. v \notin Range(chan[k].buffer)
  <2>1. v \notin Held(h)
    BY <1>1, <1>2, NotElsewhere
  <2> QED  BY <2>1, HeldIs
<1>4. /\ \A j \in Channel : IsInjective(chan'[j].buffer)
      /\ Range(chan'[k].buffer) = Range(chan[k].buffer) \cup {v}
  BY ZenonT(60), <1>3, BufferGrows DEF Alone
<1>5. Held(h)' = Held(h) \union {v}
  BY <1>4, HeldIs
<1>6. ASSUME NEW x \in Home, x # g, x # h PROVE Held(x)' = Held(x)
  <2>1. (x[1] = "buffer" /\ x[2] # k) \/ (x[1] = "frame" /\ x[2] # r) \/ x[1] = "sender" \/ x[1] = "told"
    BY <1>6, HomeKinds
  <2> QED  BY <2>1, AloneHolds
<1> HIDE DEF g, h, v
<1> QED  BY SMTT(40), <1>1, <1>2, <1>4, <1>5, <1>6, OneMoves

\* A receiver's timer.
LEMMA RecvTimerHomes ==
    ASSUME LinesInv, Homes, NEW r \in Receiver, RecvTimer(r)
    PROVE  Homes'
<1>1. /\ at[r] = "parked" /\ result' = [result EXCEPT ![r] = Timeout]
      /\ chan' = Retire(chan, r) /\ at' = [at EXCEPT ![r] = "woken"]
      /\ UNCHANGED <<sent, taken, refused, dropped>>
  BY DEF RecvTimer, hist
<1>2. \A k \in Channel : chan'[k].buffer = chan[k].buffer
  <2>1. chan \in [Channel -> Conduit]
    BY ChannelTypesAre DEF LinesInv
  <2> QED  BY <1>1, <2>1 DEF Retire, Conduit
<1>3. \A s \in Sender : at'[s] = at[s]
  BY <1>1, ChannelAssumption, ChannelTypesAre DEF LinesInv, Coroutine
<1>4. \A c \in Receiver : {result'[c]} \cap Values = {result[c]} \cap Values
  <2>1. result[r] = NoValue /\ result \in [Receiver -> Values \union {NoValue, Closed, Timeout}]
    BY <1>1, ChannelTypesAre DEF LinesInv, Filled
  <2> QED  BY <1>1, <2>1, ValuesArePairs
<1>5. Alone({}, {}, {}, {})
  BY <1>1, <1>2, <1>3, <1>4 DEF Alone
<1> QED  BY <1>1, <1>5, AloneKeeps

\* A receiver that was scheduled is resumed.
LEMMA ReceiverResumesHomes ==
    ASSUME LinesInv, Homes, NEW r \in Receiver, ReceiverResumes(r)
    PROVE  Homes'
<1> DEFINE k == on[r]
           again == result[r] = Closed /\ k # All /\ ~timed[r] /\ chan[k].alive /\ chan[k].buffer # <<>>
           cs == IF again THEN NextSender(chan[k].senders) ELSE <<>>
           got == IF again THEN Head(chan[k].buffer) ELSE result[r]
<1>1. /\ readyQueue # <<>> /\ r = Head(readyQueue)
      /\ at' = Wake([at EXCEPT ![r] = "running"], cs)
      /\ taken' = (IF got \in {Closed, Timeout} THEN taken ELSE taken \union {got})
      /\ result' = [result EXCEPT ![r] = NoValue]
      /\ UNCHANGED <<sent, refused, dropped>>
  BY ZenonT(60) DEF ReceiverResumes
<1>2. IF again THEN Pop(k) ELSE UNCHANGED chan
  BY ZenonT(60) DEF ReceiverResumes
<1>3. at[r] = "woken"
  BY <1>1, HeadIsReady DEF LinesInv, Posted
<1>4. k \in Channel \union {All} /\ result[r] # NoValue
  BY SMTT(40), <1>3 DEF LinesInv, Posted, Filled
<1>5. /\ result \in [Receiver -> Values \union {NoValue, Closed, Timeout}]
      /\ result'[r] = NoValue /\ \A c \in Receiver : c # r => result'[c] = result[c]
  BY <1>1, ChannelTypesAre DEF LinesInv
<1>6. \A s \in Sender : at'[s] = "running" <=> at[s] = "running"
  <2>1. \A c \in Range(cs) : at[c] = "parked"
    <3>1. Range(<<>>) = {}
      BY EmptyQueue
    <3>2. CASE again
      <4>1. k \in Channel /\ cs = NextSender(chan[k].senders)
        BY <1>4, <3>2
      <4> HIDE DEF k, again, cs
      <4> QED  BY <4>1, WokenSenders
    <3>3. CASE ~again
      BY <3>1, <3>3
    <3> QED  BY <3>2, <3>3
  <2>2. "running" \in States
    BY DEF States
  <2> HIDE DEF cs
  <2> QED  BY <1>1, <2>1, <2>2, WakingHoldsValues
<1>7. CASE again
  <2>1. k \in Channel /\ result[r] = Closed /\ chan[k].buffer # <<>>
    BY <1>4, <1>7
  <2>2. chan' = [chan EXCEPT ![k].buffer = Tail(@), ![k].senders = AfterLive(@)]
    BY <1>2, <1>7 DEF Pop
  <2>3. chan'[k].buffer = Tail(chan[k].buffer) /\ \A j \in Channel : j # k => chan'[j].buffer = chan[j].buffer
    <3>1. chan \in [Channel -> Conduit]
      BY ChannelTypesAre DEF LinesInv
    <3> HIDE DEF k
    <3> QED  BY <2>1, <2>2, <3>1 DEF Conduit
  <2>4. taken' = taken \union {Head(chan[k].buffer)}
    <3>1. Head(chan[k].buffer) \in Values
      BY <2>1, ChannelTypesAre DEF LinesInv
    <3> QED  BY <1>1, <1>7, <3>1, ValuesArePairs
  <2>5. \A c \in Receiver : {result'[c]} \cap Values = {result[c]} \cap Values
    BY <1>5, <2>1, ValuesArePairs
  <2> HIDE DEF k, again, cs, got
  <2>6. Alone({k}, {}, {}, {"taken"})
    BY <1>1, <1>6, <2>3, <2>5 DEF Alone
  <2> QED  BY <1>1, <2>1, <2>3, <2>4, <2>6, BufferTaken
<1>8. CASE ~again /\ result[r] \in Values
  <2>1. taken' = taken \union {result[r]} /\ chan' = chan
    BY <1>1, <1>2, <1>8, ValuesArePairs
  <2> HIDE DEF k, again, cs, got
  <2>2. Alone({}, {r}, {}, {"taken"})
    BY <1>1, <1>5, <1>6, <2>1 DEF Alone
  <2>3. Held(<<"told", "taken">>)' = Held(<<"told", "taken">>) \union {result[r]}
    BY <2>1, HeldIs
  <2> QED  BY <1>1, <1>5, <1>8, <2>2, <2>3, FrameTold
<1>9. CASE ~again /\ result[r] \notin Values
  <2>1. taken' = taken /\ chan' = chan
    BY <1>1, <1>2, <1>4, <1>5, <1>9
  <2>2. \A c \in Receiver : {result'[c]} \cap Values = {result[c]} \cap Values
    BY <1>5, <1>9, ValuesArePairs
  <2> HIDE DEF k, again, cs, got
  <2>3. Alone({}, {}, {}, {})
    BY <1>1, <1>6, <2>1, <2>2 DEF Alone
  <2> QED  BY <1>1, <2>3, AloneKeeps
<1> QED  BY SMTT(40), <1>7, <1>8, <1>9

\* The values keep their homes when a channel is closed or goes.
LEMMA CloseHomes ==
    ASSUME LinesInv, Homes, NEW k \in Channel, Close(k) \/ DropChannel(k)
    PROVE  Homes'
<1>1. chan \in [Channel -> Conduit]
  BY ChannelTypesAre DEF LinesInv
<1>2. ASSUME NEW up \in BOOLEAN, CloseChannel(k, up) PROVE Homes'
  <2> DEFINE rs == chan[k].receivers
             ss == Without(chan[k].senders, {Stale})
             ws == Without(chan[k].selects, {Stale})
             cs == rs \o ss \o ws
             shut == [chan EXCEPT ![k].receivers = <<>>, ![k].senders = <<>>, ![k].selects = <<>>,
                                  ![k].closed = TRUE, ![k].alive = up]
  <2>1. /\ result' = [r \in Receiver |-> IF r \in Range(rs) \union Range(ws) THEN Closed ELSE result[r]]
        /\ at' = Wake(at, cs)
        /\ chan' = [j \in Channel |-> [shut[j] EXCEPT !.selects = GoStale(@, Range(ws))]]
        /\ UNCHANGED <<sent, taken, refused, dropped>>
    BY <1>2 DEF CloseChannel, hist
  <2>2. /\ Range(cs) = Range(rs) \cup Waiting(chan[k].senders) \cup Waiting(chan[k].selects)
        /\ Range(ws) = Waiting(chan[k].selects)
        /\ \A c \in Range(cs) : c \in Coroutine /\ at[c] = "parked"
    BY ClosedLine
  <2>3. \A j \in Channel : chan'[j].buffer = chan[j].buffer
    <3>1. shut \in [Channel -> Conduit] /\ \A j \in Channel : shut[j].buffer = chan[j].buffer
      <4> DEFINE c == [chan[k] EXCEPT !.receivers = <<>>, !.senders = <<>>, !.selects = <<>>,
                                      !.closed = TRUE, !.alive = up]
      <4>1. shut = [chan EXCEPT ![k] = c]
        BY <1>1
      <4>2. c \in Conduit /\ c.buffer = chan[k].buffer
        <5>1. chan[k] \in Conduit /\ \A S : <<>> \in Seq(S)
          BY <1>1
        <5> QED  BY <1>2, <5>1 DEF Conduit
      <4> HIDE DEF c, shut
      <4> QED  BY <1>1, <4>1, <4>2
    <3>2. \A j \in Channel : shut[j] \in Conduit
      BY <3>1
    <3> HIDE DEF shut, ws
    <3> QED  BY <2>1, <3>1, <3>2 DEF Conduit
  <2> HIDE DEF rs, ss, ws, cs, shut
  <2>4. \A s \in Sender : at'[s] = "running" <=> at[s] = "running"
    <3>1. Sender \subseteq Coroutine /\ at \in [Coroutine -> States]
      BY ChannelTypesAre DEF LinesInv, Coroutine
    <3>2. \A s \in Sender : at'[s] = IF s \in Range(cs) THEN "woken" ELSE at[s]
      BY <2>1, <3>1, WakeIs
    <3> QED  BY <2>2, <3>2
  <2>5. ASSUME NEW r \in Receiver PROVE {result'[r]} \cap Values = {result[r]} \cap Values
    <3>1. CASE r \in Range(rs) \union Range(ws)
      <4>1. at[r] = "parked"
        BY <2>2, <3>1
      <4>2. result[r] = NoValue /\ result'[r] = Closed
        BY <2>1, <3>1, <4>1 DEF LinesInv, Filled
      <4> QED  BY <4>2, ValuesArePairs
    <3>2. CASE r \notin Range(rs) \union Range(ws)
      BY <2>1, <3>2
    <3> QED  BY <3>1, <3>2
  <2>6. Alone({}, {}, {}, {})
    BY <2>1, <2>3, <2>4, <2>5 DEF Alone
  <2> QED  BY <2>1, <2>6, AloneKeeps
<1>3. CASE /\ chan' = [chan EXCEPT ![k].alive = FALSE]
           /\ UNCHANGED <<at, on, timed, result, readyQueue, sent, hist>>
  <2>1. UNCHANGED <<at, result, sent, taken, refused, dropped>>
    BY <1>3 DEF hist
  <2>2. \A j \in Channel : chan'[j].buffer = chan[j].buffer
    BY <1>1, <1>3 DEF Conduit
  <2>3. Alone({}, {}, {}, {})
    BY <2>1, <2>2 DEF Alone
  <2> QED  BY <2>1, <2>3, AloneKeeps
<1> QED  BY <1>2, <1>3 DEF Close, DropChannel

\* When a frame is destroyed.
LEMMA DestroyHomes ==
    ASSUME LinesInv, Homes, NEW c \in Coroutine, Destroy(c)
    PROVE  Homes'
<1>1. /\ at'[c] = "running" /\ sent' = sent
      /\ \A d \in Sender : d # c => at'[d] = at[d]
  BY DestroyIs DEF Coroutine
<1>2. chan \in [Channel -> Conduit] /\ result \in [Receiver -> Values \union {NoValue, Closed, Timeout}]
  BY ChannelTypesAre DEF LinesInv
<1>3. Sender \cap Receiver = {} /\ (c \in Sender \/ c \in Receiver)
  BY ChannelAssumption DEF Coroutine
<1>4. CASE DestroyParked(c)
  <2>1. /\ at[c] = "parked" /\ UNCHANGED <<result, taken, dropped>>
        /\ refused' = IF c \in Sender THEN refused \union {Value(c)} ELSE refused
    BY <1>4 DEF DestroyParked
  <2>2. \A j \in Channel : chan'[j].buffer = chan[j].buffer
    BY <1>2, <1>4 DEF DestroyParked, Conduit
  <2>3. CASE c \in Sender
    <3>1. Alone({}, {}, {c}, {"refused"})
      BY <1>1, <2>1, <2>2 DEF Alone
    <3>2. at[c] # "running" /\ refused' = refused \union {Value(c)}
      BY <2>1, <2>3
    <3> QED  BY <1>1, <2>3, <3>1, <3>2, RefusedKeeps
  <2>4. CASE c \in Receiver
    <3>1. Alone({}, {}, {}, {})
      BY <1>1, <1>3, <2>1, <2>2, <2>4 DEF Alone
    <3> QED  BY <1>1, <3>1, AloneKeeps
  <2> QED  BY <1>3, <2>3, <2>4
<1>5. CASE c \in Sender /\ DestroyScheduledSender(c)
  <2>1. /\ at[c] # "running" /\ refused' = refused \union {Value(c)}
        /\ UNCHANGED <<chan, result, taken, dropped>>
    BY <1>5 DEF DestroyScheduledSender
  <2>2. Alone({}, {}, {c}, {"refused"})
    BY <1>1, <2>1 DEF Alone
  <2> QED  BY <1>1, <1>5, <2>1, <2>2, RefusedKeeps
<1>6. CASE c \in Receiver /\ DestroyWokenReceiver(c)
  <2> DEFINE v == result[c]
             k == on[c]
  <2>1. /\ at[c] = "woken" /\ UNCHANGED <<taken, refused>>
        /\ result' = [result EXCEPT ![c] = NoValue]
    BY <1>6 DEF DestroyWokenReceiver
  <2>2. \/ v \in {Closed, Timeout} /\ UNCHANGED <<chan, dropped>>
        \/ v \in Values /\ dropped' = dropped \union {v} /\ UNCHANGED chan
        \/ v \in Values /\ k # All /\ chan' = [chan EXCEPT ![k].buffer = Append(@, v)] /\ UNCHANGED dropped
    BY <1>6 DEF DestroyWokenReceiver
  <2>3. k \in Channel \union {All}
    BY <1>6, <2>1 DEF LinesInv, Posted
  <2>4. result'[c] = NoValue /\ \A r \in Receiver : r # c => result'[r] = result[r]
    BY <1>2, <1>6, <2>1
  <2>5. \A s \in Sender : at'[s] = at[s]
    BY <1>1, <1>3, <1>6
  <2>6. CASE v \in {Closed, Timeout} /\ UNCHANGED <<chan, dropped>>
    <3>1. \A r \in Receiver : {result'[r]} \cap Values = {result[r]} \cap Values
      BY <2>4, <2>6, ValuesArePairs
    <3>2. Alone({}, {}, {}, {})
      BY <1>1, <2>1, <2>5, <2>6, <3>1 DEF Alone
    <3> QED  BY <1>1, <3>2, AloneKeeps
  <2>7. CASE v \in Values /\ dropped' = dropped \union {v} /\ UNCHANGED chan
    <3>1. Alone({}, {c}, {}, {"dropped"})
      BY <1>1, <2>1, <2>4, <2>5, <2>7 DEF Alone
    <3>2. Held(<<"told", "dropped">>)' = Held(<<"told", "dropped">>) \union {result[c]}
      BY <2>7, HeldIs
    <3> QED  BY <1>1, <1>6, <2>4, <2>7, <3>1, <3>2, FrameTold
  <2>8. CASE v \in Values /\ k # All /\ chan' = [chan EXCEPT ![k].buffer = Append(@, v)] /\ UNCHANGED dropped
    <3>1. k \in Channel
      BY <2>3, <2>8
    <3> HIDE DEF v, k
    <3>2. chan'[k].buffer = Append(chan[k].buffer, v) /\ \A j \in Channel : j # k => chan'[j].buffer = chan[j].buffer
      BY <1>2, <2>8, <3>1 DEF Conduit
    <3>3. Alone({k}, {c}, {}, {})
      BY <1>1, <2>1, <2>4, <2>5, <2>8, <3>2 DEF Alone
    <3> QED  BY <1>1, <1>6, <2>4, <2>8, <3>1, <3>2, <3>3, FrameBuffered DEF v
  <2> QED  BY <2>2, <2>6, <2>7, <2>8
<1> QED  BY <1>4, <1>5, <1>6 DEF Destroy

\* Nothing is offered at first, and every step keeps the homes.
LEMMA HomesStart ==
    ASSUME ChannelInit
    PROVE  Homes
<1>1. /\ \A k \in Channel : chan[k].buffer = <<>>
      /\ \A s \in Sender : at[s] = "running" /\ sent[s] = 0
      /\ \A r \in Receiver : result[r] = NoValue
      /\ taken = {} /\ refused = {} /\ dropped = {}
  BY DEF ChannelInit, Coroutine
<1>2. Range(<<>>) = {} /\ IsInjective(<<>>)
  BY EmptyQueue
<1>3. \A h \in Home : Held(h) = {}
  <2> TAKE h \in Home
  <2>1. CASE \E k \in Channel : h = <<"buffer", k>>
    BY <1>1, <1>2, <2>1, HeldIs
  <2>2. CASE \E r \in Receiver : h = <<"frame", r>>
    BY <1>1, <2>2, HeldIs, ValuesArePairs
  <2>3. CASE \E s \in Sender : h = <<"sender", s>>
    BY <1>1, <2>3, HeldIs
  <2>4. CASE h = <<"told", "taken">> \/ h = <<"told", "refused">> \/ h = <<"told", "dropped">>
    BY <1>1, <2>4, HeldIs
  <2> QED  BY <2>1, <2>2, <2>3, <2>4, HomeKinds
<1>4. Offered = {}
  <2>1. ASSUME NEW v \in Values PROVE ~(v[2] <= sent[v[1]])
    <3>1. PICK s \in Sender : \E n \in 1..MaxSends[s] : v = <<s, n>>
      BY ValuesArePairs
    <3>2. PICK n \in 1..MaxSends[s] : v = <<s, n>>
      BY <3>1
    <3>3. MaxSends[s] \in Nat
      BY ChannelAssumption
    <3> QED  BY <1>1, <3>2, <3>3
  <2> QED  BY <2>1 DEF Offered
<1> QED  BY <1>1, <1>2, <1>3, <1>4 DEF Homes

\* Every step keeps them.
LEMMA HomesStep ==
    ASSUME LinesInv, Homes, [ChannelNext]_channelVars
    PROVE  Homes'
<1>1. CASE UNCHANGED channelVars
  <2>1. UNCHANGED <<chan, at, result, sent, taken, refused, dropped>>
    BY <1>1 DEF channelVars, sys, hist
  <2>2. Alone({}, {}, {}, {})
    BY <2>1 DEF Alone
  <2> QED  BY <2>1, <2>2, AloneKeeps
<1>2. ASSUME NEW s \in Sender,
             \/ SendNow(s) \/ TrySendFails(s) \/ \E t \in BOOLEAN : SendParks(s, t)
             \/ SenderResumes(s) \/ SendTimer(s) \/ FiredResumes(s)
      PROVE  Homes'
  BY <1>2, SendNowHomes, SendParksHomes, ResumedSenderHomes
<1>3. ASSUME NEW r \in Receiver,
             \/ \E k \in Channel : RecvNow(r, k) \/ RecvParks(r, k) \/ RecvForParks(r, k)
             \/ SelectParks(r) \/ RecvTimer(r) \/ ReceiverResumes(r)
      PROVE  Homes'
  BY <1>3, RecvNowHomes, ParksHomes, RecvTimerHomes, ReceiverResumesHomes
<1>4. ASSUME NEW k \in Channel, Close(k) \/ DropChannel(k) PROVE Homes'
  BY <1>4, CloseHomes
<1>5. ASSUME NEW c \in Coroutine, Destroy(c) PROVE Homes'
  BY <1>5, DestroyHomes
<1> QED
  BY <1>1, <1>2, <1>3, <1>4, <1>5 DEF ChannelNext

-----------------------------------------------------------------------------
(* Nothing is lost *)

\* The four sums of Places, as sets.
InBuffers(v) ==
    LET buffered(k) == {i \in DOMAIN chan[k].buffer : chan[k].buffer[i] = v}
    IN  UNION {{k} \X buffered(k) : k \in Channel}
InFrames(v) == {r \in Receiver : result[r] = v}
WithSenders(v) == {s \in Sender : at[s] # "running" /\ Value(s) = v}
Told(v) == {h \in 1..3 : v \in <<taken, refused, dropped>>[h]}

\* What they hold, by the homes.
LEMMA PlacesAre ==
    ASSUME NEW v \in Values
    PROVE  /\ (\A k \in Channel : v \notin Held(<<"buffer", k>>)) => InBuffers(v) = {}
           /\ (\A r \in Receiver : v \notin Held(<<"frame", r>>)) => InFrames(v) = {}
           /\ (\A s \in Sender : v \notin Held(<<"sender", s>>)) => WithSenders(v) = {}
           /\ Told(v) = (IF v \in Held(<<"told", "taken">>) THEN {1} ELSE {})
                        \cup (IF v \in Held(<<"told", "refused">>) THEN {2} ELSE {})
                        \cup (IF v \in Held(<<"told", "dropped">>) THEN {3} ELSE {})
<1>1. (\A k \in Channel : v \notin Held(<<"buffer", k>>)) => InBuffers(v) = {}
  <2>1. \A k \in Channel : v \notin Held(<<"buffer", k>>)
                              => {i \in DOMAIN chan[k].buffer : chan[k].buffer[i] = v} = {}
    BY HeldIs DEF Range
  <2> QED  BY <2>1 DEF InBuffers
<1>2. (\A r \in Receiver : v \notin Held(<<"frame", r>>)) => InFrames(v) = {}
  BY HeldIs DEF InFrames
<1>3. (\A s \in Sender : v \notin Held(<<"sender", s>>)) => WithSenders(v) = {}
  BY HeldIs DEF WithSenders, Value
<1>4. \A i \in 1..3 : i = 1 \/ i = 2 \/ i = 3
  OBVIOUS
<1>5. \A i : i \in Told(v) <=> \/ i = 1 /\ v \in taken
                               \/ i = 2 /\ v \in refused
                               \/ i = 3 /\ v \in dropped
  BY <1>4 DEF Told
<1> QED  BY <1>1, <1>2, <1>3, <1>5, HeldIs

\* A value that is in one home is in one place.
LEMMA OnePlace ==
    ASSUME LinesInv, Homes, NEW v \in Values, NEW h \in Home, v \in Held(h)
    PROVE  Places(v) = 1
<1> DEFINE A == InBuffers(v)
           B == InFrames(v)
           C == WithSenders(v)
           D == Told(v)
<1>1. Places(v) = Cardinality(A) + Cardinality(B) + Cardinality(C) + Cardinality(D)
  BY DEF Places, InBuffers, InFrames, WithSenders, Told
<1>2. \A g \in Home : g # h => v \notin Held(g)
  BY NotElsewhere
<1>3. /\ h[1] # "buffer" => A = {}
      /\ h[1] # "frame" => B = {}
      /\ h[1] # "sender" => C = {}
      /\ h[1] # "told" => D = {}
  BY <1>2, HomeKinds, PlacesAre
<1>4. Cardinality({}) = 0 /\ \A x : Cardinality({x}) = 1
  BY FS_EmptySet, FS_Singleton
<1>5. CASE \E k \in Channel : h = <<"buffer", k>>
  <2>1. PICK k \in Channel : h = <<"buffer", k>>
    BY <1>5
  <2>2. ASSUME NEW j \in Channel, j # k PROVE v \notin Range(chan[j].buffer)
    <3>1. v \notin Held(<<"buffer", j>>)
      BY <1>2, <2>1, <2>2, HomeKinds
    <3> QED  BY <3>1, HeldIs
  <2>3. PICK i \in DOMAIN chan[k].buffer : chan[k].buffer[i] = v
    BY <2>1, HeldIs DEF Range
  <2>4. \A n \in DOMAIN chan[k].buffer : chan[k].buffer[n] = v => n = i
    BY <2>3 DEF Homes, IsInjective
  <2>5. A = {<<k, i>>}
    BY <2>2, <2>3, <2>4 DEF InBuffers, Range
  <2>6. B = {} /\ C = {} /\ D = {}
    BY <1>3, <2>1
  <2>7. Cardinality(A) = 1 /\ Cardinality(B) = 0 /\ Cardinality(C) = 0 /\ Cardinality(D) = 0
    BY <1>4, <2>5, <2>6
  <2> HIDE DEF A, B, C, D
  <2> QED  BY <1>1, <2>7
<1>6. CASE \E r \in Receiver : h = <<"frame", r>>
  <2>1. PICK r \in Receiver : h = <<"frame", r>>
    BY <1>6
  <2>2. \A c \in Receiver : result[c] = v <=> c = r
    <3>1. ASSUME NEW c \in Receiver, c # r PROVE result[c] # v
      <4>1. v \notin Held(<<"frame", c>>)
        BY <1>2, <2>1, <3>1, HomeKinds
      <4> QED  BY <4>1, HeldIs
    <3>2. result[r] = v
      BY <2>1, HeldIs
    <3> QED  BY <3>1, <3>2
  <2>3. B = {r}
    BY <2>2 DEF InFrames
  <2>4. A = {} /\ C = {} /\ D = {}
    BY <1>3, <2>1
  <2>5. Cardinality(A) = 0 /\ Cardinality(B) = 1 /\ Cardinality(C) = 0 /\ Cardinality(D) = 0
    BY <1>4, <2>3, <2>4
  <2> HIDE DEF A, B, C, D
  <2> QED  BY <1>1, <2>5
<1>7. CASE \E s \in Sender : h = <<"sender", s>>
  <2>1. PICK s \in Sender : h = <<"sender", s>>
    BY <1>7
  <2>2. \A c \in Sender : (at[c] # "running" /\ Value(c) = v) <=> c = s
    <3>1. ASSUME NEW c \in Sender, c # s, at[c] # "running" PROVE Value(c) # v
      <4>1. v \notin Held(<<"sender", c>>)
        BY <1>2, <2>1, <3>1, HomeKinds
      <4>2. Held(<<"sender", c>>) = {Value(c)}
        BY <3>1, HeldIs DEF Value
      <4> QED  BY <4>1, <4>2
    <3>2. at[s] # "running" /\ Value(s) = v
      <4>1. Held(h) = IF at[s] = "running" THEN {} ELSE {Value(s)}
        BY <2>1, HeldIs DEF Value
      <4> QED  BY <4>1
    <3> QED  BY <3>1, <3>2
  <2>3. C = {s}
    BY <2>2 DEF WithSenders
  <2>4. A = {} /\ B = {} /\ D = {}
    BY <1>3, <2>1
  <2>5. Cardinality(A) = 0 /\ Cardinality(B) = 0 /\ Cardinality(C) = 1 /\ Cardinality(D) = 0
    BY <1>4, <2>3, <2>4
  <2> HIDE DEF A, B, C, D
  <2> QED  BY <1>1, <2>5
<1>8. CASE h = <<"told", "taken">> \/ h = <<"told", "refused">> \/ h = <<"told", "dropped">>
  <2>1. A = {} /\ B = {} /\ C = {}
    BY <1>3, <1>8
  <2>2. \E x : D = {x}
    <3>1. /\ <<"told", "taken">> \in Home /\ <<"told", "refused">> \in Home /\ <<"told", "dropped">> \in Home
          /\ <<"told", "taken">> # <<"told", "refused">> /\ <<"told", "taken">> # <<"told", "dropped">>
          /\ <<"told", "refused">> # <<"told", "dropped">>
      BY HomeKinds
    <3>2. D = (IF v \in Held(<<"told", "taken">>) THEN {1} ELSE {})
                \cup (IF v \in Held(<<"told", "refused">>) THEN {2} ELSE {})
                \cup (IF v \in Held(<<"told", "dropped">>) THEN {3} ELSE {})
      BY PlacesAre
    <3>3. CASE h = <<"told", "taken">>
      <4>1. D = {1}
        BY <1>2, <3>1, <3>2, <3>3
      <4> QED  BY <4>1
    <3>4. CASE h = <<"told", "refused">>
      <4>1. D = {2}
        BY <1>2, <3>1, <3>2, <3>4
      <4> QED  BY <4>1
    <3>5. CASE h = <<"told", "dropped">>
      <4>1. D = {3}
        BY <1>2, <3>1, <3>2, <3>5
      <4> QED  BY <4>1
    <3> QED  BY <1>8, <3>3, <3>4, <3>5
  <2>3. Cardinality(A) = 0 /\ Cardinality(B) = 0 /\ Cardinality(C) = 0 /\ Cardinality(D) = 1
    BY <1>4, <2>1, <2>2
  <2> HIDE DEF A, B, C, D
  <2> QED  BY <1>1, <2>3
<1> QED  BY <1>5, <1>6, <1>7, <1>8, HomeKinds

\* Every value that was offered is in one place.
LEMMA HomesLoseNothing ==
    ASSUME LinesInv, Homes
    PROVE  NothingLost
<1> SUFFICES ASSUME NEW s \in Sender, NEW n \in 1..sent[s] PROVE Places(<<s, n>>) = 1
  BY DEF NothingLost
<1>1. sent[s] \in Nat /\ sent[s] <= MaxSends[s] /\ MaxSends[s] \in Nat
  BY ChannelTypesAre, ChannelAssumption DEF LinesInv
<1>2. n \in Nat /\ n \in 1..MaxSends[s]
  BY <1>1
<1>3. <<s, n>> \in Values
  BY <1>2, ValuesArePairs
<1>4. <<s, n>> \in Offered
  BY <1>1, <1>3 DEF Offered
<1>5. PICK h \in Home : <<s, n>> \in Held(h)
  BY <1>4 DEF Homes
<1> QED  BY <1>3, <1>5, OnePlace

(* No message is lost or delivered twice, with any number of channels,     *)
(* senders and receivers and whatever frames are destroyed: a value that   *)
(* was offered to a channel is in one buffer, in one frame, received,      *)
(* refused to its sender, or dropped with an abandoned select.             *)
THEOREM ChannelsLoseNothing == ChannelSpec => []NothingLost
<1>1. ChannelInit => LinesInv /\ Homes
  BY LinesStart, HomesStart
<1>2. LinesInv /\ Homes /\ [ChannelNext]_channelVars => LinesInv' /\ Homes'
  BY LinesStep, HomesStep
<1>3. LinesInv /\ Homes => NothingLost
  BY HomesLoseNothing
<1> QED  BY <1>1, <1>2, <1>3, PTL DEF ChannelSpec

-----------------------------------------------------------------------------
(* The handles are live *)

\* How often a coroutine is in a line.
Spots(q, c) == {i \in DOMAIN q : q[i] = c}

\* Once, when it is there at all.
LEMMA SpotsAre ==
    ASSUME NEW q, NEW c, c # Stale, Once(q)
    PROVE  Cardinality(Spots(q, c)) = IF c \in Waiting(q) THEN 1 ELSE 0
<1>1. Cardinality({}) = 0 /\ \A x : Cardinality({x}) = 1
  BY FS_EmptySet, FS_Singleton
<1>2. CASE c \in Waiting(q)
  <2>1. PICK i \in DOMAIN q : q[i] = c
    BY <1>2 DEF Waiting, Range
  <2>2. \A j \in DOMAIN q : q[j] = c => j = i
    BY <2>1 DEF Once
  <2>3. Spots(q, c) = {i}
    BY <2>1, <2>2 DEF Spots
  <2> QED  BY <1>1, <1>2, <2>3
<1>3. CASE c \notin Waiting(q)
  <2>1. Spots(q, c) = {}
    BY <1>3 DEF Spots, Waiting, Range
  <2> QED  BY <1>1, <1>3, <2>1
<1> QED  BY <1>2, <1>3

\* Who is in which line, and how often.
LEMMA LinesHoldTheParked ==
    ASSUME LinesInv
    PROVE  HandlesAreLive
<1>1. IsInjective(readyQueue) /\ Range(readyQueue) = {c \in Coroutine : at[c] \in {"woken", "fired"}}
  BY DEF LinesInv, Scheduled
<1>2. ASSUME NEW c \in Coroutine, NEW k \in Channel
      PROVE  Cardinality(Spots(chan[k].senders, c)) + Cardinality(Spots(chan[k].receivers, c))
               + Cardinality(Spots(chan[k].selects, c))
             = (IF at[c] = "parked" /\ on[c] \in {k, All} THEN 1 ELSE 0)
  <2>1. /\ Stale \notin Sender /\ Stale \notin Receiver /\ Sender \cap Receiver = {}
        /\ Once(chan[k].senders) /\ Once(chan[k].selects) /\ IsInjective(chan[k].receivers)
        /\ Waiting(chan[k].senders) \subseteq Sender
        /\ Waiting(chan[k].selects) \subseteq Receiver
        /\ Range(chan[k].receivers) \subseteq Receiver
        /\ \A s \in Sender : s \in Waiting(chan[k].senders) <=> at[s] = "parked" /\ Dest[s] = k
        /\ \A r \in Receiver : r \in Range(chan[k].receivers) <=> at[r] = "parked" /\ on[r] = k /\ ~timed[r]
        /\ \A r \in Receiver :
              r \in Waiting(chan[k].selects) <=> at[r] = "parked" /\ (on[r] = All \/ (on[r] = k /\ timed[r]))
    BY LinesAre
  <2>2. c # Stale /\ (c \in Sender \/ c \in Receiver) /\ k # All
    BY <2>1, ChannelAssumption DEF Coroutine, All
  <2>3. Once(chan[k].receivers) /\ Waiting(chan[k].receivers) = Range(chan[k].receivers)
    BY <2>1 DEF Once, IsInjective, Waiting
  <2>4. /\ Cardinality(Spots(chan[k].senders, c)) = IF c \in Waiting(chan[k].senders) THEN 1 ELSE 0
        /\ Cardinality(Spots(chan[k].receivers, c)) = IF c \in Range(chan[k].receivers) THEN 1 ELSE 0
        /\ Cardinality(Spots(chan[k].selects, c)) = IF c \in Waiting(chan[k].selects) THEN 1 ELSE 0
    BY <2>1, <2>2, <2>3, SpotsAre
  <2>5. CASE c \in Sender
    <3>1. c \notin Range(chan[k].receivers) /\ c \notin Waiting(chan[k].selects)
      BY <2>1, <2>5
    <3>2. at[c] = "parked" => on[c] = Dest[c] /\ Dest[c] \in Channel /\ Dest[c] # All
      BY ZenonT(60), <2>5, ChannelAssumption DEF LinesInv, Posted, All
    <3>3. c \in Waiting(chan[k].senders) <=> at[c] = "parked" /\ on[c] \in {k, All}
      BY <2>1, <2>5, <3>2
    <3> QED  BY <2>4, <3>1, <3>3
  <2>6. CASE c \in Receiver
    <3>1. c \notin Waiting(chan[k].senders)
      BY <2>1, <2>6
    <3>2. /\ c \in Range(chan[k].receivers) <=> at[c] = "parked" /\ on[c] = k /\ ~timed[c]
          /\ c \in Waiting(chan[k].selects) <=> at[c] = "parked" /\ (on[c] = All \/ (on[c] = k /\ timed[c]))
      BY <2>1, <2>6
    <3> QED  BY <2>2, <2>4, <3>1, <3>2
  <2> QED  BY <2>2, <2>5, <2>6
<1> QED  BY <1>1, <1>2 DEF HandlesAreLive, Spots

(* No handle dangles, whatever frames are destroyed: the queues of every   *)
(* channel hold the coroutines parked there, each once, and the ready      *)
(* queue the scheduled ones, so no send, receive, timer or close schedules *)
(* a frame that is gone or not waiting.                                    *)
THEOREM ChannelHandlesAreLive == ChannelSpec => [](ChannelTypeOK /\ HandlesAreLive)
<1>1. ChannelInit => LinesInv
  BY LinesStart
<1>2. LinesInv /\ [ChannelNext]_channelVars => LinesInv'
  BY LinesStep
<1>3. LinesInv => ChannelTypeOK /\ HandlesAreLive
  BY LinesHoldTheParked DEF LinesInv, ChannelTypes
<1> QED  BY <1>1, <1>2, <1>3, PTL DEF ChannelSpec

-----------------------------------------------------------------------------
(* The slots are claimed *)

\* The senders woken for k and the receivers that wait for it.
WokenFor(k) == {s \in Sender : Dest[s] = k /\ at[s] = "woken"}
Waiters(k) == {r \in Receiver : RecvWaits(r, k)}

Claimed(k) ==
    (\E s \in Sender : SendWaits(s) /\ Dest[s] = k)
    => Len(chan[k].buffer) + Cardinality(WokenFor(k)) >= Capacity[k] + Cardinality(Waiters(k))

\* How a step can leave the account of k: b and d values in the buffer, W and V
\* senders woken, Q and P receivers waiting before and after.  Nothing is taken
\* away; a woken sender delivers, into the buffer or to a receiver; or a value is
\* taken or a receiver comes, and a sender is woken.
Settled(b, d, W, V, Q, P) ==
    \/ W \subseteq V /\ P \subseteq Q /\ d >= b
    \/ \E s : W \ {s} \subseteq V /\ P \subseteq Q /\ d >= b + 1
    \/ \E s : \E r \in Q : W \ {s} \subseteq V /\ P \subseteq Q \ {r} /\ d >= b
    \/ \E c \in V \ W : W \subseteq V /\ P \subseteq Q /\ d + 1 >= b
    \/ \E c \in V \ W : \E r : W \subseteq V /\ P \subseteq Q \cup {r} /\ d >= b

\* In each of these the account still covers the capacity.
LEMMA SettledCounts ==
    ASSUME NEW W, NEW V, NEW Q, NEW P,
           IsFiniteSet(W), IsFiniteSet(V), IsFiniteSet(Q), IsFiniteSet(P),
           NEW b \in Nat, NEW d \in Nat, NEW cap \in Nat,
           b + Cardinality(W) >= cap + Cardinality(Q), Settled(b, d, W, V, Q, P)
    PROVE  d + Cardinality(V) >= cap + Cardinality(P)
<1>1. /\ Cardinality(W) \in Nat /\ Cardinality(V) \in Nat /\ Cardinality(Q) \in Nat /\ Cardinality(P) \in Nat
  BY FS_CardinalityType
<1>2. W \subseteq V => Cardinality(W) <= Cardinality(V)
  BY FS_Subset
<1>3. P \subseteq Q => Cardinality(P) <= Cardinality(Q)
  BY FS_Subset
<1>4. \A s : W \ {s} \subseteq V => Cardinality(W) <= Cardinality(V) + 1
  <2> TAKE s
  <2> HAVE W \ {s} \subseteq V
  <2>1. IsFiniteSet(W \ {s}) /\ Cardinality(W \ {s}) >= Cardinality(W) - 1
    <3>1. /\ IsFiniteSet(W \ {s})
          /\ Cardinality(W \ {s}) = IF s \in W THEN Cardinality(W) - 1 ELSE Cardinality(W)
      BY FS_RemoveElement
    <3> QED  BY <1>1, <3>1
  <2>2. Cardinality(W \ {s}) <= Cardinality(V) /\ Cardinality(W \ {s}) \in Nat
    BY <2>1, FS_Subset, FS_CardinalityType
  <2> QED  BY <1>1, <2>1, <2>2
<1>5. \A r \in Q : P \subseteq Q \ {r} => Cardinality(P) + 1 <= Cardinality(Q)
  <2> TAKE r \in Q
  <2> HAVE P \subseteq Q \ {r}
  <2>1. IsFiniteSet(Q \ {r}) /\ Cardinality(Q \ {r}) = Cardinality(Q) - 1
    BY FS_RemoveElement
  <2>2. Cardinality(P) <= Cardinality(Q \ {r})
    BY <2>1, FS_Subset
  <2> QED  BY <1>1, <2>1, <2>2
<1>6. \A c \in V \ W : W \subseteq V => Cardinality(W) + 1 <= Cardinality(V)
  <2> TAKE c \in V \ W
  <2> HAVE W \subseteq V
  <2>1. IsFiniteSet(W \cup {c}) /\ Cardinality(W \cup {c}) = Cardinality(W) + 1
    BY FS_AddElement
  <2>2. Cardinality(W \cup {c}) <= Cardinality(V)
    BY <2>1, FS_Subset
  <2> QED  BY <1>1, <2>1, <2>2
<1>7. \A r : P \subseteq Q \cup {r} => Cardinality(P) <= Cardinality(Q) + 1
  <2> TAKE r
  <2> HAVE P \subseteq Q \cup {r}
  <2>1. IsFiniteSet(Q \cup {r}) /\ Cardinality(Q \cup {r}) <= Cardinality(Q) + 1
    <3>1. /\ IsFiniteSet(Q \cup {r})
          /\ Cardinality(Q \cup {r}) = IF r \in Q THEN Cardinality(Q) ELSE Cardinality(Q) + 1
      BY FS_AddElement
    <3> QED  BY <1>1, <3>1
  <2>2. Cardinality(P) <= Cardinality(Q \cup {r}) /\ Cardinality(Q \cup {r}) \in Nat
    BY <2>1, FS_Subset, FS_CardinalityType
  <2> QED  BY <1>1, <2>1, <2>2
<1> DEFINE w == Cardinality(W)
           v == Cardinality(V)
           q == Cardinality(Q)
           p == Cardinality(P)
<1>8. \/ w <= v /\ p <= q /\ d >= b
      \/ w <= v + 1 /\ p <= q /\ d >= b + 1
      \/ w <= v + 1 /\ p + 1 <= q /\ d >= b
      \/ w + 1 <= v /\ p <= q /\ d + 1 >= b
      \/ w + 1 <= v /\ p <= q + 1 /\ d >= b
  BY <1>2, <1>3, <1>4, <1>5, <1>6, <1>7 DEF Settled
<1>9. w \in Nat /\ v \in Nat /\ q \in Nat /\ p \in Nat /\ b + w >= cap + q
  BY <1>1
<1> HIDE DEF w, v, q, p
<1>10. d + v >= cap + p
  BY <1>8, <1>9
<1> QED  BY <1>10 DEF v, p

\* So k stays accounted for, when nobody comes to be parked on it.
LEMMA ClaimKept ==
    ASSUME LinesInv, LinesInv', NEW k \in Channel, Claimed(k),
           \A s \in Sender : Dest[s] = k /\ at'[s] = "parked" => at[s] = "parked",
           (\E s \in Sender : at[s] = "parked" /\ Dest[s] = k) =>
              Settled(Len(chan[k].buffer), Len(chan'[k].buffer), WokenFor(k), WokenFor(k)', Waiters(k), Waiters(k)')
    PROVE  Claimed(k)'
<1> SUFFICES ASSUME \E s \in Sender : at'[s] = "parked" /\ Dest[s] = k
             PROVE  Len(chan'[k].buffer) + Cardinality(WokenFor(k)') >= Capacity[k] + Cardinality(Waiters(k)')
  BY DEF Claimed, SendWaits
<1>1. \E s \in Sender : at[s] = "parked" /\ Dest[s] = k
  OBVIOUS
<1>2. Len(chan[k].buffer) + Cardinality(WokenFor(k)) >= Capacity[k] + Cardinality(Waiters(k))
  BY <1>1 DEF Claimed, SendWaits
<1>3. /\ WokenFor(k) \subseteq Sender /\ WokenFor(k)' \subseteq Sender
      /\ Waiters(k) \subseteq Receiver /\ Waiters(k)' \subseteq Receiver
  BY DEF WokenFor, Waiters
<1>4. /\ IsFiniteSet(WokenFor(k)) /\ IsFiniteSet(WokenFor(k)')
      /\ IsFiniteSet(Waiters(k)) /\ IsFiniteSet(Waiters(k)')
  BY <1>3, ChannelAssumption, FS_Subset
<1>5. Len(chan[k].buffer) \in Nat /\ Len(chan'[k].buffer) \in Nat /\ Capacity[k] \in Nat
  <2>1. chan[k].buffer \in Seq(Values)
    BY ChannelTypesAre DEF LinesInv
  <2>2. chan'[k].buffer \in Seq(Values)
    <3>1. chan' \in [Channel -> Conduit]
      BY DEF LinesInv, ChannelTypes, ChannelTypeOK, Conduit
    <3>2. chan'[k] \in Conduit
      BY <3>1
    <3> QED  BY <3>2 DEF Conduit
  <2>3. Capacity[k] \in Nat
    BY ChannelAssumption
  <2>4. \A T : \A q \in Seq(T) : Len(q) \in Nat
    OBVIOUS
  <2> QED  BY <2>1, <2>2, <2>3, <2>4
<1> DEFINE b == Len(chan[k].buffer)
           d == Len(chan'[k].buffer)
           W == WokenFor(k)
           V == WokenFor(k)'
           Q == Waiters(k)
           P == Waiters(k)'
<1>6. Settled(b, d, W, V, Q, P)
  BY <1>1
<1>7. /\ b \in Nat /\ d \in Nat /\ Capacity[k] \in Nat /\ b + Cardinality(W) >= Capacity[k] + Cardinality(Q)
      /\ IsFiniteSet(W) /\ IsFiniteSet(V) /\ IsFiniteSet(Q) /\ IsFiniteSet(P)
  BY <1>2, <1>4, <1>5
<1> HIDE DEF b, d, W, V, Q, P
<1>8. d + Cardinality(V) >= Capacity[k] + Cardinality(P)
  BY <1>6, <1>7, SettledCounts
<1> QED  BY <1>8 DEF d, V, P

\* A step that takes nothing from the account of k.
LEMMA ClaimQuiet ==
    ASSUME LinesInv, LinesInv', NEW k \in Channel, Claimed(k),
           \A s \in Sender : Dest[s] = k =>
              (at'[s] = "parked" => at[s] = "parked") /\ (at[s] = "woken" => at'[s] = "woken"),
           \A r \in Receiver : at'[r] = "parked" /\ on'[r] \in {k, All} => at[r] = "parked" /\ on[r] \in {k, All},
           Len(chan'[k].buffer) >= Len(chan[k].buffer)
    PROVE  Claimed(k)'
<1>1. WokenFor(k) \subseteq WokenFor(k)' /\ Waiters(k)' \subseteq Waiters(k)
  BY DEF WokenFor, Waiters, RecvWaits
<1>2. Settled(Len(chan[k].buffer), Len(chan'[k].buffer), WokenFor(k), WokenFor(k)', Waiters(k), Waiters(k)')
  BY <1>1 DEF Settled
<1> QED  BY <1>2, ClaimKept

\* Nobody waits to send to a channel that is closed.
LEMMA ClaimShut ==
    ASSUME LinesInv', NEW k \in Channel, chan'[k].closed
    PROVE  Claimed(k)'
<1>1. \A s \in Sender : Dest[s] = k => at'[s] # "parked"
  BY DEF LinesInv, Shut
<1> QED  BY <1>1 DEF Claimed, SendWaits

\* The length of what is in a buffer.
LEMMA BufferLength ==
    ASSUME LinesInv, NEW k \in Channel
    PROVE  /\ chan[k].buffer \in Seq(Values) /\ Len(chan[k].buffer) \in Nat
           /\ \A v \in Values : Len(Append(chan[k].buffer, v)) = Len(chan[k].buffer) + 1
           /\ chan[k].buffer # <<>> => Len(Tail(chan[k].buffer)) + 1 = Len(chan[k].buffer)
<1>1. chan[k].buffer \in Seq(Values)
  BY ChannelTypesAre DEF LinesInv
<1>2. \A T : \A q \in Seq(T) : /\ Len(q) \in Nat
                               /\ \A v \in T : Len(Append(q, v)) = Len(q) + 1
                               /\ q # <<>> => Len(Tail(q)) + 1 = Len(q)
  OBVIOUS
<1> QED  BY <1>1, <1>2

\* A sender of k delivers: to a receiver, which waits no longer, or into the
\* buffer.  It may have been woken to do so.
LEMMA DeliverySlots ==
    ASSUME LinesInv, LinesInv', \A j \in Channel : Claimed(j),
           NEW s \in Sender, NEW k \in Channel, Dest[s] = k, NEW v \in Values, NEW a, NEW q,
           a \in [Coroutine -> States], a[s] = "running", \A c \in Coroutine : c # s => a[c] = at[c],
           \A r \in Receiver : on'[r] = on[r],
           Hand(k, v, a, q) \/ Buffer(k, v, a, q)
    PROVE  \A j \in Channel : Claimed(j)'
<1> SUFFICES ASSUME NEW j \in Channel PROVE Claimed(j)'
  OBVIOUS
<1>1. Sender \subseteq Coroutine /\ Receiver \subseteq Coroutine /\ Sender \cap Receiver = {}
  BY ChannelAssumption DEF Coroutine
<1>2. Len(chan[j].buffer) \in Nat
  BY BufferLength
<1>3. CASE Hand(k, v, a, q)
  <2>1. PICK r \in Receiver : Handed(k, v, a, q, r)
    BY <1>3, HandGoes
  <2>2. /\ at[r] = "parked" /\ on[r] \in {k, All} /\ at' = [a EXCEPT ![r] = "woken"]
        /\ chan'[j].buffer = chan[j].buffer
    BY <2>1 DEF Handed
  <2>3. /\ at'[r] = "woken" /\ at'[s] = "running" /\ s # r
        /\ \A c \in Coroutine : c # s /\ c # r => at'[c] = at[c]
    BY <1>1, <2>2
  <2>4. \A d \in Sender : at'[d] = "parked" => at[d] = "parked"
    BY <1>1, <2>3
  <2>5. CASE j = k
    <3>1. WokenFor(k) \ {s} \subseteq WokenFor(k)'
      BY <1>1, <2>3 DEF WokenFor
    <3>2. r \in Waiters(k) /\ Waiters(k)' \subseteq Waiters(k) \ {r}
      BY <1>1, <2>2, <2>3 DEF Waiters, RecvWaits
    <3>3. Settled(Len(chan[k].buffer), Len(chan'[k].buffer), WokenFor(k), WokenFor(k)', Waiters(k), Waiters(k)')
      <4>1. Len(chan'[k].buffer) >= Len(chan[k].buffer)
        BY <1>2, <2>2, <2>5
      <4> QED  BY <3>1, <3>2, <4>1 DEF Settled
    <3> QED  BY <2>4, <2>5, <3>3, ClaimKept
  <2>6. CASE j # k
    BY <1>1, <1>2, <2>2, <2>3, <2>4, <2>6, ClaimQuiet
  <2> QED  BY <2>5, <2>6
<1>4. CASE Buffer(k, v, a, q)
  <2>1. chan' = [chan EXCEPT ![k].buffer = Append(@, v), ![k].selects = <<>>] /\ at' = a
    BY <1>4 DEF Buffer
  <2>2. chan'[k].buffer = Append(chan[k].buffer, v) /\ (j # k => chan'[j].buffer = chan[j].buffer)
    <3>1. chan \in [Channel -> Conduit]
      BY ChannelTypesAre DEF LinesInv
    <3> QED  BY <2>1, <3>1 DEF Conduit
  <2>3. \A d \in Sender : at'[d] = "parked" => at[d] = "parked"
    BY <1>1, <2>1
  <2>4. CASE j = k
    <3>1. WokenFor(k) \ {s} \subseteq WokenFor(k)' /\ Waiters(k)' \subseteq Waiters(k)
      BY <1>1, <2>1 DEF WokenFor, Waiters, RecvWaits
    <3>2. Len(chan'[k].buffer) >= Len(chan[k].buffer) + 1
      BY <1>2, <2>2, <2>4, BufferLength
    <3>3. Settled(Len(chan[k].buffer), Len(chan'[k].buffer), WokenFor(k), WokenFor(k)', Waiters(k), Waiters(k)')
      BY <3>1, <3>2 DEF Settled
    <3> QED  BY <2>3, <2>4, <3>3, ClaimKept
  <2>5. CASE j # k
    <3>1. Len(chan'[j].buffer) >= Len(chan[j].buffer)
      BY <1>2, <2>2, <2>5
    <3>2. \A d \in Sender : Dest[d] = j => at'[d] = at[d]
      BY <1>1, <2>1, <2>5
    <3>3. \A r \in Receiver : at'[r] = at[r]
      BY <1>1, <2>1
    <3> QED  BY <2>3, <3>1, <3>2, <3>3, ClaimQuiet
  <2> QED  BY <2>4, <2>5
<1> QED  BY <1>3, <1>4

\* A value is taken from k, or a receiver comes, and the next sender is woken.
LEMMA WakingSlots ==
    ASSUME LinesInv, LinesInv', NEW k \in Channel, Claimed(k), NEW r \in Receiver,
           \A s \in Sender : Dest[s] = k =>
              at'[s] = IF s \in Range(NextSender(chan[k].senders)) THEN "woken" ELSE at[s],
           \A c \in Receiver : c # r => at'[c] = at[c] /\ on'[c] = on[c],
           \/ at'[r] # "parked" /\ Len(chan'[k].buffer) + 1 >= Len(chan[k].buffer)
           \/ Len(chan'[k].buffer) >= Len(chan[k].buffer)
    PROVE  Claimed(k)'
<1> DEFINE cs == NextSender(chan[k].senders)
<1>1. /\ Range(cs) \subseteq Sender /\ \A c \in Range(cs) : at[c] = "parked" /\ Dest[c] = k
      /\ (\A s \in Sender : ~(at[s] = "parked" /\ Dest[s] = k)) \/ \E c \in Sender : cs = <<c>>
  BY WokenSenders
<1> HIDE DEF cs
<1>2. \A s \in Sender : Dest[s] = k => at'[s] = IF s \in Range(cs) THEN "woken" ELSE at[s]
  BY DEF cs
<1>3. \A s \in Sender : Dest[s] = k /\ at'[s] = "parked" => at[s] = "parked"
  BY <1>2
<1>4. WokenFor(k) \subseteq WokenFor(k)'
  BY <1>2 DEF WokenFor
<1>5. ASSUME \E s \in Sender : at[s] = "parked" /\ Dest[s] = k
      PROVE  \E c : c \in WokenFor(k)' \ WokenFor(k)
  <2>1. PICK c \in Sender : cs = <<c>>
    BY <1>1, <1>5
  <2>2. c \in Range(cs)
    BY <2>1, OneElement
  <2>3. at[c] = "parked" /\ Dest[c] = k /\ at'[c] = "woken"
    BY <1>1, <1>2, <2>2
  <2>4. c \in WokenFor(k)' /\ c \notin WokenFor(k)
    BY <2>3 DEF WokenFor
  <2> QED  BY <2>4
<1>6. /\ Waiters(k)' \subseteq Waiters(k) \cup {r}
      /\ at'[r] # "parked" => Waiters(k)' \subseteq Waiters(k)
  BY DEF Waiters, RecvWaits
<1>7. ASSUME \E s \in Sender : at[s] = "parked" /\ Dest[s] = k
      PROVE  Settled(Len(chan[k].buffer), Len(chan'[k].buffer), WokenFor(k), WokenFor(k)', Waiters(k), Waiters(k)')
  <2>1. PICK c : c \in WokenFor(k)' \ WokenFor(k)
    BY <1>5, <1>7
  <2> QED  BY <1>4, <1>6, <2>1 DEF Settled
<1> QED  BY <1>3, <1>7, ClaimKept

\* The slots stay claimed when a sender offers a value.
LEMMA OfferSlots ==
    ASSUME LinesInv, LinesInv', \A j \in Channel : Claimed(j), NEW s \in Sender,
           SendNow(s) \/ TrySendFails(s) \/ \E t \in BOOLEAN : SendParks(s, t)
    PROVE  \A j \in Channel : Claimed(j)'
<1> DEFINE v == <<s, sent[s] + 1>>
           k == Dest[s]
<1>1. k \in Channel /\ at[s] = "running" /\ v \in Values /\ s \in Coroutine /\ Sender \subseteq Coroutine
  BY OfferIsValue, ChannelAssumption DEF SendNow, TrySendFails, SendParks, Coroutine
<1>2. \A j \in Channel : Len(chan[j].buffer) \in Nat
  BY BufferLength
<1>3. chan \in [Channel -> Conduit] /\ at \in [Coroutine -> States]
  BY ChannelTypesAre DEF LinesInv
<1>4. ASSUME UNCHANGED <<at, on>>, \A j \in Channel : chan'[j].buffer = chan[j].buffer
      PROVE  \A j \in Channel : Claimed(j)'
  <2> SUFFICES ASSUME NEW j \in Channel PROVE Claimed(j)'
    OBVIOUS
  <2>1. Len(chan'[j].buffer) >= Len(chan[j].buffer)
    BY <1>2, <1>4
  <2> QED  BY <1>4, <2>1, ClaimQuiet
<1>5. CASE SendNow(s)
  <2>1. CASE chan[k].closed
    <3>1. UNCHANGED <<chan, at, on>>
      BY <1>5, <2>1 DEF SendNow, sys
    <3> QED  BY <1>4, <3>1
  <2>2. CASE ~chan[k].closed
    <3>1. /\ Hand(k, v, at, readyQueue) \/ Buffer(k, v, at, readyQueue)
          /\ UNCHANGED <<on, timed, refused>>
      BY <1>5, <2>2 DEF SendNow
    <3> HIDE DEF v
    <3> QED  BY <1>1, <1>3, <3>1, DeliverySlots DEF k
  <2> QED  BY <2>1, <2>2
<1>6. CASE TrySendFails(s)
  <2>1. chan' = [chan EXCEPT ![k].selects = <<>>] /\ UNCHANGED <<at, on>>
    BY <1>6 DEF TrySendFails
  <2>2. \A j \in Channel : chan'[j].buffer = chan[j].buffer
    BY <1>1, <1>3, <2>1 DEF Conduit
  <2> QED  BY <1>4, <2>1, <2>2
<1>7. ASSUME NEW t \in BOOLEAN, SendParks(s, t) PROVE \A j \in Channel : Claimed(j)'
  <2> DEFINE w == IF t THEN chan[k].selects ELSE <<>>
  <2>1. /\ Nobody(k) /\ Len(chan[k].buffer) >= Capacity[k]
        /\ chan' = [chan EXCEPT ![k].senders = Append(@, s), ![k].selects = IF t THEN @ ELSE <<>>]
        /\ at' = [at EXCEPT ![s] = "parked"] /\ on' = [on EXCEPT ![s] = k]
    BY <1>7 DEF SendParks, Full
  <2>2. \A j \in Channel : chan'[j].buffer = chan[j].buffer
    <3>1. chan' = [chan EXCEPT ![k] = [chan[k] EXCEPT !.senders = Append(chan[k].senders, s), !.selects = w]]
      BY <1>1, <2>1
    <3> HIDE DEF w
    <3> QED  BY <1>1, <1>3, <3>1 DEF Conduit
  <2>3. \A c \in Coroutine : c # s => at'[c] = at[c] /\ on'[c] = on[c]
    BY <1>3, <2>1, ChannelTypesAre DEF LinesInv
  <2>4. at'[s] = "parked" /\ Receiver \subseteq Coroutine /\ s \notin Receiver
    BY <1>1, <1>3, <2>1, ChannelAssumption DEF Coroutine
  <2> SUFFICES ASSUME NEW j \in Channel PROVE Claimed(j)'
    OBVIOUS
  <2>5. CASE j # k
    <3>1. Len(chan'[j].buffer) >= Len(chan[j].buffer)
      BY <1>2, <2>2
    <3>2. \A d \in Sender : Dest[d] = j => at'[d] = at[d]
      BY <1>1, <2>3, <2>5
    <3>3. \A r \in Receiver : at'[r] = at[r] /\ on'[r] = on[r]
      BY <2>3, <2>4
    <3> QED  BY <3>1, <3>2, <3>3, ClaimQuiet
  <2>6. CASE j = k
    <3>1. Waiters(k)' = {}
      <4>1. Waiting(chan[k].selects) = {} /\ Range(chan[k].receivers) = {}
        BY <1>1, <2>1, NobodyWaits
      <4>2. \A r \in Receiver : ~(at[r] = "parked" /\ on[r] \in {k, All})
        <5>1. /\ \A r \in Receiver : r \in Range(chan[k].receivers) <=> at[r] = "parked" /\ on[r] = k /\ ~timed[r]
              /\ \A r \in Receiver :
                    r \in Waiting(chan[k].selects)
                      <=> at[r] = "parked" /\ (on[r] = All \/ (on[r] = k /\ timed[r]))
          BY <1>1, LinesAre
        <5> QED  BY <4>1, <5>1
      <4>3. \A r \in Receiver : at'[r] = at[r] /\ on'[r] = on[r]
        BY <2>3, <2>4
      <4> QED  BY <4>2, <4>3 DEF Waiters, RecvWaits
    <3>2. Cardinality(Waiters(k)') = 0
      BY <3>1, FS_EmptySet
    <3>3. Cardinality(WokenFor(k)') \in Nat
      <4>1. WokenFor(k)' \subseteq Sender
        BY DEF WokenFor
      <4>2. IsFiniteSet(WokenFor(k)')
        BY <4>1, ChannelAssumption, FS_Subset
      <4> QED  BY <4>2, FS_CardinalityType
    <3>4. Len(chan'[k].buffer) >= Capacity[k] /\ Len(chan'[k].buffer) \in Nat /\ Capacity[k] \in Nat
      BY <1>1, <1>2, <2>1, <2>2, ChannelAssumption
    <3>5. Len(chan'[k].buffer) + Cardinality(WokenFor(k)') >= Capacity[k] + Cardinality(Waiters(k)')
      BY <3>2, <3>3, <3>4
    <3> QED  BY <2>6, <3>5 DEF Claimed
  <2> QED  BY <2>5, <2>6
<1> QED  BY <1>5, <1>6, <1>7

\* When a sender is resumed or its timer fires.
LEMMA ResumedSenderSlots ==
    ASSUME LinesInv, LinesInv', \A j \in Channel : Claimed(j), NEW s \in Sender,
           SenderResumes(s) \/ SendTimer(s) \/ FiredResumes(s)
    PROVE  \A j \in Channel : Claimed(j)'
<1> DEFINE k == Dest[s]
           a == [at EXCEPT ![s] = "running"]
<1>1. k \in Channel /\ (at[s] # "running" => on[s] = k)
  BY ChannelAssumption DEF LinesInv, Posted
<1>2. /\ at \in [Coroutine -> States] /\ s \in Coroutine /\ Sender \subseteq Coroutine
      /\ Receiver \subseteq Coroutine /\ s \notin Receiver
  BY ChannelTypesAre, ChannelAssumption DEF LinesInv, Coroutine
<1>3. a \in [Coroutine -> States] /\ a[s] = "running" /\ \A c \in Coroutine : c # s => a[c] = at[c]
  BY <1>2 DEF States
<1>4. \A j \in Channel : Len(chan[j].buffer) \in Nat
  BY BufferLength
<1>5. CASE SenderResumes(s)
  <2>1. at[s] = "woken" /\ on' = [on EXCEPT ![s] = None]
    BY <1>5 DEF SenderResumes
  <2>2. \A r \in Receiver : on'[r] = on[r]
    BY <1>2, <2>1, ChannelTypesAre DEF LinesInv
  <2>3. CASE chan[k].closed \/ ~chan[k].alive
    <3>1. at' = a /\ UNCHANGED chan
      BY <1>1, <1>5, <2>1, <2>3 DEF SenderResumes
    <3>2. chan'[k].closed
      BY <1>1, <2>3, <3>1 DEF LinesInv, Shut
    <3> HIDE DEF a
    <3> SUFFICES ASSUME NEW j \in Channel PROVE Claimed(j)'
      OBVIOUS
    <3>3. CASE j = k
      BY <3>2, <3>3, ClaimShut
    <3>4. CASE j # k
      <4>1. \A d \in Sender : Dest[d] = j => at'[d] = at[d]
        BY <1>2, <1>3, <3>1, <3>4
      <4>2. \A r \in Receiver : at'[r] = at[r]
        BY <1>2, <1>3, <3>1
      <4>3. Len(chan'[j].buffer) >= Len(chan[j].buffer)
        BY <1>4, <3>1
      <4> QED  BY <2>2, <4>1, <4>2, <4>3, ClaimQuiet
    <3> QED  BY <3>3, <3>4
  <2>4. CASE ~(chan[k].closed \/ ~chan[k].alive)
    <3>1. Hand(k, Value(s), a, Tail(readyQueue)) \/ Buffer(k, Value(s), a, Tail(readyQueue))
      BY <1>1, <1>5, <2>1, <2>4 DEF SenderResumes
    <3>2. Value(s) \in Values
      BY <2>1, HeldIsValue
    <3> HIDE DEF a
    <3> QED  BY SMTT(40), <1>1, <1>3, <2>2, <3>1, <3>2, DeliverySlots DEF k
  <2> QED  BY <2>3, <2>4
<1>6. CASE SendTimer(s) \/ FiredResumes(s)
  <2>1. /\ at[s] \in {"parked", "fired"}
        /\ at' = [at EXCEPT ![s] = "fired"] \/ at' = [at EXCEPT ![s] = "running"]
        /\ on' = on \/ on' = [on EXCEPT ![s] = None]
    BY <1>6 DEF SendTimer, FiredResumes
  <2>2. \A j \in Channel : chan'[j].buffer = chan[j].buffer
    <3>1. chan \in [Channel -> Conduit]
      BY ChannelTypesAre DEF LinesInv
    <3>2. chan' = chan \/ chan' = [chan EXCEPT ![k].senders = GoStale(@, {s})]
      BY <1>1, <1>6, <2>1 DEF SendTimer, FiredResumes
    <3>3. CASE chan' = chan
      BY <3>3
    <3>4. CASE chan' = [chan EXCEPT ![k].senders = GoStale(@, {s})]
      BY <1>1, <3>1, <3>4 DEF Conduit
    <3> QED  BY <3>2, <3>3, <3>4
  <2> SUFFICES ASSUME NEW j \in Channel PROVE Claimed(j)'
    OBVIOUS
  <2>3. \A d \in Sender : (at'[d] = "parked" => at[d] = "parked") /\ (at[d] = "woken" => at'[d] = "woken")
    BY <1>2, <2>1
  <2>4. \A r \in Receiver : at'[r] = at[r] /\ on'[r] = on[r]
    BY <1>2, <2>1, ChannelTypesAre DEF LinesInv
  <2>5. Len(chan'[j].buffer) >= Len(chan[j].buffer)
    BY <1>4, <2>2
  <2> QED  BY <2>3, <2>4, <2>5, ClaimQuiet
<1> QED  BY <1>5, <1>6

\* When a receiver takes a value from a buffer, at once or when it is resumed.
LEMMA TakenSlots ==
    ASSUME LinesInv, LinesInv', \A j \in Channel : Claimed(j), NEW r \in Receiver, NEW k \in Channel,
           chan[k].buffer # <<>>, at[r] # "parked", at'[r] # "parked",
           chan' = [chan EXCEPT ![k].buffer = Tail(@), ![k].senders = AfterLive(@)],
           \A c \in Coroutine : c # r =>
              at'[c] = (IF c \in Range(NextSender(chan[k].senders)) THEN "woken" ELSE at[c]) /\ on'[c] = on[c]
    PROVE  \A j \in Channel : Claimed(j)'
<1> SUFFICES ASSUME NEW j \in Channel PROVE Claimed(j)'
  OBVIOUS
<1> DEFINE cs == NextSender(chan[k].senders)
<1>1. Sender \subseteq Coroutine /\ Receiver \subseteq Coroutine /\ Sender \cap Receiver = {}
  BY ChannelAssumption DEF Coroutine
<1>2. Range(cs) \subseteq Sender /\ \A c \in Range(cs) : at[c] = "parked" /\ Dest[c] = k
  BY WokenSenders
<1>3. chan'[k].buffer = Tail(chan[k].buffer) /\ (j # k => chan'[j].buffer = chan[j].buffer)
  <2>1. chan \in [Channel -> Conduit]
    BY ChannelTypesAre DEF LinesInv
  <2> QED  BY <2>1 DEF Conduit
<1>4. /\ Len(chan[j].buffer) \in Nat /\ Len(chan[k].buffer) \in Nat
      /\ Len(Tail(chan[k].buffer)) + 1 = Len(chan[k].buffer)
  BY BufferLength
<1>5. \A s \in Sender : at'[s] = IF s \in Range(cs) THEN "woken" ELSE at[s]
  BY <1>1
<1>6. \A c \in Receiver : c # r => at'[c] = at[c] /\ on'[c] = on[c]
  BY <1>1, <1>2
<1>7. CASE j = k
  <2>1. Len(chan'[k].buffer) + 1 >= Len(chan[k].buffer)
    <3>1. Len(chan'[k].buffer) + 1 = Len(chan[k].buffer)
      BY <1>3, <1>4
    <3> QED  BY <1>4, <3>1
  <2> QED  BY <1>5, <1>6, <1>7, <2>1, WakingSlots
<1>8. CASE j # k
  <2>1. Len(chan'[j].buffer) >= Len(chan[j].buffer)
    BY <1>3, <1>4, <1>8
  <2>2. \A s \in Sender : Dest[s] = j => at'[s] = at[s]
    BY <1>2, <1>5, <1>8
  <2> HIDE DEF cs
  <2>3. \A c \in Receiver : at'[c] = "parked" => c # r
    OBVIOUS
  <2> QED  BY <1>6, <2>1, <2>2, <2>3, ClaimQuiet
<1> QED  BY <1>7, <1>8

\* When a receiver parks: the next sender of each channel it awaits is woken.
LEMMA ParkedSlots ==
    ASSUME LinesInv, LinesInv', \A j \in Channel : Claimed(j), NEW r \in Receiver, at[r] = "running",
           NEW K \in SUBSET Channel,
           \A j \in Channel : chan'[j].buffer = chan[j].buffer,
           \A s \in Sender : at'[s] = IF Dest[s] \in K /\ s \in Range(NextSender(chan[Dest[s]].senders))
                                      THEN "woken" ELSE at[s],
           \A c \in Receiver : c # r => at'[c] = at[c] /\ on'[c] = on[c],
           \A j \in Channel : on'[r] \in {j, All} => j \in K
    PROVE  \A j \in Channel : Claimed(j)'
<1> SUFFICES ASSUME NEW j \in Channel PROVE Claimed(j)'
  OBVIOUS
<1>1. Len(chan'[j].buffer) >= Len(chan[j].buffer)
  <2>1. Len(chan[j].buffer) \in Nat
    BY BufferLength
  <2> QED  BY <2>1
<1>2. CASE j \in K
  <2>1. \A s \in Sender : Dest[s] = j => at'[s] = IF s \in Range(NextSender(chan[j].senders)) THEN "woken" ELSE at[s]
    BY <1>2
  <2> QED  BY <1>1, <2>1, WakingSlots
<1>3. CASE j \notin K
  <2>1. \A s \in Sender : Dest[s] = j => at'[s] = at[s]
    BY <1>3
  <2>2. \A c \in Receiver : at'[c] = "parked" /\ on'[c] \in {j, All} => at[c] = "parked" /\ on[c] \in {j, All}
    BY <1>3
  <2> QED  BY <1>1, <2>1, <2>2, ClaimQuiet
<1> QED  BY <1>2, <1>3

\* The slots stay claimed when a receiver takes a step.
LEMMA ReceiverSlots ==
    ASSUME LinesInv, LinesInv', \A j \in Channel : Claimed(j), NEW r \in Receiver,
           \/ \E k \in Channel : RecvNow(r, k) \/ RecvParks(r, k) \/ RecvForParks(r, k)
           \/ SelectParks(r) \/ RecvTimer(r)
    PROVE  \A j \in Channel : Claimed(j)'
<1>1. /\ Sender \subseteq Coroutine /\ Receiver \subseteq Coroutine /\ Sender \cap Receiver = {}
      /\ r \in Coroutine /\ r \notin Sender
  BY ChannelAssumption DEF Coroutine
<1>2. chan \in [Channel -> Conduit] /\ at \in [Coroutine -> States]
  BY ChannelTypesAre DEF LinesInv
<1>3. ASSUME NEW k \in Channel, RecvNow(r, k) PROVE \A j \in Channel : Claimed(j)'
  <2> DEFINE cs == NextSender(chan[k].senders)
  <2>1. /\ at[r] = "running" /\ chan[k].buffer # <<>> /\ at' = Wake(at, cs) /\ on' = on
        /\ chan' = [chan EXCEPT ![k].buffer = Tail(@), ![k].senders = AfterLive(@)]
    BY <1>3 DEF RecvNow, Pop
  <2>2. Range(cs) \subseteq Sender
    BY WokenSenders
  <2>3. \A c \in Coroutine : at'[c] = IF c \in Range(cs) THEN "woken" ELSE at[c]
    BY <1>2, <2>1, WakeIs
  <2>4. at'[r] = "running"
    BY <1>1, <2>1, <2>2, <2>3
  <2> QED  BY <2>1, <2>3, <2>4, TakenSlots
<1>4. ASSUME NEW k \in Channel, RecvParks(r, k) \/ RecvForParks(r, k) PROVE \A j \in Channel : Claimed(j)'
  <2> DEFINE cs == NextSender(chan[k].senders)
  <2>1. /\ cs \in Seq(Coroutine) /\ IsInjective(cs) /\ Range(cs) \subseteq Sender
        /\ \A c \in Range(cs) : at[c] = "parked" /\ Dest[c] = k
    BY WokenSenders
  <2>2. at[r] = "running" /\ \E t \in BOOLEAN : Parks(r, k, t, at, cs)
    BY <1>4 DEF RecvParks, RecvForParks
  <2>3. \A j \in Channel : chan'[j].buffer = chan[j].buffer
    <3>1. CASE RecvParks(r, k)
      BY <1>2, <3>1 DEF RecvParks, Conduit
    <3>2. CASE RecvForParks(r, k)
      BY <1>2, <3>2 DEF RecvForParks, Conduit
    <3> QED  BY <1>4, <3>1, <3>2
  <2> HIDE DEF cs
  <2>4. /\ on'[r] = k
        /\ \A c \in Coroutine : c # r => at'[c] = (IF c \in Range(cs) THEN "woken" ELSE at[c]) /\ on'[c] = on[c]
    <3> DEFINE a == [at EXCEPT ![r] = "parked"]
    <3>1. at' = Wake(a, cs) /\ on' = [on EXCEPT ![r] = k]
      BY <2>2 DEF Parks
    <3>2. a \in [Coroutine -> States] /\ \A c \in Coroutine : c # r => a[c] = at[c]
      BY <1>1, <1>2 DEF States
    <3> HIDE DEF a
    <3>3. \A c \in Coroutine : at'[c] = IF c \in Range(cs) THEN "woken" ELSE a[c]
      BY <3>1, <3>2, WakeIs
    <3>4. on'[r] = k /\ \A c \in Coroutine : c # r => on'[c] = on[c]
      BY <1>1, <3>1, ChannelTypesAre DEF LinesInv
    <3> QED  BY <3>2, <3>3, <3>4
  <2>5. ASSUME NEW s \in Sender
        PROVE  at'[s] = IF Dest[s] \in {k} /\ s \in Range(NextSender(chan[Dest[s]].senders)) THEN "woken" ELSE at[s]
    <3>1. at'[s] = IF s \in Range(cs) THEN "woken" ELSE at[s]
      BY <1>1, <2>4
    <3>2. s \in Range(cs) => Dest[s] = k
      BY <2>1
    <3> QED  BY <3>1, <3>2 DEF cs
  <2>6. \A c \in Receiver : c # r => at'[c] = at[c] /\ on'[c] = on[c]
    BY <1>1, <2>1, <2>4
  <2>7. {k} \in SUBSET Channel /\ \A j \in Channel : on'[r] \in {j, All} => j \in {k}
    <3>1. k # All
      BY ChannelAssumption DEF All
    <3> QED  BY <2>4, <3>1
  <2> QED  BY <2>2, <2>3, <2>5, <2>6, <2>7, ParkedSlots
<1>5. CASE SelectParks(r)
  <2>1. PICK cs \in SetToSeqs(FirstOfEach) : Parks(r, All, FALSE, at, cs)
    BY <1>5 DEF SelectParks, FirstOfEach
  <2>2. /\ cs \in Seq(Coroutine) /\ IsInjective(cs)
        /\ Range(cs) \subseteq Sender /\ \A c \in Range(cs) : at[c] = "parked"
        /\ \A k \in Channel :
              \A s \in Sender : s \in Range(cs) /\ Dest[s] = k <=> s \in Range(NextSender(chan[k].senders))
    BY <2>1, FirstOfEachIs
  <2>3. at[r] = "running" /\ \A j \in Channel : chan'[j].buffer = chan[j].buffer
    BY <1>2, <1>5 DEF SelectParks, Conduit
  <2>4. \A c \in Coroutine : c # r => at'[c] = (IF c \in Range(cs) THEN "woken" ELSE at[c]) /\ on'[c] = on[c]
    BY ZenonT(60), <2>1, <2>2, <2>3, ParksIs
  <2>5. ASSUME NEW s \in Sender
        PROVE  at'[s] = IF Dest[s] \in Channel /\ s \in Range(NextSender(chan[Dest[s]].senders))
                        THEN "woken" ELSE at[s]
    <3>1. at'[s] = IF s \in Range(cs) THEN "woken" ELSE at[s]
      BY <1>1, <2>4
    <3>2. Dest[s] \in Channel
      BY ChannelAssumption
    <3>3. s \in Range(cs) <=> s \in Range(NextSender(chan[Dest[s]].senders))
      BY <2>2, <3>2
    <3> QED  BY <3>1, <3>2, <3>3
  <2>6. \A c \in Receiver : c # r => at'[c] = at[c] /\ on'[c] = on[c]
    BY <1>1, <2>2, <2>4
  <2>7. Channel \in SUBSET Channel /\ \A j \in Channel : on'[r] \in {j, All} => j \in Channel
    OBVIOUS
  <2> QED  BY <2>3, <2>5, <2>6, <2>7, ParkedSlots
<1>6. CASE RecvTimer(r)
  <2>1. at' = [at EXCEPT ![r] = "woken"] /\ chan' = Retire(chan, r) /\ on' = on
    BY <1>6 DEF RecvTimer
  <2>2. \A j \in Channel : chan'[j].buffer = chan[j].buffer
    BY <1>2, <2>1 DEF Retire, Conduit
  <2>3. at'[r] = "woken" /\ \A c \in Coroutine : c # r => at'[c] = at[c]
    BY <1>1, <1>2, <2>1
  <2> SUFFICES ASSUME NEW j \in Channel PROVE Claimed(j)'
    OBVIOUS
  <2>4. Len(chan'[j].buffer) >= Len(chan[j].buffer)
    <3>1. Len(chan[j].buffer) \in Nat
      BY BufferLength
    <3> QED  BY <2>2, <3>1
  <2>5. \A s \in Sender : at'[s] = at[s]
    BY <1>1, <2>3
  <2>6. \A c \in Receiver : at'[c] = "parked" => at[c] = "parked"
    BY <1>1, <2>3
  <2> QED  BY <2>1, <2>4, <2>5, <2>6, ClaimQuiet
<1> QED  BY <1>3, <1>4, <1>5, <1>6

\* When a receiver is resumed: a plain recv() on a closed channel looks at the
\* buffer again.
LEMMA ReceiverResumesSlots ==
    ASSUME LinesInv, LinesInv', \A j \in Channel : Claimed(j), NEW r \in Receiver, ReceiverResumes(r)
    PROVE  \A j \in Channel : Claimed(j)'
<1> DEFINE k == on[r]
           again == result[r] = Closed /\ k # All /\ ~timed[r] /\ chan[k].alive /\ chan[k].buffer # <<>>
           cs == IF again THEN NextSender(chan[k].senders) ELSE <<>>
           a == [at EXCEPT ![r] = "running"]
<1>1. /\ readyQueue # <<>> /\ r = Head(readyQueue)
      /\ at' = Wake(a, cs) /\ on' = [on EXCEPT ![r] = None]
  BY ZenonT(60) DEF ReceiverResumes
<1>2. IF again THEN Pop(k) ELSE UNCHANGED chan
  BY ZenonT(60) DEF ReceiverResumes
<1>3. at[r] = "woken"
  BY <1>1, HeadIsReady DEF LinesInv, Posted
<1>4. k \in Channel \union {All}
  BY <1>3 DEF LinesInv, Posted
<1>5. /\ Sender \subseteq Coroutine /\ Receiver \subseteq Coroutine /\ Sender \cap Receiver = {}
      /\ r \in Coroutine /\ r \notin Sender
  BY ChannelAssumption DEF Coroutine
<1>6. a \in [Coroutine -> States] /\ a[r] = "running" /\ \A c \in Coroutine : c # r => a[c] = at[c]
  BY <1>5, ChannelTypesAre DEF LinesInv, States
<1>7. \A c \in Coroutine : c # r => on'[c] = on[c]
  BY <1>1, ChannelTypesAre DEF LinesInv
<1>8. Range(cs) \subseteq Sender
  <2>1. Range(<<>>) = {}
    BY EmptyQueue
  <2>2. CASE again
    <3>1. k \in Channel /\ cs = NextSender(chan[k].senders)
      BY <1>4, <2>2
    <3> HIDE DEF k, again, cs
    <3> QED  BY <3>1, WokenSenders
  <2>3. CASE ~again
    BY <2>1, <2>3
  <2> QED  BY <2>2, <2>3
<1>9. \A c \in Coroutine : at'[c] = IF c \in Range(cs) THEN "woken" ELSE a[c]
  <2> HIDE DEF cs, a
  <2> QED  BY <1>1, <1>6, WakeIs
<1>10. at'[r] = "running"
  <2> HIDE DEF cs, a
  <2> QED  BY <1>5, <1>6, <1>8, <1>9
<1>11. CASE again
  <2>1. k \in Channel /\ chan[k].buffer # <<>> /\ cs = NextSender(chan[k].senders)
    BY <1>4, <1>11
  <2>2. chan' = [chan EXCEPT ![k].buffer = Tail(@), ![k].senders = AfterLive(@)]
    BY <1>2, <1>11 DEF Pop
  <2> HIDE DEF k, again, a, cs
  <2>3. \A c \in Coroutine : c # r =>
           at'[c] = (IF c \in Range(NextSender(chan[k].senders)) THEN "woken" ELSE at[c]) /\ on'[c] = on[c]
    BY <1>6, <1>7, <1>9, <2>1
  <2> QED  BY <1>3, <1>10, <2>1, <2>2, <2>3, TakenSlots
<1>12. CASE ~again
  <2>1. chan' = chan /\ Range(cs) = {}
    BY <1>2, <1>12, EmptyQueue
  <2> HIDE DEF k, again, a, cs
  <2>2. \A c \in Coroutine : c # r => at'[c] = at[c]
    BY <1>6, <1>9, <2>1
  <2> SUFFICES ASSUME NEW j \in Channel PROVE Claimed(j)'
    OBVIOUS
  <2>3. Len(chan'[j].buffer) >= Len(chan[j].buffer)
    <3>1. Len(chan[j].buffer) \in Nat
      BY BufferLength
    <3> QED  BY <2>1, <3>1
  <2>4. \A s \in Sender : at'[s] = at[s]
    BY <1>5, <2>2
  <2>5. \A c \in Receiver : at'[c] = "parked" => at[c] = "parked" /\ on'[c] = on[c]
    BY <1>5, <1>7, <1>10, <2>2
  <2> QED  BY <2>3, <2>4, <2>5, ClaimQuiet
<1> QED  BY SMTT(40), <1>11, <1>12

\* When a channel is closed or goes.
LEMMA CloseSlots ==
    ASSUME LinesInv, LinesInv', \A j \in Channel : Claimed(j), NEW k \in Channel, Close(k) \/ DropChannel(k)
    PROVE  \A j \in Channel : Claimed(j)'
<1>1. chan \in [Channel -> Conduit] /\ at \in [Coroutine -> States]
  BY ChannelTypesAre DEF LinesInv
<1>2. /\ Sender \subseteq Coroutine /\ Receiver \subseteq Coroutine
      /\ \A j \in Channel : Len(chan[j].buffer) \in Nat
  BY BufferLength DEF Coroutine
<1> SUFFICES ASSUME NEW j \in Channel PROVE Claimed(j)'
  OBVIOUS
<1>3. ASSUME NEW up \in BOOLEAN, CloseChannel(k, up) PROVE Claimed(j)'
  <2> DEFINE rs == chan[k].receivers
             ss == Without(chan[k].senders, {Stale})
             ws == Without(chan[k].selects, {Stale})
             cs == rs \o ss \o ws
             shut == [chan EXCEPT ![k].receivers = <<>>, ![k].senders = <<>>, ![k].selects = <<>>,
                                  ![k].closed = TRUE, ![k].alive = up]
  <2>1. /\ at' = Wake(at, cs) /\ on' = on
        /\ chan' = [i \in Channel |-> [shut[i] EXCEPT !.selects = GoStale(@, Range(ws))]]
    BY <1>3 DEF CloseChannel
  <2>2. /\ Range(cs) = Range(rs) \cup Waiting(chan[k].senders) \cup Waiting(chan[k].selects)
        /\ \A c \in Range(cs) : c \in Coroutine /\ at[c] = "parked"
    BY ClosedLine
  <2>3. /\ shut \in [Channel -> Conduit] /\ shut[k].closed = TRUE
        /\ \A i \in Channel : i # k => shut[i] = chan[i]
    <3> DEFINE c == [chan[k] EXCEPT !.receivers = <<>>, !.senders = <<>>, !.selects = <<>>,
                                    !.closed = TRUE, !.alive = up]
    <3>1. shut = [chan EXCEPT ![k] = c]
      BY <1>1
    <3>2. c \in Conduit /\ c.closed = TRUE
      <4>1. chan[k] \in Conduit /\ \A S : <<>> \in Seq(S)
        BY <1>1
      <4> QED  BY <1>3, <4>1 DEF Conduit
    <3> HIDE DEF c, shut
    <3> QED  BY <1>1, <3>1, <3>2
  <2>4. \A c \in Coroutine : at'[c] = IF c \in Range(cs) THEN "woken" ELSE at[c]
    <3> HIDE DEF cs
    <3> QED  BY <1>1, <2>1, WakeIs
  <2>5. /\ \A s \in Sender : s \in Waiting(chan[k].senders) <=> at[s] = "parked" /\ Dest[s] = k
        /\ Waiting(chan[k].selects) \subseteq Receiver /\ Range(rs) \subseteq Receiver
        /\ Sender \cap Receiver = {}
    BY LinesAre
  <2> HIDE DEF rs, ss, ws, cs, shut
  <2>6. shut[j] \in Conduit /\ chan'[j] = [shut[j] EXCEPT !.selects = GoStale(@, Range(ws))]
    BY <2>1, <2>3
  <2>7. CASE j = k
    <3>1. chan'[k].closed
      BY <2>3, <2>6, <2>7 DEF Conduit
    <3> QED  BY <2>7, <3>1, ClaimShut
  <2>8. CASE j # k
    <3>1. chan'[j].buffer = chan[j].buffer
      BY <2>3, <2>6, <2>8 DEF Conduit
    <3>2. Len(chan'[j].buffer) >= Len(chan[j].buffer)
      BY <1>2, <3>1
    <3>3. \A s \in Sender : Dest[s] = j => at'[s] = at[s]
      BY <1>2, <2>2, <2>4, <2>5, <2>8
    <3>4. \A c \in Receiver : at'[c] = "parked" => at[c] = "parked"
      BY <1>2, <2>4
    <3> QED  BY <2>1, <3>2, <3>3, <3>4, ClaimQuiet
  <2> QED  BY SMTT(40), <2>7, <2>8
<1>4. CASE /\ chan' = [chan EXCEPT ![k].alive = FALSE]
           /\ UNCHANGED <<at, on, timed, result, readyQueue, sent, hist>>
  <2>1. chan'[j].buffer = chan[j].buffer
    BY <1>1, <1>4 DEF Conduit
  <2>2. Len(chan'[j].buffer) >= Len(chan[j].buffer)
    BY <1>2, <2>1
  <2> QED  BY <1>4, <2>2, ClaimQuiet
<1> QED  BY <1>3, <1>4 DEF Close, DropChannel

\* The frame of a sender that was woken is never destroyed before it runs.
WokenSendersRun == "woken sender" \notin Reclaim

\* When a frame is destroyed that is not a sender's, woken for a slot.
LEMMA DestroySlots ==
    ASSUME LinesInv, LinesInv', \A j \in Channel : Claimed(j), WokenSendersRun,
           NEW c \in Coroutine, Destroy(c)
    PROVE  \A j \in Channel : Claimed(j)'
<1>1. /\ at'[c] = "running"
      /\ \A d \in Coroutine : d # c => at'[d] = at[d] /\ on'[d] = on[d]
  BY DestroyIs
<1>2. /\ chan \in [Channel -> Conduit] /\ Sender \subseteq Coroutine /\ Receiver \subseteq Coroutine
      /\ Sender \cap Receiver = {}
  BY ChannelTypesAre, ChannelAssumption DEF LinesInv, Coroutine
<1>3. c \in Sender => at[c] # "woken"
  BY <1>2 DEF Destroy, DestroyParked, DestroyScheduledSender, WokenSendersRun
<1> SUFFICES ASSUME NEW j \in Channel PROVE Claimed(j)'
  OBVIOUS
<1>4. Len(chan'[j].buffer) >= Len(chan[j].buffer)
  <2>1. Len(chan[j].buffer) \in Nat /\ \A v \in Values : Len(Append(chan[j].buffer, v)) = Len(chan[j].buffer) + 1
    BY BufferLength
  <2>2. chan'[j].buffer = chan[j].buffer \/ \E v \in Values : chan'[j].buffer = Append(chan[j].buffer, v)
    <3>1. CASE DestroyParked(c)
      BY <1>2, <3>1 DEF DestroyParked, Conduit
    <3>2. CASE DestroyScheduledSender(c)
      BY <3>2 DEF DestroyScheduledSender
    <3>3. CASE c \in Receiver /\ DestroyWokenReceiver(c)
      <4> DEFINE v == result[c]
                 k == on[c]
      <4>1. \/ UNCHANGED chan
            \/ v \in Values /\ k # All /\ chan' = [chan EXCEPT ![k].buffer = Append(@, v)]
        BY <3>3 DEF DestroyWokenReceiver
      <4>2. k \in Channel \union {All}
        BY <3>3 DEF LinesInv, Posted, DestroyWokenReceiver
      <4> HIDE DEF v, k
      <4>3. CASE v \in Values /\ k # All /\ chan' = [chan EXCEPT ![k].buffer = Append(@, v)]
        <5>1. k \in Channel
          BY <4>2, <4>3
        <5>2. chan'[j].buffer = IF j = k THEN Append(chan[j].buffer, v) ELSE chan[j].buffer
          BY <1>2, <4>3, <5>1 DEF Conduit
        <5> QED  BY <4>3, <5>2
      <4> QED  BY <4>1, <4>3
    <3> QED  BY <3>1, <3>2, <3>3 DEF Destroy
  <2>0. Len(chan[j].buffer) \in Nat
    BY <2>1
  <2>3. CASE chan'[j].buffer = chan[j].buffer
    BY <2>0, <2>3
  <2>4. ASSUME NEW v \in Values, chan'[j].buffer = Append(chan[j].buffer, v)
        PROVE  Len(chan'[j].buffer) >= Len(chan[j].buffer)
    <3>1. Len(chan'[j].buffer) = Len(chan[j].buffer) + 1
      BY <2>1, <2>4
    <3> QED  BY <2>0, <3>1
  <2> QED  BY <2>2, <2>3, <2>4
<1>5. \A s \in Sender : (at'[s] = "parked" => at[s] = "parked") /\ (at[s] = "woken" => at'[s] = "woken")
  BY <1>1, <1>2, <1>3
<1>6. \A r \in Receiver : at'[r] = "parked" => at[r] = "parked" /\ on'[r] = on[r]
  BY <1>1, <1>2
<1> QED  BY <1>4, <1>5, <1>6, ClaimQuiet

\* Every step keeps the slots claimed.
LEMMA SlotsStep ==
    ASSUME LinesInv, LinesInv', SlotsAreClaimed, WokenSendersRun, [ChannelNext]_channelVars
    PROVE  SlotsAreClaimed'
<1>1. \A j \in Channel : Claimed(j)
  BY DEF SlotsAreClaimed, Claimed, WokenFor, Waiters
<1> SUFFICES \A j \in Channel : Claimed(j)'
  BY DEF SlotsAreClaimed, Claimed, WokenFor, Waiters
<1>2. CASE UNCHANGED channelVars
  <2>1. UNCHANGED <<chan, at, on>>
    BY <1>2 DEF channelVars, sys
  <2> QED  BY <1>1, <2>1 DEF Claimed, WokenFor, Waiters, RecvWaits, SendWaits
<1>3. ASSUME NEW s \in Sender,
             \/ SendNow(s) \/ TrySendFails(s) \/ \E t \in BOOLEAN : SendParks(s, t)
             \/ SenderResumes(s) \/ SendTimer(s) \/ FiredResumes(s)
      PROVE  \A j \in Channel : Claimed(j)'
  BY <1>1, <1>3, OfferSlots, ResumedSenderSlots
<1>4. ASSUME NEW r \in Receiver,
             \/ \E k \in Channel : RecvNow(r, k) \/ RecvParks(r, k) \/ RecvForParks(r, k)
             \/ SelectParks(r) \/ RecvTimer(r) \/ ReceiverResumes(r)
      PROVE  \A j \in Channel : Claimed(j)'
  BY <1>1, <1>4, ReceiverSlots, ReceiverResumesSlots
<1>5. ASSUME NEW k \in Channel, Close(k) \/ DropChannel(k) PROVE \A j \in Channel : Claimed(j)'
  BY <1>1, <1>5, CloseSlots
<1>6. ASSUME NEW c \in Coroutine, Destroy(c) PROVE \A j \in Channel : Claimed(j)'
  BY <1>1, <1>6, DestroySlots
<1> QED
  BY <1>2, <1>3, <1>4, <1>5, <1>6 DEF ChannelNext

(* No slot goes unclaimed and no handle dangles, as long as a sender that  *)
(* was woken for a slot is resumed: the queues of every channel hold those *)
(* parked there, each once, and while a sender is parked, the buffer and   *)
(* the senders already woken account for the capacity and for every        *)
(* receiver that waits.                                                    *)
THEOREM ChannelQueuesAreTrue ==
    ASSUME "woken sender" \notin Reclaim
    PROVE  ChannelSpec => []QueuesAreTrue
<1>1. ChannelInit => LinesInv /\ SlotsAreClaimed
  <2>1. ASSUME ChannelInit PROVE \A s \in Sender : at[s] = "running"
    BY <2>1 DEF ChannelInit, Coroutine
  <2> QED  BY <2>1, LinesStart DEF SlotsAreClaimed, SendWaits
<1>2. LinesInv /\ SlotsAreClaimed /\ [ChannelNext]_channelVars => LinesInv' /\ SlotsAreClaimed'
  BY LinesStep, SlotsStep DEF WokenSendersRun
<1>3. LinesInv /\ SlotsAreClaimed => QueuesAreTrue
  BY LinesHoldTheParked DEF QueuesAreTrue, LinesInv, ChannelTypes
<1> QED  BY <1>1, <1>2, <1>3, PTL DEF ChannelSpec
=============================================================================
