---------------------------- MODULE QueueTheorems ----------------------------
(***************************************************************************)
(* What Head, Tail, Append and concatenation do to the elements of a queue *)
(* that holds nothing twice.                                               *)
(***************************************************************************)
EXTENDS Integers, Queues, FiniteSetTheorems, TLAPS

\* Counting the members up to each one numbers a finite set of positions.
LEMMA RankIsBijection ==
    ASSUME NEW n \in Nat, NEW S \in SUBSET (1..n)
    PROVE  /\ IsFiniteSet(S) /\ Cardinality(S) \in Nat
           /\ [i \in S |-> Cardinality({j \in S : j <= i})] \in Bijection(S, 1..Cardinality(S))
<1> DEFINE rank == [i \in S |-> Cardinality({j \in S : j <= i})]
<1>1. IsFiniteSet(S) /\ Cardinality(S) \in Nat
  <2>1. IsFiniteSet(1..n)
    BY FS_Interval, 1 \in Int, n \in Int
  <2> QED
    BY <2>1, FS_Subset, FS_CardinalityType
<1>2. ASSUME NEW i \in S
      PROVE  /\ IsFiniteSet({j \in S : j <= i}) /\ rank[i] \in 1..Cardinality(S)
  <2>1. /\ IsFiniteSet({j \in S : j <= i})
        /\ Cardinality({j \in S : j <= i}) <= Cardinality(S)
        /\ Cardinality({j \in S : j <= i}) \in Nat
    BY <1>1, FS_Subset, FS_CardinalityType
  <2>2. {j \in S : j <= i} # {}
    OBVIOUS
  <2>3. Cardinality({j \in S : j <= i}) # 0
    BY <2>1, <2>2, FS_EmptySet
  <2> QED
    BY <1>1, <2>1, <2>3
<1>3. ASSUME NEW i \in S, NEW k \in S, i < k
      PROVE  rank[i] # rank[k]
  <2>1. {j \in S : j <= i} \in SUBSET {j \in S : j <= k}
    <3>1. \A j \in S : j <= i => j <= k
      BY <1>3
    <3> QED
      BY <3>1
  <2>2. {j \in S : j <= i} # {j \in S : j <= k}
    <3>1. k \in {j \in S : j <= k} /\ k \notin {j \in S : j <= i}
      BY <1>3
    <3> QED
      BY <3>1
  <2>3. IsFiniteSet({j \in S : j <= k})
    BY <1>2
  <2> QED
    BY <2>1, <2>2, <2>3, FS_Subset
<1>4. rank \in Injection(S, 1..Cardinality(S))
  <2>1. rank \in [S -> 1..Cardinality(S)]
    BY <1>2
  <2>2. ASSUME NEW i \in S, NEW k \in S, rank[i] = rank[k]
        PROVE  i = k
    <3>1. i \in Int /\ k \in Int
      OBVIOUS
    <3>2. ~(i < k) /\ ~(k < i)
      BY <1>3, <2>2
    <3> QED
      BY <3>1, <3>2
  <2> QED
    BY <2>1, <2>2 DEF Injection, IsInjective
<1>5. rank \in Surjection(S, 1..Cardinality(S))
  <2>1. IsFiniteSet(1..Cardinality(S)) /\ Cardinality(1..Cardinality(S)) = Cardinality(S)
    BY <1>1, FS_Interval
  <2> QED
    BY <1>4, <2>1, FS_Injection
<1> QED
  BY <1>1, <1>4, <1>5 DEF Bijection

\* The empty queue.
LEMMA EmptyQueue ==
    /\ IsInjective(<<>>) /\ Range(<<>>) = {}
    /\ \A S : <<>> \in Seq(S)
BY DEF IsInjective, Range

\* Taking the first element out.
LEMMA HeadAndTail ==
    ASSUME NEW S, NEW q \in Seq(S), IsInjective(q), q # <<>>
    PROVE  /\ Head(q) \in S /\ Head(q) \in Range(q)
           /\ Tail(q) \in Seq(S) /\ IsInjective(Tail(q))
           /\ Range(Tail(q)) = Range(q) \ {Head(q)}
<1>1. Len(q) \in Nat \ {0} /\ DOMAIN q = 1..Len(q) /\ Head(q) = q[1] /\ Head(q) \in S
  OBVIOUS
<1>2. /\ Tail(q) \in Seq(S) /\ DOMAIN Tail(q) = 1..(Len(q) - 1)
      /\ \A i \in 1..(Len(q) - 1) : Tail(q)[i] = q[i + 1]
  OBVIOUS
<1>3. Head(q) \in Range(q)
  BY <1>1 DEF Range
<1>4. IsInjective(Tail(q))
  BY <1>1, <1>2 DEF IsInjective
<1>5. ASSUME NEW c
      PROVE  c \in Range(Tail(q)) <=> c \in Range(q) /\ c # Head(q)
  <2>1. ASSUME c \in Range(Tail(q)) PROVE c \in Range(q) /\ c # Head(q)
    <3>1. PICK i \in 1..(Len(q) - 1) : c = q[i + 1]
      BY <2>1, <1>2 DEF Range
    <3>2. i + 1 \in 1..Len(q) /\ i + 1 # 1 /\ 1 \in 1..Len(q)
      BY <1>1
    <3> QED
      BY <3>1, <3>2, <1>1 DEF Range, IsInjective
  <2>2. ASSUME c \in Range(q), c # Head(q) PROVE c \in Range(Tail(q))
    <3>1. PICK i \in 1..Len(q) : c = q[i]
      BY <2>2, <1>1 DEF Range
    <3>2. i # 1
      BY <3>1, <2>2, <1>1
    <3>3. i - 1 \in 1..(Len(q) - 1) /\ Tail(q)[i - 1] = q[i]
      BY <3>2, <1>1, <1>2
    <3> QED
      BY <3>1, <3>3, <1>2 DEF Range
  <2> QED
    BY <2>1, <2>2
<1> QED
  BY <1>1, <1>2, <1>3, <1>4, <1>5

\* Putting one queue behind another.
LEMMA JoinedQueues ==
    ASSUME NEW S, NEW q \in Seq(S), IsInjective(q), NEW r \in Seq(S), IsInjective(r),
           Range(q) \cap Range(r) = {}
    PROVE  /\ q \o r \in Seq(S) /\ IsInjective(q \o r)
           /\ Range(q \o r) = Range(q) \cup Range(r)
<1>1. /\ Len(q) \in Nat /\ DOMAIN q = 1..Len(q) /\ Len(r) \in Nat /\ DOMAIN r = 1..Len(r)
      /\ q \o r \in Seq(S) /\ DOMAIN (q \o r) = 1..(Len(q) + Len(r))
      /\ \A i \in 1..(Len(q) + Len(r)) : (q \o r)[i] = IF i <= Len(q) THEN q[i] ELSE r[i - Len(q)]
  OBVIOUS
<1>2. \A i \in 1..Len(q), j \in 1..Len(r) : q[i] # r[j]
  BY <1>1 DEF Range
<1>3. IsInjective(q \o r)
  BY <1>1, <1>2 DEF IsInjective
<1>4. \A c \in Range(q) : c \in Range(q \o r)
  <2> SUFFICES ASSUME NEW i \in 1..Len(q) PROVE q[i] \in Range(q \o r)
    BY <1>1 DEF Range
  <2>1. i \in 1..(Len(q) + Len(r)) /\ (q \o r)[i] = q[i]
    BY <1>1
  <2> QED
    BY <2>1, <1>1 DEF Range
<1>5. \A c \in Range(r) : c \in Range(q \o r)
  <2> SUFFICES ASSUME NEW i \in 1..Len(r) PROVE r[i] \in Range(q \o r)
    BY <1>1 DEF Range
  <2>1. Len(q) + i \in 1..(Len(q) + Len(r)) /\ (q \o r)[Len(q) + i] = r[i]
    BY <1>1
  <2> QED
    BY <2>1, <1>1 DEF Range
<1>6. \A c \in Range(q \o r) : c \in Range(q) \/ c \in Range(r)
  <2> SUFFICES ASSUME NEW i \in 1..(Len(q) + Len(r)) PROVE (q \o r)[i] \in Range(q) \/ (q \o r)[i] \in Range(r)
    BY <1>1 DEF Range
  <2>1. CASE i <= Len(q)
    BY <2>1, <1>1 DEF Range
  <2>2. CASE ~(i <= Len(q))
    <3>1. i - Len(q) \in 1..Len(r)
      BY <2>2, <1>1
    <3> QED
      BY <3>1, <2>2, <1>1 DEF Range
  <2> QED
    BY <2>1, <2>2
<1> QED
  BY <1>1, <1>3, <1>4, <1>5, <1>6

\* A queue of one.
LEMMA OneElement ==
    ASSUME NEW S, NEW c \in S
    PROVE  <<c>> \in Seq(S) /\ IsInjective(<<c>>) /\ Range(<<c>>) = {c}
<1>1. <<c>> \in Seq(S) /\ DOMAIN <<c>> = {1} /\ <<c>>[1] = c
  OBVIOUS
<1> QED
  BY <1>1 DEF IsInjective, Range

\* Putting one element behind a queue.
LEMMA AppendedQueue ==
    ASSUME NEW S, NEW q \in Seq(S), IsInjective(q), NEW c \in S, c \notin Range(q)
    PROVE  /\ Append(q, c) \in Seq(S) /\ IsInjective(Append(q, c))
           /\ Range(Append(q, c)) = Range(q) \cup {c}
<1> DEFINE r == <<c>>
<1>1. Append(q, c) = q \o r
  OBVIOUS
<1>2. r \in Seq(S) /\ IsInjective(r) /\ Range(r) = {c}
  BY OneElement
<1>3. Range(q) \cap Range(r) = {}
  BY <1>2
<1> HIDE DEF r
<1>4. q \o r \in Seq(S) /\ IsInjective(q \o r) /\ Range(q \o r) = Range(q) \cup Range(r)
  BY <1>2, <1>3, JoinedQueues
<1> QED
  BY <1>1, <1>2, <1>4

\* A queue is as long as the set of its elements.
LEMMA QueueLength ==
    ASSUME NEW S, NEW q \in Seq(S), IsInjective(q)
    PROVE  Len(q) \in Nat /\ IsFiniteSet(Range(q)) /\ Cardinality(Range(q)) = Len(q)
<1>1. Len(q) \in Nat /\ DOMAIN q = 1..Len(q) /\ q \in [1..Len(q) -> Range(q)]
  BY DEF Range
<1>2. q \in Bijection(1..Len(q), Range(q))
  BY <1>1 DEF Bijection, Injection, Surjection, IsInjective, Range
<1>3. ExistsBijection(1..Len(q), Range(q))
  BY <1>2 DEF ExistsBijection
<1>4. IsFiniteSet(1..Len(q)) /\ Cardinality(1..Len(q)) = Len(q)
  BY <1>1, FS_Interval, 1 \in Int, Len(q) \in Int
<1> QED
  BY <1>1, <1>3, <1>4, FS_Bijection

\* Keep picks the positions of the members of S, in their order.
LEMMA KeepPicks ==
    ASSUME NEW T, NEW q \in Seq(T), NEW S
    PROVE  /\ Keep(q, S) \in Seq(T)
           /\ \E f \in [1..Len(Keep(q, S)) -> {i \in DOMAIN q : q[i] \in S}] :
                 /\ \A k \in 1..Len(Keep(q, S)) : Keep(q, S)[k] = q[f[k]]
                 /\ \A k, l \in 1..Len(Keep(q, S)) : k < l => f[k] < f[l]
                 /\ \A i \in DOMAIN q : q[i] \in S => \E k \in 1..Len(Keep(q, S)) : f[k] = i
<1> DEFINE kept == {i \in DOMAIN q : q[i] \in S}
           rank == [i \in kept |-> Cardinality({j \in kept : j <= i})]
           at_(k) == CHOOSE i \in kept : Cardinality({j \in kept : j <= i}) = k
           n == Cardinality(kept)
           f == [k \in 1..n |-> at_(k)]
<1>1. Len(q) \in Nat /\ DOMAIN q = 1..Len(q) /\ kept \in SUBSET (1..Len(q))
  OBVIOUS
<1>2. IsFiniteSet(kept) /\ n \in Nat /\ rank \in Bijection(kept, 1..n)
  BY <1>1, RankIsBijection
<1>3. \A i, k \in kept : rank[i] = rank[k] => i = k
  BY <1>2 DEF Bijection, Injection, IsInjective
<1>4. \A k \in 1..n : \E i \in kept : rank[i] = k
  BY <1>2 DEF Bijection, Surjection
<1>5. \A k \in 1..n : at_(k) \in kept /\ rank[at_(k)] = k
  BY <1>4
<1>6. \A i \in kept : rank[i] \in 1..n /\ at_(rank[i]) = i
  <2>1. \A i \in kept : rank[i] \in 1..n
    BY <1>2 DEF Bijection, Injection
  <2> QED
    BY <2>1, <1>5, <1>3
<1>7. Keep(q, S) = [k \in 1..n |-> q[at_(k)]]
  BY DEF Keep
<1>8. ASSUME NEW i \in kept, NEW k \in kept, i <= k PROVE rank[i] <= rank[k]
  <2>1. {j \in kept : j <= i} \subseteq {j \in kept : j <= k}
    BY <1>8, <1>1
  <2>2. IsFiniteSet({j \in kept : j <= k})
    BY <1>2, FS_Subset
  <2>3. /\ Cardinality({j \in kept : j <= i}) <= Cardinality({j \in kept : j <= k})
    BY <2>1, <2>2, FS_Subset
  <2> QED
    BY <2>3
<1> HIDE DEF at_, rank, n
<1>9. \A k \in 1..n : q[at_(k)] \in T /\ q[at_(k)] \in S
  BY <1>5
<1>10. Keep(q, S) \in Seq(T) /\ Len(Keep(q, S)) = n
  BY <1>7, <1>9, <1>2
<1>11. ASSUME NEW k \in 1..n, NEW l \in 1..n, k < l PROVE at_(k) < at_(l)
  <2>1. at_(k) \in Int /\ at_(l) \in Int /\ k \in Int /\ l \in Int
    BY <1>5, <1>1, <1>2
  <2>2. at_(l) <= at_(k) => l <= k
    BY <1>8, <1>5
  <2> QED
    BY <2>1, <2>2, <1>11
<1>12. f \in [1..n -> kept]
  BY <1>5
<1> QED
  BY <1>5, <1>6, <1>7, <1>9, <1>10, <1>11, <1>12

\* Keep leaves the members of S in a queue that holds nothing twice.
LEMMA KeepIsTrue ==
    ASSUME NEW T, NEW q \in Seq(T), IsInjective(q), NEW S
    PROVE  /\ Keep(q, S) \in Seq(T)
           /\ IsInjective(Keep(q, S))
           /\ Range(Keep(q, S)) = Range(q) \cap S
<1> DEFINE r == Keep(q, S)
<1>1. PICK f \in [1..Len(r) -> {i \in DOMAIN q : q[i] \in S}] :
                 /\ \A k \in 1..Len(r) : r[k] = q[f[k]]
                 /\ \A k, l \in 1..Len(r) : k < l => f[k] < f[l]
                 /\ \A i \in DOMAIN q : q[i] \in S => \E k \in 1..Len(r) : f[k] = i
  BY KeepPicks
<1>2. r \in Seq(T)
  BY KeepPicks
<1> HIDE DEF r
<1>3. Len(r) \in Nat /\ DOMAIN r = 1..Len(r) /\ DOMAIN q = 1..Len(q) /\ Len(q) \in Nat
  BY <1>2
<1>4. IsInjective(r)
  <2>1. ASSUME NEW k \in 1..Len(r), NEW l \in 1..Len(r), r[k] = r[l] PROVE k = l
    <3>1. f[k] = f[l] /\ f[k] \in Int
      BY <2>1, <1>1, <1>3 DEF IsInjective
    <3>2. ~(k < l) /\ ~(l < k)
      BY <3>1, <1>1
    <3> QED
      BY <3>2, <1>3
  <2> QED
    BY <2>1, <1>3 DEF IsInjective
<1>5. Range(r) = Range(q) \cap S
  <2>1. ASSUME NEW c PROVE c \in Range(r) <=> c \in Range(q) /\ c \in S
    <3>1. c \in Range(r) <=> \E k \in 1..Len(r) : c = r[k]
      BY <1>3 DEF Range
    <3>2. c \in Range(q) <=> \E i \in DOMAIN q : c = q[i]
      BY DEF Range
    <3> QED
      BY <3>1, <3>2, <1>1
  <2> QED
    BY <2>1
<1> QED
  BY <1>2, <1>4, <1>5 DEF r

\* Without leaves the others.
LEMMA WithoutIsTrue ==
    ASSUME NEW T, NEW q \in Seq(T), IsInjective(q), NEW S
    PROVE  /\ Without(q, S) \in Seq(T)
           /\ IsInjective(Without(q, S))
           /\ Range(Without(q, S)) = Range(q) \ S
<1> DEFINE R == Range(q) \ S
<1>1. /\ Keep(q, R) \in Seq(T) /\ IsInjective(Keep(q, R))
      /\ Range(Keep(q, R)) = Range(q) \cap R
  BY KeepIsTrue
<1> QED
  BY <1>1 DEF Without

\* Positions of a queue that grows at its end.
LEMMA AppendedRange ==
    ASSUME NEW S, NEW q \in Seq(S), NEW c \in S
    PROVE  /\ Append(q, c) \in Seq(S) /\ Len(Append(q, c)) = Len(q) + 1
           /\ DOMAIN q = 1..Len(q) /\ Len(q) \in Nat /\ DOMAIN Append(q, c) = 1..(Len(q) + 1)
           /\ Append(q, c)[Len(q) + 1] = c
           /\ \A i \in 1..Len(q) : Append(q, c)[i] = q[i]
           /\ Range(Append(q, c)) = Range(q) \cup {c}
<1>1. /\ Append(q, c) \in Seq(S) /\ Len(Append(q, c)) = Len(q) + 1
      /\ DOMAIN q = 1..Len(q) /\ Len(q) \in Nat /\ DOMAIN Append(q, c) = 1..(Len(q) + 1)
      /\ Append(q, c)[Len(q) + 1] = c
      /\ \A i \in 1..Len(q) : Append(q, c)[i] = q[i]
  OBVIOUS
<1>2. ASSUME NEW x \in Range(Append(q, c)) PROVE x \in Range(q) \cup {c}
  <2>1. PICK i \in 1..(Len(q) + 1) : Append(q, c)[i] = x
    BY <1>1 DEF Range
  <2>2. i = Len(q) + 1 \/ i \in 1..Len(q)
    BY <1>1
  <2> QED
    BY <1>1, <2>1, <2>2 DEF Range
<1>3. ASSUME NEW x \in Range(q) PROVE x \in Range(Append(q, c))
  <2>1. PICK i \in 1..Len(q) : q[i] = x
    BY <1>1 DEF Range
  <2>2. i \in DOMAIN Append(q, c)
    BY <1>1
  <2> QED
    BY <1>1, <2>1, <2>2 DEF Range
<1>4. c \in Range(Append(q, c))
  <2>1. Len(q) + 1 \in DOMAIN Append(q, c)
    BY <1>1
  <2> QED
    BY <1>1, <2>1 DEF Range
<1> QED
  BY <1>1, <1>2, <1>3, <1>4

\* Positions of a queue whose first element is taken.
LEMMA TailRange ==
    ASSUME NEW S, NEW q \in Seq(S), q # <<>>
    PROVE  /\ Tail(q) \in Seq(S) /\ Len(q) \in Nat /\ DOMAIN q = 1..Len(q)
           /\ Len(Tail(q)) = Len(q) - 1 /\ DOMAIN Tail(q) = 1..(Len(q) - 1)
           /\ \A i \in 1..(Len(q) - 1) : Tail(q)[i] = q[i + 1]
           /\ Head(q) = q[1] /\ 1 \in DOMAIN q /\ Head(q) \in S /\ Head(q) \in Range(q)
           /\ Range(Tail(q)) \subseteq Range(q)
<1>1. /\ Tail(q) \in Seq(S) /\ Len(q) \in Nat /\ DOMAIN q = 1..Len(q)
      /\ Len(Tail(q)) = Len(q) - 1 /\ DOMAIN Tail(q) = 1..(Len(q) - 1)
      /\ \A i \in 1..(Len(q) - 1) : Tail(q)[i] = q[i + 1]
      /\ Head(q) = q[1] /\ 1 \in DOMAIN q /\ Head(q) \in S
  OBVIOUS
<1>2. ASSUME NEW x \in Range(Tail(q)) PROVE x \in Range(q)
  <2>1. PICK i \in 1..(Len(q) - 1) : Tail(q)[i] = x
    BY <1>1 DEF Range
  <2>2. i + 1 \in DOMAIN q
    BY <1>1
  <2> QED
    BY <1>1, <2>1, <2>2 DEF Range
<1>3. Head(q) \in Range(q)
  BY <1>1 DEF Range
<1> QED
  BY <1>1, <1>2, <1>3
=============================================================================
