---------------------------- MODULE RuntimeProofs ----------------------------
(***************************************************************************)
(* What the actors run on: the ring between a pair of cores (SpscRing),    *)
(* the start barrier and shutdown of Main (EngineLifecycle), and the       *)
(* connector and the sessions of the event loop (AsyncIO).                 *)
(*                                                                         *)
(* The ring, for every capacity, every scratch size, every set of item     *)
(* sizes and every number of buckets.  FifoContents alone is not           *)
(* inductive.  Publishing a call extends the readable range over slots     *)
(* whose contents only the producer's progress describes (CopiedSoFar),    *)
(* and the consumer's release shortens a range whose length only its own   *)
(* count bounds (CountsFit).                                               *)
(*                                                                         *)
(* The barrier, for every number of cores, every way to fail and every     *)
(* number of signals.  One counter carries the ready count and the error   *)
(* code, so what it says has to be known in every state: below the error   *)
(* codes it is the number of workers that have arrived, and no worker has  *)
(* failed (CounterIsTrue).  The barrier that opens without an error has    *)
(* then been reached by all.                                               *)
(*                                                                         *)
(* The asynchronous connect answers once, and the server looks after every *)
(* session until its end, for any number of connections, any mix of plain, *)
(* TLS and STARTTLS, with and without deadlines, any limits and any script *)
(* of the clients.                                                         *)
(***************************************************************************)
EXTENDS SpscRing, EngineLifecycle, AsyncIO, FiniteSetTheorems, TLAPS

\* The counts the two sides settled on when they loaded the other's index are
\* still safe: the other index can only have moved away from them.
CountsFit ==
    /\ ppc = "copy" => (pdone <= pcount /\ published + pcount - received <= Capacity)
    /\ cpc # "idle" => (cdone <= ccount /\ ccount <= published - received)

\* The producer's unpublished buckets are in the slots after write_index.
CopiedSoFar ==
    \A j \in 0 .. (Capacity - 1) :
        (ppc = "copy" /\ j < pdone) => array[next_index(write_index + j)] = published + j

\* The end of the published range is the end of some call.
EndsKnown ==
    /\ published \in ends
    /\ BatchesAreWholeItems

RingInv ==
    /\ TypeOK
    /\ IndicesCountTheQueue
    /\ CountsFit
    /\ CopiedSoFar
    /\ FifoContents
    /\ EndsKnown

-----------------------------------------------------------------------------
\* Where slot j after an index lies: never outside the array.
LEMMA SlotInRange ==
    ASSUME NEW i \in Slots, NEW j \in 0 .. Capacity
    PROVE  next_index(i + j) \in Slots
  BY SpscAssumption DEF Slots, next_index, max_size

\* The queue holds between nothing and a full ring.
LEMMA QueueLength ==
    ASSUME RingInv
    PROVE  published - received \in 0 .. Capacity
  BY SpscAssumption
  DEF RingInv, TypeOK, IndicesCountTheQueue, read_available, Slots, max_size

\* The initial state satisfies the invariant.
LEMMA RingInit == Init => RingInv
  BY SpscAssumption
  DEF Init, RingInv, TypeOK, IndicesCountTheQueue, CountsFit, CopiedSoFar,
      FifoContents, EndsKnown, BatchesAreWholeItems, Slots, max_size,
      Uninitialized, read_available, next_index

\* Starting a copy that the free space allows keeps the invariant.
LEMMA BeginCopyKeeps ==
    ASSUME RingInv, NEW n \in Nat, n <= write_available(write_index, read_index),
           BeginCopy(n)
    PROVE  RingInv'
  BY SpscAssumption
  DEF RingInv, TypeOK, IndicesCountTheQueue, CountsFit, CopiedSoFar,
      FifoContents, EndsKnown, BatchesAreWholeItems, BeginCopy, cvars, Slots,
      max_size, read_available, write_available

\* So does starting a read of no more than what is there.
LEMMA BeginReadKeeps ==
    ASSUME RingInv, NEW n \in Nat, NEW m \in {"copyout", "inplace"},
           n <= read_available(write_index, read_index),
           (m = "copyout" /\ Chunk >= Capacity) => n = read_available(write_index, read_index),
           BeginRead(m, n)
    PROVE  RingInv'
  <1> USE DEF RingInv, BeginRead, pvars
  <1>1. TypeOK'
    BY DEF TypeOK
  <1>2. IndicesCountTheQueue' /\ CopiedSoFar'
    BY DEF IndicesCountTheQueue, CopiedSoFar
  <1>3. CountsFit'
    BY DEF CountsFit, IndicesCountTheQueue
  <1>4. FifoContents'
    BY SpscAssumption DEF FifoContents
  <1>5. EndsKnown'
    <2>1. (m = "copyout" /\ Chunk >= Capacity) => received + n = published
      BY DEF IndicesCountTheQueue, TypeOK
    <2>2. QED
      BY <2>1 DEF EndsKnown, BatchesAreWholeItems
  <1>6. QED
    BY <1>1, <1>2, <1>3, <1>4, <1>5

\* One bucket written lands behind the readable range.
LEMMA EnqueueCopyKeeps ==
    ASSUME RingInv, EnqueueCopy
    PROVE  RingInv'
  <1> USE SpscAssumption DEF RingInv, EnqueueCopy, cvars
  <1> DEFINE slot == next_index(write_index + pdone)
  <1>1. slot \in Slots /\ pdone \in 0 .. (Capacity - 1)
    <2>1. pdone \in 0 .. (Capacity - 1)
      BY QueueLength DEF TypeOK, CountsFit
    <2>2. write_index \in Slots
      BY DEF TypeOK
    <2>3. QED
      BY <2>1, <2>2, SlotInRange
  <1>2. TypeOK'
    BY <1>1 DEF TypeOK
  <1>3. IndicesCountTheQueue' /\ CountsFit' /\ EndsKnown'
    BY DEF TypeOK, IndicesCountTheQueue, CountsFit, EndsKnown, BatchesAreWholeItems,
           read_available, max_size
  <1>4. CopiedSoFar'
    <2> SUFFICES ASSUME NEW j \in 0 .. (Capacity - 1), j < pdone + 1
                 PROVE  array'[next_index(write_index + j)] = published + j
      BY DEF CopiedSoFar
    <2>1. next_index(write_index + j) \in Slots
      BY SlotInRange DEF TypeOK
    <2>2. CASE j = pdone
      BY <1>1, <2>2 DEF TypeOK
    <2>3. CASE j < pdone
      <3>1. next_index(write_index + j) # slot
        BY <1>1, <2>3 DEF TypeOK, Slots, max_size, next_index
      <3>2. QED
        BY <1>1, <2>1, <2>3, <3>1 DEF CopiedSoFar, TypeOK
    <2>4. QED
      BY <2>2, <2>3 DEF TypeOK
  <1>5. FifoContents'
    <2> SUFFICES ASSUME NEW j \in 0 .. (Capacity - 1), j < published - received
                 PROVE  array'[next_index(read_index + j)] = received + j
      BY DEF FifoContents
    <2>1. next_index(read_index + j) # slot
      BY <1>1 DEF TypeOK, CountsFit, IndicesCountTheQueue, Slots, max_size,
                  next_index, read_available
    <2>2. QED
      BY <1>1, <2>1, SlotInRange DEF FifoContents, TypeOK
  <1>6. QED
    BY <1>2, <1>3, <1>4, <1>5

\* Publishing joins the copied buckets to the readable range.
LEMMA EnqueuePublishKeeps ==
    ASSUME RingInv, EnqueuePublish
    PROVE  RingInv'
  <1> USE SpscAssumption DEF RingInv, EnqueuePublish, cvars
  <1>1. TypeOK'
    <2>1. next_index(write_index + pcount) \in Slots
      <3>1. pcount \in 0 .. Capacity
        BY QueueLength DEF TypeOK, CountsFit
      <3>2. write_index \in Slots
        BY DEF TypeOK
      <3>3. QED
        BY <3>1, <3>2, SlotInRange
    <2>2. QED
      BY <2>1 DEF TypeOK
  <1>2. IndicesCountTheQueue' /\ CountsFit'
    BY DEF TypeOK, IndicesCountTheQueue, CountsFit, read_available, max_size,
           next_index, Slots
  <1>3. EndsKnown'
    BY DEF TypeOK, EndsKnown, BatchesAreWholeItems
  <1>4. CopiedSoFar'
    BY DEF CopiedSoFar
  <1>5. FifoContents'
    <2>1. ASSUME NEW j \in 0 .. (Capacity - 1), j < published' - received'
          PROVE  array'[next_index(read_index' + j)] = received' + j
      <3>1. CASE j < published - received
        BY <3>1 DEF FifoContents
      <3>2. CASE ~(j < published - received)
        <4> DEFINE k == j - (published - received)
        <4>1. k \in 0 .. (Capacity - 1) /\ k < pdone
          BY <2>1, <3>2, QueueLength DEF TypeOK, CountsFit
        <4>2. array[next_index(write_index + k)] = published + k
          BY <4>1 DEF CopiedSoFar
        <4>3. next_index(write_index + k) = next_index(read_index + j)
          BY <2>1, <3>2, <4>1
          DEF TypeOK, IndicesCountTheQueue, read_available, next_index, Slots, max_size
        <4>4. QED
          BY <4>2, <4>3 DEF TypeOK
      <3>3. QED
        BY <3>1, <3>2
    <2>2. QED
      BY <2>1 DEF FifoContents
  <1>6. QED
    BY <1>1, <1>2, <1>3, <1>4, <1>5

\* One bucket read comes from the readable range.
LEMMA ReadBucketKeeps ==
    ASSUME RingInv, ReadBucket
    PROVE  RingInv'
  <1> USE SpscAssumption DEF RingInv, ReadBucket, pvars
  <1>1. cdone \in 0 .. (Capacity - 1) /\ next_index(read_index + cdone) \in Slots
    BY SlotInRange DEF TypeOK, CountsFit, IndicesCountTheQueue
  <1>2. TypeOK'
    BY <1>1 DEF TypeOK
  <1>3. IndicesCountTheQueue' /\ CountsFit' /\ EndsKnown' /\ CopiedSoFar'
    BY DEF TypeOK, IndicesCountTheQueue, CountsFit, EndsKnown, CopiedSoFar,
           BatchesAreWholeItems, read_available, max_size
  <1>4. FifoContents'
    BY <1>1 DEF FifoContents, TypeOK, CountsFit
  <1>5. QED
    BY <1>2, <1>3, <1>4

\* Releasing moves the start of the readable range past what was read.
LEMMA ReadReleaseKeeps ==
    ASSUME RingInv, ReadRelease
    PROVE  RingInv'
  <1> USE SpscAssumption DEF RingInv, ReadRelease, pvars
  <1>1. batch' \in Seq(Int)
    <2>1. \A j \in 1 .. ccount : scratch[j - 1] \in Int
      BY DEF TypeOK, CountsFit, IndicesCountTheQueue
    <2>2. QED
      BY <2>1 DEF TypeOK
  <1>2. TypeOK'
    <2>1. next_index(read_index + ccount) \in Slots
      <3>1. ccount \in 0 .. Capacity
        BY QueueLength DEF TypeOK, CountsFit
      <3>2. read_index \in Slots
        BY DEF TypeOK
      <3>3. QED
        BY <3>1, <3>2, SlotInRange
    <2>2. QED
      BY <1>1, <2>1 DEF TypeOK
  <1>3. IndicesCountTheQueue' /\ CountsFit'
    BY DEF TypeOK, IndicesCountTheQueue, CountsFit, read_available, max_size,
           next_index, Slots
  <1>4. EndsKnown' /\ CopiedSoFar'
    BY DEF EndsKnown, BatchesAreWholeItems, CopiedSoFar
  <1>5. FifoContents'
    <2>1. ASSUME NEW j \in 0 .. (Capacity - 1), j < published' - received'
          PROVE  array'[next_index(read_index' + j)] = received' + j
      <3> DEFINE k == j + ccount
      <3>1. k \in 0 .. (Capacity - 1) /\ k < published - received
        BY <2>1 DEF TypeOK, CountsFit, IndicesCountTheQueue
      <3>2. array[next_index(read_index + k)] = received + k
        BY <3>1 DEF FifoContents
      <3>3. next_index(next_index(read_index + ccount) + j) = next_index(read_index + k)
        BY <3>1 DEF TypeOK, next_index, Slots, max_size
      <3>4. QED
        BY <3>2, <3>3 DEF TypeOK
    <2>2. QED
      BY <2>1 DEF FifoContents
  <1>6. QED
    BY <1>2, <1>3, <1>4, <1>5

\* Every step of either thread keeps the invariant.
LEMMA RingStep == RingInv /\ [Next]_vars => RingInv'
  <1> SUFFICES ASSUME RingInv, [Next]_vars PROVE RingInv'
    OBVIOUS
  <1> USE SpscAssumption
  <1>w. write_available(write_index, read_index) \in Nat
        /\ read_available(write_index, read_index) \in Nat
    BY DEF RingInv, TypeOK, write_available, read_available, Slots, max_size
  <1>1. ASSUME NEW n \in ItemSizes, EnqueueAll(n) PROVE RingInv'
    BY <1>1, <1>w, BeginCopyKeeps DEF EnqueueAll
  <1>2. ASSUME NEW n \in ItemSizes, EnqueuePart(n) PROVE RingInv'
    <2> DEFINE avail == write_available(write_index, read_index)
               m == IF n < avail THEN n ELSE avail
    <2>1. m \in Nat /\ m <= avail
      BY <1>w
    <2>2. BeginCopy(m)
      BY <1>2 DEF EnqueuePart
    <2>3. QED
      BY <2>1, <2>2, BeginCopyKeeps
  <1>3. CASE EnqueueOne
    <2>1. 1 <= write_available(write_index, read_index)
      BY <1>3 DEF EnqueueOne, RingInv, TypeOK, write_available, next_index, Slots, max_size
    <2>2. QED
      BY <1>3, <2>1, BeginCopyKeeps DEF EnqueueOne
  <1>4. CASE EnqueueCopy
    BY <1>4, EnqueueCopyKeeps
  <1>5. CASE EnqueuePublish
    BY <1>5, EnqueuePublishKeeps
  <1>6. CASE DequeueBegin
    <2> DEFINE avail == read_available(write_index, read_index)
               m == IF Chunk < avail THEN Chunk ELSE avail
    <2>1. m \in Nat /\ m <= avail
      BY <1>w
    <2>2. Chunk >= Capacity => m = avail
      BY <1>w DEF RingInv, IndicesCountTheQueue, TypeOK
    <2>3. BeginRead("copyout", m)
      BY <1>6 DEF DequeueBegin
    <2>4. QED
      BY <2>1, <2>2, <2>3, BeginReadKeeps
  <1>7. CASE ConsumeBegin
    BY <1>7, <1>w, BeginReadKeeps DEF ConsumeBegin
  <1>8. CASE ReadBucket
    BY <1>8, ReadBucketKeeps
  <1>9. CASE ReadRelease
    BY <1>9, ReadReleaseKeeps
  <1>10. CASE UNCHANGED vars
    BY <1>10
    DEF vars, RingInv, TypeOK, IndicesCountTheQueue, CountsFit, CopiedSoFar,
        FifoContents, EndsKnown, BatchesAreWholeItems
  <1>11. QED
    BY <1>1, <1>2, <1>3, <1>4, <1>5, <1>6, <1>7, <1>8, <1>9, <1>10
    DEF Next, Producer, Consumer

\* RingInv holds in every reachable state.
LEMMA RingInvariant == Spec => []RingInv
  BY RingInit, RingStep, PTL DEF Spec

-----------------------------------------------------------------------------
\* Both threads keep their indices inside the array and their counters natural.
THEOREM RingTypeCorrect == Spec => []TypeOK
  <1>1. RingInv => TypeOK
    BY DEF RingInv
  <1>2. QED
    BY <1>1, RingInvariant, PTL

\* For every capacity and item size the ring is a FIFO: the readable slots, and
\* the buckets the consumer holds, are the next ones in the order of acceptance,
\* and there are as many as the indices say and never more than the capacity.
THEOREM RingIsFifo == Spec => [](FifoContents /\ IndicesCountTheQueue)
  <1>1. RingInv => FifoContents /\ IndicesCountTheQueue
    BY DEF RingInv
  <1>2. QED
    BY <1>1, RingInvariant, PTL

\* The producer's and the consumer's memcpy never meet in a slot.
THEOREM RingNoSharedSlot == Spec => []NoSharedSlot
  <1>1. RingInv => NoSharedSlot
    BY SpscAssumption
    DEF RingInv, TypeOK, NoSharedSlot, CountsFit, IndicesCountTheQueue,
        read_available, next_index, Slots, max_size
  <1>2. QED
    BY <1>1, RingInvariant, PTL

\* A scratch buffer that holds a whole ring never cuts an item in two.
THEOREM RingBatchesWhole == Spec => []BatchesAreWholeItems
  <1>1. RingInv => BatchesAreWholeItems
    BY DEF RingInv, EndsKnown
  <1>2. QED
    BY <1>1, RingInvariant, PTL

-----------------------------------------------------------------------------
(* The refinement of BoundedFifo: a publication is a Put, a release a Take, *)
(* and every other step leaves the abstract queue as it is.                 *)

\* A call under way moves at least one bucket, and the bound on the behaviour
\* leaves room for what it will publish.
CallsUnderWay ==
    /\ ppc = "copy" => (pcount >= 1 /\ published + pcount <= MaxSent)
    /\ cpc # "idle" => ccount >= 1

\* No call is under way at the start.
LEMMA CallsInit == Init => CallsUnderWay
  BY DEF Init, CallsUnderWay

\* A call under way stays within what it found free or filled.
LEMMA CallsStep == RingInv /\ CallsUnderWay /\ [Next]_vars => CallsUnderWay'
  <1> SUFFICES ASSUME RingInv, CallsUnderWay, [Next]_vars PROVE CallsUnderWay'
    OBVIOUS
  <1> USE SpscAssumption DEF CallsUnderWay
  <1>w. write_available(write_index, read_index) \in Nat
        /\ read_available(write_index, read_index) \in Nat
    BY DEF RingInv, TypeOK, write_available, read_available, Slots, max_size
  <1>1. ASSUME NEW n \in Nat, n >= 1, BeginCopy(n) PROVE CallsUnderWay'
    BY <1>1 DEF BeginCopy, cvars
  <1>2. ASSUME NEW n \in Nat, n >= 1, NEW m \in {"copyout", "inplace"}, BeginRead(m, n)
        PROVE  CallsUnderWay'
    BY <1>2 DEF BeginRead, pvars
  <1>3. ASSUME NEW n \in ItemSizes, EnqueueAll(n) \/ EnqueuePart(n) PROVE CallsUnderWay'
    <2> DEFINE avail == write_available(write_index, read_index)
               m == IF n < avail THEN n ELSE avail
    <2>1. n \in Nat /\ n >= 1
      OBVIOUS
    <2>2. EnqueuePart(n) => m \in Nat /\ m >= 1 /\ BeginCopy(m)
      BY <1>w, <2>1 DEF EnqueuePart
    <2>3. EnqueueAll(n) => BeginCopy(n)
      BY DEF EnqueueAll
    <2>4. QED
      BY <1>1, <1>3, <2>1, <2>2, <2>3
  <1>4. CASE EnqueueOne
    BY <1>1, <1>4 DEF EnqueueOne
  <1>5. CASE EnqueueCopy \/ EnqueuePublish \/ ReadBucket \/ ReadRelease \/ UNCHANGED vars
    BY <1>5 DEF EnqueueCopy, EnqueuePublish, ReadBucket, ReadRelease, vars, pvars, cvars
  <1>6. CASE DequeueBegin
    <2> DEFINE avail == read_available(write_index, read_index)
               m == IF Chunk < avail THEN Chunk ELSE avail
    <2>1. m \in Nat /\ m >= 1 /\ BeginRead("copyout", m)
      BY <1>6, <1>w DEF DequeueBegin
    <2>2. QED
      BY <1>2, <2>1
  <1>7. CASE ConsumeBegin
    BY <1>2, <1>7, <1>w DEF ConsumeBegin
  <1>8. QED
    BY <1>3, <1>4, <1>5, <1>6, <1>7 DEF Next, Producer, Consumer

\* The abstract queue, in the numbers of its buckets.
QueueContents ==
    /\ queue = [j \in 1 .. (published - received) |-> received + j - 1]
    /\ Len(queue) = published - received

\* The slots between the indices hold the queue in order.
LEMMA QueueIs == RingInv => QueueContents
  <1> SUFFICES ASSUME RingInv PROVE QueueContents
    OBVIOUS
  <1>1. published - received \in 0 .. Capacity
    BY QueueLength
  <1>2. read_available(write_index, read_index) = published - received
    BY DEF RingInv, IndicesCountTheQueue
  <1>3. received \in Int /\ published \in Int /\ read_index \in Int
    BY SpscAssumption DEF RingInv, TypeOK, Slots, max_size
  <1>4. ASSUME NEW j \in 1 .. (published - received)
        PROVE  array[next_index(read_index + j - 1)] = received + j - 1
    <2> DEFINE k == j - 1
    <2>1. k \in 0 .. (Capacity - 1) /\ k < published - received
      BY <1>1, SpscAssumption
    <2>2. array[next_index(read_index + k)] = received + k
      BY <2>1 DEF RingInv, FifoContents
    <2>3. read_index + j - 1 = read_index + k /\ received + j - 1 = received + k
      BY <1>3
    <2>4. QED
      BY <2>2, <2>3
  <1>5. queue = [j \in 1 .. (published - received) |-> received + j - 1]
    BY <1>2, <1>4 DEF queue
  <1>6. QED
    BY <1>1, <1>3, <1>5 DEF QueueContents

\* The same in the next state.
LEMMA QueueIsNext == RingInv' => QueueContents'
  BY QueueIs, PTL

\* Publishing is Put.
LEMMA PublishIsPut ==
    ASSUME RingInv, CallsUnderWay, RingInv', EnqueuePublish
    PROVE  pcount \in 1 .. Capacity /\ Fifo!Put(pcount)
  <1> USE SpscAssumption
  <1>1. pcount \in Nat /\ published \in Nat /\ received \in Nat
    BY DEF RingInv, TypeOK
  <1>2. published - received \in 0 .. Capacity
    BY QueueLength
  <1>3. pcount \in 1 .. Capacity /\ published - received + pcount <= Capacity /\ published + pcount <= MaxSent
    BY <1>1, <1>2 DEF EnqueuePublish, RingInv, CountsFit, CallsUnderWay
  <1>4. published' = published + pcount /\ received' = received /\ batch' = batch
    BY DEF EnqueuePublish, cvars
  <1>5. queue = [j \in 1 .. (published - received) |-> received + j - 1] /\ Len(queue) = published - received
    BY QueueIs DEF QueueContents
  <1>6. queue' = [j \in 1 .. (published' - received') |-> received' + j - 1]
    BY QueueIsNext DEF QueueContents
  <1>7. queue' = queue \o [j \in 1 .. pcount |-> published + j - 1]
    BY <1>1, <1>2, <1>3, <1>4, <1>5, <1>6
  <1>8. QED
    BY <1>3, <1>4, <1>5, <1>7 DEF Fifo!Put

\* Releasing is Take: the batch is what was at the front.
LEMMA ReleaseIsTake ==
    ASSUME RingInv, CallsUnderWay, RingInv', ReadRelease
    PROVE  ccount \in 1 .. Capacity /\ Fifo!Take(ccount)
  <1> USE SpscAssumption
  <1>1. ccount \in Nat /\ published \in Nat /\ received \in Nat
    BY DEF RingInv, TypeOK
  <1>2. published - received \in 0 .. Capacity
    BY QueueLength
  <1>3. ccount \in 1 .. (published - received)
    BY <1>1, <1>2 DEF ReadRelease, RingInv, CountsFit, CallsUnderWay
  <1>4. published' = published /\ received' = received + ccount
    BY DEF ReadRelease
  <1>5. queue = [j \in 1 .. (published - received) |-> received + j - 1] /\ Len(queue) = published - received
    BY QueueIs DEF QueueContents
  <1>6. queue' = [j \in 1 .. (published' - received') |-> received' + j - 1]
    BY QueueIsNext DEF QueueContents
  <1>7. queue' = SubSeq(queue, ccount + 1, Len(queue))
    BY <1>1, <1>2, <1>3, <1>4, <1>5, <1>6
  <1>8. batch' = SubSeq(queue, 1, ccount)
    <2>1. \A j \in 1 .. ccount : scratch[j - 1] = received + j - 1
      BY <1>1, <1>2, <1>3 DEF ReadRelease, RingInv, FifoContents
    <2>2. batch' = [j \in 1 .. ccount |-> received + j - 1]
      BY <2>1 DEF ReadRelease
    <2>3. QED
      BY <1>1, <1>2, <1>3, <1>5, <2>2
  <1>9. QED
    BY <1>2, <1>3, <1>4, <1>5, <1>7, <1>8 DEF Fifo!Take

\* Every other step is a stutter: no slot of the readable range is written.
LEMMA OthersStutter ==
    ASSUME RingInv, RingInv', [Next]_vars, ~EnqueuePublish, ~ReadRelease
    PROVE  UNCHANGED Fifo!vars
  <1>1. published' = published /\ received' = received /\ batch' = batch
    BY DEF Next, Producer, Consumer, vars, pvars, cvars, EnqueueAll, EnqueuePart, EnqueueOne,
           BeginCopy, EnqueueCopy, DequeueBegin, ConsumeBegin, BeginRead, ReadBucket
  <1>2. queue = [j \in 1 .. (published - received) |-> received + j - 1]
    BY QueueIs DEF QueueContents
  <1>3. queue' = [j \in 1 .. (published' - received') |-> received' + j - 1]
    BY QueueIsNext DEF QueueContents
  <1>4. QED
    BY <1>1, <1>2, <1>3 DEF Fifo!vars

\* The ring implements the bounded first-in first-out queue: what the producer
\* publishes is appended in one step, what the consumer releases is the prefix it
\* was given, and the copies in between do not show, for every capacity.
THEOREM RingImplementsFifo == Spec => Fifo!Safety
  <1>1. Init => Fifo!Init
    <2> SUFFICES ASSUME Init PROVE Fifo!Init
      OBVIOUS
    <2>1. read_available(write_index, read_index) = 0
      BY SpscAssumption DEF Init, read_available
    <2>2. queue = <<>>
      BY <2>1 DEF queue
    <2>3. QED
      BY <2>2 DEF Init, Fifo!Init
  <1>2. RingInv /\ CallsUnderWay /\ RingInv' /\ [Next]_vars => [Fifo!Next]_(Fifo!vars)
    <2> SUFFICES ASSUME RingInv, CallsUnderWay, RingInv', [Next]_vars
                 PROVE  [Fifo!Next]_(Fifo!vars)
      OBVIOUS
    <2>1. CASE EnqueuePublish
      BY <2>1, PublishIsPut DEF Fifo!Next
    <2>2. CASE ReadRelease
      BY <2>2, ReleaseIsTake DEF Fifo!Next
    <2>3. CASE ~EnqueuePublish /\ ~ReadRelease
      BY <2>3, OthersStutter
    <2>4. QED
      BY <2>1, <2>2, <2>3
  <1>3. QED
    BY <1>1, <1>2, RingInit, RingStep, CallsInit, CallsStep, PTL DEF Spec, Fifo!Safety

-----------------------------------------------------------------------------
(* The engine *)

\* Workers that have counted themselves in, or gone on from there.
Arrived == {c \in Cores : worker[c] \notin {"unborn", "init", "arrive"}}

\* The counter is the number of arrivals until an error code replaces it.
CounterIsTrue ==
    sync_start < BadInit =>
        /\ sync_start = Cardinality(Arrived)
        /\ \A c \in Cores : ~failed[c]

\* Workers are started in the order of the cores, and none before start(), which
\* resets the counter.
SpawnedInOrder ==
    /\ \A c \in Cores : c >= spawned => worker[c] = "unborn" /\ ~failed[c]
    /\ main = "idle" => spawned = 0 /\ sync_start = 0

BarrierInv ==
    /\ AllInitialisedBeforeAnyRuns
    /\ CounterIsTrue
    /\ SpawnedInOrder

-----------------------------------------------------------------------------
\* The cores are finitely many, as many as NbCore says.
LEMMA CoresFinite == IsFiniteSet(Cores) /\ Cardinality(Cores) = NbCore
  <1>1. NbCore \in Nat
    BY EngineAssumption DEF BadInit
  <1>2. QED
    BY <1>1, FS_Interval DEF Cores

\* The workers that have arrived are a finite set, and all of them if they are
\* as many as there are cores.
LEMMA ArrivedCount ==
    /\ IsFiniteSet(Arrived)
    /\ Cardinality(Arrived) \in 0 .. NbCore
    /\ Cardinality(Arrived) = NbCore => Arrived = Cores
  <1>1. Arrived \subseteq Cores
    BY DEF Arrived
  <1>2. IsFiniteSet(Arrived) /\ Cardinality(Arrived) <= NbCore
        /\ (Cardinality(Arrived) = NbCore => Arrived = Cores)
    BY <1>1, CoresFinite, FS_Subset
  <1>3. QED
    BY <1>2, FS_CardinalityType, EngineAssumption

\* A worker that moves on from the barrier, or elsewhere behind it, changes nothing
\* in what has arrived; one that arrives adds itself.
LEMMA ArrivedStep ==
    ASSUME EngineTypeOK, NEW c \in Cores, NEW where, Goto(c, where)
    PROVE  /\ (worker[c] = "init" /\ where = "arrive") => Arrived' = Arrived
           /\ (c \in Arrived /\ where \notin {"unborn", "init", "arrive"}) => Arrived' = Arrived
           /\ where \notin {"unborn", "init", "arrive"} => Arrived' = Arrived \cup {c}
  BY DEF EngineTypeOK, Arrived, Goto

\* Initially nothing has arrived and the counter is zero.
LEMMA BarrierInit == EngineInit => BarrierInv
  <1> SUFFICES ASSUME EngineInit PROVE BarrierInv
    OBVIOUS
  <1> USE DEF EngineInit
  <1>1. EngineTypeOK
    <2>1. 0 \in 0 .. NbCore
      BY EngineAssumption DEF BadInit
    <2>2. delivered \in [Cores -> SUBSET {SIGHUP, SIGINT, SIGTERM}]
      OBVIOUS
    <2>3. QED
      BY <2>1, <2>2 DEF EngineTypeOK
  <1>2. Arrived = {}
    BY DEF Arrived
  <1>3. Cardinality(Arrived) = 0
    BY <1>2, FS_EmptySet
  <1>4. QED
    BY <1>1, <1>3
    DEF BarrierInv, AllInitialisedBeforeAnyRuns, CounterIsTrue, SpawnedInOrder, InWorkflow

-----------------------------------------------------------------------------
\* The owner's steps keep the types.
LEMMA OwnerTypes == EngineTypeOK /\ Owner => EngineTypeOK'
  <1> SUFFICES ASSUME EngineTypeOK, Owner PROVE EngineTypeOK'
    OBVIOUS
  <1> USE EngineAssumption DEF EngineTypeOK, mainVars, signalVars, pollVars
  <1>1. CASE Start
    BY <1>1 DEF Start
  <1>2. CASE Spawn
    BY <1>2 DEF Spawn, Cores, BadInit
  <1>3. CASE StartReturns
    BY <1>3 DEF StartReturns, hasError, BadInit
  <1>4. CASE Join \/ DestroyJoin \/ JoinThreads
    BY <1>4 DEF Join, DestroyJoin, JoinThreads
  <1>5. CASE Destroy
    BY <1>5 DEF Destroy
  <1>6. CASE FreeSharedCom
    BY <1>6 DEF FreeSharedCom
  <1>7. QED
    BY <1>1, <1>2, <1>3, <1>4, <1>5, <1>6 DEF Owner

\* So do the signals.
LEMMA SignalTypes == EngineTypeOK /\ (OnSignal \/ StopStore \/ RaiseBump) => EngineTypeOK'
  <1> SUFFICES ASSUME EngineTypeOK, OnSignal \/ StopStore \/ RaiseBump PROVE EngineTypeOK'
    OBVIOUS
  <1> USE EngineAssumption DEF EngineTypeOK, mainVars, signalVars, pollVars
  <1>1. ASSUME NEW s \in {SIGHUP, SIGINT, SIGTERM}, RaiseStore(s) PROVE EngineTypeOK'
    BY <1>1 DEF RaiseStore
  <1>2. CASE RaiseBump
    BY <1>2 DEF RaiseBump, SIGINT
  <1>3. QED
    BY <1>1, <1>2 DEF OnSignal, StopStore

\* And those of a worker.
LEMMA WorkerTypes ==
    ASSUME EngineTypeOK, NEW c \in Cores, Worker(c)
    PROVE  EngineTypeOK'
  <1> USE EngineAssumption DEF EngineTypeOK, mainVars, signalVars, pollVars, Goto
  <1>1. CASE Initialise(c)
    <2>1. Failures \subseteq Nat
      BY DEF InitErrors, BadInit, NoActor, BadActorInit, ExceptionThrown
    <2>2. PICK where \in {"arrive", "exit"} :
             /\ worker' = [worker EXCEPT ![c] = where]
             /\ sync_start' \in Nat
             /\ failed' = failed \/ failed' = [failed EXCEPT ![c] = TRUE]
      BY <1>1, <2>1 DEF Initialise
    <2>3. UNCHANGED <<mainVars, signalVars, pollVars>>
      BY <1>1 DEF Initialise
    <2>4. failed' \in [Cores -> BOOLEAN]
      BY <2>2
    <2>5. worker' \in [Cores -> {"unborn", "init", "arrive", "spin", "poll", "signum", "pass",
                                 "drain", "exit", "done"}]
      BY <2>2
    <2>6. sync_start' \in Nat
      BY <2>2
    <2>7. QED
      BY <2>3, <2>4, <2>5, <2>6
  <1>2. CASE Arrive(c)
    BY <1>2 DEF Arrive
  <1>3. CASE LeaveBarrier(c)
    BY <1>3 DEF LeaveBarrier
  <1>4. CASE PollNothing(c)
    BY <1>4 DEF PollNothing
  <1>5. CASE PollGeneration(c)
    BY <1>5 DEF PollGeneration
  <1>6. CASE PollSignum(c)
    BY <1>6 DEF PollSignum, SIGHUP, SIGINT, SIGTERM
  <1>7. CASE Pass(c)
    BY <1>7 DEF Pass, ExceptionThrown
  <1>8. CASE Drain(c) \/ Exit(c)
    BY <1>8 DEF Drain, Exit
  <1>9. QED
    BY <1>1, <1>2, <1>3, <1>4, <1>5, <1>6, <1>7, <1>8 DEF Worker

-----------------------------------------------------------------------------
\* Initialising never counts, and a failure leaves an error code.
LEMMA InitialiseKeeps ==
    ASSUME BarrierInv, NEW c \in Cores, Initialise(c)
    PROVE  BarrierInv'
  <1> USE DEF BarrierInv
  <1>t. EngineTypeOK /\ EngineTypeOK'
    BY WorkerTypes DEF AllInitialisedBeforeAnyRuns, Worker
  <1>1. worker[c] = "init" /\ UNCHANGED <<main, spawned>> /\ ~\E d \in Cores : InWorkflow(d)
    BY DEF Initialise, mainVars, AllInitialisedBeforeAnyRuns
  <1>2. PICK where \in {"arrive", "exit"} :
           /\ Goto(c, where)
           /\ \/ where = "arrive" /\ UNCHANGED <<sync_start, failed>>
              \/ sync_start' \in InitErrors
    BY EngineAssumption DEF Initialise
  <1>3. ~\E d \in Cores : InWorkflow(d)'
    BY <1>t, <1>1, <1>2 DEF Goto, InWorkflow, EngineTypeOK
  <1>4. SpawnedInOrder'
    <2>1. \A d \in Cores \ {c} : worker'[d] = worker[d] /\ failed'[d] = failed[d]
      BY <1>t, <1>2 DEF Goto, EngineTypeOK, Initialise
    <2>2. QED
      BY <1>1, <2>1 DEF SpawnedInOrder, Cores
  <1>5. CASE UNCHANGED <<sync_start, failed>> /\ where = "arrive"
    <2>1. Arrived' = Arrived
      BY <1>t, <1>1, <1>2, <1>5, ArrivedStep
    <2>2. QED
      BY <1>t, <1>3, <1>4, <1>5, <2>1 DEF AllInitialisedBeforeAnyRuns, CounterIsTrue, hasError
  <1>6. CASE sync_start' \in InitErrors
    <2>1. sync_start' >= BadInit /\ sync_start' \in Nat
      BY <1>6 DEF InitErrors, BadInit, NoActor, BadActorInit, ExceptionThrown
    <2>2. QED
      BY <1>t, <1>3, <1>4, <2>1 DEF AllInitialisedBeforeAnyRuns, CounterIsTrue, hasError, BadInit
  <1>7. QED
    BY <1>2, <1>5, <1>6

\* An arrival counts one more, and never reaches the error codes by counting.
LEMMA ArriveKeeps ==
    ASSUME BarrierInv, NEW c \in Cores, Arrive(c)
    PROVE  BarrierInv'
  <1> USE DEF BarrierInv
  <1>t. EngineTypeOK /\ EngineTypeOK'
    BY WorkerTypes DEF AllInitialisedBeforeAnyRuns, Worker
  <1>1. worker[c] = "arrive" /\ sync_start' = sync_start + 1 /\ UNCHANGED <<main, spawned, failed>>
    BY DEF Arrive, mainVars
  <1>2. Goto(c, "spin")
    BY DEF Arrive
  <1>3. ~\E d \in Cores : InWorkflow(d)
    BY <1>1 DEF AllInitialisedBeforeAnyRuns
  <1>4. ~\E d \in Cores : InWorkflow(d)'
    BY <1>t, <1>2, <1>3 DEF Goto, InWorkflow, EngineTypeOK
  <1>5. Arrived' = Arrived \cup {c} /\ c \notin Arrived
    BY <1>t, <1>1, <1>2, ArrivedStep DEF Arrived
  <1>6. Cardinality(Arrived') = Cardinality(Arrived) + 1
    BY <1>5, ArrivedCount, FS_AddElement
  <1>7. sync_start \in Nat
    BY <1>t DEF EngineTypeOK
  <1>8. CounterIsTrue' /\ (hasError => hasError')
    BY <1>1, <1>6, <1>7 DEF CounterIsTrue, hasError, BadInit
  <1>9. (\E d \in Cores : failed'[d]) => hasError'
    BY <1>1, <1>8 DEF AllInitialisedBeforeAnyRuns
  <1>10. SpawnedInOrder'
    BY <1>t, <1>1, <1>2 DEF SpawnedInOrder, Goto, EngineTypeOK, Cores
  <1>11. QED
    BY <1>t, <1>4, <1>8, <1>9, <1>10 DEF AllInitialisedBeforeAnyRuns

\* The barrier opens without an error only when all have arrived.
LEMMA LeaveBarrierKeeps ==
    ASSUME BarrierInv, NEW c \in Cores, LeaveBarrier(c)
    PROVE  BarrierInv'
  <1> USE DEF BarrierInv
  <1>t. EngineTypeOK /\ EngineTypeOK'
    BY WorkerTypes DEF AllInitialisedBeforeAnyRuns, Worker
  <1>1. PICK where \in {"poll", "exit"} :
           Goto(c, where) /\ (where = "poll" => sync_start < BadInit)
    BY DEF LeaveBarrier
  <1>2. worker[c] = "spin" /\ sync_start >= NbCore /\ UNCHANGED <<main, spawned, sync_start, failed>>
    BY DEF LeaveBarrier, mainVars
  <1>3. Arrived' = Arrived
    BY <1>t, <1>1, <1>2, ArrivedStep DEF Arrived
  <1>4. where = "poll" => (Arrived = Cores /\ \A d \in Cores : ~failed[d])
    BY <1>t, <1>1, <1>2, ArrivedCount, EngineAssumption DEF CounterIsTrue, EngineTypeOK, BadInit
  <1>5. (\E d \in Cores : InWorkflow(d)') => (Arrived' = Cores /\ \A d \in Cores : ~failed'[d])
    <2>1. CASE where = "poll"
      BY <1>2, <1>3, <1>4, <2>1
    <2>2. CASE where = "exit"
      BY <1>t, <1>1, <1>2, <1>3, <2>2
      DEF AllInitialisedBeforeAnyRuns, InWorkflow, Goto, EngineTypeOK, Arrived
    <2>3. QED
      BY <1>1, <2>1, <2>2
  <1>6. CounterIsTrue' /\ SpawnedInOrder' /\ ((\E d \in Cores : failed'[d]) => hasError')
    BY <1>t, <1>1, <1>2, <1>3
    DEF CounterIsTrue, SpawnedInOrder, AllInitialisedBeforeAnyRuns, hasError, EngineTypeOK, Goto
  <1>7. QED
    BY <1>t, <1>5, <1>6 DEF AllInitialisedBeforeAnyRuns, Arrived

\* Behind the barrier a worker only moves on; an exception replaces the count.
LEMMA PassesKeep ==
    ASSUME BarrierInv, NEW c \in Cores, EngineTypeOK',
           PollNothing(c) \/ PollGeneration(c) \/ PollSignum(c) \/ Pass(c) \/ Drain(c) \/ Exit(c)
    PROVE  BarrierInv'
  <1> USE DEF BarrierInv
  <1>t. EngineTypeOK
    BY DEF AllInitialisedBeforeAnyRuns
  <1>1. /\ UNCHANGED <<main, spawned, failed>>
        /\ sync_start' = sync_start \/ sync_start' = ExceptionThrown
        /\ InWorkflow(c) \/ worker[c] = "exit"
        /\ \E where \in {"poll", "signum", "pass", "drain", "exit", "done"} :
              /\ Goto(c, where)
              /\ worker[c] = "exit" => where = "done"
    BY DEF PollNothing, PollGeneration, PollSignum, Pass, Drain, Exit, mainVars, InWorkflow
  <1>2. PICK where \in {"poll", "signum", "pass", "drain", "exit", "done"} :
           Goto(c, where) /\ (worker[c] = "exit" => where = "done")
    BY <1>1
  <1>3. Arrived' = Arrived
    BY <1>t, <1>1, <1>2, ArrivedStep DEF Arrived, InWorkflow
  <1>4. (\E d \in Cores : InWorkflow(d)') => \E d \in Cores : InWorkflow(d)
    BY <1>t, <1>1, <1>2 DEF Goto, InWorkflow, EngineTypeOK
  <1>5. \A d \in Cores : (worker[d] \notin {"unborn", "init", "arrive"}) =>
                            worker'[d] \notin {"unborn", "init", "arrive"}
    BY <1>3 DEF Arrived
  <1>6. CounterIsTrue' /\ (hasError => hasError')
    BY <1>t, <1>1, <1>3 DEF CounterIsTrue, hasError, BadInit, ExceptionThrown, EngineTypeOK
  <1>7. SpawnedInOrder'
    BY <1>t, <1>1, <1>2 DEF SpawnedInOrder, Goto, InWorkflow, EngineTypeOK, Cores
  <1>8. QED
    BY <1>1, <1>4, <1>5, <1>6, <1>7 DEF AllInitialisedBeforeAnyRuns

\* The owner resets the counter only before any worker exists.
LEMMA OwnerKeeps ==
    ASSUME BarrierInv, Owner
    PROVE  BarrierInv'
  <1> USE DEF BarrierInv
  <1>t. EngineTypeOK /\ EngineTypeOK'
    BY OwnerTypes DEF AllInitialisedBeforeAnyRuns
  <1>1. CASE Start
    <2>1. UNCHANGED <<worker, spawned, failed>> /\ sync_start' = 0 /\ main' # "idle"
          /\ \A c \in Cores : worker[c] = "unborn" /\ ~failed[c]
      BY <1>1 DEF Start, SpawnedInOrder, Cores
    <2>2. Arrived' = {}
      BY <2>1 DEF Arrived
    <2>3. QED
      BY <1>t, <2>1, <2>2, FS_EmptySet
      DEF AllInitialisedBeforeAnyRuns, CounterIsTrue, SpawnedInOrder, InWorkflow
  <1>2. CASE Spawn
    <2>1. spawned \in Cores /\ worker' = [worker EXCEPT ![spawned] = "init"]
          /\ UNCHANGED <<main, sync_start, failed>> /\ main # "idle"
      BY <1>t, <1>2, EngineAssumption DEF Spawn, EngineTypeOK, Cores, BadInit
    <2>2. worker[spawned] = "unborn" /\ spawned' = spawned + 1 /\ spawned \in Nat
      BY <1>2, <2>1 DEF SpawnedInOrder, Spawn, Cores
    <2>3. \A d \in Cores : worker'[d] = IF d = spawned THEN "init" ELSE worker[d]
      BY <1>t, <2>1 DEF EngineTypeOK
    <2>4. Arrived' = Arrived
      BY <2>2, <2>3 DEF Arrived
    <2>5. ~\E d \in Cores : InWorkflow(d)
      BY <2>1, <2>2 DEF AllInitialisedBeforeAnyRuns
    <2>6. ~\E d \in Cores : InWorkflow(d)'
      BY <2>3, <2>5 DEF InWorkflow
    <2>7. SpawnedInOrder'
      BY <2>1, <2>2, <2>3 DEF SpawnedInOrder, Cores
    <2>8. QED
      BY <1>t, <2>1, <2>4, <2>6, <2>7 DEF AllInitialisedBeforeAnyRuns, CounterIsTrue, hasError
  <1>3. CASE ~Start /\ ~Spawn
    <2>1. UNCHANGED <<worker, spawned, failed, sync_start>> /\ main' # "idle"
      BY <1>3 DEF Owner, StartReturns, Join, Destroy, DestroyJoin, FreeSharedCom, JoinThreads
    <2>2. Arrived' = Arrived
      BY <2>1 DEF Arrived
    <2>3. QED
      BY <1>t, <2>1, <2>2
      DEF AllInitialisedBeforeAnyRuns, CounterIsTrue, SpawnedInOrder, InWorkflow, hasError
  <1>4. QED
    BY <1>1, <1>2, <1>3

\* Signals do not touch the barrier.
LEMMA SignalKeeps ==
    ASSUME BarrierInv, OnSignal \/ StopStore \/ RaiseBump
    PROVE  BarrierInv'
  <1> USE DEF BarrierInv
  <1>t. EngineTypeOK'
    BY SignalTypes DEF AllInitialisedBeforeAnyRuns
  <1>1. UNCHANGED <<main, spawned, worker, failed, sync_start>>
    BY DEF OnSignal, StopStore, RaiseStore, RaiseBump, mainVars
  <1>2. Arrived' = Arrived
    BY <1>1 DEF Arrived
  <1>3. QED
    BY <1>t, <1>1, <1>2
    DEF AllInitialisedBeforeAnyRuns, CounterIsTrue, SpawnedInOrder, InWorkflow, hasError

\* Every step keeps the invariant.
LEMMA BarrierStep == BarrierInv /\ [EngineNext]_engineVars => BarrierInv'
  <1> SUFFICES ASSUME BarrierInv, [EngineNext]_engineVars PROVE BarrierInv'
    OBVIOUS
  <1>1. ASSUME NEW c \in Cores, Worker(c) PROVE BarrierInv'
    <2>1. EngineTypeOK'
      BY <1>1, WorkerTypes DEF BarrierInv, AllInitialisedBeforeAnyRuns
    <2>2. QED
      BY <1>1, <2>1, InitialiseKeeps, ArriveKeeps, LeaveBarrierKeeps, PassesKeep DEF Worker
  <1>2. CASE UNCHANGED engineVars
    <2>1. Arrived' = Arrived
      BY <1>2 DEF Arrived, engineVars
    <2>2. QED
      BY <1>2, <2>1
      DEF engineVars, BarrierInv, AllInitialisedBeforeAnyRuns, EngineTypeOK, CounterIsTrue, SpawnedInOrder,
          InWorkflow, hasError
  <1>3. QED
    BY <1>1, <1>2, OwnerKeeps, SignalKeeps DEF EngineNext

\* BarrierInv holds in every reachable state.
LEMMA BarrierInvariant == EngineSpec => []BarrierInv
  BY BarrierInit, BarrierStep, PTL DEF EngineSpec

\* One bad core aborts the whole start, for every number of cores below the error
\* codes: no core enters its workflow unless all have initialised, and no arrival
\* hides an error, although count and error share one counter.
THEOREM StartIsAllOrNothing == EngineSpec => []AllInitialisedBeforeAnyRuns
  <1>1. BarrierInv => AllInitialisedBeforeAnyRuns
    BY DEF BarrierInv
  <1>2. QED
    BY <1>1, BarrierInvariant, PTL

-----------------------------------------------------------------------------
\* An error code is never counted, reset or overwritten into a valid count, so
\* that whoever looks at the counter later, start() included, still finds it.
ErrorSticks == [][hasError => hasError']_engineVars

\* The barrier, the exception paths and start() itself keep it that way.
THEOREM ErrorsStick == EngineSpec => ErrorSticks
  <1>1. BarrierInv /\ [EngineNext]_engineVars => (hasError => hasError')
    <2> SUFFICES ASSUME BarrierInv, [EngineNext]_engineVars, hasError PROVE hasError'
      OBVIOUS
    <2> USE DEF hasError, BadInit
    <2>1. sync_start \in Nat
      BY DEF BarrierInv, AllInitialisedBeforeAnyRuns, EngineTypeOK
    <2>2. \/ sync_start' = sync_start \/ sync_start' = sync_start + 1
          \/ sync_start' \in InitErrors
          \/ Start
      <3>1. ASSUME NEW c \in Cores, Worker(c)
            PROVE  sync_start' = sync_start \/ sync_start' = sync_start + 1 \/ sync_start' \in InitErrors
        BY <3>1, EngineAssumption
        DEF Worker, Initialise, Arrive, LeaveBarrier, PollNothing, PollGeneration, PollSignum,
            Pass, Drain, Exit, InitErrors
      <3>2. QED
        BY <3>1
        DEF EngineNext, engineVars, Owner, Spawn, StartReturns, Join, Destroy, DestroyJoin, FreeSharedCom,
            JoinThreads, OnSignal, StopStore, RaiseStore, RaiseBump
    <2>3. ~Start
      BY DEF Start, BarrierInv, SpawnedInOrder
    <2>4. QED
      BY <2>1, <2>2, <2>3 DEF InitErrors, NoActor, BadActorInit, ExceptionThrown
  <1>2. QED
    BY <1>1, BarrierInvariant, PTL DEF EngineSpec, ErrorSticks

-----------------------------------------------------------------------------
\* The destructor of an engine that runs frees the state the workers share only
\* when no worker is left that could touch it.
SharedStateOutlivesWorkers == (shared_com = "freed" /\ is_running) => \A c \in Cores : Done(c)

\* Past the join of the destructor all workers are done, and stay so.
JoinedBeforeMembers ==
    /\ (main \in {"members", "jthreads", "destroyed"} /\ is_running) => \A c \in Cores : Done(c)
    /\ shared_com = "freed" => main \in {"jthreads", "destroyed"}

\* ~Main of a running engine joins its workers before its members go.
THEOREM RunningEngineIsJoinedFirst == EngineSpec => []SharedStateOutlivesWorkers
  <1>1. EngineInit => JoinedBeforeMembers
    BY DEF EngineInit, JoinedBeforeMembers
  <1>2. JoinedBeforeMembers /\ EngineTypeOK /\ [EngineNext]_engineVars => JoinedBeforeMembers'
    <2> SUFFICES ASSUME JoinedBeforeMembers, EngineTypeOK, [EngineNext]_engineVars PROVE JoinedBeforeMembers'
      OBVIOUS
    <2> USE DEF JoinedBeforeMembers
    <2>1. CASE Owner
      BY <2>1
      DEF EngineTypeOK, Done, Owner, Start, Spawn, StartReturns, Join, Destroy, DestroyJoin, FreeSharedCom, JoinThreads
    <2>2. ASSUME NEW c \in Cores, Worker(c) PROVE JoinedBeforeMembers'
      <3>1. UNCHANGED <<main, is_running, shared_com>> /\ ~Done(c)
        BY <2>2
        DEF Worker, Initialise, Arrive, LeaveBarrier, PollNothing, PollGeneration, PollSignum,
            Pass, Drain, Exit, mainVars, Done
      <3>2. QED
        BY <3>1
    <2>3. CASE OnSignal \/ StopStore \/ RaiseBump \/ UNCHANGED engineVars
      BY <2>3 DEF OnSignal, StopStore, RaiseStore, RaiseBump, mainVars, engineVars, Done
    <2>4. QED
      BY <2>1, <2>2, <2>3 DEF EngineNext
  <1>3. JoinedBeforeMembers => SharedStateOutlivesWorkers
    BY DEF JoinedBeforeMembers, SharedStateOutlivesWorkers
  <1>4. BarrierInv => EngineTypeOK
    BY DEF BarrierInv, AllInitialisedBeforeAnyRuns
  <1>5. QED
    BY <1>1, <1>2, <1>3, <1>4, BarrierInvariant, PTL DEF EngineSpec

-----------------------------------------------------------------------------
(* The invariant of the connector *)

ConnectorTypes ==
    /\ op \in [Conn -> {"none", "armed", "deferred", "gone"}]
    /\ completed \in [Conn -> BOOLEAN]
    /\ timer \in [Conn -> {"none", "armed", "spent"}]
    /\ frame \in [Conn -> {"none", "suspended", "ready", "resumed", "destroyed"}]
    /\ cend \in [Conn -> {"none", "open", "closed"}]
    /\ answers \in [Conn -> {<<>>, <<"open">>, <<"none">>}]

\* The flag, the object and the history agree on whether the operation has
\* answered; a frame and a timer exist only once it was started; and an open
\* socket has an owner.
Connect(c) ==
    /\ completed[c] => op[c] = "gone"
    /\ completed[c] <=> answers[c] # <<>>
    /\ op[c] = "none" <=> frame[c] = "none"
    /\ timer[c] = "armed" => op[c] # "none"
    /\ op[c] = "none" => cend[c] # "open"
    /\ frame[c] \in {"ready", "resumed"} => completed[c]
    /\ frame[c] = "suspended" => op[c] \in {"armed", "deferred"}
    /\ cend[c] = "open" => \/ op[c] \in {"armed", "deferred"}
                           \/ frame[c] \in {"ready", "resumed"} /\ answers[c] = <<"open">>

ConnectInv == ConnectorTypes /\ \A c \in Conn : Connect(c)

\* A step of connection c changes nothing of the others.
Only(c) ==
    \A x \in Conn \ {c} :
        /\ op'[x] = op[x] /\ completed'[x] = completed[x] /\ timer'[x] = timer[x] /\ frame'[x] = frame[x]
        /\ cend'[x] = cend[x] /\ answers'[x] = answers[x]

\* A step of one connection keeps the invariant of all of them.
LEMMA OneConnection ==
    ASSUME ConnectInv, ConnectorTypes', NEW c \in Conn, Only(c), Connect(c)'
    PROVE  ConnectInv'
<1>1. ASSUME NEW x \in Conn, x # c PROVE Connect(x)'
  BY <1>1 DEF Only, Connect, ConnectInv
<1> QED
  BY <1>1 DEF ConnectInv

\* deliver() answers an operation that was started and has not answered.
LEMMA DeliverAnswers ==
    ASSUME ConnectInv, NEW c \in Conn, NEW answer \in {"open", "none"}, deliver(c, answer), op[c] # "none",
           timer' = timer \/ timer' = [timer EXCEPT ![c] = "spent"]
    PROVE  ConnectInv'
<1> USE DEF ConnectInv, ConnectorTypes
<1>1. CASE completed[c]
  <2>1. /\ cend' = cend /\ completed' = completed /\ op' = op /\ answers' = answers /\ frame' = frame
    BY <1>1 DEF deliver
  <2>2. timer' \in [Conn -> {"none", "armed", "spent"}] /\ \A x \in Conn : timer'[x] = "armed" => timer[x] = "armed"
    OBVIOUS
  <2> QED
    BY <2>1, <2>2 DEF Connect
<1>2. CASE ~completed[c]
  <2>1. answers[c] = <<>>
    BY <1>2 DEF Connect
  <2>2. answers' = [answers EXCEPT ![c] = <<answer>>]
    BY <1>2, <2>1 DEF deliver
  <2>3. /\ completed' = [completed EXCEPT ![c] = TRUE] /\ op' = [op EXCEPT ![c] = "gone"]
        /\ frame' = [frame EXCEPT ![c] = IF frame[c] = "suspended" THEN "ready" ELSE frame[c]]
        /\ IF answer = "open" /\ frame[c] = "suspended" THEN cend' = cend ELSE cend' = [cend EXCEPT ![c] = "closed"]
    BY <1>2 DEF deliver, CloseSocket
  <2>4. ConnectorTypes'
    BY <2>2, <2>3
  <2>5. Only(c)
    BY <2>2, <2>3 DEF Only
  <2>6. /\ completed'[c] /\ op'[c] = "gone" /\ answers'[c] = <<answer>>
        /\ frame'[c] = IF frame[c] = "suspended" THEN "ready" ELSE frame[c]
        /\ cend'[c] = IF answer = "open" /\ frame[c] = "suspended" THEN cend[c] ELSE "closed"
    BY <2>2, <2>3
  <2>7. Connect(c) /\ <<answer>> # <<>>
    OBVIOUS
  <2>8. Connect(c)'
    BY <2>6, <2>7 DEF Connect
  <2> QED
    BY <2>4, <2>5, <2>8, OneConnection
<1> QED
  BY <1>1, <1>2

\* A started operation.
LEMMA StartAnswers ==
    ASSUME ConnectInv, NEW c \in Conn, RunInProgress(c) \/ RunDirect(c) \/ RunFails(c) \/ RunLate(c)
    PROVE  ConnectInv'
<1> USE DEF ConnectInv, ConnectorTypes
<1>1. op[c] = "none" /\ ~completed[c] /\ answers[c] = <<>> /\ timer[c] # "armed"
  BY DEF RunInProgress, RunDirect, RunFails, RunLate, Connect
<1>2. ASSUME NEW p, Arm(c, p), frame' = [frame EXCEPT ![c] = "suspended"], cend' = [cend EXCEPT ![c] = "open"]
      PROVE  ConnectInv'
  <2>1. /\ op' = [op EXCEPT ![c] = "armed"] /\ completed' = completed /\ answers' = answers
        /\ timer' = [timer EXCEPT ![c] = IF HasDeadline[c] THEN "armed" ELSE "none"]
    BY <1>2 DEF Arm
  <2>2. ConnectorTypes' /\ Only(c)
    BY <1>2, <2>1 DEF Only
  <2>3. Connect(c)'
    BY <1>1, <1>2, <2>1 DEF Connect
  <2> QED
    BY <2>2, <2>3, OneConnection
<1>3. ASSUME frame' = [frame EXCEPT ![c] = "suspended"], op' = [op EXCEPT ![c] = "deferred"],
             cend' = cend \/ cend' = [cend EXCEPT ![c] = "open"],
             UNCHANGED <<completed, timer, answers>>
      PROVE  ConnectInv'
  <2>1. ConnectorTypes' /\ Only(c)
    BY <1>3 DEF Only
  <2>2. Connect(c)'
    BY <1>1, <1>3 DEF Connect
  <2> QED
    BY <2>1, <2>2, OneConnection
<1>4. ASSUME NEW answer \in {"open", "none"}, completed' = [completed EXCEPT ![c] = TRUE], op' = [op EXCEPT ![c] = "gone"],
             answers' = [answers EXCEPT ![c] = <<answer>>], frame' = [frame EXCEPT ![c] = "ready"], timer' = timer,
             cend' = [cend EXCEPT ![c] = IF answer = "open" THEN "open" ELSE "closed"]
      PROVE  ConnectInv'
  <2>1. ConnectorTypes' /\ Only(c)
    BY <1>4 DEF Only
  <2>2. <<answer>> # <<>>
    OBVIOUS
  <2>3. Connect(c)'
    BY <1>1, <1>4, <2>2 DEF Connect
  <2> QED
    BY <2>1, <2>3, OneConnection
<1>5. CASE RunInProgress(c)
  BY <1>2, <1>5 DEF RunInProgress
<1>6. CASE RunDirect(c)
  BY <1>2, <1>3, <1>4, <1>6 DEF RunDirect
<1>7. CASE RunFails(c)
  BY <1>3, <1>7 DEF RunFails, netvars
<1>8. CASE RunLate(c)
  BY <1>4, <1>8 DEF RunLate
<1> QED
  BY <1>5, <1>6, <1>7, <1>8

\* Nothing the connector's invariant is about changes, or a client closes.
LEMMA ConnectorIdle ==
    ASSUME ConnectInv, UNCHANGED <<op, completed, timer, frame, answers>>,
           cend' = cend \/ \E c \in Conn : cend' = [cend EXCEPT ![c] = "closed"]
    PROVE  ConnectInv'
<1>1. ConnectorTypes'
  BY DEF ConnectInv, ConnectorTypes
<1>2. \A x \in Conn : cend'[x] = "open" => cend[x] = "open"
  BY DEF ConnectInv, ConnectorTypes
<1> QED
  BY <1>1, <1>2 DEF ConnectInv, Connect

\* Every step of the connector keeps its invariant.
LEMMA ConnectorStep ==
    ASSUME ConnectInv, ConnectorNext
    PROVE  ConnectInv'
<1>1. ASSUME NEW c \in Conn, RunInProgress(c) \/ RunDirect(c) \/ RunFails(c) \/ RunLate(c) PROVE ConnectInv'
  BY <1>1, StartAnswers
<1>2. ASSUME NEW c \in Conn, Deferred(c) PROVE ConnectInv'
  BY <1>2, DeliverAnswers DEF Deferred
<1>3. ASSUME NEW c \in Conn, OnIo(c) PROVE ConnectInv'
  <2>1. op[c] = "armed" /\ timer' = timer
    BY <1>3 DEF OnIo
  <2>2. \/ \E d \in {"open", "none"} : deliver(c, d)
        \/ UNCHANGED <<cend, op, completed, answers, frame>>
    BY <1>3 DEF OnIo
  <2> QED
    BY <2>1, <2>2, DeliverAnswers, ConnectorIdle
<1>4. ASSUME NEW c \in Conn, OnDeadline(c) PROVE ConnectInv'
  <2>1. op[c] # "none" /\ timer' = [timer EXCEPT ![c] = "spent"]
    BY <1>4 DEF OnDeadline, ConnectInv, Connect
  <2>2. CASE op[c] = "gone"
    <3>1. UNCHANGED <<cend, op, completed, answers, frame>>
      BY <1>4, <2>2 DEF OnDeadline
    <3>2. timer' \in [Conn -> {"none", "armed", "spent"}] /\ \A x \in Conn : timer'[x] = "armed" => timer[x] = "armed"
      BY <2>1 DEF ConnectInv, ConnectorTypes
    <3> QED
      BY <3>1, <3>2 DEF ConnectInv, ConnectorTypes, Connect
  <2>3. CASE op[c] # "gone"
    BY <1>4, <2>1, <2>3, DeliverAnswers DEF OnDeadline
  <2> QED
    BY <2>2, <2>3
<1>5. ASSUME NEW c \in Conn, Resume(c) PROVE ConnectInv'
  <2>1. ConnectorTypes' /\ Only(c)
    BY <1>5 DEF Resume, ConnectInv, ConnectorTypes, Only, netvars
  <2>2. Connect(c)'
    BY <1>5 DEF Resume, ConnectInv, ConnectorTypes, Connect, netvars
  <2> QED
    BY <2>1, <2>2, OneConnection
<1>6. ASSUME NEW c \in Conn, DestroyFrame(c) PROVE ConnectInv'
  <2>1. ConnectorTypes' /\ Only(c)
    BY <1>6 DEF DestroyFrame, CloseSocket, ConnectInv, ConnectorTypes, Only
  <2>2. Connect(c)'
    BY <1>6 DEF DestroyFrame, CloseSocket, ConnectInv, ConnectorTypes, Connect
  <2> QED
    BY <2>1, <2>2, OneConnection
<1>7. CASE Teardown
  <2>1. ConnectorTypes'
    BY <1>7 DEF Teardown, ConnectInv, ConnectorTypes
  <2>2. ASSUME NEW x \in Conn PROVE Connect(x)'
    BY <1>7 DEF Teardown, ConnectInv, ConnectorTypes, Connect
  <2> QED
    BY <2>1, <2>2 DEF ConnectInv
<1> QED
  BY <1>1, <1>2, <1>3, <1>4, <1>5, <1>6, <1>7 DEF ConnectorNext

\* The sessions of the server, the network and the client's application leave
\* the operation alone; at most the client closes its end.
LEMMA OthersIdle ==
    ASSUME (SessionNext /\ UNCHANGED connvars) \/ \E c \in Conn : Client(c) \/ Network(c)
    PROVE  /\ UNCHANGED <<op, completed, timer, frame, answers>>
           /\ cend' = cend \/ \E c \in Conn : cend' = [cend EXCEPT ![c] = "closed"]
<1>1. CASE SessionNext /\ UNCHANGED connvars
  <2>1. cend' = cend
    <3>1. ASSUME NEW c \in Conn, OnEvent(c) \/ OnRead(c) \/ OnMessage(c) \/ UserCall(c) PROVE cend' = cend
      BY <3>1 DEF OnEvent, OnRead, OnMessage, UserCall, netvars
    <3>2. ASSUME NEW c \in Conn, PostRead(c) PROVE cend' = cend
      BY <3>2 DEF PostRead, netvars
    <3>3. ASSUME NEW c \in Conn, OnWrite(c) PROVE cend' = cend
      BY <3>3 DEF OnWrite, netvars
    <3>4. ASSUME NEW c \in Conn, Dispose(c) PROVE cend' = cend
      BY <3>4 DEF Dispose, DestroySession
    <3>5. ASSUME NEW c \in Conn, OnMessageExtract(c) \/ UserExtract(c) PROVE cend' = cend
      BY <3>5 DEF OnMessageExtract, UserExtract, extractSession
    <3>6. ASSUME NEW c \in Conn, Accept(c) PROVE cend' = cend
      BY <3>6 DEF Accept
    <3>7. CASE stream
      BY <3>7 DEF stream, netvars
    <3> QED
      BY <1>1, <3>1, <3>2, <3>3, <3>4, <3>5, <3>6, <3>7 DEF SessionNext, Step
  <2> QED
    BY <1>1, <2>1 DEF connvars
<1>2. ASSUME NEW c \in Conn, Client(c) PROVE UNCHANGED connvars /\ (cend' = cend \/ cend' = [cend EXCEPT ![c] = "closed"])
  BY <1>2 DEF Client, ClientSend, ClientRead, ClientClose
<1>3. ASSUME NEW c \in Conn, Network(c) PROVE UNCHANGED connvars /\ cend' = cend
  BY <1>3 DEF Network, Establish, Refuse, Reset
<1> QED
  BY <1>1, <1>2, <1>3 DEF connvars

\* The connector's invariant holds whatever the rest of the system does.
LEMMA ConnectInvariant == IOSpec => []ConnectInv
<1>1. IOInit => ConnectInv
  BY DEF IOInit, NetInit, ConnectorInit, ConnectInv, ConnectorTypes, Connect
<1>2. ConnectInv /\ [IONext]_ioVars => ConnectInv'
  <2> SUFFICES ASSUME ConnectInv, [IONext]_ioVars PROVE ConnectInv'
    OBVIOUS
  <2>1. CASE ConnectorNext
    BY <2>1, ConnectorStep
  <2>2. CASE (SessionNext /\ UNCHANGED connvars) \/ \E c \in Conn : Client(c) \/ Network(c)
    BY <2>2, OthersIdle, ConnectorIdle
  <2>3. CASE UNCHANGED ioVars
    <3>1. UNCHANGED <<op, completed, timer, frame, answers>> /\ cend' = cend
      BY <2>3 DEF ioVars, netvars, connvars
    <3> QED
      BY <3>1, ConnectorIdle
  <2> QED
    BY <2>1, <2>2, <2>3 DEF IONext
<1> QED
  BY <1>1, <1>2, PTL DEF IOSpec

\* A connect is answered at most once, whether its watcher, its deadline, a
\* deferred failure or the teardown comes first; a coroutine has its answer
\* when it is resumed; and no socket is left without an owner (connector.h
\* deliver, on, run; listener.h clear).
THEOREM ConnectsAnswerOnce == IOSpec => []ConnectAnswersOnce
<1>1. ConnectInv => ConnectAnswersOnce
  <2> SUFFICES ASSUME ConnectInv, NEW c \in Conn
               PROVE  /\ Len(answers[c]) <= 1
                      /\ frame[c] \in {"ready", "resumed"} => Len(answers[c]) = 1
                      /\ frame[c] = "suspended" => op[c] \in {"armed", "deferred"}
                      /\ cend[c] = "open" => \/ op[c] \in {"armed", "deferred"}
                                             \/ frame[c] \in {"ready", "resumed"} /\ answers[c] = <<"open">>
                      /\ completed[c] => op[c] = "gone"
    BY DEF ConnectAnswersOnce
  <2>1. Connect(c) /\ answers[c] \in {<<>>, <<"open">>, <<"none">>}
    BY DEF ConnectInv, ConnectorTypes
  <2>2. Len(<<>>) = 0 /\ Len(<<"open">>) = 1 /\ Len(<<"none">>) = 1
    OBVIOUS
  <2>3. Len(answers[c]) <= 1 /\ (completed[c] => Len(answers[c]) = 1)
    <3>1. CASE answers[c] = <<>>
      BY <2>1, <2>2, <3>1 DEF Connect
    <3>2. CASE answers[c] = <<"open">>
      BY <2>2, <3>2
    <3>3. CASE answers[c] = <<"none">>
      BY <2>2, <3>3
    <3> QED
      BY <2>1, <3>1, <3>2, <3>3
  <2> QED
    BY <2>1, <2>3 DEF Connect
<1> QED
  BY <1>1, ConnectInvariant, PTL

-----------------------------------------------------------------------------
(* The invariant of the server *)

Session ==
    [alive : BOOLEAN, ok : BOOLEAN, on_message : BOOLEAN, is_disposed : {FALSE},
     reason : Int, system_error : BOOLEAN, events : SUBSET {"READ", "WRITE"}, fed : BOOLEAN,
     in : Seq(Nat), offset : Nat, out : Seq(Nat), published : Nat]

\* A session object within its limits; one that lives watches for input, and for
\* room while it has output.
Sound(s) ==
    /\ s \in Session
    /\ pendingWrite(s) <= MaxWrite /\ pendingRead(s) <= MaxRead
    /\ s.alive => "READ" \in s.events /\ (s.out # <<>> => "WRITE" \in s.events)

ServerTypes ==
    /\ net \in [Conn -> {"none", "syn", "up", "refused", "reset"}]
    /\ send \in [Conn -> {"none", "backlog", "open", "closed", "extracted"}]
    /\ rx \in [Conn -> Seq(Nat)] /\ tx \in [Conn -> Seq(Nat)] /\ sent \in [Conn -> Nat]
    /\ sphase \in [Conn -> {"connecting", "negotiating", "handshaking"}]
    /\ sessions \subseteq Conn /\ IsFiniteSet(sessions) /\ Cardinality(sessions) <= MaxSessions
    /\ running \in Conn \cup {None}
    /\ stage \in {"idle", "read", "message", "post", "write", "error"}
    /\ ses \in [Conn -> Session]
    /\ farewells \in [Conn -> Nat]

\* A connection is accepted once: only a fresh one can be in the backlog.
Fresh(c) ==
    /\ op[c] = "none" => net[c] = "none"
    /\ net[c] \in {"none", "syn", "refused"} => send[c] = "none"
    /\ send[c] \in {"none", "backlog"} => farewells[c] = 0
    /\ Len(tx[c]) <= SndBuf

\* A disconnect is on its way to be handled, and the object lives in the map
\* or in the handler that runs.
Served(c) ==
    LET s == ses[c] IN
    /\ Sound(s)
    /\ c \in sessions => s.alive /\ send[c] = "open" /\ farewells[c] = 0
    /\ s.alive => c \in sessions \/ running = c
    /\ send[c] = "open" => c \in sessions
    /\ s.alive /\ s.reason # 0 => s.fed \/ (running = c /\ stage = "error")
    /\ running = c => s.alive /\ farewells[c] = 0 /\ stage # "idle" /\ send[c] \notin {"none", "backlog"}
    /\ running = c /\ stage \in {"read", "message"} => s.reason = 0
    /\ farewells[c] <= 1

ServerInv == ServerTypes /\ \A c \in Conn : Fresh(c) /\ Served(c)
IInv == ConnectInv /\ ServerInv

-----------------------------------------------------------------------------
(* What the calls of a session do to it *)

\* The limits, as the proofs use them.
LEMMA SizesAreNumbers ==
    /\ MaxSessions \in Nat \ {0} /\ MaxMessage \in Nat \ {0} /\ Bucket \in Nat \ {0} /\ MaxRead \in Nat \ {0}
    /\ MaxWrite \in Nat \ {0} /\ ReplySize \in Nat \ {0} /\ SndBuf \in Nat \ {0} /\ Bucket <= MaxRead
    /\ None \notin Conn
BY SessionAssumption, NetAssumption

\* The smaller of two numbers.
LEMMA MinOfTwo ==
    ASSUME NEW a \in Int, NEW b \in Int
    PROVE  Min({a, b}) \in {a, b} /\ Min({a, b}) <= a /\ Min({a, b}) <= b
<1>1. \E x \in {a, b} : \A y \in {a, b} : x <= y
  <2>1. CASE a <= b
    BY <2>1
  <2>2. CASE ~(a <= b)
    BY <2>2
  <2> QED
    BY <2>1, <2>2
<1> QED
  BY <1>1 DEF Min

\* Types and lengths of the parts of a byte sequence, and of two joined.
LEMMA Pieces ==
    ASSUME NEW S, NEW q \in Seq(S)
    PROVE  /\ \A n \in Nat : SubSeq(q, n + 1, Len(q)) \in Seq(S) /\ Len(SubSeq(q, n + 1, Len(q))) <= Len(q)
           /\ \A n \in 0 .. Len(q) : SubSeq(q, 1, n) \in Seq(S) /\ Len(SubSeq(q, 1, n)) = n
           /\ \A r \in Seq(S) : q \o r \in Seq(S) /\ Len(q \o r) = Len(q) + Len(r)
           /\ q # <<>> <=> Len(q) > 0
           /\ Len(q) \in Nat
<1>1. ASSUME NEW n \in Nat PROVE SubSeq(q, n + 1, Len(q)) \in Seq(S) /\ Len(SubSeq(q, n + 1, Len(q))) <= Len(q)
  OBVIOUS
<1>2. ASSUME NEW n \in 0 .. Len(q) PROVE SubSeq(q, 1, n) \in Seq(S) /\ Len(SubSeq(q, 1, n)) = n
  OBVIOUS
<1>3. \A r \in Seq(S) : q \o r \in Seq(S) /\ Len(q \o r) = Len(q) + Len(r)
  OBVIOUS
<1>4. q # <<>> <=> Len(q) > 0
  OBVIOUS
<1> QED
  BY <1>1, <1>2, <1>3, <1>4

\* The session is told to end, and the loop knows; or it is not.
Told(s) == s.reason # 0 => s.fed

\* A session is sound when it is made, and so is the place of one that is gone.
LEMMA NewSessionSound ==
    /\ Sound(NewSession) /\ NewSession.alive /\ Told(NewSession)
    /\ Sound(NoSession) /\ ~NoSession.alive
<1>0. NewSession \in Session
  <2>1. <<>> \in Seq(Nat) /\ {"READ"} \in SUBSET {"READ", "WRITE"}
    OBVIOUS
  <2> QED
    BY <2>1 DEF NewSession, Session
<1>1. NewSession \in Session /\ NoSession \in Session
  BY <1>0 DEF NoSession, Session
<1>2. Len(NewSession.out) = 0 /\ Len(NewSession.in) = 0 /\ Len(NoSession.out) = 0 /\ Len(NoSession.in) = 0
  BY DEF NewSession, NoSession
<1> QED
  BY <1>1, <1>2, SizesAreNumbers DEF Sound, Told, NewSession, NoSession, pendingWrite, pendingRead

\* disconnect() leaves a sound session that the loop has been told of.
LEMMA DisconnectSound ==
    ASSUME NEW s, Sound(s), NEW why \in Int
    PROVE  Sound(disconnect(s, why)) /\ disconnect(s, why).alive = s.alive /\ Told(disconnect(s, why))
BY DEF disconnect, Sound, Session, Told, pendingWrite, pendingRead

\* close_after_deliver() changes nothing the invariant is about.
LEMMA CloseSound ==
    ASSUME NEW s, Sound(s), Told(s)
    PROVE  Sound(close_after_deliver(s)) /\ close_after_deliver(s).alive = s.alive /\ Told(close_after_deliver(s))
BY DEF close_after_deliver, Sound, Session, Told, pendingWrite, pendingRead

\* ready_to_write() only adds to what is watched.
LEMMA ReadySound ==
    ASSUME NEW s, Sound(s)
    PROVE  /\ Sound(ready_to_write(s)) /\ ready_to_write(s).alive = s.alive /\ "WRITE" \in ready_to_write(s).events
           /\ ready_to_write(s).reason = s.reason /\ ready_to_write(s).fed = s.fed
BY DEF ready_to_write, Sound, Session, pendingWrite, pendingRead

\* Other output for a session that watches for room.
LEMMA OutputSound ==
    ASSUME NEW s, Sound(s), "WRITE" \in s.events, NEW q \in Seq(Nat), Len(q) <= MaxWrite, NEW n \in Nat
    PROVE  LET t == [s EXCEPT !.out = q, !.published = n] IN
           Sound(t) /\ t.alive = s.alive /\ t.reason = s.reason /\ t.fed = s.fed
BY DEF Sound, Session, pendingWrite, pendingRead

\* The error that is reported is free.
LEMMA ErrnoSound ==
    ASSUME NEW s, Sound(s), NEW b \in BOOLEAN
    PROVE  LET t == [s EXCEPT !.system_error = b] IN
           Sound(t) /\ t.alive = s.alive /\ t.reason = s.reason /\ t.fed = s.fed
BY DEF Sound, Session, pendingWrite, pendingRead

\* publish() keeps the output within its limit, watches for room, and tells
\* the loop of the session it ends.
LEMMA PublishSound ==
    ASSUME NEW s, Sound(s), Told(s)
    PROVE  Sound(publish(s)) /\ publish(s).alive = s.alive /\ Told(publish(s))
<1> DEFINE data == [i \in 1 .. ReplySize |-> s.published + i]
           n == Min({MaxWrite, pendingWrite(s) + ReplySize})
           kept == SubSeq(s.out \o data, 1, n)
           r == ready_to_write(s)
           pub == r.published + Len(kept) - pendingWrite(s)
           t == [r EXCEPT !.out = kept, !.published = pub]
<1>1. s.out \in Seq(Nat) /\ Len(s.out) \in Nat /\ pendingWrite(s) = Len(s.out) /\ s.published \in Nat /\ Len(s.out) <= MaxWrite
  BY DEF Sound, Session, pendingWrite
<1>2. data \in Seq(Nat) /\ Len(data) = ReplySize
  BY <1>1, SizesAreNumbers
<1>3. s.out \o data \in Seq(Nat) /\ Len(s.out \o data) = Len(s.out) + ReplySize
  <2> DEFINE old == s.out
  <2>1. old \in Seq(Nat) /\ Len(old) = Len(s.out)
    BY <1>1
  <2> HIDE DEF data, old
  <2>2. old \o data \in Seq(Nat) /\ Len(old \o data) = Len(old) + Len(data)
    BY <1>2, <2>1
  <2> QED
    BY <1>2, <2>2 DEF old
<1>4. n \in 0 .. Len(s.out \o data) /\ n >= Len(s.out) /\ n <= MaxWrite
  <2>1. MaxWrite \in Int /\ pendingWrite(s) + ReplySize \in Int
    BY <1>1, SizesAreNumbers
  <2>2. n \in {MaxWrite, pendingWrite(s) + ReplySize} /\ n <= MaxWrite /\ n <= pendingWrite(s) + ReplySize
    BY <2>1, MinOfTwo
  <2> HIDE DEF n
  <2> QED
    BY <1>1, <1>3, <2>2, SizesAreNumbers
<1>5. kept \in Seq(Nat) /\ Len(kept) = n
  <2> DEFINE whole == s.out \o data
  <2>1. whole \in Seq(Nat) /\ n \in 0 .. Len(whole)
    BY <1>3, <1>4
  <2> HIDE DEF whole, n
  <2>2. SubSeq(whole, 1, n) \in Seq(Nat) /\ Len(SubSeq(whole, 1, n)) = n
    BY <2>1, Pieces
  <2> QED
    BY <2>2 DEF whole
<1>6. pub \in Nat
  <2>1. r.published = s.published
    BY DEF ready_to_write, Sound, Session
  <2> HIDE DEF kept, r, n
  <2> QED
    BY <1>1, <1>4, <1>5, <2>1
<1>7. Sound(t) /\ t.alive = s.alive /\ t.reason = s.reason /\ t.fed = s.fed
  <2>1. Sound(r) /\ "WRITE" \in r.events /\ r.alive = s.alive /\ r.reason = s.reason /\ r.fed = s.fed
    BY ReadySound
  <2>2. Len(kept) <= MaxWrite
    BY <1>4, <1>5
  <2> HIDE DEF kept, r, pub
  <2> QED
    BY <1>5, <1>6, <2>1, <2>2, OutputSound
<1>8. publish(s) = IF s.is_disposed \/ s.reason # 0 THEN s
                   ELSE IF pendingWrite(s) >= MaxWrite
                        THEN disconnect([s EXCEPT !.system_error = FALSE], buffer_overflow)
                   ELSE IF pendingWrite(s) + ReplySize > MaxWrite
                        THEN disconnect([t EXCEPT !.system_error = FALSE], buffer_overflow)
                   ELSE t
  BY DEF publish
<1>9. buffer_overflow \in Int
  BY DEF buffer_overflow
<1>10. ASSUME NEW u, Sound(u), u.alive = s.alive
       PROVE  LET v == disconnect([u EXCEPT !.system_error = FALSE], buffer_overflow) IN
              Sound(v) /\ v.alive = s.alive /\ Told(v)
  BY <1>9, <1>10, ErrnoSound, DisconnectSound
<1> HIDE DEF t
<1> QED
  BY <1>7, <1>8, <1>10 DEF Told

\* So does everything user code may do to a session in one go.
LEMMA CallsSound ==
    ASSUME NEW c \in Conn, NEW s, Sound(s), Told(s), NEW t \in Calls(c, s)
    PROVE  Sound(t) /\ t.alive = s.alive /\ Told(t)
<1>1. ASSUME NEW r \in Replies(c, s) PROVE Sound(r) /\ r.alive = s.alive /\ Told(r)
  BY <1>1, PublishSound DEF Replies
<1>2. user_initiated \in Int
  BY DEF user_initiated
<1>3. PICK r \in Replies(c, s) : t = r \/ t = disconnect(r, user_initiated) \/ t = close_after_deliver(r)
  BY DEF Calls
<1> QED
  BY <1>1, <1>2, <1>3, DisconnectSound, CloseSound

-----------------------------------------------------------------------------
(* The steps of the server *)

\* A step of session c leaves the other sessions alone.
OnlySession(c) ==
    /\ running \in {c, None} /\ running' \in {c, None}
    /\ \A x \in Conn \ {c} :
          /\ ses'[x] = ses[x] /\ send'[x] = send[x] /\ farewells'[x] = farewells[x] /\ tx'[x] = tx[x]
          /\ x \in sessions' <=> x \in sessions

\* A step of one session keeps the invariant of all of them.
LEMMA OneSession ==
    ASSUME ServerInv, ServerTypes', NEW c \in Conn, OnlySession(c), net' = net, op' = op,
           Fresh(c)', Served(c)'
    PROVE  ServerInv'
<1>1. ASSUME NEW x \in Conn, x # c PROVE Fresh(x)' /\ Served(x)'
  <2>1. Fresh(x) /\ Served(x) /\ x # None
    BY SizesAreNumbers DEF ServerInv
  <2>2. /\ ses'[x] = ses[x] /\ send'[x] = send[x] /\ farewells'[x] = farewells[x] /\ tx'[x] = tx[x]
        /\ x \in sessions' <=> x \in sessions
        /\ running # x /\ running' # x
    BY <1>1, <2>1 DEF OnlySession
  <2>3. Fresh(x)'
    BY <2>1, <2>2 DEF Fresh
  <2>4. Sound(ses[x])' <=> Sound(ses[x])
    BY <2>2 DEF Sound, Session, pendingWrite, pendingRead
  <2> QED
    BY <2>1, <2>2, <2>3, <2>4 DEF Served
<1> QED
  BY <1>1 DEF ServerInv

\* The kernel's side after a step of a session that goes on: bytes move, no more
\* than the kernel takes.
NetKept(c) ==
    /\ net' = net /\ send' = send /\ sent' = sent /\ op' = op /\ sphase' = sphase
    /\ rx' \in [Conn -> Seq(Nat)] /\ tx' \in [Conn -> Seq(Nat)] /\ Len(tx'[c]) <= SndBuf
    /\ \A x \in Conn \ {c} : tx'[x] = tx[x]

\* on() goes on with a sound session.
LEMMA ContinueServed ==
    ASSUME ServerInv, NEW c \in Conn, running = c, NEW s, Sound(s), s.alive,
           NEW next \in {"message", "post", "write", "error"},
           Continue(c, s, next), Told(s) \/ next = "error", next = "message" => s.reason = 0, NetKept(c)
    PROVE  ServerInv'
<1>1. /\ ses' = [ses EXCEPT ![c] = s] /\ stage' = next /\ sessions' = sessions /\ running' = running
      /\ farewells' = farewells
  BY DEF Continue
<1>2. ServerTypes
  BY DEF ServerInv
<1>3. s \in Session
  BY DEF Sound
<1>4. ServerTypes'
  BY <1>1, <1>2, <1>3 DEF ServerTypes, NetKept, Session
<1>5. ses'[c] = s /\ \A x \in Conn \ {c} : ses'[x] = ses[x]
  BY <1>1, <1>2 DEF ServerTypes
<1>6. OnlySession(c)
  BY <1>1, <1>5 DEF OnlySession, NetKept
<1>7. Fresh(c) /\ Served(c)
  BY DEF ServerInv
<1>8. Fresh(c)'
  BY <1>1, <1>7 DEF Fresh, NetKept
<1>9. Sound(ses[c])'
  BY <1>5 DEF Sound, Session, pendingWrite, pendingRead
<1>10. Served(c)'
  BY <1>1, <1>5, <1>7, <1>9 DEF Served, NetKept, Told
<1> QED
  BY <1>4, <1>6, <1>8, <1>10, OneSession DEF NetKept

\* on() returns with a sound session.
LEMMA ReturnServed ==
    ASSUME ServerInv, NEW c \in Conn, running = c, NEW s, Sound(s), s.alive, Told(s), Return(c, s), NetKept(c)
    PROVE  ServerInv'
<1> DEFINE t == IF c \in sessions THEN s ELSE NoSession
<1>1. /\ ses' = [ses EXCEPT ![c] = t] /\ stage' = "idle" /\ sessions' = sessions /\ running' = None
      /\ farewells' = farewells
  BY DEF Return
<1>2. ServerTypes
  BY DEF ServerInv
<1>3. Sound(t) /\ (c \in sessions => t = s) /\ (c \notin sessions => ~t.alive)
  BY NewSessionSound
<1> HIDE DEF t
<1>4. t \in Session
  BY <1>3 DEF Sound
<1>5. ServerTypes'
  BY <1>1, <1>2, <1>4 DEF ServerTypes, NetKept, Session
<1>6. ses'[c] = t /\ \A x \in Conn \ {c} : ses'[x] = ses[x]
  BY <1>1, <1>2 DEF ServerTypes
<1>7. OnlySession(c)
  BY <1>1, <1>6 DEF OnlySession, NetKept
<1>8. Fresh(c) /\ Served(c) /\ c # None
  BY SizesAreNumbers DEF ServerInv
<1>9. Fresh(c)'
  BY <1>1, <1>8 DEF Fresh, NetKept
<1>10. Sound(ses[c])'
  BY <1>3, <1>6 DEF Sound, Session, pendingWrite, pendingRead
<1>11. Served(c)'
  BY <1>1, <1>3, <1>6, <1>8, <1>10 DEF Served, NetKept, Told
<1> QED
  BY <1>5, <1>7, <1>9, <1>11, OneSession DEF NetKept

\* A step that at most takes received bytes keeps the kernel's side.
LEMMA NetUnchanged ==
    ASSUME ServerInv, NEW c \in Conn, UNCHANGED <<net, send, sent, tx, op, sphase>>, rx' \in [Conn -> Seq(Nat)]
    PROVE  NetKept(c)
BY DEF ServerInv, ServerTypes, NetKept, Fresh

\* on(event::io) starts.
LEMMA EventServed == ASSUME ServerInv, NEW c \in Conn, OnEvent(c), UNCHANGED connvars PROVE ServerInv'
<1> DEFINE s == [ses[c] EXCEPT !.fed = FALSE]
<1>1. /\ running = None /\ ses[c].alive /\ running' = c /\ sessions' = sessions /\ farewells' = farewells
      /\ ses' = [ses EXCEPT ![c] = s] /\ UNCHANGED <<net, send, sent, rx, tx, op, sphase>>
  BY DEF OnEvent, connvars, netvars
<1>2. /\ stage' \in {"read", "write", "error"} /\ (ses[c].reason # 0 => stage' = "error")
  BY DEF OnEvent
<1>3. ServerTypes /\ Fresh(c) /\ Served(c) /\ c # None
  BY SizesAreNumbers DEF ServerInv
<1>4. Sound(s) /\ s.alive /\ s.reason = ses[c].reason
  BY <1>1, <1>3 DEF Served, Sound, Session, pendingWrite, pendingRead
<1> HIDE DEF s
<1>5. s \in Session
  BY <1>4 DEF Sound
<1>6. ServerTypes'
  BY <1>1, <1>2, <1>3, <1>5 DEF ServerTypes, Session
<1>7. ses'[c] = s /\ \A x \in Conn \ {c} : ses'[x] = ses[x]
  BY <1>1, <1>3 DEF ServerTypes
<1>8. OnlySession(c)
  BY <1>1, <1>7 DEF OnlySession
<1>9. Fresh(c)'
  BY <1>1, <1>3 DEF Fresh
<1>10. Sound(ses[c])'
  BY <1>4, <1>7 DEF Sound, Session, pendingWrite, pendingRead
<1>11. Served(c)'
  BY <1>1, <1>2, <1>3, <1>4, <1>7, <1>10 DEF Served
<1> QED
  BY <1>1, <1>6, <1>8, <1>9, <1>11, OneSession

\* What the invariant says of a session whose handler runs.
LEMMA RunningSession ==
    ASSUME ServerInv, NEW c \in Conn, running = c
    PROVE  /\ Sound(ses[c]) /\ ses[c].alive
           /\ stage # "error" => Told(ses[c])
           /\ stage \in {"read", "message"} => ses[c].reason = 0
BY DEF ServerInv, Served, Told

\* Changes of a session that only matter to its handler.
LEMMA FieldsSound ==
    ASSUME NEW s, Sound(s)
    PROVE  /\ \A n \in Nat, b \in BOOLEAN :
                 LET t == [s EXCEPT !.offset = n, !.on_message = b] IN
                 Sound(t) /\ t.alive = s.alive /\ t.reason = s.reason /\ t.fed = s.fed
           /\ \A b \in BOOLEAN : LET t == [s EXCEPT !.on_message = b] IN
                 Sound(t) /\ t.alive = s.alive /\ t.reason = s.reason /\ t.fed = s.fed
           /\ \A n \in Nat : LET t == [s EXCEPT !.offset = n] IN
                 Sound(t) /\ t.alive = s.alive /\ t.reason = s.reason /\ t.fed = s.fed
           /\ \A n \in Int : LET t == [s EXCEPT !.reason = n, !.system_error = FALSE] IN Sound(t) /\ t.alive = s.alive
           /\ \A n \in Int : LET t == [s EXCEPT !.on_message = FALSE, !.reason = n] IN Sound(t) /\ t.alive = s.alive
           /\ \A n \in Int : LET t == [s EXCEPT !.ok = FALSE, !.reason = n, !.system_error = FALSE, !.on_message = FALSE] IN
                             Sound(t) /\ t.alive = s.alive
           /\ \A q \in Seq(Nat) : Len(q) <= MaxRead =>
                 /\ Sound([s EXCEPT !.in = q]) /\ [s EXCEPT !.in = q].alive = s.alive
                 /\ [s EXCEPT !.in = q].reason = s.reason /\ [s EXCEPT !.in = q].fed = s.fed
BY DEF Sound, Session, pendingWrite, pendingRead

\* The way to the label error.
LEMMA FailSound ==
    ASSUME NEW s, Sound(s), NEW b \in BOOLEAN
    PROVE  Sound(Fail(s, b)) /\ Fail(s, b).alive = s.alive
<1>1. (s.ok /\ b) \in BOOLEAN
  OBVIOUS
<1> QED
  BY <1>1, ErrnoSound DEF Fail

\* The read: a full buffer, bytes, an end of stream or an error.
LEMMA ReadServed == ASSUME ServerInv, NEW c \in Conn, OnRead(c), UNCHANGED connvars PROVE ServerInv'
<1> DEFINE s == ses[c]
           n == Min({Bucket, Len(rx[c])})
<1>1. running = c /\ stage = "read" /\ UNCHANGED <<net, send, sent, tx, op, sphase>> /\ rx \in [Conn -> Seq(Nat)]
  BY DEF OnRead, connvars, ServerInv, ServerTypes
<1>2. Sound(s) /\ s.alive /\ Told(s) /\ s.reason = 0
  BY <1>1, RunningSession
<1>3. CASE pendingRead(s) + Bucket > MaxRead
  <2>1. Continue(c, [s EXCEPT !.reason = buffer_overflow, !.system_error = FALSE], "error") /\ rx' = rx
    BY <1>3 DEF OnRead
  <2>2. buffer_overflow \in Int
    BY DEF buffer_overflow
  <2> HIDE DEF s
  <2>3. Sound([s EXCEPT !.reason = buffer_overflow, !.system_error = FALSE])
        /\ [s EXCEPT !.reason = buffer_overflow, !.system_error = FALSE].alive
    BY <1>2, <2>2, FieldsSound
  <2> QED
    BY <1>1, <2>1, <2>3, NetUnchanged, ContinueServed
<1>4. CASE ~(pendingRead(s) + Bucket > MaxRead) /\ rx[c] # <<>>
  <2> DEFINE q == s.in \o SubSeq(rx[c], 1, n)
  <2>1. /\ rx' = [rx EXCEPT ![c] = SubSeq(rx[c], n + 1, Len(rx[c]))]
        /\ Continue(c, [s EXCEPT !.in = q, !.on_message = TRUE], "message")
    BY <1>4 DEF OnRead
  <2>2. rx[c] \in Seq(Nat) /\ s.in \in Seq(Nat) /\ Len(s.in) \in Nat /\ Len(rx[c]) \in Nat
    <3>1. rx[c] \in Seq(Nat) /\ Len(rx[c]) \in Nat
      BY <1>1
    <3>2. s.in \in Seq(Nat)
      BY <1>2 DEF Sound, Session
    <3> HIDE DEF s
    <3> QED
      BY <3>1, <3>2
  <2>3. n \in Nat /\ n <= Bucket /\ n <= Len(rx[c])
    <3>1. Bucket \in Int /\ Len(rx[c]) \in Int
      BY <2>2, SizesAreNumbers
    <3>2. n \in {Bucket, Len(rx[c])} /\ n <= Bucket /\ n <= Len(rx[c])
      BY <3>1, MinOfTwo
    <3> HIDE DEF n
    <3> QED
      BY <2>2, <3>2, SizesAreNumbers
  <2> HIDE DEF n
  <2>4. SubSeq(rx[c], n + 1, Len(rx[c])) \in Seq(Nat) /\ SubSeq(rx[c], 1, n) \in Seq(Nat) /\ Len(SubSeq(rx[c], 1, n)) = n
    BY <2>2, <2>3, Pieces
  <2>5. rx' \in [Conn -> Seq(Nat)]
    BY <1>1, <2>1, <2>4
  <2>6. q \in Seq(Nat) /\ Len(q) <= MaxRead
    <3> DEFINE a == s.in
               b == SubSeq(rx[c], 1, n)
    <3>1. a \in Seq(Nat) /\ b \in Seq(Nat) /\ Len(b) = n /\ Len(a) + Bucket <= MaxRead /\ Len(a) \in Nat
      BY <1>4, <2>2, <2>4, SizesAreNumbers DEF pendingRead
    <3> HIDE DEF a, b
    <3>2. a \o b \in Seq(Nat) /\ Len(a \o b) = Len(a) + Len(b)
      BY <3>1
    <3>3. Len(a \o b) <= MaxRead
      BY <2>3, <3>1, <3>2, SizesAreNumbers
    <3> QED
      BY <3>2, <3>3 DEF a, b
  <2> HIDE DEF q
  <2> DEFINE t == [s EXCEPT !.in = q, !.on_message = TRUE]
  <2>7. Sound(t) /\ t.alive /\ Told(t) /\ t.reason = 0
    <3> HIDE DEF s
    <3> QED
      BY <1>2, <2>6 DEF Sound, Session, pendingWrite, pendingRead, Told
  <2>8. NetKept(c)
    BY <1>1, <2>5, NetUnchanged
  <2>9. Continue(c, t, "message")
    BY <2>1
  <2> HIDE DEF t
  <2> QED
    BY <1>1, <2>7, <2>8, <2>9, ContinueServed
<1>5. CASE ~(pendingRead(s) + Bucket > MaxRead) /\ rx[c] = <<>>
  <2>1. Continue(c, Fail(s, net[c] = "reset"), "error") /\ rx' = rx
    BY <1>5 DEF OnRead
  <2>2. Sound(Fail(s, net[c] = "reset")) /\ Fail(s, net[c] = "reset").alive
    BY <1>2, FailSound
  <2> QED
    BY <1>1, <2>1, <2>2, NetUnchanged, ContinueServed
<1> QED
  BY <1>3, <1>4, <1>5

\* A message that was handled leaves the buffer.
LEMMA FlushSound ==
    ASSUME NEW u, Sound(u), NEW n \in Nat
    PROVE  Sound(flush(u, n)) /\ flush(u, n).alive = u.alive /\ flush(u, n).reason = u.reason /\ flush(u, n).fed = u.fed
<1> DEFINE q == SubSeq(u.in, n + 1, Len(u.in))
<1>1. u.in \in Seq(Nat) /\ Len(u.in) <= MaxRead
  BY DEF Sound, Session, pendingRead
<1>2. q \in Seq(Nat) /\ Len(q) <= Len(u.in) /\ Len(u.in) \in Nat /\ Len(q) \in Nat
  BY <1>1, Pieces
<1>3. Len(q) <= MaxRead
  <2> HIDE DEF q
  <2> QED
    BY <1>1, <1>2, SizesAreNumbers
<1>4. flush(u, n) = [u EXCEPT !.in = q]
  BY DEF flush
<1> HIDE DEF q
<1> QED
  BY <1>2, <1>3, <1>4 DEF Sound, Session, pendingWrite, pendingRead

\* One turn of process_messages.
LEMMA MessageServed == ASSUME ServerInv, NEW c \in Conn, OnMessage(c), UNCHANGED connvars PROVE ServerInv'
<1> DEFINE s == ses[c]
           size == getMessageSize(c, s)
           t == [s EXCEPT !.offset = 0]
<1>1. running = c /\ stage = "message" /\ UNCHANGED <<net, send, sent, rx, tx, op, sphase>> /\ rx \in [Conn -> Seq(Nat)]
  BY DEF OnMessage, connvars, netvars, ServerInv, ServerTypes
<1>2. NetKept(c)
  BY <1>1, NetUnchanged
<1>3. Sound(s) /\ s.alive /\ Told(s) /\ s.reason = 0
  BY <1>1, RunningSession
<1>4. \/ Continue(c, [s EXCEPT !.offset = pendingRead(s), !.on_message = FALSE], "post")
      \/ Continue(c, [t EXCEPT !.ok = FALSE, !.reason = message_too_large, !.system_error = FALSE, !.on_message = FALSE], "error")
      \/ size \in 1 .. MaxMessage /\ \E u \in Calls(c, t) : AfterMessage(c, u, size)
  BY DEF OnMessage
<1> HIDE DEF s, size
<1>5. CASE Continue(c, [s EXCEPT !.offset = pendingRead(s), !.on_message = FALSE], "post")
  <2> DEFINE u == [s EXCEPT !.offset = pendingRead(s), !.on_message = FALSE]
  <2>1. pendingRead(s) \in Nat
    BY <1>3 DEF Sound, Session, pendingRead
  <2>2. Sound(u) /\ u.alive /\ Told(u)
    BY <1>3, <2>1, FieldsSound DEF Told
  <2> HIDE DEF u
  <2>3. Continue(c, u, "post")
    BY <1>5 DEF u
  <2> QED
    BY <1>1, <1>2, <2>2, <2>3, ContinueServed
<1>6. Sound(t) /\ t.alive /\ Told(t) /\ t.reason = 0
  BY <1>3 DEF Sound, Session, pendingWrite, pendingRead, Told
<1> HIDE DEF t
<1>7. CASE Continue(c, [t EXCEPT !.ok = FALSE, !.reason = message_too_large, !.system_error = FALSE, !.on_message = FALSE], "error")
  <2> DEFINE u == [t EXCEPT !.ok = FALSE, !.reason = message_too_large, !.system_error = FALSE, !.on_message = FALSE]
  <2>1. message_too_large \in Int
    BY DEF message_too_large
  <2>2. Sound(u) /\ u.alive
    BY <1>6, <2>1 DEF Sound, Session, pendingWrite, pendingRead
  <2> HIDE DEF u
  <2>3. Continue(c, u, "error")
    BY <1>7 DEF u
  <2> QED
    BY <1>1, <1>2, <2>2, <2>3, ContinueServed
<1>8. ASSUME size \in 1 .. MaxMessage, NEW u \in Calls(c, t), AfterMessage(c, u, size) PROVE ServerInv'
  <2> DEFINE v == flush(u, size)
  <2>1. Sound(u) /\ u.alive /\ Told(u)
    BY <1>6, CallsSound
  <2>2. size \in Nat
    BY <1>8
  <2>3. Sound(v) /\ v.alive /\ v.reason = u.reason /\ v.fed = u.fed
    BY <2>1, <2>2, FlushSound
  <2>4. \/ u.reason = 0 /\ Continue(c, v, "message")
        \/ Continue(c, [ready_to_write(v) EXCEPT !.on_message = FALSE], "post")
        \/ Continue(c, [v EXCEPT !.on_message = FALSE, !.reason = IF v.reason = 0 THEN protocol_error ELSE v.reason], "error")
    BY <1>8 DEF AfterMessage
  <2> HIDE DEF v
  <2>5. Told(v)
    BY <2>1, <2>3 DEF Told
  <2>6. CASE u.reason = 0 /\ Continue(c, v, "message")
    BY <1>1, <1>2, <2>3, <2>5, <2>6, ContinueServed
  <2>7. CASE Continue(c, [ready_to_write(v) EXCEPT !.on_message = FALSE], "post")
    <3> DEFINE r == ready_to_write(v)
               w == [r EXCEPT !.on_message = FALSE]
    <3>1. Sound(r) /\ r.alive /\ r.reason = v.reason /\ r.fed = v.fed
      BY <2>3, ReadySound
    <3> HIDE DEF r
    <3>2. Sound(w) /\ w.alive /\ Told(w)
      BY <2>5, <3>1, FieldsSound DEF Told
    <3> HIDE DEF w
    <3>3. Continue(c, w, "post")
      BY <2>7 DEF r, w
    <3> QED
      BY <1>1, <1>2, <3>2, <3>3, ContinueServed
  <2>8. CASE Continue(c, [v EXCEPT !.on_message = FALSE, !.reason = IF v.reason = 0 THEN protocol_error ELSE v.reason], "error")
    <3> DEFINE why == IF v.reason = 0 THEN protocol_error ELSE v.reason
               w == [v EXCEPT !.on_message = FALSE, !.reason = why]
    <3>1. why \in Int
      BY <2>3 DEF protocol_error, Sound, Session
    <3>2. Continue(c, w, "error")
      BY <2>8
    <3> HIDE DEF why
    <3>3. Sound(w) /\ w.alive
      BY <2>3, <3>1 DEF Sound, Session, pendingWrite, pendingRead
    <3> HIDE DEF w
    <3> QED
      BY <1>1, <1>2, <3>2, <3>3, ContinueServed
  <2> QED
    BY <2>4, <2>6, <2>7, <2>8
<1> QED
  BY <1>4, <1>5, <1>7, <1>8

\* The end of the read, and the way to the write.
LEMMA PostReadServed == ASSUME ServerInv, NEW c \in Conn, PostRead(c), UNCHANGED connvars PROVE ServerInv'
<1>1. running = c /\ stage = "post"
  BY DEF PostRead
<1>2. Sound(ses[c]) /\ ses[c].alive /\ Told(ses[c])
  BY <1>1, RunningSession
<1>3. PICK u \in Calls(c, ses[c]) : (Continue(c, u, "write") \/ Return(c, u)) /\ UNCHANGED netvars
  BY DEF PostRead
<1>4. Sound(u) /\ u.alive /\ Told(u)
  BY <1>2, CallsSound
<1>5. NetKept(c)
  <2>1. UNCHANGED <<net, send, sent, rx, tx, op, sphase>> /\ rx \in [Conn -> Seq(Nat)]
    BY <1>3 DEF connvars, netvars, ServerInv, ServerTypes
  <2> QED
    BY <2>1, NetUnchanged
<1>6. CASE Continue(c, u, "write")
  BY <1>1, <1>4, <1>5, <1>6, ContinueServed
<1>7. CASE Return(c, u)
  BY <1>1, <1>4, <1>5, <1>7, ReturnServed
<1> QED
  BY <1>3, <1>6, <1>7

\* The write: an error, no room, or some of the output goes.
LEMMA WriteServed == ASSUME ServerInv, NEW c \in Conn, OnWrite(c), UNCHANGED connvars PROVE ServerInv'
<1> DEFINE s == ses[c]
           room == SndBuf - Len(tx[c])
           most == Min({room, pendingWrite(s)})
           Rest(n) == [s EXCEPT !.out = SubSeq(s.out, n + 1, Len(s.out))]
<1>1. running = c /\ stage = "write" /\ UNCHANGED <<op, sphase>>
  BY DEF OnWrite, connvars
<1>2. Sound(s) /\ s.alive /\ Told(s)
  BY <1>1, RunningSession
<1>3. ServerTypes /\ Len(tx[c]) <= SndBuf /\ rx \in [Conn -> Seq(Nat)] /\ tx \in [Conn -> Seq(Nat)]
  BY DEF ServerInv, ServerTypes, Fresh
<1>4. CASE UNCHANGED netvars /\ Continue(c, Fail(s, TRUE), "error")
  <2>1. Sound(Fail(s, TRUE)) /\ Fail(s, TRUE).alive
    BY <1>2, FailSound
  <2>2. UNCHANGED <<net, send, sent, rx, tx, op, sphase>>
    BY <1>1, <1>4 DEF netvars
  <2> QED
    BY <1>1, <1>3, <1>4, <2>1, <2>2, NetUnchanged, ContinueServed
<1>5. CASE UNCHANGED netvars /\ Return(c, ready_to_write(s))
  <2>1. Sound(ready_to_write(s)) /\ ready_to_write(s).alive /\ Told(ready_to_write(s))
    BY <1>2, ReadySound DEF Told
  <2>2. UNCHANGED <<net, send, sent, rx, tx, op, sphase>>
    BY <1>1, <1>5 DEF netvars
  <2> QED
    BY <1>1, <1>3, <1>5, <2>1, <2>2, NetUnchanged, ReturnServed
<1>6. ASSUME NEW n \in (IF most = 0 THEN 0 ELSE 1) .. most,
             tx' = [tx EXCEPT ![c] = tx[c] \o SubSeq(s.out, 1, n)], UNCHANGED <<net, cend, send, rx, sent, got>>,
             \/ pendingWrite(Rest(n)) > 0 /\ Return(c, Rest(n))
             \/ Continue(c, Fail(Rest(n), FALSE), "error")
             \/ /\ ~(pendingWrite(Rest(n)) > 0) /\ Rest(n).reason = 0
                /\ \E u \in Calls(c, [Rest(n) EXCEPT !.events = {"READ"}]) : Return(c, u)
      PROVE  ServerInv'
  <2>1. s.out \in Seq(Nat) /\ Len(s.out) \in Nat /\ Len(s.out) <= MaxWrite /\ tx[c] \in Seq(Nat) /\ Len(tx[c]) \in Nat
    <3>1. tx[c] \in Seq(Nat) /\ Len(tx[c]) \in Nat
      BY <1>3
    <3>2. s.out \in Seq(Nat) /\ Len(s.out) <= MaxWrite
      BY <1>2 DEF Sound, Session, pendingWrite
    <3> HIDE DEF s
    <3> QED
      BY <3>1, <3>2
  <2>2. n \in Nat /\ n <= room /\ n <= Len(s.out)
    <3>1. room \in Nat /\ pendingWrite(s) \in Nat /\ pendingWrite(s) = Len(s.out)
      BY <1>3, <2>1, SizesAreNumbers DEF pendingWrite
    <3>2. most \in Nat /\ most <= room /\ most <= pendingWrite(s)
      <4> DEFINE w == pendingWrite(s)
      <4>1. room \in Int /\ w \in Int
        BY <3>1
      <4> HIDE DEF room, w
      <4>2. Min({room, w}) \in {room, w} /\ Min({room, w}) <= room /\ Min({room, w}) <= w
        BY <4>1, MinOfTwo
      <4>3. most = Min({room, w})
        BY DEF w
      <4> HIDE DEF most
      <4>4. most \in {room, w} /\ most <= room /\ most <= w
        BY <4>2, <4>3
      <4> QED
        BY <3>1, <4>4 DEF w
    <3> HIDE DEF most, room
    <3>3. n \in Nat /\ n <= most
      BY <1>6, <3>2
    <3> QED
      BY <3>1, <3>2, <3>3
  <2> DEFINE a == tx[c]
             b == SubSeq(s.out, 1, n)
             q == SubSeq(s.out, n + 1, Len(s.out))
             t == Rest(n)
  <2>3. b \in Seq(Nat) /\ Len(b) = n /\ q \in Seq(Nat) /\ Len(q) <= Len(s.out) /\ Len(q) \in Nat
    <3> DEFINE o == s.out
    <3>1. o \in Seq(Nat) /\ n \in Nat /\ n \in 0 .. Len(o)
      BY <2>1, <2>2
    <3> HIDE DEF o
    <3>2. /\ SubSeq(o, 1, n) \in Seq(Nat) /\ Len(SubSeq(o, 1, n)) = n
          /\ SubSeq(o, n + 1, Len(o)) \in Seq(Nat) /\ Len(SubSeq(o, n + 1, Len(o))) <= Len(o)
      BY <3>1, Pieces
    <3>3. Len(SubSeq(o, n + 1, Len(o))) \in Nat
      BY <3>2, Pieces
    <3> QED
      BY <3>2, <3>3 DEF o
  <2>4. NetKept(c)
    <3>1. a \in Seq(Nat) /\ Len(a) \in Nat /\ Len(a) + n <= SndBuf
      BY <2>1, <2>2, SizesAreNumbers
    <3>2. tx' = [tx EXCEPT ![c] = a \o b]
      BY <1>6
    <3>b. b \in Seq(Nat) /\ Len(b) = n
      BY <2>3
    <3> HIDE DEF a, b
    <3>3. a \o b \in Seq(Nat) /\ Len(a \o b) = Len(a) + Len(b)
      BY <3>b, <3>1
    <3>4. Len(a \o b) <= SndBuf
      BY <3>b, <3>1, <3>3
    <3>5. tx' \in [Conn -> Seq(Nat)] /\ Len(tx'[c]) <= SndBuf /\ \A x \in Conn \ {c} : tx'[x] = tx[x]
      BY <1>3, <3>2, <3>3, <3>4
    <3> QED
      BY <1>1, <1>3, <1>6, <3>5 DEF NetKept
  <2>5. t = [s EXCEPT !.out = q] /\ Len(q) <= MaxWrite /\ (q # <<>> => s.out # <<>>)
    BY <2>1, <2>3, SizesAreNumbers
  <2> HIDE DEF q, s, t, b, Rest
  <2>6. Sound(t) /\ t.alive /\ Told(t) /\ t.out = q
    BY <1>2, <2>3, <2>5 DEF Sound, Session, pendingWrite, pendingRead, Told
  <2>7. CASE Return(c, t)
    BY <1>1, <2>4, <2>6, <2>7, ReturnServed
  <2>8. CASE Continue(c, Fail(t, FALSE), "error")
    BY <1>1, <2>4, <2>6, <2>8, FailSound, ContinueServed
  <2>9. ASSUME ~(pendingWrite(t) > 0), NEW u \in Calls(c, [t EXCEPT !.events = {"READ"}]), Return(c, u)
        PROVE  ServerInv'
    <3> DEFINE v == [t EXCEPT !.events = {"READ"}]
    <3>1. t.out = <<>>
      BY <2>3, <2>6, <2>9 DEF pendingWrite
    <3>2. {"READ"} \in SUBSET {"READ", "WRITE"} /\ "READ" \in {"READ"}
      OBVIOUS
    <3>3. Sound(v) /\ v.alive /\ Told(v)
      BY <2>6, <3>1, <3>2 DEF Sound, Session, pendingWrite, pendingRead, Told
    <3>4. u \in Calls(c, v)
      BY <2>9
    <3> HIDE DEF v
    <3>5. Sound(u) /\ u.alive /\ Told(u)
      BY <3>3, <3>4, CallsSound
    <3> QED
      BY <1>1, <2>4, <2>9, <3>5, ReturnServed
  <2> QED
    BY <1>6, <2>7, <2>8, <2>9 DEF t
<1>7. \/ UNCHANGED netvars /\ Continue(c, Fail(s, TRUE), "error")
      \/ UNCHANGED netvars /\ Return(c, ready_to_write(s))
      \/ \E n \in (IF most = 0 THEN 0 ELSE 1) .. most :
            /\ tx' = [tx EXCEPT ![c] = tx[c] \o SubSeq(s.out, 1, n)] /\ UNCHANGED <<net, cend, send, rx, sent, got>>
            /\ \/ pendingWrite(Rest(n)) > 0 /\ Return(c, Rest(n))
               \/ Continue(c, Fail(Rest(n), FALSE), "error")
               \/ /\ ~(pendingWrite(Rest(n)) > 0) /\ Rest(n).reason = 0
                  /\ \E u \in Calls(c, [Rest(n) EXCEPT !.events = {"READ"}]) : Return(c, u)
  BY DEF OnWrite
<1> QED
  BY <1>4, <1>5, <1>6, <1>7

\* The session leaves the map, or never was in it, and its object with it.
LEMMA GoneServed ==
    ASSUME ServerInv, NEW c \in Conn, running \in {c, None}, running' = None, stage' \in {"idle", stage},
           sessions' = sessions \ {c}, ses' = [ses EXCEPT ![c] = NoSession],
           NEW where \in {"closed", "extracted"}, send' = [send EXCEPT ![c] = where],
           net' = net, sent' = sent, op' = op, sphase' = sphase,
           rx' \in [Conn -> Seq(Nat)], tx' \in [Conn -> Seq(Nat)], Len(tx'[c]) <= SndBuf,
           \A x \in Conn \ {c} : tx'[x] = tx[x],
           NEW n \in {0, 1}, farewells' = [farewells EXCEPT ![c] = n],
           send[c] \notin {"none", "backlog"}
    PROVE  ServerInv'
<1>1. ServerTypes /\ Fresh(c) /\ Served(c) /\ c # None
  BY SizesAreNumbers DEF ServerInv
<1>2. sessions \ {c} \subseteq Conn /\ IsFiniteSet(sessions \ {c}) /\ Cardinality(sessions \ {c}) <= MaxSessions
  <2>1. IsFiniteSet(sessions) /\ Cardinality(sessions) <= MaxSessions /\ sessions \ {c} \in SUBSET sessions /\ sessions \subseteq Conn
    BY <1>1 DEF ServerTypes
  <2>2. IsFiniteSet(sessions \ {c}) /\ Cardinality(sessions \ {c}) <= Cardinality(sessions)
    BY <2>1, FS_Subset
  <2>3. Cardinality(sessions) \in Nat /\ Cardinality(sessions \ {c}) \in Nat
    BY <2>1, <2>2, FS_CardinalityType
  <2> QED
    BY <2>1, <2>2, <2>3, SizesAreNumbers
<1>3. NoSession \in Session
  BY NewSessionSound DEF Sound
<1>4. ServerTypes'
  <2>1. ses' \in [Conn -> Session]
    BY <1>1, <1>3 DEF ServerTypes
  <2>2. send' \in [Conn -> {"none", "backlog", "open", "closed", "extracted"}] /\ farewells' \in [Conn -> Nat]
    BY <1>1 DEF ServerTypes
  <2> QED
    BY <1>1, <1>2, <2>1, <2>2 DEF ServerTypes, Session
<1>5. ses'[c] = NoSession /\ send'[c] = where /\ farewells'[c] = n /\ c \notin sessions'
  BY <1>1 DEF ServerTypes
<1>6. OnlySession(c)
  BY <1>1 DEF OnlySession, ServerTypes
<1>7. Fresh(c)'
  BY <1>1, <1>5 DEF Fresh
<1>8. Sound(ses[c])' /\ ~ses'[c].alive
  BY <1>5, NewSessionSound DEF Sound, Session, pendingWrite, pendingRead
<1>9. Served(c)'
  BY <1>1, <1>5, <1>8 DEF Served
<1> QED
  BY <1>4, <1>6, <1>7, <1>9, OneSession

\* The end of a session.
LEMMA DisposeServed == ASSUME ServerInv, NEW c \in Conn, Dispose(c), UNCHANGED connvars PROVE ServerInv'
<1> DEFINE where == IF send[c] = "open" THEN "closed" ELSE send[c]
<1>1. /\ running = c /\ running' = None /\ stage' = "idle" /\ sessions' = sessions \ {c}
      /\ ses' = [ses EXCEPT ![c] = NoSession] /\ farewells' = [farewells EXCEPT ![c] = farewells[c] + 1] /\ DestroySession(c)
      /\ op' = op /\ sphase' = sphase
  BY DEF Dispose, connvars
<1>2. ServerTypes /\ Fresh(c) /\ Served(c)
  BY DEF ServerInv
<1>3. send[c] \notin {"none", "backlog"} /\ farewells[c] = 0
  BY <1>1, <1>2 DEF Served
<1>4. where \in {"closed", "extracted"}
  BY <1>2, <1>3 DEF ServerTypes
<1>5. /\ send' = [send EXCEPT ![c] = where] /\ net' = net /\ sent' = sent
      /\ rx' = [rx EXCEPT ![c] = IF send[c] = "open" THEN <<>> ELSE rx[c]]
      /\ tx' = tx \/ tx' = [tx EXCEPT ![c] = <<>>]
  BY <1>1 DEF DestroySession
<1>6. farewells' = [farewells EXCEPT ![c] = 1]
  BY <1>1, <1>3
<1> HIDE DEF where
<1>7. <<>> \in Seq(Nat) /\ Len(<<>>) = 0
  OBVIOUS
<1>8. rx' \in [Conn -> Seq(Nat)]
  BY <1>2, <1>5, <1>7 DEF ServerTypes
<1>9. tx' \in [Conn -> Seq(Nat)] /\ Len(tx'[c]) <= SndBuf /\ \A x \in Conn \ {c} : tx'[x] = tx[x]
  <2>1. CASE tx' = tx
    BY <1>2, <2>1 DEF ServerTypes, Fresh
  <2>2. CASE tx' = [tx EXCEPT ![c] = <<>>]
    BY <1>2, <1>7, <2>2, SizesAreNumbers DEF ServerTypes
  <2> QED
    BY <1>5, <2>1, <2>2
<1> QED
  BY <1>1, <1>3, <1>4, <1>5, <1>6, <1>8, <1>9, GoneServed

\* An extraction from outside a handler.
LEMMA ExtractServed == ASSUME ServerInv, NEW c \in Conn, UserExtract(c), UNCHANGED connvars PROVE ServerInv'
<1>1. /\ running = None /\ running' = None /\ stage' = stage /\ sessions' = sessions \ {c} /\ c \in sessions
      /\ ses' = [ses EXCEPT ![c] = NoSession] /\ farewells' = farewells
      /\ send' = [send EXCEPT ![c] = "extracted"]
      /\ UNCHANGED <<net, sent, rx, tx, op, sphase>>
  BY DEF UserExtract, extractSession, connvars
<1>2. ServerTypes /\ Fresh(c) /\ Served(c)
  BY DEF ServerInv
<1>3. send[c] = "open" /\ farewells[c] = 0
  BY <1>1, <1>2 DEF Served
<1>4. farewells' = [farewells EXCEPT ![c] = 0]
  BY <1>1, <1>2, <1>3 DEF ServerTypes
<1>5. /\ rx' \in [Conn -> Seq(Nat)] /\ tx' \in [Conn -> Seq(Nat)] /\ Len(tx'[c]) <= SndBuf
      /\ \A x \in Conn \ {c} : tx'[x] = tx[x]
  BY <1>1, <1>2 DEF ServerTypes, Fresh
<1> QED
  BY <1>1, <1>3, <1>4, <1>5, GoneServed

\* A handler that extracts its own session.
LEMMA MessageExtractServed ==
    ASSUME ServerInv, NEW c \in Conn, OnMessageExtract(c), UNCHANGED connvars PROVE ServerInv'
<1> DEFINE s == ses[c]
           size == getMessageSize(c, s)
           t == [s EXCEPT !.offset = 0]
           u == flush(t, size)
<1>1. /\ running = c /\ stage = "message" /\ running' = running /\ stage' = stage /\ size \in 1 .. MaxMessage
      /\ c \in sessions /\ sessions' = sessions \ {c} /\ send' = [send EXCEPT ![c] = "extracted"]
      /\ ses' = [ses EXCEPT ![c] = u] /\ farewells' = farewells
      /\ UNCHANGED <<net, sent, rx, tx, op, sphase>>
  BY DEF OnMessageExtract, extractSession, connvars
<1>2. ServerTypes /\ Fresh(c) /\ Served(c) /\ c # None
  BY SizesAreNumbers DEF ServerInv
<1>3. Sound(s) /\ s.alive /\ Told(s) /\ s.reason = 0
  BY <1>1, RunningSession
<1>4. size \in Nat
  BY <1>1
<1> HIDE DEF s, size
<1>5. Sound(t) /\ t.alive /\ t.reason = 0
  BY <1>3 DEF Sound, Session, pendingWrite, pendingRead
<1> HIDE DEF t
<1>6. Sound(u) /\ u.alive /\ u.reason = 0
  BY <1>4, <1>5, FlushSound
<1>7. ses' = [ses EXCEPT ![c] = u]
  BY <1>1 DEF s, t, size
<1> HIDE DEF u
<1>8. u \in Session
  BY <1>6 DEF Sound
<1>9. IsFiniteSet(sessions \ {c}) /\ Cardinality(sessions \ {c}) <= MaxSessions
  <2>1. IsFiniteSet(sessions) /\ Cardinality(sessions) <= MaxSessions /\ sessions \ {c} \in SUBSET sessions
    BY <1>2 DEF ServerTypes
  <2>2. IsFiniteSet(sessions \ {c}) /\ Cardinality(sessions \ {c}) <= Cardinality(sessions)
    BY <2>1, FS_Subset
  <2>3. Cardinality(sessions) \in Nat /\ Cardinality(sessions \ {c}) \in Nat
    BY <2>1, <2>2, FS_CardinalityType
  <2> QED
    BY <2>1, <2>2, <2>3, SizesAreNumbers
<1>10. ServerTypes'
  <2>1. ses' \in [Conn -> Session] /\ send' \in [Conn -> {"none", "backlog", "open", "closed", "extracted"}]
    BY <1>2, <1>1, <1>7, <1>8 DEF ServerTypes
  <2> QED
    BY <1>1, <1>2, <1>9, <2>1 DEF ServerTypes, Session
<1>11. ses'[c] = u /\ send'[c] = "extracted" /\ c \notin sessions'
  BY <1>1, <1>2, <1>7 DEF ServerTypes
<1>12. OnlySession(c)
  BY <1>1, <1>2, <1>7 DEF OnlySession, ServerTypes
<1>13. Fresh(c)'
  BY <1>1, <1>2, <1>11 DEF Fresh, Served
<1>14. Sound(ses[c])'
  BY <1>6, <1>11 DEF Sound, Session, pendingWrite, pendingRead
<1>15. Served(c)'
  BY <1>1, <1>2, <1>6, <1>11, <1>14 DEF Served
<1> QED
  BY <1>1, <1>10, <1>12, <1>13, <1>15, OneSession

\* A new connection, with the server full or not.
LEMMA AcceptServed == ASSUME ServerInv, NEW c \in Conn, Accept(c), UNCHANGED connvars PROVE ServerInv'
<1>1. /\ running = None /\ send[c] = "backlog" /\ UNCHANGED <<net, sent, tx, running, stage, farewells, op, sphase>>
  BY DEF Accept, connvars
<1>2. ServerTypes /\ Fresh(c) /\ Served(c) /\ c # None
  BY SizesAreNumbers DEF ServerInv
<1>3. farewells[c] = 0 /\ c \notin sessions /\ ~ses[c].alive /\ net[c] \notin {"none", "syn", "refused"}
  BY <1>1, <1>2 DEF Fresh, Served
<1>4. CASE Cardinality(sessions) >= MaxSessions
  <2>1. send' = [send EXCEPT ![c] = "closed"] /\ rx' = [rx EXCEPT ![c] = <<>>] /\ ses' = ses /\ sessions' = sessions
    BY <1>4 DEF Accept
  <2>2. <<>> \in Seq(Nat)
    OBVIOUS
  <2>3. ServerTypes'
    BY <1>1, <1>2, <2>1, <2>2 DEF ServerTypes, Session
  <2>4. send'[c] = "closed" /\ OnlySession(c)
    BY <1>1, <1>2, <2>1 DEF ServerTypes, OnlySession
  <2>5. Fresh(c)'
    BY <1>1, <1>2, <1>3, <2>4 DEF Fresh
  <2>6. Sound(ses[c])'
    BY <1>2, <2>1 DEF Served, Sound, Session, pendingWrite, pendingRead
  <2>7. Served(c)'
    BY <1>1, <1>2, <1>3, <2>1, <2>4, <2>6 DEF Served
  <2> QED
    BY <1>1, <2>3, <2>4, <2>5, <2>7, OneSession
<1>5. CASE ~(Cardinality(sessions) >= MaxSessions)
  <2>1. PICK s \in Calls(c, NewSession) : ses' = [ses EXCEPT ![c] = s]
    BY <1>5 DEF Accept
  <2>2. send' = [send EXCEPT ![c] = "open"] /\ sessions' = sessions \cup {c} /\ rx' = rx
    BY <1>5 DEF Accept
  <2>3. Sound(s) /\ s.alive /\ Told(s)
    BY NewSessionSound, CallsSound
  <2>4. s \in Session
    BY <2>3 DEF Sound
  <2>5. sessions' \subseteq Conn /\ IsFiniteSet(sessions') /\ Cardinality(sessions') <= MaxSessions
    <3>1. IsFiniteSet(sessions) /\ Cardinality(sessions) \in Nat
      BY <1>2, FS_CardinalityType DEF ServerTypes
    <3>2. IsFiniteSet(sessions \cup {c}) /\ Cardinality(sessions \cup {c}) = Cardinality(sessions) + 1
      BY <1>3, <3>1, FS_AddElement
    <3> QED
      BY <1>2, <1>5, <2>2, <3>1, <3>2, SizesAreNumbers DEF ServerTypes
  <2>6. ServerTypes'
    <3>1. ses' \in [Conn -> Session] /\ send' \in [Conn -> {"none", "backlog", "open", "closed", "extracted"}]
      BY <1>2, <2>1, <2>2, <2>4 DEF ServerTypes
    <3> QED
      BY <1>1, <1>2, <2>2, <2>5, <3>1 DEF ServerTypes, Session
  <2>7. ses'[c] = s /\ send'[c] = "open" /\ c \in sessions' /\ OnlySession(c)
    BY <1>1, <1>2, <2>1, <2>2 DEF ServerTypes, OnlySession
  <2>8. Fresh(c)'
    BY <1>1, <1>2, <1>3, <2>7 DEF Fresh
  <2>9. Sound(ses[c])'
    BY <2>3, <2>7 DEF Sound, Session, pendingWrite, pendingRead
  <2>10. Served(c)'
    BY <1>1, <1>2, <1>3, <2>3, <2>7, <2>9 DEF Served, Told
  <2> QED
    BY <1>1, <2>6, <2>7, <2>8, <2>10, OneSession
<1> QED
  BY <1>4, <1>5

\* What the invariant says of a session of the server between its handlers.
LEMMA IdleSession ==
    ASSUME ServerInv, NEW c \in Conn, running = None, c \in sessions
    PROVE  Sound(ses[c]) /\ ses[c].alive /\ Told(ses[c])
BY SizesAreNumbers DEF ServerInv, Served, Told

\* A call from elsewhere on the loop's thread.
LEMMA CallServed == ASSUME ServerInv, NEW c \in Conn, UserCall(c), UNCHANGED connvars PROVE ServerInv'
<1>1. PICK s \in Calls(c, ses[c]) : ses' = [ses EXCEPT ![c] = s]
  BY DEF UserCall
<1>2. /\ running = None /\ c \in sessions
      /\ UNCHANGED <<net, send, sent, rx, tx, sessions, running, stage, farewells, op, sphase>>
  BY DEF UserCall, netvars, connvars
<1>3. ServerTypes /\ Fresh(c) /\ Served(c) /\ c # None
  BY SizesAreNumbers DEF ServerInv
<1>4. Sound(s) /\ s.alive /\ Told(s)
  BY <1>2, IdleSession, CallsSound
<1>5. s \in Session
  BY <1>4 DEF Sound
<1>6. ServerTypes'
  <2>1. ses' \in [Conn -> Session]
    BY <1>1, <1>3, <1>5 DEF ServerTypes
  <2> QED
    BY <1>2, <1>3, <2>1 DEF ServerTypes, Session
<1>7. ses'[c] = s /\ OnlySession(c)
  BY <1>1, <1>2, <1>3 DEF ServerTypes, OnlySession
<1>8. Fresh(c)'
  BY <1>2, <1>3 DEF Fresh
<1>9. Sound(ses[c])'
  BY <1>4, <1>7 DEF Sound, Session, pendingWrite, pendingRead
<1>10. Served(c)'
  BY <1>2, <1>3, <1>4, <1>7, <1>9 DEF Served, Told
<1> QED
  BY <1>2, <1>6, <1>7, <1>8, <1>10, OneSession

\* A broadcast to every session.
LEMMA StreamServed == ASSUME ServerInv, stream, UNCHANGED connvars PROVE ServerInv'
<1>1. /\ running = None /\ ses' = [c \in Conn |-> IF c \in sessions THEN publish(ses[c]) ELSE ses[c]]
      /\ UNCHANGED <<net, send, sent, rx, tx, sessions, running, stage, farewells, op, sphase>>
  BY DEF stream, netvars, connvars
<1>2. ASSUME NEW c \in Conn
      PROVE  Sound(ses'[c]) /\ ses'[c].alive = ses[c].alive /\ (ses[c].alive => Told(ses'[c]))
  <2>1. Served(c) /\ c # None
    BY SizesAreNumbers DEF ServerInv
  <2>2. CASE c \in sessions
    <3>1. ses'[c] = publish(ses[c])
      BY <1>1, <2>2
    <3>2. Sound(ses[c]) /\ Told(ses[c]) /\ ses[c].alive
      BY <1>1, <2>2, IdleSession
    <3> QED
      BY <3>1, <3>2, PublishSound
  <2>3. CASE c \notin sessions
    <3>1. ses'[c] = ses[c]
      BY <1>1, <2>3
    <3> QED
      BY <1>1, <2>1, <2>3, <3>1 DEF Served
  <2> QED
    BY <2>2, <2>3
<1>3. ServerTypes'
  <2>1. \A c \in Conn : ses'[c] \in Session
    BY <1>2 DEF Sound
  <2>2. ses' \in [Conn -> Session]
    BY <1>1, <2>1
  <2> QED
    BY <1>1, <2>2 DEF ServerInv, ServerTypes, Session
<1>4. ASSUME NEW c \in Conn PROVE Fresh(c)' /\ Served(c)'
  <2>1. Fresh(c) /\ Served(c) /\ c # None
    BY SizesAreNumbers DEF ServerInv
  <2>2. Sound(ses[c])'
    BY <1>2 DEF Sound, Session, pendingWrite, pendingRead
  <2>3. Fresh(c)'
    BY <1>1, <2>1 DEF Fresh
  <2> QED
    BY <1>1, <1>2, <2>1, <2>2, <2>3 DEF Served, Told
<1> QED
  BY <1>3, <1>4 DEF ServerInv

-----------------------------------------------------------------------------
(* The connector, the client and the network *)

\* A connection reaches the server's backlog, or stays where it is.
Backlogged(c) == send'[c] = send[c] \/ (send[c] = "none" /\ send'[c] = "backlog")

\* A step that is not the server's keeps its invariant when a connection at
\* most reaches the backlog.
LEMMA ElsewhereServed ==
    ASSUME ServerInv, UNCHANGED sesvars, \A c \in Conn : Backlogged(c),
           net' \in [Conn -> {"none", "syn", "up", "refused", "reset"}],
           send' \in [Conn -> {"none", "backlog", "open", "closed", "extracted"}],
           rx' \in [Conn -> Seq(Nat)], tx' \in [Conn -> Seq(Nat)], sent' \in [Conn -> Nat],
           sphase' \in [Conn -> {"connecting", "negotiating", "handshaking"}],
           \A c \in Conn : /\ op'[c] = "none" => net'[c] = "none"
                           /\ net'[c] \in {"none", "syn", "refused"} => send'[c] = "none"
                           /\ Len(tx'[c]) <= SndBuf
    PROVE  ServerInv'
<1>1. UNCHANGED <<sessions, ses, running, stage, farewells>>
  BY DEF sesvars
<1>2. ServerTypes'
  BY <1>1 DEF ServerInv, ServerTypes, Session
<1>3. ASSUME NEW c \in Conn PROVE Fresh(c)' /\ Served(c)'
  <2>1. Fresh(c) /\ Served(c) /\ c # None /\ Backlogged(c)
    BY SizesAreNumbers DEF ServerInv
  <2>2. Fresh(c)'
    BY <1>1, <2>1 DEF Fresh, Backlogged
  <2>3. Sound(ses[c])'
    BY <1>1, <2>1 DEF Served, Sound, Session, pendingWrite, pendingRead
  <2>4. /\ c \in sessions \/ running = c => send[c] \notin {"none", "backlog"}
        /\ send'[c] = "open" => send[c] = "open"
    BY <2>1 DEF Served, Backlogged
  <2>5. send[c] \notin {"none", "backlog"} => send'[c] = send[c]
    BY <2>1 DEF Backlogged
  <2> QED
    BY <1>1, <2>1, <2>2, <2>3, <2>4, <2>5 DEF Served
<1> QED
  BY <1>2, <1>3 DEF ServerInv

\* deliver() keeps the phase of the operation, or ends it.
LEMMA DeliverPhase ==
    ASSUME ServerInv, ConnectorTypes, NEW c \in Conn, NEW answer, deliver(c, answer)
    PROVE  /\ sphase' \in [Conn -> {"connecting", "negotiating", "handshaking"}]
           /\ \A x \in Conn : op'[x] = "none" => op[x] = "none"
<1>1. sphase \in [Conn -> {"connecting", "negotiating", "handshaking"}] /\ op \in [Conn -> {"none", "armed", "deferred", "gone"}]
  BY DEF ServerInv, ServerTypes, ConnectorTypes
<1>2. CASE completed[c]
  BY <1>1, <1>2 DEF deliver
<1>3. CASE ~completed[c]
  BY <1>1, <1>3 DEF deliver
<1> QED
  BY <1>2, <1>3

\* What on() decides: an answer or a phase to wait in.
LEMMA DecisionIsAPhase ==
    ASSUME NEW c \in Conn, NEW phase, NEW d \in Decide(c, phase)
    PROVE  d \in {"open", "none", "negotiating", "handshaking"}
<1> DEFINE finalized == {IF r = "done" THEN "open" ELSE IF r = "failed" THEN "none" ELSE "handshaking" : r \in Finalize(c)}
           After(a) == CASE a \in {"want_read", "want_write"} -> {"negotiating"}
                         [] a = "keep_plaintext" -> {"open"}
                         [] a = "fail" -> {"none"}
                         [] a = "upgrade" -> {"none"} \cup finalized
<1>1. \A x \in finalized : x \in {"open", "none", "handshaking"}
  OBVIOUS
<1>2. d \in finalized \/ \E a \in Advance(c) : d \in After(a)
  BY DEF Decide
<1> HIDE DEF finalized
<1>3. ASSUME NEW a \in Advance(c), d \in After(a) PROVE d \in {"open", "none", "negotiating", "handshaking"}
  <2>1. a \in {"upgrade", "keep_plaintext", "fail", "want_read", "want_write"}
    BY <1>3 DEF Advance
  <2> QED
    BY <1>1, <1>3, <2>1
<1> QED
  BY <1>1, <1>2, <1>3

\* An operation that has begun to connect at once, or later.
LEMMA RunServed ==
    ASSUME ServerInv, ConnectInv, NEW c \in Conn, RunInProgress(c) \/ RunDirect(c), UNCHANGED sesvars
    PROVE  ServerInv'
<1> DEFINE phases == {"connecting", "negotiating", "handshaking"}
<1>1. /\ net \in [Conn -> {"none", "syn", "up", "refused", "reset"}]
      /\ send \in [Conn -> {"none", "backlog", "open", "closed", "extracted"}]
      /\ rx \in [Conn -> Seq(Nat)] /\ tx \in [Conn -> Seq(Nat)] /\ sent \in [Conn -> Nat] /\ sphase \in [Conn -> phases]
      /\ op \in [Conn -> {"none", "armed", "deferred", "gone"}]
      /\ \A x \in Conn : Fresh(x)
  BY DEF ServerInv, ServerTypes, ConnectInv, ConnectorTypes
<1>2. op[c] = "none" /\ net[c] = "none" /\ send[c] = "none" /\ rx' = rx /\ tx' = tx /\ sent' = sent
  BY <1>1 DEF Fresh, RunInProgress, RunDirect
<1>3. \/ net' = [net EXCEPT ![c] = "syn"] /\ send' = send
      \/ net' = [net EXCEPT ![c] = "up"] /\ send' = [send EXCEPT ![c] = "backlog"]
  BY DEF RunInProgress, RunDirect
<1>4. \/ op' = [op EXCEPT ![c] = "armed"] \/ op' = [op EXCEPT ![c] = "deferred"]
      \/ op' = [op EXCEPT ![c] = "gone"]
  BY DEF RunInProgress, RunDirect, Arm
<1>5. sphase' \in [Conn -> phases]
  <2>1. \/ sphase' = sphase \/ sphase' = [sphase EXCEPT ![c] = "connecting"]
        \/ sphase' = [sphase EXCEPT ![c] = "negotiating"]
    BY DEF RunInProgress, RunDirect, Arm
  <2> QED
    BY <1>1, <2>1
<1>6. /\ net' \in [Conn -> {"none", "syn", "up", "refused", "reset"}]
      /\ send' \in [Conn -> {"none", "backlog", "open", "closed", "extracted"}]
      /\ op'[c] # "none"
      /\ \A x \in Conn \ {c} : op'[x] = op[x] /\ net'[x] = net[x] /\ send'[x] = send[x]
      /\ send'[c] = "none" \/ (send'[c] = "backlog" /\ net'[c] = "up")
      /\ net'[c] = "syn" => send'[c] = "none"
  BY <1>1, <1>2, <1>3, <1>4
<1>7. ASSUME NEW x \in Conn
      PROVE  /\ Backlogged(x)
             /\ op'[x] = "none" => net'[x] = "none"
             /\ net'[x] \in {"none", "syn", "refused"} => send'[x] = "none"
             /\ Len(tx'[x]) <= SndBuf
  BY <1>1, <1>2, <1>6 DEF Backlogged, Fresh
<1> QED
  BY <1>1, <1>2, <1>5, <1>6, <1>7, ElsewhereServed

\* The other steps of the connector leave the server's side of the network alone.
LEMMA ConnectorServed ==
    ASSUME ServerInv, ConnectInv, ConnectorNext, UNCHANGED sesvars
    PROVE  ServerInv'
<1> DEFINE phases == {"connecting", "negotiating", "handshaking"}
<1>1. /\ net \in [Conn -> {"none", "syn", "up", "refused", "reset"}]
      /\ send \in [Conn -> {"none", "backlog", "open", "closed", "extracted"}]
      /\ rx \in [Conn -> Seq(Nat)] /\ tx \in [Conn -> Seq(Nat)] /\ sent \in [Conn -> Nat] /\ sphase \in [Conn -> phases]
      /\ op \in [Conn -> {"none", "armed", "deferred", "gone"}] /\ ConnectorTypes
      /\ \A x \in Conn : Fresh(x)
  BY DEF ServerInv, ServerTypes, ConnectInv, ConnectorTypes
<1>2. ASSUME UNCHANGED <<net, send, rx, tx, sent>>, sphase' \in [Conn -> phases],
             \A x \in Conn : op'[x] = "none" => op[x] = "none"
      PROVE  ServerInv'
  <2>1. ASSUME NEW x \in Conn
        PROVE  /\ Backlogged(x)
               /\ op'[x] = "none" => net'[x] = "none"
               /\ net'[x] \in {"none", "syn", "refused"} => send'[x] = "none"
               /\ Len(tx'[x]) <= SndBuf
    BY <1>1, <1>2 DEF Backlogged, Fresh
  <2> QED
    BY <1>1, <1>2, <2>1, ElsewhereServed
<1>3. ASSUME NEW c \in Conn, RunInProgress(c) \/ RunDirect(c) PROVE ServerInv'
  BY <1>3, RunServed
<1>4. ASSUME NEW c \in Conn, RunFails(c) \/ RunLate(c) PROVE ServerInv'
  <2>1. UNCHANGED <<net, send, rx, tx, sent, sphase>> /\ \E o \in {"deferred", "gone"} : op' = [op EXCEPT ![c] = o]
    BY <1>4 DEF RunFails, RunLate, netvars
  <2> QED
    BY <1>1, <1>2, <2>1
<1>5. ASSUME NEW c \in Conn, Deferred(c) PROVE ServerInv'
  <2>1. deliver(c, "none") /\ UNCHANGED <<net, send, rx, tx, sent>>
    BY <1>5 DEF Deferred
  <2> QED
    BY <1>1, <1>2, <2>1, DeliverPhase
<1>6. ASSUME NEW c \in Conn, OnIo(c) PROVE ServerInv'
  <2>1. UNCHANGED <<net, send, rx, tx, sent>>
    BY <1>6 DEF OnIo
  <2>2. PICK d \in {"none"} \cup Decide(c, sphase[c]) :
           IF d \in {"open", "none"} THEN deliver(c, d) ELSE sphase' = [sphase EXCEPT ![c] = d] /\ op' = op
    BY <1>6 DEF OnIo
  <2>3. CASE d \in {"open", "none"}
    BY <1>1, <1>2, <2>1, <2>2, <2>3, DeliverPhase
  <2>4. CASE d \notin {"open", "none"}
    <3>1. d \in phases
      BY <2>2, <2>4, DecisionIsAPhase
    <3> QED
      BY <1>1, <1>2, <2>1, <2>2, <2>4, <3>1
  <2> QED
    BY <2>3, <2>4
<1>7. ASSUME NEW c \in Conn, OnDeadline(c) PROVE ServerInv'
  <2>1. UNCHANGED <<net, send, rx, tx, sent>> /\ (UNCHANGED <<op, sphase>> \/ deliver(c, "none"))
    BY <1>7 DEF OnDeadline
  <2> QED
    BY <1>1, <1>2, <2>1, DeliverPhase
<1>8. ASSUME NEW c \in Conn, Resume(c) \/ DestroyFrame(c) PROVE ServerInv'
  <2>1. UNCHANGED <<net, send, rx, tx, sent, op, sphase>>
    BY <1>8 DEF Resume, DestroyFrame, netvars
  <2> QED
    BY <1>1, <1>2, <2>1
<1>9. CASE Teardown
  <2>1. /\ UNCHANGED <<net, send, rx, tx, sent>> /\ sphase' = [c \in Conn |-> "connecting"]
        /\ op' = [c \in Conn |-> IF op[c] = "none" THEN "none" ELSE "gone"]
    BY <1>9 DEF Teardown
  <2> QED
    BY <1>1, <1>2, <2>1
<1> QED
  BY <1>3, <1>4, <1>5, <1>6, <1>7, <1>8, <1>9 DEF ConnectorNext

\* The client's application and the network.
LEMMA ClientServed ==
    ASSUME ServerInv, NEW c \in Conn, Client(c) \/ Network(c)
    PROVE  ServerInv'
<1>1. /\ net \in [Conn -> {"none", "syn", "up", "refused", "reset"}]
      /\ send \in [Conn -> {"none", "backlog", "open", "closed", "extracted"}]
      /\ rx \in [Conn -> Seq(Nat)] /\ tx \in [Conn -> Seq(Nat)] /\ sent \in [Conn -> Nat]
      /\ sphase \in [Conn -> {"connecting", "negotiating", "handshaking"}]
      /\ \A x \in Conn : Fresh(x)
  BY DEF ServerInv, ServerTypes
<1>2. UNCHANGED sesvars /\ op' = op /\ sphase' = sphase
  BY DEF Client, Network, connvars
<1>3. ASSUME NEW x \in Conn PROVE Len(tx[x]) <= SndBuf /\ tx[x] \in Seq(Nat) /\ Len(<<>>) = 0 /\ <<>> \in Seq(Nat)
  BY <1>1 DEF Fresh
<1>4. CASE ClientSend(c)
  <2>1. UNCHANGED <<net, send, tx>> /\ sent' = [sent EXCEPT ![c] = sent[c] + 1]
        /\ (rx' = [rx EXCEPT ![c] = rx[c]] \/ rx' = [rx EXCEPT ![c] = Append(rx[c], sent[c] + 1)])
    BY <1>1, <1>4 DEF ClientSend
  <2>2. sent' \in [Conn -> Nat] /\ sent[c] + 1 \in Nat /\ rx[c] \in Seq(Nat)
    BY <1>1, <2>1
  <2>3. Append(rx[c], sent[c] + 1) \in Seq(Nat)
    BY <2>2
  <2>4. rx' \in [Conn -> Seq(Nat)]
    BY <1>1, <2>1, <2>3
  <2> QED
    BY <1>1, <1>2, <2>1, <2>2, <2>4, ElsewhereServed DEF Backlogged, Fresh
<1>5. CASE ClientRead(c)
  <2> DEFINE q == tx[c]
  <2>1. UNCHANGED <<net, send, rx, sent>> /\ tx' = [tx EXCEPT ![c] = Tail(q)] /\ q # <<>>
    BY <1>5 DEF ClientRead
  <2>2. q \in Seq(Nat) /\ Len(q) <= SndBuf
    BY <1>3
  <2> HIDE DEF q
  <2>3. Tail(q) \in Seq(Nat) /\ Len(Tail(q)) = Len(q) - 1 /\ Len(q) \in Nat
    BY <2>1, <2>2
  <2>4. Len(Tail(q)) <= SndBuf
    BY <2>2, <2>3, SizesAreNumbers
  <2>5. tx' \in [Conn -> Seq(Nat)] /\ \A x \in Conn : Len(tx'[x]) <= SndBuf
    BY <1>1, <1>3, <2>1, <2>3, <2>4
  <2> QED
    BY <1>1, <1>2, <2>1, <2>5, ElsewhereServed DEF Backlogged, Fresh
<1>6. CASE ClientClose(c)
  <2>1. UNCHANGED <<net, send, rx, tx, sent>>
    BY <1>6 DEF ClientClose
  <2> QED
    BY <1>1, <1>2, <2>1, ElsewhereServed DEF Backlogged, Fresh
<1>7. CASE Establish(c) \/ Refuse(c)
  <2>1. UNCHANGED <<rx, tx, sent>> /\ net[c] = "syn"
        /\ \/ net' = [net EXCEPT ![c] = "up"] /\ send' = [send EXCEPT ![c] = "backlog"]
           \/ net' = [net EXCEPT ![c] = "refused"] /\ send' = send
    BY <1>7 DEF Establish, Refuse
  <2>2. op[c] # "none" /\ send[c] = "none"
    BY <1>1, <2>1 DEF Fresh
  <2>3. /\ net' \in [Conn -> {"none", "syn", "up", "refused", "reset"}]
        /\ send' \in [Conn -> {"none", "backlog", "open", "closed", "extracted"}]
        /\ \A x \in Conn \ {c} : net'[x] = net[x] /\ send'[x] = send[x]
        /\ (net'[c] = "up" /\ send'[c] = "backlog") \/ (net'[c] = "refused" /\ send'[c] = "none")
    BY <1>1, <2>1, <2>2
  <2>4. ASSUME NEW x \in Conn
        PROVE  /\ Backlogged(x)
               /\ op'[x] = "none" => net'[x] = "none"
               /\ net'[x] \in {"none", "syn", "refused"} => send'[x] = "none"
               /\ Len(tx'[x]) <= SndBuf
    BY <1>1, <1>2, <2>1, <2>2, <2>3 DEF Backlogged, Fresh
  <2> QED
    BY <1>1, <1>2, <2>1, <2>3, <2>4, ElsewhereServed
<1>8. CASE Reset(c)
  <2>1. /\ UNCHANGED <<send, sent>> /\ net[c] = "up" /\ net' = [net EXCEPT ![c] = "reset"]
        /\ rx' = [rx EXCEPT ![c] = <<>>] /\ tx' = [tx EXCEPT ![c] = <<>>]
    BY <1>8 DEF Reset
  <2>2. rx' \in [Conn -> Seq(Nat)] /\ tx' \in [Conn -> Seq(Nat)] /\ \A x \in Conn : Len(tx'[x]) <= SndBuf
    BY <1>1, <1>3, <2>1, SizesAreNumbers
  <2>3. ASSUME NEW x \in Conn
        PROVE  /\ Backlogged(x)
               /\ op'[x] = "none" => net'[x] = "none"
               /\ net'[x] \in {"none", "syn", "refused"} => send'[x] = "none"
    BY <1>1, <1>2, <2>1 DEF Backlogged, Fresh
  <2>4. net' \in [Conn -> {"none", "syn", "up", "refused", "reset"}]
    BY <1>1, <2>1
  <2> QED
    BY <1>1, <1>2, <2>1, <2>2, <2>3, <2>4, ElsewhereServed
<1> QED
  BY <1>4, <1>5, <1>6, <1>7, <1>8 DEF Client, Network

-----------------------------------------------------------------------------
(* The theorem *)

\* Every step of the system keeps the server's invariant.
LEMMA ServerStep ==
    ASSUME ServerInv, ConnectInv, [IONext]_ioVars
    PROVE  ServerInv'
<1>1. CASE ConnectorNext /\ UNCHANGED sesvars
  BY <1>1, ConnectorServed
<1>2. CASE SessionNext /\ UNCHANGED connvars
  <2>1. ASSUME NEW c \in Conn, Step(c) PROVE ServerInv'
    BY <1>2, <2>1, ReadServed, MessageServed, PostReadServed, WriteServed, DisposeServed DEF Step
  <2>2. ASSUME NEW c \in Conn, OnEvent(c) \/ OnMessageExtract(c) \/ Accept(c) \/ UserCall(c) \/ UserExtract(c)
        PROVE  ServerInv'
    BY <1>2, <2>2, EventServed, MessageExtractServed, AcceptServed, CallServed, ExtractServed
  <2>3. CASE stream
    BY <1>2, <2>3, StreamServed
  <2> QED
    BY <1>2, <2>1, <2>2, <2>3 DEF SessionNext
<1>3. ASSUME NEW c \in Conn, Client(c) \/ Network(c) PROVE ServerInv'
  BY <1>3, ClientServed
<1>4. CASE UNCHANGED ioVars
  <2>1. /\ UNCHANGED <<net, send, rx, tx, sent, sphase, op>> /\ UNCHANGED <<sessions, ses, running, stage, farewells>>
    BY <1>4 DEF ioVars, netvars, connvars, sesvars
  <2>2. ServerTypes'
    BY <2>1 DEF ServerInv, ServerTypes, Session
  <2>3. ASSUME NEW c \in Conn PROVE Fresh(c)' /\ Served(c)'
    <3>1. Fresh(c) /\ Served(c)
      BY DEF ServerInv
    <3>2. Sound(ses[c])'
      BY <2>1, <3>1 DEF Served, Sound, Session, pendingWrite, pendingRead
    <3> QED
      BY <2>1, <3>1, <3>2 DEF Fresh, Served
  <2> QED
    BY <2>2, <2>3 DEF ServerInv
<1> QED
  BY <1>1, <1>2, <1>3, <1>4 DEF IONext

\* It holds before anything was connected.
LEMMA ServerStart == IOInit => ServerInv
<1> SUFFICES ASSUME IOInit PROVE ServerInv
  OBVIOUS
<1>1. /\ net = [c \in Conn |-> "none"] /\ send = [c \in Conn |-> "none"] /\ rx = [c \in Conn |-> <<>>]
      /\ tx = [c \in Conn |-> <<>>] /\ sent = [c \in Conn |-> 0] /\ sphase = [c \in Conn |-> "connecting"]
      /\ sessions = {} /\ ses = [c \in Conn |-> NoSession] /\ running = None /\ stage = "idle"
      /\ farewells = [c \in Conn |-> 0]
  BY DEF IOInit, NetInit, ConnectorInit, SessionInit
<1>2. IsFiniteSet({}) /\ Cardinality({}) = 0 /\ <<>> \in Seq(Nat) /\ Len(<<>>) = 0
  BY FS_EmptySet
<1>3. Sound(NoSession) /\ ~NoSession.alive /\ NoSession \in Session
  BY NewSessionSound DEF Sound
<1>4. ServerTypes
  <2>1. ses \in [Conn -> Session]
    BY <1>1, <1>3
  <2>2. rx \in [Conn -> Seq(Nat)] /\ tx \in [Conn -> Seq(Nat)]
    BY <1>1, <1>2
  <2>3. Cardinality(sessions) <= MaxSessions
    BY <1>1, <1>2, SizesAreNumbers
  <2> QED
    BY <1>1, <1>2, <2>1, <2>2, <2>3 DEF ServerTypes
<1>5. ASSUME NEW c \in Conn PROVE Fresh(c) /\ Served(c)
  <2>1. net[c] = "none" /\ send[c] = "none" /\ tx[c] = <<>> /\ farewells[c] = 0 /\ ses[c] = NoSession /\ running # c
    BY <1>1, SizesAreNumbers
  <2>2. Fresh(c)
    BY <1>2, <2>1, SizesAreNumbers DEF Fresh
  <2> QED
    BY <1>1, <1>3, <2>1, <2>2 DEF Served
<1> QED
  BY <1>4, <1>5 DEF ServerInv

\* A session of the server is alive with its socket; one that has left the
\* server's map, by its end or by an extraction in its own handler, lives only
\* while that handler runs; output is never left without a watch for room, nor
\* a disconnect without the event that will carry it out; the buffers and the
\* map stay within their limits; and no session is told of its end twice
\* (io.h on(event::io), dispose; io_handler.h registerSession, extractSession).
THEOREM SessionsStayServed == IOSpec => []SessionsAreServed
<1>1. IInv => SessionsAreServed
  <2> SUFFICES ASSUME IInv PROVE SessionsAreServed
    OBVIOUS
  <2>1. ServerTypes /\ ConnectorTypes /\ \A c \in Conn : Fresh(c) /\ Served(c)
    BY DEF IInv, ServerInv, ConnectInv
  <2>2. \A c \in Conn : Len(tx[c]) <= SndBuf /\ pendingWrite(ses[c]) <= MaxWrite /\ pendingRead(ses[c]) <= MaxRead
    BY <2>1 DEF Fresh, Served, Sound
  <2>3. IOTypeOK
    BY <2>1, <2>2 DEF IOTypeOK, ServerTypes, ConnectorTypes
  <2>4. ASSUME NEW c \in Conn
        PROVE  /\ c \in sessions => ses[c].alive /\ ~ses[c].is_disposed /\ send[c] = "open"
               /\ ses[c].alive => c \in sessions \/ running = c
               /\ send[c] = "open" => c \in sessions
               /\ (c \in sessions /\ running # c) =>
                     /\ ses[c].out # <<>> => "WRITE" \in ses[c].events
                     /\ ses[c].reason # 0 => ses[c].fed
                     /\ "READ" \in ses[c].events
               /\ farewells[c] <= (IF c \in sessions THEN 0 ELSE 1)
    <3>1. Served(c) /\ ~ses[c].is_disposed
      BY <2>1 DEF Served, Sound, Session
    <3>2. farewells[c] <= (IF c \in sessions THEN 0 ELSE 1)
      BY <2>1, <3>1 DEF Served
    <3> QED
      BY <3>1, <3>2 DEF Served, Sound
  <2> QED
    BY <2>3, <2>4 DEF SessionsAreServed
<1>2. IOInit => ServerInv
  BY ServerStart
<1>3. ServerInv /\ ConnectInv /\ [IONext]_ioVars => ServerInv'
  BY ServerStep
<1> QED
  BY <1>1, <1>2, <1>3, ConnectInvariant, PTL DEF IOSpec, IInv
=============================================================================
