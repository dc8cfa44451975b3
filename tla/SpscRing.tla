------------------------------ MODULE SpscRing ------------------------------
(***************************************************************************)
(* qb::lockfree::spsc::ringbuffer (src/qb/system/lockfree/spsc.h): the     *)
(* single-producer single-consumer ring that carries events from one       *)
(* VirtualCore to the mailbox of another.  One producer thread and one     *)
(* consumer thread share write_index_ (stored only by the producer) and    *)
(* read_index_ (stored only by the consumer).  Each call is split at its   *)
(* atomic accesses and at every bucket its memcpy moves: the other side's  *)
(* index is loaded once, before the copy, and is stale from then on.       *)
(*                                                                         *)
(* Buckets are numbered in the order in which they are accepted, so a      *)
(* bucket's value is its serial number: a lost, repeated, reordered or     *)
(* torn bucket shows as a wrong number.                                    *)
(***************************************************************************)
EXTENDS Integers, Sequences

CONSTANTS
    Capacity,   \* the template argument _MaxSize: how many buckets fit
    Chunk,      \* capacity of the scratch buffer given to dequeue(func, scratch, n)
    ItemSizes,  \* how many buckets one enqueue call may bring
    InPlace,    \* whether the consumer also calls the in-place consume_all(func)
    MaxSent     \* bound: buckets accepted in one behaviour

ASSUME SpscAssumption ==
    /\ Capacity \in Nat \ {0}
    /\ Chunk \in Nat \ {0}
    /\ ItemSizes \subseteq Nat \ {0}
    /\ InPlace \in BOOLEAN
    /\ MaxSent \in Nat

\* ringbuffer::max_size = _MaxSize + 1: one slot always stays unused.
max_size == Capacity + 1

Slots == 0 .. (max_size - 1)

Uninitialized == -1

VARIABLES
    array,        \* array_: the slots
    write_index,  \* write_index_
    read_index,   \* read_index_
    ppc,          \* the producer: "idle" or "copy" (inside enqueue)
    pcount,       \* its input_count
    pdone,        \* buckets its memcpy has moved
    cpc,          \* the consumer: "idle", "copyout" (dequeue) or "inplace" (consume_all)
    ccount,       \* its output_count
    cdone,        \* buckets its memcpy or functor has gone through
    scratch,      \* what it has seen of them
    published,    \* history: buckets published by the producer
    received,     \* history: buckets released by the consumer
    ends,         \* history: values of published at which an enqueue call was complete
    batch         \* history: the buckets of the last completed read

vars == <<array, write_index, read_index, ppc, pcount, pdone, cpc, ccount,
          cdone, scratch, published, received, ends, batch>>
pvars == <<ppc, pcount, pdone>>
cvars == <<cpc, ccount, cdone, scratch, batch>>

-----------------------------------------------------------------------------
(* Index arithmetic.                                                       *)

\* Both the two-section memcpy and next_index: slot arg of the unrolled ring.
next_index(arg) == IF arg < max_size THEN arg ELSE arg - max_size

read_available(w, r) == IF w >= r THEN w - r ELSE w + max_size - r

\* Mutant: does not keep one slot unused.
write_available_full(w, r) == (r - w) + (IF w >= r THEN max_size ELSE 0)

write_available(w, r) == (r - w - 1) + (IF w >= r THEN max_size ELSE 0)

-----------------------------------------------------------------------------
Init ==
    /\ array = [s \in Slots |-> Uninitialized]
    /\ write_index = 0
    /\ read_index = 0
    /\ ppc = "idle" /\ pcount = 0 /\ pdone = 0
    /\ cpc = "idle" /\ ccount = 0 /\ cdone = 0
    /\ scratch = [j \in 0 .. (Capacity - 1) |-> Uninitialized]
    /\ published = 0
    /\ received = 0
    /\ ends = {0}
    /\ batch = <<>>

(* The producer.  A call that finds too little room returns 0 and changes  *)
(* nothing; the caller may call again.                                     *)
BeginCopy(n) ==
    /\ ppc = "idle"
    /\ published + n <= MaxSent
    /\ ppc' = "copy"
    /\ pcount' = n
    /\ pdone' = 0
    /\ UNCHANGED <<array, write_index, read_index, cvars, published, received, ends>>

\* enqueue<true>(t, n): all the buckets of an item or none.
EnqueueAll(n) ==
    /\ write_available(write_index, read_index) >= n
    /\ BeginCopy(n)

\* enqueue<false>(t, n): as many of them as fit.
EnqueuePart(n) ==
    LET avail == write_available(write_index, read_index) IN
    /\ avail > 0
    /\ BeginCopy(IF n < avail THEN n ELSE avail)

\* enqueue(t): one bucket.
EnqueueOne ==
    /\ next_index(write_index + 1) # read_index
    /\ BeginCopy(1)

\* One bucket of the memcpy into array_.
EnqueueCopy ==
    /\ ppc = "copy"
    /\ pdone < pcount
    /\ array' = [array EXCEPT ![next_index(write_index + pdone)] = published + pdone]
    /\ pdone' = pdone + 1
    /\ UNCHANGED <<write_index, read_index, ppc, pcount, cvars, published, received, ends>>

\* Mutant: publishes before the copy is complete.
EnqueuePublishEarly ==
    /\ ppc = "copy"
    /\ write_index' = next_index(write_index + pcount)
    /\ ppc' = "idle"
    /\ published' = published + pcount
    /\ ends' = ends \cup {published + pcount}
    /\ UNCHANGED <<array, read_index, pcount, pdone, cvars, received>>

\* write_index_.store(new_write_index, release).
EnqueuePublish ==
    /\ ppc = "copy"
    /\ pdone = pcount
    /\ write_index' = next_index(write_index + pcount)
    /\ ppc' = "idle"
    /\ published' = published + pcount
    /\ ends' = ends \cup {published + pcount}
    /\ UNCHANGED <<array, read_index, pcount, pdone, cvars, received>>

(* The consumer.  A call that finds nothing returns 0.                     *)
BeginRead(mode, n) ==
    /\ cpc = "idle"
    /\ cpc' = mode
    /\ ccount' = n
    /\ cdone' = 0
    /\ UNCHANGED <<array, write_index, read_index, pvars, scratch, batch, published, received, ends>>

\* Mutant: hands out the contiguous segment only.
DequeueSegment ==
    LET avail == read_available(write_index, read_index)
        whole == IF avail < max_size - read_index THEN avail ELSE max_size - read_index
    IN
    /\ avail > 0
    /\ BeginRead("copyout", IF Chunk < whole THEN Chunk ELSE whole)

\* dequeue(func, scratch, Chunk): copies out at most Chunk buckets.
DequeueBegin ==
    LET avail == read_available(write_index, read_index) IN
    /\ avail > 0
    /\ BeginRead("copyout", IF Chunk < avail THEN Chunk ELSE avail)

\* consume_all(func): runs func on the slots themselves.
ConsumeBegin ==
    LET avail == read_available(write_index, read_index) IN
    /\ InPlace
    /\ avail > 0
    /\ BeginRead("inplace", avail)

\* One bucket of the memcpy out of array_, or one bucket func looks at in place.
ReadBucket ==
    /\ cpc # "idle"
    /\ cdone < ccount
    /\ scratch' = [scratch EXCEPT ![cdone] = array[next_index(read_index + cdone)]]
    /\ cdone' = cdone + 1
    /\ UNCHANGED <<array, write_index, read_index, pvars, cpc, ccount, batch, published, received, ends>>

\* read_index_.store(new_read_index, release).
ReadRelease ==
    /\ cpc # "idle"
    /\ cdone = ccount
    /\ read_index' = next_index(read_index + ccount)
    /\ cpc' = "idle"
    /\ received' = received + ccount
    /\ batch' = [j \in 1 .. ccount |-> scratch[j - 1]]
    /\ UNCHANGED <<array, write_index, pvars, ccount, cdone, scratch, published, ends>>

Producer ==
    \/ \E n \in ItemSizes : EnqueueAll(n) \/ EnqueuePart(n)
    \/ EnqueueOne
    \/ EnqueueCopy
    \/ EnqueuePublish

Consumer ==
    \/ DequeueBegin
    \/ ConsumeBegin
    \/ ReadBucket
    \/ ReadRelease

Next == Producer \/ Consumer

\* The consumer thread keeps polling; a call once begun runs to its end.
Fairness == WF_vars(EnqueueCopy \/ EnqueuePublish) /\ WF_vars(Consumer)

Spec == Init /\ [][Next]_vars /\ Fairness

-----------------------------------------------------------------------------
(* Properties.                                                             *)

\* The type of the state: in particular both indices stay inside array_.
TypeOK ==
    /\ array \in [Slots -> Int]
    /\ write_index \in Slots
    /\ read_index \in Slots
    /\ ppc \in {"idle", "copy"}
    /\ pcount \in Nat /\ pdone \in Nat
    /\ cpc \in {"idle", "copyout", "inplace"}
    /\ ccount \in Nat /\ cdone \in Nat
    /\ scratch \in [0 .. (Capacity - 1) -> Int]
    /\ published \in Nat /\ received \in Nat
    /\ ends \in SUBSET Nat
    /\ batch \in Seq(Int)

\* The ring is a bounded queue: what was published and not yet released is
\* exactly what read_available computes from the two indices, and it never
\* exceeds the capacity (spsc.h read_available, write_available).
IndicesCountTheQueue ==
    /\ published - received = read_available(write_index, read_index)
    /\ published - received <= Capacity

\* First in, first out, nothing lost or repeated: the slots between the two
\* indices hold the next buckets in the order they were accepted, and so does
\* the part of them the consumer has already copied (spsc.h enqueue, dequeue).
FifoContents ==
    /\ \A j \in 0 .. (Capacity - 1) :
          j < published - received => array[next_index(read_index + j)] = received + j
    /\ \A j \in 0 .. (Capacity - 1) :
          (cpc # "idle" /\ j < cdone) => scratch[j] = received + j

\* The two memcpy never touch the same slot at the same time, so neither side
\* needs a lock although each decided on a stale copy of the other's index.
NoSharedSlot ==
    (ppc = "copy" /\ pdone < pcount /\ cpc # "idle" /\ cdone < ccount) =>
        next_index(write_index + pdone) # next_index(read_index + cdone)

\* A batch copied out with a scratch buffer that holds a whole ring ends where
\* an enqueue call ended: no event that spans several buckets is ever cut
\* between two batches, whatever the wrap (VirtualCore::__receive__ passes
\* MaxRingEvents, one more than the ring holds, for this reason).
BatchesAreWholeItems ==
    (Chunk >= Capacity /\ cpc = "copyout") => (received + ccount) \in ends

\* The ring implements a bounded first-in first-out queue: the slots between
\* the indices, read in order, are its contents.
queue == [j \in 1 .. read_available(write_index, read_index) |->
             array[next_index(read_index + j - 1)]]
Fifo == INSTANCE BoundedFifo WITH accepted <- published
ImplementsFifo == Fifo!Spec
=============================================================================
