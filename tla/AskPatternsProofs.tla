------------------------- MODULE AskPatternsProofs -------------------------
(***************************************************************************)
(* AskPatterns, for any actors, cores, calls and plans: a call is resolved *)
(* by the answer to its own present request, a keyed operation runs once   *)
(* while its key is kept, and a stream arrives whole and in order.         *)
(*                                                                         *)
(* All rest on the correlation ids: an id is given to one call once, the   *)
(* registry has the ids of the calls that wait, and a message with the id  *)
(* of a call is of that call.  Requests and answers are told apart by the  *)
(* way they go, which is why no actor may ask itself (Apart).              *)
(***************************************************************************)
EXTENDS AskPatterns, QueueTheorems

(* No actor asks itself.  One that does is answered by its own request:    *)
(* resolve_ask() comes first in the handler of the request.                *)
Apart == \A p \in Plans : \A c \in Call : p[c].owner # p[c].target

-----------------------------------------------------------------------------
(* Types *)

Message == [corr : Nat \X Nat, call : Call, key : Keys, resp : Nat, end : BOOLEAN]
Stream == [queue : Seq(Nat), done : BOOLEAN, dropped : BOOLEAN]
Serving == [m : Message, sent : 0..Chunks]

ActorsTyped ==
    /\ plan \in Plans
    /\ status \in [Actor -> {"alive", "killed", "gone"}]
    /\ kills \in [Actor -> 0..1]
    /\ \A a \in Actor : status[a] # "alive" => kills[a] = 0

RegistryTyped ==
    /\ counter \in [Range(Core) -> Nat]
    /\ slots \in [Range(Core) -> SUBSET ((Nat \X Nat) \X Call)]
    /\ corr \in [Call -> Nat \X Nat]

CallsTyped ==
    /\ pc \in [Call -> {"idle", "parked", "woken", "reading", "backoff", "ended"}]
    /\ born \in [Call -> Nat]
    /\ round \in [Call -> 0..Rounds]
    /\ attempt \in [Call -> 0..Attempts]
    /\ timer \in [Call -> BOOLEAN]
    /\ out \in [Call -> {"none", "pending", "ok", "timed_out", "cancelled", "circuit_open",
                         "eof", "overflow", "destroyed"}]
    /\ reply \in [Call -> Message \cup {NoReply}]

StreamsTyped ==
    /\ stream \in [Call -> Stream]
    /\ got \in [Call -> Seq(Nat)]
    /\ \A c \in Call : Len(stream[c].queue) <= StreamCap

BreakerTyped ==
    breaker \in [state : {"closed", "open", "half_open"}, failures : 0..Threshold, cooled : BOOLEAN]

NetTyped == net \in [Actor \X Actor -> Seq(Message)]

AnswersTyped ==
    /\ cache \in [Actor -> Seq(Keys)]
    /\ ran \in [Keys -> Nat]
    /\ serving \in [Actor -> SUBSET Serving]

-----------------------------------------------------------------------------
(* The registry *)

(* A call has had no request, or its id is one its core has given out; no  *)
(* two calls have the same.                                                *)
Issued(c) ==
    \/ corr[c] = <<0, 0>>
    \/ corr[c][1] = Core[Owner(c)] + 1 /\ corr[c][2] \in 1..counter[Core[Owner(c)]]

Ids ==
    /\ \A c \in Call : Issued(c)
    /\ \A c, d \in Call : corr[c] = corr[d] => c = d \/ corr[c] = <<0, 0>>

(* The registry has a slot for each call that waits and no other.          *)
SlotIsLive(k, s) == Waiting(s[2]) /\ corr[s[2]] = s[1] /\ Core[Owner(s[2])] = k

Slots ==
    /\ \A c \in Call : Waiting(c) => <<corr[c], c>> \in slots[Core[Owner(c)]]
    /\ \A k \in Range(Core) : \A s \in slots[k] : SlotIsLive(k, s)

(* Which kinds of call are where, and how often they have been.            *)
Phase(c) ==
    /\ corr[c] = <<0, 0>> => pc[c] \in {"idle", "ended"}
    /\ pc[c] = "reading" => Kind(c) = "stream"
    /\ pc[c] = "backoff" => Kind(c) = "retry" /\ attempt[c] < Attempts
    /\ pc[c] # "idle" => round[c] \in 1..Rounds
    /\ born[c] <= kills[Owner(c)]

Phases == \A c \in Call : Phase(c)

-----------------------------------------------------------------------------
(* Messages *)

(* A message has an id its call was given, and keeps it.                   *)
Ours(m) ==
    /\ m.key[1] = m.call
    /\ m.corr[1] = Core[Owner(m.call)] + 1 /\ m.corr[2] \in 1..counter[Core[Owner(m.call)]]
    /\ \A c \in Call : corr[c] = m.corr => m.call = c

IsRequest(m) == m.resp = 0 /\ ~m.end

(* Requests go from the owner to the target, answers back.                 *)
Travels(p, m) ==
    \/ p = <<Owner(m.call), Target(m.call)>> /\ IsRequest(m)
    \/ p = <<Target(m.call), Owner(m.call)>> /\ (Kind(m.call) # "stream" => m.resp = 1)

Serves(a, s) == a = Target(s.m.call) /\ Kind(s.m.call) = "stream" /\ IsRequest(s.m)

Messages ==
    /\ \A p \in Actor \X Actor : \A m \in Range(net[p]) : Ours(m) /\ Travels(p, m)
    /\ \A a \in Actor : \A s \in serving[a] : Ours(s.m) /\ Serves(a, s)

Answered(c) == out[c] = "ok" => reply[c] # NoReply /\ reply[c].call = c
                                /\ reply[c].corr = corr[c] /\ reply[c].resp = 1

-----------------------------------------------------------------------------
(* Operations that run once *)

Remembered(a) ==
    /\ IsInjective(cache[a]) /\ Len(cache[a]) <= CacheCap
    /\ \A k \in Range(cache[a]) : Target(k[1]) = a

Once(k) == ran[k] <= 1 /\ (ran[k] # 0 => k \in Range(cache[Target(k[1])]))

Effects == (\A a \in Actor : Remembered(a)) /\ (\A k \in Keys : Once(k))

-----------------------------------------------------------------------------
(* Streams *)

Increases(q) == \A i, j \in DOMAIN q : i < j => q[i] < q[j]

(* g: the chunks a consumer has; r: its stream, with those in the buffer.  *)
Collected(g, r) ==
    /\ Increases(g) /\ Increases(r.queue)
    /\ \A i \in DOMAIN g, j \in DOMAIN r.queue : g[i] < r.queue[j]

(* None is missing so far, or at all when the stream has ended well.       *)
Reached(g, r) == Len(g) + Len(r.queue)

Whole(g, r) ==
    /\ \A i \in DOMAIN g : g[i] = i
    /\ \A i \in DOMAIN r.queue : r.queue[i] = Len(g) + i
    /\ r.done /\ ~r.dropped => Reached(g, r) = Chunks

(* n is above all that was delivered.                                      *)
Above(n, g, r) == (\A i \in DOMAIN g : g[i] < n) /\ (\A i \in DOMAIN r.queue : r.queue[i] < n)

Number(m) == IF m.end THEN Chunks + 1 ELSE m.resp

Of(id, m) == m.corr = id

(* The answers with this id in the queue b: above what has come, in order. *)
InOrder(b, id, g, r) ==
    /\ \A i \in DOMAIN b : Of(id, b[i]) => Number(b[i]) \in 1..(Chunks + 1) /\ Above(Number(b[i]), g, r)
    /\ \A i, j \in DOMAIN b : i < j /\ Of(id, b[i]) /\ Of(id, b[j]) => Number(b[i]) < Number(b[j])

(* The responder, with the streams S, sends after what it has sent.        *)
Sent(b, S, id, g, r) ==
    \A s \in S : Of(id, s.m) =>
        /\ Above(s.sent + 1, g, r)
        /\ \A i \in DOMAIN b : Of(id, b[i]) => Number(b[i]) <= s.sent
        /\ \A t \in S : Of(id, t.m) => s = t

(* A request that has not arrived, in the queue f, is the only trace of    *)
(* its call.                                                               *)
Asked(f, b, S, id, g, r) ==
    \A i \in DOMAIN f : Of(id, f[i]) =>
        /\ \A j \in DOMAIN f : Of(id, f[j]) => i = j
        /\ \A j \in DOMAIN b : ~Of(id, b[j])
        /\ \A s \in S : ~Of(id, s.m)
        /\ g = <<>> /\ r.queue = <<>>

Pending(f, b, S, id, g, r) == InOrder(b, id, g, r) /\ Sent(b, S, id, g, r) /\ Asked(f, b, S, id, g, r)

(* None is missing between what has come and what was sent.                *)
NoGap(b, S, id, g, r) ==
    /\ \A i \in DOMAIN b : Of(id, b[i]) =>
          \A n \in (Reached(g, r) + 1)..(Number(b[i]) - 1) :
             \E j \in 1..(i - 1) : Of(id, b[j]) /\ Number(b[j]) = n
    /\ \A s \in S : Of(id, s.m) =>
          \A n \in (Reached(g, r) + 1)..s.sent : \E j \in DOMAIN b : Of(id, b[j]) /\ Number(b[j]) = n

Back(c) == net[<<Target(c), Owner(c)>>]
Forth(c) == net[<<Owner(c), Target(c)>>]
Answering(c) == serving[Target(c)]

(* A stream that is open: its consumer may still be given chunks.          *)
Open(c) == Kind(c) = "stream" /\ Waiting(c) /\ ~stream[c].done

Flow(c) ==
    /\ Collected(got[c], stream[c])
    /\ ~Cancelled(c) => Whole(got[c], stream[c])
    /\ out[c] = "eof" => Len(got[c]) = Chunks
    /\ Open(c) => /\ Pending(Forth(c), Back(c), Answering(c), corr[c], got[c], stream[c])
                  /\ ~Cancelled(c) => NoGap(Back(c), Answering(c), corr[c], got[c], stream[c])

Streams == \A c \in Call : Flow(c)

Types == /\ ActorsTyped /\ RegistryTyped /\ CallsTyped /\ StreamsTyped
         /\ BreakerTyped /\ NetTyped /\ AnswersTyped

Answers == \A c \in Call : Answered(c)

AskInv == Types /\ Ids /\ Slots /\ Phases /\ Messages /\ Answers /\ Effects /\ Streams

-----------------------------------------------------------------------------
(* Constants and plans *)

\* The bounds are positive numbers.
LEMMA Bounds ==
  ASSUME AskAssumption
  PROVE  /\ Rounds \in Nat \ {0} /\ Attempts \in Nat \ {0} /\ Threshold \in Nat \ {0}
         /\ CacheCap \in Nat \ {0} /\ StreamCap \in Nat \ {0}
         /\ Chunks \in Nat /\ MaxKills \in Nat
BY DEF AskAssumption

\* A call has an owner, with a core, and another actor as its target.
LEMMA PlanFacts ==
  ASSUME AskAssumption, Apart, plan \in Plans, NEW c \in Call
  PROVE  /\ Kind(c) \in Kinds /\ Owner(c) \in Actor /\ Target(c) \in Actor
         /\ Owner(c) # Target(c)
         /\ plan[c].rounds \in Nat /\ plan[c].rounds <= Rounds
         /\ Core[Owner(c)] \in Range(Core) /\ Core[Owner(c)] \in Nat
<1>1. plan[c] \in [kind : Kinds, owner : Actor, target : Actor, rounds : 1..Rounds]
  BY DEF AskAssumption
<1>2. Core[plan[c].owner] \in Range(Core) /\ Core[plan[c].owner] \in Nat
  BY <1>1 DEF AskAssumption, Range
<1>3. plan[c].owner # plan[c].target
  BY DEF Apart
<1> QED
  BY <1>1, <1>2, <1>3, Bounds DEF Kind, Owner, Target

\* The plan of a behaviour does not change.
LEMMA PlanStays ==
  ASSUME plan' = plan
  PROVE  \A c : Kind(c)' = Kind(c) /\ Owner(c)' = Owner(c) /\ Target(c)' = Target(c)
BY DEF Kind, Owner, Target

-----------------------------------------------------------------------------
(* The registry *)

\* A step that gives out no id.
LEMMA IdsKept ==
  ASSUME Ids, UNCHANGED <<plan, counter, corr>>
  PROVE  Ids'
BY PlanStays DEF Ids, Issued

\* A step after which the same calls wait.
LEMMA SlotsKept ==
  ASSUME AskAssumption, Apart, ActorsTyped, RegistryTyped, Slots,
         UNCHANGED <<plan, slots, corr>>, \A c \in Call : Waiting(c)' <=> Waiting(c)
  PROVE  Slots'
<1>1. ASSUME NEW k \in Range(Core), NEW s \in slots[k] PROVE SlotIsLive(k, s)'
  <2>1. s[2] \in Call
    BY <1>1 DEF RegistryTyped
  <2> QED
    BY <2>1, PlanStays DEF Slots, SlotIsLive
<1> QED
  BY <1>1, PlanStays DEF Slots

\* The call c stops waiting and its slot goes, as Ends() does it.
LEMMA SlotsLeave ==
  ASSUME AskAssumption, Apart, ActorsTyped, RegistryTyped, Slots, Ids, Phases,
         UNCHANGED <<plan, corr>>, NEW c \in Call, pc[c] # "idle",
         slots' = [slots EXCEPT ![Core[Owner(c)]] = {s \in @ : s[1] # corr[c]}],
         ~Waiting(c)', \A d \in Call \ {c} : pc'[d] = pc[d]
  PROVE  Slots'
<1> DEFINE k == Core[Owner(c)]
<1>1. Owner(c) \in Actor /\ k \in Range(Core)
  BY PlanFacts DEF ActorsTyped
<1>2. slots'[k] = {s \in slots[k] : s[1] # corr[c]} /\ \A j \in Range(Core) \ {k} : slots'[j] = slots[j]
  BY <1>1 DEF RegistryTyped
<1>3. ASSUME NEW d \in Call, d # c PROVE Waiting(d)' <=> Waiting(d)
  BY <1>3, PlanStays DEF Waiting
<1>4. ASSUME NEW j \in Range(Core), NEW s \in slots'[j] PROVE SlotIsLive(j, s)'
  <2>1. s \in slots[j]
    BY <1>2
  <2>2. s[2] \in Call /\ SlotIsLive(j, s)
    BY <2>1 DEF RegistryTyped, Slots
  <2>3. s[2] # c
    BY <1>2, <2>2 DEF SlotIsLive
  <2> QED
    BY <2>2, <2>3, <1>3, PlanStays DEF SlotIsLive
<1>5. ASSUME NEW d \in Call, Waiting(d)' PROVE <<corr'[d], d>> \in slots'[Core[Owner(d)']]
  <2>1. d # c /\ Waiting(d)
    BY <1>3, <1>5
  <2>2. <<corr[d], d>> \in slots[Core[Owner(d)]] /\ Core[Owner(d)] \in Range(Core)
    BY <2>1, PlanFacts DEF Slots, ActorsTyped
  <2>3. corr[d] # <<0, 0>>
    BY <2>1 DEF Phases, Phase, Waiting
  <2>4. corr[d] # corr[c]
    BY <2>1, <2>3 DEF Ids
  <2>5. <<corr[d], d>>[1] # corr[c]
    BY <2>4
  <2> QED
    BY <1>2, <2>2, <2>5, PlanStays
<1> QED
  BY <1>4, <1>5 DEF Slots

(* The call c gets a new id, and waits under it or is over.                *)
NewId(c) == ask_next_id(Owner(c))

Asks(c) ==
    /\ UNCHANGED plan
    /\ counter' = [counter EXCEPT ![Core[Owner(c)]] = @ + 1]
    /\ corr' = [corr EXCEPT ![c] = NewId(c)]
    /\ ~Waiting(c) /\ \A d \in Call \ {c} : pc'[d] = pc[d]
    /\ \/ slots' = slots /\ ~Waiting(c)'
       \/ slots' = [slots EXCEPT ![Core[Owner(c)]] = @ \union {<<NewId(c), c>>}] /\ Waiting(c)'

\* Salts of different cores differ.
LEMMA SameNumber ==
  ASSUME NEW i \in Nat, NEW j \in Nat, i + 1 = j + 1
  PROVE  i = j
OBVIOUS

\* The new id is nobody's.
LEMMA NewIdIsNew ==
  ASSUME AskAssumption, Apart, ActorsTyped, RegistryTyped, Ids, NEW c \in Call, Asks(c)
  PROVE  /\ RegistryTyped' /\ Ids'
         /\ NewId(c) \in Nat \X Nat /\ NewId(c) # <<0, 0>> /\ corr'[c] = NewId(c)
         /\ NewId(c)[1] = Core[Owner(c)] + 1
         /\ NewId(c)[2] = counter[Core[Owner(c)]] + 1
         /\ \A d \in Call : corr[d] # NewId(c) /\ (d # c => corr'[d] = corr[d])
         /\ counter'[Core[Owner(c)]] = counter[Core[Owner(c)]] + 1
         /\ \A k \in Range(Core) : counter[k] <= counter'[k]
<1> DEFINE k == Core[Owner(c)]
           id == NewId(c)
<1>1. Owner(c) \in Actor /\ k \in Range(Core) /\ k \in Nat
  BY PlanFacts DEF ActorsTyped
<1>2. counter[k] \in Nat
  BY <1>1 DEF RegistryTyped
<1>3. id = <<k + 1, counter[k] + 1>> /\ id \in Nat \X Nat
  BY <1>1, <1>2 DEF NewId, ask_next_id
<1>4. counter' \in [Range(Core) -> Nat] /\ counter'[k] = counter[k] + 1
  BY <1>1, <1>2 DEF Asks, RegistryTyped
<1>5. \A j \in Range(Core) : counter[j] <= counter'[j]
  BY <1>1, <1>2 DEF Asks, RegistryTyped
<1>6. corr' \in [Call -> Nat \X Nat] /\ corr'[c] = id /\ \A d \in Call \ {c} : corr'[d] = corr[d]
  BY <1>3 DEF Asks, RegistryTyped
<1> HIDE DEF id
<1>7. ASSUME NEW d \in Call PROVE corr[d] # id
  <2>1. Core[Owner(d)] \in Range(Core) /\ Core[Owner(d)] \in Nat
    BY PlanFacts DEF ActorsTyped
  <2>2. corr[d] = <<0, 0>> \/ (corr[d][1] = Core[Owner(d)] + 1 /\ corr[d][2] \in 1..counter[Core[Owner(d)]])
    BY DEF Ids, Issued
  <2>3. id[1] = k + 1 /\ id[2] = counter[k] + 1
    BY <1>3
  <2>4. CASE corr[d] = <<0, 0>>
    <3>1. corr[d][2] = 0
      BY <2>4
    <3> QED
      BY <2>3, <3>1, <1>2
  <2>5. CASE corr[d][1] = Core[Owner(d)] + 1 /\ corr[d][2] \in 1..counter[Core[Owner(d)]]
    <3>1. SUFFICES ASSUME corr[d] = id PROVE FALSE
      OBVIOUS
    <3>2. Core[Owner(d)] + 1 = k + 1
      BY <2>3, <2>5, <3>1
    <3>3. Core[Owner(d)] = k
      BY <2>1, <1>1, <3>2, SameNumber
    <3> QED
      BY <3>3, <3>1, <2>3, <2>5, <1>2
  <2> QED
    BY <2>2, <2>4, <2>5
<1>8. slots' \in [Range(Core) -> SUBSET ((Nat \X Nat) \X Call)]
  <2>1. <<id, c>> \in (Nat \X Nat) \X Call
    BY <1>3 DEF id
  <2>2. CASE slots' = slots
    BY <2>2 DEF RegistryTyped
  <2>3. CASE slots' = [slots EXCEPT ![k] = @ \union {<<id, c>>}]
    BY <2>1, <2>3, <1>1 DEF RegistryTyped
  <2> QED
    BY <2>2, <2>3 DEF Asks, id
<1>9. ASSUME NEW d \in Call PROVE Issued(d)'
  <2>1. plan' = plan /\ Owner(d)' = Owner(d) /\ Owner(c)' = Owner(c)
    BY PlanStays DEF Asks
  <2>2. CASE d = c
    <3>1. corr'[c][1] = k + 1 /\ corr'[c][2] = counter'[k]
      BY <1>3, <1>4, <1>6 DEF id
    <3>2. counter'[k] \in 1..counter'[k]
      BY <1>2, <1>4
    <3> QED
      BY <2>1, <2>2, <3>1, <3>2 DEF Issued
  <2>3. CASE d # c
    <3>1. corr'[d] = corr[d]
      BY <2>3, <1>6
    <3>2. Core[Owner(d)] \in Range(Core)
      BY PlanFacts DEF ActorsTyped
    <3>3. counter[Core[Owner(d)]] \in Nat /\ counter'[Core[Owner(d)]] \in Nat
          /\ counter[Core[Owner(d)]] <= counter'[Core[Owner(d)]]
      BY <3>2, <1>4, <1>5 DEF RegistryTyped
    <3>4. Issued(d)
      BY DEF Ids
    <3> QED
      BY <2>1, <3>1, <3>3, <3>4 DEF Issued
  <2> QED
    BY <2>2, <2>3
<1>10. \A d, e \in Call : corr'[d] = corr'[e] => d = e \/ corr'[d] = <<0, 0>>
  BY <1>6, <1>7 DEF Ids
<1>11. id # <<0, 0>>
  BY <1>2, <1>3 DEF id
<1> QED
  BY <1>3, <1>4, <1>5, <1>6, <1>7, <1>8, <1>9, <1>10, <1>11 DEF RegistryTyped, Ids, id

\* It is entered for the call that has it.
LEMMA SlotsAsk ==
  ASSUME AskAssumption, Apart, ActorsTyped, RegistryTyped, Ids, Slots, NEW c \in Call, Asks(c)
  PROVE  Slots'
<1> DEFINE k == Core[Owner(c)]
           id == NewId(c)
<1>1. Owner(c) \in Actor /\ k \in Range(Core)
  BY PlanFacts DEF ActorsTyped
<1>2. id \in Nat \X Nat /\ corr'[c] = id /\ \A d \in Call : corr[d] # id /\ (d # c => corr'[d] = corr[d])
  BY NewIdIsNew
<1> HIDE DEF id
<1>3. plan' = plan
  BY DEF Asks
<1>4. ASSUME NEW d \in Call, d # c PROVE Waiting(d)' <=> Waiting(d)
  BY <1>3, <1>4, PlanStays DEF Waiting, Asks
<1>5. /\ \A j \in Range(Core) : slots[j] \subseteq slots'[j]
      /\ \A j \in Range(Core) : \A s \in slots'[j] :
            s \in slots[j] \/ (j = k /\ s = <<id, c>> /\ Waiting(c)')
      /\ Waiting(c)' => <<id, c>> \in slots'[k]
  <2>1. CASE slots' = slots /\ ~Waiting(c)'
    BY <2>1
  <2>2. CASE slots' = [slots EXCEPT ![k] = @ \union {<<id, c>>}] /\ Waiting(c)'
    BY <2>2, <1>1 DEF RegistryTyped
  <2> QED
    BY <2>1, <2>2 DEF Asks, id
<1>6. ASSUME NEW j \in Range(Core), NEW s \in slots'[j] PROVE SlotIsLive(j, s)'
  <2>1. CASE s \in slots[j]
    <3>1. s[2] \in Call /\ SlotIsLive(j, s)
      BY <2>1 DEF RegistryTyped, Slots
    <3>2. s[2] # c
      BY <3>1 DEF SlotIsLive, Asks
    <3> QED
      BY <3>1, <3>2, <1>2, <1>3, <1>4, PlanStays DEF SlotIsLive
  <2>2. CASE j = k /\ s = <<id, c>> /\ Waiting(c)'
    BY <2>2, <1>2, <1>3, PlanStays DEF SlotIsLive
  <2> QED
    BY <2>1, <2>2, <1>5
<1>7. ASSUME NEW d \in Call, Waiting(d)' PROVE <<corr'[d], d>> \in slots'[Core[Owner(d)']]
  <2>1. CASE d = c
    BY <2>1, <1>2, <1>3, <1>5, <1>7, PlanStays
  <2>2. CASE d # c
    <3>1. <<corr[d], d>> \in slots[Core[Owner(d)]] /\ Core[Owner(d)] \in Range(Core)
      BY <2>2, <1>4, <1>7, PlanFacts DEF Slots, ActorsTyped
    <3> QED
      BY <2>2, <3>1, <1>2, <1>3, <1>5, PlanStays
  <2> QED
    BY <2>1, <2>2
<1> QED
  BY <1>6, <1>7 DEF Slots

-----------------------------------------------------------------------------
(* What is common to the steps of a call *)

(* The request a call sends.                                               *)
Request(c, n) == [corr |-> NewId(c), call |-> c, key |-> <<c, n>>, resp |-> 0, end |-> FALSE]

\* ask() takes an id, sends the request and leaves the call waiting or over.
LEMMA AskShape ==
  ASSUME AskAssumption, Apart, ActorsTyped, RegistryTyped, CallsTyped, NetTyped,
         NEW c \in Call, NEW n \in 1..Rounds, NEW x \in BOOLEAN, Ask(c, n, x),
         UNCHANGED plan, ~Waiting(c)
  PROVE  /\ Asks(c) /\ NetTyped' /\ Request(c, n) \in Message
         /\ net' = [net EXCEPT ![<<Owner(c), Target(c)>>] = Append(@, Request(c, n))]
         /\ pc' \in [Call -> {"idle", "parked", "woken", "reading", "backoff", "ended"}]
         /\ out' \in [Call -> {"none", "pending", "ok", "timed_out", "cancelled", "circuit_open",
                         "eof", "overflow", "destroyed"}]
         /\ timer' \in [Call -> BOOLEAN]
         /\ out'[c] \in {"pending", "cancelled"} /\ \A d \in Call \ {c} : out'[d] = out[d]
         /\ pc'[c] # "idle" /\ pc'[c] # "backoff" /\ (pc'[c] = "reading" => Kind(c) = "stream")
<1>1. /\ Owner(c) \in Actor /\ Target(c) \in Actor /\ Core[Owner(c)] \in Range(Core)
      /\ Core[Owner(c)] \in Nat
  BY PlanFacts DEF ActorsTyped
<1>2. NewId(c) \in Nat \X Nat
  BY <1>1 DEF NewId, ask_next_id, RegistryTyped
<1>3. Request(c, n) \in Message
  BY <1>2 DEF Request, Message, Keys
<1>4. net' = [net EXCEPT ![<<Owner(c), Target(c)>>] = Append(@, Request(c, n))]
  BY DEF Ask, Send, Request, NewId
<1>5. NetTyped'
  BY <1>1, <1>3, <1>4 DEF NetTyped
<1>6. /\ counter' = [counter EXCEPT ![Core[Owner(c)]] = @ + 1]
      /\ corr' = [corr EXCEPT ![c] = NewId(c)]
  BY DEF Ask, NewId
<1>7. CASE x
  <2>1. /\ pc' = [pc EXCEPT ![c] = "ended"] /\ out' = [out EXCEPT ![c] = "cancelled"]
        /\ timer' = [timer EXCEPT ![c] = FALSE] /\ slots' = slots
    BY <1>7 DEF Ask
  <2>2. pc'[c] = "ended" /\ \A d \in Call \ {c} : pc'[d] = pc[d]
    BY <2>1 DEF CallsTyped
  <2>3. ~Waiting(c)'
    BY <2>2 DEF Waiting
  <2>4. Asks(c)
    BY <1>6, <2>1, <2>2, <2>3 DEF Asks
  <2> QED
    BY <1>3, <1>4, <1>5, <2>1, <2>2, <2>4 DEF CallsTyped
<1>8. CASE ~x
  <2>1. PICK p \in {"reading", "parked"} : p = (IF Kind(c) = "stream" THEN "reading" ELSE "parked")
    OBVIOUS
  <2>2. /\ pc' = [pc EXCEPT ![c] = p] /\ out' = [out EXCEPT ![c] = "pending"]
        /\ timer' = [timer EXCEPT ![c] = Kind(c) # "stream"]
        /\ slots' = [slots EXCEPT ![Core[Owner(c)]] = @ \union {<<NewId(c), c>>}]
    BY <1>8, <2>1 DEF Ask, NewId
  <2>3. pc'[c] = p /\ \A d \in Call \ {c} : pc'[d] = pc[d]
    BY <2>2 DEF CallsTyped
  <2>4. Waiting(c)'
    BY <2>1, <2>3, PlanStays DEF Waiting
  <2>5. Asks(c)
    BY <1>6, <2>2, <2>3, <2>4 DEF Asks
  <2> QED
    BY <1>3, <1>4, <1>5, <2>1, <2>2, <2>3, <2>5 DEF CallsTyped
<1> QED
  BY <1>7, <1>8

\* Ends(): the call is over and out of the registry.
LEMMA EndsShape ==
  ASSUME AskAssumption, Apart, ActorsTyped, RegistryTyped, CallsTyped,
         NEW c \in Call, NEW how \in {"none", "pending", "ok", "timed_out", "cancelled", "circuit_open",
                         "eof", "overflow", "destroyed"}, Ends(c, how), UNCHANGED <<plan, corr, counter>>
  PROVE  /\ RegistryTyped'
         /\ pc' \in [Call -> {"idle", "parked", "woken", "reading", "backoff", "ended"}]
         /\ out' \in [Call -> {"none", "pending", "ok", "timed_out", "cancelled", "circuit_open",
                         "eof", "overflow", "destroyed"}]
         /\ timer' \in [Call -> BOOLEAN]
         /\ slots' = [slots EXCEPT ![Core[Owner(c)]] = {s \in @ : s[1] # corr[c]}]
         /\ pc'[c] = "ended" /\ ~Waiting(c)' /\ \A d \in Call \ {c} : pc'[d] = pc[d]
         /\ out'[c] = how /\ \A d \in Call \ {c} : out'[d] = out[d]
<1>1. Owner(c) \in Actor /\ Core[Owner(c)] \in Range(Core)
  BY PlanFacts DEF ActorsTyped
<1>2. slots' \in [Range(Core) -> SUBSET ((Nat \X Nat) \X Call)]
  BY <1>1 DEF Ends, RegistryTyped
<1>3. RegistryTyped'
  BY <1>2 DEF RegistryTyped
<1>4. pc'[c] = "ended" /\ \A d \in Call \ {c} : pc'[d] = pc[d]
  BY DEF Ends, CallsTyped
<1>5. ~Waiting(c)'
  BY <1>4 DEF Waiting
<1> QED
  BY <1>3, <1>4, <1>5 DEF Ends, CallsTyped

Breaker == [state : {"closed", "open", "half_open"}, failures : 0..Threshold, cooled : BOOLEAN]

\* The breaker's operations give a breaker.
LEMMA BreakerOps ==
  ASSUME AskAssumption, NEW b \in Breaker
  PROVE  /\ on_success(b) \in Breaker /\ on_failure(b) \in Breaker
         /\ on_abandoned(b) \in Breaker /\ Admitted(b) \in Breaker
<1>1. Threshold \in Nat \ {0}
  BY Bounds
<1>2. ASSUME NEW d \in Breaker PROVE Opened(d) \in Breaker
  BY DEF Opened, Breaker
<1>3. [b EXCEPT !.failures = Threshold] \in Breaker
  BY <1>1 DEF Breaker
<1>4. b.failures + 1 < Threshold => [b EXCEPT !.failures = @ + 1] \in Breaker
  <2>1. b.failures \in 0..Threshold
    BY DEF Breaker
  <2>2. b.failures + 1 < Threshold => b.failures + 1 \in 0..Threshold
    BY <1>1, <2>1
  <2> QED
    BY <2>2 DEF Breaker
<1>5. on_failure(b) \in Breaker
  <2>1. b.failures \in Nat
    BY <1>1 DEF Breaker
  <2> QED
    BY <1>1, <1>2, <1>3, <1>4, <2>1 DEF on_failure
<1>6. on_abandoned(b) \in Breaker
  BY <1>2 DEF on_abandoned
<1>7. on_success(b) \in Breaker
  <2>1. 0 \in 0..Threshold
    BY <1>1
  <2> QED
    BY <2>1 DEF on_success, Breaker
<1>8. Admitted(b) \in Breaker
  BY DEF Admitted, Breaker
<1> QED
  BY <1>5, <1>6, <1>7, <1>8

\* A call about which a step changes nothing.
LEMMA PhaseKept ==
  ASSUME UNCHANGED plan, NEW d \in Call, Phase(d),
         pc'[d] = pc[d], corr'[d] = corr[d], round'[d] = round[d], attempt'[d] = attempt[d],
         born'[d] = born[d], kills'[Owner(d)] = kills[Owner(d)]
  PROVE  Phase(d)'
BY PlanStays DEF Phase

Base == Types /\ Ids /\ Slots /\ Phases

\* Begin(): the next call starts.
LEMMA BaseBegin ==
  ASSUME AskAssumption, Apart, Base, NEW c \in Call, Begin(c)
  PROVE  Base'
<1>0. /\ ActorsTyped /\ RegistryTyped /\ CallsTyped /\ StreamsTyped
      /\ BreakerTyped /\ NetTyped /\ AnswersTyped /\ Ids /\ Slots /\ Phases
  BY DEF Base, Types
<1>1. /\ plan' = plan /\ status' = status /\ kills' = kills
      /\ cache' = cache /\ ran' = ran /\ serving' = serving
  BY DEF Begin, answers
<1>2. /\ Owner(c) \in Actor /\ Core[Owner(c)] \in Range(Core)
      /\ plan[c].rounds \in Nat /\ plan[c].rounds <= Rounds
  BY <1>0, PlanFacts DEF ActorsTyped
<1>3. round[c] \in Nat /\ round[c] < plan[c].rounds /\ round[c] + 1 \in 1..Rounds /\ Rounds \in Nat
  BY <1>0, <1>2, Bounds DEF CallsTyped, Begin
<1>4. round' \in [Call -> 0..Rounds] /\ round'[c] \in 1..Rounds /\ \A d \in Call \ {c} : round'[d] = round[d]
  <2>1. round' = [round EXCEPT ![c] = round[c] + 1]
    BY DEF Begin
  <2>2. round[c] + 1 \in 0..Rounds
    BY <1>3
  <2> QED
    BY <1>0, <1>3, <2>1, <2>2 DEF CallsTyped
<1>5. born' \in [Call -> Nat] /\ born'[c] = kills[Owner(c)] /\ \A d \in Call \ {c} : born'[d] = born[d]
  <2>1. kills[Owner(c)] \in Nat
    BY <1>0, <1>2 DEF ActorsTyped
  <2> QED
    BY <1>0, <2>1 DEF Begin, CallsTyped
<1>6. attempt' \in [Call -> 0..Attempts] /\ attempt'[c] = 1 /\ \A d \in Call \ {c} : attempt'[d] = attempt[d]
  BY <1>0, Bounds DEF Begin, CallsTyped
<1>7. reply' \in [Call -> Message \cup {NoReply}]
  BY <1>0 DEF Begin, CallsTyped
<1>8. StreamsTyped'
  <2>1. NoStream \in Stream /\ Len(NoStream.queue) = 0 /\ StreamCap \in Nat
    BY Bounds DEF NoStream, Stream
  <2>2. stream' = [stream EXCEPT ![c] = NoStream] /\ got' = [got EXCEPT ![c] = <<>>]
    BY DEF Begin
  <2>3. \A d \in Call : Len(stream'[d].queue) <= StreamCap
    BY <1>0, <2>1, <2>2 DEF StreamsTyped
  <2> QED
    BY <1>0, <2>1, <2>2, <2>3 DEF StreamsTyped
<1>9. ActorsTyped' /\ AnswersTyped'
  BY <1>0, <1>1 DEF ActorsTyped, AnswersTyped
<1>10. breaker \in Breaker
  BY <1>0 DEF BreakerTyped, Breaker
<1>11. ~Waiting(c)
  BY <1>0, <1>2 DEF Begin, Waiting
<1>12. CASE Kind(c) = "guarded" /\ ~allow(breaker)
  <2>1. /\ pc' = [pc EXCEPT ![c] = "ended"] /\ out' = [out EXCEPT ![c] = "circuit_open"]
        /\ UNCHANGED <<counter, slots, net, corr, timer, breaker>>
    BY <1>12 DEF Begin
  <2>2. pc'[c] = "ended" /\ \A d \in Call \ {c} : pc'[d] = pc[d]
    BY <1>0, <2>1 DEF CallsTyped
  <2>3. CallsTyped' /\ RegistryTyped' /\ BreakerTyped' /\ NetTyped'
    BY <1>0, <1>4, <1>5, <1>6, <1>7, <2>1 DEF CallsTyped, RegistryTyped, BreakerTyped, NetTyped
  <2>4. \A d \in Call : Waiting(d)' <=> Waiting(d)
    BY <1>1, <1>11, <2>2, PlanStays DEF Waiting
  <2>5. Slots'
    BY <1>0, <1>1, <2>1, <2>4, SlotsKept
  <2>6. Ids'
    BY <1>0, <1>1, <2>1, IdsKept
  <2>7. Phase(c)'
    <3>1. born'[c] <= kills'[Owner(c)']
      BY <1>0, <1>1, <1>2, <1>5, PlanStays DEF ActorsTyped
    <3> QED
      BY <2>2, <1>4, <3>1 DEF Phase
  <2>8. \A d \in Call \ {c} : Phase(d)'
    BY <1>0, <1>1, <1>4, <1>5, <1>6, <2>1, <2>2, PhaseKept DEF Phases
  <2> QED
    BY <1>8, <1>9, <2>3, <2>5, <2>6, <2>7, <2>8 DEF Base, Types, Phases
<1>13. CASE ~(Kind(c) = "guarded" /\ ~allow(breaker))
  <2>1. Ask(c, round[c] + 1, status[Owner(c)] # "alive")
    BY <1>13 DEF Begin
  <2>2. PICK x \in BOOLEAN : Ask(c, round[c] + 1, x)
    BY <2>1
  <2>3. PICK n \in 1..Rounds : Ask(c, n, x)
    BY <1>3, <2>2
  <2>4. /\ Asks(c) /\ NetTyped'
        /\ pc' \in [Call -> {"idle", "parked", "woken", "reading", "backoff", "ended"}]
        /\ out' \in [Call -> {"none", "pending", "ok", "timed_out", "cancelled", "circuit_open",
                         "eof", "overflow", "destroyed"}]
        /\ timer' \in [Call -> BOOLEAN]
        /\ pc'[c] # "idle" /\ pc'[c] # "backoff" /\ (pc'[c] = "reading" => Kind(c) = "stream")
    BY <1>0, <1>1, <1>11, <2>3, AskShape
  <2>5. CallsTyped'
    BY <1>4, <1>5, <1>6, <1>7, <2>4 DEF CallsTyped
  <2>6. /\ RegistryTyped' /\ Ids' /\ corr'[c] # <<0, 0>>
        /\ \A d \in Call \ {c} : corr'[d] = corr[d]
    BY <1>0, <2>4, NewIdIsNew
  <2>7. Slots'
    BY <1>0, <2>4, SlotsAsk
  <2>8. BreakerTyped'
    <3>1. PICK b \in Breaker : b = (IF Kind(c) = "guarded" THEN Admitted(breaker) ELSE breaker)
      BY <1>10, BreakerOps
    <3>2. breaker' = IF Kind(c) = "guarded" /\ status[Owner(c)] # "alive" THEN on_abandoned(b) ELSE b
      BY <1>13, <3>1 DEF Begin
    <3>3. breaker' \in Breaker
      BY <3>2, BreakerOps
    <3> QED
      BY <3>3 DEF BreakerTyped, Breaker
  <2>9. Phase(c)'
    <3>1. born'[c] <= kills'[Owner(c)']
      BY <1>0, <1>1, <1>2, <1>5, PlanStays DEF ActorsTyped
    <3> QED
      BY <1>1, <1>4, <2>4, <2>6, <3>1, PlanStays DEF Phase
  <2>10. \A d \in Call \ {c} : pc'[d] = pc[d]
    BY <2>4 DEF Asks
  <2>11. \A d \in Call \ {c} : Phase(d)'
    BY <1>0, <1>1, <1>4, <1>5, <1>6, <2>6, <2>10, PhaseKept DEF Phases
  <2> QED
    BY <1>8, <1>9, <2>4, <2>5, <2>6, <2>7, <2>8, <2>9, <2>11 DEF Base, Types, Phases
<1> QED
  BY <1>12, <1>13

Outcomes == {"none", "pending", "ok", "timed_out", "cancelled", "circuit_open",
             "eof", "overflow", "destroyed"}

\* A step of the call c that starts no round and sends nothing.
LEMMA BaseOne ==
  ASSUME Base, NEW c \in Call,
         UNCHANGED <<plan, status, kills, counter, net, born, round, corr, answers>>,
         CallsTyped', StreamsTyped', BreakerTyped', RegistryTyped', Slots', Phase(c)',
         \A d \in Call \ {c} : pc'[d] = pc[d] /\ attempt'[d] = attempt[d]
  PROVE  Base'
<1>1. ActorsTyped' /\ NetTyped' /\ AnswersTyped'
  BY DEF Base, Types, ActorsTyped, NetTyped, AnswersTyped, answers
<1>2. Ids'
  BY IdsKept DEF Base
<1>3. \A d \in Call \ {c} : Phase(d)'
  BY PhaseKept DEF Base, Phases
<1> QED
  BY <1>1, <1>2, <1>3 DEF Base, Types, Phases

\* The call c ends.
LEMMA BaseEnds ==
  ASSUME AskAssumption, Apart, Base, NEW c \in Call, NEW how \in Outcomes, Ends(c, how),
         UNCHANGED <<plan, status, kills, counter, net, born, round, attempt, corr, reply, streams, answers>>,
         BreakerTyped', pc[c] # "idle"
  PROVE  Base'
<1>0. /\ ActorsTyped /\ RegistryTyped /\ CallsTyped /\ StreamsTyped /\ Ids /\ Slots /\ Phases
  BY DEF Base, Types
<1>1. /\ RegistryTyped'
      /\ pc' \in [Call -> {"idle", "parked", "woken", "reading", "backoff", "ended"}]
      /\ out' \in [Call -> Outcomes]
      /\ timer' \in [Call -> BOOLEAN]
      /\ slots' = [slots EXCEPT ![Core[Owner(c)]] = {s \in @ : s[1] # corr[c]}]
      /\ pc'[c] = "ended" /\ ~Waiting(c)' /\ \A d \in Call \ {c} : pc'[d] = pc[d]
  BY <1>0, EndsShape DEF Outcomes
<1>2. Slots'
  BY <1>0, <1>1, SlotsLeave
<1>3. CallsTyped'
  BY <1>0, <1>1 DEF CallsTyped, Outcomes
<1>4. StreamsTyped'
  BY <1>0 DEF StreamsTyped, streams
<1>5. Phase(c)'
  BY <1>0, <1>1, PlanStays DEF Phases, Phase
<1> QED
  BY <1>1, <1>2, <1>3, <1>4, <1>5, BaseOne

\* ResumeAsk(): the result, or the sleep before another attempt.
LEMMA BaseResumeAsk ==
  ASSUME AskAssumption, Apart, Base, NEW c \in Call, ResumeAsk(c)
  PROVE  Base'
<1>0. /\ ActorsTyped /\ RegistryTyped /\ CallsTyped /\ StreamsTyped /\ BreakerTyped /\ Ids /\ Slots /\ Phases
  BY DEF Base, Types
<1>1. /\ UNCHANGED <<plan, status, kills, counter, net, born, round, attempt, corr, reply, streams, answers>>
      /\ pc[c] = "woken" /\ out[c] \in Outcomes
  BY <1>0 DEF ResumeAsk, CallsTyped, Outcomes
<1>2. CASE Kind(c) = "retry" /\ out[c] = "timed_out" /\ attempt[c] < Attempts
  <2>1. /\ pc' = [pc EXCEPT ![c] = "backoff"] /\ timer' = [timer EXCEPT ![c] = FALSE]
        /\ slots' = [slots EXCEPT ![Core[Owner(c)]] = {s \in @ : s[1] # corr[c]}]
        /\ UNCHANGED <<out, breaker>>
    BY <1>2 DEF ResumeAsk
  <2>2. pc'[c] = "backoff" /\ \A d \in Call \ {c} : pc'[d] = pc[d]
    BY <1>0, <2>1 DEF CallsTyped
  <2>3. ~Waiting(c)'
    BY <2>2 DEF Waiting
  <2>4. Slots'
    BY <1>0, <1>1, <2>1, <2>2, <2>3, SlotsLeave
  <2>5. RegistryTyped'
    <3>1. Core[Owner(c)] \in Range(Core)
      BY <1>0, PlanFacts DEF ActorsTyped
    <3> QED
      BY <1>0, <1>1, <2>1, <3>1 DEF RegistryTyped
  <2>6. CallsTyped' /\ StreamsTyped' /\ BreakerTyped'
    BY <1>0, <1>1, <2>1 DEF CallsTyped, StreamsTyped, BreakerTyped, streams
  <2>7. Phase(c)'
    BY <1>0, <1>1, <1>2, <2>2, PlanStays DEF Phases, Phase
  <2> QED
    BY <1>1, <2>2, <2>4, <2>5, <2>6, <2>7, BaseOne
<1>3. CASE ~(Kind(c) = "retry" /\ out[c] = "timed_out" /\ attempt[c] < Attempts)
  <2>1. Ends(c, out[c]) /\ Report(c, out[c])
    BY <1>3 DEF ResumeAsk
  <2>2. breaker' \in Breaker
    BY <1>0, <2>1, BreakerOps DEF Report, BreakerTyped, Breaker
  <2>3. BreakerTyped'
    BY <2>2 DEF BreakerTyped, Breaker
  <2> QED
    BY <1>1, <2>1, <2>3, BaseEnds
<1> QED
  BY <1>2, <1>3

\* BackoffEnds(): another attempt, or the kill.
LEMMA BaseBackoff ==
  ASSUME AskAssumption, Apart, Base, NEW c \in Call, BackoffEnds(c)
  PROVE  Base'
<1>0. /\ ActorsTyped /\ RegistryTyped /\ CallsTyped /\ StreamsTyped /\ BreakerTyped /\ NetTyped /\ AnswersTyped
      /\ Ids /\ Slots /\ Phases
  BY DEF Base, Types
<1>1. /\ UNCHANGED <<plan, status, kills, born, round, reply, streams, breaker, answers>>
      /\ pc[c] = "backoff"
  BY DEF BackoffEnds
<1>2. CASE Cancelled(c)
  <2>1. Ends(c, "cancelled") /\ UNCHANGED <<counter, net, corr, attempt>>
    BY <1>2 DEF BackoffEnds
  <2>2. BreakerTyped'
    BY <1>0, <1>1 DEF BreakerTyped
  <2>3. "cancelled" \in Outcomes
    BY DEF Outcomes
  <2>4. UNCHANGED <<plan, status, kills, counter, net, born, round, attempt, corr, reply, streams, answers>>
    BY <1>1, <2>1
  <2>5. pc[c] # "idle"
    BY <1>1
  <2> QED
    BY <2>1, <2>2, <2>3, <2>4, <2>5, BaseEnds
<1>3. CASE ~Cancelled(c)
  <2>1. Ask(c, round[c], FALSE) /\ attempt' = [attempt EXCEPT ![c] = @ + 1]
    BY <1>3 DEF BackoffEnds
  <2>2. ~Waiting(c) /\ round[c] \in 1..Rounds /\ attempt[c] < Attempts
    BY <1>0, <1>1 DEF Waiting, Phases, Phase
  <2>3. /\ Asks(c) /\ NetTyped'
        /\ pc' \in [Call -> {"idle", "parked", "woken", "reading", "backoff", "ended"}]
        /\ out' \in [Call -> Outcomes]
        /\ timer' \in [Call -> BOOLEAN]
        /\ pc'[c] # "idle" /\ pc'[c] # "backoff" /\ (pc'[c] = "reading" => Kind(c) = "stream")
    BY <1>0, <1>1, <2>1, <2>2, AskShape DEF Outcomes
  <2>4. attempt' \in [Call -> 0..Attempts] /\ \A d \in Call \ {c} : attempt'[d] = attempt[d]
    <3>1. attempt[c] + 1 \in 0..Attempts
      BY <1>0, <2>2, Bounds DEF CallsTyped
    <3> QED
      BY <1>0, <2>1, <3>1 DEF CallsTyped
  <2>5. CallsTyped'
    BY <1>0, <1>1, <2>3, <2>4 DEF CallsTyped, Outcomes
  <2>6. /\ RegistryTyped' /\ Ids' /\ corr'[c] # <<0, 0>>
        /\ \A d \in Call \ {c} : corr'[d] = corr[d]
    BY <1>0, <2>3, NewIdIsNew
  <2>7. Slots'
    BY <1>0, <2>3, SlotsAsk
  <2>8. ActorsTyped' /\ AnswersTyped' /\ StreamsTyped' /\ BreakerTyped'
    BY <1>0, <1>1 DEF ActorsTyped, AnswersTyped, StreamsTyped, BreakerTyped, answers, streams
  <2>9. Phase(c)'
    BY <1>0, <1>1, <2>2, <2>3, <2>6, PlanStays DEF Phases, Phase
  <2>10. \A d \in Call \ {c} : pc'[d] = pc[d]
    BY <2>3 DEF Asks
  <2>11. \A d \in Call \ {c} : Phase(d)'
    BY <1>0, <1>1, <2>4, <2>6, <2>10, PhaseKept DEF Phases
  <2> QED
    BY <2>3, <2>5, <2>6, <2>7, <2>8, <2>9, <2>11 DEF Base, Types, Phases
<1> QED
  BY <1>2, <1>3

\* on_timeout(): a call that waits is woken.
LEMMA BaseTimeout ==
  ASSUME AskAssumption, Apart, Base, NEW c \in Call, on_timeout(c)
  PROVE  Base'
<1>0. /\ ActorsTyped /\ RegistryTyped /\ CallsTyped /\ StreamsTyped /\ BreakerTyped /\ Slots /\ Phases
  BY DEF Base, Types
<1>1. /\ UNCHANGED <<plan, status, kills, counter, slots, net, born, round, attempt, corr, reply, streams, breaker, answers>>
      /\ timer' = [timer EXCEPT ![c] = FALSE]
      /\ \/ pc[c] = "parked" /\ pc' = [pc EXCEPT ![c] = "woken"] /\ out' = [out EXCEPT ![c] = "timed_out"]
         \/ UNCHANGED <<pc, out>>
  BY DEF on_timeout
<1>2. CallsTyped' /\ StreamsTyped' /\ BreakerTyped' /\ RegistryTyped'
  BY <1>0, <1>1 DEF CallsTyped, StreamsTyped, BreakerTyped, RegistryTyped, streams
<1>3. /\ \A d \in Call \ {c} : pc'[d] = pc[d]
      /\ pc'[c] = pc[c] \/ (pc[c] = "parked" /\ pc'[c] = "woken")
  BY <1>0, <1>1 DEF CallsTyped
<1>4. \A d \in Call : Waiting(d)' <=> Waiting(d)
  BY <1>1, <1>3, PlanStays DEF Waiting
<1>5. Slots'
  BY <1>0, <1>1, <1>4, SlotsKept
<1>6. Phase(c)'
  BY <1>0, <1>1, <1>3, PlanStays DEF Phases, Phase
<1> QED
  BY <1>1, <1>2, <1>3, <1>5, <1>6, BaseOne

\* Take(): a chunk, or the end of the stream.
LEMMA BaseTake ==
  ASSUME AskAssumption, Apart, Base, NEW c \in Call, Take(c), Kind(c) = "stream",
         pc[c] \in {"reading", "woken"},
         UNCHANGED <<plan, status, kills, counter, net, born, round, attempt, corr, reply, breaker, answers>>
  PROVE  Base'
<1>0. /\ ActorsTyped /\ RegistryTyped /\ CallsTyped /\ StreamsTyped /\ BreakerTyped /\ Slots /\ Phases
  BY DEF Base, Types
<1>1. BreakerTyped'
  BY <1>0 DEF BreakerTyped
<1>2. CASE stream[c].queue # <<>>
  <2>1. /\ got' = [got EXCEPT ![c] = Append(@, Head(stream[c].queue))]
        /\ stream' = [stream EXCEPT ![c].queue = Tail(@)]
        /\ pc' = [pc EXCEPT ![c] = "reading"]
        /\ timer' = [timer EXCEPT ![c] = FALSE]
        /\ out' = [out EXCEPT ![c] = "pending"]
        /\ UNCHANGED slots
    BY <1>2 DEF Take
  <2>2. PICK r : r = stream[c]
    OBVIOUS
  <2>3. r \in Stream /\ r.queue # <<>> /\ r.queue \in Seq(Nat) /\ Len(r.queue) <= StreamCap
    BY <1>0, <1>2, <2>2 DEF StreamsTyped, Stream
  <2>4. Head(r.queue) \in Nat /\ Tail(r.queue) \in Seq(Nat) /\ Len(Tail(r.queue)) <= StreamCap
    BY <2>3, Bounds
  <2>5. stream' = [stream EXCEPT ![c] = [r EXCEPT !.queue = Tail(r.queue)]]
    BY <2>1, <2>2
  <2>6. PICK t : t = [r EXCEPT !.queue = Tail(r.queue)]
    OBVIOUS
  <2>7. t \in Stream /\ Len(t.queue) <= StreamCap
    BY <2>3, <2>4, <2>6 DEF Stream
  <2>8. StreamsTyped'
    <3>1. stream' \in [Call -> Stream] /\ \A d \in Call : Len(stream'[d].queue) <= StreamCap
      BY <1>0, <2>5, <2>6, <2>7 DEF StreamsTyped
    <3>2. got' \in [Call -> Seq(Nat)]
      BY <1>0, <2>1, <2>2, <2>4 DEF StreamsTyped
    <3> QED
      BY <3>1, <3>2 DEF StreamsTyped
  <2>9. CallsTyped' /\ RegistryTyped'
    BY <1>0, <2>1 DEF CallsTyped, RegistryTyped
  <2>10. pc'[c] = "reading" /\ \A d \in Call \ {c} : pc'[d] = pc[d]
    BY <1>0, <2>1 DEF CallsTyped
  <2>11. \A d \in Call : Waiting(d)' <=> Waiting(d)
    BY <2>10, PlanStays DEF Waiting
  <2>12. Slots'
    BY <1>0, <2>1, <2>11, SlotsKept
  <2>13. Phase(c)'
    BY <1>0, <2>10, PlanStays DEF Phases, Phase
  <2> QED
    BY <1>1, <2>8, <2>9, <2>10, <2>12, <2>13, BaseOne
<1>3. CASE stream[c].queue = <<>>
  <2>1. PICK how \in Outcomes : Ends(c, how) /\ UNCHANGED streams
    <3>1. out[c] \in Outcomes
      BY <1>0 DEF CallsTyped, Outcomes
    <3>2. PICK how : how = IF stream[c].dropped THEN "overflow" ELSE IF Cancelled(c) THEN "cancelled"
                           ELSE IF stream[c].done THEN "eof" ELSE out[c]
      OBVIOUS
    <3>3. how \in Outcomes
      BY <3>1, <3>2 DEF Outcomes
    <3> QED
      BY <1>3, <3>2, <3>3 DEF Take
  <2>2. pc[c] # "idle"
    OBVIOUS
  <2> QED
    BY <1>1, <2>1, <2>2, BaseEnds
<1> QED
  BY <1>2, <1>3

\* NextChunk(): next() takes what is there, or parks.
LEMMA BaseNextChunk ==
  ASSUME AskAssumption, Apart, Base, NEW c \in Call, NextChunk(c)
  PROVE  Base'
<1>0. /\ ActorsTyped /\ RegistryTyped /\ CallsTyped /\ StreamsTyped /\ BreakerTyped /\ Slots /\ Phases
  BY DEF Base, Types
<1>1. /\ UNCHANGED <<plan, status, kills, counter, net, born, round, attempt, corr, reply, breaker, answers>>
      /\ Kind(c) = "stream" /\ pc[c] = "reading"
  BY DEF NextChunk
<1>2. CASE Take(c)
  <2>1. pc[c] \in {"reading", "woken"}
    BY <1>1
  <2> QED
    BY <1>1, <1>2, <2>1, BaseTake
<1>3. CASE ~(stream[c].queue # <<>> \/ stream[c].done \/ Cancelled(c))
  <2>1. /\ pc' = [pc EXCEPT ![c] = "parked"] /\ timer' = [timer EXCEPT ![c] = TRUE]
        /\ UNCHANGED <<out, slots, streams>>
    BY <1>3 DEF NextChunk
  <2>2. CallsTyped' /\ StreamsTyped' /\ BreakerTyped' /\ RegistryTyped'
    BY <1>0, <1>1, <2>1 DEF CallsTyped, StreamsTyped, BreakerTyped, RegistryTyped, streams
  <2>3. pc'[c] = "parked" /\ \A d \in Call \ {c} : pc'[d] = pc[d]
    BY <1>0, <2>1 DEF CallsTyped
  <2>4. \A d \in Call : Waiting(d)' <=> Waiting(d)
    BY <1>1, <2>3, PlanStays DEF Waiting
  <2>5. Slots'
    BY <1>0, <1>1, <2>1, <2>4, SlotsKept
  <2>6. Phase(c)'
    BY <1>0, <1>1, <2>3, PlanStays DEF Phases, Phase
  <2> QED
    BY <1>1, <2>2, <2>3, <2>5, <2>6, BaseOne
<1> QED
  BY <1>2, <1>3 DEF NextChunk

\* ResumeNext(): a woken next().
LEMMA BaseResumeNext ==
  ASSUME AskAssumption, Apart, Base, NEW c \in Call, ResumeNext(c)
  PROVE  Base'
<1>1. /\ UNCHANGED <<plan, status, kills, counter, net, born, round, attempt, corr, reply, breaker, answers>>
      /\ Kind(c) = "stream" /\ pc[c] = "woken" /\ Take(c)
  BY DEF ResumeNext
<1>2. pc[c] \in {"reading", "woken"}
  BY <1>1
<1> QED
  BY <1>1, <1>2, BaseTake

\* Destroy(): the frame goes.
LEMMA BaseDestroy ==
  ASSUME AskAssumption, Apart, Base, NEW c \in Call, Destroy(c)
  PROVE  Base'
<1>1. /\ UNCHANGED <<plan, status, kills, counter, net, born, round, attempt, corr, reply, streams, breaker, answers>>
      /\ pc[c] # "idle" /\ Ends(c, "destroyed")
  BY DEF Destroy
<1>2. BreakerTyped'
  BY <1>1 DEF Base, Types, BreakerTyped
<1>3. "destroyed" \in Outcomes
  BY DEF Outcomes
<1> QED
  BY <1>1, <1>2, <1>3, BaseEnds

\* Counts of kills are numbers.
LEMMA BitsAreNumbers ==
  ASSUME NEW f \in [Actor -> 0..1]
  PROVE  \A b \in Actor : f[b] \in Nat
OBVIOUS

\* A step that wakes calls, and moves messages, actors or the breaker.
LEMMA BaseMail ==
  ASSUME AskAssumption, Apart, Base,
         UNCHANGED <<plan, counter, slots, born, round, attempt, corr>>,
         ActorsTyped', BreakerTyped', NetTyped', AnswersTyped', StreamsTyped', CallsTyped',
         \A a \in Actor : kills[a] <= kills'[a],
         \A d \in Call : pc'[d] = pc[d] \/ (pc[d] = "parked" /\ pc'[d] = "woken")
  PROVE  Base'
<1>0. /\ ActorsTyped /\ RegistryTyped /\ CallsTyped /\ Slots /\ Ids /\ Phases
  BY DEF Base, Types
<1>1. RegistryTyped'
  BY <1>0 DEF RegistryTyped
<1>2. \A d \in Call : Waiting(d)' <=> Waiting(d)
  BY PlanStays DEF Waiting
<1>3. Slots'
  BY <1>0, <1>2, SlotsKept
<1>4. Ids'
  BY <1>0, IdsKept
<1>5. ASSUME NEW d \in Call PROVE Phase(d)'
  <2>1. Owner(d) \in Actor /\ Phase(d)
    BY <1>0, PlanFacts DEF ActorsTyped, Phases
  <2>2. /\ born[d] \in Nat /\ kills[Owner(d)] \in Nat /\ kills'[Owner(d)] \in Nat
        /\ kills[Owner(d)] <= kills'[Owner(d)] /\ born[d] <= kills[Owner(d)]
    <3>1. \A b \in Actor : kills[b] \in Nat /\ kills'[b] \in Nat
      BY <1>0, BitsAreNumbers DEF ActorsTyped
    <3> QED
      BY <1>0, <2>1, <3>1 DEF CallsTyped, Phase
  <2>3. born[d] <= kills'[Owner(d)]
    BY <2>2
  <2> QED
    BY <2>1, <2>3, PlanStays DEF Phase
<1> QED
  BY <1>1, <1>3, <1>4, <1>5 DEF Base, Types, Phases

\* Cool(): the breaker alone.
LEMMA BaseCool ==
  ASSUME AskAssumption, Apart, Base, Cool
  PROVE  Base'
<1>0. /\ ActorsTyped /\ RegistryTyped /\ CallsTyped /\ StreamsTyped /\ BreakerTyped /\ NetTyped /\ AnswersTyped
  BY DEF Base, Types
<1>1. /\ breaker' = [breaker EXCEPT !.cooled = TRUE]
      /\ UNCHANGED <<plan, status, kills, counter, slots, net, calls, streams, answers>>
  BY DEF Cool
<1>2. BreakerTyped'
  BY <1>0, <1>1 DEF BreakerTyped
<1>3. ActorsTyped' /\ NetTyped' /\ AnswersTyped' /\ StreamsTyped' /\ CallsTyped'
  BY <1>0, <1>1 DEF ActorsTyped, NetTyped, AnswersTyped, StreamsTyped, CallsTyped, calls, streams, answers
<1>4. \A b \in Actor : kills[b] <= kills'[b]
  BY <1>0, <1>1 DEF ActorsTyped
<1> QED
  BY <1>1, <1>2, <1>3, <1>4, BaseMail DEF calls

\* The steps of the actors themselves.
LEMMA BaseActors ==
  ASSUME AskAssumption, Apart, Base, NEW a \in Actor, Cool \/ Kill(a) \/ Reap(a) \/ Respawn(a)
  PROVE  Base'
<1>0. /\ ActorsTyped /\ RegistryTyped /\ CallsTyped /\ StreamsTyped /\ BreakerTyped /\ NetTyped /\ AnswersTyped
  BY DEF Base, Types
<1>1. CASE Cool
  BY <1>1, BaseCool
<1>2. CASE Kill(a)
  <2>1. /\ status' = [status EXCEPT ![a] = "killed"] /\ kills[a] = 0
        /\ pc' = [c \in Call |-> IF Owner(c) = a /\ pc[c] = "parked" THEN "woken" ELSE pc[c]]
        /\ out' = [c \in Call |-> IF Owner(c) = a /\ pc[c] = "parked" THEN "cancelled" ELSE out[c]]
        /\ UNCHANGED <<plan, kills, counter, slots, net, born, round, attempt, corr, timer, reply, streams, breaker, answers>>
    BY <1>2 DEF Kill
  <2>2. ActorsTyped'
    BY <1>0, <2>1 DEF ActorsTyped
  <2>3. NetTyped' /\ AnswersTyped' /\ StreamsTyped' /\ BreakerTyped'
    BY <1>0, <2>1 DEF NetTyped, AnswersTyped, StreamsTyped, BreakerTyped, streams, answers
  <2>4. CallsTyped'
    BY <1>0, <2>1 DEF CallsTyped
  <2>5. \A b \in Actor : kills[b] <= kills'[b]
    BY <1>0, <2>1 DEF ActorsTyped
  <2>6. \A d \in Call : pc'[d] = pc[d] \/ (pc[d] = "parked" /\ pc'[d] = "woken")
    BY <2>1
  <2> QED
    BY <2>1, <2>2, <2>3, <2>4, <2>5, <2>6, BaseMail
<1>3. CASE Reap(a)
  <2>1. /\ status[a] = "killed" /\ status' = [status EXCEPT ![a] = "gone"]
        /\ cache' = [cache EXCEPT ![a] = <<>>]
        /\ ran' = [k \in Keys |-> IF k \in Range(cache[a]) THEN 0 ELSE ran[k]]
        /\ serving' = [serving EXCEPT ![a] = {}]
        /\ UNCHANGED <<plan, kills, counter, slots, net, calls, streams, breaker>>
    BY <1>3 DEF Reap
  <2>2. ActorsTyped'
    BY <1>0, <2>1 DEF ActorsTyped
  <2>3. NetTyped' /\ StreamsTyped' /\ BreakerTyped' /\ CallsTyped'
    BY <1>0, <2>1 DEF NetTyped, StreamsTyped, BreakerTyped, CallsTyped, calls, streams
  <2>4. AnswersTyped'
    BY <1>0, <2>1 DEF AnswersTyped
  <2>5. \A b \in Actor : kills[b] <= kills'[b]
    <3>1. kills' = kills /\ \A b \in Actor : kills[b] \in Nat
      BY <1>0, <2>1, BitsAreNumbers DEF ActorsTyped
    <3> QED
      BY <3>1
  <2> QED
    BY <2>1, <2>2, <2>3, <2>4, <2>5, BaseMail DEF calls
<1>4. CASE Respawn(a)
  <2>1. /\ status[a] = "gone" /\ status' = [status EXCEPT ![a] = "alive"]
        /\ kills' = [kills EXCEPT ![a] = @ + 1]
        /\ UNCHANGED <<plan, counter, slots, net, calls, streams, breaker, answers>>
    BY <1>4 DEF Respawn
  <2>2. kills[a] = 0
    BY <1>0, <2>1 DEF ActorsTyped
  <2>3. ActorsTyped'
    BY <1>0, <2>1, <2>2 DEF ActorsTyped
  <2>4. NetTyped' /\ AnswersTyped' /\ StreamsTyped' /\ BreakerTyped' /\ CallsTyped'
    BY <1>0, <2>1 DEF NetTyped, AnswersTyped, StreamsTyped, BreakerTyped, CallsTyped, calls, streams, answers
  <2>5. \A b \in Actor : kills[b] <= kills'[b]
    BY <1>0, <2>1, <2>2 DEF ActorsTyped
  <2> QED
    BY <2>1, <2>3, <2>4, <2>5, BaseMail DEF calls
<1> QED
  BY <1>1, <1>2, <1>3, <1>4

\* The record deliver() leaves.
LEMMA DeliveredIs ==
  ASSUME AskAssumption, NEW r \in Stream, Len(r.queue) <= StreamCap, NEW m \in Message
  PROVE  /\ Delivered(r, m) \in Stream /\ Len(Delivered(r, m).queue) <= StreamCap
         /\ m.end => /\ Delivered(r, m).done /\ Delivered(r, m).queue = r.queue
                     /\ Delivered(r, m).dropped = r.dropped
         /\ ~m.end /\ r.done => Delivered(r, m) = r
         /\ ~m.end /\ ~r.done /\ Len(r.queue) >= StreamCap =>
               Delivered(r, m).done /\ Delivered(r, m).dropped /\ Delivered(r, m).queue = r.queue
         /\ ~m.end /\ ~r.done /\ ~(Len(r.queue) >= StreamCap) =>
               /\ ~Delivered(r, m).done /\ Delivered(r, m).dropped = r.dropped
               /\ Delivered(r, m).queue = Append(r.queue, m.resp)
<1>1. r.queue \in Seq(Nat) /\ m.resp \in Nat /\ StreamCap \in Nat /\ r.done \in BOOLEAN /\ m.end \in BOOLEAN
  BY Bounds DEF Stream, Message
<1>2. CASE m.end
  BY <1>1, <1>2 DEF Delivered, Stream
<1>3. CASE ~m.end /\ r.done
  BY <1>1, <1>3 DEF Delivered, Stream
<1>4. CASE ~m.end /\ ~r.done /\ Len(r.queue) >= StreamCap
  BY <1>1, <1>4 DEF Delivered, Stream
<1>5. CASE ~m.end /\ ~r.done /\ ~(Len(r.queue) >= StreamCap)
  <2>1. Append(r.queue, m.resp) \in Seq(Nat) /\ Len(Append(r.queue, m.resp)) <= StreamCap
    BY <1>1, <1>5
  <2>2. Delivered(r, m) = [r EXCEPT !.queue = Append(r.queue, m.resp)]
    BY <1>5 DEF Delivered
  <2> QED
    BY <1>1, <1>5, <2>1, <2>2 DEF Stream
<1> QED
  BY <1>1, <1>2, <1>3, <1>4, <1>5

(* The event at the head of the queue p.                                   *)
First(p) == Head(net[p])

\* It is a message, and the rest are messages.
LEMMA FirstIs ==
  ASSUME NetTyped, NEW p \in Actor \X Actor, net[p] # <<>>
  PROVE  /\ First(p) \in Message /\ Tail(net[p]) \in Seq(Message)
         /\ 1 \in DOMAIN net[p] /\ First(p) = net[p][1]
         /\ Len(Tail(net[p])) = Len(net[p]) - 1
         /\ \A i \in 1..(Len(net[p]) - 1) : Tail(net[p])[i] = net[p][i + 1]
BY DEF NetTyped, First

(* The three ways an event is handled: the actor's slot takes it, its      *)
(* request is answered, or nobody wants it.                                *)
Popped(p) == [net EXCEPT ![p] = Tail(@)]

Resolves(p, c) ==
    /\ status[p[2]] = "alive" /\ c \in Slot(p[2], First(p).corr)
    /\ Resolve(c, First(p)) /\ net' = Popped(p) /\ UNCHANGED answers

Replies(p) ==
    /\ status[p[2]] = "alive" /\ p[2] = Target(First(p).call)
    /\ Answer(p[2], First(p), Popped(p)) /\ UNCHANGED <<pc, out, reply, streams>>

Ignores(p) ==
    /\ status[p[2]] # "alive" \/ (Slot(p[2], First(p).corr) = {} /\ p[2] # Target(First(p).call))
    /\ net' = Popped(p) /\ UNCHANGED <<pc, out, reply, streams, answers>>

Mail == /\ UNCHANGED <<plan, status, kills, counter, slots, born, round, attempt, corr, timer, breaker>>

\* Arrives(), taken apart.
LEMMA ArrivesIs ==
  ASSUME NEW x \in Actor, NEW y \in Actor, Arrives(x, y)
  PROVE  \E p \in Actor \X Actor : /\ net[p] # <<>> /\ Mail
            /\ ((\E c : Resolves(p, c)) \/ Replies(p) \/ Ignores(p))
<1>1. PICK p \in Actor \X Actor : p = <<x, y>>
  OBVIOUS
<1>2. net[p] # <<>> /\ Mail /\ p[2] = y
  BY <1>1 DEF Arrives, Mail
<1>3. CASE /\ status[y] = "alive" /\ Slot(y, First(p).corr) # {}
           /\ \E c \in Slot(y, First(p).corr) : Resolve(c, First(p))
           /\ net' = Popped(p) /\ UNCHANGED answers
  BY <1>2, <1>3 DEF Resolves
<1>4. CASE /\ status[y] = "alive" /\ Slot(y, First(p).corr) = {} /\ y = Target(First(p).call)
           /\ Answer(y, First(p), Popped(p)) /\ UNCHANGED <<pc, out, reply, streams>>
  BY <1>2, <1>4 DEF Replies
<1>5. CASE /\ status[y] # "alive" \/ (Slot(y, First(p).corr) = {} /\ y # Target(First(p).call))
           /\ net' = Popped(p) /\ UNCHANGED <<pc, out, reply, streams, answers>>
  BY <1>2, <1>5 DEF Ignores
<1> QED
  BY <1>1, <1>3, <1>4, <1>5 DEF Arrives, First, Popped

\* A slot of an actor is of a call of that actor, which is in the registry.
LEMMA SlotIs ==
  ASSUME RegistryTyped, AskAssumption, NEW a \in Actor, NEW id, NEW c \in Slot(a, id)
  PROVE  /\ c \in Call /\ Owner(c) = a /\ <<id, c>> \in slots[Core[a]]
         /\ Kind(c) = "stream" \/ pc[c] = "parked"
<1>1. Core[a] \in Range(Core)
  BY DEF AskAssumption, Range
<1>2. PICK t \in slots[Core[a]] : /\ t[1] = id /\ t[2] = c /\ Owner(t[2]) = a
                                  /\ Kind(t[2]) = "stream" \/ pc[t[2]] = "parked"
  BY DEF Slot
<1>3. t \in (Nat \X Nat) \X Call
  BY <1>1, <1>2 DEF RegistryTyped
<1> QED
  BY <1>2, <1>3

\* A delivery wakes the call it is for.
LEMMA BaseResolves ==
  ASSUME AskAssumption, Apart, Base, NEW p \in Actor \X Actor, net[p] # <<>>, Mail, NEW c, Resolves(p, c)
  PROVE  Base'
<1>0. /\ ActorsTyped /\ RegistryTyped /\ CallsTyped /\ StreamsTyped /\ BreakerTyped /\ NetTyped /\ AnswersTyped
  BY DEF Base, Types
<1>1. First(p) \in Message /\ Tail(net[p]) \in Seq(Message)
  BY <1>0, FirstIs
<1>2. c \in Call /\ (Kind(c) = "stream" \/ pc[c] = "parked")
  <2>1. p[2] \in Actor /\ c \in Slot(p[2], First(p).corr)
    BY DEF Resolves
  <2> QED
    BY <1>0, <2>1, SlotIs
<1>3. Resolve(c, First(p)) /\ net' = Popped(p) /\ UNCHANGED answers
  BY DEF Resolves
<1>4. UNCHANGED <<plan, status, kills, counter, slots, born, round, attempt, corr, timer, breaker>>
  BY DEF Mail
<1>5. NetTyped' /\ AnswersTyped' /\ ActorsTyped' /\ BreakerTyped'
  BY <1>0, <1>1, <1>3, <1>4 DEF NetTyped, AnswersTyped, ActorsTyped, BreakerTyped, Popped, answers
<1>6. \A b \in Actor : kills[b] <= kills'[b]
  <2>1. kills' = kills /\ \A b \in Actor : kills[b] \in Nat
    BY <1>0, <1>4, BitsAreNumbers DEF ActorsTyped
  <2> QED
    BY <2>1
<1>7. CASE Kind(c) = "stream"
  <2>1. /\ deliver(c, First(p)) /\ pc' = (IF stream'[c] # stream[c] THEN Woken(c) ELSE pc)
        /\ UNCHANGED <<out, reply, got>>
    BY <1>3, <1>7 DEF Resolve
  <2>2. PICK r : r = Delivered(stream[c], First(p))
    OBVIOUS
  <2>3. stream' = [stream EXCEPT ![c] = r]
    BY <2>1, <2>2 DEF deliver
  <2>4. r \in Stream /\ Len(r.queue) <= StreamCap
    BY <1>0, <1>1, <1>2, <2>2, DeliveredIs DEF StreamsTyped
  <2>5. StreamsTyped'
    <3>1. stream' \in [Call -> Stream] /\ \A d \in Call : Len(stream'[d].queue) <= StreamCap
      BY <1>0, <2>3, <2>4 DEF StreamsTyped
    <3> QED
      BY <1>0, <2>1, <3>1 DEF StreamsTyped
  <2>6. pc' = pc \/ (pc' = [pc EXCEPT ![c] = "woken"] /\ pc[c] = "parked")
    BY <2>1 DEF Woken
  <2>7. CallsTyped'
    BY <1>0, <1>4, <2>1, <2>6 DEF CallsTyped
  <2>8. \A d \in Call : pc'[d] = pc[d] \/ (pc[d] = "parked" /\ pc'[d] = "woken")
    BY <1>0, <2>6 DEF CallsTyped
  <2> QED
    BY <1>4, <1>5, <1>6, <2>5, <2>7, <2>8, BaseMail
<1>8. CASE Kind(c) # "stream"
  <2>1. /\ pc' = [pc EXCEPT ![c] = "woken"] /\ pc[c] = "parked"
        /\ out' = [out EXCEPT ![c] = "ok"] /\ reply' = [reply EXCEPT ![c] = First(p)]
        /\ UNCHANGED streams
    BY <1>2, <1>3, <1>8 DEF Resolve
  <2>2. CallsTyped'
    BY <1>0, <1>1, <1>4, <2>1 DEF CallsTyped
  <2>3. StreamsTyped'
    BY <1>0, <2>1 DEF StreamsTyped, streams
  <2>4. \A d \in Call : pc'[d] = pc[d] \/ (pc[d] = "parked" /\ pc'[d] = "woken")
    BY <1>0, <2>1 DEF CallsTyped
  <2> QED
    BY <1>4, <1>5, <1>6, <2>2, <2>3, <2>4, BaseMail
<1> QED
  BY <1>7, <1>8

\* Steps that leave the calls alone.
LEMMA BaseQuiet ==
  ASSUME AskAssumption, Apart, Base,
         UNCHANGED <<plan, status, kills, counter, slots, calls, streams, breaker>>,
         NetTyped', AnswersTyped'
  PROVE  Base'
<1>0. /\ ActorsTyped /\ RegistryTyped /\ CallsTyped /\ StreamsTyped /\ BreakerTyped
  BY DEF Base, Types
<1>1. ActorsTyped' /\ BreakerTyped' /\ StreamsTyped' /\ CallsTyped'
  BY <1>0 DEF ActorsTyped, BreakerTyped, StreamsTyped, CallsTyped, calls, streams
<1>2. \A b \in Actor : kills[b] <= kills'[b]
  <2>1. kills' = kills /\ \A b \in Actor : kills[b] \in Nat
    BY <1>0 DEF ActorsTyped
  <2> QED
    BY <2>1
<1> QED
  BY <1>1, <1>2, BaseMail DEF calls

(* The reply to a request.                                                 *)
ReplyTo(m) == [m EXCEPT !.resp = 1]

\* The key of a request of an actor that is asked, and its place.
LEMMA KeyIs ==
  ASSUME NEW m \in Message
  PROVE  /\ m.key \in Keys /\ m.call \in Call /\ m.corr \in Nat \X Nat
         /\ ReplyTo(m) \in Message /\ ReplyTo(m).resp = 1 /\ ReplyTo(m).call = m.call
         /\ ReplyTo(m).corr = m.corr /\ ReplyTo(m).key = m.key /\ ReplyTo(m).end = m.end
BY DEF Message, ReplyTo

\* The answer to a request.
LEMMA BaseReplies ==
  ASSUME AskAssumption, Apart, Base, NEW p \in Actor \X Actor, net[p] # <<>>, Mail, Replies(p)
  PROVE  Base'
<1>0. /\ ActorsTyped /\ RegistryTyped /\ CallsTyped /\ StreamsTyped /\ BreakerTyped /\ NetTyped /\ AnswersTyped
  BY DEF Base, Types
<1>1. PICK m : m = First(p)
  OBVIOUS
<1>2. m \in Message /\ Tail(net[p]) \in Seq(Message) /\ m.call \in Call /\ m.key \in Keys
  BY <1>0, <1>1, FirstIs, KeyIs
<1>3. PICK a \in Actor : a = p[2]
  OBVIOUS
<1>4. Answer(a, m, Popped(p)) /\ UNCHANGED <<plan, status, kills, counter, slots, calls, streams, breaker>>
  BY <1>1, <1>3 DEF Replies, Mail, calls
<1>5. Popped(p) \in [Actor \X Actor -> Seq(Message)]
  BY <1>0, <1>2 DEF Popped, NetTyped
<1>6. CASE Kind(m.call) = "stream"
  <2>1. /\ serving' = [serving EXCEPT ![a] = @ \union {[m |-> m, sent |-> 0]}]
        /\ net' = Popped(p) /\ UNCHANGED <<cache, ran>>
    BY <1>4, <1>6 DEF Answer
  <2>2. [m |-> m, sent |-> 0] \in Serving
    BY <1>2, Bounds DEF Serving
  <2>3. NetTyped' /\ AnswersTyped'
    BY <1>0, <1>5, <2>1, <2>2 DEF NetTyped, AnswersTyped
  <2> QED
    BY <1>4, <2>3, BaseQuiet
<1>7. CASE Kind(m.call) # "stream"
  <2>1. /\ Execute(a, m) /\ UNCHANGED serving
        /\ net' = [Popped(p) EXCEPT ![<<a, Owner(m.call)>>] = Append(@, ReplyTo(m))]
    BY <1>4, <1>7 DEF Answer, ReplyTo
  <2>2. <<a, Owner(m.call)>> \in Actor \X Actor /\ ReplyTo(m) \in Message
    BY <1>0, <1>2, PlanFacts, KeyIs DEF ActorsTyped
  <2>3. NetTyped'
    BY <1>5, <2>1, <2>2 DEF NetTyped
  <2>4. cache' \in [Actor -> Seq(Keys)] /\ ran' \in [Keys -> Nat]
    <3>1. CASE Kind(m.call) # "retry"
      BY <1>0, <2>1, <3>1 DEF Execute, AnswersTyped
    <3>2. CASE Kind(m.call) = "retry"
      <4> DEFINE hit == m.key \in Range(cache[a])
                 evicts == ~hit /\ Len(cache[a]) >= CacheCap
                 kept == IF evicts THEN Tail(cache[a]) ELSE cache[a]
      <4>1. cache' = [cache EXCEPT ![a] = Append(Without(kept, {m.key}), m.key)]
        BY <2>1, <3>2 DEF Execute
      <4>2. ran' = [k \in Keys |-> IF k = m.key /\ ~hit THEN ran[k] + 1
                                   ELSE IF evicts /\ k = Head(cache[a]) THEN 0 ELSE ran[k]]
        BY <2>1, <3>2 DEF Execute
      <4>3. ran' \in [Keys -> Nat]
        BY <1>0, <4>2 DEF AnswersTyped
      <4>4. kept \in Seq(Keys)
        <5>1. cache[a] \in Seq(Keys) /\ CacheCap \in Nat \ {0}
          BY <1>0, Bounds DEF AnswersTyped
        <5>2. CASE evicts
          <6>1. cache[a] # <<>>
            BY <5>1, <5>2
          <6> QED
            BY <5>1, <5>2, <6>1
        <5> QED
          BY <5>1, <5>2
      <4> HIDE DEF kept, hit, evicts
      <4>5. Without(kept, {m.key}) \in Seq(Keys)
        BY <4>4, KeepPicks DEF Without
      <4>6. Append(Without(kept, {m.key}), m.key) \in Seq(Keys)
        BY <1>2, <4>5
      <4> QED
        BY <1>0, <4>1, <4>3, <4>6 DEF AnswersTyped
    <3> QED
      BY <3>1, <3>2
  <2>5. AnswersTyped'
    BY <1>0, <2>1, <2>4 DEF AnswersTyped
  <2> QED
    BY <1>4, <2>3, <2>5, BaseQuiet
<1> QED
  BY <1>6, <1>7

\* An event nobody wants.
LEMMA BaseIgnores ==
  ASSUME AskAssumption, Apart, Base, NEW p \in Actor \X Actor, net[p] # <<>>, Mail, Ignores(p)
  PROVE  Base'
<1>1. NetTyped /\ AnswersTyped
  BY DEF Base, Types
<1>2. Tail(net[p]) \in Seq(Message)
  BY <1>1, FirstIs
<1>3. NetTyped'
  BY <1>1, <1>2 DEF Ignores, Popped, NetTyped
<1>4. AnswersTyped'
  BY <1>1 DEF Ignores, AnswersTyped, answers
<1>5. UNCHANGED <<plan, status, kills, counter, slots, calls, streams, breaker>>
  BY DEF Ignores, Mail, calls
<1> QED
  BY <1>3, <1>4, <1>5, BaseQuiet

(* The chunk, or the end, the responder sends next for s.                  *)
ChunkOf(s) == [s.m EXCEPT !.resp = IF s.sent = Chunks THEN 0 ELSE s.sent + 1, !.end = (s.sent = Chunks)]

Sends(a, s) ==
    /\ status[a] = "alive"
    /\ net' = [net EXCEPT ![<<a, Owner(s.m.call)>>] = Append(@, ChunkOf(s))]
    /\ serving' = [serving EXCEPT ![a] = (@ \ {s}) \union
                     IF s.sent = Chunks THEN {} ELSE {[s EXCEPT !.sent = s.sent + 1]}]
    /\ UNCHANGED <<plan, status, kills, counter, slots, calls, streams, breaker, cache, ran>>

\* Yield(), taken apart.
LEMMA YieldIs ==
  ASSUME NEW a \in Actor, Yield(a)
  PROVE  \E s \in serving[a] : Sends(a, s)
<1>1. PICK s \in serving[a] :
        /\ status[a] = "alive"
        /\ Send(a, Owner(s.m.call), [s.m EXCEPT !.resp = IF s.sent = Chunks THEN 0 ELSE s.sent + 1, !.end = (s.sent = Chunks)])
        /\ serving' = [serving EXCEPT ![a] = (@ \ {s}) \union IF s.sent = Chunks THEN {} ELSE {[s EXCEPT !.sent = @ + 1]}]
        /\ UNCHANGED <<plan, status, kills, counter, slots, calls, streams, breaker, cache, ran>>
  BY DEF Yield
<1>2. Sends(a, s)
  BY <1>1 DEF Sends, Send, ChunkOf
<1> QED
  BY <1>2

\* What is sent for s, and what s becomes.
LEMMA ChunkIs ==
  ASSUME AskAssumption, NEW s \in Serving
  PROVE  /\ s.m \in Message /\ s.m.call \in Call /\ s.sent \in 0..Chunks /\ Chunks \in Nat
         /\ ChunkOf(s) \in Message /\ ChunkOf(s).corr = s.m.corr /\ ChunkOf(s).call = s.m.call
         /\ ChunkOf(s).key = s.m.key /\ Number(ChunkOf(s)) = s.sent + 1
         /\ ChunkOf(s).end = (s.sent = Chunks) /\ ChunkOf(s).resp = IF s.sent = Chunks THEN 0 ELSE s.sent + 1
         /\ s.sent # Chunks => /\ [s EXCEPT !.sent = s.sent + 1] \in Serving
                               /\ [s EXCEPT !.sent = s.sent + 1].m = s.m
                               /\ [s EXCEPT !.sent = s.sent + 1].sent = s.sent + 1
<1>1. s.m \in Message /\ s.sent \in 0..Chunks /\ Chunks \in Nat /\ s.m.call \in Call
  BY Bounds DEF Serving, Message
<1>2. PICK r : r = IF s.sent = Chunks THEN 0 ELSE s.sent + 1
  OBVIOUS
<1>3. PICK e \in BOOLEAN : e = (s.sent = Chunks)
  OBVIOUS
<1>4. r \in Nat
  BY <1>1, <1>2
<1>5. ChunkOf(s) = [s.m EXCEPT !.resp = r, !.end = e]
  BY <1>2, <1>3 DEF ChunkOf
<1>6. /\ ChunkOf(s) \in Message /\ ChunkOf(s).corr = s.m.corr /\ ChunkOf(s).call = s.m.call
      /\ ChunkOf(s).key = s.m.key /\ ChunkOf(s).resp = r /\ ChunkOf(s).end = e
  BY <1>1, <1>4, <1>5 DEF Message
<1>7. Number(ChunkOf(s)) = s.sent + 1
  BY <1>1, <1>2, <1>3, <1>6 DEF Number
<1>8. ASSUME s.sent # Chunks
      PROVE  /\ [s EXCEPT !.sent = s.sent + 1] \in Serving
             /\ [s EXCEPT !.sent = s.sent + 1].m = s.m
             /\ [s EXCEPT !.sent = s.sent + 1].sent = s.sent + 1
  <2>1. s.sent + 1 \in 0..Chunks
    BY <1>1, <1>8
  <2> QED
    BY <1>1, <2>1 DEF Serving
<1> QED
  BY <1>1, <1>2, <1>3, <1>6, <1>7, <1>8

\* Yield(): a chunk goes out.
LEMMA BaseSends ==
  ASSUME AskAssumption, Apart, Base, NEW a \in Actor, NEW s \in serving[a], Sends(a, s)
  PROVE  Base'
<1>0. ActorsTyped /\ NetTyped /\ AnswersTyped
  BY DEF Base, Types
<1>1. s \in Serving
  BY <1>0 DEF AnswersTyped
<1>2. s.m.call \in Call /\ ChunkOf(s) \in Message
  BY <1>1, ChunkIs
<1>3. Owner(s.m.call) \in Actor
  BY <1>0, <1>2, PlanFacts DEF ActorsTyped
<1>4. NetTyped'
  BY <1>0, <1>2, <1>3 DEF NetTyped, Sends
<1>5. PICK T : T = IF s.sent = Chunks THEN {} ELSE {[s EXCEPT !.sent = s.sent + 1]}
  OBVIOUS
<1>6. T \subseteq Serving
  BY <1>1, <1>5, ChunkIs
<1>7. serving' = [serving EXCEPT ![a] = (@ \ {s}) \union T]
  BY <1>5 DEF Sends
<1>8. AnswersTyped'
  <2>1. serving' \in [Actor -> SUBSET Serving]
    BY <1>0, <1>6, <1>7 DEF AnswersTyped
  <2> QED
    BY <1>0, <2>1 DEF AnswersTyped, Sends
<1>9. UNCHANGED <<plan, status, kills, counter, slots, calls, streams, breaker>>
  BY DEF Sends
<1> QED
  BY <1>4, <1>8, <1>9, BaseQuiet

-----------------------------------------------------------------------------
(* Messages and answers *)

\* Messages that move, leave or are added where they may be.
LEMMA MessagesMove ==
  ASSUME Messages, UNCHANGED <<plan, counter, corr>>,
         \A q \in Actor \X Actor : \A m \in Range(net'[q]) :
            m \in Range(net[q]) \/ (Ours(m) /\ Travels(q, m)),
         \A b \in Actor : \A s \in serving'[b] : s \in serving[b] \/ (Ours(s.m) /\ Serves(b, s))
  PROVE  Messages'
<1>1. ASSUME NEW m, Ours(m) PROVE Ours(m)'
  BY <1>1, PlanStays DEF Ours
<1>2. ASSUME NEW q \in Actor \X Actor, NEW m \in Range(net'[q])
      PROVE  Ours(m)' /\ Travels(q, m)'
  <2>1. Ours(m) /\ Travels(q, m)
    BY DEF Messages
  <2> QED
    BY <1>1, <2>1, PlanStays DEF Travels, IsRequest
<1>3. ASSUME NEW b \in Actor, NEW s \in serving'[b] PROVE Ours(s.m)' /\ Serves(b, s)'
  <2>1. Ours(s.m) /\ Serves(b, s)
    BY DEF Messages
  <2> QED
    BY <1>1, <2>1, PlanStays DEF Serves, IsRequest
<1> QED
  BY <1>2, <1>3 DEF Messages

\* No message has the new id, and the request that does is of its call.
LEMMA MessagesAsk ==
  ASSUME AskAssumption, Apart, Base, Messages, NEW c \in Call, NEW n \in 1..Rounds, Asks(c),
         Request(c, n) \in Message, UNCHANGED serving,
         net' = [net EXCEPT ![<<Owner(c), Target(c)>>] = Append(@, Request(c, n))]
  PROVE  /\ Messages'
         /\ \A q \in Actor \X Actor : \A m \in Range(net[q]) : m.corr # corr'[c]
         /\ \A a \in Actor : \A s \in serving[a] : s.m.corr # corr'[c]
<1>0. ActorsTyped /\ RegistryTyped /\ NetTyped /\ AnswersTyped /\ Ids
  BY DEF Base, Types
<1>1. /\ NewId(c) \in Nat \X Nat /\ corr'[c] = NewId(c) /\ NewId(c)[1] = Core[Owner(c)] + 1
      /\ NewId(c)[2] = counter[Core[Owner(c)]] + 1
      /\ \A d \in Call : corr[d] # NewId(c) /\ (d # c => corr'[d] = corr[d])
      /\ counter'[Core[Owner(c)]] = counter[Core[Owner(c)]] + 1
      /\ \A k \in Range(Core) : counter[k] <= counter'[k]
      /\ RegistryTyped'
  BY <1>0, NewIdIsNew
<1>2. plan' = plan
  BY DEF Asks
<1>3. /\ Owner(c) \in Actor /\ Target(c) \in Actor /\ Core[Owner(c)] \in Range(Core) /\ Core[Owner(c)] \in Nat
      /\ counter[Core[Owner(c)]] \in Nat
  BY <1>0, PlanFacts DEF ActorsTyped, RegistryTyped
<1>4. ASSUME NEW m \in Message, Ours(m) PROVE m.corr # NewId(c) /\ Ours(m)'
  <2>1. m.call \in Call
    BY KeyIs
  <2>2. /\ Core[Owner(m.call)] \in Range(Core) /\ Core[Owner(m.call)] \in Nat
        /\ Owner(m.call)' = Owner(m.call)
    BY <1>0, <1>2, <2>1, PlanFacts, PlanStays DEF ActorsTyped
  <2>3. /\ counter[Core[Owner(m.call)]] \in Nat /\ counter'[Core[Owner(m.call)]] \in Nat
        /\ counter[Core[Owner(m.call)]] <= counter'[Core[Owner(m.call)]]
    BY <1>0, <1>1, <2>2 DEF RegistryTyped
  <2>4. m.corr # NewId(c)
    <3>1. SUFFICES ASSUME m.corr = NewId(c) PROVE FALSE
      OBVIOUS
    <3>2. Core[Owner(m.call)] + 1 = Core[Owner(c)] + 1
      BY <1>1, <1>4, <3>1 DEF Ours
    <3>3. Core[Owner(m.call)] = Core[Owner(c)]
      BY <1>3, <2>2, <3>2, SameNumber
    <3>4. counter[Core[Owner(c)]] + 1 \in 1..counter[Core[Owner(c)]]
      BY <1>1, <1>4, <3>1, <3>3 DEF Ours
    <3> QED
      BY <1>3, <3>4
  <2>5. m.corr[2] \in 1..counter'[Core[Owner(m.call)]]
    BY <1>4, <2>3 DEF Ours
  <2>6. ASSUME NEW d \in Call, corr'[d] = m.corr PROVE m.call = d
    BY <1>1, <1>4, <2>4, <2>6 DEF Ours
  <2> QED
    BY <1>4, <2>2, <2>4, <2>5, <2>6 DEF Ours
<1>5. ASSUME NEW q \in Actor \X Actor, NEW m \in Range(net[q])
      PROVE  m \in Message /\ m.corr # NewId(c) /\ Ours(m)' /\ Travels(q, m)'
  <2>1. m \in Message
    BY <1>0 DEF NetTyped, Range
  <2>2. Ours(m) /\ Travels(q, m)
    BY DEF Messages
  <2>3. Travels(q, m)'
    BY <1>2, <2>2, PlanStays DEF Travels, IsRequest
  <2> QED
    BY <1>4, <2>1, <2>2, <2>3
<1>6. ASSUME NEW a \in Actor, NEW s \in serving[a]
      PROVE  s.m.corr # NewId(c) /\ Ours(s.m)' /\ Serves(a, s)'
  <2>1. s.m \in Message
    BY <1>0 DEF AnswersTyped, Serving
  <2>2. Ours(s.m) /\ Serves(a, s)
    BY DEF Messages
  <2>3. Serves(a, s)'
    BY <1>2, <2>2, PlanStays DEF Serves, IsRequest
  <2> QED
    BY <1>4, <2>1, <2>2, <2>3
<1>7. PICK r : r = Request(c, n)
  OBVIOUS
<1>8. Ours(r)' /\ Travels(<<Owner(c), Target(c)>>, r)'
  <2>1. r.call = c /\ r.corr = NewId(c) /\ r.key = <<c, n>> /\ r.resp = 0 /\ r.end = FALSE
    BY <1>7 DEF Request
  <2>2. Owner(c)' = Owner(c) /\ Target(c)' = Target(c)
    BY <1>2, PlanStays
  <2>3. PICK p : p = <<Owner(c), Target(c)>>
    OBVIOUS
  <2>4. Travels(p, r)'
    BY <2>1, <2>2, <2>3 DEF Travels, IsRequest
  <2>5. r.corr[2] \in 1..counter'[Core[Owner(c)]]
    BY <1>1, <1>3, <2>1
  <2>6. \A d \in Call : corr'[d] = r.corr => r.call = d
    BY <1>1, <2>1
  <2>7. Ours(r)'
    BY <1>1, <2>1, <2>2, <2>5, <2>6 DEF Ours
  <2>8. <<Owner(c)', Target(c)'>> = p
    BY <2>2, <2>3
  <2> QED
    BY <2>4, <2>7, <2>8
<1>9. ASSUME NEW q \in Actor \X Actor, NEW m \in Range(net'[q])
      PROVE  Ours(m)' /\ Travels(q, m)'
  <2>1. net[q] \in Seq(Message)
    BY <1>0 DEF NetTyped
  <2>2. CASE q = <<Owner(c), Target(c)>>
    <3>1. net'[q] = Append(net[q], r)
      BY <1>0, <1>3, <1>7, <2>2 DEF NetTyped
    <3>2. m \in Range(net[q]) \/ m = r
      <4>1. r \in Message
        BY <1>7
      <4>2. Range(Append(net[q], r)) = Range(net[q]) \cup {r}
        BY <2>1, <4>1, AppendedRange
      <4> QED
        BY <3>1, <1>9, <4>2
    <3>3. q = <<Owner(c)', Target(c)'>>
      BY <1>2, <2>2, PlanStays
    <3> QED
      BY <1>5, <1>8, <3>2, <3>3
  <2>3. CASE q # <<Owner(c), Target(c)>>
    <3>1. net'[q] = net[q]
      BY <1>0, <2>3 DEF NetTyped
    <3> QED
      BY <1>5, <1>9, <3>1
  <2> QED
    BY <2>2, <2>3
<1>10. Messages'
  BY <1>6, <1>9 DEF Messages
<1> QED
  BY <1>1, <1>5, <1>6, <1>10

\* An event that a slot takes is an answer to the present request.
LEMMA ResolvesIs ==
  ASSUME AskAssumption, Apart, Base, Messages, NEW p \in Actor \X Actor, net[p] # <<>>,
         NEW c, Resolves(p, c)
  PROVE  /\ c \in Call /\ Waiting(c) /\ First(p) \in Message
         /\ First(p).call = c /\ First(p).corr = corr[c]
         /\ p = <<Target(c), Owner(c)>> /\ (Kind(c) # "stream" => First(p).resp = 1 /\ pc[c] = "parked")
         /\ status[Owner(c)] = "alive"
<1>0. ActorsTyped /\ RegistryTyped /\ NetTyped /\ AnswersTyped /\ Slots
  BY DEF Base, Types
<1>1. PICK m : m = First(p)
  OBVIOUS
<1>2. m \in Message /\ 1 \in DOMAIN net[p] /\ m = net[p][1]
  BY <1>0, <1>1, FirstIs
<1>3. Ours(m) /\ Travels(p, m)
  BY <1>2 DEF Messages, Range
<1>4. p[2] \in Actor /\ c \in Slot(p[2], m.corr) /\ status[p[2]] = "alive"
  BY <1>1 DEF Resolves
<1>5. /\ c \in Call /\ Owner(c) = p[2] /\ <<m.corr, c>> \in slots[Core[p[2]]]
      /\ Kind(c) = "stream" \/ pc[c] = "parked"
  BY <1>0, <1>4, SlotIs
<1>6. Core[p[2]] \in Range(Core)
  BY <1>0, <1>5, PlanFacts DEF ActorsTyped
<1>7. SlotIsLive(Core[p[2]], <<m.corr, c>>)
  BY <1>0, <1>5, <1>6 DEF Slots
<1>8. Waiting(c) /\ corr[c] = m.corr
  BY <1>7 DEF SlotIsLive
<1>9. m.call = c
  BY <1>3, <1>5, <1>8 DEF Ours
<1>10. Owner(c) # Target(c)
  BY <1>0, <1>5, PlanFacts DEF ActorsTyped
<1>11. p = <<Target(c), Owner(c)>> /\ (Kind(c) # "stream" => m.resp = 1)
  BY <1>3, <1>5, <1>9, <1>10 DEF Travels
<1> QED
  BY <1>1, <1>2, <1>4, <1>5, <1>8, <1>9, <1>11

\* A request that is answered is one, and is at its target.
LEMMA RepliesIs ==
  ASSUME AskAssumption, Apart, Base, Messages, NEW p \in Actor \X Actor, net[p] # <<>>, Replies(p)
  PROVE  /\ First(p) \in Message /\ First(p).call \in Call /\ IsRequest(First(p)) /\ Ours(First(p))
         /\ p = <<Owner(First(p).call), Target(First(p).call)>>
         /\ Owner(First(p).call) \in Actor /\ Target(First(p).call) \in Actor
         /\ Owner(First(p).call) # Target(First(p).call)
<1>0. ActorsTyped /\ RegistryTyped /\ NetTyped /\ AnswersTyped
  BY DEF Base, Types
<1>1. PICK m : m = First(p)
  OBVIOUS
<1>2. m \in Message /\ 1 \in DOMAIN net[p] /\ m = net[p][1] /\ m.call \in Call
  BY <1>0, <1>1, FirstIs, KeyIs
<1>3. Ours(m) /\ Travels(p, m)
  BY <1>2 DEF Messages, Range
<1>4. p[2] = Target(m.call)
  BY <1>1 DEF Replies
<1>5. Owner(m.call) # Target(m.call) /\ Owner(m.call) \in Actor /\ Target(m.call) \in Actor
  BY <1>0, <1>2, PlanFacts DEF ActorsTyped
<1>6. p = <<Owner(m.call), Target(m.call)>> /\ IsRequest(m)
  BY <1>3, <1>4, <1>5 DEF Travels
<1> QED
  BY <1>1, <1>2, <1>3, <1>5, <1>6

\* A queue that loses its first event.
LEMMA PoppedIs ==
  ASSUME NetTyped, NEW p \in Actor \X Actor, net[p] # <<>>
  PROVE  /\ Popped(p) \in [Actor \X Actor -> Seq(Message)]
         /\ Popped(p)[p] = Tail(net[p]) /\ Range(Popped(p)[p]) \subseteq Range(net[p])
         /\ \A q \in (Actor \X Actor) \ {p} : Popped(p)[q] = net[q]
         /\ First(p) \in Range(net[p])
<1>1. net[p] \in Seq(Message)
  BY DEF NetTyped
<1>2. Tail(net[p]) \in Seq(Message) /\ Range(Tail(net[p])) \subseteq Range(net[p]) /\ Head(net[p]) \in Range(net[p])
  BY <1>1, TailRange
<1> QED
  BY <1>2 DEF Popped, NetTyped, First

\* A queue that gets one more.
LEMMA PushedIs ==
  ASSUME NEW n \in [Actor \X Actor -> Seq(Message)], NEW q \in Actor \X Actor, NEW m \in Message,
         net' = [n EXCEPT ![q] = Append(n[q], m)]
  PROVE  /\ net'[q] = Append(n[q], m) /\ Range(net'[q]) = Range(n[q]) \cup {m}
         /\ \A u \in (Actor \X Actor) \ {q} : net'[u] = n[u]
<1>1. n[q] \in Seq(Message)
  OBVIOUS
<1>2. Range(Append(n[q], m)) = Range(n[q]) \cup {m}
  BY <1>1, AppendedRange
<1> QED
  BY <1>2

\* An event is taken by a slot or ignored.
LEMMA MessagesPopped ==
  ASSUME Messages, NetTyped, NEW p \in Actor \X Actor, net[p] # <<>>, net' = Popped(p),
         UNCHANGED <<plan, counter, corr, serving>>
  PROVE  Messages'
<1>1. \A q \in Actor \X Actor : Range(net'[q]) \subseteq Range(net[q])
  BY PoppedIs
<1> QED
  BY <1>1, MessagesMove

\* Nothing is sent or arrives.
LEMMA MessagesKept ==
  ASSUME Messages, UNCHANGED <<plan, counter, corr, net, serving>>
  PROVE  Messages'
BY MessagesMove

\* A request is answered, or its stream begins.
LEMMA MessagesReplies ==
  ASSUME AskAssumption, Apart, Base, Messages, NEW p \in Actor \X Actor, net[p] # <<>>, Mail, Replies(p)
  PROVE  Messages'
<1>0. NetTyped /\ AnswersTyped
  BY DEF Base, Types
<1>1. PICK m : m = First(p)
  OBVIOUS
<1>2. /\ m \in Message /\ m.call \in Call /\ IsRequest(m) /\ Ours(m)
      /\ p = <<Owner(m.call), Target(m.call)>>
      /\ Owner(m.call) \in Actor /\ Target(m.call) \in Actor /\ Owner(m.call) # Target(m.call)
  BY <1>1, RepliesIs
<1>3. Answer(Target(m.call), m, Popped(p)) /\ UNCHANGED <<plan, counter, corr>>
  BY <1>1 DEF Replies, Mail
<1>4. \A q \in Actor \X Actor : Range(Popped(p)[q]) \subseteq Range(net[q])
  <2>1. /\ Range(Popped(p)[p]) \subseteq Range(net[p])
        /\ \A q \in (Actor \X Actor) \ {p} : Popped(p)[q] = net[q]
    BY <1>0, PoppedIs
  <2> QED
    BY <2>1
<1>5. CASE Kind(m.call) = "stream"
  <2>1. /\ serving' = [serving EXCEPT ![Target(m.call)] = @ \union {[m |-> m, sent |-> 0]}]
        /\ net' = Popped(p)
    BY <1>3, <1>5 DEF Answer
  <2>2. PICK s : s = [m |-> m, sent |-> 0]
    OBVIOUS
  <2>3. s.m = m
    BY <2>2
  <2>4. Ours(s.m) /\ Serves(Target(m.call), s)
    BY <1>2, <1>5, <2>3 DEF Serves
  <2>5. \A b \in Actor : \A t \in serving'[b] : t \in serving[b] \/ (Ours(t.m) /\ Serves(b, t))
    BY <1>0, <1>2, <2>1, <2>2, <2>4 DEF AnswersTyped
  <2> QED
    BY <1>3, <1>4, <2>1, <2>5, MessagesMove
<1>6. CASE Kind(m.call) # "stream"
  <2>1. /\ UNCHANGED serving
        /\ net' = [Popped(p) EXCEPT ![<<Target(m.call), Owner(m.call)>>] = Append(@, ReplyTo(m))]
    BY <1>3, <1>6 DEF Answer, ReplyTo
  <2>2. PICK r : r = ReplyTo(m)
    OBVIOUS
  <2>3. r \in Message /\ r.resp = 1 /\ r.call = m.call /\ r.corr = m.corr /\ r.key = m.key
    BY <1>2, <2>2, KeyIs
  <2>4. Ours(r) /\ Travels(<<Target(m.call), Owner(m.call)>>, r)
    BY <1>2, <2>3 DEF Ours, Travels
  <2>5. PICK u \in Actor \X Actor : u = <<Target(m.call), Owner(m.call)>>
    BY <1>2
  <2>6. Range(net'[u]) = Range(Popped(p)[u]) \cup {r} /\ \A q \in (Actor \X Actor) \ {u} : net'[q] = Popped(p)[q]
    <3>1. PICK n : n = Popped(p)
      OBVIOUS
    <3>2. n \in [Actor \X Actor -> Seq(Message)]
      BY <1>0, <3>1, PoppedIs
    <3>3. net' = [n EXCEPT ![u] = Append(n[u], r)]
      BY <2>1, <2>2, <2>5, <3>1
    <3> QED
      BY <2>3, <3>1, <3>2, <3>3, PushedIs
  <2>7. \A q \in Actor \X Actor : \A x \in Range(net'[q]) : x \in Range(net[q]) \/ (Ours(x) /\ Travels(q, x))
    BY <1>4, <2>4, <2>5, <2>6
  <2> QED
    BY <1>3, <2>1, <2>7, MessagesMove
<1> QED
  BY <1>5, <1>6

\* A chunk goes out.
LEMMA MessagesSends ==
  ASSUME AskAssumption, Apart, Base, Messages, NEW a \in Actor, NEW s \in serving[a], Sends(a, s)
  PROVE  Messages'
<1>0. NetTyped /\ AnswersTyped /\ ActorsTyped
  BY DEF Base, Types
<1>1. s \in Serving /\ Ours(s.m) /\ Serves(a, s)
  BY <1>0 DEF AnswersTyped, Messages
<1>2. PICK r : r = ChunkOf(s)
  OBVIOUS
<1>3. /\ s.m.call \in Call /\ r \in Message /\ r.corr = s.m.corr /\ r.call = s.m.call /\ r.key = s.m.key
  BY <1>1, <1>2, ChunkIs
<1>4. Owner(s.m.call) \in Actor
  BY <1>0, <1>3, PlanFacts DEF ActorsTyped
<1>5. PICK u \in Actor \X Actor : u = <<a, Owner(s.m.call)>>
  BY <1>4
<1>6. Ours(r) /\ Travels(u, r)
  BY <1>1, <1>3, <1>5 DEF Ours, Travels, Serves
<1>7. Range(net'[u]) = Range(net[u]) \cup {r} /\ \A q \in (Actor \X Actor) \ {u} : net'[q] = net[q]
  <2>1. net \in [Actor \X Actor -> Seq(Message)] /\ net' = [net EXCEPT ![u] = Append(net[u], r)]
    BY <1>0, <1>2, <1>5 DEF NetTyped, Sends
  <2> QED
    BY <1>3, <2>1, PushedIs
<1>8. \A q \in Actor \X Actor : \A x \in Range(net'[q]) : x \in Range(net[q]) \/ (Ours(x) /\ Travels(q, x))
  BY <1>6, <1>7
<1>9. PICK t : t = [s EXCEPT !.sent = s.sent + 1]
  OBVIOUS
<1>10. t.m = s.m
  BY <1>1, <1>9 DEF Serving
<1>11. serving' = [serving EXCEPT ![a] = (@ \ {s}) \union IF s.sent = Chunks THEN {} ELSE {t}]
  BY <1>9 DEF Sends
<1>12. \A b \in Actor : \A x \in serving'[b] : x \in serving[b] \/ (b = a /\ x = t)
  BY <1>0, <1>11 DEF AnswersTyped
<1>13. Ours(t.m) /\ Serves(a, t)
  BY <1>1, <1>10 DEF Serves
<1>14. UNCHANGED <<plan, counter, corr>>
  BY DEF Sends, calls
<1> QED
  BY <1>8, <1>12, <1>13, <1>14, MessagesMove

\* The actor that answers is destroyed.
LEMMA MessagesReap ==
  ASSUME Base, Messages, NEW a \in Actor, Reap(a)
  PROVE  Messages'
<1>1. AnswersTyped
  BY DEF Base, Types
<1>2. UNCHANGED <<plan, counter, corr, net>> /\ serving' = [serving EXCEPT ![a] = {}]
  BY DEF Reap, calls
<1>3. \A b \in Actor : \A s \in serving'[b] : s \in serving[b]
  BY <1>1, <1>2 DEF AnswersTyped
<1> QED
  BY <1>2, <1>3, MessagesMove

\* A step that gives no call a reply.
LEMMA AnswersKept ==
  ASSUME Answers, \A d \in Call : \/ out'[d] # "ok"
                                  \/ out'[d] = out[d] /\ reply'[d] = reply[d] /\ corr'[d] = corr[d]
  PROVE  Answers'
BY DEF Answers, Answered

\* A delivery gives its call the answer to its present request.
LEMMA AnswersResolves ==
  ASSUME AskAssumption, Apart, Base, Messages, Answers, NEW p \in Actor \X Actor, net[p] # <<>>, Mail,
         NEW c, Resolves(p, c)
  PROVE  Answers'
<1>0. CallsTyped
  BY DEF Base, Types
<1>1. PICK m : m = First(p)
  OBVIOUS
<1>2. c \in Call /\ m.call = c /\ m.corr = corr[c] /\ m \in Message /\ (Kind(c) # "stream" => m.resp = 1)
  BY <1>1, ResolvesIs
<1>3. Resolve(c, m) /\ corr' = corr
  BY <1>1 DEF Resolves, Mail
<1>4. CASE Kind(c) = "stream"
  <2>1. UNCHANGED <<out, reply>>
    BY <1>3, <1>4 DEF Resolve
  <2> QED
    BY <1>3, <2>1, AnswersKept
<1>5. CASE Kind(c) # "stream"
  <2>1. out' = [out EXCEPT ![c] = "ok"] /\ reply' = [reply EXCEPT ![c] = m]
    BY <1>3, <1>5 DEF Resolve
  <2>2. reply'[c] = m /\ \A d \in Call \ {c} : reply'[d] = reply[d] /\ out'[d] = out[d]
    BY <1>0, <1>2, <2>1 DEF CallsTyped
  <2>3. m # NoReply
    <3>1. m.resp = 1 /\ DOMAIN m = {"corr", "call", "key", "resp", "end"}
      BY <1>2, <1>5 DEF Message
    <3>2. DOMAIN NoReply = {"corr"}
      BY DEF NoReply
    <3>3. "call" \in DOMAIN m /\ "call" \notin DOMAIN NoReply
      BY <3>1, <3>2
    <3> QED
      BY <3>3
  <2> QED
    BY <1>2, <1>3, <1>5, <2>2, <2>3 DEF Answers, Answered
<1> QED
  BY <1>4, <1>5

-----------------------------------------------------------------------------
(* Keyed operations *)

\* A step that executes nothing.
LEMMA EffectsKept ==
  ASSUME Effects, UNCHANGED <<plan, cache, ran>>
  PROVE  Effects'
BY PlanStays DEF Effects, Remembered, Once

\* An actor that is destroyed forgets its keys.
LEMMA EffectsReap ==
  ASSUME AskAssumption, Apart, Base, Effects, NEW a \in Actor, Reap(a)
  PROVE  Effects'
<1>0. AnswersTyped /\ ActorsTyped
  BY DEF Base, Types
<1>1. /\ plan' = plan /\ cache' = [cache EXCEPT ![a] = <<>>]
      /\ ran' = [k \in Keys |-> IF k \in Range(cache[a]) THEN 0 ELSE ran[k]]
  BY DEF Reap
<1>2. cache'[a] = <<>> /\ \A b \in Actor \ {a} : cache'[b] = cache[b]
  BY <1>0, <1>1 DEF AnswersTyped
<1>3. ASSUME NEW b \in Actor PROVE Remembered(b)'
  <2>1. CASE b = a
    <3>1. Len(<<>>) = 0 /\ IsInjective(<<>>) /\ Range(<<>>) = {} /\ CacheCap \in Nat
      BY EmptyQueue, Bounds
    <3> QED
      BY <1>2, <2>1, <3>1 DEF Remembered
  <2>2. CASE b # a
    BY <1>1, <1>2, <2>2, PlanStays DEF Effects, Remembered
  <2> QED
    BY <2>1, <2>2
<1>4. ASSUME NEW k \in Keys PROVE Once(k)'
  <2>1. Target(k[1]) \in Actor /\ Target(k[1])' = Target(k[1])
    BY <1>0, <1>1, PlanFacts, PlanStays DEF Keys, ActorsTyped
  <2>2. Once(k) /\ ran[k] \in Nat
    BY <1>0 DEF Effects, AnswersTyped
  <2>3. CASE k \in Range(cache[a])
    BY <1>1, <2>3 DEF Once
  <2>4. CASE k \notin Range(cache[a])
    <3>1. ran'[k] = ran[k]
      BY <1>1, <2>4
    <3>2. ran[k] # 0 => Target(k[1]) # a
      BY <2>2, <2>4 DEF Once
    <3> QED
      BY <1>2, <2>1, <2>2, <3>1, <3>2 DEF Once
  <2> QED
    BY <2>3, <2>4
<1> QED
  BY <1>3, <1>4 DEF Effects

Full(q, k, n) == k \notin Range(q) /\ Len(q) >= n
Put(q, k, n) == Append(Without(IF Full(q, k, n) THEN Tail(q) ELSE q, {k}), k)

\* The dedup_map after a request: its key is the latest, the oldest is gone
\* when there was no room.
LEMMA CachePut ==
  ASSUME NEW q \in Seq(Keys), IsInjective(q), NEW n \in Nat \ {0}, Len(q) <= n, NEW k \in Keys,
         NEW t, t = Put(q, k, n)
  PROVE  /\ t \in Seq(Keys) /\ IsInjective(t) /\ Len(t) <= n
         /\ k \in Range(t) /\ Range(t) \subseteq Range(q) \cup {k}
         /\ Full(q, k, n) => Range(q) \ {Head(q)} \subseteq Range(t)
         /\ ~Full(q, k, n) => Range(q) \subseteq Range(t)
<1>1. Len(q) \in Nat /\ IsFiniteSet(Range(q)) /\ Cardinality(Range(q)) = Len(q)
  BY QueueLength
<1> PICK r : r = IF Full(q, k, n) THEN Tail(q) ELSE q
  OBVIOUS
<1> t = Append(Without(r, {k}), k)
  BY DEF Put
<1>2. /\ r \in Seq(Keys) /\ IsInjective(r) /\ Range(r) \subseteq Range(q)
      /\ Full(q, k, n) => Range(r) = Range(q) \ {Head(q)} /\ Len(r) = Len(q) - 1
      /\ ~Full(q, k, n) => r = q
  <2>1. CASE Full(q, k, n)
    <3>1. q # <<>>
      BY <2>1, <1>1 DEF Full
    <3>2. /\ Tail(q) \in Seq(Keys) /\ IsInjective(Tail(q)) /\ Range(Tail(q)) = Range(q) \ {Head(q)}
      BY <3>1, HeadAndTail
    <3>3. Len(Tail(q)) = Len(q) - 1
      BY <3>1, TailRange
    <3> QED
      BY <2>1, <3>2, <3>3
  <2>2. CASE ~Full(q, k, n)
    BY <2>2
  <2> QED
    BY <2>1, <2>2
<1>3. PICK w : w = Without(r, {k})
  OBVIOUS
<1>4. w \in Seq(Keys) /\ IsInjective(w) /\ Range(w) = Range(r) \ {k}
  <2>1. r \in Seq(Keys) /\ IsInjective(r)
    BY <1>2
  <2> QED
    BY <2>1, <1>3, WithoutIsTrue
<1>5. t \in Seq(Keys) /\ IsInjective(t) /\ Range(t) = Range(w) \cup {k} /\ Len(t) = Len(w) + 1
  <2>1. k \notin Range(w) /\ t = Append(w, k)
    BY <1>3, <1>4
  <2>2. Append(w, k) \in Seq(Keys) /\ IsInjective(Append(w, k)) /\ Range(Append(w, k)) = Range(w) \cup {k}
    BY <1>4, <2>1, AppendedQueue
  <2>3. Len(Append(w, k)) = Len(w) + 1
    BY <1>4
  <2> QED
    BY <2>1, <2>2, <2>3
<1>6. /\ Len(w) \in Nat /\ IsFiniteSet(Range(w)) /\ Cardinality(Range(w)) = Len(w)
      /\ Len(r) \in Nat /\ IsFiniteSet(Range(r)) /\ Cardinality(Range(r)) = Len(r)
  BY <1>2, <1>4, QueueLength
<1>7. Len(t) <= n
  <2>1. CASE k \in Range(r)
    <3>1. Cardinality(Range(r) \ {k}) = Cardinality(Range(r)) - 1
      BY <1>6, <2>1, FS_RemoveElement
    <3>2. Len(r) <= Len(q)
      BY <1>1, <1>2, <1>6
    <3> QED
      BY <1>1, <1>4, <1>5, <1>6, <3>1, <3>2
  <2>2. CASE k \notin Range(r)
    <3>1. Range(w) = Range(r)
      BY <1>4, <2>2
    <3>2. Len(w) = Len(r)
      BY <1>6, <3>1
    <3>3. Len(r) < n
      <4>1. CASE Full(q, k, n)
        BY <1>1, <1>2, <4>1 DEF Full
      <4>2. CASE ~Full(q, k, n)
        BY <1>1, <1>2, <2>2, <4>2 DEF Full
      <4> QED
        BY <4>1, <4>2
    <3> QED
      BY <1>5, <1>6, <3>2, <3>3
  <2> QED
    BY <2>1, <2>2
<1> QED
  BY <1>2, <1>4, <1>5, <1>7

\* A request runs the operation unless its key is known.
LEMMA EffectsReplies ==
  ASSUME AskAssumption, Apart, Base, Messages, Effects, NEW p \in Actor \X Actor, net[p] # <<>>, Mail, Replies(p)
  PROVE  Effects'
<1>0. AnswersTyped /\ ActorsTyped
  BY DEF Base, Types
<1>1. PICK m : m = First(p)
  OBVIOUS
<1>2. PICK a : a = Target(m.call)
  OBVIOUS
<1>3. /\ m \in Message /\ m.call \in Call /\ Ours(m) /\ a \in Actor /\ m.key \in Keys
  BY <1>1, <1>2, RepliesIs, KeyIs
<1>4. Answer(a, m, Popped(p)) /\ plan' = plan
  BY <1>1, <1>2 DEF Replies, Mail
<1>5. CASE Kind(m.call) # "retry"
  <2>1. UNCHANGED <<cache, ran>>
    BY <1>4, <1>5 DEF Answer, Execute
  <2> QED
    BY <1>4, <2>1, EffectsKept
<1>6. CASE Kind(m.call) = "retry"
  <2>1. PICK q : q = cache[a]
    OBVIOUS
  <2>2. PICK k0 \in Keys : k0 = m.key
    BY <1>3
  <2>3. PICK t : t = Put(q, k0, CacheCap)
    OBVIOUS
  <2>4. Execute(a, m)
    BY <1>4, <1>6 DEF Answer
  <2>6. cache' = [cache EXCEPT ![a] = t]
    BY <1>6, <2>1, <2>2, <2>3, <2>4 DEF Execute, Full, Put
  <2>7. ran' = [k \in Keys |-> IF k = k0 /\ k0 \notin Range(q) THEN ran[k] + 1
                               ELSE IF Full(q, k0, CacheCap) /\ k = Head(q) THEN 0 ELSE ran[k]]
    BY <1>6, <2>1, <2>2, <2>4 DEF Execute, Full, Put
  <2>8. q \in Seq(Keys) /\ Remembered(a) /\ IsInjective(q) /\ Len(q) <= CacheCap /\ CacheCap \in Nat \ {0}
    BY <1>0, <1>3, <2>1, Bounds DEF AnswersTyped, Effects, Remembered
  <2>9. /\ t \in Seq(Keys) /\ IsInjective(t) /\ Len(t) <= CacheCap
        /\ k0 \in Range(t) /\ Range(t) \subseteq Range(q) \cup {k0}
        /\ Full(q, k0, CacheCap) => Range(q) \ {Head(q)} \subseteq Range(t)
        /\ ~Full(q, k0, CacheCap) => Range(q) \subseteq Range(t)
    <3>1. PICK n \in Nat \ {0} : n = CacheCap
      BY <2>8
    <3>2. IsInjective(q) /\ Len(q) <= n /\ q \in Seq(Keys)
      BY <2>8, <3>1
    <3>3. /\ t \in Seq(Keys) /\ IsInjective(t) /\ Len(t) <= n
          /\ k0 \in Range(t) /\ Range(t) \subseteq Range(q) \cup {k0}
          /\ Full(q, k0, n) => Range(q) \ {Head(q)} \subseteq Range(t)
          /\ ~Full(q, k0, n) => Range(q) \subseteq Range(t)
      BY <2>3, <3>1, <3>2, CachePut
    <3> QED
      BY <3>1, <3>3
  <2>10. cache'[a] = t /\ \A b \in Actor \ {a} : cache'[b] = cache[b]
    BY <1>0, <1>3, <2>6 DEF AnswersTyped
  <2>11. \A c : Target(c)' = Target(c)
    BY <1>4, PlanStays
  <2>12. Target(k0[1]) = a
    BY <1>2, <1>3, <2>2 DEF Ours
  <2>13. ASSUME NEW b \in Actor PROVE Remembered(b)'
    <3>1. CASE b = a
      <4>1. \A k \in Range(q) : Target(k[1]) = a
        BY <2>1, <2>8 DEF Remembered
      <4>2. \A k \in Range(t) : Target(k[1]) = a
        BY <2>9, <2>12, <4>1
      <4> QED
        BY <2>9, <2>10, <2>11, <3>1, <4>2 DEF Remembered
    <3>2. CASE b # a
      BY <2>10, <2>11, <3>2 DEF Effects, Remembered
    <3> QED
      BY <3>1, <3>2
  <2>14. ASSUME NEW k \in Keys PROVE Once(k)'
    <3>1. Once(k) /\ ran[k] \in Nat /\ Target(k[1]) \in Actor
      BY <1>0, PlanFacts DEF Effects, AnswersTyped, ActorsTyped, Keys
    <3>2. CASE k = k0 /\ k0 \notin Range(q)
      <4>1. ran[k] = 0
        BY <2>1, <2>12, <3>1, <3>2 DEF Once
      <4>2. ran'[k] = 1
        BY <2>7, <3>2, <4>1
      <4> QED
        BY <2>9, <2>10, <2>11, <2>12, <3>2, <4>2 DEF Once
    <3>3. CASE ~(k = k0 /\ k0 \notin Range(q)) /\ Full(q, k0, CacheCap) /\ k = Head(q)
      BY <2>7, <3>3 DEF Once
    <3>4. CASE ~(k = k0 /\ k0 \notin Range(q)) /\ ~(Full(q, k0, CacheCap) /\ k = Head(q))
      <4>1. ran'[k] = ran[k]
        BY <2>7, <3>4
      <4>2. ran[k] # 0 => k \in Range(cache'[Target(k[1])])
        <5>1. SUFFICES ASSUME ran[k] # 0 PROVE k \in Range(cache'[Target(k[1])])
          OBVIOUS
        <5>2. k \in Range(cache[Target(k[1])])
          BY <3>1, <5>1 DEF Once
        <5>3. CASE Target(k[1]) = a
          BY <2>1, <2>9, <2>10, <3>4, <5>2, <5>3
        <5>4. CASE Target(k[1]) # a
          BY <2>10, <3>1, <5>2, <5>4
        <5> QED
          BY <5>3, <5>4
      <4> QED
        BY <2>11, <3>1, <4>1, <4>2 DEF Once
    <3> QED
      BY <3>2, <3>3, <3>4
  <2> QED
    BY <2>13, <2>14 DEF Effects
<1> QED
  BY <1>5, <1>6

-----------------------------------------------------------------------------
(* Streams: what the steps make of a consumer's chunks *)

(* The messages with this id in the queue c are in b, e places later.      *)
Sub(c, b, id, e) == \A i \in DOMAIN c : Of(id, c[i]) => i + e \in DOMAIN b /\ b[i + e] = c[i]

(* And all of them are.                                                    *)
All(c, b, id, e) == \A j \in DOMAIN b : Of(id, b[j]) => j - e \in DOMAIN c /\ c[j - e] = b[j]

\* A queue that loses its first, gets one more or stays.
LEMMA SubQueues ==
  ASSUME NEW b \in Seq(Message), NEW id
  PROVE  /\ Sub(b, b, id, 0) /\ All(b, b, id, 0)
         /\ b # <<>> => Sub(Tail(b), b, id, 1) /\ (~Of(id, Head(b)) => All(Tail(b), b, id, 1))
         /\ \A m \in Message : ~Of(id, m) => Sub(Append(b, m), b, id, 0) /\ All(Append(b, m), b, id, 0)
<1>1. Len(b) \in Nat /\ DOMAIN b = 1..Len(b)
  OBVIOUS
<1>2. Sub(b, b, id, 0) /\ All(b, b, id, 0)
  BY <1>1 DEF Sub, All
<1>3. ASSUME b # <<>> PROVE Sub(Tail(b), b, id, 1) /\ (~Of(id, Head(b)) => All(Tail(b), b, id, 1))
  <2>1. /\ Len(Tail(b)) = Len(b) - 1 /\ DOMAIN Tail(b) = 1..(Len(b) - 1)
        /\ \A i \in 1..(Len(b) - 1) : Tail(b)[i] = b[i + 1]
        /\ Head(b) = b[1] /\ 1 \in DOMAIN b
    BY <1>3, TailRange
  <2>2. Sub(Tail(b), b, id, 1)
    BY <1>1, <2>1 DEF Sub
  <2>3. ASSUME ~Of(id, Head(b)), NEW j \in DOMAIN b, Of(id, b[j])
        PROVE  j - 1 \in DOMAIN Tail(b) /\ Tail(b)[j - 1] = b[j]
    <3>1. j # 1
      BY <2>1, <2>3
    <3>2. j - 1 \in 1..(Len(b) - 1)
      BY <1>1, <3>1
    <3>3. Tail(b)[j - 1] = b[(j - 1) + 1] /\ (j - 1) + 1 = j
      BY <1>1, <2>1, <3>2
    <3> QED
      BY <2>1, <3>2, <3>3
  <2> QED
    BY <2>2, <2>3 DEF All
<1>4. ASSUME NEW m \in Message, ~Of(id, m)
      PROVE  Sub(Append(b, m), b, id, 0) /\ All(Append(b, m), b, id, 0)
  <2>1. /\ DOMAIN Append(b, m) = 1..(Len(b) + 1) /\ Append(b, m)[Len(b) + 1] = m
        /\ \A i \in 1..Len(b) : Append(b, m)[i] = b[i]
    BY AppendedRange
  <2>2. \A i \in DOMAIN Append(b, m) : Of(id, Append(b, m)[i]) => i \in 1..Len(b)
    <3>1. ASSUME NEW i \in DOMAIN Append(b, m), Of(id, Append(b, m)[i]) PROVE i \in 1..Len(b)
      <4>1. i # Len(b) + 1
        BY <1>4, <2>1, <3>1
      <4> QED
        BY <1>1, <2>1, <4>1
    <3> QED
      BY <3>1
  <2>3. ASSUME NEW i \in DOMAIN Append(b, m), Of(id, Append(b, m)[i])
        PROVE  i + 0 \in DOMAIN b /\ b[i + 0] = Append(b, m)[i]
    <3>1. i \in 1..Len(b) /\ i + 0 = i
      BY <1>1, <2>2, <2>3
    <3> QED
      BY <1>1, <2>1, <3>1
  <2>4. ASSUME NEW j \in DOMAIN b PROVE j - 0 \in DOMAIN Append(b, m) /\ Append(b, m)[j - 0] = b[j]
    <3>1. j - 0 = j /\ j \in 1..(Len(b) + 1)
      BY <1>1
    <3> QED
      BY <1>1, <2>1, <3>1
  <2> QED
    BY <2>3, <2>4 DEF Sub, All
<1> QED
  BY <1>2, <1>3, <1>4

\* Messages that leave, and others that come, take nothing from what is
\* pending.
LEMMA PendingKept ==
  ASSUME NEW b \in Seq(Message), NEW f \in Seq(Message), NEW S, NEW id, NEW g, NEW r,
         Pending(f, b, S, id, g, r),
         NEW c \in Seq(Message), NEW h \in Seq(Message), NEW T,
         NEW e \in Nat, NEW d \in Nat, Sub(c, b, id, e), Sub(h, f, id, d),
         \A s \in T : Of(id, s.m) => s \in S
  PROVE  Pending(h, c, T, id, g, r)
<1>0. DOMAIN b \subseteq Nat /\ DOMAIN c \subseteq Nat /\ DOMAIN f \subseteq Nat /\ DOMAIN h \subseteq Nat
  OBVIOUS
<1>1. InOrder(c, id, g, r)
  <2>1. ASSUME NEW i \in DOMAIN c, Of(id, c[i])
        PROVE Number(c[i]) \in 1..(Chunks + 1) /\ Above(Number(c[i]), g, r)
    BY <2>1 DEF Sub, Pending, InOrder
  <2>2. ASSUME NEW i \in DOMAIN c, NEW j \in DOMAIN c, i < j, Of(id, c[i]), Of(id, c[j])
        PROVE  Number(c[i]) < Number(c[j])
    <3>1. i + e \in DOMAIN b /\ b[i + e] = c[i] /\ j + e \in DOMAIN b /\ b[j + e] = c[j]
      BY <2>2 DEF Sub
    <3>2. i + e < j + e
      BY <1>0, <2>2
    <3> QED
      BY <2>2, <3>1, <3>2 DEF Pending, InOrder
  <2> QED
    BY <2>1, <2>2 DEF InOrder
<1>2. Sent(c, T, id, g, r)
  BY DEF Sub, Pending, Sent
<1>3. Asked(h, c, T, id, g, r)
  <2>1. ASSUME NEW i \in DOMAIN h, Of(id, h[i]), NEW j \in DOMAIN h, Of(id, h[j]) PROVE i = j
    <3>1. i + d \in DOMAIN f /\ f[i + d] = h[i] /\ j + d \in DOMAIN f /\ f[j + d] = h[j]
      BY <2>1 DEF Sub
    <3>2. i + d = j + d
      BY <2>1, <3>1 DEF Pending, Asked
    <3> QED
      BY <1>0, <3>2
  <2>2. ASSUME NEW i \in DOMAIN h, Of(id, h[i])
        PROVE  /\ \A j \in DOMAIN c : ~Of(id, c[j])
               /\ \A s \in T : ~Of(id, s.m)
               /\ g = <<>> /\ r.queue = <<>>
    <3>1. i + d \in DOMAIN f /\ f[i + d] = h[i]
      BY <2>2 DEF Sub
    <3> QED
      BY <2>2, <3>1 DEF Sub, Pending, Asked
  <2> QED
    BY <2>1, <2>2 DEF Asked
<1> QED
  BY <1>1, <1>2, <1>3 DEF Pending

\* And nothing is missing, when none of this id leaves.
LEMMA NoGapKept ==
  ASSUME NEW b \in Seq(Message), NEW S, NEW id, NEW g, NEW r, NoGap(b, S, id, g, r),
         NEW c \in Seq(Message), NEW T, NEW e \in Nat, Sub(c, b, id, e), All(c, b, id, e),
         \A s \in T : Of(id, s.m) => s \in S
  PROVE  NoGap(c, T, id, g, r)
<1>0. DOMAIN b = 1..Len(b) /\ Len(b) \in Nat /\ DOMAIN c = 1..Len(c) /\ Len(c) \in Nat
  OBVIOUS
<1>1. ASSUME NEW i \in DOMAIN c, Of(id, c[i]), NEW n \in (Reached(g, r) + 1)..(Number(c[i]) - 1)
      PROVE  \E j \in 1..(i - 1) : Of(id, c[j]) /\ Number(c[j]) = n
  <2>1. i + e \in DOMAIN b /\ b[i + e] = c[i]
    BY <1>1 DEF Sub
  <2>2. PICK j \in 1..((i + e) - 1) : Of(id, b[j]) /\ Number(b[j]) = n
    BY <1>1, <2>1 DEF NoGap
  <2>3. j \in DOMAIN b
    BY <1>0, <2>1
  <2>4. j - e \in DOMAIN c /\ c[j - e] = b[j]
    BY <2>2, <2>3 DEF All
  <2>5. j - e \in 1..(i - 1)
    BY <1>0, <2>4
  <2> QED
    BY <2>2, <2>4, <2>5
<1>2. ASSUME NEW s \in T, Of(id, s.m), NEW n \in (Reached(g, r) + 1)..s.sent
      PROVE  \E j \in DOMAIN c : Of(id, c[j]) /\ Number(c[j]) = n
  <2>1. PICK j \in DOMAIN b : Of(id, b[j]) /\ Number(b[j]) = n
    BY <1>2 DEF NoGap
  <2> QED
    BY <2>1 DEF All
<1> QED
  BY <1>1, <1>2 DEF NoGap

\* One moves from one count to the other.
LEMMA SameSum ==
  ASSUME NEW i \in Nat, NEW j \in Nat
  PROVE  (i + 1) + (j - 1) = i + j
OBVIOUS

(* h and t: g and r when the consumer has taken the first of its buffer.  *)
Takes(g, r, h, t) ==
    /\ r.queue # <<>> /\ h = Append(g, Head(r.queue))
    /\ t.queue = Tail(r.queue) /\ t.done = r.done /\ t.dropped = r.dropped

\* What has come stays so.
LEMMA TakeKeeps ==
  ASSUME NEW g \in Seq(Nat), NEW r \in Stream, Collected(g, r),
         NEW h, NEW t \in Stream, Takes(g, r, h, t)
  PROVE  /\ Collected(h, t) /\ (Whole(g, r) => Whole(h, t))
         /\ Reached(h, t) = Reached(g, r)
         /\ \A n : Above(n, g, r) => Above(n, h, t)
<1> PICK q : q = r.queue
  OBVIOUS
<1> PICK u : u = t.queue
  OBVIOUS
<1>0. q \in Seq(Nat) /\ q # <<>> /\ u = Tail(q)
  BY DEF Stream, Takes
<1>1. /\ Len(q) \in Nat /\ DOMAIN q = 1..Len(q) /\ Len(q) >= 1 /\ Head(q) = q[1] /\ 1 \in DOMAIN q
      /\ DOMAIN Tail(q) = 1..(Len(q) - 1) /\ Len(Tail(q)) = Len(q) - 1
      /\ \A i \in 1..(Len(q) - 1) : Tail(q)[i] = q[i + 1]
      /\ Head(q) \in Nat
  BY <1>0, TailRange
<1>2. /\ Len(g) \in Nat /\ DOMAIN g = 1..Len(g) /\ DOMAIN h = 1..(Len(g) + 1) /\ Len(h) = Len(g) + 1
      /\ h[Len(g) + 1] = q[1] /\ \A i \in 1..Len(g) : h[i] = g[i]
  BY <1>1, AppendedRange DEF Takes
<1>3. DOMAIN u = 1..(Len(q) - 1) /\ Len(u) = Len(q) - 1 /\ \A i \in 1..(Len(q) - 1) : u[i] = q[i + 1]
  BY <1>0, <1>1
<1>4. /\ \A i, j \in DOMAIN g : i < j => g[i] < g[j]
      /\ \A i, j \in DOMAIN q : i < j => q[i] < q[j]
      /\ \A i \in DOMAIN g, j \in DOMAIN q : g[i] < q[j]
  BY DEF Collected, Increases
<1>5. Increases(h)
  <2>1. ASSUME NEW i \in DOMAIN h, NEW j \in DOMAIN h, i < j PROVE h[i] < h[j]
    <3>1. i \in 1..Len(g)
      BY <1>2, <2>1
    <3>2. CASE j = Len(g) + 1
      BY <1>1, <1>2, <1>4, <3>1, <3>2
    <3>3. CASE j # Len(g) + 1
      <4>1. j \in 1..Len(g)
        BY <1>2, <3>3
      <4> QED
        BY <1>2, <1>4, <2>1, <3>1, <4>1
    <3> QED
      BY <3>2, <3>3
  <2> QED
    BY <2>1 DEF Increases
<1>6. Increases(u)
  <2>1. ASSUME NEW i \in 1..(Len(q) - 1), NEW j \in 1..(Len(q) - 1), i < j PROVE q[i + 1] < q[j + 1]
    <3>1. i + 1 \in DOMAIN q /\ j + 1 \in DOMAIN q /\ i + 1 < j + 1
      BY <1>1, <2>1
    <3> QED
      BY <1>4, <3>1
  <2> QED
    <3>1. ASSUME NEW i \in DOMAIN u, NEW j \in DOMAIN u, i < j PROVE u[i] < u[j]
      <4>1. i \in 1..(Len(q) - 1) /\ j \in 1..(Len(q) - 1)
        BY <1>3
      <4>2. u[i] = q[i + 1] /\ u[j] = q[j + 1]
        BY <1>3, <4>1
      <4> QED
        BY <2>1, <3>1, <4>1, <4>2
    <3> QED
      BY <3>1 DEF Increases
<1>7. ASSUME NEW i \in DOMAIN h, NEW j \in DOMAIN u PROVE h[i] < u[j]
  <2>1. j + 1 \in DOMAIN q /\ u[j] = q[j + 1] /\ 1 < j + 1
    BY <1>1, <1>3
  <2>2. CASE i = Len(g) + 1
    BY <1>1, <1>2, <1>4, <2>1, <2>2
  <2>3. CASE i # Len(g) + 1
    <3>1. i \in DOMAIN g /\ h[i] = g[i]
      BY <1>2, <2>3
    <3> QED
      BY <1>4, <2>1, <3>1
  <2> QED
    BY <2>2, <2>3
<1>8. Reached(h, t) = Reached(g, r)
  <2>1. Reached(h, t) = Len(h) + Len(u) /\ Reached(g, r) = Len(g) + Len(q)
    BY DEF Reached
  <2>2. Len(g) \in Nat /\ Len(q) \in Nat /\ Len(h) = Len(g) + 1 /\ Len(u) = Len(q) - 1
    BY <1>1, <1>2, <1>3
  <2>3. (Len(g) + 1) + (Len(q) - 1) = Len(g) + Len(q)
    BY <2>2, SameSum
  <2> QED
    BY <2>1, <2>2, <2>3
<1>9. ASSUME Whole(g, r) PROVE Whole(h, t)
  <2>1. /\ \A i \in DOMAIN g : g[i] = i
        /\ \A i \in DOMAIN q : q[i] = Len(g) + i
        /\ r.done /\ ~r.dropped => Reached(g, r) = Chunks
    BY <1>9 DEF Whole
  <2>2. ASSUME NEW i \in DOMAIN h PROVE h[i] = i
    BY <1>1, <1>2, <2>1
  <2>3. ASSUME NEW i \in DOMAIN u PROVE u[i] = Len(h) + i
    <3>1. i + 1 \in DOMAIN q /\ u[i] = q[i + 1] /\ i \in Nat
      BY <1>1, <1>3
    <3> QED
      <4>1. u[i] = Len(g) + (i + 1)
        BY <2>1, <3>1
      <4>2. Len(g) + (i + 1) = Len(h) + i
        BY <1>2, <3>1
      <4> QED
        BY <4>1, <4>2
  <2> QED
    BY <1>8, <2>1, <2>2, <2>3 DEF Whole, Takes
<1>10. ASSUME NEW n, Above(n, g, r) PROVE Above(n, h, t)
  <2>1. /\ \A i \in DOMAIN g : g[i] < n
        /\ \A i \in DOMAIN q : q[i] < n
    BY <1>10 DEF Above
  <2>2. ASSUME NEW i \in DOMAIN h PROVE h[i] < n
    BY <1>1, <1>2, <2>1
  <2>3. ASSUME NEW i \in DOMAIN u PROVE u[i] < n
    <3>1. i + 1 \in DOMAIN q /\ u[i] = q[i + 1]
      BY <1>1, <1>3
    <3> QED
      BY <2>1, <3>1
  <2> QED
    BY <2>2, <2>3 DEF Above
<1> QED
  BY <1>5, <1>6, <1>7, <1>8, <1>9, <1>10 DEF Collected

\* What is pending is pending after it.
LEMMA PendingTake ==
  ASSUME NEW b \in Seq(Message), NEW f \in Seq(Message), NEW S, NEW id, NEW g, NEW r, NEW h, NEW t,
         Pending(f, b, S, id, g, r), r.queue # <<>>,
         Reached(h, t) = Reached(g, r), \A n : Above(n, g, r) => Above(n, h, t)
  PROVE  /\ Pending(f, b, S, id, h, t)
         /\ NoGap(b, S, id, g, r) => NoGap(b, S, id, h, t)
<1>1. InOrder(b, id, h, t)
  BY DEF Pending, InOrder
<1>2. Sent(b, S, id, h, t)
  BY DEF Pending, Sent
<1>3. Asked(f, b, S, id, h, t)
  BY DEF Pending, Asked
<1>4. NoGap(b, S, id, g, r) => NoGap(b, S, id, h, t)
  BY DEF NoGap
<1> QED
  BY <1>1, <1>2, <1>3, <1>4 DEF Pending

\* A whole stream has reached what is not above.
LEMMA WholeReached ==
  ASSUME NEW g \in Seq(Nat), NEW r \in Stream, Whole(g, r), NEW n \in Nat \ {0}, Above(n, g, r)
  PROVE  Reached(g, r) \in Nat /\ Reached(g, r) < n
<1>1. /\ Len(g) \in Nat /\ DOMAIN g = 1..Len(g) /\ Len(r.queue) \in Nat /\ DOMAIN r.queue = 1..Len(r.queue)
  BY DEF Stream
<1>2. CASE Len(r.queue) > 0
  <2>1. Len(r.queue) \in DOMAIN r.queue
    BY <1>1, <1>2
  <2>2. r.queue[Len(r.queue)] = Len(g) + Len(r.queue) /\ r.queue[Len(r.queue)] < n
    BY <2>1 DEF Whole, Above
  <2> QED
    BY <1>1, <2>2 DEF Reached
<1>3. CASE Len(r.queue) = 0 /\ Len(g) > 0
  <2>1. Len(g) \in DOMAIN g
    BY <1>1, <1>3
  <2>2. g[Len(g)] = Len(g) /\ g[Len(g)] < n
    BY <2>1 DEF Whole, Above
  <2> QED
    BY <1>1, <1>3, <2>2 DEF Reached
<1>4. CASE Len(r.queue) = 0 /\ Len(g) = 0
  BY <1>4 DEF Reached
<1> QED
  BY <1>1, <1>2, <1>3, <1>4

\* With nothing missing, the first message on its way is the next one.
LEMMA NextIsNext ==
  ASSUME AskAssumption, NEW g \in Seq(Nat), NEW r \in Stream, Whole(g, r), NEW b \in Seq(Message), NEW id, NEW S,
         InOrder(b, id, g, r), NoGap(b, S, id, g, r), b # <<>>, Of(id, b[1])
  PROVE  Number(b[1]) = Reached(g, r) + 1 /\ Reached(g, r) \in Nat
<1>1. 1 \in DOMAIN b /\ Chunks \in Nat
  BY Bounds
<1>2. Number(b[1]) \in 1..(Chunks + 1) /\ Above(Number(b[1]), g, r)
  BY <1>1 DEF InOrder
<1>3. Number(b[1]) \in Nat \ {0}
  BY <1>1, <1>2
<1>4. Reached(g, r) \in Nat /\ Reached(g, r) < Number(b[1])
  BY <1>2, <1>3, WholeReached
<1>5. \A n \in (Reached(g, r) + 1)..(Number(b[1]) - 1) : \E j \in 1..(1 - 1) : Number(b[j]) = n
  BY <1>1 DEF NoGap
<1>6. \A n \in (Reached(g, r) + 1)..(Number(b[1]) - 1) : FALSE
  BY <1>5
<1>7. ~(Reached(g, r) + 1 <= Number(b[1]) - 1)
  <2>1. SUFFICES ASSUME Reached(g, r) + 1 <= Number(b[1]) - 1 PROVE FALSE
    OBVIOUS
  <2>2. Reached(g, r) + 1 \in (Reached(g, r) + 1)..(Number(b[1]) - 1)
    BY <1>3, <1>4, <2>1
  <2> QED
    BY <1>6, <2>2
<1> QED
  BY <1>3, <1>4, <1>7

\* Positions before the last.
LEMMA BeforeLast ==
  ASSUME NEW n \in Nat, NEW i \in 1..(n + 1), i # n + 1
  PROVE  i \in 1..n
OBVIOUS

\* Numbers after the next.
LEMMA AfterNext ==
  ASSUME NEW k \in Nat, NEW l \in Int, NEW n \in ((k + 1) + 1)..l
  PROVE  n \in (k + 1)..l /\ n # k + 1
OBVIOUS

\* A chunk, or the end, is delivered to an open stream.
LEMMA DeliverKeeps ==
  ASSUME AskAssumption, NEW g \in Seq(Nat), NEW r \in Stream, Len(r.queue) <= StreamCap, ~r.done,
         NEW b \in Seq(Message), NEW f \in Seq(Message), NEW S \in SUBSET Serving, NEW id,
         Collected(g, r), Pending(f, b, S, id, g, r), b # <<>>, Of(id, b[1]),
         NEW t, t = Delivered(r, b[1])
  PROVE  /\ Collected(g, t)
         /\ Whole(g, r) /\ NoGap(b, S, id, g, r) => Whole(g, t)
         /\ ~t.done => Pending(f, Tail(b), S, id, g, t)
         /\ ~t.done /\ Whole(g, r) /\ NoGap(b, S, id, g, r) => NoGap(Tail(b), S, id, g, t)
<1> PICK m : m = b[1]
  OBVIOUS
<1> PICK q : q = r.queue
  OBVIOUS
<1>1. /\ m \in Message /\ Len(b) \in Nat /\ DOMAIN b = 1..Len(b) /\ 1 \in DOMAIN b /\ Tail(b) \in Seq(Message)
      /\ DOMAIN Tail(b) = 1..(Len(b) - 1) /\ Len(Tail(b)) = Len(b) - 1
      /\ \A i \in 1..(Len(b) - 1) : Tail(b)[i] = b[i + 1]
  BY TailRange
<1>2. /\ t \in Stream
      /\ m.end => t.done /\ t.queue = q /\ t.dropped = r.dropped
      /\ ~m.end /\ Len(q) >= StreamCap => t.done /\ t.dropped /\ t.queue = q
      /\ ~m.end /\ ~(Len(q) >= StreamCap) =>
            ~t.done /\ t.dropped = r.dropped /\ t.queue = Append(q, m.resp)
  BY <1>1, DeliveredIs
<1>3. m.resp \in Nat /\ m.end \in BOOLEAN /\ q \in Seq(Nat)
  BY <1>1 DEF Message, Stream
<1>4. InOrder(b, id, g, r) /\ Sent(b, S, id, g, r) /\ Asked(f, b, S, id, g, r)
  BY DEF Pending
<1>5. Number(m) \in 1..(Chunks + 1) /\ Above(Number(m), g, r) /\ Chunks \in Nat
  BY <1>1, <1>4, Bounds DEF InOrder
<1>6. CASE m.end
  <2>1. Collected(g, t)
    BY <1>2, <1>6 DEF Collected
  <2>2. ASSUME Whole(g, r), NoGap(b, S, id, g, r) PROVE Whole(g, t)
    <3>1. Number(m) = Reached(g, r) + 1 /\ Reached(g, r) \in Nat
      BY <1>4, <2>2, NextIsNext
    <3>2. Number(m) = Chunks + 1
      BY <1>6 DEF Number
    <3>3. Reached(g, r) = Chunks
      BY <1>5, <3>1, <3>2
    <3>4. Reached(g, t) = Chunks
      BY <1>2, <1>6, <3>3 DEF Reached
    <3> QED
      BY <1>2, <1>6, <2>2, <3>4 DEF Whole
  <2> QED
    BY <1>2, <1>6, <2>1, <2>2
<1>7. CASE ~m.end /\ Len(q) >= StreamCap
  <2>1. Collected(g, t)
    BY <1>2, <1>7 DEF Collected
  <2>2. Whole(g, r) => Whole(g, t)
    BY <1>2, <1>7 DEF Whole
  <2> QED
    BY <1>2, <1>7, <2>1, <2>2
<1>8. CASE ~m.end /\ ~(Len(q) >= StreamCap)
  <2> PICK u : u = t.queue
    OBVIOUS
  <2>1. /\ u = Append(q, m.resp) /\ Number(m) = m.resp /\ ~t.done
    BY <1>2, <1>8 DEF Number
  <2>2. /\ Len(q) \in Nat /\ DOMAIN q = 1..Len(q) /\ DOMAIN u = 1..(Len(q) + 1) /\ Len(u) = Len(q) + 1
        /\ u[Len(q) + 1] = m.resp /\ \A i \in 1..Len(q) : u[i] = q[i]
    BY <1>3, <2>1, AppendedRange
  <2>11. ASSUME NEW i \in DOMAIN u, i # Len(q) + 1 PROVE i \in 1..Len(q) /\ i \in DOMAIN q /\ u[i] = q[i]
    <3>1. i \in 1..(Len(q) + 1) /\ Len(q) \in Nat
      BY <2>2, <2>11
    <3>2. i \in 1..Len(q)
      BY <2>11, <3>1, BeforeLast
    <3> QED
      BY <2>2, <3>2
  <2>3. /\ \A i \in DOMAIN g : g[i] < m.resp
        /\ \A i \in DOMAIN q : q[i] < m.resp
    BY <1>5, <2>1 DEF Above
  <2>4. /\ Increases(g) /\ \A i, j \in DOMAIN q : i < j => q[i] < q[j]
        /\ \A i \in DOMAIN g, j \in DOMAIN q : g[i] < q[j]
    BY DEF Collected, Increases
  <2>5. Collected(g, t)
    <3>1. ASSUME NEW i \in DOMAIN u, NEW j \in DOMAIN u, i < j PROVE u[i] < u[j]
      <4>1. i \in 1..Len(q)
        BY <2>2, <3>1
      <4>2. CASE j = Len(q) + 1
        BY <2>2, <2>3, <4>1, <4>2
      <4>3. CASE j # Len(q) + 1
        <5>1. j \in 1..Len(q)
          BY <2>11, <4>3
        <5> QED
          BY <2>2, <2>4, <3>1, <4>1, <5>1
      <4> QED
        BY <4>2, <4>3
    <3>2. ASSUME NEW i \in DOMAIN g, NEW j \in DOMAIN u PROVE g[i] < u[j]
      <4>1. CASE j = Len(q) + 1
        BY <2>2, <2>3, <4>1
      <4>2. CASE j # Len(q) + 1
        <5>1. j \in 1..Len(q)
          BY <2>11, <4>2
        <5> QED
          BY <2>2, <2>4, <5>1
      <4> QED
        BY <4>1, <4>2
    <3>3. Increases(u)
      BY <3>1 DEF Increases
    <3> QED
      BY <2>4, <3>2, <3>3 DEF Collected
  <2>6. \A n \in Nat : n > m.resp /\ Above(n, g, r) => Above(n, g, t)
    <3>1. ASSUME NEW n \in Nat, n > m.resp, Above(n, g, r) PROVE Above(n, g, t)
      <4>1. ASSUME NEW i \in DOMAIN u PROVE u[i] < n
        <5>1. CASE i = Len(q) + 1
          BY <1>3, <2>2, <3>1, <5>1
        <5>2. CASE i # Len(q) + 1
          <6>1. i \in DOMAIN q /\ u[i] = q[i]
            BY <2>11, <5>2
          <6> QED
            BY <3>1, <6>1 DEF Above
        <5> QED
          BY <5>1, <5>2
      <4> QED
        BY <3>1, <4>1 DEF Above
    <3> QED
      BY <3>1
  <2>7. InOrder(Tail(b), id, g, t)
    <3>1. ASSUME NEW i \in DOMAIN Tail(b), Of(id, Tail(b)[i])
          PROVE  /\ i + 1 \in DOMAIN b /\ Tail(b)[i] = b[i + 1] /\ 1 < i + 1 /\ i \in Nat
                 /\ Number(b[i + 1]) > m.resp /\ Number(b[i + 1]) \in 1..(Chunks + 1)
                 /\ Above(Number(b[i + 1]), g, t)
      <4>1. i + 1 \in DOMAIN b /\ Tail(b)[i] = b[i + 1] /\ 1 < i + 1 /\ i \in Nat
        BY <1>1
      <4>2. Number(b[1]) < Number(b[i + 1])
        BY <1>1, <1>4, <3>1, <4>1 DEF InOrder
      <4>3. Number(b[i + 1]) \in 1..(Chunks + 1) /\ Above(Number(b[i + 1]), g, r)
        BY <1>4, <3>1, <4>1 DEF InOrder
      <4>4. Number(b[i + 1]) \in Nat /\ Number(b[i + 1]) > m.resp
        BY <1>3, <1>5, <2>1, <4>2, <4>3
      <4> QED
        BY <2>6, <4>1, <4>3, <4>4
    <3>2. ASSUME NEW i \in DOMAIN Tail(b), NEW j \in DOMAIN Tail(b), i < j,
                 Of(id, Tail(b)[i]), Of(id, Tail(b)[j])
          PROVE  Number(Tail(b)[i]) < Number(Tail(b)[j])
      <4>1. /\ i + 1 \in DOMAIN b /\ Tail(b)[i] = b[i + 1] /\ j + 1 \in DOMAIN b /\ Tail(b)[j] = b[j + 1]
            /\ i + 1 < j + 1
        BY <3>1, <3>2
      <4> QED
        BY <1>4, <3>2, <4>1 DEF InOrder
    <3> QED
      BY <3>1, <3>2 DEF InOrder
  <2>8. Sent(Tail(b), S, id, g, t)
    <3>1. ASSUME NEW s \in S, Of(id, s.m)
          PROVE  /\ Above(s.sent + 1, g, t)
                 /\ \A i \in DOMAIN Tail(b) : Of(id, Tail(b)[i]) => Number(Tail(b)[i]) <= s.sent
                 /\ \A x \in S : Of(id, x.m) => s = x
      <4>1. Number(m) <= s.sent /\ Above(s.sent + 1, g, r) /\ s.sent \in Nat
        BY <1>1, <1>4, <1>5, <3>1 DEF Sent, Serving
      <4>2. Above(s.sent + 1, g, t)
        BY <1>3, <2>1, <2>6, <4>1
      <4> QED
        BY <1>1, <1>4, <3>1, <4>2 DEF Sent
    <3> QED
      BY <3>1 DEF Sent
  <2>9. Asked(f, Tail(b), S, id, g, t)
    BY <1>1, <1>4 DEF Asked
  <2>10. ASSUME Whole(g, r), NoGap(b, S, id, g, r)
         PROVE  Whole(g, t) /\ NoGap(Tail(b), S, id, g, t)
    <3>1. m.resp = Reached(g, r) + 1 /\ Reached(g, r) \in Nat
      BY <1>4, <2>1, <2>10, NextIsNext
    <3>2. Reached(g, r) = Len(g) + Len(q) /\ Len(g) \in Nat
      BY DEF Reached
    <3>3. Reached(g, t) = Reached(g, r) + 1
      <4>1. Reached(g, t) = Len(g) + Len(u)
        BY DEF Reached
      <4> QED
        BY <2>2, <3>2, <4>1
    <3>4. ASSUME NEW i \in DOMAIN u PROVE u[i] = Len(g) + i
      <4>1. CASE i = Len(q) + 1
        BY <2>2, <3>1, <3>2, <4>1
      <4>2. CASE i # Len(q) + 1
        <5>1. i \in DOMAIN q /\ u[i] = q[i]
          BY <2>11, <4>2
        <5> QED
          BY <2>10, <5>1 DEF Whole
      <4> QED
        BY <4>1, <4>2
    <3>5. Whole(g, t)
      BY <2>1, <2>10, <3>4 DEF Whole
    <3>6. ASSUME NEW i \in DOMAIN Tail(b), Of(id, Tail(b)[i]),
                 NEW n \in (Reached(g, t) + 1)..(Number(Tail(b)[i]) - 1)
          PROVE  \E j \in 1..(i - 1) : Of(id, Tail(b)[j]) /\ Number(Tail(b)[j]) = n
      <4>1. i + 1 \in DOMAIN b /\ Tail(b)[i] = b[i + 1] /\ i \in Nat
        BY <1>1
      <4>2. Number(b[i + 1]) \in Nat
        BY <1>4, <1>5, <3>6, <4>1 DEF InOrder
      <4>3. n \in (Reached(g, r) + 1)..(Number(b[i + 1]) - 1) /\ n # m.resp
        <5>1. n \in ((Reached(g, r) + 1) + 1)..(Number(b[i + 1]) - 1) /\ Number(b[i + 1]) - 1 \in Int
          BY <3>3, <4>1, <4>2
        <5>2. PICK k \in Nat : k = Reached(g, r)
          BY <3>1
        <5>3. PICK l \in Int : l = Number(b[i + 1]) - 1
          BY <5>1
        <5>5. n \in ((k + 1) + 1)..l
          BY <5>1, <5>2, <5>3
        <5>4. n \in (k + 1)..l /\ n # k + 1
          BY <5>5, AfterNext
        <5> QED
          BY <3>1, <5>2, <5>3, <5>4
      <4>4. PICK j \in 1..((i + 1) - 1) : Of(id, b[j]) /\ Number(b[j]) = n
        BY <2>10, <3>6, <4>1, <4>3 DEF NoGap
      <4>5. j # 1
        BY <2>1, <4>3, <4>4
      <4>6. j - 1 \in 1..(i - 1) /\ j - 1 \in 1..(Len(b) - 1) /\ (j - 1) + 1 = j
        BY <1>1, <4>1, <4>5
      <4>7. Tail(b)[j - 1] = b[j]
        BY <1>1, <4>6
      <4> QED
        BY <4>4, <4>6, <4>7
    <3>7. ASSUME NEW s \in S, Of(id, s.m), NEW n \in (Reached(g, t) + 1)..s.sent
          PROVE  \E j \in DOMAIN Tail(b) : Of(id, Tail(b)[j]) /\ Number(Tail(b)[j]) = n
      <4>1. s.sent \in Nat
        BY <1>5 DEF Serving
      <4>2. n \in (Reached(g, r) + 1)..s.sent /\ n # m.resp
        BY <3>1, <3>3, <3>7, <4>1
      <4>3. PICK j \in DOMAIN b : Of(id, b[j]) /\ Number(b[j]) = n
        BY <2>10, <3>7, <4>2 DEF NoGap
      <4>4. j # 1
        BY <2>1, <4>2, <4>3
      <4>5. j - 1 \in 1..(Len(b) - 1) /\ (j - 1) + 1 = j
        BY <1>1, <4>4
      <4>6. Tail(b)[j - 1] = b[j]
        BY <1>1, <4>5
      <4> QED
        BY <1>1, <4>3, <4>5, <4>6
    <3> QED
      BY <3>5, <3>6, <3>7 DEF NoGap
  <2> QED
    BY <2>5, <2>7, <2>8, <2>9, <2>10 DEF Pending
<1> QED
  BY <1>3, <1>6, <1>7, <1>8

\* The request of a call that is new.
LEMMA PendingAsks ==
  ASSUME NEW b, NEW f \in Seq(Message), NEW S, NEW id, NEW g, NEW r, NEW m \in Message,
         \A i \in DOMAIN b : ~Of(id, b[i]), \A i \in DOMAIN f : ~Of(id, f[i]), \A s \in S : ~Of(id, s.m),
         g = <<>>, r.queue = <<>>
  PROVE  Pending(Append(f, m), b, S, id, g, r) /\ NoGap(b, S, id, g, r)
<1>1. /\ Len(f) \in Nat /\ DOMAIN f = 1..Len(f) /\ DOMAIN Append(f, m) = 1..(Len(f) + 1)
      /\ \A i \in 1..Len(f) : Append(f, m)[i] = f[i]
  BY AppendedRange
<1>2. ASSUME NEW i \in DOMAIN Append(f, m), Of(id, Append(f, m)[i]) PROVE i = Len(f) + 1
  <2>1. i \in 1..Len(f) => FALSE
    BY <1>1, <1>2
  <2>2. i \in 1..(Len(f) + 1)
    BY <1>1
  <2> QED
    BY <1>1, <2>1, <2>2, BeforeLast
<1>3. Asked(Append(f, m), b, S, id, g, r)
  BY <1>2 DEF Asked
<1> QED
  BY <1>3 DEF Pending, InOrder, Sent, NoGap

\* A stream request arrives.
LEMMA PendingStarts ==
  ASSUME NEW b \in Seq(Message), NEW f \in Seq(Message), NEW S, NEW id, NEW g, NEW r \in Stream,
         Pending(f, b, S, id, g, r), f # <<>>, Of(id, f[1]),
         NEW s, s.sent = 0, Of(id, s.m), NEW T, T = S \union {s}
  PROVE  Pending(Tail(f), b, T, id, g, r) /\ NoGap(b, T, id, g, r)
<1>1. /\ Len(f) \in Nat /\ DOMAIN f = 1..Len(f) /\ 1 \in DOMAIN f /\ DOMAIN Tail(f) = 1..(Len(f) - 1)
      /\ \A i \in 1..(Len(f) - 1) : Tail(f)[i] = f[i + 1]
  BY TailRange
<1>2. /\ \A j \in DOMAIN f : Of(id, f[j]) => 1 = j
      /\ \A j \in DOMAIN b : ~Of(id, b[j])
      /\ \A x \in S : ~Of(id, x.m)
      /\ g = <<>> /\ r.queue = <<>>
  BY <1>1 DEF Pending, Asked
<1>3. ASSUME NEW i \in DOMAIN Tail(f) PROVE ~Of(id, Tail(f)[i])
  <2>1. i + 1 \in DOMAIN f /\ Tail(f)[i] = f[i + 1] /\ i + 1 # 1
    BY <1>1
  <2> QED
    BY <1>2, <2>1
<1>4. \A x \in T : Of(id, x.m) => x = s
  BY <1>2
<1>5. Asked(Tail(f), b, T, id, g, r)
  BY <1>3 DEF Asked
<1>6. InOrder(b, id, g, r)
  BY <1>2 DEF InOrder
<1>7. Sent(b, T, id, g, r)
  <2>1. Above(s.sent + 1, g, r)
    BY <1>2 DEF Above
  <2> QED
    BY <1>2, <1>4, <2>1 DEF Sent
<1>8. NoGap(b, T, id, g, r)
  <2>1. Reached(g, r) = 0
    BY <1>2 DEF Reached
  <2>2. (Reached(g, r) + 1)..s.sent = {}
    BY <2>1
  <2> QED
    BY <1>2, <1>4, <2>2 DEF NoGap
<1> QED
  BY <1>5, <1>6, <1>7, <1>8 DEF Pending

\* Numbers up to the last.
LEMMA UpToLast ==
  ASSUME NEW k \in Nat, NEW v \in Nat, NEW n \in (k + 1)..(v + 1), n # v + 1
  PROVE  n \in (k + 1)..v
OBVIOUS

\* A chunk is sent.
LEMMA PendingSends ==
  ASSUME AskAssumption, NEW b \in Seq(Message), NEW f \in Seq(Message), NEW S, NEW id,
         NEW g \in Seq(Nat), NEW r \in Stream, Pending(f, b, S, id, g, r),
         NEW s \in S, Of(id, s.m), s.sent \in 0..Chunks,
         NEW m \in Message, Of(id, m), Number(m) = s.sent + 1,
         NEW T, NEW z, z.sent = s.sent + 1, \A x \in T : Of(id, x.m) => x = z
  PROVE  /\ Pending(f, Append(b, m), T, id, g, r)
         /\ NoGap(b, S, id, g, r) => NoGap(Append(b, m), T, id, g, r)
<1> PICK c : c = Append(b, m)
  OBVIOUS
<1>1. /\ Len(b) \in Nat /\ DOMAIN b = 1..Len(b) /\ DOMAIN c = 1..(Len(b) + 1) /\ c[Len(b) + 1] = m
      /\ \A i \in 1..Len(b) : c[i] = b[i]
  BY AppendedRange
<1>2. ASSUME NEW i \in DOMAIN c, i # Len(b) + 1 PROVE i \in 1..Len(b) /\ i \in DOMAIN b /\ c[i] = b[i]
  <2>1. i \in 1..(Len(b) + 1)
    BY <1>1
  <2>2. i \in 1..Len(b)
    BY <1>1, <1>2, <2>1, BeforeLast
  <2> QED
    BY <1>1, <2>2
<1>3. /\ Above(s.sent + 1, g, r)
      /\ \A i \in DOMAIN b : Of(id, b[i]) => Number(b[i]) <= s.sent
      /\ Chunks \in Nat /\ s.sent \in Nat
  BY Bounds DEF Pending, Sent
<1>4. \A i \in DOMAIN b : Of(id, b[i]) => Number(b[i]) \in 1..(Chunks + 1) /\ Above(Number(b[i]), g, r)
  BY DEF Pending, InOrder
<1>5. \A i, j \in DOMAIN b : i < j /\ Of(id, b[i]) /\ Of(id, b[j]) => Number(b[i]) < Number(b[j])
  BY DEF Pending, InOrder
<1>6. s.sent + 1 \in 1..(Chunks + 1)
  BY <1>3
<1>7. InOrder(c, id, g, r)
  <2>1. ASSUME NEW i \in DOMAIN c, Of(id, c[i])
        PROVE  Number(c[i]) \in 1..(Chunks + 1) /\ Above(Number(c[i]), g, r)
    <3>1. CASE i = Len(b) + 1
      BY <1>1, <1>3, <1>6, <3>1
    <3>2. CASE i # Len(b) + 1
      BY <1>2, <1>4, <2>1, <3>2
    <3> QED
      BY <3>1, <3>2
  <2>2. ASSUME NEW i \in DOMAIN c, NEW j \in DOMAIN c, i < j, Of(id, c[i]), Of(id, c[j])
        PROVE  Number(c[i]) < Number(c[j])
    <3>1. i # Len(b) + 1
      BY <1>1, <2>2
    <3>2. i \in DOMAIN b /\ c[i] = b[i]
      BY <1>2, <3>1
    <3>3. CASE j = Len(b) + 1
      <4>1. Number(c[j]) = s.sent + 1 /\ Number(b[i]) <= s.sent /\ Number(b[i]) \in Nat
        BY <1>1, <1>3, <1>4, <2>2, <3>2, <3>3
      <4> QED
        BY <1>3, <3>2, <4>1
    <3>4. CASE j # Len(b) + 1
      <4>1. j \in DOMAIN b /\ c[j] = b[j]
        BY <1>2, <3>4
      <4> QED
        BY <1>5, <2>2, <3>2, <4>1
    <3> QED
      BY <3>3, <3>4
  <2> QED
    BY <2>1, <2>2 DEF InOrder
<1>8. ASSUME NEW i \in DOMAIN c, Of(id, c[i]) PROVE Number(c[i]) <= s.sent + 1
  <2>1. CASE i = Len(b) + 1
    BY <1>1, <1>3, <2>1
  <2>2. CASE i # Len(b) + 1
    <3>1. i \in DOMAIN b /\ c[i] = b[i]
      BY <1>2, <2>2
    <3>2. Number(b[i]) <= s.sent /\ Number(b[i]) \in Nat
      BY <1>3, <1>4, <1>8, <3>1
    <3> QED
      BY <1>3, <3>1, <3>2
  <2> QED
    BY <2>1, <2>2
<1>9. Above((s.sent + 1) + 1, g, r)
  <2>1. \A i \in DOMAIN g : g[i] \in Nat /\ g[i] < s.sent + 1
    BY <1>3 DEF Above
  <2>2. \A i \in DOMAIN r.queue : r.queue[i] \in Nat /\ r.queue[i] < s.sent + 1
    BY <1>3 DEF Above, Stream
  <2>3. ASSUME NEW v \in Nat, v < s.sent + 1 PROVE v < (s.sent + 1) + 1
    BY <1>3, <2>3
  <2> QED
    BY <2>1, <2>2, <2>3 DEF Above
<1>10. Sent(c, T, id, g, r)
  BY <1>8, <1>9 DEF Sent
<1>11. Asked(f, c, T, id, g, r)
  <2>1. \A i \in DOMAIN f : ~Of(id, f[i])
    BY DEF Pending, Asked
  <2> QED
    BY <2>1 DEF Asked
<1>12. ASSUME NoGap(b, S, id, g, r) PROVE NoGap(c, T, id, g, r)
  <2>1. ASSUME NEW n \in (Reached(g, r) + 1)..s.sent
        PROVE  \E j \in 1..Len(b) : Of(id, c[j]) /\ Number(c[j]) = n
    <3>1. PICK j \in DOMAIN b : Of(id, b[j]) /\ Number(b[j]) = n
      BY <1>12 DEF NoGap
    <3> QED
      BY <1>1, <3>1
  <2>2. ASSUME NEW i \in DOMAIN c, Of(id, c[i]), NEW n \in (Reached(g, r) + 1)..(Number(c[i]) - 1)
        PROVE  \E j \in 1..(i - 1) : Of(id, c[j]) /\ Number(c[j]) = n
    <3>1. CASE i = Len(b) + 1
      <4>1. Number(c[i]) - 1 = s.sent /\ i - 1 = Len(b)
        BY <1>1, <1>3, <3>1
      <4> QED
        BY <2>1, <2>2, <4>1
    <3>2. CASE i # Len(b) + 1
      <4>1. i \in DOMAIN b /\ c[i] = b[i] /\ i \in 1..Len(b)
        BY <1>2, <3>2
      <4>2. PICK j \in 1..(i - 1) : Of(id, b[j]) /\ Number(b[j]) = n
        BY <1>12, <2>2, <4>1 DEF NoGap
      <4>3. c[j] = b[j]
        BY <1>1, <4>1
      <4> QED
        BY <4>2, <4>3
    <3> QED
      BY <3>1, <3>2
  <2>3. ASSUME NEW x \in T, Of(id, x.m), NEW n \in (Reached(g, r) + 1)..x.sent
        PROVE  \E j \in DOMAIN c : Of(id, c[j]) /\ Number(c[j]) = n
    <3>1. x.sent = s.sent + 1
      BY <2>3
    <3>2. CASE n = s.sent + 1
      <4>1. Len(b) + 1 \in DOMAIN c
        BY <1>1
      <4> QED
        BY <1>1, <3>2, <4>1
    <3>3. CASE n # s.sent + 1
      <4>1. Reached(g, r) \in Nat
        BY DEF Reached, Stream
      <4>2. n \in (Reached(g, r) + 1)..s.sent
        <5>1. n \in (Reached(g, r) + 1)..(s.sent + 1)
          BY <2>3, <3>1
        <5>2. PICK k \in Nat : k = Reached(g, r)
          BY <4>1
        <5>3. PICK v \in Nat : v = s.sent
          BY <1>3
        <5>4. n \in (k + 1)..(v + 1) /\ n # v + 1
          BY <3>3, <5>1, <5>2, <5>3
        <5>5. n \in (k + 1)..v
          BY <5>4, UpToLast
        <5> QED
          BY <5>2, <5>3, <5>5
      <4>3. PICK j \in 1..Len(b) : Of(id, c[j]) /\ Number(c[j]) = n
        BY <2>1, <4>2
      <4>4. j \in DOMAIN c
        BY <1>1
      <4> QED
        BY <4>3, <4>4
    <3> QED
      BY <3>2, <3>3
  <2> QED
    BY <2>2, <2>3 DEF NoGap
<1> QED
  BY <1>7, <1>10, <1>11, <1>12 DEF Pending

-----------------------------------------------------------------------------
(* Streams: the steps *)

\* The pieces of a stream have their types.
LEMMA FlowTyped ==
  ASSUME AskAssumption, Apart, Base, NEW d \in Call
  PROVE  /\ got[d] \in Seq(Nat) /\ stream[d] \in Stream /\ Len(stream[d].queue) <= StreamCap
         /\ Back(d) \in Seq(Message) /\ Forth(d) \in Seq(Message) /\ Answering(d) \in SUBSET Serving
         /\ Owner(d) \in Actor /\ Target(d) \in Actor /\ Owner(d) # Target(d)
<1>1. Owner(d) \in Actor /\ Target(d) \in Actor /\ Owner(d) # Target(d)
  BY PlanFacts DEF Base, Types, ActorsTyped
<1>2. <<Owner(d), Target(d)>> \in Actor \X Actor /\ <<Target(d), Owner(d)>> \in Actor \X Actor
  BY <1>1
<1> QED
  BY <1>1, <1>2 DEF Base, Types, StreamsTyped, NetTyped, AnswersTyped, Back, Forth, Answering

\* The same of the next state.
LEMMA FlowTypedNext ==
  ASSUME AskAssumption, Apart, Base, Base', UNCHANGED plan, NEW d \in Call
  PROVE  /\ got'[d] \in Seq(Nat) /\ stream'[d] \in Stream /\ Len(stream'[d].queue) <= StreamCap
         /\ Back(d)' \in Seq(Message) /\ Forth(d)' \in Seq(Message) /\ Answering(d)' \in SUBSET Serving
<1>1. Owner(d) \in Actor /\ Target(d) \in Actor /\ Owner(d)' = Owner(d) /\ Target(d)' = Target(d)
  BY FlowTyped, PlanStays
<1>2. <<Owner(d), Target(d)>> \in Actor \X Actor /\ <<Target(d), Owner(d)>> \in Actor \X Actor
  BY <1>1
<1>3. StreamsTyped' /\ NetTyped' /\ AnswersTyped'
  BY DEF Base, Types
<1> QED
  BY <1>1, <1>2, <1>3 DEF StreamsTyped, NetTyped, AnswersTyped, Back, Forth, Answering

(* The ways a step may change queue q without a message of this id being   *)
(* added, or being lost.                                                   *)
Thins(q, id) ==
    \/ net'[q] = net[q]
    \/ net[q] # <<>> /\ net'[q] = Tail(net[q])
    \/ \E m \in Message : ~Of(id, m) /\ net'[q] = Append(net[q], m)

Stays(q, id) ==
    \/ net'[q] = net[q]
    \/ net[q] # <<>> /\ net'[q] = Tail(net[q]) /\ ~Of(id, Head(net[q]))
    \/ \E m \in Message : ~Of(id, m) /\ net'[q] = Append(net[q], m)

(* Nothing happens to the consumer d, and the answers to it stay unless    *)
(* its actor is dead.                                                      *)
Spares(d) ==
    /\ stream'[d] = stream[d] /\ got'[d] = got[d]
    /\ out'[d] = "eof" => out[d] = "eof"
    /\ ~Cancelled(d)' => ~Cancelled(d)
    /\ Open(d)' => /\ Open(d) /\ corr'[d] = corr[d]
                   /\ \A q \in Actor \X Actor : Thins(q, corr[d])
                   /\ ~Cancelled(d) => Stays(<<Target(d), Owner(d)>>, corr[d])
                   /\ \A s \in serving'[Target(d)] : Of(corr[d], s.m) => s \in serving[Target(d)]

\* Its stream stays as it is.
LEMMA FlowSpared ==
  ASSUME AskAssumption, Apart, Base, Base', UNCHANGED plan, NEW d \in Call, Flow(d), Spares(d)
  PROVE  Flow(d)'
<1>1. /\ Back(d) \in Seq(Message) /\ Forth(d) \in Seq(Message)
      /\ Owner(d) \in Actor /\ Target(d) \in Actor
  BY FlowTyped
<1>2. Back(d)' \in Seq(Message) /\ Forth(d)' \in Seq(Message)
  BY FlowTypedNext
<1>3. Kind(d)' = Kind(d) /\ Owner(d)' = Owner(d) /\ Target(d)' = Target(d)
  BY PlanStays
<1>4. Open(d)' => Open(d) /\ corr'[d] = corr[d]
  BY DEF Spares
<1>5. PICK p \in Actor \X Actor : p = <<Target(d), Owner(d)>>
  BY <1>1
<1>6. PICK q \in Actor \X Actor : q = <<Owner(d), Target(d)>>
  BY <1>1
<1>7. /\ Back(d) = net[p] /\ Back(d)' = net'[p] /\ Forth(d) = net[q] /\ Forth(d)' = net'[q]
      /\ Answering(d)' = serving'[Target(d)]
  BY <1>3, <1>5, <1>6 DEF Back, Forth, Answering
<1>8. ASSUME NEW x \in Actor \X Actor, net[x] \in Seq(Message), Thins(x, corr[d])
      PROVE  \E e \in Nat : Sub(net'[x], net[x], corr[d], e)
  <2>1. PICK y : y = net'[x]
    OBVIOUS
  <2>2. PICK z \in Seq(Message) : z = net[x]
    BY <1>8
  <2>3. CASE y = z
    BY <2>1, <2>2, <2>3, SubQueues
  <2>4. CASE z # <<>> /\ y = Tail(z)
    BY <2>1, <2>2, <2>4, SubQueues
  <2>5. CASE \E m \in Message : ~Of(corr[d], m) /\ y = Append(z, m)
    BY <2>1, <2>2, <2>5, SubQueues
  <2> QED
    BY <1>8, <2>1, <2>2, <2>3, <2>4, <2>5 DEF Thins
<1>9. ASSUME NEW x \in Actor \X Actor, net[x] \in Seq(Message), Stays(x, corr[d])
      PROVE  \E e \in Nat : Sub(net'[x], net[x], corr[d], e) /\ All(net'[x], net[x], corr[d], e)
  <2>1. PICK y : y = net'[x]
    OBVIOUS
  <2>2. PICK z \in Seq(Message) : z = net[x]
    BY <1>9
  <2>3. CASE y = z
    BY <2>1, <2>2, <2>3, SubQueues
  <2>4. CASE z # <<>> /\ y = Tail(z) /\ ~Of(corr[d], Head(z))
    BY <2>1, <2>2, <2>4, SubQueues
  <2>5. CASE \E m \in Message : ~Of(corr[d], m) /\ y = Append(z, m)
    <3>1. PICK m \in Message : ~Of(corr[d], m) /\ y = Append(z, m)
      BY <2>5
    <3>2. Sub(Append(z, m), z, corr[d], 0) /\ All(Append(z, m), z, corr[d], 0)
      BY <3>1, SubQueues
    <3> QED
      BY <2>1, <2>2, <3>1, <3>2
  <2> QED
    BY <1>9, <2>1, <2>2, <2>3, <2>4, <2>5 DEF Stays
<1>10. ASSUME Open(d)'
       PROVE  Pending(Forth(d)', Back(d)', Answering(d)', corr[d], got[d], stream[d])
  <2>1. Pending(net[q], net[p], serving[Target(d)], corr[d], got[d], stream[d])
    BY <1>4, <1>7, <1>10 DEF Flow, Answering
  <2>2. PICK e \in Nat : Sub(net'[p], net[p], corr[d], e)
    BY <1>1, <1>7, <1>8, <1>10 DEF Spares
  <2>3. PICK f \in Nat : Sub(net'[q], net[q], corr[d], f)
    BY <1>1, <1>7, <1>8, <1>10 DEF Spares
  <2>4. \A s \in serving'[Target(d)] : Of(corr[d], s.m) => s \in serving[Target(d)]
    BY <1>10 DEF Spares
  <2> QED
    <3>1. PICK b \in Seq(Message), h \in Seq(Message), c \in Seq(Message), k \in Seq(Message) :
             b = net[p] /\ h = net[q] /\ c = net'[p] /\ k = net'[q]
      BY <1>1, <1>2, <1>7
    <3>2. PICK S, T : S = serving[Target(d)] /\ T = serving'[Target(d)]
      OBVIOUS
    <3>3. PICK id, g, r : id = corr[d] /\ g = got[d] /\ r = stream[d]
      OBVIOUS
    <3>4. Pending(h, b, S, id, g, r) /\ Sub(c, b, id, e) /\ Sub(k, h, id, f)
      BY <2>1, <2>2, <2>3, <3>1, <3>2, <3>3
    <3>5. \A s \in T : Of(id, s.m) => s \in S
      BY <2>4, <3>2, <3>3
    <3>6. Pending(k, c, T, id, g, r)
      BY <3>4, <3>5, PendingKept
    <3> QED
      BY <1>7, <3>1, <3>2, <3>3, <3>6
<1>11. ASSUME Open(d)', ~Cancelled(d)
       PROVE  NoGap(Back(d)', Answering(d)', corr[d], got[d], stream[d])
  <2>1. NoGap(net[p], serving[Target(d)], corr[d], got[d], stream[d])
    BY <1>4, <1>7, <1>11 DEF Flow, Answering
  <2>2. PICK e \in Nat : Sub(net'[p], net[p], corr[d], e) /\ All(net'[p], net[p], corr[d], e)
    BY <1>1, <1>5, <1>7, <1>9, <1>11 DEF Spares
  <2>3. \A s \in serving'[Target(d)] : Of(corr[d], s.m) => s \in serving[Target(d)]
    BY <1>11 DEF Spares
  <2> QED
    <3>1. PICK b \in Seq(Message), c \in Seq(Message) : b = net[p] /\ c = net'[p]
      BY <1>1, <1>2, <1>7
    <3>2. PICK S, T : S = serving[Target(d)] /\ T = serving'[Target(d)]
      OBVIOUS
    <3>3. PICK id, g, r : id = corr[d] /\ g = got[d] /\ r = stream[d]
      OBVIOUS
    <3>4. NoGap(b, S, id, g, r) /\ Sub(c, b, id, e) /\ All(c, b, id, e)
      BY <2>1, <2>2, <3>1, <3>2, <3>3
    <3>5. \A s \in T : Of(id, s.m) => s \in S
      BY <2>3, <3>2, <3>3
    <3>6. NoGap(c, T, id, g, r)
      BY <3>4, <3>5, NoGapKept
    <3> QED
      BY <1>7, <3>1, <3>2, <3>3, <3>6
<1>12. Open(d)' => /\ Pending(Forth(d)', Back(d)', Answering(d)', corr'[d], got'[d], stream'[d])
                   /\ ~Cancelled(d)' => NoGap(Back(d)', Answering(d)', corr'[d], got'[d], stream'[d])
  BY <1>4, <1>10, <1>11 DEF Spares
<1> QED
  BY <1>12 DEF Flow, Spares

\* A step in which no message moves spares every consumer it does not touch.
LEMMA SparesStill ==
  ASSUME UNCHANGED <<plan, net, serving>>, NEW d \in Call,
         stream'[d] = stream[d], got'[d] = got[d], out'[d] = "eof" => out[d] = "eof",
         ~Cancelled(d)' => ~Cancelled(d), Open(d)' => Open(d) /\ corr'[d] = corr[d]
  PROVE  Spares(d)
<1>1. \A q \in Actor \X Actor : Thins(q, corr[d])
  BY DEF Thins
<1>2. Stays(<<Target(d), Owner(d)>>, corr[d])
  BY DEF Stays
<1> QED
  BY <1>1, <1>2 DEF Spares

\* Whether a consumer's actor has been killed.
LEMMA CancelledStays ==
  ASSUME UNCHANGED <<plan, status, kills>>, NEW d \in Call, born'[d] = born[d]
  PROVE  Cancelled(d)' <=> Cancelled(d)
BY PlanStays DEF Cancelled

\* A step of the call c alone, in which it stops waiting or goes on.
LEMMA StreamsAlone ==
  ASSUME AskAssumption, Apart, Base, Base', Streams, NEW c \in Call,
         UNCHANGED <<plan, status, kills, net, born, corr, streams, answers>>,
         \A d \in Call \ {c} : pc'[d] = pc[d] /\ out'[d] = out[d],
         Waiting(c)' => Waiting(c), out'[c] = "eof" => out[c] = "eof"
  PROVE  Streams'
<1>1. ASSUME NEW d \in Call PROVE Flow(d)'
  <2>1. Cancelled(d)' <=> Cancelled(d)
    BY CancelledStays
  <2>2. Waiting(d)' => Waiting(d)
    BY PlanStays DEF Waiting
  <2>3. stream' = stream /\ got' = got /\ serving' = serving
    BY DEF streams, answers
  <2>4. Open(d)' => Open(d) /\ corr'[d] = corr[d]
    BY <2>2, <2>3, PlanStays DEF Open
  <2>5. out'[d] = "eof" => out[d] = "eof"
    BY <1>1
  <2>6. Spares(d)
    BY <2>1, <2>3, <2>4, <2>5, SparesStill
  <2> QED
    BY <2>6, FlowSpared DEF Streams
<1> QED
  BY <1>1 DEF Streams

\* ResumeAsk(), on_timeout(), Destroy(): no stream is touched.
LEMMA StreamsCalls ==
  ASSUME AskAssumption, Apart, Base, Base', Streams, NEW c \in Call,
         ResumeAsk(c) \/ on_timeout(c) \/ Destroy(c)
  PROVE  Streams'
<1>0. ActorsTyped /\ RegistryTyped /\ CallsTyped
  BY DEF Base, Types
<1>1. CASE ResumeAsk(c)
  <2>1. UNCHANGED <<plan, status, kills, net, born, corr, streams, answers>> /\ pc[c] = "woken"
    BY <1>1 DEF ResumeAsk
  <2>2. /\ \A d \in Call \ {c} : pc'[d] = pc[d] /\ out'[d] = out[d]
        /\ out'[c] = out[c]
    BY <1>0, <1>1 DEF ResumeAsk, Ends, CallsTyped
  <2>3. Waiting(c)
    BY <2>1 DEF Waiting
  <2> QED
    BY <2>1, <2>2, <2>3, StreamsAlone
<1>2. CASE on_timeout(c)
  <2>1. /\ UNCHANGED <<plan, status, kills, net, born, corr, streams, answers>>
        /\ \/ pc[c] = "parked" /\ pc' = [pc EXCEPT ![c] = "woken"] /\ out' = [out EXCEPT ![c] = "timed_out"]
           \/ UNCHANGED <<pc, out>>
    BY <1>2 DEF on_timeout
  <2>2. /\ \A d \in Call \ {c} : pc'[d] = pc[d] /\ out'[d] = out[d]
        /\ out'[c] = out[c] \/ out'[c] = "timed_out"
        /\ pc'[c] = pc[c] \/ pc[c] = "parked"
    BY <1>0, <2>1 DEF CallsTyped
  <2>3. Waiting(c)' => Waiting(c)
    BY <2>1, <2>2, PlanStays DEF Waiting
  <2> QED
    BY <2>1, <2>2, <2>3, StreamsAlone
<1>3. CASE Destroy(c)
  <2>1. UNCHANGED <<plan, status, kills, net, born, corr, streams, answers>> /\ Ends(c, "destroyed")
    BY <1>3 DEF Destroy
  <2>2. /\ \A d \in Call \ {c} : pc'[d] = pc[d] /\ out'[d] = out[d]
        /\ out'[c] = "destroyed" /\ pc'[c] = "ended"
    BY <1>0, <2>1 DEF Ends, CallsTyped
  <2>3. ~Waiting(c)'
    BY <2>2 DEF Waiting
  <2> QED
    BY <2>1, <2>2, <2>3, StreamsAlone
<1> QED
  BY <1>1, <1>2, <1>3

\* Steps of the actors and of the breaker.
LEMMA StreamsActors ==
  ASSUME AskAssumption, Apart, Base, Base', Streams, NEW a \in Actor, Cool \/ Kill(a) \/ Reap(a) \/ Respawn(a)
  PROVE  Streams'
<1>0. ActorsTyped /\ CallsTyped /\ Phases /\ AnswersTyped
  BY DEF Base, Types
<1>1. /\ UNCHANGED <<plan, net, born, corr, stream, got>>
      /\ \A d \in Call : pc'[d] = pc[d] \/ (pc[d] = "parked" /\ pc'[d] = "woken")
      /\ \A d \in Call : out'[d] = out[d] \/ out'[d] = "cancelled"
      /\ \A s \in serving'[a] : s \in serving[a]
      /\ \A b \in Actor \ {a} : serving'[b] = serving[b]
  <2>1. CASE Cool \/ Respawn(a)
    BY <2>1 DEF Cool, Respawn, calls, streams, answers
  <2>2. CASE Kill(a)
    BY <1>0, <2>2 DEF Kill, streams, answers
  <2>3. CASE Reap(a)
    BY <1>0, <2>3 DEF Reap, calls, streams, AnswersTyped
  <2> QED
    BY <2>1, <2>2, <2>3
<1>2. ASSUME NEW d \in Call PROVE Flow(d)'
  <2>1. Owner(d) \in Actor /\ Target(d) \in Actor /\ born[d] \in Nat /\ kills[Owner(d)] \in Nat /\ born[d] <= kills[Owner(d)]
    BY <1>0, PlanFacts, BitsAreNumbers DEF ActorsTyped, CallsTyped, Phases, Phase
  <2>2. ~Cancelled(d)' => ~Cancelled(d)
    <3>1. CASE Cool
      BY <3>1, <1>1, PlanStays DEF Cool, Cancelled
    <3>2. CASE Kill(a)
      <4>1. kills' = kills /\ status' = [status EXCEPT ![a] = "killed"]
        BY <3>2 DEF Kill
      <4> QED
        BY <1>0, <1>1, <2>1, <4>1, PlanStays DEF Cancelled, ActorsTyped
    <3>3. CASE Reap(a)
      <4>1. kills' = kills /\ status' = [status EXCEPT ![a] = "gone"]
        BY <3>3 DEF Reap
      <4> QED
        BY <1>0, <1>1, <2>1, <4>1, PlanStays DEF Cancelled, ActorsTyped
    <3>4. CASE Respawn(a)
      <4>1. kills' = [kills EXCEPT ![a] = @ + 1] /\ status' = [status EXCEPT ![a] = "alive"]
        BY <3>4 DEF Respawn
      <4>2. CASE Owner(d) = a
        <5>1. kills'[Owner(d)] = kills[Owner(d)] + 1
          BY <1>0, <4>1, <4>2 DEF ActorsTyped
        <5>2. kills'[Owner(d)] # born'[d]
          BY <1>1, <2>1, <5>1
        <5> QED
          BY <1>1, <5>2, PlanStays DEF Cancelled
      <4>3. CASE Owner(d) # a
        BY <1>0, <1>1, <2>1, <4>1, <4>3, PlanStays DEF Cancelled, ActorsTyped
      <4> QED
        BY <4>2, <4>3
    <3> QED
      BY <3>1, <3>2, <3>3, <3>4
  <2>3. Waiting(d)' <=> Waiting(d)
    BY <1>1, PlanStays DEF Waiting
  <2>4. Open(d)' => Open(d) /\ corr'[d] = corr[d]
    BY <1>1, <2>3, PlanStays DEF Open
  <2>5. \A q \in Actor \X Actor : Thins(q, corr[d])
    BY <1>1 DEF Thins
  <2>6. Stays(<<Target(d), Owner(d)>>, corr[d])
    BY <1>1 DEF Stays
  <2>7. \A s \in serving'[Target(d)] : s \in serving[Target(d)]
    BY <1>1, <2>1
  <2>8. Spares(d)
    BY <1>1, <2>2, <2>4, <2>5, <2>6, <2>7 DEF Spares
  <2> QED
    BY <1>1, <2>8, FlowSpared DEF Streams
<1> QED
  BY <1>2 DEF Streams

\* Take(): the consumer c is given a chunk or the end.
LEMMA StreamsTake ==
  ASSUME AskAssumption, Apart, Base, Base', Streams, NEW c \in Call, Take(c), Kind(c) = "stream",
         pc[c] \in {"reading", "woken"},
         UNCHANGED <<plan, status, kills, net, born, corr, answers>>
  PROVE  Streams'
<1>0. ActorsTyped /\ CallsTyped /\ StreamsTyped
  BY DEF Base, Types
<1>1. Flow(c) /\ Waiting(c)
  BY DEF Streams, Waiting
<1>2. \A d \in Call : Cancelled(d)' <=> Cancelled(d)
  BY CancelledStays
<1>3. CASE stream[c].queue = <<>>
  <2>1. PICK how : how = IF stream[c].dropped THEN "overflow" ELSE IF Cancelled(c) THEN "cancelled"
                         ELSE IF stream[c].done THEN "eof" ELSE out[c]
    OBVIOUS
  <2>2. Ends(c, how) /\ UNCHANGED streams
    BY <1>3, <2>1 DEF Take
  <2>3. /\ \A d \in Call \ {c} : pc'[d] = pc[d] /\ out'[d] = out[d]
        /\ out'[c] = how /\ pc'[c] = "ended"
    BY <1>0, <2>2 DEF Ends, CallsTyped
  <2>4. ~Waiting(c)'
    BY <2>3 DEF Waiting
  <2>5. how = "eof" => Len(got[c]) = Chunks
    <3>1. CASE out[c] = "eof"
      BY <1>1, <3>1 DEF Flow
    <3>2. CASE ~stream[c].dropped /\ ~Cancelled(c) /\ stream[c].done
      <4>1. Reached(got[c], stream[c]) = Chunks
        BY <1>1, <3>2 DEF Flow, Whole
      <4>2. Len(stream[c].queue) = 0 /\ Len(got[c]) \in Nat
        BY <1>0, <1>3 DEF StreamsTyped
      <4> QED
        BY <4>1, <4>2 DEF Reached
    <3> QED
      BY <2>1, <3>1, <3>2
  <2>6. Flow(c)'
    <3>1. stream' = stream /\ got' = got /\ ~Open(c)'
      BY <2>2, <2>4 DEF streams, Open
    <3> QED
      BY <1>1, <1>2, <2>3, <2>5, <3>1 DEF Flow
  <2>7. ASSUME NEW d \in Call, d # c PROVE Flow(d)'
    <3>1. Open(d)' => Open(d)
      BY <2>2, <2>3, <2>7, PlanStays DEF Open, Waiting, streams
    <3>2. Spares(d)
      BY <1>2, <2>2, <2>3, <2>7, <3>1, SparesStill DEF streams, answers
    <3> QED
      BY <3>2, FlowSpared DEF Streams
  <2> QED
    BY <2>6, <2>7 DEF Streams
<1>4. CASE stream[c].queue # <<>>
  <2>1. /\ got' = [got EXCEPT ![c] = Append(@, Head(stream[c].queue))]
        /\ stream' = [stream EXCEPT ![c].queue = Tail(@)]
        /\ pc' = [pc EXCEPT ![c] = "reading"]
        /\ out' = [out EXCEPT ![c] = "pending"]
    BY <1>4 DEF Take
  <2>2. PICK r \in Stream : r = stream[c]
    BY <1>0 DEF StreamsTyped
  <2>3. PICK g \in Seq(Nat) : g = got[c]
    BY <1>0 DEF StreamsTyped
  <2>4. PICK t : t = [r EXCEPT !.queue = Tail(r.queue)]
    OBVIOUS
  <2>5. t \in Stream /\ t.queue = Tail(r.queue) /\ t.done = r.done /\ t.dropped = r.dropped
    <3>1. r.queue \in Seq(Nat) /\ r.queue # <<>>
      BY <1>4, <2>2 DEF Stream
    <3>2. Tail(r.queue) \in Seq(Nat)
      BY <3>1
    <3> QED
      BY <2>4, <3>2 DEF Stream
  <2>6. PICK h : h = Append(g, Head(r.queue))
    OBVIOUS
  <2>7. /\ stream'[c] = t /\ got'[c] = h
        /\ \A d \in Call \ {c} : stream'[d] = stream[d] /\ got'[d] = got[d]
    BY <1>0, <2>1, <2>2, <2>3, <2>4, <2>6 DEF StreamsTyped
  <2>8. /\ pc'[c] = "reading" /\ out'[c] = "pending"
        /\ \A d \in Call \ {c} : pc'[d] = pc[d] /\ out'[d] = out[d]
    BY <1>0, <2>1 DEF CallsTyped
  <2>9. Collected(g, r) /\ r.queue # <<>>
    BY <1>1, <1>4, <2>2, <2>3 DEF Flow
  <2>10. /\ Collected(h, t) /\ (Whole(g, r) => Whole(h, t))
         /\ Reached(h, t) = Reached(g, r)
         /\ \A n : Above(n, g, r) => Above(n, h, t)
    <3>1. t \in Stream /\ Takes(g, r, h, t)
      BY <2>5, <2>6, <2>9 DEF Takes
    <3> QED
      BY <2>9, <3>1, TakeKeeps
  <2>11. Back(c)' = Back(c) /\ Forth(c)' = Forth(c) /\ Answering(c)' = Answering(c)
    BY PlanStays DEF Back, Forth, Answering, answers
  <2>12. Open(c)' => Open(c)
    BY <1>1, <2>2, <2>5, <2>7 DEF Open
  <2>13. ASSUME Open(c)
         PROVE  /\ Pending(Forth(c), Back(c), Answering(c), corr[c], h, t)
                /\ ~Cancelled(c) => NoGap(Back(c), Answering(c), corr[c], h, t)
    <3>1. PICK b \in Seq(Message), f \in Seq(Message) : b = Back(c) /\ f = Forth(c)
      BY FlowTyped
    <3>2. PICK id, S : id = corr[c] /\ S = Answering(c)
      OBVIOUS
    <3>3. Pending(f, b, S, id, g, r) /\ (~Cancelled(c) => NoGap(b, S, id, g, r))
      BY <1>1, <2>2, <2>3, <2>13, <3>1, <3>2 DEF Flow
    <3>4. Pending(f, b, S, id, h, t) /\ (NoGap(b, S, id, g, r) => NoGap(b, S, id, h, t))
      BY <2>9, <2>10, <3>3, PendingTake
    <3> QED
      BY <3>1, <3>2, <3>3, <3>4
  <2>14. Flow(c)'
    <3>1. ~Cancelled(c) => Whole(g, r)
      BY <1>1, <2>2, <2>3 DEF Flow
    <3> QED
      BY <1>2, <2>7, <2>8, <2>10, <2>11, <2>12, <2>13, <3>1 DEF Flow
  <2>15. ASSUME NEW d \in Call, d # c PROVE Flow(d)'
    <3>1. Open(d)' => Open(d)
      BY <2>7, <2>8, <2>15, PlanStays DEF Open, Waiting
    <3>2. Spares(d)
      BY <1>2, <2>7, <2>8, <2>15, <3>1, SparesStill DEF answers
    <3> QED
      BY <3>2, FlowSpared DEF Streams
  <2> QED
    BY <2>14, <2>15 DEF Streams
<1> QED
  BY <1>3, <1>4

\* NextChunk() and ResumeNext().
LEMMA StreamsNext ==
  ASSUME AskAssumption, Apart, Base, Base', Streams, NEW c \in Call, NextChunk(c) \/ ResumeNext(c)
  PROVE  Streams'
<1>1. /\ UNCHANGED <<plan, status, kills, net, born, corr, answers>>
      /\ Kind(c) = "stream" /\ pc[c] \in {"reading", "woken"}
  BY DEF NextChunk, ResumeNext
<1>2. CASE Take(c)
  BY <1>1, <1>2, StreamsTake
<1>3. CASE pc' = [pc EXCEPT ![c] = "parked"] /\ UNCHANGED <<out, slots, streams>>
  <2>1. \A d \in Call \ {c} : pc'[d] = pc[d] /\ out'[d] = out[d]
    BY <1>3 DEF Base, Types, CallsTyped
  <2>2. Waiting(c)
    BY <1>1 DEF Waiting
  <2> QED
    BY <1>1, <1>3, <2>1, <2>2, StreamsAlone
<1> QED
  BY <1>2, <1>3 DEF NextChunk, ResumeNext

\* A request goes out: for the other consumers it is somebody else's.
LEMMA SparesAsk ==
  ASSUME AskAssumption, Apart, Base, Base', Messages, NEW c \in Call, NEW n \in 1..Rounds, Asks(c),
         Request(c, n) \in Message, UNCHANGED <<status, kills, answers>>,
         net' = [net EXCEPT ![<<Owner(c), Target(c)>>] = Append(@, Request(c, n))],
         NEW d \in Call, d # c, stream'[d] = stream[d], got'[d] = got[d], out'[d] = out[d], born'[d] = born[d]
  PROVE  Spares(d)
<1>0. ActorsTyped /\ RegistryTyped /\ NetTyped /\ Ids
  BY DEF Base, Types
<1>1. plan' = plan /\ pc'[d] = pc[d]
  BY DEF Asks
<1>2. corr'[d] = corr[d] /\ corr[d] # NewId(c)
  BY <1>0, NewIdIsNew
<1>3. Cancelled(d)' <=> Cancelled(d)
  BY <1>1, CancelledStays
<1>4. Open(d)' => Open(d)
  BY <1>1, PlanStays DEF Open, Waiting
<1>5. ~Of(corr[d], Request(c, n))
  BY <1>2 DEF Of, Request
<1>6. ASSUME NEW q \in Actor \X Actor PROVE Thins(q, corr[d]) /\ Stays(q, corr[d])
  <2>1. CASE q = <<Owner(c), Target(c)>>
    <3>1. net'[q] = Append(net[q], Request(c, n))
      BY <1>0, <2>1 DEF NetTyped
    <3> QED
      BY <1>5, <3>1 DEF Thins, Stays
  <2>2. CASE q # <<Owner(c), Target(c)>>
    <3>1. net'[q] = net[q]
      BY <1>0, <2>2 DEF NetTyped
    <3> QED
      BY <3>1 DEF Thins, Stays
  <2> QED
    BY <2>1, <2>2
<1>7. <<Target(d), Owner(d)>> \in Actor \X Actor
  BY FlowTyped
<1>8. Stays(<<Target(d), Owner(d)>>, corr[d])
  BY <1>6, <1>7
<1>9. serving' = serving
  BY DEF answers
<1> QED
  BY <1>2, <1>3, <1>4, <1>6, <1>8, <1>9 DEF Spares

\* BackoffEnds(): a stream has no attempts.
LEMMA StreamsBackoff ==
  ASSUME AskAssumption, Apart, Base, Base', Messages, Streams, NEW c \in Call, BackoffEnds(c)
  PROVE  Streams'
<1>0. /\ ActorsTyped /\ RegistryTyped /\ CallsTyped /\ NetTyped /\ Phases
  BY DEF Base, Types
<1>1. /\ UNCHANGED <<plan, status, kills, born, round, reply, streams, breaker, answers>>
      /\ pc[c] = "backoff"
  BY DEF BackoffEnds
<1>2. CASE Cancelled(c)
  <2>1. Ends(c, "cancelled") /\ UNCHANGED <<counter, net, corr, attempt>>
    BY <1>2 DEF BackoffEnds
  <2>2. /\ \A d \in Call \ {c} : pc'[d] = pc[d] /\ out'[d] = out[d]
        /\ out'[c] = "cancelled" /\ pc'[c] = "ended"
    BY <1>0, <2>1 DEF Ends, CallsTyped
  <2>3. ~Waiting(c)'
    BY <2>2 DEF Waiting
  <2> QED
    BY <1>1, <2>1, <2>2, <2>3, StreamsAlone
<1>3. CASE ~Cancelled(c)
  <2>1. Ask(c, round[c], FALSE)
    BY <1>3 DEF BackoffEnds
  <2>2. ~Waiting(c) /\ round[c] \in 1..Rounds /\ Kind(c) = "retry"
    BY <1>0, <1>1 DEF Waiting, Phases, Phase
  <2>3. PICK n \in 1..Rounds : Ask(c, n, FALSE)
    BY <2>1, <2>2
  <2>4. /\ Asks(c) /\ Request(c, n) \in Message
        /\ net' = [net EXCEPT ![<<Owner(c), Target(c)>>] = Append(@, Request(c, n))]
        /\ out'[c] \in {"pending", "cancelled"} /\ \A d \in Call \ {c} : out'[d] = out[d]
    BY <1>0, <1>1, <2>2, <2>3, AskShape
  <2>5. stream' = stream /\ got' = got
    BY <1>1 DEF streams
  <2>6. ASSUME NEW d \in Call, d # c PROVE Flow(d)'
    <3>1. Spares(d)
      BY <1>1, <2>4, <2>5, <2>6, SparesAsk
    <3> QED
      BY <1>1, <3>1, FlowSpared DEF Streams
  <2>7. Flow(c)'
    <3>1. ~Open(c)'
      BY <1>1, <2>2, PlanStays DEF Open
    <3>2. ~Cancelled(c)' => ~Cancelled(c)
      BY <1>1, CancelledStays
    <3>3. Flow(c)
      BY DEF Streams
    <3> QED
      BY <2>4, <2>5, <3>1, <3>2, <3>3 DEF Flow
  <2> QED
    BY <2>6, <2>7 DEF Streams
<1> QED
  BY <1>2, <1>3

\* Begin(): the consumer's stream is new.
LEMMA StreamsBegin ==
  ASSUME AskAssumption, Apart, Base, Base', Messages, Streams, NEW c \in Call, Begin(c)
  PROVE  Streams'
<1>0. /\ ActorsTyped /\ RegistryTyped /\ CallsTyped /\ StreamsTyped /\ NetTyped
  BY DEF Base, Types
<1>1. /\ UNCHANGED <<plan, status, kills, answers>>
      /\ stream' = [stream EXCEPT ![c] = NoStream] /\ got' = [got EXCEPT ![c] = <<>>]
      /\ born' = [born EXCEPT ![c] = kills[Owner(c)]] /\ pc[c] \in {"idle", "ended"}
      /\ round[c] < plan[c].rounds
  BY DEF Begin
<1>2. /\ stream'[c] = NoStream /\ got'[c] = <<>>
      /\ \A d \in Call \ {c} : stream'[d] = stream[d] /\ got'[d] = got[d] /\ born'[d] = born[d]
  BY <1>0, <1>1 DEF StreamsTyped, CallsTyped
<1>3. Collected(<<>>, NoStream) /\ Whole(<<>>, NoStream)
  BY DEF Collected, Whole, NoStream, Increases
<1>4. CASE Kind(c) = "guarded" /\ ~allow(breaker)
  <2>1. /\ pc' = [pc EXCEPT ![c] = "ended"] /\ out' = [out EXCEPT ![c] = "circuit_open"]
        /\ UNCHANGED <<counter, slots, net, corr, timer, breaker>>
    BY <1>4 DEF Begin
  <2>2. /\ pc'[c] = "ended" /\ out'[c] = "circuit_open"
        /\ \A d \in Call \ {c} : pc'[d] = pc[d] /\ out'[d] = out[d]
    BY <1>0, <2>1 DEF CallsTyped
  <2>3. ASSUME NEW d \in Call, d # c PROVE Flow(d)'
    <3>1. Cancelled(d)' <=> Cancelled(d)
      BY <1>1, <1>2, <2>3, CancelledStays
    <3>2. Open(d)' => Open(d)
      BY <1>1, <1>2, <2>2, <2>3, PlanStays DEF Open, Waiting
    <3>3. Spares(d)
      BY <1>1, <1>2, <2>1, <2>2, <2>3, <3>1, <3>2, SparesStill DEF answers
    <3> QED
      BY <1>1, <3>3, FlowSpared DEF Streams
  <2>4. Flow(c)'
    <3>1. ~Open(c)'
      BY <2>2 DEF Open, Waiting
    <3> QED
      BY <1>2, <1>3, <2>2, <3>1 DEF Flow
  <2> QED
    BY <2>3, <2>4 DEF Streams
<1>5. CASE ~(Kind(c) = "guarded" /\ ~allow(breaker))
  <2>1. Ask(c, round[c] + 1, status[Owner(c)] # "alive")
    BY <1>5 DEF Begin
  <2>2. PICK x \in BOOLEAN : Ask(c, round[c] + 1, x)
    BY <2>1
  <2>3. round[c] + 1 \in 1..Rounds
    <3>1. plan[c].rounds \in Nat /\ plan[c].rounds <= Rounds /\ round[c] \in Nat /\ Rounds \in Nat
      BY <1>0, PlanFacts, Bounds DEF ActorsTyped, CallsTyped
    <3> QED
      BY <1>1, <3>1
  <2>4. PICK n \in 1..Rounds : Ask(c, n, x)
    BY <2>2, <2>3
  <2>5. ~Waiting(c)
    BY <1>1 DEF Waiting
  <2>6. /\ Asks(c) /\ Request(c, n) \in Message
        /\ net' = [net EXCEPT ![<<Owner(c), Target(c)>>] = Append(@, Request(c, n))]
        /\ out'[c] \in {"pending", "cancelled"} /\ \A d \in Call \ {c} : out'[d] = out[d]
    <3>1. plan' = plan
      BY <1>1
    <3> QED
      BY <1>0, <2>4, <2>5, <3>1, AskShape
  <2>7. ASSUME NEW d \in Call, d # c PROVE Flow(d)'
    <3>1. Spares(d)
      BY <1>1, <1>2, <2>6, <2>7, SparesAsk
    <3> QED
      BY <1>1, <3>1, FlowSpared DEF Streams
  <2>8. serving' = serving
    BY <1>1 DEF answers
  <2>9. /\ \A q \in Actor \X Actor : \A m \in Range(net[q]) : m.corr # corr'[c]
        /\ \A a \in Actor : \A s \in serving[a] : s.m.corr # corr'[c]
    BY <2>6, <2>8, MessagesAsk
  <2>10. /\ Owner(c) \in Actor /\ Target(c) \in Actor /\ Owner(c) # Target(c)
         /\ Forth(c) \in Seq(Message)
    BY FlowTyped
  <2>11. PICK p \in Actor \X Actor : p = <<Target(c), Owner(c)>>
    BY <2>10
  <2>12. PICK q \in Actor \X Actor : q = <<Owner(c), Target(c)>>
    BY <2>10
  <2>13. net'[p] = net[p] /\ net'[q] = Append(net[q], Request(c, n))
    <3>1. p # q
      BY <2>10, <2>11, <2>12
    <3> QED
      BY <1>0, <2>6, <2>12, <3>1 DEF NetTyped
  <2>14. Owner(c)' = Owner(c) /\ Target(c)' = Target(c)
    BY <1>1, PlanStays
  <2>15. Forth(c) = net[q] /\ Forth(c)' = net'[q] /\ Back(c)' = net[p] /\ Answering(c)' = serving[Target(c)]
    BY <2>8, <2>11, <2>12, <2>13, <2>14 DEF Back, Forth, Answering
  <2>16. Pending(net'[q], net[p], serving[Target(c)], corr'[c], <<>>, NoStream)
         /\ NoGap(net[p], serving[Target(c)], corr'[c], <<>>, NoStream)
    <3>0. PICK f \in Seq(Message) : f = net[q]
      BY <2>10, <2>15
    <3>1. PICK b, S, id : b = net[p] /\ S = serving[Target(c)] /\ id = corr'[c]
      OBVIOUS
    <3>2. PICK m \in Message : m = Request(c, n)
      BY <2>6
    <3>3. /\ \A i \in DOMAIN b : ~Of(id, b[i])
          /\ \A i \in DOMAIN f : ~Of(id, f[i])
          /\ \A s \in S : ~Of(id, s.m)
      BY <2>9, <2>10, <3>0, <3>1 DEF Of, Range
    <3>4. NoStream.queue = <<>>
      BY DEF NoStream
    <3>5. Pending(Append(f, m), b, S, id, <<>>, NoStream) /\ NoGap(b, S, id, <<>>, NoStream)
      BY <3>3, <3>4, PendingAsks
    <3> QED
      BY <2>13, <3>0, <3>1, <3>2, <3>5
  <2>17. Flow(c)'
    BY <1>2, <1>3, <2>6, <2>15, <2>16 DEF Flow
  <2> QED
    BY <2>7, <2>17 DEF Streams
<1> QED
  BY <1>4, <1>5

\* The first event of p is taken out; the answers to d are not touched.
LEMMA SparesPopped ==
  ASSUME AskAssumption, Apart, Base, NEW p \in Actor \X Actor, net[p] # <<>>, net' = Popped(p),
         UNCHANGED <<plan, status, kills, born, corr>>, NEW d \in Call,
         stream'[d] = stream[d], got'[d] = got[d], out'[d] = "eof" => out[d] = "eof", Open(d)' => Open(d),
         Open(d) /\ ~Cancelled(d) => ~(p = <<Target(d), Owner(d)>> /\ Of(corr[d], First(p))),
         Open(d) => \A s \in serving'[Target(d)] : Of(corr[d], s.m) => s \in serving[Target(d)]
  PROVE  Spares(d)
<1>0. NetTyped
  BY DEF Base, Types
<1>1. net'[p] = Tail(net[p]) /\ \A q \in (Actor \X Actor) \ {p} : net'[q] = net[q]
  BY <1>0, PoppedIs
<1>2. \A q \in Actor \X Actor : Thins(q, corr[d])
  BY <1>1 DEF Thins
<1>3. <<Target(d), Owner(d)>> \in Actor \X Actor
  BY FlowTyped
<1>4. Open(d) /\ ~Cancelled(d) => Stays(<<Target(d), Owner(d)>>, corr[d])
  BY <1>1, <1>3 DEF Stays, First
<1>5. Cancelled(d)' <=> Cancelled(d)
  BY CancelledStays
<1> QED
  BY <1>2, <1>4, <1>5 DEF Spares

\* An event that no one wants is not of a stream whose consumer lives.
LEMMA StreamsIgnores ==
  ASSUME AskAssumption, Apart, Base, Base', Streams, NEW p \in Actor \X Actor, net[p] # <<>>, Mail, Ignores(p)
  PROVE  Streams'
<1>0. ActorsTyped /\ RegistryTyped /\ NetTyped /\ Slots
  BY DEF Base, Types
<1>1. /\ net' = Popped(p) /\ stream' = stream /\ got' = got /\ out' = out /\ pc' = pc /\ serving' = serving
      /\ UNCHANGED <<plan, status, kills, born, corr>>
  BY DEF Ignores, Mail, streams, answers
<1>2. ASSUME NEW d \in Call, Open(d), ~Cancelled(d), p = <<Target(d), Owner(d)>>, Of(corr[d], First(p)) PROVE FALSE
  <2>1. Waiting(d) /\ Kind(d) = "stream" /\ status[Owner(d)] = "alive" /\ p[2] = Owner(d) /\ corr[d] = First(p).corr
    BY <1>2 DEF Open, Cancelled, Of
  <2>2. Owner(d) # Target(d)
    BY FlowTyped
  <2>3. <<corr[d], d>> \in slots[Core[Owner(d)]]
    BY <1>0, <2>1 DEF Slots
  <2>4. d \in Slot(Owner(d), corr[d])
    <3>1. /\ <<corr[d], d>>[1] = corr[d] /\ <<corr[d], d>>[2] = d
          /\ Owner(<<corr[d], d>>[2]) = Owner(d) /\ Kind(<<corr[d], d>>[2]) = "stream"
      BY <2>1
    <3> QED
      BY <2>3, <3>1 DEF Slot
  <2> QED
    BY <2>1, <2>4 DEF Ignores
<1>3. ASSUME NEW d \in Call PROVE Flow(d)'
  <2>1. Open(d)' => Open(d)
    BY <1>1, PlanStays DEF Open, Waiting
  <2>2. Spares(d)
    BY <1>1, <1>2, <2>1, SparesPopped
  <2> QED
    BY <1>1, <2>2, FlowSpared DEF Streams
<1> QED
  BY <1>3 DEF Streams

\* An answer is delivered.
LEMMA StreamsResolves ==
  ASSUME AskAssumption, Apart, Base, Base', Messages, Streams, NEW p \in Actor \X Actor, net[p] # <<>>, Mail,
         NEW c, Resolves(p, c)
  PROVE  Streams'
<1>0. ActorsTyped /\ RegistryTyped /\ CallsTyped /\ StreamsTyped /\ NetTyped
  BY DEF Base, Types
<1>1. PICK m : m = First(p)
  OBVIOUS
<1>2. /\ c \in Call /\ Waiting(c) /\ m \in Message /\ m.call = c /\ m.corr = corr[c]
      /\ p = <<Target(c), Owner(c)>>
  BY <1>1, ResolvesIs
<1>3. Ours(m)
  BY <1>0, <1>1, PoppedIs DEF Messages
<1>4. /\ net' = Popped(p) /\ serving' = serving /\ Resolve(c, m)
      /\ UNCHANGED <<plan, status, kills, born, corr>>
  BY <1>1 DEF Resolves, Mail, answers
<1>5. /\ \A d \in Call \ {c} : stream'[d] = stream[d] /\ pc'[d] = pc[d] /\ out'[d] = out[d]
      /\ got' = got
  <2>1. CASE Kind(c) = "stream"
    BY <1>0, <1>2, <1>4, <2>1 DEF Resolve, deliver, Woken, CallsTyped, StreamsTyped
  <2>2. CASE Kind(c) # "stream"
    BY <1>0, <1>2, <1>4, <2>2 DEF Resolve, streams, CallsTyped, StreamsTyped
  <2> QED
    BY <2>1, <2>2
<1>6. ASSUME NEW d \in Call, d # c PROVE Flow(d)'
  <2>1. ~Of(corr[d], m)
    BY <1>2, <1>3, <1>6 DEF Ours, Of
  <2>2. Open(d)' => Open(d)
    BY <1>4, <1>5, <1>6, PlanStays DEF Open, Waiting
  <2>3. stream'[d] = stream[d] /\ got'[d] = got[d] /\ out'[d] = out[d]
    BY <1>5, <1>6
  <2>4. Spares(d)
    BY <1>1, <1>4, <2>1, <2>2, <2>3, SparesPopped
  <2> QED
    BY <1>4, <2>4, FlowSpared DEF Streams
<1>7. CASE Kind(c) # "stream"
  <2>1. stream' = stream /\ out'[c] = "ok"
    BY <1>0, <1>2, <1>4, <1>7 DEF Resolve, streams, CallsTyped
  <2>2. ~Open(c) /\ ~Open(c)'
    BY <1>2, <1>4, <1>7, PlanStays DEF Open
  <2>3. Spares(c)
    BY <1>2, <1>4, <1>5, <2>1, <2>2, SparesPopped
  <2> QED
    BY <1>2, <1>4, <1>6, <2>3, FlowSpared DEF Streams
<1>8. CASE Kind(c) = "stream"
  <2>1. PICK r \in Stream, g \in Seq(Nat) : r = stream[c] /\ g = got[c]
    BY <1>0, <1>2 DEF StreamsTyped
  <2>2. PICK t : t = Delivered(r, m)
    OBVIOUS
  <2>3. stream'[c] = t /\ got'[c] = g /\ out'[c] = out[c]
    BY <1>0, <1>2, <1>4, <1>5, <1>8, <2>1, <2>2 DEF Resolve, deliver, StreamsTyped
  <2>4. Cancelled(c)' <=> Cancelled(c)
    BY <1>2, <1>4, CancelledStays
  <2>5. Collected(g, r) /\ (~Cancelled(c) => Whole(g, r)) /\ (out[c] = "eof" => Len(g) = Chunks)
    BY <1>2, <2>1 DEF Streams, Flow
  <2>6. Len(r.queue) <= StreamCap
    BY <1>0, <1>2, <2>1 DEF StreamsTyped
  <2>7. Open(c)' => ~t.done
    BY <2>3 DEF Open
  <2>8. CASE r.done
    <3>1. t.queue = r.queue /\ t.dropped = r.dropped /\ t.done
      BY <1>2, <2>2, <2>6, <2>8, DeliveredIs
    <3>2. Collected(g, t) /\ (Whole(g, r) => Whole(g, t))
      BY <2>5, <2>8, <3>1 DEF Collected, Whole, Reached
    <3>3. Flow(c)'
      BY <2>3, <2>4, <2>5, <2>7, <3>1, <3>2 DEF Flow
    <3> QED
      BY <1>6, <3>3 DEF Streams
  <2>9. CASE ~r.done
    <3>1. PICK b \in Seq(Message), f \in Seq(Message), S \in SUBSET Serving :
             b = Back(c) /\ f = Forth(c) /\ S = Answering(c)
      BY <1>2, FlowTyped
    <3>2. PICK id : id = corr[c]
      OBVIOUS
    <3>3. Open(c)
      BY <1>2, <1>8, <2>1, <2>9 DEF Open
    <3>4. Pending(f, b, S, id, g, r) /\ (~Cancelled(c) => NoGap(b, S, id, g, r))
      BY <1>2, <2>1, <3>1, <3>2, <3>3 DEF Streams, Flow
    <3>5. b = net[p] /\ b # <<>> /\ b[1] = m /\ Of(id, b[1])
      BY <1>0, <1>1, <1>2, <3>1, <3>2, FirstIs DEF Back, Of
    <3>6. t = Delivered(r, b[1])
      BY <2>2, <3>5
    <3>7. /\ Collected(g, t)
          /\ Whole(g, r) /\ NoGap(b, S, id, g, r) => Whole(g, t)
          /\ ~t.done => Pending(f, Tail(b), S, id, g, t)
          /\ ~t.done /\ Whole(g, r) /\ NoGap(b, S, id, g, r) => NoGap(Tail(b), S, id, g, t)
      <4>1. Collected(g, r) /\ Len(r.queue) <= StreamCap /\ ~r.done /\ Pending(f, b, S, id, g, r)
        BY <2>5, <2>6, <2>9, <3>4
      <4>2. b # <<>> /\ Of(id, b[1])
        BY <3>5
      <4> QED
        BY <3>6, <4>1, <4>2, DeliverKeeps
    <3>8. Back(c)' = Tail(b) /\ Forth(c)' = f /\ Answering(c)' = S /\ corr'[c] = id
      <4>1. Owner(c) \in Actor /\ Target(c) \in Actor /\ Owner(c) # Target(c)
        BY <1>2, FlowTyped
      <4>2. PICK q \in Actor \X Actor : q = <<Owner(c), Target(c)>>
        BY <4>1
      <4>3. q # p
        BY <1>2, <4>1, <4>2
      <4>4. net'[p] = Tail(b) /\ net'[q] = net[q]
        BY <1>0, <1>4, <3>5, <4>3, PoppedIs
      <4> QED
        BY <1>2, <1>4, <3>1, <3>2, <4>2, <4>4, PlanStays DEF Back, Forth, Answering
    <3>9. Flow(c)'
      BY <2>3, <2>4, <2>5, <2>7, <3>4, <3>7, <3>8 DEF Flow
    <3> QED
      BY <1>6, <3>9 DEF Streams
  <2> QED
    BY <2>8, <2>9
<1> QED
  BY <1>7, <1>8

\* A request that is not of a stream is answered.
LEMMA StreamsAnswered ==
  ASSUME AskAssumption, Apart, Base, Base', Messages, Streams, NEW p \in Actor \X Actor, net[p] # <<>>, Mail,
         Replies(p), Kind(First(p).call) # "stream"
  PROVE  Streams'
<1>0. ActorsTyped /\ NetTyped
  BY DEF Base, Types
<1>1. PICK m : m = First(p)
  OBVIOUS
<1>2. PICK x \in Call : x = m.call
  BY <1>1, RepliesIs
<1>3. /\ m \in Message /\ Ours(m) /\ p = <<Owner(x), Target(x)>>
      /\ Owner(x) \in Actor /\ Target(x) \in Actor /\ Owner(x) # Target(x)
  BY <1>1, <1>2, RepliesIs
<1>4. PICK u \in Actor \X Actor : u = <<Target(x), Owner(x)>>
  BY <1>3
<1>5. u # p /\ p[2] = Target(x)
  BY <1>3, <1>4
<1>6. /\ net' = [Popped(p) EXCEPT ![u] = Append(Popped(p)[u], ReplyTo(m))] /\ serving' = serving
      /\ stream' = stream /\ got' = got /\ out' = out /\ pc' = pc
      /\ UNCHANGED <<plan, status, kills, born, corr>>
  BY <1>1, <1>2, <1>4, <1>5 DEF Replies, Answer, Mail, ReplyTo, streams
<1>7. Popped(p) \in [Actor \X Actor -> Seq(Message)] /\ Popped(p)[p] = Tail(net[p])
      /\ \A q \in (Actor \X Actor) \ {p} : Popped(p)[q] = net[q]
  BY <1>0, PoppedIs
<1>8. ReplyTo(m) \in Message /\ ReplyTo(m).corr = m.corr
  BY <1>3, KeyIs
<1>9. net'[u] = Append(net[u], ReplyTo(m)) /\ net'[p] = Tail(net[p])
      /\ \A q \in (Actor \X Actor) \ {p, u} : net'[q] = net[q]
  BY <1>5, <1>6, <1>7, <1>8
<1>10. ASSUME NEW d \in Call PROVE Flow(d)'
  <2>1. Open(d)' <=> Open(d)
    BY <1>6, PlanStays DEF Open, Waiting
  <2>2. Open(d) => ~Of(corr[d], m) /\ ~Of(corr[d], ReplyTo(m))
    BY <1>1, <1>2, <1>3, <1>8 DEF Open, Ours, Of
  <2>3. Open(d) => \A q \in Actor \X Actor : Thins(q, corr[d]) /\ Stays(q, corr[d])
    BY <1>1, <1>8, <1>9, <2>2 DEF Thins, Stays, First
  <2>4. <<Target(d), Owner(d)>> \in Actor \X Actor
    BY FlowTyped
  <2>5. Cancelled(d)' <=> Cancelled(d)
    BY <1>6, CancelledStays
  <2>6. Spares(d)
    BY <1>6, <2>1, <2>3, <2>4, <2>5 DEF Spares
  <2> QED
    BY <1>6, <2>6, FlowSpared DEF Streams
<1> QED
  BY <1>10 DEF Streams

\* A request for a stream is taken up.
LEMMA StreamsStarts ==
  ASSUME AskAssumption, Apart, Base, Base', Messages, Streams, NEW p \in Actor \X Actor, net[p] # <<>>, Mail,
         Replies(p), Kind(First(p).call) = "stream"
  PROVE  Streams'
<1>0. ActorsTyped /\ NetTyped /\ AnswersTyped
  BY DEF Base, Types
<1>1. PICK m : m = First(p)
  OBVIOUS
<1>2. PICK x \in Call : x = m.call
  BY <1>1, RepliesIs
<1>3. /\ m \in Message /\ Ours(m) /\ p = <<Owner(x), Target(x)>>
      /\ Owner(x) \in Actor /\ Target(x) \in Actor /\ Owner(x) # Target(x)
  BY <1>1, <1>2, RepliesIs
<1>4. p[2] = Target(x)
  BY <1>3
<1>5. PICK z : z = [m |-> m, sent |-> 0]
  OBVIOUS
<1>6. z.m = m /\ z.sent = 0
  BY <1>5
<1>7. /\ net' = Popped(p) /\ serving' = [serving EXCEPT ![Target(x)] = @ \union {z}]
      /\ stream' = stream /\ got' = got /\ out' = out /\ pc' = pc
      /\ UNCHANGED <<plan, status, kills, born, corr>>
  BY <1>1, <1>2, <1>4, <1>5 DEF Replies, Answer, Mail, streams
<1>8. /\ serving'[Target(x)] = serving[Target(x)] \union {z}
      /\ \A a \in Actor \ {Target(x)} : serving'[a] = serving[a]
  BY <1>0, <1>3, <1>7 DEF AnswersTyped
<1>9. ASSUME NEW d \in Call, ~Open(d) \/ ~Of(corr[d], m) PROVE Flow(d)'
  <2>1. Open(d)' <=> Open(d)
    BY <1>7, PlanStays DEF Open, Waiting
  <2>2. Target(d) \in Actor
    BY FlowTyped
  <2>3. Open(d) => \A s \in serving'[Target(d)] : Of(corr[d], s.m) => s \in serving[Target(d)]
    BY <1>6, <1>8, <1>9, <2>2
  <2>4. Spares(d)
    BY <1>1, <1>7, <1>9, <2>1, <2>3, SparesPopped
  <2> QED
    BY <1>7, <2>4, FlowSpared DEF Streams
<1>10. ASSUME NEW d \in Call, Open(d), Of(corr[d], m) PROVE Flow(d)'
  <2>1. d = x
    BY <1>2, <1>3, <1>10 DEF Ours, Of
  <2>2. PICK b \in Seq(Message), f \in Seq(Message), g \in Seq(Nat), r \in Stream :
           b = Back(d) /\ f = Forth(d) /\ g = got[d] /\ r = stream[d]
    BY FlowTyped
  <2>3. PICK id, S, T : id = corr[d] /\ S = Answering(d) /\ T = S \union {z}
    OBVIOUS
  <2>4. Pending(f, b, S, id, g, r)
    BY <1>10, <2>2, <2>3 DEF Streams, Flow
  <2>5. f = net[p] /\ f # <<>> /\ f[1] = m /\ Of(id, f[1]) /\ Of(id, z.m)
    BY <1>0, <1>1, <1>3, <1>6, <1>10, <2>1, <2>2, <2>3, FirstIs DEF Forth
  <2>6. Pending(Tail(f), b, T, id, g, r) /\ NoGap(b, T, id, g, r)
    <3>1. f # <<>> /\ Of(id, f[1]) /\ z.sent = 0 /\ Of(id, z.m) /\ T = S \union {z}
      BY <1>6, <2>3, <2>5
    <3> QED
      BY <2>4, <3>1, PendingStarts
  <2>7. PICK q \in Actor \X Actor : q = <<Target(d), Owner(d)>>
    BY <1>3, <2>1
  <2>8. q # p
    BY <1>3, <2>1, <2>7
  <2>9. net'[p] = Tail(f) /\ net'[q] = net[q]
    BY <1>0, <1>7, <2>5, <2>8, PoppedIs
  <2>10. /\ Back(d)' = b /\ Forth(d)' = Tail(f) /\ Answering(d)' = T /\ corr'[d] = id
         /\ got'[d] = g /\ stream'[d] = r /\ out'[d] = out[d]
    BY <1>3, <1>7, <1>8, <2>1, <2>2, <2>3, <2>7, <2>9, PlanStays DEF Back, Forth, Answering
  <2>11. Cancelled(d)' <=> Cancelled(d)
    BY <1>7, CancelledStays
  <2>12. /\ Collected(g, r) /\ (~Cancelled(d) => Whole(g, r)) /\ (out[d] = "eof" => Len(g) = Chunks)
    BY <2>2 DEF Streams, Flow
  <2> QED
    BY <2>6, <2>10, <2>11, <2>12 DEF Flow
<1> QED
  BY <1>9, <1>10 DEF Streams

\* The responder sends the next chunk, or the end.
LEMMA StreamsSends ==
  ASSUME AskAssumption, Apart, Base, Base', Messages, Streams, NEW a \in Actor, NEW s \in serving[a], Sends(a, s)
  PROVE  Streams'
<1>0. ActorsTyped /\ NetTyped /\ AnswersTyped
  BY DEF Base, Types
<1>1. s \in Serving /\ Ours(s.m) /\ Serves(a, s)
  BY <1>0 DEF AnswersTyped, Messages
<1>2. PICK x \in Call : x = s.m.call
  BY <1>1, ChunkIs
<1>3. PICK m \in Message : m = ChunkOf(s)
  BY <1>1, ChunkIs
<1>4. m.corr = s.m.corr /\ Number(m) = s.sent + 1 /\ s.sent \in 0..Chunks
  BY <1>1, <1>3, ChunkIs
<1>5. a = Target(x) /\ Owner(x) \in Actor /\ Target(x) \in Actor /\ Owner(x) # Target(x)
  BY <1>1, <1>2, FlowTyped DEF Serves
<1>6. PICK u \in Actor \X Actor : u = <<Target(x), Owner(x)>>
  BY <1>5
<1>7. PICK z : z = [s EXCEPT !.sent = s.sent + 1]
  OBVIOUS
<1>8. z.sent = s.sent + 1
  BY <1>1, <1>7 DEF Serving
<1>9. PICK Z : Z = IF s.sent = Chunks THEN {} ELSE {z}
  OBVIOUS
<1>10. /\ net' = [net EXCEPT ![u] = Append(@, m)] /\ serving' = [serving EXCEPT ![a] = (@ \ {s}) \union Z]
       /\ stream' = stream /\ got' = got /\ out' = out /\ pc' = pc
       /\ UNCHANGED <<plan, status, kills, born, corr>>
  BY <1>2, <1>3, <1>5, <1>6, <1>7, <1>9 DEF Sends, calls, streams
<1>11. /\ net'[u] = Append(net[u], m) /\ \A q \in (Actor \X Actor) \ {u} : net'[q] = net[q]
       /\ serving'[a] = (serving[a] \ {s}) \union Z /\ \A e \in Actor \ {a} : serving'[e] = serving[e]
  BY <1>0, <1>10 DEF NetTyped, AnswersTyped
<1>12. s.sent # Chunks => z.m = s.m
  BY <1>1, <1>7, ChunkIs
<1>13. ASSUME NEW d \in Call, ~Open(d) \/ ~Of(corr[d], s.m) PROVE Flow(d)'
  <2>1. Open(d)' <=> Open(d)
    BY <1>10, PlanStays DEF Open, Waiting
  <2>2. Target(d) \in Actor /\ <<Target(d), Owner(d)>> \in Actor \X Actor
    BY FlowTyped
  <2>3. Open(d) => ~Of(corr[d], m) /\ ~Of(corr[d], s.m)
    BY <1>4, <1>13 DEF Of
  <2>4. Open(d) => \A q \in Actor \X Actor : Thins(q, corr[d]) /\ Stays(q, corr[d])
    BY <1>11, <2>3 DEF Thins, Stays
  <2>5. Open(d) => \A e \in serving'[Target(d)] : Of(corr[d], e.m) => e \in serving[Target(d)]
    BY <1>9, <1>11, <1>12, <2>2, <2>3
  <2>6. Cancelled(d)' <=> Cancelled(d)
    BY <1>10, CancelledStays
  <2>7. Spares(d)
    BY <1>10, <2>1, <2>2, <2>4, <2>5, <2>6 DEF Spares
  <2> QED
    BY <1>10, <2>7, FlowSpared DEF Streams
<1>14. ASSUME NEW d \in Call, Open(d), Of(corr[d], s.m) PROVE Flow(d)'
  <2>1. d = x
    BY <1>1, <1>2, <1>14 DEF Ours, Of
  <2>2. PICK b \in Seq(Message), f \in Seq(Message), g \in Seq(Nat), r \in Stream :
           b = Back(d) /\ f = Forth(d) /\ g = got[d] /\ r = stream[d]
    BY FlowTyped
  <2>3. PICK id, S, T : id = corr[d] /\ S = serving[a] /\ T = serving'[a]
    OBVIOUS
  <2>4. Pending(f, b, S, id, g, r) /\ (~Cancelled(d) => NoGap(b, S, id, g, r))
    BY <1>5, <1>14, <2>1, <2>2, <2>3 DEF Streams, Flow, Answering
  <2>5. Of(id, s.m) /\ Of(id, m) /\ s \in S
    BY <1>4, <1>14, <2>3 DEF Of
  <2>6. ASSUME NEW e \in T, Of(id, e.m) PROVE e = z
    <3>1. e \in S \ {s} => e = s
      BY <2>4, <2>5, <2>6 DEF Pending, Sent
    <3> QED
      BY <1>9, <1>11, <2>3, <3>1
  <2>7. /\ Pending(f, Append(b, m), T, id, g, r)
        /\ NoGap(b, S, id, g, r) => NoGap(Append(b, m), T, id, g, r)
    <3>1. Pending(f, b, S, id, g, r)
      BY <2>4
    <3>2. \A e \in T : Of(id, e.m) => e = z
      BY <2>6
    <3>3. Number(m) = s.sent + 1 /\ z.sent = s.sent + 1 /\ s.sent \in 0..Chunks
      BY <1>4, <1>8
    <3> QED
      BY <2>5, <3>1, <3>2, <3>3, PendingSends
  <2>8. PICK q \in Actor \X Actor : q = <<Owner(d), Target(d)>>
    BY <1>5, <2>1
  <2>9. q # u
    BY <1>5, <1>6, <2>1, <2>8
  <2>10. net'[u] = Append(b, m) /\ net'[q] = net[q]
    BY <1>6, <1>11, <2>1, <2>2, <2>9 DEF Back
  <2>11. /\ Back(d)' = Append(b, m) /\ Forth(d)' = f /\ Answering(d)' = T /\ corr'[d] = id
         /\ got'[d] = g /\ stream'[d] = r /\ out'[d] = out[d]
    BY <1>5, <1>6, <1>10, <2>1, <2>2, <2>3, <2>8, <2>10, PlanStays DEF Back, Forth, Answering
  <2>12. Cancelled(d)' <=> Cancelled(d)
    BY <1>10, CancelledStays
  <2>13. /\ Collected(g, r) /\ (~Cancelled(d) => Whole(g, r)) /\ (out[d] = "eof" => Len(g) = Chunks)
    BY <2>2 DEF Streams, Flow
  <2> QED
    BY <2>4, <2>7, <2>11, <2>12, <2>13 DEF Flow
<1> QED
  BY <1>13, <1>14 DEF Streams

-----------------------------------------------------------------------------
(* Every step keeps the invariant. *)

\* Begin() and BackoffEnds(): a request is sent, or the call is over.
LEMMA StepAsks ==
  ASSUME AskAssumption, Apart, AskInv, NEW c \in Call, Begin(c) \/ BackoffEnds(c)
  PROVE  AskInv'
<1>0. /\ Base /\ Messages /\ Answers /\ Effects /\ Streams
      /\ ActorsTyped /\ RegistryTyped /\ CallsTyped /\ NetTyped /\ Phases
  BY DEF AskInv, Base, Types
<1>1. Base' /\ Streams'
  BY <1>0, BaseBegin, BaseBackoff, StreamsBegin, StreamsBackoff
<1>2. /\ UNCHANGED <<plan, cache, ran, serving>> /\ ~Waiting(c)
      /\ \A d \in Call \ {c} : reply'[d] = reply[d]
  BY <1>0 DEF Begin, BackoffEnds, answers, Waiting, CallsTyped
<1>3. Effects'
  BY <1>0, <1>2, EffectsKept
<1>4. \/ /\ UNCHANGED <<counter, corr, net>> /\ out'[c] # "ok"
         /\ \A d \in Call \ {c} : out'[d] = out[d]
      \/ \E n \in 1..Rounds, x \in BOOLEAN : Ask(c, n, x)
  <2>1. CASE Begin(c)
    <3>1. CASE Kind(c) = "guarded" /\ ~allow(breaker)
      <4>1. UNCHANGED <<counter, corr, net>> /\ out' = [out EXCEPT ![c] = "circuit_open"]
        BY <2>1, <3>1 DEF Begin
      <4> QED
        BY <1>0, <4>1 DEF CallsTyped
    <3>2. CASE ~(Kind(c) = "guarded" /\ ~allow(breaker))
      <4>1. Ask(c, round[c] + 1, status[Owner(c)] # "alive") /\ round[c] < plan[c].rounds
        BY <2>1, <3>2 DEF Begin
      <4>2. plan[c].rounds \in Nat /\ plan[c].rounds <= Rounds /\ round[c] \in Nat /\ Rounds \in Nat
        BY <1>0, PlanFacts, Bounds DEF ActorsTyped, CallsTyped
      <4>3. round[c] + 1 \in 1..Rounds
        BY <4>1, <4>2
      <4>4. PICK x \in BOOLEAN : Ask(c, round[c] + 1, x)
        BY <4>1
      <4> QED
        BY <4>3, <4>4
    <3> QED
      BY <3>1, <3>2
  <2>2. CASE BackoffEnds(c) /\ Cancelled(c)
    <3>1. UNCHANGED <<counter, corr, net>> /\ out' = [out EXCEPT ![c] = "cancelled"]
      BY <2>2 DEF BackoffEnds, Ends
    <3> QED
      BY <1>0, <3>1 DEF CallsTyped
  <2>3. CASE BackoffEnds(c) /\ ~Cancelled(c)
    <3>1. Ask(c, round[c], FALSE) /\ pc[c] = "backoff"
      BY <2>3 DEF BackoffEnds
    <3>2. round[c] \in 1..Rounds
      BY <1>0, <3>1 DEF Phases, Phase
    <3> QED
      BY <3>1, <3>2
  <2> QED
    BY <2>1, <2>2, <2>3
<1>5. CASE /\ UNCHANGED <<counter, corr, net>> /\ out'[c] # "ok"
           /\ \A d \in Call \ {c} : out'[d] = out[d]
  <2>1. Messages'
    BY <1>0, <1>2, <1>5, MessagesKept
  <2>2. Answers'
    BY <1>0, <1>2, <1>5, AnswersKept
  <2> QED
    BY <1>1, <1>3, <2>1, <2>2 DEF AskInv, Base
<1>6. CASE \E n \in 1..Rounds, x \in BOOLEAN : Ask(c, n, x)
  <2>1. PICK n \in 1..Rounds, x \in BOOLEAN : Ask(c, n, x)
    BY <1>6
  <2>2. /\ Asks(c) /\ Request(c, n) \in Message
        /\ net' = [net EXCEPT ![<<Owner(c), Target(c)>>] = Append(@, Request(c, n))]
        /\ out'[c] \in {"pending", "cancelled"} /\ \A d \in Call \ {c} : out'[d] = out[d]
    <3>1. ActorsTyped /\ RegistryTyped /\ CallsTyped /\ NetTyped /\ UNCHANGED plan /\ ~Waiting(c)
      BY <1>0, <1>2
    <3> QED
      BY <2>1, <3>1, AskShape
  <2>3. Messages'
    BY <1>0, <1>2, <2>2, MessagesAsk
  <2>4. \A d \in Call \ {c} : corr'[d] = corr[d]
    BY <1>0, <2>2 DEF Asks, RegistryTyped
  <2>5. Answers'
    BY <1>0, <1>2, <2>2, <2>4, AnswersKept
  <2> QED
    BY <1>1, <1>3, <2>3, <2>5 DEF AskInv, Base
<1> QED
  BY <1>4, <1>5, <1>6

\* The other steps of a call.
LEMMA StepCalls ==
  ASSUME AskAssumption, Apart, AskInv, NEW c \in Call,
         \/ ResumeAsk(c) \/ on_timeout(c) \/ Destroy(c)
         \/ NextChunk(c) \/ ResumeNext(c)
  PROVE  AskInv'
<1>0. /\ Base /\ Messages /\ Answers /\ Effects /\ Streams /\ CallsTyped
  BY DEF AskInv, Base, Types
<1>1. Base'
  BY <1>0, BaseResumeAsk, BaseTimeout, BaseDestroy, BaseNextChunk, BaseResumeNext
<1>2. Streams'
  BY <1>0, <1>1, StreamsCalls, StreamsNext
<1>3. UNCHANGED <<plan, counter, corr, net, reply, cache, ran, serving>>
  BY DEF ResumeAsk, on_timeout, Destroy, NextChunk, ResumeNext, answers
<1>4. \A d \in Call : out'[d] = out[d] \/ out'[d] # "ok"
  <2>1. CASE ResumeAsk(c)
    BY <1>0, <2>1 DEF ResumeAsk, Ends, CallsTyped
  <2>2. CASE on_timeout(c)
    BY <1>0, <2>2 DEF on_timeout, CallsTyped
  <2>3. CASE Destroy(c)
    BY <1>0, <2>3 DEF Destroy, Ends, CallsTyped
  <2>4. CASE Take(c)
    <3>1. CASE out' = [out EXCEPT ![c] = "pending"]
      BY <1>0, <3>1 DEF CallsTyped
    <3>2. CASE Ends(c, IF stream[c].dropped THEN "overflow" ELSE IF Cancelled(c) THEN "cancelled"
                       ELSE IF stream[c].done THEN "eof" ELSE out[c])
      BY <1>0, <3>2 DEF Ends, CallsTyped
    <3> QED
      BY <2>4, <3>1, <3>2 DEF Take
  <2>5. CASE UNCHANGED out
    BY <2>5
  <2> QED
    BY <2>1, <2>2, <2>3, <2>4, <2>5 DEF NextChunk, ResumeNext
<1>5. Messages' /\ Effects'
  BY <1>0, <1>3, MessagesKept, EffectsKept
<1>6. Answers'
  BY <1>0, <1>3, <1>4, AnswersKept
<1> QED
  BY <1>1, <1>2, <1>5, <1>6 DEF AskInv, Base

\* Cool().
LEMMA StepCool ==
  ASSUME AskAssumption, Apart, AskInv, Cool
  PROVE  AskInv'
<1>0. /\ Base /\ Messages /\ Answers /\ Effects /\ Streams
  BY DEF AskInv, Base
<1>1. Base'
  BY <1>0, BaseCool
<1>2. ASSUME NEW c \in Call PROVE Flow(c)'
  <2>1. PICK a \in Actor : a = Owner(c)
    BY <1>0, FlowTyped
  <2> QED
    BY <1>0, <1>1, <2>1, StreamsActors DEF Streams
<1>3. UNCHANGED <<plan, counter, corr, net, out, reply, cache, ran, serving>>
  BY DEF Cool, calls, answers
<1>4. Messages' /\ Effects' /\ Answers'
  BY <1>0, <1>3, MessagesKept, EffectsKept, AnswersKept
<1> QED
  BY <1>1, <1>2, <1>4 DEF AskInv, Base, Streams

\* Kill(), Reap() and Respawn().
LEMMA StepActors ==
  ASSUME AskAssumption, Apart, AskInv, NEW a \in Actor, Kill(a) \/ Reap(a) \/ Respawn(a)
  PROVE  AskInv'
<1>0. /\ Base /\ Messages /\ Answers /\ Effects /\ Streams
  BY DEF AskInv, Base
<1>1. Base'
  BY <1>0, BaseActors
<1>2. Streams'
  BY <1>0, <1>1, StreamsActors
<1>3. CASE Kill(a) \/ Respawn(a)
  <2>1. /\ UNCHANGED <<plan, counter, corr, net, reply, cache, ran, serving>>
        /\ \A d \in Call : out'[d] = out[d] \/ out'[d] # "ok"
    BY <1>3 DEF Kill, Respawn, calls, answers
  <2>2. Messages' /\ Effects' /\ Answers'
    BY <1>0, <2>1, MessagesKept, EffectsKept, AnswersKept
  <2> QED
    BY <1>1, <1>2, <2>2 DEF AskInv, Base
<1>4. CASE Reap(a)
  <2>1. UNCHANGED <<corr, out, reply>>
    BY <1>4 DEF Reap, calls
  <2>2. Messages' /\ Effects' /\ Answers'
    BY <1>0, <1>4, <2>1, MessagesReap, EffectsReap, AnswersKept
  <2> QED
    BY <1>1, <1>2, <2>2 DEF AskInv, Base
<1> QED
  BY <1>3, <1>4

\* Arrives(), in each of its three ways.
LEMMA StepArrives ==
  ASSUME AskAssumption, Apart, AskInv, NEW x \in Actor, NEW y \in Actor, Arrives(x, y)
  PROVE  AskInv'
<1>0. /\ Base /\ Messages /\ Answers /\ Effects /\ Streams /\ NetTyped
  BY DEF AskInv, Base, Types
<1>1. PICK p \in Actor \X Actor : /\ net[p] # <<>> /\ Mail
            /\ ((\E c : Resolves(p, c)) \/ Replies(p) \/ Ignores(p))
  BY ArrivesIs
<1>2. UNCHANGED <<plan, counter, corr>>
  BY <1>1 DEF Mail
<1>3. CASE \E c : Resolves(p, c)
  <2>1. PICK c : Resolves(p, c)
    BY <1>3
  <2>2. Base'
    BY <1>0, <1>1, <2>1, BaseResolves
  <2>3. net' = Popped(p) /\ UNCHANGED <<cache, ran, serving>>
    BY <2>1 DEF Resolves, answers
  <2>4. Messages' /\ Effects'
    BY <1>0, <1>1, <1>2, <2>3, MessagesPopped, EffectsKept
  <2>5. Answers'
    BY <1>0, <1>1, <2>1, AnswersResolves
  <2>6. Streams'
    BY <1>0, <1>1, <2>1, <2>2, StreamsResolves
  <2> QED
    BY <2>2, <2>4, <2>5, <2>6 DEF AskInv, Base
<1>4. CASE Replies(p)
  <2>1. Base'
    BY <1>0, <1>1, <1>4, BaseReplies
  <2>2. Messages' /\ Effects'
    BY <1>0, <1>1, <1>4, MessagesReplies, EffectsReplies
  <2>3. UNCHANGED <<out, reply>>
    BY <1>4 DEF Replies
  <2>4. Answers'
    BY <1>0, <1>2, <2>3, AnswersKept
  <2>5. Streams'
    BY <1>0, <1>1, <1>4, <2>1, StreamsAnswered, StreamsStarts
  <2> QED
    BY <2>1, <2>2, <2>4, <2>5 DEF AskInv, Base
<1>5. CASE Ignores(p)
  <2>1. Base'
    BY <1>0, <1>1, <1>5, BaseIgnores
  <2>2. net' = Popped(p) /\ UNCHANGED <<out, reply, cache, ran, serving>>
    BY <1>5 DEF Ignores, answers
  <2>3. Messages' /\ Effects' /\ Answers'
    BY <1>0, <1>1, <1>2, <2>2, MessagesPopped, EffectsKept, AnswersKept
  <2>4. Streams'
    BY <1>0, <1>1, <1>5, <2>1, StreamsIgnores
  <2> QED
    BY <2>1, <2>3, <2>4 DEF AskInv, Base
<1> QED
  BY <1>1, <1>3, <1>4, <1>5

\* Yield().
LEMMA StepYield ==
  ASSUME AskAssumption, Apart, AskInv, NEW a \in Actor, Yield(a)
  PROVE  AskInv'
<1>0. /\ Base /\ Messages /\ Answers /\ Effects /\ Streams
  BY DEF AskInv, Base
<1>1. PICK s \in serving[a] : Sends(a, s)
  BY YieldIs
<1>2. Base'
  BY <1>0, <1>1, BaseSends
<1>3. Messages'
  BY <1>0, <1>1, MessagesSends
<1>4. Streams'
  BY <1>0, <1>1, <1>2, StreamsSends
<1>5. UNCHANGED <<plan, corr, out, reply, cache, ran>>
  BY <1>1 DEF Sends, calls
<1>6. Effects' /\ Answers'
  BY <1>0, <1>5, EffectsKept, AnswersKept
<1> QED
  BY <1>2, <1>3, <1>4, <1>6 DEF AskInv, Base

\* Nothing has been asked at the start.
LEMMA AskInit ==
  ASSUME AskAssumption, Apart, Init
  PROVE  AskInv
<1>0. Range(Core) \subseteq Nat
  BY DEF AskAssumption, Range
<1>1. Rounds \in Nat \ {0} /\ Attempts \in Nat \ {0} /\ Threshold \in Nat \ {0}
      /\ CacheCap \in Nat \ {0} /\ StreamCap \in Nat \ {0} /\ Chunks \in Nat
  BY Bounds
<1>2. ActorsTyped /\ RegistryTyped
  BY DEF Init, ActorsTyped, RegistryTyped
<1>3. CallsTyped
  BY <1>1 DEF Init, CallsTyped
<1>4. StreamsTyped
  BY <1>1, EmptyQueue DEF Init, StreamsTyped, NoStream, Stream
<1>5. BreakerTyped /\ NetTyped /\ AnswersTyped
  BY <1>1 DEF Init, BreakerTyped, NetTyped, AnswersTyped
<1>6. Ids /\ Answers
  BY DEF Init, Ids, Issued, Answers, Answered
<1>7. ASSUME NEW c \in Call PROVE ~Waiting(c)
  BY DEF Init, Waiting
<1>8. Slots
  BY <1>7 DEF Init, Slots
<1>9. Phases
  <2>1. ASSUME NEW c \in Call PROVE Phase(c)
    <3>1. Owner(c) \in Actor
      BY <1>2, PlanFacts DEF ActorsTyped
    <3> QED
      BY <3>1 DEF Init, Phase
  <2> QED
    BY <2>1 DEF Phases
<1>10. Messages
  BY DEF Init, Messages, Range
<1>11. Effects
  <2>1. \A k \in Keys : Once(k)
    BY DEF Init, Once
  <2>2. ASSUME NEW a \in Actor PROVE Remembered(a)
    <3>1. cache[a] = <<>>
      BY DEF Init
    <3>2. IsInjective(<<>>) /\ Range(<<>>) = {} /\ Len(<<>>) = 0
      BY DEF IsInjective, Range
    <3>3. IsInjective(cache[a]) /\ Range(cache[a]) = {} /\ Len(cache[a]) = 0
      BY <3>1, <3>2
    <3> QED
      BY <1>1, <3>3 DEF Remembered
  <2> QED
    BY <2>1, <2>2 DEF Effects
<1>12. ASSUME NEW c \in Call PROVE Flow(c)
  <2>1. stream[c] = NoStream /\ got[c] = <<>> /\ out[c] # "eof"
    BY DEF Init
  <2>2. Collected(<<>>, NoStream) /\ Whole(<<>>, NoStream)
    BY DEF Collected, Whole, NoStream, Increases
  <2>3. ~Open(c)
    BY <1>7 DEF Open
  <2> QED
    BY <2>1, <2>2, <2>3 DEF Flow
<1> QED
  BY <1>2, <1>3, <1>4, <1>5, <1>6, <1>8, <1>9, <1>10, <1>11, <1>12 DEF AskInv, Types, Streams

\* One step per action.
LEMMA AskStep ==
  ASSUME AskAssumption, Apart, AskInv, [Next]_vars
  PROVE  AskInv'
<1>1. CASE Cool
  BY <1>1, StepCool
<1>2. ASSUME NEW c \in Call, Begin(c) \/ BackoffEnds(c)
      PROVE  AskInv'
  BY <1>2, StepAsks
<1>3. ASSUME NEW c \in Call, ResumeAsk(c) \/ on_timeout(c) \/ NextChunk(c) \/ ResumeNext(c) \/ Destroy(c)
      PROVE  AskInv'
  BY <1>3, StepCalls
<1>4. ASSUME NEW a \in Actor, NEW b \in Actor, Arrives(a, b)
      PROVE  AskInv'
  BY <1>4, StepArrives
<1>5. ASSUME NEW a \in Actor, Yield(a)
      PROVE  AskInv'
  BY <1>5, StepYield
<1>6. ASSUME NEW a \in Actor, Kill(a) \/ Reap(a) \/ Respawn(a)
      PROVE  AskInv'
  BY <1>6, StepActors
<1>7. CASE UNCHANGED vars
  <2>1. /\ UNCHANGED <<plan, status, kills, counter, slots, net, stream, got, breaker, cache, ran, serving>>
        /\ UNCHANGED <<pc, born, round, attempt, corr, timer, out, reply>>
    BY <1>7 DEF vars, calls, streams, answers
  <2>2. Types'
    BY <2>1 DEF AskInv, Types, ActorsTyped, RegistryTyped, CallsTyped, StreamsTyped, BreakerTyped, NetTyped,
                AnswersTyped
  <2>3. Ids' /\ Slots' /\ Phases'
    <3>1. \A c \in Call : Kind(c)' = Kind(c) /\ Owner(c)' = Owner(c) /\ Target(c)' = Target(c)
      BY <2>1, PlanStays
    <3>2. \A c \in Call : Waiting(c)' <=> Waiting(c)
      BY <2>1, <3>1 DEF Waiting
    <3> QED
      BY <2>1 DEF AskInv, Ids, Issued, Slots, SlotIsLive, Phases, Phase, Waiting, Kind, Owner, Target
  <2>4. Messages' /\ Effects' /\ Answers'
    BY <2>1, MessagesKept, EffectsKept, AnswersKept DEF AskInv
  <2>5. Base /\ Base' /\ Streams
    BY <2>2, <2>3 DEF AskInv, Base
  <2>6. ASSUME NEW c \in Call PROVE Flow(c)'
    <3>1. UNCHANGED streams /\ UNCHANGED answers
      BY <2>1 DEF streams, answers
    <3>2. Waiting(c)' => Waiting(c)
      BY <2>1, PlanStays DEF Waiting
    <3> QED
      BY <2>1, <2>5, <3>1, <3>2, StreamsAlone DEF Streams
  <2> QED
    BY <2>2, <2>3, <2>4, <2>6 DEF AskInv, Streams
<1> QED
  BY <1>1, <1>2, <1>3, <1>4, <1>5, <1>6, <1>7 DEF Next

(* The ids of the waiting calls and the registry agree, messages have the  *)
(* id of their call and the direction of what they are, and what is on its *)
(* way to an open stream continues what has come.                          *)
THEOREM AsksAreTrue == Apart => (Spec => []AskInv)
<1> SUFFICES ASSUME Apart PROVE Spec => []AskInv
  OBVIOUS
<1>1. Init => AskInv
  BY AskInit, AskAssumption
<1>2. AskInv /\ [Next]_vars => AskInv'
  BY AskStep, AskAssumption
<1> QED
  BY <1>1, <1>2, PTL DEF Spec

(* ask(): a call is resolved by the answer to its own present request,     *)
(* whatever late answers, timeouts, retries, kills and reused actor ids    *)
(* come before it, and the registry holds no slot of a call that is over.  *)
THEOREM AskIsAnswered == Apart => (Spec => []RepliesMatch)
<1>1. ASSUME AskInv PROVE RepliesMatch
  <2>0. /\ ActorsTyped /\ RegistryTyped /\ CallsTyped /\ StreamsTyped /\ BreakerTyped /\ Slots /\ Answers /\ Effects
    BY <1>1 DEF AskInv, Types
  <2>1. \A a \in Actor : Len(cache[a]) <= CacheCap
    BY <2>0 DEF Effects, Remembered
  <2>2. breaker.state \in {"closed", "open", "half_open"} /\ breaker.failures \in 0..Threshold
    BY <2>0 DEF BreakerTyped
  <2>3. TypeOK
    BY <2>0, <2>1, <2>2 DEF TypeOK, ActorsTyped, RegistryTyped, CallsTyped, StreamsTyped
  <2>4. SlotsAreLive
    BY <2>0, <2>3 DEF SlotsAreLive, Slots, SlotIsLive
  <2> QED
    BY <2>0, <2>4 DEF RepliesMatch, Answers, Answered
<1>2. AskInv => RepliesMatch
  BY <1>1
<1> QED
  BY <1>2, AsksAreTrue, PTL

(* answer_idempotent(): an operation that is retried runs once as long as  *)
(* the responder's dedup_map keeps its key.                                *)
THEOREM RetriesRunOnce == Apart => (Spec => []EffectsAreOnce)
<1>1. AskInv => EffectsAreOnce
  BY DEF AskInv, Effects, Once, EffectsAreOnce
<1> QED
  BY <1>1, AsksAreTrue, PTL

(* ask_stream(): chunks come in order and none twice, none is missing      *)
(* while the consumer's actor lives, and the end comes after all of them.  *)
THEOREM StreamsArriveWhole == Apart => (Spec => []StreamIsWhole)
<1>1. ASSUME AskInv, NEW c \in Call
      PROVE  /\ \A i \in 1..(Len(got[c]) - 1) : got[c][i] < got[c][i + 1]
             /\ ~Cancelled(c) => got[c] = [i \in 1..Len(got[c]) |-> i]
             /\ out[c] = "eof" => Len(got[c]) = Chunks
  <2>1. Flow(c)
    BY <1>1 DEF AskInv, Streams
  <2>2. PICK g \in Seq(Nat) : g = got[c]
    BY <1>1 DEF AskInv, Types, StreamsTyped
  <2>3. Len(g) \in Nat /\ DOMAIN g = 1..Len(g) /\ g = [i \in 1..Len(g) |-> g[i]]
    OBVIOUS
  <2>4. \A i, j \in 1..Len(g) : i < j => g[i] < g[j]
    BY <2>1, <2>2, <2>3 DEF Flow, Collected, Increases
  <2>5. ASSUME NEW i \in 1..(Len(g) - 1) PROVE g[i] < g[i + 1]
    <3>1. i \in 1..Len(g) /\ i + 1 \in 1..Len(g) /\ i < i + 1
      BY <2>3
    <3> QED
      BY <2>4, <3>1
  <2>6. ~Cancelled(c) => \A i \in 1..Len(g) : g[i] = i
    BY <2>1, <2>2, <2>3 DEF Flow, Whole
  <2>7. ~Cancelled(c) => g = [i \in 1..Len(g) |-> i]
    BY <2>3, <2>6
  <2> QED
    BY <2>1, <2>2, <2>5, <2>7 DEF Flow
<1>2. AskInv => StreamIsWhole
  BY <1>1 DEF StreamIsWhole
<1> QED
  BY <1>2, AsksAreTrue, PTL
=============================================================================
