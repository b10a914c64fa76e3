----------------------------- MODULE PollerProofs -----------------------------
(***************************************************************************)
(* Proofs about PollerDelivery for any number of updates, workers, queue   *)
(* sizes, restarts and failures.                                           *)
(*                                                                         *)
(* Within one start the producer numbers what it enqueues: the update with *)
(* the number n is base + n - 1, where base is where the start began.      *)
(* FlowInv(base) says where each number is: acknowledged and released,     *)
(* acknowledged and waiting in the tracker, or in one of the queues, which *)
(* are in order.  Everything the properties say follows from it, and so    *)
(* does, at the end, that the poller keeps the ledger of DeliveryLedger.   *)
(***************************************************************************)
EXTENDS PollerLedger, LeastElement, FiniteSetTheorems, TLAPS

\* The items between the producer and the tracker, stage by stage.
Pending == {putting} \ {Nothing}
Waiting == ToSet(ingress) \ {Close}
Carried == {held} \ {Nothing, Close}
Charge(w) == ToSet(queues[w]) \ {Close}
Hand(w) == IF work[w].phase \in {"publishing", "appended"} THEN {work[w].item} ELSE {}

Upstream == Carried \cup Waiting \cup Pending
Mine(w) == Hand(w) \cup Charge(w)
InFlight == Upstream \cup UNION {Mine(w) : w \in Workers}

Before(S, T) == \A i \in S, j \in T : i.seq < j.seq

Ascending(q) ==
  \A i, j \in 1..Len(q) : i < j /\ q[i] # Close /\ q[j] # Close => q[i].seq < q[j].seq

\* An item numbered in the start that began at base.
Numbered(base, i) == i \in Items /\ i.update = base + i.seq - 1 /\ i.seq <= seqno

-----------------------------------------------------------------------------
(* The invariant.                                                          *)

\* What was acknowledged: released numbers are published, and so is the tracker.
TrackerOk(base) ==
  /\ nextSequence <= seqno + 1
  /\ \A n \in 1..(nextSequence - 1) : base + n - 1 \in published
  /\ \A i \in completed : Numbered(base, i) /\ nextSequence < i.seq /\ i.update \in published

\* No offset passes what was released; below the base nothing is missing.
OffsetsOk(base) ==
  /\ base \in 0..(UpdateCount + 1)
  /\ seqno > 0 => base > 0
  /\ \A u \in Updates : u < base => u \in published \/ u < kept
  /\ stored <= base + nextSequence - 1
  /\ \A w \in Workers :
       work[w].phase = "saving" => seqno > 0 /\ work[w].offset <= base + nextSequence - 1

\* What is in flight is numbered and not acknowledged, and the queues are in order.
StagesOk(base) ==
  /\ \A i \in InFlight : Numbered(base, i) /\ nextSequence <= i.seq /\ i \notin completed
  /\ putting # Nothing => putting.seq = seqno
  /\ Ascending(ingress)
  /\ Before(Carried, Waiting) /\ Before(Carried \cup Waiting, Pending)

\* A worker has only its own sources, in order, and nothing the dispatcher still has.
WorkerOk(w) ==
  /\ Ascending(queues[w])
  /\ Before(Hand(w), Charge(w))
  /\ Before(Mine(w), Upstream)
  /\ \A i \in Mine(w) : WorkerFor(i.update) = w
  /\ work[w].phase = "appended" => work[w].item.update \in published

\* A sentinel is the last thing in a queue, and its worker exits on it.
ClosingOk ==
  /\ closed > 0 => held = Close
  /\ \A w \in Workers :
       /\ Close \in ToSet(queues[w]) \/ work[w].phase = "exited" => w <= closed
       /\ \A i \in 1..Len(queues[w]) : queues[w][i] = Close => i = Len(queues[w])
       /\ work[w].phase = "exited" => queues[w] = <<>>

\* The producer goes on where its last number ends.
ProducerOk(base) ==
  /\ \A u \in accepted : base <= u /\ u < base + seqno /\ u # putting.update
  /\ runner \in {"down", "starting"} => seqno = 0 /\ batch = <<>>
  /\ runner = "polling" =>
       /\ \A i \in 1..Len(batch) : batch[i] = base + seqno + i - 1
       /\ seqno = 0 => offset = stored /\ (batch # <<>> => base = kept)
       /\ seqno > 0 => kept <= base + seqno /\ (putting = Nothing => offset = base + seqno)
       /\ \A n \in 1..seqno : base + n - 1 \in accepted \/ (putting # Nothing /\ n = seqno)

Processed(base, n) == n < nextSequence \/ Item(base + n - 1, n) \in completed

\* A worker that has not failed has lost nothing.
NothingLost(base, w) ==
  work[w].phase # "failed" =>
    \A n \in 1..seqno :
      WorkerFor(base + n - 1) = w =>
        \/ Processed(base, n)
        \/ Item(base + n - 1, n) \in InFlight
        \/ n = seqno /\ runner = "raised"

\* What is missing before a published update of its source lies below the base,
\* or below where the base will be.
SourcesOk(base) ==
  \A v \in published, u \in Updates :
    u < v /\ Source[u] = Source[v] => u \in published \/ u < base \/ (seqno = 0 /\ u < kept)

FlowInv(base) ==
  /\ TrackerOk(base) /\ OffsetsOk(base) /\ StagesOk(base) /\ ProducerOk(base) /\ SourcesOk(base)
  /\ \A w \in Workers : WorkerOk(w) /\ NothingLost(base, w)
  /\ ClosingOk
  /\ DrainedAllPublished

\* Where a start can begin.
Bases == 0..(UpdateCount + 1)

PollerInv == TypeOK /\ \E base \in Bases : FlowInv(base)

-----------------------------------------------------------------------------
(* Queues.                                                                 *)

\* What is put into a queue comes last.
LEMMA PutFacts ==
  ASSUME NEW S, NEW q \in Seq(S), NEW x \in S
  PROVE  /\ Append(q, x) \in Seq(S) /\ Len(Append(q, x)) = Len(q) + 1
         /\ \A i \in 1..Len(q) : Append(q, x)[i] = q[i]
         /\ Append(q, x)[Len(q) + 1] = x
         /\ ToSet(Append(q, x)) = ToSet(q) \cup {x}
<1>1. /\ Append(q, x) \in Seq(S) /\ Len(Append(q, x)) = Len(q) + 1 /\ Len(q) \in Nat
      /\ \A i \in 1..Len(q) : Append(q, x)[i] = q[i]
      /\ Append(q, x)[Len(q) + 1] = x
  OBVIOUS
<1>2. DOMAIN q = 1..Len(q) /\ DOMAIN Append(q, x) = 1..(Len(q) + 1)
  BY <1>1
<1>3. ToSet(Append(q, x)) \subseteq ToSet(q) \cup {x}
  BY <1>1, <1>2 DEF ToSet
<1>4. ToSet(q) \cup {x} \subseteq ToSet(Append(q, x))
  BY <1>1, <1>2 DEF ToSet
<1> QED BY <1>1, <1>3, <1>4

\* What is taken from a queue was first.
LEMMA TakeFacts ==
  ASSUME NEW S, NEW q \in Seq(S), q # <<>>
  PROVE  /\ Head(q) = q[1] /\ Head(q) \in S /\ 1 \in 1..Len(q)
         /\ Tail(q) \in Seq(S) /\ Len(Tail(q)) = Len(q) - 1
         /\ \A i \in 1..(Len(q) - 1) : Tail(q)[i] = q[i + 1]
         /\ ToSet(q) = {Head(q)} \cup ToSet(Tail(q))
<1>1. /\ Head(q) = q[1] /\ Head(q) \in S /\ Len(q) \in Nat \ {0}
      /\ Tail(q) \in Seq(S) /\ Len(Tail(q)) = Len(q) - 1
      /\ \A i \in 1..(Len(q) - 1) : Tail(q)[i] = q[i + 1]
  OBVIOUS
<1>2. DOMAIN q = 1..Len(q) /\ DOMAIN Tail(q) = 1..(Len(q) - 1)
  BY <1>1
<1>3. ASSUME NEW i \in DOMAIN q PROVE q[i] \in {Head(q)} \cup ToSet(Tail(q))
  <2>1. CASE i = 1
    BY <1>1, <2>1
  <2>2. CASE i # 1
    <3>1. i - 1 \in DOMAIN Tail(q) /\ Tail(q)[i - 1] = q[i]
      BY <1>1, <1>2, <2>2
    <3> QED BY <3>1 DEF ToSet
  <2> QED BY <2>1, <2>2
<1>4. ASSUME NEW i \in DOMAIN Tail(q) PROVE Tail(q)[i] \in ToSet(q)
  <2>1. i + 1 \in DOMAIN q /\ Tail(q)[i] = q[i + 1]
    BY <1>1, <1>2
  <2> QED BY <2>1 DEF ToSet
<1>5. Head(q) \in ToSet(q)
  BY <1>1, <1>2 DEF ToSet
<1>6. ToSet(q) = {Head(q)} \cup ToSet(Tail(q))
  BY <1>3, <1>4, <1>5 DEF ToSet
<1> QED BY <1>1, <1>6

\* The members of a queue, by their places.
LEMMA MemberFacts ==
  ASSUME NEW S, NEW q \in Seq(S)
  PROVE  /\ \A i \in 1..Len(q) : q[i] \in ToSet(q)
         /\ \A x \in ToSet(q) : x \in S /\ \E i \in 1..Len(q) : q[i] = x
<1>1. DOMAIN q = 1..Len(q)
  OBVIOUS
<1> QED BY <1>1 DEF ToSet

\* A greater number keeps a queue in order, and so does the sentinel.
LEMMA PutAscending ==
  ASSUME NEW S, NEW q \in Seq(S), NEW x \in S, Ascending(q),
         x = Close \/ \A y \in ToSet(q) \ {Close} : y.seq < x.seq
  PROVE  Ascending(Append(q, x))
<1> SUFFICES ASSUME NEW i \in 1..Len(Append(q, x)), NEW j \in 1..Len(Append(q, x)), i < j,
                    Append(q, x)[i] # Close, Append(q, x)[j] # Close
             PROVE  Append(q, x)[i].seq < Append(q, x)[j].seq
  BY DEF Ascending
<1>1. /\ Len(q) \in Nat
      /\ Len(Append(q, x)) = Len(q) + 1
      /\ \A k \in 1..Len(q) : Append(q, x)[k] = q[k]
      /\ Append(q, x)[Len(q) + 1] = x
  BY PutFacts
<1>2. i \in 1..Len(q) /\ Append(q, x)[i] = q[i] /\ q[i] \in ToSet(q)
  <2>1. i \in 1..Len(q)
    BY <1>1
  <2> QED BY <1>1, <2>1, MemberFacts
<1>3. CASE j \in 1..Len(q)
  BY <1>1, <1>2, <1>3 DEF Ascending
<1>4. CASE j = Len(q) + 1
  BY <1>1, <1>2, <1>4
<1> QED BY <1>1, <1>3, <1>4

\* The rest of a queue in order is in order, and behind what was taken.
LEMMA TakeAscending ==
  ASSUME NEW S, NEW q \in Seq(S), q # <<>>, Ascending(q)
  PROVE  /\ Ascending(Tail(q))
         /\ Head(q) # Close => \A y \in ToSet(Tail(q)) \ {Close} : Head(q).seq < y.seq
<1>1. /\ Len(q) \in Nat /\ Head(q) = q[1] /\ 1 \in 1..Len(q)
      /\ Tail(q) \in Seq(S) /\ Len(Tail(q)) = Len(q) - 1
      /\ \A k \in 1..(Len(q) - 1) : Tail(q)[k] = q[k + 1]
  BY TakeFacts
<1>2. Ascending(Tail(q))
  <2> SUFFICES ASSUME NEW i \in 1..(Len(q) - 1), NEW j \in 1..(Len(q) - 1), i < j,
                      q[i + 1] # Close, q[j + 1] # Close
               PROVE  q[i + 1].seq < q[j + 1].seq
    BY <1>1 DEF Ascending
  <2>1. i + 1 \in 1..Len(q) /\ j + 1 \in 1..Len(q) /\ i + 1 < j + 1
    BY <1>1
  <2> QED BY <2>1 DEF Ascending
<1>3. ASSUME Head(q) # Close, NEW y \in ToSet(Tail(q)), y # Close
      PROVE  Head(q).seq < y.seq
  <2>0. DOMAIN Tail(q) = 1..(Len(q) - 1)
    BY <1>1
  <2>1. PICK k \in 1..(Len(q) - 1) : Tail(q)[k] = y
    BY <1>3, <2>0 DEF ToSet
  <2>2. k + 1 \in 1..Len(q) /\ 1 < k + 1 /\ q[k + 1] = y
    BY <1>1, <2>1
  <2> QED BY <1>1, <1>3, <2>2 DEF Ascending
<1> QED BY <1>2, <1>3

-----------------------------------------------------------------------------
(* Numbers.                                                                *)

\* The greater of two numbers.
LEMMA MaxOfTwo ==
  ASSUME NEW a \in Int, NEW b \in Int
  PROVE  Max({a, b}) \in {a, b} /\ Max({a, b}) >= a /\ Max({a, b}) >= b
<1>1. \E m \in {a, b} : \A n \in {a, b} : m >= n
  <2>1. CASE a >= b
    BY <2>1
  <2>2. CASE ~ (a >= b)
    BY <2>2
  <2> QED BY <2>1, <2>2
<1> QED BY <1>1 DEF Max

\* The greatest element is the maximum.
LEMMA MaxIs ==
  ASSUME NEW S \in SUBSET Int, NEW m \in S, \A n \in S : m >= n
  PROVE  Max(S) = m
<1>1. \E x \in S : \A y \in S : x >= y
  OBVIOUS
<1>2. Max(S) \in S /\ \A y \in S : Max(S) >= y
  BY <1>1 DEF Max
<1>3. Max(S) \in Int /\ m \in Int /\ m >= Max(S) /\ Max(S) >= m
  BY <1>2
<1> QED BY <1>3

\* A number names one item.
LEMMA SameNumber ==
  ASSUME NEW base \in Nat, NEW i, NEW j, Numbered(base, i), Numbered(base, j), i.seq = j.seq
  PROVE  i = j
  BY DEF Numbered, Items, Updates

\* The item with a number is the one the number says.
LEMMA NumberedItem ==
  ASSUME NEW base \in Nat, NEW i, Numbered(base, i)
  PROVE  /\ i = Item(base + i.seq - 1, i.seq)
         /\ i.seq \in Nat \ {0} /\ i.seq <= seqno /\ i.update \in Updates
         /\ i # Close /\ i # Nothing
  BY DEF Numbered, Items, Item, Close, Nothing

(***************************************************************************)
(* mark_processed releases a run of numbers that begins at nextSequence:   *)
(* it moves nextSequence by their count to the first number missing, and   *)
(* the offset it commits is that of the last one.                          *)
(***************************************************************************)
LEMMA ReleasedFacts ==
  ASSUME NEW base \in Nat, NEW done, seqno \in Nat, nextSequence \in Nat \ {0},
         nextSequence <= seqno + 1,
         \A i \in done : Numbered(base, i) /\ nextSequence <= i.seq
  PROVE  \E k \in Nat :
           /\ Cardinality(Released(done)) = k
           /\ nextSequence + k <= seqno + 1
           /\ \A n \in nextSequence..(nextSequence + k - 1) : Item(base + n - 1, n) \in Released(done)
           /\ \A i \in Released(done) : i.seq < nextSequence + k
           /\ \A i \in done \ Released(done) : nextSequence + k < i.seq
           /\ Released(done) # {} =>
                k > 0 /\ Max({i.update : i \in Released(done)}) = base + nextSequence + k - 2
<1> DEFINE R == Released(done)
<1>1. \A i \in done : i.seq \in Nat \ {0} /\ i.seq <= seqno /\ i = Item(base + i.seq - 1, i.seq)
  BY NumberedItem
<1>2. \A i : i \in R <=> i \in done /\ \A n \in nextSequence..i.seq : \E j \in done : j.seq = n
  BY DEF Released
<1> HIDE DEF R
<1>3. CASE R = {}
  <2>1. \A i \in done : nextSequence + 0 < i.seq
    <3> SUFFICES ASSUME NEW i \in done, i.seq = nextSequence PROVE FALSE
      BY <1>1
    <3>1. \A n \in nextSequence..i.seq : i.seq = n
      BY <1>1
    <3> QED BY <1>2, <1>3, <3>1
  <2>2. Cardinality(R) = 0
    BY <1>3, FS_EmptySet
  <2> QED BY <1>3, <2>1, <2>2 DEF R
<1>4. CASE R # {}
  <2> DEFINE S == {i.seq : i \in R}
  <2>1. S \in SUBSET (0..seqno) /\ S # {}
    BY <1>1, <1>2, <1>4
  <2>2. PICK m \in S : \A n \in S : m >= n
    <3> HIDE DEF S
    <3> QED BY <2>1, GreatestExists
  <2>3. PICK last \in R : last.seq = m
    BY <2>2
  <2>4. m \in Nat /\ nextSequence <= m /\ m <= seqno
    BY <1>1, <1>2, <2>3
  <2> DEFINE k == m - nextSequence + 1
  <2>5. k \in Nat \ {0} /\ nextSequence + k = m + 1
    BY <2>4
  <2>6. ASSUME NEW n \in nextSequence..m
        PROVE  Item(base + n - 1, n) \in R /\ Item(base + n - 1, n).seq = n
    <3>1. PICK j \in done : j.seq = n
      BY <1>2, <2>3
    <3>2. \A l \in nextSequence..n : l \in nextSequence..m
      BY <2>4
    <3>3. j \in R
      BY <1>2, <2>3, <3>1, <3>2
    <3> QED BY <1>1, <3>1, <3>3
  <2>7. \A i \in R : i.seq \in nextSequence..m /\ i = Item(base + i.seq - 1, i.seq)
    BY <1>1, <1>2, <2>2, <2>4
  <2>8. ASSUME NEW i \in done \ R
        PROVE  m + 1 < i.seq
    <3> SUFFICES ASSUME i.seq <= m + 1 PROVE FALSE
      BY <1>1, <2>4
    <3>1. ASSUME NEW n \in nextSequence..i.seq PROVE \E j \in done : j.seq = n
      <4>1. CASE n <= m
        BY <1>1, <1>2, <2>4, <2>6, <3>1, <4>1
      <4>2. CASE n = i.seq
        BY <4>2
      <4> QED BY <1>1, <2>4, <4>1, <4>2
    <3> QED BY <1>2, <3>1
  <2>9. Cardinality(R) = k
    <3> DEFINE N == nextSequence..m
               f == [n \in N |-> Item(base + n - 1, n)]
    <3>1. f \in Bijection(N, R)
      <4>1. f \in [N -> R]
        BY <2>6
      <4>2. \A a, b \in N : f[a] = f[b] => a = b
        BY <2>6
      <4>3. \A i \in R : \E n \in N : f[n] = i
        BY <2>7
      <4> HIDE DEF f
      <4>4. f \in Injection(N, R)
        BY <4>1, <4>2 DEF Injection, IsInjective
      <4>5. f \in Surjection(N, R)
        BY <4>1, <4>3 DEF Surjection
      <4> QED BY <4>4, <4>5 DEF Bijection
    <3>2. ExistsBijection(N, R)
      BY <3>1 DEF ExistsBijection
    <3>3. IsFiniteSet(N) /\ Cardinality(N) = k
      BY <2>4, <2>5, FS_Interval
    <3> HIDE DEF N
    <3> QED BY <3>2, <3>3, FS_Bijection
  <2>10. Max({i.update : i \in R}) = base + m - 1
    <3> DEFINE U == {i.update : i \in R}
    <3>1. \A i \in R : i.update = base + i.seq - 1 /\ i.seq \in nextSequence..m
      BY <1>2, <2>7 DEF Numbered
    <3>2. U \in SUBSET Int
      BY <2>4, <3>1
    <3>3. base + m - 1 \in U
      BY <2>3, <3>1
    <3>4. \A u \in U : base + m - 1 >= u
      BY <2>4, <3>1
    <3>5. Max(U) = base + m - 1
      <4> HIDE DEF U
      <4> QED BY <3>2, <3>3, <3>4, MaxIs
    <3> QED BY <3>5
  <2> HIDE DEF S
  <2>11. k > 0 /\ nextSequence + k - 1 = m /\ nextSequence + k <= seqno + 1
         /\ base + nextSequence + k - 2 = base + m - 1
    BY <2>4, <2>5
  <2>12. \A i \in R : i.seq < nextSequence + k
    BY <2>4, <2>5, <2>7
  <2>13. \A n \in nextSequence..(nextSequence + k - 1) : Item(base + n - 1, n) \in R
    BY <2>6, <2>11
  <2>14. \A i \in done \ R : nextSequence + k < i.seq
    BY <2>5, <2>8
  <2>15. R # {} => k > 0 /\ Max({i.update : i \in R}) = base + nextSequence + k - 2
    BY <2>10, <2>11
  <2> HIDE DEF k
  <2>16. \E l \in Nat :
           /\ Cardinality(R) = l
           /\ nextSequence + l <= seqno + 1
           /\ \A n \in nextSequence..(nextSequence + l - 1) : Item(base + n - 1, n) \in R
           /\ \A i \in R : i.seq < nextSequence + l
           /\ \A i \in done \ R : nextSequence + l < i.seq
           /\ R # {} => l > 0 /\ Max({i.update : i \in R}) = base + nextSequence + l - 2
    BY <2>5, <2>9, <2>11, <2>12, <2>13, <2>14, <2>15
  <2> QED BY <2>16 DEF R
<1> QED BY <1>3, <1>4

-----------------------------------------------------------------------------
(* Types.                                                                  *)

\* A worker queue has room for one item at least.
LEMMA WorkerQueueMaxType == WorkerQueueMax \in Int /\ WorkerQueueMax >= 1
<1>1. 1 \in Int /\ QueueMax \div WorkerCount \in Int
  BY CountsAssumption
<1>2. /\ Max({1, QueueMax \div WorkerCount}) \in {1, QueueMax \div WorkerCount}
      /\ Max({1, QueueMax \div WorkerCount}) >= 1
  BY <1>1, MaxOfTwo
<1> QED BY <1>1, <1>2 DEF WorkerQueueMax

\* Every update has a worker.
LEMMA WorkerForType ==
  ASSUME NEW u \in Updates
  PROVE  WorkerFor(u) \in Workers
  BY PartitionAssumption DEF WorkerFor

\* The end of the process leaves well-typed memory.
LEMMA DownType ==
  ASSUME TypeOK, Down, UNCHANGED <<external, stored, starts>>
  PROVE  TypeOK'
<1>1. /\ queues' \in [Workers -> Seq(QueueItems)]
      /\ \A w \in Workers : queues'[w] = <<>> /\ Len(queues'[w]) = 0
  BY DEF Down
<1>2. \A w \in Workers : Len(queues'[w]) <= WorkerQueueMax
  BY <1>1, WorkerQueueMaxType
<1>3. work' \in [Workers -> [phase : {"idle", "publishing", "appended", "saving", "failed", "exited"},
                              item : Items \cup {Nothing}, offset : 0..(UpdateCount + 1)]]
  BY CountsAssumption DEF Down, Idle
<1>4. /\ ingress' \in Seq(QueueItems) /\ Len(ingress') <= QueueMax
      /\ batch' \in Seq(Updates) /\ Len(batch') <= PollLimit
  BY CountsAssumption DEF Down
<1>5. kept' = kept /\ published' = published /\ stored' = stored /\ starts' = starts
  BY DEF external
<1>0. stopStarted' \in BOOLEAN /\ shutdown' \in BOOLEAN /\ noticed' \in BOOLEAN
  BY Zenon DEF Down
<1>6. /\ runner' = "down" /\ cancels' = {} /\ offset' \in 0..(UpdateCount + 1) /\ seqno' \in Nat
      /\ accepted' = {} /\ closed' \in 0..WorkerCount /\ nextSequence' \in Nat \ {0} /\ completed' = {}
      /\ putting' = Nothing /\ held' = Nothing
  BY CountsAssumption DEF Down
<1> HIDE DEF Down
<1> QED BY <1>0, <1>1, <1>2, <1>3, <1>4, <1>5, <1>6 DEF TypeOK

\* Starting and stopping keep the types.
LEMMA ControlType ==
  ASSUME TypeOK, Boot \/ Started \/ Exit \/ Crash \/ Signal \/ SignalCancel \/ DrainTimeout
  PROVE  TypeOK'
<1>1. CASE Boot \/ Started
  <2>1. /\ UNCHANGED <<kept, published, stored, stopStarted, shutdown, Memory>>
        /\ starts' \in 0..MaxStarts /\ runner' \in {"starting", "polling"} /\ offset' \in {offset, stored}
    BY <1>1, CountsAssumption DEF TypeOK, Boot, Started, external
  <2> QED BY <2>1 DEF TypeOK, Memory, dispatcher, tracker
<1>2. CASE Exit
  BY <1>2, DownType DEF Exit
<1>3. CASE Crash
  BY <1>3, DownType DEF Crash
<1>4. CASE Signal
  <2>1. stopStarted' \in BOOLEAN
    BY <1>4 DEF Signal
  <2>2. shutdown' \in BOOLEAN
    BY <1>4 DEF Signal
  <2> QED BY <1>4, <2>1, <2>2 DEF TypeOK, Signal, external, Memory, dispatcher, tracker
<1>5. ASSUME NEW by \in {"signal", "timeout"}, CancelRunner(by)
      PROVE  TypeOK'
  BY <1>5, CountsAssumption DEF TypeOK, CancelRunner, AfterCancel, external, dispatcher, tracker
<1> QED BY <1>1, <1>2, <1>3, <1>4, <1>5 DEF SignalCancel, DrainTimeout

\* A poll fetches updates, and no more than its limit.
LEMMA PollType ==
  ASSUME TypeOK, Poll
  PROVE  TypeOK'
<1> DEFINE first == Max({kept, offset})
<1>0. kept \in Int /\ offset \in Int
  BY DEF TypeOK
<1>1. first \in {kept, offset} /\ first >= kept
  BY <1>0, MaxOfTwo
<1>2. kept' = first /\ first \in 1..(UpdateCount + 1)
  BY <1>1, CountsAssumption DEF TypeOK, Poll
<1>3. PICK n \in 0..PollLimit :
        first + n - 1 <= UpdateCount /\ batch' = [i \in 1..n |-> first + i - 1]
  BY DEF Poll
<1> HIDE DEF first
<1>4. batch' \in Seq(Updates) /\ Len(batch') <= PollLimit
  <2>1. \A i \in 1..n : first + i - 1 \in Updates
    BY <1>2, <1>3, CountsAssumption DEF Updates
  <2>2. n \in Nat /\ n <= PollLimit
    BY <1>3, CountsAssumption
  <2>3. [i \in 1..n |-> first + i - 1] \in Seq(Updates)
    BY <2>1, <2>2
  <2>4. Len([i \in 1..n |-> first + i - 1]) = n
    BY <2>2
  <2> QED BY <1>3, <2>2, <2>3, <2>4
<1> QED BY <1>2, <1>4 DEF TypeOK, Poll, control, dispatcher, tracker

\* Enqueueing waits for room in the queue.
LEMMA ProducerType ==
  ASSUME TypeOK, BeginPut \/ CompletePut \/ OrphanPut \/ Monitor \/ Raise \/ StopProducing
  PROVE  TypeOK'
<1>1. CASE BeginPut
  <2>1. Head(batch) \in Updates /\ Tail(batch) \in Seq(Updates) /\ Len(Tail(batch)) <= PollLimit
    BY <1>1, CountsAssumption DEF TypeOK, BeginPut
  <2>2. Item(Head(batch), seqno + 1) \in Items
    BY <2>1 DEF TypeOK, Item, Items
  <2> QED BY <1>1, <2>1, <2>2 DEF TypeOK, BeginPut, external, control, dispatcher, tracker
<1>2. CASE CompletePut \/ OrphanPut
  <2>1. putting \in Items /\ putting.update \in Updates
    BY <1>2 DEF TypeOK, CompletePut, OrphanPut, Items
  <2>a. ingress \in Seq(QueueItems) /\ putting \in QueueItems /\ Len(ingress) < QueueMax
    BY <1>2, <2>1 DEF TypeOK, CompletePut, OrphanPut, Room, QueueItems
  <2>2. Append(ingress, putting) \in Seq(QueueItems) /\ Len(Append(ingress, putting)) <= QueueMax
    BY <2>a, CountsAssumption
  <2>b. accepted \cup {putting.update} \subseteq Updates
    BY <2>1 DEF TypeOK
  <2>3. putting.update + 1 \in 0..(UpdateCount + 1) /\ accepted \cup {putting.update} \subseteq Updates
    BY <2>1, <2>b, CountsAssumption DEF Updates
  <2>4. CASE CompletePut
    BY <2>2, <2>3, <2>4 DEF TypeOK, CompletePut, external, control, tracker
  <2>5. CASE OrphanPut
    BY <2>2, <2>5 DEF TypeOK, OrphanPut, external, control, tracker
  <2> QED BY <1>2, <2>4, <2>5
<1>3. CASE Monitor
  BY <1>3 DEF TypeOK, Monitor, external, producer, dispatcher, tracker
<1>4. CASE Raise
  BY <1>4 DEF TypeOK, Raise, external, dispatcher, tracker
<1>5. CASE StopProducing
  BY <1>5, CountsAssumption DEF TypeOK, StopProducing, external, dispatcher, tracker
<1> QED BY <1>1, <1>2, <1>3, <1>4, <1>5

\* So does dispatching.
LEMMA DispatchType ==
  ASSUME TypeOK, DrainClose \/ DrainDone \/ DispatchTake \/ DispatchPut \/ CloseQueue
  PROVE  TypeOK'
<1>1. CASE DrainClose
  <2>1. Append(ingress, Close) \in Seq(QueueItems) /\ Len(Append(ingress, Close)) <= QueueMax
    BY <1>1, CountsAssumption DEF TypeOK, DrainClose, Room, QueueItems
  <2> QED BY <1>1, <2>1 DEF TypeOK, DrainClose, external, control, producer, tracker
<1>2. CASE DrainDone
  BY <1>2 DEF TypeOK, DrainDone, external, producer, dispatcher, tracker
<1>3. CASE DispatchTake
  <2>1. Head(ingress) \in QueueItems /\ Tail(ingress) \in Seq(QueueItems)
        /\ Len(Tail(ingress)) <= QueueMax
    BY <1>3, CountsAssumption DEF TypeOK, DispatchTake
  <2> QED BY <1>3, <2>1 DEF TypeOK, DispatchTake, external, control, producer, tracker
<1>4. ASSUME NEW w \in Workers, NEW x \in QueueItems, Room(queues[w], WorkerQueueMax),
             queues' = [queues EXCEPT ![w] = Append(@, x)]
      PROVE  queues' \in [Workers -> Seq(QueueItems)]
             /\ \A v \in Workers : Len(queues'[v]) <= WorkerQueueMax
  <2>1. queues \in [Workers -> Seq(QueueItems)] /\ queues[w] \in Seq(QueueItems)
        /\ \A v \in Workers : Len(queues[v]) <= WorkerQueueMax
    BY DEF TypeOK
  <2>2. Append(queues[w], x) \in Seq(QueueItems) /\ Len(Append(queues[w], x)) <= WorkerQueueMax
    BY <1>4, <2>1, WorkerQueueMaxType DEF Room
  <2> QED BY <1>4, <2>1, <2>2
<1>5. CASE DispatchPut
  <2>1. held \in Items /\ held.update \in Updates
    BY <1>5 DEF TypeOK, DispatchPut, QueueItems, Items
  <2>2. queues' \in [Workers -> Seq(QueueItems)]
        /\ \A v \in Workers : Len(queues'[v]) <= WorkerQueueMax
    BY <1>4, <1>5, <2>1, WorkerForType DEF DispatchPut, QueueItems
  <2> QED BY <1>5, <2>2 DEF TypeOK, DispatchPut, external, control, producer, tracker
<1>6. CASE CloseQueue
  <2>1. closed + 1 \in Workers /\ closed' \in 0..WorkerCount
    BY <1>6, CountsAssumption DEF TypeOK, CloseQueue, Workers
  <2>2. queues' \in [Workers -> Seq(QueueItems)]
        /\ \A v \in Workers : Len(queues'[v]) <= WorkerQueueMax
    BY <1>4, <1>6, <2>1 DEF CloseQueue, QueueItems
  <2> QED BY <1>6, <2>1, <2>2 DEF TypeOK, CloseQueue, external, control, producer, tracker
<1> QED BY <1>1, <1>2, <1>3, <1>5, <1>6

\* Workers take items from their queues; their offsets are updates' successors.
LEMMA WorkerType ==
  ASSUME TypeOK, NEW w \in Workers, WorkerTake(w) \/ KafkaAppend(w) \/ SaveOffset(w) \/ WorkerFails(w),
         work[w].phase = "publishing" => work[w].item \in Items
  PROVE  TypeOK'
<1> DEFINE Task == [phase : {"idle", "publishing", "appended", "saving", "failed", "exited"},
                    item : Items \cup {Nothing}, offset : 0..(UpdateCount + 1)]
<1>0. work \in [Workers -> Task] /\ work[w] \in Task /\ 0 \in 0..(UpdateCount + 1)
  BY CountsAssumption DEF TypeOK
<1>1. CASE WorkerTake(w)
  <2>1. queues[w] \in Seq(QueueItems) /\ Len(queues[w]) <= WorkerQueueMax /\ queues[w] # <<>>
    BY <1>1 DEF TypeOK, WorkerTake
  <2>2. Head(queues[w]) \in QueueItems /\ Tail(queues[w]) \in Seq(QueueItems)
        /\ Len(Tail(queues[w])) <= WorkerQueueMax
    BY <2>1, WorkerQueueMaxType
  <2>3. queues' \in [Workers -> Seq(QueueItems)]
        /\ \A v \in Workers : Len(queues'[v]) <= WorkerQueueMax
    BY <1>1, <2>2 DEF TypeOK, WorkerTake
  <2>4. (IF Head(queues[w]) = Close THEN [Idle EXCEPT !.phase = "exited"]
         ELSE [Idle EXCEPT !.phase = "publishing", !.item = Head(queues[w])]) \in Task
    BY <1>0, <2>2 DEF QueueItems, Idle
  <2>5. work' \in [Workers -> Task]
    BY <1>0, <1>1, <2>4 DEF WorkerTake
  <2> QED BY <1>1, <2>3, <2>5 DEF TypeOK, WorkerTake, external, control, producer, dispatcher, tracker
<1>2. CASE KafkaAppend(w)
  <2>1. work[w].item.update \in Updates
    BY <1>2 DEF KafkaAppend, Items
  <2>2. work' \in [Workers -> Task]
    BY <1>0, <1>2 DEF KafkaAppend
  <2> QED BY <1>2, <2>1, <2>2 DEF TypeOK, KafkaAppend, control, producer, dispatcher, tracker
<1>3. CASE SaveOffset(w)
  <2>1. work' \in [Workers -> Task] /\ stored' \in 0..(UpdateCount + 1)
    BY <1>0, <1>3 DEF SaveOffset, Idle
  <2> QED BY <1>3, <2>1 DEF TypeOK, SaveOffset, external, control, producer, dispatcher, tracker
<1>4. CASE WorkerFails(w)
  <2>1. work' \in [Workers -> Task]
    BY <1>0, <1>4 DEF WorkerFails, Idle
  <2> QED BY <1>4, <2>1 DEF TypeOK, WorkerFails, external, control, producer, dispatcher, tracker
<1> QED BY <1>1, <1>2, <1>3, <1>4

-----------------------------------------------------------------------------
(* What a step leaves alone.                                               *)

\* Publications and new numbers leave the tracker as right as it was.
LEMMA TrackerKept ==
  ASSUME NEW base \in Nat, TypeOK, TrackerOk(base), UNCHANGED tracker,
         seqno' = seqno \/ seqno' = seqno + 1, published \subseteq published'
  PROVE  TrackerOk(base)'
<1>1. nextSequence' = nextSequence /\ completed' = completed
  BY DEF tracker
<1>2. nextSequence \in Nat /\ seqno \in Nat
  BY DEF TypeOK
<1>3. \A i \in completed : Numbered(base, i)'
  BY <1>2 DEF TrackerOk, Numbered, Items
<1>4. nextSequence' <= seqno' + 1
  <2>1. nextSequence <= seqno + 1
    BY DEF TrackerOk
  <2> QED BY <1>1, <1>2, <2>1
<1>5. \A n \in 1..(nextSequence' - 1) : base + n - 1 \in published'
  BY <1>1 DEF TrackerOk
<1>6. \A i \in completed' : Numbered(base, i)' /\ nextSequence' < i.seq /\ i.update \in published'
  BY <1>1, <1>3 DEF TrackerOk
<1> QED BY <1>4, <1>5, <1>6 DEF TrackerOk

\* So does what Telegram forgets when no offset changes.
LEMMA OffsetsKept ==
  ASSUME NEW base \in Nat, TypeOK, OffsetsOk(base), UNCHANGED <<stored, tracker>>,
         seqno' \in Nat, seqno <= seqno', seqno' > 0 => base > 0,
         kept' \in Nat, kept <= kept', published \subseteq published',
         \A w \in Workers : work'[w].phase = "saving" => work'[w] = work[w]
  PROVE  OffsetsOk(base)'
<1>1. nextSequence' = nextSequence /\ stored' = stored
  BY DEF tracker
<1>2. kept \in Nat /\ seqno \in Nat
  BY DEF TypeOK
<1>3. \A u \in Updates : u < base => u \in published' \/ u < kept'
  BY <1>2 DEF OffsetsOk, Updates
<1>4. \A w \in Workers : work'[w].phase = "saving" =>
        seqno' > 0 /\ work'[w].offset <= base + nextSequence - 1
  BY <1>2 DEF OffsetsOk
<1> QED BY <1>1, <1>3, <1>4 DEF OffsetsOk

\* What stays in flight is as it was.
LEMMA FlightKept ==
  ASSUME NEW base \in Nat, TypeOK, StagesOk(base), UNCHANGED tracker,
         seqno' \in Nat, seqno <= seqno'
  PROVE  \A i \in InFlight : Numbered(base, i)' /\ nextSequence' <= i.seq /\ i \notin completed'
<1>1. nextSequence' = nextSequence /\ completed' = completed
  BY DEF tracker
<1>2. seqno \in Nat
  BY DEF TypeOK
<1>3. \A i \in InFlight : Numbered(base, i)'
  BY <1>2 DEF StagesOk, Numbered, Items
<1> QED BY <1>1, <1>3 DEF StagesOk

\* The stages depend on the queues and on what the tasks hold.
LEMMA StagesUnchanged ==
  ASSUME UNCHANGED <<putting, ingress, held, queues>>,
         \A w \in Workers : Hand(w)' = Hand(w)
  PROVE  /\ Pending' = Pending /\ Waiting' = Waiting /\ Carried' = Carried
         /\ Upstream' = Upstream /\ InFlight' = InFlight
         /\ \A w \in Workers : Charge(w)' = Charge(w) /\ Mine(w)' = Mine(w)
<1>1. Pending' = Pending /\ Waiting' = Waiting /\ Carried' = Carried
  BY DEF Pending, Waiting, Carried
<1>2. \A w \in Workers : Charge(w)' = Charge(w)
  BY DEF Charge
<1>3. \A w \in Workers : Mine(w)' = Mine(w)
  BY <1>2 DEF Mine
<1>4. Upstream' = Upstream
  BY <1>1 DEF Upstream
<1>5. InFlight' = InFlight
  BY <1>3, <1>4 DEF InFlight
<1> QED BY <1>1, <1>2, <1>3, <1>4, <1>5

\* A worker whose queue and hand stay, while nothing new comes up.
LEMMA WorkerKept ==
  ASSUME NEW w \in Workers, WorkerOk(w), queues'[w] = queues[w], Hand(w)' = Hand(w),
         Upstream' \subseteq Upstream, published \subseteq published',
         work'[w].phase = "appended" => work'[w] = work[w]
  PROVE  WorkerOk(w)'
<1>1. Charge(w)' = Charge(w) /\ Mine(w)' = Mine(w)
  BY DEF Charge, Mine
<1>2. Ascending(queues'[w])
  BY DEF WorkerOk
<1>3. Before(Hand(w), Charge(w))' /\ Before(Mine(w), Upstream)'
  BY <1>1 DEF WorkerOk, Before
<1> QED BY <1>1, <1>2, <1>3 DEF WorkerOk

\* Nothing is lost where nothing leaves.
LEMMA LostKept ==
  ASSUME NEW base \in Nat, NEW w \in Workers, NothingLost(base, w),
         UNCHANGED <<seqno, tracker>>, InFlight \subseteq InFlight',
         work'[w].phase # "failed" => work[w].phase # "failed",
         runner = "raised" => runner' = "raised"
  PROVE  NothingLost(base, w)'
  BY DEF NothingLost, Processed, tracker

\* A step that moves no item, changes no offset and publishes nothing.
LEMMA FlowUnmoved ==
  ASSUME NEW base \in Nat, TypeOK, FlowInv(base),
         UNCHANGED <<putting, ingress, held, closed, queues, work, seqno, tracker, stored, published>>,
         kept' \in Nat, kept <= kept', runner = "raised" => runner' = "raised"
  PROVE  /\ TrackerOk(base)' /\ OffsetsOk(base)' /\ StagesOk(base)'
         /\ \A w \in Workers : WorkerOk(w)' /\ NothingLost(base, w)'
         /\ ClosingOk'
<1>1. seqno \in Nat /\ seqno' = seqno
  BY DEF TypeOK
<1>2. TrackerOk(base)'
  BY <1>1, TrackerKept DEF FlowInv
<1>3. OffsetsOk(base)'
  BY <1>1, OffsetsKept DEF FlowInv, OffsetsOk
<1>4. \A w \in Workers : Hand(w)' = Hand(w)
  BY DEF Hand
<1>5. /\ Pending' = Pending /\ Waiting' = Waiting /\ Carried' = Carried
      /\ Upstream' = Upstream /\ InFlight' = InFlight
  BY <1>4, StagesUnchanged
<1>6. StagesOk(base)'
  <2>1. StagesOk(base)
    BY DEF FlowInv
  <2>2. \A i \in InFlight : Numbered(base, i)' /\ nextSequence' <= i.seq /\ i \notin completed'
    BY <1>1, <2>1, FlightKept
  <2>3. Before(Carried, Waiting)' /\ Before(Carried \cup Waiting, Pending)' /\ Ascending(ingress)'
    BY <1>5, <2>1 DEF StagesOk, Before, Ascending
  <2> QED BY <1>1, <1>5, <2>1, <2>2, <2>3 DEF StagesOk
<1>7. \A w \in Workers : WorkerOk(w)'
  BY <1>4, <1>5, WorkerKept DEF FlowInv
<1>8. \A w \in Workers : NothingLost(base, w)'
  BY <1>5, LostKept DEF FlowInv
<1>9. ClosingOk'
  BY DEF FlowInv, ClosingOk
<1> QED BY <1>2, <1>3, <1>6, <1>7, <1>8, <1>9

\* Sources stay in order while nothing is published.
LEMMA SourcesKept ==
  ASSUME NEW base \in Nat, TypeOK, SourcesOk(base), UNCHANGED <<published, seqno>>,
         kept' \in Nat, kept <= kept'
  PROVE  SourcesOk(base)'
<1>1. kept \in Nat
  BY DEF TypeOK
<1> QED BY <1>1 DEF SourcesOk, Updates

\* A runner that has not just ended its drain.
LEMMA DrainedKept ==
  ASSUME DrainedAllPublished, runner' = "drained" => runner = "drained",
         UNCHANGED <<accepted, completed>>, published \subseteq published'
  PROVE  DrainedAllPublished'
  BY DEF DrainedAllPublished

-----------------------------------------------------------------------------
(* The steps of the process.                                               *)

\* What starts, stops or watches the tasks moves no item.
LEMMA ControlFlow ==
  ASSUME NEW base \in Bases, TypeOK, FlowInv(base),
         \/ Boot \/ Started \/ Signal \/ SignalCancel \/ DrainTimeout
         \/ PollFails \/ Monitor \/ StopProducing
  PROVE  FlowInv(base)'
<1>0. base \in Nat
  BY CountsAssumption DEF Bases
<1> DEFINE Quiet ==
      /\ UNCHANGED <<putting, ingress, held, closed, queues, work, seqno, tracker, stored, published>>
      /\ UNCHANGED <<kept, accepted>>
      /\ runner = "raised" => runner' = "raised"
      /\ runner' = "drained" => runner = "drained"
<1>1. Quiet
  <2>1. CASE Boot \/ Started
    BY <2>1 DEF Boot, Started, external, Memory, dispatcher
  <2>2. CASE Signal
    BY <2>2 DEF Signal, external, Memory, dispatcher
  <2>3. ASSUME NEW by, CancelRunner(by)
        PROVE  Quiet
    BY <2>3 DEF CancelRunner, AfterCancel, external, dispatcher
  <2>4. CASE PollFails
    BY <2>4 DEF PollFails, Raise, external, dispatcher
  <2>5. CASE Monitor
    BY <2>5 DEF Monitor, external, producer, dispatcher
  <2>6. CASE StopProducing
    BY <2>6 DEF StopProducing, external, dispatcher
  <2> QED BY <2>1, <2>2, <2>3, <2>4, <2>5, <2>6 DEF SignalCancel, DrainTimeout
<1>2. kept' \in Nat /\ kept <= kept'
  BY <1>1 DEF TypeOK
<1>3. /\ TrackerOk(base)' /\ OffsetsOk(base)' /\ StagesOk(base)'
      /\ \A w \in Workers : WorkerOk(w)' /\ NothingLost(base, w)'
      /\ ClosingOk'
  BY <1>0, <1>1, <1>2, FlowUnmoved
<1>4. SourcesOk(base)'
  BY <1>0, <1>1, <1>2, SourcesKept DEF FlowInv
<1>5. DrainedAllPublished'
  BY <1>1, DrainedKept DEF FlowInv, tracker
<1>6. ProducerOk(base)'
  <2>0. ProducerOk(base) /\ \A u \in accepted' : base <= u /\ u < base + seqno' /\ u # putting'.update
    BY <1>1 DEF FlowInv, ProducerOk
  <2>1. CASE Boot
    <3>1. runner' = "starting" /\ seqno' = 0 /\ batch' = <<>>
      BY <2>0, <2>1 DEF Boot, Memory, ProducerOk
    <3> QED BY <2>0, <3>1 DEF ProducerOk
  <2>2. CASE Started
    <3>1. runner' = "polling" /\ seqno' = 0 /\ batch' = <<>> /\ offset' = stored' /\ stored' \in Int
      BY <1>1, <2>0, <2>2 DEF TypeOK, Started, Memory, ProducerOk
    <3> QED BY <2>0, <3>1 DEF ProducerOk
  <2>3. CASE Signal \/ Monitor
    <3>1. runner' = runner /\ UNCHANGED <<batch, offset>>
      BY <2>3 DEF Signal, Monitor, Memory, producer
    <3> QED BY <1>1, <2>0, <3>1 DEF ProducerOk
  <2>4. CASE SignalCancel \/ DrainTimeout \/ PollFails \/ StopProducing
    <3>1. runner' \notin {"down", "starting", "polling"}
      BY <2>4 DEF SignalCancel, DrainTimeout, CancelRunner, AfterCancel, PollFails, Raise, StopProducing
    <3> QED BY <2>0, <3>1 DEF ProducerOk
  <2> QED BY <2>1, <2>2, <2>3, <2>4
<1> QED BY <1>3, <1>4, <1>5, <1>6 DEF FlowInv

\* What the file says is done: released in this start, or dealt with before.
LEMMA StoredIsSafe ==
  ASSUME NEW base \in Bases, TypeOK, FlowInv(base)
  PROVE  OffsetCoversPublished
<1>1. SUFFICES ASSUME NEW u \in Updates, u < stored
               PROVE  u \in published \/ (u < kept /\ u \notin accepted)
  BY DEF OffsetCoversPublished
<1>2. base \in Nat /\ u \in Nat /\ stored \in Nat /\ nextSequence \in Nat
  BY CountsAssumption DEF Bases, Updates, TypeOK
<1>3. CASE u < base
  <2>1. u \in published \/ u < kept
    BY <1>3 DEF FlowInv, OffsetsOk
  <2>2. u \notin accepted
    BY <1>2, <1>3 DEF FlowInv, ProducerOk
  <2> QED BY <2>1, <2>2
<1>4. CASE ~ (u < base)
  <2>1. stored <= base + nextSequence - 1
    BY DEF FlowInv, OffsetsOk
  <2>2. u - base + 1 \in 1..(nextSequence - 1) /\ base + (u - base + 1) - 1 = u
    BY <1>1, <1>2, <1>4, <2>1
  <2>3. base + (u - base + 1) - 1 \in published
    BY <2>2 DEF FlowInv, TrackerOk
  <2> QED BY <2>2, <2>3
<1> QED BY <1>3, <1>4

\* A memory without a number, from which nothing is missing below base.
LEMMA FreshFlow ==
  ASSUME NEW base \in Bases,
         /\ seqno' = 0 /\ nextSequence' = 1 /\ completed' = {} /\ InFlight' = {} /\ putting' = Nothing
         /\ closed' = 0 /\ runner' # "drained" /\ stored' <= base
         /\ stored' \in Int /\ accepted' = {},
         ingress' = <<>> /\ \A w \in Workers : queues'[w] = <<>>,
         \A w \in Workers : work'[w].phase \notin {"saving", "appended", "exited"},
         \A u \in Updates : u < base => u \in published' \/ u < kept',
         SourcesOk(base)', ProducerOk(base)'
  PROVE  FlowInv(base)'
<1>0. base \in Nat
  BY CountsAssumption DEF Bases
<1>1. TrackerOk(base)'
  BY <1>0 DEF TrackerOk
<1>2. OffsetsOk(base)'
  BY <1>0 DEF OffsetsOk, Bases
<1>3. Upstream' = {} /\ \A w \in Workers : Mine(w)' = {}
  BY DEF InFlight
<1>4. Pending' = {} /\ Waiting' = {} /\ Carried' = {} /\ \A w \in Workers : Hand(w)' = {} /\ Charge(w)' = {}
  BY <1>3 DEF Upstream, Mine
<1>5. StagesOk(base)'
  BY <1>4 DEF StagesOk, Before, Ascending
<1>6. \A w \in Workers : WorkerOk(w)'
  BY <1>3, <1>4 DEF WorkerOk, Before, Ascending
<1>7. \A w \in Workers : NothingLost(base, w)'
  BY DEF NothingLost
<1>8. ClosingOk'
  <2>1. \A w \in Workers : Close \notin ToSet(queues'[w])
    BY DEF ToSet
  <2> QED BY <2>1 DEF ClosingOk
<1>9. DrainedAllPublished'
  BY DEF DrainedAllPublished
<1> QED BY <1>1, <1>2, <1>5, <1>6, <1>7, <1>8, <1>9 DEF FlowInv

\* A process that ends starts again from the file.
LEMMA DownFlow ==
  ASSUME NEW base \in Bases, TypeOK, FlowInv(base), Exit \/ Crash
  PROVE  \E new \in Bases : FlowInv(new)'
<1>1. Down /\ UNCHANGED <<kept, published, stored>>
  BY DEF Exit, Crash, external
<1>0. PICK new \in Bases : new = stored
  BY DEF TypeOK, Bases
<1>2. new \in Nat /\ base \in Nat
  BY CountsAssumption DEF Bases
<1>3. InFlight' = {}
  <2>1. Pending' = {} /\ Waiting' = {} /\ Carried' = {}
    BY <1>1 DEF Down, Pending, Waiting, Carried, ToSet
  <2>2. \A w \in Workers : Mine(w)' = {}
    BY <1>1 DEF Down, Mine, Hand, Charge, ToSet, Idle
  <2> QED BY <2>1, <2>2 DEF InFlight, Upstream
<1>4. \A u \in Updates : u < new => u \in published' \/ u < kept'
  BY <1>0, <1>1, StoredIsSafe DEF OffsetCoversPublished
<1>5. SourcesOk(new)'
  <2>1. SUFFICES ASSUME NEW v \in published, NEW u \in Updates, u < v, Source[u] = Source[v]
                 PROVE  u \in published \/ u < kept
    BY <1>1 DEF SourcesOk, Down
  <2>2. u \in published \/ u < base \/ u < kept
    BY <2>1 DEF FlowInv, SourcesOk
  <2> QED BY <2>2 DEF FlowInv, OffsetsOk
<1>6. ProducerOk(new)'
  BY <1>1 DEF Down, ProducerOk
<1>7. /\ seqno' = 0 /\ nextSequence' = 1 /\ completed' = {} /\ putting' = Nothing
      /\ closed' = 0 /\ runner' # "drained" /\ stored' = new
      /\ accepted' = {} /\ ingress' = <<>> /\ \A w \in Workers : queues'[w] = <<>>
      /\ \A w \in Workers : work'[w].phase = "idle"
  BY <1>0, <1>1 DEF Down, Idle
<1>8. FlowInv(new)'
  <2>1. stored' \in Int /\ stored' <= new
    BY <1>2, <1>7
  <2> QED BY <1>2, <1>3, <1>4, <1>5, <1>6, <1>7, <2>1, FreshFlow
<1> QED BY <1>8

\* Nothing is on its way in a start that has numbered nothing.
LEMMA NothingNumbered ==
  ASSUME NEW base \in Bases, TypeOK, FlowInv(base), seqno = 0
  PROVE  InFlight = {} /\ completed = {} /\ accepted = {} /\ nextSequence = 1
<1>1. base \in Nat /\ nextSequence \in Nat \ {0}
  BY CountsAssumption DEF Bases, TypeOK
<1>2. nextSequence = 1
  BY <1>1 DEF FlowInv, TrackerOk
<1>3. \A i : ~ Numbered(base, i)
  BY <1>1, NumberedItem
<1>4. InFlight = {} /\ completed = {}
  BY <1>3 DEF FlowInv, StagesOk, TrackerOk
<1>5. ASSUME NEW u \in accepted PROVE FALSE
  <2>1. u \in Nat /\ base <= u /\ u < base + seqno
    BY <1>5 DEF TypeOK, Updates, FlowInv, ProducerOk
  <2> QED BY <1>1, <2>1
<1> QED BY <1>2, <1>4, <1>5

\* A poll continues the numbers, or is where they will begin.
LEMMA PollFlow ==
  ASSUME NEW base \in Bases, TypeOK, FlowInv(base), Poll
  PROVE  \E new \in Bases : FlowInv(new)'
<1>0. /\ base \in Nat /\ kept \in Nat /\ kept \in 1..(UpdateCount + 1) /\ stored \in Int
      /\ offset \in Int /\ offset \in 0..(UpdateCount + 1) /\ seqno \in Nat
  BY CountsAssumption DEF Bases, TypeOK
<1>1. /\ UNCHANGED <<putting, ingress, held, closed, queues, work, seqno, tracker, stored, published>>
      /\ UNCHANGED <<accepted, offset, runner>>
      /\ runner = "polling" /\ putting = Nothing
  BY DEF Poll, control, dispatcher
<1>a. kept \in Int /\ Max({kept, offset}) \in {kept, offset}
  BY <1>0, MaxOfTwo
<1>2. PICK new \in Int : new = Max({kept, offset})
  BY <1>0, <1>a
<1>3. kept' = new /\ new \in {kept, offset} /\ kept <= new /\ offset <= new
  <2>1. kept' = Max({kept, offset})
    BY DEF Poll
  <2>2. Max({kept, offset}) \in {kept, offset} /\ Max({kept, offset}) >= kept /\ Max({kept, offset}) >= offset
    BY <1>0, MaxOfTwo
  <2> QED BY <1>2, <2>1, <2>2
<1>4. PICK n \in 0..PollLimit : batch' = [i \in 1..n |-> new + i - 1]
  <2>1. \E n \in 0..PollLimit : batch' = [i \in 1..n |-> Max({kept, offset}) + i - 1]
    BY DEF Poll
  <2> QED BY <1>2, <2>1
<1>5. \A i \in 1..Len(batch') : batch'[i] = new + i - 1
  <2>1. n \in Nat
    BY CountsAssumption
  <2>2. Len(batch') = n
    BY <1>4, <2>1
  <2> QED BY <1>4, <2>2
<1>6. new \in Bases /\ new \in Nat /\ new > 0
  BY <1>0, <1>3 DEF Bases
<1>7. /\ TrackerOk(base)' /\ OffsetsOk(base)' /\ StagesOk(base)'
      /\ \A w \in Workers : WorkerOk(w)' /\ NothingLost(base, w)'
      /\ ClosingOk'
  BY <1>0, <1>1, <1>3, <1>6, FlowUnmoved
<1>8. DrainedAllPublished'
  BY <1>1 DEF DrainedAllPublished
<1>9. CASE seqno = 0
  <2>1. InFlight = {} /\ completed = {} /\ accepted = {} /\ nextSequence = 1
    BY <1>9, NothingNumbered
  <2>2. InFlight' = {} /\ completed' = {} /\ accepted' = {} /\ nextSequence' = 1 /\ seqno' = 0
    <3>1. \A w \in Workers : Hand(w)' = Hand(w)
      BY <1>1 DEF Hand
    <3>2. InFlight' = InFlight
      BY <1>1, <3>1, StagesUnchanged
    <3> QED BY <1>1, <1>9, <2>1, <3>2 DEF tracker
  <2>3. TrackerOk(new)'
    BY <2>2 DEF TrackerOk
  <2>4. stored = offset
    BY <1>1, <1>9 DEF FlowInv, ProducerOk
  <2>5. OffsetsOk(new)'
    <3>1. stored' <= new + nextSequence' - 1
      BY <1>0, <1>1, <1>3, <1>6, <2>2, <2>4
    <3>2. \A w \in Workers : work'[w].phase # "saving"
      BY <1>7, <2>2 DEF OffsetsOk
    <3> QED BY <1>3, <1>6, <2>2, <3>1, <3>2 DEF OffsetsOk, Bases
  <2>6. StagesOk(new)'
    BY <1>7, <2>2 DEF StagesOk
  <2>7. \A w \in Workers : NothingLost(new, w)'
    BY <2>2 DEF NothingLost
  <2>8. ProducerOk(new)'
    BY <1>1, <1>3, <1>5, <1>6, <2>2, <2>4 DEF ProducerOk
  <2>9. SourcesOk(new)'
    <3>1. SUFFICES ASSUME NEW v \in published, NEW u \in Updates, u < v, Source[u] = Source[v]
                   PROVE  u \in published \/ u < new
      BY <1>1 DEF SourcesOk
    <3>2. u \in published \/ u < base \/ u < kept
      BY <3>1 DEF FlowInv, SourcesOk
    <3>3. u \in published \/ u < kept
      BY <3>2 DEF FlowInv, OffsetsOk
    <3> QED BY <1>0, <1>3, <1>6, <3>3 DEF Updates
  <2> QED BY <1>6, <1>7, <1>8, <2>3, <2>5, <2>6, <2>7, <2>8, <2>9 DEF FlowInv
<1>10. CASE seqno > 0
  <2>1. new = base + seqno /\ seqno' = seqno
    <3>1. kept <= base + seqno /\ offset = base + seqno
      BY <1>1, <1>10 DEF FlowInv, ProducerOk
    <3> QED BY <1>0, <1>1, <1>3, <1>6, <3>1
  <2>2. SourcesOk(base)'
    BY <1>0, <1>1, <1>3, <1>6, SourcesKept DEF FlowInv
  <2>3. ProducerOk(base)'
    <3>1. \A u \in accepted' : base <= u /\ u < base + seqno' /\ u # putting'.update
      BY <1>1 DEF FlowInv, ProducerOk
    <3>2. \A i \in 1..Len(batch') : batch'[i] = base + seqno' + i - 1
      BY <1>5, <2>1
    <3>3. seqno' > 0 => kept' <= base + seqno' /\ (putting' = Nothing => offset' = base + seqno')
      <4>1. offset = base + seqno
        BY <1>1, <1>10 DEF FlowInv, ProducerOk
      <4> QED BY <1>0, <1>1, <1>3, <1>6, <2>1, <4>1
    <3>4. \A k \in 1..seqno' : base + k - 1 \in accepted' \/ (putting' # Nothing /\ k = seqno')
      BY <1>1 DEF FlowInv, ProducerOk
    <3>5. seqno' # 0 /\ runner' = "polling"
      BY <1>1, <1>10, <2>1
    <3> QED BY <3>1, <3>2, <3>3, <3>4, <3>5 DEF ProducerOk
  <2> QED BY <1>7, <1>8, <2>2, <2>3 DEF FlowInv
<1> QED BY <1>0, <1>9, <1>10

-----------------------------------------------------------------------------
(* The steps of the producer.                                              *)

\* The numbers in flight end where the producer is.
LEMMA InFlightNumbers ==
  ASSUME NEW base \in Bases, TypeOK, StagesOk(base), NEW i \in InFlight
  PROVE  /\ i = Item(base + i.seq - 1, i.seq) /\ i.update = base + i.seq - 1
         /\ i.seq \in Nat \ {0} /\ i.seq <= seqno /\ i.update \in Updates
         /\ i # Close /\ i # Nothing
<1>1. base \in Nat /\ Numbered(base, i)
  BY CountsAssumption DEF Bases, StagesOk
<1> QED BY <1>1, NumberedItem DEF Numbered

\* A producer that gives up takes the update it is enqueueing with it.
LEMMA RaiseFlow ==
  ASSUME NEW base \in Bases, TypeOK, FlowInv(base), Raise
  PROVE  FlowInv(base)'
<1>0. base \in Nat /\ seqno \in Nat /\ kept \in Nat /\ StagesOk(base)
  BY CountsAssumption DEF Bases, TypeOK, FlowInv
<1>1. /\ UNCHANGED <<ingress, held, closed, queues, work, seqno, tracker, stored, published>>
      /\ UNCHANGED <<kept, accepted>>
      /\ runner = "polling" /\ runner' = "raised" /\ putting' = Nothing
  BY DEF Raise, external, dispatcher
<1>2. \A w \in Workers : Hand(w)' = Hand(w) /\ Charge(w)' = Charge(w) /\ Mine(w)' = Mine(w)
  BY <1>1 DEF Hand, Charge, Mine
<1>3. Carried' = Carried /\ Waiting' = Waiting /\ Pending' = {}
  BY <1>1 DEF Carried, Waiting, Pending
<1>4. Upstream' \subseteq Upstream /\ InFlight' \subseteq InFlight /\ InFlight \subseteq InFlight' \cup Pending
  BY <1>2, <1>3 DEF Upstream, InFlight
<1>5. TrackerOk(base)'
  BY <1>0, <1>1, TrackerKept DEF FlowInv
<1>6. OffsetsOk(base)'
  BY <1>0, <1>1, OffsetsKept DEF FlowInv, OffsetsOk
<1>7. StagesOk(base)'
  <2>1. \A i \in InFlight : Numbered(base, i)' /\ nextSequence' <= i.seq /\ i \notin completed'
    BY <1>0, <1>1, FlightKept
  <2>2. Before(Carried, Waiting)' /\ Before(Carried \cup Waiting, Pending)' /\ Ascending(ingress)'
    BY <1>0, <1>1, <1>3 DEF StagesOk, Before, Ascending
  <2> QED BY <1>1, <1>4, <2>1, <2>2 DEF StagesOk
<1>8. \A w \in Workers : WorkerOk(w)'
  BY <1>1, <1>2, <1>4, WorkerKept DEF FlowInv
<1>9. ASSUME NEW w \in Workers PROVE NothingLost(base, w)'
  <2>1. SUFFICES ASSUME work[w].phase # "failed", NEW n \in 1..seqno, WorkerFor(base + n - 1) = w,
                        ~ Processed(base, n)
                 PROVE  Item(base + n - 1, n) \in InFlight' \/ n = seqno
    BY <1>1 DEF NothingLost, Processed, tracker
  <2>2. Item(base + n - 1, n) \in InFlight
    BY <1>1, <2>1 DEF FlowInv, NothingLost
  <2>3. CASE Item(base + n - 1, n) \in Pending
    BY <1>0, <2>3 DEF Pending, StagesOk, Item
  <2> QED BY <1>4, <2>2, <2>3
<1>10. ClosingOk'
  BY <1>1 DEF FlowInv, ClosingOk
<1>11. DrainedAllPublished'
  BY <1>1 DEF DrainedAllPublished
<1>12. SourcesOk(base)'
  BY <1>0, <1>1, SourcesKept DEF FlowInv
<1>13. ProducerOk(base)'
  <2>1. \A u \in accepted' : base <= u /\ u < base + seqno' /\ u # putting'.update
    BY <1>1 DEF FlowInv, ProducerOk, TypeOK, Updates, Nothing, Item
  <2> QED BY <1>1, <2>1 DEF ProducerOk
<1> QED BY <1>5, <1>6, <1>7, <1>8, <1>9, <1>10, <1>11, <1>12, <1>13 DEF FlowInv

\* The next update of the batch gets the next number.
LEMMA BeginPutFlow ==
  ASSUME NEW base \in Bases, TypeOK, FlowInv(base), BeginPut
  PROVE  FlowInv(base)'
<1>0. /\ base \in Nat /\ seqno \in Nat /\ kept \in Nat \ {0} /\ batch \in Seq(Updates)
      /\ StagesOk(base) /\ ProducerOk(base) /\ TrackerOk(base)
  BY CountsAssumption DEF Bases, TypeOK, FlowInv
<1>1. /\ UNCHANGED <<ingress, held, closed, queues, work, tracker, stored, published>>
      /\ UNCHANGED <<kept, accepted, runner>>
      /\ runner = "polling" /\ putting = Nothing /\ seqno' = seqno + 1 /\ batch # <<>>
      /\ batch' = Tail(batch)
  BY DEF BeginPut, external, control, dispatcher
<1>3. /\ Head(batch) = base + seqno /\ Head(batch) \in Updates
      /\ Len(batch') = Len(batch) - 1 /\ \A i \in 1..Len(batch') : batch'[i] = batch[i + 1]
      /\ Len(batch) \in Nat
  <2>1. Head(batch) = batch[1] /\ 1 \in 1..Len(batch) /\ Head(batch) \in Updates
    BY <1>0, <1>1, TakeFacts
  <2>2. batch[1] = base + seqno + 1 - 1
    BY <1>0, <1>1, <2>1 DEF ProducerOk
  <2>3. Len(batch') = Len(batch) - 1 /\ \A i \in 1..(Len(batch) - 1) : batch'[i] = batch[i + 1]
    BY <1>0, <1>1, TakeFacts
  <2> QED BY <1>0, <2>1, <2>2, <2>3
<1>a. PICK new \in Items : new = Item(Head(batch), seqno + 1)
  <2>1. Item(Head(batch), seqno + 1) \in Items
    BY <1>0, <1>3 DEF Item, Items
  <2> QED BY <2>1
<1>2. putting' = new
  BY <1>a DEF BeginPut
<1>4. new.seq = seqno + 1 /\ new.update = base + seqno /\ new # Nothing
  BY <1>0, <1>3, <1>a DEF Item, Nothing
<1>5. base > 0 /\ (seqno = 0 => base = kept)
  BY <1>0, <1>1 DEF FlowInv, OffsetsOk, ProducerOk
<1>6. \A w \in Workers : Hand(w)' = Hand(w) /\ Charge(w)' = Charge(w) /\ Mine(w)' = Mine(w)
  BY <1>1 DEF Hand, Charge, Mine
<1>7. Carried' = Carried /\ Waiting' = Waiting /\ Pending' = {new} /\ Pending = {}
  BY <1>1, <1>2, <1>4 DEF Carried, Waiting, Pending
<1>8. Upstream' = Upstream \cup {new} /\ InFlight' = InFlight \cup {new}
  BY <1>6, <1>7 DEF Upstream, InFlight
<1>9. TrackerOk(base)'
  BY <1>0, <1>1, TrackerKept
<1>10. OffsetsOk(base)'
  BY <1>0, <1>1, <1>5, OffsetsKept DEF FlowInv
<1>11. StagesOk(base)'
  <2>1. \A i \in InFlight : Numbered(base, i)' /\ nextSequence' <= i.seq /\ i \notin completed'
    BY <1>0, <1>1, FlightKept
  <2>2. Numbered(base, new)' /\ nextSequence' <= new.seq /\ new \notin completed'
    <3>1. nextSequence <= seqno + 1 /\ nextSequence \in Nat
      BY <1>0 DEF TrackerOk, TypeOK
    <3>2. \A i \in completed : i.seq \in Nat /\ i.seq <= seqno
      BY <1>0 DEF TrackerOk, Numbered, Items
    <3>3. Numbered(base, new)'
      BY <1>0, <1>1, <1>4 DEF Numbered, Items
    <3> QED BY <1>0, <1>1, <1>4, <3>1, <3>2, <3>3 DEF tracker
  <2>3. \A i \in Carried \cup Waiting : i.seq < new.seq
    <3>1. \A i \in Carried \cup Waiting : i \in InFlight
      BY DEF InFlight, Upstream
    <3> QED BY <1>0, <1>4, <3>1, InFlightNumbers
  <2>4. Before(Carried, Waiting)' /\ Before(Carried \cup Waiting, Pending)' /\ Ascending(ingress)'
    BY <1>0, <1>1, <1>7, <2>3 DEF StagesOk, Before, Ascending
  <2> QED BY <1>1, <1>2, <1>4, <1>8, <2>1, <2>2, <2>4 DEF StagesOk
<1>12. ASSUME NEW w \in Workers PROVE WorkerOk(w)'
  <2>0. WorkerOk(w)
    BY DEF FlowInv
  <2>1. \A i \in Mine(w) : i.seq < new.seq
    <3>1. \A i \in Mine(w) : i \in InFlight
      BY DEF InFlight
    <3> QED BY <1>0, <1>4, <3>1, InFlightNumbers
  <2>2. Before(Mine(w), Upstream)' /\ Before(Hand(w), Charge(w))'
    BY <1>6, <1>8, <2>0, <2>1 DEF WorkerOk, Before
  <2>3. Ascending(queues[w])'
    BY <1>1, <2>0 DEF WorkerOk, Ascending
  <2> QED BY <1>1, <1>6, <2>0, <2>2, <2>3 DEF WorkerOk
<1>13. ASSUME NEW w \in Workers PROVE NothingLost(base, w)'
  <2>1. SUFFICES ASSUME work[w].phase # "failed", NEW n \in 1..(seqno + 1), WorkerFor(base + n - 1) = w,
                        ~ Processed(base, n)
                 PROVE  Item(base + n - 1, n) \in InFlight'
    BY <1>1 DEF NothingLost, Processed, tracker
  <2>2. CASE n <= seqno
    <3>1. n \in 1..seqno
      BY <1>0, <2>2
    <3> QED BY <1>1, <1>8, <2>1, <3>1 DEF FlowInv, NothingLost
  <2>3. CASE n = seqno + 1
    <3>1. base + n - 1 = Head(batch)
      BY <1>0, <1>3, <2>3
    <3> QED BY <1>8, <2>3, <3>1, <1>a
  <2> QED BY <1>0, <2>2, <2>3
<1>14. ClosingOk'
  BY <1>1 DEF FlowInv, ClosingOk
<1>15. DrainedAllPublished'
  BY <1>1 DEF DrainedAllPublished
<1>16. SourcesOk(base)'
  <2>1. SUFFICES ASSUME NEW v \in published, NEW u \in Updates, u < v, Source[u] = Source[v]
                 PROVE  u \in published \/ u < base
    BY <1>1 DEF SourcesOk
  <2>2. u \in published \/ u < base \/ (seqno = 0 /\ u < kept)
    BY <2>1 DEF FlowInv, SourcesOk
  <2> QED BY <1>5, <2>2
<1>17. ProducerOk(base)'
  <2>1. \A u \in accepted' : base <= u /\ u < base + seqno' /\ u # putting'.update
    <3> SUFFICES ASSUME NEW u \in accepted PROVE base <= u /\ u < base + (seqno + 1) /\ u # new.update
      BY <1>1, <1>2
    <3>1. u \in Nat /\ base <= u /\ u < base + seqno
      BY <1>0 DEF TypeOK, Updates, ProducerOk
    <3> QED BY <1>0, <1>4, <3>1
  <2>2. \A i \in 1..Len(batch') : batch'[i] = base + seqno' + i - 1
    <3> SUFFICES ASSUME NEW i \in 1..Len(batch') PROVE batch'[i] = base + (seqno + 1) + i - 1
      BY <1>1
    <3>1. i + 1 \in 1..Len(batch) /\ batch'[i] = batch[i + 1]
      BY <1>3
    <3>2. batch[i + 1] = base + seqno + (i + 1) - 1
      BY <1>0, <1>1, <3>1 DEF ProducerOk
    <3> QED BY <1>0, <3>1, <3>2
  <2>3. kept' <= base + seqno' /\ putting' # Nothing /\ seqno' # 0
    <3>1. kept <= base + seqno
      BY <1>0, <1>1, <1>5 DEF ProducerOk
    <3> QED BY <1>0, <1>1, <1>2, <1>4, <3>1
  <2>4. \A n \in 1..seqno' : base + n - 1 \in accepted' \/ (putting' # Nothing /\ n = seqno')
    <3> SUFFICES ASSUME NEW n \in 1..(seqno + 1), n # seqno + 1 PROVE base + n - 1 \in accepted
      BY <1>1, <2>3
    <3>1. n \in 1..seqno
      BY <1>0
    <3> QED BY <1>0, <1>1, <3>1 DEF ProducerOk
  <2>5. runner' = "polling"
    BY <1>1
  <2> QED BY <2>1, <2>2, <2>3, <2>4, <2>5 DEF ProducerOk
<1> QED BY <1>9, <1>10, <1>11, <1>12, <1>13, <1>14, <1>15, <1>16, <1>17 DEF FlowInv

-----------------------------------------------------------------------------
(* The steps that move an item to the next stage.                          *)

\* What holds of the rest when an item moves and nothing leaves.
LEMMA MovedFlow ==
  ASSUME NEW base \in Bases, TypeOK, FlowInv(base),
         UNCHANGED <<seqno, tracker, stored, published, kept, runner>>, InFlight' = InFlight,
         \A w \in Workers :
           /\ work'[w].phase = "saving" => work'[w] = work[w]
           /\ work[w].phase = "failed" => work'[w].phase = "failed"
  PROVE  /\ TrackerOk(base)' /\ OffsetsOk(base)' /\ SourcesOk(base)'
         /\ \A i \in InFlight' : Numbered(base, i)' /\ nextSequence' <= i.seq /\ i \notin completed'
         /\ \A w \in Workers : NothingLost(base, w)'
<1>1. base \in Nat /\ seqno \in Nat /\ kept \in Nat /\ StagesOk(base)
  BY CountsAssumption DEF Bases, TypeOK, FlowInv
<1>2. TrackerOk(base)'
  BY <1>1, TrackerKept DEF FlowInv
<1>3. OffsetsOk(base)'
  BY <1>1, OffsetsKept DEF FlowInv, OffsetsOk
<1>4. SourcesOk(base)'
  BY <1>1, SourcesKept DEF FlowInv
<1>5. \A i \in InFlight' : Numbered(base, i)' /\ nextSequence' <= i.seq /\ i \notin completed'
  BY <1>1, FlightKept
<1>6. \A w \in Workers : NothingLost(base, w)'
  BY <1>1, LostKept DEF FlowInv
<1> QED BY <1>2, <1>3, <1>4, <1>5, <1>6

\* The producer's numbers while the producer does nothing.
LEMMA ProducerKept ==
  ASSUME NEW base, ProducerOk(base), UNCHANGED <<accepted, seqno, putting, batch, offset, kept, runner>>,
         seqno = 0 => stored' = stored
  PROVE  ProducerOk(base)'
<1>1. runner' = runner /\ seqno' = seqno /\ batch' = batch /\ putting' = putting /\ accepted' = accepted
      /\ offset' = offset /\ kept' = kept
  OBVIOUS
<1> QED BY <1>1 DEF ProducerOk

\* An update that is enqueued waits behind all others.
LEMMA PutFlow ==
  ASSUME NEW base \in Bases, TypeOK, FlowInv(base), CompletePut \/ OrphanPut
  PROVE  FlowInv(base)'
<1>0. /\ base \in Nat /\ seqno \in Nat /\ ingress \in Seq(QueueItems)
      /\ StagesOk(base) /\ ProducerOk(base)
  BY CountsAssumption DEF Bases, TypeOK, FlowInv
<1>1. /\ UNCHANGED <<kept, runner, held, closed, queues, work, seqno, tracker, stored, published, batch>>
      /\ runner \in {"polling", "draining", "cancelled"} /\ putting # Nothing /\ putting' = Nothing
      /\ ingress' = Append(ingress, putting)
  BY DEF CompletePut, OrphanPut, external, control
<1>2. putting \in Pending /\ putting \in InFlight
  BY <1>1 DEF Pending, Upstream, InFlight
<1>3. /\ putting \in Items /\ putting # Close /\ putting.seq = seqno /\ seqno > 0
      /\ putting.update = base + seqno - 1
  <2>1. putting \in Items /\ putting.seq = seqno
    BY <1>0, <1>1 DEF StagesOk, TypeOK
  <2>2. putting # Close /\ putting.update = base + putting.seq - 1 /\ putting.seq \in Nat \ {0}
    BY <1>0, <1>2, InFlightNumbers
  <2> QED BY <1>0, <2>1, <2>2
<1>4. ToSet(ingress') = ToSet(ingress) \cup {putting}
  <2>1. putting \in QueueItems
    BY <1>3 DEF QueueItems
  <2>2. ToSet(Append(ingress, putting)) = ToSet(ingress) \cup {putting}
    BY <1>0, <2>1, PutFacts
  <2> QED BY <1>1, <2>2 DEF ToSet
<1>5. Waiting' = Waiting \cup {putting} /\ Pending' = {} /\ Pending = {putting} /\ Carried' = Carried
  BY <1>1, <1>3, <1>4 DEF Waiting, Pending, Carried
<1>6. \A w \in Workers : Hand(w)' = Hand(w) /\ Charge(w)' = Charge(w) /\ Mine(w)' = Mine(w)
  BY <1>1 DEF Hand, Charge, Mine
<1>7. Upstream' = Upstream /\ InFlight' = InFlight
  BY <1>5, <1>6 DEF Upstream, InFlight
<1>8. /\ TrackerOk(base)' /\ OffsetsOk(base)' /\ SourcesOk(base)'
      /\ \A i \in InFlight' : Numbered(base, i)' /\ nextSequence' <= i.seq /\ i \notin completed'
      /\ \A w \in Workers : NothingLost(base, w)'
  BY <1>1, <1>7, MovedFlow
<1>9. StagesOk(base)'
  <2>1. \A y \in ToSet(ingress) \ {Close} : y.seq < putting.seq
    BY <1>0, <1>2 DEF StagesOk, Before, Waiting
  <2>2. Ascending(ingress)
    BY <1>0 DEF StagesOk
  <2>3. Ascending(Append(ingress, putting))
    BY <1>0, <1>3, <2>1, <2>2, PutAscending DEF QueueItems
  <2>4. Ascending(ingress)'
    BY <1>1, <2>3 DEF Ascending
  <2>5. Before(Carried, Waiting)' /\ Before(Carried \cup Waiting, Pending)'
    BY <1>0, <1>5 DEF StagesOk, Before
  <2> QED BY <1>1, <1>8, <2>4, <2>5 DEF StagesOk
<1>10. \A w \in Workers : WorkerOk(w)'
  BY <1>1, <1>6, <1>7, WorkerKept DEF FlowInv
<1>11. ClosingOk'
  BY <1>1 DEF FlowInv, ClosingOk
<1>12. CASE OrphanPut
  <2>1. runner \in {"draining", "cancelled"} /\ accepted' = accepted
    BY <1>12 DEF OrphanPut
  <2>2. \A u \in accepted' : base <= u /\ u < base + seqno' /\ u # putting'.update
    BY <1>0, <1>1, <2>1 DEF ProducerOk, TypeOK, Updates, Nothing, Item
  <2>3. ProducerOk(base)'
    BY <1>1, <2>1, <2>2 DEF ProducerOk
  <2>4. DrainedAllPublished'
    BY <1>1, <2>1 DEF DrainedAllPublished
  <2> QED BY <1>8, <1>9, <1>10, <1>11, <2>3, <2>4 DEF FlowInv
<1>13. CASE CompletePut
  <2>1. /\ runner = "polling" /\ accepted' = accepted \cup {putting.update}
        /\ offset' = putting.update + 1
    BY <1>13 DEF CompletePut
  <2>2. \A u \in accepted' : base <= u /\ u < base + seqno' /\ u # putting'.update
    <3>1. \A u \in accepted : base <= u /\ u < base + seqno /\ u # Nothing.update
      BY <1>0 DEF ProducerOk, TypeOK, Updates, Nothing, Item
    <3>2. base <= putting.update /\ putting.update < base + seqno /\ putting.update # Nothing.update
      BY <1>0, <1>3 DEF Items, Updates, Nothing, Item
    <3> QED BY <1>1, <2>1, <3>1, <3>2
  <2>3. \A n \in 1..seqno' : base + n - 1 \in accepted'
    BY <1>0, <1>1, <1>3, <2>1 DEF ProducerOk
  <2>4. offset' = base + seqno'
    BY <1>0, <1>1, <1>3, <2>1
  <2>5. ProducerOk(base)'
    <3>1. \A i \in 1..Len(batch') : batch'[i] = base + seqno' + i - 1
      BY <1>0, <1>1, <2>1 DEF ProducerOk
    <3>2. kept' <= base + seqno' /\ seqno' # 0 /\ runner' = "polling"
      BY <1>0, <1>1, <1>3, <2>1 DEF ProducerOk
    <3> QED BY <2>2, <2>3, <2>4, <3>1, <3>2 DEF ProducerOk
  <2>6. DrainedAllPublished'
    BY <1>1, <2>1 DEF DrainedAllPublished
  <2> QED BY <1>8, <1>9, <1>10, <1>11, <2>5, <2>6 DEF FlowInv
<1> QED BY <1>12, <1>13

\* The sentinel closes the intake queue.
LEMMA DrainCloseFlow ==
  ASSUME NEW base \in Bases, TypeOK, FlowInv(base), DrainClose
  PROVE  FlowInv(base)'
<1>0. ingress \in Seq(QueueItems) /\ StagesOk(base) /\ Close \in QueueItems
  BY DEF TypeOK, FlowInv, QueueItems
<1>1. /\ UNCHANGED <<kept, runner, held, closed, queues, work, seqno, tracker, stored, published>>
      /\ UNCHANGED <<batch, accepted, offset, putting>>
      /\ ingress' = Append(ingress, Close) /\ runner = "draining"
  BY DEF DrainClose, external, control, producer
<1>2. ToSet(ingress') = ToSet(ingress) \cup {Close}
  BY <1>0, <1>1, PutFacts
<1>3. Waiting' = Waiting /\ Pending' = Pending /\ Carried' = Carried
  BY <1>1, <1>2 DEF Waiting, Pending, Carried
<1>4. \A w \in Workers : Hand(w)' = Hand(w) /\ Charge(w)' = Charge(w) /\ Mine(w)' = Mine(w)
  BY <1>1 DEF Hand, Charge, Mine
<1>5. Upstream' = Upstream /\ InFlight' = InFlight
  BY <1>3, <1>4 DEF Upstream, InFlight
<1>6. /\ TrackerOk(base)' /\ OffsetsOk(base)' /\ SourcesOk(base)'
      /\ \A i \in InFlight' : Numbered(base, i)' /\ nextSequence' <= i.seq /\ i \notin completed'
      /\ \A w \in Workers : NothingLost(base, w)'
  BY <1>1, <1>5, MovedFlow
<1>7. StagesOk(base)'
  <2>1. Ascending(Append(ingress, Close))
    BY <1>0, PutAscending DEF StagesOk
  <2>2. Ascending(ingress)'
    BY <1>1, <2>1 DEF Ascending
  <2>3. Before(Carried, Waiting)' /\ Before(Carried \cup Waiting, Pending)'
    BY <1>0, <1>3 DEF StagesOk, Before
  <2> QED BY <1>0, <1>1, <1>6, <2>2, <2>3 DEF StagesOk
<1>8. \A w \in Workers : WorkerOk(w)'
  BY <1>1, <1>4, <1>5, WorkerKept DEF FlowInv
<1>9. ClosingOk' /\ DrainedAllPublished'
  BY <1>1 DEF FlowInv, ClosingOk, DrainedAllPublished
<1>10. ProducerOk(base)'
  BY <1>1, ProducerKept DEF FlowInv
<1> QED BY <1>6, <1>7, <1>8, <1>9, <1>10 DEF FlowInv

\* The dispatcher takes what was enqueued first.
LEMMA DispatchTakeFlow ==
  ASSUME NEW base \in Bases, TypeOK, FlowInv(base), DispatchTake
  PROVE  FlowInv(base)'
<1>0. ingress \in Seq(QueueItems) /\ StagesOk(base) /\ closed \in Nat
  BY CountsAssumption DEF TypeOK, FlowInv
<1>1. /\ UNCHANGED <<kept, runner, closed, queues, work, seqno, tracker, stored, published>>
      /\ UNCHANGED <<batch, accepted, offset, putting>>
      /\ held = Nothing /\ held' = Head(ingress) /\ ingress' = Tail(ingress) /\ ingress # <<>>
      /\ runner \notin {"drained"}
  BY DEF DispatchTake, external, control, producer, TasksRun
<1>2. Head(ingress) \in QueueItems /\ ToSet(ingress) = {Head(ingress)} \cup ToSet(Tail(ingress))
  BY <1>0, <1>1, TakeFacts
<1>3. Head(ingress) # Nothing
  BY <1>2 DEF QueueItems, Items, Close, Nothing, Item
<1>4. Carried = {} /\ Carried' = {Head(ingress)} \ {Close} /\ Waiting' = ToSet(Tail(ingress)) \ {Close}
      /\ Pending' = Pending
  BY <1>1, <1>3 DEF Carried, Waiting, Pending
<1>5. Carried' \cup Waiting' = Waiting
  BY <1>2, <1>4 DEF Waiting
<1>6. \A w \in Workers : Hand(w)' = Hand(w) /\ Charge(w)' = Charge(w) /\ Mine(w)' = Mine(w)
  BY <1>1 DEF Hand, Charge, Mine
<1>7. Upstream' = Upstream /\ InFlight' = InFlight
  BY <1>4, <1>5, <1>6 DEF Upstream, InFlight
<1>8. /\ TrackerOk(base)' /\ OffsetsOk(base)' /\ SourcesOk(base)'
      /\ \A i \in InFlight' : Numbered(base, i)' /\ nextSequence' <= i.seq /\ i \notin completed'
      /\ \A w \in Workers : NothingLost(base, w)'
  BY <1>1, <1>7, MovedFlow
<1>9. StagesOk(base)'
  <2>1. Ascending(Tail(ingress))
        /\ (Head(ingress) # Close => \A y \in ToSet(Tail(ingress)) \ {Close} : Head(ingress).seq < y.seq)
    BY <1>0, <1>1, TakeAscending DEF StagesOk
  <2>2. Ascending(ingress)'
    BY <1>1, <2>1 DEF Ascending
  <2>3. Before(Carried, Waiting)'
    BY <1>4, <2>1 DEF Before
  <2>4. Before(Carried \cup Waiting, Pending)'
    BY <1>0, <1>4, <1>5 DEF StagesOk, Before
  <2> QED BY <1>0, <1>1, <1>8, <2>2, <2>3, <2>4 DEF StagesOk
<1>10. \A w \in Workers : WorkerOk(w)'
  BY <1>1, <1>6, <1>7, WorkerKept DEF FlowInv
<1>11. ClosingOk'
  <2>1. closed = 0
    BY <1>0, <1>1 DEF FlowInv, ClosingOk, Nothing, Close, Item
  <2> QED BY <1>1, <2>1 DEF FlowInv, ClosingOk
<1>12. DrainedAllPublished'
  BY <1>1 DEF DrainedAllPublished
<1>13. ProducerOk(base)'
  BY <1>1, ProducerKept DEF FlowInv
<1> QED BY <1>8, <1>9, <1>10, <1>11, <1>12, <1>13 DEF FlowInv

\* It puts the item behind the others of its worker.
LEMMA DispatchPutFlow ==
  ASSUME NEW base \in Bases, TypeOK, FlowInv(base), DispatchPut
  PROVE  FlowInv(base)'
<1>0. StagesOk(base) /\ closed \in Nat /\ queues \in [Workers -> Seq(QueueItems)]
  BY CountsAssumption DEF TypeOK, FlowInv
<1>1. /\ UNCHANGED <<kept, runner, closed, ingress, work, seqno, tracker, stored, published>>
      /\ UNCHANGED <<batch, accepted, offset, putting>>
      /\ held \in Items /\ held # Nothing /\ held # Close /\ held' = Nothing /\ runner # "drained"
  BY DEF DispatchPut, external, control, producer, TasksRun, TypeOK, QueueItems
<1>2. PICK w \in Workers : w = WorkerFor(held.update)
  BY <1>1, WorkerForType DEF Items
<1>3. queues' = [queues EXCEPT ![w] = Append(@, held)]
  BY <1>2 DEF DispatchPut
<1>4. queues[w] \in Seq(QueueItems) /\ held \in QueueItems /\ queues'[w] = Append(queues[w], held)
      /\ \A v \in Workers \ {w} : queues'[v] = queues[v]
  BY <1>0, <1>1, <1>3 DEF QueueItems
<1>5. ToSet(queues'[w]) = ToSet(queues[w]) \cup {held}
  BY <1>4, PutFacts
<1>6. /\ Charge(w)' = Charge(w) \cup {held} /\ Mine(w)' = Mine(w) \cup {held}
      /\ \A v \in Workers : Hand(v)' = Hand(v)
      /\ \A v \in Workers \ {w} : Mine(v)' = Mine(v)
  BY <1>1, <1>4, <1>5 DEF Charge, Hand, Mine
<1>7. Carried = {held} /\ Carried' = {} /\ Waiting' = Waiting /\ Pending' = Pending
  BY <1>1 DEF Carried, Waiting, Pending
<1>8. Upstream' \subseteq Upstream /\ Upstream = Upstream' \cup {held}
  BY <1>7 DEF Upstream
<1>9. InFlight' = InFlight
  BY <1>2, <1>6, <1>8 DEF InFlight
<1>10. /\ TrackerOk(base)' /\ OffsetsOk(base)' /\ SourcesOk(base)'
       /\ \A i \in InFlight' : Numbered(base, i)' /\ nextSequence' <= i.seq /\ i \notin completed'
       /\ \A v \in Workers : NothingLost(base, v)'
  BY <1>1, <1>9, MovedFlow
<1>11. StagesOk(base)'
  <2>1. Before(Carried, Waiting)' /\ Before(Carried \cup Waiting, Pending)' /\ Ascending(ingress)'
    BY <1>0, <1>1, <1>7 DEF StagesOk, Before, Ascending
  <2> QED BY <1>0, <1>1, <1>10, <2>1 DEF StagesOk
<1>12. WorkerOk(w)'
  <2>0. WorkerOk(w)
    BY DEF FlowInv
  <2>1. \A y \in Mine(w) : y.seq < held.seq
    BY <1>8, <2>0 DEF WorkerOk, Before
  <2>2. Ascending(Append(queues[w], held))
    <3>1. \A y \in ToSet(queues[w]) \ {Close} : y.seq < held.seq
      BY <2>1 DEF Mine, Charge
    <3> QED BY <1>4, <2>0, <3>1, PutAscending DEF WorkerOk
  <2>3. Ascending(queues[w])'
    BY <1>4, <2>2 DEF Ascending
  <2>4. Before(Hand(w), Charge(w))'
    BY <1>6, <2>0, <2>1 DEF WorkerOk, Before, Mine
  <2>5. Before(Mine(w), Upstream)'
    <3>1. \A y \in Upstream' : held.seq < y.seq
      BY <1>0, <1>7 DEF StagesOk, Before, Upstream
    <3> QED BY <1>6, <1>8, <2>0, <3>1 DEF WorkerOk, Before
  <2> QED BY <1>1, <1>2, <1>6, <2>0, <2>3, <2>4, <2>5 DEF WorkerOk
<1>13. \A v \in Workers \ {w} : WorkerOk(v)'
  BY <1>1, <1>4, <1>6, <1>8, WorkerKept DEF FlowInv
<1>14. ClosingOk'
  <2>1. closed = 0 /\ \A v \in Workers : ~ (v <= 0)
    BY <1>0, <1>1, CountsAssumption DEF FlowInv, ClosingOk, Workers
  <2>2. \A v \in Workers : Close \notin ToSet(queues[v]) /\ work[v].phase # "exited"
    BY <2>1 DEF FlowInv, ClosingOk
  <2>3. ASSUME NEW v \in Workers PROVE Close \notin ToSet(queues'[v])
    <3>1. CASE v = w
      BY <1>1, <1>5, <2>2, <3>1
    <3>2. CASE v # w
      <4>1. queues'[v] = queues[v]
        BY <1>4, <3>2
      <4> QED BY <2>2, <4>1
    <3> QED BY <3>1, <3>2
  <2>4. \A v \in Workers : queues'[v] \in Seq(QueueItems)
    BY DispatchType DEF TypeOK
  <2>5. \A v \in Workers : \A i \in 1..Len(queues'[v]) : queues'[v][i] # Close
    BY <2>3, <2>4, MemberFacts
  <2> QED BY <1>1, <2>1, <2>2, <2>3, <2>5 DEF ClosingOk
<1>15. DrainedAllPublished'
  BY <1>1 DEF DrainedAllPublished
<1>16. ProducerOk(base)'
  BY <1>1, ProducerKept DEF FlowInv
<1> QED BY <1>10, <1>11, <1>12, <1>13, <1>14, <1>15, <1>16 DEF FlowInv

\* The sentinel goes to one worker after the other.
LEMMA CloseQueueFlow ==
  ASSUME NEW base \in Bases, TypeOK, FlowInv(base), CloseQueue
  PROVE  FlowInv(base)'
<1>0. StagesOk(base) /\ closed \in Nat /\ queues \in [Workers -> Seq(QueueItems)] /\ ClosingOk
      /\ Workers \subseteq Nat
  BY CountsAssumption DEF TypeOK, FlowInv, Workers
<1>1. /\ UNCHANGED <<kept, runner, held, ingress, work, seqno, tracker, stored, published>>
      /\ UNCHANGED <<batch, accepted, offset, putting>>
      /\ held = Close /\ closed' = closed + 1 /\ closed < WorkerCount /\ runner # "drained"
  BY DEF CloseQueue, external, control, producer, TasksRun
<1>2. PICK w \in Workers : w = closed + 1
  BY <1>0, <1>1, CountsAssumption DEF Workers
<1>3. queues' = [queues EXCEPT ![w] = Append(@, Close)]
  BY <1>2 DEF CloseQueue
<1>4. queues[w] \in Seq(QueueItems) /\ Close \in QueueItems /\ queues'[w] = Append(queues[w], Close)
      /\ \A v \in Workers \ {w} : queues'[v] = queues[v]
  BY <1>0, <1>3 DEF QueueItems
<1>5. ToSet(queues'[w]) = ToSet(queues[w]) \cup {Close}
  BY <1>4, PutFacts
<1>6. \A v \in Workers : Charge(v)' = Charge(v) /\ Hand(v)' = Hand(v) /\ Mine(v)' = Mine(v)
  BY <1>1, <1>4, <1>5 DEF Charge, Hand, Mine
<1>7. Carried' = Carried /\ Waiting' = Waiting /\ Pending' = Pending
  BY <1>1 DEF Carried, Waiting, Pending
<1>8. Upstream' = Upstream /\ InFlight' = InFlight
  BY <1>6, <1>7 DEF Upstream, InFlight
<1>9. /\ TrackerOk(base)' /\ OffsetsOk(base)' /\ SourcesOk(base)'
      /\ \A i \in InFlight' : Numbered(base, i)' /\ nextSequence' <= i.seq /\ i \notin completed'
      /\ \A v \in Workers : NothingLost(base, v)'
  BY <1>1, <1>8, MovedFlow
<1>10. StagesOk(base)'
  <2>1. Before(Carried, Waiting)' /\ Before(Carried \cup Waiting, Pending)' /\ Ascending(ingress)'
    BY <1>0, <1>1, <1>7 DEF StagesOk, Before, Ascending
  <2> QED BY <1>0, <1>1, <1>9, <2>1 DEF StagesOk
<1>11. ASSUME NEW v \in Workers PROVE WorkerOk(v)'
  <2>0. WorkerOk(v)
    BY DEF FlowInv
  <2>1. CASE v # w
    BY <1>1, <1>4, <1>6, <1>8, <2>0, <2>1, WorkerKept
  <2>2. CASE v = w
    <3>1. Ascending(Append(queues[w], Close))
      BY <1>4, <2>0, <2>2, PutAscending DEF WorkerOk
    <3>2. Ascending(queues[v])'
      BY <1>4, <2>2, <3>1 DEF Ascending
    <3>3. Before(Hand(v), Charge(v))' /\ Before(Mine(v), Upstream)'
      BY <1>6, <1>8, <2>0 DEF WorkerOk, Before
    <3> QED BY <1>1, <1>6, <2>0, <3>2, <3>3 DEF WorkerOk
  <2> QED BY <2>1, <2>2
<1>12. ClosingOk'
  <2>1. ~ (w <= closed) /\ w <= closed' /\ closed <= closed' /\ closed' \in Nat
    BY <1>0, <1>1, <1>2
  <2>2. Close \notin ToSet(queues[w]) /\ work[w].phase # "exited"
    BY <1>0, <2>1 DEF ClosingOk
  <2>3. \A v \in Workers : Close \in ToSet(queues'[v]) \/ work'[v].phase = "exited" => v <= closed'
    <3> SUFFICES ASSUME NEW v \in Workers, v # w, Close \in ToSet(queues[v]) \/ work[v].phase = "exited"
                 PROVE  v <= closed'
      BY <1>1, <1>4, <2>1
    <3>1. v <= closed
      BY <1>0 DEF ClosingOk
    <3> QED BY <1>0, <2>1, <3>1
  <2>4. ASSUME NEW i \in 1..Len(queues'[w]), queues'[w][i] = Close
        PROVE  i = Len(queues'[w])
    <3>1. Len(queues[w]) \in Nat /\ Len(queues'[w]) = Len(queues[w]) + 1
          /\ \A k \in 1..Len(queues[w]) : queues'[w][k] = queues[w][k] /\ queues[w][k] \in ToSet(queues[w])
      BY <1>4, PutFacts, MemberFacts
    <3> QED BY <2>2, <2>4, <3>1
  <2>5. \A v \in Workers : work'[v].phase = "exited" => queues'[v] = <<>>
    BY <1>0, <1>1, <1>4, <2>2 DEF ClosingOk
  <2> QED BY <1>0, <1>1, <1>4, <2>3, <2>4, <2>5 DEF ClosingOk
<1>13. DrainedAllPublished'
  BY <1>1 DEF DrainedAllPublished
<1>14. ProducerOk(base)'
  BY <1>1, ProducerKept DEF FlowInv
<1> QED BY <1>9, <1>10, <1>11, <1>12, <1>13, <1>14 DEF FlowInv

-----------------------------------------------------------------------------
(* The steps of the workers.                                               *)

\* A worker takes the first item of its queue, or ends at the sentinel.
LEMMA WorkerTakeFlow ==
  ASSUME NEW base \in Bases, TypeOK, FlowInv(base), NEW w \in Workers, WorkerTake(w)
  PROVE  FlowInv(base)'
<1>0. /\ StagesOk(base) /\ WorkerOk(w) /\ ClosingOk
      /\ queues \in [Workers -> Seq(QueueItems)] /\ queues[w] \in Seq(QueueItems)
      /\ w \in DOMAIN work
  BY DEF TypeOK, FlowInv
<1>1. /\ UNCHANGED <<kept, runner, held, closed, ingress, seqno, tracker, stored, published>>
      /\ UNCHANGED <<batch, accepted, offset, putting>>
      /\ work[w].phase = "idle" /\ queues[w] # <<>> /\ runner # "drained"
      /\ queues' = [queues EXCEPT ![w] = Tail(@)]
  BY DEF WorkerTake, external, control, producer, dispatcher, TasksRun
<1> DEFINE first == Head(queues[w])
           rest == Tail(queues[w])
<1>2. queues'[w] = rest /\ \A v \in Workers \ {w} : queues'[v] = queues[v] /\ work'[v] = work[v]
  BY <1>0, <1>1 DEF WorkerTake
<1>3. /\ first = queues[w][1] /\ 1 \in 1..Len(queues[w])
      /\ rest \in Seq(QueueItems) /\ Len(rest) = Len(queues[w]) - 1 /\ Len(queues[w]) \in Nat
      /\ \A i \in 1..(Len(queues[w]) - 1) : rest[i] = queues[w][i + 1]
      /\ ToSet(queues[w]) = {first} \cup ToSet(rest)
  BY <1>0, <1>1, TakeFacts
<1>4. /\ first = Close => work'[w].phase = "exited"
      /\ first # Close => work'[w].phase = "publishing" /\ work'[w].item = first
  BY <1>0 DEF WorkerTake, Idle
<1>5. /\ Ascending(rest)
      /\ first # Close => \A y \in ToSet(rest) \ {Close} : first.seq < y.seq
  BY <1>0, <1>1, TakeAscending DEF WorkerOk
<1> HIDE DEF first, rest
<1>6. Hand(w) = {} /\ Hand(w)' = {first} \ {Close} /\ Charge(w)' = ToSet(rest) \ {Close}
      /\ Charge(w) = ({first} \cup ToSet(rest)) \ {Close}
  BY <1>1, <1>2, <1>3, <1>4 DEF Hand, Charge
<1>7. Mine(w)' = Mine(w) /\ \A v \in Workers \ {w} : Hand(v)' = Hand(v) /\ Mine(v)' = Mine(v)
  BY <1>2, <1>6 DEF Mine, Hand, Charge
<1>8. Carried' = Carried /\ Waiting' = Waiting /\ Pending' = Pending
  BY <1>1 DEF Carried, Waiting, Pending
<1>9. Upstream' = Upstream /\ InFlight' = InFlight
  BY <1>7, <1>8 DEF Upstream, InFlight
<1>10. \A v \in Workers :
         /\ work'[v].phase = "saving" => work'[v] = work[v]
         /\ work[v].phase = "failed" => work'[v].phase = "failed"
  BY <1>1, <1>2, <1>4
<1>11. /\ TrackerOk(base)' /\ OffsetsOk(base)' /\ SourcesOk(base)'
       /\ \A i \in InFlight' : Numbered(base, i)' /\ nextSequence' <= i.seq /\ i \notin completed'
       /\ \A v \in Workers : NothingLost(base, v)'
  BY <1>1, <1>9, <1>10, MovedFlow
<1>12. StagesOk(base)'
  <2>1. Before(Carried, Waiting)' /\ Before(Carried \cup Waiting, Pending)' /\ Ascending(ingress)'
    BY <1>0, <1>1, <1>8 DEF StagesOk, Before, Ascending
  <2> QED BY <1>0, <1>1, <1>11, <2>1 DEF StagesOk
<1>13. WorkerOk(w)'
  <2>1. Ascending(queues[w])'
    BY <1>2, <1>5 DEF Ascending
  <2>2. Before(Hand(w), Charge(w))'
    BY <1>5, <1>6 DEF Before
  <2>3. Before(Mine(w), Upstream)'
    BY <1>0, <1>7, <1>9 DEF WorkerOk, Before
  <2> QED BY <1>0, <1>4, <1>7, <2>1, <2>2, <2>3 DEF WorkerOk
<1>14. \A v \in Workers \ {w} : WorkerOk(v)'
  BY <1>1, <1>2, <1>7, <1>9, WorkerKept DEF FlowInv
<1>15. ClosingOk'
  <2>1. first = Close => w <= closed /\ rest = <<>>
    <3> SUFFICES ASSUME first = Close PROVE w <= closed /\ rest = <<>>
      OBVIOUS
    <3>1. w <= closed
      BY <1>0, <1>3 DEF ClosingOk
    <3>2. 1 = Len(queues[w])
      BY <1>0, <1>3 DEF ClosingOk
    <3> QED BY <1>3, <3>1, <3>2
  <2>2. Close \in ToSet(rest) => w <= closed
    BY <1>0, <1>3 DEF ClosingOk
  <2>3. ASSUME NEW i \in 1..Len(rest), rest[i] = Close PROVE i = Len(rest)
    <3>1. i + 1 \in 1..Len(queues[w]) /\ queues[w][i + 1] = Close
      BY <1>3, <2>3
    <3>2. i + 1 = Len(queues[w])
      BY <1>0, <3>1 DEF ClosingOk
    <3> QED BY <1>3, <3>2
  <2> QED BY <1>0, <1>1, <1>2, <1>4, <2>1, <2>2, <2>3 DEF ClosingOk
<1>16. DrainedAllPublished'
  BY <1>1 DEF DrainedAllPublished
<1>17. ProducerOk(base)'
  BY <1>1, ProducerKept DEF FlowInv
<1> QED BY <1>11, <1>12, <1>13, <1>14, <1>15, <1>16, <1>17 DEF FlowInv

\* What a worker writes to the file was released.
LEMMA SaveOffsetFlow ==
  ASSUME NEW base \in Bases, TypeOK, FlowInv(base), NEW w \in Workers, SaveOffset(w)
  PROVE  FlowInv(base)'
<1>0. /\ base \in Nat /\ StagesOk(base) /\ OffsetsOk(base) /\ w \in DOMAIN work /\ seqno \in Nat
      /\ kept \in Nat
  BY CountsAssumption DEF Bases, TypeOK, FlowInv
<1>1. /\ UNCHANGED <<kept, runner, held, closed, ingress, queues, seqno, tracker, published>>
      /\ UNCHANGED <<batch, accepted, offset, putting>>
      /\ work[w].phase = "saving" /\ stored' = work[w].offset
      /\ work'[w].phase = "idle" /\ \A v \in Workers \ {w} : work'[v] = work[v]
  BY <1>0 DEF SaveOffset, external, control, producer, dispatcher, Idle
<1>2. \A v \in Workers : Hand(v)' = Hand(v)
  BY <1>1 DEF Hand
<1>3. /\ Pending' = Pending /\ Waiting' = Waiting /\ Carried' = Carried
      /\ Upstream' = Upstream /\ InFlight' = InFlight
  BY <1>1, <1>2, StagesUnchanged
<1>4. TrackerOk(base)'
  BY <1>0, <1>1, TrackerKept DEF FlowInv
<1>5. OffsetsOk(base)'
  <2>1. seqno > 0 /\ stored' <= base + nextSequence - 1
    BY <1>0, <1>1 DEF OffsetsOk
  <2> QED BY <1>0, <1>1, <2>1 DEF OffsetsOk, tracker
<1>6. StagesOk(base)'
  <2>1. \A i \in InFlight : Numbered(base, i)' /\ nextSequence' <= i.seq /\ i \notin completed'
    BY <1>0, <1>1, FlightKept
  <2>2. Before(Carried, Waiting)' /\ Before(Carried \cup Waiting, Pending)' /\ Ascending(ingress)'
    BY <1>0, <1>1, <1>3 DEF StagesOk, Before, Ascending
  <2> QED BY <1>0, <1>1, <1>3, <2>1, <2>2 DEF StagesOk
<1>7. \A v \in Workers : WorkerOk(v)'
  BY <1>1, <1>2, <1>3, WorkerKept DEF FlowInv
<1>8. \A v \in Workers : NothingLost(base, v)'
  BY <1>0, <1>1, <1>3, LostKept DEF FlowInv
<1>9. ClosingOk'
  BY <1>1 DEF FlowInv, ClosingOk
<1>10. DrainedAllPublished'
  BY <1>1, DrainedKept DEF FlowInv, tracker
<1>11. SourcesOk(base)'
  BY <1>0, <1>1, SourcesKept DEF FlowInv
<1>12. ProducerOk(base)'
  <2>1. seqno > 0
    BY <1>0, <1>1 DEF OffsetsOk
  <2> QED BY <1>1, <2>1, ProducerKept DEF FlowInv
<1> QED BY <1>4, <1>5, <1>6, <1>7, <1>8, <1>9, <1>10, <1>11, <1>12 DEF FlowInv

\* A worker that fails loses what it holds, and nothing of another worker's.
LEMMA WorkerFailsFlow ==
  ASSUME NEW base \in Bases, TypeOK, FlowInv(base), NEW w \in Workers, WorkerFails(w)
  PROVE  FlowInv(base)'
<1>0. /\ base \in Nat /\ StagesOk(base) /\ OffsetsOk(base) /\ w \in DOMAIN work /\ seqno \in Nat
      /\ kept \in Nat
  BY CountsAssumption DEF Bases, TypeOK, FlowInv
<1>1. /\ UNCHANGED <<kept, runner, held, closed, ingress, queues, seqno, tracker, published, stored>>
      /\ UNCHANGED <<batch, accepted, offset, putting>>
      /\ work[w].phase \in {"publishing", "appended", "saving"}
      /\ work'[w].phase = "failed" /\ \A v \in Workers \ {w} : work'[v] = work[v]
  BY <1>0 DEF WorkerFails, external, control, producer, dispatcher, Idle
<1>2. Hand(w)' = {} /\ \A v \in Workers \ {w} : Hand(v)' = Hand(v)
  BY <1>1 DEF Hand
<1>3. \A v \in Workers : Charge(v)' = Charge(v)
  BY <1>1 DEF Charge
<1>4. /\ Mine(w)' = Charge(w) /\ Mine(w) = Hand(w) \cup Charge(w)
      /\ \A v \in Workers \ {w} : Mine(v)' = Mine(v)
  BY <1>2, <1>3 DEF Mine
<1>5. Carried' = Carried /\ Waiting' = Waiting /\ Pending' = Pending /\ Upstream' = Upstream
  BY <1>1 DEF Carried, Waiting, Pending, Upstream
<1>6. InFlight' \subseteq InFlight /\ InFlight \subseteq InFlight' \cup Hand(w)
  BY <1>4, <1>5 DEF InFlight
<1>7. TrackerOk(base)'
  BY <1>0, <1>1, TrackerKept DEF FlowInv
<1>8. OffsetsOk(base)'
  <2>1. \A v \in Workers : work'[v].phase = "saving" => work'[v] = work[v]
    BY <1>1
  <2> QED BY <1>0, <1>1, <2>1, OffsetsKept DEF OffsetsOk
<1>9. StagesOk(base)'
  <2>1. \A i \in InFlight : Numbered(base, i)' /\ nextSequence' <= i.seq /\ i \notin completed'
    BY <1>0, <1>1, FlightKept
  <2>2. Before(Carried, Waiting)' /\ Before(Carried \cup Waiting, Pending)' /\ Ascending(ingress)'
    BY <1>0, <1>1, <1>5 DEF StagesOk, Before, Ascending
  <2> QED BY <1>0, <1>1, <1>6, <2>1, <2>2 DEF StagesOk
<1>10. WorkerOk(w)'
  <2>0. WorkerOk(w)
    BY DEF FlowInv
  <2>1. Ascending(queues[w])'
    BY <1>1, <2>0 DEF WorkerOk, Ascending
  <2>2. Before(Hand(w), Charge(w))' /\ Before(Mine(w), Upstream)'
    BY <1>2, <1>3, <1>4, <1>5, <2>0 DEF WorkerOk, Before
  <2> QED BY <1>1, <1>4, <2>0, <2>1, <2>2 DEF WorkerOk
<1>11. \A v \in Workers \ {w} : WorkerOk(v)'
  BY <1>1, <1>2, <1>5, WorkerKept DEF FlowInv
<1>12. ASSUME NEW v \in Workers PROVE NothingLost(base, v)'
  <2>1. CASE v = w
    BY <1>1, <2>1 DEF NothingLost
  <2>2. CASE v # w
    <3>1. SUFFICES ASSUME work[v].phase # "failed", NEW n \in 1..seqno, WorkerFor(base + n - 1) = v,
                          ~ Processed(base, n), ~ (n = seqno /\ runner = "raised")
                   PROVE  Item(base + n - 1, n) \in InFlight'
      BY <1>1, <2>2 DEF NothingLost, Processed, tracker
    <3>2. Item(base + n - 1, n) \in InFlight
      BY <3>1 DEF FlowInv, NothingLost
    <3>3. Item(base + n - 1, n) \notin Hand(w)
      <4>1. Item(base + n - 1, n).update = base + n - 1
        BY DEF Item
      <4> QED BY <1>4, <2>2, <3>1, <4>1 DEF FlowInv, WorkerOk
    <3> QED BY <1>6, <3>2, <3>3
  <2> QED BY <2>1, <2>2
<1>13. ClosingOk'
  BY <1>1 DEF FlowInv, ClosingOk
<1>14. DrainedAllPublished'
  BY <1>1, DrainedKept DEF FlowInv, tracker
<1>15. SourcesOk(base)'
  BY <1>0, <1>1, SourcesKept DEF FlowInv
<1>16. ProducerOk(base)'
  BY <1>1, ProducerKept DEF FlowInv
<1> QED BY <1>7, <1>8, <1>9, <1>10, <1>11, <1>12, <1>13, <1>14, <1>15, <1>16 DEF FlowInv

\* What a worker publishes is numbered, and behind it nothing of its source is missing.
LEMMA AppendInOrder ==
  ASSUME NEW base \in Bases, TypeOK, FlowInv(base), NEW w \in Workers, work[w].phase = "publishing"
  PROVE  /\ work[w].item \in Hand(w) /\ work[w].item \in Items /\ work[w].item.update \in Updates
         /\ work[w].item.update >= base /\ seqno > 0
         /\ \A u \in Updates :
              u < work[w].item.update /\ Source[u] = Source[work[w].item.update] =>
                u \in published \/ u < base
<1>0. base \in Nat /\ seqno \in Nat /\ nextSequence \in Nat /\ StagesOk(base) /\ WorkerOk(w)
  BY CountsAssumption DEF Bases, TypeOK, FlowInv
<1>1. PICK x : x = work[w].item
  OBVIOUS
<1>2. x \in Hand(w) /\ x \in Mine(w) /\ x \in InFlight /\ Hand(w) = {x}
  BY <1>1 DEF Hand, Mine, InFlight
<1>3. /\ x.update = base + x.seq - 1 /\ x.seq \in Nat \ {0} /\ x.seq <= seqno /\ x.update \in Updates
      /\ x \in Items
  BY <1>0, <1>2, InFlightNumbers DEF StagesOk, Numbered
<1>4. ASSUME NEW u \in Updates, u < x.update, Source[u] = Source[x.update], ~ (u < base)
      PROVE  u \in published
  <2>1. PICK n \in Nat : n = u - base + 1
    BY <1>0, <1>3, <1>4 DEF Updates
  <2>2. n \in 1..seqno /\ n < x.seq /\ base + n - 1 = u /\ n # seqno
    BY <1>0, <1>3, <1>4, <2>1 DEF Updates
  <2>3. WorkerFor(u) = w
    BY <1>0, <1>2, <1>4 DEF WorkerOk, WorkerFor
  <2>4. Processed(base, n) \/ Item(u, n) \in InFlight
    BY <2>2, <2>3 DEF FlowInv, NothingLost
  <2>5. CASE Processed(base, n)
    <3>1. n < nextSequence \/ Item(u, n) \in completed
      BY <2>2, <2>5 DEF Processed
    <3>2. CASE n < nextSequence
      <4>1. n \in 1..(nextSequence - 1)
        BY <1>0, <2>2, <3>2
      <4> QED BY <2>2, <4>1 DEF FlowInv, TrackerOk
    <3>3. CASE Item(u, n) \in completed
      BY <3>3 DEF FlowInv, TrackerOk, Item
    <3> QED BY <3>1, <3>2, <3>3
  <2>6. CASE Item(u, n) \in InFlight
    <3>0. Item(u, n).seq = n /\ Item(u, n).update = u /\ ~ (x.seq < n) /\ n # x.seq
      BY <1>3, <2>2 DEF Item
    <3>1. Item(u, n) \notin Upstream
      BY <1>0, <1>2, <3>0 DEF WorkerOk, Before
    <3>2. PICK v \in Workers : Item(u, n) \in Mine(v)
      BY <2>6, <3>1 DEF InFlight
    <3>3. v = w
      BY <2>3, <3>0, <3>2 DEF FlowInv, WorkerOk
    <3>4. Item(u, n) \notin Hand(w)
      BY <1>2, <3>0
    <3>5. Item(u, n) \notin Charge(w)
      BY <1>0, <1>2, <3>0 DEF WorkerOk, Before
    <3> QED BY <3>2, <3>3, <3>4, <3>5 DEF Mine
  <2> QED BY <2>4, <2>5, <2>6
<1> QED BY <1>0, <1>1, <1>2, <1>3, <1>4

\* A record in the topic: the update, but for the acknowledgement.
LEMMA KafkaAppendFlow ==
  ASSUME NEW base \in Bases, TypeOK, FlowInv(base), NEW w \in Workers, KafkaAppend(w)
  PROVE  FlowInv(base)'
<1>0. /\ base \in Nat /\ StagesOk(base) /\ w \in DOMAIN work /\ seqno \in Nat /\ kept \in Nat
  BY CountsAssumption DEF Bases, TypeOK, FlowInv
<1>1. /\ UNCHANGED <<kept, runner, held, closed, ingress, queues, seqno, tracker, stored>>
      /\ UNCHANGED <<batch, accepted, offset, putting>>
      /\ work[w].phase = "publishing" /\ published' = published \cup {work[w].item.update}
      /\ work' = [work EXCEPT ![w].phase = "appended"]
  BY DEF KafkaAppend, control, producer, dispatcher
<1>2. /\ work'[w].phase = "appended" /\ work'[w].item = work[w].item
      /\ \A v \in Workers \ {w} : work'[v] = work[v]
  <2>1. work \in [Workers -> [phase : {"idle", "publishing", "appended", "saving", "failed", "exited"},
                              item : Items \cup {Nothing}, offset : 0..(UpdateCount + 1)]]
    BY DEF TypeOK
  <2> QED BY <1>1, <2>1
<1>3. \A v \in Workers : Hand(v)' = Hand(v)
  BY <1>1, <1>2 DEF Hand
<1>4. /\ Pending' = Pending /\ Waiting' = Waiting /\ Carried' = Carried
      /\ Upstream' = Upstream /\ InFlight' = InFlight
      /\ \A v \in Workers : Charge(v)' = Charge(v) /\ Mine(v)' = Mine(v)
  BY <1>1, <1>3, StagesUnchanged
<1>5. TrackerOk(base)'
  BY <1>0, <1>1, TrackerKept DEF FlowInv
<1>6. OffsetsOk(base)'
  <2>1. \A v \in Workers : work'[v].phase = "saving" => work'[v] = work[v]
    BY <1>2
  <2> QED BY <1>0, <1>1, <2>1, OffsetsKept DEF FlowInv, OffsetsOk
<1>7. StagesOk(base)'
  <2>1. \A i \in InFlight : Numbered(base, i)' /\ nextSequence' <= i.seq /\ i \notin completed'
    BY <1>0, <1>1, FlightKept
  <2>2. Before(Carried, Waiting)' /\ Before(Carried \cup Waiting, Pending)' /\ Ascending(ingress)'
    BY <1>0, <1>1, <1>4 DEF StagesOk, Before, Ascending
  <2> QED BY <1>0, <1>1, <1>4, <2>1, <2>2 DEF StagesOk
<1>8. WorkerOk(w)'
  <2>0. WorkerOk(w)
    BY DEF FlowInv
  <2>1. Ascending(queues[w])' /\ Before(Hand(w), Charge(w))' /\ Before(Mine(w), Upstream)'
    BY <1>1, <1>3, <1>4, <2>0 DEF WorkerOk, Ascending, Before
  <2> QED BY <1>1, <1>2, <1>4, <2>0, <2>1 DEF WorkerOk
<1>9. \A v \in Workers \ {w} : WorkerOk(v)'
  BY <1>1, <1>2, <1>3, <1>4, WorkerKept DEF FlowInv
<1>10. \A v \in Workers : NothingLost(base, v)'
  BY <1>0, <1>1, <1>2, <1>4, LostKept DEF FlowInv
<1>11. ClosingOk'
  BY <1>1, <1>2 DEF FlowInv, ClosingOk
<1>12. DrainedAllPublished'
  BY <1>1, DrainedKept DEF FlowInv, tracker
<1>13. SourcesOk(base)'
  <2>1. SUFFICES ASSUME NEW v \in published', NEW u \in Updates, u < v, Source[u] = Source[v],
                        u \notin published
                 PROVE  u < base \/ (seqno = 0 /\ u < kept)
    BY <1>1 DEF SourcesOk
  <2>2. CASE v \in published
    BY <2>1, <2>2 DEF FlowInv, SourcesOk
  <2>3. CASE v = work[w].item.update
    BY <1>1, <2>1, <2>3, AppendInOrder
  <2> QED BY <1>1, <2>1, <2>2, <2>3
<1>14. ProducerOk(base)'
  BY <1>1, ProducerKept DEF FlowInv
<1> QED BY <1>5, <1>6, <1>7, <1>8, <1>9, <1>10, <1>11, <1>12, <1>13, <1>14 DEF FlowInv

\* The item a worker has had acknowledged is in no other place.
LEMMA InHandOnly ==
  ASSUME NEW base \in Bases, TypeOK, FlowInv(base), NEW w \in Workers, NEW x, Hand(w) = {x},
         UNCHANGED <<putting, ingress, held, queues>>, Hand(w)' = {},
         \A v \in Workers \ {w} : Hand(v)' = Hand(v)
  PROVE  /\ InFlight' = InFlight \ {x} /\ x \in InFlight /\ Upstream' = Upstream
         /\ Waiting' = Waiting /\ Pending' = Pending /\ Carried' = Carried
         /\ Mine(w)' \subseteq Mine(w) /\ Charge(w)' = Charge(w)
<1>1. StagesOk(base) /\ WorkerOk(w)
  BY DEF FlowInv
<1>2. x \in Mine(w) /\ x \in InFlight
  BY DEF Mine, InFlight
<1>3. x.seq \in Nat
  BY <1>1, <1>2, InFlightNumbers
<1>4. Carried' = Carried /\ Waiting' = Waiting /\ Pending' = Pending /\ Upstream' = Upstream
  BY DEF Carried, Waiting, Pending, Upstream
<1>5. \A v \in Workers : Charge(v)' = Charge(v)
  BY DEF Charge
<1>6. /\ Mine(w)' = Charge(w) /\ Mine(w) = {x} \cup Charge(w)
      /\ \A v \in Workers \ {w} : Mine(v)' = Mine(v)
  BY <1>5 DEF Mine
<1>7. x \notin Upstream
  BY <1>1, <1>2, <1>3 DEF WorkerOk, Before
<1>8. x \notin Charge(w)
  BY <1>1, <1>3 DEF WorkerOk, Before
<1>9. \A v \in Workers \ {w} : x \notin Mine(v)
  BY <1>1, <1>2 DEF FlowInv, WorkerOk
<1>10. InFlight' = InFlight \ {x}
  <2>1. InFlight' \subseteq InFlight
    BY <1>4, <1>6 DEF InFlight
  <2>2. x \notin InFlight'
    BY <1>4, <1>6, <1>7, <1>8, <1>9 DEF InFlight
  <2>3. InFlight \subseteq InFlight' \cup {x}
    BY <1>4, <1>6 DEF InFlight
  <2> QED BY <2>1, <2>2, <2>3
<1> QED BY <1>2, <1>4, <1>5, <1>6, <1>10

\* What an acknowledgement by w does, given the run of k numbers it releases.
Acked(base, w, x, done, released, k) ==
  /\ Hand(w) = {x} /\ Hand(w)' = {} /\ done = completed \cup {x} /\ released \subseteq done
  /\ k \in Nat /\ nextSequence' = nextSequence + k /\ completed' = done \ released
  /\ \A i \in done : Numbered(base, i) /\ nextSequence <= i.seq /\ i.update \in published
  /\ nextSequence + k <= seqno + 1
  /\ \A n \in nextSequence..(nextSequence + k - 1) : Item(base + n - 1, n) \in released
  /\ \A i \in released : i.seq < nextSequence + k
  /\ \A i \in done \ released : nextSequence + k < i.seq
  /\ work' = [work EXCEPT ![w] = work'[w]]
  /\ work'[w] = [phase |-> work'[w].phase, item |-> Nothing, offset |-> work'[w].offset]
  /\ work'[w].phase \in {"idle", "saving"} /\ work'[w].offset \in 0..(UpdateCount + 1)
  /\ work'[w].phase = "saving" => work'[w].offset = base + nextSequence + k - 1

(***************************************************************************)
(* An acknowledgement releases what follows on: the tracker moves to the   *)
(* first number missing, and the offset to save is the number before it.   *)
(***************************************************************************)
LEMMA AckFacts ==
  ASSUME NEW base \in Bases, TypeOK, FlowInv(base), NEW w \in Workers, KafkaAck(w)
  PROVE  \E x, done, released, k : Acked(base, w, x, done, released, k)
<1>0. /\ base \in Nat /\ seqno \in Nat /\ nextSequence \in Nat \ {0} /\ nextSequence <= seqno + 1
      /\ StagesOk(base) /\ WorkerOk(w) /\ TrackerOk(base) /\ w \in DOMAIN work
  BY CountsAssumption DEF Bases, TypeOK, FlowInv, TrackerOk
<1>1. PICK x : x = work[w].item
  OBVIOUS
<1>2. PICK done : done = completed \cup {x}
  OBVIOUS
<1>3. PICK released : released = Released(done)
  OBVIOUS
<1>4. /\ nextSequence' = nextSequence + Cardinality(released) /\ completed' = done \ released
      /\ work[w].phase = "appended"
      /\ work' = [work EXCEPT ![w] =
             IF released = {} THEN Idle
             ELSE [phase |-> "saving", item |-> Nothing,
                   offset |-> Max({i.update : i \in released}) + 1]]
  BY <1>1, <1>2, <1>3 DEF KafkaAck
<1>5. Hand(w) = {x} /\ x \in Mine(w) /\ x \in InFlight
  BY <1>1, <1>4 DEF Hand, Mine, InFlight
<1>6. \A i \in done : Numbered(base, i) /\ nextSequence <= i.seq /\ i.update \in published
  <2>1. Numbered(base, x) /\ nextSequence <= x.seq /\ x.update \in published
    BY <1>0, <1>1, <1>4, <1>5 DEF StagesOk, WorkerOk
  <2>2. \A i \in completed : Numbered(base, i) /\ nextSequence <= i.seq /\ i.update \in published
    BY <1>0 DEF TrackerOk, Numbered, Items
  <2> QED BY <1>2, <2>1, <2>2
<1>7. PICK k \in Nat :
        /\ Cardinality(Released(done)) = k
        /\ nextSequence + k <= seqno + 1
        /\ \A n \in nextSequence..(nextSequence + k - 1) : Item(base + n - 1, n) \in Released(done)
        /\ \A i \in Released(done) : i.seq < nextSequence + k
        /\ \A i \in done \ Released(done) : nextSequence + k < i.seq
        /\ Released(done) # {} =>
             k > 0 /\ Max({i.update : i \in Released(done)}) = base + nextSequence + k - 2
  BY <1>0, <1>6, ReleasedFacts
<1>8. released \subseteq done
  BY <1>3 DEF Released
<1>9. CASE released = {}
  <2>1. work'[w] = Idle /\ work' = [work EXCEPT ![w] = Idle]
    BY <1>0, <1>4, <1>9
  <2>2. Hand(w)' = {} /\ work' = [work EXCEPT ![w] = work'[w]] /\ work'[w].phase = "idle"
        /\ work'[w].offset \in 0..(UpdateCount + 1)
        /\ work'[w] = [phase |-> work'[w].phase, item |-> Nothing, offset |-> work'[w].offset]
    BY <2>1, CountsAssumption DEF Hand, Idle
  <2>3. Acked(base, w, x, done, released, k)
    BY <1>2, <1>3, <1>4, <1>5, <1>6, <1>7, <1>8, <2>2 DEF Acked
  <2> QED BY <2>3
<1>10. CASE released # {}
  <2>1. PICK o : o = Max({i.update : i \in released}) + 1
    OBVIOUS
  <2>2. o = base + nextSequence + k - 1
    BY <1>0, <1>3, <1>7, <1>10, <2>1
  <2>3. o \in 0..(UpdateCount + 1)
    <3>1. nextSequence + k - 1 \in nextSequence..(nextSequence + k - 1)
      BY <1>0, <1>3, <1>7, <1>10
    <3>2. Item(base + (nextSequence + k - 1) - 1, nextSequence + k - 1) \in done
      BY <1>3, <1>7, <1>8, <3>1
    <3>3. base + (nextSequence + k - 1) - 1 \in Updates
      BY <1>6, <3>2 DEF Numbered, Items, Item
    <3> QED BY <1>0, <1>7, <2>2, <3>3, CountsAssumption DEF Updates
  <2>4. work'[w] = [phase |-> "saving", item |-> Nothing, offset |-> o]
        /\ work' = [work EXCEPT ![w] = work'[w]]
    BY <1>0, <1>4, <1>10, <2>1
  <2>5. Hand(w)' = {} /\ work'[w].phase = "saving" /\ work'[w].offset = o
        /\ work'[w] = [phase |-> work'[w].phase, item |-> Nothing, offset |-> work'[w].offset]
    BY <2>4 DEF Hand
  <2>6. Acked(base, w, x, done, released, k)
    BY <1>2, <1>3, <1>4, <1>5, <1>6, <1>7, <1>8, <2>2, <2>3, <2>4, <2>5 DEF Acked
  <2> QED BY <2>6
<1> QED BY <1>9, <1>10

\* The tracker keeps its types.
LEMMA AckType ==
  ASSUME NEW base \in Bases, TypeOK, FlowInv(base), NEW w \in Workers, KafkaAck(w)
  PROVE  TypeOK'
<1>1. PICK x, done, released, k : Acked(base, w, x, done, released, k)
  BY AckFacts
<1>2. completed' \subseteq Items
  BY <1>1 DEF Acked, Numbered
<1>3. nextSequence' \in Nat \ {0}
  BY <1>1 DEF Acked, TypeOK
<1> DEFINE Task == [phase : {"idle", "publishing", "appended", "saving", "failed", "exited"},
                    item : Items \cup {Nothing}, offset : 0..(UpdateCount + 1)]
<1>4. work' \in [Workers -> Task]
  <2>1. work'[w] \in Task /\ work' = [work EXCEPT ![w] = work'[w]]
    BY <1>1 DEF Acked
  <2>2. work \in [Workers -> Task]
    BY DEF TypeOK
  <2> HIDE DEF Task
  <2> QED BY <2>1, <2>2
<1>5. UNCHANGED <<external, stored, control, producer, dispatcher, queues>>
  BY DEF KafkaAck
<1> QED BY <1>2, <1>3, <1>4, <1>5 DEF TypeOK, external, control, producer, dispatcher

\* An acknowledgement moves an item from a worker to the tracker.
LEMMA KafkaAckFlow ==
  ASSUME NEW base \in Bases, TypeOK, FlowInv(base), NEW w \in Workers, KafkaAck(w)
  PROVE  FlowInv(base)'
<1>0. /\ base \in Nat /\ seqno \in Nat /\ nextSequence \in Nat \ {0} /\ kept \in Nat /\ stored \in Nat
      /\ StagesOk(base) /\ TrackerOk(base) /\ OffsetsOk(base) /\ w \in DOMAIN work
  BY CountsAssumption DEF Bases, TypeOK, FlowInv
<1>1. /\ UNCHANGED <<kept, runner, held, closed, ingress, queues, seqno, stored, published>>
      /\ UNCHANGED <<batch, accepted, offset, putting>> /\ runner # "drained"
  BY DEF KafkaAck, external, control, producer, dispatcher, TasksRun
<1>2. PICK x, done, released, k : Acked(base, w, x, done, released, k)
  BY AckFacts
<1>3. /\ Hand(w) = {x} /\ Hand(w)' = {} /\ done = completed \cup {x} /\ released \subseteq done
      /\ k \in Nat /\ nextSequence' = nextSequence + k /\ completed' = done \ released
      /\ \A i \in done : Numbered(base, i) /\ nextSequence <= i.seq /\ i.update \in published
      /\ nextSequence + k <= seqno + 1
      /\ \A n \in nextSequence..(nextSequence + k - 1) : Item(base + n - 1, n) \in released
      /\ \A i \in released : i.seq < nextSequence + k
      /\ \A i \in done \ released : nextSequence + k < i.seq
      /\ work'[w].phase \in {"idle", "saving"}
      /\ work'[w].phase = "saving" => work'[w].offset = base + nextSequence + k - 1
  BY <1>2 DEF Acked
<1>4. \A v \in Workers \ {w} : work'[v] = work[v] /\ Hand(v)' = Hand(v)
  <2>1. work' = [work EXCEPT ![w] = work'[w]]
    BY <1>2 DEF Acked
  <2>2. Workers = DOMAIN work
    BY DEF TypeOK
  <2>3. \A v \in Workers \ {w} : work'[v] = work[v]
    BY <2>1, <2>2
  <2> QED BY <2>3 DEF Hand
<1>5. /\ InFlight' = InFlight \ {x} /\ x \in InFlight /\ Upstream' = Upstream
      /\ Waiting' = Waiting /\ Pending' = Pending /\ Carried' = Carried
      /\ Mine(w)' \subseteq Mine(w) /\ Charge(w)' = Charge(w)
  BY <1>1, <1>3, <1>4, InHandOnly
<1>6. \A i : Numbered(base, i) => Numbered(base, i)'
  BY <1>1 DEF Numbered
<1>7. TrackerOk(base)'
  <2>1. nextSequence' <= seqno' + 1
    BY <1>1, <1>3
  <2>2. ASSUME NEW n \in 1..(nextSequence' - 1) PROVE base + n - 1 \in published'
    <3>1. CASE n < nextSequence
      <4>1. n \in 1..(nextSequence - 1)
        BY <1>0, <3>1
      <4> QED BY <1>0, <1>1, <4>1 DEF TrackerOk
    <3>2. CASE ~ (n < nextSequence)
      <4>1. n \in nextSequence..(nextSequence + k - 1)
        BY <1>0, <1>3, <2>2, <3>2
      <4>2. Item(base + n - 1, n) \in done
        BY <1>3, <4>1
      <4>3. Item(base + n - 1, n).update \in published
        BY <1>3, <4>2
      <4> QED BY <1>1, <4>3 DEF Item
    <3> QED BY <3>1, <3>2
  <2>3. \A i \in completed' : Numbered(base, i)' /\ nextSequence' < i.seq /\ i.update \in published'
    BY <1>1, <1>3, <1>6
  <2> QED BY <2>1, <2>2, <2>3 DEF TrackerOk
<1>8. OffsetsOk(base)'
  <2>1. seqno > 0
    <3>1. x.seq \in Nat \ {0} /\ x.seq <= seqno
      BY <1>0, <1>5, InFlightNumbers
    <3> QED BY <1>0, <3>1
  <2>2. stored' <= base + nextSequence' - 1
    <3>1. stored <= base + nextSequence - 1
      BY <1>0 DEF OffsetsOk
    <3> QED BY <1>0, <1>1, <1>3, <3>1
  <2>3. ASSUME NEW v \in Workers, work'[v].phase = "saving"
        PROVE  work'[v].offset <= base + nextSequence' - 1
    <3>1. CASE v = w
      BY <1>0, <1>3, <2>3, <3>1
    <3>2. CASE v # w
      <4>1. work'[v] = work[v] /\ work[v].offset <= base + nextSequence - 1
        BY <1>0, <1>4, <2>3, <3>2 DEF OffsetsOk
      <4>2. work[v].offset \in Int
        BY CountsAssumption DEF TypeOK
      <4> QED BY <1>0, <1>3, <4>1, <4>2
    <3> QED BY <3>1, <3>2
  <2> QED BY <1>0, <1>1, <2>1, <2>2, <2>3 DEF OffsetsOk
<1>9. \A i \in InFlight' : Numbered(base, i)' /\ nextSequence' <= i.seq /\ i \notin completed'
  <2> SUFFICES ASSUME NEW i \in InFlight, i # x
               PROVE  Numbered(base, i)' /\ nextSequence' <= i.seq /\ i \notin completed'
    BY <1>5
  <2>1. Numbered(base, i) /\ nextSequence <= i.seq /\ i \notin done
    BY <1>0, <1>3 DEF StagesOk
  <2>2. i.seq \in Nat /\ i = Item(base + i.seq - 1, i.seq)
    BY <1>0, InFlightNumbers
  <2>3. ~ (i.seq < nextSequence + k)
    <3> SUFFICES ASSUME i.seq < nextSequence + k PROVE FALSE
      OBVIOUS
    <3>1. i.seq \in nextSequence..(nextSequence + k - 1)
      BY <1>0, <1>3, <2>1, <2>2
    <3> QED BY <1>3, <2>1, <2>2, <3>1
  <2> QED BY <1>0, <1>3, <1>6, <2>1, <2>2, <2>3
<1>10. StagesOk(base)'
  <2>1. Before(Carried, Waiting)' /\ Before(Carried \cup Waiting, Pending)' /\ Ascending(ingress)'
    BY <1>0, <1>1, <1>5 DEF StagesOk, Before, Ascending
  <2> QED BY <1>0, <1>1, <1>9, <2>1 DEF StagesOk
<1>11. WorkerOk(w)'
  <2>0. WorkerOk(w)
    BY DEF FlowInv
  <2>1. Ascending(queues[w])'
    BY <1>1, <2>0 DEF WorkerOk, Ascending
  <2>2. Before(Hand(w), Charge(w))' /\ Before(Mine(w), Upstream)'
    BY <1>3, <1>5, <2>0 DEF WorkerOk, Before
  <2> QED BY <1>3, <1>5, <2>0, <2>1, <2>2 DEF WorkerOk
<1>12. \A v \in Workers \ {w} : WorkerOk(v)'
  BY <1>1, <1>4, <1>5, WorkerKept DEF FlowInv
<1>13. ASSUME NEW v \in Workers PROVE NothingLost(base, v)'
  <2>1. SUFFICES ASSUME work[v].phase # "failed", NEW n \in 1..seqno, WorkerFor(base + n - 1) = v,
                        ~ (n = seqno /\ runner = "raised")
                 PROVE  Processed(base, n)' \/ Item(base + n - 1, n) \in InFlight'
    <3>1. work'[v].phase # "failed" => work[v].phase # "failed"
      <4>1. work[w].phase # "failed"
        BY DEF KafkaAck
      <4> QED BY <1>4, <4>1
    <3> QED BY <1>1, <3>1 DEF NothingLost
  <2>2. \A i \in done : i.seq < nextSequence' \/ i \in completed'
    BY <1>3
  <2>3. n < nextSequence \/ Item(base + n - 1, n) \in completed \/ Item(base + n - 1, n) \in InFlight
    BY <2>1 DEF FlowInv, NothingLost, Processed
  <2>4. CASE n < nextSequence
    <3>1. n < nextSequence'
      BY <1>0, <1>3, <2>4
    <3> QED BY <3>1 DEF Processed
  <2>5. CASE Item(base + n - 1, n) \in done
    <3>1. Item(base + n - 1, n).seq = n
      BY DEF Item
    <3> QED BY <2>2, <2>5, <3>1 DEF Processed
  <2> QED BY <1>3, <1>5, <2>3, <2>4, <2>5
<1>14. ClosingOk'
  <2>1. \A v \in Workers : work'[v].phase = "exited" => work[v].phase = "exited"
    BY <1>3, <1>4
  <2> QED BY <1>1, <2>1 DEF FlowInv, ClosingOk
<1>15. DrainedAllPublished'
  BY <1>1 DEF DrainedAllPublished
<1>16. SourcesOk(base)'
  BY <1>0, <1>1, SourcesKept DEF FlowInv
<1>17. ProducerOk(base)'
  BY <1>1, ProducerKept DEF FlowInv
<1> QED BY <1>7, <1>8, <1>10, <1>11, <1>12, <1>13, <1>14, <1>15, <1>16, <1>17 DEF FlowInv

(***************************************************************************)
(* When the queues are drained and every worker has exited, an accepted    *)
(* update has nowhere to be but published, and a completed one nothing to  *)
(* wait for.                                                               *)
(***************************************************************************)
LEMMA DrainDoneFlow ==
  ASSUME NEW base \in Bases, TypeOK, FlowInv(base), DrainDone
  PROVE  FlowInv(base)'
<1>0. /\ base \in Nat /\ seqno \in Nat /\ nextSequence \in Nat \ {0} /\ nextSequence <= seqno + 1
      /\ StagesOk(base) /\ TrackerOk(base) /\ OffsetsOk(base) /\ ProducerOk(base) /\ kept \in Nat
  BY CountsAssumption DEF Bases, TypeOK, FlowInv, TrackerOk
<1>1. /\ UNCHANGED <<putting, ingress, held, closed, queues, work, seqno, tracker, stored, published>>
      /\ UNCHANGED <<kept, accepted>>
      /\ runner = "draining" /\ runner' = "drained"
      /\ \A w \in Workers : work[w].phase = "exited"
  BY DEF DrainDone, QueuesDrained, external, producer, dispatcher
<1>2. /\ TrackerOk(base)' /\ OffsetsOk(base)' /\ StagesOk(base)'
      /\ \A w \in Workers : WorkerOk(w)' /\ NothingLost(base, w)'
      /\ ClosingOk'
  BY <1>0, <1>1, FlowUnmoved
<1>3. SourcesOk(base)'
  BY <1>0, <1>1, SourcesKept DEF FlowInv
<1>4. ProducerOk(base)'
  <2>1. \A u \in accepted' : base <= u /\ u < base + seqno' /\ u # putting'.update
    BY <1>0, <1>1 DEF ProducerOk
  <2> QED BY <1>1, <2>1 DEF ProducerOk
<1>5. InFlight \subseteq Pending
  <2>1. \A w \in Workers : work[w].phase = "exited" /\ queues[w] = <<>>
    BY <1>1 DEF FlowInv, ClosingOk
  <2>2. \A w \in Workers : Mine(w) = {}
    BY <2>1 DEF Mine, Hand, Charge, ToSet
  <2>3. Carried = {} /\ Waiting = {}
    BY DEF DrainDone, QueuesDrained, Carried, Waiting, ToSet
  <2> QED BY <2>2, <2>3 DEF InFlight, Upstream
<1>6. ASSUME NEW n \in 1..seqno, base + n - 1 \in Updates,
             ~ (n = seqno /\ putting = Item(base + n - 1, n))
      PROVE  Processed(base, n)
  <2>1. WorkerFor(base + n - 1) \in Workers
    BY <1>6, WorkerForType
  <2>2. Processed(base, n) \/ Item(base + n - 1, n) \in InFlight
    BY <1>1, <1>6, <2>1 DEF FlowInv, NothingLost
  <2>3. ASSUME Item(base + n - 1, n) \in InFlight
        PROVE  FALSE
    <3>1. Item(base + n - 1, n) = putting /\ putting # Nothing
      BY <1>5, <1>6, <2>3 DEF Pending
    <3>2. n = seqno
      BY <1>0, <3>1 DEF StagesOk, Item
    <3> QED BY <1>6, <3>1, <3>2
  <2> QED BY <2>2, <2>3
<1>7. DrainedAllPublished'
  <2>1. SUFFICES accepted \subseteq published /\ completed = {}
    BY <1>1 DEF DrainedAllPublished, tracker
  <2>2. ASSUME NEW u \in accepted PROVE u \in published
    <3>1. u \in Updates /\ u \in Nat /\ base <= u /\ u < base + seqno /\ u # putting.update
      BY <1>0 DEF TypeOK, Updates, ProducerOk
    <3>2. PICK n \in 1..seqno : u = base + n - 1
      <4>1. u - base + 1 \in 1..seqno /\ u = base + (u - base + 1) - 1
        BY <1>0, <3>1
      <4> QED BY <4>1
    <3>3. putting # Item(base + n - 1, n)
      BY <3>1, <3>2 DEF Item
    <3>4. n < nextSequence \/ Item(u, n) \in completed
      BY <1>6, <3>1, <3>2, <3>3 DEF Processed
    <3>5. CASE n < nextSequence
      <4>1. n \in 1..(nextSequence - 1)
        BY <1>0, <3>5
      <4> QED BY <1>0, <3>2, <4>1 DEF TrackerOk
    <3>6. CASE Item(u, n) \in completed
      BY <1>0, <3>6 DEF TrackerOk, Item
    <3> QED BY <3>4, <3>5, <3>6
  <2>3. ASSUME NEW i \in completed PROVE FALSE
    <3>1. /\ i.seq \in Nat /\ nextSequence < i.seq /\ i.seq <= seqno
          /\ i.update = base + i.seq - 1 /\ i.update \in Updates
      BY <1>0, <2>3 DEF TrackerOk, Numbered, Items
    <3>2. PICK n \in 1..seqno : n = nextSequence /\ n # seqno
      BY <1>0, <3>1
    <3>3. base > 0
      BY <1>0, <3>1 DEF OffsetsOk
    <3>4. base + n - 1 \in Updates
      <4>1. n \in Int /\ n > 0 /\ n < i.seq
        BY <1>0, <3>1, <3>2
      <4>2. base + i.seq - 1 \in 1..UpdateCount
        BY <3>1 DEF Updates
      <4>3. base + n - 1 \in 1..UpdateCount
        BY <1>0, <3>1, <3>3, <4>1, <4>2, CountsAssumption
      <4> QED BY <4>3 DEF Updates
    <3>5. n < nextSequence \/ Item(base + n - 1, n) \in completed
      BY <1>6, <3>2, <3>4 DEF Processed
    <3>6. Item(base + n - 1, n) \in completed
      BY <1>0, <3>2, <3>5
    <3>7. nextSequence < Item(base + n - 1, n).seq
      BY <1>0, <3>6 DEF TrackerOk
    <3> QED BY <1>0, <3>2, <3>7 DEF Item
  <2> QED BY <2>2, <2>3
<1> QED BY <1>2, <1>3, <1>4, <1>7 DEF FlowInv

-----------------------------------------------------------------------------
(* The theorems.                                                           *)

\* The process starts for the first time with nothing in its memory.
LEMMA InitInv == Init => PollerInv
<1> SUFFICES ASSUME Init PROVE PollerInv
  OBVIOUS
<1>1. TypeOK
  <2>1. /\ queues \in [Workers -> Seq(QueueItems)]
        /\ \A w \in Workers : Len(queues[w]) <= WorkerQueueMax
    <3>1. \A w \in Workers : queues[w] = <<>> /\ Len(queues[w]) = 0
      BY DEF Init
    <3> QED BY <3>1, WorkerQueueMaxType DEF Init
  <2>2. work \in [Workers -> [phase : {"idle", "publishing", "appended", "saving", "failed", "exited"},
                              item : Items \cup {Nothing}, offset : 0..(UpdateCount + 1)]]
    BY CountsAssumption DEF Init, Idle
  <2>3. stopStarted \in BOOLEAN /\ shutdown \in BOOLEAN /\ noticed \in BOOLEAN
    BY Zenon DEF Init
  <2>4. ingress \in Seq(QueueItems) /\ Len(ingress) <= QueueMax
        /\ batch \in Seq(Updates) /\ Len(batch) <= PollLimit
    BY CountsAssumption DEF Init
  <2> QED BY <2>1, <2>2, <2>3, <2>4, CountsAssumption DEF Init, TypeOK
<1>2. /\ kept = 1 /\ published = {} /\ stored = 0 /\ runner = "down" /\ batch = <<>> /\ seqno = 0
      /\ putting = Nothing /\ accepted = {} /\ ingress = <<>> /\ held = Nothing /\ closed = 0
      /\ nextSequence = 1 /\ completed = {}
      /\ \A w \in Workers : queues[w] = <<>> /\ work[w].phase = "idle"
  BY DEF Init, Idle
<1>3. Pending = {} /\ Waiting = {} /\ Carried = {} /\ \A w \in Workers : Mine(w) = {} /\ Hand(w) = {}
  BY <1>2 DEF Pending, Waiting, Carried, Mine, Hand, Charge, ToSet
<1>4. InFlight = {} /\ Upstream = {}
  BY <1>3 DEF InFlight, Upstream
<1>5. TrackerOk(0) /\ SourcesOk(0) /\ ProducerOk(0)
  BY <1>2 DEF TrackerOk, SourcesOk, ProducerOk
<1>6. OffsetsOk(0)
  BY <1>2, CountsAssumption DEF OffsetsOk, Updates
<1>7. StagesOk(0)
  BY <1>2, <1>3, <1>4 DEF StagesOk, Before, Ascending
<1>8. \A w \in Workers : WorkerOk(w) /\ NothingLost(0, w)
  BY <1>2, <1>3, <1>4 DEF WorkerOk, NothingLost, Before, Ascending
<1>9. ClosingOk
  <2>1. \A w \in Workers : Close \notin ToSet(queues[w])
    BY <1>2 DEF ToSet
  <2> QED BY <1>2, <2>1 DEF ClosingOk
<1>10. DrainedAllPublished
  BY <1>2 DEF DrainedAllPublished
<1>11. FlowInv(0)
  BY <1>5, <1>6, <1>7, <1>8, <1>9, <1>10 DEF FlowInv
<1>12. 0 \in Bases
  BY CountsAssumption DEF Bases
<1> QED BY <1>1, <1>11, <1>12 DEF PollerInv

\* Every step keeps the types.
LEMMA StepType ==
  ASSUME NEW base \in Bases, TypeOK, FlowInv(base), Next
  PROVE  TypeOK'
<1>1. CASE Boot \/ Started \/ Exit \/ Crash \/ Signal \/ SignalCancel \/ DrainTimeout
  BY <1>1, ControlType
<1>2. CASE Poll
  BY <1>2, PollType
<1>3. CASE PollFails \/ Producer \/ OrphanPut \/ Monitor
  BY <1>3, ProducerType DEF PollFails, Producer, FailFast
<1>4. CASE Drain \/ Dispatcher
  BY <1>4, DispatchType DEF Drain, Dispatcher
<1>5. ASSUME NEW w \in Workers, Worker(w) \/ WorkerFails(w)
      PROVE  TypeOK'
  <2>1. work[w].phase = "publishing" => work[w].item \in Items
    BY AppendInOrder
  <2>2. CASE KafkaAck(w)
    BY <2>2, AckType
  <2> QED BY <1>5, <2>1, <2>2, WorkerType DEF Worker
<1> QED BY <1>1, <1>2, <1>3, <1>4, <1>5 DEF Next

\* Every step keeps the numbers where the invariant says they are.
LEMMA StepFlow ==
  ASSUME NEW base \in Bases, TypeOK, FlowInv(base), Next
  PROVE  \E new \in Bases : FlowInv(new)'
<1>1. CASE \/ Boot \/ Started \/ Signal \/ SignalCancel \/ DrainTimeout
           \/ PollFails \/ Monitor \/ StopProducing
  BY <1>1, ControlFlow
<1>2. CASE Exit \/ Crash
  BY <1>2, DownFlow
<1>3. CASE Poll
  BY <1>3, PollFlow
<1>4. CASE BeginPut
  BY <1>4, BeginPutFlow
<1>5. CASE CompletePut \/ OrphanPut
  BY <1>5, PutFlow
<1>6. CASE FailFast
  BY <1>6, RaiseFlow DEF FailFast
<1>7. CASE Drain
  BY <1>7, DrainCloseFlow, DrainDoneFlow DEF Drain
<1>8. CASE Dispatcher
  BY <1>8, DispatchTakeFlow, DispatchPutFlow, CloseQueueFlow DEF Dispatcher
<1>9. ASSUME NEW w \in Workers, Worker(w) \/ WorkerFails(w)
      PROVE  \E new \in Bases : FlowInv(new)'
  BY <1>9, WorkerTakeFlow, KafkaAppendFlow, KafkaAckFlow, SaveOffsetFlow, WorkerFailsFlow DEF Worker
<1> QED BY <1>1, <1>2, <1>3, <1>4, <1>5, <1>6, <1>7, <1>8, <1>9 DEF Next, Producer

\* A step that changes nothing changes no part of the invariant.
LEMMA StutterInv ==
  ASSUME PollerInv, UNCHANGED vars
  PROVE  PollerInv'
<1>0. /\ UNCHANGED <<kept, published, stored, starts, runner, stopStarted, shutdown, cancels, noticed>>
      /\ UNCHANGED <<offset, batch, seqno, putting, accepted, ingress, held, closed, queues, work>>
      /\ UNCHANGED <<nextSequence, completed>>
  BY DEF vars, external, control, producer, dispatcher, tracker
<1>1. TypeOK'
  BY <1>0 DEF PollerInv, TypeOK
<1>2. PICK base \in Bases : FlowInv(base)
  BY DEF PollerInv
<1>3. base \in Nat /\ kept' \in Nat /\ kept <= kept'
  BY <1>0, CountsAssumption DEF Bases, PollerInv, TypeOK
<1>4. /\ TrackerOk(base)' /\ OffsetsOk(base)' /\ StagesOk(base)'
      /\ \A w \in Workers : WorkerOk(w)' /\ NothingLost(base, w)'
      /\ ClosingOk'
  BY <1>0, <1>2, <1>3, FlowUnmoved DEF PollerInv, tracker
<1>5. SourcesOk(base)'
  BY <1>0, <1>2, <1>3, SourcesKept DEF FlowInv, PollerInv
<1>6. ProducerOk(base)'
  BY <1>0, <1>2, ProducerKept DEF FlowInv
<1>7. DrainedAllPublished'
  BY <1>0, <1>2, DrainedKept DEF FlowInv
<1> QED BY <1>1, <1>2, <1>4, <1>5, <1>6, <1>7 DEF FlowInv, PollerInv

\* At every moment of every start each number is in its place.
THEOREM PollerIsSound == Spec => []PollerInv
<1>1. PollerInv /\ [Next]_vars => PollerInv'
  BY StepType, StepFlow, StutterInv DEF PollerInv
<1> QED BY <1>1, InitInv, PTL DEF Spec

\* No queue passes its bound, and every variable keeps its type.
THEOREM TypesKept == Spec => []TypeOK
<1>1. PollerInv => TypeOK
  BY DEF PollerInv
<1> QED BY <1>1, PollerIsSound, PTL

(***************************************************************************)
(* The state file covers no update that could still be published, however  *)
(* many workers finish, fail or write their offsets in whatever order.     *)
(***************************************************************************)
THEOREM RestartSkipsNothing == Spec => []OffsetCoversPublished
<1>1. PollerInv => OffsetCoversPublished
  BY StoredIsSafe DEF PollerInv
<1> QED BY <1>1, PollerIsSound, PTL

\* A shutdown that ends normally has published what it accepted.
THEOREM DrainPublishesAll == Spec => []DrainedAllPublished
<1>1. PollerInv => DrainedAllPublished
  BY DEF PollerInv, FlowInv
<1> QED BY <1>1, PollerIsSound, PTL

\* Only a worker's record makes an update published.
LEMMA OnlyAppendPublishes ==
  ASSUME Next, published' # published
  PROVE  \E w \in Workers : KafkaAppend(w)
<1>1. CASE Boot \/ Started \/ Exit \/ Crash \/ Signal \/ SignalCancel \/ DrainTimeout
  BY <1>1 DEF Boot, Started, Exit, Crash, Signal, SignalCancel, DrainTimeout, CancelRunner, external
<1>2. CASE Poll \/ PollFails \/ Producer \/ OrphanPut \/ Monitor
  BY <1>2 DEF Poll, PollFails, Producer, BeginPut, CompletePut, FailFast, Raise, StopProducing,
              OrphanPut, Monitor, external
<1>3. CASE Drain \/ Dispatcher
  BY <1>3 DEF Drain, DrainClose, DrainDone, Dispatcher, DispatchTake, DispatchPut, CloseQueue, external
<1>4. ASSUME NEW w \in Workers, Worker(w) \/ WorkerFails(w)
      PROVE  KafkaAppend(w)
  BY <1>4 DEF Worker, WorkerTake, KafkaAck, SaveOffset, WorkerFails, external
<1> QED BY <1>1, <1>2, <1>3, <1>4 DEF Next

(***************************************************************************)
(* The updates of one chat or user reach the topic for the first time in   *)
(* the order Telegram sent them, over any number of failures and restarts. *)
(***************************************************************************)
THEOREM SourcesInOrder == Spec => SourceOrder
<1> DEFINE InOrder == \A u \in published' \ published, v \in published :
                        Source[v] = Source[u] => v < u
<1>1. ASSUME PollerInv, Next
      PROVE  InOrder
  <2>1. SUFFICES ASSUME NEW u \in published' \ published, NEW v \in published, Source[v] = Source[u],
                        ~ (v < u)
                 PROVE  FALSE
    OBVIOUS
  <2>2. PICK base \in Bases : FlowInv(base)
    BY <1>1 DEF PollerInv
  <2>3. PICK w \in Workers : KafkaAppend(w)
    BY <1>1, <2>1, OnlyAppendPublishes
  <2>4. u = work[w].item.update /\ work[w].phase = "publishing"
    BY <2>1, <2>3 DEF KafkaAppend
  <2>5. u \in Updates /\ u >= base /\ seqno > 0
    BY <1>1, <2>2, <2>4, AppendInOrder DEF PollerInv
  <2>6. v \in Updates /\ u < v
    BY <1>1, <2>1, <2>5 DEF PollerInv, TypeOK, Updates
  <2>7. u < base \/ seqno = 0
    BY <2>1, <2>2, <2>5, <2>6 DEF FlowInv, SourcesOk
  <2>8. base \in Nat /\ seqno \in Nat /\ u \in Nat
    BY <1>1, <2>5, CountsAssumption DEF Bases, PollerInv, TypeOK, Updates
  <2> QED BY <2>5, <2>7, <2>8
<1>2. PollerInv /\ [Next]_vars => [InOrder]_vars
  BY <1>1
<1> QED BY <1>2, PollerIsSound, PTL DEF Spec, SourceOrder

-----------------------------------------------------------------------------
(***************************************************************************)
(* The poller keeps the ledger of DeliveryLedger, for any number of        *)
(* updates, workers, queue sizes, restarts and failures.                   *)
(*                                                                         *)
(* Most steps move an update between places of the memory, or drop it: to  *)
(* the ledger they are Discard.  A record in the topic is Deliver.  A poll *)
(* is Fetch, and PollerInv says why: the offset it confirms ends what the   *)
(* start has accepted, or is the stored one.                               *)
(***************************************************************************)

Taken == accepted \cup {u \in Updates : InMemory(u)}

\* The ledger sees that updates were dropped, or nothing.
Drops == UNCHANGED external /\ Taken' \subseteq Taken

\* No update has the number 0 of the sentinel and of no item.
LEMMA SentinelIsNoUpdate ==
  /\ Close.update \notin Updates /\ Nothing.update \notin Updates
  /\ ToSet(<<>>) = {} /\ 0 \notin Updates
  BY DEF Close, Nothing, Item, Updates, ToSet

\* What the process did not have in memory before, it has not taken after.
LEMMA DropsIf ==
  ASSUME UNCHANGED external, accepted' \subseteq Taken,
         \A u \in Updates : InMemory(u)' => InMemory(u)
  PROVE  Drops
  BY DEF Drops, Taken

\* Starting, stopping and failing take nothing.
LEMMA ControlDrops ==
  ASSUME TypeOK,
         \/ Boot \/ Started \/ Signal \/ SignalCancel \/ DrainTimeout
         \/ PollFails \/ FailFast \/ Monitor \/ StopProducing
  PROVE  Drops
<1>1. /\ UNCHANGED external /\ UNCHANGED <<accepted, ingress, held, queues, work>>
      /\ batch' \in {batch, <<>>} /\ putting' \in {putting, Nothing}
  <2>1. CASE Boot \/ Started
    BY <2>1 DEF Boot, Started, external, Memory, dispatcher
  <2>2. CASE Signal
    BY <2>2 DEF Signal, external, Memory, dispatcher
  <2>3. ASSUME NEW by, CancelRunner(by)
        PROVE  /\ UNCHANGED external /\ UNCHANGED <<accepted, ingress, held, queues, work>>
               /\ batch' \in {batch, <<>>} /\ putting' \in {putting, Nothing}
    BY <2>3 DEF CancelRunner, external, dispatcher
  <2>4. CASE PollFails \/ FailFast
    BY <2>4 DEF PollFails, FailFast, Raise, external, dispatcher
  <2>5. CASE Monitor
    BY <2>5 DEF Monitor, external, producer, dispatcher
  <2>6. CASE StopProducing
    BY <2>6 DEF StopProducing, external, dispatcher
  <2> QED BY <2>1, <2>2, <2>3, <2>4, <2>5, <2>6 DEF SignalCancel, DrainTimeout
<1>2. ASSUME NEW u \in Updates, InMemory(u)' PROVE InMemory(u)
  BY <1>1, <1>2, SentinelIsNoUpdate DEF InMemory
<1> QED BY <1>1, <1>2, DropsIf DEF Taken

\* The end of the process drops all it has.
LEMMA DownDrops ==
  ASSUME Exit \/ Crash
  PROVE  Drops
<1>1. UNCHANGED external /\ Down
  BY DEF Exit, Crash
<1>2. ASSUME NEW u \in Updates, InMemory(u)' PROVE FALSE
  <2>1. /\ batch' = <<>> /\ putting' = Nothing /\ held' = Nothing /\ ingress' = <<>>
        /\ \A w \in Workers : queues'[w] = <<>> /\ work'[w].phase = "idle"
    BY <1>1 DEF Down, Idle
  <2> QED BY <1>2, <2>1, SentinelIsNoUpdate DEF InMemory
<1>3. accepted' = {}
  BY <1>1 DEF Down
<1> QED BY <1>1, <1>2, <1>3, DropsIf

\* Enqueueing moves an update from the batch to the queue.
LEMMA PutDrops ==
  ASSUME TypeOK, BeginPut \/ CompletePut \/ OrphanPut \/ DrainClose
  PROVE  Drops
<1>1. CASE BeginPut
  <2>1. /\ UNCHANGED external /\ UNCHANGED <<accepted, ingress, held, queues, work>>
        /\ batch \in Seq(Updates) /\ batch # <<>> /\ batch' = Tail(batch) /\ putting'.update = Head(batch)
    BY <1>1 DEF BeginPut, dispatcher, TypeOK, Item
  <2>2. ToSet(batch) = {Head(batch)} \cup ToSet(Tail(batch))
    BY <2>1, TakeFacts
  <2>3. ToSet(batch') \subseteq ToSet(batch) /\ putting'.update \in ToSet(batch)
    BY <2>1, <2>2 DEF ToSet
  <2>4. ASSUME NEW u \in Updates, InMemory(u)' PROVE InMemory(u)
    BY <2>1, <2>3, <2>4 DEF InMemory
  <2> QED BY <2>1, <2>4, DropsIf DEF Taken
<1>2. ASSUME NEW x \in QueueItems, ingress' = Append(ingress, x),
             (x = putting /\ putting' = Nothing) \/ (x = Close /\ putting' = putting),
             UNCHANGED <<external, batch, held, queues, work>>, accepted' \subseteq Taken
      PROVE  Drops
  <2>1. ToSet(ingress') = ToSet(ingress) \cup {x}
    <3>1. ToSet(Append(ingress, x)) = ToSet(ingress) \cup {x}
      BY PutFacts DEF TypeOK
    <3> QED BY <1>2, <3>1 DEF ToSet
  <2>2. ASSUME NEW u \in Updates, InMemory(u)' PROVE InMemory(u)
    BY <1>2, <2>1, <2>2, SentinelIsNoUpdate DEF InMemory
  <2> QED BY <1>2, <2>2, DropsIf
<1>3. CASE CompletePut \/ OrphanPut
  <2>1. putting \in QueueItems /\ putting.update \in Updates
    BY <1>3 DEF TypeOK, CompletePut, OrphanPut, QueueItems, Items
  <2>2. /\ accepted' \subseteq accepted \cup {putting.update}
        /\ ingress' = Append(ingress, putting) /\ putting' = Nothing
        /\ UNCHANGED <<external, batch, held, queues, work>>
    BY <1>3 DEF CompletePut, OrphanPut
  <2>3. accepted' \subseteq Taken
    BY <2>1, <2>2 DEF Taken, InMemory
  <2> QED BY <1>2, <2>1, <2>2, <2>3
<1>4. CASE DrainClose
  <2>1. /\ UNCHANGED <<external, batch, putting, held, queues, work, accepted>>
        /\ ingress' = Append(ingress, Close)
    BY <1>4 DEF DrainClose, producer
  <2>2. Close \in QueueItems /\ accepted' \subseteq Taken
    BY <2>1 DEF QueueItems, Taken
  <2> QED BY <1>2, <2>1, <2>2
<1> QED BY <1>1, <1>3, <1>4

\* The dispatcher moves what was taken.
LEMMA DispatchDrops ==
  ASSUME TypeOK, DispatchTake \/ DispatchPut \/ CloseQueue \/ DrainDone
  PROVE  Drops
<1>1. CASE DispatchTake
  <2>1. /\ UNCHANGED <<external, batch, putting, queues, work, accepted>>
        /\ held' = Head(ingress) /\ ingress' = Tail(ingress) /\ ingress # <<>>
    BY <1>1 DEF DispatchTake, producer
  <2>2. ToSet(ingress) = {Head(ingress)} \cup ToSet(Tail(ingress))
    BY <2>1, TakeFacts DEF TypeOK
  <2>3. ToSet(ingress') \subseteq ToSet(ingress) /\ held' \in ToSet(ingress)
    BY <2>1, <2>2 DEF ToSet
  <2>4. ASSUME NEW u \in Updates, InMemory(u)' PROVE InMemory(u)
    BY <2>1, <2>3, <2>4 DEF InMemory
  <2> QED BY <2>1, <2>4, DropsIf DEF Taken
<1>2. ASSUME NEW w \in Workers, NEW x \in QueueItems, queues' = [queues EXCEPT ![w] = Append(@, x)],
             UNCHANGED <<external, batch, putting, ingress, work, accepted>>,
             x = held, held' \in {held, Nothing}
      PROVE  Drops
  <2>1. queues \in [Workers -> Seq(QueueItems)] /\ queues[w] \in Seq(QueueItems)
    BY DEF TypeOK
  <2>2. queues'[w] = Append(queues[w], x) /\ \A v \in Workers \ {w} : queues'[v] = queues[v]
    BY <1>2, <2>1
  <2>3. ToSet(Append(queues[w], x)) = ToSet(queues[w]) \cup {x}
    BY <2>1, PutFacts
  <2>4. ASSUME NEW v \in Workers PROVE ToSet(queues'[v]) \subseteq ToSet(queues[v]) \cup {x}
    <3>1. CASE v = w
      BY <2>2, <2>3, <3>1
    <3>2. CASE v # w
      <4>1. queues'[v] = queues[v]
        BY <2>2, <3>2
      <4> QED BY <4>1
    <3> QED BY <3>1, <3>2
  <2>5. ASSUME NEW u \in Updates, InMemory(u)' PROVE InMemory(u)
    BY <1>2, <2>4, <2>5, SentinelIsNoUpdate DEF InMemory
  <2> QED BY <1>2, <2>5, DropsIf DEF Taken
<1>3. CASE DispatchPut
  <2>1. held \in QueueItems /\ held.update \in Updates
    BY <1>3 DEF TypeOK, DispatchPut, QueueItems, Items
  <2>2. WorkerFor(held.update) \in Workers
    BY <2>1, WorkerForType
  <2> QED BY <1>2, <1>3, <2>1, <2>2 DEF DispatchPut, producer
<1>4. CASE CloseQueue
  <2>1. closed + 1 \in Workers /\ held \in QueueItems
    BY <1>4, CountsAssumption DEF TypeOK, CloseQueue, Workers, QueueItems
  <2> QED BY <1>2, <1>4, <2>1 DEF CloseQueue, producer
<1>5. CASE DrainDone
  <2>1. UNCHANGED <<external, batch, putting, ingress, held, queues, work, accepted>>
    BY <1>5 DEF DrainDone, producer, dispatcher
  <2>2. ASSUME NEW u \in Updates, InMemory(u)' PROVE InMemory(u)
    BY <2>1, <2>2 DEF InMemory
  <2> QED BY <2>1, <2>2, DropsIf DEF Taken
<1> QED BY <1>1, <1>3, <1>4, <1>5

\* A worker takes what is in its queue, and ends or fails with it.
LEMMA WorkerDrops ==
  ASSUME NEW base \in Bases, TypeOK, FlowInv(base), NEW w \in Workers,
         WorkerTake(w) \/ KafkaAck(w) \/ SaveOffset(w) \/ WorkerFails(w)
  PROVE  Drops
<1>0. w \in DOMAIN work /\ queues \in [Workers -> Seq(QueueItems)] /\ queues[w] \in Seq(QueueItems)
  BY DEF TypeOK
<1>1. CASE WorkerTake(w)
  <2>1. /\ UNCHANGED <<external, batch, putting, ingress, held, accepted>> /\ queues[w] # <<>>
        /\ queues'[w] = Tail(queues[w]) /\ \A v \in Workers \ {w} : queues'[v] = queues[v]
        /\ work'[w].phase = "publishing" => work'[w].item = Head(queues[w])
        /\ \A v \in Workers \ {w} : work'[v] = work[v]
    BY <1>0, <1>1 DEF WorkerTake, producer, dispatcher, Idle
  <2>2. ToSet(queues[w]) = {Head(queues[w])} \cup ToSet(Tail(queues[w]))
    BY <1>0, <2>1, TakeFacts
  <2>3. ASSUME NEW v \in Workers
        PROVE  /\ ToSet(queues'[v]) \subseteq ToSet(queues[v])
               /\ work'[v].phase = "publishing" =>
                    work'[v].item \in ToSet(queues[v]) \/ work'[v] = work[v]
    <3>1. CASE v = w
      BY <2>1, <2>2, <3>1
    <3>2. CASE v # w
      <4>1. queues'[v] = queues[v] /\ work'[v] = work[v]
        BY <2>1, <3>2
      <4> QED BY <4>1
    <3> QED BY <3>1, <3>2
  <2>4. ASSUME NEW u \in Updates, InMemory(u)' PROVE InMemory(u)
    BY <2>1, <2>3, <2>4 DEF InMemory
  <2> QED BY <2>1, <2>4, DropsIf DEF Taken
<1>2. CASE KafkaAck(w) \/ SaveOffset(w) \/ WorkerFails(w)
  <2>1. /\ UNCHANGED <<external, batch, putting, ingress, held, queues, accepted>>
        /\ work'[w].phase # "publishing" /\ \A v \in Workers \ {w} : work'[v] = work[v]
    <3>1. CASE KafkaAck(w)
      <4>1. UNCHANGED <<external, stored, control, producer, dispatcher, queues>>
        BY <3>1 DEF KafkaAck
      <4>2. PICK x, done, released, k : Acked(base, w, x, done, released, k)
        BY <3>1, AckFacts
      <4>3. work' = [work EXCEPT ![w] = work'[w]] /\ work'[w].phase # "publishing"
        BY <4>2 DEF Acked
      <4>4. \A v \in Workers \ {w} : work'[v] = work[v]
        BY <1>0, <4>3 DEF TypeOK
      <4> QED BY <4>1, <4>3, <4>4 DEF producer, dispatcher
    <3>2. CASE SaveOffset(w)
      BY <1>0, <3>2 DEF SaveOffset, producer, dispatcher, Idle
    <3>3. CASE WorkerFails(w)
      BY <1>0, <3>3 DEF WorkerFails, producer, dispatcher, Idle
    <3> QED BY <1>2, <3>1, <3>2, <3>3
  <2>2. \A v \in Workers : work'[v].phase = "publishing" => work'[v] = work[v]
    BY <2>1
  <2>3. ASSUME NEW u \in Updates, InMemory(u)' PROVE InMemory(u)
    BY <2>1, <2>2, <2>3 DEF InMemory
  <2> QED BY <2>1, <2>3, DropsIf DEF Taken
<1> QED BY <1>1, <1>2

\* A published update may stay taken, if the batch holds it again.
LEMMA AppendDelivers ==
  ASSUME NEW base \in Bases, TypeOK, FlowInv(base), NEW w \in Workers, KafkaAppend(w)
  PROVE  Ledger!Deliver
<1>1. PICK u : u = work[w].item.update
  OBVIOUS
<1>2. /\ u \in Updates /\ work[w].phase = "publishing" /\ published' = published \cup {u}
      /\ UNCHANGED <<kept, batch, putting, ingress, held, queues, accepted>>
      /\ work' = [work EXCEPT ![w].phase = "appended"]
  BY <1>1, AppendInOrder DEF KafkaAppend, producer, dispatcher
<1>3. /\ work'[w].phase = "appended" /\ \A v \in Workers \ {w} : work'[v] = work[v]
  BY <1>2 DEF TypeOK
<1>4. ASSUME NEW v \in Updates, InMemory(v)' PROVE InMemory(v)
  <2>1. \A x \in Workers : work'[x].phase = "publishing" => work'[x] = work[x]
    BY <1>3
  <2> QED BY <1>2, <1>4, <2>1 DEF InMemory
<1>5. ASSUME NEW v \in Updates, v # u, InMemory(v) PROVE InMemory(v)'
  <2>1. \A x \in Workers : work[x].phase = "publishing" /\ work[x].item.update = v => work'[x] = work[x]
    BY <1>1, <1>3, <1>5
  <2> QED BY <1>2, <1>5, <2>1 DEF InMemory
<1>6. u \in Taken
  BY <1>1, <1>2 DEF Taken, InMemory
<1>7. Taken' \subseteq Taken /\ Taken \ {u} \subseteq Taken'
  BY <1>2, <1>4, <1>5 DEF Taken
<1>8. Taken' \in {Taken, Taken \ {u}}
  BY <1>7
<1>9. (kept..UpdateCount)' = kept..UpdateCount
  BY <1>2
<1> QED BY <1>2, <1>6, <1>8, <1>9 DEF Ledger!Deliver, Taken

(***************************************************************************)
(* A poll makes Telegram forget what is below its offset: updates of this  *)
(* start, which it has taken, and updates below where it began, which are  *)
(* published.                                                              *)
(***************************************************************************)
LEMMA PollFetches ==
  ASSUME NEW base \in Bases, TypeOK, FlowInv(base), Poll
  PROVE  Ledger!Fetch
<1>0. /\ base \in Nat /\ seqno \in Nat /\ kept \in Nat \ {0} /\ offset \in Nat /\ stored \in Nat
      /\ UpdateCount \in Nat
  BY CountsAssumption DEF Bases, TypeOK
<1>1. /\ UNCHANGED <<putting, ingress, held, queues, work, published, accepted>>
      /\ runner = "polling" /\ putting = Nothing /\ batch = <<>>
  BY DEF Poll, dispatcher
<1>2. kept' \in {kept, offset} /\ kept <= kept' /\ offset <= kept' /\ kept' \in Nat
  <2>1. kept' = Max({kept, offset})
    BY DEF Poll
  <2>2. kept \in Int /\ offset \in Int
    BY <1>0
  <2>3. Max({kept, offset}) \in {kept, offset} /\ Max({kept, offset}) >= kept /\ Max({kept, offset}) >= offset
    BY <2>2, MaxOfTwo
  <2> QED BY <1>0, <2>1, <2>3
<1>3. \A u \in ToSet(batch') : u >= kept'
  <2>1. PICK n \in 0..PollLimit : batch' = [i \in 1..n |-> kept' + i - 1]
    BY DEF Poll
  <2> QED BY <1>2, <2>1 DEF ToSet
<1>4. ASSUME NEW u \in Updates, kept <= u, u < kept'
      PROVE  u \in accepted \/ u \in published
  <2>0. u \in Nat /\ u < offset
    BY <1>0, <1>2, <1>4 DEF Updates
  <2>1. CASE seqno = 0
    <3>1. offset = stored
      BY <1>1, <2>1 DEF FlowInv, ProducerOk
    <3> QED BY <1>0, <1>4, <2>0, <3>1, StoredIsSafe DEF OffsetCoversPublished
  <2>2. CASE seqno > 0
    <3>1. offset = base + seqno
      BY <1>1, <2>2 DEF FlowInv, ProducerOk
    <3>2. CASE u < base
      BY <1>0, <1>4, <2>0, <3>2 DEF FlowInv, OffsetsOk
    <3>3. CASE ~ (u < base)
      <4>1. u - base + 1 \in 1..seqno /\ base + (u - base + 1) - 1 = u
        BY <1>0, <2>0, <3>1, <3>3
      <4>2. base + (u - base + 1) - 1 \in accepted
        BY <1>1, <4>1 DEF FlowInv, ProducerOk
      <4> QED BY <4>1, <4>2
    <3> QED BY <3>2, <3>3
  <2> QED BY <1>0, <2>1, <2>2
<1>5. ASSUME NEW u \in Updates, InMemory(u) PROVE InMemory(u)'
  BY <1>1, <1>5, SentinelIsNoUpdate DEF InMemory
<1>6. ASSUME NEW u \in Updates, InMemory(u)', ~ InMemory(u) PROVE u \in ToSet(batch')
  BY <1>1, <1>6 DEF InMemory
<1>7. (kept..UpdateCount)' \subseteq kept..UpdateCount
  BY <1>0, <1>2
<1>8. (kept..UpdateCount) \ (kept..UpdateCount)' \subseteq Taken \cup published
  <2> SUFFICES ASSUME NEW u \in kept..UpdateCount, ~ (u >= kept') PROVE u \in Taken \cup published
    BY <1>2
  <2>1. u \in Updates /\ kept <= u /\ u < kept'
    BY <1>0, <1>2 DEF Updates
  <2> QED BY <1>4, <2>1 DEF Taken
<1>9. Taken \subseteq Taken'
  BY <1>1, <1>5 DEF Taken
<1>10. Taken' \ Taken \subseteq (kept..UpdateCount)'
  <2> SUFFICES ASSUME NEW u \in Updates, u \in ToSet(batch') PROVE u \in kept'..UpdateCount
    BY <1>1, <1>6 DEF Taken
  <2> QED BY <1>0, <1>2, <1>3 DEF Updates
<1> QED BY <1>1, <1>7, <1>8, <1>9, <1>10 DEF Ledger!Fetch, Taken

\* A step that only drops updates discards them.
LEMMA DropsDiscard ==
  ASSUME Drops
  PROVE  Ledger!Discard
  BY DEF Drops, Taken, external, Ledger!Discard

(***************************************************************************)
(* Every behaviour of the poller, with its crashes, restarts and failures, *)
(* keeps the ledger: only the end of a process loses updates.              *)
(***************************************************************************)
THEOREM PollerKeepsLedger == Spec => DeliveryKept
<1>1. Init => Ledger!LedgerInit
  <2> SUFFICES ASSUME Init PROVE Ledger!LedgerInit
    OBVIOUS
  <2>1. \A u \in Updates : ~ InMemory(u)
    <3>1. /\ batch = <<>> /\ putting = Nothing /\ held = Nothing /\ ingress = <<>>
          /\ \A w \in Workers : queues[w] = <<>> /\ work[w].phase = "idle"
      BY DEF Init, Idle
    <3> QED BY <3>1, SentinelIsNoUpdate DEF InMemory
  <2> QED BY <2>1 DEF Init, Updates, Ledger!LedgerInit
<1>2. PollerInv /\ [Next]_vars => [Ledger!LedgerNext]_(Ledger!ledger)
  <2> SUFFICES ASSUME PollerInv, [Next]_vars
               PROVE  Ledger!LedgerNext
    OBVIOUS
  <2>0. PICK base \in Bases : TypeOK /\ FlowInv(base)
    BY DEF PollerInv
  <2>1. CASE Poll
    BY <2>0, <2>1, PollFetches DEF Ledger!LedgerNext
  <2>2. ASSUME NEW w \in Workers, Worker(w) \/ WorkerFails(w)
        PROVE  Ledger!LedgerNext
    BY <2>0, <2>2, AppendDelivers, WorkerDrops, DropsDiscard DEF Worker, Ledger!LedgerNext
  <2>3. CASE UNCHANGED vars
    <3>1. Drops
      <4>1. \A u \in Updates : InMemory(u)' => InMemory(u)
        BY <2>3 DEF vars, producer, dispatcher, InMemory
      <4>2. UNCHANGED external /\ accepted' \subseteq Taken
        BY <2>3 DEF vars, producer, Taken
      <4> QED BY <4>1, <4>2, DropsIf
    <3> QED BY <3>1, DropsDiscard DEF Ledger!LedgerNext
  <2>4. CASE \/ Boot \/ Started \/ Exit \/ Crash \/ Signal \/ SignalCancel \/ DrainTimeout
             \/ PollFails \/ Producer \/ OrphanPut \/ Monitor \/ Drain \/ Dispatcher
    <3>1. Drops
      BY <2>0, <2>4, ControlDrops, DownDrops, PutDrops, DispatchDrops DEF Producer, Drain, Dispatcher
    <3> QED BY <3>1, DropsDiscard DEF Ledger!LedgerNext
  <2> QED BY <2>1, <2>2, <2>3, <2>4 DEF Next
<1> QED BY <1>1, <1>2, PollerIsSound, PTL DEF Spec, DeliveryKept, Ledger!LedgerSpec
=============================================================================
