-------------------------- MODULE TelemetryProofs ---------------------------
(***************************************************************************)
(* Theorems about Telemetry, for any number of requests and readers and    *)
(* every ring size: the ring is a bounded log, identifiers follow real     *)
(* time, and a Summary counts what it should.                              *)
(***************************************************************************)
EXTENDS Telemetry, FiniteSetTheorems, TLAPS

-----------------------------------------------------------------------------
(* The ring.                                                               *)

LEMMA CapacityPositive == capacity \in Nat \ {0}
BY CapacityAssumption DEF capacity

LEMMA Wrap ==
  ASSUME NEW c \in Nat \ {0}, NEW i \in 0..(2 * c - 1)
  PROVE  i % c = IF i < c THEN i ELSE i - c
OBVIOUS

\* Where the n-th oldest of k events is, if nx is written next.
Place(nx, k, n) ==
  IF nx - k + n - 1 < 0 THEN nx - k + n - 1 + capacity ELSE nx - k + n - 1

LEMMA PlaceOfKept ==
  ASSUME NEW nx \in Slots, NEW k \in 0..capacity, NEW n \in 1..k
  PROVE  /\ (nx - k + n - 1 + capacity) % capacity = Place(nx, k, n)
         /\ Place(nx, k, n) \in Slots
<1> DEFINE i == nx - k + n - 1 + capacity
<1>1. i \in 0..(2 * capacity - 1)
  BY CapacityPositive DEF Slots
<1>2. Place(nx, k, n) = IF i < capacity THEN i ELSE i - capacity
  BY CapacityPositive DEF Place, Slots
<1> HIDE DEF i
<1>3. i % capacity = IF i < capacity THEN i ELSE i - capacity
  BY <1>1, CapacityPositive, Wrap
<1>4. i % capacity \in Slots
  BY <1>1, <1>3, CapacityPositive DEF Slots
<1> QED BY <1>2, <1>3, <1>4 DEF i

(***************************************************************************)
(* A ring that is not full is filled from its first slot on.               *)
(***************************************************************************)
RingOK ==
  /\ next \in Slots
  /\ count \in 0..capacity
  /\ count < capacity => next = count
  /\ events \in [Slots -> [request : Requests, id : Nat] \cup {NoEvent}]

Recorders == Requests \cup {"none"}

KeptInOrder ==
  /\ Kept = [n \in 1..count |-> events[Place(next, count, n)].request]
  /\ Kept \in Seq(Recorders)
  /\ Len(Kept) = count

LEMMA KeptIs == RingOK => KeptInOrder
<1> SUFFICES ASSUME RingOK PROVE KeptInOrder
  OBVIOUS
<1>1. \A n \in 1..count :
        /\ (next - count + n - 1 + capacity) % capacity = Place(next, count, n)
        /\ Place(next, count, n) \in Slots
  BY PlaceOfKept DEF RingOK
<1>2. Kept = [n \in 1..count |-> events[Place(next, count, n)].request]
  BY <1>1 DEF Kept
<1>3. \A i \in Slots : events[i].request \in Recorders
  BY DEF RingOK, Recorders, NoEvent
<1>4. Kept \in [1..count -> Recorders] /\ count \in Nat
  BY <1>1, <1>2, <1>3, CapacityPositive DEF RingOK
<1>5. Kept \in Seq(Recorders) /\ Len(Kept) = count
  BY <1>4
<1> QED BY <1>2, <1>5 DEF KeptInOrder

LEMMA KeptIsNext == RingOK' => KeptInOrder'
BY KeptIs, PTL

\* One entry: the next slot is filled, and the ring stays in order.
LEMMA EnterRing ==
  ASSUME RingOK, NEW r \in Requests, id \in [Requests -> Nat], Enter(r)
  PROVE  /\ RingOK'
         /\ Kept' = Append(IF Len(Kept) < capacity THEN Kept ELSE Tail(Kept), r)
<1>0. capacity \in Nat \ {0} /\ next \in 0..(capacity - 1) /\ count \in 0..capacity
  BY CapacityPositive DEF RingOK, Slots
<1>1. /\ events' = [events EXCEPT ![next] = [request |-> r, id |-> id[r]]]
      /\ next' = (next + 1) % capacity
      /\ count' = IF count < capacity THEN count + 1 ELSE count
  BY DEF Enter
<1>2. next' = IF next + 1 < capacity THEN next + 1 ELSE 0
  <2>1. next + 1 \in 0..(2 * capacity - 1)
    BY <1>0
  <2>2. (next + 1) % capacity = IF next + 1 < capacity THEN next + 1
                                ELSE next + 1 - capacity
    BY <1>0, <2>1
  <2> QED BY <1>0, <1>1, <2>2
<1>3. RingOK'
  <2>1. next' \in 0..(capacity - 1) /\ count' \in 0..capacity
        /\ (count' < capacity => next' = count')
    BY <1>0, <1>1, <1>2 DEF RingOK
  <2>2. events' \in [Slots -> [request : Requests, id : Nat] \cup {NoEvent}]
    BY <1>1 DEF RingOK
  <2> QED BY <2>1, <2>2 DEF RingOK, Slots
<1>4. events'[next].request = r /\ \A i \in Slots \ {next} : events'[i] = events[i]
  BY <1>1 DEF RingOK
<1>5. KeptInOrder /\ KeptInOrder'
  BY <1>3, KeptIs, KeptIsNext
<1>6. CASE count < capacity
  <2>1. next = count /\ count' = count + 1 /\ Kept' \in Seq(Recorders)
        /\ Kept \in Seq(Recorders) /\ Len(Kept) = count /\ Len(Kept') = count + 1
    BY <1>0, <1>1, <1>5, <1>6 DEF RingOK, KeptInOrder
  <2>2. \A n \in 1..count : Kept'[n] = Kept[n]
    <3> SUFFICES ASSUME NEW n \in 1..count PROVE Kept'[n] = Kept[n]
      OBVIOUS
    <3>1. Place(next', count', n) = n - 1 /\ Place(next, count, n) = n - 1
      BY <1>0, <1>2, <2>1 DEF Place
    <3>2. n - 1 \in Slots \ {next}
      BY <1>0, <2>1 DEF Slots
    <3>3. Kept[n] = events[n - 1].request /\ Kept'[n] = events'[n - 1].request
      BY <1>0, <1>5, <2>1, <3>1 DEF KeptInOrder
    <3> QED BY <1>4, <3>2, <3>3
  <2>3. Kept'[count + 1] = r
    <3>1. Place(next', count', count + 1) = next
      BY <1>0, <1>2, <2>1 DEF Place
    <3> QED BY <1>0, <1>4, <1>5, <2>1, <3>1 DEF KeptInOrder
  <2>4. Kept' = Append(Kept, r)
    BY <1>0, <2>1, <2>2, <2>3
  <2> QED BY <1>3, <1>6, <2>1, <2>4
<1>7. CASE count = capacity
  <2>1. count' = count /\ Kept' \in Seq(Recorders) /\ Kept \in Seq(Recorders)
        /\ Len(Kept) = count /\ Len(Kept') = count
    BY <1>0, <1>1, <1>5, <1>7 DEF KeptInOrder
  <2>2. \A n \in 1..(count - 1) : Kept'[n] = Kept[n + 1]
    <3> SUFFICES ASSUME NEW n \in 1..(count - 1) PROVE Kept'[n] = Kept[n + 1]
      OBVIOUS
    <3>1. Place(next', count', n) = Place(next, count, n + 1)
      BY <1>0, <1>2, <1>7, <2>1 DEF Place
    <3>2. Place(next, count, n + 1) \in Slots \ {next}
      BY <1>0, <1>7 DEF Place, Slots
    <3>3. /\ Kept[n + 1] = events[Place(next, count, n + 1)].request
          /\ Kept'[n] = events'[Place(next, count, n + 1)].request
      BY <1>0, <1>5, <2>1, <3>1 DEF KeptInOrder
    <3> QED BY <1>4, <3>2, <3>3
  <2>3. Kept'[count] = r
    <3>1. Place(next', count', count) = next
      BY <1>0, <1>2, <1>7, <2>1 DEF Place
    <3> QED BY <1>0, <1>4, <1>5, <1>7, <2>1, <3>1 DEF KeptInOrder
  <2>4. Kept' = Append(Tail(Kept), r)
    BY <1>0, <1>7, <2>1, <2>2, <2>3
  <2> QED BY <1>0, <1>3, <1>7, <2>1, <2>4
<1> QED BY <1>0, <1>6, <1>7

-----------------------------------------------------------------------------
(* Types, identifiers and counters.                                        *)

LEMMA CountedType ==
  ASSUME NEW k \in Counters
  PROVE  Counted[k] \subseteq Requests /\ IsFiniteSet(Counted[k])
<1>1. k = 1 \/ k = 2 \/ k = 3 \/ k = 4
  BY DEF Counters
<1>2. Counted[k] \subseteq Requests
  BY <1>1, RequestAssumption DEF Counted
<1> QED BY <1>2, RequestAssumption, FS_Subset

ControlOK ==
  /\ sequence \in Nat
  /\ counters \in [Counters -> Nat]
  /\ done \in [Requests -> 0..6]
  /\ id \in [Requests -> Nat]
  /\ summary \in [Readers -> Seq(Nat)]
  /\ before \in [Requests -> SUBSET Requests]
  /\ earlier \in [Readers -> SUBSET Requests]

(***************************************************************************)
(* The identifiers given so far are at most sequence, and what had         *)
(* finished before a request began had begun itself.                       *)
(***************************************************************************)
IdsGiven ==
  /\ \A r \in Requests : done[r] > 0 => id[r] \in 1..sequence
  /\ \A q \in Requests : \A r \in before[q] : done[r] > 0

\* Every identifier up to sequence has been given to one request.
Started == {r \in Requests : done[r] > 0}
SequenceExact == sequence = Cardinality(Started)

\* Which requests the k-th counter has counted.
CountedSoFar(k) == {r \in Counted[k] : done[r] > k}

CountersExact == \A k \in Counters : counters[k] = Cardinality(CountedSoFar(k))

ReadersFollow ==
  \A s \in Readers :
    /\ Len(summary[s]) <= 4
    /\ earlier[s] \subseteq Finished

IInv == /\ ControlOK /\ RingOK /\ IdsGiven /\ IdsFollowRealTime
        /\ SequenceExact /\ CountersExact /\ ReadersFollow /\ SummaryBracketed

LEMMA CountedSoFarFinite ==
  ASSUME ControlOK, NEW k \in Counters
  PROVE  /\ IsFiniteSet(CountedSoFar(k))
         /\ Cardinality(CountedSoFar(k)) \in Nat
<1>1. IsFiniteSet(CountedSoFar(k))
  BY CountedType, FS_Subset DEF CountedSoFar
<1> QED BY <1>1, FS_CardinalityType

LEMMA StartedFinite ==
  /\ IsFiniteSet(Started)
  /\ Cardinality(Started) \in Nat
  /\ Cardinality(Started) <= Cardinality(Requests)
BY RequestAssumption, FS_Subset, FS_CardinalityType DEF Started

LEMMA InitIInv == Init => IInv
<1> SUFFICES ASSUME Init PROVE IInv
  OBVIOUS
<1>1. ControlOK /\ IdsGiven /\ IdsFollowRealTime
  BY DEF Init, ControlOK, IdsGiven, IdsFollowRealTime
<1>2. RingOK
  BY CapacityPositive DEF Init, RingOK, Slots
<1>3. CountersExact
  <2> SUFFICES ASSUME NEW k \in Counters PROVE counters[k] = Cardinality(CountedSoFar(k))
    BY DEF CountersExact
  <2>1. CountedSoFar(k) = {}
    BY CountedType DEF Init, CountedSoFar, Counters
  <2> QED BY <2>1, FS_EmptySet DEF Init
<1>4. ReadersFollow /\ SummaryBracketed
  BY DEF Init, ReadersFollow, SummaryBracketed
<1>5. SequenceExact
  <2>1. Started = {}
    BY DEF Init, Started
  <2> QED BY <2>1, FS_EmptySet DEF Init, SequenceExact
<1> QED BY <1>1, <1>2, <1>3, <1>4, <1>5 DEF IInv

\* A step of Record by r, as far as the counters are concerned.
LEMMA AdvanceCounted ==
  ASSUME ControlOK, NEW r \in Requests, done[r] < 6, Advance(r), NEW k \in Counters
  PROVE  CountedSoFar(k)' = IF done[r] = k /\ r \in Counted[k]
                              THEN CountedSoFar(k) \cup {r} ELSE CountedSoFar(k)
<1>1. /\ \A q \in Requests : done[q] \in 0..6
      /\ done'[r] = done[r] + 1
      /\ \A q \in Requests \ {r} : done'[q] = done[q]
      /\ Counted[k] \subseteq Requests /\ k \in Nat
  BY CountedType DEF ControlOK, Advance, Counters
<1>2. CASE done[r] = k /\ r \in Counted[k]
  BY <1>1, <1>2 DEF CountedSoFar
<1>3. CASE ~(done[r] = k /\ r \in Counted[k])
  <2>1. r \in Counted[k] => (done[r] + 1 > k <=> done[r] > k)
    BY <1>1, <1>3
  <2> QED BY <1>1, <1>3, <2>1 DEF CountedSoFar
<1> QED BY <1>2, <1>3

LEMMA AdvanceReaders ==
  ASSUME ControlOK, ControlOK', NEW r \in Requests, done[r] < 6, Advance(r),
         UNCHANGED readerVars, ReadersFollow, SummaryBracketed
  PROVE  ReadersFollow' /\ SummaryBracketed'
<1>1. ReadersFollow'
  BY DEF ControlOK, Advance, readerVars, ReadersFollow, Finished
<1>2. ASSUME NEW s \in Readers, NEW k \in DOMAIN summary[s]
      PROVE  /\ Cardinality(earlier[s] \cap Counted[k]) <= summary[s][k]
             /\ summary[s][k] <= Cardinality(CountedSoFar(k)')
  <2>1. k \in Counters /\ summary[s][k] \in Nat
    <3>1. summary[s] \in Seq(Nat) /\ Len(summary[s]) <= 4
      BY DEF ControlOK, ReadersFollow
    <3> QED BY <1>2, <3>1 DEF Counters
  <2>2. CountedSoFar(k) \subseteq CountedSoFar(k)'
    BY <2>1, AdvanceCounted
  <2>3. IsFiniteSet(CountedSoFar(k)')
    <3>1. CountedSoFar(k)' \subseteq Counted[k]
      BY DEF CountedSoFar
    <3> QED BY <2>1, <3>1, CountedType, FS_Subset
  <2>4. Cardinality(CountedSoFar(k)) <= Cardinality(CountedSoFar(k)')
    BY <2>2, <2>3, FS_Subset
  <2>5. /\ Cardinality(CountedSoFar(k)) \in Nat
        /\ Cardinality(CountedSoFar(k)') \in Nat
    BY <2>1, <2>3, CountedSoFarFinite, FS_CardinalityType
  <2>6. /\ Cardinality(earlier[s] \cap Counted[k]) <= summary[s][k]
        /\ summary[s][k] <= Cardinality(CountedSoFar(k))
    BY <1>2 DEF SummaryBracketed, CountedSoFar
  <2> QED BY <2>1, <2>4, <2>5, <2>6
<1>3. SummaryBracketed'
  BY <1>2 DEF SummaryBracketed, CountedSoFar, readerVars
<1> QED BY <1>1, <1>3

LEMMA TakeIdIInv ==
  ASSUME IInv, NEW r \in Requests, TakeId(r)
  PROVE  IInv'
<1>1. /\ ControlOK /\ done[r] = 0 /\ sequence' = sequence + 1
      /\ id' = [id EXCEPT ![r] = sequence + 1]
      /\ before' = [before EXCEPT ![r] = Finished]
      /\ Advance(r) /\ counters' = counters
      /\ UNCHANGED ringVars /\ UNCHANGED readerVars
  BY DEF IInv, TakeId
<1>2. ControlOK'
  BY <1>1 DEF ControlOK, Advance, Finished, readerVars
<1>3. RingOK'
  BY <1>1 DEF IInv, RingOK, ringVars
<1>4. IdsGiven'
  BY <1>1 DEF IInv, IdsGiven, ControlOK, Advance, Finished
<1>5. IdsFollowRealTime'
  <2> SUFFICES ASSUME NEW p \in Requests, NEW q \in Requests \ {p},
                      done'[p] > 0, done'[q] > 0
               PROVE  id'[p] # id'[q] /\ (p \in before'[q] => id'[p] < id'[q])
    BY DEF IdsFollowRealTime
  <2>1. CASE p = r
    BY <1>1, <2>1 DEF IInv, IdsGiven, ControlOK, Advance
  <2>2. CASE q = r
    BY <1>1, <2>2 DEF IInv, IdsGiven, ControlOK, Advance, Finished
  <2>3. CASE p # r /\ q # r
    BY <1>1, <2>3 DEF IInv, IdsFollowRealTime, ControlOK, Advance
  <2> QED BY <2>1, <2>2, <2>3
<1>6. CountersExact'
  <2> SUFFICES ASSUME NEW k \in Counters
               PROVE  counters'[k] = Cardinality(CountedSoFar(k)')
    BY DEF CountersExact
  <2>1. CountedSoFar(k)' = CountedSoFar(k)
    BY <1>1, AdvanceCounted DEF Counters
  <2> QED BY <1>1, <2>1 DEF IInv, CountersExact
<1>7. ReadersFollow' /\ SummaryBracketed'
  BY <1>1, <1>2, AdvanceReaders DEF IInv
<1>8. SequenceExact'
  <2>1. r \notin Started /\ Started' = Started \cup {r}
    BY <1>1 DEF ControlOK, Advance, Started
  <2>2. Cardinality(Started') = Cardinality(Started) + 1
    BY <2>1, StartedFinite, FS_AddElement
  <2> QED BY <1>1, <2>2 DEF IInv, SequenceExact
<1> QED BY <1>2, <1>3, <1>4, <1>5, <1>6, <1>7, <1>8 DEF IInv

\* Steps of Record that leave the identifiers alone.
LEMMA IdsKept ==
  ASSUME ControlOK, NEW r \in Requests, done[r] > 0, Advance(r),
         UNCHANGED <<sequence, id, before>>, IdsGiven, IdsFollowRealTime,
         SequenceExact
  PROVE  IdsGiven' /\ IdsFollowRealTime' /\ SequenceExact'
<1>1. ASSUME NEW q \in Requests
      PROVE  done'[q] > 0 <=> done[q] > 0
  <2>1. done[q] \in 0..6
    BY DEF ControlOK
  <2>2. done'[q] = IF q = r THEN done[q] + 1 ELSE done[q]
    BY DEF ControlOK, Advance
  <2> QED BY <2>1, <2>2
<1>2. Started' = Started
  BY <1>1 DEF Started
<1>3. IdsGiven' /\ IdsFollowRealTime'
  BY <1>1 DEF IdsGiven, IdsFollowRealTime, ControlOK
<1> QED BY <1>2, <1>3 DEF SequenceExact

LEMMA CountIInv ==
  ASSUME IInv, NEW r \in Requests, Count(r)
  PROVE  IInv'
<1> DEFINE j == done[r]
<1>1. /\ ControlOK /\ j \in Counters /\ Advance(r)
      /\ counters' = IF r \in Counted[j] THEN [counters EXCEPT ![j] = @ + 1]
                     ELSE counters
      /\ UNCHANGED <<sequence, id, before>>
      /\ UNCHANGED ringVars /\ UNCHANGED readerVars
  BY DEF IInv, Count, Counting, Counters
<1>2. ControlOK'
  BY <1>1 DEF ControlOK, Advance, Counters, readerVars
<1>3. RingOK'
  BY <1>1 DEF IInv, RingOK, ringVars
<1>4. IdsGiven' /\ IdsFollowRealTime' /\ SequenceExact'
  BY <1>1, IdsKept DEF IInv, Counters
<1>5. CountersExact'
  <2> SUFFICES ASSUME NEW k \in Counters
               PROVE  counters'[k] = Cardinality(CountedSoFar(k)')
    BY DEF CountersExact
  <2>1. done[r] < 6
    BY <1>1 DEF Counters
  <2>2. CASE k = j /\ r \in Counted[k]
    <3>1. CountedSoFar(k)' = CountedSoFar(k) \cup {r} /\ r \notin CountedSoFar(k)
      BY <1>1, <2>1, <2>2, AdvanceCounted DEF CountedSoFar, Counters
    <3>2. Cardinality(CountedSoFar(k)') = Cardinality(CountedSoFar(k)) + 1
      BY <1>1, <3>1, CountedSoFarFinite, FS_AddElement
    <3> QED BY <1>1, <2>2, <3>2 DEF IInv, CountersExact, ControlOK
  <2>3. CASE ~(k = j /\ r \in Counted[k])
    <3>1. CountedSoFar(k)' = CountedSoFar(k)
      BY <1>1, <2>1, <2>3, AdvanceCounted
    <3> QED BY <1>1, <2>3, <3>1 DEF IInv, CountersExact, ControlOK
  <2> QED BY <2>2, <2>3
<1>6. ReadersFollow' /\ SummaryBracketed'
  BY <1>1, <1>2, AdvanceReaders DEF IInv, Counters
<1> QED BY <1>2, <1>3, <1>4, <1>5, <1>6 DEF IInv

LEMMA EnterIInv ==
  ASSUME IInv, NEW r \in Requests, Enter(r)
  PROVE  IInv'
<1>1. /\ ControlOK /\ done[r] = 5 /\ Advance(r) /\ counters' = counters
      /\ UNCHANGED <<sequence, id, before>> /\ UNCHANGED readerVars
  BY DEF IInv, Enter, Entering
<1>2. ControlOK'
  BY <1>1 DEF ControlOK, Advance, readerVars
<1>3. RingOK'
  BY <1>1, EnterRing DEF IInv, ControlOK
<1>4. IdsGiven' /\ IdsFollowRealTime' /\ SequenceExact'
  BY <1>1, IdsKept DEF IInv
<1>5. CountersExact'
  <2> SUFFICES ASSUME NEW k \in Counters
               PROVE  counters'[k] = Cardinality(CountedSoFar(k)')
    BY DEF CountersExact
  <2>1. CountedSoFar(k)' = CountedSoFar(k)
    BY <1>1, AdvanceCounted DEF Counters
  <2> QED BY <1>1, <2>1 DEF IInv, CountersExact
<1>6. ReadersFollow' /\ SummaryBracketed'
  BY <1>1, <1>2, AdvanceReaders DEF IInv
<1> QED BY <1>2, <1>3, <1>4, <1>5, <1>6 DEF IInv

LEMMA LoadCounterIInv ==
  ASSUME IInv, NEW s \in Readers, LoadCounter(s)
  PROVE  IInv'
<1> DEFINE n == Len(summary[s])
<1>1. /\ ControlOK /\ n < 4
      /\ summary' = [summary EXCEPT ![s] = Append(@, counters[n + 1])]
      /\ earlier' = IF summary[s] = << >> THEN [earlier EXCEPT ![s] = Finished]
                    ELSE earlier
      /\ UNCHANGED <<sequence, counters, done, id, before>> /\ UNCHANGED ringVars
  BY DEF IInv, LoadCounter
<1>2. summary[s] \in Seq(Nat) /\ n \in Nat /\ n + 1 \in Counters
      /\ counters[n + 1] \in Nat
  <2>1. summary[s] \in Seq(Nat) /\ n \in Nat
    BY <1>1 DEF ControlOK
  <2>2. n + 1 \in Counters
    BY <1>1, <2>1 DEF Counters
  <2> QED BY <1>1, <2>1, <2>2 DEF ControlOK
<1>3. ControlOK'
  BY <1>1, <1>2 DEF ControlOK, Finished
<1>4. RingOK' /\ IdsGiven' /\ IdsFollowRealTime' /\ SequenceExact'
  BY <1>1 DEF IInv, RingOK, ringVars, IdsGiven, IdsFollowRealTime,
              SequenceExact, Started
<1>5. \A k \in Counters : CountedSoFar(k)' = CountedSoFar(k)
  BY <1>1 DEF CountedSoFar
<1>6. CountersExact'
  BY <1>1, <1>5 DEF IInv, CountersExact
<1>7. ReadersFollow'
  <2>1. Finished' = Finished
    BY <1>1 DEF Finished
  <2>2. ASSUME NEW t \in Readers
        PROVE  Len(summary'[t]) <= 4 /\ earlier'[t] \subseteq Finished'
    <3>1. CASE t = s
      BY <1>1, <1>2, <2>1, <3>1 DEF IInv, ReadersFollow, ControlOK
    <3>2. CASE t # s
      BY <1>1, <2>1, <3>2 DEF IInv, ReadersFollow, ControlOK
    <3> QED BY <3>1, <3>2
  <2> QED BY <2>2 DEF ReadersFollow
<1>8. SummaryBracketed'
  <2> SUFFICES ASSUME NEW t \in Readers, NEW k \in DOMAIN summary'[t]
               PROVE  /\ Cardinality(earlier'[t] \cap Counted[k]) <= summary'[t][k]
                      /\ summary'[t][k] <= Cardinality(CountedSoFar(k)')
    BY DEF SummaryBracketed, CountedSoFar
  <2>1. CASE t # s
    <3>1. summary'[t] = summary[t] /\ earlier'[t] = earlier[t]
      BY <1>1, <2>1 DEF ControlOK
    <3>2. CountedSoFar(k)' = CountedSoFar(k)
      BY <1>1 DEF CountedSoFar
    <3> QED BY <3>1, <3>2 DEF IInv, SummaryBracketed, CountedSoFar
  <2>2. CASE t = s /\ k # n + 1
    <3>1. k \in DOMAIN summary[s] /\ summary'[s][k] = summary[s][k]
      BY <1>1, <1>2, <2>2 DEF ControlOK
    <3>2. earlier'[s] = earlier[s]
      BY <1>1, <1>2, <3>1
    <3>3. CountedSoFar(k)' = CountedSoFar(k)
      BY <1>1 DEF CountedSoFar
    <3> QED BY <2>2, <3>1, <3>2, <3>3 DEF IInv, SummaryBracketed, CountedSoFar
  <2>3. CASE t = s /\ k = n + 1
    <3>1. k \in Counters /\ summary'[s][k] = counters[k]
      BY <1>1, <1>2, <2>3 DEF ControlOK
    <3>2. earlier'[s] \subseteq Finished
      BY <1>1 DEF IInv, ReadersFollow, ControlOK
    <3>3. earlier'[s] \cap Counted[k] \subseteq CountedSoFar(k)
      BY <3>1, <3>2 DEF CountedSoFar, Finished, Counters
    <3>4. Cardinality(earlier'[s] \cap Counted[k]) <= Cardinality(CountedSoFar(k))
      BY <1>1, <3>1, <3>3, CountedSoFarFinite, FS_Subset
    <3>5. counters[k] = Cardinality(CountedSoFar(k)) /\ counters[k] \in Nat
      BY <1>1, <3>1 DEF IInv, CountersExact, ControlOK
    <3> QED BY <1>5, <2>3, <3>1, <3>4, <3>5
  <2> QED BY <2>1, <2>2, <2>3
<1> QED BY <1>3, <1>4, <1>6, <1>7, <1>8 DEF IInv

LEMMA StepIInv == IInv /\ [Next]_vars => IInv'
<1> SUFFICES ASSUME IInv, [Next]_vars PROVE IInv'
  OBVIOUS
<1>1. ASSUME NEW r \in Requests, TakeId(r) \/ Count(r) \/ Enter(r)
      PROVE  IInv'
  BY <1>1, TakeIdIInv, CountIInv, EnterIInv
<1>2. ASSUME NEW s \in Readers, LoadCounter(s)
      PROVE  IInv'
  BY <1>2, LoadCounterIInv
<1>3. CASE UNCHANGED vars
  <2> USE <1>3 DEF vars, ringVars, readerVars
  <2>1. ControlOK' /\ RingOK' /\ IdsGiven' /\ SequenceExact'
    BY DEF IInv, ControlOK, RingOK, IdsGiven, SequenceExact, Started
  <2>2. IdsFollowRealTime' /\ ReadersFollow'
    BY DEF IInv, IdsFollowRealTime, ReadersFollow, Finished
  <2>3. CountersExact' /\ SummaryBracketed'
    BY DEF IInv, CountersExact, CountedSoFar, SummaryBracketed
  <2> QED BY <2>1, <2>2, <2>3 DEF IInv
<1> QED BY <1>1, <1>2, <1>3 DEF Next

LEMMA SpecIInv == Spec => []IInv
BY InitIInv, StepIInv, PTL DEF Spec

-----------------------------------------------------------------------------
(***************************************************************************)
(* Every state of the recorder is of its declared type: no counter exceeds *)
(* the number of requests, the ring's indices stay within it.              *)
(***************************************************************************)
THEOREM TypeCorrect == Spec => []TypeOK
<1>1. ASSUME IInv PROVE TypeOK
  <2>1. ControlOK /\ RingOK /\ Cardinality(Requests) \in Nat
    BY <1>1, RequestAssumption, FS_CardinalityType DEF IInv
  <2>2. counters \in [Counters -> 0..Cardinality(Requests)]
    <3>1. ASSUME NEW k \in Counters
          PROVE  counters[k] <= Cardinality(Requests)
      <4>1. CountedSoFar(k) \subseteq Requests
        BY CountedType DEF CountedSoFar
      <4>2. Cardinality(CountedSoFar(k)) <= Cardinality(Requests)
        BY <4>1, RequestAssumption, FS_Subset
      <4> QED BY <1>1, <4>2 DEF IInv, CountersExact
    <3> QED BY <2>1, <3>1 DEF ControlOK
  <2>3. sequence \in 0..Cardinality(Requests)
    BY <1>1, <2>1, StartedFinite DEF IInv, SequenceExact
  <2> QED BY <2>1, <2>2, <2>3 DEF TypeOK, ControlOK, RingOK
<1> QED BY <1>1, SpecIInv, PTL

(***************************************************************************)
(* Whatever the interleaving of the Records, identifiers are unique and    *)
(* follow real time.                                                       *)
(***************************************************************************)
THEOREM IdentifiersFollowRealTime == Spec => []IdsFollowRealTime
<1>1. IInv => IdsFollowRealTime
  BY DEF IInv
<1> QED BY <1>1, SpecIInv, PTL

(***************************************************************************)
(* However many Records run during a Summary, its figures lie between what *)
(* had finished before it and what has begun since.                        *)
(***************************************************************************)
THEOREM SummariesBracketed == Spec => []SummaryBracketed
<1>1. IInv => SummaryBracketed
  BY DEF IInv
<1> QED BY <1>1, SpecIInv, PTL

(***************************************************************************)
(* For every size and filling of the ring, and every limit, Recent shows   *)
(* the newest events, newest first.                                        *)
(***************************************************************************)
THEOREM RecentShowsNewest == Spec => []RecentIsNewest
<1>1. ASSUME RingOK, NEW limit \in -1..(capacity + 1)
      PROVE  LET recent == Recent(limit)
             IN  /\ Len(recent) <= Len(Kept)
                 /\ limit \in 1..capacity => Len(recent) <= limit
                 /\ Len(recent) \in {Len(Kept), limit, 100}
                 /\ \A n \in DOMAIN recent :
                      recent[n].request = Kept[Len(Kept) - n + 1]
  <2> DEFINE wanted == IF limit <= 0 \/ limit > capacity THEN 100 ELSE limit
             length == IF wanted > count THEN count ELSE wanted
  <2>1. /\ capacity \in Nat \ {0} /\ next \in 0..(capacity - 1)
        /\ count \in 0..capacity
        /\ Kept = [n \in 1..count |-> events[Place(next, count, n)].request]
        /\ Len(Kept) = count
    BY <1>1, CapacityPositive, KeptIs DEF RingOK, KeptInOrder, Slots
  <2>2. length \in 0..count
    BY <2>1
  <2>3. Recent(limit) = [n \in 1..length |-> events[(next - n + capacity) % capacity]]
    BY DEF Recent
  <2>4. DOMAIN Recent(limit) = 1..length /\ Len(Recent(limit)) = length
    BY <2>2, <2>3
  <2>5. ASSUME NEW n \in 1..length
        PROVE  Recent(limit)[n].request = Kept[count - n + 1]
    <3>1. count - n + 1 \in 1..count
      BY <2>1, <2>2
    <3>2. (next - n + capacity) % capacity = Place(next, count, count - n + 1)
      <4>1. (next - count + (count - n + 1) - 1 + capacity) % capacity
              = Place(next, count, count - n + 1)
        BY <1>1, <3>1, PlaceOfKept DEF RingOK
      <4>2. next - count + (count - n + 1) - 1 + capacity = next - n + capacity
        BY <2>1, <2>2
      <4> QED BY <4>1, <4>2
    <3> QED BY <2>1, <2>3, <3>1, <3>2
  <2> QED BY <2>1, <2>2, <2>4, <2>5
<1>2. IInv => RecentIsNewest
  BY <1>1 DEF IInv, RecentIsNewest
<1> QED BY <1>2, SpecIInv, PTL

-----------------------------------------------------------------------------
(* The ring implements the bounded log.                                    *)

LEMMA StepLog == IInv /\ [Next]_vars => [Log!LogNext]_(Log!logVars)
<1> SUFFICES ASSUME IInv, [Next]_vars
             PROVE  Log!LogNext \/ UNCHANGED Log!logVars
  OBVIOUS
<1>1. ASSUME NEW r \in Requests, TakeId(r) \/ Count(r)
      PROVE  UNCHANGED Log!logVars
  <2>1. UNCHANGED ringVars /\ Advance(r) /\ done[r] < Entering
    BY <1>1 DEF TakeId, Count, Counting, Entering
  <2>2. Kept' = Kept
    BY <2>1 DEF ringVars, Kept
  <2>3. {q \in Requests : done'[q] <= Entering} = {q \in Requests : done[q] <= Entering}
    <3>1. ASSUME NEW q \in Requests
          PROVE  done'[q] <= Entering <=> done[q] <= Entering
      <4>1. done \in [Requests -> 0..6] /\ done' = [done EXCEPT ![r] = done[r] + 1]
        BY <2>1 DEF IInv, ControlOK, Advance
      <4>2. done[q] \in 0..6 /\ done[r] \in 0..6
        BY <4>1
      <4>3. done'[q] = IF q = r THEN done[r] + 1 ELSE done[q]
        BY <4>1
      <4> QED BY <2>1, <4>2, <4>3 DEF Entering
    <3> QED BY <3>1
  <2> QED BY <2>2, <2>3 DEF Log!logVars
<1>2. ASSUME NEW r \in Requests, Enter(r)
      PROVE  Log!LogNext
  <2>1. Kept' = Append(IF Len(Kept) < capacity THEN Kept ELSE Tail(Kept), r)
    BY <1>2, EnterRing DEF IInv, ControlOK
  <2>2. Advance(r) /\ done[r] = Entering
    BY <1>2 DEF Enter
  <2>3. {q \in Requests : done'[q] <= Entering}
          = {q \in Requests : done[q] <= Entering} \ {r}
    BY <2>2 DEF IInv, ControlOK, Advance, Entering
  <2>4. Log!Enter(r)
    BY <2>1, <2>2, <2>3 DEF Log!Enter, Entering
  <2> QED BY <2>4 DEF Log!LogNext
<1>3. ASSUME NEW s \in Readers, LoadCounter(s)
      PROVE  UNCHANGED Log!logVars
  BY <1>3 DEF LoadCounter, ringVars, Kept, Log!logVars
<1>4. CASE UNCHANGED vars
  BY <1>4 DEF vars, ringVars, Kept, Log!logVars
<1> QED BY <1>1, <1>2, <1>3, <1>4 DEF Next

(***************************************************************************)
(* For every size of the ring it keeps the newest events in the order they *)
(* were entered.                                                           *)
(***************************************************************************)
THEOREM RingImplementsLog == Spec => ImplementsLog
<1>1. Init => Log!LogInit
  BY DEF Init, Log!LogInit, Kept, Entering
<1> QED BY <1>1, SpecIInv, StepLog, PTL DEF Spec, ImplementsLog, Log!LogSpec

=============================================================================
