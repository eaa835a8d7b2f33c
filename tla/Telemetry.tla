----------------------------- MODULE Telemetry ------------------------------
(***************************************************************************)
(* internal/telemetry/recorder.go: Record, run by every request, and its   *)
(* readers.  The identifier and the four counters are atomics of their     *)
(* own, each a step; the ring of events is written and read under a lock,  *)
(* in one step.  Summary loads the counters one by one without the lock.   *)
(***************************************************************************)
EXTENDS Integers, FiniteSets, Sequences

CONSTANTS Requests,  \* each calls Record once
          Failed,    \* the requests recorded with a status of 400 or more
          Streaming, \* the streaming requests
          CacheHits, \* the requests with MatchedBlocks > 0
          Capacity,  \* the argument of New
          Readers    \* callers of Summary, once each

ASSUME RequestAssumption ==
  /\ IsFiniteSet(Requests)
  /\ Failed \subseteq Requests
  /\ Streaming \subseteq Requests
  /\ CacheHits \subseteq Requests

ASSUME CapacityAssumption == Capacity \in Int

VARIABLES sequence,  \* the last identifier given
          counters,  \* counters[k]: the k-th counter, in the order below
          events,    \* the slots of the ring
          next,      \* the slot to write next
          count,     \* how many slots are in use
          done,      \* done[r]: how many steps of Record r has made
          id,        \* id[r]: the identifier of r's event, 0 before
          summary,   \* summary[s]: the counters reader s has loaded so far
          before,    \* history: before[r], the requests finished before r began
          earlier    \* history: earlier[s], those finished before s began

ringVars == <<events, next, count>>
readerVars == <<summary, earlier>>
vars == <<sequence, counters, ringVars, done, id, before, readerVars>>

capacity == IF Capacity <= 0 THEN 1000 ELSE Capacity
Slots == 0..(capacity - 1)
NoEvent == [request |-> "none", id |-> 0]

(***************************************************************************)
(* requests, errors, streams, cacheHits: the order in which Record adds to *)
(* them and Summary loads them.  Counted[k] are the requests the k-th one  *)
(* counts.                                                                 *)
(***************************************************************************)
Counted == <<Requests, Failed, Streaming, CacheHits>>
Counters == 1..4

\* Steps of Record: the identifier, the counters, the ring.
Counting == 1..4
Entering == 5
Finished == {r \in Requests : done[r] = 6}

\* Types of the ring, of the counters, and of where each Record and Summary is.
TypeOK ==
  /\ sequence \in 0..Cardinality(Requests)
  /\ counters \in [Counters -> 0..Cardinality(Requests)]
  /\ events \in [Slots -> [request : Requests, id : Nat] \cup {NoEvent}]
  /\ next \in Slots
  /\ count \in 0..capacity
  /\ done \in [Requests -> 0..6]
  /\ id \in [Requests -> Nat]
  /\ summary \in [Readers -> Seq(Nat)]
  /\ before \in [Requests -> SUBSET Requests]
  /\ earlier \in [Readers -> SUBSET Requests]

Init ==
  /\ sequence = 0
  /\ counters = [k \in Counters |-> 0]
  /\ events = [i \in Slots |-> NoEvent]
  /\ next = 0
  /\ count = 0
  /\ done = [r \in Requests |-> 0]
  /\ id = [r \in Requests |-> 0]
  /\ summary = [s \in Readers |-> << >>]
  /\ before = [r \in Requests |-> {}]
  /\ earlier = [s \in Readers |-> {}]

Advance(r) == done' = [done EXCEPT ![r] = @ + 1]

-----------------------------------------------------------------------------
(* Record.                                                                 *)

\* Seeded fault: the number of requests serves as the identifier.
TakeIdFromRequests(r) ==
  /\ done[r] = 0
  /\ id' = [id EXCEPT ![r] = counters[1] + 1]
  /\ before' = [before EXCEPT ![r] = Finished]
  /\ Advance(r)
  /\ UNCHANGED <<sequence, counters, ringVars, readerVars>>

TakeId(r) ==
  /\ done[r] = 0
  /\ sequence' = sequence + 1
  /\ id' = [id EXCEPT ![r] = sequence + 1]
  /\ before' = [before EXCEPT ![r] = Finished]
  /\ Advance(r)
  /\ UNCHANGED <<counters, ringVars, readerVars>>

\* Seeded fault: errors are counted for streams only.
CountErrorsOfStreams(r) ==
  /\ done[r] \in Counting
  /\ LET k == done[r]
     IN  counters' = IF r \in Counted[k] /\ (k = 2 => r \in Streaming)
                       THEN [counters EXCEPT ![k] = @ + 1] ELSE counters
  /\ Advance(r)
  /\ UNCHANGED <<sequence, ringVars, id, before, readerVars>>

\* Seeded fault: a counter is set from the event's identifier, not added to.
CountById(r) ==
  /\ done[r] \in Counting
  /\ counters' = [counters EXCEPT ![done[r]] = IF done[r] = 1 THEN id[r] + 1 ELSE @]
  /\ Advance(r)
  /\ UNCHANGED <<sequence, ringVars, id, before, readerVars>>

Count(r) ==
  /\ done[r] \in Counting
  /\ LET k == done[r]
     IN  counters' = IF r \in Counted[k] THEN [counters EXCEPT ![k] = @ + 1]
                     ELSE counters
  /\ Advance(r)
  /\ UNCHANGED <<sequence, ringVars, id, before, readerVars>>

\* Seeded fault: the slot comes from the identifier, not from next.
EnterById(r) ==
  /\ done[r] = Entering
  /\ events' = [events EXCEPT ![(id[r] - 1) % capacity] =
                  [request |-> r, id |-> id[r]]]
  /\ next' = (next + 1) % capacity
  /\ count' = IF count < capacity THEN count + 1 ELSE count
  /\ Advance(r)
  /\ UNCHANGED <<sequence, counters, id, before, readerVars>>

Enter(r) ==
  /\ done[r] = Entering
  /\ events' = [events EXCEPT ![next] = [request |-> r, id |-> id[r]]]
  /\ next' = (next + 1) % capacity
  /\ count' = IF count < capacity THEN count + 1 ELSE count
  /\ Advance(r)
  /\ UNCHANGED <<sequence, counters, id, before, readerVars>>

-----------------------------------------------------------------------------
(* Summary and Recent.                                                     *)

LoadCounter(s) ==
  /\ Len(summary[s]) < 4
  /\ summary' = [summary EXCEPT ![s] = Append(@, counters[Len(@) + 1])]
  /\ earlier' = IF summary[s] = << >> THEN [earlier EXCEPT ![s] = Finished]
                ELSE earlier
  /\ UNCHANGED <<sequence, counters, ringVars, done, id, before>>

\* Seeded fault: a ring that is not full is read from its last slot on.
RecentFromLast(limit) ==
  LET wanted == IF limit <= 0 \/ limit > capacity THEN 100 ELSE limit
      length == IF wanted > count THEN count ELSE wanted
  IN  [n \in 1..length |-> events[(capacity - n) % capacity]]

Recent(limit) ==
  LET wanted == IF limit <= 0 \/ limit > capacity THEN 100 ELSE limit
      length == IF wanted > count THEN count ELSE wanted
  IN  [n \in 1..length |-> events[(next - n + capacity) % capacity]]

Next ==
  \/ \E r \in Requests : TakeId(r) \/ Count(r) \/ Enter(r)
  \/ \E s \in Readers : LoadCounter(s)

Spec == Init /\ [][Next]_vars

-----------------------------------------------------------------------------
(***************************************************************************)
(* The slots in the order they were filled, oldest first.                  *)
(***************************************************************************)
Kept ==
  [n \in 1..count |-> events[(next - count + n - 1 + capacity) % capacity].request]

(***************************************************************************)
(* The ring implements the bounded log, in whatever order the requests     *)
(* come to it: the newest events are kept, none is lost before its time or *)
(* entered twice.                                                          *)
(***************************************************************************)
Log == INSTANCE BoundedLog WITH
  Size <- capacity,
  kept <- Kept,
  pending <- {r \in Requests : done[r] <= Entering}

ImplementsLog == Log!LogSpec

(***************************************************************************)
(* Recent returns the newest events, newest first, as many as were asked   *)
(* for (100 for a limit that makes no sense) and there are, for every      *)
(* limit and filling of the ring.                                          *)
(***************************************************************************)
RecentIsNewest ==
  \A limit \in -1..(capacity + 1) :
    LET recent == Recent(limit)
    IN  /\ Len(recent) <= Len(Kept)
        /\ limit \in 1..capacity => Len(recent) <= limit
        /\ Len(recent) \in {Len(Kept), limit, 100}
        /\ \A n \in DOMAIN recent : recent[n].request = Kept[Len(Kept) - n + 1]

(***************************************************************************)
(* Identifiers are unique, and follow real time: a request that finished   *)
(* recording before another one began has the smaller identifier.  (Among  *)
(* overlapping ones the ring may hold them in another order.)              *)
(***************************************************************************)
IdsFollowRealTime ==
  \A r \in Requests : \A q \in Requests \ {r} :
    done[r] > 0 /\ done[q] > 0 =>
      /\ id[r] # id[q]
      /\ r \in before[q] => id[r] < id[q]

(***************************************************************************)
(* The counters are loaded one by one while requests add to them, so a     *)
(* Summary may show more errors than requests; but each figure counts      *)
(* everybody who had finished before the Summary began, and nobody who has *)
(* not begun.                                                              *)
(***************************************************************************)
SummaryBracketed ==
  \A s \in Readers : \A k \in DOMAIN summary[s] :
    /\ Cardinality(earlier[s] \cap Counted[k]) <= summary[s][k]
    /\ summary[s][k] <= Cardinality({r \in Counted[k] : done[r] > k})

=============================================================================
