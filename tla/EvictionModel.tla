--------------------------- MODULE EvictionModel ----------------------------
(***************************************************************************)
(* internal/eviction/lru.go: what each backend probably still has in its   *)
(* cache, as a list of the prefixes sent to it, least recently used first. *)
(* Every operation holds the lock from beginning to end.                   *)
(***************************************************************************)
EXTENDS Recency, FiniteSetsExt

CONSTANTS ModelBackends,
          Capacities,     \* arguments of Register
          Sent,           \* the hash sequences callers record and ask for
          MaxInserts,     \* bound on the prefixes recorded per registration
          MaxModelTime    \* bound on the clock

ASSUME ModelAssumption ==
  /\ Capacities \subseteq Nat
  /\ \A hashes \in Sent : hashes \in Seq(Nat)
  /\ MaxModelTime \in Nat

VARIABLES cache,          \* registered backend -> its BackendCache
          modelClock      \* time.Now

modelVars == <<cache, modelClock>>

Entries == [hashes : Sent, last : 0..MaxModelTime]

ModelTypeOK ==
  /\ DOMAIN cache \subseteq ModelBackends
  /\ \A b \in DOMAIN cache :
       /\ cache[b].capacity \in Capacities
       /\ cache[b].used \in Nat
       /\ cache[b].entries \in Seq(Entries)
       /\ cache[b].evicted \in Seq(Entries)
  /\ modelClock \in 0..MaxModelTime

ModelInit ==
  /\ cache = [b \in {} |-> {}]
  /\ modelClock = 0

ReadModelClock(now) ==
  now \in {modelClock, modelClock + 1} /\ now <= MaxModelTime /\ modelClock' = now

SumOf(numbers) ==
  LET sum[n \in 0..Len(numbers)] == IF n = 0 THEN 0 ELSE sum[n - 1] + numbers[n]
  IN  sum[Len(numbers)]

Size(entries) == SumOf([n \in DOMAIN entries |-> Len(entries[n].hashes)])

-----------------------------------------------------------------------------
EmptyCache(capacity) ==
  [capacity |-> capacity, used |-> 0, entries |-> << >>, evicted |-> << >>]

Register(b, capacity) ==
  /\ cache' = [c \in DOMAIN cache \cup {b} |->
                 IF c = b THEN EmptyCache(capacity) ELSE cache[c]]
  /\ UNCHANGED modelClock

\* Seeded fault: room is made for what is there, not for what comes.
VictimsWithoutSize(bc, size) ==
  Min({n \in 0..Len(bc.entries) :
         bc.used - Size(SubSeq(bc.entries, 1, n)) <= bc.capacity}
      \cup {Len(bc.entries)})

(***************************************************************************)
(* How many entries RecordInsert evicts, from the front, for size blocks:  *)
(* until there is room or nothing is left.                                 *)
(***************************************************************************)
Victims(bc, size) ==
  Min({n \in 0..Len(bc.entries) :
         bc.used - Size(SubSeq(bc.entries, 1, n)) + size <= bc.capacity}
      \cup {Len(bc.entries)})

Stamped(entries, now) == [n \in DOMAIN entries |-> [entries[n] EXCEPT !.last = now]]

MayInsert(b) ==
  b \in DOMAIN cache /\ Len(cache[b].entries) + Len(cache[b].evicted) < MaxInserts

Inserted(bc, hashes, now, freed, gone) ==
  [bc EXCEPT !.entries = Append(SubSeq(@, Victims(bc, Len(hashes)) + 1, Len(@)),
                                [hashes |-> hashes, last |-> now]),
             !.used = @ - freed + Len(hashes),
             !.evicted = @ \o gone]

Leaving(bc, hashes) == SubSeq(bc.entries, 1, Victims(bc, Len(hashes)))

\* Seeded fault: evicted blocks are subtracted twice.
RecordInsertFreesTwice(b, hashes, now) ==
  /\ MayInsert(b) /\ ReadModelClock(now)
  /\ LET gone == Leaving(cache[b], hashes)
     IN  cache' = [cache EXCEPT ![b] =
                     Inserted(@, hashes, now, 2 * Size(gone), Stamped(gone, now))]

RecordInsert(b, hashes, now) ==
  /\ MayInsert(b) /\ ReadModelClock(now)
  /\ LET gone == Leaving(cache[b], hashes)
     IN  cache' = [cache EXCEPT ![b] =
                     Inserted(@, hashes, now, Size(gone), Stamped(gone, now))]

(***************************************************************************)
(* RecordAccess promotes the first entry that shares any block.            *)
(***************************************************************************)
Sharing(bc, hashes) ==
  {i \in DOMAIN bc.entries :
     ToSet(bc.entries[i].hashes) \cap ToSet(hashes) # {}}

\* Seeded fault: the entry gets its new time but not its new place.
PromotedInPlace(bc, i, now) == [bc EXCEPT !.entries[i].last = now]

Promoted(bc, i, now) ==
  [bc EXCEPT !.entries = Append(RemoveAt(@, i), [@[i] EXCEPT !.last = now])]

RecordAccess(b, hashes, now) ==
  /\ b \in DOMAIN cache
  /\ Sharing(cache[b], hashes) # {}
  /\ ReadModelClock(now)
  /\ cache' = [cache EXCEPT ![b] = Promoted(@, Min(Sharing(@, hashes)), now)]

-----------------------------------------------------------------------------
(* PredictCached, UsageRatio, EvictedSince.  Confidences are fractions     *)
(* <<numerator, denominator>>; the age factor, between one and the floor   *)
(* of one tenth, is an argument.                                           *)

CountMatching(entry, hashes) ==
  Cardinality({i \in DOMAIN entry.hashes : entry.hashes[i] \in ToSet(hashes)})

MatchedBlocks(b, hashes) ==
  IF b \notin DOMAIN cache THEN 0
  ELSE LET entries == cache[b].entries
       IN  SumOf([n \in DOMAIN entries |-> CountMatching(entries[n], hashes)])

PositionScore(bc, i) ==
  LET n == Len(bc.entries)
  IN  IF n <= 1 THEN <<1, 1>> ELSE <<(n - 1) + (i - 1), 2 * (n - 1)>>

\* Seeded fault: a full cache leaves no confidence at all.
PressureScoreSteep(bc) ==
  IF bc.capacity = 0 THEN <<0, 1>> ELSE <<bc.capacity - bc.used, bc.capacity>>

PressureScore(bc) ==
  IF bc.capacity = 0 THEN <<0, 1>> ELSE <<2 * bc.capacity - bc.used, 2 * bc.capacity>>

Times(x, y) == <<x[1] * y[1], x[2] * y[2]>>
AtMost(x, y) == x[1] * y[2] <= y[1] * x[2]

\* The greatest confidence of a matching entry, and zero when all are below.
Confidence(b, hashes, age) ==
  IF b \notin DOMAIN cache THEN <<0, 1>>
  ELSE LET bc  == cache[b]
           all == {<<0, 1>>} \cup
                  {Times(Times(PositionScore(bc, i), PressureScore(bc)), age) :
                     i \in {j \in DOMAIN bc.entries : CountMatching(bc.entries[j], hashes) > 0}}
       IN  CHOOSE x \in all : \A y \in all : AtMost(y, x)

UsageRatio(b) ==
  IF b \notin DOMAIN cache \/ cache[b].capacity = 0 THEN <<0, 1>>
  ELSE <<cache[b].used, cache[b].capacity>>

EvictedSince(b, since) ==
  Without(cache[b].evicted, {e \in ToSet(cache[b].evicted) : e.last < since})

ModelNext ==
  \E b \in ModelBackends :
    \/ \E capacity \in Capacities : Register(b, capacity)
    \/ \E hashes \in Sent, now \in 0..MaxModelTime :
         RecordInsert(b, hashes, now) \/ RecordAccess(b, hashes, now)

ModelSpec == ModelInit /\ [][ModelNext]_modelVars

-----------------------------------------------------------------------------
(***************************************************************************)
(* used is "sum of SizeBlocks across entries", and a backend is over its   *)
(* capacity only when its one entry alone is larger than that.  The        *)
(* entries are "ordered by LastAccess ascending (LRU at index 0)", so what *)
(* RecordInsert evicts from the front is the least recently used, and what *)
(* EvictedSince reports are the latest evictions.                          *)
(***************************************************************************)
UsedIsBounded(bc) ==
  /\ bc.used = Size(bc.entries)
  /\ bc.used <= bc.capacity \/ Len(bc.entries) = 1

LeastRecentFirst(bc) ==
  \A i, j \in DOMAIN bc.entries :
    i < j => bc.entries[i].last <= bc.entries[j].last

CacheListSound ==
  \A b \in DOMAIN cache :
    /\ UsedIsBounded(cache[b])
    /\ LeastRecentFirst(cache[b])
    /\ \A since \in 0..MaxModelTime : IsSuffix(EvictedSince(b, since), cache[b].evicted)

(***************************************************************************)
(* Unless one oversize entry has broken the capacity, the confidence is a  *)
(* probability, and it is zero exactly when nothing matches: even the      *)
(* least recent prefix in a full cache is not given up.                    *)
(***************************************************************************)
ConfidenceTellsMatch ==
  \A b \in ModelBackends, hashes \in Sent, age \in {<<1, 1>>, <<1, 10>>} :
    AtMost(UsageRatio(b), <<1, 1>>) /\ b \in DOMAIN cache /\ cache[b].capacity > 0 =>
      LET c == Confidence(b, hashes, age)
      IN  /\ AtMost(<<0, 1>>, c) /\ AtMost(c, <<1, 1>>)
          /\ c[1] > 0 <=> MatchedBlocks(b, hashes) > 0

=============================================================================
