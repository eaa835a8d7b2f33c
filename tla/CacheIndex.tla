----------------------------- MODULE CacheIndex -----------------------------
(***************************************************************************)
(* internal/cacheindex/index.go: the bounded directory of prefixes that a  *)
(* backend probably holds.  Every operation runs under the index's lock    *)
(* and is one step; the clock moves on between the steps, or does not.     *)
(***************************************************************************)
EXTENDS Integers, FiniteSets, Sequences

CONSTANTS Backends,     \* identifiers that may be registered
          Namespaces,   \* one per model name: "chat:" + model
          Blocks,       \* hashes of the tokenizer's text blocks
          Prompts,      \* the block sequences requests carry, none empty
          Capacity,     \* Capacity[b]: cache_capacity_blocks of b
          MaxClock,     \* bound on clock readings
          MaxSequence   \* bound on the sequence counter

ASSUME PromptAssumption ==
  \A p \in Prompts : p \in Seq(Blocks) /\ p # << >>

ASSUME CapacityAssumption == Capacity \in [Backends -> Int]

ASSUME BoundAssumption == MaxClock \in Nat \ {0} /\ MaxSequence \in Nat

VARIABLES registered,  \* the backends in the index
          entries,     \* entries[b][ns][key]: when the key was last committed
          sequence,    \* the index's commit counter
          clock        \* time.Now(), which never goes back

indexVars == <<registered, entries, sequence, clock>>

Keys == UNION {{SubSeq(p, 1, n) : n \in 1..Len(p)} : p \in Prompts}
EmptyMap == [x \in {} |-> {}]

IndexTypeOK ==
  /\ registered \subseteq Backends
  /\ sequence \in 0..MaxSequence
  /\ clock \in 1..MaxClock
  /\ DOMAIN entries = Backends
  /\ \A b \in Backends :
       /\ DOMAIN entries[b] \subseteq Namespaces
       /\ \A ns \in DOMAIN entries[b] :
            /\ DOMAIN entries[b][ns] \subseteq Keys
            /\ \A key \in DOMAIN entries[b][ns] :
                 entries[b][ns][key] \in [lastSeen : 1..clock,
                                          sequence : 1..sequence]

IndexInit ==
  /\ registered = {}
  /\ entries = [b \in Backends |-> EmptyMap]
  /\ sequence = 0
  /\ clock = 1

-----------------------------------------------------------------------------
(* Helpers on one backend's map of namespaces.                             *)

Slots(map) == UNION {{<<ns, key>> : key \in DOMAIN map[ns]} : ns \in DOMAIN map}

At(map, slot) == map[slot[1]][slot[2]]

(***************************************************************************)
(* evictOldest's order: the older timestamp goes first, and the smaller    *)
(* sequence number among equal timestamps.                                 *)
(***************************************************************************)
\* Seeded fault: ties between equal timestamps are not broken.
OlderByTime(e, f) == e.lastSeen < f.lastSeen

Older(e, f) ==
  \/ e.lastSeen < f.lastSeen
  \/ e.lastSeen = f.lastSeen /\ e.sequence < f.sequence

(***************************************************************************)
(* The loop of Commit that calls evictOldest while the directory is over   *)
(* its capacity: what is left are the entries with fewer than capacity     *)
(* newer ones, and a namespace goes with its last entry.                   *)
(***************************************************************************)
Survivors(map, capacity) ==
  {slot \in Slots(map) :
     Cardinality({newer \in Slots(map) : Older(At(map, slot), At(map, newer))})
       < capacity}

EvictOldest(map, capacity) ==
  LET left == Survivors(map, capacity)
  IN  [ns \in {m \in DOMAIN map :
                 DOMAIN map[m] = {} \/ \E slot \in left : slot[1] = m} |->
         [key \in {k \in DOMAIN map[ns] : <<ns, k>> \in left} |-> map[ns][key]]]

(***************************************************************************)
(* Commit's loop over cumulativeKeys: the n-th prefix of the prompt gets   *)
(* the n-th next sequence number, whether it is new or known.              *)
(***************************************************************************)
\* Seeded fault: the n-th prefix is numbered from the counter's next value.
ObserveAhead(map, ns, blocks) ==
  LET keys == {SubSeq(blocks, 1, n) : n \in 1..Len(blocks)}
      known == IF ns \in DOMAIN map THEN map[ns] ELSE EmptyMap
  IN  [m \in DOMAIN map \cup {ns} |->
         IF m # ns THEN map[m]
         ELSE [key \in DOMAIN known \cup keys |->
                 IF key \in keys
                   THEN [lastSeen |-> clock, sequence |-> sequence + Len(key) + 1]
                   ELSE known[key]]]

\* Seeded fault: known prefixes keep their old place in the order.
ObserveNewOnly(map, ns, blocks) ==
  LET known == IF ns \in DOMAIN map THEN map[ns] ELSE EmptyMap
      keys  == {SubSeq(blocks, 1, n) : n \in 1..Len(blocks)}
      seen  == [key \in keys |-> [lastSeen |-> clock,
                                  sequence |-> sequence + Len(key)]]
  IN  [m \in DOMAIN map \cup {ns} |->
         IF m # ns THEN map[m]
         ELSE [key \in DOMAIN known \cup keys |->
                 IF key \in DOMAIN known THEN known[key] ELSE seen[key]]]

Observe(map, ns, blocks) ==
  LET known == IF ns \in DOMAIN map THEN map[ns] ELSE EmptyMap
      keys  == {SubSeq(blocks, 1, n) : n \in 1..Len(blocks)}
      seen  == [key \in keys |-> [lastSeen |-> clock,
                                  sequence |-> sequence + Len(key)]]
  IN  [m \in DOMAIN map \cup {ns} |->
         IF m # ns THEN map[m]
         ELSE [key \in DOMAIN known \cup keys |->
                 IF key \in keys THEN seen[key] ELSE known[key]]]

-----------------------------------------------------------------------------
(* The operations.                                                         *)

RegisterBackend(b) ==
  /\ registered' = registered \cup {b}
  /\ entries' = [entries EXCEPT ![b] = EmptyMap]
  /\ UNCHANGED <<sequence, clock>>

Commit(b, ns, blocks) ==
  /\ b \in registered /\ Capacity[b] > 0
  /\ sequence + Len(blocks) <= MaxSequence
  /\ entries' = [entries EXCEPT ![b] = EvictOldest(Observe(@, ns, blocks), Capacity[b])]
  /\ sequence' = sequence + Len(blocks)
  /\ UNCHANGED <<registered, clock>>

ClockAdvances ==
  /\ clock < MaxClock
  /\ clock' = clock + 1
  /\ UNCHANGED <<registered, entries, sequence>>

(***************************************************************************)
(* Lookup walks the cumulative keys and stops at the first unknown one: it *)
(* counts those that are known together with all the shorter ones.         *)
(***************************************************************************)
LookupPrefix(b, ns, blocks) ==
  IF b \notin registered \/ ns \notin DOMAIN entries[b] THEN 0
  ELSE Cardinality({n \in 1..Len(blocks) :
                     \A k \in 1..n : SubSeq(blocks, 1, k) \in DOMAIN entries[b][ns]})

TotalEntries(b) == Cardinality(Slots(entries[b]))

IndexNext ==
  \/ \E b \in Backends :
       \/ RegisterBackend(b)
       \/ \E ns \in Namespaces, p \in Prompts : Commit(b, ns, p)
  \/ ClockAdvances

IndexSpec == IndexInit /\ [][IndexNext]_indexVars

-----------------------------------------------------------------------------
(***************************************************************************)
(* The maps with their timestamps and sequence numbers behave as the list  *)
(* ordered by last commit: equal timestamps never confuse the eviction.    *)
(***************************************************************************)
InOrder(map) ==
  CHOOSE list \in [1..Cardinality(Slots(map)) -> Slots(map)] :
    \A i, j \in DOMAIN list :
      i < j => list[i] # list[j] /\ ~Older(At(map, list[j]), At(map, list[i]))

RecencyList(b) == InOrder(entries[b])

Directory == INSTANCE LruDirectory WITH
  recency <- [b \in Backends |-> RecencyList(b)]

\* Register and Commit implement the list of the last commits, per backend.
ImplementsLru == Directory!LruSpec

CapacityRespected ==
  \A b \in Backends :
    entries[b] # EmptyMap => TotalEntries(b) <= Capacity[b]

NoEmptyNamespace ==
  \A b \in Backends : \A ns \in DOMAIN entries[b] : DOMAIN entries[b][ns] # {}

ReportsTheList ==
  \A b \in registered :
    /\ TotalEntries(b) = Directory!Used(b)
    /\ \A ns \in Namespaces, p \in Prompts :
         LookupPrefix(b, ns, p) = Directory!Match(b, ns, p)

(***************************************************************************)
(* Bounded memory: the directory never keeps more blocks of a backend than *)
(* configured, all namespaces together, and a namespace is in the map only *)
(* while it has entries (model names are chosen by callers).  And what     *)
(* Lookup and Usage report of the maps is what the router expects of the   *)
(* list.                                                                   *)
(***************************************************************************)
DirectorySound == CapacityRespected /\ NoEmptyNamespace /\ ReportsTheList

=============================================================================
