----------------------------- MODULE RadixTree -----------------------------
(***************************************************************************)
(* internal/radixtree/tree.go: prefixes of block hashes and the backends   *)
(* they were sent to.  A node is named by its path; tree[path] is its      *)
(* Entries.  Every operation holds the lock from beginning to end, so each *)
(* is one step.  HitCount, which nothing reads, is left out.               *)
(***************************************************************************)
EXTENDS Recency, FiniteSetsExt

CONSTANTS TreeBackends,  \* identifiers callers pass
          Hashes,        \* of blocks
          Paths,         \* the hash sequences callers pass, the empty one too
          MaxEvict,      \* bound on the count callers pass to Evict
          MaxTreeTime    \* bound on the clock

ASSUME TreeAssumption ==
  /\ \A path \in Paths : path \in Seq(Hashes)
  /\ MaxTreeTime \in Nat

VARIABLES tree,          \* path -> sequence of [backend, last]
          nodeCount,
          entryCount,
          treeClock,     \* time.Now
          lastUse        \* history: the last Insert or Touch of a live entry

treeVars == <<tree, nodeCount, entryCount, treeClock, lastUse>>

AllPaths == {<< >>} \cup UNION {Prefixes(path) : path \in Paths}
Nodes == DOMAIN tree
Places(node, b) == {i \in DOMAIN node : node[i].backend = b}
Cached(b) == {path \in Nodes : Places(tree[path], b) # {}}

TreeTypeOK ==
  /\ Nodes \subseteq AllPaths
  /\ \A path \in Nodes :
       tree[path] \in Seq([backend : TreeBackends, last : 0..MaxTreeTime])
  /\ nodeCount \in Nat
  /\ entryCount \in Nat
  /\ treeClock \in 0..MaxTreeTime
  /\ lastUse \in [TreeBackends \X Paths -> 0..MaxTreeTime]

TreeInit ==
  /\ tree = [path \in {<< >>} |-> << >>]
  /\ nodeCount = 1
  /\ entryCount = 0
  /\ treeClock = 0
  /\ lastUse = [key \in TreeBackends \X Paths |-> 0]

\* The clock is read under the lock and may stand still between two calls.
Read(now) == now \in treeClock..MaxTreeTime /\ now <= treeClock + 1 /\ treeClock' = now

-----------------------------------------------------------------------------
(* Insert, and TouchEntry for Touch.                                       *)

Grown(path) ==
  [p \in Nodes \cup Prefixes(path) |-> IF p \in Nodes THEN tree[p] ELSE << >>]

Refreshed(node, b, now) == [node EXCEPT ![Min(Places(node, b))].last = now]

\* Seeded fault: a known entry is added once more.
InsertAppends(path, b, now) ==
  /\ Read(now)
  /\ tree' = [Grown(path) EXCEPT ![path] = Append(@, [backend |-> b, last |-> now])]
  /\ entryCount' = entryCount + 1
  /\ nodeCount' = nodeCount + Cardinality(Prefixes(path) \ Nodes)
  /\ lastUse' = [lastUse EXCEPT ![<<b, path>>] = now]

\* Seeded fault: a known entry keeps its time.
InsertWithoutRefresh(path, b, now) ==
  /\ Read(now)
  /\ LET node == Grown(path)[path]
         known == Places(node, b) # {}
     IN  /\ tree' = [Grown(path) EXCEPT ![path] =
                       IF known THEN node
                       ELSE Append(node, [backend |-> b, last |-> now])]
         /\ entryCount' = IF known THEN entryCount ELSE entryCount + 1
  /\ nodeCount' = nodeCount + Cardinality(Prefixes(path) \ Nodes)
  /\ lastUse' = [lastUse EXCEPT ![<<b, path>>] = now]

Insert(path, b, now) ==
  /\ Read(now)
  /\ LET node == Grown(path)[path]
         known == Places(node, b) # {}
     IN  /\ tree' = [Grown(path) EXCEPT ![path] =
                       IF known THEN Refreshed(node, b, now)
                       ELSE Append(node, [backend |-> b, last |-> now])]
         /\ entryCount' = IF known THEN entryCount ELSE entryCount + 1
  /\ nodeCount' = nodeCount + Cardinality(Prefixes(path) \ Nodes)
  /\ lastUse' = [lastUse EXCEPT ![<<b, path>>] = now]

TouchEntry(path, b, now) ==
  /\ path \in Cached(b)
  /\ Read(now)
  /\ tree' = [tree EXCEPT ![path] = Refreshed(@, b, now)]
  /\ lastUse' = [lastUse EXCEPT ![<<b, path>>] = now]
  /\ UNCHANGED <<nodeCount, entryCount>>

-----------------------------------------------------------------------------
(* Evict: the entries of b in the order of their last access.  The walk    *)
(* visits children in the random order of a map, so among equal times any  *)
(* may go first.                                                           *)

Refs(b) == UNION {{<<path, i>> : i \in Places(tree[path], b)} : path \in Nodes}
LastAt(ref) == tree[ref[1]][ref[2]].last

OldestRefs(b, n) ==
  {gone \in kSubset(n, Refs(b)) :
     \A x \in gone, y \in Refs(b) \ gone : LastAt(x) <= LastAt(y)}

\* The entries of a node but those at some places.
Remaining(node, places) ==
  LET rest == Without([i \in DOMAIN node |-> i], places)
  IN  [n \in DOMAIN rest |-> node[rest[n]]]

Pruned(gone) ==
  [path \in Nodes |-> Remaining(tree[path], {i \in DOMAIN tree[path] : <<path, i>> \in gone})]

Forgotten(b, gone) ==
  [key \in DOMAIN lastUse |->
     IF key[1] = b /\ \E ref \in gone : ref[1] = key[2] THEN 0 ELSE lastUse[key]]

\* Seeded fault: the requested number is subtracted, not the evicted one.
EvictSubtractsCount(b, count) ==
  /\ Refs(b) # {}
  /\ \E gone \in OldestRefs(b, Min({count, Cardinality(Refs(b))})) :
       /\ tree' = Pruned(gone)
       /\ lastUse' = Forgotten(b, gone)
  /\ entryCount' = entryCount - count
  /\ UNCHANGED <<nodeCount, treeClock>>

\* Seeded fault: nodes without entries go, with what is below them.
EvictDropsNodes(b, count) ==
  /\ Refs(b) # {}
  /\ LET toEvict == Min({count, Cardinality(Refs(b))})
     IN  /\ \E gone \in OldestRefs(b, toEvict) :
              LET kept == {p \in Nodes : p = << >> \/ Pruned(gone)[p] # << >>}
              IN  /\ tree' = [p \in kept |-> Pruned(gone)[p]]
                  /\ nodeCount' = Cardinality(kept)
                  /\ lastUse' = Forgotten(b, gone)
         /\ entryCount' = entryCount - toEvict
  /\ UNCHANGED treeClock

Evict(b, count) ==
  /\ Refs(b) # {}
  /\ LET toEvict == Min({count, Cardinality(Refs(b))})
     IN  /\ \E gone \in OldestRefs(b, toEvict) :
              /\ tree' = Pruned(gone)
              /\ lastUse' = Forgotten(b, gone)
         /\ entryCount' = entryCount - toEvict
  /\ UNCHANGED <<nodeCount, treeClock>>

-----------------------------------------------------------------------------
(* Lookup walks down the path until a child is missing, and keeps for each *)
(* backend the greatest depth at which it met an entry.                    *)

Visited(path) == {n \in 0..Len(path) : Prefixes(Prefix(path, n)) \subseteq Nodes}
DepthsMet(path, b) == {n \in Visited(path) : Prefix(path, n) \in Cached(b)}

Lookup(path) ==
  [b \in {c \in TreeBackends : DepthsMet(path, c) # {}} |-> Max(DepthsMet(path, b))]

TreeNext ==
  \E b \in TreeBackends :
    \/ \E path \in Paths, now \in 0..MaxTreeTime :
         Insert(path, b, now) \/ TouchEntry(path, b, now)
    \/ \E count \in 1..MaxEvict : Evict(b, count)

TreeSpec == TreeInit /\ [][TreeNext]_treeVars

-----------------------------------------------------------------------------
(***************************************************************************)
(* The counters of Stats, kept without walking the tree, are the nodes and *)
(* the different pairs of a prefix and a backend that a walk would find.   *)
(***************************************************************************)
StatsMatchTree ==
  /\ nodeCount = Cardinality(Nodes)
  /\ entryCount = Cardinality({key \in TreeBackends \X Nodes : key[2] \in Cached(key[1])})

(***************************************************************************)
(* Lookup returns, for every backend with any prefix of the path cached,   *)
(* the longest one, although it only sees what it can walk to: evictions   *)
(* must never cut the way to a longer prefix.                              *)
(***************************************************************************)
LookupIsLongest ==
  \A path \in AllPaths :
    LET known(b) == {n \in 0..Len(path) : Prefix(path, n) \in Cached(b)}
    IN  Lookup(path) =
          [b \in {c \in TreeBackends : known(c) # {}} |-> Max(known(b))]

(***************************************************************************)
(* Evict takes from one backend only, and nothing of it that was inserted  *)
(* or touched after something it leaves.                                   *)
(***************************************************************************)
EvictsLeastRecent ==
  [][\A b \in TreeBackends :
       LET gone == Cached(b) \ Cached(b)'
       IN  gone # {} =>
             /\ \A p \in gone, q \in Cached(b)' : lastUse[<<b, p>>] <= lastUse[<<b, q>>]
             /\ \A c \in TreeBackends \ {b} : Cached(c)' = Cached(c)]_treeVars

=============================================================================
