---------------------------- MODULE PackageProofs ---------------------------
(***************************************************************************)
(* Theorems about the packages without goroutines: every configuration     *)
(* that is accepted can be run with, whatever it lists; the scorer's two   *)
(* rankings are one policy, for any weights and figures; the cache index,  *)
(* with its maps, timestamps and sequence numbers, implements the list     *)
(* ordered by last commit, for any prompts and capacities; the radix tree  *)
(* keeps its books, its lookups and the order of its evictions; the        *)
(* eviction model its lists, its bound and its confidence; and two         *)
(* conversations share as many blocks as their texts do, for any messages. *)
(***************************************************************************)
EXTENDS MCPackages, RecencyProofs

-----------------------------------------------------------------------------
(* The configuration.                                                      *)

LEMMA EmptySeq ==
  ASSUME NEW S, NEW s \in Seq(S), Len(s) = 0
  PROVE  s = << >>
OBVIOUS

\* The pool keeps an entry per backend because identifiers differ.
LEMMA PoolEntry ==
  ASSUME NEW backends \in Seq(BackendEntries),
         \A i, j \in DOMAIN backends : backends[i].id = backends[j].id => i = j,
         NEW i \in DOMAIN backends
  PROVE  NewPool(backends)[backends[i].id] = Pooled(backends[i])
<1> DEFINE id == backends[i].id
           k == CHOOSE j \in DOMAIN backends : backends[j].id = id
<1>1. k \in DOMAIN backends /\ backends[k].id = id
  OBVIOUS
<1>2. k = i
  BY <1>1
<1>3. NewPool(backends)[id] = Pooled(backends[k])
  BY DEF NewPool
<1> QED BY <1>2, <1>3

(***************************************************************************)
(* What LoadConfig returns suits NewPool, whose checks are its own, and    *)
(* the assumptions of the modules about the other packages.                *)
(***************************************************************************)
THEOREM AcceptedFilesAreUsable ==
  ASSUME NEW input \in {<< >>} \cup {<<c>> : c \in Decoded}
  PROVE  AcceptedIsUsable(input)
<1> SUFFICES ASSUME LoadConfig(input) # << >>
             PROVE  Usable(LoadConfig(input)[1])
  BY DEF AcceptedIsUsable
<1>1. PICK raw \in Decoded : input = <<raw>>
  BY DEF LoadConfig
<1> DEFINE c == Defaulted(raw)
<1>2. LoadConfig(input) = <<c>> /\ Validate(c)
  BY <1>1 DEF LoadConfig
<1>3. /\ c.backends \in Seq(BackendEntries)
      /\ c.blockSize \in Int
      /\ c.scorer \in [Factors -> Weights]
  BY DEF Defaulted, Decoded, DefaultBlockSize, DefaultWeights, Factors, Weights
<1> HIDE DEF c
<1>4. /\ c.blockSize > 0 /\ c.backends # << >>
      /\ \A f \in Factors : c.scorer[f] # << >> /\ c.scorer[f][1] >= 0
  BY <1>2, Zenon DEF Validate
<1>5. ASSUME NEW f \in Factors
      PROVE  c.scorer[f] # << >> /\ c.scorer[f][1] \in Nat
  <2>1. c.scorer[f] \in Weights
    BY <1>3
  <2>2. PICK n \in Int : c.scorer[f] = <<n>>
    BY <1>4, <2>1 DEF Weights
  <2>3. n >= 0
    BY <1>4, <2>2
  <2> QED BY <2>2, <2>3
<1>6. \A i \in DOMAIN c.backends :
        /\ BackendValid(c.backends[i])
        /\ \A j \in DOMAIN c.backends : c.backends[i].id = c.backends[j].id => i = j
  BY <1>2, Zenon DEF Validate
<1>7. PoolAccepts(c.backends)
  BY <1>6 DEF PoolAccepts, BackendValid
<1>8. DOMAIN c.backends # {}
  <2>1. Len(c.backends) \in Nat /\ DOMAIN c.backends = 1..Len(c.backends)
    BY <1>3
  <2>2. Len(c.backends) # 0
    BY <1>3, <1>4, EmptySeq
  <2>3. 1 \in 1..Len(c.backends)
    <3> DEFINE n == Len(c.backends)
    <3>1. n \in Nat /\ n # 0
      BY <2>1, <2>2
    <3> HIDE DEF n
    <3>2. 1 \in 1..n
      BY <3>1
    <3> QED BY <3>2 DEF n
  <2> QED BY <2>1, <2>3
<1>9. ASSUME NEW i \in DOMAIN c.backends
      PROVE  LET b == c.backends[i] IN
             /\ b.capacity \in Nat \ {0}
             /\ NewPool(c.backends)[b.id] = Pooled(b)
             /\ Pooled(b).limit \in Nat \ {0} /\ Pooled(b).interval \in Nat \ {0}
  <2> DEFINE b == c.backends[i]
  <2>1. b \in BackendEntries
    BY <1>3
  <2>2. NewPool(c.backends)[b.id] = Pooled(b)
    BY <1>3, <1>6, PoolEntry
  <2>3. BackendValid(b)
    BY <1>6
  <2> HIDE DEF b
  <2>4. b.capacity \in Int /\ b.maxConcurrent \in Int /\ b.interval \in Int
    BY <2>1 DEF BackendEntries
  <2>5. b.capacity > 0 /\ b.maxConcurrent >= 0 /\ b.interval >= 0
    BY <2>3, Zenon DEF BackendValid
  <2>6. b.capacity \in Nat \ {0}
    BY <2>4, <2>5
  <2>7. Pooled(b).limit \in Nat \ {0} /\ Pooled(b).interval \in Nat \ {0}
    BY <2>4, <2>5 DEF Pooled, DefaultMaxConcurrent, DefaultInterval
  <2> QED BY <2>2, <2>6, <2>7 DEF b
<1>10. Usable(c)
  BY <1>3, <1>4, <1>5, <1>7, <1>8, <1>9 DEF Usable
<1> QED BY <1>2, <1>10

-----------------------------------------------------------------------------
(* The scorer: what Exceeds and Equals say of exact scores.                *)

\* The handler's states, and the list of them, in the order of the identifiers.
BackendStates ==
  [id : Nat, matched : Nat, depth : Nat, maxDepth : Nat, used : Nat,
   capacity : Nat, healthy : BOOLEAN]

Listed(list) ==
  /\ list \in Seq(BackendStates)
  /\ \A i, j \in DOMAIN list : i < j => list[i].id < list[j].id

LEMMA Product ==
  ASSUME NEW a \in Nat \ {0}, NEW b \in Nat \ {0}
  PROVE  a * b \in Nat \ {0}
OBVIOUS

LEMMA ScoreType ==
  ASSUME NEW blocks \in Nat, NEW s \in BackendStates
  PROVE  Score(blocks, s)[1] \in Int /\ Score(blocks, s)[2] \in Nat \ {0}
<1> DEFINE hit == <<s.matched, Total(blocks)>>
           queue == Ratio(s.depth, s.maxDepth)
           risk == Ratio(s.used, s.capacity)
<1>1. /\ hit[1] \in Int /\ hit[2] \in Nat \ {0}
      /\ queue[1] \in Int /\ queue[2] \in Nat \ {0}
      /\ risk[1] \in Int /\ risk[2] \in Nat \ {0}
  BY DEF BackendStates, Total, Ratio
<1>2. /\ Score(blocks, s)[1] = CacheHitWeight * hit[1] * queue[2] * risk[2]
                               - QueueDepthWeight * queue[1] * hit[2] * risk[2]
                               - EvictionRiskWeight * risk[1] * hit[2] * queue[2]
      /\ Score(blocks, s)[2] = hit[2] * queue[2] * risk[2]
  BY DEF Score
<1> HIDE DEF hit, queue, risk
<1>3. /\ CacheHitWeight \in Int /\ QueueDepthWeight \in Int /\ EvictionRiskWeight \in Int
      /\ hit[2] \in Int /\ queue[2] \in Int /\ risk[2] \in Int
  BY <1>1, WeightAssumption
<1>4. Score(blocks, s)[1] \in Int
  BY <1>1, <1>2, <1>3
<1>5. Score(blocks, s)[2] \in Nat \ {0}
  BY <1>1, <1>2, Product
<1> QED BY <1>4, <1>5

\* The sign of a difference of fractions, from two others.
LEMMA Signs ==
  ASSUME NEW p \in Nat \ {0}, NEW q \in Nat \ {0}, NEW r \in Nat \ {0},
         NEW a \in Int, NEW b \in Int, NEW c \in Int,
         q * c = r * a + p * b, a >= 0, b >= 0
  PROVE  /\ c >= 0
         /\ a > 0 \/ b > 0 => c > 0
         /\ a = 0 /\ b = 0 => c = 0
<1>1. r * a >= 0 /\ (a > 0 => r * a > 0) /\ (a = 0 => r * a = 0)
  OBVIOUS
<1>2. p * b >= 0 /\ (b > 0 => p * b > 0) /\ (b = 0 => p * b = 0)
  OBVIOUS
<1>3. (c < 0 => q * c < 0) /\ (c = 0 => q * c = 0) /\ (c > 0 => q * c > 0)
  OBVIOUS
<1>4. r * a \in Int /\ p * b \in Int /\ q * c \in Int
  OBVIOUS
<1> QED BY <1>1, <1>2, <1>3, <1>4

\* Exceeds is transitive, also along Equals.
LEMMA FractionsOrdered ==
  ASSUME NEW x1 \in Int, NEW x2 \in Nat \ {0}, NEW y1 \in Int, NEW y2 \in Nat \ {0},
         NEW z1 \in Int, NEW z2 \in Nat \ {0},
         x1 * y2 >= y1 * x2, y1 * z2 >= z1 * y2
  PROVE  /\ x1 * z2 >= z1 * x2
         /\ x1 * y2 > y1 * x2 \/ y1 * z2 > z1 * y2 => x1 * z2 > z1 * x2
         /\ x1 * y2 = y1 * x2 /\ y1 * z2 = z1 * y2 => x1 * z2 = z1 * x2
<1> DEFINE a == x1 * y2 - y1 * x2
           b == y1 * z2 - z1 * y2
           c == x1 * z2 - z1 * x2
<1>1. y2 * c = z2 * a + x2 * b
  OBVIOUS
<1>2. a \in Int /\ b \in Int /\ c \in Int /\ a >= 0 /\ b >= 0
  OBVIOUS
<1>3. /\ a > 0 <=> x1 * y2 > y1 * x2
      /\ b > 0 <=> y1 * z2 > z1 * y2
      /\ c > 0 <=> x1 * z2 > z1 * x2
      /\ c >= 0 <=> x1 * z2 >= z1 * x2
      /\ a = 0 <=> x1 * y2 = y1 * x2
      /\ b = 0 <=> y1 * z2 = z1 * y2
      /\ c = 0 <=> x1 * z2 = z1 * x2
  OBVIOUS
<1> HIDE DEF a, b, c
<1> QED BY <1>1, <1>2, <1>3, Signs

-----------------------------------------------------------------------------
(* The order of Rank.                                                      *)

\* A set of states whose identifiers differ.
Fleet(S) == S \subseteq BackendStates /\ \A s, t \in S : s.id = t.id => s = t

LEMMA BeforeIsOrder ==
  ASSUME NEW blocks \in Nat, NEW fleet, NEW S, Fleet(S)
  PROVE  /\ \A s \in S : ~Before(blocks, fleet, s, s)
         /\ \A s, t, u \in S :
              Before(blocks, fleet, s, t) /\ Before(blocks, fleet, t, u)
                => Before(blocks, fleet, s, u)
         /\ \A s, t \in S :
              s = t \/ Before(blocks, fleet, s, t) \/ Before(blocks, fleet, t, s)
<1> DEFINE n(s) == Score(blocks, s)[1]
           d(s) == Score(blocks, s)[2]
<1>1. \A s \in S : n(s) \in Int /\ d(s) \in Nat \ {0} /\ s.id \in Nat /\ s.depth \in Nat
  BY ScoreType DEF Fleet, BackendStates
<1>2. \A s, t \in S : s.id = t.id => s = t
  BY DEF Fleet
<1>3. CASE ~AnyCacheHit(fleet)
  <2>1. \A s, t \in S : Before(blocks, fleet, s, t) <=> ByDepth(s, t)
    BY <1>3 DEF Before
  <2> QED BY <1>1, <1>2, <2>1 DEF ByDepth
<1>4. CASE AnyCacheHit(fleet)
  <2>1. \A s, t \in S : Before(blocks, fleet, s, t) <=>
          n(s) * d(t) > n(t) * d(s) \/ (n(s) * d(t) = n(t) * d(s) /\ s.id < t.id)
    BY <1>4 DEF Before, Exceeds, Equals
  <2> HIDE DEF n, d
  <2>2. \A s, t \in S : n(s) * d(t) \in Int
    BY <1>1
  <2>3. \A s \in S : ~Before(blocks, fleet, s, s)
    BY <1>1, <2>1, <2>2
  <2>4. \A s, t \in S :
          s = t \/ Before(blocks, fleet, s, t) \/ Before(blocks, fleet, t, s)
    <3> SUFFICES ASSUME NEW s \in S, NEW t \in S, s # t
                 PROVE  Before(blocks, fleet, s, t) \/ Before(blocks, fleet, t, s)
      OBVIOUS
    <3>1. s.id < t.id \/ t.id < s.id
      BY <1>1, <1>2
    <3> QED BY <2>1, <2>2, <3>1
  <2>5. ASSUME NEW s \in S, NEW t \in S, NEW u \in S,
               Before(blocks, fleet, s, t), Before(blocks, fleet, t, u)
        PROVE  Before(blocks, fleet, s, u)
    <3>1. n(s) * d(t) >= n(t) * d(s) /\ n(t) * d(u) >= n(u) * d(t)
      BY <2>1, <2>2, <2>5
    <3>2. /\ n(s) * d(u) >= n(u) * d(s)
          /\ (n(s) * d(t) > n(t) * d(s) \/ n(t) * d(u) > n(u) * d(t)
                => n(s) * d(u) > n(u) * d(s))
      BY <1>1, <3>1, FractionsOrdered
    <3>3. \/ n(s) * d(t) > n(t) * d(s) \/ n(t) * d(u) > n(u) * d(t)
          \/ s.id < t.id /\ t.id < u.id
      BY <2>1, <2>5
    <3>4. s.id < t.id /\ t.id < u.id => s.id < u.id
      BY <1>1
    <3> QED BY <2>1, <2>2, <3>2, <3>3, <3>4
  <2> QED BY <2>3, <2>4, <2>5
<1> QED BY <1>3, <1>4

Orders(R, S) ==
  /\ \A s \in S : <<s, s>> \notin R
  /\ \A s, t, u \in S : <<s, t>> \in R /\ <<t, u>> \in R => <<s, u>> \in R
  /\ \A s, t \in S : s = t \/ <<s, t>> \in R \/ <<t, s>> \in R

SortedBy(f, R) == \A i, j \in DOMAIN f : i < j => <<f[i], f[j]>> \in R

\* A finite set under a strict total order can be listed in that order: each
\* element at the place that the number of those before it gives.
LEMMA OrderedListExists ==
  ASSUME NEW S, IsFiniteSet(S), NEW R, Orders(R, S)
  PROVE  \E f \in [1..Cardinality(S) -> S] : SortedBy(f, R)
<1> DEFINE n == Cardinality(S)
           Smaller(s) == {t \in S : <<t, s>> \in R}
           rank == [s \in S |-> Cardinality(Smaller(s)) + 1]
<1>1. n \in Nat
  BY FS_CardinalityType
<1>2. \A s \in S : /\ Smaller(s) \subseteq S /\ Smaller(s) # S
                   /\ IsFiniteSet(Smaller(s)) /\ Cardinality(Smaller(s)) \in Nat
                   /\ Cardinality(Smaller(s)) < n
  <2> SUFFICES ASSUME NEW s \in S
               PROVE  /\ Smaller(s) \subseteq S /\ Smaller(s) # S
                      /\ IsFiniteSet(Smaller(s)) /\ Cardinality(Smaller(s)) \in Nat
                      /\ Cardinality(Smaller(s)) < n
    OBVIOUS
  <2>1. Smaller(s) \subseteq S /\ Smaller(s) # S
    BY DEF Orders
  <2> HIDE DEF Smaller
  <2> QED BY <2>1, FS_Subset, FS_CardinalityType
<1>3. ASSUME NEW s \in S, NEW t \in S, <<s, t>> \in R
      PROVE  Cardinality(Smaller(s)) < Cardinality(Smaller(t))
  <2>1. Smaller(s) \subseteq Smaller(t) /\ s \in Smaller(t) /\ s \notin Smaller(s)
    BY <1>3 DEF Orders
  <2>2. IsFiniteSet(Smaller(t))
    BY <1>2
  <2> HIDE DEF Smaller
  <2>3. Smaller(s) # Smaller(t)
    BY <2>1
  <2>4. Cardinality(Smaller(s)) \in Nat /\ Cardinality(Smaller(t)) \in Nat
    BY <1>2
  <2> QED BY <2>1, <2>2, <2>3, <2>4, FS_Subset
<1> HIDE DEF Smaller
<1>4. rank \in [S -> 1..n]
  BY <1>1, <1>2
<1>5. \A s, t \in S : <<s, t>> \in R => rank[s] < rank[t]
  BY <1>2, <1>3
<1> HIDE DEF rank
<1>6. rank \in Injection(S, 1..n)
  <2>1. \A s, t \in S : rank[s] = rank[t] => s = t
    <3> SUFFICES ASSUME NEW s \in S, NEW t \in S, s # t
                 PROVE  rank[s] # rank[t]
      OBVIOUS
    <3>1. rank[s] < rank[t] \/ rank[t] < rank[s]
      BY <1>5 DEF Orders
    <3> QED BY <1>1, <1>4, <3>1
  <2> QED BY <1>4, <2>1 DEF Injection, IsInjective
<1>7. IsFiniteSet(1..n) /\ Cardinality(1..n) = n
  BY <1>1, FS_Interval
<1>8. rank \in Surjection(S, 1..n)
  BY <1>6, <1>7, FS_Injection
<1>9. \A i \in 1..n : \E s \in S : rank[s] = i
  BY <1>8 DEF Surjection
<1> DEFINE f == [i \in 1..n |-> CHOOSE s \in S : rank[s] = i]
<1>10. \A i \in 1..n : f[i] \in S /\ rank[f[i]] = i
  BY <1>9
<1>11. f \in [1..n -> S]
  BY <1>10
<1> HIDE DEF f
<1>12. ASSUME NEW i \in 1..n, NEW j \in 1..n, i < j
       PROVE  <<f[i], f[j]>> \in R
  <2>1. f[i] \in S /\ f[j] \in S /\ rank[f[i]] = i /\ rank[f[j]] = j
    BY <1>10
  <2>2. f[i] # f[j]
    BY <1>12, <2>1
  <2>3. <<f[j], f[i]>> \notin R
    BY <1>5, <1>12, <2>1
  <2> QED BY <2>1, <2>2, <2>3 DEF Orders
<1>13. DOMAIN f = 1..n
  BY <1>11
<1> QED BY <1>11, <1>12, <1>13 DEF n, SortedBy

\* The order as a set of pairs.
Preceding(blocks, fleet, S) ==
  {p \in S \X S : Before(blocks, fleet, p[1], p[2])}

\* What Rank yields: the healthy backends, each before those behind it.
LEMMA RankIsSorted ==
  ASSUME NEW blocks \in Nat, NEW fleet, IsFiniteSet(fleet), Fleet(fleet)
  PROVE  LET ranked == Rank(blocks, fleet)
         IN  /\ ranked \in Seq(Healthy(fleet))
             /\ Len(ranked) = Cardinality(Healthy(fleet))
             /\ ToSet(ranked) = Healthy(fleet)
             /\ \A i, j \in DOMAIN ranked :
                  i < j => Before(blocks, fleet, ranked[i], ranked[j])
<1> DEFINE H == Healthy(fleet)
           n == Cardinality(H)
           R == Preceding(blocks, fleet, H)
           ranked == Rank(blocks, fleet)
<1>1. H \subseteq fleet /\ IsFiniteSet(H) /\ n \in Nat /\ Fleet(H)
  <2>1. H \subseteq fleet
    BY DEF Healthy
  <2> HIDE DEF H
  <2> QED BY <2>1, FS_Subset, FS_CardinalityType DEF Fleet
<1> HIDE DEF H
<1>2. \A s, t \in H : <<s, t>> \in R <=> Before(blocks, fleet, s, t)
  BY DEF Preceding
<1>3. \E f \in [1..n -> H] : SortedBy(f, R)
  <2> HIDE DEF R, n
  <2>1. /\ \A s \in H : ~Before(blocks, fleet, s, s)
        /\ \A s, t, u \in H :
             Before(blocks, fleet, s, t) /\ Before(blocks, fleet, t, u)
               => Before(blocks, fleet, s, u)
        /\ \A s, t \in H :
             s = t \/ Before(blocks, fleet, s, t) \/ Before(blocks, fleet, t, s)
    BY <1>1, BeforeIsOrder
  <2>2. Orders(R, H)
    BY <1>2, <2>1 DEF Orders
  <2> QED BY <1>1, <2>2, OrderedListExists, Zenon DEF n
<1>4. \E f \in [1..n -> H] :
        \A i, j \in DOMAIN f : i < j => Before(blocks, fleet, f[i], f[j])
  <2> HIDE DEF R, n
  <2>1. PICK f \in [1..n -> H] : SortedBy(f, R)
    BY <1>3
  <2>2. \A i \in DOMAIN f : f[i] \in H
    BY <2>1
  <2> QED BY <1>2, <2>1, <2>2 DEF SortedBy
<1>5. /\ ranked \in [1..n -> H]
      /\ \A i, j \in DOMAIN ranked : i < j => Before(blocks, fleet, ranked[i], ranked[j])
  BY <1>4, Zenon DEF Rank, H
<1> HIDE DEF ranked
<1>6. ranked \in Seq(H) /\ Len(ranked) = n
  BY <1>1, <1>5
<1>7. ToSet(ranked) = H
  <2>1. \A s, t \in H : Before(blocks, fleet, s, t) => s # t
    BY <1>1, BeforeIsOrder
  <2>2. \A i, j \in 1..n : ranked[i] = ranked[j] => i = j
    <3> SUFFICES ASSUME NEW i \in 1..n, NEW j \in 1..n, i # j
                 PROVE  ranked[i] # ranked[j]
      OBVIOUS
    <3>1. i < j \/ j < i
      BY <1>1
    <3>2. DOMAIN ranked = 1..n /\ ranked[i] \in H /\ ranked[j] \in H
      BY <1>5
    <3> QED BY <1>5, <2>1, <3>1, <3>2
  <2>3. ranked \in Injection(1..n, H)
    BY <1>5, <2>2 DEF Injection, IsInjective
  <2>4. IsFiniteSet(1..n) /\ Cardinality(1..n) = n
    BY <1>1, FS_Interval
  <2>5. ranked \in Surjection(1..n, H)
    BY <1>1, <2>3, <2>4, FS_Injection
  <2>6. \A s \in H : \E i \in 1..n : ranked[i] = s
    BY <2>5 DEF Surjection
  <2> QED BY <1>5, <2>6 DEF ToSet
<1> QED BY <1>5, <1>6, <1>7 DEF ranked, H, n

LEMMA CertainIsBefore ==
  ASSUME NEW blocks \in Nat, NEW fleet, NEW s \in BackendStates, NEW t \in BackendStates
  PROVE  /\ CertainlyBefore(blocks, fleet, s, t) => Before(blocks, fleet, s, t)
         /\ Before(blocks, fleet, s, t) /\ ~Tied(blocks, s, t)
              => CertainlyBefore(blocks, fleet, s, t)
<1>1. SameFigures(s, t) => Score(blocks, s) = Score(blocks, t)
  <2> SUFFICES ASSUME SameFigures(s, t)
               PROVE  Score(blocks, s) = Score(blocks, t)
    OBVIOUS
  <2>1. /\ s.matched = t.matched /\ s.depth = t.depth /\ s.maxDepth = t.maxDepth
        /\ s.used = t.used /\ s.capacity = t.capacity
    BY DEF SameFigures, BackendStates
  <2> QED BY <2>1 DEF Score
<1>2. SameFigures(s, t) => Equals(Score(blocks, s), Score(blocks, t))
  BY <1>1 DEF Equals
<1> QED BY <1>2 DEF CertainlyBefore, Before, ByScore, Tied

\* Which places are best does not depend on where they are.
LEMMA BestIsUnpreceded ==
  ASSUME NEW blocks \in Nat, NEW list \in Seq(BackendStates),
         NEW i \in DOMAIN list, NEW j \in DOMAIN list
  PROVE  LET fleet == ToSet(list)
         IN  /\ Better(blocks, list, list[j], list[i])
                  => Before(blocks, fleet, list[j], list[i])
             /\ Before(blocks, fleet, list[j], list[i])
                  => \/ Better(blocks, list, list[j], list[i])
                     \/ list[j].id < list[i].id
BY DEF Better, Before, ByDepth

LEMMA ListedFleet ==
  ASSUME NEW list, Listed(list)
  PROVE  /\ IsFiniteSet(ToSet(list)) /\ Fleet(ToSet(list))
         /\ \A i, j \in DOMAIN list : list[i].id < list[j].id => i < j
         /\ \A i, j \in DOMAIN list : list[i] = list[j] => i = j
<1>1. /\ list \in Seq(BackendStates) /\ DOMAIN list = 1..Len(list) /\ Len(list) \in Nat
      /\ \A i \in DOMAIN list : list[i] \in BackendStates
  BY DEF Listed
<1>2. \A i \in DOMAIN list : list[i].id \in Nat
  BY <1>1 DEF BackendStates
<1>3. \A i, j \in DOMAIN list : i # j => list[i].id # list[j].id
  <2> SUFFICES ASSUME NEW i \in DOMAIN list, NEW j \in DOMAIN list, i # j
               PROVE  list[i].id # list[j].id
    OBVIOUS
  <2>1. i < j \/ j < i
    BY <1>1
  <2>2. list[i].id < list[j].id \/ list[j].id < list[i].id
    BY <2>1 DEF Listed
  <2> QED BY <1>1, <1>2, <2>2
<1>4. \A i, j \in DOMAIN list : list[i].id < list[j].id => i < j
  <2> SUFFICES ASSUME NEW i \in DOMAIN list, NEW j \in DOMAIN list,
                      list[i].id < list[j].id
               PROVE  i < j
    OBVIOUS
  <2>1. i # j /\ ~ (j < i)
    BY <1>1, <1>2 DEF Listed
  <2> QED BY <1>1, <2>1
<1>5. ToSet(list) \subseteq BackendStates
  BY <1>1 DEF ToSet
<1>6. Fleet(ToSet(list))
  BY <1>3, <1>5 DEF Fleet, ToSet
<1>7. IsFiniteSet(ToSet(list))
  BY <1>1, ElementsCount
<1> QED BY <1>3, <1>4, <1>6, <1>7

\* Route's scan finds the backend that Rank puts first.
LEMMA RouteIsHead ==
  ASSUME NEW blocks \in Nat, NEW list, Listed(list)
  PROVE  LET ranked == Rank(blocks, ToSet(list))
         IN  Route(blocks, list) = IF ranked = << >> THEN NoBackend ELSE ranked[1].id
<1> DEFINE fleet == ToSet(list)
           ranked == Rank(blocks, fleet)
           best == BestPlaces(blocks, list)
           before(i, j) == Before(blocks, fleet, list[i], list[j])
<1>1. /\ list \in Seq(BackendStates) /\ DOMAIN list \subseteq Int
      /\ IsFiniteSet(fleet) /\ Fleet(fleet)
      /\ \A i, j \in DOMAIN list : list[i].id < list[j].id => i < j
      /\ \A i, j \in DOMAIN list : list[i] = list[j] => i = j
  BY ListedFleet DEF Listed
<1>2. /\ ranked \in Seq(Healthy(fleet)) /\ ToSet(ranked) = Healthy(fleet)
      /\ \A i, j \in DOMAIN ranked :
           i < j => Before(blocks, fleet, ranked[i], ranked[j])
  BY <1>1, RankIsSorted
<1>3. best \subseteq DOMAIN list /\ \A i \in best : list[i].healthy
  BY DEF BestPlaces
<1>4. \A i \in DOMAIN list : list[i].healthy => list[i] \in Healthy(fleet)
  BY DEF Healthy, ToSet
<1>5. Route(blocks, list) =
        IF best = {} THEN NoBackend ELSE list[CHOOSE i \in best : \A j \in best : i <= j].id
  BY DEF Route
<1> HIDE DEF ranked
<1>6. CASE ranked = << >>
  <2>1. Healthy(fleet) = {}
    BY <1>2, <1>6 DEF ToSet
  <2>2. best = {}
    BY <1>3, <1>4, <2>1
  <2> QED BY <1>5, <1>6, <2>2 DEF ranked
<1>7. CASE ranked # << >>
  <2>1. 1 \in DOMAIN ranked /\ DOMAIN ranked = 1..Len(ranked) /\ Len(ranked) \in Nat
    BY <1>2, <1>7, EmptySeq
  <2>2. ranked[1] \in Healthy(fleet)
    BY <1>2, <2>1
  <2>3. PICK k \in DOMAIN list : list[k] = ranked[1]
    BY <2>2 DEF Healthy, ToSet
  <2>4. list[k].healthy
    BY <2>2, <2>3 DEF Healthy
  <2>5. \A j \in DOMAIN list : list[j].healthy /\ j # k => before(k, j)
    <3> SUFFICES ASSUME NEW j \in DOMAIN list, list[j].healthy, j # k
                 PROVE  before(k, j)
      OBVIOUS
    <3>1. list[j] \in Healthy(fleet)
      BY <1>4
    <3>2. PICK m \in DOMAIN ranked : ranked[m] = list[j]
      BY <1>2, <3>1 DEF ToSet
    <3>3. m # 1
      BY <1>1, <2>3, <3>2
    <3>4. 1 < m
      BY <2>1, <3>3
    <3>5. Before(blocks, fleet, ranked[1], ranked[m])
      BY <1>2, <2>1, <3>4
    <3> QED BY <2>3, <3>2, <3>5
  <2>6. \A j \in DOMAIN list : list[j] \in fleet
    BY DEF ToSet
  <2>7. \A j \in DOMAIN list : before(k, j) => ~before(j, k)
    BY <1>1, <2>6, BeforeIsOrder
  <2>8. \A j \in DOMAIN list : ~before(j, j)
    BY <1>1, <2>6, BeforeIsOrder
  <2>9. \A j \in DOMAIN list :
          list[j].healthy => ~Better(blocks, list, list[j], list[k])
    BY <1>1, <2>5, <2>7, <2>8, BestIsUnpreceded
  <2>10. k \in best
    BY <2>4, <2>9 DEF BestPlaces
  <2>11. \A j \in best : k <= j
    <3> SUFFICES ASSUME NEW j \in best, j # k
                 PROVE  k < j
      BY <1>1, <1>3
    <3>1. j \in DOMAIN list /\ list[j].healthy
      BY <1>3
    <3>2. ~Better(blocks, list, list[k], list[j])
      BY <2>4 DEF BestPlaces
    <3>3. list[k].id < list[j].id
      BY <1>1, <2>5, <3>1, <3>2, BestIsUnpreceded
    <3> QED BY <1>1, <3>1, <3>3
  <2> DEFINE first == CHOOSE i \in best : \A j \in best : i <= j
  <2>12. first \in best /\ \A j \in best : first <= j
    <3> HIDE DEF best
    <3> QED BY <2>10, <2>11
  <2> HIDE DEF best
  <2>13. first = k
    <3> HIDE DEF first
    <3> QED BY <1>1, <1>3, <2>10, <2>11, <2>12
  <2>14. Route(blocks, list) = list[k].id
    BY <1>5, <2>10, <2>13
  <2> QED BY <1>7, <2>3, <2>14 DEF ranked
<1> QED BY <1>6, <1>7 DEF ranked

\* The head of what is left of the ranking may come next, and without ties
\* around it nothing else may.
LEMMA HeadComesNext ==
  ASSUME NEW blocks \in Nat, NEW fleet, IsFiniteSet(fleet), Fleet(fleet)
  PROVE  LET ranked == Rank(blocks, fleet)
         IN  \A i \in DOMAIN ranked :
               LET rest  == {ranked[j] : j \in i..Len(ranked)}
                   offer == MayComeNext(blocks, fleet, rest)
               IN  /\ ranked[i] \in offer
                   /\ (\A s, t \in rest : ~Tied(blocks, s, t)) => offer = {ranked[i]}
<1> DEFINE ranked == Rank(blocks, fleet)
<1>1. /\ ranked \in Seq(Healthy(fleet))
      /\ \A i, j \in DOMAIN ranked :
           i < j => Before(blocks, fleet, ranked[i], ranked[j])
  BY RankIsSorted
<1>2. Healthy(fleet) \subseteq fleet /\ fleet \subseteq BackendStates
  BY DEF Healthy, Fleet
<1> HIDE DEF ranked
<1> SUFFICES ASSUME NEW i \in DOMAIN ranked
             PROVE  LET rest  == {ranked[j] : j \in i..Len(ranked)}
                        offer == MayComeNext(blocks, fleet, rest)
                    IN  /\ ranked[i] \in offer
                        /\ (\A s, t \in rest : ~Tied(blocks, s, t)) => offer = {ranked[i]}
  BY DEF ranked
<1> DEFINE rest == {ranked[j] : j \in i..Len(ranked)}
           offer == MayComeNext(blocks, fleet, rest)
<1>3. /\ DOMAIN ranked = 1..Len(ranked) /\ Len(ranked) \in Nat
      /\ \A j \in DOMAIN ranked : ranked[j] \in fleet
  BY <1>1, <1>2
<1>4. /\ i \in i..Len(ranked) /\ i..Len(ranked) \subseteq DOMAIN ranked
      /\ \A j \in i..Len(ranked) : j = i \/ i < j
  BY <1>3
<1>5. ranked[i] \in rest /\ rest \subseteq fleet
  BY <1>3, <1>4
<1>6. \A t \in rest \ {ranked[i]} : Before(blocks, fleet, ranked[i], t)
  BY <1>1, <1>4
<1> HIDE DEF rest
<1>7. \A t \in rest \ {ranked[i]} : ~Before(blocks, fleet, t, ranked[i])
  <2>1. \A s, t \in fleet :
          Before(blocks, fleet, s, t) => ~Before(blocks, fleet, t, s)
    BY BeforeIsOrder
  <2> QED BY <1>5, <1>6, <2>1
<1>8. ranked[i] \in offer
  <2>1. \A t \in rest \ {ranked[i]} : ~CertainlyBefore(blocks, fleet, t, ranked[i])
    BY <1>2, <1>5, <1>7, CertainIsBefore
  <2> QED BY <1>5, <2>1 DEF MayComeNext
<1>9. ASSUME \A s, t \in rest : ~Tied(blocks, s, t), NEW s \in offer
      PROVE  s = ranked[i]
  <2> SUFFICES ASSUME s # ranked[i] PROVE FALSE
    OBVIOUS
  <2>1. s \in rest /\ \A t \in rest \ {s} : ~CertainlyBefore(blocks, fleet, t, s)
    BY DEF MayComeNext
  <2>2. Before(blocks, fleet, ranked[i], s) /\ ~Tied(blocks, ranked[i], s)
    BY <1>5, <1>6, <1>9, <2>1
  <2>3. CertainlyBefore(blocks, fleet, ranked[i], s)
    BY <1>2, <1>5, <2>1, <2>2, CertainIsBefore
  <2> QED BY <1>5, <2>1, <2>3
<1> QED BY <1>8, <1>9 DEF rest

(***************************************************************************)
(* For any weights, figures and number of backends, listed in the order of *)
(* their identifiers as the handler does: Route picks the head of Rank,    *)
(* and Rank takes the backends in an order that the router allows for.     *)
(***************************************************************************)
THEOREM RankingsAreOnePolicy ==
  ASSUME NEW blocks \in Nat, NEW list, Listed(list)
  PROVE  OnePolicy(blocks, list)
<1>1. IsFiniteSet(ToSet(list)) /\ Fleet(ToSet(list))
  BY ListedFleet
<1> QED BY <1>1, RouteIsHead, HeadComesNext DEF OnePolicy

\* What Score makes of the figures when no bound is zero.
LEMMA ScoreOf ==
  ASSUME NEW blocks \in Nat, NEW s \in BackendStates, s.maxDepth > 0, s.capacity > 0
  PROVE  Score(blocks, s) =
           << CacheHitWeight * s.matched * s.maxDepth * s.capacity
                - QueueDepthWeight * s.depth * Total(blocks) * s.capacity
                - EvictionRiskWeight * s.used * Total(blocks) * s.maxDepth,
              Total(blocks) * s.maxDepth * s.capacity >>
BY DEF Score, Ratio

\* Weighted sums of three figures over three bounds, with the first one's total.
LEMMA BetterSum ==
  ASSUME NEW wh \in Nat \ {0}, NEW wq \in Nat \ {0}, NEW wr \in Nat, NEW t \in Nat \ {0},
         NEW m \in Nat, NEW d \in Nat, NEW D \in Nat \ {0}, NEW u \in Nat, NEW c \in Nat \ {0},
         NEW n \in Nat, NEW e \in Nat, NEW E \in Nat \ {0}, NEW v \in Nat, NEW k \in Nat \ {0},
         m >= n, d <= e, D >= E, u * k <= v * c, m > n \/ d < e
  PROVE  (wh * m * D * c - wq * d * t * c - wr * u * t * D) * (t * E * k)
           > (wh * n * E * k - wq * e * t * k - wr * v * t * E) * (t * D * c)
<1> DEFINE hit == (m - n) * (wh * (D * c) * (E * k))
           queue == (e * D - d * E) * (wq * t * (c * k))
           risk == (v * c - u * k) * (wr * t * (D * E))
           left == (wh * m * D * c - wq * d * t * c - wr * u * t * D) * (t * E * k)
           right == (wh * n * E * k - wq * e * t * k - wr * v * t * E) * (t * D * c)
<1>1. left - right = t * (hit + queue + risk)
  OBVIOUS
<1>2. left \in Int /\ right \in Int /\ hit \in Int /\ queue \in Int /\ risk \in Int
  OBVIOUS
<1>3. wh * (D * c) * (E * k) \in Nat \ {0} /\ wq * t * (c * k) \in Nat \ {0}
  BY Product
<1>4. wr * t * (D * E) \in Nat
  OBVIOUS
<1>5. e * D - d * E \in Nat /\ (d < e => e * D - d * E > 0)
  <2>1. e * D >= e * E /\ e * E >= d * E /\ (d < e => e * E > d * E)
    OBVIOUS
  <2>2. e * D \in Int /\ e * E \in Int /\ d * E \in Int
    OBVIOUS
  <2> QED BY <2>1, <2>2
<1>6. v * c - u * k \in Nat /\ m - n \in Nat
  OBVIOUS
<1>7. hit >= 0 /\ (m > n => hit > 0)
  <2>1. PICK w \in Nat \ {0} : w = wh * (D * c) * (E * k)
    BY <1>3
  <2>2. hit = (m - n) * w
    BY <2>1
  <2> HIDE DEF hit
  <2> QED BY <1>6, <2>2
<1>8. queue >= 0 /\ (d < e => queue > 0)
  <2>1. PICK w \in Nat \ {0} : w = wq * t * (c * k)
    BY <1>3
  <2>2. PICK x \in Nat : x = e * D - d * E
    BY <1>5
  <2>3. queue = x * w /\ (d < e => x > 0)
    BY <1>5, <2>1, <2>2
  <2> HIDE DEF queue
  <2> QED BY <2>3
<1>9. risk >= 0
  <2>1. PICK w \in Nat : w = wr * t * (D * E)
    BY <1>4
  <2>2. PICK x \in Nat : x = v * c - u * k
    BY <1>6
  <2>3. risk = x * w
    BY <2>1, <2>2
  <2> HIDE DEF risk
  <2> QED BY <2>3
<1> HIDE DEF left, right, hit, queue, risk
<1>10. PICK sum \in Nat \ {0} : sum = hit + queue + risk
  BY <1>2, <1>7, <1>8, <1>9
<1>11. t * sum > 0
  BY Product
<1>12. left > right
  BY <1>1, <1>2, <1>10, <1>11
<1> QED BY <1>12 DEF left, right

(***************************************************************************)
(* With positive weights for hits and queues, no backend is tried before   *)
(* another one that matches at least as much, has a queue and a directory  *)
(* no fuller, and is ahead in matches or queue, whatever else it weighs.   *)
(* A bound of zero, for which Ratio drops the figure, ranks by the others. *)
(***************************************************************************)
THEOREM DominatedIsLater ==
  ASSUME CacheHitWeight > 0, QueueDepthWeight > 0,
         NEW blocks \in Nat, NEW list, Listed(list)
  PROVE  DominatedLater(blocks, list)
<1> DEFINE fleet == ToSet(list)
           ranked == Rank(blocks, fleet)
<1>1. IsFiniteSet(fleet) /\ Fleet(fleet)
  BY ListedFleet
<1>2. /\ ranked \in Seq(Healthy(fleet))
      /\ \A i, j \in DOMAIN ranked :
           i < j => Before(blocks, fleet, ranked[i], ranked[j])
  BY <1>1, RankIsSorted
<1>3. \A s \in fleet : s \in BackendStates
  BY <1>1 DEF Fleet, ToSet
<1>4. ASSUME NEW s \in Healthy(fleet), NEW t \in Healthy(fleet), Dominates(s, t)
      PROVE  Before(blocks, fleet, s, t)
  <2>1. s \in BackendStates /\ t \in BackendStates /\ s \in fleet /\ t \in fleet
        /\ s.healthy /\ t.healthy
    BY <1>3 DEF Healthy
  <2>2. CASE ~AnyCacheHit(fleet)
    <3>1. s.matched = 0 /\ t.matched = 0
      BY <2>1, <2>2 DEF AnyCacheHit, BackendStates
    <3>2. s.depth < t.depth
      BY <1>4, <3>1 DEF Dominates
    <3> QED BY <2>2, <3>2 DEF Before, ByDepth
  <2>3. CASE AnyCacheHit(fleet)
    <3>1. Total(blocks) \in Nat \ {0}
      BY DEF Total
    <3>2. /\ CacheHitWeight \in Nat \ {0} /\ QueueDepthWeight \in Nat \ {0}
          /\ EvictionRiskWeight \in Nat
      BY WeightAssumption
    <3>3. /\ s.matched \in Nat /\ s.depth \in Nat /\ s.maxDepth \in Nat \ {0}
          /\ s.used \in Nat /\ s.capacity \in Nat \ {0}
          /\ t.matched \in Nat /\ t.depth \in Nat /\ t.maxDepth \in Nat \ {0}
          /\ t.used \in Nat /\ t.capacity \in Nat \ {0}
      BY <1>3, <1>4, <2>1 DEF BackendStates, Dominates
    <3>4. /\ s.matched >= t.matched /\ s.depth <= t.depth /\ s.maxDepth >= t.maxDepth
          /\ s.used * t.capacity <= t.used * s.capacity
          /\ s.matched > t.matched \/ s.depth < t.depth
      BY <1>4 DEF Dominates
    <3>5. (CacheHitWeight * s.matched * s.maxDepth * s.capacity
             - QueueDepthWeight * s.depth * Total(blocks) * s.capacity
             - EvictionRiskWeight * s.used * Total(blocks) * s.maxDepth)
            * (Total(blocks) * t.maxDepth * t.capacity)
          > (CacheHitWeight * t.matched * t.maxDepth * t.capacity
               - QueueDepthWeight * t.depth * Total(blocks) * t.capacity
               - EvictionRiskWeight * t.used * Total(blocks) * t.maxDepth)
              * (Total(blocks) * s.maxDepth * s.capacity)
      BY <3>1, <3>2, <3>3, <3>4, BetterSum, ZenonT(120)
    <3>6. Exceeds(Score(blocks, s), Score(blocks, t))
      BY <1>3, <2>1, <3>3, <3>5, ScoreOf DEF Exceeds
    <3> QED BY <2>3, <3>6 DEF Before
  <2> QED BY <2>2, <2>3
<1> HIDE DEF ranked
<1>5. ASSUME NEW i \in DOMAIN ranked, NEW j \in DOMAIN ranked,
             Dominates(ranked[i], ranked[j]), ~ (i < j)
      PROVE  FALSE
  <2>1. /\ ranked[i] \in Healthy(fleet) /\ ranked[j] \in Healthy(fleet)
        /\ ranked[i] \in fleet /\ ranked[j] \in fleet
    BY <1>2 DEF Healthy
  <2>2. Before(blocks, fleet, ranked[i], ranked[j])
    BY <1>4, <1>5, <2>1
  <2>3. i = j \/ j < i
    BY <1>2, <1>5
  <2>4. ~Before(blocks, fleet, ranked[j], ranked[i]) /\ ranked[i] # ranked[j]
    BY <1>1, <2>1, <2>2, BeforeIsOrder
  <2> QED BY <1>2, <2>3, <2>4
<1> QED BY <1>5 DEF DominatedLater, ranked

(***************************************************************************)
(* For any figures, zero bounds and empty requests included, a score is a  *)
(* number.                                                                 *)
(***************************************************************************)
THEOREM NothingDividesByZero ==
  ASSUME NEW blocks \in Nat, NEW list, Listed(list)
  PROVE  ScoresAreNumbers(blocks, list)
<1> SUFFICES ASSUME NEW i \in DOMAIN list, NEW n \in {0, blocks}
             PROVE  Score(n, list[i])[2] > 0
  BY DEF ScoresAreNumbers
<1>1. list[i] \in BackendStates /\ n \in Nat
  BY DEF Listed
<1>2. Score(n, list[i])[2] \in Nat \ {0}
  BY <1>1, ScoreType
<1> QED BY <1>2

\* The lists MCPackages builds, one backend at a time.
Grows == Listed(states) /\ \A i \in DOMAIN states : states[i].id = i

LEMMA FiguresAreStates ==
  ASSUME RequestBlocks \in Nat, NEW f \in Figures, NEW n \in Nat
  PROVE  WithId(f, n) \in BackendStates /\ WithId(f, n).id = n
<1>1. /\ f.matched \in Nat /\ f.depth \in Nat /\ f.maxDepth \in Nat
      /\ f.used \in Nat /\ f.capacity \in Nat /\ f.healthy \in BOOLEAN
  <2>1. CASE f \in [matched : 0..RequestBlocks, depth : 0..1, maxDepth : {2, 4},
                    used : {2, 4}, capacity : {4}, healthy : BOOLEAN]
    BY <2>1
  <2>2. CASE f \in [matched : {1}, depth : 0..1, maxDepth : {0, 2}, used : {2},
                    capacity : {0, 4}, healthy : {TRUE}]
    <3>1. /\ f.matched \in {1} /\ f.depth \in 0..1 /\ f.maxDepth \in {0, 2}
          /\ f.used \in {2} /\ f.capacity \in {0, 4}
      BY <2>2
    <3>2. f.healthy \in {TRUE}
      BY <2>2, Zenon
    <3>3. f.healthy \in BOOLEAN
      BY <3>2, Zenon
    <3>4. /\ f.matched \in Nat /\ f.depth \in Nat /\ f.maxDepth \in Nat
          /\ f.used \in Nat /\ f.capacity \in Nat
      BY <3>1
    <3> QED BY <3>3, <3>4
  <2> QED BY <2>1, <2>2 DEF Figures
<1> QED BY <1>1 DEF WithId, BackendStates

LEMMA AddBackendGrows ==
  ASSUME RequestBlocks \in Nat, Grows, AddBackend
  PROVE  Grows'
<1>1. PICK f \in Figures : states' = Append(states, WithId(f, Len(states) + 1))
  BY DEF AddBackend
<1>2. PICK n : n = Len(states) + 1
  OBVIOUS
<1>3. PICK last : last = WithId(f, n)
  OBVIOUS
<1>4. states \in Seq(BackendStates) /\ Len(states) \in Nat /\ DOMAIN states = 1..Len(states)
  BY DEF Grows, Listed
<1>5. n \in Nat /\ last \in BackendStates /\ last.id = n
  BY <1>2, <1>3, <1>4, FiguresAreStates
<1>6. /\ states' \in Seq(BackendStates) /\ DOMAIN states' = 1..n
      /\ \A i \in 1..n : states'[i] = IF i = n THEN last ELSE states[i]
  BY <1>1, <1>2, <1>3, <1>4, <1>5
<1>7. ASSUME NEW i \in 1..n
      PROVE  states'[i].id = i
  <2>1. CASE i = n
    BY <1>5, <1>6, <2>1
  <2>2. CASE i # n
    <3>1. i \in DOMAIN states
      BY <1>2, <1>4, <2>2
    <3> QED BY <1>6, <2>2, <3>1 DEF Grows
  <2> QED BY <2>1, <2>2
<1>8. \A i, j \in DOMAIN states' : i < j => states'[i].id < states'[j].id
  BY <1>6, <1>7
<1> QED BY <1>6, <1>7, <1>8 DEF Grows, Listed

(***************************************************************************)
(* Whatever lists the handler builds from healthy and unhealthy, warm and  *)
(* loaded backends, however long: Route picks the head of Rank, the router *)
(* may follow Rank, and no backend comes before a better one.              *)
(***************************************************************************)
THEOREM RankingsAlwaysAgree ==
  ASSUME CacheHitWeight > 0, QueueDepthWeight > 0, RequestBlocks \in Nat
  PROVE  Spec => []RankingsAgree
<1>1. Init => Grows
  BY DEF Init, Grows, Listed
<1>2. ASSUME Grows, [Next]_vars
      PROVE  Grows'
  <2>1. AddBackend \/ UNCHANGED states
    BY <1>2 DEF Next, ReadFile, AddMessage, UseIndex, UseTree, UseModel, vars
  <2>2. CASE UNCHANGED states
    BY <1>2, <2>2 DEF Grows, Listed
  <2> QED BY <1>2, <2>1, <2>2, AddBackendGrows
<1>3. Grows => RankingsAgree
  BY NothingDividesByZero, RankingsAreOnePolicy, DominatedIsLater
     DEF Grows, RankingsAgree
<1> QED BY <1>1, <1>2, <1>3, PTL DEF Spec

-----------------------------------------------------------------------------
(* A directory in order.                                                   *)

LEMMA InSlots ==
  ASSUME NEW map, NEW s
  PROVE  s \in Slots(map)
           <=> \E ns \in DOMAIN map : \E key \in DOMAIN map[ns] : s = <<ns, key>>
BY DEF Slots

\* The earlier of two entries has the smaller number and no later timestamp.
Earlier(e, f) == e.sequence < f.sequence /\ e.lastSeen <= f.lastSeen

Agrees(map) ==
  {pair \in Slots(map) \X Slots(map) : Earlier(At(map, pair[1]), At(map, pair[2]))}

IndexKeys == Namespaces \X Seq(Blocks)

\* The list has the slots of the map in an order numbers and times agree on.
Lists(list, map) ==
  /\ list \in Seq(IndexKeys)
  /\ ToSet(list) = Slots(map)
  /\ Ordered(list, Agrees(map))

EntriesTyped(map) ==
  \A s \in Slots(map) : At(map, s) \in [lastSeen : Int, sequence : Int]

LEMMA EarlierIsOlder ==
  ASSUME NEW e \in [lastSeen : Int, sequence : Int],
         NEW f \in [lastSeen : Int, sequence : Int], Earlier(e, f)
  PROVE  Older(e, f) /\ ~Older(f, e) /\ e # f
BY DEF Earlier, Older

\* What an enumeration in order is.
IsInOrder(list, map) ==
  /\ list \in [1..Cardinality(Slots(map)) -> Slots(map)]
  /\ \A i, j \in DOMAIN list :
       i < j => list[i] # list[j] /\ ~Older(At(map, list[j]), At(map, list[i]))

LEMMA ListedDiffer ==
  ASSUME NEW map, EntriesTyped(map), NEW list, Lists(list, map)
  PROVE  /\ Ordered(list, Different(IndexKeys))
         /\ IsFiniteSet(Slots(map)) /\ Cardinality(Slots(map)) = Len(list)
         /\ \A i, j \in DOMAIN list : i < j =>
              /\ list[i] # list[j]
              /\ Older(At(map, list[i]), At(map, list[j]))
              /\ ~Older(At(map, list[j]), At(map, list[i]))
<1>1. list \in Seq(IndexKeys) /\ ToSet(list) = Slots(map)
  BY DEF Lists
<1>2. ASSUME NEW i \in DOMAIN list, NEW j \in DOMAIN list, i < j
      PROVE  /\ list[i] # list[j] /\ list[i] \in IndexKeys /\ list[j] \in IndexKeys
             /\ Older(At(map, list[i]), At(map, list[j]))
             /\ ~Older(At(map, list[j]), At(map, list[i]))
  <2>1. list[i] \in Slots(map) /\ list[j] \in Slots(map)
    BY <1>1 DEF ToSet
  <2>2. Earlier(At(map, list[i]), At(map, list[j]))
    BY <1>2 DEF Lists, Ordered, Agrees
  <2> QED BY <1>1, <2>1, <2>2, EarlierIsOlder DEF EntriesTyped
<1>3. Ordered(list, Different(IndexKeys))
  BY <1>2 DEF Ordered, Different
<1>4. IsFiniteSet(Slots(map)) /\ Cardinality(Slots(map)) = Len(list)
  BY <1>1, <1>3, ElementsCount
<1> QED BY <1>2, <1>3, <1>4

(***************************************************************************)
(* There is one way to put a directory in order: where two lists first     *)
(* differ, each would have to hold the other's element later on.           *)
(***************************************************************************)
LEMMA OneOrder ==
  ASSUME NEW map, EntriesTyped(map), NEW list, Lists(list, map),
         NEW twin, IsInOrder(twin, map)
  PROVE  twin = list
<1> DEFINE n == Len(list)
           S == Slots(map)
<1>1. /\ list \in Seq(IndexKeys) /\ n \in Nat /\ DOMAIN list = 1..n
      /\ IsFiniteSet(S) /\ Cardinality(S) = n
      /\ \A i \in 1..n : list[i] \in S
      /\ \A x \in S : \E i \in 1..n : list[i] = x
      /\ \A i, j \in 1..n : i < j =>
           list[i] # list[j] /\ Older(At(map, list[i]), At(map, list[j]))
  <2>1. list \in Seq(IndexKeys) /\ ToSet(list) = S
    BY DEF Lists
  <2>2. n \in Nat /\ DOMAIN list = 1..n
    BY <2>1
  <2>3. /\ IsFiniteSet(S) /\ Cardinality(S) = n
        /\ \A i, j \in 1..n : i < j =>
             list[i] # list[j] /\ Older(At(map, list[i]), At(map, list[j]))
    BY <2>2, ListedDiffer
  <2> QED BY <2>1, <2>2, <2>3 DEF ToSet
<1>2. /\ twin \in [1..n -> S]
      /\ \A i, j \in 1..n : i < j =>
           twin[i] # twin[j] /\ ~Older(At(map, twin[j]), At(map, twin[i]))
  BY <1>1 DEF IsInOrder
<1> HIDE DEF n, S
<1>3. \A x \in S : \E i \in 1..n : twin[i] = x
  <2>1. IsFiniteSet(1..n) /\ Cardinality(1..n) = n
    <3>1. 1 \in Int /\ n \in Int /\ n >= 0
      BY <1>1
    <3>2. IsFiniteSet(1..n) /\ Cardinality(1..n) = IF 1 > n THEN 0 ELSE n - 1 + 1
      BY <3>1, FS_Interval
    <3> QED BY <3>1, <3>2
  <2>2. \A i, j \in 1..n : twin[i] = twin[j] => i = j
    <3>1. \A i, j \in 1..n : i < j \/ j < i \/ i = j
      BY <1>1
    <3> QED BY <1>2, <3>1
  <2>3. twin \in Injection(1..n, S)
    BY <1>2, <2>2 DEF Injection, IsInjective
  <2>4. twin \in Surjection(1..n, S)
    BY <1>1, <2>1, <2>3, FS_Injection
  <2> QED BY <2>4 DEF Surjection
<1>4. ASSUME NEW i \in 1..n, \A k \in 1..n : k < i => twin[k] = list[k]
      PROVE  twin[i] = list[i]
  <2> SUFFICES ASSUME twin[i] # list[i] PROVE FALSE
    OBVIOUS
  <2>1. PICK j \in 1..n : list[j] = twin[i]
    BY <1>1, <1>2
  <2>2. PICK k \in 1..n : twin[k] = list[i]
    BY <1>1, <1>3
  <2>3. i < j
    <3>1. j # i
      BY <2>1
    <3>2. ~ (j < i)
      BY <1>2, <1>4, <2>1
    <3> QED BY <1>1, <3>1, <3>2
  <2>4. i < k
    <3>1. k # i
      BY <2>2
    <3>2. ~ (k < i)
      BY <1>1, <1>4, <2>2
    <3> QED BY <1>1, <3>1, <3>2
  <2>5. Older(At(map, list[i]), At(map, list[j]))
    BY <1>1, <2>3
  <2>6. ~Older(At(map, twin[k]), At(map, twin[i]))
    BY <1>2, <2>4
  <2> QED BY <2>1, <2>2, <2>5, <2>6
<1>5. \A i \in 1..n : twin[i] = list[i]
  <2> DEFINE Differ == {i \in 1..n : twin[i] # list[i]}
  <2> SUFFICES ASSUME Differ # {} PROVE FALSE
    OBVIOUS
  <2>1. Differ \subseteq Nat
    BY <1>1
  <2>2. PICK i \in Differ : \A k \in Differ : i <= k
    <3> HIDE DEF Differ
    <3> QED BY <2>1, SmallestInSet
  <2>3. \A k \in 1..n : k < i => twin[k] = list[k]
    BY <1>1, <2>2
  <2> QED BY <1>4, <2>2, <2>3
<1>6. twin \in Seq(S) /\ Len(twin) = n
  BY <1>1, <1>2
<1>7. list \in Seq(S) /\ Len(list) = n
  BY <1>1 DEF n
<1> QED BY <1>5, <1>6, <1>7

LEMMA InOrderIsTheList ==
  ASSUME NEW map, EntriesTyped(map), NEW list, Lists(list, map)
  PROVE  InOrder(map) = list
<1>1. IsInOrder(list, map)
  <2>1. list \in Seq(IndexKeys) /\ ToSet(list) = Slots(map)
    BY DEF Lists
  <2>2. /\ DOMAIN list = 1..Cardinality(Slots(map))
        /\ \A i, j \in DOMAIN list : i < j =>
             list[i] # list[j] /\ ~Older(At(map, list[j]), At(map, list[i]))
    BY <2>1, ListedDiffer
  <2>3. list \in [1..Cardinality(Slots(map)) -> Slots(map)]
    BY <2>1, <2>2 DEF ToSet
  <2> QED BY <2>2, <2>3 DEF IsInOrder
<1>2. IsInOrder(InOrder(map), map)
  <2>1. \E l \in [1..Cardinality(Slots(map)) -> Slots(map)] :
          \A i, j \in DOMAIN l :
            i < j => l[i] # l[j] /\ ~Older(At(map, l[j]), At(map, l[i]))
    BY <1>1 DEF IsInOrder
  <2> QED BY <2>1, Zenon DEF InOrder, IsInOrder
<1> QED BY <1>2, OneOrder

-----------------------------------------------------------------------------
(* What Commit does to the maps, and to the list.                          *)

MapTyped(map) ==
  /\ DOMAIN map \subseteq Namespaces
  /\ \A ns \in DOMAIN map :
       /\ DOMAIN map[ns] \subseteq Keys /\ DOMAIN map[ns] # {}
       /\ \A key \in DOMAIN map[ns] :
            map[ns][key] \in [lastSeen : 1..clock, sequence : 1..sequence]

Counters == sequence \in Nat /\ clock \in Nat \ {0}

LEMMA TypedEntries ==
  ASSUME Counters, NEW map, MapTyped(map)
  PROVE  /\ EntriesTyped(map)
         /\ \A s \in Slots(map) : /\ At(map, s).sequence <= sequence
                                  /\ At(map, s).lastSeen <= clock
<1> SUFFICES ASSUME NEW s \in Slots(map)
             PROVE  /\ At(map, s) \in [lastSeen : Int, sequence : Int]
                    /\ At(map, s).sequence <= sequence
                    /\ At(map, s).lastSeen <= clock
  BY DEF EntriesTyped
<1>0. PICK ns \in DOMAIN map : \E key \in DOMAIN map[ns] : s = <<ns, key>>
  BY InSlots
<1>1. PICK key \in DOMAIN map[ns] : s = <<ns, key>>
  BY <1>0
<1>2. At(map, s) = map[ns][key]
  BY <1>1 DEF At
<1>3. map[ns][key] \in [lastSeen : 1..clock, sequence : 1..sequence]
  BY DEF MapTyped
<1> QED BY <1>2, <1>3 DEF Counters

LEMMA PromptType ==
  ASSUME NEW p \in Prompts, NEW n \in 1..Len(p)
  PROVE  p \in Seq(Blocks) /\ Prefix(p, n) \in Seq(Blocks) /\ Len(Prefix(p, n)) = n
BY PromptAssumption, PrefixType

LEMMA PromptKeys ==
  ASSUME NEW ns \in Namespaces, NEW p \in Prompts
  PROVE  PrefixKeys(ns, p) \subseteq IndexKeys
BY PromptType DEF PrefixKeys, IndexKeys

Cuts(p) == {Prefix(p, n) : n \in 1..Len(p)}

\* The map in which the keys of p are the newest of ns, and nothing else is new.
IsObserved(observed, map, ns, p) ==
  /\ DOMAIN observed = DOMAIN map \cup {ns}
  /\ \A m \in DOMAIN map \ {ns} : observed[m] = map[m]
  /\ DOMAIN observed[ns] = (IF ns \in DOMAIN map THEN DOMAIN map[ns] ELSE {}) \cup Cuts(p)
  /\ \A n \in 1..Len(p) :
       observed[ns][Prefix(p, n)] = [lastSeen |-> clock, sequence |-> sequence + n]
  /\ \A key \in DOMAIN observed[ns] \ Cuts(p) :
       ns \in DOMAIN map /\ observed[ns][key] = map[ns][key]

LEMMA ObserveMap ==
  ASSUME Counters, NEW map, MapTyped(map), NEW ns \in Namespaces, NEW p \in Prompts
  PROVE  IsObserved(Observe(map, ns, p), map, ns, p)
<1> DEFINE known == IF ns \in DOMAIN map THEN map[ns] ELSE EmptyMap
           keys == {Prefix(p, n) : n \in 1..Len(p)}
           seen == [key \in keys |-> [lastSeen |-> clock, sequence |-> sequence + Len(key)]]
           value == [key \in DOMAIN known \cup keys |->
                       IF key \in keys THEN seen[key] ELSE known[key]]
           observed == [m \in DOMAIN map \cup {ns} |-> IF m # ns THEN map[m] ELSE value]
<1>1. observed = Observe(map, ns, p)
  BY DEF Observe, Prefix, Cuts
<1>2. DOMAIN known = IF ns \in DOMAIN map THEN DOMAIN map[ns] ELSE {}
  BY DEF EmptyMap
<1>3. \A n \in 1..Len(p) :
        seen[Prefix(p, n)] = [lastSeen |-> clock, sequence |-> sequence + n]
  BY PromptType
<1> HIDE DEF known, seen, keys
<1>4. /\ DOMAIN observed = DOMAIN map \cup {ns}
      /\ \A m \in DOMAIN map \ {ns} : observed[m] = map[m]
      /\ observed[ns] = value
  OBVIOUS
<1>5. /\ DOMAIN value = DOMAIN known \cup keys
      /\ \A key \in keys : value[key] = seen[key]
      /\ \A key \in DOMAIN known \ keys : value[key] = known[key]
  OBVIOUS
<1>6. \A n \in 1..Len(p) : Prefix(p, n) \in keys
  BY DEF keys
<1> HIDE DEF observed, value
<1>7. \A key \in DOMAIN value \ keys : ns \in DOMAIN map /\ value[key] = map[ns][key]
  BY <1>2, <1>5 DEF known
<1>8. \A n \in 1..Len(p) :
        value[Prefix(p, n)] = [lastSeen |-> clock, sequence |-> sequence + n]
  BY <1>3, <1>5, <1>6
<1>9. IsObserved(observed, map, ns, p)
  BY <1>2, <1>4, <1>5, <1>7, <1>8 DEF keys, Cuts, IsObserved
<1> QED BY <1>1, <1>9

(***************************************************************************)
(* Commit's loop adds the keys of the prompt, newest of all and numbered   *)
(* in the order of their length, and leaves the other entries alone.       *)
(***************************************************************************)
LEMMA ObserveSlots ==
  ASSUME Counters, NEW map, MapTyped(map), NEW ns \in Namespaces, NEW p \in Prompts
  PROVE  LET observed == Observe(map, ns, p) IN
         /\ Slots(observed) = Slots(map) \cup PrefixKeys(ns, p)
         /\ \A s \in Slots(map) \ PrefixKeys(ns, p) : At(observed, s) = At(map, s)
         /\ \A n \in 1..Len(p) : At(observed, <<ns, Prefix(p, n)>>)
                                    = [lastSeen |-> clock, sequence |-> sequence + n]
         /\ DOMAIN observed \subseteq Namespaces
         /\ \A m \in DOMAIN observed :
              DOMAIN observed[m] \subseteq Keys /\ DOMAIN observed[m] # {}
<1> DEFINE observed == Observe(map, ns, p)
           keys == Cuts(p)
<1>1. /\ DOMAIN observed = DOMAIN map \cup {ns}
      /\ \A m \in DOMAIN map \ {ns} : observed[m] = map[m]
      /\ DOMAIN observed[ns] = (IF ns \in DOMAIN map THEN DOMAIN map[ns] ELSE {}) \cup keys
      /\ \A n \in 1..Len(p) :
           observed[ns][Prefix(p, n)] = [lastSeen |-> clock, sequence |-> sequence + n]
      /\ \A key \in DOMAIN observed[ns] \ keys :
           ns \in DOMAIN map /\ observed[ns][key] = map[ns][key]
  <2>1. IsObserved(observed, map, ns, p)
    BY ObserveMap
  <2> HIDE DEF observed
  <2> QED BY <2>1 DEF IsObserved
<1> HIDE DEF observed
<1>2. keys # {} /\ keys \subseteq Keys
  <2>1. 1 \in 1..Len(p)
    <3>1. p \in Seq(Blocks) /\ p # << >>
      BY PromptAssumption
    <3>2. Len(p) # 0 /\ Len(p) \in Nat
      BY <3>1, EmptySeq
    <3> QED BY <3>2
  <2>2. keys # {}
    BY <2>1 DEF Cuts
  <2>3. keys \subseteq Keys
    BY DEF Keys, Prefix, Cuts
  <2> QED BY <2>2, <2>3
<1>3. \A s : s \in PrefixKeys(ns, p) <=> \E key \in keys : s = <<ns, key>>
  BY DEF PrefixKeys, Cuts
<1>4. \A n \in 1..Len(p) : Prefix(p, n) \in keys
  BY DEF Cuts
<1> HIDE DEF keys
<1>5. Slots(observed) = Slots(map) \cup PrefixKeys(ns, p)
  <2>1. ASSUME NEW s \in Slots(observed)
        PROVE  s \in Slots(map) \cup PrefixKeys(ns, p)
    <3>0. PICK m \in DOMAIN observed : \E key \in DOMAIN observed[m] : s = <<m, key>>
      BY <2>1, InSlots
    <3>1. PICK key \in DOMAIN observed[m] : s = <<m, key>>
      BY <3>0
    <3>2. CASE m = ns
      <4>1. (ns \in DOMAIN map /\ key \in DOMAIN map[ns]) \/ key \in keys
        BY <1>1, <3>1, <3>2
      <4> QED BY <1>3, <3>1, <3>2, <4>1, InSlots
    <3>3. CASE m # ns
      BY <1>1, <3>1, <3>3, InSlots
    <3> QED BY <3>2, <3>3
  <2>2. ASSUME NEW s \in Slots(map)
        PROVE  s \in Slots(observed)
    <3>0. PICK m \in DOMAIN map : \E key \in DOMAIN map[m] : s = <<m, key>>
      BY InSlots
    <3>1. PICK key \in DOMAIN map[m] : s = <<m, key>>
      BY <3>0
    <3>2. m \in DOMAIN observed /\ key \in DOMAIN observed[m]
      BY <1>1, <3>1
    <3> QED BY <3>1, <3>2, InSlots
  <2>3. ASSUME NEW s \in PrefixKeys(ns, p)
        PROVE  s \in Slots(observed)
    <3>1. PICK key \in keys : s = <<ns, key>>
      BY <1>3
    <3>2. ns \in DOMAIN observed /\ key \in DOMAIN observed[ns]
      BY <1>1
    <3> QED BY <3>1, <3>2, InSlots
  <2> QED BY <2>1, <2>2, <2>3
<1>6. ASSUME NEW s \in Slots(map) \ PrefixKeys(ns, p)
      PROVE  At(observed, s) = At(map, s)
  <2>0. PICK m \in DOMAIN map : \E key \in DOMAIN map[m] : s = <<m, key>>
    BY InSlots
  <2>1. PICK key \in DOMAIN map[m] : s = <<m, key>>
    BY <2>0
  <2>2. observed[m][key] = map[m][key]
    <3>1. CASE m = ns
      <4>1. key \notin keys /\ key \in DOMAIN observed[ns]
        BY <1>1, <1>3, <2>1, <3>1
      <4> QED BY <1>1, <3>1, <4>1
    <3>2. CASE m # ns
      BY <1>1, <3>2
    <3> QED BY <3>1, <3>2
  <2> QED BY <2>1, <2>2 DEF At
<1>7. \A n \in 1..Len(p) : At(observed, <<ns, Prefix(p, n)>>)
                             = [lastSeen |-> clock, sequence |-> sequence + n]
  BY <1>1 DEF At
<1>8. /\ DOMAIN observed \subseteq Namespaces
      /\ \A m \in DOMAIN observed :
           DOMAIN observed[m] \subseteq Keys /\ DOMAIN observed[m] # {}
  BY <1>1, <1>2 DEF MapTyped
<1> QED BY <1>5, <1>6, <1>7, <1>8 DEF observed

\* A list of the directory, with the keys of a new prompt moved to its end, is
\* a list of what Commit's loop makes of the directory.
LEMMA TouchLists ==
  ASSUME Counters, NEW map, MapTyped(map), NEW list, Lists(list, map),
         NEW ns \in Namespaces, NEW p \in Prompts
  PROVE  Lists(Touch(list, ns, p), Observe(map, ns, p))
<1> DEFINE observed == Observe(map, ns, p)
           keys == PrefixKeys(ns, p)
           old == Without(list, keys)
           new == Growing(ns, p)
           R == Agrees(observed)
<1>1. /\ Slots(observed) = Slots(map) \cup keys
      /\ \A s \in Slots(map) \ keys : At(observed, s) = At(map, s)
      /\ \A n \in 1..Len(p) : At(observed, <<ns, Prefix(p, n)>>)
                               = [lastSeen |-> clock, sequence |-> sequence + n]
  BY ObserveSlots
<1> HIDE DEF observed
<1>2. keys \subseteq IndexKeys /\ p \in Seq(Blocks)
  BY PromptKeys, PromptAssumption
<1>3. /\ list \in Seq(IndexKeys) /\ ToSet(list) = Slots(map)
      /\ Ordered(list, Agrees(map))
  BY DEF Lists
<1>4. /\ old \in Seq(IndexKeys)
      /\ ToSet(old) = Slots(map) \ keys
      /\ Ordered(old, Agrees(map))
  <2> HIDE DEF keys
  <2>1. /\ Without(list, keys) \in Seq(IndexKeys)
        /\ ToSet(Without(list, keys)) = ToSet(list) \ keys
        /\ Ordered(Without(list, keys), Agrees(map))
    BY <1>3, WithoutKeeps, Zenon
  <2> QED BY <1>3, <2>1
<1>5. new \in Seq(IndexKeys) /\ ToSet(new) = keys /\ Len(new) = Len(p)
  BY <1>2, GrowingPrefixes
<1>6. \A n \in 1..Len(p) : new[n] = <<ns, Prefix(p, n)>>
  BY DEF Growing
<1>7. Touch(list, ns, p) = old \o new
  BY DEF Touch, Growing
<1> HIDE DEF old, new, keys
<1>8. Ordered(old, R)
  <2> SUFFICES ASSUME NEW i \in DOMAIN old, NEW j \in DOMAIN old, i < j
               PROVE  <<old[i], old[j]>> \in R
    BY DEF Ordered
  <2>1. old[i] \in Slots(map) \ keys /\ old[j] \in Slots(map) \ keys
    BY <1>4 DEF ToSet
  <2>2. Earlier(At(map, old[i]), At(map, old[j]))
    BY <1>4 DEF Ordered, Agrees
  <2>3. Earlier(At(observed, old[i]), At(observed, old[j]))
    BY <1>1, <2>1, <2>2
  <2> QED BY <1>1, <2>1, <2>3 DEF Agrees
<1>9. /\ DOMAIN new = 1..Len(p) /\ Len(p) \in Nat
      /\ \A n \in 1..Len(p) :
           new[n] \in keys /\ At(observed, new[n])
                              = [lastSeen |-> clock, sequence |-> sequence + n]
  <2>1. DOMAIN new = 1..Len(p) /\ Len(p) \in Nat
    BY <1>2, <1>5
  <2>2. \A n \in 1..Len(p) : new[n] \in keys
    BY <1>5, <2>1 DEF ToSet
  <2> QED BY <1>1, <1>6, <2>1, <2>2
<1>10. Ordered(new, R)
  <2> SUFFICES ASSUME NEW i \in 1..Len(p), NEW j \in 1..Len(p), i < j
               PROVE  <<new[i], new[j]>> \in R
    BY <1>9 DEF Ordered
  <2>1. Earlier(At(observed, new[i]), At(observed, new[j]))
    BY <1>9 DEF Earlier, Counters
  <2> QED BY <1>1, <1>9, <2>1 DEF Agrees
<1>11. ASSUME NEW x \in ToSet(old), NEW y \in ToSet(new)
       PROVE  <<x, y>> \in R
  <2>1. PICK n \in 1..Len(p) : y = new[n]
    BY <1>9 DEF ToSet
  <2>2. x \in Slots(map) \ keys
    BY <1>4
  <2>3. /\ At(map, x) \in [lastSeen : Int, sequence : Int]
        /\ At(map, x).sequence <= sequence /\ At(map, x).lastSeen <= clock
    BY <2>2, TypedEntries DEF EntriesTyped
  <2>4. Earlier(At(observed, x), At(observed, y))
    <3>1. At(observed, x) = At(map, x)
      BY <1>1, <2>2
    <3>2. At(observed, y) = [lastSeen |-> clock, sequence |-> sequence + n]
      BY <1>9, <2>1
    <3> QED BY <2>3, <3>1, <3>2 DEF Earlier, Counters
  <2> QED BY <1>1, <1>9, <2>1, <2>2, <2>4 DEF Agrees
<1> HIDE DEF R
<1>12. /\ old \o new \in Seq(IndexKeys)
       /\ ToSet(old \o new) = ToSet(old) \cup ToSet(new)
       /\ Ordered(old \o new, R)
  BY <1>4, <1>5, <1>8, <1>10, <1>11, ConcatOrdered
<1>13. ToSet(old \o new) = Slots(observed)
  BY <1>1, <1>4, <1>5, <1>12
<1> QED BY <1>7, <1>12, <1>13 DEF Lists, R, observed

(***************************************************************************)
(* The newer entries of a directory are those behind it in the list, so    *)
(* the survivors are the end of the list.                                  *)
(***************************************************************************)
LEMMA NewestElements ==
  ASSUME NEW X, NEW list \in Seq(X), NEW n \in Nat
  PROVE  ToSet(Newest(list, n))
           = {list[i] : i \in {k \in 1..Len(list) : Len(list) - k < n}}
<1> DEFINE last == {k \in 1..Len(list) : Len(list) - k < n}
           new == Newest(list, n)
<1>1. CASE Len(list) <= n
  <2>1. new = list /\ last = 1..Len(list) /\ DOMAIN list = 1..Len(list)
    BY <1>1 DEF Newest
  <2> HIDE DEF last, new
  <2> QED BY <2>1 DEF ToSet, last, new
<1>2. CASE ~ (Len(list) <= n)
  <2> DEFINE k == Len(list) - n
  <2>1. /\ k \in Nat /\ new = SubSeq(list, k + 1, Len(list))
        /\ k + 1 \in 1..(Len(list) + 1)
    BY <1>2 DEF Newest
  <2>2. /\ DOMAIN new = 1..n
        /\ \A i \in 1..n : new[i] = list[k + i]
    BY <1>2, <2>1
  <2>3. \A i \in 1..n : k + i \in last
    BY <1>2
  <2>4. \A j \in last : j - k \in 1..n /\ k + (j - k) = j
    BY <1>2
  <2> HIDE DEF last, new, k
  <2>5. ToSet(new) \subseteq {list[i] : i \in last}
    BY <2>2, <2>3 DEF ToSet
  <2>6. ASSUME NEW j \in last
        PROVE  list[j] \in ToSet(new)
    <3>1. j - k \in 1..n /\ new[j - k] = list[j]
      BY <2>2, <2>4
    <3> QED BY <2>2, <3>1 DEF ToSet
  <2> QED BY <2>5, <2>6 DEF last, new
<1> QED BY <1>1, <1>2

LEMMA NewerAreBehind ==
  ASSUME NEW map, EntriesTyped(map), NEW list, Lists(list, map), NEW i \in 1..Len(list)
  PROVE  Cardinality({s \in Slots(map) : Older(At(map, list[i]), At(map, s))})
           = Len(list) - i
<1> DEFINE n == Len(list)
           behind == (i + 1)..n
           newer == {s \in Slots(map) : Older(At(map, list[i]), At(map, s))}
           f == [j \in behind |-> list[j]]
<1>1. list \in Seq(IndexKeys) /\ ToSet(list) = Slots(map)
  BY DEF Lists
<1>2. /\ n \in Nat /\ DOMAIN list = 1..n /\ i \in 1..n
      /\ \A j \in 1..n : list[j] \in Slots(map)
      /\ \A s \in Slots(map) : \E j \in 1..n : list[j] = s
  BY <1>1 DEF ToSet
<1>3. \A j, k \in 1..n : j < k =>
        /\ list[j] # list[k]
        /\ Older(At(map, list[j]), At(map, list[k]))
        /\ ~Older(At(map, list[k]), At(map, list[j]))
  BY <1>2, ListedDiffer
<1>4. ~Older(At(map, list[i]), At(map, list[i]))
  BY <1>2 DEF Older, EntriesTyped
<1> HIDE DEF n
<1>5. behind \subseteq 1..n /\ \A j \in behind : i < j
  BY <1>2
<1>6. f \in [behind -> newer]
  BY <1>2, <1>3, <1>5
<1>7. ASSUME NEW s \in newer
      PROVE  \E j \in behind : f[j] = s
  <2>1. PICK j \in 1..n : list[j] = s
    BY <1>2
  <2>2. ~ (j < i) /\ j # i
    BY <1>2, <1>3, <1>4, <2>1
  <2>3. j \in behind
    BY <1>2, <2>2
  <2> QED BY <2>1, <2>3
<1>8. \A j, k \in behind : f[j] = f[k] => j = k
  <2>1. \A j, k \in behind : j < k \/ k < j \/ j = k
    BY <1>5
  <2> QED BY <1>3, <1>5, <2>1
<1>9. IsFiniteSet(behind) /\ Cardinality(behind) = n - i
  <2>1. i + 1 \in Int /\ n \in Int /\ (i + 1 > n => n - i = 0)
    BY <1>2
  <2>2. /\ IsFiniteSet(behind)
        /\ Cardinality(behind) = IF i + 1 > n THEN 0 ELSE n - (i + 1) + 1
    BY <2>1, FS_Interval
  <2> QED BY <1>2, <2>1, <2>2
<1> HIDE DEF behind, newer, f
<1>10. f \in Surjection(behind, newer) /\ f \in Injection(behind, newer)
  BY <1>6, <1>7, <1>8 DEF Surjection, Injection, IsInjective
<1>11. Cardinality(newer) = Cardinality(behind)
  BY <1>9, <1>10, FS_Surjection
<1> QED BY <1>9, <1>11 DEF newer, n

LEMMA SurvivorsAreNewest ==
  ASSUME NEW map, EntriesTyped(map), NEW list, Lists(list, map), NEW capacity \in Nat
  PROVE  Survivors(map, capacity) = ToSet(Newest(list, capacity))
<1> DEFINE n == Len(list)
           last == {k \in 1..n : n - k < capacity}
           Place(s) == Cardinality({newer \in Slots(map) : Older(At(map, s), At(map, newer))})
<1>1. list \in Seq(IndexKeys) /\ ToSet(list) = Slots(map)
  BY DEF Lists
<1>2. /\ \A j \in 1..n : list[j] \in Slots(map)
      /\ \A s \in Slots(map) : \E j \in 1..n : list[j] = s
  BY <1>1 DEF ToSet
<1>3. \A i \in 1..n : Place(list[i]) = n - i
  BY NewerAreBehind
<1>4. Survivors(map, capacity) = {s \in Slots(map) : Place(s) < capacity}
  BY DEF Survivors
<1>5. ToSet(Newest(list, capacity)) = {list[i] : i \in last}
  BY <1>1, NewestElements
<1> HIDE DEF Place, n
<1> QED BY <1>2, <1>3, <1>4, <1>5

\* A namespace with entries stays while it has survivors.
LEMMA EvictSlots ==
  ASSUME NEW map, NEW capacity, \A m \in DOMAIN map : DOMAIN map[m] # {}
  PROVE  LET evicted == EvictOldest(map, capacity) IN
         /\ Slots(evicted) = Survivors(map, capacity)
         /\ \A s \in Slots(evicted) : At(evicted, s) = At(map, s)
         /\ DOMAIN evicted \subseteq DOMAIN map
         /\ \A m \in DOMAIN evicted :
              DOMAIN evicted[m] \subseteq DOMAIN map[m] /\ DOMAIN evicted[m] # {}
<1> DEFINE left == Survivors(map, capacity)
           evicted == EvictOldest(map, capacity)
           stay == {m \in DOMAIN map : \E s \in left : s[1] = m}
<1>1. left \subseteq Slots(map)
  BY DEF Survivors
<1>2. /\ DOMAIN evicted = stay
      /\ \A m \in stay :
           evicted[m] = [key \in {k \in DOMAIN map[m] : <<m, k>> \in left} |-> map[m][key]]
  <2> HIDE DEF left
  <2> QED BY DEF EvictOldest, left
<1> HIDE DEF left, evicted
<1>3. \A m \in stay :
        /\ DOMAIN evicted[m] = {k \in DOMAIN map[m] : <<m, k>> \in left}
        /\ \A key \in DOMAIN evicted[m] : evicted[m][key] = map[m][key]
  BY <1>2
<1>4. ASSUME NEW s \in left
      PROVE  /\ s \in Slots(map) /\ s[1] \in stay /\ s[2] \in DOMAIN evicted[s[1]]
             /\ s = <<s[1], s[2]>>
  <2>1. PICK m \in DOMAIN map : \E key \in DOMAIN map[m] : s = <<m, key>>
    BY <1>1, InSlots
  <2>2. PICK key \in DOMAIN map[m] : s = <<m, key>>
    BY <2>1
  <2>3. m \in stay
    BY <2>2
  <2>4. key \in DOMAIN evicted[m]
    BY <1>3, <2>2, <2>3
  <2> QED BY <1>1, <2>2, <2>3, <2>4
<1>5. ASSUME NEW s \in Slots(evicted)
      PROVE  s \in left /\ At(evicted, s) = At(map, s)
  <2>1. PICK m \in DOMAIN evicted : \E key \in DOMAIN evicted[m] : s = <<m, key>>
    BY InSlots
  <2>2. PICK key \in DOMAIN evicted[m] : s = <<m, key>>
    BY <2>1
  <2> QED BY <1>2, <1>3, <2>2 DEF At
<1>6. left \subseteq Slots(evicted)
  BY <1>2, <1>4, InSlots
<1>7. ASSUME NEW m \in DOMAIN evicted
      PROVE  DOMAIN evicted[m] \subseteq DOMAIN map[m] /\ DOMAIN evicted[m] # {}
  <2>1. PICK s \in left : s[1] = m
    BY <1>2
  <2> QED BY <1>2, <1>3, <1>4, <2>1
<1> QED BY <1>2, <1>5, <1>6, <1>7 DEF left, evicted

(***************************************************************************)
(* A commit to the maps is a commit to the list.                           *)
(***************************************************************************)
LEMMA CommitLists ==
  ASSUME Counters, NEW map, MapTyped(map), NEW list, Lists(list, map),
         NEW ns \in Namespaces, NEW p \in Prompts, NEW capacity \in Nat
  PROVE  LET new == EvictOldest(Observe(map, ns, p), capacity) IN
         /\ Lists(Newest(Touch(list, ns, p), capacity), new)
         /\ DOMAIN new \subseteq Namespaces
         /\ \A m \in DOMAIN new : DOMAIN new[m] \subseteq Keys /\ DOMAIN new[m] # {}
         /\ \A s \in Slots(new) : At(new, s) \in [lastSeen : 1..clock,
                                                  sequence : 1..(sequence + Len(p))]
<1> DEFINE observed == Observe(map, ns, p)
           new == EvictOldest(observed, capacity)
           touched == Touch(list, ns, p)
           kept == Newest(touched, capacity)
<1>1. /\ Slots(observed) = Slots(map) \cup PrefixKeys(ns, p)
      /\ \A s \in Slots(map) \ PrefixKeys(ns, p) : At(observed, s) = At(map, s)
      /\ \A n \in 1..Len(p) : At(observed, <<ns, Prefix(p, n)>>)
                               = [lastSeen |-> clock, sequence |-> sequence + n]
      /\ DOMAIN observed \subseteq Namespaces
      /\ \A m \in DOMAIN observed :
           DOMAIN observed[m] \subseteq Keys /\ DOMAIN observed[m] # {}
  BY ObserveSlots
<1>2. Lists(touched, observed)
  BY TouchLists
<1>3. /\ Slots(new) = Survivors(observed, capacity)
      /\ \A s \in Slots(new) : At(new, s) = At(observed, s)
      /\ DOMAIN new \subseteq DOMAIN observed
      /\ \A m \in DOMAIN new :
           DOMAIN new[m] \subseteq DOMAIN observed[m] /\ DOMAIN new[m] # {}
  <2> HIDE DEF observed
  <2> QED BY <1>1, EvictSlots
<1> HIDE DEF observed, new, touched
<1>4. ASSUME NEW s \in Slots(observed)
      PROVE  At(observed, s) \in [lastSeen : 1..clock, sequence : 1..(sequence + Len(p))]
  <2>1. Len(p) \in Nat
    BY PromptAssumption
  <2>2. CASE s \in PrefixKeys(ns, p)
    <3>1. PICK n \in 1..Len(p) : s = <<ns, Prefix(p, n)>>
      BY <2>2 DEF PrefixKeys
    <3>2. At(observed, s) = [lastSeen |-> clock, sequence |-> sequence + n]
      BY <1>1, <3>1
    <3> QED BY <2>1, <3>2 DEF Counters
  <2>3. CASE s \notin PrefixKeys(ns, p)
    <3>1. s \in Slots(map) /\ At(observed, s) = At(map, s)
      BY <1>1, <2>3
    <3>2. PICK m \in DOMAIN map : \E key \in DOMAIN map[m] : s = <<m, key>>
      BY <3>1, InSlots
    <3>3. PICK key \in DOMAIN map[m] : s = <<m, key>>
      BY <3>2
    <3>4. At(map, s) \in [lastSeen : 1..clock, sequence : 1..sequence]
      BY <3>3 DEF MapTyped, At
    <3> QED BY <2>1, <3>1, <3>4 DEF Counters
  <2> QED BY <2>2, <2>3
<1>5. EntriesTyped(observed)
  <2>1. Len(p) \in Nat
    BY PromptAssumption
  <2> QED BY <1>4, <2>1 DEF EntriesTyped, Counters
<1>6. Slots(new) = ToSet(kept)
  BY <1>2, <1>3, <1>5, SurvivorsAreNewest
<1>7. /\ kept \in Seq(IndexKeys)
      /\ ToSet(kept) \subseteq ToSet(touched)
      /\ Ordered(kept, Agrees(observed))
  BY <1>2, NewestKeeps DEF Lists
<1> HIDE DEF kept
<1>8. Ordered(kept, Agrees(new))
  <2> SUFFICES ASSUME NEW i \in DOMAIN kept, NEW j \in DOMAIN kept, i < j
               PROVE  <<kept[i], kept[j]>> \in Agrees(new)
    BY DEF Ordered
  <2>1. kept[i] \in Slots(new) /\ kept[j] \in Slots(new)
    BY <1>6 DEF ToSet
  <2>2. Earlier(At(observed, kept[i]), At(observed, kept[j]))
    BY <1>7 DEF Ordered, Agrees
  <2> QED BY <1>3, <2>1, <2>2 DEF Agrees
<1>9. Lists(kept, new)
  BY <1>6, <1>7, <1>8 DEF Lists
<1>10. Slots(new) \subseteq Slots(observed)
  BY <1>3 DEF Survivors
<1> QED BY <1>1, <1>3, <1>4, <1>9, <1>10 DEF new, observed, kept, touched

-----------------------------------------------------------------------------
(* The index.                                                              *)

(***************************************************************************)
(* The invariant: each directory is of its type and within its capacity,   *)
(* and its list is ordered by numbers and times alike.                     *)
(***************************************************************************)
DirectoryGood(b) ==
  /\ MapTyped(entries[b])
  /\ Lists(RecencyList(b), entries[b])
  /\ entries[b] = EmptyMap \/ Len(RecencyList(b)) <= Capacity[b]

IndexInv ==
  /\ registered \subseteq Backends
  /\ sequence \in 0..MaxSequence
  /\ clock \in 1..MaxClock
  /\ DOMAIN entries = Backends
  /\ \A b \in Backends : DirectoryGood(b)

LEMMA InvCounters == IndexInv => Counters
BY BoundAssumption DEF IndexInv, Counters

LEMMA EmptyDirectory ==
  /\ MapTyped(EmptyMap) /\ Lists(<< >>, EmptyMap) /\ Slots(EmptyMap) = {}
  /\ InOrder(EmptyMap) = << >>
<1>1. DOMAIN EmptyMap = {}
  BY DEF EmptyMap
<1>2. Slots(EmptyMap) = {}
  BY <1>1 DEF Slots
<1>3. Lists(<< >>, EmptyMap)
  BY <1>2 DEF Lists, ToSet, Ordered
<1>4. EntriesTyped(EmptyMap)
  BY <1>2 DEF EntriesTyped
<1>5. InOrder(EmptyMap) = << >>
  BY <1>3, <1>4, InOrderIsTheList
<1> QED BY <1>1, <1>2, <1>3, <1>5 DEF MapTyped

\* A directory a step leaves alone, while the counters grow.
LEMMA OthersGood ==
  ASSUME Counters, Counters', sequence <= sequence', clock <= clock',
         NEW c \in Backends, entries'[c] = entries[c], DirectoryGood(c)
  PROVE  DirectoryGood(c)' /\ RecencyList(c)' = RecencyList(c)
<1>1. RecencyList(c)' = RecencyList(c)
  BY DEF RecencyList
<1>2. \A e \in [lastSeen : 1..clock, sequence : 1..sequence] :
        e \in [lastSeen : 1..clock', sequence : 1..sequence']
  BY DEF Counters
<1>3. MapTyped(entries[c])'
  BY <1>2 DEF MapTyped, DirectoryGood
<1> QED BY <1>1, <1>3 DEF DirectoryGood

LEMMA InitIndex == IndexInit => IndexInv
<1> SUFFICES ASSUME IndexInit PROVE IndexInv
  OBVIOUS
<1>1. ASSUME NEW b \in Backends
      PROVE  DirectoryGood(b)
  <2>1. entries[b] = EmptyMap
    BY DEF IndexInit
  <2> QED BY <2>1, EmptyDirectory DEF DirectoryGood, RecencyList
<1> QED BY <1>1, BoundAssumption DEF IndexInit, IndexInv

LEMMA RegisterStep ==
  ASSUME IndexInv, NEW b \in Backends, RegisterBackend(b)
  PROVE  /\ IndexInv' /\ RecencyList(b)' = << >>
         /\ \A c \in Backends \ {b} : RecencyList(c)' = RecencyList(c)
<1>1. /\ entries' = [entries EXCEPT ![b] = EmptyMap]
      /\ sequence' = sequence /\ clock' = clock
      /\ registered' = registered \cup {b} /\ DOMAIN entries = Backends
  BY DEF RegisterBackend, IndexInv
<1>2. Counters /\ Counters' /\ sequence <= sequence' /\ clock <= clock'
  BY <1>1, InvCounters DEF Counters
<1>3. ASSUME NEW c \in Backends \ {b}
      PROVE  DirectoryGood(c)' /\ RecencyList(c)' = RecencyList(c)
  <2>1. entries'[c] = entries[c] /\ DirectoryGood(c)
    BY <1>1 DEF IndexInv
  <2> QED BY <1>2, <2>1, OthersGood
<1>4. entries'[b] = EmptyMap
  BY <1>1
<1>5. RecencyList(b)' = << >>
  BY <1>4, EmptyDirectory DEF RecencyList
<1>6. MapTyped(EmptyMap)'
  BY DEF MapTyped, EmptyMap
<1>7. DirectoryGood(b)'
  BY <1>4, <1>5, <1>6, EmptyDirectory DEF DirectoryGood
<1>8. IndexInv'
  BY <1>1, <1>3, <1>7 DEF IndexInv
<1> QED BY <1>3, <1>5, <1>8

LEMMA CommitStep ==
  ASSUME IndexInv, NEW b \in Backends, NEW ns \in Namespaces, NEW p \in Prompts,
         Commit(b, ns, p)
  PROVE  /\ IndexInv'
         /\ RecencyList(b)' = Newest(Touch(RecencyList(b), ns, p), Capacity[b])
         /\ \A c \in Backends \ {b} : RecencyList(c)' = RecencyList(c)
<1> DEFINE new == EvictOldest(Observe(entries[b], ns, p), Capacity[b])
           kept == Newest(Touch(RecencyList(b), ns, p), Capacity[b])
<1>1. PICK map : map = new
  OBVIOUS
<1>2. PICK list : list = kept
  OBVIOUS
<1>3. /\ entries' = [entries EXCEPT ![b] = map]
      /\ sequence' = sequence + Len(p) /\ clock' = clock /\ registered' = registered
      /\ sequence + Len(p) <= MaxSequence /\ Capacity[b] > 0
  BY <1>1 DEF Commit
<1>4. DOMAIN entries = Backends /\ entries'[b] = map
  BY <1>3 DEF IndexInv
<1>5. Capacity[b] \in Nat
  BY <1>3, CapacityAssumption
<1>6. /\ Len(p) \in Nat /\ MaxSequence \in Nat
      /\ sequence \in 0..MaxSequence /\ clock \in 1..MaxClock
  <2>1. Len(p) \in Nat
    BY PromptAssumption
  <2> QED BY <2>1, BoundAssumption DEF IndexInv
<1>7. Counters
  BY InvCounters
<1>8. Counters' /\ sequence <= sequence' /\ clock <= clock' /\ sequence' \in 0..MaxSequence
  BY <1>3, <1>6, <1>7 DEF Counters
<1>9. ASSUME NEW c \in Backends \ {b}
      PROVE  DirectoryGood(c)' /\ RecencyList(c)' = RecencyList(c)
  <2>1. entries'[c] = entries[c] /\ DirectoryGood(c)
    BY <1>3 DEF IndexInv
  <2> QED BY <1>7, <1>8, <2>1, OthersGood
<1>10. MapTyped(entries[b]) /\ Lists(RecencyList(b), entries[b])
  BY DEF IndexInv, DirectoryGood
<1>11. /\ Lists(list, map)
       /\ DOMAIN map \subseteq Namespaces
       /\ \A m \in DOMAIN map : DOMAIN map[m] \subseteq Keys /\ DOMAIN map[m] # {}
       /\ \A s \in Slots(map) : At(map, s) \in [lastSeen : 1..clock,
                                                sequence : 1..(sequence + Len(p))]
  BY <1>1, <1>2, <1>5, <1>7, <1>10, CommitLists
<1>12. Len(list) <= Capacity[b]
  <2>1. PICK touched : touched = Touch(RecencyList(b), ns, p)
    OBVIOUS
  <2>2. Lists(touched, Observe(entries[b], ns, p))
    BY <1>7, <1>10, <2>1, TouchLists
  <2>3. touched \in Seq(IndexKeys) /\ Len(touched) \in Nat
    BY <2>2 DEF Lists
  <2>4. Len(Newest(touched, Capacity[b]))
          = IF Len(touched) <= Capacity[b] THEN Len(touched) ELSE Capacity[b]
    BY <1>5, <2>3, NewestKeeps
  <2>5. list = Newest(touched, Capacity[b])
    BY <1>2, <2>1
  <2> QED BY <1>5, <2>3, <2>4, <2>5
<1> HIDE DEF new, kept
<1>13. ASSUME NEW m \in DOMAIN map, NEW key \in DOMAIN map[m]
       PROVE  map[m][key] \in [lastSeen : 1..clock', sequence : 1..sequence']
  <2>1. <<m, key>> \in Slots(map) /\ At(map, <<m, key>>) = map[m][key]
    BY InSlots DEF At
  <2> QED BY <1>3, <1>11, <2>1
<1>14. MapTyped(map)'
  BY <1>11, <1>13 DEF MapTyped
<1>15. EntriesTyped(map)
  BY <1>6, <1>11 DEF EntriesTyped
<1>16. InOrder(map) = list
  BY <1>11, <1>15, InOrderIsTheList
<1>17. RecencyList(b)' = list
  BY <1>4, <1>16 DEF RecencyList
<1>18. DirectoryGood(b)'
  BY <1>4, <1>11, <1>12, <1>14, <1>17 DEF DirectoryGood
<1>19. IndexInv'
  BY <1>3, <1>4, <1>6, <1>8, <1>9, <1>18 DEF IndexInv
<1> QED BY <1>2, <1>9, <1>17, <1>19 DEF kept

LEMMA ClockStep ==
  ASSUME IndexInv, ClockAdvances
  PROVE  IndexInv' /\ \A b \in Backends : RecencyList(b)' = RecencyList(b)
<1>1. /\ entries' = entries /\ sequence' = sequence /\ registered' = registered
      /\ clock' = clock + 1 /\ clock < MaxClock
      /\ clock \in 1..MaxClock /\ sequence \in 0..MaxSequence /\ MaxClock \in Nat
  BY BoundAssumption DEF ClockAdvances, IndexInv
<1>2. Counters /\ Counters' /\ sequence <= sequence' /\ clock <= clock'
      /\ clock' \in 1..MaxClock
  BY <1>1, InvCounters DEF Counters
<1>3. ASSUME NEW b \in Backends
      PROVE  DirectoryGood(b)' /\ RecencyList(b)' = RecencyList(b)
  <2>1. entries'[b] = entries[b] /\ DirectoryGood(b)
    BY <1>1 DEF IndexInv
  <2> QED BY <1>2, <2>1, OthersGood
<1> QED BY <1>1, <1>2, <1>3 DEF IndexInv

LEMMA StepIndex == IndexInv /\ [IndexNext]_indexVars => IndexInv'
<1> SUFFICES ASSUME IndexInv, [IndexNext]_indexVars PROVE IndexInv'
  OBVIOUS
<1>1. ASSUME NEW b \in Backends, RegisterBackend(b) PROVE IndexInv'
  BY <1>1, RegisterStep
<1>2. ASSUME NEW b \in Backends, NEW ns \in Namespaces, NEW p \in Prompts,
             Commit(b, ns, p)
      PROVE  IndexInv'
  BY <1>2, CommitStep
<1>3. CASE ClockAdvances
  BY <1>3, ClockStep
<1>4. CASE UNCHANGED indexVars
  BY <1>4 DEF indexVars, IndexInv, DirectoryGood, MapTyped, RecencyList
<1> QED BY <1>1, <1>2, <1>3, <1>4 DEF IndexNext

LEMMA IndexInvHolds == IndexSpec => []IndexInv
BY InitIndex, StepIndex, PTL DEF IndexSpec

-----------------------------------------------------------------------------
(* The abstract directory's operators are those of Recency.                *)

LEMMA SameElements ==
  ASSUME NEW list
  PROVE  Directory!ToSet(list) = ToSet(list)
BY Zenon DEF Directory!ToSet, ToSet

LEMMA SamePrefixes ==
  ASSUME NEW p, NEW n
  PROVE  Directory!Prefix(p, n) = Prefix(p, n)
BY Zenon DEF Directory!Prefix, Prefix

LEMMA SameTouch ==
  ASSUME NEW list, NEW ns, NEW p
  PROVE  Directory!Touch(list, ns, p) = Touch(list, ns, p)
BY Zenon DEF Directory!Touch, Touch, Directory!Without, Without, Directory!PrefixKeys,
             PrefixKeys, Directory!Prefix, Prefix

LEMMA SameNewest ==
  ASSUME NEW list, NEW n
  PROVE  Directory!Newest(list, n) = Newest(list, n)
BY Zenon DEF Directory!Newest, Newest

LEMMA SameMatchLength ==
  ASSUME NEW known, NEW ns, NEW p
  PROVE  Directory!MatchLength(known, ns, p) = MatchLength(known, ns, p)
BY Zenon DEF Directory!MatchLength, MatchLength, Directory!Prefix, Prefix,
             Directory!Cardinality, Cardinality

-----------------------------------------------------------------------------
(* The results.                                                            *)

(***************************************************************************)
(* The index's maps have their types in every state: the namespaces and    *)
(* keys are those callers can name, and no entry is newer than the clock   *)
(* or numbered beyond the counter.                                         *)
(***************************************************************************)
THEOREM IndexTypesCorrect == IndexSpec => []IndexTypeOK
<1>1. IndexInv => IndexTypeOK
  BY DEF IndexInv, DirectoryGood, MapTyped, IndexTypeOK
<1> QED BY IndexInvHolds, <1>1, PTL

LEMMA DirectoryIsListed ==
  ASSUME IndexInv, NEW b \in Backends
  PROVE  /\ EntriesTyped(entries[b]) /\ Lists(RecencyList(b), entries[b])
         /\ TotalEntries(b) = Len(RecencyList(b))
         /\ ToSet(RecencyList(b)) = Slots(entries[b])
<1>1. EntriesTyped(entries[b]) /\ Lists(RecencyList(b), entries[b])
  BY InvCounters, TypedEntries DEF IndexInv, DirectoryGood
<1> QED BY <1>1, ListedDiffer DEF TotalEntries, Lists

\* Lookup's walk over the maps counts what the list knows.
LEMMA LookupIsMatch ==
  ASSUME IndexInv, NEW b \in registered, NEW ns \in Namespaces, NEW p \in Prompts
  PROVE  LookupPrefix(b, ns, p) = MatchLength(Slots(entries[b]), ns, p)
<1> DEFINE known == Slots(entries[b])
<1>1. b \in registered /\ Len(p) \in Nat
  BY PromptAssumption
<1>2. CASE ns \notin DOMAIN entries[b]
  <2>1. \A n \in 1..Len(p) : <<ns, Prefix(p, n)>> \notin known
    BY <1>2, InSlots
  <2> HIDE DEF known
  <2>2. ASSUME NEW n \in 1..Len(p)
        PROVE  n \in 1..n /\ <<ns, Prefix(p, n)>> \notin known
    BY <1>1, <2>1
  <2>3. {n \in 1..Len(p) : \A k \in 1..n : <<ns, Prefix(p, k)>> \in known} = {}
    BY <2>2
  <2>4. LookupPrefix(b, ns, p) = 0
    BY <1>2 DEF LookupPrefix
  <2> QED BY <2>3, <2>4, FS_EmptySet DEF MatchLength, known
<1>3. CASE ns \in DOMAIN entries[b]
  <2>1. ASSUME NEW key
        PROVE  <<ns, key>> \in known <=> key \in DOMAIN entries[b][ns]
    <3>1. <<ns, key>> \in known <=>
            \E m \in DOMAIN entries[b] : \E k \in DOMAIN entries[b][m] : <<ns, key>> = <<m, k>>
      BY InSlots
    <3>2. \A m, k : <<ns, key>> = <<m, k>> <=> ns = m /\ key = k
      OBVIOUS
    <3> HIDE DEF known
    <3> QED BY <1>3, <3>1, <3>2
  <2> HIDE DEF known
  <2>2. {n \in 1..Len(p) : \A k \in 1..n : <<ns, Prefix(p, k)>> \in known}
          = {n \in 1..Len(p) : \A k \in 1..n : SubSeq(p, 1, k) \in DOMAIN entries[b][ns]}
    BY <2>1, Zenon DEF Prefix
  <2>3. LookupPrefix(b, ns, p)
          = Cardinality({n \in 1..Len(p) :
                           \A k \in 1..n : SubSeq(p, 1, k) \in DOMAIN entries[b][ns]})
    BY <1>1, <1>3 DEF LookupPrefix
  <2> QED BY <2>2, <2>3 DEF MatchLength, known
<1> QED BY <1>2, <1>3

(***************************************************************************)
(* For any prompts, capacities and order of commits: a backend's directory *)
(* never holds more than its capacity, a namespace disappears with its     *)
(* last entry, and Usage and Lookup report the list of the last commits.   *)
(***************************************************************************)
THEOREM IndexStaysSound == IndexSpec => []DirectorySound
<1>1. ASSUME IndexInv
      PROVE  CapacityRespected
  <2>1. ASSUME NEW b \in Backends, entries[b] # EmptyMap
        PROVE  TotalEntries(b) <= Capacity[b]
    BY <1>1, <2>1, DirectoryIsListed DEF IndexInv, DirectoryGood
  <2> QED BY <2>1 DEF CapacityRespected
<1>2. IndexInv => NoEmptyNamespace
  BY DEF IndexInv, DirectoryGood, MapTyped, NoEmptyNamespace
<1>3. ASSUME IndexInv
      PROVE  ReportsTheList
  <2> SUFFICES ASSUME NEW b \in registered
               PROVE  /\ TotalEntries(b) = Directory!Used(b)
                      /\ \A ns \in Namespaces, p \in Prompts :
                           LookupPrefix(b, ns, p) = Directory!Match(b, ns, p)
    BY DEF ReportsTheList
  <2>1. b \in Backends
    BY <1>3 DEF IndexInv
  <2>2. /\ TotalEntries(b) = Len(RecencyList(b))
        /\ ToSet(RecencyList(b)) = Slots(entries[b])
    BY <1>3, <2>1, DirectoryIsListed
  <2>3. Directory!Used(b) = Len(RecencyList(b))
    BY <2>1 DEF Directory!Used
  <2>4. ASSUME NEW ns \in Namespaces, NEW p \in Prompts
        PROVE  LookupPrefix(b, ns, p) = Directory!Match(b, ns, p)
    <3>1. Directory!Match(b, ns, p)
            = Directory!MatchLength(Directory!ToSet(RecencyList(b)), ns, p)
      BY <2>1, Zenon DEF Directory!Match
    <3>2. Directory!Match(b, ns, p) = MatchLength(Slots(entries[b]), ns, p)
      BY <2>2, <3>1, SameElements, SameMatchLength
    <3> QED BY <1>3, <3>2, LookupIsMatch
  <2> QED BY <2>2, <2>3, <2>4
<1>4. IndexInv => DirectorySound
  BY <1>1, <1>2, <1>3 DEF DirectorySound
<1> QED BY IndexInvHolds, <1>4, PTL

\* One backend's list changes and the others stay.
LEMMA OneListChanges ==
  ASSUME NEW b \in Backends, NEW list, RecencyList(b)' = list,
         \A c \in Backends \ {b} : RecencyList(c)' = RecencyList(c)
  PROVE  [c \in Backends |-> RecencyList(c)]'
           = [[c \in Backends |-> RecencyList(c)] EXCEPT ![b] = list]
OBVIOUS

(***************************************************************************)
(* Registering and committing on the maps, timestamps and numbers is       *)
(* forgetting and committing on the list of the last commits: eviction     *)
(* always drops the keys committed longest ago, equal times or not.        *)
(***************************************************************************)
THEOREM IndexImplementsLru == IndexSpec => ImplementsLru
<1>1. IndexInit => Directory!LruInit
  <2> SUFFICES ASSUME IndexInit PROVE Directory!LruInit
    OBVIOUS
  <2>1. \A b \in Backends : RecencyList(b) = << >>
    BY EmptyDirectory DEF IndexInit, RecencyList
  <2> QED BY <2>1 DEF Directory!LruInit
<1>2. IndexInv /\ [IndexNext]_indexVars
        => [Directory!LruNext]_([b \in Backends |-> RecencyList(b)])
  <2> SUFFICES ASSUME IndexInv, [IndexNext]_indexVars
               PROVE  [Directory!LruNext]_([b \in Backends |-> RecencyList(b)])
    OBVIOUS
  <2>1. ASSUME NEW b \in Backends, RegisterBackend(b)
        PROVE  Directory!Forget(b)
    <3>1. /\ RecencyList(b)' = << >>
          /\ \A c \in Backends \ {b} : RecencyList(c)' = RecencyList(c)
      BY <2>1, RegisterStep
    <3> QED BY <3>1, OneListChanges DEF Directory!Forget
  <2>2. ASSUME NEW b \in Backends, NEW ns \in Namespaces, NEW p \in Prompts,
               Commit(b, ns, p)
        PROVE  Directory!CommitObservation(b, ns, p)
    <3>1. /\ RecencyList(b)' = Newest(Touch(RecencyList(b), ns, p), Capacity[b])
          /\ \A c \in Backends \ {b} : RecencyList(c)' = RecencyList(c)
      BY <2>2, CommitStep
    <3>2. Capacity[b] > 0
      BY <2>2 DEF Commit
    <3>3. Directory!Newest(Directory!Touch(RecencyList(b), ns, p), Capacity[b])
            = Newest(Touch(RecencyList(b), ns, p), Capacity[b])
      BY SameNewest, SameTouch
    <3>4. PICK list : list = Newest(Touch(RecencyList(b), ns, p), Capacity[b])
      OBVIOUS
    <3>5. [c \in Backends |-> RecencyList(c)]'
            = [[c \in Backends |-> RecencyList(c)] EXCEPT ![b] = list]
      BY <3>1, <3>4, OneListChanges
    <3> QED BY <3>2, <3>3, <3>4, <3>5 DEF Directory!CommitObservation
  <2>3. CASE ClockAdvances
    BY <2>3, ClockStep
  <2>4. CASE UNCHANGED indexVars
    BY <2>4 DEF indexVars, RecencyList
  <2> QED BY <2>1, <2>2, <2>3, <2>4 DEF IndexNext, Directory!LruNext
<1> QED BY IndexInvHolds, <1>1, <1>2, PTL DEF IndexSpec, ImplementsLru, Directory!LruSpec

-----------------------------------------------------------------------------
(* The radix tree: what happens to a node.                                 *)

TreeEntries == [backend : TreeBackends, last : 0..MaxTreeTime]

\* A node lists entries, at most one of each backend.
NodeGood(node) ==
  /\ node \in Seq(TreeEntries)
  /\ \A i, j \in DOMAIN node : node[i].backend = node[j].backend => i = j

Holds(node, b) == Places(node, b) # {}

LEMMA OnePlace ==
  ASSUME NEW node, NodeGood(node), NEW b, NEW k \in Places(node, b)
  PROVE  Places(node, b) = {k} /\ Min(Places(node, b)) = k /\ k \in DOMAIN node
<1>1. Places(node, b) = {k} /\ k \in DOMAIN node
  BY DEF Places, NodeGood
<1>2. k \in Nat
  BY <1>1 DEF NodeGood
<1>3. Min({k}) = k
  BY <1>2 DEF Min
<1> QED BY <1>1, <1>3

LEMMA RefreshedNode ==
  ASSUME NEW node, NodeGood(node), NEW b \in TreeBackends, NEW now \in 0..MaxTreeTime,
         NEW k \in Places(node, b), NEW new, new = Refreshed(node, b, now)
  PROVE  /\ NodeGood(new)
         /\ \A c : Places(new, c) = Places(node, c)
         /\ new[k].last = now
         /\ \A i \in DOMAIN new : i # k => new[i] = node[i]
<1>1. k \in DOMAIN node /\ Min(Places(node, b)) = k
  BY OnePlace
<1>2. new = [node EXCEPT ![k] = [node[k] EXCEPT !.last = now]]
  BY <1>1 DEF Refreshed
<1>3. node \in Seq(TreeEntries) /\ node[k] \in TreeEntries
  BY <1>1 DEF NodeGood
<1>4. PICK entry : entry = [node[k] EXCEPT !.last = now]
  OBVIOUS
<1>5. entry \in TreeEntries /\ entry.backend = node[k].backend /\ entry.last = now
  BY <1>3, <1>4 DEF TreeEntries
<1>6. /\ new \in Seq(TreeEntries) /\ DOMAIN new = DOMAIN node
      /\ \A i \in DOMAIN node : new[i] = IF i = k THEN entry ELSE node[i]
  <2>1. new = [node EXCEPT ![k] = entry]
    BY <1>2, <1>4
  <2>2. entry \in TreeEntries
    BY <1>5
  <2>3. /\ DOMAIN node = 1..Len(node) /\ Len(node) \in Nat
        /\ \A i \in DOMAIN node : node[i] \in TreeEntries
    BY <1>3
  <2> HIDE DEF TreeEntries
  <2>4. new = [i \in 1..Len(node) |-> IF i = k THEN entry ELSE node[i]]
    BY <1>3, <2>1, <2>3
  <2>5. \A i \in 1..Len(node) : (IF i = k THEN entry ELSE node[i]) \in TreeEntries
    BY <2>2, <2>3
  <2> QED BY <2>3, <2>4, <2>5
<1>7. \A i \in DOMAIN node : new[i].backend = node[i].backend
  BY <1>5, <1>6
<1>8. NodeGood(new)
  BY <1>6, <1>7 DEF NodeGood
<1>9. \A c : Places(new, c) = Places(node, c)
  BY <1>6, <1>7 DEF Places
<1> QED BY <1>1, <1>5, <1>6, <1>8, <1>9

Extended(node, b, now) == Append(node, [backend |-> b, last |-> now])

LEMMA AppendedNode ==
  ASSUME NEW node, NodeGood(node), NEW b \in TreeBackends, NEW now \in 0..MaxTreeTime,
         ~Holds(node, b), NEW new, new = Extended(node, b, now)
  PROVE  /\ NodeGood(new)
         /\ \A c : c # b => Places(new, c) = Places(node, c)
         /\ Places(new, b) = {Len(node) + 1}
         /\ new[Len(node) + 1].last = now
         /\ \A i \in DOMAIN node : new[i] = node[i]
<1>1. PICK entry : entry = [backend |-> b, last |-> now]
  OBVIOUS
<1>2. entry \in TreeEntries /\ entry.backend = b /\ entry.last = now
  BY <1>1 DEF TreeEntries
<1>3. /\ node \in Seq(TreeEntries) /\ DOMAIN node = 1..Len(node) /\ Len(node) \in Nat
      /\ \A i, j \in DOMAIN node : node[i].backend = node[j].backend => i = j
  BY DEF NodeGood
<1>4. /\ new \in Seq(TreeEntries) /\ DOMAIN new = 1..(Len(node) + 1)
      /\ \A i \in DOMAIN node : new[i] = node[i]
      /\ new[Len(node) + 1] = entry
  BY <1>1, <1>2, <1>3 DEF Extended
<1>5. \A i \in DOMAIN node : node[i].backend # b
  BY DEF Holds, Places
<1>6. \A i \in DOMAIN new : i = Len(node) + 1 \/ i \in DOMAIN node
  BY <1>3, <1>4
<1>7. \A i, j \in DOMAIN new : new[i].backend = new[j].backend => i = j
  BY <1>2, <1>3, <1>4, <1>5, <1>6
<1>8. NodeGood(new)
  BY <1>4, <1>7 DEF NodeGood
<1>9. Len(node) + 1 \in DOMAIN new /\ Len(node) + 1 \notin DOMAIN node
      /\ DOMAIN node \subseteq DOMAIN new
  BY <1>3, <1>4
<1>10. ASSUME NEW c, c # b
       PROVE  Places(new, c) = Places(node, c)
  BY <1>2, <1>4, <1>6, <1>9, <1>10 DEF Places
<1>11. Places(new, b) = {Len(node) + 1}
  BY <1>2, <1>4, <1>5, <1>6, <1>9 DEF Places
<1> QED BY <1>2, <1>4, <1>8, <1>10, <1>11

LEMMA RemainingNode ==
  ASSUME NEW node, NodeGood(node), NEW places \in SUBSET DOMAIN node,
         NEW new, new = Remaining(node, places)
  PROVE  /\ NodeGood(new)
         /\ \A i \in DOMAIN new : \E j \in DOMAIN node \ places : new[i] = node[j]
         /\ \A j \in DOMAIN node \ places : \E i \in DOMAIN new : new[i] = node[j]
<1> DEFINE X == DOMAIN node
           list == [i \in DOMAIN node |-> i]
<1>1. node \in Seq(TreeEntries) /\ X = 1..Len(node) /\ Len(node) \in Nat
  BY DEF NodeGood
<1>2. /\ list \in Seq(X) /\ DOMAIN list = X
      /\ \A i \in X : list[i] = i
  BY <1>1
<1> HIDE DEF list
<1>3. Ordered(list, Different(X))
  <2>1. \A i, j \in X : i < j => i # j
    BY <1>1
  <2> QED BY <1>2, <2>1 DEF Ordered, Different
<1>4. PICK rest : rest = Without(list, places)
  OBVIOUS
<1>5. /\ rest \in Seq(X) /\ ToSet(rest) = ToSet(list) \ places
      /\ Ordered(rest, Different(X))
  BY <1>2, <1>3, <1>4, WithoutKeeps
<1>6. ToSet(list) = X
  BY <1>2 DEF ToSet
<1>7. \A i, j \in DOMAIN rest : rest[i] = rest[j] => i = j
  <2>1. DOMAIN rest = 1..Len(rest) /\ Len(rest) \in Nat
    BY <1>5
  <2>2. \A i, j \in DOMAIN rest : i < j => rest[i] # rest[j]
    BY <1>5 DEF Ordered, Different
  <2>3. \A i, j \in DOMAIN rest : i = j \/ i < j \/ j < i
    BY <2>1
  <2> QED BY <2>2, <2>3
<1>8. new = [n \in DOMAIN rest |-> node[rest[n]]]
  BY <1>4 DEF Remaining, list
<1>9. \A n \in DOMAIN rest : rest[n] \in X \ places
  BY <1>5, <1>6 DEF ToSet
<1>10. \A j \in X \ places : \E n \in DOMAIN rest : rest[n] = j
  BY <1>5, <1>6 DEF ToSet
<1>11. DOMAIN new = DOMAIN rest /\ \A n \in DOMAIN rest : new[n] = node[rest[n]]
  BY <1>8
<1>12. new \in Seq(TreeEntries)
  BY <1>1, <1>5, <1>8, <1>9
<1>13. \A i, j \in DOMAIN new : new[i].backend = new[j].backend => i = j
  BY <1>7, <1>9, <1>11 DEF NodeGood
<1> QED BY <1>9, <1>10, <1>11, <1>12, <1>13 DEF NodeGood

-----------------------------------------------------------------------------
(* The paths of a tree.                                                    *)

LEMMA PathPrefixes ==
  ASSUME NEW path \in Seq(Hashes)
  PROVE  /\ Prefixes(path) = {Prefix(path, n) : n \in 0..Len(path)}
         /\ << >> \in Prefixes(path) /\ path \in Prefixes(path)
         /\ IsFiniteSet(Prefixes(path))
         /\ \A p \in Prefixes(path) : p \in Seq(Hashes) /\ Prefixes(p) \subseteq Prefixes(path)
<1>1. Len(path) \in Nat
  OBVIOUS
<1>2. Prefixes(path) = {Prefix(path, n) : n \in 0..Len(path)}
  BY DEF Prefixes, Prefix
<1>3. Prefix(path, 0) = << >> /\ Prefix(path, Len(path)) = path
  BY DEF Prefix
<1>4. IsFiniteSet(Prefixes(path))
  <2> DEFINE f == [n \in 0..Len(path) |-> Prefix(path, n)]
  <2>1. f \in Surjection(0..Len(path), Prefixes(path))
    BY <1>2 DEF Surjection
  <2>2. 0 \in Int /\ Len(path) \in Int
    OBVIOUS
  <2>3. IsFiniteSet(0..Len(path))
    BY <2>2, FS_Interval
  <2> HIDE DEF f
  <2> QED BY <2>1, <2>3, FS_Surjection
<1>5. ASSUME NEW p \in Prefixes(path)
      PROVE  p \in Seq(Hashes) /\ Prefixes(p) \subseteq Prefixes(path)
  <2>1. PICK n \in 0..Len(path) : p = Prefix(path, n)
    BY <1>2
  <2>2. p \in Seq(Hashes) /\ Len(p) = n
    BY <2>1 DEF Prefix
  <2>3. ASSUME NEW m \in 0..Len(p)
        PROVE  SubSeq(p, 1, m) = SubSeq(path, 1, m) /\ m \in 0..Len(path)
    BY <2>1, <2>2 DEF Prefix
  <2> QED BY <2>2, <2>3 DEF Prefixes
<1> QED BY <1>1, <1>2, <1>3, <1>4, <1>5

-----------------------------------------------------------------------------
(* The tree.                                                               *)

Pairs == {key \in TreeBackends \X Nodes : key[2] \in Cached(key[1])}

\* The entries of a backend at a path carry the time of its last use.
TimesRight(b, path) ==
  /\ path \in Paths
  /\ \A i \in Places(tree[path], b) : tree[path][i].last = lastUse[<<b, path>>]

TreeInv ==
  /\ << >> \in Nodes /\ Nodes \subseteq AllPaths /\ IsFiniteSet(Nodes)
  /\ \A path \in Nodes : path \in Seq(Hashes) /\ Prefixes(path) \subseteq Nodes
  /\ \A path \in Nodes : NodeGood(tree[path])
  /\ IsFiniteSet(Pairs)
  /\ nodeCount = Cardinality(Nodes)
  /\ entryCount = Cardinality(Pairs)
  /\ treeClock \in 0..MaxTreeTime
  /\ lastUse \in [TreeBackends \X Paths -> 0..MaxTreeTime]
  /\ \A b \in TreeBackends : \A path \in Cached(b) : TimesRight(b, path)

LEMMA InitTree == TreeInit => TreeInv
<1> SUFFICES ASSUME TreeInit PROVE TreeInv
  OBVIOUS
<1>1. tree = [path \in {<< >>} |-> << >>]
  BY DEF TreeInit
<1>2. Nodes = {<< >>} /\ tree[<< >>] = << >>
  BY <1>1 DEF Nodes
<1>3. << >> \in Seq(Hashes) /\ Prefixes(<< >>) = {<< >>} /\ << >> \in AllPaths
  <2>1. << >> \in Seq(Hashes) /\ Len(<< >>) = 0
    OBVIOUS
  <2>2. 0..0 = {0}
    OBVIOUS
  <2>3. << >> \in Prefixes(<< >>)
    BY <2>1, PathPrefixes
  <2>4. \A l \in 0..Len(<< >>) : l = 0
    BY <2>1
  <2>5. \A l, m \in 0..Len(<< >>) : SubSeq(<< >>, 1, l) = SubSeq(<< >>, 1, m)
    BY <2>4
  <2> QED BY <2>1, <2>3, <2>5, Zenon DEF Prefixes, AllPaths
<1>4. NodeGood(<< >>)
  BY DEF NodeGood
<1>5. \A b : Cached(b) = {}
  BY <1>2 DEF Cached, Places
<1>6. Pairs = {}
  BY <1>5 DEF Pairs
<1>7. /\ IsFiniteSet(Nodes) /\ Cardinality(Nodes) = 1
      /\ IsFiniteSet(Pairs) /\ Cardinality(Pairs) = 0
  BY <1>2, <1>6, FS_EmptySet, FS_Singleton
<1>8. /\ lastUse \in [TreeBackends \X Paths -> 0..MaxTreeTime]
      /\ treeClock \in 0..MaxTreeTime
  BY TreeAssumption DEF TreeInit
<1>9. nodeCount = 1 /\ entryCount = 0
  BY DEF TreeInit
<1> QED BY <1>2, <1>3, <1>4, <1>5, <1>7, <1>8, <1>9 DEF TreeInv

\* What is cached, node by node.
LEMMA CachedHolds ==
  ASSUME NEW b, NEW path
  PROVE  path \in Cached(b) <=> path \in Nodes /\ Holds(tree[path], b)
BY DEF Cached, Holds

NodeAt(path) == IF path \in Nodes THEN tree[path] ELSE << >>

LEMMA NodeAtGood ==
  ASSUME TreeInv, NEW path
  PROVE  NodeGood(NodeAt(path))
<1>1. NodeGood(<< >>)
  BY DEF NodeGood
<1> QED BY <1>1 DEF NodeAt, TreeInv

\* The entry of b at one path is added or refreshed.
NodeUsed(node, new, b, now) ==
  /\ NodeGood(new) /\ Holds(new, b)
  /\ \A i \in Places(new, b) : new[i].last = now
  /\ \A c : c # b => /\ Places(new, c) = Places(node, c)
                     /\ \A i \in Places(node, c) : new[i] = node[i]

LEMMA OneNodeChanges ==
  ASSUME TreeInv, NEW b \in TreeBackends, NEW path \in Paths, NEW now \in 0..MaxTreeTime,
         path \in Nodes', Nodes \subseteq Nodes',
         \A p \in Nodes' : p # path => tree'[p] = NodeAt(p),
         NodeUsed(NodeAt(path), tree'[path], b, now),
         lastUse' = [lastUse EXCEPT ![<<b, path>>] = now]
  PROVE  /\ \A p \in Nodes' : NodeGood(tree'[p])
         /\ Cached(b)' = Cached(b) \cup {path}
         /\ \A c : c # b => Cached(c)' = Cached(c)
         /\ lastUse' \in [TreeBackends \X Paths -> 0..MaxTreeTime]
         /\ \A c \in TreeBackends : \A p \in Cached(c)' : TimesRight(c, p)'
<1>1. \A p \in Nodes' : NodeGood(tree'[p])
  BY NodeAtGood DEF NodeUsed
<1>2. /\ lastUse' \in [TreeBackends \X Paths -> 0..MaxTreeTime]
      /\ \A c \in TreeBackends, p \in Paths :
           lastUse'[<<c, p>>] = IF c = b /\ p = path THEN now ELSE lastUse[<<c, p>>]
  BY DEF TreeInv
<1>3. ASSUME NEW p, NEW c
      PROVE  /\ p \in Cached(c) <=> p \in Nodes /\ Places(NodeAt(p), c) # {}
             /\ p \in Cached(c)' <=> p \in Nodes' /\ Places(tree'[p], c) # {}
  BY DEF Cached, NodeAt
<1>4. \A p, c : p \notin Nodes => Places(NodeAt(p), c) = {}
  BY DEF NodeAt, Places
<1>5. ASSUME NEW p \in Nodes', NEW c, p # path \/ c # b
      PROVE  /\ Places(tree'[p], c) = Places(NodeAt(p), c)
             /\ \A i \in Places(NodeAt(p), c) : tree'[p][i] = NodeAt(p)[i]
  <2>1. CASE p # path
    BY <2>1
  <2>2. CASE p = path /\ c # b
    BY <2>2 DEF NodeUsed
  <2> QED BY <1>5, <2>1, <2>2
<1>6. ASSUME NEW p, NEW c, p # path \/ c # b
      PROVE  p \in Cached(c)' <=> p \in Cached(c)
  <2>1. CASE p \in Nodes'
    <3>1. Places(tree'[p], c) = Places(NodeAt(p), c)
      BY <1>5, <1>6, <2>1
    <3> QED BY <1>3, <1>4, <2>1, <3>1
  <2>2. CASE p \notin Nodes'
    BY <1>3, <2>2
  <2> QED BY <2>1, <2>2
<1>7. path \in Cached(b)'
  BY <1>3 DEF NodeUsed, Holds
<1>8. Cached(b)' = Cached(b) \cup {path}
  BY <1>6, <1>7
<1>9. ASSUME NEW c, c # b
      PROVE  Cached(c)' = Cached(c)
  <2>1. Cached(c)' \subseteq Cached(c) /\ Cached(c) \subseteq Cached(c)'
    BY <1>6, <1>9
  <2> QED BY <2>1
<1>10. ASSUME NEW c \in TreeBackends, NEW p \in Cached(c)'
       PROVE  TimesRight(c, p)'
  <2>1. p \in Nodes'
    BY <1>3
  <2>2. CASE p = path /\ c = b
    <3>1. lastUse'[<<c, p>>] = now
      BY <1>2, <2>2
    <3>2. \A i \in Places(tree'[p], c) : tree'[p][i].last = now
      BY <2>2 DEF NodeUsed
    <3> QED BY <2>2, <3>1, <3>2 DEF TimesRight
  <2>3. CASE p # path \/ c # b
    <3>1. p \in Cached(c) /\ p \in Nodes /\ NodeAt(p) = tree[p]
      BY <1>3, <1>6, <2>3 DEF NodeAt
    <3>2. TimesRight(c, p)
      BY <3>1 DEF TreeInv
    <3>3. p \in Paths /\ lastUse'[<<c, p>>] = lastUse[<<c, p>>]
      BY <1>2, <2>3, <3>2 DEF TimesRight
    <3>4. /\ Places(tree'[p], c) = Places(tree[p], c)
          /\ \A i \in Places(tree[p], c) : tree'[p][i] = tree[p][i]
      BY <1>5, <2>1, <2>3, <3>1
    <3> QED BY <3>2, <3>3, <3>4 DEF TimesRight
  <2> QED BY <2>2, <2>3
<1> QED BY <1>1, <1>2, <1>8, <1>9, <1>10

LEMMA PairsGrow ==
  ASSUME NEW b \in TreeBackends, NEW path \in Nodes', Nodes \subseteq Nodes',
         Cached(b)' = Cached(b) \cup {path},
         \A c : c # b => Cached(c)' = Cached(c)
  PROVE  /\ Pairs' = Pairs \cup {<<b, path>>}
         /\ <<b, path>> \in Pairs <=> path \in Cached(b)
<1>1. \A c : Cached(c) \subseteq Nodes /\ Cached(c)' \subseteq Nodes'
  BY DEF Cached
<1>2. ASSUME NEW c \in TreeBackends, NEW p
      PROVE  /\ <<c, p>> \in Pairs <=> p \in Cached(c)
             /\ <<c, p>> \in Pairs' <=> p \in Cached(c)'
  BY <1>1 DEF Pairs
<1>3. ASSUME NEW c \in TreeBackends, NEW p
      PROVE  <<c, p>> \in Pairs' <=> <<c, p>> \in Pairs \/ (c = b /\ p = path)
  <2>1. CASE c = b
    BY <1>2, <2>1
  <2>2. CASE c # b
    <3>1. Cached(c)' = Cached(c)
      BY <2>2
    <3> QED BY <1>2, <2>2, <3>1
  <2> QED BY <2>1, <2>2
<1>4. /\ \A key \in Pairs : \E c \in TreeBackends, p \in Nodes : key = <<c, p>>
      /\ \A key \in Pairs' : \E c \in TreeBackends, p \in Nodes' : key = <<c, p>>
  BY DEF Pairs
<1>5. Pairs' \subseteq Pairs \cup {<<b, path>>}
  BY <1>3, <1>4
<1>6. Pairs \subseteq Pairs' /\ <<b, path>> \in Pairs'
  BY <1>3, <1>4
<1> QED BY <1>2, <1>5, <1>6

\* The tree keeps a node for every prefix of a node's path.
LEMMA GrownNodes ==
  ASSUME TreeInv, NEW path \in Paths, Nodes' = Nodes \cup Prefixes(path)
  PROVE  /\ << >> \in Nodes' /\ Nodes' \subseteq AllPaths /\ IsFiniteSet(Nodes')
         /\ \A p \in Nodes' : p \in Seq(Hashes) /\ Prefixes(p) \subseteq Nodes'
         /\ path \in Nodes'
         /\ Cardinality(Nodes') = nodeCount + Cardinality(Prefixes(path) \ Nodes)
<1>1. path \in Seq(Hashes)
  BY TreeAssumption
<1>2. /\ path \in Prefixes(path) /\ IsFiniteSet(Prefixes(path))
      /\ \A p \in Prefixes(path) : p \in Seq(Hashes) /\ Prefixes(p) \subseteq Prefixes(path)
  BY <1>1, PathPrefixes
<1>3. Prefixes(path) \subseteq AllPaths
  BY DEF AllPaths
<1>4. PICK fresh : fresh = Prefixes(path) \ Nodes
  OBVIOUS
<1>5. IsFiniteSet(Nodes) /\ IsFiniteSet(fresh)
  BY <1>2, <1>4, FS_Difference DEF TreeInv
<1>6. Nodes' = Nodes \cup fresh /\ Nodes \cap fresh = {}
  BY <1>4
<1>7. /\ IsFiniteSet(Nodes')
      /\ Cardinality(Nodes') = Cardinality(Nodes) + Cardinality(fresh) - Cardinality({})
  BY <1>5, <1>6, FS_Union
<1>8. Cardinality({}) = 0 /\ Cardinality(Nodes) \in Nat /\ Cardinality(fresh) \in Nat
  BY <1>5, FS_EmptySet, FS_CardinalityType
<1>9. Cardinality(Nodes') = nodeCount + Cardinality(fresh)
  BY <1>7, <1>8 DEF TreeInv
<1>10. \A p \in Nodes' : p \in Seq(Hashes) /\ Prefixes(p) \subseteq Nodes'
  BY <1>2 DEF TreeInv
<1>11. << >> \in Nodes' /\ Nodes' \subseteq AllPaths
  BY <1>3 DEF TreeInv
<1> QED BY <1>2, <1>4, <1>7, <1>9, <1>10, <1>11

LEMMA InsertKeeps ==
  ASSUME TreeInv, NEW b \in TreeBackends, NEW path \in Paths, NEW now \in 0..MaxTreeTime,
         Insert(path, b, now)
  PROVE  TreeInv' /\ \A c \in TreeBackends : Cached(c) \subseteq Cached(c)'
<1> DEFINE node == Grown(path)[path]
           new == IF Holds(node, b) THEN Refreshed(node, b, now)
                  ELSE Append(node, [backend |-> b, last |-> now])
<1>1. path \in Prefixes(path)
  BY TreeAssumption, PathPrefixes
<1>2. /\ DOMAIN Grown(path) = Nodes \cup Prefixes(path)
      /\ \A p \in Nodes \cup Prefixes(path) : Grown(path)[p] = NodeAt(p)
  BY DEF Grown, NodeAt
<1>3. node = NodeAt(path)
  BY <1>1, <1>2
<1>4. tree' = [Grown(path) EXCEPT ![path] = new]
  BY Zenon DEF Insert, Holds
<1>5. /\ entryCount' = (IF Holds(node, b) THEN entryCount ELSE entryCount + 1)
      /\ nodeCount' = nodeCount + Cardinality(Prefixes(path) \ Nodes)
      /\ lastUse' = [lastUse EXCEPT ![<<b, path>>] = now]
      /\ treeClock' = now
  BY DEF Insert, Holds, Read
<1> HIDE DEF node, new
<1>6. /\ Nodes' = Nodes \cup Prefixes(path)
      /\ tree'[path] = new
      /\ \A p \in Nodes' : p # path => tree'[p] = NodeAt(p)
  BY <1>1, <1>2, <1>4 DEF Nodes
<1>7. NodeGood(node)
  BY <1>3, NodeAtGood
<1>8. NodeUsed(node, new, b, now)
  <2>1. CASE Holds(node, b)
    <3>1. PICK k \in Places(node, b) : TRUE
      BY <2>1 DEF Holds
    <3>2. new = Refreshed(node, b, now)
      BY <2>1 DEF new
    <3>3. /\ NodeGood(new)
          /\ \A c : Places(new, c) = Places(node, c)
          /\ new[k].last = now
          /\ \A i \in DOMAIN new : i # k => new[i] = node[i]
      BY <1>7, <3>2, RefreshedNode
    <3>4. Places(node, b) = {k}
      BY <1>7, OnePlace
    <3>5. ASSUME NEW c, c # b, NEW i \in Places(node, c)
          PROVE  new[i] = node[i]
      <4>1. i \in DOMAIN new /\ i \in Places(new, c)
        BY <3>3 DEF Places
      <4>2. node[i].backend = c /\ node[k].backend = b
        BY DEF Places
      <4>3. i # k
        BY <3>5, <4>2
      <4> QED BY <3>3, <4>1, <4>3
    <3> QED BY <3>3, <3>4, <3>5 DEF NodeUsed, Holds
  <2>2. CASE ~Holds(node, b)
    <3>1. new = Extended(node, b, now)
      BY <2>2 DEF new, Extended
    <3>2. /\ NodeGood(new)
          /\ \A c : c # b => Places(new, c) = Places(node, c)
          /\ Places(new, b) = {Len(node) + 1}
          /\ new[Len(node) + 1].last = now
          /\ \A i \in DOMAIN node : new[i] = node[i]
      BY <1>7, <2>2, <3>1, AppendedNode
    <3> QED BY <3>2 DEF NodeUsed, Holds, Places
  <2> QED BY <2>1, <2>2
<1>9. /\ \A p \in Nodes' : NodeGood(tree'[p])
      /\ Cached(b)' = Cached(b) \cup {path}
      /\ \A c : c # b => Cached(c)' = Cached(c)
      /\ lastUse' \in [TreeBackends \X Paths -> 0..MaxTreeTime]
      /\ \A c \in TreeBackends : \A p \in Cached(c)' : TimesRight(c, p)'
  <2>1. NodeUsed(NodeAt(path), tree'[path], b, now)
    BY <1>3, <1>6, <1>8
  <2>2. path \in Nodes' /\ Nodes \subseteq Nodes'
    BY <1>1, <1>6
  <2> QED BY <1>5, <1>6, <2>1, <2>2, OneNodeChanges
<1>10. /\ << >> \in Nodes' /\ Nodes' \subseteq AllPaths /\ IsFiniteSet(Nodes')
       /\ \A p \in Nodes' : p \in Seq(Hashes) /\ Prefixes(p) \subseteq Nodes'
       /\ path \in Nodes' /\ nodeCount' = Cardinality(Nodes')
  BY <1>5, <1>6, GrownNodes
<1>11. /\ Pairs' = Pairs \cup {<<b, path>>}
       /\ <<b, path>> \in Pairs <=> path \in Cached(b)
  BY <1>6, <1>9, <1>10, PairsGrow
<1>12. path \in Cached(b) <=> Holds(node, b)
  BY <1>3 DEF Cached, Holds, NodeAt, Places
<1>13. IsFiniteSet(Pairs') /\ entryCount' = Cardinality(Pairs')
  <2>1. IsFiniteSet(Pairs) /\ entryCount = Cardinality(Pairs)
    BY DEF TreeInv
  <2>2. PICK key : key = <<b, path>>
    OBVIOUS
  <2>3. /\ IsFiniteSet(Pairs \cup {key})
        /\ Cardinality(Pairs \cup {key})
             = IF key \in Pairs THEN Cardinality(Pairs) ELSE Cardinality(Pairs) + 1
    BY <2>1, FS_AddElement
  <2> QED BY <1>5, <1>11, <1>12, <2>1, <2>2, <2>3
<1>14. AllPaths' = AllPaths /\ treeClock' \in 0..MaxTreeTime
  BY <1>5 DEF AllPaths
<1>15. TreeInv'
  BY <1>9, <1>10, <1>13, <1>14 DEF TreeInv
<1>16. ASSUME NEW c \in TreeBackends
       PROVE  Cached(c) \subseteq Cached(c)'
  BY <1>9
<1> QED BY <1>15, <1>16

LEMMA TouchKeepsTree ==
  ASSUME TreeInv, NEW b \in TreeBackends, NEW path \in Paths, NEW now \in 0..MaxTreeTime,
         TouchEntry(path, b, now)
  PROVE  TreeInv' /\ \A c \in TreeBackends : Cached(c) \subseteq Cached(c)'
<1>1. PICK node : node = tree[path]
  OBVIOUS
<1>2. PICK new : new = Refreshed(node, b, now)
  OBVIOUS
<1>3. /\ path \in Cached(b) /\ path \in Nodes
      /\ tree' = [tree EXCEPT ![path] = new]
      /\ lastUse' = [lastUse EXCEPT ![<<b, path>>] = now]
      /\ nodeCount' = nodeCount /\ entryCount' = entryCount /\ treeClock' = now
  BY <1>1, <1>2 DEF TouchEntry, Read, Cached
<1>4. NodeAt(path) = node /\ NodeGood(node)
  BY <1>1, <1>3 DEF NodeAt, TreeInv
<1>5. PICK k \in Places(node, b) : TRUE
  BY <1>1, <1>3 DEF Cached
<1>6. /\ Nodes' = Nodes /\ tree'[path] = new
      /\ \A p \in Nodes' : p # path => tree'[p] = NodeAt(p)
  BY <1>3 DEF Nodes, NodeAt
<1>7. NodeUsed(node, new, b, now)
  <2>1. /\ NodeGood(new)
        /\ \A c : Places(new, c) = Places(node, c)
        /\ new[k].last = now
        /\ \A i \in DOMAIN new : i # k => new[i] = node[i]
    BY <1>2, <1>4, RefreshedNode
  <2>2. Places(node, b) = {k}
    BY <1>4, OnePlace
  <2>3. ASSUME NEW c, c # b, NEW i \in Places(node, c)
        PROVE  new[i] = node[i]
    <3>1. i \in DOMAIN new /\ i \in Places(new, c)
      BY <2>1 DEF Places
    <3>2. node[i].backend = c /\ node[k].backend = b
      BY DEF Places
    <3>3. i # k
      BY <2>3, <3>2
    <3> QED BY <2>1, <3>1, <3>3
  <2> QED BY <2>1, <2>2, <2>3 DEF NodeUsed, Holds
<1>8. /\ \A p \in Nodes' : NodeGood(tree'[p])
      /\ Cached(b)' = Cached(b) \cup {path}
      /\ \A c : c # b => Cached(c)' = Cached(c)
      /\ lastUse' \in [TreeBackends \X Paths -> 0..MaxTreeTime]
      /\ \A c \in TreeBackends : \A p \in Cached(c)' : TimesRight(c, p)'
  <2>1. NodeUsed(NodeAt(path), tree'[path], b, now)
    BY <1>4, <1>6, <1>7
  <2> QED BY <1>3, <1>6, <2>1, OneNodeChanges
<1>9. Pairs' = Pairs
  <2>1. /\ Pairs' = Pairs \cup {<<b, path>>}
        /\ <<b, path>> \in Pairs
    BY <1>3, <1>6, <1>8, PairsGrow
  <2> QED BY <2>1
<1>10. AllPaths' = AllPaths /\ treeClock' \in 0..MaxTreeTime
  BY <1>3 DEF AllPaths
<1>11. /\ << >> \in Nodes' /\ Nodes' \subseteq AllPaths /\ IsFiniteSet(Nodes')
       /\ \A p \in Nodes' : p \in Seq(Hashes) /\ Prefixes(p) \subseteq Nodes'
  BY <1>6 DEF TreeInv
<1>12. /\ IsFiniteSet(Pairs') /\ entryCount' = Cardinality(Pairs')
       /\ nodeCount' = Cardinality(Nodes')
  BY <1>3, <1>6, <1>9 DEF TreeInv
<1>13. TreeInv'
  BY <1>8, <1>10, <1>11, <1>12 DEF TreeInv
<1> QED BY <1>8, <1>13

-----------------------------------------------------------------------------
(* Eviction.                                                               *)

\* Each path with an entry of b has one reference to it.
LEMMA RefsArePaths ==
  ASSUME TreeInv, NEW b \in TreeBackends
  PROVE  /\ \A r \in Refs(b) : /\ r = <<r[1], r[2]>> /\ r[1] \in Cached(b) /\ r[1] \in Nodes
                               /\ Places(tree[r[1]], b) = {r[2]}
                               /\ LastAt(r) = lastUse[<<b, r[1]>>]
         /\ \A path \in Cached(b) : \E r \in Refs(b) : r[1] = path
         /\ \A r, s \in Refs(b) : r[1] = s[1] => r = s
         /\ IsFiniteSet(Refs(b))
<1>1. ASSUME NEW r \in Refs(b)
      PROVE  /\ r = <<r[1], r[2]>> /\ r[1] \in Cached(b) /\ r[1] \in Nodes
             /\ Places(tree[r[1]], b) = {r[2]}
             /\ LastAt(r) = lastUse[<<b, r[1]>>]
  <2>1. PICK path \in Nodes : r \in {<<path, i>> : i \in Places(tree[path], b)}
    BY DEF Refs
  <2>2. PICK i \in Places(tree[path], b) : r = <<path, i>>
    BY <2>1
  <2>3. NodeGood(tree[path]) /\ path \in Cached(b)
    BY DEF TreeInv, Cached
  <2>4. Places(tree[path], b) = {i}
    BY <2>3, OnePlace
  <2>5. TimesRight(b, path)
    BY <2>3 DEF TreeInv
  <2>6. LastAt(r) = lastUse[<<b, path>>]
    BY <2>2, <2>5 DEF LastAt, TimesRight
  <2> QED BY <2>2, <2>3, <2>4, <2>6
<1>2. ASSUME NEW path \in Cached(b)
      PROVE  \E r \in Refs(b) : r[1] = path
  <2>1. path \in Nodes /\ Places(tree[path], b) # {}
    BY DEF Cached
  <2>2. PICK i \in Places(tree[path], b) : TRUE
    BY <2>1
  <2>3. <<path, i>> \in Refs(b)
    BY <2>1 DEF Refs
  <2> QED BY <2>3
<1>3. ASSUME NEW r \in Refs(b), NEW s \in Refs(b), r[1] = s[1]
      PROVE  r = s
  <2>1. {r[2]} = {s[2]}
    BY <1>1, <1>3
  <2>2. r[2] = s[2]
    BY <2>1
  <2> QED BY <1>1, <1>3, <2>2
<1>4. IsFiniteSet(Refs(b))
  <2> DEFINE f == [r \in Refs(b) |-> <<b, r[1]>>]
  <2>1. \A r \in Refs(b) : f[r] = <<b, r[1]>> /\ f[r] \in Pairs
    BY <1>1 DEF Pairs
  <2>2. f \in [Refs(b) -> Pairs]
    BY <2>1
  <2>3. ASSUME NEW r \in Refs(b), NEW s \in Refs(b), f[r] = f[s]
        PROVE  r = s
    <3>1. r[1] = s[1]
      BY <2>1, <2>3
    <3> QED BY <1>3, <3>1
  <2>4. f \in Injection(Refs(b), Pairs)
    BY <2>2, <2>3 DEF Injection, IsInjective
  <2>5. IsFiniteSet(Pairs)
    BY DEF TreeInv
  <2> HIDE DEF f
  <2> QED BY <2>4, <2>5, FS_Injection
<1> QED BY <1>1, <1>2, <1>3, <1>4

LEMMA SmallerOfTwo ==
  ASSUME NEW m \in Nat, NEW n \in Nat
  PROVE  Min({m, n}) \in Nat /\ Min({m, n}) <= m /\ Min({m, n}) <= n
<1> DEFINE S == {m, n}
<1>1. \E x \in S : \A y \in S : x <= y
  <2>1. CASE m <= n
    BY <2>1
  <2>2. CASE ~(m <= n)
    BY <2>2
  <2> QED BY <2>1, <2>2
<1>2. Min(S) \in S /\ \A y \in S : Min(S) <= y
  BY <1>1 DEF Min
<1> QED BY <1>2

\* What an eviction takes away, and what it cannot touch.
LEMMA EvictTakes ==
  ASSUME TreeInv, NEW b \in TreeBackends, NEW gone \in SUBSET Refs(b),
         tree' = Pruned(gone), lastUse' = Forgotten(b, gone)
  PROVE  /\ Nodes' = Nodes /\ \A path \in Nodes : NodeGood(tree'[path])
         /\ Cached(b)' = {path \in Cached(b) : \A r \in gone : r[1] # path}
         /\ \A c \in TreeBackends : c # b => Cached(c)' = Cached(c)
         /\ lastUse' \in [TreeBackends \X Paths -> 0..MaxTreeTime]
         /\ \A c \in TreeBackends : \A path \in Cached(c)' : TimesRight(c, path)'
<1> DEFINE Cut(path) == {i \in DOMAIN tree[path] : <<path, i>> \in gone}
<1>1. Nodes' = Nodes /\ \A path \in Nodes : tree'[path] = Remaining(tree[path], Cut(path))
  BY DEF Pruned, Nodes
<1> HIDE DEF Cut
<1>2. ASSUME NEW path \in Nodes
      PROVE  /\ NodeGood(tree'[path])
             /\ \A i \in DOMAIN tree'[path] :
                  \E j \in DOMAIN tree[path] \ Cut(path) : tree'[path][i] = tree[path][j]
             /\ \A j \in DOMAIN tree[path] \ Cut(path) :
                  \E i \in DOMAIN tree'[path] : tree'[path][i] = tree[path][j]
  <2>1. NodeGood(tree[path]) /\ Cut(path) \in SUBSET DOMAIN tree[path]
    BY DEF TreeInv, Cut
  <2> QED BY <1>1, <2>1, RemainingNode
<1>3. ASSUME NEW path \in Nodes, NEW j \in Cut(path)
      PROVE  tree[path][j].backend = b /\ \E r \in gone : r[1] = path
  <2>1. <<path, j>> \in gone /\ <<path, j>> \in Refs(b)
    BY DEF Cut
  <2>2. PICK r \in gone : r = <<path, j>>
    BY <2>1
  <2>3. r[1] = path /\ r[2] = j
    BY <2>2
  <2>4. j \in Places(tree[path], b)
    <3>1. r \in Refs(b)
      OBVIOUS
    <3>2. Places(tree[r[1]], b) = {r[2]}
      BY <3>1, RefsArePaths
    <3> QED BY <2>3, <3>2
  <2> QED BY <2>3, <2>4 DEF Places
<1>4. ASSUME NEW path \in Nodes, NEW c
      PROVE  path \in Cached(c)' <=> \E j \in Places(tree[path], c) : j \notin Cut(path)
  <2>1. path \in Cached(c)' <=> Places(tree'[path], c) # {}
    BY <1>1 DEF Cached, Nodes
  <2>2. Places(tree'[path], c) # {} <=> \E j \in Places(tree[path], c) : j \notin Cut(path)
    <3>1. ASSUME NEW i \in Places(tree'[path], c)
          PROVE  \E j \in Places(tree[path], c) : j \notin Cut(path)
      <4>1. i \in DOMAIN tree'[path] /\ tree'[path][i].backend = c
        BY DEF Places
      <4>2. PICK j \in DOMAIN tree[path] \ Cut(path) : tree'[path][i] = tree[path][j]
        BY <1>2, <4>1
      <4>3. j \in Places(tree[path], c)
        BY <4>1, <4>2 DEF Places
      <4> QED BY <4>2, <4>3
    <3>2. ASSUME NEW j \in Places(tree[path], c), j \notin Cut(path)
          PROVE  Places(tree'[path], c) # {}
      <4>1. j \in DOMAIN tree[path] \ Cut(path) /\ tree[path][j].backend = c
        BY <3>2 DEF Places
      <4>2. PICK i \in DOMAIN tree'[path] : tree'[path][i] = tree[path][j]
        BY <1>2, <4>1
      <4>3. i \in Places(tree'[path], c)
        BY <4>1, <4>2 DEF Places
      <4> QED BY <4>3
    <3> QED BY <3>1, <3>2
  <2> QED BY <2>1, <2>2
<1>5. ASSUME NEW c, c # b
      PROVE  Cached(c)' = Cached(c)
  <2>1. ASSUME NEW path \in Nodes
        PROVE  path \in Cached(c)' <=> path \in Cached(c)
    <3>1. \A j \in Places(tree[path], c) : j \notin Cut(path)
      BY <1>3, <1>5 DEF Places
    <3>2. path \in Cached(c) <=> Places(tree[path], c) # {}
      BY DEF Cached
    <3> QED BY <1>4, <3>1, <3>2
  <2>2. Cached(c) \subseteq Nodes /\ Cached(c)' \subseteq Nodes
    BY <1>1 DEF Cached, Nodes
  <2>3. Cached(c)' \subseteq Cached(c) /\ Cached(c) \subseteq Cached(c)'
    BY <2>1, <2>2
  <2> QED BY <2>3
<1>6. Cached(b)' = {path \in Cached(b) : \A r \in gone : r[1] # path}
  <2>1. ASSUME NEW path \in Nodes
        PROVE  path \in Cached(b)' <=> path \in Cached(b) /\ \A r \in gone : r[1] # path
    <3>1. CASE \E r \in gone : r[1] = path
      <4>1. PICK r \in gone : r[1] = path
        BY <3>1
      <4>2. r = <<path, r[2]>> /\ Places(tree[path], b) = {r[2]}
        BY <4>1, RefsArePaths
      <4>3. r[2] \in DOMAIN tree[path]
        BY <4>2 DEF Places
      <4>4. <<path, r[2]>> \in gone
        BY <4>2
      <4>5. r[2] \in Cut(path)
        BY <4>3, <4>4 DEF Cut
      <4> QED BY <1>4, <3>1, <4>2, <4>5
    <3>2. CASE \A r \in gone : r[1] # path
      <4>1. Cut(path) = {}
        BY <1>3, <3>2
      <4>2. path \in Cached(b) <=> Places(tree[path], b) # {}
        BY DEF Cached
      <4> QED BY <1>4, <3>2, <4>1, <4>2
    <3> QED BY <3>1, <3>2
  <2>2. Cached(b) \subseteq Nodes /\ Cached(b)' \subseteq Nodes
    BY <1>1 DEF Cached, Nodes
  <2> DEFINE left == {path \in Cached(b) : \A r \in gone : r[1] # path}
  <2>3. Cached(b)' \subseteq left /\ left \subseteq Cached(b)'
    BY <2>1, <2>2
  <2> QED BY <2>3
<1>7. lastUse \in [TreeBackends \X Paths -> 0..MaxTreeTime]
  BY DEF TreeInv
<1>8. /\ DOMAIN lastUse' = TreeBackends \X Paths
      /\ \A key \in TreeBackends \X Paths :
           lastUse'[key] = IF key[1] = b /\ \E r \in gone : r[1] = key[2] THEN 0
                           ELSE lastUse[key]
      /\ lastUse' = [key \in TreeBackends \X Paths |-> lastUse'[key]]
  BY <1>7 DEF Forgotten
<1>9. lastUse' \in [TreeBackends \X Paths -> 0..MaxTreeTime]
  <2>1. 0 \in 0..MaxTreeTime
    BY TreeAssumption
  <2>2. \A key \in TreeBackends \X Paths : lastUse'[key] \in 0..MaxTreeTime
    BY <1>7, <1>8, <2>1
  <2> QED BY <1>8, <2>2
<1>10. ASSUME NEW c \in TreeBackends, NEW path \in Cached(c)'
       PROVE  TimesRight(c, path)'
  <2>1. path \in Cached(c) /\ (c = b => \A r \in gone : r[1] # path)
    BY <1>5, <1>6
  <2>2. path \in Nodes
    BY <2>1 DEF Cached
  <2>3. TimesRight(c, path)
    BY <2>1 DEF TreeInv
  <2>4. lastUse'[<<c, path>>] = lastUse[<<c, path>>]
    BY <1>8, <2>1, <2>3 DEF TimesRight
  <2>5. ASSUME NEW i \in Places(tree'[path], c)
        PROVE  tree'[path][i].last = lastUse[<<c, path>>]
    <3>1. i \in DOMAIN tree'[path] /\ tree'[path][i].backend = c
      BY DEF Places
    <3>2. PICK j \in DOMAIN tree[path] : tree'[path][i] = tree[path][j]
      BY <1>2, <2>2, <3>1
    <3>3. j \in Places(tree[path], c)
      BY <3>1, <3>2 DEF Places
    <3> QED BY <2>3, <3>2, <3>3 DEF TimesRight
  <2> QED BY <2>3, <2>4, <2>5 DEF TimesRight
<1> QED BY <1>1, <1>2, <1>5, <1>6, <1>9, <1>10

LEMMA EvictKeeps ==
  ASSUME TreeInv, NEW b \in TreeBackends, NEW count \in 1..MaxEvict, Evict(b, count)
  PROVE  /\ TreeInv'
         /\ \A c \in TreeBackends : c # b => Cached(c)' = Cached(c)
         /\ \A p \in Cached(b) \ Cached(b)', q \in Cached(b)' :
              lastUse[<<b, p>>] <= lastUse[<<b, q>>]
<1>1. PICK n : n = Min({count, Cardinality(Refs(b))})
  OBVIOUS
<1>2. PICK gone \in OldestRefs(b, n) : tree' = Pruned(gone) /\ lastUse' = Forgotten(b, gone)
  BY <1>1 DEF Evict
<1>3. /\ entryCount' = entryCount - n
      /\ nodeCount' = nodeCount /\ treeClock' = treeClock
  BY <1>1 DEF Evict
<1>4. /\ \A r \in Refs(b) : r[1] \in Cached(b) /\ LastAt(r) = lastUse[<<b, r[1]>>]
      /\ \A path \in Cached(b) : \E r \in Refs(b) : r[1] = path
      /\ \A r, s \in Refs(b) : r[1] = s[1] => r = s
      /\ IsFiniteSet(Refs(b))
  BY RefsArePaths
<1>5. gone \in SUBSET Refs(b) /\ Cardinality(gone) = n
      /\ \A x \in gone, y \in Refs(b) \ gone : LastAt(x) <= LastAt(y)
  BY DEF OldestRefs, kSubset
<1>6. /\ Nodes' = Nodes /\ \A path \in Nodes : NodeGood(tree'[path])
      /\ Cached(b)' = {path \in Cached(b) : \A r \in gone : r[1] # path}
      /\ \A c \in TreeBackends : c # b => Cached(c)' = Cached(c)
      /\ lastUse' \in [TreeBackends \X Paths -> 0..MaxTreeTime]
      /\ \A c \in TreeBackends : \A path \in Cached(c)' : TimesRight(c, path)'
  BY <1>2, <1>5, EvictTakes
<1> DEFINE lost == {<<b, r[1]>> : r \in gone}
<1>7. lost \subseteq Pairs
  <2>1. \A path \in Cached(b) : <<b, path>> \in Pairs
    BY DEF Pairs, Cached
  <2> QED BY <1>4, <1>5, <2>1
<1>8. Cardinality(lost) = n
  <2> DEFINE f == [r \in gone |-> <<b, r[1]>>]
  <2>1. \A r \in gone : f[r] = <<b, r[1]>> /\ f[r] \in lost
    OBVIOUS
  <2>2. \A key \in lost : \E r \in gone : f[r] = key
    OBVIOUS
  <2>3. ASSUME NEW r \in gone, NEW s \in gone, f[r] = f[s]
        PROVE  r = s
    <3>1. r[1] = s[1]
      BY <2>1, <2>3
    <3> QED BY <1>4, <1>5, <3>1
  <2>4. f \in [gone -> lost]
    BY <2>1
  <2>5. f \in Surjection(gone, lost)
    BY <2>2, <2>4 DEF Surjection
  <2>6. f \in Injection(gone, lost)
    BY <2>3, <2>4 DEF Injection, IsInjective
  <2>7. IsFiniteSet(gone)
    BY <1>4, <1>5, FS_Subset
  <2> HIDE DEF f, lost
  <2>8. Cardinality(lost) = Cardinality(gone)
    BY <2>5, <2>6, <2>7, FS_Surjection
  <2> QED BY <1>5, <2>8
<1>9. Pairs' = Pairs \ lost
  <2>1. ASSUME NEW c \in TreeBackends, NEW path
        PROVE  /\ <<c, path>> \in Pairs <=> path \in Cached(c)
               /\ <<c, path>> \in Pairs' <=> path \in Cached(c)'
    <3>1. Cached(c) \subseteq Nodes /\ Cached(c)' \subseteq Nodes'
      BY DEF Cached, Nodes
    <3> QED BY <3>1 DEF Pairs
  <2>2. ASSUME NEW c \in TreeBackends, NEW path
        PROVE  <<c, path>> \in lost <=> c = b /\ \E r \in gone : r[1] = path
    OBVIOUS
  <2>3. ASSUME NEW c \in TreeBackends, NEW path
        PROVE  <<c, path>> \in Pairs' <=> <<c, path>> \in Pairs /\ <<c, path>> \notin lost
    <3>1. CASE c = b
      BY <1>6, <2>1, <2>2, <3>1
    <3>2. CASE c # b
      <4>1. Cached(c)' = Cached(c)
        BY <1>6, <3>2
      <4> QED BY <2>1, <2>2, <3>2, <4>1
    <3> QED BY <3>1, <3>2
  <2>4. /\ \A key \in Pairs : \E c \in TreeBackends, path \in Nodes : key = <<c, path>>
        /\ \A key \in Pairs' : \E c \in TreeBackends, path \in Nodes' : key = <<c, path>>
    BY DEF Pairs
  <2> HIDE DEF lost
  <2>5. Pairs' \subseteq Pairs \ lost
    BY <2>3, <2>4
  <2>6. Pairs \ lost \subseteq Pairs'
    BY <2>3, <2>4
  <2> QED BY <2>5, <2>6
<1> HIDE DEF lost
<1>10. IsFiniteSet(Pairs') /\ entryCount' = Cardinality(Pairs')
  <2>1. IsFiniteSet(Pairs) /\ entryCount = Cardinality(Pairs)
    BY DEF TreeInv
  <2>2. Pairs \cap lost = lost
    BY <1>7
  <2>3. /\ IsFiniteSet(Pairs \ lost)
        /\ Cardinality(Pairs \ lost) = Cardinality(Pairs) - Cardinality(Pairs \cap lost)
    BY <2>1, FS_Difference
  <2> QED BY <1>3, <1>8, <1>9, <2>1, <2>2, <2>3
<1>11. TreeInv'
  <2>1. AllPaths' = AllPaths
    BY DEF AllPaths
  <2>2. /\ << >> \in Nodes' /\ Nodes' \subseteq AllPaths /\ IsFiniteSet(Nodes')
        /\ \A p \in Nodes' : p \in Seq(Hashes) /\ Prefixes(p) \subseteq Nodes'
        /\ nodeCount' = Cardinality(Nodes') /\ treeClock' \in 0..MaxTreeTime
    BY <1>3, <1>6 DEF TreeInv
  <2>3. \A p \in Nodes' : NodeGood(tree'[p])
    BY <1>6
  <2> QED BY <1>6, <1>10, <2>1, <2>2, <2>3 DEF TreeInv
<1>12. ASSUME NEW p \in Cached(b) \ Cached(b)', NEW q \in Cached(b)'
       PROVE  lastUse[<<b, p>>] <= lastUse[<<b, q>>]
  <2>1. PICK x \in gone : x[1] = p
    BY <1>6
  <2>2. q \in Cached(b) /\ \A r \in gone : r[1] # q
    BY <1>6
  <2>3. PICK y \in Refs(b) : y[1] = q
    BY <1>4, <2>2
  <2>4. y \in Refs(b) \ gone
    BY <2>2, <2>3
  <2>5. LastAt(x) <= LastAt(y) /\ x \in Refs(b)
    BY <1>5, <2>4
  <2> QED BY <1>4, <2>1, <2>3, <2>5
<1> QED BY <1>6, <1>11, <1>12

LEMMA StepTree == TreeInv /\ [TreeNext]_treeVars => TreeInv'
<1> SUFFICES ASSUME TreeInv, [TreeNext]_treeVars PROVE TreeInv'
  OBVIOUS
<1>1. ASSUME NEW b \in TreeBackends, NEW path \in Paths, NEW now \in 0..MaxTreeTime,
             Insert(path, b, now)
      PROVE  TreeInv'
  BY <1>1, InsertKeeps
<1>2. ASSUME NEW b \in TreeBackends, NEW path \in Paths, NEW now \in 0..MaxTreeTime,
             TouchEntry(path, b, now)
      PROVE  TreeInv'
  BY <1>2, TouchKeepsTree
<1>3. ASSUME NEW b \in TreeBackends, NEW count \in 1..MaxEvict, Evict(b, count)
      PROVE  TreeInv'
  BY <1>3, EvictKeeps
<1>4. CASE UNCHANGED treeVars
  BY <1>4 DEF treeVars, TreeInv, Nodes, Pairs, Cached, TimesRight, AllPaths
<1> QED BY <1>1, <1>2, <1>3, <1>4 DEF TreeNext

LEMMA TreeInvHolds == TreeSpec => []TreeInv
BY InitTree, StepTree, PTL DEF TreeSpec

(***************************************************************************)
(* The tree keeps its types, and its counters are never negative: in       *)
(* particular Evict subtracts no more entries than there are.              *)
(***************************************************************************)
THEOREM TreeTypesCorrect == TreeSpec => []TreeTypeOK
<1>1. ASSUME TreeInv PROVE TreeTypeOK
  <2>1. nodeCount \in Nat /\ entryCount \in Nat
    BY <1>1, FS_CardinalityType DEF TreeInv
  <2>2. \A path \in Nodes : tree[path] \in Seq([backend : TreeBackends, last : 0..MaxTreeTime])
    BY <1>1 DEF TreeInv, NodeGood, TreeEntries
  <2> QED BY <1>1, <2>1, <2>2 DEF TreeInv, TreeTypeOK
<1> QED BY <1>1, TreeInvHolds, PTL

(***************************************************************************)
(* The two counters of Stats say what a walk of the tree would find.       *)
(***************************************************************************)
THEOREM CountersMatchTree == TreeSpec => []StatsMatchTree
<1>1. TreeInv => StatsMatchTree
  BY DEF TreeInv, StatsMatchTree, Pairs
<1> QED BY <1>1, TreeInvHolds, PTL

(***************************************************************************)
(* Evictions never cut the way to a longer prefix, so Lookup's walk finds  *)
(* the longest cached prefix of every backend.                             *)
(***************************************************************************)
THEOREM LookupFindsLongest == TreeSpec => []LookupIsLongest
<1>1. ASSUME TreeInv PROVE LookupIsLongest
  <2> SUFFICES ASSUME NEW path \in AllPaths
               PROVE  LET known(b) == {n \in 0..Len(path) : Prefix(path, n) \in Cached(b)}
                      IN  Lookup(path) = [b \in {c \in TreeBackends : known(c) # {}}
                                            |-> Max(known(b))]
    BY DEF LookupIsLongest
  <2> DEFINE known(b) == {n \in 0..Len(path) : Prefix(path, n) \in Cached(b)}
  <2>1. ASSUME NEW b
        PROVE  DepthsMet(path, b) = known(b)
    <3>1. \A p \in Cached(b) : p \in Nodes /\ Prefixes(p) \subseteq Nodes
      BY <1>1 DEF TreeInv, Cached
    <3> QED BY <3>1 DEF DepthsMet, Visited
  <2> HIDE DEF known
  <2>2. Lookup(path) = [b \in {c \in TreeBackends : known(c) # {}} |-> Max(known(b))]
    BY <2>1 DEF Lookup
  <2> QED BY <2>2 DEF known
<1> QED BY <1>1, TreeInvHolds, PTL

(***************************************************************************)
(* What Evict removes was used no later than what it leaves, and belongs   *)
(* to the one backend, however the entries are spread over the tree.       *)
(***************************************************************************)
THEOREM EvictionIsLeastRecent == TreeSpec => EvictsLeastRecent
<1> DEFINE Orderly ==
      \A b \in TreeBackends :
        LET gone == Cached(b) \ Cached(b)'
        IN  gone # {} =>
              /\ \A p \in gone, q \in Cached(b)' : lastUse[<<b, p>>] <= lastUse[<<b, q>>]
              /\ \A c \in TreeBackends \ {b} : Cached(c)' = Cached(c)
<1>1. ASSUME TreeInv, [TreeNext]_treeVars
      PROVE  Orderly \/ UNCHANGED treeVars
  <2>1. ASSUME \A c \in TreeBackends : Cached(c) \subseteq Cached(c)'
        PROVE  Orderly
    BY <2>1
  <2>2. ASSUME NEW b \in TreeBackends, NEW path \in Paths, NEW now \in 0..MaxTreeTime,
               Insert(path, b, now) \/ TouchEntry(path, b, now)
        PROVE  Orderly
    <3>1. \A c \in TreeBackends : Cached(c) \subseteq Cached(c)'
      BY <1>1, <2>2, InsertKeeps, TouchKeepsTree
    <3> QED BY <2>1, <3>1
  <2>3. ASSUME NEW b \in TreeBackends, NEW count \in 1..MaxEvict, Evict(b, count)
        PROVE  Orderly
    <3>1. /\ \A c \in TreeBackends : c # b => Cached(c)' = Cached(c)
          /\ \A p \in Cached(b) \ Cached(b)', q \in Cached(b)' :
               lastUse[<<b, p>>] <= lastUse[<<b, q>>]
      BY <1>1, <2>3, EvictKeeps
    <3>2. ASSUME NEW d \in TreeBackends, Cached(d) \ Cached(d)' # {}
          PROVE  d = b
      BY <3>1, <3>2
    <3> QED BY <3>1, <3>2
  <2> QED BY <1>1, <2>2, <2>3 DEF TreeNext
<1>2. TreeInv /\ [TreeNext]_treeVars => [Orderly]_treeVars
  BY <1>1
<1> QED BY <1>2, TreeInvHolds, PTL DEF TreeSpec, EvictsLeastRecent

-----------------------------------------------------------------------------
(* The eviction model: sums over lists.                                    *)

\* The sums of the first n numbers, for every n.
Sums(sum, numbers) ==
  /\ sum \in [0..Len(numbers) -> Nat]
  /\ sum[0] = 0
  /\ \A n \in 1..Len(numbers) : sum[n] = sum[n - 1] + numbers[n]

SumStep(sum, numbers, n) == IF n = 0 THEN 0 ELSE sum[n - 1] + numbers[n]

SumUnfolds(sum, numbers) == sum = [n \in 0..Len(numbers) |-> SumStep(sum, numbers, n)]

LEMMA SumsExist ==
  ASSUME NEW numbers \in Seq(Nat)
  PROVE  \E sum : Sums(sum, numbers)
<1> DEFINE Good(m) == \E g \in [0..m -> Nat] :
                        g[0] = 0 /\ \A n \in 1..m : g[n] = g[n - 1] + numbers[n]
           S == {m \in 0..Len(numbers) : Good(m)}
<1>1. 0 \in S
  <2> DEFINE g == [n \in 0..0 |-> 0]
  <2>1. g \in [0..0 -> Nat] /\ g[0] = 0
    OBVIOUS
  <2> HIDE DEF g
  <2> QED BY <2>1
<1>2. ASSUME NEW m \in 0..Len(numbers), m \in S, m < Len(numbers)
      PROVE  m + 1 \in S
  <2>1. PICK g \in [0..m -> Nat] :
          g[0] = 0 /\ \A n \in 1..m : g[n] = g[n - 1] + numbers[n]
    BY <1>2
  <2>2. numbers[m + 1] \in Nat /\ m + 1 \in 0..Len(numbers)
    BY <1>2
  <2> DEFINE h == [n \in 0..(m + 1) |-> IF n = m + 1 THEN g[m] + numbers[n] ELSE g[n]]
  <2>3. /\ h \in [0..(m + 1) -> Nat] /\ h[m + 1] = g[m] + numbers[m + 1]
        /\ \A n \in 0..m : h[n] = g[n]
    BY <2>1, <2>2
  <2> HIDE DEF h
  <2>4. h[0] = 0 /\ \A n \in 1..(m + 1) : h[n] = h[n - 1] + numbers[n]
    <3>1. ASSUME NEW n \in 1..(m + 1) PROVE h[n] = h[n - 1] + numbers[n]
      <4>1. CASE n = m + 1
        BY <2>3, <4>1
      <4>2. CASE n # m + 1
        BY <2>1, <2>3, <4>2
      <4> QED BY <4>1, <4>2
    <3> QED BY <2>1, <2>3, <3>1
  <2>5. Good(m + 1)
    BY <2>3, <2>4
  <2> HIDE DEF Good
  <2> QED BY <2>2, <2>5
<1>3. Len(numbers) \in S
  <2> HIDE DEF S
  <2>1. Len(numbers) \in Nat
    OBVIOUS
  <2>2. 0..Len(numbers) \subseteq S
    BY <1>1, <1>2, <2>1, Induction
  <2> QED BY <2>1, <2>2
<1>4. PICK g \in [0..Len(numbers) -> Nat] :
        g[0] = 0 /\ \A n \in 1..Len(numbers) : g[n] = g[n - 1] + numbers[n]
  BY <1>3
<1> QED BY <1>4 DEF Sums

LEMMA SumOfIs ==
  ASSUME NEW numbers \in Seq(Nat)
  PROVE  \E sum : Sums(sum, numbers) /\ SumOf(numbers) = sum[Len(numbers)]
<1> DEFINE sum == CHOOSE g : SumUnfolds(g, numbers)
<1>1. SumUnfolds(sum, numbers)
  <2>1. PICK g : Sums(g, numbers)
    BY SumsExist
  <2>2. \A n \in 0..Len(numbers) : g[n] = SumStep(g, numbers, n)
    BY <2>1 DEF Sums, SumStep
  <2>3. SumUnfolds(g, numbers)
    BY <2>1, <2>2 DEF Sums, SumUnfolds
  <2> QED BY <2>3
<1>2. SumOf(numbers) = sum[Len(numbers)]
  BY DEF SumOf, SumUnfolds, SumStep
<1> HIDE DEF sum
<1>3. \A n \in 0..Len(numbers) : sum[n] = SumStep(sum, numbers, n)
  BY <1>1 DEF SumUnfolds
<1> DEFINE S == {n \in 0..Len(numbers) : sum[n] \in Nat}
<1>4. 0 \in S
  BY <1>3 DEF SumStep
<1>5. ASSUME NEW n \in 0..Len(numbers), n \in S, n < Len(numbers)
      PROVE  n + 1 \in S
  BY <1>3, <1>5 DEF SumStep
<1>6. \A n \in 0..Len(numbers) : sum[n] \in Nat
  <2> HIDE DEF S
  <2>1. Len(numbers) \in Nat
    OBVIOUS
  <2>2. 0..Len(numbers) \subseteq S
    BY <1>4, <1>5, <2>1, Induction
  <2> QED BY <2>2 DEF S
<1>7. DOMAIN sum = 0..Len(numbers)
  BY <1>1 DEF SumUnfolds
<1>8. sum = [n \in 0..Len(numbers) |-> sum[n]]
  BY <1>1, <1>7 DEF SumUnfolds
<1>9. sum \in [0..Len(numbers) -> Nat]
  BY <1>6, <1>8
<1> QED BY <1>2, <1>3, <1>9 DEF Sums, SumStep

\* A list's sum is that of its parts.
LEMMA SumConcat ==
  ASSUME NEW s \in Seq(Nat), NEW t \in Seq(Nat)
  PROVE  /\ s \o t \in Seq(Nat)
         /\ SumOf(s \o t) = SumOf(s) + SumOf(t)
         /\ SumOf(s) \in Nat
<1>1. PICK f : Sums(f, s) /\ SumOf(s) = f[Len(s)]
  BY SumOfIs
<1>2. PICK g : Sums(g, t) /\ SumOf(t) = g[Len(t)]
  BY SumOfIs
<1>3. PICK u : u = s \o t
  OBVIOUS
<1>4. /\ u \in Seq(Nat) /\ Len(u) = Len(s) + Len(t)
      /\ \A i \in 1..Len(s) : u[i] = s[i]
      /\ \A i \in 1..Len(t) : u[Len(s) + i] = t[i]
  BY <1>3
<1>5. PICK h : Sums(h, u) /\ SumOf(u) = h[Len(u)]
  BY <1>4, SumOfIs
<1>6. PICK m \in Nat, k \in Nat : m = Len(s) /\ k = Len(t)
  OBVIOUS
<1>7. /\ m + k \in Nat /\ Len(u) = m + k
      /\ \A n \in 0..m : f[n] \in Nat /\ n \in 0..(m + k)
      /\ \A n \in 0..k : g[n] \in Nat /\ m + n \in 0..(m + k)
      /\ f[0] = 0 /\ g[0] = 0 /\ h[0] = 0
  <2>1. m + k \in Nat /\ Len(u) = m + k
    BY <1>4, <1>6
  <2>2. /\ f \in [0..m -> Nat] /\ g \in [0..k -> Nat]
        /\ f[0] = 0 /\ g[0] = 0 /\ h[0] = 0
    BY <1>1, <1>2, <1>5, <1>6 DEF Sums
  <2> QED BY <2>1, <2>2
<1> DEFINE S == {n \in 0..m : h[n] = f[n]}
           T == {n \in 0..k : h[m + n] = f[m] + g[n]}
<1>8. m \in S
  <2>1. 0 \in S
    BY <1>7
  <2>2. ASSUME NEW n \in 0..m, n \in S, n < m
        PROVE  n + 1 \in S
    <3>1. n + 1 \in 1..m /\ n + 1 \in 1..(m + k) /\ (n + 1) - 1 = n /\ n + 1 \in 0..m
      BY <2>2
    <3>2. h[n + 1] = h[n] + u[n + 1] /\ f[n + 1] = f[n] + s[n + 1]
      BY <1>1, <1>5, <1>6, <1>7, <3>1 DEF Sums
    <3>3. u[n + 1] = s[n + 1]
      BY <1>4, <1>6, <3>1
    <3> QED BY <2>2, <3>1, <3>2, <3>3
  <2> HIDE DEF S
  <2>3. 0..m \subseteq S
    BY <2>1, <2>2, Induction
  <2> QED BY <2>3
<1>9. k \in T
  <2>1. 0 \in T
    BY <1>7, <1>8
  <2>2. ASSUME NEW n \in 0..k, n \in T, n < k
        PROVE  n + 1 \in T
    <3>1. PICK i : i = m + n
      OBVIOUS
    <3>2. /\ n + 1 \in 1..k /\ n + 1 \in 0..k /\ (n + 1) - 1 = n
          /\ i + 1 \in 1..(m + k) /\ (i + 1) - 1 = i /\ m + (n + 1) = i + 1
      BY <2>2, <3>1
    <3>3. h[i + 1] = h[i] + u[i + 1] /\ g[n + 1] = g[n] + t[n + 1]
      BY <1>2, <1>5, <1>6, <1>7, <3>2 DEF Sums
    <3>4. u[i + 1] = t[n + 1] /\ t[n + 1] \in Nat
      BY <1>4, <1>6, <3>2
    <3>5. h[i] = f[m] + g[n] /\ f[m] \in Nat /\ g[n] \in Nat
      BY <1>7, <2>2, <3>1
    <3>6. PICK x \in Nat, y \in Nat, z \in Nat : x = f[m] /\ y = g[n] /\ z = t[n + 1]
      BY <3>4, <3>5
    <3>7. h[i + 1] = (x + y) + z /\ g[n + 1] = y + z
      BY <3>3, <3>4, <3>5, <3>6
    <3>8. (x + y) + z = x + (y + z)
      OBVIOUS
    <3>9. h[i + 1] = f[m] + g[n + 1]
      BY <3>6, <3>7, <3>8, Zenon
    <3> QED BY <3>2, <3>9
  <2> HIDE DEF T
  <2>3. 0..k \subseteq T
    BY <2>1, <2>2, Induction
  <2> QED BY <2>3
<1>10. SumOf(u) = SumOf(s) + SumOf(t)
  BY <1>1, <1>2, <1>5, <1>6, <1>7, <1>9
<1> QED BY <1>1, <1>3, <1>4, <1>6, <1>7, <1>10

LEMMA SumOne ==
  ASSUME NEW x \in Nat
  PROVE  SumOf(<<x>>) = x /\ SumOf(<< >>) = 0
<1>1. <<x>> \in Seq(Nat) /\ << >> \in Seq(Nat) /\ Len(<<x>>) = 1 /\ Len(<< >>) = 0
      /\ <<x>>[1] = x
  OBVIOUS
<1>2. PICK f : Sums(f, <<x>>) /\ SumOf(<<x>>) = f[1]
  BY <1>1, SumOfIs
<1>3. PICK g : Sums(g, << >>) /\ SumOf(<< >>) = g[0]
  BY <1>1, SumOfIs
<1> QED BY <1>1, <1>2, <1>3 DEF Sums

\* A sum of naturals is positive when one of them is.
LEMMA SumPositive ==
  ASSUME NEW numbers \in Seq(Nat)
  PROVE  (SumOf(numbers) > 0) <=> (\E i \in DOMAIN numbers : numbers[i] > 0)
<1>1. PICK f : Sums(f, numbers) /\ SumOf(numbers) = f[Len(numbers)]
  BY SumOfIs
<1>2. Len(numbers) \in Nat /\ DOMAIN numbers = 1..Len(numbers)
      /\ \A i \in 1..Len(numbers) : numbers[i] \in Nat
  OBVIOUS
<1> DEFINE S == {n \in 0..Len(numbers) :
                   (f[n] > 0) <=> (\E i \in 1..n : numbers[i] > 0)}
<1>3. 0 \in S
  BY <1>1 DEF Sums
<1>4. ASSUME NEW n \in 0..Len(numbers), n \in S, n < Len(numbers)
      PROVE  n + 1 \in S
  <2>1. n + 1 \in 1..Len(numbers) /\ (n + 1) - 1 = n
    BY <1>2, <1>4
  <2>2. f[n + 1] = f[n] + numbers[n + 1] /\ f[n] \in Nat /\ numbers[n + 1] \in Nat
    BY <1>1, <1>2, <2>1 DEF Sums
  <2>3. (f[n + 1] > 0) <=> (f[n] > 0 \/ numbers[n + 1] > 0)
    BY <2>2
  <2>4. (\E i \in 1..(n + 1) : numbers[i] > 0)
          <=> ((\E i \in 1..n : numbers[i] > 0) \/ numbers[n + 1] > 0)
    BY <2>1
  <2> QED BY <1>4, <2>1, <2>3, <2>4
<1>5. Len(numbers) \in S
  <2> HIDE DEF S
  <2>1. 0..Len(numbers) \subseteq S
    BY <1>2, <1>3, <1>4, Induction
  <2> QED BY <1>2, <2>1
<1> QED BY <1>1, <1>2, <1>5

-----------------------------------------------------------------------------
(* The eviction model: lists of entries.                                   *)

\* The order of a list by last access.
Aged == {pair \in Entries \X Entries : pair[1].last <= pair[2].last}

LEMMA SameList ==
  ASSUME NEW X, NEW s \in Seq(X), NEW t \in Seq(X), Len(s) = Len(t),
         \A i \in 1..Len(s) : s[i] = t[i]
  PROVE  s = t
OBVIOUS

LEMMA Joined ==
  ASSUME NEW X, NEW s \in Seq(X), NEW t \in Seq(X), NEW u, u = s \o t
  PROVE  /\ u \in Seq(X) /\ Len(u) = Len(s) + Len(t)
         /\ \A i \in 1..Len(s) : u[i] = s[i]
         /\ \A i \in 1..Len(t) : u[Len(s) + i] = t[i]
OBVIOUS

LEMMA Piece ==
  ASSUME NEW X, NEW list \in Seq(X), NEW m \in 1..(Len(list) + 1),
         NEW n \in 0..Len(list), m <= n + 1
  PROVE  /\ SubSeq(list, m, n) \in Seq(X)
         /\ Len(SubSeq(list, m, n)) = (n - m) + 1
         /\ \A i \in 1..((n - m) + 1) : SubSeq(list, m, n)[i] = list[(m + i) - 1]
         /\ \A x \in ToSet(SubSeq(list, m, n)) : \E i \in m..n : x = list[i]
<1> DEFINE piece == SubSeq(list, m, n)
           k == (n - m) + 1
<1>1. PICK len \in Nat : len = Len(list)
  OBVIOUS
<1>2. k \in Nat /\ m \in Nat /\ n \in Nat /\ n <= len
      /\ \A i \in 1..k : (m + i) - 1 \in m..n /\ (m + i) - 1 \in 1..len
  BY <1>1
<1>3. /\ piece \in Seq(X) /\ Len(piece) = k
      /\ \A i \in 1..k : piece[i] = list[(m + i) - 1]
  BY <1>1, <1>2
<1>4. DOMAIN piece = 1..k /\ DOMAIN list = 1..len
  BY <1>1, <1>3
<1> HIDE DEF piece
<1>5. \A x \in ToSet(piece) : \E i \in m..n : x = list[i]
  BY <1>2, <1>3, <1>4 DEF ToSet
<1> QED BY <1>3, <1>5 DEF piece

LEMMA PieceElement ==
  ASSUME NEW X, NEW list \in Seq(X), NEW m \in 1..(Len(list) + 1),
         NEW n \in 0..Len(list), m <= n + 1, NEW x \in ToSet(SubSeq(list, m, n))
  PROVE  \E i \in m..n : x = list[i]
BY Piece

LEMMA PieceOrdered ==
  ASSUME NEW X, NEW list \in Seq(X), NEW m \in 1..(Len(list) + 1),
         NEW n \in 0..Len(list), m <= n + 1, NEW R, Ordered(list, R)
  PROVE  Ordered(SubSeq(list, m, n), R)
<1>1. PICK piece : piece = SubSeq(list, m, n)
  OBVIOUS
<1>2. PICK len \in Nat, k \in Nat : len = Len(list) /\ k = (n - m) + 1
  OBVIOUS
<1>3. DOMAIN list = 1..len /\ \A i \in 1..k : (m + i) - 1 \in 1..len
  BY <1>2
<1>4. DOMAIN piece = 1..k /\ \A i \in 1..k : piece[i] = list[(m + i) - 1]
  <2>1. piece \in Seq(X) /\ Len(piece) = k
        /\ \A i \in 1..k : piece[i] = list[(m + i) - 1]
    BY <1>1, <1>2, Piece
  <2> QED BY <2>1
<1>5. ASSUME NEW i \in 1..k, NEW j \in 1..k, i < j
      PROVE  <<piece[i], piece[j]>> \in R
  <2>1. PICK a, b : a = (m + i) - 1 /\ b = (m + j) - 1
    OBVIOUS
  <2>2. a \in 1..len /\ b \in 1..len /\ a < b
    <3>1. m \in Int /\ i \in Int /\ j \in Int
      OBVIOUS
    <3>2. a \in 1..len /\ b \in 1..len
      BY <1>3, <2>1
    <3>3. \A x, y, z \in Int : y < z => (x + y) - 1 < (x + z) - 1
      OBVIOUS
    <3>4. a < b
      BY <1>5, <2>1, <3>1, <3>3
    <3> QED BY <3>2, <3>4
  <2>3. <<list[a], list[b]>> \in R
    BY <1>3, <2>2 DEF Ordered
  <2> QED BY <1>4, <2>1, <2>3
<1> QED BY <1>1, <1>4, <1>5 DEF Ordered

LEMMA SplitList ==
  ASSUME NEW X, NEW list \in Seq(X), NEW n \in 0..Len(list)
  PROVE  list = SubSeq(list, 1, n) \o SubSeq(list, n + 1, Len(list))
<1>1. PICK a, b : a = SubSeq(list, 1, n) /\ b = SubSeq(list, n + 1, Len(list))
  OBVIOUS
<1>2. PICK len \in Nat : len = Len(list)
  OBVIOUS
<1>3. 1 \in 1..(len + 1) /\ n + 1 \in 1..(len + 1) /\ len \in 0..len
      /\ 1 <= n + 1 /\ n + 1 <= len + 1
  BY <1>2
<1>4. /\ a \in Seq(X) /\ Len(a) = n /\ \A i \in 1..n : a[i] = list[i]
  <2>1. (n - 1) + 1 = n /\ \A i \in 1..n : (1 + i) - 1 = i
    BY <1>2
  <2> QED BY <1>1, <1>2, <1>3, <2>1, Piece
<1>5. /\ b \in Seq(X) /\ Len(b) = len - n /\ \A i \in 1..(len - n) : b[i] = list[n + i]
  <2>1. (len - (n + 1)) + 1 = len - n /\ \A i \in 1..(len - n) : ((n + 1) + i) - 1 = n + i
    BY <1>2
  <2> QED BY <1>1, <1>2, <1>3, <2>1, Piece
<1>6. PICK c : c = a \o b
  OBVIOUS
<1>7. /\ c \in Seq(X) /\ Len(c) = Len(a) + Len(b)
      /\ \A i \in 1..Len(a) : c[i] = a[i]
      /\ \A i \in 1..Len(b) : c[Len(a) + i] = b[i]
  <2>1. a \in Seq(X) /\ b \in Seq(X)
    BY <1>4, <1>5
  <2> QED BY <1>6, <2>1, Joined
<1>8. Len(c) = len
  BY <1>2, <1>4, <1>5, <1>7
<1>9. ASSUME NEW i \in 1..len PROVE c[i] = list[i]
  <2>1. CASE i <= n
    BY <1>4, <1>7, <2>1
  <2>2. CASE ~ (i <= n)
    <3>1. PICK j : j = i - n
      OBVIOUS
    <3>2. j \in 1..(len - n) /\ n + j = i
      BY <1>2, <2>2, <3>1
    <3> QED BY <1>4, <1>5, <1>7, <3>2
  <2> QED BY <2>1, <2>2
<1>10. c = list
  BY <1>2, <1>7, <1>8, <1>9, SameList
<1> QED BY <1>1, <1>2, <1>6, <1>10

Sizes(list) == [n \in DOMAIN list |-> Len(list[n].hashes)]

LEMMA EntryTypes ==
  ASSUME NEW e \in Entries
  PROVE  /\ e.hashes \in Sent /\ e.hashes \in Seq(Nat) /\ Len(e.hashes) \in Nat
         /\ e.last \in 0..MaxModelTime /\ e.last \in Nat
<1>1. e.hashes \in Sent /\ e.last \in 0..MaxModelTime
  BY DEF Entries
<1>2. e.hashes \in Seq(Nat)
  BY <1>1, ModelAssumption
<1> QED BY <1>1, <1>2

LEMMA SizesType ==
  ASSUME NEW list \in Seq(Entries)
  PROVE  Sizes(list) \in Seq(Nat) /\ Len(Sizes(list)) = Len(list)
<1>1. \A n \in 1..Len(list) : Len(list[n].hashes) \in Nat
  BY EntryTypes
<1>2. DOMAIN list = 1..Len(list) /\ Len(list) \in Nat
  OBVIOUS
<1> QED BY <1>1, <1>2 DEF Sizes

LEMMA SizeConcat ==
  ASSUME NEW s \in Seq(Entries), NEW t \in Seq(Entries)
  PROVE  Size(s \o t) = Size(s) + Size(t) /\ Size(s) \in Nat
<1>1. PICK u : u = s \o t
  OBVIOUS
<1>2. PICK m \in Nat, k \in Nat : m = Len(s) /\ k = Len(t)
  OBVIOUS
<1>3. /\ u \in Seq(Entries) /\ Len(u) = m + k
      /\ \A i \in 1..(m + k) : u[i] = IF i <= m THEN s[i] ELSE t[i - m]
  BY <1>1, <1>2
<1>4. PICK x, y, z : x = Sizes(s) /\ y = Sizes(t) /\ z = Sizes(u)
  OBVIOUS
<1>5. /\ x \in Seq(Nat) /\ Len(x) = m /\ y \in Seq(Nat) /\ Len(y) = k
      /\ z \in Seq(Nat) /\ Len(z) = m + k
  BY <1>2, <1>3, <1>4, SizesType
<1>6. /\ \A i \in 1..m : x[i] = Len(s[i].hashes)
      /\ \A i \in 1..k : y[i] = Len(t[i].hashes)
      /\ \A i \in 1..(m + k) : z[i] = Len(u[i].hashes)
  BY <1>2, <1>3, <1>4 DEF Sizes
<1>7. PICK c : c = x \o y
  OBVIOUS
<1>8. z = c
  <2>1. /\ c \in Seq(Nat) /\ Len(c) = m + k
        /\ \A i \in 1..m : c[i] = x[i]
        /\ \A i \in 1..k : c[m + i] = y[i]
    <3>1. x \in Seq(Nat) /\ y \in Seq(Nat)
      BY <1>5
    <3>2. /\ c \in Seq(Nat) /\ Len(c) = Len(x) + Len(y)
          /\ \A i \in 1..Len(x) : c[i] = x[i]
          /\ \A i \in 1..Len(y) : c[Len(x) + i] = y[i]
      BY <1>7, <3>1, Joined
    <3>3. Len(x) = m /\ Len(y) = k
      BY <1>5
    <3> QED BY <3>2, <3>3, Zenon
  <2>2. ASSUME NEW i \in 1..(m + k) PROVE z[i] = c[i]
    <3>1. CASE i <= m
      <4>1. i \in 1..m
        BY <3>1
      <4>2. u[i] = s[i]
        BY <1>3, <3>1
      <4> QED BY <1>6, <2>1, <4>1, <4>2
    <3>2. CASE ~ (i <= m)
      <4>1. PICK j : j = i - m
        OBVIOUS
      <4>2. j \in 1..k /\ m + j = i
        BY <1>2, <3>2, <4>1
      <4>3. u[i] = t[j]
        BY <1>3, <3>2, <4>1
      <4>4. z[i] = Len(u[i].hashes) /\ y[j] = Len(t[j].hashes) /\ c[i] = y[j]
        BY <1>6, <2>1, <4>2
      <4> QED BY <4>3, <4>4
    <3> QED BY <3>1, <3>2
  <2> QED BY <1>5, <2>1, <2>2, SameList
<1>9. SumOf(x \o y) = SumOf(x) + SumOf(y) /\ SumOf(x) \in Nat
  BY <1>5, SumConcat
<1>10. Size(s) = SumOf(x) /\ Size(t) = SumOf(y) /\ Size(u) = SumOf(z)
  BY <1>4 DEF Size, Sizes
<1> QED BY <1>1, <1>7, <1>8, <1>9, <1>10

LEMMA SizeOne ==
  ASSUME NEW e \in Entries
  PROVE  Size(<<e>>) = Len(e.hashes)
<1>1. PICK k \in Nat : k = Len(e.hashes)
  BY EntryTypes
<1>2. Sizes(<<e>>) = <<k>>
  BY <1>1 DEF Sizes
<1> QED BY <1>1, <1>2, SumOne DEF Size, Sizes

LEMMA SizeNone == Size(<< >>) = 0
<1>1. Sizes(<< >>) = << >>
  BY DEF Sizes
<1>2. SumOf(<< >>) = 0
  BY SumOne
<1> QED BY <1>1, <1>2 DEF Size, Sizes

-----------------------------------------------------------------------------
(* The eviction model: what happens to the cache of a backend.             *)

Caches == [capacity : Capacities, used : Nat, entries : Seq(Entries), evicted : Seq(Entries)]

\* A list in the order of its times, none of which lies after now.
InTime(list, now) == Ordered(list, Aged) /\ \A e \in ToSet(list) : e.last <= now

CacheGood(bc, now) ==
  /\ bc \in Caches
  /\ UsedIsBounded(bc)
  /\ InTime(bc.entries, now)
  /\ InTime(bc.evicted, now)

LEMMA EmptyCacheGood ==
  ASSUME NEW capacity \in Capacities, NEW now \in 0..MaxModelTime
  PROVE  CacheGood(EmptyCache(capacity), now)
<1>1. EmptyCache(capacity) \in Caches
  BY DEF EmptyCache, Caches
<1>2. Size(<< >>) = 0
  BY SizeNone
<1>3. capacity \in Nat
  BY ModelAssumption
<1>4. InTime(<< >>, now)
  BY DEF InTime, Ordered, ToSet
<1> QED BY <1>1, <1>2, <1>3, <1>4 DEF CacheGood, UsedIsBounded, EmptyCache

LEMMA JoinInTime ==
  ASSUME NEW s \in Seq(Entries), NEW t \in Seq(Entries), NEW now \in 0..MaxModelTime,
         NEW was \in 0..now, InTime(s, was), InTime(t, now),
         \A x \in ToSet(s), y \in ToSet(t) : x.last <= y.last
  PROVE  s \o t \in Seq(Entries) /\ InTime(s \o t, now)
<1>1. \A x \in ToSet(s) : x \in Entries /\ x.last <= now
  <2> SUFFICES ASSUME NEW x \in ToSet(s) PROVE x \in Entries /\ x.last <= now
    OBVIOUS
  <2>1. x \in Entries
    BY DEF ToSet
  <2>2. x.last <= was /\ x.last \in Nat
    BY <2>1, EntryTypes DEF InTime
  <2> QED BY <2>1, <2>2
<1>2. \A y \in ToSet(t) : y \in Entries /\ y.last <= now
  BY DEF InTime, ToSet
<1>3. \A x \in ToSet(s), y \in ToSet(t) : <<x, y>> \in Aged
  BY <1>1, <1>2 DEF Aged
<1>4. /\ s \o t \in Seq(Entries) /\ ToSet(s \o t) = ToSet(s) \cup ToSet(t)
      /\ Ordered(s \o t, Aged)
  BY <1>3, ConcatOrdered DEF InTime
<1> QED BY <1>1, <1>2, <1>4 DEF InTime

LEMMA OneInTime ==
  ASSUME NEW e \in Entries, NEW now, e.last <= now
  PROVE  <<e>> \in Seq(Entries) /\ ToSet(<<e>>) = {e} /\ InTime(<<e>>, now)
<1>1. <<e>> \in Seq(Entries) /\ DOMAIN <<e>> = {1} /\ <<e>>[1] = e
  OBVIOUS
<1>2. ToSet(<<e>>) = {e}
  BY <1>1 DEF ToSet
<1>3. Ordered(<<e>>, Aged)
  BY <1>1 DEF Ordered
<1> QED BY <1>1, <1>2, <1>3 DEF InTime

LEMMA PieceInTime ==
  ASSUME NEW list \in Seq(Entries), NEW m \in 1..(Len(list) + 1),
         NEW n \in 0..Len(list), m <= n + 1, NEW now, InTime(list, now)
  PROVE  /\ SubSeq(list, m, n) \in Seq(Entries)
         /\ Len(SubSeq(list, m, n)) = (n - m) + 1
         /\ ToSet(SubSeq(list, m, n)) \subseteq ToSet(list)
         /\ InTime(SubSeq(list, m, n), now)
<1>1. /\ SubSeq(list, m, n) \in Seq(Entries)
      /\ Len(SubSeq(list, m, n)) = (n - m) + 1
      /\ \A x \in ToSet(SubSeq(list, m, n)) : \E i \in m..n : x = list[i]
  BY Piece
<1>2. m..n \subseteq DOMAIN list
  OBVIOUS
<1>3. ToSet(SubSeq(list, m, n)) \subseteq ToSet(list)
  BY <1>1, <1>2 DEF ToSet
<1>4. Ordered(SubSeq(list, m, n), Aged)
  BY PieceOrdered DEF InTime
<1> QED BY <1>1, <1>3, <1>4 DEF InTime

\* Enough is evicted, or everything.
LEMMA VictimsAre ==
  ASSUME NEW bc \in Caches, NEW size \in Nat
  PROVE  /\ Victims(bc, size) \in 0..Len(bc.entries)
         /\ \/ bc.used - Size(SubSeq(bc.entries, 1, Victims(bc, size))) + size <= bc.capacity
            \/ Victims(bc, size) = Len(bc.entries)
<1> DEFINE S == {n \in 0..Len(bc.entries) :
                   bc.used - Size(SubSeq(bc.entries, 1, n)) + size <= bc.capacity}
                \cup {Len(bc.entries)}
<1>1. Len(bc.entries) \in Nat
  BY DEF Caches
<1>2. S \subseteq Nat /\ S # {} /\ S \subseteq 0..Len(bc.entries)
  BY <1>1
<1>3. \A n \in S : \/ bc.used - Size(SubSeq(bc.entries, 1, n)) + size <= bc.capacity
                   \/ n = Len(bc.entries)
  OBVIOUS
<1>4. Victims(bc, size) = Min(S)
  BY DEF Victims
<1> HIDE DEF S
<1>5. Min(S) \in S
  BY <1>2, SmallestInSet DEF Min
<1> QED BY <1>2, <1>3, <1>4, <1>5

LEMMA StampedInTime ==
  ASSUME NEW list \in Seq(Entries), NEW now \in 0..MaxModelTime
  PROVE  /\ Stamped(list, now) \in Seq(Entries)
         /\ \A e \in ToSet(Stamped(list, now)) : e.last = now
         /\ InTime(Stamped(list, now), now)
<1> DEFINE new == Stamped(list, now)
<1>1. Len(list) \in Nat /\ DOMAIN list = 1..Len(list)
  OBVIOUS
<1>2. ASSUME NEW n \in DOMAIN list
      PROVE  [list[n] EXCEPT !.last = now] \in Entries
             /\ [list[n] EXCEPT !.last = now].last = now
  <2>1. PICK e \in Entries : e = list[n]
    BY <1>1
  <2>2. [e EXCEPT !.last = now] \in Entries /\ [e EXCEPT !.last = now].last = now
    BY DEF Entries
  <2> QED BY <2>1, <2>2
<1>3. DOMAIN new = DOMAIN list /\ \A n \in DOMAIN list : new[n] = [list[n] EXCEPT !.last = now]
  BY DEF Stamped
<1>4. new = [n \in 1..Len(list) |-> [list[n] EXCEPT !.last = now]]
  BY <1>1 DEF Stamped
<1>5. new \in Seq(Entries)
  BY <1>1, <1>2, <1>4
<1> HIDE DEF new
<1>6. \A n \in DOMAIN new : new[n] \in Entries /\ new[n].last = now
  BY <1>2, <1>3
<1>7. \A e \in ToSet(new) : e.last = now
  BY <1>6 DEF ToSet
<1>8. Ordered(new, Aged)
  BY <1>6 DEF Ordered, Aged
<1> QED BY <1>5, <1>7, <1>8 DEF InTime, new

LEMMA InsertGood ==
  ASSUME NEW bc, NEW now \in 0..MaxModelTime, NEW was \in 0..now, CacheGood(bc, was),
         NEW hashes \in Sent, NEW gone, gone = Leaving(bc, hashes)
  PROVE  CacheGood(Inserted(bc, hashes, now, Size(gone), Stamped(gone, now)), now)
<1> DEFINE v == Victims(bc, Len(hashes))
           left == SubSeq(bc.entries, v + 1, Len(bc.entries))
           new == Inserted(bc, hashes, now, Size(gone), Stamped(gone, now))
<1>1. PICK e : e = [hashes |-> hashes, last |-> now]
  OBVIOUS
<1>2. e \in Entries /\ e.hashes = hashes /\ e.last = now
  BY <1>1 DEF Entries
<1>3. PICK size \in Nat : size = Len(hashes)
  BY ModelAssumption
<1>4. /\ bc \in Caches /\ bc.entries \in Seq(Entries) /\ bc.evicted \in Seq(Entries)
      /\ bc.capacity \in Capacities /\ bc.capacity \in Nat /\ bc.used \in Nat
      /\ InTime(bc.entries, was) /\ InTime(bc.evicted, was)
      /\ bc.used = Size(bc.entries)
  BY ModelAssumption DEF CacheGood, Caches, UsedIsBounded
<1>5. PICK len \in Nat : len = Len(bc.entries)
  BY <1>4
<1>6. /\ v \in 0..len
      /\ bc.used - Size(SubSeq(bc.entries, 1, v)) + size <= bc.capacity \/ v = len
  BY <1>3, <1>4, <1>5, VictimsAre
<1>7. gone = SubSeq(bc.entries, 1, v)
  BY DEF Leaving
<1>8. new = [bc EXCEPT !.entries = Append(left, e), !.used = bc.used - Size(gone) + size,
                       !.evicted = bc.evicted \o Stamped(gone, now)]
  BY <1>1, <1>3 DEF Inserted
<1> HIDE DEF v, new
<1>9. /\ gone \in Seq(Entries) /\ left \in Seq(Entries) /\ Len(left) = len - v
      /\ InTime(left, was)
      /\ bc.entries = gone \o left
  <2>1. 1 \in 1..(len + 1) /\ v + 1 \in 1..(len + 1) /\ len \in 0..len /\ v \in 0..len
        /\ 1 <= v + 1 /\ v + 1 <= len + 1 /\ (len - (v + 1)) + 1 = len - v
    BY <1>5, <1>6
  <2>2. gone \in Seq(Entries)
    BY <1>4, <1>5, <1>7, <2>1, PieceInTime
  <2>3. left \in Seq(Entries) /\ Len(left) = len - v /\ InTime(left, was)
    BY <1>4, <1>5, <2>1, PieceInTime
  <2>4. bc.entries = gone \o left
    BY <1>4, <1>5, <1>7, <2>1, SplitList
  <2> QED BY <2>2, <2>3, <2>4
<1> HIDE DEF left
<1>10. PICK kept : kept = Append(left, e)
  OBVIOUS
<1>11. kept = left \o <<e>>
  BY <1>9, <1>10
<1>12. <<e>> \in Seq(Entries) /\ ToSet(<<e>>) = {e} /\ InTime(<<e>>, now)
  BY <1>2, OneInTime
<1>13. \A x \in ToSet(left) : x.last <= now
  <2> SUFFICES ASSUME NEW x \in ToSet(left) PROVE x.last <= now
    OBVIOUS
  <2>1. x \in Entries
    BY <1>9 DEF ToSet
  <2>2. x.last <= was /\ x.last \in Nat
    BY <1>9, <2>1, EntryTypes DEF InTime
  <2> QED BY <2>2
<1>14. kept \in Seq(Entries) /\ InTime(kept, now)
  BY <1>2, <1>9, <1>11, <1>12, <1>13, JoinInTime
<1>15. Len(kept) = (len - v) + 1
  BY <1>9, <1>10
<1>16. /\ Size(kept) = Size(left) + size /\ bc.used = Size(gone) + Size(left)
       /\ Size(left) \in Nat /\ Size(gone) \in Nat
  <2>1. Size(<<e>>) = size
    BY <1>2, <1>3, SizeOne
  <2>2. Size(left \o <<e>>) = Size(left) + Size(<<e>>) /\ Size(left) \in Nat
    BY <1>9, <1>12, SizeConcat
  <2>3. Size(gone \o left) = Size(gone) + Size(left) /\ Size(gone) \in Nat
    BY <1>9, SizeConcat
  <2> QED BY <1>4, <1>9, <1>11, <2>1, <2>2, <2>3
<1>17. PICK out : out = bc.evicted \o Stamped(gone, now)
  OBVIOUS
<1>18. out \in Seq(Entries) /\ InTime(out, now)
  <2>1. /\ Stamped(gone, now) \in Seq(Entries) /\ InTime(Stamped(gone, now), now)
        /\ \A y \in ToSet(Stamped(gone, now)) : y.last = now
    BY <1>9, StampedInTime
  <2>2. ASSUME NEW x \in ToSet(bc.evicted) PROVE x.last <= now
    <3>1. x \in Entries
      BY <1>4 DEF ToSet
    <3>2. x.last <= was /\ x.last \in Nat
      BY <1>4, <3>1, EntryTypes DEF InTime
    <3> QED BY <3>2
  <2>3. \A x \in ToSet(bc.evicted), y \in ToSet(Stamped(gone, now)) : x.last <= y.last
    BY <2>1, <2>2
  <2> QED BY <1>4, <1>17, <2>1, <2>3, JoinInTime
<1>19. PICK used : used = bc.used - Size(gone) + size
  OBVIOUS
<1>20. used \in Nat /\ used = Size(kept)
  <2>1. PICK x \in Nat, y \in Nat : x = Size(gone) /\ y = Size(left)
    BY <1>16
  <2>2. used = ((x + y) - x) + size /\ Size(kept) = y + size
    BY <1>16, <1>19, <2>1
  <2> QED BY <2>2
<1>21. new = [bc EXCEPT !.entries = kept, !.used = used, !.evicted = out]
  BY <1>8, <1>10, <1>17, <1>19
<1>22. /\ new.entries = kept /\ new.used = used /\ new.evicted = out
       /\ new.capacity = bc.capacity /\ new \in Caches
  BY <1>4, <1>14, <1>18, <1>20, <1>21 DEF Caches
<1>23. used <= bc.capacity \/ Len(kept) = 1
  <2>1. CASE v = len
    BY <1>15, <2>1
  <2>2. CASE v # len
    BY <1>6, <1>7, <1>19, <2>2
  <2> QED BY <2>1, <2>2
<1>24. UsedIsBounded(new)
  BY <1>20, <1>22, <1>23 DEF UsedIsBounded
<1> QED BY <1>14, <1>18, <1>22, <1>24 DEF CacheGood, new

LEMMA AroundPlace ==
  ASSUME NEW len \in Nat, NEW i \in 1..len
  PROVE  /\ 1 \in 1..(len + 1) /\ i \in 1..(len + 1) /\ i + 1 \in 1..(len + 1)
         /\ i - 1 \in 0..len /\ len \in 0..len
         /\ 1 <= (i - 1) + 1 /\ i <= len + 1 /\ i + 1 <= len + 1
         /\ ((i - 1) - 1) + 1 = i - 1 /\ (len - (i + 1)) + 1 = len - i
         /\ \A k \in 1..len : ((i + 1) + (k - 1)) - 1 = (i + k) - 1
<1>1. len \in Int /\ i \in Int /\ 1 <= i /\ i <= len
  OBVIOUS
<1>2. i - 1 \in 0..len /\ 1 <= (i - 1) + 1 /\ ((i - 1) - 1) + 1 = i - 1
  BY <1>1
<1>3. i + 1 \in 1..(len + 1) /\ (len - (i + 1)) + 1 = len - i
  BY <1>1
<1>4. \A k \in 1..len : ((i + 1) + (k - 1)) - 1 = (i + k) - 1
  BY <1>1
<1> QED BY <1>1, <1>2, <1>3, <1>4

LEMMA AccessGood ==
  ASSUME NEW bc, NEW now \in 0..MaxModelTime, NEW was \in 0..now, CacheGood(bc, was),
         NEW i \in DOMAIN bc.entries
  PROVE  CacheGood(Promoted(bc, i, now), now)
<1> DEFINE new == Promoted(bc, i, now)
<1>1. /\ bc \in Caches /\ bc.entries \in Seq(Entries) /\ bc.evicted \in Seq(Entries)
      /\ InTime(bc.entries, was) /\ InTime(bc.evicted, was)
      /\ bc.used = Size(bc.entries)
      /\ bc.used <= bc.capacity \/ Len(bc.entries) = 1
  BY DEF CacheGood, Caches, UsedIsBounded
<1>2. PICK list \in Seq(Entries), len \in Nat : list = bc.entries /\ len = Len(list)
  BY <1>1
<1>3. i \in 1..len /\ list[i] \in Entries
  BY <1>2
<1>4. PICK e : e = [list[i] EXCEPT !.last = now]
  OBVIOUS
<1>5. e \in Entries /\ e.hashes = list[i].hashes /\ e.last = now
  BY <1>3, <1>4 DEF Entries
<1>6. PICK a, b, c : /\ a = SubSeq(list, 1, i - 1) /\ b = SubSeq(list, i, len)
                     /\ c = SubSeq(list, i + 1, len)
  OBVIOUS
<1>7. /\ 1 \in 1..(len + 1) /\ i \in 1..(len + 1) /\ i + 1 \in 1..(len + 1)
      /\ i - 1 \in 0..len /\ len \in 0..len
      /\ 1 <= (i - 1) + 1 /\ i <= len + 1 /\ i + 1 <= len + 1
      /\ ((i - 1) - 1) + 1 = i - 1 /\ (len - (i + 1)) + 1 = len - i
      /\ \A k \in 1..len : ((i + 1) + (k - 1)) - 1 = (i + k) - 1
  BY <1>3, AroundPlace
<1>8. /\ a \in Seq(Entries) /\ Len(a) = i - 1 /\ InTime(a, was)
      /\ \A x \in ToSet(a) : \E j \in 1..(i - 1) : x = list[j]
  <2>1. a \in Seq(Entries) /\ Len(a) = i - 1 /\ InTime(a, was)
    BY <1>1, <1>2, <1>6, <1>7, PieceInTime
  <2>2. list \in Seq(Entries) /\ 1 \in 1..(Len(list) + 1) /\ i - 1 \in 0..Len(list)
        /\ 1 <= (i - 1) + 1
    BY <1>2, <1>7
  <2>3. \A x \in ToSet(SubSeq(list, 1, i - 1)) : \E j \in 1..(i - 1) : x = list[j]
    BY <2>2, Piece
  <2> QED BY <1>6, <2>1, <2>3
<1>9. /\ c \in Seq(Entries) /\ Len(c) = len - i /\ InTime(c, was)
      /\ \A j \in 1..(len - i) : c[j] = list[((i + 1) + j) - 1]
      /\ \A x \in ToSet(c) : \E j \in (i + 1)..len : x = list[j]
  <2>1. c \in Seq(Entries) /\ Len(c) = len - i /\ InTime(c, was)
    BY <1>1, <1>2, <1>6, <1>7, PieceInTime
  <2>2. PICK m : m = i + 1
    OBVIOUS
  <2>3. /\ \A j \in 1..((len - (i + 1)) + 1) : c[j] = list[((i + 1) + j) - 1]
        /\ \A x \in ToSet(c) : \E j \in (i + 1)..len : x = list[j]
    <3>1. list \in Seq(Entries) /\ m \in 1..(Len(list) + 1) /\ len \in 0..Len(list)
          /\ m <= len + 1
      BY <1>2, <1>7, <2>2
    <3>2. c = SubSeq(list, m, len)
      BY <1>6, <2>2
    <3>3. \A j \in 1..((len - m) + 1) : c[j] = list[(m + j) - 1]
      BY <3>1, <3>2, Piece
    <3>4. \A x \in ToSet(c) : \E j \in m..len : x = list[j]
      <4> SUFFICES ASSUME NEW x \in ToSet(SubSeq(list, m, len))
                   PROVE  \E j \in m..len : x = list[j]
        BY <3>2, Zenon
      <4> QED BY <3>1, PieceElement
    <3> QED BY <2>2, <3>3, <3>4, Zenon
  <2>4. (len - (i + 1)) + 1 = len - i
    BY <1>7
  <2>5. \A j \in 1..(len - i) : c[j] = list[((i + 1) + j) - 1]
    BY <2>3, <2>4, Zenon
  <2> QED BY <2>1, <2>3, <2>5
<1>10. /\ b \in Seq(Entries) /\ Len(b) = (len - i) + 1
       /\ \A j \in 1..((len - i) + 1) : b[j] = list[(i + j) - 1]
  <2>1. list \in Seq(Entries) /\ i \in 1..(Len(list) + 1) /\ len \in 0..Len(list)
        /\ i <= len + 1
    BY <1>2, <1>7
  <2>2. /\ SubSeq(list, i, len) \in Seq(Entries)
        /\ Len(SubSeq(list, i, len)) = (len - i) + 1
        /\ \A j \in 1..((len - i) + 1) : SubSeq(list, i, len)[j] = list[(i + j) - 1]
    BY <2>1, Piece
  <2> QED BY <1>6, <2>2
<1>11. list = a \o b
  <2>1. i - 1 \in 0..Len(list) /\ (i - 1) + 1 = i
    BY <1>2, <1>3
  <2> QED BY <1>2, <1>6, <2>1, SplitList
<1>12. b = <<list[i]>> \o c
  <2>1. PICK x \in Entries : x = list[i]
    BY <1>3
  <2>2. PICK one, u : one = <<x>> /\ u = one \o c
    OBVIOUS
  <2>3. one \in Seq(Entries) /\ Len(one) = 1 /\ one[1] = x
    BY <2>2
  <2>4. c \in Seq(Entries)
    BY <1>9
  <2>5. /\ u \in Seq(Entries) /\ Len(u) = Len(one) + Len(c)
        /\ \A j \in 1..Len(one) : u[j] = one[j]
        /\ \A j \in 1..Len(c) : u[Len(one) + j] = c[j]
    BY <2>2, <2>3, <2>4, Joined
  <2>6. Len(u) = Len(b)
    BY <1>2, <1>3, <1>9, <1>10, <2>3, <2>5
  <2>7. ASSUME NEW j \in 1..((len - i) + 1) PROVE u[j] = b[j]
    <3>1. CASE j = 1
      BY <1>3, <1>10, <2>1, <2>3, <2>5, <3>1
    <3>2. CASE j # 1
      <4>1. PICK k : k = j - 1
        OBVIOUS
      <4>2. k \in 1..(len - i) /\ 1 + k = j
        <5>1. j \in 2..((len - i) + 1)
          BY <3>2
        <5>2. i \in Nat /\ len \in Nat
          BY <1>3
        <5> QED BY <4>1, <5>1, <5>2
      <4>3. ((i + 1) + k) - 1 = (i + j) - 1
        <5>1. j \in 1..len
          BY <1>3
        <5> QED BY <1>7, <4>1, <5>1
      <4>4. c[k] = b[j]
        BY <1>9, <1>10, <4>2, <4>3
      <4> QED BY <1>9, <2>3, <2>5, <4>2, <4>4
    <3> QED BY <3>1, <3>2
  <2>8. u = b
    BY <1>10, <2>5, <2>6, <2>7, SameList
  <2> QED BY <2>1, <2>2, <2>8
<1>13. PICK rest : rest = a \o c
  OBVIOUS
<1>14. rest \in Seq(Entries) /\ Len(rest) = len - 1 /\ InTime(rest, was)
  <2>1. \A x \in ToSet(a), y \in ToSet(c) : x.last <= y.last
    <3> SUFFICES ASSUME NEW x \in ToSet(a), NEW y \in ToSet(c) PROVE x.last <= y.last
      OBVIOUS
    <3>1. PICK j \in 1..(i - 1) : x = list[j]
      BY <1>8
    <3>2. PICK k \in (i + 1)..len : y = list[k]
      BY <1>9
    <3>3. j \in DOMAIN list /\ k \in DOMAIN list /\ j < k
      BY <1>2, <1>3, <3>1, <3>2
    <3>4. <<list[j], list[k]>> \in Aged
      BY <1>1, <1>2, <3>3 DEF InTime, Ordered
    <3> QED BY <3>1, <3>2, <3>4 DEF Aged
  <2>2. was \in 0..MaxModelTime /\ was \in 0..was
    BY ModelAssumption
  <2>3. rest \in Seq(Entries) /\ InTime(rest, was)
    BY <1>8, <1>9, <1>13, <2>1, <2>2, JoinInTime
  <2>4. a \in Seq(Entries) /\ c \in Seq(Entries)
    BY <1>8, <1>9
  <2>5. Len(rest) = Len(a) + Len(c)
    BY <1>13, <2>4, Joined
  <2> QED BY <1>2, <1>3, <1>8, <1>9, <2>3, <2>5
<1>15. PICK kept : kept = rest \o <<e>>
  OBVIOUS
<1>16. <<e>> \in Seq(Entries) /\ ToSet(<<e>>) = {e} /\ InTime(<<e>>, now)
  BY <1>5, OneInTime
<1>17. ASSUME NEW list2 \in Seq(Entries), InTime(list2, was), NEW x \in ToSet(list2)
       PROVE  x.last <= now
  <2>1. x \in Entries
    BY <1>17 DEF ToSet
  <2>2. x.last <= was /\ x.last \in Nat
    BY <1>17, <2>1, EntryTypes DEF InTime
  <2> QED BY <2>2
<1>18. kept \in Seq(Entries) /\ InTime(kept, now) /\ Len(kept) = len
  <2>1. \A x \in ToSet(rest), y \in ToSet(<<e>>) : x.last <= y.last
    BY <1>5, <1>14, <1>16, <1>17
  <2>2. kept \in Seq(Entries) /\ InTime(kept, now)
    BY <1>14, <1>15, <1>16, <2>1, JoinInTime
  <2>3. Len(kept) = Len(rest) + 1
    BY <1>14, <1>15, <1>16
  <2> QED BY <1>14, <2>2, <2>3
<1>19. Size(kept) = Size(list)
  <2>1. <<list[i]>> \in Seq(Entries)
    BY <1>3
  <2>2. Size(<<e>>) = Size(<<list[i]>>)
    BY <1>3, <1>5, SizeOne
  <2>3. Size(list) = Size(a) + Size(b) /\ Size(a) \in Nat
    BY <1>8, <1>10, <1>11, SizeConcat
  <2>4. Size(b) = Size(<<list[i]>>) + Size(c) /\ Size(<<list[i]>>) \in Nat
    BY <1>9, <1>12, <2>1, SizeConcat
  <2>5. Size(rest) = Size(a) + Size(c)
    BY <1>8, <1>9, <1>13, SizeConcat
  <2>6. Size(kept) = Size(rest) + Size(<<e>>)
    BY <1>14, <1>15, <1>16, SizeConcat
  <2>7. Size(c) \in Nat
    BY <1>9, SizeConcat
  <2> QED BY <2>2, <2>3, <2>4, <2>5, <2>6, <2>7
<1>20. InTime(bc.evicted, now)
  BY <1>1, <1>17 DEF InTime
<1>21. new = [bc EXCEPT !.entries = kept]
  <2>1. RemoveAt(list, i) = rest
    BY <1>2, <1>6, <1>13 DEF RemoveAt
  <2>2. Append(rest, e) = kept
    BY <1>14, <1>15
  <2> QED BY <1>2, <1>4, <2>1, <2>2 DEF Promoted
<1> HIDE DEF new
<1>22. /\ new \in Caches /\ new.entries = kept /\ new.used = bc.used
       /\ new.capacity = bc.capacity /\ new.evicted = bc.evicted
  BY <1>1, <1>18, <1>21 DEF Caches
<1>23. UsedIsBounded(new)
  BY <1>1, <1>2, <1>18, <1>19, <1>22 DEF UsedIsBounded
<1> QED BY <1>18, <1>20, <1>22, <1>23 DEF CacheGood, new

-----------------------------------------------------------------------------
(* The eviction model: what was evicted since a time.                      *)

LEMMA PieceIsSuffix ==
  ASSUME NEW X, NEW list \in Seq(X), NEW k \in 0..Len(list)
  PROVE  IsSuffix(SubSeq(list, k + 1, Len(list)), list)
<1>0. PICK len \in Nat : len = Len(list)
  OBVIOUS
<1>1. PICK piece : piece = SubSeq(list, k + 1, len) /\ len = Len(list)
  BY <1>0
<1>2. /\ piece \in Seq(X) /\ Len(piece) = len - k
      /\ \A i \in 1..(len - k) : piece[i] = list[k + i]
  <2>1. /\ k + 1 \in 1..(len + 1) /\ len \in 0..len /\ k + 1 <= len + 1
        /\ (len - (k + 1)) + 1 = len - k
    BY <1>1
  <2>2. \A i \in 1..(len - k) : ((k + 1) + i) - 1 = k + i
    BY <1>1
  <2>3. /\ piece \in Seq(X) /\ Len(piece) = (len - (k + 1)) + 1
        /\ \A i \in 1..((len - (k + 1)) + 1) : piece[i] = list[((k + 1) + i) - 1]
    BY <1>1, <2>1, Piece
  <2> QED BY <2>1, <2>2, <2>3
<1>3. PICK m \in Nat : m = len - k /\ m <= len
  BY <1>1
<1>4. PICK r, q : r = Reverse(piece) /\ q = Reverse(list)
  OBVIOUS
<1>5. /\ r = [i \in 1..m |-> piece[(m - i) + 1]]
      /\ q = [i \in 1..len |-> list[(len - i) + 1]]
  BY <1>1, <1>2, <1>3, <1>4 DEF Reverse
<1>6. r \in Seq(X) /\ Len(r) = m /\ \A i \in 1..m : r[i] = piece[(m - i) + 1]
  <2>1. \A i \in 1..m : (m - i) + 1 \in 1..m
    BY <1>3
  <2>2. \A i \in 1..m : piece[(m - i) + 1] \in X
    BY <1>2, <1>3, <2>1
  <2> QED BY <1>5, <2>2
<1>7. q \in Seq(X) /\ Len(q) = len /\ \A i \in 1..len : q[i] = list[(len - i) + 1]
  <2>1. \A i \in 1..len : (len - i) + 1 \in 1..len
    BY <1>1
  <2>2. \A i \in 1..len : list[(len - i) + 1] \in X
    BY <1>1, <2>1
  <2> QED BY <1>5, <2>2
<1>8. ASSUME NEW i \in 1..m PROVE r[i] = q[i]
  <2>1. (m - i) + 1 \in 1..m /\ k + ((m - i) + 1) = (len - i) + 1 /\ i \in 1..len
    BY <1>3
  <2>2. PICK j \in 1..m : j = (m - i) + 1
    BY <2>1
  <2>3. r[i] = piece[j] /\ piece[j] = list[k + j]
    BY <1>2, <1>3, <1>6, <2>2
  <2>4. q[i] = list[k + j]
    BY <1>7, <2>1, <2>2
  <2> QED BY <2>3, <2>4
<1>9. PICK a, b : a = SubSeq(r, 1, m) /\ b = SubSeq(q, 1, m)
  OBVIOUS
<1>10. a \in Seq(X) /\ Len(a) = m /\ \A i \in 1..m : a[i] = r[i]
  BY <1>6, <1>9
<1>11. b \in Seq(X) /\ Len(b) = m /\ \A i \in 1..m : b[i] = q[i]
  BY <1>3, <1>7, <1>9
<1>12. a = b
  BY <1>8, <1>10, <1>11, SameList
<1>13. IsPrefix(r, q)
  BY <1>3, <1>6, <1>7, <1>9, <1>12 DEF IsPrefix
<1> QED BY <1>1, <1>4, <1>13 DEF IsSuffix

LEMMA PieceGrows ==
  ASSUME NEW X, NEW list \in Seq(X), NEW n \in 0..Len(list), n < Len(list),
         NEW k \in 0..n
  PROVE  Append(SubSeq(list, k + 1, n), list[n + 1]) = SubSeq(list, k + 1, n + 1)
<1>1. PICK len \in Nat, m \in Nat : len = Len(list) /\ m = n - k
  OBVIOUS
<1>2. PICK a, b : a = SubSeq(list, k + 1, n) /\ b = SubSeq(list, k + 1, n + 1)
  OBVIOUS
<1>3. /\ k + 1 \in 1..(len + 1) /\ n \in 0..len /\ n + 1 \in 0..len
      /\ k + 1 <= n + 1 /\ k + 1 <= (n + 1) + 1
      /\ (n - (k + 1)) + 1 = m /\ ((n + 1) - (k + 1)) + 1 = m + 1
  BY <1>1
<1>4. a \in Seq(X) /\ Len(a) = m /\ \A i \in 1..m : a[i] = list[((k + 1) + i) - 1]
  BY <1>1, <1>2, <1>3, Piece
<1>5. /\ b \in Seq(X) /\ Len(b) = m + 1
      /\ \A i \in 1..(m + 1) : b[i] = list[((k + 1) + i) - 1]
  BY <1>1, <1>2, <1>3, Piece
<1>6. list[n + 1] \in X /\ ((k + 1) + (m + 1)) - 1 = n + 1
  BY <1>1
<1>7. PICK x, c : x = list[n + 1] /\ x \in X /\ c = Append(a, x)
  BY <1>6
<1>8. /\ c \in Seq(X) /\ Len(c) = m + 1 /\ c[m + 1] = x
      /\ \A i \in 1..m : c[i] = a[i]
  BY <1>4, <1>7
<1>9. ASSUME NEW i \in 1..(m + 1) PROVE c[i] = b[i]
  <2>1. CASE i = m + 1
    BY <1>5, <1>6, <1>7, <1>8, <2>1
  <2>2. CASE i # m + 1
    <3>1. i \in 1..m
      BY <2>2
    <3>2. c[i] = a[i] /\ a[i] = list[((k + 1) + i) - 1] /\ b[i] = list[((k + 1) + i) - 1]
      BY <1>4, <1>5, <1>8, <3>1
    <3> QED BY <3>2
  <2> QED BY <2>1, <2>2
<1>10. c = b
  BY <1>5, <1>8, <1>9, SameList
<1> QED BY <1>2, <1>7, <1>10

\* Of a list in the order of its times, what is not old is the end.
LEMMA RecentIsSuffix ==
  ASSUME NEW list \in Seq(Entries), Ordered(list, Aged), NEW since \in Nat
  PROVE  IsSuffix(Without(list, {e \in ToSet(list) : e.last < since}), list)
<1> DEFINE old == {e \in ToSet(list) : e.last < since}
<1>1. PICK len \in Nat : len = Len(list) /\ DOMAIN list = 1..len
  OBVIOUS
<1>2. \A i \in 1..len : list[i] \in old <=> list[i].last < since
  BY <1>1 DEF ToSet
<1>3. PICK rest : Unfolds(rest, list, old) /\ Without(list, old) = rest[len]
  BY <1>1, WithoutUnfolds
<1>4. \A n \in 0..len : rest[n] = Leaves(rest, list, old, n)
  BY <1>1, <1>3 DEF Unfolds
<1> HIDE DEF old
<1> DEFINE Ends(n, k) == /\ rest[n] = SubSeq(list, k + 1, n)
                         /\ k < n => list[k + 1] \notin old
           S == {n \in 0..len : \E k \in 0..n : Ends(n, k)}
<1>5. 0 \in S
  <2>1. rest[0] = << >>
    BY <1>4 DEF Leaves
  <2>2. SubSeq(list, 0 + 1, 0) = << >>
    OBVIOUS
  <2>3. Ends(0, 0)
    BY <2>1, <2>2
  <2> HIDE DEF Ends
  <2> QED BY <2>3
<1>6. ASSUME NEW n \in 0..len, n \in S, n < len
      PROVE  n + 1 \in S
  <2>1. PICK k \in 0..n : Ends(n, k)
    BY <1>6
  <2>2. n + 1 \in 1..len /\ n + 1 \in 0..len /\ (n + 1) - 1 = n /\ n + 1 # 0
    BY <1>6
  <2>3. rest[n + 1] = IF list[n + 1] \in old THEN rest[n] ELSE Append(rest[n], list[n + 1])
    BY <1>4, <2>2 DEF Leaves
  <2>4. CASE list[n + 1] \in old
    <3>1. ~ (k < n)
      <4> SUFFICES ASSUME k < n PROVE FALSE
        OBVIOUS
      <4>1. k + 1 \in 1..len /\ k + 1 < n + 1
        BY <2>2
      <4>2. list[k + 1] \notin old
        BY <2>1
      <4>3. <<list[k + 1], list[n + 1]>> \in Aged
        BY <1>1, <2>2, <4>1 DEF Ordered
      <4>4. list[k + 1].last <= list[n + 1].last
        BY <4>3 DEF Aged
      <4>5. list[k + 1] \in Entries /\ list[n + 1] \in Entries
        BY <1>1, <2>2, <4>1
      <4>6. list[k + 1].last \in Nat /\ list[n + 1].last \in Nat
        BY <4>5, EntryTypes
      <4>7. PICK x, y : x = list[k + 1].last /\ y = list[n + 1].last
        OBVIOUS
      <4>8. ~ (x < since) /\ y < since
        BY <1>2, <2>2, <2>4, <4>1, <4>2, <4>7
      <4> QED BY <4>4, <4>6, <4>7, <4>8
    <3>2. k = n
      BY <3>1
    <3>3. rest[n + 1] = SubSeq(list, n + 1, n)
      BY <2>1, <2>3, <2>4, <3>2
    <3>4. \A i \in Nat : SubSeq(list, i + 1, i) = << >>
      OBVIOUS
    <3>5. rest[n + 1] = SubSeq(list, (n + 1) + 1, n + 1)
      BY <3>3, <3>4
    <3>6. Ends(n + 1, n + 1) /\ n + 1 \in 0..(n + 1)
      BY <3>5
    <3> HIDE DEF Ends
    <3> QED BY <2>2, <3>6
  <2>5. CASE list[n + 1] \notin old
    <3>1. rest[n + 1] = SubSeq(list, k + 1, n + 1)
      BY <1>1, <1>6, <2>1, <2>3, <2>5, PieceGrows
    <3>2. list[k + 1] \notin old
      BY <2>1, <2>5
    <3>3. Ends(n + 1, k) /\ k \in 0..(n + 1)
      BY <3>1, <3>2
    <3> HIDE DEF Ends
    <3> QED BY <2>2, <3>3
  <2> QED BY <2>4, <2>5
<1>7. len \in S
  <2> HIDE DEF S
  <2>1. 0..len \subseteq S
    BY <1>5, <1>6, Induction
  <2> QED BY <2>1
<1>8. PICK k \in 0..len : rest[len] = SubSeq(list, k + 1, len)
  BY <1>7
<1> QED BY <1>1, <1>3, <1>8, PieceIsSuffix DEF old

-----------------------------------------------------------------------------
(* The eviction model: the invariant.                                      *)

ModelInv ==
  /\ modelClock \in 0..MaxModelTime
  /\ DOMAIN cache \subseteq ModelBackends
  /\ \A b \in DOMAIN cache : CacheGood(cache[b], modelClock)

LEMMA LaterStillInTime ==
  ASSUME NEW now \in 0..MaxModelTime, NEW was \in 0..now,
         NEW list \in Seq(Entries), InTime(list, was)
  PROVE  InTime(list, now)
<1>1. ASSUME NEW e \in ToSet(list) PROVE e.last <= now
  <2>1. e \in Entries
    BY DEF ToSet
  <2>2. e.last <= was /\ e.last \in Nat
    BY <2>1, EntryTypes DEF InTime
  <2> QED BY <2>2
<1> QED BY <1>1 DEF InTime

LEMMA LaterStillGood ==
  ASSUME NEW now \in 0..MaxModelTime, NEW was \in 0..now,
         NEW bc, CacheGood(bc, was)
  PROVE  CacheGood(bc, now)
<1>1. bc.entries \in Seq(Entries) /\ bc.evicted \in Seq(Entries)
  BY DEF CacheGood, Caches
<1> QED BY <1>1, LaterStillInTime DEF CacheGood

\* One backend's cache changes, to a good one; the clock may go on.
LEMMA OneCacheChanges ==
  ASSUME ModelInv, NEW b \in ModelBackends, NEW new, NEW now,
         modelClock' = now, now \in 0..MaxModelTime, modelClock <= now,
         DOMAIN cache' = DOMAIN cache \cup {b},
         \A c \in DOMAIN cache : c # b => cache'[c] = cache[c],
         cache'[b] = new, CacheGood(new, now)
  PROVE  ModelInv'
<1>1. modelClock \in 0..now
  BY DEF ModelInv
<1>2. ASSUME NEW c \in DOMAIN cache' PROVE CacheGood(cache'[c], now)
  <2>1. CASE c = b
    BY <2>1
  <2>2. CASE c # b
    <3>1. c \in DOMAIN cache /\ cache'[c] = cache[c]
      BY <1>2, <2>2
    <3>2. CacheGood(cache[c], modelClock)
      BY <3>1 DEF ModelInv
    <3> QED BY <1>1, <3>1, <3>2, LaterStillGood
  <2> QED BY <2>1, <2>2
<1>3. \A c \in DOMAIN cache' : CacheGood(cache'[c], now)
  BY <1>2
<1> QED BY <1>3 DEF ModelInv, CacheGood, UsedIsBounded

LEMMA ReadClockTypes ==
  ASSUME ModelInv, NEW now, ReadModelClock(now)
  PROVE  now \in 0..MaxModelTime /\ modelClock \in 0..now /\ modelClock <= now
<1>1. modelClock \in 0..MaxModelTime /\ MaxModelTime \in Nat
  BY ModelAssumption DEF ModelInv
<1>2. now \in {modelClock, modelClock + 1} /\ now <= MaxModelTime
  BY DEF ReadModelClock
<1> QED BY <1>1, <1>2

LEMMA ModelInitInv == ModelInit => ModelInv
BY ModelAssumption DEF ModelInit, ModelInv

LEMMA RegisterInv ==
  ASSUME ModelInv, NEW b \in ModelBackends, NEW capacity \in Capacities,
         Register(b, capacity)
  PROVE  ModelInv'
<1>1. PICK new : new = EmptyCache(capacity)
  OBVIOUS
<1>2. modelClock' = modelClock /\ modelClock \in 0..MaxModelTime /\ modelClock <= modelClock
  BY ModelAssumption DEF Register, ModelInv
<1>3. CacheGood(new, modelClock)
  BY <1>1, <1>2, EmptyCacheGood
<1>4. /\ DOMAIN cache' = DOMAIN cache \cup {b}
      /\ \A c \in DOMAIN cache : c # b => cache'[c] = cache[c]
      /\ cache'[b] = new
  BY <1>1 DEF Register
<1> QED BY <1>2, <1>3, <1>4, OneCacheChanges

LEMMA RecordInsertInv ==
  ASSUME ModelInv, NEW b \in ModelBackends, NEW hashes \in Sent, NEW now,
         RecordInsert(b, hashes, now)
  PROVE  ModelInv'
<1>1. PICK gone : gone = Leaving(cache[b], hashes)
  OBVIOUS
<1>2. PICK new : new = Inserted(cache[b], hashes, now, Size(gone), Stamped(gone, now))
  OBVIOUS
<1>3. /\ b \in DOMAIN cache /\ ReadModelClock(now) /\ modelClock' = now
      /\ cache' = [cache EXCEPT ![b] = new]
  BY <1>1, <1>2 DEF RecordInsert, MayInsert, ReadModelClock
<1>4. now \in 0..MaxModelTime /\ modelClock \in 0..now /\ modelClock <= now
  BY <1>3, ReadClockTypes
<1>5. CacheGood(cache[b], modelClock)
  BY <1>3 DEF ModelInv
<1>6. CacheGood(new, now)
  BY <1>1, <1>2, <1>4, <1>5, InsertGood
<1>7. /\ DOMAIN cache' = DOMAIN cache \cup {b}
      /\ \A c \in DOMAIN cache : c # b => cache'[c] = cache[c]
      /\ cache'[b] = new
  BY <1>3
<1> QED BY <1>3, <1>4, <1>6, <1>7, OneCacheChanges

LEMMA FirstSharing ==
  ASSUME NEW bc, bc.entries \in Seq(Entries), NEW hashes, Sharing(bc, hashes) # {}
  PROVE  Min(Sharing(bc, hashes)) \in DOMAIN bc.entries
<1>1. Sharing(bc, hashes) \subseteq DOMAIN bc.entries
  BY DEF Sharing
<1>2. DOMAIN bc.entries \subseteq Nat
  OBVIOUS
<1>3. Min(Sharing(bc, hashes)) \in Sharing(bc, hashes)
  BY <1>1, <1>2, SmallestInSet DEF Min
<1> QED BY <1>1, <1>3

LEMMA RecordAccessInv ==
  ASSUME ModelInv, NEW b \in ModelBackends, NEW hashes \in Sent, NEW now,
         RecordAccess(b, hashes, now)
  PROVE  ModelInv'
<1>1. PICK i : i = Min(Sharing(cache[b], hashes))
  OBVIOUS
<1>2. PICK new : new = Promoted(cache[b], i, now)
  OBVIOUS
<1>3. /\ b \in DOMAIN cache /\ Sharing(cache[b], hashes) # {}
      /\ ReadModelClock(now) /\ modelClock' = now
      /\ cache' = [cache EXCEPT ![b] = new]
  BY <1>1, <1>2 DEF RecordAccess, ReadModelClock
<1>4. now \in 0..MaxModelTime /\ modelClock \in 0..now /\ modelClock <= now
  BY <1>3, ReadClockTypes
<1>5. CacheGood(cache[b], modelClock)
  BY <1>3 DEF ModelInv
<1>6. i \in DOMAIN cache[b].entries
  BY <1>1, <1>3, <1>5, FirstSharing DEF CacheGood, Caches
<1>7. CacheGood(new, now)
  BY <1>2, <1>4, <1>5, <1>6, AccessGood
<1>8. /\ DOMAIN cache' = DOMAIN cache \cup {b}
      /\ \A c \in DOMAIN cache : c # b => cache'[c] = cache[c]
      /\ cache'[b] = new
  BY <1>3
<1> QED BY <1>3, <1>4, <1>7, <1>8, OneCacheChanges

LEMMA ModelStepInv == ModelInv /\ [ModelNext]_modelVars => ModelInv'
<1> SUFFICES ASSUME ModelInv, [ModelNext]_modelVars PROVE ModelInv'
  OBVIOUS
<1>1. ASSUME NEW b \in ModelBackends, NEW capacity \in Capacities, Register(b, capacity)
      PROVE  ModelInv'
  BY <1>1, RegisterInv
<1>2. ASSUME NEW b \in ModelBackends, NEW hashes \in Sent, NEW now \in 0..MaxModelTime,
             RecordInsert(b, hashes, now)
      PROVE  ModelInv'
  BY <1>2, RecordInsertInv
<1>3. ASSUME NEW b \in ModelBackends, NEW hashes \in Sent, NEW now \in 0..MaxModelTime,
             RecordAccess(b, hashes, now)
      PROVE  ModelInv'
  BY <1>3, RecordAccessInv
<1>4. CASE UNCHANGED modelVars
  BY <1>4 DEF modelVars, ModelInv, CacheGood, UsedIsBounded
<1> QED BY <1>1, <1>2, <1>3, <1>4 DEF ModelNext

LEMMA ModelInvHolds == ModelSpec => []ModelInv
BY ModelInitInv, ModelStepInv, PTL DEF ModelSpec

(***************************************************************************)
(* The capacities, counts and lists of the eviction model keep their types *)
(* whatever is registered, recorded and asked for.                         *)
(***************************************************************************)
LEMMA ModelInvTypes == ModelInv => ModelTypeOK
BY DEF ModelInv, ModelTypeOK, CacheGood, Caches

THEOREM ModelTypesCorrect == ModelSpec => []ModelTypeOK
BY ModelInvHolds, ModelInvTypes, PTL

LEMMA GoodCacheSound ==
  ASSUME NEW bc, NEW now, CacheGood(bc, now)
  PROVE  LeastRecentFirst(bc)
<1>1. ASSUME NEW i \in DOMAIN bc.entries, NEW j \in DOMAIN bc.entries, i < j
      PROVE  bc.entries[i].last <= bc.entries[j].last
  BY <1>1 DEF CacheGood, InTime, Ordered, Aged
<1> QED BY <1>1 DEF LeastRecentFirst

LEMMA ModelInvSound == ModelInv => CacheListSound
<1> SUFFICES ASSUME ModelInv, NEW b \in DOMAIN cache
             PROVE  /\ UsedIsBounded(cache[b])
                    /\ LeastRecentFirst(cache[b])
                    /\ \A since \in 0..MaxModelTime :
                         IsSuffix(EvictedSince(b, since), cache[b].evicted)
  BY DEF CacheListSound
<1>1. CacheGood(cache[b], modelClock)
  BY DEF ModelInv
<1>2. UsedIsBounded(cache[b]) /\ LeastRecentFirst(cache[b])
  BY <1>1, GoodCacheSound DEF CacheGood
<1>3. ASSUME NEW since \in 0..MaxModelTime
      PROVE  IsSuffix(EvictedSince(b, since), cache[b].evicted)
  <2>1. cache[b].evicted \in Seq(Entries) /\ Ordered(cache[b].evicted, Aged)
    BY <1>1 DEF CacheGood, Caches, InTime
  <2>2. since \in Nat
    OBVIOUS
  <2> QED BY <2>1, <2>2, RecentIsSuffix DEF EvictedSince
<1> QED BY <1>2, <1>3

(***************************************************************************)
(* The blocks in use are the sum of the sizes of the entries, only one     *)
(* entry alone goes beyond the capacity, the entries are in the order of   *)
(* their last access, and what was evicted since a time is the end of what *)
(* was ever evicted.                                                       *)
(***************************************************************************)
THEOREM CacheListsSound == ModelSpec => []CacheListSound
BY ModelInvHolds, ModelInvSound, PTL

-----------------------------------------------------------------------------
(* The eviction model: the confidence.                                     *)

LEMMA TimesKeepsOrder ==
  ASSUME NEW a \in Nat, NEW b \in Nat, NEW c \in Nat, a <= b
  PROVE  a * c <= b * c
<1>1. PICK d \in Nat : b = a + d
  <2>1. b - a \in Nat /\ b = a + (b - a)
    OBVIOUS
  <2> QED BY <2>1
<1>2. d * c \in Nat /\ a * c \in Nat
  OBVIOUS
<1>3. (a + d) * c = a * c + d * c
  OBVIOUS
<1>4. PICK x \in Nat, y \in Nat : x = a * c /\ y = d * c
  BY <1>2
<1>5. b * c = x + y
  BY <1>1, <1>3, <1>4
<1> QED BY <1>4, <1>5

LEMMA PositiveTimes ==
  ASSUME NEW a \in Nat, NEW b \in Nat, a > 0, b > 0
  PROVE  a * b \in Nat /\ a * b > 0
OBVIOUS

LEMMA PairOf ==
  ASSUME NEW x, NEW y, NEW c, c = <<x, y>>
  PROVE  c[1] = x /\ c[2] = y
OBVIOUS

LEMMA InOther ==
  ASSUME NEW A, NEW x, NEW all, all = {x} \cup A, NEW c \in all, c # x
  PROVE  c \in A
OBVIOUS

\* Fractions with one denominator, and zero.
Fractions(num, den, I) == {<<0, 1>>} \cup {<<num[i], den>> : i \in I}

Greatest(all) == CHOOSE x \in all : \A y \in all : AtMost(y, x)

\* Fractions with one denominator that grow with the index: the greatest of
\* them and zero is zero only when there is none.
LEMMA GreatestFraction ==
  ASSUME NEW n \in Nat, NEW I, I \subseteq 1..n, NEW den \in Nat, den > 0,
         NEW num \in [1..n -> Nat],
         \A i \in I : num[i] > 0 /\ num[i] <= den,
         \A i, j \in I : i <= j => num[i] <= num[j],
         NEW all, all = Fractions(num, den, I),
         NEW c, c = Greatest(all)
  PROVE  /\ AtMost(<<0, 1>>, c) /\ AtMost(c, <<1, 1>>)
         /\ (c[1] > 0) <=> (I # {})
<1>0. all = {<<0, 1>>} \cup {<<num[i], den>> : i \in I}
  BY DEF Fractions
<1>1. CASE I = {}
  <2>1. all = {<<0, 1>>} /\ AtMost(<<0, 1>>, <<0, 1>>)
    BY <1>0, <1>1 DEF AtMost
  <2>2. c = <<0, 1>>
    BY <2>1 DEF Greatest
  <2>3. c[1] = 0 /\ c[2] = 1
    BY <2>2, PairOf
  <2> QED BY <1>1, <2>2, <2>3 DEF AtMost
<1>2. CASE I # {}
  <2>1. PICK m \in I : \A j \in I : j <= m
    <3>1. I \subseteq 0..n
      OBVIOUS
    <3> QED BY <1>2, <3>1, GreatestInSet
  <2>0. PICK top : top = <<num[m], den>>
    OBVIOUS
  <2>2. top = <<num[m], den>> /\ top[1] = num[m] /\ top[2] = den
    BY <2>0, PairOf
  <2>3. ASSUME NEW y \in all PROVE AtMost(y, top)
    <3>1. CASE y = <<0, 1>>
      <4>1. 0 * den = 0 /\ num[m] * 1 = num[m] /\ num[m] \in Nat
        BY <2>1
      <4>2. y[1] * top[2] = 0 /\ top[1] * y[2] = num[m]
        BY <2>2, <3>1, <4>1
      <4> QED BY <4>1, <4>2 DEF AtMost
    <3>2. CASE y # <<0, 1>>
      <4>1. PICK i \in I : y = <<num[i], den>>
        BY <1>0, <2>3, <3>2
      <4>2. num[i] \in Nat /\ num[m] \in Nat /\ num[i] <= num[m]
        BY <2>1
      <4>3. num[i] * den <= num[m] * den
        BY <4>2, TimesKeepsOrder
      <4>4. y[1] = num[i] /\ y[2] = den
        BY <4>1
      <4> QED BY <2>2, <4>3, <4>4 DEF AtMost
    <3> QED BY <3>1, <3>2
  <2>4. top \in all
    BY <1>0, <2>1, <2>2
  <2>5. c \in all /\ \A y \in all : AtMost(y, c)
    BY <2>3, <2>4 DEF Greatest
  <2>6. c # <<0, 1>>
    <3> SUFFICES ASSUME c = <<0, 1>> PROVE FALSE
      OBVIOUS
    <3>1. top[1] * c[2] <= c[1] * top[2]
      BY <2>4, <2>5 DEF AtMost
    <3>2. c[1] = 0 /\ c[2] = 1
      BY PairOf
    <3>3. num[m] * 1 <= 0 * den
      BY <2>2, <3>1, <3>2
    <3>4. num[m] * 1 = num[m] /\ 0 * den = 0 /\ num[m] \in Nat /\ num[m] > 0
      <4>1. num[m] \in Nat /\ num[m] > 0
        BY <2>1
      <4>2. \A x \in Nat : x * 1 = x /\ 0 * x = 0
        OBVIOUS
      <4> QED BY <4>1, <4>2
    <3> QED BY <3>3, <3>4
  <2>7. PICK i \in I : c = <<num[i], den>>
    <3>1. c \in {<<num[j], den>> : j \in I}
      <4>1. PICK A : A = {<<num[j], den>> : j \in I}
        OBVIOUS
      <4>2. all = {<<0, 1>>} \cup A
        BY <1>0, <4>1
      <4>3. c \in A
        BY <2>5, <2>6, <4>2, InOther, Zenon
      <4> QED BY <4>1, <4>3, Zenon
    <3> QED BY <3>1
  <2>8. /\ c[1] = num[i] /\ c[2] = den
        /\ num[i] \in Nat /\ num[i] > 0 /\ num[i] <= den
    <3>1. c[1] = num[i] /\ c[2] = den
      BY <2>7, PairOf
    <3>2. num[i] \in Nat /\ num[i] > 0 /\ num[i] <= den
      BY <2>7
    <3> QED BY <3>1, <3>2
  <2>9. /\ 0 * den = 0 /\ num[i] * 1 = num[i] /\ 1 * den = den
    BY <2>8
  <2>10. AtMost(<<0, 1>>, c) /\ AtMost(c, <<1, 1>>)
    BY <2>8, <2>9 DEF AtMost
  <2> QED BY <1>2, <2>8, <2>10
<1> QED BY <1>1, <1>2

LEMMA CountMatchingType ==
  ASSUME NEW e \in Entries, NEW hashes
  PROVE  CountMatching(e, hashes) \in Nat
<1>1. DOMAIN e.hashes = 1..Len(e.hashes) /\ Len(e.hashes) \in Nat
  BY EntryTypes
<1>2. IsFiniteSet(1..Len(e.hashes))
  <2>1. 1 \in Int /\ Len(e.hashes) \in Int
    BY <1>1
  <2> QED BY <2>1, FS_Interval
<1> DEFINE M == {i \in DOMAIN e.hashes : e.hashes[i] \in ToSet(hashes)}
<1>3. M \subseteq 1..Len(e.hashes)
  BY <1>1
<1>4. CountMatching(e, hashes) = Cardinality(M)
  BY DEF CountMatching
<1> HIDE DEF M
<1> QED BY <1>2, <1>3, <1>4, FS_Subset, FS_CardinalityType

Matching(bc, hashes) == {j \in DOMAIN bc.entries : CountMatching(bc.entries[j], hashes) > 0}

LEMMA MatchedMeansMatching ==
  ASSUME NEW b \in DOMAIN cache, cache[b].entries \in Seq(Entries), NEW hashes
  PROVE  (MatchedBlocks(b, hashes) > 0) <=> (Matching(cache[b], hashes) # {})
<1>1. PICK list \in Seq(Entries), len \in Nat : list = cache[b].entries /\ len = Len(list)
  <2>1. PICK list \in Seq(Entries) : list = cache[b].entries
    OBVIOUS
  <2>2. Len(list) \in Nat
    OBVIOUS
  <2> QED BY <2>1, <2>2
<1>2. PICK numbers : numbers = [n \in 1..len |-> CountMatching(list[n], hashes)]
  OBVIOUS
<1>3. \A n \in 1..len : CountMatching(list[n], hashes) \in Nat
  BY <1>1, CountMatchingType
<1>4. numbers \in Seq(Nat) /\ DOMAIN numbers = 1..len /\ DOMAIN list = 1..len
  BY <1>1, <1>2, <1>3
<1>5. MatchedBlocks(b, hashes) = SumOf(numbers)
  BY <1>1, <1>2, <1>4 DEF MatchedBlocks
<1>6. (SumOf(numbers) > 0) <=> (\E i \in 1..len : numbers[i] > 0)
  BY <1>4, SumPositive
<1>7. \A i \in 1..len : numbers[i] = CountMatching(list[i], hashes)
  BY <1>2
<1>8. (\E i \in 1..len : numbers[i] > 0) <=> (Matching(cache[b], hashes) # {})
  BY <1>1, <1>4, <1>7 DEF Matching
<1> QED BY <1>5, <1>6, <1>8

\* The two factors of a confidence and its age never exceed one.
LEMMA FractionsBelowOne ==
  ASSUME NEW p \in Nat, NEW q \in Nat, NEW r \in Nat, NEW s \in Nat, NEW k \in Nat,
         0 < p, p <= q, 0 < r, r <= s, 1 <= k
  PROVE  /\ p * r \in Nat /\ p * r > 0 /\ (p * r) * 1 = p * r
         /\ (q * s) * k \in Nat /\ (q * s) * k > 0
         /\ p * r <= (q * s) * k
<1>1. p * r \in Nat /\ p * r > 0
  BY PositiveTimes
<1>2. 0 < q /\ 0 < s /\ 0 < k
  OBVIOUS
<1>3. q * s \in Nat /\ q * s > 0
  BY <1>2, PositiveTimes
<1>4. PICK x \in Nat, y \in Nat : x = p * r /\ y = q * s /\ x > 0 /\ y > 0
  BY <1>1, <1>3
<1>5. y * k \in Nat /\ y * k > 0
  BY <1>2, <1>4, PositiveTimes
<1>6. p * r <= q * r
  BY TimesKeepsOrder
<1>7. r * q <= s * q
  BY TimesKeepsOrder
<1>8. q * r = r * q /\ q * s = s * q /\ r * q \in Nat
  OBVIOUS
<1>9. PICK z \in Nat : z = q * r
  BY <1>8
<1>10. x <= z /\ z <= y
  BY <1>4, <1>6, <1>7, <1>8, <1>9
<1>11. 1 * y <= k * y
  <2>1. 1 \in Nat
    OBVIOUS
  <2> QED BY <2>1, TimesKeepsOrder
<1>12. 1 * y = y /\ k * y = y * k
  OBVIOUS
<1>13. PICK w \in Nat : w = y * k
  BY <1>5
<1>14. y <= w
  BY <1>11, <1>12, <1>13
<1>15. x <= w
  BY <1>10, <1>14
<1>16. x * 1 = x
  OBVIOUS
<1> QED BY <1>1, <1>4, <1>5, <1>13, <1>15, <1>16

Place(n, i) == IF n <= 1 THEN 1 ELSE (n - 1) + (i - 1)
PlaceCount(n) == IF n <= 1 THEN 1 ELSE 2 * (n - 1)

LEMMA PlaceTypes ==
  ASSUME NEW n \in Nat, NEW i \in 1..n
  PROVE  /\ Place(n, i) \in Nat /\ PlaceCount(n) \in Nat
         /\ 0 < Place(n, i) /\ Place(n, i) <= PlaceCount(n)
         /\ \A j \in 1..n : i <= j => Place(n, i) <= Place(n, j)
BY DEF Place, PlaceCount

LEMMA ConfidenceSound ==
  ASSUME NEW b \in DOMAIN cache, NEW bc, bc = cache[b], bc \in Caches,
         bc.capacity > 0, bc.used <= bc.capacity,
         NEW hashes, NEW age \in {<<1, 1>>, <<1, 10>>},
         NEW c, c = Confidence(b, hashes, age)
  PROVE  /\ AtMost(<<0, 1>>, c) /\ AtMost(c, <<1, 1>>)
         /\ (c[1] > 0) <=> (Matching(bc, hashes) # {})
<1>1. PICK n \in Nat : n = Len(bc.entries)
  BY DEF Caches
<1>2. PICK I : I = Matching(bc, hashes)
  OBVIOUS
<1>3. I \subseteq 1..n
  <2>1. DOMAIN bc.entries = 1..n
    BY <1>1 DEF Caches
  <2> QED BY <1>2, <2>1 DEF Matching
<1>4. PICK r \in Nat, s \in Nat : /\ r = 2 * bc.capacity - bc.used /\ s = 2 * bc.capacity
                                  /\ 0 < r /\ r <= s
  <2>1. bc.capacity \in Nat /\ bc.used \in Nat
    BY ModelAssumption DEF Caches
  <2> QED BY <2>1
<1>5. PICK press : press = PressureScore(bc)
  OBVIOUS
<1>6. press = <<r, s>>
  BY <1>4, <1>5 DEF PressureScore
<1>7. press[1] = r /\ press[2] = s
  BY <1>6, PairOf
<1>8. PICK k \in Nat : age = <<1, k>> /\ 1 <= k
  OBVIOUS
<1>9. age[1] = 1 /\ age[2] = k
  BY <1>8, PairOf
<1>10. PICK den : den = (PlaceCount(n) * s) * k
  OBVIOUS
<1>11. PICK num : num = [i \in 1..n |-> Place(n, i) * r]
  OBVIOUS
<1>12. ASSUME NEW i \in 1..n
       PROVE  /\ num[i] = Place(n, i) * r /\ num[i] \in Nat /\ num[i] > 0
              /\ den \in Nat /\ den > 0 /\ num[i] <= den
              /\ (Place(n, i) * r) * 1 = num[i]
  <2>1. num[i] = Place(n, i) * r
    BY <1>11
  <2>2. /\ Place(n, i) \in Nat /\ PlaceCount(n) \in Nat
        /\ 0 < Place(n, i) /\ Place(n, i) <= PlaceCount(n)
    BY PlaceTypes
  <2>3. PICK p \in Nat, q \in Nat : p = Place(n, i) /\ q = PlaceCount(n) /\ 0 < p /\ p <= q
    BY <2>2
  <2>4. /\ p * r \in Nat /\ p * r > 0 /\ (p * r) * 1 = p * r
        /\ (q * s) * k \in Nat /\ (q * s) * k > 0
        /\ p * r <= (q * s) * k
    BY <1>4, <1>8, <2>3, FractionsBelowOne
  <2> QED BY <1>10, <2>1, <2>3, <2>4
<1>13. num \in [1..n -> Nat]
  BY <1>11, <1>12
<1>14. den \in Nat /\ den > 0
  <2>1. PlaceCount(n) \in Nat /\ PlaceCount(n) > 0
    BY DEF PlaceCount
  <2>2. PICK q \in Nat : q = PlaceCount(n) /\ q > 0
    BY <2>1
  <2>3. q * s \in Nat /\ q * s > 0
    <3>1. s > 0
      BY <1>4
    <3> QED BY <2>2, <3>1, PositiveTimes
  <2>4. (q * s) * k \in Nat /\ (q * s) * k > 0
    <3>1. PICK x \in Nat : x = q * s /\ x > 0
      BY <2>3
    <3>2. k > 0
      BY <1>8
    <3>3. x * k \in Nat /\ x * k > 0
      BY <3>1, <3>2, PositiveTimes
    <3> QED BY <3>1, <3>3
  <2> QED BY <1>10, <2>2, <2>4
<1>15. \A i, j \in I : i <= j => num[i] <= num[j]
  <2> SUFFICES ASSUME NEW i \in I, NEW j \in I, i <= j PROVE num[i] <= num[j]
    OBVIOUS
  <2>1. i \in 1..n /\ j \in 1..n
    BY <1>3
  <2>2. Place(n, i) \in Nat /\ Place(n, j) \in Nat /\ Place(n, i) <= Place(n, j)
    BY <2>1, PlaceTypes
  <2>3. Place(n, i) * r <= Place(n, j) * r
    BY <2>2, TimesKeepsOrder
  <2> QED BY <1>12, <2>1, <2>3
<1>16. ASSUME NEW i \in I
       PROVE  Times(Times(PositionScore(bc, i), PressureScore(bc)), age) = <<num[i], den>>
  <2>1. i \in 1..n
    BY <1>3
  <2>2. PICK pos : pos = PositionScore(bc, i)
    OBVIOUS
  <2>3. pos = <<Place(n, i), PlaceCount(n)>>
    BY <1>1, <2>2 DEF PositionScore, Place, PlaceCount
  <2>4. pos[1] = Place(n, i) /\ pos[2] = PlaceCount(n)
    BY <2>3, PairOf
  <2>5. PICK x : x = Times(pos, press)
    OBVIOUS
  <2>6. x = <<Place(n, i) * r, PlaceCount(n) * s>>
    BY <1>7, <2>4, <2>5 DEF Times
  <2>7. x[1] = Place(n, i) * r /\ x[2] = PlaceCount(n) * s
    BY <2>6, PairOf
  <2>8. Times(x, age) = <<(Place(n, i) * r) * 1, (PlaceCount(n) * s) * k>>
    BY <1>9, <2>7 DEF Times
  <2> QED BY <1>5, <1>10, <1>12, <2>1, <2>2, <2>5, <2>8
<1>17. PICK all : all = Fractions(num, den, I)
  OBVIOUS
<1>18. c = Greatest(all)
  <2>1. all = {<<0, 1>>} \cup
              {Times(Times(PositionScore(bc, i), PressureScore(bc)), age) :
                 i \in {j \in DOMAIN bc.entries : CountMatching(bc.entries[j], hashes) > 0}}
    BY <1>2, <1>16, <1>17 DEF Matching, Fractions
  <2> QED BY <2>1 DEF Confidence, Greatest
<1>19. \A i \in I : num[i] > 0 /\ num[i] <= den
  BY <1>3, <1>12
<1>20. /\ AtMost(<<0, 1>>, c) /\ AtMost(c, <<1, 1>>)
       /\ (c[1] > 0) <=> (I # {})
  BY <1>3, <1>13, <1>14, <1>15, <1>17, <1>18, <1>19, GreatestFraction
<1> QED BY <1>2, <1>20

LEMMA ModelInvConfident == ModelInv => ConfidenceTellsMatch
<1> SUFFICES ASSUME ModelInv, NEW b \in ModelBackends, NEW hashes \in Sent,
                    NEW age \in {<<1, 1>>, <<1, 10>>},
                    AtMost(UsageRatio(b), <<1, 1>>),
                    b \in DOMAIN cache, cache[b].capacity > 0,
                    NEW c, c = Confidence(b, hashes, age)
             PROVE  /\ AtMost(<<0, 1>>, c) /\ AtMost(c, <<1, 1>>)
                    /\ (c[1] > 0) <=> (MatchedBlocks(b, hashes) > 0)
  BY DEF ConfidenceTellsMatch
<1>1. PICK bc : bc = cache[b]
  OBVIOUS
<1>2. bc \in Caches /\ bc.entries \in Seq(Entries)
  BY <1>1 DEF ModelInv, CacheGood, Caches
<1>3. bc.used \in Nat /\ bc.capacity \in Nat
  BY <1>2, ModelAssumption DEF Caches
<1>4. bc.used <= bc.capacity
  <2>1. PICK u \in Nat, v \in Nat : u = bc.used /\ v = bc.capacity /\ v > 0
    BY <1>1, <1>3
  <2>2. PICK ratio : ratio = UsageRatio(b)
    OBVIOUS
  <2>3. ratio = <<u, v>>
    BY <1>1, <2>1, <2>2 DEF UsageRatio
  <2>4. ratio[1] = u /\ ratio[2] = v
    BY <2>3, PairOf
  <2>5. u * 1 <= 1 * v
    BY <2>2, <2>4 DEF AtMost
  <2> QED BY <2>1, <2>5
<1>5. /\ AtMost(<<0, 1>>, c) /\ AtMost(c, <<1, 1>>)
      /\ (c[1] > 0) <=> (Matching(bc, hashes) # {})
  BY <1>1, <1>2, <1>4, ConfidenceSound
<1>6. (MatchedBlocks(b, hashes) > 0) <=> (Matching(bc, hashes) # {})
  BY <1>1, <1>2, MatchedMeansMatching
<1> QED BY <1>5, <1>6

(***************************************************************************)
(* A confidence is a probability, whatever the capacity and the list, as   *)
(* long as the entries fit, and it is zero exactly when nothing matches.   *)
(***************************************************************************)
THEOREM ConfidenceIsProbability == ModelSpec => []ConfidenceTellsMatch
BY ModelInvHolds, ModelInvConfident, PTL

-----------------------------------------------------------------------------
(* The tokenizer: the text of a conversation.                              *)

\* What the recursion of Text makes of the first n messages.
Writes(text, messages, n) ==
  IF n = 0 THEN << >>
  ELSE text[n - 1] \o messages[n].role \o <<":">> \o messages[n].content

WritesAll(text, messages) ==
  text = [n \in 0..Len(messages) |-> Writes(text, messages, n)]

LEMMA ElementType ==
  ASSUME NEW X, NEW list \in Seq(X), NEW i \in 1..Len(list)
  PROVE  list[i] \in X
OBVIOUS

LEMMA WiderType ==
  ASSUME NEW X, NEW Y, X \subseteq Y, NEW list \in Seq(X)
  PROVE  list \in Seq(Y)
OBVIOUS

LEMMA TextType ==
  ASSUME NEW chars, ":" \in chars,
         NEW messages \in Seq([role : Seq(chars), content : Seq(chars)])
  PROVE  Text(messages) \in Seq(chars)
<1> DEFINE Good(m) == \E g \in [0..m -> Seq(chars)] :
                        \A n \in 0..m : g[n] = Writes(g, messages, n)
           S == {m \in 0..Len(messages) : Good(m)}
<1>0. Len(messages) \in Nat
  OBVIOUS
<1>1. 0 \in S
  <2> DEFINE g == [n \in 0..0 |-> << >>]
  <2>1. g \in [0..0 -> Seq(chars)] /\ \A n \in 0..0 : g[n] = Writes(g, messages, n)
    BY DEF Writes
  <2> HIDE DEF g
  <2> QED BY <1>0, <2>1
<1>2. ASSUME NEW m \in 0..Len(messages), m \in S, m < Len(messages)
      PROVE  m + 1 \in S
  <2>1. PICK g \in [0..m -> Seq(chars)] : \A n \in 0..m : g[n] = Writes(g, messages, n)
    BY <1>2
  <2>2. /\ m + 1 \in 0..Len(messages) /\ m + 1 \in 1..Len(messages)
        /\ (m + 1) - 1 = m /\ m + 1 # 0 /\ m \in 0..m
    BY <1>2
  <2>3. PICK x : x = g[m] \o messages[m + 1].role \o <<":">> \o messages[m + 1].content
    OBVIOUS
  <2>4. x \in Seq(chars)
    <3>1. PICK a, b, c : a = g[m] /\ b = messages[m + 1].role /\ c = messages[m + 1].content
      OBVIOUS
    <3>2. messages[m + 1] \in [role : Seq(chars), content : Seq(chars)]
      BY <2>2, ElementType
    <3>3. a \in Seq(chars) /\ b \in Seq(chars) /\ c \in Seq(chars)
      BY <2>1, <2>2, <3>1, <3>2
    <3>4. <<":">> \in Seq(chars)
      OBVIOUS
    <3>5. a \o b \in Seq(chars)
      BY <3>3
    <3>6. (a \o b) \o <<":">> \in Seq(chars)
      BY <3>4, <3>5
    <3>7. ((a \o b) \o <<":">>) \o c \in Seq(chars)
      BY <3>3, <3>6
    <3> QED BY <2>3, <3>1, <3>7
  <2> DEFINE h == [n \in 0..(m + 1) |-> IF n = m + 1 THEN x ELSE g[n]]
  <2>5. /\ h \in [0..(m + 1) -> Seq(chars)] /\ h[m + 1] = x
        /\ \A n \in 0..m : h[n] = g[n]
    <3>1. PICK Y : Y = Seq(chars)
      OBVIOUS
    <3>2. g \in [0..m -> Y] /\ x \in Y
      BY <2>1, <2>4, <3>1
    <3>3. h \in [0..(m + 1) -> Y]
      <4>1. \A n \in 0..(m + 1) : n # m + 1 => n \in 0..m
        OBVIOUS
      <4> QED BY <3>2, <4>1
    <3>4. h[m + 1] = x /\ \A n \in 0..m : h[n] = g[n]
      OBVIOUS
    <3> QED BY <3>1, <3>3, <3>4
  <2> HIDE DEF h
  <2>6. ASSUME NEW n \in 0..(m + 1) PROVE h[n] = Writes(h, messages, n)
    <3>1. CASE n = m + 1
      BY <2>2, <2>3, <2>5, <3>1 DEF Writes
    <3>2. CASE n # m + 1
      <4>1. n \in 0..m /\ (n # 0 => n - 1 \in 0..m)
        BY <3>2
      <4> QED BY <2>1, <2>5, <4>1 DEF Writes
    <3> QED BY <3>1, <3>2
  <2>7. Good(m + 1)
    BY <2>5, <2>6
  <2> HIDE DEF Good
  <2> QED BY <2>2, <2>7
<1>3. PICK g \in [0..Len(messages) -> Seq(chars)] :
        \A n \in 0..Len(messages) : g[n] = Writes(g, messages, n)
  <2>1. Len(messages) \in S
    <3> HIDE DEF S
    <3>1. 0..Len(messages) \subseteq S
      BY <1>0, <1>1, <1>2, Induction
    <3> QED BY <1>0, <3>1
  <2> QED BY <2>1
<1> DEFINE text == CHOOSE f : WritesAll(f, messages)
<1>4. WritesAll(text, messages)
  <2>1. WritesAll(g, messages)
    BY <1>3 DEF WritesAll
  <2> QED BY <2>1
<1>5. Text(messages) = text[Len(messages)]
  BY DEF Text, WritesAll, Writes
<1> HIDE DEF text
<1>6. \A n \in 0..Len(messages) : text[n] = Writes(text, messages, n)
  BY <1>4 DEF WritesAll
<1> DEFINE T == {n \in 0..Len(messages) : text[n] = g[n]}
<1>7. 0 \in T
  <2>1. 0 \in 0..Len(messages)
    BY <1>0
  <2>2. g[0] = << >> /\ text[0] = << >>
    BY <1>3, <1>6, <2>1 DEF Writes
  <2> QED BY <2>1, <2>2
<1>8. ASSUME NEW n \in 0..Len(messages), n \in T, n < Len(messages)
      PROVE  n + 1 \in T
  <2>1. n + 1 \in 0..Len(messages) /\ n + 1 # 0 /\ (n + 1) - 1 = n
    BY <1>8
  <2> QED BY <1>3, <1>6, <1>8, <2>1 DEF Writes
<1>9. Len(messages) \in T
  <2> HIDE DEF T
  <2>1. 0..Len(messages) \subseteq T
    BY <1>0, <1>7, <1>8, Induction
  <2> QED BY <1>0, <2>1
<1> QED BY <1>0, <1>3, <1>5, <1>9

-----------------------------------------------------------------------------
(* The tokenizer: blocks.                                                  *)

LEMMA Division ==
  ASSUME NEW n \in Nat, NEW b \in Nat \ {0}
  PROVE  /\ n \div b \in Nat
         /\ (n \div b) * b <= n
         /\ n < (n \div b + 1) * b
OBVIOUS

\* b is the block size, kb the end of block k and lb that of the one before.
LEMMA BlockEnds ==
  ASSUME NEW k \in Nat \ {0}
  PROVE  /\ k * BlockSize \in Nat /\ (k - 1) * BlockSize \in Nat
         /\ k * BlockSize = (k - 1) * BlockSize + BlockSize
         /\ (k - 1) * BlockSize < k * BlockSize
<1>1. PICK j \in Nat : j = k - 1 /\ k = j + 1
  <2>1. k - 1 \in Nat /\ k = (k - 1) + 1
    OBVIOUS
  <2> QED BY <2>1
<1>2. PICK b \in Nat : b = BlockSize /\ 0 < b
  BY BlockSizeAssumption
<1>3. (j + 1) * b = j * b + b /\ j * b \in Nat
  OBVIOUS
<1>4. PICK x \in Nat : x = j * b
  BY <1>3
<1>5. (j + 1) * b = x + b /\ x < x + b /\ x + b \in Nat
  BY <1>2, <1>3, <1>4
<1> QED BY <1>1, <1>2, <1>4, <1>5

\* There is a block k if the text goes on behind the block before.
LEMMA BlockCount ==
  ASSUME NEW n \in Nat
  PROVE  /\ NumBlocks(n) \in Nat
         /\ \A k \in Nat \ {0} : (k <= NumBlocks(n)) <=> ((k - 1) * BlockSize < n)
<1>1. PICK b \in Nat \ {0} : b = BlockSize
  BY BlockSizeAssumption
<1>2. PICK m \in Nat : m = n + b - 1
  <2>1. n + b - 1 \in Nat
    OBVIOUS
  <2> QED BY <2>1
<1>3. PICK q \in Nat : q = m \div b /\ q * b <= m /\ m < (q + 1) * b
  BY Division
<1>4. NumBlocks(n) = q
  BY <1>1, <1>2, <1>3 DEF NumBlocks
<1>5. ASSUME NEW k \in Nat \ {0}
      PROVE  (k <= q) <=> ((k - 1) * BlockSize < n)
  <2>1. PICK lb \in Nat, kb \in Nat : /\ lb = (k - 1) * BlockSize /\ kb = k * BlockSize
                                      /\ kb = lb + b
    BY <1>1, BlockEnds
  <2>2. PICK qb \in Nat : qb = q * b /\ qb <= m /\ m < (q + 1) * b
    BY <1>3
  <2>3. CASE k <= q
    <3>1. k * b <= q * b
      BY <2>3, TimesKeepsOrder
    <3>2. kb <= qb
      BY <1>1, <2>1, <2>2, <3>1
    <3>3. lb + b <= n + b - 1
      BY <1>2, <2>1, <2>2, <3>2
    <3>4. lb < n
      BY <3>3
    <3> QED BY <2>1, <2>3, <3>4
  <2>4. CASE ~ (k <= q)
    <3>1. q + 1 <= k /\ q + 1 \in Nat
      BY <2>4
    <3>2. (q + 1) * b <= k * b
      BY <3>1, TimesKeepsOrder
    <3>3. PICK sb \in Nat : sb = (q + 1) * b
      OBVIOUS
    <3>4. m < sb /\ sb <= kb
      BY <1>1, <2>1, <2>2, <3>2, <3>3
    <3>5. n + b - 1 < lb + b
      BY <1>2, <2>1, <3>4
    <3>6. ~ (lb < n)
      BY <3>5
    <3> QED BY <2>1, <2>4, <3>6
  <2> QED BY <2>3, <2>4
<1> QED BY <1>4, <1>5

\* Block k is what the text has behind from, up to the end of the block or of
\* the text.
Spans(block, text, k, from, end, to) ==
  /\ from = (k - 1) * BlockSize /\ end = k * BlockSize
  /\ from < to /\ to <= end /\ to <= Len(text)
  /\ to = end \/ to = Len(text)
  /\ end <= Len(text) => to = end
  /\ Len(block) = to - from
  /\ \A i \in 1..(to - from) : block[i] = text[from + i]

LEMMA BlockIs ==
  ASSUME NEW X, NEW text \in Seq(X), NEW k \in Nat \ {0}, k <= NumBlocks(Len(text))
  PROVE  \E from, end, to \in Nat :
           BlocksOf(text)[k] \in Seq(X) /\ Spans(BlocksOf(text)[k], text, k, from, end, to)
<1>1. PICK len \in Nat : len = Len(text)
  OBVIOUS
<1>0. PICK from \in Nat, end \in Nat :
        from = (k - 1) * BlockSize /\ end = k * BlockSize /\ from < end
  BY BlockEnds
<1>2. from < end
  BY <1>0
<1>3. from < len
  BY <1>0, <1>1, BlockCount
<1>4. PICK to : to = Min({end, len})
  OBVIOUS
<1>5. to \in Nat /\ to \in {end, len} /\ to <= end /\ to <= len
  <2> DEFINE S == {end, len}
  <2>1. S \subseteq Nat /\ S # {}
    BY <1>2
  <2>2. to = Min(S)
    BY <1>4
  <2> HIDE DEF S
  <2>3. to \in S /\ \A y \in S : to <= y
    BY <2>1, <2>2, SmallestInSet DEF Min
  <2>4. to \in Nat
    BY <2>1, <2>3
  <2>5. to \in {end, len} /\ to <= end /\ to <= len
    BY <2>3 DEF S
  <2> QED BY <2>4, <2>5
<1>6. from < to
  BY <1>2, <1>3, <1>5
<1>7. PICK piece : piece = SubSeq(text, from + 1, to)
  OBVIOUS
<1>8. BlocksOf(text)[k] = piece
  <2>1. NumBlocks(len) \in Nat
    BY BlockCount
  <2>2. k \in 1..NumBlocks(len)
    BY <1>1, <2>1
  <2> QED BY <1>0, <1>1, <1>4, <1>7, <2>2 DEF BlocksOf
<1>9. PICK m \in Nat : m = from + 1
  BY <1>2
<1>10. m \in 1..(len + 1) /\ to \in 0..len /\ m <= to + 1 /\ (to - m) + 1 = to - from
  BY <1>2, <1>3, <1>5, <1>6, <1>9
<1>11. /\ piece \in Seq(X) /\ Len(piece) = (to - m) + 1
       /\ \A i \in 1..((to - m) + 1) : piece[i] = text[(m + i) - 1]
  <2>1. m \in 1..(Len(text) + 1) /\ to \in 0..Len(text) /\ piece = SubSeq(text, m, to)
    BY <1>1, <1>7, <1>9, <1>10
  <2>2. m <= to + 1
    BY <1>10
  <2>3. piece \in Seq(X) /\ Len(piece) = (to - m) + 1
    BY <2>1, <2>2, Piece
  <2>4. \A i \in 1..((to - m) + 1) : piece[i] = text[(m + i) - 1]
    BY <2>1, <2>2, Piece
  <2> QED BY <2>3, <2>4
<1>12. \A i \in 1..(to - from) : piece[i] = text[from + i]
  <2> SUFFICES ASSUME NEW i \in 1..(to - from) PROVE piece[i] = text[from + i]
    OBVIOUS
  <2>1. from \in Int /\ i \in Int
    BY <1>2, <1>5
  <2>2. (m + i) - 1 = from + i
    BY <1>9, <2>1
  <2>3. i \in 1..((to - m) + 1)
    BY <1>10, Zenon
  <2> QED BY <1>11, <2>2, <2>3
<1>13. end <= len => to = end
  BY <1>2, <1>5
<1>14. to = end \/ to = len
  BY <1>5
<1>15. Len(piece) = to - from
  BY <1>10, <1>11
<1>16. to \in Nat
  BY <1>5
<1>17. /\ from = (k - 1) * BlockSize /\ end = k * BlockSize
       /\ from < to /\ to <= end /\ to <= Len(text)
       /\ to = end \/ to = Len(text)
       /\ end <= Len(text) => to = end
  BY <1>0, <1>1, <1>5, <1>6, <1>13, <1>14, Zenon
<1>18. /\ BlocksOf(text)[k] \in Seq(X)
       /\ Len(BlocksOf(text)[k]) = to - from
       /\ \A i \in 1..(to - from) : BlocksOf(text)[k][i] = text[from + i]
  BY <1>8, <1>11, <1>12, <1>15, Zenon
<1>19. Spans(BlocksOf(text)[k], text, k, from, end, to)
  BY <1>17, <1>18, Zenon DEF Spans
<1> QED BY <1>16, <1>18, <1>19, Zenon

LEMMA BlocksType ==
  ASSUME NEW X, NEW text \in Seq(X)
  PROVE  /\ Len(BlocksOf(text)) = NumBlocks(Len(text))
         /\ NumBlocks(Len(text)) \in Nat
<1>1. PICK n : n = NumBlocks(Len(text))
  OBVIOUS
<1>2. n \in Nat
  BY <1>1, BlockCount
<1> QED BY <1>1, <1>2 DEF BlocksOf

-----------------------------------------------------------------------------
(* The tokenizer: what two texts have in common.                           *)

Agree(s, t, n) ==
  n <= Len(s) /\ n <= Len(t) /\ \A i \in 1..n : s[i] = t[i]

\* c is the length of what s and t have in common.
CommonTo(s, t, c) ==
  Agree(s, t, c) /\ \A n \in Nat : Agree(s, t, n) => n <= c

LEMMA CommonExists ==
  ASSUME NEW X, NEW s \in Seq(X), NEW t \in Seq(X)
  PROVE  \E c \in Nat : CommonTo(s, t, c)
<1> DEFINE I == {n \in 0..Len(s) : Agree(s, t, n)}
<1>1. Len(s) \in Nat /\ Len(t) \in Nat
  OBVIOUS
<1>2. 0 \in I
  BY <1>1 DEF Agree
<1>3. I \subseteq 0..Len(s)
  OBVIOUS
<1>4. \A n \in Nat : Agree(s, t, n) => n \in I
  BY <1>1 DEF Agree
<1>5. \A n \in I : Agree(s, t, n) /\ n \in Nat
  OBVIOUS
<1> HIDE DEF I
<1>6. PICK c \in I : \A n \in I : n <= c
  BY <1>1, <1>2, <1>3, GreatestInSet
<1> QED BY <1>4, <1>5, <1>6 DEF CommonTo

\* A prefix of s and t is s up to a place up to which they agree.
LEMMA PrefixesAgree ==
  ASSUME NEW X, NEW s \in Seq(X), NEW t \in Seq(X), NEW n \in 0..Len(s),
         NEW p, p = SubSeq(s, 1, n)
  PROVE  /\ IsPrefix(p, t) <=> Agree(s, t, n)
         /\ Len(p) = n
<1>1. PICK m \in Nat, k \in Nat : m = Len(s) /\ k = Len(t)
  OBVIOUS
<1>2. p \in Seq(X) /\ Len(p) = n /\ \A i \in 1..n : p[i] = s[i]
  BY <1>1
<1>3. SubSeq(p, 1, n) = p
  <2>1. PICK q : q = SubSeq(p, 1, n)
    OBVIOUS
  <2>2. q \in Seq(X) /\ Len(q) = n /\ \A i \in 1..n : q[i] = p[i]
    BY <1>2, <2>1
  <2>3. q = p
    BY <1>2, <2>2, SameList
  <2> QED BY <2>1, <2>3
<1>4. CASE n <= k
  <2>1. PICK q : q = SubSeq(t, 1, n)
    OBVIOUS
  <2>2. q \in Seq(X) /\ Len(q) = n /\ \A i \in 1..n : q[i] = t[i]
    BY <1>1, <1>4, <2>1
  <2>3. (p = q) <=> (\A i \in 1..n : s[i] = t[i])
    <3>1. ASSUME p = q, NEW i \in 1..n PROVE s[i] = t[i]
      BY <1>2, <2>2, <3>1
    <3>2. ASSUME \A i \in 1..n : s[i] = t[i] PROVE p = q
      <4>1. \A i \in 1..n : p[i] = q[i]
        BY <1>2, <2>2, <3>2
      <4> QED BY <1>2, <2>2, <4>1, SameList
    <3> QED BY <3>1, <3>2
  <2>4. IsPrefix(p, t) <=> (p = q)
    BY <1>1, <1>2, <1>3, <1>4, <2>1 DEF IsPrefix
  <2>5. Agree(s, t, n) <=> (\A i \in 1..n : s[i] = t[i])
    BY <1>1, <1>4 DEF Agree
  <2> QED BY <1>2, <2>3, <2>4, <2>5
<1>5. CASE ~ (n <= k)
  BY <1>1, <1>2, <1>5 DEF IsPrefix, Agree
<1> QED BY <1>4, <1>5

\* The library's longest common prefix has that length.
LEMMA LongestIsCommon ==
  ASSUME NEW X, NEW s \in Seq(X), NEW t \in Seq(X), NEW c \in Nat, CommonTo(s, t, c)
  PROVE  Len(LongestCommonPrefix({s, t})) = c
<1> DEFINE CP == CommonPrefixes({s, t})
<1>1. Len(s) \in Nat /\ Len(t) \in Nat /\ c \in 0..Len(s)
  BY DEF CommonTo, Agree
<1>2. \A n \in 0..Len(s) : IsPrefix(SubSeq(s, 1, n), s)
  <2> SUFFICES ASSUME NEW n \in 0..Len(s) PROVE IsPrefix(SubSeq(s, 1, n), s)
    OBVIOUS
  <2>1. Agree(s, s, n)
    BY <1>1 DEF Agree
  <2> QED BY <2>1, PrefixesAgree
<1>3. PICK best : best = SubSeq(s, 1, c)
  OBVIOUS
<1>4. best \in CP /\ Len(best) = c
  <2>1. Agree(s, t, c)
    BY DEF CommonTo
  <2>2. IsPrefix(best, s) /\ IsPrefix(best, t) /\ Len(best) = c
    BY <1>1, <1>2, <1>3, <2>1, PrefixesAgree
  <2>3. best \in Prefixes(s)
    BY <1>1, <1>3 DEF Prefixes
  <2> QED BY <2>2, <2>3 DEF CommonPrefixes
<1>5. ASSUME NEW p \in CP PROVE Len(p) \in Nat /\ Len(p) <= c
  <2>1. (p \in Prefixes(s) \/ p \in Prefixes(t)) /\ IsPrefix(p, s) /\ IsPrefix(p, t)
    BY <1>5 DEF CommonPrefixes
  <2>2. CASE p \in Prefixes(s)
    <3>1. PICK n \in 0..Len(s) : p = SubSeq(s, 1, n)
      BY <2>2 DEF Prefixes
    <3>2. Agree(s, t, n) /\ Len(p) = n
      BY <2>1, <3>1, PrefixesAgree
    <3> QED BY <3>1, <3>2 DEF CommonTo
  <2>3. CASE p \in Prefixes(t)
    <3>1. PICK n \in 0..Len(t) : p = SubSeq(t, 1, n)
      BY <2>3 DEF Prefixes
    <3>2. Agree(t, s, n) /\ Len(p) = n
      BY <2>1, <3>1, PrefixesAgree
    <3>3. Agree(s, t, n)
      BY <3>2 DEF Agree
    <3> QED BY <3>1, <3>2, <3>3 DEF CommonTo
  <2> QED BY <2>1, <2>2, <2>3
<1>6. PICK longest : longest = LongestCommonPrefix({s, t})
  OBVIOUS
<1>7. longest = CHOOSE p \in CP : \A q \in CP : Len(q) <= Len(p)
  BY <1>6 DEF LongestCommonPrefix
<1> HIDE DEF CP
<1>8. longest \in CP /\ \A q \in CP : Len(q) <= Len(longest)
  BY <1>4, <1>5, <1>7
<1>9. Len(longest) \in Nat /\ Len(longest) <= c /\ c <= Len(longest)
  BY <1>4, <1>5, <1>8
<1> QED BY <1>6, <1>9

-----------------------------------------------------------------------------
(* The tokenizer: blocks match as far as the texts do.                     *)

LEMMA SameBlock ==
  ASSUME NEW X, NEW s \in Seq(X), NEW t \in Seq(X), NEW c \in Nat, Agree(s, t, c),
         NEW k \in Nat \ {0}, k <= NumBlocks(Len(s)), k <= NumBlocks(Len(t)),
         k * BlockSize <= c
  PROVE  BlocksOf(s)[k] = BlocksOf(t)[k]
<1>0. PICK a, b : a = BlocksOf(s)[k] /\ b = BlocksOf(t)[k]
  OBVIOUS
<1>1. PICK from, end, to \in Nat : a \in Seq(X) /\ Spans(a, s, k, from, end, to)
  BY <1>0, BlockIs
<1>2. PICK from2, end2, to2 \in Nat : b \in Seq(X) /\ Spans(b, t, k, from2, end2, to2)
  BY <1>0, BlockIs
<1>4. from2 = from /\ end2 = end /\ end <= c
  BY <1>1, <1>2 DEF Spans
<1>5. to = end /\ to2 = end
  <2>1. c <= Len(s) /\ c <= Len(t) /\ Len(s) \in Nat /\ Len(t) \in Nat
    BY DEF Agree
  <2>2. end <= Len(s) /\ end <= Len(t)
    BY <1>4, <2>1
  <2> QED BY <1>1, <1>2, <1>4, <2>2 DEF Spans
<1>6. PICK d \in Nat : d = end - from
  <2>1. from < end
    BY <1>1, <1>5 DEF Spans
  <2> QED BY <2>1
<1>7. /\ a \in Seq(X) /\ Len(a) = d /\ \A i \in 1..d : a[i] = s[from + i]
      /\ b \in Seq(X) /\ Len(b) = d /\ \A i \in 1..d : b[i] = t[from + i]
  BY <1>1, <1>2, <1>4, <1>5, <1>6, Zenon DEF Spans
<1>8. ASSUME NEW i \in 1..d PROVE a[i] = b[i]
  <2>1. PICK j : j = from + i
    OBVIOUS
  <2>2. j \in 1..c
    BY <1>4, <1>6, <2>1
  <2>3. s[j] = t[j]
    BY <2>2 DEF Agree
  <2> QED BY <1>7, <2>1, <2>3
<1> QED BY <1>0, <1>7, <1>8, SameList

LEMMA OtherBlock ==
  ASSUME NEW X, NEW s \in Seq(X), NEW t \in Seq(X), NEW c \in Nat, CommonTo(s, t, c),
         NEW k \in Nat \ {0}, k <= NumBlocks(Len(s)), k <= NumBlocks(Len(t)),
         (k - 1) * BlockSize <= c, c < k * BlockSize, s # t
  PROVE  BlocksOf(s)[k] # BlocksOf(t)[k]
<1>0. PICK a, b : a = BlocksOf(s)[k] /\ b = BlocksOf(t)[k]
  OBVIOUS
<1>1. PICK from, end, to \in Nat : a \in Seq(X) /\ Spans(a, s, k, from, end, to)
  BY <1>0, BlockIs
<1>2. PICK from2, end2, to2 \in Nat : b \in Seq(X) /\ Spans(b, t, k, from2, end2, to2)
  BY <1>0, BlockIs
<1> SUFFICES ASSUME a = b PROVE FALSE
  BY <1>0
<1>4. from2 = from /\ end2 = end /\ from <= c /\ c < end
  BY <1>1, <1>2 DEF Spans
<1>5. to2 = to
  <2>1. to - from = to2 - from
    BY <1>1, <1>2, <1>4 DEF Spans
  <2> QED BY <2>1
<1>6. PICK d \in Nat : d = to - from
  <2>1. from < to
    BY <1>1 DEF Spans
  <2> QED BY <2>1
<1>7. /\ \A i \in 1..d : a[i] = s[from + i]
      /\ \A i \in 1..d : a[i] = t[from + i]
  BY <1>1, <1>2, <1>4, <1>5, <1>6, Zenon DEF Spans
<1>8. PICK m \in Nat, n \in Nat : m = Len(s) /\ n = Len(t)
  OBVIOUS
<1>9. c <= m /\ c <= n /\ \A i \in 1..c : s[i] = t[i]
  BY <1>8 DEF CommonTo, Agree
<1>10. to <= m /\ to <= n /\ (to = end \/ to = m) /\ (to = end \/ to = n)
  BY <1>1, <1>2, <1>4, <1>5, <1>8 DEF Spans
<1>11. ASSUME NEW i \in 1..to PROVE s[i] = t[i]
  <2>1. CASE i <= c
    BY <1>9, <2>1
  <2>2. CASE ~ (i <= c)
    <3>1. PICK j : j = i - from
      OBVIOUS
    <3>2. j \in 1..d /\ from + j = i
      BY <1>4, <1>6, <2>2, <3>1
    <3> QED BY <1>7, <3>2
  <2> QED BY <2>1, <2>2
<1>12. Agree(s, t, to)
  BY <1>8, <1>10, <1>11 DEF Agree
<1>13. to <= c
  BY <1>12 DEF CommonTo
<1>14. to # end
  BY <1>4, <1>13
<1>15. m = to /\ n = to
  BY <1>10, <1>14
<1>16. s = t
  BY <1>8, <1>11, <1>15, SameList
<1> QED BY <1>16

(***************************************************************************)
(* The number of blocks that two texts share from the beginning is the     *)
(* number of whole blocks of what they have in common, or all of them if   *)
(* they are the same text: the short last block matches only itself.       *)
(***************************************************************************)
THEOREM BlocksMatchText ==
  ASSUME NEW X, NEW s \in Seq(X), NEW t \in Seq(X)
  PROVE  PrefixMatch(BlocksOf(s), BlocksOf(t)) =
           IF s = t THEN Len(BlocksOf(s))
           ELSE Len(LongestCommonPrefix({s, t})) \div BlockSize
<1>1. PICK m \in Nat, n \in Nat : m = Len(BlocksOf(s)) /\ n = Len(BlocksOf(t))
                                  /\ m = NumBlocks(Len(s)) /\ n = NumBlocks(Len(t))
  BY BlocksType
<1>2. PICK len : len = Min({m, n})
  OBVIOUS
<1>3. len \in Nat /\ len \in {m, n} /\ len <= m /\ len <= n
  <2> DEFINE S == {m, n}
  <2>1. S \subseteq Nat /\ S # {}
    OBVIOUS
  <2>2. len = Min(S)
    BY <1>2
  <2> HIDE DEF S
  <2>3. len \in S /\ \A y \in S : len <= y
    BY <2>1, <2>2, SmallestInSet DEF Min
  <2>4. len \in Nat
    BY <2>1, <2>3
  <2>5. len \in {m, n} /\ len <= m /\ len <= n
    BY <2>3 DEF S
  <2> QED BY <2>4, <2>5
<1>4. PICK M : M = {i \in 0..len : \A k \in 1..i : BlocksOf(s)[k] = BlocksOf(t)[k]}
  OBVIOUS
<1>5. PrefixMatch(BlocksOf(s), BlocksOf(t)) = Max(M)
  BY <1>1, <1>2, <1>4 DEF PrefixMatch
<1>6. ASSUME NEW q \in M, \A i \in M : i <= q
      PROVE  Max(M) = q
  <2>1. M \subseteq Nat
    BY <1>3, <1>4
  <2>2. Max(M) \in M /\ \A i \in M : Max(M) >= i
    BY <1>6, <2>1 DEF Max
  <2>3. Max(M) \in Nat /\ q \in Nat /\ Max(M) >= q /\ Max(M) <= q
    BY <1>6, <2>1, <2>2
  <2> QED BY <2>3
<1>7. CASE s = t
  <2>1. m = n /\ len = m
    BY <1>1, <1>3, <1>7
  <2>2. m \in M /\ \A i \in M : i <= m
    BY <1>4, <1>7, <2>1
  <2>3. Max(M) = m
    BY <1>6, <2>2
  <2> QED BY <1>1, <1>5, <1>7, <2>3
<1>8. CASE s # t
  <2>1. PICK c \in Nat : CommonTo(s, t, c)
    BY CommonExists
  <2>2. Len(LongestCommonPrefix({s, t})) = c
    BY <2>1, LongestIsCommon
  <2>3. PICK q \in Nat : q = c \div BlockSize /\ q * BlockSize <= c /\ c < (q + 1) * BlockSize
    BY BlockSizeAssumption, Division
  <2>4. Agree(s, t, c) /\ c <= Len(s) /\ c <= Len(t) /\ Len(s) \in Nat /\ Len(t) \in Nat
    BY <2>1 DEF CommonTo, Agree
  <2>5. ASSUME NEW k \in 1..q
        PROVE  k \in Nat \ {0} /\ k * BlockSize <= c /\ k <= m /\ k <= n
    <3>1. k \in Nat \ {0} /\ k <= q /\ k \in Nat
      OBVIOUS
    <3>2. k * BlockSize <= q * BlockSize
      BY <3>1, BlockSizeAssumption, TimesKeepsOrder
    <3>3. PICK lb \in Nat, kb \in Nat, qb \in Nat :
            /\ lb = (k - 1) * BlockSize /\ kb = k * BlockSize /\ qb = q * BlockSize
            /\ lb < kb
      <4>1. q * BlockSize \in Nat
        BY BlockSizeAssumption
      <4> QED BY <3>1, <4>1, BlockEnds
    <3>4. kb <= qb /\ qb <= c
      BY <2>3, <3>2, <3>3
    <3>5. kb <= c /\ lb < c
      <4>1. lb < kb
        BY <3>3
      <4>2. \A x, y, z, w \in Nat : x < y /\ y <= z /\ z <= w => y <= w /\ x < w
        OBVIOUS
      <4> QED BY <3>4, <4>1, <4>2
    <3>6. lb < Len(s) /\ lb < Len(t)
      BY <2>4, <3>5
    <3>7. k <= NumBlocks(Len(s)) /\ k <= NumBlocks(Len(t))
      BY <2>4, <3>1, <3>3, <3>6, BlockCount
    <3> QED BY <1>1, <3>1, <3>3, <3>5, <3>7
  <2>6. q \in M
    <3>1. q <= m /\ q <= n
      <4>1. CASE q = 0
        BY <4>1
      <4>2. CASE q # 0
        <5>1. q \in 1..q
          BY <4>2
        <5> QED BY <2>5, <5>1
      <4> QED BY <4>1, <4>2
    <3>2. q \in 0..len
      BY <1>3, <3>1
    <3>3. ASSUME NEW k \in 1..q PROVE BlocksOf(s)[k] = BlocksOf(t)[k]
      BY <1>1, <2>4, <2>5, SameBlock
    <3> QED BY <1>4, <3>2, <3>3
  <2>7. ASSUME NEW i \in M PROVE i <= q
    <3> SUFFICES ASSUME ~ (i <= q) PROVE FALSE
      OBVIOUS
    <3>1. i \in 0..len /\ \A k \in 1..i : BlocksOf(s)[k] = BlocksOf(t)[k]
      BY <1>4
    <3>2. PICK k \in Nat \ {0} : k = q + 1 /\ k - 1 = q
      OBVIOUS
    <3>3. k \in 1..i /\ k <= m /\ k <= n
      BY <1>3, <3>1, <3>2
    <3>4. (k - 1) * BlockSize <= c /\ c < k * BlockSize
      BY <2>3, <3>2
    <3>5. BlocksOf(s)[k] # BlocksOf(t)[k]
      BY <1>1, <1>8, <2>1, <3>3, <3>4, OtherBlock
    <3> QED BY <3>1, <3>3, <3>5
  <2>8. Max(M) = q
    BY <1>6, <2>6, <2>7
  <2> QED BY <1>5, <1>8, <2>2, <2>3, <2>8
<1> QED BY <1>7, <1>8

(***************************************************************************)
(* Two conversations match as far as their texts do, however long they     *)
(* grow and whatever their messages hold.                                  *)
(***************************************************************************)
THEOREM MatchFollowsText == Spec => []MatchIsCommonText
<1> DEFINE Chats == chat \in Seq(Messages) /\ other \in Seq(Messages)
<1>1. Init => Chats
  BY DEF Init
<1>2. ASSUME Chats, [Next]_vars
      PROVE  Chats'
  <2>1. AddMessage \/ UNCHANGED <<chat, other>>
    BY <1>2 DEF Next, ReadFile, AddBackend, UseIndex, UseTree, UseModel, vars
  <2>2. CASE AddMessage
    <3>1. \/ \E m \in Messages : chat' = Append(chat, m) /\ other' = other
          \/ \E m \in Messages : other' = Append(other, m) /\ chat' = chat
      BY <2>2 DEF AddMessage
    <3>2. \A list \in Seq(Messages), m \in Messages : Append(list, m) \in Seq(Messages)
      OBVIOUS
    <3>3. chat \in Seq(Messages) /\ other \in Seq(Messages)
      BY <1>2
    <3> QED BY <3>1, <3>2, <3>3, Zenon
  <2>3. CASE UNCHANGED <<chat, other>>
    BY <1>2, <2>3
  <2> QED BY <2>1, <2>2, <2>3
<1>3. ASSUME Chats PROVE MatchIsCommonText
  <2>1. PICK chars : chars = {"u", "x", "y", ":"}
    OBVIOUS
  <2>2. ":" \in chars /\ "u" \in chars /\ "x" \in chars /\ "y" \in chars
    BY <2>1
  <2>3. {<<"u">>} \subseteq Seq(chars) /\ Contents \subseteq Seq(chars)
    BY <2>2 DEF Contents
  <2>4. Messages \subseteq [role : Seq(chars), content : Seq(chars)]
    BY <2>3 DEF Messages
  <2>5. \A list \in Seq(Messages) : Text(list) \in Seq(chars)
    <3> SUFFICES ASSUME NEW list \in Seq(Messages) PROVE Text(list) \in Seq(chars)
      OBVIOUS
    <3>1. list \in Seq([role : Seq(chars), content : Seq(chars)])
      BY <2>4, WiderType
    <3> QED BY <2>2, <3>1, TextType
  <2>6. PICK s, t : s = Text(chat) /\ t = Text(other)
    OBVIOUS
  <2>7. s \in Seq(chars) /\ t \in Seq(chars)
    BY <1>3, <2>5, <2>6
  <2>8. PrefixMatch(BlocksOf(s), BlocksOf(t)) =
          IF s = t THEN Len(BlocksOf(s)) ELSE Len(LongestCommonPrefix({s, t})) \div BlockSize
    BY <2>7, BlocksMatchText
  <2> QED BY <2>6, <2>8 DEF MatchIsCommonText, HashPrefix
<1> HIDE DEF Chats
<1> QED BY <1>1, <1>2, <1>3, PTL DEF Spec

-----------------------------------------------------------------------------
(* The packages side by side.                                              *)

\* A behaviour of all the packages is one of each of them.
LEMMA EachPackage == Spec => IndexSpec /\ TreeSpec /\ ModelSpec
<1>1. Init => IndexInit /\ TreeInit /\ ModelInit
  BY DEF Init
<1>2. [Next]_vars => [IndexNext]_indexVars /\ [TreeNext]_treeVars /\ [ModelNext]_modelVars
  BY DEF Next, ReadFile, AddBackend, AddMessage, UseIndex, UseTree, UseModel, vars
<1> QED BY <1>1, <1>2, PTL DEF Spec, IndexSpec, TreeSpec, ModelSpec

LEMMA FilesAreDecoded == Files \subseteq Decoded
<1> DEFINE Ids == {"", "a"}
           Listens == {"", ":80"}
<1>1. Ids \subseteq STRING /\ Listens \subseteq STRING /\ "a" \in STRING /\ "b" \in STRING
      /\ ":80" \in STRING
  BY FileNames, Zenon
<1>2. First = [id : Ids, url : Urls, capacity : {0, 4}, interval : {-1, 0, 5},
               maxConcurrent : {-1, 0, 2}]
  BY Zenon DEF First
<1>3. PICK settings : settings = Settings
  OBVIOUS
<1>4. settings = [listen : Listens, blockSize : {-1, 0, 16},
                  scorer : [Factors -> {<< >>, <<-1>>, <<0>>, <<3>>}],
                  backends : {<<Entry("a", "absolute", 4, 0, 2)>>}]
  BY <1>3, Zenon DEF Settings
<1>5. Files = settings \cup [listen : {":80"}, blockSize : {0}, backends : BackendLists,
                             scorer : {[f \in Factors |-> <<3>>]}]
  BY <1>3, Zenon DEF Files
<1> HIDE DEF Ids, Listens
<1>6. First \subseteq BackendEntries
  <2>1. {0, 4} \subseteq Int /\ {-1, 0, 5} \subseteq Int /\ {-1, 0, 2} \subseteq Int
    OBVIOUS
  <2> QED BY <1>1, <1>2, <2>1, Zenon DEF BackendEntries
<1>7. Second \subseteq BackendEntries /\ Entry("a", "absolute", 4, 0, 2) \in BackendEntries
  <2> DEFINE U == {"unparsable", "relative", "absolute"}
  <2>1. Urls = {""} \cup U
    BY Zenon DEF Urls
  <2>2. "absolute" \in Urls
    BY Zenon DEF Urls
  <2>3. PICK urls : urls = Urls
    OBVIOUS
  <2>4. \A id \in {"a", "b"}, n \in {2, 3} :
          Entry(id, "absolute", 4, 0, n)
            \in [id : STRING, url : urls, capacity : Int, interval : Int, maxConcurrent : Int]
    BY <1>1, <2>2, <2>3 DEF Entry
  <2> QED BY <2>3, <2>4 DEF Second, BackendEntries
<1>8. PICK one : one = Entry("a", "absolute", 4, 0, 2)
  OBVIOUS
<1>9. BackendLists \subseteq Seq(BackendEntries) /\ <<one>> \in Seq(BackendEntries)
  <2>1. /\ << >> \in Seq(BackendEntries)
        /\ \A b, c \in BackendEntries : /\ <<b>> \in Seq(BackendEntries)
                                        /\ <<b, c>> \in Seq(BackendEntries)
    OBVIOUS
  <2>2. /\ \A b \in First : <<b>> \in Seq(BackendEntries)
        /\ \A b \in First, c \in Second : <<b, c>> \in Seq(BackendEntries)
    BY <1>6, <1>7, <2>1, Zenon
  <2>3. PICK lists : lists = Seq(BackendEntries)
    OBVIOUS
  <2>4. BackendLists \subseteq lists
    <3>1. {<< >>} \subseteq lists
      BY <2>1, <2>3, Zenon
    <3>2. {<<b>> : b \in First} \subseteq lists
      BY <2>2, <2>3, Zenon
    <3>3. First \X Second \subseteq lists
      <4> SUFFICES ASSUME NEW pair \in First \X Second PROVE pair \in lists
        OBVIOUS
      <4>1. PICK b \in First, c \in Second : pair = <<b, c>>
        OBVIOUS
      <4> QED BY <2>2, <2>3, <4>1, Zenon
    <3> QED BY <3>1, <3>2, <3>3, Zenon DEF BackendLists
  <2>5. <<one>> \in Seq(BackendEntries)
    BY <1>7, <1>8, <2>1, Zenon
  <2> QED BY <2>3, <2>4, <2>5
<1>10. /\ [Factors -> {<< >>, <<-1>>, <<0>>, <<3>>}] \subseteq [Factors -> Weights]
       /\ [f \in Factors |-> <<3>>] \in [Factors -> Weights]
  BY DEF Weights
<1>11. {-1, 0, 16} \subseteq Int /\ {0} \subseteq Int
  OBVIOUS
<1>12. settings \subseteq Decoded
  BY <1>1, <1>4, <1>8, <1>9, <1>10, <1>11, Zenon DEF Decoded
<1>13. [listen : {":80"}, blockSize : {0}, backends : BackendLists,
        scorer : {[f \in Factors |-> <<3>>]}] \subseteq Decoded
  BY <1>1, <1>9, <1>10, <1>11, Zenon DEF Decoded
<1> QED BY <1>5, <1>12, <1>13

(***************************************************************************)
(* Together: no accepted file sets up a pool the other packages cannot     *)
(* work with, and the data of the index, the tree and the eviction model   *)
(* keep their types.                                                       *)
(***************************************************************************)
THEOREM PackageTypesCorrect == Spec => []TypeOK
<1> DEFINE FileRead == file \in {<< >>} \cup {<<c>> : c \in Files}
<1>1. Init => FileRead
  BY DEF Init
<1>2. FileRead /\ [Next]_vars => FileRead'
  BY DEF Next, ReadFile, AddBackend, AddMessage, UseIndex, UseTree, UseModel, vars
<1>3. FileRead => AcceptedIsUsable(file)
  <2> SUFFICES ASSUME FileRead PROVE AcceptedIsUsable(file)
    OBVIOUS
  <2>1. file \in {<< >>} \cup {<<c>> : c \in Decoded}
    BY FilesAreDecoded
  <2> QED BY <2>1, AcceptedFilesAreUsable
<1>4. AcceptedIsUsable(file) /\ IndexTypeOK /\ TreeTypeOK /\ ModelTypeOK => TypeOK
  BY DEF TypeOK
<1> HIDE DEF FileRead
<1> QED BY <1>1, <1>2, <1>3, <1>4, EachPackage, IndexTypesCorrect, TreeTypesCorrect,
           ModelTypesCorrect, PTL DEF Spec

(***************************************************************************)
(* The radix tree and the eviction model do as their comments say, for any *)
(* backends, hashes, capacities and bounds.                                *)
(***************************************************************************)
THEOREM UnusedPackagesAreSound == Spec => UnusedPackagesSound
BY EachPackage, CountersMatchTree, LookupFindsLongest, EvictionIsLeastRecent,
   CacheListsSound, ConfidenceIsProbability, PTL DEF UnusedPackagesSound

=============================================================================
