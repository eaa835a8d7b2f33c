------------------------------- MODULE Scorer -------------------------------
(***************************************************************************)
(* internal/scorer/scorer.go: how a request orders the backends it found   *)
(* healthy.  A backend's state is a record                                 *)
(*   [id, matched, depth, maxDepth, used, capacity, healthy],              *)
(* identifiers are numbers and their order stands for the string order of  *)
(* the code.  Scores are exact fractions <<numerator, denominator>> with a *)
(* positive denominator; the code computes them in float64, see Tied.      *)
(***************************************************************************)
EXTENDS Integers, Sequences, SequencesExt

CONSTANTS CacheHitWeight,      \* the weights, as multiples of a common unit
          QueueDepthWeight,
          EvictionRiskWeight

(***************************************************************************)
(* Config.validate: weights are finite and not negative.                   *)
(***************************************************************************)
ASSUME WeightAssumption ==
  /\ CacheHitWeight \in Nat
  /\ QueueDepthWeight \in Nat
  /\ EvictionRiskWeight \in Nat

NoBackend == 0   \* the empty identifier Route returns when nothing is healthy

(***************************************************************************)
(* A request with no blocks counts as one block, and a bound of zero takes *)
(* its term out of the score.                                              *)
(***************************************************************************)
\* Seeded faults: the two guards against a division by zero are missing.
TotalUnguarded(blocks) == blocks
RatioUnguarded(part, whole) == <<part, whole>>

Total(blocks) == IF blocks = 0 THEN 1 ELSE blocks
Ratio(part, whole) == IF whole > 0 THEN <<part, whole>> ELSE <<0, 1>>

\* Seeded fault: the queue depth counts in a backend's favour.
ScoreSignFlipped(blocks, s) ==
  LET hit   == <<s.matched, Total(blocks)>>
      queue == Ratio(s.depth, s.maxDepth)
      risk  == Ratio(s.used, s.capacity)
  IN  << CacheHitWeight * hit[1] * queue[2] * risk[2]
           + QueueDepthWeight * queue[1] * hit[2] * risk[2]
           - EvictionRiskWeight * risk[1] * hit[2] * queue[2],
         hit[2] * queue[2] * risk[2] >>

Score(blocks, s) ==
  LET hit   == <<s.matched, Total(blocks)>>
      queue == Ratio(s.depth, s.maxDepth)
      risk  == Ratio(s.used, s.capacity)
  IN  << CacheHitWeight * hit[1] * queue[2] * risk[2]
           - QueueDepthWeight * queue[1] * hit[2] * risk[2]
           - EvictionRiskWeight * risk[1] * hit[2] * queue[2],
         hit[2] * queue[2] * risk[2] >>

Exceeds(x, y) == x[1] * y[2] > y[1] * x[2]
Equals(x, y)  == x[1] * y[2] = y[1] * x[2]

AnyCacheHit(states) == \E s \in states : s.healthy /\ s.matched > 0

(***************************************************************************)
(* Two backends whose exact scores agree although their figures differ:    *)
(* rounding may order the float64 scores either way.  Equal figures give   *)
(* equal floats, and then the smaller identifier goes first.               *)
(***************************************************************************)
SameFigures(s, t) == [s EXCEPT !.id = t.id] = t

Tied(blocks, s, t) ==
  Equals(Score(blocks, s), Score(blocks, t)) /\ ~SameFigures(s, t)

(***************************************************************************)
(* Rank puts s before t, whatever the rounding: the two orders of Rank.    *)
(***************************************************************************)
ByScore(blocks, s, t) ==
  \/ Exceeds(Score(blocks, s), Score(blocks, t))
  \/ SameFigures(s, t) /\ s.id < t.id

ByDepth(s, t) == s.depth < t.depth \/ (s.depth = t.depth /\ s.id < t.id)

CertainlyBefore(blocks, states, s, t) ==
  IF AnyCacheHit(states) THEN ByScore(blocks, s, t) ELSE ByDepth(s, t)

(***************************************************************************)
(* The backends Rank may put first among the rest, when it was called with *)
(* all of states.  Taking one after the other gives the order of Rank.     *)
(***************************************************************************)
MayComeNext(blocks, states, rest) ==
  {s \in rest : \A t \in rest \ {s} : ~CertainlyBefore(blocks, states, t, s)}

(***************************************************************************)
(* Rank with exact arithmetic: ties go to the smaller identifier.          *)
(***************************************************************************)
Before(blocks, states, s, t) ==
  IF AnyCacheHit(states)
    THEN \/ Exceeds(Score(blocks, s), Score(blocks, t))
         \/ Equals(Score(blocks, s), Score(blocks, t)) /\ s.id < t.id
    ELSE ByDepth(s, t)

Healthy(states) == {s \in states : s.healthy}

Rank(blocks, states) ==
  CHOOSE ranked \in [1..Cardinality(Healthy(states)) -> Healthy(states)] :
    \A i, j \in DOMAIN ranked : i < j => Before(blocks, states, ranked[i], ranked[j])

(***************************************************************************)
(* Route and leastLoaded scan a list and keep the first of the best.       *)
(***************************************************************************)
Better(blocks, list, s, t) ==
  IF AnyCacheHit(ToSet(list))
    THEN Exceeds(Score(blocks, s), Score(blocks, t))
    ELSE s.depth < t.depth

BestPlaces(blocks, list) ==
  {i \in DOMAIN list :
     /\ list[i].healthy
     /\ \A j \in DOMAIN list :
          list[j].healthy => ~Better(blocks, list, list[j], list[i])}

\* Seeded fault: a later backend that is only as good replaces the best one.
RouteLastBest(blocks, list) ==
  LET best == BestPlaces(blocks, list)
  IN  IF best = {} THEN NoBackend
      ELSE list[CHOOSE i \in best : \A j \in best : i >= j].id

Route(blocks, list) ==
  LET best == BestPlaces(blocks, list)
  IN  IF best = {} THEN NoBackend
      ELSE list[CHOOSE i \in best : \A j \in best : i <= j].id

-----------------------------------------------------------------------------
(***************************************************************************)
(* Route and Rank are two implementations of one policy (scorer.go:92 and  *)
(* :132): on the handler's list Route picks the head of Rank.  What the    *)
(* router assumes of Rank holds: each head of the remaining ranking is     *)
(* among the backends MayComeNext offers, and with no rounding tie around  *)
(* it is the only one.                                                     *)
(***************************************************************************)
OnePolicy(blocks, list) ==
  LET ranked == Rank(blocks, ToSet(list))
  IN  /\ Route(blocks, list) = IF ranked = << >> THEN NoBackend ELSE ranked[1].id
      /\ \A i \in DOMAIN ranked :
           LET rest  == {ranked[j] : j \in i..Len(ranked)}
               offer == MayComeNext(blocks, ToSet(list), rest)
           IN  /\ ranked[i] \in offer
               /\ (\A s, t \in rest : ~Tied(blocks, s, t)) => offer = {ranked[i]}

(***************************************************************************)
(* No score divides by zero, in Score or in Rank, whichever of the request *)
(* and the bounds of a backend is empty.  A handler that selects a backend *)
(* scores it even if nothing matched, and records the score.               *)
(***************************************************************************)
ScoresAreNumbers(blocks, list) ==
  \A i \in DOMAIN list : \A n \in {0, blocks} : Score(n, list[i])[2] > 0

\* t is worse than s in nothing that would speak for it, and in something.  A
\* bound of zero makes its figure no burden, so those are not compared.
Dominates(s, t) ==
  /\ t.maxDepth > 0 /\ s.capacity > 0 /\ t.capacity > 0
  /\ s.matched >= t.matched /\ s.depth <= t.depth
  /\ s.maxDepth >= t.maxDepth
  /\ s.used * t.capacity <= t.used * s.capacity
  /\ s.matched > t.matched \/ s.depth < t.depth

(***************************************************************************)
(* By score as well as by queue depth no backend comes before another one  *)
(* that dominates it.                                                      *)
(***************************************************************************)
DominatedLater(blocks, list) ==
  LET ranked == Rank(blocks, ToSet(list))
  IN  \A i, j \in DOMAIN ranked : Dominates(ranked[i], ranked[j]) => i < j

=============================================================================
