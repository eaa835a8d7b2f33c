------------------------------ MODULE Recency -------------------------------
(***************************************************************************)
(* Lists of prefix keys in the order of their last commit, the newest      *)
(* last: what Commit and Lookup of internal/cacheindex/index.go do to and  *)
(* read from them.                                                         *)
(***************************************************************************)
EXTENDS Integers, FiniteSets, Sequences, SequencesExt

(***************************************************************************)
(* The cumulative keys of a prompt: its non-empty prefixes.  The code      *)
(* identifies a prefix by a 64-bit hash; collisions are not modelled.      *)
(***************************************************************************)
Prefix(p, n) == SubSeq(p, 1, n)
PrefixKeys(ns, p) == {<<ns, Prefix(p, n)>> : n \in 1..Len(p)}

\* Seeded fault: one key too many is kept.
NewestAndOneMore(list, n) ==
  IF Len(list) <= n + 1 THEN list ELSE SubSeq(list, Len(list) - n, Len(list))

Newest(list, n) ==
  IF Len(list) <= n THEN list ELSE SubSeq(list, Len(list) - n + 1, Len(list))

(***************************************************************************)
(* The list without some keys; rest[n] is what its first n elements leave. *)
(***************************************************************************)
Without(list, keys) ==
  LET rest[n \in 0..Len(list)] ==
        IF n = 0 THEN << >>
        ELSE IF list[n] \in keys THEN rest[n - 1]
        ELSE Append(rest[n - 1], list[n])
  IN  rest[Len(list)]

Touch(list, ns, p) ==
  Without(list, PrefixKeys(ns, p)) \o [n \in 1..Len(p) |-> <<ns, Prefix(p, n)>>]

(***************************************************************************)
(* How many prefixes of p are known in a row, beginning with the first.    *)
(***************************************************************************)
MatchLength(known, ns, p) ==
  Cardinality({n \in 1..Len(p) : \A k \in 1..n : <<ns, Prefix(p, k)>> \in known})

=============================================================================
