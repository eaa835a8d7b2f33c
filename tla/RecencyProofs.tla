--------------------------- MODULE RecencyProofs ----------------------------
(***************************************************************************)
(* Facts about the lists of Recency: what a commit keeps and what it       *)
(* drops, for lists and prompts of any length.                             *)
(***************************************************************************)
EXTENDS Recency, FiniteSetTheorems, FunctionTheorems, TLAPS

-----------------------------------------------------------------------------
(* Induction, as a fact about sets of numbers.                             *)

LEMMA SmallestInSet ==
  ASSUME NEW S, S \subseteq Nat, S # {}
  PROVE  \E x \in S : \A y \in S : x <= y
<1> DEFINE R == OpToRel(<, Nat)
<1>1. IsWellFoundedOn(R, Nat)
  BY NatLessThanWellFounded
<1>2. \A x, y \in Nat : <<y, x>> \in R <=> y < x
  BY DEF OpToRel
<1> HIDE DEF R
<1>3. PICK x \in S : \A y \in S : ~ (<<y, x>> \in R)
  BY <1>1, WFMin
<1>4. \A y \in S : x <= y
  <2> SUFFICES ASSUME NEW y \in S PROVE x <= y
    OBVIOUS
  <2>1. x \in Nat /\ y \in Nat
    OBVIOUS
  <2>2. ~ (y < x)
    BY <1>2, <1>3, <2>1
  <2> QED BY <2>1, <2>2
<1> QED BY <1>4

LEMMA Induction ==
  ASSUME NEW n \in Nat, NEW S, 0 \in S,
         \A i \in 0..n : i \in S /\ i < n => i + 1 \in S
  PROVE  0..n \subseteq S
<1> SUFFICES ASSUME (0..n) \ S # {} PROVE FALSE
  OBVIOUS
<1>1. PICK m \in (0..n) \ S : \A i \in (0..n) \ S : m <= i
  <2>1. (0..n) \ S \subseteq Nat
    OBVIOUS
  <2> QED BY <2>1, SmallestInSet
<1>2. m \in 1..n
  BY <1>1
<1>3. m - 1 \in 0..n /\ m - 1 < n /\ ~ (m <= m - 1)
  BY <1>2
<1>4. m - 1 \in S
  BY <1>1, <1>3
<1>5. (m - 1) + 1 \in S
  BY <1>3, <1>4
<1> QED BY <1>1, <1>2, <1>5

LEMMA GreatestInSet ==
  ASSUME NEW n \in Nat, NEW I, I \subseteq 0..n, I # {}
  PROVE  \E i \in I : \A j \in I : j <= i
<1> DEFINE S == {n - i : i \in I}
<1>1. S \subseteq Nat /\ S # {}
  <2>1. \A i \in 0..n : n - i \in Nat
    OBVIOUS
  <2>2. \A i \in I : n - i \in Nat
    BY <2>1
  <2> QED BY <2>2
<1> HIDE DEF S
<1>2. PICK x \in S : \A y \in S : x <= y
  BY <1>1, SmallestInSet
<1>3. PICK i \in I : x = n - i
  BY <1>2 DEF S
<1>4. ASSUME NEW j \in I PROVE j <= i
  <2>1. n - j \in S
    BY DEF S
  <2>2. n - i <= n - j /\ i \in Int /\ j \in Int
    BY <1>2, <1>3, <2>1
  <2> QED BY <2>2
<1> QED BY <1>3, <1>4

-----------------------------------------------------------------------------
(* The list without some keys.                                             *)

\* What the recursion of Without makes of the first n elements of the list.
Leaves(rest, list, keys, n) ==
  IF n = 0 THEN << >>
  ELSE IF list[n] \in keys THEN rest[n - 1]
  ELSE Append(rest[n - 1], list[n])

Unfolds(rest, list, keys) ==
  rest = [n \in 0..Len(list) |-> Leaves(rest, list, keys, n)]

LEMMA RestExists ==
  ASSUME NEW X, NEW list \in Seq(X), NEW keys
  PROVE  \E rest : Unfolds(rest, list, keys)
<1> DEFINE Good(m) == \E g \in [0..m -> Seq(X)] :
                        \A n \in 0..m : g[n] = Leaves(g, list, keys, n)
           S == {m \in 0..Len(list) : Good(m)}
<1>1. 0 \in S
  <2> DEFINE g == [n \in 0..0 |-> << >>]
  <2>1. g \in [0..0 -> Seq(X)] /\ \A n \in 0..0 : g[n] = Leaves(g, list, keys, n)
    BY DEF Leaves
  <2> HIDE DEF g
  <2> QED BY <2>1
<1>2. ASSUME NEW m \in 0..Len(list), m \in S, m < Len(list)
      PROVE  m + 1 \in S
  <2>1. PICK g \in [0..m -> Seq(X)] :
          \A n \in 0..m : g[n] = Leaves(g, list, keys, n)
    BY <1>2
  <2>2. list[m + 1] \in X
    BY <1>2
  <2> DEFINE last == IF list[m + 1] \in keys THEN g[m]
                     ELSE Append(g[m], list[m + 1])
             h == [n \in 0..(m + 1) |-> IF n = m + 1 THEN last ELSE g[n]]
  <2>3. last \in Seq(X)
    BY <2>1, <2>2
  <2> HIDE DEF last
  <2>4. h \in [0..(m + 1) -> Seq(X)]
    BY <2>1, <2>3
  <2>5. \A n \in 0..m : h[n] = g[n]
    OBVIOUS
  <2>6. h[m + 1] = last
    OBVIOUS
  <2> HIDE DEF h
  <2>7. ASSUME NEW n \in 0..(m + 1)
        PROVE  h[n] = Leaves(h, list, keys, n)
    <3>1. CASE n = m + 1
      <4>1. h[m] = g[m] /\ n - 1 = m /\ n # 0
        BY <2>5, <3>1
      <4> QED BY <2>6, <3>1, <4>1 DEF last, Leaves
    <3>2. CASE n \in 1..m
      <4>1. h[n] = g[n] /\ h[n - 1] = g[n - 1]
        BY <2>5, <3>2
      <4>2. g[n] = Leaves(g, list, keys, n)
        BY <2>1, <3>2
      <4>3. Leaves(g, list, keys, n) = Leaves(h, list, keys, n)
        BY <4>1 DEF Leaves
      <4> QED BY <4>1, <4>2, <4>3
    <3>3. CASE n = 0
      BY <2>1, <2>5, <3>3 DEF Leaves
    <3> QED BY <3>1, <3>2, <3>3
  <2>8. Good(m + 1)
    BY <2>4, <2>7
  <2>9. m + 1 \in 0..Len(list)
    BY <1>2
  <2> HIDE DEF Good
  <2> QED BY <2>8, <2>9
<1>3. Len(list) \in S
  <2> HIDE DEF S
  <2>1. Len(list) \in Nat
    OBVIOUS
  <2>2. 0..Len(list) \subseteq S
    BY <1>1, <1>2, <2>1, Induction
  <2> QED BY <2>1, <2>2
<1>4. PICK g \in [0..Len(list) -> Seq(X)] :
        \A n \in 0..Len(list) : g[n] = Leaves(g, list, keys, n)
  BY <1>3
<1>5. Unfolds(g, list, keys)
  BY <1>4 DEF Unfolds
<1> QED BY <1>5

LEMMA WithoutUnfolds ==
  ASSUME NEW X, NEW list \in Seq(X), NEW keys
  PROVE  \E rest : Unfolds(rest, list, keys) /\ Without(list, keys) = rest[Len(list)]
<1> DEFINE rest == CHOOSE g : Unfolds(g, list, keys)
<1>1. Unfolds(rest, list, keys)
  <2>1. \E g : Unfolds(g, list, keys)
    BY RestExists
  <2> QED BY <2>1
<1>2. Without(list, keys) = rest[Len(list)]
  BY DEF Without, Unfolds, Leaves
<1> HIDE DEF rest
<1> QED BY <1>1, <1>2

(***************************************************************************)
(* A list is ordered by a set of pairs when every element forms one with   *)
(* every later element.  Different is the order of a list that holds       *)
(* nothing twice.                                                          *)
(***************************************************************************)
Ordered(list, R) == \A i, j \in DOMAIN list : i < j => <<list[i], list[j]>> \in R
Different(X) == {pair \in X \X X : pair[1] # pair[2]}

\* An element appended to an ordered list is the last of it.
LEMMA AppendOrdered ==
  ASSUME NEW X, NEW list \in Seq(X), NEW x \in X, NEW R, Ordered(list, R),
         \A y \in ToSet(list) : <<y, x>> \in R
  PROVE  /\ Append(list, x) \in Seq(X)
         /\ ToSet(Append(list, x)) = ToSet(list) \cup {x}
         /\ Ordered(Append(list, x), R)
<1> DEFINE longer == Append(list, x)
<1>1. /\ longer \in Seq(X) /\ DOMAIN longer = 1..(Len(list) + 1)
      /\ DOMAIN list = 1..Len(list)
      /\ longer[Len(list) + 1] = x
      /\ \A i \in 1..Len(list) : longer[i] = list[i]
  OBVIOUS
<1> HIDE DEF longer
<1>2. ToSet(longer) = ToSet(list) \cup {x}
  BY <1>1 DEF ToSet
<1>3. Ordered(longer, R)
  <2> SUFFICES ASSUME NEW i \in DOMAIN longer, NEW j \in DOMAIN longer, i < j
               PROVE  <<longer[i], longer[j]>> \in R
    BY DEF Ordered
  <2>1. CASE j = Len(list) + 1
    BY <1>1, <2>1 DEF ToSet
  <2>2. CASE j # Len(list) + 1
    BY <1>1, <2>2 DEF Ordered
  <2> QED BY <2>1, <2>2
<1> QED BY <1>1, <1>2, <1>3 DEF longer

(***************************************************************************)
(* What is left is the rest of the elements, in the order they were in.    *)
(***************************************************************************)
LEMMA WithoutKeeps ==
  ASSUME NEW X, NEW list \in Seq(X), NEW keys, NEW R, Ordered(list, R)
  PROVE  /\ Without(list, keys) \in Seq(X)
         /\ ToSet(Without(list, keys)) = ToSet(list) \ keys
         /\ Ordered(Without(list, keys), R)
<1> DEFINE First(n) == {list[i] : i \in 1..n}
<1>1. PICK rest : Unfolds(rest, list, keys) /\ Without(list, keys) = rest[Len(list)]
  BY WithoutUnfolds
<1>2. \A n \in 0..Len(list) : rest[n] = Leaves(rest, list, keys, n)
  BY <1>1 DEF Unfolds
<1> DEFINE Kept(n) == /\ rest[n] \in Seq(X)
                      /\ ToSet(rest[n]) = First(n) \ keys
                      /\ Ordered(rest[n], R)
           S == {n \in 0..Len(list) : Kept(n)}
<1>3. 0 \in S
  <2>1. rest[0] = << >>
    BY <1>2 DEF Leaves
  <2>2. ToSet(rest[0]) = {} /\ Ordered(rest[0], R)
    BY <2>1 DEF ToSet, Ordered
  <2>3. First(0) = {} /\ 0 \in 0..Len(list)
    OBVIOUS
  <2>4. rest[0] \in Seq(X)
    BY <2>1
  <2> HIDE DEF First
  <2>5. Kept(0)
    BY <2>2, <2>3, <2>4
  <2> HIDE DEF Kept
  <2> QED BY <2>3, <2>5
<1>4. ASSUME NEW n \in 0..Len(list), n \in S, n < Len(list)
      PROVE  n + 1 \in S
  <2> DEFINE x == list[n + 1]
  <2>1. Kept(n) /\ x \in X /\ n + 1 \in 0..Len(list)
    BY <1>4
  <2>2. First(n + 1) = First(n) \cup {x}
    OBVIOUS
  <2>3. rest[n + 1] = IF x \in keys THEN rest[n] ELSE Append(rest[n], x)
    BY <1>2, <2>1 DEF Leaves
  <2>4. \A y \in First(n) : <<y, x>> \in R
    BY <1>4 DEF Ordered
  <2> HIDE DEF First, x
  <2>5. CASE x \in keys
    BY <2>1, <2>2, <2>3, <2>5
  <2>6. CASE x \notin keys
    <3>1. \A y \in ToSet(rest[n]) : <<y, x>> \in R
      BY <2>1, <2>4
    <3>2. /\ Append(rest[n], x) \in Seq(X)
          /\ ToSet(Append(rest[n], x)) = ToSet(rest[n]) \cup {x}
          /\ Ordered(Append(rest[n], x), R)
      BY <2>1, <3>1, AppendOrdered
    <3> QED BY <2>1, <2>2, <2>3, <2>6, <3>2
  <2> QED BY <2>5, <2>6
<1>5. Len(list) \in S
  <2> HIDE DEF S
  <2>1. Len(list) \in Nat
    OBVIOUS
  <2>2. 0..Len(list) \subseteq S
    BY <1>3, <1>4, <2>1, Induction
  <2> QED BY <2>1, <2>2
<1>6. First(Len(list)) = ToSet(list)
  BY DEF ToSet
<1> HIDE DEF First
<1> QED BY <1>1, <1>5, <1>6

-----------------------------------------------------------------------------
(* How long the lists are.                                                 *)

LEMMA ElementsCount ==
  ASSUME NEW X, NEW list \in Seq(X)
  PROVE  /\ IsFiniteSet(ToSet(list)) /\ Cardinality(ToSet(list)) <= Len(list)
         /\ Ordered(list, Different(X)) => Cardinality(ToSet(list)) = Len(list)
<1> DEFINE I == 1..Len(list)
           f == [i \in I |-> list[i]]
<1>1. IsFiniteSet(I) /\ Cardinality(I) = Len(list)
  <2>1. 1 \in Int /\ Len(list) \in Int /\ Len(list) >= 0
    OBVIOUS
  <2>2. IsFiniteSet(I) /\ Cardinality(I) = IF 1 > Len(list) THEN 0 ELSE Len(list) - 1 + 1
    BY <2>1, FS_Interval
  <2> QED BY <2>1, <2>2
<1>2. /\ f \in [I -> ToSet(list)] /\ \A x \in ToSet(list) : \E i \in I : f[i] = x
      /\ \A i \in I : f[i] = list[i] /\ list[i] \in X
      /\ I \subseteq Int /\ I = DOMAIN list
  BY DEF ToSet
<1> HIDE DEF f, I
<1>3. f \in Surjection(I, ToSet(list))
  BY <1>2 DEF Surjection
<1>4. ASSUME Ordered(list, Different(X)) PROVE f \in Injection(I, ToSet(list))
  <2>1. ASSUME NEW i \in I, NEW j \in I, i < j
        PROVE  f[i] # f[j]
    <3>1. <<list[i], list[j]>> \in Different(X)
      BY <1>2, <1>4, <2>1 DEF Ordered
    <3> QED BY <1>2, <3>1 DEF Different
  <2>2. \A i, j \in I : i < j \/ j < i \/ i = j
    BY <1>2
  <2>3. \A i, j \in I : f[i] = f[j] => i = j
    BY <2>1, <2>2
  <2> QED BY <1>2, <2>3 DEF Injection, IsInjective
<1>5. /\ IsFiniteSet(ToSet(list))
      /\ Cardinality(ToSet(list)) <= Cardinality(I)
      /\ Cardinality(ToSet(list)) = Cardinality(I) <=> f \in Injection(I, ToSet(list))
  BY <1>1, <1>3, FS_Surjection
<1> QED BY <1>1, <1>4, <1>5

LEMMA ConcatOrdered ==
  ASSUME NEW X, NEW s \in Seq(X), NEW t \in Seq(X), NEW R,
         Ordered(s, R), Ordered(t, R),
         \A x \in ToSet(s), y \in ToSet(t) : <<x, y>> \in R
  PROVE  /\ s \o t \in Seq(X)
         /\ Len(s \o t) = Len(s) + Len(t)
         /\ ToSet(s \o t) = ToSet(s) \cup ToSet(t)
         /\ Ordered(s \o t, R)
<1> DEFINE u == s \o t
<1>1. /\ u \in Seq(X) /\ Len(u) = Len(s) + Len(t)
      /\ \A i \in 1..Len(s) : u[i] = s[i]
      /\ \A i \in 1..Len(t) : u[Len(s) + i] = t[i]
      /\ DOMAIN s = 1..Len(s) /\ DOMAIN t = 1..Len(t)
      /\ DOMAIN u = 1..(Len(s) + Len(t))
      /\ Len(s) \in Nat /\ Len(t) \in Nat
  OBVIOUS
<1> HIDE DEF u
<1>2. \A i \in 1..(Len(s) + Len(t)) :
        i \notin 1..Len(s) => i - Len(s) \in 1..Len(t) /\ u[i] = t[i - Len(s)]
  <2> SUFFICES ASSUME NEW i \in 1..(Len(s) + Len(t)), i \notin 1..Len(s)
               PROVE  i - Len(s) \in 1..Len(t) /\ u[i] = t[i - Len(s)]
    OBVIOUS
  <2>1. i - Len(s) \in 1..Len(t) /\ Len(s) + (i - Len(s)) = i
    BY <1>1
  <2> QED BY <1>1, <2>1
<1>3. ToSet(u) = ToSet(s) \cup ToSet(t)
  <2>1. ToSet(u) \subseteq ToSet(s) \cup ToSet(t)
    BY <1>1, <1>2 DEF ToSet
  <2>2. ToSet(s) \subseteq ToSet(u)
    BY <1>1 DEF ToSet
  <2>3. ToSet(t) \subseteq ToSet(u)
    <3> SUFFICES ASSUME NEW i \in 1..Len(t) PROVE t[i] \in ToSet(u)
      BY <1>1 DEF ToSet
    <3>1. Len(s) + i \in 1..(Len(s) + Len(t))
      BY <1>1
    <3> QED BY <1>1, <3>1 DEF ToSet
  <2> QED BY <2>1, <2>2, <2>3
<1>4. Ordered(u, R)
  <2> SUFFICES ASSUME NEW i \in DOMAIN u, NEW j \in DOMAIN u, i < j
               PROVE  <<u[i], u[j]>> \in R
    BY DEF Ordered
  <2>1. CASE j \in 1..Len(s)
    <3>1. i \in 1..Len(s)
      BY <1>1, <2>1
    <3> QED BY <1>1, <2>1, <3>1 DEF Ordered
  <2>2. CASE i \notin 1..Len(s)
    <3> DEFINE k == i - Len(s)
               l == j - Len(s)
    <3>1. j \notin 1..Len(s) /\ k < l
      BY <1>1, <2>2
    <3>2. k \in DOMAIN t /\ u[i] = t[k] /\ l \in DOMAIN t /\ u[j] = t[l]
      BY <1>1, <1>2, <2>2, <3>1
    <3> HIDE DEF k, l
    <3> QED BY <3>1, <3>2 DEF Ordered
  <2>3. CASE i \in 1..Len(s) /\ j \notin 1..Len(s)
    <3>1. u[i] \in ToSet(s)
      BY <1>1, <2>3 DEF ToSet
    <3>2. u[j] \in ToSet(t)
      BY <1>1, <1>2, <2>3 DEF ToSet
    <3> QED BY <3>1, <3>2
  <2> QED BY <2>1, <2>2, <2>3
<1> QED BY <1>1, <1>3, <1>4 DEF u

LEMMA NewestKeeps ==
  ASSUME NEW X, NEW list \in Seq(X), NEW n \in Nat, NEW R
  PROVE  /\ Newest(list, n) \in Seq(X)
         /\ Len(Newest(list, n)) = IF Len(list) <= n THEN Len(list) ELSE n
         /\ ToSet(Newest(list, n)) \subseteq ToSet(list)
         /\ Ordered(list, R) => Ordered(Newest(list, n), R)
<1>1. CASE Len(list) <= n
  BY <1>1 DEF Newest
<1>2. CASE ~ (Len(list) <= n)
  <2> DEFINE k == Len(list) - n
             new == SubSeq(list, k + 1, Len(list))
  <2>1. /\ k \in Nat /\ k + 1 \in 1..(Len(list) + 1)
        /\ Newest(list, n) = new
    BY <1>2 DEF Newest
  <2>2. /\ new \in Seq(X) /\ Len(new) = n /\ DOMAIN new = 1..n
        /\ \A i \in 1..n : new[i] = list[k + i] /\ k + i \in DOMAIN list
    <3>1. new \in Seq(X) /\ Len(new) = n
      BY <1>2
    <3> QED BY <1>2, <3>1
  <2>3. ToSet(new) \subseteq ToSet(list)
    BY <2>2 DEF ToSet
  <2>4. ASSUME Ordered(list, R) PROVE Ordered(new, R)
    <3> HIDE DEF new
    <3> SUFFICES ASSUME NEW i \in 1..n, NEW j \in 1..n, i < j
                 PROVE  <<new[i], new[j]>> \in R
      BY <2>2 DEF Ordered
    <3>1. k + i < k + j
      BY <2>1
    <3> HIDE DEF k
    <3> QED BY <2>2, <2>4, <3>1 DEF Ordered
  <2> QED BY <1>2, <2>1, <2>2, <2>3, <2>4
<1> QED BY <1>1, <1>2

-----------------------------------------------------------------------------
(* Commits and matches.                                                    *)

Growing(ns, p) == [n \in 1..Len(p) |-> <<ns, Prefix(p, n)>>]

LEMMA PrefixType ==
  ASSUME NEW B, NEW p \in Seq(B), NEW n \in 1..Len(p)
  PROVE  Prefix(p, n) \in Seq(B) /\ Len(Prefix(p, n)) = n
BY DEF Prefix

\* The prefixes of a prompt, shortest first, all different.
LEMMA GrowingPrefixes ==
  ASSUME NEW B, NEW p \in Seq(B), NEW ns, NEW X, PrefixKeys(ns, p) \subseteq X
  PROVE  /\ Growing(ns, p) \in Seq(X)
         /\ Len(Growing(ns, p)) = Len(p)
         /\ ToSet(Growing(ns, p)) = PrefixKeys(ns, p)
         /\ Ordered(Growing(ns, p), Different(X))
<1> DEFINE g == Growing(ns, p)
<1>1. \A n \in 1..Len(p) : <<ns, Prefix(p, n)>> \in X
  BY DEF PrefixKeys
<1>2. g \in Seq(X) /\ Len(g) = Len(p) /\ DOMAIN g = 1..Len(p)
  BY <1>1 DEF Growing
<1>3. \A n \in 1..Len(p) : g[n] = <<ns, Prefix(p, n)>>
  BY DEF Growing
<1> HIDE DEF g
<1>4. ToSet(g) = PrefixKeys(ns, p)
  BY <1>2, <1>3 DEF ToSet, PrefixKeys
<1>5. Ordered(g, Different(X))
  <2> SUFFICES ASSUME NEW i \in 1..Len(p), NEW j \in 1..Len(p), i < j
               PROVE  <<g[i], g[j]>> \in Different(X)
    BY <1>2 DEF Ordered
  <2>1. Prefix(p, i) # Prefix(p, j)
    <3>1. Len(Prefix(p, i)) = i /\ Len(Prefix(p, j)) = j
      BY PrefixType
    <3> QED BY <3>1
  <2>2. g[i] = <<ns, Prefix(p, i)>> /\ g[j] = <<ns, Prefix(p, j)>>
    BY <1>3
  <2>3. g[i] \in X /\ g[j] \in X
    BY <1>1, <2>2
  <2>4. g[i] # g[j]
    BY <2>1, <2>2
  <2> QED BY <2>3, <2>4 DEF Different
<1> QED BY <1>2, <1>4, <1>5 DEF g

(***************************************************************************)
(* A commit adds the prefixes of its prompt and forgets nothing; keys stay *)
(* different, so a list that holds every key once never shrinks.           *)
(***************************************************************************)
LEMMA TouchKeeps ==
  ASSUME NEW X, NEW list \in Seq(X), Ordered(list, Different(X)),
         NEW B, NEW p \in Seq(B), NEW ns, PrefixKeys(ns, p) \subseteq X
  PROVE  /\ Touch(list, ns, p) \in Seq(X)
         /\ ToSet(Touch(list, ns, p)) = ToSet(list) \cup PrefixKeys(ns, p)
         /\ Ordered(Touch(list, ns, p), Different(X))
         /\ Len(Touch(list, ns, p)) >= Len(list)
<1> DEFINE old == Without(list, PrefixKeys(ns, p))
           new == Growing(ns, p)
           touched == Touch(list, ns, p)
<1>1. /\ old \in Seq(X)
      /\ ToSet(old) = ToSet(list) \ PrefixKeys(ns, p)
      /\ Ordered(old, Different(X))
  BY WithoutKeeps
<1>2. /\ new \in Seq(X) /\ ToSet(new) = PrefixKeys(ns, p)
      /\ Ordered(new, Different(X))
  BY GrowingPrefixes
<1>3. touched = old \o new
  BY DEF Touch, Growing
<1>4. \A x \in ToSet(old), y \in ToSet(new) : <<x, y>> \in Different(X)
  <2> HIDE DEF old, new
  <2>1. ToSet(old) \subseteq X /\ ToSet(new) \subseteq X
    BY <1>1, <1>2 DEF ToSet
  <2> QED BY <1>1, <1>2, <2>1 DEF Different
<1> HIDE DEF old, new, touched
<1>5. /\ touched \in Seq(X)
      /\ ToSet(touched) = ToSet(list) \cup PrefixKeys(ns, p)
      /\ Ordered(touched, Different(X))
  BY <1>1, <1>2, <1>3, <1>4, ConcatOrdered
<1>6. Len(touched) >= Len(list)
  <2>1. /\ Cardinality(ToSet(touched)) = Len(touched) /\ IsFiniteSet(ToSet(touched))
        /\ Cardinality(ToSet(list)) = Len(list)
    BY <1>5, ElementsCount
  <2>2. Cardinality(ToSet(list)) <= Cardinality(ToSet(touched))
    BY <1>5, <2>1, FS_Subset
  <2>3. Len(touched) \in Int /\ Len(list) \in Int
    BY <1>5
  <2> QED BY <2>1, <2>2, <2>3
<1> QED BY <1>5, <1>6 DEF touched

(***************************************************************************)
(* A prompt matches no more blocks than are known.                         *)
(***************************************************************************)
LEMMA MatchIsKnown ==
  ASSUME NEW B, NEW p \in Seq(B), NEW ns, NEW known, IsFiniteSet(known)
  PROVE  MatchLength(known, ns, p) \in 0..Cardinality(known)
<1> DEFINE M == {n \in 1..Len(p) : \A k \in 1..n : <<ns, Prefix(p, k)>> \in known}
           f == [n \in M |-> <<ns, Prefix(p, n)>>]
<1>1. M \subseteq 1..Len(p) /\ \A n \in M : <<ns, Prefix(p, n)>> \in known
  OBVIOUS
<1>2. MatchLength(known, ns, p) = Cardinality(M)
  BY DEF MatchLength
<1> HIDE DEF M
<1>3. f \in [M -> known]
  BY <1>1
<1>4. ASSUME NEW m \in M, NEW n \in M, f[m] = f[n]
      PROVE  m = n
  <2>1. Prefix(p, m) = Prefix(p, n)
    BY <1>4
  <2>2. Len(Prefix(p, m)) = m /\ Len(Prefix(p, n)) = n
    BY <1>1, PrefixType
  <2> QED BY <2>1, <2>2
<1> HIDE DEF f
<1>5. f \in Injection(M, known)
  BY <1>3, <1>4 DEF Injection, IsInjective
<1>6. IsFiniteSet(M) /\ Cardinality(M) <= Cardinality(known)
  BY <1>5, FS_Injection
<1>7. Cardinality(M) \in Nat /\ Cardinality(known) \in Nat
  BY <1>6, FS_CardinalityType
<1> QED BY <1>2, <1>6, <1>7

=============================================================================
