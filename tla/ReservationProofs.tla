------------------------- MODULE ReservationProofs -------------------------
(***************************************************************************)
(* Proofs about Reservation for any set of backends, any finite set of     *)
(* goroutines and any configured limits.                                   *)
(*                                                                         *)
(* The inductive invariant IInv adds to the type invariant and to          *)
(* CounterIsHolders the two facts they need to survive a step: a swap is   *)
(* only ever tried with a value below the limit, and the counter is never  *)
(* above the limit.                                                        *)
(***************************************************************************)
EXTENDS Reservation, FiniteSetTheorems, TLAPS

SwapBelowLimit ==
  \A c \in Clients : pc[c] = "swap" => current[c] < maxConcurrent[target[c]]

CounterBounded == \A b \in Backends : queueDepth[b] <= maxConcurrent[b]

IInv == TypeOK /\ CounterIsHolders /\ SwapBelowLimit /\ CounterBounded

-----------------------------------------------------------------------------
(* The limit NewPool computes is a positive integer for every backend.     *)
LEMMA LimitPositive ==
  ASSUME NEW b \in Backends
  PROVE  maxConcurrent[b] \in Nat \ {0}
BY LimitAssumption DEF maxConcurrent

(* The requests in progress at a backend are finitely many.                *)
LEMMA HoldingFinite ==
  ASSUME NEW b \in Backends
  PROVE  /\ IsFiniteSet(Holding(b))
         /\ Cardinality(Holding(b)) \in Nat
BY ClientsAssumption, FS_Subset, FS_CardinalityType DEF Holding

(* A step that neither starts nor ends a reservation of b leaves the set   *)
(* of requests in progress at b as it is.                                  *)
LEMMA HoldingUnchanged ==
  ASSUME TypeOK, NEW c \in Clients, NEW b \in Backends,
         pc' \in [Clients -> Locations], target' \in [Clients -> Backends],
         \A d \in Clients \ {c} : pc'[d] = pc[d] /\ target'[d] = target[d],
         ~(pc[c] = "holding" /\ target[c] = b),
         ~(pc'[c] = "holding" /\ target'[c] = b)
  PROVE  Holding(b)' = Holding(b)
BY DEF Holding, TypeOK

-----------------------------------------------------------------------------
LEMMA InitIInv == Init => IInv
<1> SUFFICES ASSUME Init PROVE IInv
  OBVIOUS
<1>1. TypeOK
  BY DEF Init, TypeOK, Locations
<1>2. CounterIsHolders
  <2>1. \A b \in Backends : Holding(b) = {}
    BY DEF Init, Holding
  <2> QED BY <2>1, FS_EmptySet DEF Init, CounterIsHolders
<1>3. SwapBelowLimit
  BY DEF Init, SwapBelowLimit
<1>4. CounterBounded
  BY LimitPositive DEF Init, CounterBounded
<1> QED BY <1>1, <1>2, <1>3, <1>4 DEF IInv

-----------------------------------------------------------------------------
(* Every step of the loop, and every release, preserves IInv.              *)
LEMMA StepIInv == IInv /\ [Next]_vars => IInv'
<1> SUFFICES ASSUME IInv, [Next]_vars PROVE IInv'
  OBVIOUS
<1> USE DEF IInv
<1>1. ASSUME NEW c \in Clients, NEW b \in Backends, CallTryReserve(c, b)
      PROVE  IInv'
  <2>1. TypeOK'
    BY <1>1 DEF CallTryReserve, TypeOK, Locations
  <2>2. \A d \in Backends : Holding(d)' = Holding(d)
    <3> SUFFICES ASSUME NEW d \in Backends PROVE Holding(d)' = Holding(d)
      OBVIOUS
    <3>1. pc'[c] = "load" /\ pc[c] # "holding"
      BY <1>1 DEF CallTryReserve, TypeOK
    <3>2. \A e \in Clients \ {c} : pc'[e] = pc[e] /\ target'[e] = target[e]
      BY <1>1 DEF CallTryReserve, TypeOK
    <3> QED BY <2>1, <3>1, <3>2, HoldingUnchanged DEF TypeOK
  <2>3. CounterIsHolders'
    BY <1>1, <2>2 DEF CallTryReserve, CounterIsHolders
  <2>4. SwapBelowLimit'
    BY <1>1 DEF CallTryReserve, SwapBelowLimit, TypeOK, maxConcurrent
  <2>5. CounterBounded'
    BY <1>1 DEF CallTryReserve, CounterBounded, maxConcurrent
  <2> QED BY <2>1, <2>3, <2>4, <2>5
<1>2. ASSUME NEW c \in Clients, Load(c)
      PROVE  IInv'
  <2>1. TypeOK'
    BY <1>2 DEF Load, TypeOK, Locations
  <2>2. \A d \in Backends : Holding(d)' = Holding(d)
    <3> SUFFICES ASSUME NEW d \in Backends PROVE Holding(d)' = Holding(d)
      OBVIOUS
    <3>1. pc'[c] # "holding" /\ pc[c] # "holding"
      BY <1>2 DEF Load, TypeOK
    <3>2. \A e \in Clients \ {c} : pc'[e] = pc[e] /\ target'[e] = target[e]
      BY <1>2 DEF Load, TypeOK
    <3> QED BY <2>1, <3>1, <3>2, HoldingUnchanged DEF TypeOK
  <2>3. CounterIsHolders'
    BY <1>2, <2>2 DEF Load, CounterIsHolders
  <2>4. SwapBelowLimit'
    <3> SUFFICES ASSUME NEW d \in Clients, pc'[d] = "swap"
                 PROVE  current'[d] < maxConcurrent[target[d]]
      BY <1>2 DEF Load, SwapBelowLimit, maxConcurrent
    <3>1. CASE d = c
      <4>1. target[c] \in Backends /\ queueDepth[target[c]] \in Nat
        BY DEF TypeOK
      <4>2. maxConcurrent[target[c]] \in Nat
        BY <4>1, LimitPositive
      <4>3. queueDepth[target[c]] < maxConcurrent[target[c]]
        BY <1>2, <3>1, <4>1, <4>2 DEF Load, TypeOK
      <4> QED BY <1>2, <3>1, <4>3 DEF Load, TypeOK
    <3>2. CASE d # c
      BY <1>2, <3>2 DEF Load, SwapBelowLimit, TypeOK
    <3> QED BY <3>1, <3>2
  <2>5. CounterBounded'
    BY <1>2 DEF Load, CounterBounded, maxConcurrent
  <2> QED BY <2>1, <2>3, <2>4, <2>5
<1>3. ASSUME NEW c \in Clients, Swap(c)
      PROVE  IInv'
  <2> DEFINE b == target[c]
  <2>0. b \in Backends /\ queueDepth[b] \in Nat /\ maxConcurrent[b] \in Nat
    BY LimitPositive DEF TypeOK
  <2>1. TypeOK'
    BY <1>3, <2>0 DEF Swap, TypeOK, Locations
  <2>2. \A e \in Clients \ {c} : pc'[e] = pc[e] /\ target'[e] = target[e]
    BY <1>3 DEF Swap, TypeOK
  <2>3. SwapBelowLimit'
    BY <1>3 DEF Swap, SwapBelowLimit, TypeOK, maxConcurrent
  <2>4. CASE queueDepth[b] = current[c]
    <3>1. /\ queueDepth' = [queueDepth EXCEPT ![b] = queueDepth[b] + 1]
          /\ pc' = [pc EXCEPT ![c] = "holding"]
          /\ target' = target
          /\ pc[c] = "swap"
      BY <1>3, <2>4 DEF Swap
    <3>2. Holding(b)' = Holding(b) \cup {c} /\ c \notin Holding(b)
      BY <3>1 DEF Holding, TypeOK
    <3>3. Cardinality(Holding(b)') = Cardinality(Holding(b)) + 1
      BY <3>2, <2>0, HoldingFinite, FS_AddElement
    <3>4. \A d \in Backends \ {b} : Holding(d)' = Holding(d)
      BY <3>1, <2>1, <2>2, HoldingUnchanged DEF TypeOK
    <3>5. CounterIsHolders'
      <4> SUFFICES ASSUME NEW d \in Backends
                   PROVE  queueDepth'[d] = Cardinality(Holding(d)')
        BY DEF CounterIsHolders
      <4>1. CASE d = b
        BY <3>1, <3>3, <4>1 DEF CounterIsHolders, TypeOK
      <4>2. CASE d # b
        BY <3>1, <3>4, <4>2 DEF CounterIsHolders, TypeOK
      <4> QED BY <4>1, <4>2
    <3>6. CounterBounded'
      <4>1. queueDepth[b] < maxConcurrent[b]
        BY <2>4, <3>1 DEF SwapBelowLimit
      <4>2. queueDepth[b] + 1 <= maxConcurrent[b]
        BY <4>1, <2>0
      <4> QED BY <3>1, <4>2 DEF CounterBounded, TypeOK, maxConcurrent
    <3> QED BY <2>1, <2>3, <3>5, <3>6
  <2>5. CASE queueDepth[b] # current[c]
    <3>1. /\ queueDepth' = queueDepth
          /\ pc' = [pc EXCEPT ![c] = "load"]
          /\ pc[c] = "swap"
      BY <1>3, <2>5 DEF Swap
    <3>2. \A d \in Backends : Holding(d)' = Holding(d)
      BY <3>1, <2>1, <2>2, HoldingUnchanged DEF TypeOK
    <3>3. CounterIsHolders' /\ CounterBounded'
      BY <3>1, <3>2 DEF CounterIsHolders, CounterBounded, maxConcurrent
    <3> QED BY <2>1, <2>3, <3>3
  <2> QED BY <2>4, <2>5
<1>4. ASSUME NEW c \in Clients, Release(c)
      PROVE  IInv'
  <2> DEFINE b == target[c]
  <2>0. b \in Backends /\ queueDepth[b] \in Nat /\ maxConcurrent[b] \in Nat
    BY LimitPositive DEF TypeOK
  <2>1. /\ queueDepth' = [queueDepth EXCEPT ![b] = queueDepth[b] - 1]
        /\ pc' = [pc EXCEPT ![c] = "out"]
        /\ target' = target /\ current' = current
        /\ pc[c] = "holding"
    BY <1>4 DEF Release
  <2>2. Holding(b)' = Holding(b) \ {c} /\ c \in Holding(b)
    BY <2>1 DEF Holding, TypeOK
  <2>3. /\ Cardinality(Holding(b)') = Cardinality(Holding(b)) - 1
        /\ Cardinality(Holding(b)') \in Nat
    <3>1. IsFiniteSet(Holding(b)')
      BY <2>2, <2>0, HoldingFinite, FS_Subset
    <3> QED BY <3>1, <2>2, <2>0, HoldingFinite, FS_RemoveElement,
               FS_CardinalityType
  <2>4. queueDepth[b] - 1 \in Nat
    BY <2>3, <2>0 DEF CounterIsHolders
  <2>5. TypeOK'
    BY <2>1, <2>4 DEF TypeOK, Locations
  <2>6. \A d \in Backends \ {b} : Holding(d)' = Holding(d)
    BY <2>1, <2>5, HoldingUnchanged DEF TypeOK
  <2>7. CounterIsHolders'
    <3> SUFFICES ASSUME NEW d \in Backends
                 PROVE  queueDepth'[d] = Cardinality(Holding(d)')
      BY DEF CounterIsHolders
    <3>1. CASE d = b
      BY <2>1, <2>3, <3>1 DEF CounterIsHolders, TypeOK
    <3>2. CASE d # b
      BY <2>1, <2>6, <3>2 DEF CounterIsHolders, TypeOK
    <3> QED BY <3>1, <3>2
  <2>8. SwapBelowLimit'
    BY <2>1 DEF SwapBelowLimit, TypeOK, maxConcurrent
  <2>9. CounterBounded'
    <3>1. queueDepth[b] - 1 <= maxConcurrent[b]
      BY <2>0 DEF CounterBounded
    <3> QED BY <2>1, <3>1 DEF CounterBounded, TypeOK, maxConcurrent
  <2> QED BY <2>5, <2>7, <2>8, <2>9
<1>5. ASSUME NEW c \in Clients, GiveUp(c)
      PROVE  IInv'
  <2>1. TypeOK'
    BY <1>5 DEF GiveUp, TypeOK, Locations
  <2>2. \A d \in Backends : Holding(d)' = Holding(d)
    <3> SUFFICES ASSUME NEW d \in Backends PROVE Holding(d)' = Holding(d)
      OBVIOUS
    <3>1. pc'[c] = "out" /\ pc[c] = "refused"
      BY <1>5 DEF GiveUp, TypeOK
    <3>2. \A e \in Clients \ {c} : pc'[e] = pc[e] /\ target'[e] = target[e]
      BY <1>5 DEF GiveUp, TypeOK
    <3> QED BY <2>1, <3>1, <3>2, HoldingUnchanged DEF TypeOK
  <2>3. CounterIsHolders' /\ CounterBounded'
    BY <1>5, <2>2 DEF GiveUp, CounterIsHolders, CounterBounded, maxConcurrent
  <2>4. SwapBelowLimit'
    BY <1>5 DEF GiveUp, SwapBelowLimit, TypeOK, maxConcurrent
  <2> QED BY <2>1, <2>3, <2>4
<1>6. CASE UNCHANGED vars
  BY <1>6 DEF vars, TypeOK, CounterIsHolders, Holding, SwapBelowLimit,
              CounterBounded, maxConcurrent
<1> QED BY <1>1, <1>2, <1>3, <1>4, <1>5, <1>6 DEF Next

LEMMA SpecIInv == Spec => []IInv
BY InitIInv, StepIInv, PTL DEF Spec

-----------------------------------------------------------------------------
(***************************************************************************)
(* The state of TryReserve and Release is always of its declared type; in  *)
(* particular Release never takes queueDepth below zero.                   *)
(***************************************************************************)
THEOREM TypeCorrect == Spec => []TypeOK
<1>1. IInv => TypeOK
  BY DEF IInv
<1> QED BY <1>1, SpecIInv, PTL

(***************************************************************************)
(* queueDepth is, in every reachable state, the number of requests that    *)
(* hold a reservation of the backend.                                      *)
(***************************************************************************)
THEOREM CounterCorrect == Spec => []CounterIsHolders
<1>1. IInv => CounterIsHolders
  BY DEF IInv
<1> QED BY <1>1, SpecIInv, PTL

(***************************************************************************)
(* However many goroutines run TryReserve at once, a backend never serves  *)
(* more requests than its limit.                                           *)
(***************************************************************************)
THEOREM AdmissionBounded == Spec => []LimitRespected
<1>1. IInv => LimitRespected
  BY DEF IInv, CounterIsHolders, CounterBounded, LimitRespected
<1> QED BY <1>1, SpecIInv, PTL

-----------------------------------------------------------------------------
(* The semaphore's holders are the requests that hold a reservation.       *)
LEMMA SameHolders ==
  ASSUME TypeOK, NEW b \in Backends
  PROVE  Semaphore!Holders(b) = Holding(b)
BY DEF Semaphore!Holders, Holding, TypeOK

(* The instance counts with the same Cardinality.                          *)
LEMMA SameCardinality ==
  ASSUME NEW S
  PROVE  Semaphore!Cardinality(S) = Cardinality(S)
BY Zenon DEF Semaphore!Cardinality, Cardinality

(* Calls and releases are steps of the semaphore, a load is a refusal or   *)
(* a stutter, a successful swap is a grant and a failed one a stutter.     *)
LEMMA StepSemaphore ==
  IInv /\ [Next]_vars => [Semaphore!SemNext]_(Semaphore!semVars)
<1> SUFFICES ASSUME IInv, [Next]_vars
             PROVE  Semaphore!SemNext \/ UNCHANGED Semaphore!semVars
  OBVIOUS
<1> DEFINE state(p) == [c \in Clients |->
                          IF p[c] \in {"load", "swap"} THEN "asking" ELSE p[c]]
<1>0. TypeOK
  BY DEF IInv
<1>1. ASSUME NEW c \in Clients, NEW b \in Backends, CallTryReserve(c, b)
      PROVE  Semaphore!SemNext
  <2>1. Semaphore!Ask(c, b)
    BY <1>0, <1>1 DEF CallTryReserve, Semaphore!Ask, TypeOK
  <2> QED BY <2>1 DEF Semaphore!SemNext
<1>2. ASSUME NEW c \in Clients, Load(c)
      PROVE  Semaphore!SemNext \/ UNCHANGED Semaphore!semVars
  <2> DEFINE b == target[c]
  <2>1. b \in Backends /\ pc[c] = "load" /\ target' = target
    BY <1>0, <1>2 DEF Load, TypeOK
  <2>2. CASE queueDepth[b] >= maxConcurrent[b]
    <3>1. pc' = [pc EXCEPT ![c] = "refused"]
      BY <1>2, <2>2 DEF Load
    <3>2. state(pc') = [state(pc) EXCEPT ![c] = "refused"]
      BY <1>0, <3>1 DEF TypeOK
    <3>3. Semaphore!Cardinality(Semaphore!Holders(b)) >= maxConcurrent[b]
      BY <1>0, <2>1, <2>2, SameHolders, SameCardinality
         DEF IInv, CounterIsHolders
    <3>4. Semaphore!Refuse(c)
      BY <1>0, <2>1, <3>2, <3>3 DEF Semaphore!Refuse, TypeOK
    <3> QED BY <3>4 DEF Semaphore!SemNext
  <2>3. CASE ~(queueDepth[b] >= maxConcurrent[b])
    <3>1. pc' = [pc EXCEPT ![c] = "swap"]
      BY <1>2, <2>3 DEF Load
    <3>2. state(pc') = state(pc)
      BY <1>0, <2>1, <3>1 DEF TypeOK
    <3> QED BY <2>1, <3>2 DEF Semaphore!semVars
  <2> QED BY <2>2, <2>3
<1>3. ASSUME NEW c \in Clients, Swap(c)
      PROVE  Semaphore!SemNext \/ UNCHANGED Semaphore!semVars
  <2> DEFINE b == target[c]
  <2>1. b \in Backends /\ pc[c] = "swap" /\ target' = target
    BY <1>0, <1>3 DEF Swap, TypeOK
  <2>2. CASE queueDepth[b] = current[c]
    <3>1. pc' = [pc EXCEPT ![c] = "holding"]
      BY <1>3, <2>2 DEF Swap
    <3>2. state(pc') = [state(pc) EXCEPT ![c] = "holding"]
      BY <1>0, <3>1 DEF TypeOK
    <3>3. Semaphore!Cardinality(Semaphore!Holders(b)) < maxConcurrent[b]
      BY <1>0, <2>1, <2>2, SameHolders, SameCardinality
         DEF IInv, CounterIsHolders, SwapBelowLimit
    <3>4. Semaphore!Grant(c)
      BY <1>0, <2>1, <3>2, <3>3 DEF Semaphore!Grant, TypeOK
    <3> QED BY <3>4 DEF Semaphore!SemNext
  <2>3. CASE queueDepth[b] # current[c]
    <3>1. pc' = [pc EXCEPT ![c] = "load"]
      BY <1>3, <2>3 DEF Swap
    <3>2. state(pc') = state(pc)
      BY <1>0, <2>1, <3>1 DEF TypeOK
    <3> QED BY <2>1, <3>2 DEF Semaphore!semVars
  <2> QED BY <2>2, <2>3
<1>4. ASSUME NEW c \in Clients, Release(c)
      PROVE  Semaphore!SemNext
  <2>1. Semaphore!GiveBack(c)
    BY <1>0, <1>4 DEF Release, Semaphore!GiveBack, TypeOK
  <2> QED BY <2>1 DEF Semaphore!SemNext
<1>5. ASSUME NEW c \in Clients, GiveUp(c)
      PROVE  Semaphore!SemNext
  <2>1. Semaphore!GiveUp(c)
    BY <1>0, <1>5 DEF GiveUp, Semaphore!GiveUp, TypeOK
  <2> QED BY <2>1 DEF Semaphore!SemNext
<1>6. CASE UNCHANGED vars
  BY <1>6 DEF vars, Semaphore!semVars
<1> QED BY <1>1, <1>2, <1>3, <1>4, <1>5, <1>6 DEF Next

(***************************************************************************)
(* The compare-and-swap loop implements the semaphore: its grants and      *)
(* refusals take effect in one step each, at the swap and at the load.     *)
(***************************************************************************)
THEOREM ReservationImplementsSemaphore == Spec => ImplementsSemaphore
<1>1. Init => Semaphore!SemInit
  BY DEF Init, Semaphore!SemInit
<1> QED BY <1>1, SpecIInv, StepSemaphore, PTL
        DEF Spec, ImplementsSemaphore, Semaphore!SemSpec
=============================================================================
