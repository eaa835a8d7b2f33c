---------------------------- MODULE Reservation ----------------------------
(***************************************************************************)
(* Backend.TryReserve and Backend.Release (internal/backend/pool.go): the  *)
(* request goroutines share one atomic counter per backend, queueDepth,    *)
(* and no lock.  Every access to the counter is a step of its own, so the  *)
(* load and the compare-and-swap of one goroutine interleave with those of *)
(* the others; the comparison with the limit is local and belongs to the   *)
(* step of the load it follows.                                            *)
(***************************************************************************)
EXTENDS Integers, FiniteSets

CONSTANTS Backends,              \* identifiers of the configured backends
          Clients,               \* goroutines serving requests
          MaxConcurrent,         \* BackendConfig.MaxConcurrent, per backend
          DefaultMaxConcurrent   \* the limit that replaces one <= 0

ASSUME ClientsAssumption == IsFiniteSet(Clients)

ASSUME LimitAssumption ==
  /\ MaxConcurrent \in [Backends -> Int]
  /\ DefaultMaxConcurrent \in Nat \ {0}

(***************************************************************************)
(* NewPool replaces a limit that is not positive by the default, so a      *)
(* backend in the pool never takes TryReserve's "unconstrained" branch.    *)
(***************************************************************************)
maxConcurrent ==
  [b \in Backends |->
     IF MaxConcurrent[b] <= 0 THEN DefaultMaxConcurrent ELSE MaxConcurrent[b]]

VARIABLES queueDepth,  \* queueDepth[b]: the atomic counter
          pc,          \* pc[c]: where goroutine c is
          target,      \* target[c]: the backend of c's latest TryReserve
          current      \* current[c]: the value c's latest Load returned

vars == <<queueDepth, pc, target, current>>

Locations == {"out",       \* holds nothing, not in TryReserve
              "load",      \* at the top of TryReserve's loop
              "swap",      \* loaded a value below the limit
              "holding",   \* TryReserve returned true, Release still due
              "refused"}   \* TryReserve returned false

(***************************************************************************)
(* The requests a backend is serving: what its counter is meant to count.  *)
(***************************************************************************)
Holding(b) == {c \in Clients : pc[c] = "holding" /\ target[c] = b}

\* Types of the counters and of the locals of TryReserve; no counter is negative.
TypeOK ==
  /\ queueDepth \in [Backends -> Nat]
  /\ pc \in [Clients -> Locations]
  /\ target \in [Clients -> Backends]
  /\ current \in [Clients -> Nat]

Init ==
  /\ queueDepth = [b \in Backends |-> 0]
  /\ pc = [c \in Clients |-> "out"]
  /\ target \in [Clients -> Backends]
  /\ current = [c \in Clients |-> 0]

(***************************************************************************)
(* The handler calls TryReserve on the next candidate: on the first one,   *)
(* or on another one after a refusal.                                      *)
(***************************************************************************)
CallTryReserve(c, b) ==
  /\ pc[c] \in {"out", "refused"}
  /\ pc' = [pc EXCEPT ![c] = "load"]
  /\ target' = [target EXCEPT ![c] = b]
  /\ UNCHANGED <<queueDepth, current>>

(***************************************************************************)
(* current := queueDepth.Load(), then return false if the limit is reached *)
(* and go on to the compare-and-swap otherwise.                            *)
(***************************************************************************)
Load(c) ==
  /\ pc[c] = "load"
  /\ current' = [current EXCEPT ![c] = queueDepth[target[c]]]
  /\ pc' = [pc EXCEPT ![c] =
              IF queueDepth[target[c]] >= maxConcurrent[target[c]]
                THEN "refused" ELSE "swap"]
  /\ UNCHANGED <<queueDepth, target>>

(***************************************************************************)
(* Seeded faults, used only to show that the properties below can fail.    *)
(***************************************************************************)
\* The counter is stored without comparing it with the loaded value.
SwapByStore(c) ==
  /\ pc[c] = "swap"
  /\ queueDepth' = [queueDepth EXCEPT ![target[c]] = current[c] + 1]
  /\ pc' = [pc EXCEPT ![c] = "holding"]
  /\ UNCHANGED <<target, current>>

\* Check, then an atomic Add: nothing ties the Add to the check.
SwapByAdd(c) ==
  /\ pc[c] = "swap"
  /\ queueDepth' = [queueDepth EXCEPT ![target[c]] = @ + 1]
  /\ pc' = [pc EXCEPT ![c] = "holding"]
  /\ UNCHANGED <<target, current>>

\* A lost race is reported as a full backend.
SwapOnce(c) ==
  /\ pc[c] = "swap"
  /\ IF queueDepth[target[c]] = current[c]
       THEN /\ queueDepth' = [queueDepth EXCEPT ![target[c]] = current[c] + 1]
            /\ pc' = [pc EXCEPT ![c] = "holding"]
       ELSE /\ pc' = [pc EXCEPT ![c] = "refused"]
            /\ UNCHANGED queueDepth
  /\ UNCHANGED <<target, current>>

\* The load is hoisted out of the loop: only the swap is tried again.
SwapWithoutReload(c) ==
  /\ pc[c] = "swap"
  /\ queueDepth[target[c]] = current[c]
  /\ queueDepth' = [queueDepth EXCEPT ![target[c]] = current[c] + 1]
  /\ pc' = [pc EXCEPT ![c] = "holding"]
  /\ UNCHANGED <<target, current>>

(***************************************************************************)
(* CompareAndSwap(current, current+1): when the counter has moved since    *)
(* the load, the loop starts again from a new load.                        *)
(***************************************************************************)
Swap(c) ==
  /\ pc[c] = "swap"
  /\ IF queueDepth[target[c]] = current[c]
       THEN /\ queueDepth' = [queueDepth EXCEPT ![target[c]] = current[c] + 1]
            /\ pc' = [pc EXCEPT ![c] = "holding"]
       ELSE /\ pc' = [pc EXCEPT ![c] = "load"]
            /\ UNCHANGED queueDepth
  /\ UNCHANGED <<target, current>>

(***************************************************************************)
(* The handler has no candidate left: it answers 429 and returns.          *)
(***************************************************************************)
GiveUp(c) ==
  /\ pc[c] = "refused"
  /\ pc' = [pc EXCEPT ![c] = "out"]
  /\ UNCHANGED <<queueDepth, target, current>>

(***************************************************************************)
(* The deferred Release of the handler.                                    *)
(***************************************************************************)
Release(c) ==
  /\ pc[c] = "holding"
  /\ queueDepth' = [queueDepth EXCEPT ![target[c]] = @ - 1]
  /\ pc' = [pc EXCEPT ![c] = "out"]
  /\ UNCHANGED <<target, current>>

Next ==
  \E c \in Clients :
    \/ \E b \in Backends : CallTryReserve(c, b)
    \/ Load(c)
    \/ Swap(c)
    \/ GiveUp(c)
    \/ Release(c)

(***************************************************************************)
(* A goroutine inside TryReserve is runnable and the Go scheduler runs it. *)
(* When requests arrive, and when they finish, is up to the callers.       *)
(***************************************************************************)
Fairness == \A c \in Clients : WF_vars(Load(c)) /\ WF_vars(Swap(c))

Spec == Init /\ [][Next]_vars

FairSpec == Spec /\ Fairness

-----------------------------------------------------------------------------
(***************************************************************************)
(* The counter that the queue depth of the telemetry and the scorer's tie  *)
(* breaking read is the number of requests in progress, never more than    *)
(* the limit and never less than zero, however loads and swaps interleave. *)
(***************************************************************************)
CounterIsHolders ==
  \A b \in Backends : queueDepth[b] = Cardinality(Holding(b))

(***************************************************************************)
(* No backend serves more requests than TryReserve's limit allows, not     *)
(* even when several goroutines saw the same free slot.                    *)
(***************************************************************************)
LimitRespected ==
  \A b \in Backends : Cardinality(Holding(b)) <= maxConcurrent[b]

(***************************************************************************)
(* The loop implements the indivisible semaphore: in particular a refusal  *)
(* is only given at a moment when every slot of that backend is held.      *)
(***************************************************************************)
Semaphore == INSTANCE AdmissionSemaphore WITH
  Limit <- maxConcurrent,
  state <- [c \in Clients |->
              IF pc[c] \in {"load", "swap"} THEN "asking" ELSE pc[c]],
  slot  <- target

\* TryReserve and Release implement the semaphore, step by step.
ImplementsSemaphore == Semaphore!SemSpec

(***************************************************************************)
(* TryReserve is lock-free: a goroutine stays in the loop only as long as  *)
(* other goroutines keep moving the very counter it wants.                 *)
(***************************************************************************)
InLoop(c) == pc[c] \in {"load", "swap"}

\* Whoever stays in the loop of TryReserve sees its counter move again and again.
LockFree ==
  \A c \in Clients, b \in Backends :
    <>[](InLoop(c) /\ target[c] = b)
      => []<><<queueDepth[b]' # queueDepth[b]>>_vars

=============================================================================
