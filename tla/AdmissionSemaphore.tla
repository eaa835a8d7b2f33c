------------------------- MODULE AdmissionSemaphore -------------------------
(***************************************************************************)
(* What a backend's admission control promises: a request that asks for a  *)
(* backend is answered in one indivisible step, it is granted a slot only  *)
(* while fewer than Limit[b] requests hold one, and it is refused only     *)
(* while every slot is taken.  Reservation implements this promise with a  *)
(* compare-and-swap loop on a counter; Router relies on it and takes the   *)
(* answer in one step.                                                     *)
(***************************************************************************)
EXTENDS Integers, FiniteSets

CONSTANTS Backends,  \* identifiers of the configured backends
          Clients,   \* the request goroutines
          Limit      \* Limit[b]: how many requests b serves at a time

VARIABLES state,     \* state[c]: "out", "asking", "holding" or "refused"
          slot       \* slot[c]: the backend c asked for last

semVars == <<state, slot>>

Holders(b) == {c \in Clients : state[c] = "holding" /\ slot[c] = b}

SemTypeOK ==
  /\ state \in [Clients -> {"out", "asking", "holding", "refused"}]
  /\ slot \in [Clients -> Backends]

SemInit ==
  /\ state = [c \in Clients |-> "out"]
  /\ slot \in [Clients -> Backends]

Ask(c, b) ==
  /\ state[c] \in {"out", "refused"}
  /\ state' = [state EXCEPT ![c] = "asking"]
  /\ slot' = [slot EXCEPT ![c] = b]

Grant(c) ==
  /\ state[c] = "asking"
  /\ Cardinality(Holders(slot[c])) < Limit[slot[c]]
  /\ state' = [state EXCEPT ![c] = "holding"]
  /\ UNCHANGED slot

Refuse(c) ==
  /\ state[c] = "asking"
  /\ Cardinality(Holders(slot[c])) >= Limit[slot[c]]
  /\ state' = [state EXCEPT ![c] = "refused"]
  /\ UNCHANGED slot

GiveUp(c) ==
  /\ state[c] = "refused"
  /\ state' = [state EXCEPT ![c] = "out"]
  /\ UNCHANGED slot

GiveBack(c) ==
  /\ state[c] = "holding"
  /\ state' = [state EXCEPT ![c] = "out"]
  /\ UNCHANGED slot

SemNext ==
  \E c \in Clients :
    \/ \E b \in Backends : Ask(c, b)
    \/ Grant(c)
    \/ Refuse(c)
    \/ GiveUp(c)
    \/ GiveBack(c)

SemSpec == SemInit /\ [][SemNext]_semVars

=============================================================================
