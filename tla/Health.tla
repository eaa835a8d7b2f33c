------------------------------- MODULE Health -------------------------------
(***************************************************************************)
(* Pool.StartHealthChecks and Pool.probe (internal/backend/pool.go): one   *)
(* goroutine per backend first probes in a bounded burst and then once per *)
(* tick until the context is cancelled; two consecutive-outcome counters   *)
(* decide when the healthy flag flips.  The counters belong to the         *)
(* goroutine of their backend, so a probe's counter updates and its        *)
(* compare-and-swap on the flag are one step; the transition counters are  *)
(* read by Snapshots and are updated in a step of their own.               *)
(***************************************************************************)
EXTENDS Integers, Sequences

CONSTANTS Backends,
          UnhealthyAfter,   \* failures in a row that remove a backend
          HealthyAfter,     \* successes in a row that admit one
          CounterMax,       \* largest value of the int32 counters
          TransitionRange   \* number of values of the uint64 counters

ASSUME ThresholdAssumption ==
  /\ UnhealthyAfter \in Nat \ {0}
  /\ HealthyAfter \in Nat \ {0}

ASSUME WidthAssumption ==
  /\ CounterMax \in Nat
  /\ CounterMax >= UnhealthyAfter
  /\ CounterMax >= HealthyAfter
  /\ TransitionRange \in Nat
  /\ TransitionRange > 1

VARIABLES up,            \* up[b]: would /health answer 2xx within 5 s (external)
          healthy,       \* healthy[b]: the atomic flag the router reads
          fails,         \* consecutiveFails
          successes,     \* consecutiveSuccesses
          toHealthy,     \* healthyTransitions
          toUnhealthy,   \* unhealthyTransitions
          stage,         \* stage[b]: "burst", "ticking" or "stopped"
          step,          \* step[b]: "idle", "probing" or "counting"
          burst,         \* burst[b]: probes started in the burst
          tick,          \* tick[b]: a tick waits in the ticker's channel
          cancelled,     \* the context is done
          returned,      \* StartHealthChecks has returned
          outcomes       \* history: b's latest probe outcomes

counters == <<fails, successes, toHealthy, toUnhealthy>>
vars == <<up, healthy, counters, stage, step, burst, tick, cancelled,
          returned, outcomes>>

Counter32 == (-CounterMax - 1)..CounterMax

(***************************************************************************)
(* atomic.Int32.Add(1) and atomic.Uint64.Add(1) wrap around.               *)
(***************************************************************************)
Add32(n) == IF n = CounterMax THEN -CounterMax - 1 ELSE n + 1
Add64(n) == (n + 1) % TransitionRange

Window == INSTANCE HealthWindow

\* Types and widths: the probe counters are 32 bits wide, the transitions 64.
TypeOK ==
  /\ up \in [Backends -> BOOLEAN]
  /\ healthy \in [Backends -> BOOLEAN]
  /\ fails \in [Backends -> Counter32]
  /\ successes \in [Backends -> Counter32]
  /\ toHealthy \in [Backends -> 0..(TransitionRange - 1)]
  /\ toUnhealthy \in [Backends -> 0..(TransitionRange - 1)]
  /\ stage \in [Backends -> {"burst", "ticking", "stopped"}]
  /\ step \in [Backends -> {"idle", "probing", "counting"}]
  /\ burst \in [Backends -> 0..HealthyAfter]
  /\ tick \in [Backends -> BOOLEAN]
  /\ cancelled \in BOOLEAN
  /\ returned \in BOOLEAN
  /\ outcomes \in [Backends -> Seq({"ok", "fail"})]
  /\ \A b \in Backends : Len(outcomes[b]) <= Window!WindowSize

(***************************************************************************)
(* NewPool: every backend starts unhealthy, its process up or down.        *)
(***************************************************************************)
Init ==
  /\ up \in [Backends -> BOOLEAN]
  /\ healthy = [b \in Backends |-> FALSE]
  /\ fails = [b \in Backends |-> 0]
  /\ successes = [b \in Backends |-> 0]
  /\ toHealthy = [b \in Backends |-> 0]
  /\ toUnhealthy = [b \in Backends |-> 0]
  /\ stage = [b \in Backends |-> "burst"]
  /\ step = [b \in Backends |-> "idle"]
  /\ burst = [b \in Backends |-> 0]
  /\ tick = [b \in Backends |-> FALSE]
  /\ cancelled = FALSE
  /\ returned = FALSE
  /\ outcomes = [b \in Backends |-> << >>]

-----------------------------------------------------------------------------
(* The bootstrap burst.                                                    *)

\* Seeded fault: the burst goes on until the backend is healthy.
BurstUntilHealthy(b) == ~healthy[b]

BurstGoesOn(b) == burst[b] < HealthyAfter /\ ~healthy[b]

StartBurstProbe(b) ==
  /\ stage[b] = "burst" /\ step[b] = "idle"
  /\ BurstGoesOn(b)
  /\ step' = [step EXCEPT ![b] = "probing"]
  /\ burst' = [burst EXCEPT ![b] = @ + 1]
  /\ UNCHANGED <<up, healthy, counters, stage, tick, cancelled, returned,
                 outcomes>>

EndBurst(b) ==
  /\ stage[b] = "burst" /\ step[b] = "idle"
  /\ ~BurstGoesOn(b)
  /\ stage' = [stage EXCEPT ![b] = "ticking"]
  /\ UNCHANGED <<up, healthy, counters, step, burst, tick, cancelled,
                 returned, outcomes>>

-----------------------------------------------------------------------------
(* The ticker loop.  The ticker's channel holds one tick and drops those   *)
(* that find it full; a select with both cases ready takes either.         *)

Tick(b) ==
  /\ stage[b] = "ticking" /\ ~tick[b]
  /\ tick' = [tick EXCEPT ![b] = TRUE]
  /\ UNCHANGED <<up, healthy, counters, stage, step, burst, cancelled,
                 returned, outcomes>>

\* Seeded fault: only healthy backends are probed in the ticker loop.
TakeTickHealthyOnly(b) ==
  /\ stage[b] = "ticking" /\ step[b] = "idle" /\ tick[b]
  /\ tick' = [tick EXCEPT ![b] = FALSE]
  /\ step' = [step EXCEPT ![b] = IF healthy[b] THEN "probing" ELSE "idle"]
  /\ UNCHANGED <<up, healthy, counters, stage, burst, cancelled, returned,
                 outcomes>>

TakeTick(b) ==
  /\ stage[b] = "ticking" /\ step[b] = "idle" /\ tick[b]
  /\ tick' = [tick EXCEPT ![b] = FALSE]
  /\ step' = [step EXCEPT ![b] = "probing"]
  /\ UNCHANGED <<up, healthy, counters, stage, burst, cancelled, returned,
                 outcomes>>

\* Seeded fault: the context is looked at only when no tick is waiting.
TakeDoneLast(b) ==
  /\ stage[b] = "ticking" /\ step[b] = "idle" /\ cancelled /\ ~tick[b]
  /\ stage' = [stage EXCEPT ![b] = "stopped"]
  /\ UNCHANGED <<up, healthy, counters, step, burst, tick, cancelled, returned,
                 outcomes>>

TakeDone(b) ==
  /\ stage[b] = "ticking" /\ step[b] = "idle" /\ cancelled
  /\ stage' = [stage EXCEPT ![b] = "stopped"]
  /\ tick' = [tick EXCEPT ![b] = FALSE]
  /\ UNCHANGED <<up, healthy, counters, step, burst, cancelled, returned,
                 outcomes>>

-----------------------------------------------------------------------------
(* The two outcomes of a probe.                                            *)

\* Seeded fault: every failure past the threshold counts as a removal.
ProbeFailsNoCAS(b) ==
  /\ step[b] = "probing" /\ ~up[b]
  /\ successes' = [successes EXCEPT ![b] = 0]
  /\ fails' = [fails EXCEPT ![b] = Add32(@)]
  /\ LET removes == fails'[b] >= UnhealthyAfter
     IN  /\ healthy' = [healthy EXCEPT ![b] = @ /\ ~removes]
         /\ step' = [step EXCEPT ![b] = IF removes THEN "counting" ELSE "idle"]
  /\ outcomes' = [outcomes EXCEPT ![b] = Window!Slide(@, "fail")]
  /\ UNCHANGED <<up, toHealthy, toUnhealthy, stage, burst, tick, cancelled,
                 returned>>

ProbeFails(b) ==
  /\ step[b] = "probing" /\ ~up[b]
  /\ successes' = [successes EXCEPT ![b] = 0]
  /\ fails' = [fails EXCEPT ![b] = Add32(@)]
  /\ LET removes == fails'[b] >= UnhealthyAfter /\ healthy[b]
     IN  /\ healthy' = [healthy EXCEPT ![b] = @ /\ ~removes]
         /\ step' = [step EXCEPT ![b] = IF removes THEN "counting" ELSE "idle"]
  /\ outcomes' = [outcomes EXCEPT ![b] = Window!Slide(@, "fail")]
  /\ UNCHANGED <<up, toHealthy, toUnhealthy, stage, burst, tick, cancelled,
                 returned>>

\* Seeded fault: a success does not end a run of failures.
ProbeSucceedsNoReset(b) ==
  /\ step[b] = "probing" /\ up[b]
  /\ successes' = [successes EXCEPT ![b] = Add32(@)]
  /\ LET admits == successes'[b] >= HealthyAfter /\ ~healthy[b]
     IN  /\ healthy' = [healthy EXCEPT ![b] = @ \/ admits]
         /\ step' = [step EXCEPT ![b] = IF admits THEN "counting" ELSE "idle"]
  /\ outcomes' = [outcomes EXCEPT ![b] = Window!Slide(@, "ok")]
  /\ UNCHANGED <<up, fails, toHealthy, toUnhealthy, stage, burst, tick,
                 cancelled, returned>>

ProbeSucceeds(b) ==
  /\ step[b] = "probing" /\ up[b]
  /\ fails' = [fails EXCEPT ![b] = 0]
  /\ successes' = [successes EXCEPT ![b] = Add32(@)]
  /\ LET admits == successes'[b] >= HealthyAfter /\ ~healthy[b]
     IN  /\ healthy' = [healthy EXCEPT ![b] = @ \/ admits]
         /\ step' = [step EXCEPT ![b] = IF admits THEN "counting" ELSE "idle"]
  /\ outcomes' = [outcomes EXCEPT ![b] = Window!Slide(@, "ok")]
  /\ UNCHANGED <<up, toHealthy, toUnhealthy, stage, burst, tick, cancelled,
                 returned>>

(***************************************************************************)
(* The transition is counted after the flag has flipped.                   *)
(***************************************************************************)
CountTransition(b) ==
  /\ step[b] = "counting"
  /\ IF healthy[b]
       THEN /\ toHealthy' = [toHealthy EXCEPT ![b] = Add64(@)]
            /\ UNCHANGED toUnhealthy
       ELSE /\ toUnhealthy' = [toUnhealthy EXCEPT ![b] = Add64(@)]
            /\ UNCHANGED toHealthy
  /\ step' = [step EXCEPT ![b] = "idle"]
  /\ UNCHANGED <<up, healthy, fails, successes, stage, burst, tick, cancelled,
                 returned, outcomes>>

-----------------------------------------------------------------------------
\* Seeded fault: StartHealthChecks does not wait for its goroutines.
ReturnAtOnce ==
  /\ cancelled /\ ~returned
  /\ returned' = TRUE
  /\ UNCHANGED <<up, healthy, counters, stage, step, burst, tick, cancelled,
                 outcomes>>

(***************************************************************************)
(* StartHealthChecks: <-ctx.Done(), then wg.Wait().                        *)
(***************************************************************************)
Return ==
  /\ cancelled /\ ~returned
  /\ \A b \in Backends : stage[b] = "stopped"
  /\ returned' = TRUE
  /\ UNCHANGED <<up, healthy, counters, stage, step, burst, tick, cancelled,
                 outcomes>>

(***************************************************************************)
(* The environment: a signal cancels the context, a backend process fails, *)
(* hangs or comes back.                                                    *)
(***************************************************************************)
Cancel ==
  /\ ~cancelled
  /\ cancelled' = TRUE
  /\ UNCHANGED <<up, healthy, counters, stage, step, burst, tick, returned,
                 outcomes>>

BackendFlips(b) ==
  /\ up' = [up EXCEPT ![b] = ~@]
  /\ UNCHANGED <<healthy, counters, stage, step, burst, tick, cancelled,
                 returned, outcomes>>

Checker(b) ==
  \/ StartBurstProbe(b) \/ EndBurst(b)
  \/ TakeTick(b) \/ TakeDone(b)
  \/ ProbeFails(b) \/ ProbeSucceeds(b)
  \/ CountTransition(b)

Next ==
  \/ \E b \in Backends : Checker(b) \/ Tick(b) \/ BackendFlips(b)
  \/ Return
  \/ Cancel

(***************************************************************************)
(* Goroutines run, tickers fire, and a probe ends within the health        *)
(* client's timeout of five seconds.  Go's select draws among the ready    *)
(* cases at random, so a cancelled context that is ready again and again   *)
(* is taken in the end: strong fairness of TakeDone.  No fairness for the  *)
(* environment.                                                            *)
(***************************************************************************)
Fairness ==
  /\ \A b \in Backends : /\ WF_vars(Checker(b))
                         /\ WF_vars(Tick(b))
                         /\ WF_vars(TakeTick(b))
                         /\ SF_vars(TakeDone(b))
  /\ WF_vars(Return)

Spec == Init /\ [][Next]_vars

FairSpec == Spec /\ Fairness

-----------------------------------------------------------------------------
(***************************************************************************)
(* The counters with their resets implement the window of outcomes: the    *)
(* flag flips with exactly the probe that completes a run of failures or   *)
(* successes, also when an int32 counter has wrapped around meanwhile.     *)
(***************************************************************************)
ImplementsWindow == Window!WindowSpec

(***************************************************************************)
(* Removals and admissions alternate: except between a flip and its count, *)
(* a backend is healthy exactly when one more admission than removals has  *)
(* been counted.  Snapshots report these numbers.                          *)
(***************************************************************************)
TransitionsMatchFlag ==
  \A b \in Backends :
    step[b] # "counting" =>
      (toHealthy[b] - toUnhealthy[b]) % TransitionRange
        = IF healthy[b] THEN 1 ELSE 0

(***************************************************************************)
(* While the checker runs, a backend that answers its probes from some     *)
(* time on becomes routable and stays so, whatever happened before, and    *)
(* one that has stopped answering is removed and stays removed.            *)
(***************************************************************************)
FlagFollowsBackend ==
  \A b \in Backends :
    [](~cancelled) =>
      /\ <>[](up[b]) => <>[](healthy[b])
      /\ <>[](~up[b]) => <>[](~healthy[b])

QuietAfterReturn ==
  [][returned => UNCHANGED <<healthy, counters, step>>]_vars

(***************************************************************************)
(* A cancelled context ends every goroutine, busy tickers or not, and once *)
(* StartHealthChecks has returned no probe is running and no flag or       *)
(* counter moves any more.                                                 *)
(***************************************************************************)
ShutdownCompletes == QuietAfterReturn /\ (cancelled ~> returned)

=============================================================================
