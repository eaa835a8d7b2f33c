---------------------------- MODULE HealthWindow ----------------------------
(***************************************************************************)
(* What the health checker promises about a backend, without its counters: *)
(* the flag the router reads is a function of the last few probe outcomes. *)
(* A backend starts unhealthy, becomes healthy with the probe that makes   *)
(* the last HealthyAfter outcomes successes, and unhealthy with the probe  *)
(* that makes the last UnhealthyAfter outcomes failures.  Any other probe  *)
(* leaves the flag as it is.  Health implements this.                      *)
(***************************************************************************)
EXTENDS Integers, Sequences

CONSTANTS Backends, UnhealthyAfter, HealthyAfter

VARIABLES healthy,   \* healthy[b]: may the router use b
          outcomes   \* outcomes[b]: b's latest probe outcomes, newest last

windowVars == <<healthy, outcomes>>

WindowSize == IF UnhealthyAfter > HealthyAfter
                THEN UnhealthyAfter ELSE HealthyAfter

(***************************************************************************)
(* The window w after one more outcome.                                    *)
(***************************************************************************)
Slide(w, outcome) ==
  LET longer == Append(w, outcome)
  IN  IF Len(longer) > WindowSize THEN Tail(longer) ELSE longer

EndsWith(w, outcome, n) ==
  /\ Len(w) >= n
  /\ \A k \in (Len(w) - n + 1)..Len(w) : w[k] = outcome

Verdict(was, w) ==
  CASE EndsWith(w, "fail", UnhealthyAfter) -> FALSE
    [] EndsWith(w, "ok", HealthyAfter)     -> TRUE
    [] OTHER                               -> was

WindowInit ==
  /\ healthy = [b \in Backends |-> FALSE]
  /\ outcomes = [b \in Backends |-> << >>]

Probed(b, outcome) ==
  LET w == Slide(outcomes[b], outcome)
  IN  /\ outcomes' = [outcomes EXCEPT ![b] = w]
      /\ healthy' = [healthy EXCEPT ![b] = Verdict(healthy[b], w)]

WindowNext == \E b \in Backends, outcome \in {"ok", "fail"} : Probed(b, outcome)

WindowSpec == WindowInit /\ [][WindowNext]_windowVars

=============================================================================
