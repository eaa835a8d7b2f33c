----------------------------- MODULE BoundedLog -----------------------------
(***************************************************************************)
(* What the telemetry promises of its events: every request is entered     *)
(* once, at the newer end, and the oldest entry goes when more than Size   *)
(* would be kept.  Telemetry implements this with a ring of slots.         *)
(***************************************************************************)
EXTENDS Integers, Sequences

CONSTANTS Requests,  \* each records one event
          Size       \* how many events are kept

VARIABLES kept,      \* the requests of the kept events, newest last
          pending    \* the requests whose event has not been entered

logVars == <<kept, pending>>

LogInit == kept = << >> /\ pending = Requests

Enter(r) ==
  /\ r \in pending
  /\ pending' = pending \ {r}
  /\ kept' = Append(IF Len(kept) < Size THEN kept ELSE Tail(kept), r)

LogNext == \E r \in Requests : Enter(r)

LogSpec == LogInit /\ [][LogNext]_logVars

=============================================================================
