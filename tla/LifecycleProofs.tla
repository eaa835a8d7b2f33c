--------------------------- MODULE LifecycleProofs ---------------------------
(***************************************************************************)
(* The exit code tells the truth, for any set of requests and whichever of *)
(* two ready cases each select takes.                                      *)
(***************************************************************************)
EXTENDS Lifecycle, TLAPS

\* What is known of the parties in each phase of Start.
PhasesInv ==
  /\ cancelled => signalled
  /\ closing => cancelled
  /\ start = "select" => ~closing
  /\ start = "select" /\ listener = "ended" => listenErr
  /\ start \in {"shutdown", "last"} => closing
  /\ start = "last" => InFlight = {}

\* What Start has seen when it reports that all is well.
ResultInv ==
  /\ result = "nil" => /\ start = "returned"
                       /\ closing /\ InFlight = {}
                       /\ listener = "ended" /\ ~listenErr
  /\ code = "success" => result = "nil"

IInv == TypeOK /\ PhasesInv /\ ResultInv

LEMMA InitIInv == Init => IInv
BY DEF Init, IInv, TypeOK, PhasesInv, ResultInv, InFlight

(***************************************************************************)
(* A server that is closing takes no more requests, so that a request that *)
(* changes state can only leave the set of those in flight.                *)
(***************************************************************************)
LEMMA InFlightShrinks ==
  ASSUME TypeOK, NEW r \in Requests,
         (Arrive(r) /\ closing) \/ Answer(r) \/ Abort(r)
  PROVE  InFlight' \subseteq InFlight
BY DEF TypeOK, Arrive, Answer, Abort, SetRequest, InFlight

LEMMA RequestIInv ==
  ASSUME IInv, NEW r \in Requests, Arrive(r) \/ Answer(r) \/ Abort(r)
  PROVE  IInv'
<1>1. UNCHANGED <<main, code, signalled, cancelled, start, result, listener,
                  listenErr, closing>>
  BY DEF Arrive, Answer, Abort, SetRequest
<1>2. request' \in [Requests -> {"out", "inflight", "answered", "aborted"}]
  BY DEF IInv, TypeOK, Arrive, Answer, Abort, SetRequest
<1>3. closing /\ InFlight = {} => InFlight' = {}
  BY InFlightShrinks DEF IInv, Arrive
<1> QED BY <1>1, <1>2, <1>3 DEF IInv, TypeOK, PhasesInv, ResultInv

LEMMA ReceiveIInv ==
  ASSUME IInv, ReceiveListenResult
  PROVE  IInv'
<1>1. UNCHANGED <<main, code, signalled, cancelled, listener, closing, request>>
  BY DEF ReceiveListenResult
<1>2. /\ start' = "returned" /\ listenErr' = FALSE
      /\ result' = IF listenErr THEN "error" ELSE "nil"
  BY DEF ReceiveListenResult, Return
<1>3. InFlight' = InFlight
  BY <1>1 DEF InFlight
<1>4. ~listenErr => start = "last" /\ listener = "ended"
  BY DEF ReceiveListenResult, Readable, IInv, PhasesInv
<1>5. code # "success"
  BY DEF ReceiveListenResult, IInv, ResultInv
<1> QED
  BY <1>1, <1>2, <1>3, <1>4, <1>5 DEF IInv, TypeOK, PhasesInv, ResultInv

LEMMA StepIInv == IInv /\ [Next]_vars => IInv'
<1> SUFFICES ASSUME IInv, [Next]_vars PROVE IInv'
  OBVIOUS
<1> USE DEF IInv, TypeOK, PhasesInv, ResultInv, InFlight
<1>1. CASE Signal
  BY <1>1 DEF Signal
<1>2. CASE TakeSignal
  BY <1>2 DEF TakeSignal
<1>3. CASE TakeResult
  BY <1>3 DEF TakeResult, Exit
<1>4. CASE ReceiveListenResult
  BY <1>4, ReceiveIInv
<1>5. CASE BeginShutdown
  BY <1>5 DEF BeginShutdown
<1>6. CASE ShutdownDrains
  BY <1>6 DEF ShutdownDrains
<1>7. CASE ShutdownTimesOut
  BY <1>7 DEF ShutdownTimesOut, Return
<1>8. CASE Bind
  BY <1>8 DEF Bind
<1>9. CASE ListenFails
  BY <1>9 DEF ListenFails
<1>10. CASE ServerClosed
  BY <1>10 DEF ServerClosed
<1>11. ASSUME NEW r \in Requests, Arrive(r) \/ Answer(r) \/ Abort(r)
       PROVE  IInv'
  BY <1>11, RequestIInv
<1>12. CASE UNCHANGED vars
  BY <1>12 DEF vars
<1> QED
  BY <1>1, <1>2, <1>3, <1>4, <1>5, <1>6, <1>7, <1>8, <1>9, <1>10, <1>11, <1>12
  DEF Next, Run, Start, Listen

LEMMA SpecIInv == Spec => []IInv
BY InitIInv, StepIInv, PTL DEF Spec

(***************************************************************************)
(* The channels, positions and flags of the three goroutines keep their    *)
(* types.                                                                  *)
(***************************************************************************)
THEOREM LifecycleTypes == Spec => []TypeOK
<1>1. IInv => TypeOK
  BY DEF IInv
<1> QED BY <1>1, SpecIInv, PTL

(***************************************************************************)
(* Exit code 0 means that the process was told to end, serves nobody, and  *)
(* its listener did not fail.                                              *)
(***************************************************************************)
THEOREM SuccessTellsTruth == Spec => []SuccessIsClean
<1>1. IInv => SuccessIsClean
  BY DEF IInv, PhasesInv, ResultInv, SuccessIsClean
<1> QED BY <1>1, SpecIInv, PTL

=============================================================================
