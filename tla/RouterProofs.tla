---------------------------- MODULE RouterProofs ----------------------------
(***************************************************************************)
(* Theorems about Router, for any number of requests and backends, any     *)
(* limits and any ranking: the walk never passes over a backend that was   *)
(* available all along, no reservation leaks, the requests implement the   *)
(* admission semaphore, the telemetry is told what the caller was told,    *)
(* the figures a ranking sees make sense though they are read one by one,  *)
(* and the directory knows only what was sent.                             *)
(***************************************************************************)
EXTENDS Router, RecencyProofs

-----------------------------------------------------------------------------
(* Types.                                                                  *)

LEMMA InitTypes == Init => HandlerTypeOK
<1>1. (CHOOSE b \in Backends : TRUE) \in Backends
  BY BackendAssumption
<1> QED BY <1>1 DEF Init, HandlerTypeOK, Locations

\* What a request is sent and recorded with is a status.
LEMMA RouteStatusType ==
  ASSUME HandlerTypeOK, NEW r \in Requests
  PROVE  RouteStatus(r) \in Statuses \cup {0, 200, 502}
BY DEF HandlerTypeOK, RouteStatus

LEMMA SteadyType ==
  ASSUME HandlerTypeOK, WatchSteady
  PROVE  steady' \in [Requests -> SUBSET Backends]
BY DEF HandlerTypeOK, WatchSteady

LEMMA StepTypes == HandlerTypeOK /\ [Next]_vars => HandlerTypeOK'
<1> SUFFICES ASSUME HandlerTypeOK, [Next]_vars PROVE HandlerTypeOK'
  OBVIOUS
<1> USE DEF HandlerTypeOK, Locations, GoTo, Answer, ForgetWalk, handlerVars,
            exchangeVars
<1>1. ASSUME NEW r \in Requests, Reject(r) \/ Parse(r) PROVE HandlerTypeOK'
  <2>1. CASE Reject(r)
    <3>1. WatchSteady
      BY <2>1 DEF Reject
    <3> QED BY <2>1, <3>1, SteadyType DEF Reject
  <2>2. CASE Parse(r)
    <3>1. WatchSteady
      BY <2>2 DEF Parse
    <3> QED BY <2>2, <3>1, SteadyType DEF Parse
  <2> QED BY <1>1, <2>1, <2>2
<1>2. ASSUME NEW r \in Requests, NEW b \in Backends,
             ReadHealth(r, b) \/ CheckHealth(r, b)
      PROVE  HandlerTypeOK'
  <2>1. CASE ReadHealth(r, b)
    <3>1. steady' \in [Requests -> SUBSET Backends]
      BY <2>1, SteadyType DEF ReadHealth
    <3>2. /\ unread' = [unread EXCEPT ![r] = @ \ {b}]
          /\ seen' = [seen EXCEPT ![r] = IF healthy[b] THEN @ \cup {b} ELSE @]
      BY <2>1 DEF ReadHealth
    <3>3. /\ unread' \in [Requests -> SUBSET Backends]
          /\ seen' \in [Requests -> SUBSET Backends]
      BY <3>2
    <3>4. /\ pc' \in [Requests -> Locations]
          /\ sent' \in [Requests -> Statuses \cup {0, 200, 400, 429, 502, 503}]
      <4>1. CASE unread'[r] # {}
        BY <2>1, <4>1 DEF ReadHealth
      <4>2. CASE unread'[r] = {} /\ seen'[r] # {}
        BY <2>1, <4>2 DEF ReadHealth
      <4>3. CASE unread'[r] = {} /\ seen'[r] = {}
        <5>1. pc' = [pc EXCEPT ![r] = "done"] /\ sent' = [sent EXCEPT ![r] = 503]
          BY <2>1, <4>3 DEF ReadHealth
        <5>2. pc' \in [Requests -> Locations]
          BY <5>1
        <5>3. sent' \in [Requests -> Statuses \cup {0, 200, 400, 429, 502, 503}]
          BY <5>1
        <5> QED BY <5>2, <5>3
      <4> QED BY <4>1, <4>2, <4>3
    <3>5. UNCHANGED <<healthy, queueDepth, candidates, target, status, firstByte,
                      ended, recorded>>
      BY <2>1 DEF ReadHealth
    <3> QED BY <3>1, <3>3, <3>4, <3>5
  <2>2. CASE CheckHealth(r, b)
    <3>1. steady' \in [Requests -> SUBSET Backends]
      BY <2>2, SteadyType DEF CheckHealth
    <3>2. /\ pc' \in [Requests -> Locations]
          /\ target' \in [Requests -> Backends]
          /\ candidates' \in [Requests -> SUBSET Backends]
      <4>1. CASE healthy[b]
        BY <2>2, <4>1 DEF CheckHealth
      <4>2. CASE ~healthy[b]
        BY <2>2, <4>2 DEF CheckHealth
      <4> QED BY <4>1, <4>2
    <3>3. UNCHANGED <<healthy, queueDepth, unread, seen, status, firstByte, ended,
                      sent, recorded>>
      BY <2>2 DEF CheckHealth
    <3> QED BY <3>1, <3>2, <3>3
  <2> QED BY <1>2, <2>1, <2>2
<1>3. ASSUME NEW r \in Requests, NEW b \in Backends,
             \/ LookupBlocks(r, b)
             \/ ReadUsage(r, b)
             \/ ReadQueueDepth(r, b)
      PROVE  HandlerTypeOK'
  <2>1. CASE LookupBlocks(r, b)
    <3>1. WatchSteady
      BY <2>1 DEF LookupBlocks
    <3> QED BY <2>1, <3>1, SteadyType DEF LookupBlocks
  <2>2. CASE ReadUsage(r, b)
    <3>1. WatchSteady
      BY <2>2 DEF ReadUsage
    <3> QED BY <2>2, <3>1, SteadyType DEF ReadUsage
  <2>3. CASE ReadQueueDepth(r, b)
    <3>1. WatchSteady
      BY <2>3 DEF ReadQueueDepth
    <3> QED BY <2>3, <3>1, SteadyType DEF ReadQueueDepth
  <2> QED BY <1>3, <2>1, <2>2, <2>3
<1>4. ASSUME NEW r \in Requests, TryReserve(r) \/ AtCapacity(r)
      PROVE  HandlerTypeOK'
  <2>1. CASE TryReserve(r)
    <3>1. WatchSteady /\ steady' \in [Requests -> SUBSET Backends]
      BY <2>1, SteadyType DEF TryReserve
    <3>2. /\ pc' \in [Requests -> Locations]
          /\ candidates' \in [Requests -> SUBSET Backends]
          /\ seen' \in [Requests -> SUBSET Backends]
      <4>1. CASE Free(target[r])
        <5>1. /\ pc' = [pc EXCEPT ![r] = "forward"]
              /\ candidates' = [candidates EXCEPT ![r] = {}]
              /\ seen' = [seen EXCEPT ![r] = {}]
          BY <2>1, <4>1 DEF TryReserve, Reserve
        <5>2. candidates' \in [Requests -> SUBSET Backends]
          BY <5>1
        <5>3. seen' \in [Requests -> SUBSET Backends]
          BY <5>1
        <5> QED BY <5>1, <5>2, <5>3
      <4>2. CASE ~Free(target[r])
        BY <2>1, <4>2 DEF TryReserve
      <4> QED BY <4>1, <4>2
    <3>3. queueDepth' \in [Backends -> Int]
      <4>1. CASE Free(target[r])
        BY <2>1, <4>1 DEF TryReserve, Reserve
      <4>2. CASE ~Free(target[r])
        BY <2>1, <4>2 DEF TryReserve
      <4> QED BY <4>1, <4>2
    <3>4. UNCHANGED <<healthy, unread, target, status, firstByte, ended, sent,
                      recorded>>
      BY <2>1 DEF TryReserve
    <3> QED BY <3>1, <3>2, <3>3, <3>4
  <2>2. CASE AtCapacity(r)
    <3>1. WatchSteady /\ steady' \in [Requests -> SUBSET Backends]
      BY <2>2, SteadyType DEF AtCapacity
    <3>2. pc' \in [Requests -> Locations]
      BY <2>2 DEF AtCapacity
    <3>3. sent' \in [Requests -> Statuses \cup {0, 200, 400, 429, 502, 503}]
      BY <2>2 DEF AtCapacity
    <3>4. /\ seen' \in [Requests -> SUBSET Backends]
          /\ candidates' \in [Requests -> SUBSET Backends]
      BY <2>2 DEF AtCapacity
    <3>5. UNCHANGED <<healthy, queueDepth, unread, target, status, firstByte, ended,
                      recorded>>
      BY <2>2 DEF AtCapacity
    <3> QED BY <3>1, <3>2, <3>3, <3>4, <3>5
  <2> QED BY <1>4, <2>1, <2>2
<1>5. ASSUME NEW r \in Requests, AwaitHeaders(r) PROVE HandlerTypeOK'
  <2>1. ASSUME NEW cause \in Causes, ForwardFails(r, cause) PROVE HandlerTypeOK'
    <3>1. WatchSteady
      BY <2>1 DEF ForwardFails
    <3> QED BY <2>1, <3>1, SteadyType DEF ForwardFails, Causes
  <2>2. ASSUME NEW code \in Statuses, HeadersArrive(r, code)
        PROVE  HandlerTypeOK'
    <3>1. WatchSteady
      BY <2>2 DEF HeadersArrive
    <3> QED BY <2>2, <3>1, SteadyType DEF HeadersArrive
  <2> QED BY <1>5, <2>1, <2>2 DEF AwaitHeaders
<1>6. ASSUME NEW r \in Requests, FirstByteArrives(r) PROVE HandlerTypeOK'
  <2>1. WatchSteady
    BY <1>6 DEF FirstByteArrives
  <2> QED BY <1>6, <2>1, SteadyType DEF FirstByteArrives
<1>7. ASSUME NEW r \in Requests, AwaitEnd(r) \/ CommitCacheObservation(r)
      PROVE  HandlerTypeOK'
  <2>1. CASE AwaitEnd(r)
    <3>1. WatchSteady
      BY <2>1 DEF AwaitEnd, BodyEnds
    <3> QED BY <2>1, <3>1, SteadyType DEF AwaitEnd, BodyEnds, Causes
  <2>2. CASE CommitCacheObservation(r)
    <3>1. WatchSteady
      BY <2>2 DEF CommitCacheObservation
    <3> QED BY <2>2, <3>1, SteadyType DEF CommitCacheObservation
  <2> QED BY <1>7, <2>1, <2>2
<1>8. ASSUME NEW r \in Requests, RecordRoute(r) PROVE HandlerTypeOK'
  <2>1. WatchSteady
    BY <1>8 DEF RecordRoute
  <2> QED BY <1>8, <2>1, SteadyType, RouteStatusType DEF RecordRoute
<1>9. ASSUME NEW r \in Requests, Release(r) PROVE HandlerTypeOK'
  <2>1. WatchSteady
    BY <1>9 DEF Release
  <2> QED BY <1>9, <2>1, SteadyType DEF Release
<1>10. ASSUME NEW b \in Flaky, HealthFlips(b) PROVE HandlerTypeOK'
  <2>1. WatchSteady
    BY <1>10 DEF HealthFlips
  <2> QED BY <1>10, <2>1, SteadyType, FlakyAssumption DEF HealthFlips
<1>11. CASE UNCHANGED vars
  BY <1>11 DEF vars
<1> QED BY <1>1, <1>2, <1>3, <1>4, <1>5, <1>6, <1>7, <1>8, <1>9, <1>10, <1>11
        DEF Next, Handle

(***************************************************************************)
(* The flags, lists, statuses and control points of the handlers are of    *)
(* their declared types.                                                   *)
(***************************************************************************)
THEOREM HandlerTypesCorrect == Spec => []HandlerTypeOK
BY InitTypes, StepTypes, PTL DEF Spec

-----------------------------------------------------------------------------
(* No available backend is missed: the invariant is inductive.             *)

Unmissed(r) ==
  /\ pc[r] = "health" => steady[r] \subseteq seen[r] \cup unread[r]
  /\ pc[r] \in Choosing => steady[r] \subseteq candidates[r]

\* Waiting at a control point can only make a backend unavailable.
LEMMA SteadyShrinks ==
  ASSUME HandlerTypeOK, WatchSteady, NEW r \in Requests, pc'[r] = pc[r],
         pc[r] \in Choosing \cup {"health"}
  PROVE  steady'[r] \subseteq steady[r]
BY DEF HandlerTypeOK, WatchSteady, Choosing

\* A step that leaves a request's own variables alone misses nothing for it.
LEMMA OthersUnmissed ==
  ASSUME HandlerTypeOK, WatchSteady, NEW r \in Requests, Unmissed(r),
         pc'[r] = pc[r], seen'[r] = seen[r], unread'[r] = unread[r],
         candidates'[r] = candidates[r]
  PROVE  Unmissed(r)'
BY SteadyShrinks DEF Unmissed, Choosing

\* A location that is neither reading flags nor choosing misses nothing.
LEMMA ElsewhereUnmissed ==
  ASSUME NEW r \in Requests, pc'[r] \notin Choosing \cup {"health"}
  PROVE  Unmissed(r)'
BY DEF Unmissed, Choosing

\* What the steps of q leave alone: the variables of the other requests.
OthersAlone(q) ==
  \A r \in Requests \ {q} : /\ pc'[r] = pc[r]
                            /\ seen'[r] = seen[r]
                            /\ unread'[r] = unread[r]
                            /\ candidates'[r] = candidates[r]

LEMMA ParseUnmissed ==
  ASSUME HandlerTypeOK, NEW q \in Requests, Parse(q)
  PROVE  Unmissed(q)'
<1>1. pc'[q] = "health" /\ unread'[q] = Backends
  BY DEF Parse, GoTo, HandlerTypeOK
<1>2. steady'[q] \subseteq Backends
  BY SteadyType DEF Parse, HandlerTypeOK
<1> QED BY <1>1, <1>2 DEF Unmissed, Choosing

LEMMA ReadHealthUnmissed ==
  ASSUME HandlerTypeOK, NEW q \in Requests, NEW b \in Backends,
         Unmissed(q), ReadHealth(q, b)
  PROVE  Unmissed(q)'
<1>1. /\ pc[q] = "health" /\ b \in unread[q] /\ WatchSteady
      /\ unread'[q] = unread[q] \ {b} /\ healthy' = healthy
      /\ seen'[q] = IF healthy[b] THEN seen[q] \cup {b} ELSE seen[q]
  BY DEF ReadHealth, HandlerTypeOK
<1>2. CASE pc'[q] = "health"
  <2>1. \A c \in steady'[q] : c \in steady[q] /\ healthy[c]
    BY <1>1, <1>2 DEF WatchSteady
  <2>2. steady[q] \subseteq seen[q] \cup unread[q]
    BY <1>1 DEF Unmissed
  <2>3. steady'[q] \subseteq seen'[q] \cup unread'[q]
    BY <1>1, <2>1, <2>2
  <2> QED BY <1>2, <2>3 DEF Unmissed, Choosing
<1>3. CASE pc'[q] # "health"
  <2>1. \/ pc' = pc
        \/ pc' = [pc EXCEPT ![q] = "lookup"]
        \/ pc' = [pc EXCEPT ![q] = "done"]
    BY DEF ReadHealth, GoTo
  <2>2. pc'[q] \in {"lookup", "done"}
    BY <1>1, <1>3, <2>1 DEF HandlerTypeOK
  <2> QED BY <2>2, ElsewhereUnmissed DEF Choosing
<1> QED BY <1>2, <1>3

LEMMA ReadQueueDepthUnmissed ==
  ASSUME HandlerTypeOK, NEW q \in Requests, NEW b \in Backends,
         ReadQueueDepth(q, b)
  PROVE  Unmissed(q)'
<1>1. pc[q] = "depth" /\ WatchSteady /\ seen' = seen
  BY DEF ReadQueueDepth
<1>2. CASE DOMAIN snap[q] = seen[q]
  <2>1. pc'[q] = "walk" /\ candidates'[q] = seen[q]
    BY <1>2 DEF ReadQueueDepth, GoTo, HandlerTypeOK
  <2>2. steady'[q] \subseteq seen[q]
    BY <1>1, <2>1 DEF WatchSteady, Choosing
  <2> QED BY <2>1, <2>2 DEF Unmissed
<1>3. CASE DOMAIN snap[q] # seen[q]
  <2>1. pc'[q] = "lookup"
    BY <1>3 DEF ReadQueueDepth, GoTo, HandlerTypeOK
  <2> QED BY <2>1, ElsewhereUnmissed DEF Choosing
<1> QED BY <1>2, <1>3

LEMMA CheckHealthUnmissed ==
  ASSUME HandlerTypeOK, NEW q \in Requests, NEW b \in Backends,
         Unmissed(q), CheckHealth(q, b)
  PROVE  Unmissed(q)'
<1>1. pc[q] \in Choosing /\ WatchSteady /\ healthy' = healthy
  BY DEF CheckHealth, Choosing
<1>2. CASE healthy[b]
  <2>1. pc'[q] = "reserve" /\ candidates' = candidates
    BY <1>2 DEF CheckHealth, GoTo, HandlerTypeOK
  <2>2. steady'[q] \subseteq steady[q]
    BY <1>1, <2>1 DEF WatchSteady, Choosing
  <2> QED BY <1>1, <2>1, <2>2 DEF Unmissed, Choosing
<1>3. CASE ~healthy[b]
  <2>1. pc' = pc /\ candidates'[q] = candidates[q] \ {b}
    BY <1>3 DEF CheckHealth, HandlerTypeOK
  <2>2. steady'[q] \subseteq {c \in steady[q] : healthy[c]}
    BY <1>1, <2>1 DEF WatchSteady, Choosing
  <2> QED BY <1>1, <1>3, <2>1, <2>2 DEF Unmissed, Choosing
<1> QED BY <1>2, <1>3

LEMMA TryReserveUnmissed ==
  ASSUME HandlerTypeOK, NEW q \in Requests, Unmissed(q), TryReserve(q)
  PROVE  Unmissed(q)'
<1> DEFINE b == target[q]
<1>1. pc[q] = "reserve" /\ WatchSteady /\ target' = target
  BY DEF TryReserve
<1>2. CASE Free(b)
  <2>1. pc'[q] = "forward"
    BY <1>2 DEF TryReserve, Reserve, GoTo, HandlerTypeOK
  <2> QED BY <2>1, ElsewhereUnmissed DEF Choosing
<1>3. CASE ~Free(b)
  <2>1. pc'[q] = "refused" /\ candidates'[q] = candidates[q] \ {b}
    BY <1>3 DEF TryReserve, GoTo, HandlerTypeOK
  <2>2. ~Free(b)'
    BY <1>1, <1>3 DEF TryReserve, Free
  <2>3. steady'[q] \subseteq {c \in steady[q] : Free(c)'}
    BY <1>1, <2>1 DEF WatchSteady, Choosing, HandlerTypeOK
  <2> QED BY <1>1, <2>1, <2>2, <2>3 DEF Unmissed, Choosing
<1> QED BY <1>2, <1>3

\* What every step of q leaves alone, and where its remaining steps lead.
LEMMA HandlerLeavesOthersAlone ==
  ASSUME HandlerTypeOK, NEW q \in Requests,
         \/ Reject(q) \/ Parse(q) \/ Handle(q)
         \/ AwaitHeaders(q) \/ FirstByteArrives(q) \/ AwaitEnd(q)
  PROVE  WatchSteady /\ OthersAlone(q)
<1> USE DEF HandlerTypeOK, OthersAlone, GoTo, Answer, ForgetWalk, handlerVars,
            exchangeVars
<1>1. CASE Reject(q) \/ Parse(q)
  BY <1>1 DEF Reject, Parse
<1>2. ASSUME NEW b \in Backends, ReadHealth(q, b) \/ CheckHealth(q, b)
      PROVE  WatchSteady /\ OthersAlone(q)
  BY <1>2 DEF ReadHealth, CheckHealth
<1>3. ASSUME NEW b \in Backends,
             LookupBlocks(q, b) \/ ReadUsage(q, b) \/ ReadQueueDepth(q, b)
      PROVE  WatchSteady /\ OthersAlone(q)
  BY <1>3 DEF LookupBlocks, ReadUsage, ReadQueueDepth
<1>4. CASE TryReserve(q) \/ AtCapacity(q)
  BY <1>4 DEF TryReserve, Reserve, AtCapacity
<1>5. CASE AwaitHeaders(q) \/ FirstByteArrives(q) \/ AwaitEnd(q)
  BY <1>5 DEF AwaitHeaders, ForwardFails, HeadersArrive, FirstByteArrives,
              AwaitEnd, BodyEnds
<1>6. CASE CommitCacheObservation(q) \/ RecordRoute(q) \/ Release(q)
  BY <1>6 DEF CommitCacheObservation, RecordRoute, Release
<1> QED BY <1>1, <1>2, <1>3, <1>4, <1>5, <1>6 DEF Handle

LEMMA HandlerUnmissed ==
  ASSUME HandlerTypeOK, NEW q \in Requests, Unmissed(q),
         \/ Reject(q) \/ Parse(q) \/ Handle(q)
         \/ AwaitHeaders(q) \/ FirstByteArrives(q) \/ AwaitEnd(q)
  PROVE  Unmissed(q)'
<1>1. CASE Parse(q)
  BY <1>1, ParseUnmissed
<1>2. ASSUME NEW b \in Backends,
             \/ ReadHealth(q, b) \/ ReadQueueDepth(q, b) \/ CheckHealth(q, b)
      PROVE  Unmissed(q)'
  BY <1>2, ReadHealthUnmissed, ReadQueueDepthUnmissed, CheckHealthUnmissed
<1>3. CASE TryReserve(q)
  BY <1>3, TryReserveUnmissed
<1>4. ASSUME NEW b \in Backends, LookupBlocks(q, b) \/ ReadUsage(q, b)
      PROVE  Unmissed(q)'
  <2>1. pc'[q] \in {"usage", "depth"}
    BY <1>4 DEF LookupBlocks, ReadUsage, GoTo, HandlerTypeOK
  <2> QED BY <2>1, ElsewhereUnmissed DEF Choosing
<1>5. CASE Reject(q) \/ AtCapacity(q) \/ RecordRoute(q) \/ Release(q)
  <2>1. pc'[q] \in {"done", "release"}
    BY <1>5 DEF Reject, AtCapacity, RecordRoute, Release, GoTo, HandlerTypeOK
  <2> QED BY <2>1, ElsewhereUnmissed DEF Choosing
<1>6. CASE \/ AwaitHeaders(q) \/ FirstByteArrives(q) \/ AwaitEnd(q)
           \/ CommitCacheObservation(q)
  <2>1. pc'[q] \in {"body", "commit", "record"}
    BY <1>6 DEF AwaitHeaders, ForwardFails, HeadersArrive, FirstByteArrives,
                AwaitEnd, BodyEnds, CommitCacheObservation, GoTo, HandlerTypeOK
  <2> QED BY <2>1, ElsewhereUnmissed DEF Choosing
<1> QED BY <1>1, <1>2, <1>3, <1>4, <1>5, <1>6 DEF Handle

LEMMA StepUnmissed ==
  HandlerTypeOK /\ NoAvailableBackendMissed /\ [Next]_vars
    => NoAvailableBackendMissed'
<1> SUFFICES ASSUME HandlerTypeOK, NoAvailableBackendMissed, [Next]_vars,
                    NEW r \in Requests
             PROVE  Unmissed(r)'
  BY DEF NoAvailableBackendMissed, Unmissed
<1>1. Unmissed(r)
  BY DEF NoAvailableBackendMissed, Unmissed
<1>2. ASSUME NEW q \in Requests,
             \/ Reject(q) \/ Parse(q) \/ Handle(q)
             \/ AwaitHeaders(q) \/ FirstByteArrives(q) \/ AwaitEnd(q)
      PROVE  Unmissed(r)'
  <2>1. CASE q = r
    BY <1>1, <1>2, <2>1, HandlerUnmissed
  <2>2. CASE q # r
    <3>1. WatchSteady /\ OthersAlone(q)
      BY <1>2, HandlerLeavesOthersAlone
    <3>2. CASE pc[r] \in Choosing \cup {"health"}
      BY <1>1, <2>2, <3>1, <3>2, OthersUnmissed DEF OthersAlone
    <3>3. CASE pc[r] \notin Choosing \cup {"health"}
      BY <2>2, <3>1, <3>3, ElsewhereUnmissed DEF OthersAlone
    <3> QED BY <3>2, <3>3
  <2> QED BY <2>1, <2>2
<1>3. ASSUME NEW b \in Flaky, HealthFlips(b)
      PROVE  Unmissed(r)'
  <2>1. /\ WatchSteady /\ pc' = pc /\ seen' = seen /\ unread' = unread
        /\ candidates' = candidates
    BY <1>3 DEF HealthFlips, handlerVars
  <2> QED BY <1>1, <2>1, OthersUnmissed, ElsewhereUnmissed
<1>4. CASE UNCHANGED vars
  BY <1>1, <1>4 DEF vars, handlerVars, Unmissed
<1> QED BY <1>2, <1>3, <1>4 DEF Next

(***************************************************************************)
(* Issue #1 for every number of requests and backends: while a request     *)
(* reads the flags or walks its ranking, it has still ahead of it every    *)
(* backend that has been available since it began.                         *)
(***************************************************************************)
THEOREM NoAvailableBackendIsMissed == Spec => []NoAvailableBackendMissed
<1>1. Init => NoAvailableBackendMissed
  BY DEF Init, NoAvailableBackendMissed, Choosing
<1> QED BY <1>1, StepUnmissed, HandlerTypesCorrect, PTL DEF Spec

-----------------------------------------------------------------------------
(* No leaked reservation: the counters count the requests being served.    *)

LEMMA OccupantsFinite ==
  ASSUME NEW b \in Backends
  PROVE  IsFiniteSet(Occupants(b))
BY RequestAssumption, FS_Subset DEF Occupants

\* Apart from TryReserve and Release no step of a handler makes a request
\* occupy a slot or leave one, and none touches a counter.
LEMMA NobodyEnters ==
  ASSUME HandlerTypeOK, NEW q \in Requests, ~TryReserve(q), ~Release(q),
         \/ Reject(q) \/ Parse(q) \/ Handle(q)
         \/ AwaitHeaders(q) \/ FirstByteArrives(q) \/ AwaitEnd(q)
  PROVE  /\ queueDepth' = queueDepth
         /\ \A b \in Backends : Occupants(b)' = Occupants(b)
<1> DEFINE Quiet == /\ queueDepth' = queueDepth
                    /\ pc'[q] \in Occupying <=> pc[q] \in Occupying
                    /\ pc[q] \in Occupying => target'[q] = target[q]
                    /\ \A r \in Requests \ {q} : /\ pc'[r] = pc[r]
                                                  /\ target'[r] = target[r]
<1> USE DEF GoTo, HandlerTypeOK, Occupying, handlerVars
<1>1. CASE Reject(q) \/ Parse(q) \/ AtCapacity(q)
  <2>1. Quiet
    BY <1>1 DEF Reject, Parse, AtCapacity
  <2> QED BY <2>1 DEF Occupants
<1>2. ASSUME NEW c \in Backends,
             \/ ReadHealth(q, c) \/ LookupBlocks(q, c)
             \/ ReadUsage(q, c) \/ ReadQueueDepth(q, c)
      PROVE  Quiet
  BY <1>2 DEF ReadHealth, LookupBlocks, ReadUsage, ReadQueueDepth
<1>3. ASSUME NEW c \in Backends, CheckHealth(q, c)
      PROVE  Quiet
  BY <1>3 DEF CheckHealth
<1>4. CASE AwaitHeaders(q) \/ FirstByteArrives(q) \/ AwaitEnd(q)
  <2>1. Quiet
    BY <1>4 DEF AwaitHeaders, ForwardFails, HeadersArrive, FirstByteArrives,
                AwaitEnd, BodyEnds
  <2> QED BY <2>1 DEF Occupants
<1>5. CASE CommitCacheObservation(q) \/ RecordRoute(q)
  <2>1. Quiet
    BY <1>5 DEF CommitCacheObservation, RecordRoute
  <2> QED BY <2>1 DEF Occupants
<1>6. ASSUME Quiet
      PROVE  /\ queueDepth' = queueDepth
             /\ \A b \in Backends : Occupants(b)' = Occupants(b)
  BY <1>6 DEF Occupants
<1> HIDE DEF Quiet
<1> QED BY <1>1, <1>2, <1>3, <1>4, <1>5, <1>6 DEF Handle

\* A granted reservation: one occupant more, and the counter one higher.
LEMMA GrantEffect ==
  ASSUME HandlerTypeOK, NEW q \in Requests, TryReserve(q), Free(target[q])
  PROVE  /\ queueDepth' = [queueDepth EXCEPT ![target[q]] = @ + 1]
         /\ q \notin Occupants(target[q])
         /\ \A b \in Backends :
              Occupants(b)' = IF b = target[q] THEN Occupants(b) \cup {q}
                                              ELSE Occupants(b)
<1>1. /\ pc[q] = "reserve" /\ target' = target
      /\ pc' = [pc EXCEPT ![q] = "forward"]
      /\ queueDepth' = [queueDepth EXCEPT ![target[q]] = @ + 1]
  BY DEF TryReserve, Reserve, GoTo
<1> QED BY <1>1 DEF Occupants, Occupying, HandlerTypeOK

\* The deferred Release: one occupant less, and the counter one lower.
LEMMA ReleaseEffect ==
  ASSUME HandlerTypeOK, NEW q \in Requests, Release(q)
  PROVE  /\ queueDepth' = [queueDepth EXCEPT ![target[q]] = @ - 1]
         /\ q \in Occupants(target[q])
         /\ \A b \in Backends :
              Occupants(b)' = IF b = target[q] THEN Occupants(b) \ {q}
                                              ELSE Occupants(b)
<1>1. /\ pc[q] = "release" /\ target' = target
      /\ pc' = [pc EXCEPT ![q] = "done"]
      /\ queueDepth' = [queueDepth EXCEPT ![target[q]] = @ - 1]
  BY DEF Release, GoTo, handlerVars
<1> QED BY <1>1 DEF Occupants, Occupying, HandlerTypeOK

LEMMA StepCounter ==
  HandlerTypeOK /\ CounterIsOccupants /\ [Next]_vars => CounterIsOccupants'
<1> SUFFICES ASSUME HandlerTypeOK, CounterIsOccupants, [Next]_vars,
                    NEW b \in Backends
             PROVE  queueDepth'[b] = Cardinality(Occupants(b)')
  BY DEF CounterIsOccupants
<1>1. /\ queueDepth[b] = Cardinality(Occupants(b)) /\ IsFiniteSet(Occupants(b))
      /\ Cardinality(Occupants(b)) \in Nat
  BY OccupantsFinite, FS_CardinalityType DEF CounterIsOccupants
<1>2. ASSUME queueDepth' = queueDepth, Occupants(b)' = Occupants(b)
      PROVE  queueDepth'[b] = Cardinality(Occupants(b)')
  BY <1>1, <1>2
<1>3. ASSUME NEW q \in Requests, TryReserve(q)
      PROVE  queueDepth'[b] = Cardinality(Occupants(b)')
  <2>1. CASE Free(target[q]) /\ target[q] = b
    <3>1. Cardinality(Occupants(b) \cup {q}) = Cardinality(Occupants(b)) + 1
      BY <1>1, <1>3, <2>1, GrantEffect, FS_AddElement
    <3>2. queueDepth'[b] = queueDepth[b] + 1 /\ Occupants(b)' = Occupants(b) \cup {q}
      BY <1>3, <2>1, GrantEffect DEF HandlerTypeOK
    <3> QED BY <1>1, <3>1, <3>2
  <2>2. CASE Free(target[q]) /\ target[q] # b
    BY <1>1, <1>3, <2>2, GrantEffect DEF HandlerTypeOK
  <2>3. CASE ~Free(target[q])
    <3>1. pc'[q] = "refused" /\ queueDepth' = queueDepth /\ target' = target
      BY <1>3, <2>3 DEF TryReserve, GoTo, HandlerTypeOK
    <3>2. pc[q] = "reserve" /\ \A r \in Requests \ {q} : pc'[r] = pc[r]
      BY <1>3, <2>3 DEF TryReserve, GoTo, HandlerTypeOK
    <3>3. Occupants(b)' = Occupants(b)
      BY <3>1, <3>2 DEF Occupants, Occupying
    <3> QED BY <1>2, <3>1, <3>3
  <2> QED BY <2>1, <2>2, <2>3
<1>4. ASSUME NEW q \in Requests, Release(q)
      PROVE  queueDepth'[b] = Cardinality(Occupants(b)')
  <2>1. CASE target[q] = b
    <3>1. Cardinality(Occupants(b) \ {q}) = Cardinality(Occupants(b)) - 1
      BY <1>1, <1>4, <2>1, ReleaseEffect, FS_RemoveElement
    <3>2. queueDepth'[b] = queueDepth[b] - 1 /\ Occupants(b)' = Occupants(b) \ {q}
      BY <1>4, <2>1, ReleaseEffect DEF HandlerTypeOK
    <3> QED BY <1>1, <3>1, <3>2
  <2>2. CASE target[q] # b
    BY <1>1, <1>4, <2>2, ReleaseEffect DEF HandlerTypeOK
  <2> QED BY <2>1, <2>2
<1>5. ASSUME NEW c \in Flaky, HealthFlips(c)
      PROVE  queueDepth'[b] = Cardinality(Occupants(b)')
  BY <1>2, <1>5 DEF HealthFlips, handlerVars, Occupants
<1>6. CASE UNCHANGED vars
  BY <1>2, <1>6 DEF vars, handlerVars, Occupants
<1> QED BY <1>2, <1>3, <1>4, <1>5, <1>6, NobodyEnters DEF Next

(***************************************************************************)
(* "No leaked reservation", for every number of requests, backends and     *)
(* limits: whatever becomes of a request after TryReserve, an error of the *)
(* backend, an early return, a caller who left, the counter of a backend   *)
(* is the number of requests it serves.                                    *)
(***************************************************************************)
THEOREM NoReservationLeaks == Spec => []CounterIsOccupants
<1>1. Init => CounterIsOccupants
  <2> SUFFICES ASSUME Init, NEW b \in Backends
               PROVE  queueDepth[b] = Cardinality(Occupants(b))
    BY DEF CounterIsOccupants
  <2>1. Occupants(b) = {}
    BY DEF Init, Occupants, Occupying
  <2> QED BY <2>1, FS_EmptySet DEF Init
<1> QED BY <1>1, StepCounter, HandlerTypesCorrect, PTL DEF Spec

-----------------------------------------------------------------------------
(* The requests implement the admission semaphore.                         *)

\* The semaphore's holders are the requests that occupy a slot.
LEMMA SameOccupants ==
  ASSUME NEW b \in Backends
  PROVE  Semaphore!Holders(b) = Occupants(b)
BY DEF Semaphore!Holders, Occupants, Occupying, SeenState, Seen

LEMMA SameCardinality ==
  ASSUME NEW S
  PROVE  Semaphore!Cardinality(S) = Cardinality(S)
BY Zenon DEF Semaphore!Cardinality, Cardinality

LEMMA SameFree ==
  ASSUME CounterIsOccupants, NEW b \in Backends
  PROVE  Semaphore!Cardinality(Semaphore!Holders(b)) = queueDepth[b]
BY SameOccupants, SameCardinality DEF CounterIsOccupants

\* A step that the semaphore does not see.
LEMMA Unseen ==
  ASSUME HandlerTypeOK, NEW q \in Requests, NEW location,
         pc' = [pc EXCEPT ![q] = location], Seen(location) = Seen(pc[q]),
         target' = target
  PROVE  UNCHANGED Semaphore!semVars
BY DEF HandlerTypeOK, Semaphore!semVars, SeenState

\* A step that the semaphore sees as a change of the request's state.
LEMMA SeenChange ==
  ASSUME HandlerTypeOK, NEW q \in Requests, NEW location,
         pc' = [pc EXCEPT ![q] = location]
  PROVE  SeenState' = [SeenState EXCEPT ![q] = Seen(location)]
BY DEF HandlerTypeOK, SeenState

LEMMA Untouched ==
  ASSUME pc' = pc, target' = target
  PROVE  UNCHANGED Semaphore!semVars
BY DEF Semaphore!semVars, SeenState

LEMMA SeenAs ==
  /\ Seen("reserve") = "asking"
  /\ Seen("refused") = "refused"
  /\ \A location \in Occupying : Seen(location) = "holding"
  /\ \A location \in Locations \ (Occupying \cup {"reserve", "refused"}) :
       Seen(location) = "out"
  /\ Seen("done") = "out"
BY DEF Seen, Occupying

LEMMA StepSemaphore ==
  HandlerTypeOK /\ CounterIsOccupants /\ [Next]_vars
    => [Semaphore!SemNext]_(Semaphore!semVars)
<1> SUFFICES ASSUME HandlerTypeOK, CounterIsOccupants, [Next]_vars
             PROVE  Semaphore!SemNext \/ UNCHANGED Semaphore!semVars
  OBVIOUS
<1>1. ASSUME NEW q \in Requests, Reject(q) \/ Parse(q)
      PROVE  UNCHANGED Semaphore!semVars
  BY <1>1, Unseen DEF Reject, Parse, GoTo, Seen, Occupying, handlerVars
<1>2. ASSUME NEW q \in Requests, NEW b \in Backends,
             \/ ReadHealth(q, b) \/ LookupBlocks(q, b) \/ ReadUsage(q, b)
             \/ ReadQueueDepth(q, b)
      PROVE  UNCHANGED Semaphore!semVars
  <2>1. CASE ReadHealth(q, b)
    <3>1. CASE pc' = pc
      BY <2>1, <3>1, Untouched DEF ReadHealth
    <3>2. CASE pc' # pc
      BY <2>1, <3>2, Unseen DEF ReadHealth, GoTo, Seen, Occupying
    <3> QED BY <3>1, <3>2
  <2>2. CASE LookupBlocks(q, b) \/ ReadUsage(q, b)
    BY <2>2, Unseen DEF LookupBlocks, ReadUsage, GoTo, Seen, Occupying
  <2>3. CASE ReadQueueDepth(q, b)
    BY <2>3, Unseen DEF ReadQueueDepth, GoTo, Seen, Occupying
  <2> QED BY <1>2, <2>1, <2>2, <2>3
<1>3. ASSUME NEW q \in Requests, NEW b \in Backends, CheckHealth(q, b)
      PROVE  Semaphore!SemNext \/ UNCHANGED Semaphore!semVars
  <2>1. CASE healthy[b]
    <3>1. /\ pc[q] \in {"walk", "refused"}
          /\ pc' = [pc EXCEPT ![q] = "reserve"]
          /\ target' = [target EXCEPT ![q] = b]
      BY <1>3, <2>1 DEF CheckHealth, GoTo
    <3>2. SeenState' = [SeenState EXCEPT ![q] = "asking"]
      BY <3>1, SeenChange, SeenAs
    <3>3. SeenState[q] \in {"out", "refused"}
      BY <3>1, SeenAs DEF SeenState, Occupying, Locations
    <3>4. Semaphore!Ask(q, b)
      BY <3>1, <3>2, <3>3 DEF Semaphore!Ask
    <3> QED BY <3>4 DEF Semaphore!SemNext
  <2>2. CASE ~healthy[b]
    BY <1>3, <2>2, Untouched DEF CheckHealth
  <2> QED BY <2>1, <2>2
<1>4. ASSUME NEW q \in Requests, TryReserve(q)
      PROVE  Semaphore!SemNext
  <2> DEFINE b == target[q]
  <2>1. b \in Backends /\ pc[q] = "reserve" /\ target' = target
    BY <1>4 DEF TryReserve, HandlerTypeOK
  <2>2. SeenState[q] = "asking"
    BY <2>1, SeenAs DEF SeenState
  <2>3. CASE Free(b)
    <3>1. SeenState' = [SeenState EXCEPT ![q] = "holding"]
      BY <1>4, <2>3, SeenChange, SeenAs DEF TryReserve, Reserve, GoTo, Occupying
    <3>2. Semaphore!Cardinality(Semaphore!Holders(b)) < Limit[b]
      BY <2>1, <2>3, SameFree DEF Free
    <3>3. Semaphore!Grant(q)
      BY <2>1, <2>2, <3>1, <3>2 DEF Semaphore!Grant
    <3> QED BY <3>3 DEF Semaphore!SemNext
  <2>4. CASE ~Free(b)
    <3>1. SeenState' = [SeenState EXCEPT ![q] = "refused"]
      BY <1>4, <2>4, SeenChange, SeenAs DEF TryReserve, GoTo
    <3>2. Semaphore!Cardinality(Semaphore!Holders(b)) >= Limit[b]
      <4>1. queueDepth[b] \in Int /\ Limit[b] \in Nat
        BY <2>1, BoundsAssumption DEF HandlerTypeOK
      <4>2. queueDepth[b] >= Limit[b]
        BY <2>4, <4>1 DEF Free
      <4> QED BY <2>1, <4>2, SameFree
    <3>3. Semaphore!Refuse(q)
      BY <2>1, <2>2, <3>1, <3>2 DEF Semaphore!Refuse
    <3> QED BY <3>3 DEF Semaphore!SemNext
  <2> QED BY <2>3, <2>4
<1>5. ASSUME NEW q \in Requests, AtCapacity(q)
      PROVE  Semaphore!SemNext \/ UNCHANGED Semaphore!semVars
  <2>1. pc' = [pc EXCEPT ![q] = "done"] /\ target' = target
    BY <1>5 DEF AtCapacity, GoTo
  <2>2. CASE pc[q] = "walk"
    BY <2>1, <2>2, Unseen DEF Seen, Occupying
  <2>3. CASE pc[q] = "refused"
    <3>1. SeenState' = [SeenState EXCEPT ![q] = "out"]
      BY <2>1, SeenChange, SeenAs
    <3>2. SeenState[q] = "refused"
      BY <2>3, SeenAs DEF SeenState
    <3>3. Semaphore!GiveUp(q)
      BY <2>1, <3>1, <3>2 DEF Semaphore!GiveUp
    <3> QED BY <3>3 DEF Semaphore!SemNext
  <2> QED BY <1>5, <2>2, <2>3 DEF AtCapacity
<1>6. ASSUME NEW q \in Requests,
             \/ AwaitHeaders(q) \/ AwaitEnd(q)
             \/ CommitCacheObservation(q) \/ RecordRoute(q)
      PROVE  UNCHANGED Semaphore!semVars
  BY <1>6, Unseen
     DEF AwaitHeaders, ForwardFails, HeadersArrive, AwaitEnd, BodyEnds,
         CommitCacheObservation, RecordRoute, GoTo, Seen, Occupying, handlerVars
<1>7. ASSUME NEW q \in Requests, FirstByteArrives(q)
      PROVE  UNCHANGED Semaphore!semVars
  BY <1>7, Untouched DEF FirstByteArrives, handlerVars
<1>8. ASSUME NEW q \in Requests, Release(q)
      PROVE  Semaphore!SemNext
  <2>1. pc[q] = "release" /\ pc' = [pc EXCEPT ![q] = "done"] /\ target' = target
    BY <1>8 DEF Release, GoTo, handlerVars
  <2>2. SeenState' = [SeenState EXCEPT ![q] = "out"]
    <3>1. SeenState' = [SeenState EXCEPT ![q] = Seen("done")]
      BY <2>1, SeenChange
    <3> QED BY <3>1, SeenAs
  <2>3. SeenState[q] = "holding"
    BY <2>1, SeenAs DEF SeenState, Occupying
  <2>4. Semaphore!GiveBack(q)
    BY <2>1, <2>2, <2>3 DEF Semaphore!GiveBack
  <2> QED BY <2>4 DEF Semaphore!SemNext
<1>9. ASSUME NEW b \in Flaky, HealthFlips(b)
      PROVE  UNCHANGED Semaphore!semVars
  BY <1>9, Untouched DEF HealthFlips, handlerVars
<1>10. CASE UNCHANGED vars
  BY <1>10, Untouched DEF vars, handlerVars
<1> QED BY <1>1, <1>2, <1>3, <1>4, <1>5, <1>6, <1>7, <1>8, <1>9, <1>10
        DEF Next, Handle

LEMMA InitSemaphore == Init => Semaphore!SemInit
<1> SUFFICES ASSUME Init PROVE Semaphore!SemInit
  OBVIOUS
<1>1. HandlerTypeOK
  BY InitTypes
<1> QED BY <1>1 DEF Init, Semaphore!SemInit, HandlerTypeOK, SeenState, Seen, Occupying

(***************************************************************************)
(* Admission is atomic for every number of requests: a slot is taken only  *)
(* while fewer requests are served than the limit allows, and a refusal    *)
(* means that as many are.  It rests on NoReservationLeaks: the walk reads *)
(* the counter, the semaphore counts the requests that hold a slot.        *)
(***************************************************************************)
THEOREM RouterImplementsSemaphore == Spec => ImplementsSemaphore
BY InitSemaphore, StepSemaphore, HandlerTypesCorrect, NoReservationLeaks, PTL
   DEF Spec, ImplementsSemaphore, Semaphore!SemSpec

-----------------------------------------------------------------------------
(* Outside the streaming path, what is recorded is what was sent.          *)

(***************************************************************************)
(* Nothing is recorded before the record step; when it comes, a missing    *)
(* response has been answered 502, and any other one with its own status.  *)
(***************************************************************************)
Told(r) ==
  /\ pc[r] \in {"body", "commit"} => status[r] # 0 /\ sent[r] = status[r]
  /\ pc[r] = "record" => sent[r] = IF status[r] = 0 THEN 502 ELSE status[r]
  /\ pc[r] = "release" => sent[r] # 0 /\ recorded[r] = sent[r]
  /\ pc[r] = "done" => recorded[r] \in {0, sent[r]}
  /\ pc[r] \notin {"release", "done"} => recorded[r] = 0
  /\ pc[r] \in {"new", "health", "lookup", "usage", "depth", "forward"} \cup Choosing
       => status[r] = 0

EveryoneTold == \A r \in Requests \ Streaming : Told(r)

OthersTold(q) ==
  \A r \in Requests \ {q} : /\ pc'[r] = pc[r] /\ status'[r] = status[r]
                            /\ sent'[r] = sent[r] /\ recorded'[r] = recorded[r]

LEMMA HandlerTold ==
  ASSUME HandlerTypeOK, NEW q \in Requests, q \notin Streaming => Told(q),
         \/ Reject(q) \/ Parse(q) \/ Handle(q)
         \/ AwaitHeaders(q) \/ FirstByteArrives(q) \/ AwaitEnd(q)
  PROVE  OthersTold(q) /\ (q \notin Streaming => Told(q)')
<1> USE DEF HandlerTypeOK, OthersTold, GoTo, Answer, ForgetWalk, handlerVars,
            exchangeVars, Choosing
<1>1. CASE Reject(q) \/ Parse(q)
  BY <1>1 DEF Reject, Parse, Told
<1>2. ASSUME NEW b \in Backends, ReadHealth(q, b)
      PROVE  OthersTold(q) /\ (q \notin Streaming => Told(q)')
  BY <1>2 DEF ReadHealth, Told
<1>3. ASSUME NEW b \in Backends,
             \/ LookupBlocks(q, b) \/ ReadUsage(q, b)
             \/ ReadQueueDepth(q, b) \/ CheckHealth(q, b)
      PROVE  OthersTold(q) /\ (q \notin Streaming => Told(q)')
  BY <1>3 DEF LookupBlocks, ReadUsage, ReadQueueDepth, CheckHealth, Told
<1>4. CASE TryReserve(q) \/ AtCapacity(q)
  BY <1>4 DEF TryReserve, Reserve, AtCapacity, Told
<1>5. ASSUME NEW cause \in Causes, ForwardFails(q, cause)
      PROVE  OthersTold(q) /\ (q \notin Streaming => Told(q)')
  BY <1>5 DEF ForwardFails, Told
<1>6. ASSUME NEW code \in Statuses, HeadersArrive(q, code)
      PROVE  OthersTold(q) /\ (q \notin Streaming => Told(q)')
  <2>1. code # 0
    BY StatusAssumption
  <2> QED BY <1>6, <2>1 DEF HeadersArrive, Told
<1>7. CASE FirstByteArrives(q)
  BY <1>7 DEF FirstByteArrives, Told
<1>8. ASSUME NEW cause, BodyEnds(q, cause)
      PROVE  OthersTold(q) /\ (q \notin Streaming => Told(q)')
  BY <1>8 DEF BodyEnds, Told
<1>9. CASE CommitCacheObservation(q)
  BY <1>9 DEF CommitCacheObservation, Told
<1>10. CASE RecordRoute(q)
  BY <1>10 DEF RecordRoute, RouteStatus, Told
<1>11. CASE Release(q)
  BY <1>11 DEF Release, Told
<1> QED BY <1>1, <1>2, <1>3, <1>4, <1>5, <1>6, <1>7, <1>8, <1>9, <1>10, <1>11
        DEF Handle, AwaitHeaders, AwaitEnd

LEMMA StepTold == HandlerTypeOK /\ EveryoneTold /\ [Next]_vars => EveryoneTold'
<1> SUFFICES ASSUME HandlerTypeOK, EveryoneTold, [Next]_vars,
                    NEW r \in Requests \ Streaming
             PROVE  Told(r)'
  BY DEF EveryoneTold
<1>1. ASSUME NEW q \in Requests,
             \/ Reject(q) \/ Parse(q) \/ Handle(q)
             \/ AwaitHeaders(q) \/ FirstByteArrives(q) \/ AwaitEnd(q)
      PROVE  Told(r)'
  <2>1. OthersTold(q) /\ (q \notin Streaming => Told(q)')
    BY <1>1, HandlerTold DEF EveryoneTold
  <2> QED BY <2>1 DEF EveryoneTold, OthersTold, Told
<1>2. ASSUME NEW b \in Flaky, HealthFlips(b)
      PROVE  Told(r)'
  BY <1>2 DEF HealthFlips, handlerVars, exchangeVars, EveryoneTold, Told
<1>3. CASE UNCHANGED vars
  BY <1>3 DEF vars, handlerVars, exchangeVars, EveryoneTold, Told
<1> QED BY <1>1, <1>2, <1>3 DEF Next

(***************************************************************************)
(* Whatever the backends answer and whenever a connection breaks, the      *)
(* telemetry counts a request that does not stream under the status its    *)
(* caller received.                                                        *)
(***************************************************************************)
THEOREM RecordedStatusIsSent == Spec => []RecordedIsSent
<1>1. Init => EveryoneTold
  BY DEF Init, EveryoneTold, Told
<1>2. EveryoneTold => RecordedIsSent
  BY DEF EveryoneTold, Told, RecordedIsSent
<1> QED BY <1>1, <1>2, StepTold, HandlerTypesCorrect, PTL DEF Spec

-----------------------------------------------------------------------------
(* The directory the requests share.                                       *)

DirectoryKeys == Namespaces \X Seq(Blocks)

\* Per backend the keys are different and no more than the capacity.
DirectoryInv ==
  \A b \in Backends :
    /\ recency[b] \in Seq(DirectoryKeys)
    /\ Ordered(recency[b], Different(DirectoryKeys))
    /\ Len(recency[b]) <= Capacity[b]

Recencies == [Backends -> Seq(DirectoryKeys)]

LEMMA CommitEffect ==
  ASSUME recency \in Recencies, DirectoryInv,
         NEW b \in Backends, NEW ns \in Namespaces, NEW p \in Prompts,
         CommitObservation(b, ns, p)
  PROVE  /\ recency' \in Recencies
         /\ DirectoryInv'
         /\ \A c \in Backends : Len(recency[c]) <= Len(recency'[c])
         /\ ToSet(recency'[b]) \subseteq ToSet(recency[b]) \cup PrefixKeys(ns, p)
         /\ \A c \in Backends \ {b} : recency'[c] = recency[c]
<1> DEFINE list == recency[b]
           touched == Touch(list, ns, p)
           new == Newest(touched, Capacity[b])
           D == Different(DirectoryKeys)
<1>1. /\ p \in Seq(Blocks) /\ Capacity[b] \in Nat
      /\ list \in Seq(DirectoryKeys) /\ Ordered(list, D) /\ Len(list) <= Capacity[b]
  BY PromptAssumption, BoundsAssumption DEF DirectoryInv
<1>2. PrefixKeys(ns, p) \subseteq DirectoryKeys
  <2>1. \A n \in 1..Len(p) : Prefix(p, n) \in Seq(Blocks)
    BY <1>1, PrefixType
  <2> QED BY <2>1 DEF PrefixKeys, DirectoryKeys
<1> HIDE DEF D
<1>3. /\ touched \in Seq(DirectoryKeys)
      /\ ToSet(touched) = ToSet(list) \cup PrefixKeys(ns, p)
      /\ Ordered(touched, D)
      /\ Len(touched) >= Len(list)
  <2> HIDE DEF list
  <2> QED BY <1>1, <1>2, TouchKeeps DEF D
<1>4. /\ new \in Seq(DirectoryKeys)
      /\ Len(new) = IF Len(touched) <= Capacity[b] THEN Len(touched) ELSE Capacity[b]
      /\ ToSet(new) \subseteq ToSet(touched)
      /\ Ordered(new, D)
  <2> HIDE DEF list, touched
  <2> QED BY <1>1, <1>3, NewestKeeps
<1>5. recency' = [recency EXCEPT ![b] = new]
  BY DEF CommitObservation
<1> HIDE DEF list, touched, new
<1>6. Len(list) <= Len(new) /\ Len(new) <= Capacity[b]
  <2>1. Len(list) \in Nat /\ Len(touched) \in Nat
    BY <1>1, <1>3
  <2> QED BY <1>1, <1>3, <1>4, <2>1
<1>7. /\ recency' \in Recencies
      /\ recency'[b] = new /\ \A c \in Backends \ {b} : recency'[c] = recency[c]
  BY <1>4, <1>5 DEF Recencies
<1>8. ASSUME NEW c \in Backends
      PROVE  /\ recency'[c] \in Seq(DirectoryKeys) /\ Ordered(recency'[c], D)
             /\ Len(recency'[c]) <= Capacity[c]
             /\ Len(recency[c]) <= Len(recency'[c])
  <2>1. CASE c = b
    BY <1>4, <1>6, <1>7, <2>1 DEF list
  <2>2. CASE c # b
    <3>1. recency'[c] = recency[c] /\ Len(recency[c]) \in Nat
      BY <1>7, <2>2 DEF DirectoryInv
    <3> QED BY <3>1 DEF DirectoryInv, D
  <2> QED BY <2>1, <2>2
<1>9. DirectoryInv'
  BY <1>8 DEF DirectoryInv, D
<1> QED BY <1>3, <1>4, <1>7, <1>8, <1>9 DEF list

\* Only a commit changes the directory.
LEMMA OnlyCommitsMatter ==
  ASSUME NEW q \in Requests,
         \/ Reject(q) \/ Parse(q) \/ Handle(q)
         \/ AwaitHeaders(q) \/ FirstByteArrives(q) \/ AwaitEnd(q)
  PROVE  CommitCacheObservation(q) \/ recency' = recency
BY DEF Reject, Parse, Handle, ReadHealth, LookupBlocks, ReadUsage, ReadQueueDepth,
       CheckHealth, TryReserve, AtCapacity, RecordRoute, Release, AwaitHeaders,
       ForwardFails, HeadersArrive, FirstByteArrives, AwaitEnd, BodyEnds

LEMMA CommitByRequest ==
  ASSUME HandlerTypeOK, NEW q \in Requests, CommitCacheObservation(q)
  PROVE  /\ target[q] \in Backends /\ NamespaceOf[q] \in Namespaces
         /\ PromptOf[q] \in Prompts
         /\ CommitObservation(target[q], NamespaceOf[q], PromptOf[q])
BY RequestAssumption DEF HandlerTypeOK, CommitCacheObservation

DirectoryGood == recency \in Recencies /\ DirectoryInv

LEMMA StepDirectory ==
  ASSUME HandlerTypeOK, DirectoryGood, [Next]_vars
  PROVE  /\ DirectoryGood'
         /\ \A c \in Backends : Len(recency[c]) <= Len(recency'[c])
<1>1. ASSUME NEW q \in Requests, CommitCacheObservation(q)
      PROVE  /\ DirectoryGood'
             /\ \A c \in Backends : Len(recency[c]) <= Len(recency'[c])
  BY <1>1, CommitByRequest, CommitEffect DEF DirectoryGood
<1>2. CASE recency' = recency
  <2>1. \A c \in Backends : Len(recency[c]) \in Nat
    BY DEF DirectoryGood, DirectoryInv
  <2> QED BY <1>2, <2>1 DEF DirectoryGood, DirectoryInv
<1>3. ASSUME NEW b \in Flaky, HealthFlips(b)
      PROVE  recency' = recency
  BY <1>3 DEF HealthFlips
<1>4. CASE UNCHANGED vars
  BY <1>2, <1>4 DEF vars
<1> QED BY <1>1, <1>2, <1>3, <1>4, OnlyCommitsMatter DEF Next

LEMMA InitDirectory == Init => DirectoryGood
<1> SUFFICES ASSUME Init PROVE DirectoryGood
  OBVIOUS
<1>1. recency = [b \in Backends |-> << >>]
  BY DEF Init, LruInit
<1>2. ASSUME NEW b \in Backends
      PROVE  /\ recency[b] \in Seq(DirectoryKeys)
             /\ Ordered(recency[b], Different(DirectoryKeys))
             /\ Len(recency[b]) <= Capacity[b]
  <2>1. recency[b] = << >> /\ Capacity[b] \in Nat
    BY <1>1, BoundsAssumption
  <2> QED BY <2>1 DEF Ordered
<1> QED BY <1>1, <1>2 DEF DirectoryGood, DirectoryInv, Recencies

LEMMA DirectoryStaysGood == Spec => []DirectoryGood
BY InitDirectory, StepDirectory, HandlerTypesCorrect, PTL DEF Spec

-----------------------------------------------------------------------------
(* The queue depth is within the limit, and the snapshot is plausible.     *)

DepthInRange == \A b \in Backends : queueDepth[b] <= Limit[b]

LEMMA StepDepth == HandlerTypeOK /\ DepthInRange /\ [Next]_vars => DepthInRange'
<1> SUFFICES ASSUME HandlerTypeOK, DepthInRange, [Next]_vars, NEW b \in Backends
             PROVE  queueDepth'[b] <= Limit[b]
  BY DEF DepthInRange
<1>1. queueDepth[b] \in Int /\ queueDepth[b] <= Limit[b] /\ Limit[b] \in Nat
  BY BoundsAssumption DEF HandlerTypeOK, DepthInRange
<1>2. ASSUME NEW q \in Requests,
             \/ Reject(q) \/ Parse(q) \/ Handle(q)
             \/ AwaitHeaders(q) \/ FirstByteArrives(q) \/ AwaitEnd(q)
      PROVE  queueDepth'[b] <= Limit[b]
  <2>1. CASE TryReserve(q)
    <3>1. CASE Free(target[q])
      BY <1>1, <2>1, <3>1, GrantEffect DEF HandlerTypeOK, Free
    <3>2. CASE ~Free(target[q])
      BY <1>1, <2>1, <3>2 DEF TryReserve
    <3> QED BY <3>1, <3>2
  <2>2. CASE Release(q)
    BY <1>1, <2>2, ReleaseEffect DEF HandlerTypeOK
  <2>3. CASE ~TryReserve(q) /\ ~Release(q)
    BY <1>1, <1>2, <2>3, NobodyEnters
  <2> QED BY <2>1, <2>2, <2>3
<1>3. ASSUME NEW c \in Flaky, HealthFlips(c)
      PROVE  queueDepth'[b] <= Limit[b]
  BY <1>1, <1>3 DEF HealthFlips
<1>4. CASE UNCHANGED vars
  BY <1>1, <1>4 DEF vars
<1> QED BY <1>2, <1>3, <1>4 DEF Next

LEMMA DepthStaysInRange == Spec => []DepthInRange
<1>1. Init => DepthInRange
  BY BoundsAssumption DEF Init, DepthInRange
<1> QED BY <1>1, StepDepth, HandlerTypesCorrect, PTL DEF Spec

WithinLimits == \A b \in Backends : Cardinality(Occupants(b)) <= Limit[b]

(***************************************************************************)
(* No backend ever serves more requests than its limit: the counter, which *)
(* TryReserve compares with the limit, counts them without an error.       *)
(***************************************************************************)
THEOREM NoBackendIsOverloaded == Spec => []WithinLimits
<1>1. DepthInRange /\ CounterIsOccupants => WithinLimits
  BY DEF DepthInRange, CounterIsOccupants, WithinLimits
<1> QED BY <1>1, DepthStaysInRange, NoReservationLeaks, PTL

CountersGood == CounterIsOccupants /\ DepthInRange

LEMMA CountersStayGood == Spec => []CountersGood
BY NoReservationLeaks, DepthStaysInRange, PTL DEF CountersGood

Figures == [matched : Nat, used : Nat, depth : Nat]

\* The snapshot of r is built in the order of the identifiers.
SnapInOrder(r) ==
  /\ DOMAIN snap[r] \subseteq seen[r]
  /\ pc[r] \in {"new", "health"} => DOMAIN snap[r] = {}
  /\ \A c \in DOMAIN snap[r], d \in seen[r] \ DOMAIN snap[r] : c < d

\* Its figures are within their bounds; a match is, until the usage is read, no
\* longer than the directory.
SnapWithin(r) ==
  \A b \in DOMAIN snap[r] :
    /\ snap[r][b] \in Figures
    /\ IF pc[r] = "usage" /\ IsCurrent(r, b)
         THEN snap[r][b].matched <= Len(recency[b])
         ELSE snap[r][b].matched <= snap[r][b].used
    /\ snap[r][b].used <= Capacity[b]
    /\ snap[r][b].depth <= Limit[b]

SnapGood ==
  DOMAIN snap = Requests /\ \A r \in Requests : SnapInOrder(r) /\ SnapWithin(r)

\* A step that leaves the snapshot of r alone, while directories grow.
LEMMA OthersSnap ==
  ASSUME HandlerTypeOK, DirectoryGood, DirectoryGood', NEW r \in Requests,
         SnapInOrder(r), SnapWithin(r),
         \A c \in Backends : Len(recency[c]) <= Len(recency'[c]),
         snap'[r] = snap[r], seen'[r] = seen[r],
         pc'[r] = "usage" <=> pc[r] = "usage",
         pc'[r] \in {"new", "health"} => pc[r] \in {"new", "health"}
  PROVE  SnapInOrder(r)' /\ SnapWithin(r)'
<1>1. SnapInOrder(r)'
  BY DEF SnapInOrder
<1>2. ASSUME NEW b \in DOMAIN snap[r], pc[r] = "usage", IsCurrent(r, b)
      PROVE  snap[r][b].matched <= Len(recency'[b])
  <2>1. b \in Backends /\ snap[r][b].matched \in Nat
    BY DEF SnapInOrder, SnapWithin, Figures, HandlerTypeOK
  <2>2. Len(recency[b]) \in Nat /\ Len(recency'[b]) \in Nat
    BY <2>1 DEF DirectoryGood, DirectoryInv
  <2> QED BY <1>2, <2>1, <2>2 DEF SnapWithin
<1>3. SnapWithin(r)'
  BY <1>2 DEF SnapWithin, IsCurrent
<1> QED BY <1>1, <1>3

LEMMA LookupSnap ==
  ASSUME HandlerTypeOK, DirectoryGood, NEW r \in Requests, NEW b \in Backends,
         DOMAIN snap = Requests, SnapInOrder(r), SnapWithin(r), LookupBlocks(r, b)
  PROVE  SnapInOrder(r)' /\ SnapWithin(r)'
<1> DEFINE s == [matched |-> Match(b, NamespaceOf[r], PromptOf[r]),
                 used |-> 0, depth |-> 0]
<1>1. /\ pc[r] = "lookup" /\ pc'[r] = "usage" /\ recency' = recency
      /\ seen' = seen /\ b \in seen[r] \ DOMAIN snap[r]
      /\ \A c \in seen[r] \ DOMAIN snap[r] : b <= c
      /\ seen[r] \subseteq Nat
  BY BackendAssumption DEF LookupBlocks, IsNext, GoTo, HandlerTypeOK
<1>2. snap'[r] = [c \in DOMAIN snap[r] \cup {b} |-> IF c = b THEN s ELSE snap[r][c]]
  BY DEF LookupBlocks
<1>3. s \in Figures /\ s.matched <= Len(recency[b]) /\ s.used = 0 /\ s.depth = 0
  <2>1. PromptOf[r] \in Seq(Blocks) /\ recency[b] \in Seq(DirectoryKeys)
    BY RequestAssumption, PromptAssumption DEF DirectoryGood, DirectoryInv
  <2>2. /\ IsFiniteSet(ToSet(recency[b]))
        /\ Cardinality(ToSet(recency[b])) <= Len(recency[b])
    BY <2>1, ElementsCount
  <2>3. Cardinality(ToSet(recency[b])) \in Nat /\ Len(recency[b]) \in Nat
    BY <2>1, <2>2, FS_CardinalityType
  <2>4. s.matched \in 0..Cardinality(ToSet(recency[b]))
    BY <2>1, <2>2, MatchIsKnown DEF Match
  <2>5. s.matched \in Nat /\ s.matched <= Len(recency[b])
    BY <2>2, <2>3, <2>4
  <2> QED BY <2>5 DEF Figures
<1> HIDE DEF s
<1>4. DOMAIN snap'[r] = DOMAIN snap[r] \cup {b}
  BY <1>2
<1>5. SnapInOrder(r)'
  <2> SUFFICES ASSUME NEW c \in DOMAIN snap'[r], NEW d \in seen[r] \ DOMAIN snap'[r]
               PROVE  c < d
    BY <1>1, <1>4 DEF SnapInOrder
  <2>1. CASE c = b
    BY <1>1, <1>4, <2>1
  <2>2. CASE c # b
    BY <1>4, <2>2 DEF SnapInOrder
  <2> QED BY <2>1, <2>2
<1>6. ASSUME NEW c \in DOMAIN snap'[r]
      PROVE  /\ snap'[r][c] \in Figures
             /\ IF c = b THEN snap'[r][c].matched <= Len(recency'[c])
                ELSE ~IsCurrent(r, c)' /\ snap'[r][c].matched <= snap'[r][c].used
             /\ snap'[r][c].used <= Capacity[c]
             /\ snap'[r][c].depth <= Limit[c]
  <2>1. CASE c = b
    <3>1. snap'[r][c] = s /\ Capacity[b] \in Nat /\ Limit[b] \in Nat
      BY <1>2, <1>4, <2>1, BoundsAssumption
    <3> QED BY <1>1, <1>3, <2>1, <3>1
  <2>2. CASE c # b
    <3>1. c \in DOMAIN snap[r] /\ snap'[r][c] = snap[r][c]
      BY <1>2, <1>4, <2>2
    <3>2. c < b /\ c \in Nat /\ b \in Nat
      BY <1>1, <3>1 DEF SnapInOrder
    <3>3. ~IsCurrent(r, c)'
      BY <1>4, <3>2 DEF IsCurrent
    <3> QED BY <1>1, <2>2, <3>1, <3>3 DEF SnapWithin
  <2> QED BY <2>1, <2>2
<1>7. IsCurrent(r, b)'
  <2>1. \A c \in DOMAIN snap[r] : c <= b
    BY <1>1 DEF SnapInOrder
  <2> QED BY <1>1, <1>4, <2>1 DEF IsCurrent
<1>8. SnapWithin(r)'
  BY <1>1, <1>6, <1>7 DEF SnapWithin
<1> QED BY <1>5, <1>8

LEMMA UsageSnap ==
  ASSUME HandlerTypeOK, DirectoryGood, NEW r \in Requests, NEW b \in Backends,
         DOMAIN snap = Requests, SnapInOrder(r), SnapWithin(r), ReadUsage(r, b)
  PROVE  SnapInOrder(r)' /\ SnapWithin(r)'
<1>1. /\ pc[r] = "usage" /\ pc'[r] = "depth" /\ seen' = seen
      /\ b \in DOMAIN snap[r] /\ \A c \in DOMAIN snap[r] : c <= b
  BY DEF ReadUsage, IsCurrent, GoTo, HandlerTypeOK
<1>2. /\ DOMAIN snap'[r] = DOMAIN snap[r]
      /\ \A c \in DOMAIN snap[r] \ {b} : snap'[r][c] = snap[r][c]
      /\ snap'[r][b] = [snap[r][b] EXCEPT !.used = Len(recency[b])]
  BY <1>1 DEF ReadUsage, Used
<1>3. SnapInOrder(r)'
  BY <1>1, <1>2 DEF SnapInOrder
<1>4. seen[r] \subseteq Nat /\ DOMAIN snap[r] \subseteq seen[r]
  BY BackendAssumption DEF HandlerTypeOK, SnapInOrder
<1>5. ASSUME NEW c \in DOMAIN snap[r] \ {b}
      PROVE  ~IsCurrent(r, c)
  BY <1>1, <1>4, <1>5 DEF IsCurrent
<1>6. Len(recency[b]) \in Nat /\ Len(recency[b]) <= Capacity[b]
  BY DEF DirectoryGood, DirectoryInv
<1>7. /\ snap'[r][b] \in Figures
      /\ snap'[r][b].matched <= snap'[r][b].used
      /\ snap'[r][b].used <= Capacity[b]
      /\ snap'[r][b].depth <= Limit[b]
  <2>1. /\ snap[r][b] \in Figures /\ snap[r][b].matched <= Len(recency[b])
        /\ snap[r][b].depth <= Limit[b]
    BY <1>1 DEF SnapWithin, IsCurrent
  <2> QED BY <1>2, <1>6, <2>1 DEF Figures
<1>8. SnapWithin(r)'
  <2> SUFFICES ASSUME NEW c \in DOMAIN snap[r]
               PROVE  /\ snap'[r][c] \in Figures
                      /\ snap'[r][c].matched <= snap'[r][c].used
                      /\ snap'[r][c].used <= Capacity[c]
                      /\ snap'[r][c].depth <= Limit[c]
    BY <1>1, <1>2 DEF SnapWithin
  <2> QED BY <1>1, <1>2, <1>5, <1>7 DEF SnapWithin
<1> QED BY <1>3, <1>8

LEMMA DepthSnap ==
  ASSUME HandlerTypeOK, CountersGood, NEW r \in Requests, NEW b \in Backends,
         DOMAIN snap = Requests, SnapInOrder(r), SnapWithin(r), ReadQueueDepth(r, b)
  PROVE  SnapInOrder(r)' /\ SnapWithin(r)'
<1>1. /\ pc[r] = "depth" /\ pc'[r] \in {"walk", "lookup"} /\ seen' = seen
      /\ b \in DOMAIN snap[r]
  BY DEF ReadQueueDepth, IsCurrent, GoTo, HandlerTypeOK
<1>2. /\ DOMAIN snap'[r] = DOMAIN snap[r]
      /\ \A c \in DOMAIN snap[r] \ {b} : snap'[r][c] = snap[r][c]
      /\ snap'[r][b] = [snap[r][b] EXCEPT !.depth = queueDepth[b]]
  BY <1>1 DEF ReadQueueDepth
<1>3. SnapInOrder(r)'
  BY <1>1, <1>2 DEF SnapInOrder
<1>4. queueDepth[b] \in Nat /\ queueDepth[b] <= Limit[b]
  BY OccupantsFinite, FS_CardinalityType DEF CountersGood, CounterIsOccupants, DepthInRange
<1>5. \A c \in DOMAIN snap[r] :
        /\ snap[r][c] \in Figures
        /\ snap[r][c].matched <= snap[r][c].used
        /\ snap[r][c].used <= Capacity[c]
        /\ snap[r][c].depth <= Limit[c]
  BY <1>1 DEF SnapWithin
<1>6. \A c \in DOMAIN snap[r] :
        /\ snap'[r][c] \in Figures
        /\ snap'[r][c].matched <= snap'[r][c].used
        /\ snap'[r][c].used <= Capacity[c]
        /\ snap'[r][c].depth <= Limit[c]
  BY <1>1, <1>2, <1>4, <1>5 DEF Figures
<1> QED BY <1>1, <1>2, <1>3, <1>6 DEF SnapWithin

LEMMA OwnSnap ==
  ASSUME HandlerTypeOK, DirectoryGood, DirectoryGood', CountersGood, NEW q \in Requests,
         \A c \in Backends : Len(recency[c]) <= Len(recency'[c]),
         DOMAIN snap = Requests, SnapInOrder(q), SnapWithin(q),
         \/ Reject(q) \/ Parse(q) \/ Handle(q)
         \/ AwaitHeaders(q) \/ FirstByteArrives(q) \/ AwaitEnd(q)
  PROVE  /\ SnapInOrder(q)' /\ SnapWithin(q)'
         /\ DOMAIN snap' = Requests
         /\ \A r \in Requests \ {q} : /\ pc'[r] = pc[r] /\ seen'[r] = seen[r]
                                      /\ snap'[r] = snap[r]
<1> DEFINE Rest == /\ DOMAIN snap' = Requests
                   /\ \A r \in Requests \ {q} : /\ pc'[r] = pc[r] /\ seen'[r] = seen[r]
                                                /\ snap'[r] = snap[r]
           Same == /\ snap'[q] = snap[q] /\ seen'[q] = seen[q]
                   /\ pc'[q] = "usage" <=> pc[q] = "usage"
                   /\ pc'[q] \in {"new", "health"} => pc[q] \in {"new", "health"}
           Good == SnapInOrder(q)' /\ SnapWithin(q)'
<1>1. ASSUME Rest, Same PROVE Good /\ Rest
  BY <1>1, OthersSnap
<1>2. CASE Reject(q) \/ Parse(q)
  <2>1. Rest /\ Same
    BY <1>2 DEF Reject, Parse, GoTo, handlerVars, HandlerTypeOK
  <2> QED BY <1>1, <2>1
<1>3. CASE AwaitHeaders(q) \/ FirstByteArrives(q) \/ AwaitEnd(q)
  <2>1. Rest /\ Same
    BY <1>3 DEF AwaitHeaders, ForwardFails, HeadersArrive, FirstByteArrives,
                AwaitEnd, BodyEnds, GoTo, handlerVars, HandlerTypeOK
  <2> QED BY <1>1, <2>1
<1>4. CASE CommitCacheObservation(q) \/ RecordRoute(q) \/ Release(q)
  <2>1. Rest /\ Same
    BY <1>4 DEF CommitCacheObservation, RecordRoute, Release, GoTo, handlerVars,
                HandlerTypeOK
  <2> QED BY <1>1, <2>1
<1>5. ASSUME NEW b \in Backends, CheckHealth(q, b)
      PROVE  Good /\ Rest
  <2>1. Rest /\ Same
    BY <1>5 DEF CheckHealth, GoTo, HandlerTypeOK
  <2> QED BY <1>1, <2>1
<1>6. ASSUME DOMAIN snap'[q] = {}
      PROVE  Good
  BY <1>6 DEF SnapInOrder, SnapWithin
<1>7. ASSUME NEW b \in Backends, ReadHealth(q, b)
      PROVE  Good /\ Rest
  <2>1. /\ pc[q] = "health" /\ snap' = snap
        /\ seen' = [seen EXCEPT ![q] = IF healthy[b] THEN @ \cup {b} ELSE @]
        /\ \/ pc' = pc
           \/ pc' = [pc EXCEPT ![q] = "lookup"]
           \/ pc' = [pc EXCEPT ![q] = "done"]
    BY <1>7 DEF ReadHealth, GoTo
  <2>2. Rest
    BY <2>1 DEF HandlerTypeOK
  <2>3. DOMAIN snap'[q] = {}
    BY <2>1 DEF SnapInOrder
  <2> QED BY <1>6, <2>2, <2>3
<1>8. CASE TryReserve(q)
  <2>1. CASE Free(target[q])
    <3>1. Rest /\ DOMAIN snap'[q] = {}
      BY <1>8, <2>1 DEF TryReserve, Reserve, ForgetWalk, GoTo, HandlerTypeOK
    <3> QED BY <1>6, <3>1
  <2>2. CASE ~Free(target[q])
    <3>1. Rest /\ Same
      BY <1>8, <2>2 DEF TryReserve, GoTo, HandlerTypeOK
    <3> QED BY <1>1, <3>1
  <2> QED BY <2>1, <2>2
<1>9. CASE AtCapacity(q)
  <2>1. Rest /\ DOMAIN snap'[q] = {}
    BY <1>9 DEF AtCapacity, ForgetWalk, GoTo, HandlerTypeOK
  <2> QED BY <1>6, <2>1
<1>10. ASSUME NEW b \in Backends, LookupBlocks(q, b)
       PROVE  Good /\ Rest
  <2>1. Rest
    BY <1>10 DEF LookupBlocks, GoTo, HandlerTypeOK
  <2> QED BY <1>10, <2>1, LookupSnap
<1>11. ASSUME NEW b \in Backends, ReadUsage(q, b)
       PROVE  Good /\ Rest
  <2>1. Rest
    BY <1>11 DEF ReadUsage, GoTo, HandlerTypeOK
  <2> QED BY <1>11, <2>1, UsageSnap
<1>12. ASSUME NEW b \in Backends, ReadQueueDepth(q, b)
       PROVE  Good /\ Rest
  <2>1. Rest
    BY <1>12 DEF ReadQueueDepth, GoTo, HandlerTypeOK
  <2> QED BY <1>12, <2>1, DepthSnap
<1> HIDE DEF Good, Rest
<1>13. Good /\ Rest
  BY <1>2, <1>3, <1>4, <1>5, <1>7, <1>8, <1>9, <1>10, <1>11, <1>12
     DEF Handle, Good, Rest
<1> QED BY <1>13 DEF Good, Rest

LEMMA StepSnap ==
  /\ HandlerTypeOK /\ DirectoryGood /\ DirectoryGood' /\ CountersGood /\ SnapGood
  /\ [Next]_vars
  => SnapGood'
<1> SUFFICES ASSUME HandlerTypeOK, DirectoryGood, DirectoryGood', CountersGood,
                    SnapGood, [Next]_vars
             PROVE  SnapGood'
  OBVIOUS
<1>1. /\ DOMAIN snap = Requests
      /\ \A r \in Requests : SnapInOrder(r) /\ SnapWithin(r)
      /\ \A c \in Backends : Len(recency[c]) <= Len(recency'[c])
  BY StepDirectory DEF SnapGood
<1>2. ASSUME NEW q \in Requests,
             \/ Reject(q) \/ Parse(q) \/ Handle(q)
             \/ AwaitHeaders(q) \/ FirstByteArrives(q) \/ AwaitEnd(q)
      PROVE  SnapGood'
  <2>1. /\ SnapInOrder(q)' /\ SnapWithin(q)'
        /\ DOMAIN snap' = Requests
        /\ \A r \in Requests \ {q} : /\ pc'[r] = pc[r] /\ seen'[r] = seen[r]
                                     /\ snap'[r] = snap[r]
    BY <1>1, <1>2, OwnSnap
  <2>2. ASSUME NEW r \in Requests \ {q}
        PROVE  SnapInOrder(r)' /\ SnapWithin(r)'
    BY <1>1, <2>1, OthersSnap
  <2> QED BY <2>1, <2>2 DEF SnapGood
<1>3. ASSUME snap' = snap, seen' = seen, pc' = pc
      PROVE  SnapGood'
  <2>1. ASSUME NEW r \in Requests
        PROVE  SnapInOrder(r)' /\ SnapWithin(r)'
    BY <1>1, <1>3, OthersSnap
  <2> QED BY <1>1, <1>3, <2>1 DEF SnapGood
<1>4. ASSUME NEW b \in Flaky, HealthFlips(b)
      PROVE  SnapGood'
  BY <1>3, <1>4 DEF HealthFlips, handlerVars
<1>5. CASE UNCHANGED vars
  BY <1>3, <1>5 DEF vars, handlerVars
<1> QED BY <1>2, <1>4, <1>5 DEF Next

LEMMA SnapStaysGood == Spec => []SnapGood
<1>1. Init => SnapGood
  BY DEF Init, SnapGood, SnapInOrder, SnapWithin
<1> QED BY <1>1, StepSnap, HandlerTypesCorrect, DirectoryStaysGood,
           CountersStayGood, PTL DEF Spec

(***************************************************************************)
(* Every variable of the router is of its declared type: what the handlers *)
(* keep, the directory, and the snapshots, which list only backends the    *)
(* request has found healthy.                                              *)
(***************************************************************************)
THEOREM RouterTypesCorrect == Spec => []TypeOK
<1>1. DirectoryGood /\ SnapGood => DirectoryTypeOK
  BY DEF DirectoryGood, Recencies, DirectoryKeys, SnapGood, SnapInOrder, SnapWithin,
         Figures, DirectoryTypeOK
<1> QED BY <1>1, HandlerTypesCorrect, DirectoryStaysGood, SnapStaysGood, PTL
        DEF TypeOK

(***************************************************************************)
(* However the steps of the requests interleave, the figures a request is  *)
(* scored with make sense: the directory may grow between Lookup and Usage *)
(* but never shrinks, and no queue is longer than its limit when it is     *)
(* read.                                                                   *)
(***************************************************************************)
THEOREM SnapshotsArePlausible == Spec => []SnapshotPlausible
<1>1. SnapGood => SnapshotPlausible
  BY DEF SnapGood, SnapWithin, SnapshotPlausible
<1> QED BY <1>1, SnapStaysGood, PTL

-----------------------------------------------------------------------------
(* No phantom affinity.                                                    *)

Finished == {"record", "release", "done"}

(***************************************************************************)
(* A first byte comes with a status below 400 and stays; whoever is about  *)
(* to commit has been processed.                                           *)
(***************************************************************************)
Earned(r) ==
  /\ pc[r] \in {"body", "commit"} => status[r] \in Statuses
  /\ firstByte[r] => /\ pc[r] \in {"body", "commit"} \cup Finished
                     /\ status[r] \in 200..399
  /\ pc[r] = "commit" => Processed(r)

EveryoneEarned == \A r \in Requests : Earned(r)

\* A request that has finished with its backend stays as it is.
Settled(r) ==
  pc[r] \in Finished => /\ pc'[r] \in Finished /\ target'[r] = target[r]
                        /\ status'[r] = status[r] /\ firstByte'[r] = firstByte[r]

OthersEarned(q) ==
  \A r \in Requests \ {q} : /\ pc'[r] = pc[r] /\ target'[r] = target[r]
                            /\ status'[r] = status[r] /\ firstByte'[r] = firstByte[r]

LEMMA StatusRange == ASSUME NEW s \in Statuses PROVE s \in 200..599
BY StatusAssumption

LEMMA HandlerEarned ==
  ASSUME HandlerTypeOK, NEW q \in Requests, Earned(q),
         \/ Reject(q) \/ Parse(q) \/ Handle(q)
         \/ AwaitHeaders(q) \/ FirstByteArrives(q) \/ AwaitEnd(q)
  PROVE  OthersEarned(q) /\ Earned(q)' /\ Settled(q)
<1> DEFINE Goal == OthersEarned(q) /\ Earned(q)' /\ Settled(q)
<1> USE DEF HandlerTypeOK, OthersEarned, Settled, GoTo, Answer, ForgetWalk,
            handlerVars, exchangeVars, Finished
<1>1. CASE Reject(q) \/ Parse(q)
  BY <1>1 DEF Reject, Parse, Earned
<1>2. ASSUME NEW b \in Backends,
             \/ ReadHealth(q, b) \/ LookupBlocks(q, b) \/ ReadUsage(q, b)
             \/ ReadQueueDepth(q, b) \/ CheckHealth(q, b)
      PROVE  Goal
  BY <1>2 DEF ReadHealth, LookupBlocks, ReadUsage, ReadQueueDepth, CheckHealth, Earned
<1>3. CASE TryReserve(q) \/ AtCapacity(q)
  <2>1. /\ pc[q] \notin {"body", "commit"} \cup Finished
        /\ pc'[q] \in {"forward", "refused", "done"}
        /\ OthersEarned(q) /\ firstByte' = firstByte
    <3>1. CASE TryReserve(q)
      BY <3>1 DEF TryReserve, Reserve
    <3>2. CASE AtCapacity(q)
      BY <3>2 DEF AtCapacity
    <3> QED BY <1>3, <3>1, <3>2
  <2> QED BY <2>1 DEF Earned
<1>4. CASE AwaitHeaders(q)
  BY <1>4 DEF AwaitHeaders, ForwardFails, HeadersArrive, Earned
<1>5. CASE FirstByteArrives(q)
  <2>1. status[q] \in 200..399
    <3>1. pc[q] = "body" /\ status[q] < 400
      BY <1>5 DEF FirstByteArrives
    <3>2. status[q] \in Statuses
      BY <3>1, Zenon DEF Earned
    <3>3. status[q] \in 200..599
      BY <3>2, StatusRange, Zenon
    <3> QED BY <3>1, <3>3
  <2> QED BY <1>5, <2>1 DEF FirstByteArrives, Earned
<1>6. CASE AwaitEnd(q)
  <2>1. PICK cause : BodyEnds(q, cause)
    BY <1>6 DEF AwaitEnd
  <2>2. CASE Evidence(q)
    <3>1. Processed(q)
      BY <2>1, <2>2, StatusAssumption DEF BodyEnds, Evidence, Processed, Earned
    <3> QED BY <2>1, <2>2, <3>1 DEF BodyEnds, Processed, Earned
  <2>3. CASE ~Evidence(q)
    BY <2>1, <2>3 DEF BodyEnds, Earned
  <2> QED BY <2>2, <2>3
<1>7. CASE CommitCacheObservation(q) \/ RecordRoute(q) \/ Release(q)
  BY <1>7 DEF CommitCacheObservation, RecordRoute, Release, Earned
<1> QED BY <1>1, <1>2, <1>3, <1>4, <1>5, <1>6, <1>7 DEF Handle

\* What b knows of key was earned by a request that is done with b.
Known(b, key) ==
  \E r \in Requests : /\ target[r] = b /\ Processed(r) /\ pc[r] \in Finished
                      /\ key \in PrefixKeys(NamespaceOf[r], PromptOf[r])

LEMMA StaysKnown ==
  ASSUME NEW b, NEW key, Known(b, key), \A r \in Requests : Settled(r)
  PROVE  Known(b, key)'
BY DEF Known, Settled, Processed

LEMMA StepKnown ==
  ASSUME HandlerTypeOK, DirectoryGood, EveryoneEarned, NoPhantomAffinity, [Next]_vars
  PROVE  EveryoneEarned' /\ NoPhantomAffinity'
<1>1. ASSUME NEW b \in Backends, NEW key \in ToSet(recency[b])
      PROVE  Known(b, key)
  BY DEF NoPhantomAffinity, Known, Finished
<1>2. ASSUME recency' = recency, \A r \in Requests : Settled(r)
      PROVE  NoPhantomAffinity'
  BY <1>1, <1>2, StaysKnown DEF NoPhantomAffinity, Known, Finished
<1>3. ASSUME NEW q \in Requests,
             \/ Reject(q) \/ Parse(q) \/ Handle(q)
             \/ AwaitHeaders(q) \/ FirstByteArrives(q) \/ AwaitEnd(q)
      PROVE  EveryoneEarned' /\ NoPhantomAffinity'
  <2>1. OthersEarned(q) /\ Earned(q)' /\ Settled(q)
    BY <1>3, HandlerEarned DEF EveryoneEarned
  <2>2. EveryoneEarned' /\ \A r \in Requests : Settled(r)
    BY <2>1 DEF OthersEarned, EveryoneEarned, Earned, Processed, Settled
  <2>3. CASE CommitCacheObservation(q)
    <3> DEFINE b == target[q]
               keys == PrefixKeys(NamespaceOf[q], PromptOf[q])
    <3>1. /\ b \in Backends
          /\ ToSet(recency'[b]) \subseteq ToSet(recency[b]) \cup keys
          /\ \A c \in Backends \ {b} : recency'[c] = recency[c]
      BY <2>3, CommitByRequest, CommitEffect DEF DirectoryGood
    <3>2. target'[q] = b /\ Processed(q)' /\ pc'[q] = "record"
      BY <2>3 DEF CommitCacheObservation, GoTo, handlerVars, exchangeVars,
                  HandlerTypeOK, EveryoneEarned, Earned, Processed
    <3> HIDE DEF b
    <3>3. ASSUME NEW c \in Backends, NEW key \in ToSet(recency'[c])
          PROVE  Known(c, key)'
      <4>1. CASE key \in ToSet(recency[c])
        BY <1>1, <2>2, <4>1, StaysKnown
      <4>2. CASE key \notin ToSet(recency[c])
        <5>1. c = b /\ key \in keys
          BY <3>1, <4>2
        <5> QED BY <3>2, <5>1 DEF Known, Finished
      <4> QED BY <4>1, <4>2
    <3>4. NoPhantomAffinity'
      BY <3>3 DEF NoPhantomAffinity, Known, Finished
    <3> QED BY <2>2, <3>4
  <2>4. CASE recency' = recency
    BY <1>2, <2>2, <2>4
  <2> QED BY <1>3, <2>3, <2>4, OnlyCommitsMatter
<1>4. ASSUME recency' = recency, pc' = pc, target' = target, status' = status,
             firstByte' = firstByte
      PROVE  EveryoneEarned' /\ NoPhantomAffinity'
  <2>1. EveryoneEarned' /\ \A r \in Requests : Settled(r)
    BY <1>4 DEF EveryoneEarned, Earned, Processed, Settled
  <2> QED BY <1>2, <1>4, <2>1
<1>5. ASSUME NEW b \in Flaky, HealthFlips(b)
      PROVE  EveryoneEarned' /\ NoPhantomAffinity'
  BY <1>4, <1>5 DEF HealthFlips, handlerVars, exchangeVars
<1>6. CASE UNCHANGED vars
  BY <1>4, <1>6 DEF vars, handlerVars, exchangeVars
<1> QED BY <1>3, <1>5, <1>6 DEF Next

(***************************************************************************)
(* "No phantom commit, no cross-namespace match", for every number of      *)
(* requests and any prompts: whatever a backend's directory knows was sent *)
(* to that backend, in that namespace, by a request it accepted.           *)
(***************************************************************************)
THEOREM NoPhantomCommit == Spec => []NoPhantomAffinity
<1>1. Init => EveryoneEarned /\ NoPhantomAffinity
  <2> SUFFICES ASSUME Init PROVE EveryoneEarned /\ NoPhantomAffinity
    OBVIOUS
  <2>1. EveryoneEarned
    BY DEF Init, EveryoneEarned, Earned
  <2>2. \A b \in Backends : ToSet(recency[b]) = {}
    BY DEF Init, LruInit, ToSet
  <2> QED BY <2>1, <2>2 DEF NoPhantomAffinity
<1> QED BY <1>1, StepKnown, HandlerTypesCorrect, DirectoryStaysGood, PTL DEF Spec

=============================================================================
