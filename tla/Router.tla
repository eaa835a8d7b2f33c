------------------------------- MODULE Router -------------------------------
(***************************************************************************)
(* The data path of kv-router: handleChatCompletions (internal/api/        *)
(* handler.go) with backend.Forward and ForwardStream (internal/backend/   *)
(* proxy.go), run by one goroutine per request.  The goroutines share the  *)
(* health flags, the reservation counters and the cache directory; each    *)
(* access to one of them is a step.  The directory is the recency list of  *)
(* LruDirectory, and the compare-and-swap loop on a reservation counter is *)
(* one step, as Reservation, which implements AdmissionSemaphore, allows.  *)
(***************************************************************************)
EXTENDS LruDirectory, Scorer, FiniteSets

CONSTANTS Requests,    \* one goroutine per request
          Streaming,   \* the requests with "stream": true
          NamespaceOf, \* NamespaceOf[r]: the namespace of r's model
          PromptOf,    \* PromptOf[r]: the block hashes of r's messages
          Limit,       \* Limit[b]: Backend.maxConcurrent
          Flaky,       \* backends whose health flag flips during a run
          Statuses     \* status codes backends answer with

ASSUME BackendAssumption ==   \* numbers, ordered like the strings of the code
  Backends \subseteq Nat \ {NoBackend} /\ Backends # {}

ASSUME RequestAssumption ==
  /\ IsFiniteSet(Requests)
  /\ Streaming \subseteq Requests
  /\ NamespaceOf \in [Requests -> Namespaces]
  /\ PromptOf \in [Requests -> Prompts]

ASSUME FlakyAssumption == Flaky \subseteq Backends

ASSUME BoundsAssumption ==    \* Config.validate and NewPool
  /\ Limit \in [Backends -> Nat \ {0}]
  /\ Capacity \in [Backends -> Nat \ {0}]

ASSUME StatusAssumption == Statuses \subseteq 200..599

VARIABLES healthy,     \* healthy[b]: the flag Health maintains
          queueDepth,  \* queueDepth[b]: Backend.queueDepth, the counter
          pc,          \* pc[r]: where the handler of r is
          unread,      \* unread[r]: flags pool.Healthy() has yet to read
          seen,        \* seen[r]: backends it found healthy
          snap,        \* snap[r]: the backend states built so far
          candidates,  \* candidates[r]: the rest of the ranking
          target,      \* target[r]: the backend r tries or holds
          status,      \* status[r]: the backend's status, 0 before headers
          firstByte,   \* firstByte[r]: ForwardStream has a TTFT result
          ended,       \* ended[r]: how the exchange with the backend ended
          sent,        \* sent[r]: the status the caller received, 0 if none
          recorded,    \* recorded[r]: the status given to the telemetry
          steady       \* history: backends available to r all along, below

handlerVars == <<unread, seen, snap, candidates, target>>
exchangeVars == <<status, firstByte, ended, sent, recorded>>
vars == <<recency, healthy, queueDepth, pc, handlerVars, exchangeVars, steady>>

Locations ==
  {"new", "health", "lookup", "usage", "depth", "walk", "reserve", "refused",
   "forward", "body", "commit", "record", "release", "done"}

(***************************************************************************)
(* The deferred Release runs last: a request is served by its backend from *)
(* its reservation to the end of the handler.                              *)
(***************************************************************************)
Occupying == {"forward", "body", "commit", "record", "release"}
Choosing  == {"walk", "reserve", "refused"}

Occupants(b) == {r \in Requests : pc[r] \in Occupying /\ target[r] = b}
Free(b) == queueDepth[b] < Limit[b]

(***************************************************************************)
(* The snapshot loop takes the healthy backends in the order of their      *)
(* identifiers: the next one, and the one it is at.                        *)
(***************************************************************************)
IsNext(r, b) == /\ b \in seen[r] \ DOMAIN snap[r]
                /\ \A c \in seen[r] \ DOMAIN snap[r] : b <= c

IsCurrent(r, b) == /\ b \in DOMAIN snap[r]
                   /\ \A c \in DOMAIN snap[r] : c <= b

State(r, b) ==
  [id |-> b, matched |-> snap[r][b].matched, depth |-> snap[r][b].depth,
   maxDepth |-> Limit[b], used |-> snap[r][b].used, capacity |-> Capacity[b],
   healthy |-> TRUE]

States(r, bs) == {State(r, b) : b \in bs}

HandlerTypeOK ==
  /\ healthy \in [Backends -> BOOLEAN]
  /\ queueDepth \in [Backends -> Int]
  /\ pc \in [Requests -> Locations]
  /\ unread \in [Requests -> SUBSET Backends]
  /\ seen \in [Requests -> SUBSET Backends]
  /\ candidates \in [Requests -> SUBSET Backends]
  /\ target \in [Requests -> Backends]
  /\ status \in [Requests -> Statuses \cup {0}]
  /\ firstByte \in [Requests -> BOOLEAN]
  /\ ended \in [Requests -> {"no", "eof", "upstream", "caller"}]
  /\ sent \in [Requests -> Statuses \cup {0, 200, 400, 429, 502, 503}]
  /\ recorded \in [Requests -> Statuses \cup {0, 200, 502}]
  /\ steady \in [Requests -> SUBSET Backends]

DirectoryTypeOK ==
  /\ recency \in [Backends -> Seq(Namespaces \X Seq(Blocks))]
  /\ DOMAIN snap = Requests
  /\ \A r \in Requests :
       /\ DOMAIN snap[r] \subseteq seen[r]
       /\ \A b \in DOMAIN snap[r] :
            snap[r][b] \in [matched : Nat, used : Nat, depth : Nat]

\* Types of the handlers' locals, of the pool and of the directory.
TypeOK == HandlerTypeOK /\ DirectoryTypeOK

Init ==
  /\ LruInit
  /\ healthy \in [Backends -> BOOLEAN]
  /\ queueDepth = [b \in Backends |-> 0]
  /\ pc = [r \in Requests |-> "new"]
  /\ unread = [r \in Requests |-> {}]
  /\ seen = [r \in Requests |-> {}]
  /\ snap = [r \in Requests |-> << >>]
  /\ candidates = [r \in Requests |-> {}]
  /\ target = [r \in Requests |-> CHOOSE b \in Backends : TRUE]
  /\ status = [r \in Requests |-> 0]
  /\ firstByte = [r \in Requests |-> FALSE]
  /\ ended = [r \in Requests |-> "no"]
  /\ sent = [r \in Requests |-> 0]
  /\ recorded = [r \in Requests |-> 0]
  /\ steady = [r \in Requests |-> {}]

GoTo(r, location) == pc' = [pc EXCEPT ![r] = location]
Answer(r, code) == sent' = [sent EXCEPT ![r] = code]

(***************************************************************************)
(* steady[r] is the set of backends that would have served r at any moment *)
(* so far: those healthy ever since it began to read the flags, and then,  *)
(* those of its snapshot healthy and with a free slot ever since it began  *)
(* to walk the ranking.                                                    *)
(***************************************************************************)
WatchSteady ==
  steady' = [r \in Requests |->
    CASE pc'[r] = "health" ->
           {b \in (IF pc[r] = "health" THEN steady[r] ELSE Backends) : healthy'[b]}
      [] pc'[r] \in Choosing ->
           {b \in (IF pc[r] \in Choosing THEN steady[r] ELSE seen[r]) :
              healthy'[b] /\ Free(b)'}
      [] OTHER -> {}]

-----------------------------------------------------------------------------
(* Parsing, and the list of healthy backends.                              *)

(***************************************************************************)
(* An unreadable body, invalid JSON or an empty list of messages.          *)
(***************************************************************************)
Reject(r) ==
  /\ pc[r] = "new"
  /\ GoTo(r, "done")
  /\ Answer(r, 400)
  /\ UNCHANGED <<recency, healthy, queueDepth, handlerVars, status, firstByte,
                 ended, recorded>>
  /\ WatchSteady

Parse(r) ==
  /\ pc[r] = "new"
  /\ GoTo(r, "health")
  /\ unread' = [unread EXCEPT ![r] = Backends]
  /\ UNCHANGED <<recency, healthy, queueDepth, seen, snap, candidates, target,
                 exchangeVars>>
  /\ WatchSteady

(***************************************************************************)
(* pool.Healthy() ranges over a map, in any order, and loads one flag at a *)
(* time.  When it has found none the handler answers 503.                  *)
(***************************************************************************)
ReadHealth(r, b) ==
  /\ pc[r] = "health" /\ b \in unread[r]
  /\ unread' = [unread EXCEPT ![r] = @ \ {b}]
  /\ seen' = [seen EXCEPT ![r] = IF healthy[b] THEN @ \cup {b} ELSE @]
  /\ IF unread'[r] # {} THEN UNCHANGED <<pc, sent>>
     ELSE IF seen'[r] # {} THEN GoTo(r, "lookup") /\ UNCHANGED sent
     ELSE GoTo(r, "done") /\ Answer(r, 503)
  /\ UNCHANGED <<recency, healthy, queueDepth, snap, candidates, target,
                 status, firstByte, ended, recorded>>
  /\ WatchSteady

-----------------------------------------------------------------------------
(* The snapshot: for one healthy backend after the other, in the order of  *)
(* their identifiers, Lookup, Usage and QueueDepth, each on its own.       *)

LookupBlocks(r, b) ==
  /\ pc[r] = "lookup" /\ IsNext(r, b)
  /\ LET s == [matched |-> Match(b, NamespaceOf[r], PromptOf[r]),
               used |-> 0, depth |-> 0]
     IN  snap' = [snap EXCEPT ![r] =
                    [c \in DOMAIN @ \cup {b} |-> IF c = b THEN s ELSE @[c]]]
  /\ GoTo(r, "usage")
  /\ UNCHANGED <<recency, healthy, queueDepth, unread, seen, candidates,
                 target, exchangeVars>>
  /\ WatchSteady

ReadUsage(r, b) ==
  /\ pc[r] = "usage" /\ IsCurrent(r, b)
  /\ snap' = [snap EXCEPT ![r][b].used = Used(b)]
  /\ GoTo(r, "depth")
  /\ UNCHANGED <<recency, healthy, queueDepth, unread, seen, candidates,
                 target, exchangeVars>>
  /\ WatchSteady

ReadQueueDepth(r, b) ==
  /\ pc[r] = "depth" /\ IsCurrent(r, b)
  /\ snap' = [snap EXCEPT ![r][b].depth = queueDepth[b]]
  /\ IF DOMAIN snap[r] = seen[r]
       THEN /\ GoTo(r, "walk")
            /\ candidates' = [candidates EXCEPT ![r] = seen[r]]
       ELSE GoTo(r, "lookup") /\ UNCHANGED candidates
  /\ UNCHANGED <<recency, healthy, queueDepth, unread, seen, target,
                 exchangeVars>>
  /\ WatchSteady

-----------------------------------------------------------------------------
(* The walk over the ranking: the flag is read again, then TryReserve.     *)
(* Once the walk is over the handler reads its list, its snapshot and the  *)
(* rest of its ranking no more; the model forgets them.                    *)

ForgetWalk(r) ==
  /\ seen' = [seen EXCEPT ![r] = {}]
  /\ snap' = [snap EXCEPT ![r] = << >>]
  /\ candidates' = [candidates EXCEPT ![r] = {}]

NextInRank(r) ==
  {s.id : s \in MayComeNext(Len(PromptOf[r]), States(r, seen[r]),
                            States(r, candidates[r]))}

\* Seeded fault: the walk does not go on past an unhealthy candidate.
CheckHealthAgain(r, b) ==
  /\ pc[r] \in {"walk", "refused"} /\ candidates[r] # {}
  /\ b \in NextInRank(r)
  /\ healthy[b]
  /\ GoTo(r, "reserve")
  /\ target' = [target EXCEPT ![r] = b]
  /\ UNCHANGED <<recency, healthy, queueDepth, unread, seen, snap, candidates,
                 exchangeVars>>
  /\ WatchSteady

CheckHealth(r, b) ==
  /\ pc[r] \in {"walk", "refused"} /\ candidates[r] # {}
  /\ b \in NextInRank(r)
  /\ IF healthy[b]
       THEN /\ GoTo(r, "reserve")
            /\ target' = [target EXCEPT ![r] = b]
            /\ UNCHANGED candidates
       ELSE /\ candidates' = [candidates EXCEPT ![r] = @ \ {b}]
            /\ UNCHANGED <<pc, target>>
  /\ UNCHANGED <<recency, healthy, queueDepth, unread, seen, snap,
                 exchangeVars>>
  /\ WatchSteady

(***************************************************************************)
(* TryReserve: the counter is compared with the limit and raised.          *)
(***************************************************************************)
Reserve(r) ==
  /\ GoTo(r, "forward")
  /\ queueDepth' = [queueDepth EXCEPT ![target[r]] = @ + 1]
  /\ ForgetWalk(r)

\* Seeded fault: a lost race ends the walk (the behaviour before issue #1).
TryReserveOnce(r) ==
  /\ pc[r] = "reserve"
  /\ IF Free(target[r])
       THEN Reserve(r)
       ELSE /\ GoTo(r, "refused")
            /\ candidates' = [candidates EXCEPT ![r] = {}]
            /\ UNCHANGED <<queueDepth, seen, snap>>
  /\ UNCHANGED <<recency, healthy, unread, target, exchangeVars>>
  /\ WatchSteady

TryReserve(r) ==
  /\ pc[r] = "reserve"
  /\ IF Free(target[r])
       THEN Reserve(r)
       ELSE /\ GoTo(r, "refused")
            /\ candidates' = [candidates EXCEPT ![r] = @ \ {target[r]}]
            /\ UNCHANGED <<queueDepth, seen, snap>>
  /\ UNCHANGED <<recency, healthy, unread, target, exchangeVars>>
  /\ WatchSteady

AtCapacity(r) ==
  /\ pc[r] \in {"walk", "refused"} /\ candidates[r] = {}
  /\ GoTo(r, "done")
  /\ Answer(r, 429)
  /\ ForgetWalk(r)
  /\ UNCHANGED <<recency, healthy, queueDepth, unread, target, status,
                 firstByte, ended, recorded>>
  /\ WatchSteady

-----------------------------------------------------------------------------
(* Forward and ForwardStream.  The causes of an end without eof are the    *)
(* backend (refused or broken connection, header timeout) and the caller   *)
(* (its context was cancelled, or writing to it failed).                   *)

Causes == {"upstream", "caller"}

(***************************************************************************)
(* client.Do returns an error.  The handler answers 502, except on the     *)
(* streaming path, where it writes nothing.                                *)
(***************************************************************************)
\* Seeded fault: the error path gives the slot back, and so does the deferred
\* Release.
ForwardFailsReleasing(r, cause) ==
  /\ pc[r] = "forward"
  /\ ended' = [ended EXCEPT ![r] = cause]
  /\ queueDepth' = [queueDepth EXCEPT ![target[r]] = @ - 1]
  /\ IF r \in Streaming THEN UNCHANGED sent ELSE Answer(r, 502)
  /\ GoTo(r, "record")
  /\ UNCHANGED <<recency, healthy, handlerVars, status, firstByte, recorded>>
  /\ WatchSteady

ForwardFails(r, cause) ==
  /\ pc[r] = "forward"
  /\ ended' = [ended EXCEPT ![r] = cause]
  /\ IF r \in Streaming THEN UNCHANGED sent ELSE Answer(r, 502)
  /\ GoTo(r, "record")
  /\ UNCHANGED <<recency, healthy, queueDepth, handlerVars, status, firstByte,
                 recorded>>
  /\ WatchSteady

HeadersArrive(r, code) ==
  /\ pc[r] = "forward"
  /\ status' = [status EXCEPT ![r] = code]
  /\ Answer(r, code)
  /\ GoTo(r, "body")
  /\ UNCHANGED <<recency, healthy, queueDepth, handlerVars, firstByte, ended,
                 recorded>>
  /\ WatchSteady

FirstByteArrives(r) ==
  /\ pc[r] = "body" /\ r \in Streaming /\ status[r] < 400 /\ ~firstByte[r]
  /\ firstByte' = [firstByte EXCEPT ![r] = TRUE]
  /\ UNCHANGED <<recency, healthy, queueDepth, pc, handlerVars, status, ended,
                 sent, recorded>>
  /\ WatchSteady

(***************************************************************************)
(* What lets the handler commit: a first byte of a stream, or a status     *)
(* below 400 of a response whose body was copied, completely or not.       *)
(***************************************************************************)
\* Seeded fault: any response counts.
EvidenceAnyStatus(r) == status[r] # 0

Evidence(r) == IF r \in Streaming THEN firstByte[r] ELSE status[r] \in 1..399

BodyEnds(r, cause) ==
  /\ pc[r] = "body"
  /\ ended' = [ended EXCEPT ![r] = cause]
  /\ GoTo(r, IF Evidence(r) THEN "commit" ELSE "record")
  /\ UNCHANGED <<recency, healthy, queueDepth, handlerVars, status, firstByte,
                 sent, recorded>>
  /\ WatchSteady

-----------------------------------------------------------------------------
(* Commit, telemetry, and the deferred Release.                            *)

CommitCacheObservation(r) ==
  /\ pc[r] = "commit"
  /\ CommitObservation(target[r], NamespaceOf[r], PromptOf[r])
  /\ GoTo(r, "record")
  /\ UNCHANGED <<healthy, queueDepth, handlerVars, exchangeVars>>
  /\ WatchSteady

(***************************************************************************)
(* The status the handler records: ForwardStream reports an error for a    *)
(* broken exchange but none for a complete error response; on the other    *)
(* path only a missing response is an error.                               *)
(***************************************************************************)
\* Seeded faults: a caller who left is told apart; only errors are recorded.
RouteStatusCallerGone(r) ==
  IF ended[r] = "caller" THEN 499 ELSE IF status[r] = 0 THEN 502 ELSE status[r]

RouteStatusOfForward(r) == IF status[r] = 0 THEN 502 ELSE 200

RouteStatus(r) ==
  IF r \in Streaming
    THEN IF ended[r] = "eof" THEN 200 ELSE 502
    ELSE IF status[r] = 0 THEN 502 ELSE status[r]

RecordRoute(r) ==
  /\ pc[r] = "record"
  /\ recorded' = [recorded EXCEPT ![r] = RouteStatus(r)]
  /\ GoTo(r, "release")
  /\ UNCHANGED <<recency, healthy, queueDepth, handlerVars, status, firstByte,
                 ended, sent>>
  /\ WatchSteady

(***************************************************************************)
(* The slot is given back and the handler returns.  If it has written no   *)
(* status by then, net/http sends 200.                                     *)
(***************************************************************************)
\* Seeded fault: Release is the last statement of the handler, not deferred, so
\* that the early returns for an error of Forward or ForwardStream leak the slot.
ReleaseNotDeferred(r) ==
  /\ pc[r] = "release"
  /\ GoTo(r, "done")
  /\ IF status[r] = 0 \/ (r \in Streaming /\ ended[r] # "eof")
       THEN UNCHANGED queueDepth
       ELSE queueDepth' = [queueDepth EXCEPT ![target[r]] = @ - 1]
  /\ IF sent[r] = 0 THEN Answer(r, 200) ELSE UNCHANGED sent
  /\ UNCHANGED <<recency, healthy, handlerVars, status, firstByte, ended,
                 recorded>>
  /\ WatchSteady

Release(r) ==
  /\ pc[r] = "release"
  /\ GoTo(r, "done")
  /\ queueDepth' = [queueDepth EXCEPT ![target[r]] = @ - 1]
  /\ IF sent[r] = 0 THEN Answer(r, 200) ELSE UNCHANGED sent
  /\ UNCHANGED <<recency, healthy, handlerVars, status, firstByte, ended,
                 recorded>>
  /\ WatchSteady

-----------------------------------------------------------------------------
(***************************************************************************)
(* The health checker flips a flag (module Health says when).              *)
(***************************************************************************)
HealthFlips(b) ==
  /\ healthy' = [healthy EXCEPT ![b] = ~@]
  /\ UNCHANGED <<recency, queueDepth, pc, handlerVars, exchangeVars>>
  /\ WatchSteady

(***************************************************************************)
(* The steps of the handler alone, and those it waits for the backend or   *)
(* the caller to cause.                                                    *)
(***************************************************************************)
Handle(r) ==
  \/ \E b \in Backends :
       \/ ReadHealth(r, b)
       \/ LookupBlocks(r, b) \/ ReadUsage(r, b) \/ ReadQueueDepth(r, b)
       \/ CheckHealth(r, b)
  \/ TryReserve(r) \/ AtCapacity(r)
  \/ CommitCacheObservation(r) \/ RecordRoute(r) \/ Release(r)

AwaitHeaders(r) ==
  \/ \E cause \in Causes : ForwardFails(r, cause)
  \/ \E code \in Statuses : HeadersArrive(r, code)

AwaitEnd(r) == \E cause \in Causes \cup {"eof"} : BodyEnds(r, cause)

Next ==
  \/ \E r \in Requests :
       \/ Reject(r) \/ Parse(r)
       \/ Handle(r)
       \/ AwaitHeaders(r) \/ FirstByteArrives(r) \/ AwaitEnd(r)
  \/ \E b \in Flaky : HealthFlips(b)

(***************************************************************************)
(* A handler that can move is scheduled: its own steps wait for nobody.    *)
(***************************************************************************)
Fairness == \A r \in Requests : WF_vars(Handle(r))

(***************************************************************************)
(* An assumption about backends and callers, apart from Fairness because   *)
(* the code does not enforce it: exchanges end.  ResponseHeaderTimeout     *)
(* counts from the moment the request has been written; no timeout ends    *)
(* the TLS handshake, the writing of the request, the body of the response *)
(* or the writing to the caller.                                           *)
(***************************************************************************)
ExchangesEnd ==
  \A r \in Requests : WF_vars(AwaitHeaders(r)) /\ WF_vars(AwaitEnd(r))

Spec == Init /\ [][Next]_vars

FairSpec == Spec /\ Fairness

-----------------------------------------------------------------------------
(***************************************************************************)
(* The figures a request is scored with make sense although they are read  *)
(* one by one while others commit and reserve: a backend has matched no    *)
(* more blocks than its directory uses, which is within the capacity, and  *)
(* its queue depth is within its limit.  So every ratio of the score is at *)
(* most one.                                                               *)
(***************************************************************************)
SnapshotPlausible ==
  \A r \in Requests : \A b \in DOMAIN snap[r] :
    LET s == snap[r][b]
    IN  /\ (pc[r] = "usage" /\ IsCurrent(r, b)) \/ s.matched <= s.used
        /\ s.used <= Capacity[b]
        /\ s.depth <= Limit[b]

(***************************************************************************)
(* "No phantom commit, no cross-namespace match": whatever the directory   *)
(* of a backend knows was sent to that backend by a request of the same    *)
(* namespace that was accepted, as a status below 400 shows, and for a     *)
(* stream by a first byte of output.                                       *)
(***************************************************************************)
Processed(r) == status[r] \in 200..399 /\ (r \in Streaming => firstByte[r])

NoPhantomAffinity ==
  \A b \in Backends : \A key \in ToSet(recency[b]) :
    \E r \in Requests : /\ target[r] = b /\ Processed(r)
                        /\ pc[r] \in {"record", "release", "done"}
                        /\ key \in PrefixKeys(NamespaceOf[r], PromptOf[r])

(***************************************************************************)
(* Issue #1: one contended winner cannot fail the request while capacity   *)
(* sits idle elsewhere.  A backend that has been available all along is    *)
(* still among those the request will look at; so it gets 503 only if no   *)
(* backend was healthy throughout, 429 only if none of its candidates had  *)
(* a free slot throughout, and never a backend ranked after such a one.    *)
(***************************************************************************)
NoAvailableBackendMissed ==
  \A r \in Requests :
    /\ pc[r] = "health" => steady[r] \subseteq seen[r] \cup unread[r]
    /\ pc[r] \in Choosing => steady[r] \subseteq candidates[r]

\* A control point as the semaphore sees it.
Seen(location) ==
  CASE location = "reserve"   -> "asking"
    [] location = "refused"   -> "refused"
    [] location \in Occupying -> "holding"
    [] OTHER                  -> "out"

SeenState == [r \in Requests |-> Seen(pc[r])]

(***************************************************************************)
(* "No leaked reservation": the counters are the numbers of requests being *)
(* served, so nothing that can happen to a request after TryReserve leaves *)
(* a slot taken, or gives it back twice.                                   *)
(***************************************************************************)
CounterIsOccupants ==
  \A b \in Backends : queueDepth[b] = Cardinality(Occupants(b))

(***************************************************************************)
(* The requests and the counters implement the semaphore, which knows no   *)
(* counter but who holds a slot: no backend serves more requests than its  *)
(* limit, and a refusal means that all its slots are held.                 *)
(***************************************************************************)
Semaphore == INSTANCE AdmissionSemaphore WITH
  Clients <- Requests, state <- SeenState, slot <- target

ImplementsSemaphore == Semaphore!SemSpec

(***************************************************************************)
(* Outside the streaming path the telemetry and the caller are told the    *)
(* same status.                                                            *)
(***************************************************************************)
RecordedIsSent ==
  \A r \in Requests \ Streaming :
    pc[r] = "done" /\ recorded[r] # 0 => recorded[r] = sent[r]

(***************************************************************************)
(* "Connection failure: ... the caller receives 502." (EngineeringPage).   *)
(***************************************************************************)
ConnectionFailureIs502 ==
  \A r \in Requests :
    pc[r] = "done" /\ ended[r] = "upstream" /\ status[r] = 0 => sent[r] = 502

(***************************************************************************)
(* If exchanges with backends end, every request that was accepted is      *)
(* answered and gives its slot back, whatever the others and the health    *)
(* checker do: the handler itself waits for nothing else.                  *)
(***************************************************************************)
EveryRequestEnds ==
  ExchangesEnd => \A r \in Requests : pc[r] = "health" ~> pc[r] = "done"

=============================================================================
