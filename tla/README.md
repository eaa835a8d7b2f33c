# kv-router: specifications and proofs

kv-router (Nostos) is a Go reverse proxy in front of a fleet of LLM inference
servers. It remembers which backend has probably computed which prompt prefix
and sends a request where most of its prefix is warm, weighing that against load.
This directory holds TLA+ models of the router, the TLC configurations that check
them on small instances, and proofs, checked by TLAPS, of what holds for every
instance. Paths below are relative to the repository.

## 1. The system

| component | state | operations | modelled in |
|---|---|---|---|
| admission control, `internal/backend/pool.go` | one atomic counter `queueDepth` per backend | `TryReserve`, `Release`, `QueueDepth` | `Reservation`, promise in `AdmissionSemaphore` |
| health checker, `internal/backend/pool.go` | atomic flag, two int32 outcome counters and two uint64 transition counters per backend | `StartHealthChecks`, `probe`, `Healthy`, `Snapshots` | `Health`, promise in `HealthWindow` |
| cache directory, `internal/cacheindex` | per backend a map namespace -> prefix key -> (time, sequence) under one lock | `Register`, `Lookup`, `Commit`, `Usage` | `CacheIndex`, promise in `LruDirectory` |
| scorer, `internal/scorer` | none | `Score`, `Rank`, `Route` | `Scorer` |
| request handler and proxy, `internal/api/handler.go`, `internal/backend/proxy.go` | per request: locals of the handler | `handleChatCompletions`, `Forward`, `ForwardStream` | `Router` |
| telemetry, `internal/telemetry` | ring of events under a lock, identifier and four counters, each atomic | `Record`, `Recent`, `Summary` | `Telemetry`, promise in `BoundedLog` |
| lifecycle, `cmd/kv-router`, `internal/api/server.go` | context, two error channels, listener | `run`, `Start`, signal, `Shutdown` | `Lifecycle` |
| configuration, `internal/config` | none | `LoadConfig`, `validate`, then `NewPool` | `Config` |
| tokenizer, `internal/tokenizer` | none | `HashPrefix`, `PrefixMatch` | `Tokenizer` |
| eviction model, `internal/eviction` (used by nothing) | per backend an LRU list of prefixes and a log of evictions, under one lock | `Register`, `RecordInsert`, `RecordAccess`, `PredictCached`, `EvictedSince` | `EvictionModel` |
| radix tree, `internal/radixtree` (used by nothing) | tree with entries per node under one lock, two counters | `Insert`, `Lookup`, `Touch`, `Evict`, `Stats` | `RadixTree` |
| operations dashboard, `web-ui/src/pages/DashboardPage.tsx` | per run of its effect a live flag and the last snapshot; the overview, backends, events and connection flag on display | polling effect, rendering | `Dashboard` |
| routing arena, `web-ui/src/components/RoutingArena.tsx` | five simulated fleets with their accounts, once as React state and once in references that event handlers read | `fire`, `reset`, focus, rendering | `RoutingArena` |
| GPU rack, `web-ui/src/components/GpuRack.tsx` | none | draws the nodes of the dashboard and of the arena | `GpuRack` |
| pages of the site, `web-ui/src/App.tsx`, `pages/*.tsx` | address, page, pending animation frames, tab of the home page | choice of page and title, links, scrolling | `Site` |
| generated bundle `site/web`, older pages in `site`, `.agents` | | | not modelled |

**How they interact.** `main` registers every backend in the directory, builds
the pool, starts one checker goroutine per backend and the HTTP server. Each
request runs in a goroutine of its own. It hashes its prompt, lists the healthy
backends (reading the flags the checkers write), builds a snapshot of each
(directory lookup, directory usage, queue depth: three separate reads), ranks
them, walks the ranking (flag, then `TryReserve`), forwards the request, copies
the response, commits the prefix to the directory if there is evidence that the
backend accepted it, records the outcome, and releases its slot. The dashboard
asks the router every three seconds for three views of that state, one request
each. The arena is a simulation in the browser that never talks to the router.

**What is hard.** Everything shared is read and written piecemeal: a counter
through compare-and-swap, flags one by one, a snapshot that is stale when used.
A response can fail before its headers, after them, or in the middle of a stream,
and each case leaves another combination of caller status, directory and
telemetry. The directory is bounded and shared by all callers' model names.
Counters wrap. The checker must stop, and each request must end, whatever the
rest does. In the browser polls overlap and outlive the effect that began them,
and React renders some updates at once and queues others. `PROJECT.json` lists the
hazards at their lines, with the properties that would catch each, or the reason why
none does.

**What correct means.** The web site's own list of correctness properties
(`EngineeringPage.tsx:384`) is "bounded memory, no cross-namespace match, no
phantom commit, no leaked reservation". They appear as `DirectorySound`
(in `ImplementsLru` too), `NoPhantomAffinity`, and `ImplementsSemaphore` of
`Router`, which rests on `CounterIsOccupants`. To these come:
the limit of a backend is never exceeded (`LimitRespected`); an available backend
is never overlooked (`NoAvailableBackendMissed`); the health flag is exactly the
documented hysteresis (`ImplementsWindow`); requests and checkers terminate; what
the console shows is the last thing it was told (`ScreenIsLastAnswer`) and agrees
with itself (`DashRackSound`); the arena compares like with like
(`AccountsComparable`) and its text and picture agree (`OneRoundOnScreen`,
`RackFitsVerdict`); links lead where they say (`LinksLand`).

## 2. Modules

```
AdmissionSemaphore <--implements-- Reservation      (ReservationProofs)
        ^-------------implements-- Router           (RouterProofs)
Recency <--extended by-- LruDirectory, RadixTree    (RecencyProofs)
LruDirectory <--------implements-- CacheIndex       (PackageProofs)
     ^---extended by-------------- Router
Scorer <---extended by------------ Router
HealthWindow <--------implements-- Health           (HealthProofs)
BoundedLog <----------implements-- Telemetry        (TelemetryProofs)
Lifecycle                                           (LifecycleProofs)
Config, Scorer, Tokenizer, CacheIndex,              (PackageProofs)
  RadixTree, EvictionModel <--exercised by-- MCPackages
GpuRack <--extended by-- Dashboard, RoutingArena    (WebProofs)
RoutingArena, Site <-----exercised by------- MCWeb
```

The arrows are what allow `Router` to be small. `Reservation` shows that the
compare-and-swap loop behaves as an indivisible semaphore, so `Router` takes a
slot in one step. `CacheIndex` shows that the maps with timestamps and
sequence numbers behave as a recency list, so `Router` shares a list.

**AdmissionSemaphore, Reservation.** A step per access to the counter: `Load`
(with the local comparison that follows it), `Swap`, `Release`. `pc` says where a
goroutine is, `current` is the local of the same name. The limit is computed from
the configured one as `NewPool` does, so the "unconstrained" branch of
`TryReserve` is unreachable. `ImplementsSemaphore` maps `load` and `swap` to
"asking": a refusal takes effect at the load, a grant at the swap.

**HealthWindow, Health.** `stage`, `step` and `burst` are the position of a
checker goroutine; `up` is the backend process. A goroutine is the only accessor
of its two outcome counters, so one probe's update of them and its
compare-and-swap are one step; the transition counter is updated in a step of its
own because readers can come in between. Counters have the widths `CounterMax`
and `TransitionRange` and wrap. `HealthWindow` knows no counters: the flag is a
function of the last outcomes. `outcomes` is a history variable.

**Recency, LruDirectory, CacheIndex.** `Recency` has the operations on lists of
prefix keys, as pure operators; `LruDirectory` is the directory made of such lists.
In `CacheIndex`, `entries` is the nested map of the code, partial
functions included, so that an empty namespace and a missing one differ. The
eviction loop is stated as its result, the entries with fewer than `Capacity`
newer ones. A key is a prefix (a sequence of blocks); the code's 64-bit FNV of it
is assumed not to collide. `clock` may stand still between commits.

**Scorer.** `Score` is an exact fraction, so that comparisons are integer
products. The code uses float64: two scores that are equal as fractions but come
from different figures may round apart, so `MayComeNext`, which the router uses,
leaves their order open. `Before` is the comparison `Rank` sorts by and `Rank` the
list in its order, which is unique; `Route` is modelled from its own loop. A limit
or a capacity of zero, which `Score` guards against, is among the inputs of the run.
Identifiers are positive numbers in the order of the
strings they stand for; `NoBackend` stands for `""`.

**Router.** One request per element of `Requests`, each handled once. The
locations of `pc` follow the handler: `new` (parsing), `health` (`pool.Healthy`,
one flag per step, any order), `lookup`/`usage`/`depth` (the snapshot loop),
`walk`/`reserve`/`refused` (the ranking), `forward` (waiting for headers), `body`,
`commit`, `record`, `release`, `done`. `queueDepth` is the backend's counter: raised
where `TryReserve` succeeds (in one step, which `Reservation` justifies), lowered
by the deferred `Release`, and read by the snapshot. That it counts the requests being
served is a theorem (`CounterIsOccupants`, section 4), not a definition: a slot that leaked or
was given back twice would make `ImplementsSemaphore` fail in the run.
`ended` says how the exchange with the backend ended: normally, by the backend
(connection refused or broken, header timeout) or by the caller (context
cancelled, write failed). `sent` is what the caller sees, `recorded` what the
telemetry gets. `steady` is a history variable, explained at `WatchSteady`. Health
flags flip at will (`Health` says when they really do, which is less often).
Left out: header copying, URL building, logging, the figures of the recorded
event, and the 503 for an empty ranking, which cannot occur since every backend
of the snapshot is marked healthy.

**BoundedLog, Telemetry.** `Record` is six steps: the identifier, the four
counters, the ring under its lock; `done[r]` counts them. A counter that does not
concern the request is a step that changes nothing else. `LoadCounter` is one
load of `Summary`. `before` and `earlier` are history variables for the two
properties about real time. `ImplementsLog` maps the slots, read from the oldest,
to the list of kept events. The figures of an event other than its identifier are
those the caller passed and are left out.

**Lifecycle.** `main`, `start` and `listener` are the positions of `run`,
`Server.Start` and the goroutine that listens; `result` and `listenErr` are the
two channels called `errCh`. A signal while `run` waits for the result stays in
its channel. Requests matter as far as `Shutdown` waits for them. `Answer` is a
handler that ends by itself, `Abort` one that ends because its context was
cancelled; a handler that waits for a stalled caller need not. When `run`
returns the process is gone, whatever its goroutines were doing; the health
checkers, which nobody waits for, have their end in `Health`.

**RadixTree.** A node is named by its path, so `tree` maps paths to their
entries; a node is never removed. `TouchEntry` is the code's `Touch`, a name
`Recency` has for another thing. `Remaining` is what a node keeps when entries
are taken out of it by index. `Evict` picks any of the oldest entries when
times are equal, since its walk visits children in map order. `lastUse` is a
history variable.

**EvictionModel.** `Victims` is the eviction loop stated as its result. Fractions
are exact; the decay of `ageScore` is an argument between its floor and one.

**Tokenizer.** A block stands for its hash. `MatchIsCommonText` is about texts:
messages are joined without a separator, so two conversations can be one text.

**Config.** A decoded file is a record; a URL is one of four kinds and a weight a
number of tenths or "not finite". `LoadConfig` defaults, then validates; `NewPool`
checks and defaults again. `AcceptedIsUsable` says that the two agree and that what
comes out satisfies the assumptions the other modules make about their constants.

**GpuRack.** `Sled` is what is drawn of one node: the lit and the owed cells, two
meters, and the marks. Ratios are pairs, percentages rounded as the page does.

**Dashboard.** A poll has a slot with the effect that began it and the answers
that are in. `Answer` reads the router's state for one endpoint at the moment it is
asked, so that a snapshot may be torn. `Receive` has the two early returns of
`load` (cleaned up, unchanged) as alternatives, `Fail` is its `catch`. `Mount` and
`Unmount` are the effect and its cleanup; StrictMode runs them as mount, unmount,
mount. Fetches are not aborted, so a poll outlives its effect. What is drawn is
defined from `screen`; `lastPoll` and `lastAnswer` are history variables.
`WorldsAssumption` is what `server.go` and the packages behind it send.

**RoutingArena.** `shown` is the state as last rendered, `latest` the same with the
queued updates, `ref` the three references. `Fire` reads and writes the references
and queues; `Reset` is a click, rendered in the same task; `Hover` is queued;
`FocusNow` is the one update that is rendered at once while others stay queued.
Every rendering overwrites the references. A policy's choice is a set of GPUs:
random pairs, and what rounding of float64 leaves open at an occupancy of exactly
0.88, are alternatives. Occupancy is in thousandths and a score in units of
1/(400 blocks), so both are exact. The session hashes are those that
`sessionLandingOn` is there to find; `TenantLanding` gives the others.

**Site.** A path is a sequence of pieces. `Draw` is React's first rendering of a
document, `Effects` the effects after it (title, `runHash`, the listeners), `Frame`
an animation frame, and `Follow` a click on any link of the page: the frame of the
marketing pages takes fragments, the browser the rest. The lists of links and
section ids are copied from the pages one by one, since a misspelt one is exactly
what `LinksLand` is to find. Links to other sites and to the repository are left out.

## 3. Runs

Every run's instance is in its `MC*.tla` and `.cfg`.

| run | shows | instance, and why it is enough |
|---|---|---|
| `reservation` | `CounterIsHolders`, `LimitRespected`, refinement of the semaphore, lock freedom | 3 goroutines; one backend with 2 slots and one with the default of 1: a race for the last slot, a lost swap and a third party that moves the counter in between all occur |
| `health` | refinement of the window, transitions match the flag, readmission, removal, shutdown | thresholds 3 and 2 as in the code, int32 replaced by -4..3 and uint64 by 0..3, so that every counter wraps, also while the flag stays the same |
| `packages` | accepted files can be run with; Rank and Route agree, ties, a dominated backend comes later; every score is a number; common text; capacity, no empty namespace and refinement of the LRU list; books of the radix tree and of the eviction model | one of six packages per behaviour. Files: every mistake in the first of up to 2 backends, and every mistake in the other settings. Lists of up to 3 backends over all combinations of figures, and of zero limits and capacities. Pairs of conversations of up to 2 messages of 0 to 3 characters and blocks of 3, so that texts end before, at and after a block's end. Directory: capacity 3 and 0, prompts that share a block, differ in the first one, or have 4 blocks, 2 namespaces, 2 clock values, `MaxSequence` = 9 prefixes committed in all, three times the capacity. Tree: 3 paths that branch under a node without entries, 2 backends, 3 times. Model: capacities 0 (nothing fits), 2 (one prefix is oversize) and 3, `MaxInserts` = 4 |
| `router_health` | no available backend missed, recorded status, every request ends | 2 requests (one streaming), 2 backends with one slot, health flips unrestricted |
| `router_contention` | plausible snapshots, no phantom affinity, refinement of the semaphore (no leaked reservation) | 3 requests, so that one finds a directory two others have filled and evicted from, and one is left without a slot; flags fixed (in all 4 ways) to keep the run small |
| `telemetry` | refinement of the log, newest first, identifiers, bracketed summaries | 3 requests that overlap in every way, a ring of 2 slots so that it wraps, one reader |
| `lifecycle` | exit code, signal and listen error end the process | 2 requests in flight, so that one can end while the other hangs |
| `web` | fair accounts, one round per rendering, rack and text agree; links land | arena: `MaxSeq` = 4 requests between two resets, in all three scenes, random draws all or nothing, one policy hovered over, renderings at any moment: two rounds can be queued and thrown away, and the warm bonus flips. Site: 5 typed addresses (one with an unknown fragment, three that only begin like a page's), every link of every page, `MaxActs` = 4 acts of the visitor, so that a link is followed after another one, an edit, and a tab, `MaxFrames` = 2 |
| `dashboard` | the display is the last answer, agrees with itself, and catches up | 2 polls that overlap, 2 runs of the effect (`MaxEffects`), a router before and after a request whose winner went down, so that all mixtures of two moments occur; outages at any time |
| `router_connection_failure`, `lifecycle_drain`, `dashboard_offline` | disagreements, section 5 | as above |

The bounds on time (`MaxClock`, `MaxTreeTime`, `MaxModelTime`), on numbers of
calls (`MaxSequence`, `MaxInserts`, `MaxSeq`, `MaxActs`, `MaxFrames`, `MaxEffects`,
the number of `Polls`) and on the inputs of `packages` (`MaxBackends`,
`MaxMessages`, `MaxEvict`) are the only artificial ones; all other state is finite
as it is. Deadlock is not checked where these bounds, or the end of all requests or
of the process, stop the model.

**Fairness.** A goroutine that can move is scheduled (weak fairness of the
handler's and the checker's steps, of the loop of `TryReserve`). Tickers fire.
Go's `select` chooses among ready cases at random, so a cancelled context that is
ready again and again is taken: strong fairness of `TakeDone`. A probe ends
within the health client's 5 s: weak fairness of its alternatives. In `Router` only
the handler's own steps are fair. That exchanges with backends end is the separate
assumption `ExchangesEnd`, used only by `EveryRequestEnds`: `ResponseHeaderTimeout`
starts when the request has been written, and no timeout covers the TLS handshake, the
writing of the request, the body of the response or the writing to the caller, so
without it a hanging exchange does hold its slot (section 5).
In `Lifecycle` the goroutines that can move are scheduled and the deadline of
`Shutdown` passes (`server.go:92`). That a cancelled handler ends is not assumed: one
that reads the body of a stalled caller, or writes to it, does not.
In `Dashboard` the interval goes on and a poll that does not fail is answered; both
are what the browser does. In `Site` the browser renders a document, runs its
effects, and draws frames. Nothing is assumed of callers, visitors, signals or
backend processes.

Each property of a passing run is shown to be able to fail: the operators
marked "Seeded fault" are plausible mistakes, and replacing the definition after
them by one makes the property named in `PROJECT.json` ("mutants") fail.

## 4. Proofs

Proved by TLAPS for every value of the constants that satisfies the assumptions
named in the modules. Each theorem about an invariant follows from an inductive
one; below is what had to be added to make it inductive, and why.

* `ReservationProofs` (any set of backends, any finite set of goroutines, any limits;
  `ClientsAssumption`, `LimitAssumption`): `TypeCorrect`, `CounterCorrect`,
  `AdmissionBounded`, `ReservationImplementsSemaphore`. `CounterIsHolders` alone is
  not inductive: a swap stores `current + 1`, and that this is within the limit follows
  only from `SwapBelowLimit` (the value being swapped was below the limit when
  loaded, and the swap succeeds only if it is still the counter's). The
  invariant `IInv` is their conjunction with the types and the bound. The proof
  goes action by action; only a successful swap and a release change the set of
  holders, by one element each.
  A grant or a refusal is then a step of the semaphore because the counter it
  compares is the number of holders.

* `RecencyProofs`: what `Recency`'s operations on lists return, for any list. `Without`
  is a recursive function, and the library's induction theorems cannot be used, so
  `Induction` proves what is needed on sets of numbers, from the least
  counterexample. `WithoutKeeps`, `TouchKeeps` and `NewestKeeps` say which elements
  an operation leaves, that any relation the list is ordered by still orders it (so
  nothing is listed twice), and how long it is.

* `RouterProofs` (assumptions of `Router`; nothing is used about the scorer, so the
  results hold for any ranking).
  - `NoAvailableBackendIsMissed` is inductive together with the handlers' types
    (`HandlerTypesCorrect`). A step of another request can only shrink `steady`
    (`SteadyShrinks`), and a step of the request itself drops a backend from its list
    only when it is unhealthy or, as its counter cannot change in the same step, still
    full.
  - `RecordedStatusIsSent` needs `Told`, which says for every location what has been
    sent, received and recorded so far.
  - `NoReservationLeaks` is `CounterIsOccupants`, inductive with the types: only a
    granted `TryReserve` and `Release` move the counter, and only they change who
    occupies a slot (`GrantEffect`, `ReleaseEffect`, `NobodyEnters`), which holds
    since every way from the reservation leads through `release`.
    `NoBackendIsOverloaded` follows: the counter is compared with the limit, and it
    counts the requests. So does `RouterImplementsSemaphore`: the walk decides by the
    counter, the semaphore by who holds a slot, and a refusal is justified only if the two
    agree. `SeenAs` gives the semaphore's view of each location; all steps but five
    stutter.
  - `RouterTypesCorrect` and `SnapshotsArePlausible` need `DirectoryGood` (lists without
    repetition, within the capacity, that never get shorter) and `SnapWithin`. Between
    the lookup and the usage of one backend a match is only bounded by the list, which
    other requests change in between; that it is within the usage read later holds
    because a directory's list never gets shorter.
  - `NoPhantomCommit` needs `Earned`: a request on its way to the commit has had the
    response that entitles it. A commit of one request then leaves every other key to
    the request it is owed to, since a finished request keeps target and status
    (`Settled`).

* `HealthProofs` (any backends and thresholds; counters of any width that can hold the
  thresholds): `HealthTypesCorrect`, `CountsTellFlag`, `CountersImplementWindow`,
  `ReturnIsFinal`. `CountedInv` has the flips that wait to be counted, modulo the
  width of the transition counters. The refinement rests on `Tracks`: an outcome
  counter is the length of the run at the end of the window, as far as the window
  reaches, or it has wrapped around and then the window is full of that outcome and
  the flag has followed already. That second case is why a wrapped counter does no
  harm. `ReturnIsFinal` says that nothing of a checker runs after
  `StartHealthChecks` has returned.

* `TelemetryProofs` (any finite set of requests, any capacity): `TypeCorrect`,
  `IdentifiersFollowRealTime`, `SummariesBracketed`, `RecentShowsNewest`,
  `RingImplementsLog`. The invariant joins eight parts. `SequenceExact` and
  `CountersExact` say which requests a number counts: those past the step that
  adds to it. A request that finished before another one began is therefore among
  those already counted, which gives the order of identifiers and, with
  `ReadersFollow`, the lower bound of a Summary. `RingOK` says that the slots in
  use are the `count` ones before `next`; entering an event then shifts the list
  read from the oldest slot by one, or extends it, and that is all the refinement
  needs.

* `LifecycleProofs` (any set of requests): `LifecycleTypes`, `SuccessTellsTruth`.
  `SuccessIsClean` is about the end; `PhasesInv` says what is known in each phase
  of `Start` (it is closing only if cancelled, and past `Shutdown` with no error
  only if nobody is in flight) and `ResultInv` that a result of nil carries that
  knowledge through the channel to `run`.

* `PackageProofs`, the packages without goroutines.
  - Configuration: `AcceptedFilesAreUsable`, for every decoded file.
  - Scorer, for every list of backends whose identifiers differ:
    `RankingsAreOnePolicy` and `DominatedIsLater`, and from them `RankingsAlwaysAgree`
    for the run. `BeforeIsOrder` shows that `Rank`'s comparison, by cross-multiplied
    fractions and then identifiers, is a strict total order; `OrderedListExists` lists a
    finite set in such an order, each element at the place that the number of those
    before it gives; its head is what `Route` finds by one pass. `DominatedIsLater`
    needs positive weights for hits and queues. `LoadConfig`'s defaults are positive,
    but `validate` also accepts a weight of zero, and then two backends that differ
    only in that figure tie. `NothingDividesByZero` has no hypothesis on the figures.
  - Cache index: `IndexTypesCorrect`, `IndexStaysSound`, `IndexImplementsLru`. The list
    a map stands for is the only one in the order of time and sequence number
    (`OneOrder`), so it is enough to show that the list `LruDirectory` would have is in
    that order too. Sequence numbers decide because they grow with every prefix
    while the clock may stand still (`IndexInv`). Committing puts the prompt's
    prefixes at the end (`TouchLists`), and what is left by an eviction is the
    newest end of the list (`SurvivorsAreNewest`): an entry has fewer than
    `Capacity` newer ones exactly if it is among the last `Capacity`.
  - Radix tree: `TreeTypesCorrect`, `CountersMatchTree`, `LookupFindsLongest`,
    `EvictionIsLeastRecent`. `TreeInv` adds that a node has at most one entry per
    backend, that every node's prefixes are nodes, and that an entry carries the
    time of the last use. The first makes the number of references that `Evict`
    removes one by one the number of pairs that go (`EvictTakes`), the second is what
    lets a lookup walk to the longest one.
  - Eviction model: `CacheListsSound` and `ConfidenceIsProbability`, and from these and
    those about the radix tree `UnusedPackagesAreSound` for the run. `ModelInv` is the
    types and, per backend, `CacheGood`: the blocks in use are the sum of the sizes
    listed, the entries are in the order of their last access and none is later than
    the clock. The order is what makes the victims of an insertion the oldest, and
    what was evicted since a time the end of the log. Sums of lists are a fold, about
    which the provers know nothing, hence `SumOf`, a recursive function, with
    `SumConcat`. The fractions of a confidence share a denominator and grow with the place
    in the list, so there is a greatest one (`GreatestFraction`); that it is at most one
    needs that the entries fit.
  - Tokenizer: `BlocksMatchText` and, from it, `MatchFollowsText` for conversations of
    any length. Up to the common prefix of two texts their blocks are equal (`SameBlock`),
    the block in which they part differs (`OtherBlock`), and a text that ends inside
    a block of the other one has a shorter one there.
  - `PackageTypesCorrect` joins the types of the packages with the acceptance of
    files. It needs `FileNames`: that the few identifiers and addresses of the instance
    are strings, which TLC evaluates and no installed prover can show.
* `WebProofs` (any landing of the sessions, any draws; any worlds, slots and effects;
  any bounds).
  - Arena: `ArenaTypesCorrect`, `ComparisonIsFair`, `RoundsAreNotMixed`. The
    invariant states both properties of all three copies of the state, since a
    rendering may bring any of them back, and that the three belong to the same scene
    (`ServedFacts` is the step from one round to the next).
  - Dashboard: `DashTypesCorrect`, `ScreenShowsLastAnswer`. The latter needs
    `Remembered`: what the effect keeps in `prev` is what is on the screen, or nothing
    yet. That is why the unchanged-snapshot return is harmless for the display; that
    it is not for the badge is section 5. The types need that a complete poll is a
    mixture of moments, one for each endpoint (`CompleteIsSnapshot`).
  - What is drawn: `RackAgreesWithText`, `DashboardAgrees`. Both rest on what
    `Math.round` does: two rounded shares of a whole cover it, perhaps with a cell to spare
    (`SharesFill`), a smaller part of the same whole is not rounded to more
    (`RoundedGrows`), which with `AccountsComparable` orders the bars. The
    second one assumes of the endpoints what their handlers send
    (`WorldsAssumption`): a backend once, no more matched blocks than a prompt has.
  - Site: `WebTypesCorrect`, which joins the arena's types. `SiteInv` adds that a
    document that is not yet drawn has no view, no frame and no event on its way, else a
    section of the page before it would be scrolled to on the next one.

Every invariant and refinement that a run checks is proved (`CounterIsOccupants` and the
limit of `Router` are proved only, and a run checks the refinement they lead to). Only model-checked are
the seven liveness properties (`LockFree`, `FlagFollowsBackend`, `ShutdownCompletes`,
`EveryRequestEnds`, `ProcessEnds`, `LinksLand`, `ScreenCatchesUp`), since the
prover has neither fairness nor `ENABLED`. Strings are opaque to it: `HeadingSays` and
`LivedOnSays` keep the sentences of the page out of the arithmetic.

## 5. What disagrees with the code

Each of these is a run TLC is expected to find violated.

1. A streaming request whose connection fails gets 200 with an empty body; the
   documentation promises 502 (`handler.go:148`, `EngineeringPage.tsx:312`).
2. A signal aborts the requests in flight: `BaseContext` gives them the context
   whose cancellation starts the shutdown. `Start` is said to drain them
   (`server.go:58` and `:68`).
3. After one failed poll the console goes on saying "api offline" while every poll
   succeeds, until some answer differs from the last one it has shown:
   the return for an unchanged snapshot comes before `setConnected(true)`
   (`DashboardPage.tsx:44` and `:49`).

Not runs, but noticed on the way.

* A streaming request that the backend answers with an error is recorded as 200
  and not counted as an error (`handler.go:158`); `EngineeringPage.tsx:314` says
  "The failure is recorded." One that breaks after its headers is recorded as 502,
  although its caller has received the backend's status.
* Only the wait for response headers has a timeout (`pool.go:144`). A backend that
  does not finish reading a request or sending a response holds a slot for as long as
  the caller stays, and as many such exchanges as slots take it out of service.
* Lookup does not return "the longest known prefix" (`index.go:42`): eviction
  takes the shortest prefix of the oldest prompt first, which hides the rest.
* A stream that breaks after its first byte is committed, on purpose
  (`handler.go:139`, issue #7), while `EngineeringPage.tsx:306` says streams are
  committed only after they finish successfully.
* `EngineeringPage.tsx:229` and `ResearchPage.tsx:237` still describe a 429 as soon as
  the selected backend loses its last slot; the handler goes on to the next one.
* When all candidates turn unhealthy after the snapshot the answer is 429, "all
  backends are at capacity" (`handler.go:118`).
* `RecordAccess` promotes the first entry that shares any block with the given
  prefix, not the given prefix (`lru.go:91`), and `PredictCached` counts a shared
  block once per entry, so that it can report more blocks than the prefix has
  (`lru.go:116`). An entry larger than the capacity is kept although a backend can
  hold `capacity` blocks "total" (`lru.go:23`).
* The arena calls a home warm from 40% of the request on, but a request "routed to
  the GPU that already computed this" only from 50%: in between the heading says
  "Sent the request somewhere else." (`RoutingArena.tsx:468`) above "correct sled"
  (`:484`). Below 40% it says "every policy pays full prefill" (`:330`) though up to
  40% may be reused. The scene of new prompts is described as always cold (`:48`),
  but its tenants share a family and warm it up. "Longest observed prefix wins" (`:57`)
  leaves out the terms for load and occupancy.
* `/dashboard/x`, `/engineering/x` and unknown notes get the page but the title of the
  home page (`App.tsx:23`); a trailing slash is dropped for the title and for
  the choice of page, while `ResearchPage.tsx:338` matches by prefix.
* The console can show more than 100% warm routes: `Summary` loads requests before
  hits (`recorder.go:94`). `SummaryBracketed` bounds how far they part.

Also stated by the code and found to be so: a request may be sent to a backend
that turned unhealthy after the check at `handler.go:103`, and `503` may be given
although at each single moment some backend was healthy (the flags are read one
by one); what holds instead is `NoAvailableBackendMissed`.

## 6. Not modelled

* `Snapshots` and the JSON of the three endpoints: `Dashboard` takes their content
  as given. `checkAll`, which nothing calls.
* Parsing of flags, YAML, URLs and JSON, the Prometheus text, logging, and the copying of
  headers: conversions no property here depends on.
* Floating point beyond the ties described under Scorer and RoutingArena.
* The prose of the web pages, their styles and drawings, links to other sites, and
  the hints of the arena's scenes; `site/web/assets`, which is generated from `web-ui`;
  the static pages in `site`; the tools in `.agents`.
* More than one router: the directory is per process, and nothing in the code
  exchanges it.
