----------------------------- MODULE Dashboard -----------------------------
(***************************************************************************)
(* web-ui/src/pages/DashboardPage.tsx: the page polls three endpoints every*)
(* three seconds, without waiting for the poll before, and draws what it   *)
(* gets.  An answer carries the state of the server when that endpoint was *)
(* asked, so that one poll may combine three moments.  React's StrictMode  *)
(* runs the effect, cleans it up and runs it again: each run has a live    *)
(* flag and a last snapshot of its own, but they share what is on display. *)
(* What an endpoint has answered is a sequence, empty until it has.        *)
(***************************************************************************)
EXTENDS GpuRack, Sequences, FiniteSets

CONSTANTS Worlds,      \* states of the server: what the endpoints answer
          Polls,       \* bound on the polls in flight: a slot for each
          MaxEffects   \* bound on the runs of the effect

Endpoints == {"overview", "backends", "recent"}
NoSnapshot == [e \in Endpoints |-> << >>]
Answers(e) == {<< >>} \cup {<<w[e]>> : w \in Worlds}
Snapshots == {NoSnapshot}
  \cup {[e \in Endpoints |-> <<v[e][e]>>] : v \in [Endpoints -> Worlds]}
SnapshotOf(w) == [e \in Endpoints |-> <<w[e]>>]

\* Slot 0 of an effect number: no poll.
Idle == [effect |-> 0, got |-> NoSnapshot]

ASSUME DashboardAssumption ==
  /\ MaxEffects \in Nat
  /\ \A w \in Worlds : DOMAIN w = Endpoints

(***************************************************************************)
(* What the handlers of the endpoints send: usages are counts, a backend   *)
(* is listed once, and an event matches no more blocks than it has.        *)
(***************************************************************************)
Rows == [id : STRING, healthy : BOOLEAN, inflight : Nat]
EventRows == [backend : STRING, matched : Nat, total : Nat, ttft : Nat]

ASSUME WorldsAssumption ==
  \A w \in Worlds :
    /\ \A u \in w["overview"].cache : u.used \in Nat /\ u.capacity \in Nat
    /\ w["backends"] \in Seq(Rows)
    /\ \A i, j \in DOMAIN w["backends"] :
         w["backends"][i].id = w["backends"][j].id => i = j
    /\ w["recent"] \in Seq(EventRows)
    /\ \A i \in DOMAIN w["recent"] : w["recent"][i].matched <= w["recent"][i].total

VARIABLES server,     \* the state of the router
          outage,     \* requests to it may fail
          effect,     \* how often the effect has run
          live,       \* the effect that is mounted, or 0
          prev,       \* the last snapshot that effect has shown
          poll,       \* poll[p]: its effect and the answers that are in
          screen,     \* overview, backends and events
          connected,
          lastPoll,   \* history: how the last poll of a live effect ended
          lastAnswer  \* history: the last snapshot a live effect received

dashVars == <<server, outage, effect, live, prev, poll, screen, connected,
              lastPoll, lastAnswer>>

Running == {p \in Polls : poll[p].effect # 0}
Complete(p) == \A e \in Endpoints : poll[p].got[e] # << >>

\* Types; in particular a snapshot always combines answers of the endpoints.
DashTypeOK ==
  /\ server \in Worlds
  /\ outage \in BOOLEAN
  /\ effect \in 0..MaxEffects
  /\ live \in {0, effect}
  /\ prev \in Snapshots
  /\ screen \in Snapshots
  /\ lastAnswer \in Snapshots
  /\ DOMAIN poll = Polls
  /\ \A p \in Polls :
       /\ poll[p].effect \in 0..effect
       /\ DOMAIN poll[p].got = Endpoints
       /\ \A e \in Endpoints : poll[p].got[e] \in Answers(e)
  /\ connected \in BOOLEAN
  /\ lastPoll \in {"none", "ok", "failed"}

DashInit ==
  /\ server \in Worlds
  /\ outage \in BOOLEAN
  /\ effect = 0 /\ live = 0
  /\ prev = NoSnapshot
  /\ poll = [p \in Polls |-> Idle]
  /\ screen = NoSnapshot
  /\ connected = FALSE
  /\ lastPoll = "none" /\ lastAnswer = NoSnapshot

-----------------------------------------------------------------------------
(* The router and the network.                                             *)

\* Also back to an earlier state: most figures go up and down.
Change ==
  /\ server' \in Worlds \ {server}
  /\ UNCHANGED <<outage, effect, live, prev, poll, screen, connected, lastPoll,
                 lastAnswer>>

Break ==
  /\ outage' = ~outage
  /\ UNCHANGED <<server, effect, live, prev, poll, screen, connected, lastPoll,
                 lastAnswer>>

-----------------------------------------------------------------------------
(* The effect.                                                             *)

Begin(p, n) ==
  /\ p \notin Running
  /\ poll' = [poll EXCEPT ![p] = [effect |-> n, got |-> NoSnapshot]]

\* Running the effect loads at once.
Mount(p) ==
  /\ live = 0 /\ effect < MaxEffects
  /\ effect' = effect + 1
  /\ live' = effect + 1
  /\ prev' = NoSnapshot
  /\ Begin(p, effect + 1)
  /\ UNCHANGED <<server, outage, screen, connected, lastPoll, lastAnswer>>

Unmount ==
  /\ live # 0
  /\ live' = 0
  /\ UNCHANGED <<server, outage, effect, prev, poll, screen, connected, lastPoll,
                 lastAnswer>>

\* Seeded fault: the next poll is arranged by one that succeeds.
TickAfterSuccess(p) ==
  /\ live # 0 /\ lastPoll # "failed"
  /\ Begin(p, live)
  /\ UNCHANGED <<server, outage, effect, live, prev, screen, connected, lastPoll,
                 lastAnswer>>

Tick(p) ==
  /\ live # 0
  /\ Begin(p, live)
  /\ UNCHANGED <<server, outage, effect, live, prev, screen, connected, lastPoll,
                 lastAnswer>>

\* Seeded fault: the answers are taken apart in another order than asked for.
AnswerSwapped(p, e) ==
  /\ p \in Running /\ poll[p].got[e] = << >>
  /\ LET asked == CASE e = "overview" -> e
                   [] e = "backends" -> "recent"
                   [] e = "recent" -> "backends"
     IN  poll' = [poll EXCEPT ![p].got[e] = <<server[asked]>>]
  /\ UNCHANGED <<server, outage, effect, live, prev, screen, connected, lastPoll,
                 lastAnswer>>

Answer(p, e) ==
  /\ p \in Running /\ poll[p].got[e] = << >>
  /\ poll' = [poll EXCEPT ![p].got[e] = <<server[e]>>]
  /\ UNCHANGED <<server, outage, effect, live, prev, screen, connected, lastPoll,
                 lastAnswer>>

\* Seeded fault: a poll that outlived its effect is not turned away.
ReceiveLate(p) ==
  /\ p \in Running /\ Complete(p)
  /\ poll' = [poll EXCEPT ![p] = Idle]
  /\ LET n == poll[p].effect
         snap == poll[p].got
     IN  /\ prev' = IF n = live THEN snap ELSE prev
         /\ IF n # live \/ snap # prev THEN screen' = snap /\ connected' = TRUE
            ELSE UNCHANGED <<screen, connected>>
         /\ IF n = live THEN lastPoll' = "ok" /\ lastAnswer' = snap
            ELSE UNCHANGED <<lastPoll, lastAnswer>>
  /\ UNCHANGED <<server, outage, effect, live>>

(***************************************************************************)
(* All three have answered well.  The code returns early for an effect that*)
(* was cleaned up and for a snapshot it has shown already.                 *)
(***************************************************************************)
Receive(p) ==
  /\ p \in Running /\ Complete(p)
  /\ poll' = [poll EXCEPT ![p] = Idle]
  /\ LET n == poll[p].effect
         snap == poll[p].got
     IN  \/ /\ n # live
            /\ UNCHANGED <<prev, screen, connected, lastPoll, lastAnswer>>
         \/ /\ n = live
            /\ lastPoll' = "ok" /\ lastAnswer' = snap
            /\ \/ snap = prev /\ UNCHANGED <<prev, screen, connected>>
               \/ /\ snap # prev
                  /\ prev' = snap
                  /\ screen' = snap
                  /\ connected' = TRUE
  /\ UNCHANGED <<server, outage, effect, live>>

\* A request is refused, answered with an error status, or not with JSON.
Fail(p) ==
  /\ p \in Running /\ outage
  /\ poll' = [poll EXCEPT ![p] = Idle]
  /\ \/ /\ poll[p].effect = live
        /\ connected' = FALSE /\ lastPoll' = "failed"
     \/ /\ poll[p].effect # live
        /\ UNCHANGED <<connected, lastPoll>>
  /\ UNCHANGED <<server, outage, effect, live, prev, screen, lastAnswer>>

PollStep(p) == (\E e \in Endpoints : Answer(p, e)) \/ Receive(p)

DashNext ==
  \/ Change \/ Break \/ Unmount
  \/ \E p \in Polls : Mount(p) \/ Tick(p) \/ PollStep(p) \/ Fail(p)

DashSpec == DashInit /\ [][DashNext]_dashVars

(***************************************************************************)
(* The interval goes on, and a poll that does not fail is answered.        *)
(***************************************************************************)
DashFairness ==
  /\ WF_dashVars(\E p \in Polls : Tick(p))
  /\ \A p \in Polls : WF_dashVars(PollStep(p))

DashFairSpec == DashSpec /\ DashFairness

-----------------------------------------------------------------------------
(* What is drawn of it.                                                    *)

Overview == screen["overview"]   \* << >>, or one overview
Backends == IF screen["backends"] = << >> THEN << >> ELSE screen["backends"][1]
Events == IF screen["recent"] = << >> THEN << >> ELSE screen["recent"][1]

\* The directory usage of a backend; a backend the overview lacks has none.
UsageOf(id) ==
  LET rows == IF Overview = << >> THEN {} ELSE {u \in Overview[1].cache : u.id = id}
  IN  IF rows = {} THEN [id |-> id, used |-> 0, capacity |-> 0]
      ELSE CHOOSE u \in rows : TRUE

IsLatest(id) == Events # << >> /\ Events[1].backend = id

\* Seeded fault: a sled that is down keeps its warm cells.
DashNodeStaysWarm(b) ==
  LET usage == UsageOf(b.id)
      fill  == IF usage.capacity > 0 THEN <<usage.used, usage.capacity>> ELSE <<0, 1>>
      match == IF IsLatest(b.id) THEN Events[1].matched
               ELSE Rounded(16 * fill[1], fill[2])
  IN  [id |-> b.id, fill |-> fill, queue |-> <<Least(8, b.inflight), 8>>,
       inflight |-> b.inflight,
       warmBlocks |-> Least(16, match),
       missBlocks |-> IF IsLatest(b.id) THEN Most(0, 16 - match) ELSE 0,
       totalBlocks |-> 16, healthy |-> b.healthy, selected |-> IsLatest(b.id)]

DashNode(b) ==
  LET usage == UsageOf(b.id)
      fill  == IF usage.capacity > 0 THEN <<usage.used, usage.capacity>> ELSE <<0, 1>>
      match == IF IsLatest(b.id) THEN Events[1].matched
               ELSE Rounded(16 * fill[1], fill[2])
  IN  [id |-> b.id, fill |-> fill, queue |-> <<Least(8, b.inflight), 8>>,
       inflight |-> b.inflight,
       warmBlocks |-> IF b.healthy THEN Least(16, match) ELSE 0,
       missBlocks |-> IF IsLatest(b.id) THEN Most(0, 16 - match) ELSE 0,
       totalBlocks |-> 16, healthy |-> b.healthy, selected |-> IsLatest(b.id)]

DashRack ==
  IF Backends = << >>
    THEN {Sled([id |-> "-", fill |-> <<0, 1>>, warmBlocks |-> 0, healthy |-> FALSE])}
  ELSE {Sled(DashNode(Backends[i])) : i \in DOMAIN Backends}

\* The rows of the feed; a bar is in whole percent.
Feed ==
  [i \in 1..Least(18, Len(Events)) |->
     [backend |-> Events[i].backend, warm |-> Events[i].matched > 0,
      bar |-> IF Events[i].total = 0 THEN 0
              ELSE Rounded(100 * Events[i].matched, Events[i].total)]]

\* The first-token times of up to 24 events, oldest first, in percent of the
\* longest; an event without one counts as 0.
Spark ==
  LET n   == Least(24, Len(Events))
      top == CHOOSE t \in {1} \cup {Events[i].ttft : i \in 1..n} :
               t >= 1 /\ \A i \in 1..n : Events[i].ttft <= t
  IN  [i \in 1..n |-> Most(8, Rounded(100 * Events[n + 1 - i].ttft, top))]

Badge == IF connected THEN "live, 3s" ELSE "api offline"

-----------------------------------------------------------------------------
(***************************************************************************)
(* The display is the answer to the poll that ended last, although a       *)
(* snapshot equal to the one before is not applied and polls of an effect  *)
(* that was cleaned up still arrive: what the effect remembers never parts *)
(* from what is shown.  And the page is never called live after a failure. *)
(***************************************************************************)
ScreenIsLastAnswer ==
  /\ screen = lastAnswer
  /\ connected => lastPoll = "ok"

(***************************************************************************)
(* The page agrees with itself on any mixture of answers: one sled at most *)
(* is marked as hit, the one that the first row of the feed names, and it  *)
(* has warm cells only if that row is warm; the coloured cells fit; a sled *)
(* that is down has no warm cell; meters and bars end at 100%.             *)
(***************************************************************************)
DashRackSound ==
  /\ \A s \in DashRack :
       /\ s.on + s.debt <= s.cells
       /\ s.down => s.on = 0
       /\ s.fill <= 100 /\ s.queue <= 100
       /\ s.hit => Feed[1].backend = s.id /\ (s.on > 0 => Feed[1].warm)
  /\ Cardinality({s \in DashRack : s.hit}) <= 1
  /\ \A i \in DOMAIN Feed : Feed[i].bar <= 100
  /\ \A i \in DOMAIN Spark : Spark[i] <= 100

(***************************************************************************)
(* Overlapping polls may be received out of order, but not for ever: once  *)
(* the router neither changes nor fails, the page ends up showing it, and  *)
(* goes on showing it.                                                     *)
(***************************************************************************)
ScreenCatchesUp ==
  \A w \in Worlds :
    <>[](server = w /\ ~outage /\ live # 0) => <>[](screen = SnapshotOf(w))

(***************************************************************************)
(* The badge says "live" or "api offline" (DashboardPage.tsx:114): once    *)
(* the router answers every poll, the page is live.                        *)
(***************************************************************************)
BadgeComesBack == <>[](~outage /\ live # 0) => <>[](Badge = "live, 3s")

=============================================================================
