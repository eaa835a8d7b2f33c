---------------------------- MODULE RoutingArena ----------------------------
(***************************************************************************)
(* web-ui/src/components/RoutingArena.tsx: the simulation on the home      *)
(* page.  Five policies route the same requests, each over a fleet of its  *)
(* own, and the page compares what they pay.                               *)
(*                                                                         *)
(* Occupancy is counted in thousandths and a score in 1/(400 * blocks), so *)
(* that both are integers; gpu-a, gpu-b, gpu-c are 1, 2, 3.                *)
(***************************************************************************)
EXTENDS GpuRack, FiniteSets, Sequences

CONSTANTS TenantLanding,  \* the GPU that hashStr assigns to session "t-n"
          Draws,          \* outcomes of the random draws that are explored
          Hovered,        \* the policies a visitor looks at
          MaxSeq          \* bound on the requests between two resets

Gpus == 1..3
None == 0
Families == {"agent", "sys", "cold"}
Scenes == {"followup", "herd", "tenants"}
Algos == {"rr", "least", "p2c", "hash", "nostos"}

Cap == 8
Cells == 16
MsPerBlock == 18

Works == [family : Families, blocks : 1..Cells, landing : Gpus]
States == [kv : 80..970, inflight : 0..Cap, heat : [Families -> 0..Cells],
           healthy : BOOLEAN]
Fleets == [Gpus -> States]
StatsOf == [n : Nat, tax : Nat, saved : Nat, lastGpu : Gpus \cup {None},
            match : Nat, total : Nat]
Views == [scene : Scenes, focus : Algos, fleet : [Algos -> Fleets],
          stats : [Algos -> StatsOf], work : Works]
Refs == [scene : Scenes, fleet : [Algos -> Fleets], stats : [Algos -> StatsOf]]

ASSUME ArenaAssumption ==
  /\ MaxSeq \in Nat
  /\ TenantLanding \in [0..MaxSeq -> Gpus]
  /\ Draws \subseteq [Algos -> SUBSET Gpus]
  /\ Hovered \subseteq Algos

-----------------------------------------------------------------------------
(* The fleet and the requests.                                             *)

Gpu(kv, inflight, agent, sys, cold) ==
  [kv |-> kv, inflight |-> inflight, healthy |-> TRUE,
   heat |-> [f \in Families |->
               IF f = "agent" THEN agent ELSE IF f = "sys" THEN sys ELSE cold]]

Seed == [g \in Gpus |->
           IF g = 1 THEN Gpu(620, 2, 13, 8, 0)
           ELSE IF g = 2 THEN Gpu(120, 0, 0, 1, 0)
           ELSE Gpu(840, 5, 4, 3, 1)]

EmptyStats == [n |-> 0, tax |-> 0, saved |-> 0, lastGpu |-> None,
               match |-> 0, total |-> 0]

CloneFleet == [a \in Algos |-> Seed]
EmptyAll == [a \in Algos |-> EmptyStats]

\* hashStr puts the sessions AGENT_SESSION and SYS_SESSION on the first GPU,
\* and HERD_SESSION on the third: sessionLandingOn picks them for that.
Work(family, blocks, landing) ==
  [family |-> family, blocks |-> blocks, landing |-> landing]

Pack == <<Work("agent", 13, 1), Work("agent", 10, 1), Work("agent", 13, 1),
          Work("sys", 8, 1), Work("sys", 8, 1)>>

NextWork(scene, n) ==
  CASE scene = "herd"     -> Work("agent", 13, 3)
    [] scene = "tenants"  -> Work("cold", 11, TenantLanding[n])
    [] scene = "followup" -> Pack[(n % 5) + 1]

-----------------------------------------------------------------------------
(* The policies.                                                           *)

Match(gpu, work) == Least(work.blocks, gpu.heat[work.family])

(***************************************************************************)
(* The first of the GPUs with the most blocks of the request's family.     *)
(***************************************************************************)
PrefixHome(gpus, work) ==
  LET heat(g) == gpus[g].heat[work.family]
      best == CHOOSE g \in Gpus : \A h \in Gpus :
                heat(g) > heat(h) \/ (heat(g) = heat(h) /\ g <= h)
  IN  [id |-> best, blocks |-> Least(work.blocks, heat(best))]

(***************************************************************************)
(* hit * 1.15 - inflight / CAP * 0.7 - (kv > 0.88 ? 0.22 : 0).  The sums   *)
(* that make up kv round: exactly 0.88 may come out "above".  Two scores   *)
(* with different figures never tie, so this is all that rounding can do.  *)
(***************************************************************************)
PrefixScore(gpu, work, above) ==
  460 * Match(gpu, work) - 35 * work.blocks * gpu.inflight
    - (IF gpu.kv > 880 \/ (above /\ gpu.kv = 880) THEN 88 * work.blocks ELSE 0)

Pool(gpus) ==
  LET healthy  == {g \in Gpus : gpus[g].healthy}
      eligible == {g \in healthy : gpus[g].inflight < Cap}
  IN  IF eligible # {} THEN eligible ELSE healthy

\* pool[i], counting from 0.
Nth(pool, i) == {g \in pool : Cardinality({h \in pool : h < g}) = i}

Advance(i, pool) == IF pool = {} THEN i ELSE (i + 1) % Cardinality(pool)

First(pool) == Nth(pool, 0)

\* The first of the pool of which Better(g, h) says that it beats all others.
LeastLoaded(gpus, pool) ==
  {g \in pool : \A h \in pool :
     gpus[g].inflight < gpus[h].inflight
       \/ (gpus[g].inflight = gpus[h].inflight /\ g <= h)}

\* Random pairs; after eight redraws the pair may still be one GPU twice.
LighterOfTwo(gpus, pool) ==
  {g \in pool : \E h \in pool : gpus[g].inflight <= gpus[h].inflight}

Pinned(gpus, pool, work) ==
  LET target == gpus[work.landing]
  IN  IF target.healthy /\ target.inflight < Cap THEN {work.landing} ELSE First(pool)

BestScore(gpus, pool, work) ==
  {g \in pool : \A h \in pool \ {g} :
     LET s == PrefixScore(gpus[g], work, FALSE)
         t == PrefixScore(gpus[h], work, TRUE)
     IN  s > t \/ (s = t /\ g < h)}

\* The GPUs that pick may return for policy a; i is round-robin's new index.
Picks(a, work, gpus, i) ==
  LET pool == Pool(gpus)
  IN  CASE pool = {}    -> {1}
        [] pool # {} /\ a = "rr"     -> Nth(pool, i)
        [] pool # {} /\ a = "least"  -> LeastLoaded(gpus, pool)
        [] pool # {} /\ a = "p2c"    -> LighterOfTwo(gpus, pool)
        [] pool # {} /\ a = "hash"   -> Pinned(gpus, pool, work)
        [] pool # {} /\ a = "nostos" -> BestScore(gpus, pool, work)

(***************************************************************************)
(* The GPU that was hit takes the request and warms up by two fifths of    *)
(* what it missed; its heat becomes what it has of this request, even when *)
(* that is less than before.  Each of the others finishes one, if it is in *)
(* "done", and cools down a little.                                        *)
(***************************************************************************)
Warmed(match, blocks) ==
  Least(Cells, Most(match, match + (2 * (blocks - match) + 4) \div 5))

Relieved(gpu, inflight) ==
  [kv |-> Most(80, gpu.kv - 5), inflight |-> inflight, heat |-> gpu.heat,
   healthy |-> gpu.healthy]

Loaded(gpu, work) ==
  [kv |-> Least(970, gpu.kv + 40), inflight |-> Least(Cap, gpu.inflight + 1),
   heat |-> [gpu.heat EXCEPT ![work.family] = Warmed(Match(gpu, work), work.blocks)],
   healthy |-> gpu.healthy]

\* Seeded fault: a GPU without requests finishes one.
ApplyHitBelowZero(gpus, id, work, done) ==
  [g \in Gpus |->
     IF g = id THEN Loaded(gpus[g], work)
     ELSE Relieved(gpus[g], gpus[g].inflight - (IF g \in done THEN 1 ELSE 0))]

ApplyHit(gpus, id, work, done) ==
  [g \in Gpus |->
     IF g = id THEN Loaded(gpus[g], work)
     ELSE Relieved(gpus[g], Most(0, gpus[g].inflight - (IF g \in done THEN 1 ELSE 0)))]

\* Seeded fault: what was resident counts in full, also beyond the request.
CountWholeHeat(st, gpu, id, work) ==
  LET match == gpu.heat[work.family]
      miss  == Most(0, work.blocks - match)
  IN  [n |-> st.n + 1, tax |-> st.tax + miss * MsPerBlock,
       saved |-> st.saved + match * MsPerBlock,
       lastGpu |-> id, match |-> match, total |-> work.blocks]

CountHit(st, gpu, id, work) ==
  LET match == Match(gpu, work)
      miss  == Most(0, work.blocks - match)
  IN  [n |-> st.n + 1, tax |-> st.tax + miss * MsPerBlock,
       saved |-> st.saved + match * MsPerBlock,
       lastGpu |-> id, match |-> match, total |-> work.blocks]

-----------------------------------------------------------------------------
(* The component.  An update made by a timer or by moving the pointer is   *)
(* queued, and React renders it in a task of its own; one made by a click  *)
(* or by the keyboard is rendered at once, without those that are queued.  *)
(* Each rendering overwrites the references with the state it shows.       *)

VARIABLES shown,   \* the state as last rendered
          latest,  \* the state with the queued updates applied
          ref,     \* sceneRef, fleetRef and statsRef
          seq,     \* the number of the next request
          rr       \* round-robin's index

arenaVars == <<shown, latest, ref, seq, rr>>

FirstView(scene) ==
  [scene |-> scene, focus |-> "rr", fleet |-> CloneFleet, stats |-> EmptyAll,
   work |-> NextWork(scene, 0)]

RefTo(view) == [scene |-> view.scene, fleet |-> view.fleet, stats |-> view.stats]

ArenaTypeOK ==
  /\ shown \in Views
  /\ latest \in Views
  /\ ref \in Refs
  /\ seq \in 0..MaxSeq
  /\ rr \in -1..2

ArenaInit ==
  /\ shown = FirstView("followup")
  /\ latest = shown
  /\ ref = RefTo(shown)
  /\ seq = 0
  /\ rr = -1

\* What each policy may do with a request.
Options(work, i) ==
  LET may(a) == Picks(a, work, ref.fleet[a], i)
  IN  [rr : may("rr"), least : may("least"), p2c : may("p2c"),
       hash : may("hash"), nostos : may("nostos")]

\* All policies have served a request.
Served(work, to, done) ==
  [scene |-> ref.scene,
   fleet |-> [a \in Algos |-> ApplyHit(ref.fleet[a], to[a], work, done[a])],
   stats |-> [a \in Algos |->
                CountHit(ref.stats[a], ref.fleet[a][to[a]], to[a], work)]]

\* The state once setFleet, setStats and setWork are applied to it.
After(view, round, work) ==
  [scene |-> view.scene, focus |-> view.focus, fleet |-> round.fleet,
   stats |-> round.stats, work |-> work]

\* Seeded fault: the request on display is not updated with the rest.
FireWithoutWork ==
  /\ seq < MaxSeq
  /\ rr' = Advance(rr, Pool(ref.fleet["rr"]))
  /\ LET work == NextWork(ref.scene, seq)
     IN  \E to \in Options(work, rr'), done \in Draws :
           ref' = Served(work, to, done)
  /\ latest' = After(latest, ref', latest.work)
  /\ seq' = seq + 1
  /\ UNCHANGED shown

(***************************************************************************)
(* One request for all policies; the interval and the first effect fire it.*)
(***************************************************************************)
Fire ==
  /\ seq < MaxSeq
  /\ rr' = Advance(rr, Pool(ref.fleet["rr"]))
  /\ LET work == NextWork(ref.scene, seq)
     IN  /\ \E to \in Options(work, rr'), done \in Draws :
              ref' = Served(work, to, done)
         /\ latest' = After(latest, ref', work)
  /\ seq' = seq + 1
  /\ UNCHANGED shown

Reset(scene) ==
  /\ shown' = FirstView(scene)
  /\ latest' = FirstView(scene)
  /\ ref' = RefTo(FirstView(scene))
  /\ seq' = 0
  /\ rr' = -1

Hover(a) ==
  /\ latest' = [latest EXCEPT !.focus = a]
  /\ UNCHANGED <<shown, ref, seq, rr>>

\* A click on "See what Nostos does", or a row reached by the keyboard.
FocusNow(a) ==
  /\ shown' = [shown EXCEPT !.focus = a]
  /\ latest' = [latest EXCEPT !.focus = a]
  /\ ref' = RefTo(shown)
  /\ UNCHANGED <<seq, rr>>

\* A scene reached by the keyboard: only its hint, which is left out, changes.
HintNow ==
  /\ ref' = RefTo(shown)
  /\ UNCHANGED <<shown, latest, seq, rr>>

Render ==
  /\ shown' = latest
  /\ ref' = RefTo(latest)
  /\ UNCHANGED <<latest, seq, rr>>

ArenaNext ==
  \/ Fire \/ HintNow \/ Render
  \/ \E scene \in Scenes : Reset(scene)
  \/ \E a \in Hovered : Hover(a) \/ FocusNow(a)

ArenaSpec == ArenaInit /\ [][ArenaNext]_arenaVars

-----------------------------------------------------------------------------
(* What a rendering shows.                                                 *)

Focused(view) == view.stats[view.focus]
HomeOf(view) == PrefixHome(view.fleet[view.focus], view.work)

HopTax(st) == Most(0, st.total - st.match) * MsPerBlock

\* home.blocks >= work.blocks * 0.5, and * 0.4.
WentHome(view) ==
  /\ Focused(view).lastGpu = HomeOf(view).id
  /\ 2 * HomeOf(view).blocks >= view.work.blocks

HasWarmHome(view) == 5 * HomeOf(view).blocks >= 2 * view.work.blocks

\* The width of a policy's bar, in percent.
ReusePct(st) ==
  IF st.saved + st.tax = 0 THEN 0 ELSE Percent(<<st.saved, st.saved + st.tax>>)

\* Seeded fault: the home is marked even when it holds next to nothing.
ArenaNodeAnyHome(view, g) ==
  LET gpu   == view.fleet[view.focus][g]
      share(n) == Rounded(Cells * n, view.work.blocks)
  IN  [id |-> g, fill |-> <<gpu.kv, 1000>>, inflight |-> gpu.inflight,
       queue |-> <<gpu.inflight, Cap>>, totalBlocks |-> Cells,
       warmBlocks |-> share(Match(gpu, view.work)),
       missBlocks |-> share(view.work.blocks - Match(gpu, view.work)),
       healthy |-> gpu.healthy, selected |-> g = Focused(view).lastGpu,
       home |-> g = HomeOf(view).id]

ArenaNode(view, g) ==
  LET gpu   == view.fleet[view.focus][g]
      share(n) == Rounded(Cells * n, view.work.blocks)
  IN  [id |-> g, fill |-> <<gpu.kv, 1000>>, inflight |-> gpu.inflight,
       queue |-> <<gpu.inflight, Cap>>, totalBlocks |-> Cells,
       warmBlocks |-> share(Match(gpu, view.work)),
       missBlocks |-> share(view.work.blocks - Match(gpu, view.work)),
       healthy |-> gpu.healthy, selected |-> g = Focused(view).lastGpu,
       home |-> g = HomeOf(view).id /\ HasWarmHome(view)]

Rack(view) == {Sled(ArenaNode(view, g)) : g \in Gpus}

\* The heading of the verdict, and the remark under "Prefix lived on".
Heading(view) ==
  IF WentHome(view) THEN "Routed to the GPU that already computed this."
  ELSE IF HasWarmHome(view) THEN "Sent the request somewhere else."
  ELSE "Nothing warm to route to."

LivedOn(view) ==
  IF ~HasWarmHome(view) THEN "absent"
  ELSE IF HomeOf(view).id = Focused(view).lastGpu THEN "correct sled"
  ELSE "blocks ignored"

-----------------------------------------------------------------------------
(***************************************************************************)
(* The comparison is fair, also when a rendering throws away a round that  *)
(* is still queued: every policy has been charged for the same number of   *)
(* requests and of blocks, for no more requests than were made, and what   *)
(* the last of them cost is part of the bill.                              *)
(***************************************************************************)
SameRequests(stats) ==
  \A a, b \in Algos :
    /\ stats[a].n = stats[b].n
    /\ stats[a].tax + stats[a].saved = stats[b].tax + stats[b].saved
    /\ stats[a].total = stats[b].total
    /\ stats[a].match <= stats[a].total
    /\ stats[a].n <= seq
    /\ HopTax(stats[a]) <= stats[a].tax

\* The accounts on display, in the references and queued are each comparable.
AccountsComparable ==
  \A stats \in {ref.stats, latest.stats, shown.stats} : SameRequests(stats)

\* A request, what each policy did with it and its fleet afterwards.
OneRound(view) ==
  /\ view.work \in {NextWork(view.scene, n) : n \in 0..MaxSeq}
  /\ \A a \in Algos :
       LET st == view.stats[a] IN
       IF st.n = 0 THEN st = EmptyStats /\ view.fleet[a] = Seed
       ELSE /\ st.total = view.work.blocks
            /\ view.fleet[a][st.lastGpu].inflight > 0
            /\ Match(view.fleet[a][st.lastGpu], view.work) >= st.match

(***************************************************************************)
(* A rendering shows one round: the request, what each policy did with it, *)
(* and the fleet as it is afterwards belong together, whatever was queued  *)
(* when it was rendered.  The GPU a policy was sent to holds the request   *)
(* and at least the blocks it matched; before the first request the fleet  *)
(* is as it was set up; the request is one of the scene's.                 *)
(***************************************************************************)
OneRoundOnScreen == OneRound(shown)

(***************************************************************************)
(* The rack agrees with the text, whichever policy is looked at: each sled *)
(* has all its cells coloured; one is marked as home exactly when a warm   *)
(* home is spoken of; a request "routed to the GPU that already computed   *)
(* this" is drawn on it; a sled is only marked wrong when the text does    *)
(* not call it the correct one; and of two policies, the one with the      *)
(* longer bar has paid less.                                               *)
(***************************************************************************)
RackFitsVerdict ==
  /\ \A a \in Algos :
       LET view == [shown EXCEPT !.focus = a]
           rack == Rack(view)
           home == {s \in rack : s.home}
           lives == LivedOn(view)
       IN  /\ \A s \in rack : s.on + s.debt = Cells
           /\ (home # {}) = (lives # "absent")
           /\ Heading(view) = "Routed to the GPU that already computed this." =>
                home # {} /\ \A s \in rack : s.home = s.hit /\ ~s.wrong
           /\ (\E s \in rack : s.wrong) => lives # "correct sled"
  /\ LET bars == {[pct |-> ReusePct(shown.stats[a]), tax |-> shown.stats[a].tax] :
                    a \in Algos}
     IN  \A b, c \in bars : b.pct > c.pct => b.tax < c.tax

=============================================================================
