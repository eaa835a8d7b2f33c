------------------------------ MODULE WebProofs -----------------------------
(***************************************************************************)
(* Theorems about the web UI, whose two racks are drawn by GpuRack.  The   *)
(* comparison on the home page is fair, for any landing of the tenants,    *)
(* any outcome of the draws and any number of requests; the arena's        *)
(* figures stay in range, and its rack and bars agree with its text.  What *)
(* the console shows is the last answer, for any number of polls that      *)
(* overlap, any number of runs of the effect and whatever the router says, *)
(* and it agrees with itself.  A visit only scrolls to what is there, for  *)
(* any addresses.                                                          *)
(***************************************************************************)
EXTENDS Dashboard, MCWeb, RecencyProofs

-----------------------------------------------------------------------------
(* The fleet, the requests and the policies.                               *)

LEMMA SeedType == Seed \in Fleets
<1> USE DEF Gpu, States, Cap, Cells
<1>1. Gpu(620, 2, 13, 8, 0) \in States
  OBVIOUS
<1>2. Gpu(120, 0, 0, 1, 0) \in States
  OBVIOUS
<1>3. Gpu(840, 5, 4, 3, 1) \in States
  OBVIOUS
<1> QED
  <2> HIDE DEF Gpu, States
  <2> QED BY <1>1, <1>2, <1>3 DEF Seed, Fleets

LEMMA NextWorkType ==
  ASSUME NEW scene \in Scenes, NEW n \in 0..MaxSeq
  PROVE  NextWork(scene, n) \in Works
<1> USE DEF Works, Work, Families, Gpus, Cells
<1>1. CASE scene = "herd"
  BY <1>1 DEF NextWork
<1>2. CASE scene = "tenants"
  BY <1>2, ArenaAssumption DEF NextWork
<1>3. CASE scene = "followup"
  <2>1. (n % 5) + 1 \in 1..5
    BY ArenaAssumption
  <2>2. \A i \in 1..5 : Pack[i] \in Works
    BY DEF Pack
  <2>3. NextWork(scene, n) = Pack[(n % 5) + 1]
    BY <1>3 DEF NextWork
  <2> QED BY <2>1, <2>2, <2>3
<1> QED BY <1>1, <1>2, <1>3 DEF Scenes

LEMMA AdvanceType ==
  ASSUME NEW pool \in SUBSET Gpus, NEW i \in -1..2
  PROVE  Advance(i, pool) \in -1..2
<1>1. IsFiniteSet(Gpus) /\ Cardinality(Gpus) = 3
  <2>1. 1 \in Int /\ 3 \in Int
    OBVIOUS
  <2>2. IsFiniteSet(1..3) /\ Cardinality(1..3) = IF 1 > 3 THEN 0 ELSE 3 - 1 + 1
    BY <2>1, FS_Interval
  <2> QED BY <2>2 DEF Gpus
<1>2. IsFiniteSet(pool) /\ Cardinality(pool) \in Nat /\ Cardinality(pool) <= 3
  BY <1>1, FS_Subset, FS_CardinalityType
<1>3. pool # {} => Cardinality(pool) > 0
  BY <1>2, FS_EmptySet
<1> QED BY <1>2, <1>3 DEF Advance

LEMMA PicksType ==
  ASSUME NEW a \in Algos, NEW work \in Works, NEW gpus, NEW i
  PROVE  Picks(a, work, gpus, i) \subseteq Gpus
<1>1. Pool(gpus) \subseteq Gpus
  BY DEF Pool
<1>2. work.landing \in Gpus /\ 1 \in Gpus
  BY DEF Works, Gpus
<1>3. Picks(a, work, gpus, i) \in
        {{1}, Nth(Pool(gpus), i), LeastLoaded(gpus, Pool(gpus)),
         LighterOfTwo(gpus, Pool(gpus)), Pinned(gpus, Pool(gpus), work),
         BestScore(gpus, Pool(gpus), work)}
  BY DEF Picks, Algos
<1>4. Nth(Pool(gpus), i) \subseteq Gpus /\ First(Pool(gpus)) \subseteq Gpus
  BY <1>1 DEF Nth, First
<1>5. LeastLoaded(gpus, Pool(gpus)) \subseteq Gpus
  BY <1>1 DEF LeastLoaded
<1>6. LighterOfTwo(gpus, Pool(gpus)) \subseteq Gpus
  BY <1>1 DEF LighterOfTwo
<1>7. Pinned(gpus, Pool(gpus), work) \subseteq Gpus
  BY <1>2, <1>4 DEF Pinned
<1>8. BestScore(gpus, Pool(gpus), work) \subseteq Gpus
  BY <1>1 DEF BestScore
<1> QED BY <1>2, <1>3, <1>4, <1>5, <1>6, <1>7, <1>8

-----------------------------------------------------------------------------
(* What a request does to a GPU and to an account.                         *)

LEMMA MatchType ==
  ASSUME NEW gpu \in States, NEW work \in Works
  PROVE  Match(gpu, work) \in 0..work.blocks /\ work.blocks \in 1..Cells
BY DEF Match, Least, States, Works, Cells

LEMMA WarmedType ==
  ASSUME NEW blocks \in 1..Cells, NEW match \in 0..blocks
  PROVE  Warmed(match, blocks) \in match..Cells
BY DEF Warmed, Least, Most, Cells

\* The GPU that is hit holds the request, and what it has of it.
LEMMA LoadedType ==
  ASSUME NEW gpu \in States, NEW work \in Works
  PROVE  /\ Loaded(gpu, work) \in States
         /\ Loaded(gpu, work).inflight > 0
         /\ Match(Loaded(gpu, work), work) >= Match(gpu, work)
<1> DEFINE warm == Warmed(Match(gpu, work), work.blocks)
           heat == [gpu.heat EXCEPT ![work.family] = warm]
<1>1. warm \in Match(gpu, work)..Cells /\ Match(gpu, work) \in 0..work.blocks
      /\ work.blocks \in 1..Cells /\ work.family \in Families
  BY MatchType, WarmedType DEF Works
<1>2. gpu.heat \in [Families -> 0..Cells] /\ gpu.inflight \in 0..Cap
      /\ gpu.kv \in 80..970 /\ gpu.healthy \in BOOLEAN
  BY DEF States
<1>3. heat \in [Families -> 0..Cells] /\ heat[work.family] = warm
  BY <1>1, <1>2 DEF Cells
<1>4. Loaded(gpu, work) = [kv |-> Least(970, gpu.kv + 40),
                           inflight |-> Least(Cap, gpu.inflight + 1),
                           heat |-> heat, healthy |-> gpu.healthy]
  BY DEF Loaded
<1>5. Least(970, gpu.kv + 40) \in 80..970 /\ Least(Cap, gpu.inflight + 1) \in 1..Cap
  <2>1. gpu.kv \in 80..970 /\ gpu.inflight \in 0..8
    BY <1>2 DEF Cap
  <2>2. Least(970, gpu.kv + 40) \in 80..970
    BY <2>1 DEF Least
  <2>3. Least(8, gpu.inflight + 1) \in 1..8
    BY <2>1 DEF Least
  <2> QED BY <2>2, <2>3 DEF Cap
<1> HIDE DEF heat, warm
<1>6. Loaded(gpu, work) \in States /\ Loaded(gpu, work).inflight > 0
  BY <1>2, <1>3, <1>4, <1>5 DEF States, Cap
<1>7. Match(Loaded(gpu, work), work) = Least(work.blocks, warm)
  BY <1>3, <1>4 DEF Match
<1> QED BY <1>1, <1>6, <1>7 DEF Least, Cells

LEMMA RelievedType ==
  ASSUME NEW gpu \in States, NEW inflight \in 0..Cap
  PROVE  Relieved(gpu, inflight) \in States
BY DEF Relieved, States, Most, Cap

LEMMA ApplyHitType ==
  ASSUME NEW gpus \in Fleets, NEW id \in Gpus, NEW work \in Works, NEW done
  PROVE  /\ ApplyHit(gpus, id, work, done) \in Fleets
         /\ ApplyHit(gpus, id, work, done)[id] = Loaded(gpus[id], work)
<1>1. \A g \in Gpus : gpus[g] \in States
  BY DEF Fleets, States
<1>2. \A g \in Gpus : Most(0, gpus[g].inflight - (IF g \in done THEN 1 ELSE 0)) \in 0..Cap
  BY <1>1 DEF States, Most, Cap
<1>3. \A g \in Gpus : ApplyHit(gpus, id, work, done)[g] \in States
  BY <1>1, <1>2, LoadedType, RelievedType DEF ApplyHit
<1>4. ApplyHit(gpus, id, work, done) \in [Gpus -> States]
  BY <1>3 DEF ApplyHit
<1> QED BY <1>4 DEF ApplyHit, Fleets, States

\* A hit is charged for every block of the request, as saved or as recomputed.
LEMMA CountHitFacts ==
  ASSUME NEW st \in StatsOf, NEW gpu \in States, NEW id \in Gpus, NEW work \in Works
  PROVE  LET new == CountHit(st, gpu, id, work)
         IN  /\ new \in StatsOf
             /\ new.n = st.n + 1
             /\ new.tax + new.saved = st.tax + st.saved + 18 * work.blocks
             /\ new.total = work.blocks /\ new.match = Match(gpu, work)
             /\ new.lastGpu = id
             /\ new.match <= new.total
             /\ HopTax(new) <= new.tax
<1> DEFINE match == Match(gpu, work)
           miss  == Most(0, work.blocks - match)
<1>1. match \in 0..work.blocks /\ work.blocks \in 1..Cells
  BY MatchType
<1> HIDE DEF match
<1>2. miss = work.blocks - match /\ miss \in Nat /\ match \in Nat
  BY <1>1 DEF Most, Cells
<1>3. CountHit(st, gpu, id, work) =
        [n |-> st.n + 1, tax |-> st.tax + miss * 18, saved |-> st.saved + match * 18,
         lastGpu |-> id, match |-> match, total |-> work.blocks]
  BY DEF CountHit, MsPerBlock, match
<1> HIDE DEF miss
<1>4. st.n \in Nat /\ st.tax \in Nat /\ st.saved \in Nat
  BY DEF StatsOf
<1>5. CountHit(st, gpu, id, work) \in StatsOf
  BY <1>1, <1>2, <1>3, <1>4 DEF StatsOf, Cells
<1>6. HopTax(CountHit(st, gpu, id, work)) = miss * 18
  BY <1>1, <1>2, <1>3 DEF HopTax, Most, MsPerBlock, Cells
<1> QED BY <1>1, <1>2, <1>3, <1>4, <1>5, <1>6 DEF match, Cells

-----------------------------------------------------------------------------
(* The rounds.                                                             *)

Fits(state) == SameRequests(state.stats) /\ OneRound(state)

\* The references, which have no request, may only differ in that.
RefInv == ref.scene = latest.scene /\ latest.scene = shown.scene /\ SameRequests(ref.stats)

ArenaInv == ArenaTypeOK /\ RefInv /\ Fits(latest) /\ Fits(shown)

LEMMA FirstViewFits ==
  ASSUME NEW scene \in Scenes
  PROVE  /\ FirstView(scene) \in Views /\ RefTo(FirstView(scene)) \in Refs
         /\ FirstView(scene).scene = scene
         /\ FirstView(scene).fleet = CloneFleet
         /\ FirstView(scene).stats = EmptyAll
         /\ FirstView(scene).work = NextWork(scene, 0)
<1>1. NextWork(scene, 0) \in Works
  BY NextWorkType, ArenaAssumption
<1>2. CloneFleet \in [Algos -> Fleets]
  BY SeedType DEF CloneFleet
<1>3. EmptyStats \in StatsOf
  BY DEF EmptyStats, StatsOf
<1>4. EmptyAll \in [Algos -> StatsOf]
  BY <1>3 DEF EmptyAll
<1>5. "rr" \in Algos
  BY DEF Algos
<1> QED BY <1>1, <1>2, <1>4, <1>5 DEF FirstView, RefTo, Views, Refs

LEMMA FirstViewOneRound ==
  ASSUME NEW scene \in Scenes
  PROVE  OneRound(FirstView(scene))
<1>1. NextWork(scene, 0) \in {NextWork(scene, n) : n \in 0..MaxSeq}
  BY ArenaAssumption
<1>2. \A a \in Algos : EmptyAll[a] = EmptyStats /\ CloneFleet[a] = Seed
  BY DEF EmptyAll, CloneFleet
<1>3. EmptyStats.n = 0
  BY DEF EmptyStats
<1> QED BY <1>1, <1>2, <1>3, FirstViewFits DEF OneRound

LEMMA EmptySame ==
  ASSUME seq \in Nat
  PROVE  SameRequests(EmptyAll)
BY DEF SameRequests, EmptyAll, EmptyStats, HopTax, Most, MsPerBlock

(***************************************************************************)
(* A round charges every policy the same.                                  *)
(***************************************************************************)
LEMMA ServedFacts ==
  ASSUME ArenaTypeOK, NEW work \in Works, NEW i,
         NEW to \in Options(work, i), NEW done \in Draws
  PROVE  /\ Served(work, to, done) \in Refs
         /\ Served(work, to, done).scene = ref.scene
         /\ \A a \in Algos :
              /\ to[a] \in Gpus
              /\ Served(work, to, done).fleet[a] = ApplyHit(ref.fleet[a], to[a], work, done[a])
              /\ Served(work, to, done).stats[a]
                   = CountHit(ref.stats[a], ref.fleet[a][to[a]], to[a], work)
<1>1. \A a \in Algos : to[a] \in Gpus
  BY PicksType DEF Options, Algos
<1>2. /\ ref.scene \in Scenes
      /\ \A a \in Algos : ref.fleet[a] \in Fleets /\ ref.stats[a] \in StatsOf
  BY DEF ArenaTypeOK, Refs
<1>3. \A a \in Algos : ref.fleet[a][to[a]] \in States
  BY <1>1, <1>2 DEF Fleets
<1>4. \A a \in Algos : ApplyHit(ref.fleet[a], to[a], work, done[a]) \in Fleets
  BY <1>1, <1>2, ApplyHitType
<1>5. \A a \in Algos : CountHit(ref.stats[a], ref.fleet[a][to[a]], to[a], work) \in StatsOf
  BY <1>1, <1>2, <1>3, CountHitFacts
<1> DEFINE fleet == [a \in Algos |-> ApplyHit(ref.fleet[a], to[a], work, done[a])]
           stats == [a \in Algos |->
                       CountHit(ref.stats[a], ref.fleet[a][to[a]], to[a], work)]
<1>6. fleet \in [Algos -> Fleets] /\ stats \in [Algos -> StatsOf]
  BY <1>4, <1>5
<1>7. Served(work, to, done) = [scene |-> ref.scene, fleet |-> fleet, stats |-> stats]
  BY DEF Served
<1>8. \A a \in Algos :
        /\ fleet[a] = ApplyHit(ref.fleet[a], to[a], work, done[a])
        /\ stats[a] = CountHit(ref.stats[a], ref.fleet[a][to[a]], to[a], work)
  OBVIOUS
<1> HIDE DEF fleet, stats
<1> QED BY <1>1, <1>2, <1>6, <1>7, <1>8 DEF Refs

LEMMA FireKeeps ==
  ASSUME ArenaInv, Fire
  PROVE  ArenaInv'
<1> DEFINE work == NextWork(ref.scene, seq)
<1>1. /\ seq \in Nat /\ seq < MaxSeq /\ seq' = seq + 1 /\ shown' = shown
      /\ latest' = After(latest, ref', work)
      /\ rr' = Advance(rr, Pool(ref.fleet["rr"]))
  BY DEF Fire, ArenaInv, ArenaTypeOK
<1>2. PICK to \in Options(work, rr'), done \in Draws : ref' = Served(work, to, done)
  BY DEF Fire
<1>3. ref.scene \in Scenes /\ ref \in Refs
  BY DEF ArenaInv, ArenaTypeOK, Refs
<1>4. work \in Works /\ seq \in 0..MaxSeq /\ MaxSeq \in Nat
  BY <1>1, <1>3, NextWorkType, ArenaAssumption
<1>5. work \in {NextWork(ref.scene, n) : n \in 0..MaxSeq}
  BY <1>4
<1> HIDE DEF work
<1>6. /\ ref' \in Refs /\ ref'.scene = ref.scene
      /\ \A a \in Algos :
           /\ to[a] \in Gpus
           /\ ref'.fleet[a] = ApplyHit(ref.fleet[a], to[a], work, done[a])
           /\ ref'.stats[a] = CountHit(ref.stats[a], ref.fleet[a][to[a]], to[a], work)
  BY <1>2, <1>4, ServedFacts DEF ArenaInv
<1>7. \A a \in Algos : /\ ref.fleet[a] \in Fleets /\ ref.fleet[a][to[a]] \in States
                       /\ ref.stats[a] \in StatsOf
  BY <1>3, <1>6 DEF Refs, Fleets
<1>8. \A a \in Algos :
        LET new == ref'.stats[a] IN
        /\ new.n = ref.stats[a].n + 1
        /\ new.tax + new.saved = ref.stats[a].tax + ref.stats[a].saved + 18 * work.blocks
        /\ new.total = work.blocks
        /\ new.match = Match(ref.fleet[a][to[a]], work)
        /\ new.lastGpu = to[a]
        /\ new.match <= new.total
        /\ HopTax(new) <= new.tax
  BY <1>4, <1>6, <1>7, CountHitFacts
<1>9. SameRequests(ref.stats)'
  <2>1. SameRequests(ref.stats)
    BY DEF ArenaInv, RefInv
  <2>2. \A a \in Algos : /\ ref.stats[a].n \in Nat /\ ref.stats[a].tax \in Nat
                         /\ ref.stats[a].saved \in Nat
    BY <1>7 DEF StatsOf
  <2>3. work.blocks \in Nat
    BY <1>4 DEF Works
  <2> SUFFICES ASSUME NEW a \in Algos, NEW b \in Algos
               PROVE  /\ ref'.stats[a].n = ref'.stats[b].n
                      /\ ref'.stats[a].tax + ref'.stats[a].saved
                           = ref'.stats[b].tax + ref'.stats[b].saved
                      /\ ref'.stats[a].total = ref'.stats[b].total
                      /\ ref'.stats[a].match <= ref'.stats[a].total
                      /\ ref'.stats[a].n <= seq'
                      /\ HopTax(ref'.stats[a]) <= ref'.stats[a].tax
    BY DEF SameRequests, HopTax, Most, MsPerBlock
  <2>4. /\ ref.stats[a].n = ref.stats[b].n /\ ref.stats[a].n <= seq
        /\ ref.stats[a].tax + ref.stats[a].saved = ref.stats[b].tax + ref.stats[b].saved
    BY <2>1 DEF SameRequests
  <2> QED BY <1>1, <1>8, <2>2, <2>3, <2>4
<1>10. /\ latest'.scene = latest.scene /\ latest'.focus = latest.focus
       /\ latest'.fleet = ref'.fleet /\ latest'.stats = ref'.stats
       /\ latest'.work = work
       /\ latest' \in Views
  BY <1>1, <1>4, <1>6 DEF After, Views, Refs, ArenaInv, ArenaTypeOK
<1>11. SameRequests(latest.stats)'
  BY <1>9, <1>10
<1>12. OneRound(latest)'
  <2>1. work \in {NextWork(latest'.scene, n) : n \in 0..MaxSeq}
    BY <1>5, <1>10 DEF ArenaInv, RefInv
  <2> SUFFICES ASSUME NEW a \in Algos
               PROVE  LET st == ref'.stats[a] IN
                      /\ st.n # 0
                      /\ st.total = work.blocks
                      /\ ref'.fleet[a][st.lastGpu].inflight > 0
                      /\ Match(ref'.fleet[a][st.lastGpu], work) >= st.match
    BY <2>1, <1>10 DEF OneRound
  <2>2. ref'.stats[a].n # 0
    BY <1>7, <1>8 DEF StatsOf
  <2>3. ref'.fleet[a][to[a]] = Loaded(ref.fleet[a][to[a]], work)
    BY <1>4, <1>6, <1>7, ApplyHitType
  <2> QED BY <1>4, <1>7, <1>8, <2>2, <2>3, LoadedType
<1>13. SameRequests(shown.stats)'
  <2>1. SameRequests(shown.stats) /\ shown \in Views
    BY DEF ArenaInv, Fits, ArenaTypeOK
  <2>2. \A a \in Algos : shown.stats[a].n \in Nat /\ shown.stats[a].n <= seq
    BY <2>1 DEF SameRequests, Views, StatsOf
  <2>3. \A a \in Algos : shown.stats[a].n <= seq'
    BY <1>1, <2>2
  <2> QED BY <1>1, <2>1, <2>3 DEF SameRequests
<1>14. OneRound(shown)'
  BY <1>1 DEF ArenaInv, Fits, OneRound
<1>15. rr' \in -1..2
  BY <1>1, AdvanceType DEF ArenaInv, ArenaTypeOK, Pool
<1>16. ArenaTypeOK'
  BY <1>1, <1>4, <1>6, <1>10, <1>15 DEF ArenaInv, ArenaTypeOK
<1>17. RefInv'
  BY <1>1, <1>6, <1>9, <1>10 DEF ArenaInv, RefInv
<1> QED BY <1>11, <1>12, <1>13, <1>14, <1>16, <1>17 DEF ArenaInv, Fits

\* The other actions make no charge: they show, forget or overwrite.
LEMMA ShowKeeps ==
  ASSUME ArenaInv, UNCHANGED <<seq, rr>>,
         shown' \in Views, latest' \in Views, ref' \in Refs,
         ref'.scene = shown'.scene, shown'.scene = latest'.scene,
         ref'.stats = shown'.stats,
         SameRequests(shown'.stats), OneRound(shown'),
         SameRequests(latest'.stats), OneRound(latest')
  PROVE  ArenaInv'
<1>1. ArenaTypeOK'
  BY DEF ArenaInv, ArenaTypeOK
<1>2. SameRequests(shown.stats)' /\ SameRequests(latest.stats)' /\ SameRequests(ref.stats)'
  BY DEF SameRequests
<1>3. OneRound(shown)' /\ OneRound(latest)'
  BY DEF OneRound
<1> QED BY <1>1, <1>2, <1>3 DEF ArenaInv, RefInv, Fits

LEMMA RefToFacts ==
  ASSUME NEW state \in Views
  PROVE  /\ RefTo(state) \in Refs
         /\ RefTo(state).scene = state.scene /\ RefTo(state).stats = state.stats
BY DEF RefTo, Views, Refs

\* Looking at another policy changes the focus only.
LEMMA FocusFits ==
  ASSUME NEW state \in Views, NEW a \in Algos
  PROVE  LET moved == [state EXCEPT !.focus = a]
         IN  /\ moved \in Views
             /\ moved.scene = state.scene /\ moved.stats = state.stats
             /\ OneRound(state) => OneRound(moved)
<1> DEFINE moved == [state EXCEPT !.focus = a]
<1>1. moved \in Views
  BY DEF Views
<1>2. /\ moved.scene = state.scene /\ moved.stats = state.stats
      /\ moved.fleet = state.fleet /\ moved.work = state.work
  BY DEF Views
<1> HIDE DEF moved
<1>3. OneRound(state) => OneRound(moved)
  BY <1>2 DEF OneRound
<1> QED BY <1>1, <1>2, <1>3 DEF moved

LEMMA HoverKeeps ==
  ASSUME ArenaInv, NEW a \in Algos, Hover(a)
  PROVE  ArenaInv'
<1>1. /\ latest' = [latest EXCEPT !.focus = a]
      /\ UNCHANGED <<shown, ref, seq, rr>>
  BY DEF Hover
<1>2. latest \in Views /\ OneRound(latest)
  BY DEF ArenaInv, ArenaTypeOK, Fits
<1>3. /\ latest' \in Views
      /\ latest'.scene = latest.scene /\ latest'.stats = latest.stats
      /\ OneRound(latest')
  BY <1>1, <1>2, FocusFits
<1>4. OneRound(latest)' /\ OneRound(shown)'
  BY <1>1, <1>3 DEF OneRound, ArenaInv, Fits
<1>5. SameRequests(latest.stats)' /\ SameRequests(shown.stats)' /\ SameRequests(ref.stats)'
  BY <1>1, <1>3 DEF SameRequests, ArenaInv, Fits, RefInv
<1> QED BY <1>1, <1>3, <1>4, <1>5 DEF ArenaInv, ArenaTypeOK, RefInv, Fits

LEMMA ResetKeeps ==
  ASSUME NEW scene \in Scenes, Reset(scene)
  PROVE  ArenaInv'
<1>1. /\ shown' = FirstView(scene) /\ latest' = FirstView(scene)
      /\ ref' = RefTo(FirstView(scene)) /\ seq' = 0 /\ rr' = -1
  BY DEF Reset
<1>2. SameRequests(EmptyAll)'
  BY <1>1 DEF SameRequests, EmptyAll, EmptyStats, HopTax, Most, MsPerBlock
<1>3. OneRound(FirstView(scene))
  BY FirstViewOneRound
<1>4. OneRound(latest)' /\ OneRound(shown)'
  BY <1>1, <1>3 DEF OneRound
<1>5. SameRequests(latest.stats)' /\ SameRequests(shown.stats)' /\ SameRequests(ref.stats)'
  BY <1>1, <1>2, FirstViewFits DEF RefTo
<1>6. ref'.scene = scene /\ shown'.scene = scene /\ latest'.scene = scene
  BY <1>1, FirstViewFits DEF RefTo
<1>7. ArenaTypeOK'
  BY <1>1, FirstViewFits, ArenaAssumption DEF ArenaTypeOK
<1> QED BY <1>4, <1>5, <1>6, <1>7 DEF ArenaInv, RefInv, Fits

LEMMA InitArena == ArenaInit => ArenaInv
<1> SUFFICES ASSUME ArenaInit PROVE ArenaInv
  OBVIOUS
<1>1. "followup" \in Scenes
  BY DEF Scenes
<1>2. /\ shown = FirstView("followup") /\ latest = FirstView("followup")
      /\ ref = RefTo(FirstView("followup")) /\ seq = 0 /\ rr = -1
  BY DEF ArenaInit
<1>3. SameRequests(EmptyAll)
  BY <1>2, EmptySame
<1>4. OneRound(FirstView("followup"))
  BY <1>1, FirstViewOneRound
<1>5. OneRound(latest) /\ OneRound(shown)
  BY <1>2, <1>4
<1>6. ArenaTypeOK
  BY <1>1, <1>2, FirstViewFits, ArenaAssumption DEF ArenaTypeOK
<1> QED BY <1>1, <1>2, <1>3, <1>5, <1>6, FirstViewFits DEF ArenaInv, RefInv, Fits, RefTo

LEMMA StepArena == ArenaInv /\ [ArenaNext]_arenaVars => ArenaInv'
<1> SUFFICES ASSUME ArenaInv, [ArenaNext]_arenaVars PROVE ArenaInv'
  OBVIOUS
<1>1. /\ shown \in Views /\ latest \in Views /\ shown.scene = latest.scene
      /\ SameRequests(shown.stats) /\ OneRound(shown)
      /\ SameRequests(latest.stats) /\ OneRound(latest)
  BY DEF ArenaInv, ArenaTypeOK, RefInv, Fits
<1>2. Hovered \subseteq Algos
  BY ArenaAssumption
<1>3. CASE Fire
  BY <1>3, FireKeeps
<1>4. CASE HintNow
  <2>1. shown' = shown /\ latest' = latest /\ ref' = RefTo(shown) /\ UNCHANGED <<seq, rr>>
    BY <1>4 DEF HintNow
  <2> QED BY <1>1, <2>1, RefToFacts, ShowKeeps
<1>5. CASE Render
  <2>1. shown' = latest /\ latest' = latest /\ ref' = RefTo(latest) /\ UNCHANGED <<seq, rr>>
    BY <1>5 DEF Render
  <2> QED BY <1>1, <2>1, RefToFacts, ShowKeeps
<1>6. ASSUME NEW scene \in Scenes, Reset(scene)
      PROVE  ArenaInv'
  BY <1>6, ResetKeeps
<1>7. ASSUME NEW a \in Hovered, Hover(a)
      PROVE  ArenaInv'
  BY <1>2, <1>7, HoverKeeps
<1>8. CASE UNCHANGED arenaVars
  BY <1>8 DEF arenaVars, ArenaInv, ArenaTypeOK, RefInv, Fits, SameRequests, OneRound
<1>9. ASSUME NEW a \in Hovered, FocusNow(a)
      PROVE  ArenaInv'
  <2>1. /\ shown' = [shown EXCEPT !.focus = a]
        /\ latest' = [latest EXCEPT !.focus = a]
        /\ ref' = RefTo(shown) /\ UNCHANGED <<seq, rr>>
    BY <1>9 DEF FocusNow
  <2>2. /\ shown' \in Views /\ shown'.scene = shown.scene
        /\ shown'.stats = shown.stats /\ OneRound(shown')
    BY <1>1, <1>2, <2>1, FocusFits
  <2>3. /\ latest' \in Views /\ latest'.scene = latest.scene
        /\ latest'.stats = latest.stats /\ OneRound(latest')
    BY <1>1, <1>2, <2>1, FocusFits
  <2>4. ref' \in Refs /\ ref'.scene = shown.scene /\ ref'.stats = shown.stats
    BY <1>1, <2>1, RefToFacts
  <2> QED BY <1>1, <2>1, <2>2, <2>3, <2>4, ShowKeeps
<1> QED
  BY <1>3, <1>4, <1>5, <1>6, <1>7, <1>8, <1>9 DEF ArenaNext

LEMMA ArenaInvHolds == ArenaSpec => []ArenaInv
BY InitArena, StepArena, PTL DEF ArenaSpec

(***************************************************************************)
(* Fleets, accounts, references and counters keep their types: no GPU gets *)
(* more requests than its slots or fewer than none, whatever is drawn.     *)
(***************************************************************************)
THEOREM ArenaTypesCorrect == ArenaSpec => []ArenaTypeOK
<1>1. ArenaInv => ArenaTypeOK
  BY DEF ArenaInv
<1> QED BY <1>1, ArenaInvHolds, PTL

(***************************************************************************)
(* The five policies are always charged for the same requests.             *)
(***************************************************************************)
THEOREM ComparisonIsFair == ArenaSpec => []AccountsComparable
<1>1. ArenaInv => AccountsComparable
  BY DEF ArenaInv, RefInv, Fits, AccountsComparable
<1> QED BY <1>1, ArenaInvHolds, PTL

(***************************************************************************)
(* A rendering never mixes two rounds.                                     *)
(***************************************************************************)
THEOREM RoundsAreNotMixed == ArenaSpec => []OneRoundOnScreen
<1>1. ArenaInv => OneRoundOnScreen
  BY DEF ArenaInv, Fits, OneRoundOnScreen
<1> QED BY <1>1, ArenaInvHolds, PTL

-----------------------------------------------------------------------------
(* The dashboard.                                                          *)

\* An effect remembers what is on the screen, or it has shown nothing yet.
Remembered == prev \in {NoSnapshot, screen}

DashInv == Remembered /\ ScreenIsLastAnswer

\* A poll that is complete has brought something.
LEMMA CompleteIsSomething ==
  ASSUME NEW p \in Polls, Complete(p)
  PROVE  poll[p].got # NoSnapshot
<1>1. "overview" \in Endpoints
  BY DEF Endpoints
<1>2. NoSnapshot["overview"] = << >> /\ poll[p].got["overview"] # << >>
  BY <1>1 DEF NoSnapshot, Complete
<1> QED BY <1>2

LEMMA InitDash == DashInit => DashInv
BY DEF DashInit, DashInv, Remembered, ScreenIsLastAnswer

\* Most steps leave alone what the invariant is about, or forget.
LEMMA DisplayUntouched ==
  ASSUME DashInv, UNCHANGED <<screen, connected, lastPoll, lastAnswer>>,
         prev' \in {prev, NoSnapshot}
  PROVE  DashInv'
<1>1. NoSnapshot' = NoSnapshot
  BY DEF NoSnapshot
<1>2. Remembered'
  BY <1>1 DEF DashInv, Remembered
<1>3. ScreenIsLastAnswer'
  BY DEF DashInv, ScreenIsLastAnswer
<1> QED BY <1>2, <1>3 DEF DashInv

LEMMA ReceiveKeeps ==
  ASSUME DashInv, NEW p \in Polls, Receive(p)
  PROVE  DashInv'
<1> DEFINE n == poll[p].effect
           snap == poll[p].got
<1>1. snap # NoSnapshot
  BY CompleteIsSomething DEF Receive
<1>2. CASE UNCHANGED <<prev, screen, connected, lastPoll, lastAnswer>>
  BY <1>2, DisplayUntouched
<1>3. CASE /\ snap = prev
           /\ lastPoll' = "ok" /\ lastAnswer' = snap
           /\ UNCHANGED <<prev, screen, connected>>
  <2>1. screen = snap
    BY <1>1, <1>3 DEF DashInv, Remembered
  <2>2. NoSnapshot' = NoSnapshot
    BY DEF NoSnapshot
  <2> HIDE DEF snap
  <2> QED BY <1>3, <2>1, <2>2 DEF DashInv, Remembered, ScreenIsLastAnswer
<1>4. CASE /\ lastPoll' = "ok" /\ lastAnswer' = snap
           /\ prev' = snap /\ screen' = snap
  BY <1>4 DEF DashInv, Remembered, ScreenIsLastAnswer
<1>5. \/ UNCHANGED <<prev, screen, connected, lastPoll, lastAnswer>>
      \/ /\ snap = prev
         /\ lastPoll' = "ok" /\ lastAnswer' = snap
         /\ UNCHANGED <<prev, screen, connected>>
      \/ /\ lastPoll' = "ok" /\ lastAnswer' = snap
         /\ prev' = snap /\ screen' = snap
  BY Zenon DEF Receive
<1> QED BY <1>2, <1>3, <1>4, <1>5

LEMMA FailKeeps ==
  ASSUME DashInv, NEW p \in Polls, Fail(p)
  PROVE  DashInv'
<1>1. UNCHANGED <<prev, screen, lastAnswer>>
  BY DEF Fail
<1>2. connected' = FALSE \/ UNCHANGED <<connected, lastPoll>>
  BY DEF Fail
<1>3. NoSnapshot' = NoSnapshot
  BY DEF NoSnapshot
<1> QED BY <1>1, <1>2, <1>3 DEF DashInv, Remembered, ScreenIsLastAnswer

LEMMA StepDash == DashInv /\ [DashNext]_dashVars => DashInv'
<1> SUFFICES ASSUME DashInv, [DashNext]_dashVars PROVE DashInv'
  OBVIOUS
<1>1. CASE Change
  BY <1>1, DisplayUntouched DEF Change
<1>2. CASE Break
  BY <1>2, DisplayUntouched DEF Break
<1>3. CASE Unmount
  BY <1>3, DisplayUntouched DEF Unmount
<1>4. ASSUME NEW p \in Polls, Mount(p)
      PROVE  DashInv'
  BY <1>4, DisplayUntouched DEF Mount
<1>5. ASSUME NEW p \in Polls, Tick(p)
      PROVE  DashInv'
  BY <1>5, DisplayUntouched DEF Tick
<1>6. ASSUME NEW p \in Polls, NEW e \in Endpoints, Answer(p, e)
      PROVE  DashInv'
  <2>1. UNCHANGED <<prev, screen, connected, lastPoll, lastAnswer>>
    BY <1>6, Zenon DEF Answer
  <2> QED BY <2>1, DisplayUntouched
<1>7. ASSUME NEW p \in Polls, Receive(p)
      PROVE  DashInv'
  BY <1>7, ReceiveKeeps
<1>8. ASSUME NEW p \in Polls, Fail(p)
      PROVE  DashInv'
  BY <1>8, FailKeeps
<1>9. CASE UNCHANGED dashVars
  BY <1>9, DisplayUntouched DEF dashVars
<1> QED
  BY <1>1, <1>2, <1>3, <1>4, <1>5, <1>6, <1>7, <1>8, <1>9, Zenon DEF DashNext, PollStep

(***************************************************************************)
(* The display never parts from the last answer, although equal snapshots  *)
(* are dropped and polls of earlier effects still arrive, and the page is  *)
(* never called live after a failure.                                      *)
(***************************************************************************)
THEOREM ScreenShowsLastAnswer == DashSpec => []ScreenIsLastAnswer
<1>1. DashInv => ScreenIsLastAnswer
  BY DEF DashInv
<1> QED BY <1>1, InitDash, StepDash, PTL DEF DashSpec

-----------------------------------------------------------------------------
(* The types of the dashboard.                                             *)

\* What any endpoint may have answered so far.
Given == UNION {Answers(e) : e \in Endpoints}

PollsTyped ==
  /\ poll \in [Polls -> [effect : 0..effect, got : [Endpoints -> Given]]]
  /\ \A p \in Polls, e \in Endpoints : poll[p].got[e] \in Answers(e)

DashTypes ==
  /\ server \in Worlds
  /\ outage \in BOOLEAN
  /\ effect \in 0..MaxEffects
  /\ live \in {0, effect}
  /\ prev \in Snapshots /\ screen \in Snapshots /\ lastAnswer \in Snapshots
  /\ PollsTyped
  /\ connected \in BOOLEAN
  /\ lastPoll \in {"none", "ok", "failed"}

LEMMA DashTypesSuffice == DashTypes => DashTypeOK
<1> SUFFICES ASSUME DashTypes PROVE DashTypeOK
  OBVIOUS
<1>1. DOMAIN poll = Polls
  BY DEF DashTypes, PollsTyped
<1>2. ASSUME NEW p \in Polls
      PROVE  /\ poll[p].effect \in 0..effect
             /\ DOMAIN poll[p].got = Endpoints
             /\ \A e \in Endpoints : poll[p].got[e] \in Answers(e)
  BY DEF DashTypes, PollsTyped
<1> QED BY <1>1, <1>2 DEF DashTypes, DashTypeOK

LEMMA AnswerIsGiven ==
  ASSUME NEW e \in Endpoints, NEW a \in Answers(e)
  PROVE  a \in Given
BY DEF Given

LEMMA NothingAnswered ==
  /\ NoSnapshot \in Snapshots
  /\ NoSnapshot \in [Endpoints -> Given]
  /\ \A e \in Endpoints : NoSnapshot[e] \in Answers(e)
<1>1. \A e \in Endpoints : NoSnapshot[e] = << >> /\ << >> \in Answers(e)
  BY DEF NoSnapshot, Answers
<1>2. NoSnapshot \in [Endpoints -> Given]
  BY <1>1, AnswerIsGiven DEF NoSnapshot
<1> QED BY <1>1, <1>2 DEF Snapshots

\* A poll that is complete combines, for each endpoint, what it said at a time.
LEMMA CompleteIsSnapshot ==
  ASSUME PollsTyped, NEW p \in Polls, Complete(p)
  PROVE  poll[p].got \in Snapshots
<1> DEFINE got == poll[p].got
           v == [e \in Endpoints |-> CHOOSE w \in Worlds : got[e] = <<w[e]>>]
<1>1. got \in [Endpoints -> Given]
  BY DEF PollsTyped
<1>2. ASSUME NEW e \in Endpoints
      PROVE  v[e] \in Worlds /\ got[e] = <<v[e][e]>>
  <2>1. got[e] \in Answers(e) /\ got[e] # << >>
    BY DEF PollsTyped, Complete
  <2>2. \E w \in Worlds : got[e] = <<w[e]>>
    BY <2>1 DEF Answers
  <2> QED BY <2>2
<1>3. v \in [Endpoints -> Worlds]
  BY <1>2
<1> HIDE DEF got, v
<1>4. got = [e \in Endpoints |-> <<v[e][e]>>]
  BY <1>1, <1>2
<1> QED BY <1>3, <1>4 DEF Snapshots, got

LEMMA InitDashTypes == DashInit => DashTypes
<1> SUFFICES ASSUME DashInit PROVE DashTypes
  OBVIOUS
<1>1. poll = [p \in Polls |-> Idle] /\ effect = 0
  BY DEF DashInit
<1>2. Idle \in [effect : 0..0, got : [Endpoints -> Given]]
  BY NothingAnswered DEF Idle
<1>3. PollsTyped
  BY <1>1, <1>2, NothingAnswered DEF PollsTyped, Idle
<1>4. effect \in 0..MaxEffects /\ live \in {0, effect}
  BY DashboardAssumption DEF DashInit
<1>5. prev \in Snapshots /\ screen \in Snapshots /\ lastAnswer \in Snapshots
  BY NothingAnswered DEF DashInit
<1> QED BY <1>3, <1>4, <1>5 DEF DashInit, DashTypes

\* One slot gets a poll of an effect that has run, with answers to it.
LEMMA SlotKeepsTypes ==
  ASSUME PollsTyped, effect \in Nat, effect' \in Nat, effect <= effect',
         NEW p \in Polls, NEW n \in 0..effect', NEW got \in [Endpoints -> Given],
         \A e \in Endpoints : got[e] \in Answers(e),
         poll' = [poll EXCEPT ![p] = [effect |-> n, got |-> got]]
  PROVE  PollsTyped'
<1> DEFINE Slot == [effect : 0..effect', got : [Endpoints -> Given]]
<1>1. ASSUME NEW q \in Polls
      PROVE  /\ poll'[q] \in Slot
             /\ \A e \in Endpoints : poll'[q].got[e] \in Answers(e)
  <2>1. CASE q = p
    BY <2>1 DEF PollsTyped
  <2>2. CASE q # p
    <3>1. poll'[q] = poll[q] /\ poll[q] \in [effect : 0..effect, got : [Endpoints -> Given]]
      BY <2>2 DEF PollsTyped
    <3>2. 0..effect \subseteq 0..effect'
      OBVIOUS
    <3>3. poll[q] \in Slot
      BY <3>1, <3>2
    <3> QED BY <3>1, <3>3 DEF PollsTyped
  <2> QED BY <2>1, <2>2
<1>2. poll' \in [Polls -> Slot]
  BY <1>1 DEF PollsTyped
<1>3. Given' = Given /\ \A e : Answers(e)' = Answers(e)
  BY DEF Given, Answers
<1> QED BY <1>1, <1>2, <1>3 DEF PollsTyped

LEMMA OtherTypesKept ==
  ASSUME DashTypes, UNCHANGED <<effect, live, prev, poll, screen, lastAnswer>>,
         server' \in Worlds, outage' \in BOOLEAN, connected' \in BOOLEAN,
         lastPoll' \in {"none", "ok", "failed"}
  PROVE  DashTypes'
<1>1. Given' = Given /\ \A e : Answers(e)' = Answers(e)
  BY DEF Given, Answers
<1>2. PollsTyped'
  BY <1>1 DEF DashTypes, PollsTyped
<1>3. Snapshots' = Snapshots
  BY DEF Snapshots, NoSnapshot
<1>4. effect' \in 0..MaxEffects /\ live' \in {0, effect'}
  BY DEF DashTypes
<1>5. prev' \in Snapshots' /\ screen' \in Snapshots' /\ lastAnswer' \in Snapshots'
  BY <1>3 DEF DashTypes
<1> QED BY <1>2, <1>4, <1>5 DEF DashTypes

\* A slot that becomes idle, and what a poll in it may have brought.
LEMMA FreedSlotTypes ==
  ASSUME DashTypes, NEW p \in Polls, poll' = [poll EXCEPT ![p] = Idle],
         UNCHANGED <<server, outage, effect, live>>,
         prev' \in Snapshots, screen' \in Snapshots, lastAnswer' \in Snapshots,
         connected' \in BOOLEAN, lastPoll' \in {"none", "ok", "failed"}
  PROVE  DashTypes'
<1>1. effect \in Nat /\ effect' = effect
  BY DashboardAssumption DEF DashTypes
<1>2. PollsTyped'
  <2>1. poll' = [poll EXCEPT ![p] = [effect |-> 0, got |-> NoSnapshot]]
    BY DEF Idle
  <2>2. 0 \in 0..effect'
    BY <1>1
  <2>3. PollsTyped
    BY DEF DashTypes
  <2>4. effect' \in Nat /\ effect <= effect'
    BY <1>1
  <2>5. PICK got : got = NoSnapshot
    OBVIOUS
  <2>6. got \in [Endpoints -> Given] /\ \A e \in Endpoints : got[e] \in Answers(e)
    BY <2>5, NothingAnswered
  <2>7. poll' = [poll EXCEPT ![p] = [effect |-> 0, got |-> got]]
    BY <2>1, <2>5
  <2> QED BY <1>1, <2>2, <2>3, <2>4, <2>6, <2>7, SlotKeepsTypes
<1>3. effect' \in 0..MaxEffects /\ live' \in {0, effect'}
  BY DEF DashTypes
<1>4. prev' \in Snapshots' /\ screen' \in Snapshots' /\ lastAnswer' \in Snapshots'
  BY DEF Snapshots, NoSnapshot
<1> QED BY <1>2, <1>3, <1>4 DEF DashTypes

\* A slot whose poll goes on or begins, while nothing is displayed.
LEMMA FilledSlotTypes ==
  ASSUME DashTypes, effect' \in 0..MaxEffects, effect <= effect', live' \in {0, effect'},
         NEW p \in Polls, NEW n \in 0..effect', NEW got \in [Endpoints -> Given],
         \A e \in Endpoints : got[e] \in Answers(e),
         poll' = [poll EXCEPT ![p] = [effect |-> n, got |-> got]],
         prev' \in {prev, NoSnapshot},
         UNCHANGED <<server, outage, screen, connected, lastPoll, lastAnswer>>
  PROVE  DashTypes'
<1>1. effect \in Nat /\ effect' \in Nat /\ PollsTyped
  BY DashboardAssumption DEF DashTypes
<1>2. PollsTyped'
  BY <1>1, SlotKeepsTypes
<1>3. prev' \in Snapshots' /\ screen' \in Snapshots' /\ lastAnswer' \in Snapshots'
  <2>1. Snapshots' = Snapshots
    BY DEF Snapshots, NoSnapshot
  <2> QED BY <2>1, NothingAnswered DEF DashTypes
<1> QED BY <1>2, <1>3 DEF DashTypes

LEMMA StepDashTypes == DashTypes /\ [DashNext]_dashVars => DashTypes'
<1> SUFFICES ASSUME DashTypes, [DashNext]_dashVars PROVE DashTypes'
  OBVIOUS
<1>1. CASE Change
  BY <1>1, OtherTypesKept DEF Change, DashTypes
<1>2. CASE Break
  BY <1>2, OtherTypesKept DEF Break, DashTypes
<1>3. CASE Unmount
  <2>1. effect' = effect /\ live' = 0 /\ UNCHANGED poll
    BY <1>3 DEF Unmount
  <2>2. PollsTyped'
    <3>1. Given' = Given /\ \A e : Answers(e)' = Answers(e)
      BY DEF Given, Answers
    <3> QED BY <2>1, <3>1 DEF DashTypes, PollsTyped
  <2>3. Snapshots' = Snapshots
    BY DEF Snapshots, NoSnapshot
  <2>4. UNCHANGED <<server, outage, prev, screen, connected, lastPoll, lastAnswer>>
    BY <1>3 DEF Unmount
  <2>5. effect' \in 0..MaxEffects /\ live' \in {0, effect'}
    BY <2>1 DEF DashTypes
  <2>6. prev' \in Snapshots' /\ screen' \in Snapshots' /\ lastAnswer' \in Snapshots'
    BY <2>3, <2>4 DEF DashTypes
  <2> QED BY <2>2, <2>4, <2>5, <2>6 DEF DashTypes
<1>4. ASSUME NEW p \in Polls, Mount(p)
      PROVE  DashTypes'
  <2>1. effect \in 0..MaxEffects /\ MaxEffects \in Nat
    BY DashboardAssumption DEF DashTypes
  <2>2. /\ effect' = effect + 1 /\ live' = effect + 1 /\ effect < MaxEffects
        /\ prev' = NoSnapshot
        /\ poll' = [poll EXCEPT ![p] = [effect |-> effect + 1, got |-> NoSnapshot]]
        /\ UNCHANGED <<server, outage, screen, connected, lastPoll, lastAnswer>>
    BY <1>4, Zenon DEF Mount, Begin
  <2>3. effect' \in 0..MaxEffects /\ effect <= effect' /\ live' \in {0, effect'}
        /\ effect + 1 \in 0..effect'
    BY <2>1, <2>2
  <2> QED BY <2>2, <2>3, NothingAnswered, FilledSlotTypes
<1>5. ASSUME NEW p \in Polls, Tick(p)
      PROVE  DashTypes'
  <2>1. effect \in 0..MaxEffects /\ MaxEffects \in Nat /\ live \in {0, effect}
    BY DashboardAssumption DEF DashTypes
  <2>2. /\ poll' = [poll EXCEPT ![p] = [effect |-> live, got |-> NoSnapshot]]
        /\ UNCHANGED <<server, outage, effect, live, prev, screen, connected, lastPoll,
                       lastAnswer>>
    BY <1>5, Zenon DEF Tick, Begin
  <2>3. effect' \in 0..MaxEffects /\ effect <= effect' /\ live' \in {0, effect'}
        /\ live \in 0..effect'
    BY <2>1, <2>2
  <2> QED BY <2>2, <2>3, NothingAnswered, FilledSlotTypes
<1>6. ASSUME NEW p \in Polls, NEW e \in Endpoints, Answer(p, e)
      PROVE  DashTypes'
  <2> DEFINE got == [poll[p].got EXCEPT ![e] = <<server[e]>>]
  <2>1. /\ poll' = [poll EXCEPT ![p].got[e] = <<server[e]>>]
        /\ UNCHANGED <<server, outage, effect, live, prev, screen, connected, lastPoll,
                       lastAnswer>>
    BY <1>6, Zenon DEF Answer
  <2>2. /\ poll[p] \in [effect : 0..effect, got : [Endpoints -> Given]]
        /\ \A d \in Endpoints : poll[p].got[d] \in Answers(d)
    BY DEF DashTypes, PollsTyped
  <2>3. <<server[e]>> \in Answers(e)
    BY DEF DashTypes, Answers
  <2>4. got \in [Endpoints -> Given] /\ \A d \in Endpoints : got[d] \in Answers(d)
    BY <2>2, <2>3, AnswerIsGiven
  <2>5. poll' = [poll EXCEPT ![p] = [effect |-> poll[p].effect, got |-> got]]
    <3>1. PICK slot : slot = poll[p]
      OBVIOUS
    <3>2. [slot EXCEPT !.got = got] = [effect |-> slot.effect, got |-> got]
      BY <2>2, <3>1
    <3>3. poll' = [poll EXCEPT ![p] = [slot EXCEPT !.got = got]]
      BY <2>1, <3>1
    <3> QED BY <3>1, <3>2, <3>3
  <2>6. effect' \in 0..MaxEffects /\ effect <= effect' /\ live' \in {0, effect'}
        /\ poll[p].effect \in 0..effect'
    BY <2>1, <2>2, DashboardAssumption DEF DashTypes
  <2> HIDE DEF got
  <2> QED BY <2>1, <2>4, <2>5, <2>6, FilledSlotTypes
<1>7. ASSUME NEW p \in Polls, Receive(p)
      PROVE  DashTypes'
  <2> DEFINE snap == poll[p].got
  <2>1. /\ poll' = [poll EXCEPT ![p] = Idle] /\ UNCHANGED <<server, outage, effect, live>>
        /\ Complete(p)
        /\ prev' \in {prev, snap} /\ screen' \in {screen, snap}
        /\ lastAnswer' \in {lastAnswer, snap}
        /\ connected' \in {connected, TRUE} /\ lastPoll' \in {lastPoll, "ok"}
    BY <1>7 DEF Receive
  <2>2. snap \in Snapshots
    BY <2>1, CompleteIsSnapshot DEF DashTypes
  <2> HIDE DEF snap
  <2>3. prev' \in Snapshots /\ screen' \in Snapshots /\ lastAnswer' \in Snapshots
    BY <2>1, <2>2 DEF DashTypes
  <2>4. connected' \in BOOLEAN /\ lastPoll' \in {"none", "ok", "failed"}
    BY <2>1, Zenon DEF DashTypes
  <2> QED BY <2>1, <2>3, <2>4, FreedSlotTypes
<1>8. ASSUME NEW p \in Polls, Fail(p)
      PROVE  DashTypes'
  <2>1. /\ poll' = [poll EXCEPT ![p] = Idle]
        /\ UNCHANGED <<server, outage, effect, live, prev, screen, lastAnswer>>
        /\ connected' \in {connected, FALSE} /\ lastPoll' \in {lastPoll, "failed"}
    BY <1>8 DEF Fail
  <2>2. prev' \in Snapshots /\ screen' \in Snapshots /\ lastAnswer' \in Snapshots
    BY <2>1 DEF DashTypes
  <2>3. connected' \in BOOLEAN /\ lastPoll' \in {"none", "ok", "failed"}
    BY <2>1, Zenon DEF DashTypes
  <2> QED BY <2>1, <2>2, <2>3, FreedSlotTypes
<1>9. CASE UNCHANGED dashVars
  BY <1>9, OtherTypesKept DEF dashVars, DashTypes
<1> QED
  BY <1>1, <1>2, <1>3, <1>4, <1>5, <1>6, <1>7, <1>8, <1>9, Zenon DEF DashNext, PollStep

(***************************************************************************)
(* For any number of polls in flight, runs of the effect and states of the *)
(* router: what is remembered and shown are whole snapshots, one answer of *)
(* each endpoint, and no poll belongs to an effect that has not run.       *)
(***************************************************************************)
THEOREM DashTypesCorrect == DashSpec => []DashTypeOK
BY DashTypesSuffice, InitDashTypes, StepDashTypes, PTL DEF DashSpec

-----------------------------------------------------------------------------
(* What is drawn: rounding.                                                *)

LEMMA QuotientBounds ==
  ASSUME NEW a \in Nat, NEW d \in Nat \ {0}
  PROVE  /\ a \div d \in Nat
         /\ d * (a \div d) <= a /\ a < d * (a \div d) + d
OBVIOUS

LEMMA RoundedBounds ==
  ASSUME NEW num \in Nat, NEW den \in Nat \ {0}
  PROVE  /\ Rounded(num, den) \in Nat
         /\ 2 * den * Rounded(num, den) <= 2 * num + den
         /\ 2 * num + den < 2 * den * Rounded(num, den) + 2 * den
<1> DEFINE a == 2 * num + den
           d == 2 * den
<1>1. a \in Nat /\ d \in Nat \ {0}
  OBVIOUS
<1>2. Rounded(num, den) = a \div d
  BY DEF Rounded
<1> HIDE DEF a, d
<1>3. Rounded(num, den) \in Nat /\ d * Rounded(num, den) <= a
      /\ a < d * Rounded(num, den) + d
  BY <1>1, <1>2, QuotientBounds
<1> QED BY <1>3 DEF a, d

\* A smaller part of the same whole is not rounded to more.
LEMMA RoundedGrows ==
  ASSUME NEW m \in Nat, NEW n \in Nat, m <= n, NEW den \in Nat \ {0}
  PROVE  Rounded(m, den) <= Rounded(n, den)
<1> DEFINE q == Rounded(m, den)
           r == Rounded(n, den)
<1>1. q \in Nat /\ 2 * den * q <= 2 * m + den
  BY RoundedBounds
<1>2. r \in Nat /\ 2 * n + den < 2 * den * r + 2 * den
  BY RoundedBounds
<1> HIDE DEF q, r
<1>3. ASSUME r + 1 <= q PROVE FALSE
  <2>1. den * (r + 1) <= den * q
    BY <1>1, <1>2, <1>3
  <2> QED BY <1>1, <1>2, <2>1
<1> QED BY <1>1, <1>2, <1>3 DEF q, r

\* Cells for the two parts of a whole: together all of them, perhaps one more.
LEMMA SharesFill ==
  ASSUME NEW blocks \in Nat \ {0}, NEW part \in 0..blocks, NEW cells \in Nat
  PROVE  /\ Rounded(cells * part, blocks) \in 0..cells
         /\ Rounded(cells * (blocks - part), blocks) \in Nat
         /\ Rounded(cells * part, blocks) + Rounded(cells * (blocks - part), blocks) >= cells
<1> DEFINE x == cells * part
           y == cells * (blocks - part)
           q == Rounded(x, blocks)
           r == Rounded(y, blocks)
<1>1. x \in Nat /\ y \in Nat /\ x + y = cells * blocks
  OBVIOUS
<1> HIDE DEF x, y
<1>2. /\ q \in Nat /\ 2 * blocks * q <= 2 * x + blocks
      /\ 2 * x + blocks < 2 * blocks * q + 2 * blocks
  BY <1>1, RoundedBounds
<1>3. /\ r \in Nat
      /\ 2 * y + blocks < 2 * blocks * r + 2 * blocks
  BY <1>1, RoundedBounds
<1> HIDE DEF q, r
<1>4. ASSUME q + r + 1 <= cells PROVE FALSE
  <2>1. blocks * (q + r + 1) <= blocks * cells
    BY <1>2, <1>3, <1>4
  <2>2. blocks * (q + r + 1) = blocks * q + blocks * r + blocks
    BY <1>2, <1>3
  <2> QED BY <1>1, <1>2, <1>3, <2>1, <2>2
<1>5. ASSUME q >= cells + 1 PROVE FALSE
  <2>1. blocks * q >= blocks * cells + blocks
    BY <1>2, <1>5
  <2> QED BY <1>1, <1>2, <2>1
<1> QED BY <1>2, <1>3, <1>4, <1>5 DEF q, r, x, y

LEMMA PercentBounds ==
  ASSUME NEW num \in Int, NEW den \in Nat \ {0}
  PROVE  Percent(<<num, den>>) \in 0..100
<1> DEFINE part == Least(Most(0, num), den)
<1>1. part \in 0..den /\ 100 \in Nat
  BY DEF Least, Most
<1>2. Percent(<<num, den>>) = Rounded(100 * part, den)
  BY DEF Percent
<1> QED BY <1>1, <1>2, SharesFill

-----------------------------------------------------------------------------
(* What is drawn: the arena.                                               *)

LEMMA FieldIs ==
  ASSUME NEW n, NEW name, NEW default, name \in DOMAIN n
  PROVE  Field(n, name, default) = n[name]
BY DEF Field

\* The sled of a GPU: all cells coloured, and the marks of its node.
LEMMA ArenaSled ==
  ASSUME NEW state \in Views, NEW g \in Gpus
  PROVE  LET s == Sled(ArenaNode(state, g)) IN
         /\ s.id = g
         /\ s.on + s.debt = Cells
         /\ s.hit = (g = Focused(state).lastGpu)
         /\ s.home = (g = HomeOf(state).id /\ HasWarmHome(state))
         /\ s.wrong => s.hit /\ ~s.home
<1> DEFINE n == ArenaNode(state, g)
           s == Sled(n)
           match == Match(state.fleet[state.focus][g], state.work)
           blocks == state.work.blocks
<1>1. /\ match \in 0..blocks /\ blocks \in 1..Cells
  <2>1. state.fleet[state.focus][g] \in States /\ state.work \in Works
    BY DEF Views, Fleets
  <2> QED BY <2>1, MatchType
<1>2. /\ "totalBlocks" \in DOMAIN n /\ "missBlocks" \in DOMAIN n
      /\ "selected" \in DOMAIN n /\ "home" \in DOMAIN n
  BY DEF ArenaNode
<1>3. /\ n.id = g /\ n.totalBlocks = Cells
      /\ n.selected = (g = Focused(state).lastGpu)
      /\ n.home = (g = HomeOf(state).id /\ HasWarmHome(state))
  BY DEF ArenaNode
<1>4. /\ n.warmBlocks = Rounded(Cells * match, blocks)
      /\ n.missBlocks = Rounded(Cells * (blocks - match), blocks)
  BY DEF ArenaNode
<1> HIDE DEF n, match, blocks
<1>5. /\ n.warmBlocks \in 0..Cells /\ n.missBlocks \in Nat
      /\ n.warmBlocks + n.missBlocks >= Cells
  <2>1. Cells \in Nat /\ blocks \in Nat \ {0}
    BY <1>1 DEF Cells
  <2> QED BY <1>1, <1>4, <2>1, SharesFill
<1>6. /\ Field(n, "totalBlocks", 16) = Cells
      /\ Field(n, "missBlocks", 0) = n.missBlocks
      /\ Field(n, "selected", FALSE) = n.selected
      /\ Field(n, "home", FALSE) = n.home
  BY <1>2, <1>3, FieldIs
<1>7. /\ s.id = n.id
      /\ s.on = Most(0, Least(Cells, n.warmBlocks))
      /\ s.debt = Most(0, Least(Cells - s.on, n.missBlocks))
      /\ s.hit = n.selected /\ s.home = n.home
      /\ s.wrong = (n.selected /\ ~n.home /\ s.debt > 0)
  BY <1>6 DEF Sled
<1>8. s.on + s.debt = Cells
  BY <1>5, <1>7 DEF Least, Most, Cells
<1> HIDE DEF s
<1>9. s.id = g /\ s.hit = (g = Focused(state).lastGpu)
      /\ s.home = (g = HomeOf(state).id /\ HasWarmHome(state))
  BY <1>3, <1>7
<1>10. s.wrong => s.hit /\ ~s.home
  BY <1>7, Zenon
<1> QED BY <1>8, <1>9, <1>10 DEF s, n

\* The GPU with the most blocks is one of them.
LEMMA PrefixHomeFacts ==
  ASSUME NEW gpus \in Fleets, NEW work \in Works
  PROVE  PrefixHome(gpus, work).id \in Gpus /\ PrefixHome(gpus, work).blocks \in Nat
<1> DEFINE heat(g) == gpus[g].heat[work.family]
           Best(g) == \A h \in Gpus : heat(g) > heat(h) \/ (heat(g) = heat(h) /\ g <= h)
           best == CHOOSE g \in Gpus : Best(g)
<1>1. PrefixHome(gpus, work) = [id |-> best, blocks |-> Least(work.blocks, heat(best))]
  BY Zenon DEF PrefixHome
<1>2. \A g \in Gpus : heat(g) \in Nat
  <2>1. work.family \in Families
    BY DEF Works
  <2>2. \A g \in Gpus : gpus[g] \in States
    BY DEF Fleets
  <2>3. \A g \in Gpus : gpus[g].heat \in [Families -> 0..Cells]
    BY <2>2 DEF States
  <2> QED BY <2>1, <2>3 DEF Cells
<1> HIDE DEF heat
<1>3. \E g \in Gpus : Best(g)
  <2>1. Gpus = {1, 2, 3}
    BY DEF Gpus
  <2> QED BY <1>2, <2>1
<1> HIDE DEF Best
<1>4. best \in Gpus
  BY <1>3
<1> HIDE DEF best
<1>5. work.blocks \in Nat
  BY DEF Works, Cells
<1> QED BY <1>1, <1>2, <1>4, <1>5 DEF Least

LEMMA HomeFacts ==
  ASSUME NEW state \in Views
  PROVE  HomeOf(state).id \in Gpus /\ HomeOf(state).blocks \in Nat
<1>1. state.fleet[state.focus] \in Fleets /\ state.work \in Works
  BY DEF Views
<1> QED BY <1>1, PrefixHomeFacts DEF HomeOf

\* RackFitsVerdict for one policy.  What the text says is passed as it is written,
\* since the provers do not take every string.
RackFits(rack, absent, routed, correct) ==
  /\ \A s \in rack : s.on + s.debt = Cells
  /\ ({s \in rack : s.home} # {}) = ~absent
  /\ routed => {s \in rack : s.home} # {} /\ \A s \in rack : s.home = s.hit /\ ~s.wrong
  /\ (\E s \in rack : s.wrong) => ~correct

LEMMA LivedOnSays ==
  ASSUME NEW state
  PROVE  /\ (LivedOn(state) = "absent") <=> ~HasWarmHome(state)
         /\ (LivedOn(state) = "correct sled") <=>
              HasWarmHome(state) /\ HomeOf(state).id = Focused(state).lastGpu
<1> DEFINE warm == HasWarmHome(state)
           right == HomeOf(state).id = Focused(state).lastGpu
<1>1. LivedOn(state) = IF ~warm THEN "absent" ELSE IF right THEN "correct sled"
                      ELSE "blocks ignored"
  BY Zenon DEF LivedOn
<1>2. "absent" # "correct sled" /\ "absent" # "blocks ignored"
      /\ "correct sled" # "blocks ignored"
  BY Zenon
<1> HIDE DEF warm, right
<1>3. /\ (LivedOn(state) = "absent") <=> ~warm
      /\ (LivedOn(state) = "correct sled") <=> warm /\ right
  <2>1. CASE ~warm
    BY <1>1, <1>2, <2>1, Zenon
  <2>2. CASE warm /\ right
    BY <1>1, <1>2, <2>2, Zenon
  <2>3. CASE warm /\ ~right
    BY <1>1, <1>2, <2>3, Zenon
  <2> QED BY <2>1, <2>2, <2>3, Zenon
<1> QED BY <1>3, Zenon DEF warm, right

LEMMA HeadingSays ==
  ASSUME NEW state, Heading(state) = "Routed to the GPU that already computed this."
  PROVE  WentHome(state)
<1>1. "Routed to the GPU that already computed this." # "Sent the request somewhere else."
      /\ "Routed to the GPU that already computed this." # "Nothing warm to route to."
  BY Zenon
<1> QED BY <1>1, Zenon DEF Heading

LEMMA RackFitsView ==
  ASSUME NEW state \in Views
  PROVE  RackFits(Rack(state), ~HasWarmHome(state), WentHome(state),
                  HasWarmHome(state) /\ HomeOf(state).id = Focused(state).lastGpu)
<1> DEFINE rack == Rack(state)
           home == {s \in rack : s.home}
           warm == HasWarmHome(state)
           best == HomeOf(state).id
           last == Focused(state).lastGpu
           went == WentHome(state)
<1>1. \A s \in rack : \E g \in Gpus : s = Sled(ArenaNode(state, g))
  BY DEF Rack
<1>2. best \in Gpus
  BY HomeFacts
<1>3. Sled(ArenaNode(state, best)) \in rack
  BY <1>2 DEF Rack
<1>4. warm \in BOOLEAN
  BY DEF HasWarmHome
<1>5. ASSUME NEW s \in rack
      PROVE  /\ s.on + s.debt = Cells
             /\ s.hit = (s.id = last)
             /\ s.home = (s.id = best /\ warm)
             /\ s.wrong => s.hit /\ ~s.home
  BY <1>1, ArenaSled
<1>6. Sled(ArenaNode(state, best)).home = warm
  BY <1>2, <1>4, ArenaSled
<1>7. went => warm /\ last = best
  <2>1. HomeOf(state).blocks \in Nat /\ state.work.blocks \in Nat
    BY HomeFacts DEF Views, Works, Cells
  <2> QED BY <2>1 DEF WentHome, HasWarmHome
<1> HIDE DEF rack, warm, best, last, went
<1>8. (home # {}) = warm
  BY <1>3, <1>4, <1>5, <1>6
<1>9. went => home # {} /\ \A s \in rack : s.home = s.hit /\ ~s.wrong
  BY <1>5, <1>7, <1>8
<1>10. (\E s \in rack : s.wrong) => ~(warm /\ best = last)
  BY <1>5
<1>11. \A s \in rack : s.on + s.debt = Cells
  BY <1>5
<1>12. RackFits(rack, ~warm, went, warm /\ best = last)
  BY <1>4, <1>8, <1>9, <1>10, <1>11 DEF RackFits
<1> QED BY <1>12 DEF rack, warm, best, last, went

\* Of two accounts for the same blocks, the longer bar is that of the smaller bill.
LEMMA LongerBarPaidLess ==
  ASSUME NEW st \in StatsOf, NEW other \in StatsOf,
         st.tax + st.saved = other.tax + other.saved,
         ReusePct(st) > ReusePct(other)
  PROVE  st.tax < other.tax
<1> DEFINE whole == st.saved + st.tax
<1>1. /\ st.saved \in Nat /\ st.tax \in Nat /\ other.saved \in Nat /\ other.tax \in Nat
      /\ whole = other.saved + other.tax /\ whole \in Nat
  BY DEF StatsOf
<1> HIDE DEF whole
<1>2. CASE whole = 0
  BY <1>1, <1>2 DEF ReusePct, whole
<1>3. CASE whole # 0
  <2>1. ReusePct(st) = Rounded(100 * st.saved, whole)
    BY <1>1, <1>3 DEF ReusePct, Percent, Least, Most, whole
  <2>2. ReusePct(other) = Rounded(100 * other.saved, whole)
    BY <1>1, <1>3 DEF ReusePct, Percent, Least, Most
  <2>3. ASSUME st.saved <= other.saved PROVE FALSE
    <3>1. 100 * st.saved \in Nat /\ 100 * other.saved \in Nat
          /\ 100 * st.saved <= 100 * other.saved /\ whole \in Nat \ {0}
      BY <1>1, <1>3, <2>3
    <3>2. Rounded(100 * st.saved, whole) <= Rounded(100 * other.saved, whole)
      BY <3>1, RoundedGrows
    <3>3. Rounded(100 * st.saved, whole) \in Nat /\ Rounded(100 * other.saved, whole) \in Nat
      BY <3>1, RoundedBounds
    <3> QED BY <2>1, <2>2, <3>2, <3>3
  <2> QED BY <1>1, <2>3 DEF whole
<1> QED BY <1>2, <1>3

(***************************************************************************)
(* For any tenants, draws and number of requests, and whichever policy is  *)
(* looked at: rack and text agree, and the bars rank the policies by what  *)
(* they have paid.                                                         *)
(***************************************************************************)
THEOREM RackAgreesWithText == ArenaSpec => []RackFitsVerdict
<1>1. ASSUME ArenaInv PROVE RackFitsVerdict
  <2>1. shown \in Views /\ SameRequests(shown.stats)
    BY <1>1 DEF ArenaInv, ArenaTypeOK, Fits
  <2>2. ASSUME NEW a \in Algos
        PROVE  LET state == [shown EXCEPT !.focus = a] IN
               RackFits(Rack(state), LivedOn(state) = "absent",
                        Heading(state) = "Routed to the GPU that already computed this.",
                        LivedOn(state) = "correct sled")
    <3> DEFINE state == [shown EXCEPT !.focus = a]
    <3>1. state \in Views
      BY <2>1 DEF Views
    <3> HIDE DEF state
    <3>2. RackFits(Rack(state), ~HasWarmHome(state), WentHome(state),
                   HasWarmHome(state) /\ HomeOf(state).id = Focused(state).lastGpu)
      BY <3>1, RackFitsView
    <3>3. RackFits(Rack(state), LivedOn(state) = "absent",
                   Heading(state) = "Routed to the GPU that already computed this.",
                   LivedOn(state) = "correct sled")
      BY <3>2, LivedOnSays, HeadingSays, Zenon DEF RackFits
    <3> QED BY <3>3, Zenon DEF state
  <2>3. \A a, b \in Algos :
          ReusePct(shown.stats[a]) > ReusePct(shown.stats[b]) =>
            shown.stats[a].tax < shown.stats[b].tax
    <3> SUFFICES ASSUME NEW a \in Algos, NEW b \in Algos,
                        ReusePct(shown.stats[a]) > ReusePct(shown.stats[b])
                 PROVE  shown.stats[a].tax < shown.stats[b].tax
      OBVIOUS
    <3>1. shown.stats[a] \in StatsOf /\ shown.stats[b] \in StatsOf
      BY <2>1 DEF Views
    <3>2. shown.stats[a].tax + shown.stats[a].saved = shown.stats[b].tax + shown.stats[b].saved
      BY <2>1 DEF SameRequests
    <3> QED BY <3>1, <3>2, LongerBarPaidLess
  <2> DEFINE bars == {[pct |-> ReusePct(shown.stats[a]), tax |-> shown.stats[a].tax] :
                        a \in Algos}
  <2>4. \A b, c \in bars : b.pct > c.pct => b.tax < c.tax
    <3> SUFFICES ASSUME NEW b \in bars, NEW c \in bars, b.pct > c.pct
                 PROVE  b.tax < c.tax
      OBVIOUS
    <3>1. PICK a1 \in Algos :
            b = [pct |-> ReusePct(shown.stats[a1]), tax |-> shown.stats[a1].tax]
      OBVIOUS
    <3>2. PICK a2 \in Algos :
            c = [pct |-> ReusePct(shown.stats[a2]), tax |-> shown.stats[a2].tax]
      OBVIOUS
    <3> QED BY <2>3, <3>1, <3>2
  <2> HIDE DEF bars
  <2>5. \A a \in Algos :
          LET state == [shown EXCEPT !.focus = a] IN
          RackFits(Rack(state), LivedOn(state) = "absent",
                   Heading(state) = "Routed to the GPU that already computed this.",
                   LivedOn(state) = "correct sled")
    BY <2>2, Zenon
  <2> QED BY <2>4, <2>5, Zenon DEF RackFitsVerdict, RackFits, bars
<1> QED BY <1>1, ArenaInvHolds, PTL

-----------------------------------------------------------------------------
(* What is drawn: the dashboard.                                           *)

\* What the handlers send, in terms of what is on the screen.
Shown ==
  /\ Overview # << >> =>
       \A u \in Overview[1].cache : u.used \in Nat /\ u.capacity \in Nat
  /\ Backends \in Seq(Rows)
  /\ \A i, j \in DOMAIN Backends : Backends[i].id = Backends[j].id => i = j
  /\ Events \in Seq(EventRows)
  /\ \A i \in DOMAIN Events : Events[i].matched <= Events[i].total

LEMMA ScreenIsShown == DashTypeOK => Shown
<1> SUFFICES ASSUME screen \in Snapshots PROVE Shown
  BY DEF DashTypeOK
<1>1. CASE screen = NoSnapshot
  <2>1. \A e \in Endpoints : screen[e] = << >>
    BY <1>1 DEF NoSnapshot
  <2>2. Overview = << >> /\ Backends = << >> /\ Events = << >>
    BY <2>1 DEF Endpoints, Overview, Backends, Events
  <2> QED BY <2>2 DEF Shown
<1>2. CASE screen # NoSnapshot
  <2>1. PICK v \in [Endpoints -> Worlds] : screen = [e \in Endpoints |-> <<v[e][e]>>]
    BY <1>2 DEF Snapshots
  <2>2. /\ Overview = <<v["overview"]["overview"]>>
        /\ screen["backends"] = <<v["backends"]["backends"]>>
        /\ screen["recent"] = <<v["recent"]["recent"]>>
    BY <2>1 DEF Endpoints, Overview
  <2>3. /\ Overview[1] = v["overview"]["overview"]
        /\ Backends = v["backends"]["backends"]
        /\ Events = v["recent"]["recent"]
    BY <2>2 DEF Backends, Events
  <2>4. v["overview"] \in Worlds /\ v["backends"] \in Worlds /\ v["recent"] \in Worlds
    BY DEF Endpoints
  <2>5. \A u \in v["overview"]["overview"].cache : u.used \in Nat /\ u.capacity \in Nat
    BY <2>4, WorldsAssumption
  <2>6. /\ v["backends"]["backends"] \in Seq(Rows)
        /\ \A i, j \in DOMAIN v["backends"]["backends"] :
             v["backends"]["backends"][i].id = v["backends"]["backends"][j].id => i = j
    BY <2>4, WorldsAssumption, Zenon
  <2>7. /\ v["recent"]["recent"] \in Seq(EventRows)
        /\ \A i \in DOMAIN v["recent"]["recent"] :
             v["recent"]["recent"][i].matched <= v["recent"]["recent"][i].total
    BY <2>4, WorldsAssumption, Zenon
  <2> QED BY <2>3, <2>5, <2>6, <2>7, Zenon DEF Shown
<1> QED BY <1>1, <1>2

LEMMA UsageFacts ==
  ASSUME Shown, NEW id
  PROVE  UsageOf(id).used \in Nat /\ UsageOf(id).capacity \in Nat
<1> DEFINE rows == IF Overview = << >> THEN {} ELSE {u \in Overview[1].cache : u.id = id}
           none == [id |-> id, used |-> 0, capacity |-> 0]
           row == CHOOSE u \in rows : TRUE
<1>1. UsageOf(id) = IF rows = {} THEN none ELSE row
  BY Zenon DEF UsageOf
<1>2. \A u \in rows : u.used \in Nat /\ u.capacity \in Nat
  BY DEF Shown
<1>3. none.used = 0 /\ none.capacity = 0
  OBVIOUS
<1> HIDE DEF rows, none
<1>4. rows # {} => row \in rows
  OBVIOUS
<1> HIDE DEF row
<1> QED BY <1>1, <1>2, <1>3, <1>4

\* The sled of one backend.
LEMMA BackendSled ==
  ASSUME Shown, NEW b \in Rows
  PROVE  LET s == Sled(DashNode(b)) IN
         /\ s.id = b.id
         /\ s.on + s.debt <= s.cells
         /\ s.down => s.on = 0
         /\ s.fill <= 100 /\ s.queue <= 100
         /\ s.hit = IsLatest(b.id)
         /\ s.hit /\ s.on > 0 => Events[1].matched > 0
<1> DEFINE n == DashNode(b)
           s == Sled(n)
           used == UsageOf(b.id).used
           cap == UsageOf(b.id).capacity
           num == IF cap > 0 THEN used ELSE 0
           den == IF cap > 0 THEN cap ELSE 1
           match == IF IsLatest(b.id) THEN Events[1].matched
                    ELSE Rounded(16 * num, den)
<1>1. used \in Nat /\ cap \in Nat
  BY UsageFacts
<1>2. num \in Nat /\ den \in Nat \ {0}
  BY <1>1
<1>3. b.inflight \in Nat /\ b.healthy \in BOOLEAN
  BY DEF Rows
<1>4. IsLatest(b.id) \in BOOLEAN
  BY DEF IsLatest
<1>5. n = [id |-> b.id, fill |-> <<num, den>>, queue |-> <<Least(8, b.inflight), 8>>,
           inflight |-> b.inflight,
           warmBlocks |-> IF b.healthy THEN Least(16, match) ELSE 0,
           missBlocks |-> IF IsLatest(b.id) THEN Most(0, 16 - match) ELSE 0,
           totalBlocks |-> 16, healthy |-> b.healthy, selected |-> IsLatest(b.id)]
  <2>1. (IF cap > 0 THEN <<used, cap>> ELSE <<0, 1>>) = <<num, den>>
    OBVIOUS
  <2>2. <<num, den>>[1] = num /\ <<num, den>>[2] = den
    OBVIOUS
  <2> HIDE DEF num, den
  <2> QED BY <2>1, <2>2 DEF DashNode
<1> HIDE DEF n, used, cap, num, den, match
<1>6. match \in Nat
  <2>1. CASE IsLatest(b.id)
    <3>1. Events # << >> /\ Events \in Seq(EventRows)
      BY <2>1 DEF IsLatest, Shown
    <3>2. Events[1] \in EventRows
      BY <3>1
    <3> QED BY <2>1, <3>2 DEF EventRows, match
  <2>2. CASE ~IsLatest(b.id)
    <3>1. 16 * num \in Nat
      BY <1>2
    <3> QED BY <1>2, <2>2, <3>1, RoundedBounds DEF match
  <2> QED BY <2>1, <2>2
<1>7. /\ n.id = b.id /\ n.fill = <<num, den>> /\ n.queue = <<Least(8, b.inflight), 8>>
      /\ n.warmBlocks = IF b.healthy THEN Least(16, match) ELSE 0
      /\ n.missBlocks = IF IsLatest(b.id) THEN Most(0, 16 - match) ELSE 0
      /\ n.totalBlocks = 16 /\ n.healthy = b.healthy /\ n.selected = IsLatest(b.id)
  BY <1>5
<1>8. /\ "totalBlocks" \in DOMAIN n /\ "missBlocks" \in DOMAIN n
      /\ "selected" \in DOMAIN n /\ "queue" \in DOMAIN n
  BY <1>5
<1>9. /\ Field(n, "totalBlocks", 16) = 16
      /\ Field(n, "missBlocks", 0) = n.missBlocks
      /\ Field(n, "selected", FALSE) = IsLatest(b.id)
      /\ Field(n, "queue", <<Field(n, "inflight", 0), 8>>) = n.queue
  <2>1. Field(n, "totalBlocks", 16) = 16 /\ Field(n, "missBlocks", 0) = n.missBlocks
    BY <1>7, <1>8 DEF Field
  <2>2. Field(n, "selected", FALSE) = IsLatest(b.id)
    BY <1>7, <1>8 DEF Field
  <2>3. ASSUME NEW default PROVE Field(n, "queue", default) = n.queue
    BY <1>8 DEF Field
  <2> QED BY <2>1, <2>2, <2>3
<1>10. /\ s.id = n.id /\ s.cells = 16
       /\ s.on = Most(0, Least(16, n.warmBlocks))
       /\ s.debt = Most(0, Least(16 - s.on, n.missBlocks))
       /\ s.fill = Percent(n.fill) /\ s.queue = Percent(n.queue)
       /\ s.hit = IsLatest(b.id) /\ s.down = ~n.healthy
  BY <1>9 DEF Sled
<1> HIDE DEF s
<1>11. s.on = IF b.healthy THEN Least(16, match) ELSE 0
  <2>1. CASE b.healthy
    <3>1. s.on = Most(0, Least(16, Least(16, match)))
      BY <1>7, <1>10, <2>1
    <3> QED BY <1>6, <2>1, <3>1 DEF Least, Most
  <2>2. CASE ~b.healthy
    <3>1. s.on = Most(0, Least(16, 0))
      BY <1>7, <1>10, <2>2
    <3> QED BY <2>2, <3>1 DEF Least, Most
  <2> QED BY <2>1, <2>2
<1>12. n.missBlocks \in Nat /\ s.on \in 0..16
  BY <1>6, <1>7, <1>11 DEF Least, Most
<1>13. s.on + s.debt <= s.cells
  BY <1>10, <1>12 DEF Least, Most
<1>14. s.fill <= 100
  <2>1. Percent(<<num, den>>) \in 0..100
    BY <1>2, PercentBounds
  <2> QED BY <1>7, <1>10, <2>1
<1>15. s.queue <= 100
  <2>1. Least(8, b.inflight) \in Int
    BY <1>3 DEF Least
  <2>2. Percent(<<Least(8, b.inflight), 8>>) \in 0..100
    BY <2>1, PercentBounds
  <2> QED BY <1>7, <1>10, <2>2
<1>16. s.down => s.on = 0
  BY <1>3, <1>7, <1>10, <1>11
<1>17. s.hit /\ s.on > 0 => Events[1].matched > 0
  BY <1>6, <1>10, <1>11 DEF Least, match
<1> QED BY <1>7, <1>10, <1>13, <1>14, <1>15, <1>16, <1>17 DEF s, n

\* The sled that is drawn when there is no backend.
LEMMA EmptySled ==
  LET s == Sled([id |-> "-", fill |-> <<0, 1>>, warmBlocks |-> 0, healthy |-> FALSE]) IN
  /\ s.on + s.debt <= s.cells
  /\ s.down => s.on = 0
  /\ s.fill <= 100 /\ s.queue <= 100
  /\ s.hit = FALSE
<1> DEFINE n == [id |-> "-", fill |-> <<0, 1>>, warmBlocks |-> 0, healthy |-> FALSE]
           s == Sled(n)
<1>1. n.warmBlocks = 0 /\ n.fill = <<0, 1>> /\ DOMAIN n = {"id", "fill", "warmBlocks", "healthy"}
  BY Zenon
<1> HIDE DEF n
<1>2. /\ Field(n, "totalBlocks", 16) = 16 /\ Field(n, "missBlocks", 0) = 0
      /\ Field(n, "selected", FALSE) = FALSE
      /\ Field(n, "queue", <<Field(n, "inflight", 0), 8>>) = <<0, 8>>
  BY <1>1 DEF Field
<1>3. /\ s.cells = 16 /\ s.on = Most(0, Least(16, 0))
      /\ s.debt = Most(0, Least(16 - s.on, 0))
      /\ s.fill = Percent(<<0, 1>>) /\ s.queue = Percent(<<0, 8>>) /\ s.hit = FALSE
  BY <1>1, <1>2 DEF Sled
<1>4. Percent(<<0, 1>>) \in 0..100 /\ Percent(<<0, 8>>) \in 0..100
  BY PercentBounds
<1> HIDE DEF s
<1>5. s.on = 0 /\ s.debt = 0
  BY <1>3 DEF Least, Most
<1> QED BY <1>3, <1>4, <1>5 DEF s, n

\* A finite list of numbers has a greatest one, or none above 1.
LEMMA TopExists ==
  ASSUME NEW n \in Nat, NEW f \in [1..n -> Nat]
  PROVE  \E t \in {1} \cup {f[i] : i \in 1..n} : t >= 1 /\ \A i \in 1..n : f[i] <= t
<1> DEFINE Top(m) == \E t \in {1} \cup {f[i] : i \in 1..n} :
                       t >= 1 /\ \A i \in 1..m : f[i] <= t
           S == {m \in 0..n : Top(m)}
<1>1. 0 \in S
  OBVIOUS
<1>2. ASSUME NEW m \in 0..n, m \in S, m < n
      PROVE  m + 1 \in S
  <2>1. PICK t \in {1} \cup {f[i] : i \in 1..n} : t >= 1 /\ \A i \in 1..m : f[i] <= t
    BY <1>2
  <2>2. m + 1 \in 1..n /\ \A i \in 1..(m + 1) : i \in 1..m \/ i = m + 1
    BY <1>2
  <2>3. f[m + 1] \in Nat /\ f[m + 1] \in {f[i] : i \in 1..n} /\ t \in Nat
    BY <2>1, <2>2
  <2>4. CASE f[m + 1] <= t
    BY <2>1, <2>2, <2>4
  <2>5. CASE f[m + 1] > t
    <3>1. \A i \in 1..m : f[i] \in Nat /\ f[i] <= f[m + 1]
      <4>1. \A i \in 1..m : i \in 1..n
        BY <1>2
      <4>2. \A i \in 1..m : f[i] \in Nat
        BY <4>1
      <4>3. \A i \in 1..m : f[i] <= t
        BY <2>1
      <4>4. f[m + 1] \in Nat /\ t \in Nat
        BY <2>3
      <4>5. \A x \in Nat : x <= t => x <= f[m + 1]
        BY <2>5, <4>4
      <4> QED BY <4>2, <4>3, <4>5, Zenon
    <3>2. \A i \in 1..(m + 1) : f[i] <= f[m + 1]
      BY <2>2, <2>3, <3>1
    <3>3. f[m + 1] >= 1
      BY <2>1, <2>3, <2>5
    <3>4. Top(m + 1)
      BY <2>3, <3>2, <3>3
    <3> QED BY <2>2, <3>4
  <2> QED BY <2>3, <2>4, <2>5
<1> HIDE DEF Top
<1>3. 0..n \subseteq S
  BY <1>1, <1>2, Induction
<1>4. Top(n)
  BY <1>3
<1> QED BY <1>4 DEF Top

LEMMA SparkEnds ==
  ASSUME Shown
  PROVE  \A i \in DOMAIN Spark : Spark[i] <= 100
<1> DEFINE n == Least(24, Len(Events))
           f == [i \in 1..n |-> Events[i].ttft]
           top == CHOOSE t \in {1} \cup {Events[i].ttft : i \in 1..n} :
                    t >= 1 /\ \A i \in 1..n : Events[i].ttft <= t
<1>1. Events \in Seq(EventRows) /\ Len(Events) \in Nat
  BY DEF Shown
<1>2. n \in Nat /\ n <= Len(Events)
  BY <1>1 DEF Least
<1>3. Spark = [i \in 1..n |-> Most(8, Rounded(100 * Events[n + 1 - i].ttft, top))]
  BY Zenon DEF Spark
<1> HIDE DEF n
<1>4. \A i \in 1..n : Events[i].ttft \in Nat
  <2>1. \A i \in 1..n : Events[i] \in EventRows
    BY <1>1, <1>2
  <2> QED BY <2>1 DEF EventRows
<1>5. f \in [1..n -> Nat] /\ \A i \in 1..n : f[i] = Events[i].ttft
  BY <1>4
<1> HIDE DEF f
<1>6. \E t \in {1} \cup {f[i] : i \in 1..n} : t >= 1 /\ \A i \in 1..n : f[i] <= t
  BY <1>2, <1>5, TopExists
<1>7. \E t \in {1} \cup {Events[i].ttft : i \in 1..n} :
        t >= 1 /\ \A i \in 1..n : Events[i].ttft <= t
  BY <1>5, <1>6
<1>8. /\ top \in {1} \cup {Events[i].ttft : i \in 1..n}
      /\ top >= 1 /\ \A i \in 1..n : Events[i].ttft <= top
  BY <1>7
<1> HIDE DEF top
<1>9. top \in Nat \ {0}
  BY <1>4, <1>8
<1> SUFFICES ASSUME NEW i \in 1..n PROVE Spark[i] <= 100
  BY <1>3
<1>10. n + 1 - i \in 1..n
  BY <1>2
<1>11. Events[n + 1 - i].ttft \in 0..top
  BY <1>4, <1>8, <1>9, <1>10
<1>12. Rounded(100 * Events[n + 1 - i].ttft, top) \in 0..100
  BY <1>9, <1>11, SharesFill
<1>13. Spark[i] = Most(8, Rounded(100 * Events[n + 1 - i].ttft, top))
  BY <1>3
<1> QED BY <1>12, <1>13 DEF Most

LEMMA FeedFacts ==
  ASSUME Shown
  PROVE  /\ \A i \in DOMAIN Feed : Feed[i].bar <= 100
         /\ Events # << >> =>
              /\ Feed[1].backend = Events[1].backend
              /\ Feed[1].warm = (Events[1].matched > 0)
<1> DEFINE n == Least(18, Len(Events))
<1>1. Events \in Seq(EventRows) /\ Len(Events) \in Nat
  BY DEF Shown
<1>2. n \in Nat /\ n <= Len(Events) /\ (Events # << >> => n >= 1)
  BY <1>1 DEF Least
<1> HIDE DEF n
<1>3. Feed = [i \in 1..n |->
                [backend |-> Events[i].backend, warm |-> Events[i].matched > 0,
                 bar |-> IF Events[i].total = 0 THEN 0
                         ELSE Rounded(100 * Events[i].matched, Events[i].total)]]
  BY DEF Feed, n
<1>4. ASSUME NEW i \in 1..n PROVE Feed[i].bar <= 100
  <2>1. Events[i] \in EventRows /\ Events[i].matched <= Events[i].total
    BY <1>1, <1>2 DEF Shown
  <2>2. Events[i].matched \in Nat /\ Events[i].total \in Nat
    BY <2>1 DEF EventRows
  <2>3. Feed[i].bar = IF Events[i].total = 0 THEN 0
                      ELSE Rounded(100 * Events[i].matched, Events[i].total)
    BY <1>3
  <2>4. Events[i].total # 0 => Rounded(100 * Events[i].matched, Events[i].total) \in 0..100
    <3> SUFFICES ASSUME Events[i].total # 0
                 PROVE  Rounded(100 * Events[i].matched, Events[i].total) \in 0..100
      OBVIOUS
    <3>1. 100 \in Nat /\ Events[i].total \in Nat \ {0}
          /\ Events[i].matched \in 0..Events[i].total
      BY <2>1, <2>2
    <3> QED BY <3>1, SharesFill
  <2> QED BY <2>3, <2>4
<1>5. ASSUME Events # << >>
      PROVE  Feed[1].backend = Events[1].backend /\ Feed[1].warm = (Events[1].matched > 0)
  <2>1. 1 \in 1..n
    BY <1>2, <1>5
  <2> QED BY <1>3, <2>1
<1> QED BY <1>3, <1>4, <1>5

\* At most one sled is hit, since a backend is listed once.
LEMMA OneHit ==
  ASSUME Shown
  PROVE  Cardinality({s \in DashRack : s.hit}) <= 1
<1> DEFINE hits == {s \in DashRack : s.hit}
<1>1. ASSUME NEW s \in hits, NEW t \in hits
      PROVE  s = t
  <2>1. CASE Backends = << >>
    BY <1>1, <2>1, EmptySled DEF DashRack
  <2>2. CASE Backends # << >>
    <3>1. DashRack = {Sled(DashNode(Backends[i])) : i \in DOMAIN Backends}
      BY <2>2, Zenon DEF DashRack
    <3>2. PICK i \in DOMAIN Backends : s = Sled(DashNode(Backends[i]))
      BY <1>1, <3>1
    <3>3. PICK j \in DOMAIN Backends : t = Sled(DashNode(Backends[j]))
      BY <1>1, <3>1
    <3>4. Backends[i] \in Rows /\ Backends[j] \in Rows
      BY DEF Shown
    <3>5. IsLatest(Backends[i].id) /\ IsLatest(Backends[j].id)
      BY <1>1, <3>2, <3>3, <3>4, BackendSled
    <3>6. Backends[i].id = Backends[j].id
      BY <3>5 DEF IsLatest
    <3>7. i = j
      BY <3>6 DEF Shown
    <3> QED BY <3>2, <3>3, <3>7
  <2> QED BY <2>1, <2>2
<1>2. hits = {} \/ \E s \in hits : hits = {s}
  BY <1>1
<1> HIDE DEF hits
<1>3. Cardinality(hits) \in {0, 1}
  BY <1>2, FS_EmptySet, FS_Singleton
<1> QED BY <1>3 DEF hits

(***************************************************************************)
(* For any figures that the router may send, polled at any three moments:  *)
(* what the page draws of them agrees with itself.                         *)
(***************************************************************************)
THEOREM DashboardAgrees == DashSpec => []DashRackSound
<1>1. ASSUME Shown PROVE DashRackSound
  <2>1. ASSUME NEW s \in DashRack
        PROVE  /\ s.on + s.debt <= s.cells
               /\ s.down => s.on = 0
               /\ s.fill <= 100 /\ s.queue <= 100
               /\ s.hit => Feed[1].backend = s.id /\ (s.on > 0 => Feed[1].warm)
    <3>1. CASE Backends = << >>
      BY <2>1, <3>1, EmptySled DEF DashRack
    <3>2. CASE Backends # << >>
      <4>1. PICK i \in DOMAIN Backends : s = Sled(DashNode(Backends[i]))
        BY <2>1, <3>2 DEF DashRack
      <4>2. Backends[i] \in Rows
        BY <1>1 DEF Shown
      <4>3. /\ s.id = Backends[i].id
            /\ s.on + s.debt <= s.cells
            /\ s.down => s.on = 0
            /\ s.fill <= 100 /\ s.queue <= 100
            /\ s.hit = IsLatest(Backends[i].id)
            /\ s.hit /\ s.on > 0 => Events[1].matched > 0
        BY <1>1, <4>1, <4>2, BackendSled
      <4>4. s.hit => Feed[1].backend = s.id /\ (s.on > 0 => Feed[1].warm)
        BY <1>1, <4>3, FeedFacts DEF IsLatest
      <4> QED BY <4>3, <4>4
    <3> QED BY <3>1, <3>2
  <2> QED BY <1>1, <2>1, OneHit, FeedFacts, SparkEnds, Zenon DEF DashRackSound
<1> QED BY <1>1, ScreenIsShown, DashTypesCorrect, PTL

-----------------------------------------------------------------------------
(* The pages of the site.                                                  *)

\* A fragment is that of a section of some page, typed, or none.
LEMMA NoneIsHash == "" \in Hashes
<1>1. "" \in {""}
  BY Zenon
<1> QED BY <1>1, Zenon DEF Hashes

LEMMA SectionsAreHashes ==
  ASSUME NEW p \in Pages
  PROVE  SectionsOf(p) \subseteq Hashes
BY Zenon DEF Hashes

LEMMA TypedAreHashes ==
  ASSUME NEW a \in Typed
  PROVE  a.path[1] = "/" /\ a.hash \in Hashes
<1>1. a.hash \in Hashes
  BY Zenon DEF Hashes
<1>2. a.path[1] = "/"
  BY SiteAssumption, Zenon
<1> QED BY <1>1, <1>2

LEMMA SectionNames ==
  /\ SectionsOf("home") = {"arena", "vs", "host"}
  /\ SectionsOf("console") = {"chassis", "feed"}
  /\ SectionsOf("engineering") = EngineeringSections
<1>1. "home" # "console" /\ "home" # "engineering" /\ "console" # "engineering"
  BY Zenon
<1>2. SectionsOf("home") = {"arena", "vs", "host"}
  BY <1>1, Zenon DEF SectionsOf
<1>3. SectionsOf("console") = {"chassis", "feed"}
  BY <1>1, Zenon DEF SectionsOf
<1>4. SectionsOf("engineering") = EngineeringSections
  BY <1>1, Zenon DEF SectionsOf
<1> QED BY <1>2, <1>3, <1>4, Zenon

\* The fragments that links name.
LEMMA LinkHashes ==
  /\ "" \in Hashes /\ "arena" \in Hashes /\ "chassis" \in Hashes /\ "feed" \in Hashes
  /\ "eligibility" \in Hashes /\ "evaluation" \in Hashes /\ "privacy" \in Hashes
  /\ Toc \subseteq Hashes
<1>1. "home" \in Pages /\ "console" \in Pages /\ "engineering" \in Pages
  BY Zenon DEF Pages
<1>2. /\ {"arena", "vs", "host"} \subseteq Hashes /\ {"chassis", "feed"} \subseteq Hashes
      /\ EngineeringSections \subseteq Hashes
  BY <1>1, SectionNames, SectionsAreHashes, Zenon
<1>3. "arena" \in Hashes /\ "chassis" \in Hashes /\ "feed" \in Hashes
  BY <1>2, Zenon
<1>4. Toc \subseteq EngineeringSections
  BY Zenon DEF Toc, EngineeringSections
<1>5. "eligibility" \in Toc /\ "evaluation" \in Toc /\ "privacy" \in Toc
  BY Zenon DEF Toc
<1> QED BY <1>2, <1>3, <1>4, <1>5, NoneIsHash, Zenon

Leads(link) == (link.path = << >> \/ link.path[1] = "/") /\ link.hash \in Hashes

LEMMA PathsStart ==
  /\ Root[1] = "/" /\ Engineering[1] = "/" /\ Research[1] = "/" /\ Console[1] = "/"
  /\ \A name : Note(name)[1] = "/"
<1>1. \A slash, name : <<slash, name>>[1] = slash
  OBVIOUS
<1>2. \A slash : <<slash>>[1] = slash
  OBVIOUS
<1>3. \A a, b, c, d : (<<a, b>> \o <<c, d>>)[1] = a
  OBVIOUS
<1>4. Root[1] = "/"
  BY <1>2, Zenon DEF Root
<1>5. Engineering[1] = "/" /\ Research[1] = "/" /\ Console[1] = "/"
  BY <1>1, Zenon DEF Engineering, Research, Console
<1>6. ASSUME NEW name PROVE Note(name)[1] = "/"
  <2> DEFINE note == <<"/", "research">> \o <<"/", name>>
  <2>1. note[1] = "/"
    BY <1>3
  <2> HIDE DEF note
  <2>2. Note(name) = note
    BY Zenon DEF Note, Research, note
  <2> QED BY <2>1, <2>2
<1> QED BY <1>4, <1>5, <1>6, Zenon

LEMMA LinkLeads ==
  ASSUME NEW p, NEW h, p = << >> \/ p[1] = "/", h \in Hashes
  PROVE  Leads(Link(p, h))
<1>1. Link(p, h).path = p /\ Link(p, h).hash = h
  BY DEF Link
<1> HIDE DEF Link
<1> QED BY <1>1, Zenon DEF Leads

\* A link names a path, or the page it is on, and a fragment of some page.
LEMMA LinksLead ==
  ASSUME NEW p \in Pages, NEW link \in LinksOn(p)
  PROVE  Leads(link)
<1>1. \A h \in Hashes : /\ Leads(Link(Root, h)) /\ Leads(Link(Engineering, h))
                        /\ Leads(Link(Research, h)) /\ Leads(Link(Console, h))
                        /\ Leads(Here(h)) /\ \A name : Leads(Link(Note(name), h))
  BY PathsStart, LinkLeads, Zenon DEF Here
<1>2. \A l \in NavLinks(p) : Leads(l)
  BY <1>1, LinkHashes, Zenon DEF NavLinks
<1>3. \A l \in FooterLinks : Leads(l)
  BY <1>1, LinkHashes, Zenon DEF FooterLinks
<1>4. \A l \in Posts : Leads(l)
  BY <1>1, LinkHashes, Zenon DEF Posts
<1>5. p \in {"affinity", "queue", "privacy"} => Leads(NextNote(p))
  <2>1. "affinity" # "queue" /\ "affinity" # "privacy" /\ "queue" # "privacy"
    BY Zenon
  <2>2. CASE p = "affinity"
    BY <1>1, <2>1, <2>2, LinkHashes, Zenon DEF NextNote
  <2>3. CASE p = "queue"
    BY <1>1, <2>1, <2>3, LinkHashes, Zenon DEF NextNote
  <2>4. CASE p = "privacy"
    BY <1>1, <2>1, <2>4, LinkHashes, Zenon DEF NextNote
  <2> QED BY <2>2, <2>3, <2>4, Zenon
<1>6. \A l \in BodyLinks(p) : Leads(l)
  <2> DEFINE homeLinks == {Link(Console, ""), Here("arena"), Link(Engineering, ""),
                           Link(Research, "")}
             consoleLinks == {Link(Root, ""), Here("chassis"), Here("feed")}
             tocLinks == {Here(id) : id \in Toc}
  <2>1. /\ \A l \in homeLinks : Leads(l)
        /\ \A l \in consoleLinks : Leads(l)
        /\ \A l \in tocLinks : Leads(l)
    BY <1>1, LinkHashes, Zenon
  <2>2. p \in {"affinity", "queue", "privacy"} =>
          \A l \in {Link(Research, ""), NextNote(p)} : Leads(l)
    BY <1>1, <1>5, LinkHashes, Zenon
  <2>3. BodyLinks(p) = CASE p = "home" -> homeLinks
                         [] p = "console" -> consoleLinks
                         [] p = "engineering" -> tocLinks
                         [] p = "notes" -> Posts
                         [] OTHER -> {Link(Research, ""), NextNote(p)}
    BY Zenon DEF BodyLinks
  <2> HIDE DEF homeLinks, consoleLinks, tocLinks
  <2>4. p \in {"home", "console", "engineering", "notes"}
          \/ p \in {"affinity", "queue", "privacy"}
    BY Zenon DEF Pages
  <2>5. BodyLinks(p) \in {homeLinks, consoleLinks, tocLinks, Posts}
          \/ (BodyLinks(p) = {Link(Research, ""), NextNote(p)}
                /\ p \in {"affinity", "queue", "privacy"})
    BY <2>3, <2>4, Zenon
  <2> QED BY <1>4, <2>1, <2>2, <2>5, Zenon
<1> QED BY <1>2, <1>3, <1>6, Zenon DEF LinksOn

LEMMA PageIsPage ==
  ASSUME NEW p
  PROVE  PageAt(p) \in Pages /\ TitleAt(p) \in Pages
<1>1. /\ "home" \in Pages /\ "console" \in Pages /\ "engineering" \in Pages
      /\ "notes" \in Pages /\ "affinity" \in Pages /\ "queue" \in Pages
      /\ "privacy" \in Pages
  BY Zenon DEF Pages
<1>2. Article(p) \in Pages
  BY <1>1, Zenon DEF Article
<1>3. PageAt(p) \in Pages
  BY <1>1, <1>2, Zenon DEF PageAt
<1>4. TitleAt(p) \in Pages
  BY <1>1, Zenon DEF TitleAt
<1> QED BY <1>3, <1>4

-----------------------------------------------------------------------------
(* The visit.                                                              *)

(***************************************************************************)
(* What a new document starts with lasts until it is drawn, and no frame   *)
(* is requested before the effects run.  Frames are those of a list.       *)
(***************************************************************************)
SiteInv ==
  /\ SiteTypeOK
  /\ frames \in Seq(Hashes)
  /\ stage = "loading" => view = "top" /\ ~changed
  /\ stage # "ready" => frames = << >>

LEMMA AtMostOne ==
  ASSUME NEW x, NEW list \in {<< >>, <<x>>}
  PROVE  Len(list) <= 1
<1>1. Len(<< >>) <= 1 /\ Len(<<x>>) <= 1
  OBVIOUS
<1> QED BY <1>1

LEMMA StageNames ==
  "loading" # "rendered" /\ "loading" # "ready" /\ "rendered" # "ready"
BY Zenon

LEMMA OpenTypes ==
  ASSUME SiteInv, NEW p, NEW h, p[1] = "/", h \in Hashes, Open(p, h),
         Len(wanted') <= 1, acts' \in 0..MaxActs
  PROVE  SiteInv'
<1>1. frames' = << >> /\ frames' \in Seq(Hashes) /\ Len(frames') <= MaxFrames
  BY SiteAssumption DEF Open
<1>2. \A n \in DOMAIN frames' : frames'[n] \in Hashes
  BY <1>1
<1>3. path'[1] = "/" /\ hash' \in Hashes /\ stage' = "loading" /\ page' = "home"
      /\ title' = "static" /\ view' = "top" /\ changed' = FALSE /\ law' = "name"
  BY DEF Open
<1>4. "home" \in Pages /\ "name" \in Laws
  BY Zenon DEF Pages, Laws
<1> QED BY <1>1, <1>2, <1>3, <1>4, StageNames, Zenon DEF SiteInv, SiteTypeOK, Hashes

LEMMA InitSite == SiteInit => SiteInv
<1> SUFFICES ASSUME SiteInit PROVE SiteInv
  OBVIOUS
<1>1. PICK a \in Typed : path = a.path /\ hash = a.hash
  BY DEF SiteInit
<1>2. path[1] = "/" /\ hash \in Hashes
  BY <1>1, TypedAreHashes
<1>3. frames = << >> /\ frames \in Seq(Hashes) /\ Len(frames) <= MaxFrames
  BY SiteAssumption DEF SiteInit
<1>4. \A n \in DOMAIN frames : frames[n] \in Hashes
  BY <1>3
<1>5. wanted = << >> /\ Len(wanted) <= 1 /\ acts = 0 /\ 0 \in 0..MaxActs
  BY SiteAssumption DEF SiteInit
<1>6. "home" \in Pages /\ "name" \in Laws
  BY Zenon DEF Pages, Laws
<1>7. /\ stage = "loading" /\ page = "home" /\ title = "static" /\ view = "top"
      /\ changed = FALSE /\ law = "name"
  BY DEF SiteInit
<1> QED BY <1>2, <1>3, <1>4, <1>5, <1>6, <1>7, StageNames, Zenon DEF SiteInv, SiteTypeOK

\* A step on the page that is there: the address, the view and the title change.
LEMMA OnPage ==
  ASSUME SiteInv, stage # "loading",
         path' = path, stage' = stage, page' = page, title' = title,
         hash' \in Hashes, view' \in SectionsOf(page) \cup {"top"},
         changed' \in BOOLEAN, law' \in Laws, frames' = frames,
         Len(wanted') <= 1, acts' \in 0..MaxActs
  PROVE  SiteInv'
BY StageNames, Zenon DEF SiteInv, SiteTypeOK, Hashes

LEMMA ActTypes ==
  ASSUME SiteInv, Act
  PROVE  acts' \in 0..MaxActs
BY SiteAssumption DEF SiteInv, SiteTypeOK, Act

LEMMA ScrolledTypes ==
  ASSUME SiteInv, NEW id
  PROVE  Scrolled(page, id) \in SectionsOf(page) \cup {"top"}
BY Zenon DEF SiteInv, SiteTypeOK, Scrolled

LEMMA JumpTypes ==
  ASSUME SiteInv, stage # "loading", NEW id \in Hashes, Jump(id),
         Len(wanted') <= 1, acts' \in 0..MaxActs
  PROVE  SiteInv'
<1>1. Scrolled(page, id) \in SectionsOf(page) \cup {"top"}
  BY ScrolledTypes
<1>2. changed \in BOOLEAN /\ law \in Laws
  BY DEF SiteInv, SiteTypeOK
<1>3. changed' \in BOOLEAN
  BY <1>2 DEF Jump
<1> HIDE DEF Hashes
<1> QED BY <1>1, <1>2, <1>3, OnPage, Zenon DEF Jump

\* A fragment is appended to the frames, if there is room.
LEMMA RunHashTypes ==
  ASSUME SiteInv, RunHash, Len(frames) < MaxFrames
  PROVE  /\ frames' \in Seq(Hashes) /\ Len(frames') <= MaxFrames
         /\ \A n \in DOMAIN frames' : frames'[n] \in Hashes
<1>1. frames \in Seq(Hashes) /\ hash \in Hashes /\ MaxFrames \in Nat
  BY SiteAssumption DEF SiteInv, SiteTypeOK
<1>2. frames' = frames \/ frames' = Append(frames, hash)
  BY Zenon DEF RunHash
<1> HIDE DEF Hashes
<1>3. frames' \in Seq(Hashes) /\ Len(frames') <= MaxFrames
  BY <1>1, <1>2
<1>4. \A n \in DOMAIN frames' : frames'[n] \in Hashes
  BY <1>3
<1> QED BY <1>3, <1>4

LEMMA FramesTypes ==
  ASSUME SiteInv, UNCHANGED frames
  PROVE  /\ frames' \in Seq(Hashes) /\ Len(frames') <= MaxFrames
         /\ \A n \in DOMAIN frames' : frames'[n] \in Hashes
BY DEF SiteInv, SiteTypeOK

LEMMA StepSite == SiteInv /\ [SiteNext]_siteVars => SiteInv'
<1> SUFFICES ASSUME SiteInv, [SiteNext]_siteVars PROVE SiteInv'
  OBVIOUS
<1>0. /\ path[1] = "/" /\ hash \in Hashes
      /\ stage \in {"loading", "rendered", "ready"}
      /\ page \in Pages /\ title \in Pages \cup {"static"}
      /\ view \in SectionsOf(page) \cup {"top"}
      /\ changed \in BOOLEAN /\ law \in Laws
      /\ Len(wanted) <= 1 /\ acts \in 0..MaxActs
      /\ stage = "loading" => view = "top" /\ ~changed
      /\ stage # "ready" => frames = << >>
  BY DEF SiteInv, SiteTypeOK
<1>1. CASE Draw
  <2>1. /\ stage = "loading" /\ stage' = "rendered" /\ page' = PageAt(path)
        /\ view' \in {"top", Scrolled(page', hash)}
        /\ UNCHANGED <<path, hash, title, frames, changed, law, wanted, acts>>
    BY <1>1 DEF Draw
  <2>2. view = "top" /\ frames = << >>
    BY <1>0, <2>1, StageNames, Zenon
  <2>3. page' \in Pages
    BY <2>1, PageIsPage
  <2>4. view' \in SectionsOf(page') \cup {"top"}
    BY <2>1, <2>2, Zenon DEF Scrolled
  <2> HIDE DEF Hashes
  <2> QED
    BY <1>0, <2>1, <2>2, <2>3, <2>4, FramesTypes, StageNames, Zenon
    DEF SiteInv, SiteTypeOK, Hashes
<1>2. CASE Effects
  <2>1. /\ stage = "rendered" /\ stage' = "ready" /\ title' = TitleAt(path)
        /\ RunHash \/ UNCHANGED frames
        /\ UNCHANGED <<path, hash, page, view, changed, law, wanted, acts>>
    BY <1>2 DEF Effects
  <2>2. frames = << >>
    BY <1>0, <2>1, StageNames, Zenon
  <2>3. Len(frames) < MaxFrames
    BY <2>2, SiteAssumption
  <2>4. /\ frames' \in Seq(Hashes) /\ Len(frames') <= MaxFrames
        /\ \A n \in DOMAIN frames' : frames'[n] \in Hashes
    BY <2>1, <2>3, RunHashTypes, FramesTypes
  <2>5. title' \in Pages
    BY <2>1, PageIsPage
  <2> QED
    BY <1>0, <2>1, <2>4, <2>5, StageNames, Zenon DEF SiteInv, SiteTypeOK, Hashes
<1>3. CASE HashChange
  <2>1. /\ changed /\ changed' = FALSE
        /\ (stage = "ready" /\ RunHash) \/ UNCHANGED frames
        /\ Len(frames) < MaxFrames
        /\ UNCHANGED <<path, hash, stage, page, title, view, law, wanted, acts>>
    BY <1>3 DEF HashChange
  <2>2. /\ frames' \in Seq(Hashes) /\ Len(frames') <= MaxFrames
        /\ \A n \in DOMAIN frames' : frames'[n] \in Hashes
    BY <2>1, RunHashTypes, FramesTypes
  <2>3. stage # "ready" => frames' = << >>
    BY <1>0, <2>1, Zenon
  <2> QED
    BY <1>0, <2>1, <2>2, <2>3, StageNames, Zenon DEF SiteInv, SiteTypeOK, Hashes
<1>4. CASE Frame
  <2> DEFINE hits == {n \in DOMAIN frames : frames[n] \in SectionsOf(page)}
  <2>1. /\ frames # << >> /\ frames' = << >>
        /\ view' = IF hits = {} THEN view ELSE frames[Max(hits)]
        /\ UNCHANGED <<path, hash, stage, page, title, changed, law, wanted, acts>>
    BY <1>4, Zenon DEF Frame
  <2>2. hits # {} => Max(hits) \in hits
    <3>1. frames \in Seq(Hashes)
      BY DEF SiteInv
    <3>2. DOMAIN frames = 1..Len(frames) /\ Len(frames) \in Nat
      BY <3>1
    <3> HIDE DEF Hashes
    <3> SUFFICES ASSUME hits # {} PROVE Max(hits) \in hits
      OBVIOUS
    <3>3. hits \subseteq 1..Len(frames)
      BY <3>2
    <3> HIDE DEF hits
    <3>4. PICK x \in hits : \A y \in hits : y <= x
      <4>1. hits \subseteq 0..Len(frames)
        BY <3>2, <3>3
      <4> QED BY <3>2, <4>1, GreatestInSet
    <3>5. \A y \in hits : x >= y
      BY <3>2, <3>3, <3>4
    <3> QED BY <3>5 DEF Max
  <2>3. view' \in SectionsOf(page) \cup {"top"}
    BY <1>0, <2>1, <2>2, Zenon
  <2>4. frames' \in Seq(Hashes) /\ Len(frames') <= MaxFrames
        /\ \A n \in DOMAIN frames' : frames'[n] \in Hashes
    BY <2>1, SiteAssumption
  <2>5. stage # "loading"
    BY <1>0, <2>1, StageNames, Zenon
  <2> QED
    BY <1>0, <2>1, <2>3, <2>4, <2>5, Zenon DEF SiteInv, SiteTypeOK, Hashes
<1>5. CASE TypeAddress
  <2>1. PICK a \in Typed : Open(a.path, a.hash)
    BY <1>5 DEF TypeAddress
  <2>2. wanted' = << >> /\ Act
    BY <1>5 DEF TypeAddress
  <2>3. Len(wanted') <= 1 /\ acts' \in 0..MaxActs
    BY <2>2, ActTypes
  <2>4. a.path[1] = "/" /\ a.hash \in Hashes
    BY TypedAreHashes
  <2> QED BY <2>1, <2>3, <2>4, OpenTypes
<1>6. CASE EditHash
  <2>1. PICK id \in SectionsOf(page) : Jump(id)
    BY <1>6 DEF EditHash
  <2>2. stage # "loading" /\ wanted' = << >> /\ Act
    BY <1>6 DEF EditHash
  <2>3. Len(wanted') <= 1 /\ acts' \in 0..MaxActs
    BY <2>2, ActTypes
  <2>4. id \in Hashes
    BY <1>0, SectionsAreHashes, Zenon
  <2> QED BY <2>1, <2>2, <2>3, <2>4, JumpTypes
<1>7. CASE SelectLaw
  <2>1. /\ stage # "loading" /\ law' \in Laws /\ Act
        /\ UNCHANGED <<path, hash, stage, page, title, view, frames, changed, wanted>>
    BY <1>7 DEF SelectLaw
  <2>2. acts' \in 0..MaxActs
    BY <2>1, ActTypes
  <2> QED BY <1>0, <2>1, <2>2, OnPage, Zenon
<1>8. ASSUME NEW link \in LinksOn(page), Follow(link)
      PROVE  SiteInv'
  <2>1. stage # "loading" /\ Act /\ wanted' \in {<< >>, <<link>>}
    BY <1>8, Zenon DEF Follow
  <2>2. Len(wanted') <= 1 /\ acts' \in 0..MaxActs
    <3>1. Len(wanted') <= 1
      BY <2>1, AtMostOne
    <3> QED BY <2>1, <3>1, ActTypes
  <2>3. (link.path = << >> \/ link.path[1] = "/") /\ link.hash \in Hashes
    BY <1>0, <1>8, LinksLead, Zenon DEF Leads
  <2>4. CASE Intercept(link.hash)
    BY <1>0, <2>1, <2>2, <2>3, <2>4, ScrolledTypes, OnPage, Zenon DEF Intercept
  <2>5. CASE Jump(link.hash)
    BY <2>1, <2>2, <2>3, <2>5, JumpTypes
  <2>6. CASE ~StaysOnPage(link) /\ Open(link.path, link.hash)
    <3>1. link.path[1] = "/"
      BY <2>3, <2>6, Zenon DEF StaysOnPage
    <3> QED BY <2>2, <2>3, <2>6, <3>1, OpenTypes
  <2>7. \/ Intercept(link.hash) \/ Jump(link.hash)
        \/ (~StaysOnPage(link) /\ Open(link.path, link.hash))
    BY <1>8, Zenon DEF Follow
  <2> QED BY <2>4, <2>5, <2>6, <2>7, Zenon
<1>9. CASE UNCHANGED siteVars
  BY <1>9, Zenon DEF siteVars, SiteInv, SiteTypeOK, Hashes
<1> QED
  BY <1>1, <1>2, <1>3, <1>4, <1>5, <1>6, <1>7, <1>8, <1>9, Zenon DEF SiteNext

(***************************************************************************)
(* For any addresses that are typed and however long a visit is: the page  *)
(* scrolls only to sections that it has and addresses name only those of   *)
(* some page; and whatever is drawn at random, the arena's figures stay in *)
(* range.                                                                  *)
(***************************************************************************)
THEOREM WebTypesCorrect == Spec => []TypeOK
<1>1. Init => ArenaInv /\ SiteInv
  BY InitArena, InitSite, Zenon DEF Init
<1>2. ArenaInv /\ SiteInv /\ [Next]_vars => ArenaInv' /\ SiteInv'
  <2> SUFFICES ASSUME ArenaInv, SiteInv, [Next]_vars PROVE ArenaInv' /\ SiteInv'
    OBVIOUS
  <2>1. [ArenaNext]_arenaVars /\ [SiteNext]_siteVars
    BY DEF Next, UseArena, UseSite, vars
  <2> QED BY <2>1, StepArena, StepSite
<1>3. ArenaInv /\ SiteInv => TypeOK
  BY DEF ArenaInv, SiteInv, TypeOK
<1> QED BY <1>1, <1>2, <1>3, PTL DEF Spec

=============================================================================
