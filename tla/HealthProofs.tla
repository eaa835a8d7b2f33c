---------------------------- MODULE HealthProofs ----------------------------
(***************************************************************************)
(* Theorems about Health, for any number of backends, any thresholds and   *)
(* counters of any width: the counters of a backend implement the window   *)
(* of its last outcomes, also when they have wrapped around, and what is   *)
(* counted of its transitions agrees with its flag.                        *)
(***************************************************************************)
EXTENDS Health, TLAPS

-----------------------------------------------------------------------------
(* The window after one more outcome.                                      *)

Outcomes == {"ok", "fail"}
W == Window!WindowSize
Runs(w, outcome, n) == Window!EndsWith(w, outcome, n)

LEMMA WindowSizeFacts ==
  W \in Nat /\ W >= 1 /\ W >= UnhealthyAfter /\ W >= HealthyAfter /\ W <= CounterMax
BY ThresholdAssumption, WidthAssumption DEF W, Window!WindowSize

LEMMA SlideIsWindow ==
  ASSUME NEW w \in Seq(Outcomes), Len(w) <= W, NEW outcome \in Outcomes
  PROVE  /\ Window!Slide(w, outcome) \in Seq(Outcomes)
         /\ Len(Window!Slide(w, outcome)) <= W
         /\ Len(Window!Slide(w, outcome)) = IF Len(w) = W THEN W ELSE Len(w) + 1
         /\ \A k \in 1..Len(Window!Slide(w, outcome)) :
              Window!Slide(w, outcome)[k] =
                IF k = Len(Window!Slide(w, outcome)) THEN outcome
                ELSE IF Len(w) = W THEN w[k + 1] ELSE w[k]
<1> DEFINE longer == Append(w, outcome)
<1>1. /\ longer \in Seq(Outcomes) /\ Len(longer) = Len(w) + 1
      /\ \A k \in 1..Len(longer) : longer[k] = IF k = Len(longer) THEN outcome ELSE w[k]
  OBVIOUS
<1>2. CASE Len(w) = W
  <2>1. Window!Slide(w, outcome) = Tail(longer)
    BY <1>1, <1>2, WindowSizeFacts DEF Window!Slide, W
  <2>2. /\ Tail(longer) \in Seq(Outcomes) /\ Len(Tail(longer)) = Len(w)
        /\ \A k \in 1..Len(w) : Tail(longer)[k] = longer[k + 1]
    <3> HIDE DEF longer
    <3> QED BY <1>1
  <2> HIDE DEF longer
  <2> QED BY <1>1, <1>2, <2>1, <2>2, WindowSizeFacts
<1>3. CASE Len(w) # W
  <2>1. Window!Slide(w, outcome) = longer
    BY <1>1, <1>3, WindowSizeFacts DEF Window!Slide, W
  <2> HIDE DEF longer
  <2> QED BY <1>1, <1>3, <2>1, WindowSizeFacts
<1> QED BY <1>2, <1>3

(***************************************************************************)
(* The same outcome once more makes each run one longer, as far as the     *)
(* window reaches; the other outcome ends every run.                       *)
(***************************************************************************)
LEMMA RunsGrow ==
  ASSUME NEW w \in Seq(Outcomes), Len(w) <= W, NEW outcome \in Outcomes,
         NEW k \in 1..W
  PROVE  Runs(Window!Slide(w, outcome), outcome, k)
           <=> (k = 1 \/ Runs(w, outcome, k - 1))
<1> DEFINE v == Window!Slide(w, outcome)
<1>1. /\ v \in Seq(Outcomes) /\ Len(v) <= W
      /\ Len(v) = IF Len(w) = W THEN W ELSE Len(w) + 1
      /\ \A i \in 1..Len(v) : v[i] = IF i = Len(v) THEN outcome
                                     ELSE IF Len(w) = W THEN w[i + 1] ELSE w[i]
  BY SlideIsWindow
<1>2. Len(w) \in Nat /\ W \in Nat /\ W >= 1
  BY WindowSizeFacts
<1> HIDE DEF v
<1>3. ASSUME Runs(v, outcome, k), k # 1 PROVE Runs(w, outcome, k - 1)
  <2>1. k - 1 <= Len(w)
    BY <1>1, <1>2, <1>3 DEF Runs, Window!EndsWith
  <2>2. ASSUME NEW i \in (Len(w) - (k - 1) + 1)..Len(w) PROVE w[i] = outcome
    <3>1. CASE Len(w) = W
      <4>1. i - 1 \in (Len(v) - k + 1)..Len(v) /\ i - 1 \in 1..Len(v) /\ i - 1 # Len(v)
        BY <1>1, <1>2, <1>3, <2>1, <3>1
      <4>2. v[i - 1] = outcome
        BY <1>3, <4>1 DEF Runs, Window!EndsWith
      <4>3. v[i - 1] = w[i]
        BY <1>1, <1>2, <3>1, <4>1
      <4> QED BY <4>2, <4>3
    <3>2. CASE Len(w) # W
      <4>1. i \in (Len(v) - k + 1)..Len(v) /\ i \in 1..Len(v) /\ i # Len(v)
        BY <1>1, <1>2, <1>3, <2>1, <3>2
      <4>2. v[i] = outcome
        BY <1>3, <4>1 DEF Runs, Window!EndsWith
      <4>3. v[i] = w[i]
        BY <1>1, <1>2, <3>2, <4>1
      <4> QED BY <4>2, <4>3
    <3> QED BY <3>1, <3>2
  <2> QED BY <2>1, <2>2 DEF Runs, Window!EndsWith
<1>4. ASSUME k = 1 \/ Runs(w, outcome, k - 1) PROVE Runs(v, outcome, k)
  <2>1. k <= Len(v)
    BY <1>1, <1>2, <1>4 DEF Runs, Window!EndsWith
  <2>2. ASSUME NEW i \in (Len(v) - k + 1)..Len(v) PROVE v[i] = outcome
    <3>1. CASE i = Len(v)
      BY <1>1, <1>2, <2>1, <3>1
    <3>2. CASE i # Len(v) /\ Len(w) = W
      <4>1. k # 1 /\ i + 1 \in (Len(w) - (k - 1) + 1)..Len(w)
        BY <1>1, <1>2, <2>1, <3>2
      <4> QED BY <1>1, <1>2, <1>4, <2>1, <3>2, <4>1 DEF Runs, Window!EndsWith
    <3>3. CASE i # Len(v) /\ Len(w) # W
      <4>1. k # 1 /\ i \in (Len(w) - (k - 1) + 1)..Len(w)
        BY <1>1, <1>2, <2>1, <3>3
      <4> QED BY <1>1, <1>2, <1>4, <2>1, <3>3, <4>1 DEF Runs, Window!EndsWith
    <3> QED BY <3>1, <3>2, <3>3
  <2> QED BY <2>1, <2>2 DEF Runs, Window!EndsWith
<1> QED BY <1>3, <1>4 DEF v

LEMMA RunsEnd ==
  ASSUME NEW w \in Seq(Outcomes), Len(w) <= W,
         NEW outcome \in Outcomes, NEW other \in Outcomes, other # outcome,
         NEW k \in 1..W
  PROVE  ~Runs(Window!Slide(w, outcome), other, k)
<1> DEFINE v == Window!Slide(w, outcome)
<1>1. /\ v \in Seq(Outcomes)
      /\ Len(v) = IF Len(w) = W THEN W ELSE Len(w) + 1
      /\ \A i \in 1..Len(v) : i = Len(v) => v[i] = outcome
  BY SlideIsWindow
<1> HIDE DEF v
<1>3. Len(v) \in Nat /\ Len(v) >= 1 /\ v[Len(v)] = outcome
  BY <1>1, WindowSizeFacts
<1>2. ASSUME Runs(v, other, k) PROVE FALSE
  <2>1. Len(v) \in (Len(v) - k + 1)..Len(v)
    BY <1>3, WindowSizeFacts
  <2>2. v[Len(v)] = other
    BY <1>2, <2>1 DEF Runs, Window!EndsWith
  <2> QED BY <1>3, <2>2
<1> QED BY <1>2 DEF v

-----------------------------------------------------------------------------
(* Types.                                                                  *)

LEMMA InitTypes == Init => TypeOK
<1> SUFFICES ASSUME Init PROVE TypeOK
  OBVIOUS
<1>1. /\ 0 \in Counter32 /\ 0 \in 0..(TransitionRange - 1)
      /\ 0 \in 0..HealthyAfter
  BY ThresholdAssumption, WidthAssumption DEF Counter32
<1>2. /\ outcomes \in [Backends -> Seq({"ok", "fail"})]
      /\ \A b \in Backends : Len(outcomes[b]) <= Window!WindowSize
  BY WindowSizeFacts DEF Init, W
<1> QED BY <1>1, <1>2 DEF Init, TypeOK

LEMMA AddTypes ==
  /\ \A n \in Counter32 : Add32(n) \in Counter32
  /\ \A n \in 0..(TransitionRange - 1) :
       /\ Add64(n) = IF n = TransitionRange - 1 THEN 0 ELSE n + 1
       /\ Add64(n) \in 0..(TransitionRange - 1)
<1>1. \A n \in Counter32 : Add32(n) \in Counter32
  BY WidthAssumption DEF Counter32, Add32
<1>2. ASSUME NEW n \in 0..(TransitionRange - 1)
      PROVE  Add64(n) = IF n = TransitionRange - 1 THEN 0 ELSE n + 1
  BY <1>2, WidthAssumption DEF Add64
<1>3. ASSUME NEW n \in 0..(TransitionRange - 1)
      PROVE  Add64(n) \in 0..(TransitionRange - 1)
  BY <1>2, WidthAssumption
<1> QED BY <1>1, <1>2, <1>3

LEMMA StepTypes == TypeOK /\ [Next]_vars => TypeOK'
<1> SUFFICES ASSUME TypeOK, [Next]_vars PROVE TypeOK'
  OBVIOUS
<1> USE DEF TypeOK, counters
<1>1. ASSUME NEW b \in Backends, StartBurstProbe(b) \/ EndBurst(b) PROVE TypeOK'
  <2>1. CASE StartBurstProbe(b)
    <3>1. burst[b] + 1 \in 0..HealthyAfter
      BY <2>1, ThresholdAssumption DEF StartBurstProbe, BurstGoesOn
    <3> QED BY <2>1, <3>1 DEF StartBurstProbe
  <2>2. CASE EndBurst(b)
    BY <2>2 DEF EndBurst
  <2> QED BY <1>1, <2>1, <2>2
<1>2. ASSUME NEW b \in Backends, Tick(b) \/ TakeTick(b) \/ TakeDone(b) PROVE TypeOK'
  BY <1>2 DEF Tick, TakeTick, TakeDone
<1>3. ASSUME NEW b \in Backends, NEW outcome \in Outcomes,
             outcomes' = [outcomes EXCEPT ![b] = Window!Slide(@, outcome)]
      PROVE  /\ outcomes' \in [Backends -> Seq(Outcomes)]
             /\ \A c \in Backends : Len(outcomes'[c]) <= W
  <2>1. /\ Window!Slide(outcomes[b], outcome) \in Seq(Outcomes)
        /\ Len(Window!Slide(outcomes[b], outcome)) <= W
    BY SlideIsWindow DEF Outcomes, W
  <2> QED BY <1>3, <2>1 DEF Outcomes, W
<1>4. ASSUME NEW b \in Backends, ProbeFails(b) PROVE TypeOK'
  <2>1. Add32(fails[b]) \in Counter32 /\ 0 \in Counter32
    BY AddTypes, WidthAssumption DEF Counter32
  <2>2. fails' \in [Backends -> Counter32] /\ successes' \in [Backends -> Counter32]
    BY <1>4, <2>1 DEF ProbeFails
  <2>3. /\ healthy' \in [Backends -> BOOLEAN]
        /\ step' \in [Backends -> {"idle", "probing", "counting"}]
    BY <1>4 DEF ProbeFails
  <2>4. /\ outcomes' \in [Backends -> Seq({"ok", "fail"})]
        /\ \A c \in Backends : Len(outcomes'[c]) <= Window!WindowSize
    BY <1>3, <1>4 DEF ProbeFails, Outcomes, W
  <2> QED BY <1>4, <2>2, <2>3, <2>4 DEF ProbeFails
<1>5. ASSUME NEW b \in Backends, ProbeSucceeds(b) PROVE TypeOK'
  <2>1. Add32(successes[b]) \in Counter32 /\ 0 \in Counter32
    BY AddTypes, WidthAssumption DEF Counter32
  <2>2. fails' \in [Backends -> Counter32] /\ successes' \in [Backends -> Counter32]
    BY <1>5, <2>1 DEF ProbeSucceeds
  <2>3. /\ healthy' \in [Backends -> BOOLEAN]
        /\ step' \in [Backends -> {"idle", "probing", "counting"}]
    BY <1>5 DEF ProbeSucceeds
  <2>4. /\ outcomes' \in [Backends -> Seq({"ok", "fail"})]
        /\ \A c \in Backends : Len(outcomes'[c]) <= Window!WindowSize
    BY <1>3, <1>5 DEF ProbeSucceeds, Outcomes, W
  <2> QED BY <1>5, <2>2, <2>3, <2>4 DEF ProbeSucceeds
<1>6. ASSUME NEW b \in Backends, CountTransition(b) PROVE TypeOK'
  <2>1. /\ Add64(toHealthy[b]) \in 0..(TransitionRange - 1)
        /\ Add64(toUnhealthy[b]) \in 0..(TransitionRange - 1)
    BY AddTypes
  <2>2. /\ toHealthy' \in [Backends -> 0..(TransitionRange - 1)]
        /\ toUnhealthy' \in [Backends -> 0..(TransitionRange - 1)]
    <3>1. CASE healthy[b]
      BY <1>6, <2>1, <3>1 DEF CountTransition
    <3>2. CASE ~healthy[b]
      BY <1>6, <2>1, <3>2 DEF CountTransition
    <3> QED BY <3>1, <3>2
  <2>3. /\ step' \in [Backends -> {"idle", "probing", "counting"}]
        /\ UNCHANGED <<up, healthy, fails, successes, stage, burst, tick,
                       cancelled, returned, outcomes>>
    BY <1>6 DEF CountTransition
  <2> QED BY <2>2, <2>3
<1>7. ASSUME NEW b \in Backends, BackendFlips(b) PROVE TypeOK'
  BY <1>7 DEF BackendFlips
<1>8. CASE Return \/ Cancel \/ UNCHANGED vars
  BY <1>8 DEF Return, Cancel, vars
<1> QED BY <1>1, <1>2, <1>4, <1>5, <1>6, <1>7, <1>8 DEF Next, Checker

(***************************************************************************)
(* Flags, counters, control points and windows of the health checkers keep *)
(* their types, whatever the backends do.                                  *)
(***************************************************************************)
THEOREM HealthTypesCorrect == Spec => []TypeOK
BY InitTypes, StepTypes, PTL DEF Spec

-----------------------------------------------------------------------------
(* Transitions and their counts.                                           *)

(***************************************************************************)
(* The flag as it was when a transition was last counted: a flip that is   *)
(* still to be counted is undone.                                          *)
(***************************************************************************)
CountedFlag(b) == (step[b] = "counting") # healthy[b]

Counted(b) ==
  toHealthy[b] = IF CountedFlag(b) THEN Add64(toUnhealthy[b]) ELSE toUnhealthy[b]

CountedInv == \A b \in Backends : Counted(b)

LEMMA CountedSuffices ==
  ASSUME TypeOK, CountedInv
  PROVE  TransitionsMatchFlag
<1> SUFFICES ASSUME NEW b \in Backends, step[b] # "counting"
             PROVE  (toHealthy[b] - toUnhealthy[b]) % TransitionRange
                      = IF healthy[b] THEN 1 ELSE 0
  BY DEF TransitionsMatchFlag
<1> DEFINE h == toHealthy[b]
           u == toUnhealthy[b]
<1>1. u \in 0..(TransitionRange - 1) /\ h \in 0..(TransitionRange - 1)
  BY DEF TypeOK
<1>2. h = IF healthy[b] THEN Add64(u) ELSE u
  BY DEF CountedInv, Counted, CountedFlag, TypeOK
<1>3. Add64(u) = IF u = TransitionRange - 1 THEN 0 ELSE u + 1
  BY <1>1, AddTypes
<1>4. /\ 0 % TransitionRange = 0 /\ 1 % TransitionRange = 1
      /\ (-(TransitionRange - 1)) % TransitionRange = 1
  BY WidthAssumption
<1> HIDE DEF h, u
<1>5. CASE healthy[b]
  <2>1. h - u \in {1, -(TransitionRange - 1)}
    BY <1>1, <1>2, <1>3, <1>5, WidthAssumption
  <2> QED BY <1>4, <1>5, <2>1 DEF h, u
<1>6. CASE ~healthy[b]
  BY <1>1, <1>2, <1>4, <1>6, WidthAssumption DEF h, u
<1> QED BY <1>5, <1>6

LEMMA StepCounted == TypeOK /\ CountedInv /\ [Next]_vars => CountedInv'
<1> SUFFICES ASSUME TypeOK, CountedInv, [Next]_vars, NEW c \in Backends
             PROVE  Counted(c)'
  BY DEF CountedInv
<1> USE DEF Counted, CountedFlag
<1>1. Counted(c)
  BY DEF CountedInv
<1>2. ASSUME NEW b \in Backends,
             \/ StartBurstProbe(b) \/ EndBurst(b) \/ Tick(b) \/ TakeTick(b)
             \/ TakeDone(b) \/ BackendFlips(b)
      PROVE  Counted(c)'
  <2>1. /\ UNCHANGED <<healthy, toHealthy, toUnhealthy>>
        /\ step'[c] = "counting" <=> step[c] = "counting"
    BY <1>2 DEF StartBurstProbe, EndBurst, Tick, TakeTick, TakeDone, BackendFlips,
                counters, TypeOK
  <2> QED BY <1>1, <2>1
<1>3. ASSUME NEW b \in Backends, ProbeFails(b) \/ ProbeSucceeds(b)
      PROVE  Counted(c)'
  <2>1. /\ UNCHANGED <<toHealthy, toUnhealthy>> /\ step[b] # "counting"
        /\ c # b => healthy'[c] = healthy[c] /\ step'[c] = step[c]
        /\ (step'[b] = "counting") <=> (healthy'[b] # healthy[b])
    <3>1. CASE ProbeFails(b)
      BY <3>1 DEF ProbeFails, TypeOK
    <3>2. CASE ProbeSucceeds(b)
      BY <3>2 DEF ProbeSucceeds, TypeOK
    <3> QED BY <1>3, <3>1, <3>2
  <2>2. healthy'[b] \in BOOLEAN /\ healthy[b] \in BOOLEAN
    BY StepTypes DEF TypeOK
  <2> QED BY <1>1, <2>1, <2>2
<1>4. ASSUME NEW b \in Backends, CountTransition(b)
      PROVE  Counted(c)'
  <2>1. CASE c # b
    <3>1. /\ healthy' = healthy /\ step'[c] = step[c]
          /\ toHealthy'[c] = toHealthy[c] /\ toUnhealthy'[c] = toUnhealthy[c]
      BY <1>4, <2>1 DEF CountTransition, TypeOK
    <3> QED BY <1>1, <3>1
  <2>2. CASE c = b /\ healthy[b]
    <3>1. /\ healthy' = healthy /\ step[b] = "counting" /\ step'[b] = "idle"
          /\ toHealthy'[b] = Add64(toHealthy[b]) /\ toUnhealthy' = toUnhealthy
      BY <1>4, <2>2 DEF CountTransition, TypeOK
    <3> QED BY <1>1, <2>2, <3>1
  <2>3. CASE c = b /\ ~healthy[b]
    <3>1. /\ healthy' = healthy /\ step[b] = "counting" /\ step'[b] = "idle"
          /\ toUnhealthy'[b] = Add64(toUnhealthy[b]) /\ toHealthy' = toHealthy
      BY <1>4, <2>3 DEF CountTransition, TypeOK
    <3> QED BY <1>1, <2>3, <3>1 DEF TypeOK
  <2> QED BY <2>1, <2>2, <2>3
<1>5. CASE Return \/ Cancel \/ UNCHANGED vars
  BY <1>1, <1>5 DEF Return, Cancel, vars, counters
<1> QED BY <1>2, <1>3, <1>4, <1>5 DEF Next, Checker

(***************************************************************************)
(* Whenever no flip of a backend is waiting to be counted, its flag is the *)
(* difference of the admissions and the removals that Snapshots reports,   *)
(* also when these counters have wrapped around.                           *)
(***************************************************************************)
THEOREM CountsTellFlag == Spec => []TransitionsMatchFlag
<1>1. Init => CountedInv
  BY DEF Init, CountedInv, Counted, CountedFlag
<1> QED BY <1>1, StepCounted, CountedSuffices, HealthTypesCorrect, PTL DEF Spec

-----------------------------------------------------------------------------
(* The counters and the window.                                            *)

(***************************************************************************)
(* A counter holds the length of the run its outcome ends with, as far as  *)
(* the window reaches.  Once it has wrapped around it holds anything, but  *)
(* then the window is full of that outcome and the flag has followed.      *)
(***************************************************************************)
Holds(counter, w, outcome) ==
  counter \in Nat /\ \A k \in 1..W : Runs(w, outcome, k) <=> k <= counter

Tracks(b) ==
  /\ Holds(fails[b], outcomes[b], "fail")
       \/ (Runs(outcomes[b], "fail", W) /\ ~healthy[b])
  /\ Holds(successes[b], outcomes[b], "ok")
       \/ (Runs(outcomes[b], "ok", W) /\ healthy[b])
  /\ Runs(outcomes[b], "fail", UnhealthyAfter) => ~healthy[b]
  /\ Runs(outcomes[b], "ok", HealthyAfter) => healthy[b]

TracksInv == \A b \in Backends : Tracks(b)

LEMMA NoRunsInEmpty ==
  ASSUME NEW outcome, NEW k \in 1..W
  PROVE  ~Runs(<< >>, outcome, k)
BY WindowSizeFacts DEF Runs, Window!EndsWith

\* A run that is shorter is there as well.
LEMMA RunsShorter ==
  ASSUME NEW w \in Seq(Outcomes), NEW outcome, NEW k \in 1..W, NEW j \in 1..k,
         Runs(w, outcome, k)
  PROVE  Runs(w, outcome, j)
BY WindowSizeFacts DEF Runs, Window!EndsWith

(***************************************************************************)
(* One more of the same outcome: the counter goes on holding its run, or   *)
(* it was at its largest value and the window is full.                     *)
(***************************************************************************)
LEMMA HoldsOn ==
  ASSUME NEW w \in Seq(Outcomes), Len(w) <= W, NEW outcome \in Outcomes,
         NEW n \in Counter32, Holds(n, w, outcome)
  PROVE  \/ /\ n < CounterMax /\ Add32(n) = n + 1
            /\ Holds(Add32(n), Window!Slide(w, outcome), outcome)
         \/ /\ n = CounterMax /\ Add32(n) = -CounterMax - 1
            /\ Runs(w, outcome, W) /\ Runs(Window!Slide(w, outcome), outcome, W)
<1>1. n \in Nat /\ n <= CounterMax /\ CounterMax \in Nat
  BY WidthAssumption DEF Holds, Counter32
<1>2. CASE n < CounterMax
  <2>1. Add32(n) = n + 1
    BY <1>1, <1>2 DEF Add32
  <2>2. ASSUME NEW k \in 1..W
        PROVE  Runs(Window!Slide(w, outcome), outcome, k) <=> k <= n + 1
    <3>1. Runs(Window!Slide(w, outcome), outcome, k)
            <=> (k = 1 \/ Runs(w, outcome, k - 1))
      BY RunsGrow
    <3>2. CASE k = 1
      BY <1>1, <3>1, <3>2
    <3>3. CASE k # 1
      <4>1. k - 1 \in 1..W
        BY <3>3, WindowSizeFacts
      <4>2. Runs(w, outcome, k - 1) <=> k - 1 <= n
        BY <4>1 DEF Holds
      <4> QED BY <1>1, <3>1, <3>3, <4>1, <4>2, WindowSizeFacts
    <3> QED BY <3>2, <3>3
  <2> QED BY <1>1, <1>2, <2>1, <2>2 DEF Holds
<1>3. CASE n = CounterMax
  <2>1. Add32(n) = -CounterMax - 1
    BY <1>3 DEF Add32
  <2>2. \A k \in 1..W : Runs(w, outcome, k)
    BY <1>1, <1>3, WindowSizeFacts DEF Holds
  <2>3. Runs(w, outcome, W)
    BY <2>2, WindowSizeFacts
  <2>4. W = 1 \/ Runs(w, outcome, W - 1)
    BY <2>2, WindowSizeFacts
  <2>5. Runs(Window!Slide(w, outcome), outcome, W)
    BY <2>4, RunsGrow, WindowSizeFacts
  <2> QED BY <1>3, <2>1, <2>3, <2>5
<1> QED BY <1>1, <1>2, <1>3

\* A window that is full of an outcome stays so with one more.
LEMMA FullStaysFull ==
  ASSUME NEW w \in Seq(Outcomes), Len(w) <= W, NEW outcome \in Outcomes,
         Runs(w, outcome, W)
  PROVE  Runs(Window!Slide(w, outcome), outcome, W)
<1>1. W = 1 \/ W - 1 \in 1..W
  BY WindowSizeFacts
<1>2. W = 1 \/ Runs(w, outcome, W - 1)
  BY <1>1, RunsShorter, WindowSizeFacts
<1> QED BY <1>2, RunsGrow, WindowSizeFacts

\* The other counter is set to zero, and there is no such run.
LEMMA HoldsZero ==
  ASSUME NEW w \in Seq(Outcomes), Len(w) <= W,
         NEW outcome \in Outcomes, NEW other \in Outcomes, other # outcome
  PROVE  Holds(0, Window!Slide(w, outcome), other)
BY RunsEnd, WindowSizeFacts DEF Holds

LEMMA WindowTypes ==
  ASSUME TypeOK, NEW b \in Backends
  PROVE  /\ outcomes[b] \in Seq(Outcomes) /\ Len(outcomes[b]) <= W
         /\ fails[b] \in Counter32 /\ successes[b] \in Counter32
         /\ healthy[b] \in BOOLEAN
BY DEF TypeOK, Outcomes, W

\* The window's verdict when its last outcome is known.
LEMMA VerdictIs ==
  ASSUME NEW was \in BOOLEAN, NEW w
  PROVE  /\ ~Runs(w, "ok", HealthyAfter) =>
              Window!Verdict(was, w)
                = IF Runs(w, "fail", UnhealthyAfter) THEN FALSE ELSE was
         /\ ~Runs(w, "fail", UnhealthyAfter) =>
              Window!Verdict(was, w)
                = IF Runs(w, "ok", HealthyAfter) THEN TRUE ELSE was
<1> USE DEF Window!Verdict, Runs
<1>1. CASE Runs(w, "fail", UnhealthyAfter) /\ ~Runs(w, "ok", HealthyAfter)
  BY <1>1, Zenon
<1>2. CASE Runs(w, "ok", HealthyAfter) /\ ~Runs(w, "fail", UnhealthyAfter)
  BY <1>2, Zenon
<1>3. CASE ~Runs(w, "ok", HealthyAfter) /\ ~Runs(w, "fail", UnhealthyAfter)
  BY <1>3, Zenon
<1> QED BY <1>1, <1>2, <1>3, Zenon

(***************************************************************************)
(* A probe keeps the counters of its backend in step with the window, and  *)
(* flips the flag exactly if the window says so.                           *)
(***************************************************************************)
LEMMA FailureTracks ==
  ASSUME TypeOK, NEW b \in Backends, Tracks(b), ProbeFails(b)
  PROVE  Tracks(b)' /\ Window!Probed(b, "fail")
<1> DEFINE w == outcomes[b]
           v == Window!Slide(w, "fail")
<1>1. /\ w \in Seq(Outcomes) /\ Len(w) <= W /\ fails[b] \in Counter32
      /\ healthy[b] \in BOOLEAN
      /\ "fail" \in Outcomes /\ "ok" \in Outcomes /\ "ok" # "fail"
  BY WindowTypes DEF Outcomes
<1>2. /\ outcomes' = [outcomes EXCEPT ![b] = v] /\ outcomes'[b] = v
      /\ successes'[b] = 0 /\ fails'[b] = Add32(fails[b])
      /\ healthy' = [healthy EXCEPT ![b] =
                       @ /\ ~(Add32(fails[b]) >= UnhealthyAfter /\ healthy[b])]
      /\ healthy'[b] <=> (healthy[b] /\ ~(Add32(fails[b]) >= UnhealthyAfter))
  BY <1>1 DEF ProbeFails, TypeOK
<1>3. /\ Holds(0, v, "ok") /\ ~Runs(v, "ok", HealthyAfter)
      /\ UnhealthyAfter \in 1..W /\ HealthyAfter \in 1..W /\ W \in 1..W
  BY <1>1, HoldsZero, RunsEnd, WindowSizeFacts, ThresholdAssumption
<1> HIDE DEF v, w
<1>4. /\ Holds(fails'[b], v, "fail") \/ (Runs(v, "fail", W) /\ ~healthy'[b])
      /\ healthy'[b] <=> (healthy[b] /\ ~Runs(v, "fail", UnhealthyAfter))
  <2>1. CASE Holds(fails[b], w, "fail") /\ fails[b] < CounterMax
    <3>1. Holds(Add32(fails[b]), v, "fail")
      BY <1>1, <2>1, HoldsOn, WidthAssumption DEF v
    <3>2. Runs(v, "fail", UnhealthyAfter) <=> UnhealthyAfter <= Add32(fails[b])
      BY <1>3, <3>1 DEF Holds
    <3> QED BY <1>2, <3>1, <3>2
  <2>2. CASE Holds(fails[b], w, "fail") /\ ~(fails[b] < CounterMax)
    <3>1. Runs(w, "fail", W) /\ Runs(v, "fail", W)
      BY <1>1, <2>2, HoldsOn DEF v
    <3>2. Runs(w, "fail", UnhealthyAfter)
      BY <1>1, <1>3, <3>1, RunsShorter
    <3>3. ~healthy[b]
      BY <3>2 DEF Tracks, w
    <3> QED BY <1>2, <3>1, <3>3
  <2>3. CASE Runs(w, "fail", W) /\ ~healthy[b]
    <3>1. Runs(v, "fail", W)
      BY <1>1, <2>3, FullStaysFull DEF v
    <3> QED BY <1>2, <2>3, <3>1
  <2> QED BY <2>1, <2>2, <2>3 DEF Tracks, w
<1>5. Tracks(b)'
  <2>1. /\ Holds(successes'[b], outcomes'[b], "ok")
        /\ Holds(fails'[b], outcomes'[b], "fail")
             \/ (Runs(outcomes'[b], "fail", W) /\ ~healthy'[b])
        /\ Runs(outcomes'[b], "fail", UnhealthyAfter) => ~healthy'[b]
        /\ ~Runs(outcomes'[b], "ok", HealthyAfter)
    BY <1>2, <1>3, <1>4
  <2> QED BY <2>1 DEF Tracks, Holds, Runs
<1>6. healthy'[b] = Window!Verdict(healthy[b], v)
  <2>1. Window!Verdict(healthy[b], v)
          = IF Runs(v, "fail", UnhealthyAfter) THEN FALSE ELSE healthy[b]
    BY <1>1, <1>3, VerdictIs
  <2>2. healthy'[b] \in BOOLEAN
    BY StepTypes DEF TypeOK, Next, Checker
  <2> QED BY <1>1, <1>4, <2>1, <2>2
<1>7. healthy' = [healthy EXCEPT ![b] = Window!Verdict(healthy[b], v)]
  BY <1>2, <1>6 DEF TypeOK
<1> QED BY <1>2, <1>5, <1>7 DEF Window!Probed, v, w

LEMMA SuccessTracks ==
  ASSUME TypeOK, NEW b \in Backends, Tracks(b), ProbeSucceeds(b)
  PROVE  Tracks(b)' /\ Window!Probed(b, "ok")
<1> DEFINE w == outcomes[b]
           v == Window!Slide(w, "ok")
<1>1. /\ w \in Seq(Outcomes) /\ Len(w) <= W /\ successes[b] \in Counter32
      /\ healthy[b] \in BOOLEAN
      /\ "fail" \in Outcomes /\ "ok" \in Outcomes /\ "ok" # "fail"
  BY WindowTypes DEF Outcomes
<1>2. /\ outcomes' = [outcomes EXCEPT ![b] = v] /\ outcomes'[b] = v
      /\ fails'[b] = 0 /\ successes'[b] = Add32(successes[b])
      /\ healthy' = [healthy EXCEPT ![b] =
                       @ \/ (Add32(successes[b]) >= HealthyAfter /\ ~healthy[b])]
      /\ healthy'[b] <=> (healthy[b] \/ Add32(successes[b]) >= HealthyAfter)
  BY <1>1 DEF ProbeSucceeds, TypeOK
<1>3. /\ Holds(0, v, "fail") /\ ~Runs(v, "fail", UnhealthyAfter)
      /\ UnhealthyAfter \in 1..W /\ HealthyAfter \in 1..W /\ W \in 1..W
  BY <1>1, HoldsZero, RunsEnd, WindowSizeFacts, ThresholdAssumption
<1> HIDE DEF v, w
<1>4. /\ Holds(successes'[b], v, "ok") \/ (Runs(v, "ok", W) /\ healthy'[b])
      /\ healthy'[b] <=> (healthy[b] \/ Runs(v, "ok", HealthyAfter))
  <2>1. CASE Holds(successes[b], w, "ok") /\ successes[b] < CounterMax
    <3>1. Holds(Add32(successes[b]), v, "ok")
      BY <1>1, <2>1, HoldsOn, WidthAssumption DEF v
    <3>2. Runs(v, "ok", HealthyAfter) <=> HealthyAfter <= Add32(successes[b])
      BY <1>3, <3>1 DEF Holds
    <3> QED BY <1>2, <3>1, <3>2
  <2>2. CASE Holds(successes[b], w, "ok") /\ ~(successes[b] < CounterMax)
    <3>1. Runs(w, "ok", W) /\ Runs(v, "ok", W)
      BY <1>1, <2>2, HoldsOn DEF v
    <3>2. Runs(w, "ok", HealthyAfter)
      BY <1>1, <1>3, <3>1, RunsShorter
    <3>3. healthy[b]
      BY <3>2 DEF Tracks, w
    <3> QED BY <1>2, <3>1, <3>3
  <2>3. CASE Runs(w, "ok", W) /\ healthy[b]
    <3>1. Runs(v, "ok", W)
      BY <1>1, <2>3, FullStaysFull DEF v
    <3> QED BY <1>2, <2>3, <3>1
  <2> QED BY <2>1, <2>2, <2>3 DEF Tracks, w
<1>5. Tracks(b)'
  <2>1. /\ Holds(fails'[b], outcomes'[b], "fail")
        /\ Holds(successes'[b], outcomes'[b], "ok")
             \/ (Runs(outcomes'[b], "ok", W) /\ healthy'[b])
        /\ Runs(outcomes'[b], "ok", HealthyAfter) => healthy'[b]
        /\ ~Runs(outcomes'[b], "fail", UnhealthyAfter)
    BY <1>2, <1>3, <1>4
  <2> QED BY <2>1 DEF Tracks, Holds, Runs
<1>6. healthy'[b] = Window!Verdict(healthy[b], v)
  <2>1. Window!Verdict(healthy[b], v)
          = IF Runs(v, "ok", HealthyAfter) THEN TRUE ELSE healthy[b]
    BY <1>1, <1>3, VerdictIs
  <2>2. healthy'[b] \in BOOLEAN
    BY StepTypes DEF TypeOK, Next, Checker
  <2> QED BY <1>1, <1>4, <2>1, <2>2
<1>7. healthy' = [healthy EXCEPT ![b] = Window!Verdict(healthy[b], v)]
  BY <1>2, <1>6 DEF TypeOK
<1> QED BY <1>2, <1>5, <1>7 DEF Window!Probed, v, w

\* What a probe of one backend leaves alone of another one.
LEMMA OthersTrack ==
  ASSUME TypeOK, NEW b \in Backends, NEW c \in Backends \ {b}, Tracks(c),
         ProbeFails(b) \/ ProbeSucceeds(b)
  PROVE  Tracks(c)'
<1>1. /\ outcomes'[c] = outcomes[c] /\ fails'[c] = fails[c]
      /\ successes'[c] = successes[c] /\ healthy'[c] = healthy[c]
  BY DEF ProbeFails, ProbeSucceeds, TypeOK
<1> QED BY <1>1 DEF Tracks, Holds, Runs, W, Window!EndsWith, Window!WindowSize

LEMMA StepTracks ==
  TypeOK /\ TracksInv /\ [Next]_vars
    => TracksInv' /\ [Window!WindowNext]_(Window!windowVars)
<1> SUFFICES ASSUME TypeOK, TracksInv, [Next]_vars
             PROVE  /\ TracksInv'
                    /\ Window!WindowNext \/ UNCHANGED Window!windowVars
  OBVIOUS
<1>1. ASSUME UNCHANGED <<healthy, fails, successes, outcomes>>
      PROVE  TracksInv' /\ UNCHANGED Window!windowVars
  BY <1>1 DEF TracksInv, Tracks, Window!windowVars
<1>2. ASSUME NEW b \in Backends, ProbeFails(b) \/ ProbeSucceeds(b)
      PROVE  TracksInv' /\ Window!WindowNext
  <2>1. Tracks(b)' /\ \E outcome \in {"ok", "fail"} : Window!Probed(b, outcome)
    BY <1>2, FailureTracks, SuccessTracks DEF TracksInv
  <2>2. \A c \in Backends \ {b} : Tracks(c)'
    BY <1>2, OthersTrack DEF TracksInv
  <2>3. Window!WindowNext
    BY <2>1 DEF Window!WindowNext
  <2>4. \A c \in Backends : Tracks(c)'
    BY <2>1, <2>2
  <2> QED BY <2>3, <2>4 DEF TracksInv
<1>3. ASSUME NEW b \in Backends,
             \/ StartBurstProbe(b) \/ EndBurst(b) \/ Tick(b) \/ TakeTick(b)
             \/ TakeDone(b) \/ CountTransition(b) \/ BackendFlips(b)
      PROVE  UNCHANGED <<healthy, fails, successes, outcomes>>
  BY <1>3 DEF StartBurstProbe, EndBurst, Tick, TakeTick, TakeDone,
              CountTransition, BackendFlips, counters
<1>4. CASE Return \/ Cancel \/ UNCHANGED vars
  BY <1>1, <1>4 DEF Return, Cancel, vars, counters
<1> QED BY <1>1, <1>2, <1>3, <1>4 DEF Next, Checker

LEMMA InitTracks == Init => TracksInv /\ Window!WindowInit
<1> SUFFICES ASSUME Init PROVE TracksInv /\ Window!WindowInit
  OBVIOUS
<1>1. Window!WindowInit
  BY DEF Init, Window!WindowInit
<1>2. ASSUME NEW b \in Backends PROVE Tracks(b)
  <2>1. /\ outcomes[b] = << >> /\ fails[b] = 0 /\ successes[b] = 0
    BY DEF Init
  <2>2. UnhealthyAfter \in 1..W /\ HealthyAfter \in 1..W
    BY WindowSizeFacts, ThresholdAssumption
  <2>3. \A k \in 1..W : ~Runs(<< >>, "fail", k) /\ ~Runs(<< >>, "ok", k)
    BY NoRunsInEmpty
  <2> QED BY <2>1, <2>2, <2>3, WindowSizeFacts DEF Tracks, Holds
<1> QED BY <1>1, <1>2 DEF TracksInv

(***************************************************************************)
(* The flag the router reads is a function of the last probe outcomes for  *)
(* every width of the counters: a long run that wraps one of them around   *)
(* neither admits nor removes a backend.                                   *)
(***************************************************************************)
THEOREM CountersImplementWindow == Spec => ImplementsWindow
BY InitTracks, StepTracks, HealthTypesCorrect, PTL
   DEF Spec, ImplementsWindow, Window!WindowSpec

-----------------------------------------------------------------------------
(* After StartHealthChecks has returned.                                   *)

\* A goroutine stops between two probes, and all of them before the return.
StoppedInv ==
  /\ \A b \in Backends : stage[b] = "stopped" => step[b] = "idle"
  /\ returned => \A b \in Backends : stage[b] = "stopped"

LEMMA StepStopped ==
  TypeOK /\ StoppedInv /\ [Next]_vars
    => StoppedInv' /\ [returned => UNCHANGED <<healthy, counters, step>>]_vars
<1> SUFFICES ASSUME TypeOK, StoppedInv, [Next]_vars
             PROVE  /\ StoppedInv'
                    /\ \/ returned => UNCHANGED <<healthy, counters, step>>
                       \/ UNCHANGED vars
  OBVIOUS
<1> USE DEF TypeOK, StoppedInv, counters
<1>1. ASSUME NEW b \in Backends,
             \/ StartBurstProbe(b) \/ EndBurst(b) \/ TakeTick(b)
             \/ ProbeFails(b) \/ ProbeSucceeds(b) \/ CountTransition(b)
      PROVE  StoppedInv' /\ ~returned
  <2>1. stage[b] # "stopped" /\ ~returned
    BY <1>1 DEF StartBurstProbe, EndBurst, TakeTick, ProbeFails, ProbeSucceeds,
                CountTransition
  <2>2. /\ stage'[b] # "stopped" /\ returned' = returned
        /\ \A c \in Backends \ {b} : stage'[c] = stage[c] /\ step'[c] = step[c]
    BY <1>1, <2>1 DEF StartBurstProbe, EndBurst, TakeTick, ProbeFails,
                      ProbeSucceeds, CountTransition
  <2> QED BY <2>1, <2>2
<1>2. ASSUME NEW b \in Backends, TakeDone(b)
      PROVE  StoppedInv' /\ UNCHANGED <<healthy, counters, step>>
  BY <1>2 DEF TakeDone
<1>3. ASSUME NEW b \in Backends, Tick(b) \/ BackendFlips(b)
      PROVE  StoppedInv' /\ UNCHANGED <<healthy, counters, step>>
  BY <1>3 DEF Tick, BackendFlips
<1>4. CASE Return \/ Cancel \/ UNCHANGED vars
  BY <1>4 DEF Return, Cancel, vars
<1> QED BY <1>1, <1>2, <1>3, <1>4 DEF Next, Checker

(***************************************************************************)
(* No probe runs and no flag or counter moves any more once                *)
(* StartHealthChecks has returned: main may tear down what they use.       *)
(***************************************************************************)
THEOREM ReturnIsFinal == Spec => QuietAfterReturn
<1>1. Init => StoppedInv
  BY DEF Init, StoppedInv
<1> QED BY <1>1, StepStopped, HealthTypesCorrect, PTL DEF Spec, QuietAfterReturn

=============================================================================
