-------------------------- MODULE WedgeWatchProofs --------------------------
(***************************************************************************)
(* Theorems about WedgeWatch, for every window, every scrape timeout and   *)
(* every setting of the breaker: a live wedge signal dates a stall that    *)
(* the scrapes really saw, and no reclose happens under it.                *)
(***************************************************************************)
EXTENDS WedgeWatch, BreakerProofs

\* The detector holds no stall that the last useful scrape did not show: something was
\* waiting, and no token had been made for about as long as the stall is old, unless it
\* has outlived a restarted counter found on its last value.
StallDated ==
    detector.stall_ago # Never =>
        /\ detector.previous
        /\ sample.waiting
        /\ \/ detector.stall_ago <= sample.idle + sample.ago + ScrapeTimeout
           \/ sample.back

\* A counter that stands where the last useful scrape found it has not moved since.
IdleDated ==
    engine.counter = "same" =>
        idle_for = StallCap \/ idle_for >= sample.idle + sample.ago

\* The inductive invariant.  A stall is kept from one scrape to the next on the word of
\* the counter, so its date holds only together with what the counter says of the time
\* between them; and a reclose takes a breaker that is still out when the probe of it is
\* answered.
WInv == /\ TypeOK
        /\ SoundBreaker(breaker)
        /\ probing => ~Allows(breaker)
        /\ StallDated
        /\ IdleDated

Samples == [idle : 0..StallCap, waiting : BOOLEAN, ago : 0..StallCap, back : BOOLEAN]

-----------------------------------------------------------------------------
\* The history of the last scrape and the ages are natural numbers.
LEMMA AgesTyped ==
    ASSUME TypeOK
    PROVE  /\ StallCap \in Nat /\ ScrapeTimeout \in Nat /\ Window \in Nat /\ Window <= StallCap
           /\ idle_for \in 0..StallCap
           /\ sample.idle \in 0..StallCap /\ sample.ago \in 0..StallCap
           /\ detector.stall_ago # Never => detector.stall_ago \in 0..StallCap
           /\ scrape # Never => scrape \in 0..ScrapeTimeout
BY WedgeAssumption DEF TypeOK, StallCap

\* Init establishes the invariant.
LEMMA InitWInv == Init => WInv
<1> SUFFICES ASSUME Init PROVE WInv
  OBVIOUS
<1>1. StallCap \in Nat
  BY WedgeAssumption DEF StallCap
<1>2. breaker = NewBreaker /\ SoundBreaker(breaker) /\ breaker \in Breakers
  BY NewIsSound DEF Init, SoundBreaker
<1>3. TypeOK
  <2>1. /\ engine \in [wedged : BOOLEAN, waiting : BOOLEAN, counter : Counter]
        /\ detector \in [previous : BOOLEAN, stall_ago : 0..StallCap \cup {Never}]
        /\ sample \in Samples
    <3>1. 0 \in 0..StallCap /\ "same" \in Counter
      BY <1>1 DEF Counter
    <3> QED
      BY <3>1 DEF Init, Samples
  <2> QED
    BY <1>1, <1>2, <2>1 DEF Init, TypeOK, Samples
<1>4. StallDated /\ IdleDated
  BY <1>1 DEF Init, StallDated, IdleDated
<1> QED
  BY <1>2, <1>3, <1>4 DEF Init, WInv

\* A step of the engine: only a counter that is not "same" any more moves the tokens.
LEMMA EngineKeeps ==
    ASSUME WInv, Works \/ Queue \/ Wedges \/ Restarts
    PROVE  WInv'
<1>1. /\ UNCHANGED <<scrape, detector, breaker, probing, sample, fresh>>
      /\ engine \in [wedged : BOOLEAN, waiting : BOOLEAN, counter : Counter]
  BY DEF Works, Queue, Wedges, Restarts, WInv, TypeOK
<1>2. StallCap \in Nat
  BY AgesTyped DEF WInv
<1>3. /\ engine' \in [wedged : BOOLEAN, waiting : BOOLEAN, counter : Counter]
      /\ idle_for' = 0 \/ idle_for' = idle_for
      /\ \/ engine'.counter # "same"
         \/ engine'.counter = engine.counter /\ idle_for' = idle_for
  <2>1. CASE Works
    <3>1. PICK c \in {"less", "back", "more"} : engine' = [engine EXCEPT !.counter = c]
      BY <2>1 DEF Works
    <3>2. engine'.counter = c /\ c # "same" /\ c \in Counter
      BY <1>1, <3>1 DEF Counter
    <3> QED
      BY <1>1, <2>1, <3>1, <3>2 DEF Works
  <2>2. CASE Queue \/ Wedges
    BY <1>1, <2>2 DEF Queue, Wedges
  <2>3. CASE Restarts
    <3>1. PICK c \in {"less", "same", "back"} :
             /\ engine' = [wedged |-> FALSE, waiting |-> FALSE, counter |-> c]
             /\ c = "same" => engine.counter = "same"
      BY <2>3 DEF Restarts
    <3>2. c \in Counter /\ engine'.counter = c /\ idle_for' = idle_for
      BY <1>1, <2>3, <3>1 DEF Counter, Restarts
    <3>3. engine' \in [wedged : BOOLEAN, waiting : BOOLEAN, counter : Counter]
      BY <3>1, <3>2
    <3> QED
      BY <3>1, <3>2, <3>3
  <2> QED
    BY <2>1, <2>2, <2>3
<1>4. TypeOK'
  BY <1>1, <1>2, <1>3 DEF WInv, TypeOK
<1>5. StallDated'
  BY <1>1 DEF WInv, StallDated
<1>6. IdleDated'
  BY <1>1, <1>3 DEF WInv, IdleDated
<1> QED
  BY <1>1, <1>4, <1>5, <1>6 DEF WInv, SoundBreaker, ClosedBelowThreshold, OutageShape

\* observe() starts a stall at the clock of its scrape, keeps one only while something
\* waits and the counter stands, and forgets it otherwise.
LEMMA ObservedStall ==
    ASSUME NEW d, NEW waiting, NEW counter, NEW lag,
           Observed(d, waiting, counter, lag).stall_ago # Never,
           d.stall_ago # Never => d.previous
    PROVE  /\ Observed(d, waiting, counter, lag).previous
           /\ waiting /\ counter \in {"same", "back"}
           /\ Observed(d, waiting, counter, lag).stall_ago
                 = IF d.stall_ago = Never THEN lag ELSE d.stall_ago
BY DEF Observed, Unmoved

LEMMA ScrapeKeeps ==
    ASSUME WInv, ScrapeStarts \/ ScrapeAnswered \/ ScrapeFailed
    PROVE  WInv'
<1>1. CASE ScrapeStarts \/ ScrapeFailed
  <2>1. /\ UNCHANGED <<engine, detector, breaker, probing, idle_for, sample, fresh>>
        /\ scrape' \in {0, Never}
    BY <1>1 DEF ScrapeStarts, ScrapeFailed
  <2>2. TypeOK'
    BY <2>1, AgesTyped DEF WInv, TypeOK
  <2> QED
    BY <2>1, <2>2
    DEF WInv, StallDated, IdleDated, SoundBreaker, ClosedBelowThreshold, OutageShape
<1>2. CASE ScrapeAnswered
  <2> DEFINE d == Observed(detector, engine.waiting, engine.counter, scrape)
             b == /\ detector.stall_ago # Never /\ d.stall_ago # Never
                  /\ sample.back \/ engine.counter = "back"
  <2>1. /\ scrape # Never /\ scrape' = Never
        /\ detector' = d
        /\ engine' = [engine EXCEPT !.counter = "same"]
        /\ sample' = [idle |-> idle_for, waiting |-> engine.waiting, ago |-> 0, back |-> b]
        /\ fresh' = TRUE
        /\ UNCHANGED <<breaker, probing, idle_for>>
        /\ engine \in [wedged : BOOLEAN, waiting : BOOLEAN, counter : Counter]
    BY <1>2 DEF ScrapeAnswered, WInv, TypeOK
  <2>2. /\ StallCap \in Nat /\ ScrapeTimeout \in Nat
        /\ idle_for \in 0..StallCap
        /\ sample.idle \in 0..StallCap /\ sample.ago \in 0..StallCap
        /\ detector.stall_ago # Never => detector.stall_ago \in 0..StallCap
        /\ scrape \in 0..ScrapeTimeout
    BY <2>1, AgesTyped DEF WInv
  <2>3. scrape \in 0..StallCap
    BY <2>2, WedgeAssumption DEF StallCap
  <2>4. ASSUME d.stall_ago # Never
        PROVE  /\ d.previous /\ engine.waiting /\ engine.counter \in {"same", "back"}
               /\ d.stall_ago = IF detector.stall_ago = Never THEN scrape ELSE detector.stall_ago
    BY <2>4, ObservedStall DEF WInv, StallDated
  <2>5. d.previous = TRUE /\ d.stall_ago \in 0..StallCap \cup {Never}
    <3>1. d.previous = TRUE
      BY DEF Observed
    <3> QED
      BY <2>2, <2>3, <2>4, <3>1
  <2>6. d \in [previous : BOOLEAN, stall_ago : 0..StallCap \cup {Never}]
    <3>1. d = [previous |-> d.previous, stall_ago |-> d.stall_ago]
      BY DEF Observed
    <3> HIDE DEF d
    <3> QED
      BY <2>5, <3>1
  <2> HIDE DEF d
  <2>7. sample' \in Samples
    <3>1. b \in BOOLEAN
      OBVIOUS
    <3> HIDE DEF b
    <3> QED
      BY <2>1, <2>2, <3>1 DEF Samples
  <2>8. engine' \in [wedged : BOOLEAN, waiting : BOOLEAN, counter : Counter]
    BY <2>1 DEF Counter
  <2>9. TypeOK'
    BY <2>1, <2>6, <2>7, <2>8 DEF WInv, TypeOK, Samples
  <2>10. IdleDated'
    BY <2>1, <2>2 DEF IdleDated
  <2>11. ASSUME d.stall_ago # Never
         PROVE  d.stall_ago <= idle_for + 0 + ScrapeTimeout \/ b
    <3>1. CASE detector.stall_ago = Never
      BY <2>2, <2>4, <2>11, <3>1
    <3>2. CASE detector.stall_ago # Never /\ ~b
      <4>0. /\ d.stall_ago = detector.stall_ago
            /\ engine.counter = "same" /\ ~sample.back
        BY <2>4, <2>11, <3>2
      <4>1. /\ detector.stall_ago <= sample.idle + sample.ago + ScrapeTimeout
            /\ idle_for = StallCap \/ idle_for >= sample.idle + sample.ago
            /\ detector.stall_ago \in 0..StallCap
        BY <2>2, <3>2, <4>0 DEF WInv, StallDated, IdleDated
      <4> QED
        BY <2>2, <4>0, <4>1
    <3> QED
      BY <3>1, <3>2
  <2>12. StallDated'
    BY <2>1, <2>4, <2>11 DEF StallDated
  <2> QED
    BY <2>1, <2>9, <2>10, <2>12
    DEF WInv, SoundBreaker, ClosedBelowThreshold, OutageShape
<1> QED
  BY <1>1, <1>2

\* What the prober and the requests do to the breaker.
LEMMA BreakerKeeps ==
    ASSUME WInv,
           Watch \/ ProbeStarts \/ RequestSucceeds \/ \E ok \in BOOLEAN : ProbeAnswered(ok)
    PROVE  WInv'
<1>1. /\ UNCHANGED <<engine, scrape, detector, idle_for, sample>>
      /\ fresh' \in BOOLEAN
  BY DEF Watch, ProbeStarts, RequestSucceeds, ProbeAnswered, WInv, TypeOK
<1>2. /\ SoundBreaker(breaker')
      /\ probing' \in BOOLEAN /\ (probing' => ~Allows(breaker'))
  <2>1. SoundBreaker(breaker) /\ (probing => ~Allows(breaker)) /\ probing \in BOOLEAN
    BY DEF WInv, TypeOK
  <2>2. CASE Watch
    <3>1. \A s \in BOOLEAN : SoundBreaker(RecordWedge(breaker, s, 0))
      BY <2>1, RecordWedgeIsSound, TimeAssumption
    <3>2. Suspected \in BOOLEAN
      BY DEF Suspected
    <3>3. SoundBreaker(RecordWedge(breaker, Suspected, 0))
      BY <3>1, <3>2, Zenon
    <3> QED
      BY <2>1, <2>2, <3>3 DEF Watch
  <2>3. CASE ProbeStarts
    <3>1. ~Allows(breaker) /\ breaker' = breaker /\ probing' = TRUE
      BY <2>3 DEF ProbeStarts, DueForProbe, Allows
    <3> QED
      BY <2>1, <3>1
  <2>4. CASE RequestSucceeds
    <3>1. /\ SoundBreaker(RecordSuccess(breaker))
          /\ Allows(RecordSuccess(breaker)) <=> Allows(breaker)
      BY <2>1, RecordSuccessIsSound
    <3> QED
      BY <2>1, <2>4, <3>1 DEF RequestSucceeds
  <2>5. ASSUME NEW ok \in BOOLEAN, ProbeAnswered(ok)
        PROVE  SoundBreaker(breaker') /\ probing' = FALSE
    <3>1. ~Allows(breaker)
      BY <2>1, <2>5 DEF ProbeAnswered
    <3>2. \A s \in BOOLEAN : SoundBreaker(RecordProbe(breaker, ok, s))
      BY <2>1, <3>1, RecordProbeIsSound
    <3>3. Suspected \in BOOLEAN
      BY DEF Suspected
    <3>4. SoundBreaker(RecordProbe(breaker, ok, Suspected))
      BY <3>2, <3>3, Zenon
    <3> QED
      BY <2>5, <3>4 DEF ProbeAnswered
  <2> QED
    BY <2>2, <2>3, <2>4, <2>5
<1>3. TypeOK'
  BY <1>1, <1>2 DEF WInv, TypeOK, SoundBreaker
<1> QED
  BY <1>1, <1>2, <1>3 DEF WInv, StallDated, IdleDated

\* Time passes: the stall and the last scrape grow old together.
LEMMA TickKeeps ==
    ASSUME WInv, Tick
    PROVE  WInv'
<1>1. /\ UNCHANGED <<engine, probing, fresh>>
      /\ breaker' = Aged(breaker)
      /\ scrape # Never => scrape < ScrapeTimeout
      /\ scrape' = IF scrape = Never THEN Never ELSE scrape + 1
      /\ idle_for' = Later(idle_for, StallCap)
  BY DEF Tick
<1>2. /\ SoundBreaker(breaker') /\ breaker' \in Breakers
      /\ Allows(breaker') <=> Allows(breaker)
  BY <1>1, AgedIsSound DEF WInv, SoundBreaker
<1>3. /\ StallCap \in Nat /\ ScrapeTimeout \in Nat
      /\ idle_for \in 0..StallCap
      /\ sample.idle \in 0..StallCap /\ sample.ago \in 0..StallCap
      /\ detector.stall_ago # Never => detector.stall_ago \in 0..StallCap
      /\ scrape # Never => scrape \in 0..ScrapeTimeout
  BY AgesTyped DEF WInv
<1>4. /\ detector'.previous = detector.previous
      /\ detector'.stall_ago = Later(detector.stall_ago, StallCap)
      /\ detector' \in [previous : BOOLEAN, stall_ago : 0..StallCap \cup {Never}]
  <2>1. Later(detector.stall_ago, StallCap) \in 0..StallCap \cup {Never}
    BY <1>3 DEF Later, Lesser
  <2> QED
    BY <2>1 DEF Tick, WInv, TypeOK
<1>5. /\ sample'.idle = sample.idle /\ sample'.waiting = sample.waiting
      /\ sample'.back = sample.back
      /\ sample'.ago = Later(sample.ago, StallCap)
      /\ sample' \in Samples
  <2>1. Later(sample.ago, StallCap) \in 0..StallCap
    BY <1>3, NeverAssumption DEF Later, Lesser
  <2> QED
    BY <2>1 DEF Tick, WInv, TypeOK, Samples
<1>6. /\ idle_for' = Lesser(idle_for + 1, StallCap)
      /\ sample'.ago = Lesser(sample.ago + 1, StallCap)
      /\ detector'.stall_ago # Never
           => /\ detector.stall_ago # Never
              /\ detector'.stall_ago = Lesser(detector.stall_ago + 1, StallCap)
  BY <1>1, <1>3, <1>4, <1>5, NeverAssumption DEF Later
<1>7. TypeOK'
  <2>1. idle_for' \in 0..StallCap
    BY <1>3, <1>6 DEF Lesser
  <2>2. scrape' \in 0..ScrapeTimeout \cup {Never}
    BY <1>1, <1>3
  <2> QED
    BY <1>1, <1>2, <1>4, <1>5, <2>1, <2>2 DEF WInv, TypeOK, Samples
<1>8. StallDated'
  <2> SUFFICES ASSUME detector'.stall_ago # Never, ~sample'.back
               PROVE  detector'.stall_ago <= sample'.idle + sample'.ago + ScrapeTimeout
    BY <1>4, <1>5, <1>6 DEF WInv, StallDated
  <2>1. /\ detector.stall_ago \in 0..StallCap
        /\ detector.stall_ago <= sample.idle + sample.ago + ScrapeTimeout
    BY <1>3, <1>5, <1>6 DEF WInv, StallDated
  <2> QED
    BY <1>3, <1>5, <1>6, <2>1 DEF Lesser
<1>9. IdleDated'
  <2> SUFFICES ASSUME engine.counter = "same"
               PROVE  idle_for' = StallCap \/ idle_for' >= sample'.idle + sample'.ago
    BY <1>1 DEF IdleDated
  <2>1. idle_for = StallCap \/ idle_for >= sample.idle + sample.ago
    BY DEF WInv, IdleDated
  <2> QED
    BY <1>3, <1>5, <1>6, <2>1 DEF Lesser
<1> QED
  BY <1>1, <1>2, <1>7, <1>8, <1>9 DEF WInv

LEMMA NextWInv == WInv /\ [Next]_vars => WInv'
<1> SUFFICES ASSUME WInv, [Next]_vars PROVE WInv'
  OBVIOUS
<1>1. CASE UNCHANGED vars
  BY <1>1 DEF vars, WInv, TypeOK, StallDated, IdleDated,
              SoundBreaker, ClosedBelowThreshold, OutageShape
<1> QED
  BY <1>1, EngineKeeps, ScrapeKeeps, BreakerKeeps, TickKeeps DEF Next

LEMMA SpecWInv == Spec => []WInv
BY InitWInv, NextWInv, PTL DEF Spec

-----------------------------------------------------------------------------
\* Type correctness, for all windows, timeouts and breaker settings.
THEOREM TypeCorrect == Spec => []TypeOK
BY SpecWInv, PTL DEF WInv

\* A live signal always stands on a scrape that saw something waiting, and on a window,
\* short of one scrape timeout and counting the time since that scrape, in which the
\* engine made no token; or on a restarted counter found exactly where it was before
\* (observe, stall_seconds, wedge_suspected).
THEOREM SuspicionAlwaysDated == Spec => []SuspicionIsDated
<1>1. WInv => SuspicionIsDated
  <2> SUFFICES ASSUME WInv, Suspected
               PROVE  /\ sample.waiting
                      /\ \/ sample.idle + sample.ago >= Window - ScrapeTimeout
                         \/ sample.back
    BY DEF SuspicionIsDated
  <2>1. /\ detector.stall_ago >= Window /\ detector.stall_ago # Never
        /\ sample.waiting
        /\ detector.stall_ago <= sample.idle + sample.ago + ScrapeTimeout \/ sample.back
    BY DEF Suspected, WInv, StallDated
  <2>2. /\ Window \in Nat /\ ScrapeTimeout \in Nat
        /\ sample.idle \in Nat /\ sample.ago \in Nat /\ detector.stall_ago \in Nat
    BY <2>1, AgesTyped DEF WInv
  <2> QED
    BY <2>1, <2>2
<1> QED
  BY <1>1, SpecWInv, PTL

-----------------------------------------------------------------------------
\* record_probe closes a breaker only without a live signal and on the last good probe.
LEMMA RecloseNeedsAll ==
    ASSUME NEW b, SoundBreaker(b), ~Allows(b), NEW ok \in BOOLEAN, NEW suspected \in BOOLEAN,
           Allows(RecordProbe(b, ok, suspected))
    PROVE  ~suspected /\ b.good_probes + 1 = ProbesToClose
<1> DEFINE half == [b EXCEPT !.state       = "HALF_OPEN",
                             !.good_probes = @ + 1,
                             !.probed_ago  = 0]
<1>1. b \in Breakers /\ OutageShape(b)
  BY DEF SoundBreaker
<1>2. half.state = "HALF_OPEN" /\ half.good_probes = b.good_probes + 1
  BY <1>1 DEF Breakers
<1>3. Reopened(b).state = "OPEN"
  BY <1>1 DEF Reopened, Breakers
<1>4. ok /\ ~suspected
  BY <1>3 DEF RecordProbe, Allows
<1>5. half.good_probes >= ProbesToClose
  BY <1>2, <1>4 DEF RecordProbe, Allows
<1>6. b.good_probes \in Nat /\ b.good_probes < ProbesToClose
  <2>1. b.state = "OPEN" \/ b.state = "HALF_OPEN"
    BY <1>1 DEF Breakers, BreakerState, Allows
  <2> QED
    BY <1>1, <2>1, ProbesAssumption DEF OutageShape, Breakers
<1> QED
  BY <1>2, <1>4, <1>5, <1>6, ProbesAssumption

\* However the scrapes, the probes, the requests and the engine interleave, a replica is
\* put back only by the last good probe in a row, and by none that is answered under a
\* live wedge signal (record_probe, main.py:69-73).
THEOREM NeverReclosedUnderSignal == Spec => NoRecloseUnderSignal
<1>1. ASSUME WInv, [Next]_vars, ~Allows(breaker), Allows(breaker')
      PROVE  ~Suspected /\ breaker.good_probes + 1 = ProbesToClose
  <2>1. SoundBreaker(breaker)
    BY <1>1 DEF WInv
  <2>2. breaker' # breaker
    BY <1>1 DEF Allows
  <2>3. breaker' # Aged(breaker) /\ breaker' # RecordSuccess(breaker)
    BY <1>1, <2>1, AgedIsSound, RecordSuccessIsSound
  <2>4. PICK ok \in BOOLEAN : ProbeAnswered(ok)
    BY <1>1, <2>2, <2>3 DEF Next, vars, Works, Queue, Wedges, Restarts, ScrapeStarts,
       ScrapeAnswered, ScrapeFailed, Watch, ProbeStarts, RequestSucceeds, Tick
  <2>5. \A s \in BOOLEAN : Allows(RecordProbe(breaker, ok, s))
                             => ~s /\ breaker.good_probes + 1 = ProbesToClose
    BY <1>1, <2>1, RecloseNeedsAll
  <2>6. Suspected \in BOOLEAN /\ Allows(RecordProbe(breaker, ok, Suspected))
    BY <1>1, <2>4 DEF Suspected, ProbeAnswered
  <2> QED
    BY <2>5, <2>6, Zenon
<1>2. WInv /\ [Next]_vars =>
        [ ~Allows(breaker) /\ Allows(breaker')
          => ~Suspected /\ breaker.good_probes + 1 = ProbesToClose ]_vars
  BY <1>1
<1> QED
  BY <1>2, SpecWInv, PTL DEF Spec, NoRecloseUnderSignal
=============================================================================
