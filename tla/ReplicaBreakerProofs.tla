------------------------ MODULE ReplicaBreakerProofs ------------------------
(***************************************************************************)
(* Theorems about ReplicaBreaker, for every choice of its constants: the   *)
(* breaker stays sound under late outcomes and an awaited probe, late      *)
(* outcomes decide nothing about an outage, one request outcome trips      *)
(* nothing, a healthy replica is back within a bounded time, and the whole *)
(* implements ReplicaContract.                                             *)
(***************************************************************************)
EXTENDS ReplicaBreaker, BreakerProofs

\* The inductive invariant.  A breaker is sound between any two steps, and the one
\* the prober awaits an answer for is out of rotation, which is what record_probe
\* needs: its result is not sound on a closed breaker.
IInv == /\ TypeOK
        /\ SoundBreaker(breaker)
        /\ prober = "probing" => ~Allows(breaker)

-----------------------------------------------------------------------------
\* The bounds of the history variables are natural numbers.
LEMMA BoundsTyped == MinOutage \in Nat /\ BackWithin + 1 \in Nat
<1>1. (ProbesToClose - 1) * ProbeInterval \in Nat
  BY ProbesAssumption, TimeAssumption
<1>2. ProbeInterval + ProbeDelay \in Nat /\ FoundWithin \in Nat
  BY TimeAssumption, ScheduleAssumption DEF ProbeDelay, FoundWithin
<1>3. (ProbesToClose - 1) * (ProbeInterval + ProbeDelay) \in Nat
  BY <1>2, ProbesAssumption
<1> QED
  BY <1>1, <1>2, <1>3, TimeAssumption, ScheduleAssumption DEF MinOutage, BackWithin

\* Replacing the breaker keeps the types of the history.
LEMMA ReplaceTyped ==
    ASSUME TypeOK, NEW b, SoundBreaker(b), Replace(b)
    PROVE  /\ breaker' = b
           /\ breaker' \in Breakers
           /\ out_for' \in 0..MinOutage
           /\ sound_for' \in 0..(BackWithin + 1)
BY BoundsTyped DEF TypeOK, Replace, SoundBreaker

\* The initial state.
LEMMA InitIInv == Init => IInv
BY NewIsSound, BoundsTyped, ScheduleAssumption DEF Init, IInv, TypeOK, SoundBreaker

\* Every step preserves the invariant.
LEMMA NextIInv == IInv /\ [Next]_vars => IInv'
<1> SUFFICES ASSUME IInv, [Next]_vars
             PROVE  IInv'
  OBVIOUS
<1> USE DEF IInv
<1>1. ASSUME Send
      PROVE  IInv'
  BY <1>1, ScheduleAssumption DEF Send, TypeOK, SoundBreaker, ClosedBelowThreshold, OutageShape
<1>2. ASSUME Succeed
      PROVE  IInv'
  <2>1. SoundBreaker(RecordSuccess(breaker))
    BY RecordSuccessIsSound
  <2>2. /\ breaker' = RecordSuccess(breaker)
        /\ breaker' \in Breakers
        /\ out_for' \in 0..MinOutage
        /\ sound_for' \in 0..(BackWithin + 1)
    BY <1>2, <2>1, ReplaceTyped DEF Succeed
  <2>3. TypeOK'
    BY <1>2, <2>2, ScheduleAssumption DEF Succeed, TypeOK
  <2>4. (prober = "probing" => ~Allows(breaker))'
    BY <1>2, <2>2, RecordSuccessIsSound DEF Succeed
  <2> QED
    BY <2>1, <2>2, <2>3, <2>4
<1>3. ASSUME NEW kind \in RequestFailure, Fail(kind)
      PROVE  IInv'
  <2>1. kind \in FailureKind /\ 0 \in 0..MaxLag
    BY TimeAssumption DEF RequestFailure
  <2>2. /\ SoundBreaker(RecordFailure(breaker, kind, 0))
        /\ Allows(RecordFailure(breaker, kind, 0)) => Allows(breaker)
    BY <2>1, RecordFailureIsSound
  <2>3. /\ breaker' = RecordFailure(breaker, kind, 0)
        /\ breaker' \in Breakers
        /\ out_for' \in 0..MinOutage
        /\ sound_for' \in 0..(BackWithin + 1)
    BY <1>3, <2>2, ReplaceTyped DEF Fail
  <2>4. TypeOK'
    BY <1>3, <2>3, ScheduleAssumption DEF Fail, TypeOK, Lesser
  <2>5. (prober = "probing" => ~Allows(breaker))'
    BY <1>3, <2>2, <2>3 DEF Fail
  <2> QED
    BY <2>2, <2>3, <2>4, <2>5
<1>4. ASSUME NEW lag \in PassLag, NEW suspected \in BOOLEAN, Watch(suspected, lag)
      PROVE  IInv'
  <2>1. lag \in 0..MaxLag
    BY TimeAssumption DEF PassLag, Lesser, TypeOK
  <2>2. SoundBreaker(RecordWedge(breaker, suspected, lag))
    BY <2>1, RecordWedgeIsSound
  <2>3. /\ breaker' = RecordWedge(breaker, suspected, lag)
        /\ breaker' \in Breakers
        /\ out_for' \in 0..MinOutage
        /\ sound_for' \in 0..(BackWithin + 1)
    BY <1>4, <2>2, ReplaceTyped DEF Watch
  <2>4. TypeOK'
    BY <1>4, <2>3 DEF Watch, TypeOK
  <2> QED
    BY <1>4, <2>2, <2>3, <2>4 DEF Watch
<1>5. ASSUME NEW lag \in PassLag, PassBy(lag) \/ StartProbe(lag)
      PROVE  IInv'
  <2>1. breaker' = breaker /\ visit_ago' = 0 /\ prober' \in {"away", "probing"}
    BY <1>5 DEF PassBy, StartProbe, TypeOK
  <2>2. TypeOK'
    BY <1>5, <2>1 DEF PassBy, StartProbe, TypeOK
  <2>3. prober' = "probing" => ~Allows(breaker)
    BY <1>5 DEF PassBy, StartProbe, DueForProbe, Allows
  <2> QED
    BY <2>1, <2>2, <2>3
<1>6. ASSUME NEW ok \in BOOLEAN, NEW s \in BOOLEAN, FinishProbe(ok, s)
      PROVE  IInv'
  <2>1. SoundBreaker(RecordProbe(breaker, ok, s))
    BY <1>6, RecordProbeIsSound DEF FinishProbe
  <2>2. /\ breaker' = RecordProbe(breaker, ok, s)
        /\ breaker' \in Breakers
        /\ out_for' \in 0..MinOutage
        /\ sound_for' \in 0..(BackWithin + 1)
    BY <1>6, <2>1, ReplaceTyped DEF FinishProbe
  <2>3. TypeOK'
    BY <1>6, <2>2 DEF FinishProbe, TypeOK
  <2> QED
    BY <1>6, <2>1, <2>2, <2>3 DEF FinishProbe
<1>7. ASSUME Turn
      PROVE  IInv'
  BY <1>7, BoundsTyped DEF Turn, TypeOK, SoundBreaker, ClosedBelowThreshold, OutageShape
<1>8. ASSUME Tick
      PROVE  IInv'
  <2>1. SoundBreaker(Aged(breaker)) /\ (Allows(Aged(breaker)) <=> Allows(breaker))
    BY AgedIsSound
  <2>2. breaker' = Aged(breaker) /\ breaker' \in Breakers
    BY <1>8, <2>1 DEF Tick, SoundBreaker
  <2>3. TypeOK'
    BY <1>8, <2>2, BoundsTyped DEF Tick, TypeOK, Lesser
  <2> QED
    BY <1>8, <2>1, <2>2, <2>3 DEF Tick
<1>9. CASE UNCHANGED vars
  BY <1>9 DEF vars, TypeOK, SoundBreaker, ClosedBelowThreshold, OutageShape
<1> QED
  BY <1>1, <1>2, <1>3, <1>4, <1>5, <1>6, <1>7, <1>8, <1>9 DEF Next, Visit, Answer

\* IInv is an invariant of the specification.
LEMMA SpecIInv == Spec => []IInv
BY InitIInv, NextIInv, PTL DEF Spec

-----------------------------------------------------------------------------
\* Type correctness, for all durations, weights and bounds.
THEOREM TypeCorrect == Spec => []TypeOK
BY SpecIInv, PTL DEF IInv

\* Nothing late, concurrent or aged leaves a replica in rotation with a score that
\* should have tripped it (record_failure, threshold).
THEOREM ScoreStaysBelowThreshold == Spec => []ScoreBelowThreshold
<1>1. IInv => ScoreBelowThreshold
  BY DEF IInv, SoundBreaker, ScoreBelowThreshold
<1> QED
  BY <1>1, SpecIInv, PTL

\* The prober's verdict always lands on the outage it was asked about, whatever the
\* requests do to the breaker while the probe is awaited (main.py:69-73).
THEOREM ProbeAlwaysOwnsOutage == Spec => []ProbeOwnsOutage
<1>1. IInv => ProbeOwnsOutage
  BY DEF IInv, SoundBreaker, ProbeOwnsOutage
<1> QED
  BY <1>1, SpecIInv, PTL

-----------------------------------------------------------------------------
\* The outcome of an attempt sent before the trip moves the score and the wedge
\* count alone: the outage keeps its state, backoff, streak and timestamps.
THEOREM LateOutcomesAreInert == Spec => LateOutcomesInert
<1> DEFINE Inert == ~Allows(breaker) /\ inflight' < inflight
                    => breaker' = [breaker EXCEPT
                                     !.score = breaker'.score,
                                     !.wedge_confirmations = breaker'.wedge_confirmations]
<1>1. ASSUME IInv, [Next]_vars, ~Allows(breaker), inflight' < inflight
      PROVE  breaker' = [breaker EXCEPT !.score = breaker'.score,
                                        !.wedge_confirmations = breaker'.wedge_confirmations]
  <2>1. inflight \in Nat /\ breaker \in Breakers
    BY <1>1, ScheduleAssumption DEF IInv, TypeOK
  <2>2. Succeed \/ \E kind \in RequestFailure : Fail(kind)
    BY <1>1, <2>1 DEF Next, vars, Send, Visit, Watch, PassBy, StartProbe, Answer,
                      FinishProbe, Turn, Tick
  <2>3. CASE Succeed
    BY <2>1, <2>3 DEF Succeed, Replace, RecordSuccess, Breakers
  <2>4. ASSUME NEW kind \in RequestFailure, Fail(kind)
        PROVE  breaker' = [breaker EXCEPT !.score = breaker'.score,
                                          !.wedge_confirmations = breaker'.wedge_confirmations]
    <3>1. breaker' = [breaker EXCEPT !.score = @ + Weight[kind]]
      BY <1>1, <2>1, <2>4, LateFailureOnlyCharges DEF Fail, Replace, RequestFailure
    <3> QED
      BY <2>1, <3>1 DEF Breakers
  <2> QED
    BY <2>2, <2>3, <2>4
<1>2. IInv /\ [Next]_vars => [Inert]_vars
  BY <1>1
<1> QED
  BY <1>2, SpecIInv, PTL DEF Spec, LateOutcomesInert

-----------------------------------------------------------------------------
(***************************************************************************)
(* The refinement.  ReplicaContract asks that an outage has lasted         *)
(* MinOutage when it ends; the code never looks at that time, so the       *)
(* invariant derives it from the timestamps the code does look at.         *)
(***************************************************************************)
\* When the first probe can have begun, at the earliest.
FirstProbe == InitialOpen - MaxLag

\* The outage has lasted t, or longer than its history can tell.
OutAtLeast(t) == out_for = MinOutage \/ out_for >= t

OutageDated ==
    /\ breaker.state = "OPEN" =>
         /\ OutAtLeast(breaker.opened_ago - MaxLag)
         /\ prober = "probing" => OutAtLeast(FirstProbe)
    /\ breaker.state = "HALF_OPEN" =>
         /\ OutAtLeast(FirstProbe + (breaker.good_probes - 1) * ProbeInterval
                                  + breaker.probed_ago)
         /\ prober = "probing" => OutAtLeast(FirstProbe + breaker.good_probes * ProbeInterval)

RInv == IInv /\ OutageDated

\* What a good probe counts for.
LEMMA OneMoreProbe ==
    ASSUME NEW g \in Nat
    PROVE  (g - 1) * ProbeInterval + ProbeInterval = g * ProbeInterval
BY TimeAssumption

LEMMA InitDated == Init => OutageDated
BY DEF Init, OutageDated, NewBreaker

\* A request outcome, or the watch on a closed breaker, either trips it, with a
\* clock at most MaxLag old, or leaves what an outage is dated by alone.
LEMMA TripIsDated ==
    ASSUME RInv, NEW b, SoundBreaker(b), Replace(b), prober' = prober,
           \/ /\ b.state = breaker.state
              /\ b.opened_ago = breaker.opened_ago
              /\ b.good_probes = breaker.good_probes
              /\ b.probed_ago = breaker.probed_ago
           \/ /\ Allows(breaker)
              /\ prober # "probing"
              /\ b.state = "OPEN"
              /\ b.opened_ago \in 0..MaxLag
    PROVE  OutageDated'
<1>1. breaker' = b
  BY DEF Replace
<1>2. CASE /\ b.state = breaker.state
           /\ b.opened_ago = breaker.opened_ago
           /\ b.good_probes = breaker.good_probes
           /\ b.probed_ago = breaker.probed_ago
  <2>1. out_for' = out_for
    BY <1>2 DEF Replace, Allows
  <2> QED
    BY <1>1, <1>2, <2>1 DEF RInv, OutageDated, OutAtLeast
<1>3. CASE /\ Allows(breaker)
           /\ prober # "probing"
           /\ b.state = "OPEN"
           /\ b.opened_ago \in 0..MaxLag
  <2>1. out_for' = 0
    BY <1>3 DEF Replace, Allows
  <2> QED
    BY <1>1, <1>3, <2>1, TimeAssumption DEF OutageDated, OutAtLeast
<1> QED
  BY <1>2, <1>3

\* What the calls of a request or of the watch do to the fields an outage is dated by.
LEMMA SuccessKeepsDates ==
    ASSUME NEW b \in Breakers
    PROVE  /\ RecordSuccess(b).state = b.state
           /\ RecordSuccess(b).opened_ago = b.opened_ago
           /\ RecordSuccess(b).good_probes = b.good_probes
           /\ RecordSuccess(b).probed_ago = b.probed_ago
BY DEF RecordSuccess, Breakers

LEMMA FailureDatesTrip ==
    ASSUME NEW b \in Breakers, NEW kind \in FailureKind, NEW lag \in 0..MaxLag
    PROVE  \/ /\ RecordFailure(b, kind, lag).state = b.state
              /\ RecordFailure(b, kind, lag).opened_ago = b.opened_ago
              /\ RecordFailure(b, kind, lag).good_probes = b.good_probes
              /\ RecordFailure(b, kind, lag).probed_ago = b.probed_ago
           \/ /\ Allows(b)
              /\ RecordFailure(b, kind, lag).state = "OPEN"
              /\ RecordFailure(b, kind, lag).opened_ago \in 0..MaxLag
<1> DEFINE charged == [b EXCEPT !.score = @ + Weight[kind]]
<1>1. charged \in Breakers
  BY ChargedIsTyped, WeightAssumption
<1>2. CASE RecordFailure(b, kind, lag) = charged
  BY <1>2 DEF Breakers
<1>3. CASE RecordFailure(b, kind, lag) # charged
  <2>1. Allows(b) /\ RecordFailure(b, kind, lag) = Opened(charged, lag)
    BY <1>3 DEF RecordFailure
  <2>2. Opened(charged, lag).state = "OPEN" /\ Opened(charged, lag).opened_ago = lag
    BY <1>1 DEF Opened, Breakers
  <2> QED
    BY <2>1, <2>2
<1> QED
  BY <1>2, <1>3

LEMMA WedgeDatesTrip ==
    ASSUME NEW b \in Breakers, NEW suspected \in BOOLEAN, NEW lag \in 0..MaxLag
    PROVE  \/ /\ RecordWedge(b, suspected, lag).state = b.state
              /\ RecordWedge(b, suspected, lag).opened_ago = b.opened_ago
              /\ RecordWedge(b, suspected, lag).good_probes = b.good_probes
              /\ RecordWedge(b, suspected, lag).probed_ago = b.probed_ago
           \/ /\ Allows(b)
              /\ RecordWedge(b, suspected, lag).state = "OPEN"
              /\ RecordWedge(b, suspected, lag).opened_ago \in 0..MaxLag
<1> DEFINE n == IF suspected THEN b.wedge_confirmations + 1 ELSE 0
           seen == [b EXCEPT !.wedge_confirmations = n]
<1>1. n \in Nat
  BY DEF Breakers
<1>2. seen \in Breakers
  BY <1>1 DEF Breakers
<1>3. /\ seen.state = b.state
      /\ seen.opened_ago = b.opened_ago
      /\ seen.good_probes = b.good_probes
      /\ seen.probed_ago = b.probed_ago
  BY DEF Breakers
<1>4. \/ RecordWedge(b, suspected, lag) = seen
      \/ RecordWedge(b, suspected, lag) = RecordFailure(seen, "WEDGE", lag)
  BY DEF RecordWedge, Breakers
<1>5. "WEDGE" \in FailureKind
  BY DEF FailureKind
<1>6. CASE RecordWedge(b, suspected, lag) = seen
  BY <1>3, <1>6
<1>7. CASE RecordWedge(b, suspected, lag) = RecordFailure(seen, "WEDGE", lag)
  <2>1. Allows(seen) <=> Allows(b)
    BY <1>3 DEF Allows
  <2> HIDE DEF n, seen
  <2> QED
    BY <1>2, <1>3, <1>5, <1>7, <2>1, FailureDatesTrip
<1> QED
  BY <1>4, <1>6, <1>7

\* The prober begins a probe only once the timestamps say so.
LEMMA StartIsDated ==
    ASSUME RInv, NEW lag \in PassLag, StartProbe(lag)
    PROVE  OutageDated'
<1>1. lag \in Nat /\ lag <= MaxLag
  BY TimeAssumption DEF PassLag, Lesser, RInv, IInv, TypeOK
<1>2. breaker' = breaker /\ out_for' = out_for
  BY DEF StartProbe
<1>3. out_for \in Int /\ MinOutage \in Int
  BY BoundsTyped DEF RInv, IInv, TypeOK
<1>4. breaker \in Breakers
  BY DEF RInv, IInv, TypeOK
<1>5. ASSUME breaker.state = "OPEN"
      PROVE  OutAtLeast(FirstProbe)
  <2>1. breaker.opened_ago - lag >= breaker.open_sec /\ breaker.opened_ago # Never
    BY <1>5 DEF StartProbe, DueForProbe
  <2>2. breaker.opened_ago \in Int /\ breaker.open_sec \in Int /\ breaker.open_sec >= InitialOpen
    BY <1>4, <2>1, TimeAssumption DEF Breakers, OpenedCap
  <2>3. OutAtLeast(breaker.opened_ago - MaxLag)
    BY <1>5 DEF RInv, OutageDated
  <2> QED
    BY <1>1, <1>3, <2>1, <2>2, <2>3, TimeAssumption DEF OutAtLeast, FirstProbe
<1>6. ASSUME breaker.state = "HALF_OPEN"
      PROVE  OutAtLeast(FirstProbe + breaker.good_probes * ProbeInterval)
  <2>1. breaker.probed_ago # Never
    BY <1>6 DEF RInv, IInv, SoundBreaker, OutageShape
  <2>2. breaker.probed_ago - lag >= ProbeInterval
    BY <1>6, <2>1 DEF StartProbe, DueForProbe
  <2>3. breaker.probed_ago \in Int /\ breaker.good_probes \in Nat
    BY <1>4, <2>1, TimeAssumption DEF Breakers, ProbedCap
  <2>4. OutAtLeast(FirstProbe + (breaker.good_probes - 1) * ProbeInterval + breaker.probed_ago)
    BY <1>6 DEF RInv, OutageDated
  <2>5. (breaker.good_probes - 1) * ProbeInterval + ProbeInterval
          = breaker.good_probes * ProbeInterval
    BY <2>3, OneMoreProbe
  <2>6. /\ (breaker.good_probes - 1) * ProbeInterval \in Int
        /\ breaker.good_probes * ProbeInterval \in Int
        /\ FirstProbe \in Int
    BY <2>3, TimeAssumption DEF FirstProbe
  <2> HIDE DEF FirstProbe
  <2> QED
    BY <1>1, <1>3, <2>2, <2>3, <2>4, <2>5, <2>6, TimeAssumption DEF OutAtLeast
<1> QED
  BY <1>2, <1>5, <1>6 DEF RInv, OutageDated, OutAtLeast

\* The outage and its timestamps grow together.
LEMMA TickIsDated ==
    ASSUME RInv, Tick
    PROVE  OutageDated'
<1>1. breaker' = Aged(breaker) /\ prober' = prober /\ breaker \in Breakers
  BY DEF Tick, RInv, IInv, TypeOK
<1>2. /\ breaker'.state = breaker.state
      /\ breaker'.good_probes = breaker.good_probes
      /\ breaker'.opened_ago = Later(breaker.opened_ago, OpenedCap)
      /\ breaker'.probed_ago = Later(breaker.probed_ago, ProbedCap)
  BY <1>1 DEF Aged, Breakers
<1>3. /\ out_for \in Int /\ MinOutage \in Int /\ out_for <= MinOutage
      /\ OpenedCap \in Int /\ ProbedCap \in Int
      /\ FirstProbe \in Int /\ MaxLag \in Int /\ ProbeInterval \in Int
  BY BoundsTyped, TimeAssumption DEF RInv, IInv, TypeOK, OpenedCap, ProbedCap, FirstProbe
<1>4. ~Allows(breaker) => out_for' = Lesser(out_for + 1, MinOutage)
  BY DEF Tick
<1>5. ASSUME ~Allows(breaker), NEW t \in Int, NEW u \in Int, OutAtLeast(t), u <= t + 1
      PROVE  OutAtLeast(u)'
  BY <1>3, <1>4, <1>5 DEF OutAtLeast, Lesser
<1>6. ASSUME breaker.state = "OPEN"
      PROVE  /\ OutAtLeast(breaker.opened_ago - MaxLag)'
             /\ prober = "probing" => OutAtLeast(FirstProbe)'
  <2>1. ~Allows(breaker) /\ breaker.opened_ago # Never
    BY <1>6 DEF Allows, RInv, IInv, SoundBreaker, OutageShape
  <2>2. breaker.opened_ago \in Int
    BY <1>1, <2>1 DEF Breakers
  <2>3. breaker'.opened_ago \in Int /\ breaker'.opened_ago <= breaker.opened_ago + 1
    BY <1>2, <1>3, <2>1, <2>2 DEF Later, Lesser
  <2>4. OutAtLeast(breaker.opened_ago - MaxLag) /\ (prober = "probing" => OutAtLeast(FirstProbe))
    BY <1>6 DEF RInv, OutageDated
  <2>5. prober = "probing" => OutAtLeast(FirstProbe)'
    BY <1>3, <1>5, <2>1, <2>4
  <2>6. out_for' = MinOutage \/ out_for' >= breaker'.opened_ago - MaxLag
    BY <1>3, <1>4, <2>1, <2>2, <2>3, <2>4 DEF OutAtLeast, Lesser
  <2> QED
    BY <2>5, <2>6 DEF OutAtLeast
<1>7. ASSUME breaker.state = "HALF_OPEN"
      PROVE  /\ OutAtLeast(FirstProbe + (breaker.good_probes - 1) * ProbeInterval
                                      + breaker.probed_ago)'
             /\ prober = "probing" =>
                  OutAtLeast(FirstProbe + breaker.good_probes * ProbeInterval)'
  <2>1. ~Allows(breaker) /\ breaker.probed_ago # Never
    BY <1>7 DEF Allows, RInv, IInv, SoundBreaker, OutageShape
  <2>2. breaker.probed_ago \in Int /\ breaker.good_probes \in Nat
    BY <1>1, <2>1 DEF Breakers
  <2>3. breaker'.probed_ago \in Int /\ breaker'.probed_ago <= breaker.probed_ago + 1
    BY <1>2, <1>3, <2>1, <2>2 DEF Later, Lesser
  <2>4. /\ OutAtLeast(FirstProbe + (breaker.good_probes - 1) * ProbeInterval + breaker.probed_ago)
        /\ prober = "probing" => OutAtLeast(FirstProbe + breaker.good_probes * ProbeInterval)
    BY <1>7 DEF RInv, OutageDated
  <2>5. /\ (breaker.good_probes - 1) * ProbeInterval \in Int
        /\ breaker.good_probes * ProbeInterval \in Int
    BY <1>3, <2>2
  <2>6. \/ out_for' = MinOutage
        \/ out_for' >= FirstProbe + (breaker.good_probes - 1) * ProbeInterval + breaker'.probed_ago
    BY <1>3, <1>4, <2>1, <2>2, <2>3, <2>4, <2>5 DEF OutAtLeast, Lesser
  <2>7. prober = "probing" => \/ out_for' = MinOutage
                              \/ out_for' >= FirstProbe + breaker.good_probes * ProbeInterval
    BY <1>3, <1>4, <2>1, <2>4, <2>5 DEF OutAtLeast, Lesser
  <2> QED
    BY <1>2, <2>6, <2>7 DEF OutAtLeast, FirstProbe
<1> QED
  BY <1>1, <1>2, <1>6, <1>7 DEF OutageDated, OutAtLeast, FirstProbe

\* What an answered probe leaves.
LEMMA BadProbeDates ==
    ASSUME NEW b \in Breakers
    PROVE  Reopened(b).state = "OPEN" /\ Reopened(b).opened_ago = 0 /\ Reopened(b).good_probes = 0
BY DEF Reopened, Breakers

\* A probe answered in time to end the outage ends one that has lasted.
LEMMA FinishIsDated ==
    ASSUME RInv, NEW ok \in BOOLEAN, NEW s \in BOOLEAN, FinishProbe(ok, s)
    PROVE  /\ OutageDated'
           /\ Allows(breaker') => /\ out_for = MinOutage
                                  /\ breaker.good_probes + 1 >= ProbesToClose
<1> DEFINE half == [breaker EXCEPT !.state       = "HALF_OPEN",
                                   !.good_probes = @ + 1,
                                   !.probed_ago  = 0]
<1>1. /\ breaker' = RecordProbe(breaker, ok, s)
      /\ breaker \in Breakers
      /\ ~Allows(breaker)
      /\ prober' = "away"
      /\ Allows(breaker') \/ out_for' = out_for
  <2>1. /\ breaker' = RecordProbe(breaker, ok, s)
        /\ ~Allows(breaker)
        /\ prober' = "away"
        /\ Replace(RecordProbe(breaker, ok, s))
    BY DEF FinishProbe, Replace, RInv, IInv
  <2>2. Allows(breaker') \/ out_for' = out_for
    BY <2>1 DEF Replace, Allows
  <2> QED
    BY <2>1, <2>2 DEF RInv, IInv, TypeOK
<1>2. /\ out_for \in Int /\ MinOutage \in Int /\ out_for <= MinOutage /\ 0 <= out_for
      /\ FirstProbe \in Int /\ MaxLag \in Nat /\ ProbeInterval \in Int
      /\ breaker.good_probes \in Nat /\ ProbesToClose \in Int
  BY <1>1, BoundsTyped, TimeAssumption, ProbesAssumption
  DEF RInv, IInv, TypeOK, FirstProbe, Breakers
<1>3. breaker.good_probes * ProbeInterval \in Int
  BY <1>2
<1>4. OutAtLeast(FirstProbe + breaker.good_probes * ProbeInterval)
  <2>1. CASE breaker.state = "OPEN"
    <3>1. breaker.good_probes = 0 /\ OutAtLeast(FirstProbe)
      BY <2>1 DEF FinishProbe, RInv, IInv, SoundBreaker, OutageShape, OutageDated
    <3>2. FirstProbe + breaker.good_probes * ProbeInterval = FirstProbe
      BY <1>2, <3>1
    <3> QED
      BY <3>1, <3>2
  <2>2. CASE breaker.state = "HALF_OPEN"
    BY <2>2 DEF FinishProbe, RInv, OutageDated
  <2> QED
    BY <1>1, <2>1, <2>2 DEF Breakers, BreakerState, Allows
<1>5. CASE ~ok \/ s
  <2>1. breaker'.state = "OPEN" /\ breaker'.opened_ago = 0
    BY <1>1, <1>5, BadProbeDates DEF RecordProbe
  <2>2. out_for' = out_for /\ ~Allows(breaker')
    BY <1>1, <2>1 DEF Allows
  <2> QED
    BY <1>1, <1>2, <2>1, <2>2 DEF OutageDated, OutAtLeast
<1>6. CASE ok /\ ~s
  <2>1. /\ half.state = "HALF_OPEN"
        /\ half.good_probes = breaker.good_probes + 1
        /\ half.probed_ago = 0
    BY <1>1 DEF Breakers
  <2>2. CASE breaker.good_probes + 1 >= ProbesToClose
    <3>1. breaker' = Closed(half)
      BY <1>1, <1>6, <2>1, <2>2 DEF RecordProbe
    <3>2. breaker'.state = "CLOSED"
      BY <1>1, <3>1 DEF Closed, Breakers
    <3>3. breaker.good_probes + 1 = ProbesToClose
      <4>1. breaker.good_probes <= ProbesToClose - 1
        BY <1>1, <1>2, ProbesAssumption
        DEF RInv, IInv, SoundBreaker, OutageShape, Allows, Breakers, BreakerState
      <4> QED
        BY <1>2, <2>2, <4>1
    <3>4. FirstProbe + breaker.good_probes * ProbeInterval = MinOutage
      <4>1. ProbesToClose - 1 = breaker.good_probes
        BY <1>2, <3>3
      <4> QED
        BY <4>1 DEF FirstProbe, MinOutage
    <3>5. out_for = MinOutage
      BY <1>2, <1>4, <3>4 DEF OutAtLeast
    <3> QED
      BY <2>2, <3>2, <3>5 DEF OutageDated
  <2>3. CASE ~(breaker.good_probes + 1 >= ProbesToClose)
    <3>1. breaker' = half
      BY <1>1, <1>6, <2>1, <2>3 DEF RecordProbe
    <3>2. out_for' = out_for /\ ~Allows(breaker')
      BY <1>1, <2>1, <3>1 DEF Allows
    <3>3. (breaker'.good_probes - 1) * ProbeInterval = breaker.good_probes * ProbeInterval
      <4>1. breaker'.good_probes - 1 = breaker.good_probes
        BY <1>2, <2>1, <3>1
      <4> QED
        BY <4>1
    <3>4. \/ out_for' = MinOutage
          \/ out_for' >= FirstProbe + (breaker'.good_probes - 1) * ProbeInterval + breaker'.probed_ago
      BY <1>2, <1>3, <1>4, <2>1, <3>1, <3>2, <3>3 DEF OutAtLeast
    <3>5. breaker'.state = "HALF_OPEN"
      BY <2>1, <3>1
    <3> QED
      BY <1>1, <3>2, <3>4, <3>5 DEF OutageDated, OutAtLeast, FirstProbe
  <2> QED
    BY <2>2, <2>3
<1> QED
  BY <1>5, <1>6

\* The dates are kept by every step.
LEMMA NextDated == RInv /\ [Next]_vars => OutageDated'
<1> SUFFICES ASSUME RInv, [Next]_vars
             PROVE  OutageDated'
  OBVIOUS
<1>1. SoundBreaker(breaker) /\ breaker \in Breakers /\ (prober = "probing" => ~Allows(breaker))
  BY DEF RInv, IInv, TypeOK
<1>2. CASE Send \/ Turn \/ (\E lag \in PassLag : PassBy(lag)) \/ UNCHANGED vars
  <2>1. /\ breaker' = breaker
        /\ out_for' = out_for
        /\ prober' = prober
    BY <1>2 DEF Send, Turn, PassBy, vars
  <2> QED
    BY <2>1 DEF RInv, OutageDated, OutAtLeast
<1>3. CASE Succeed
  BY <1>1, <1>3, RecordSuccessIsSound, SuccessKeepsDates, TripIsDated DEF Succeed
<1>4. ASSUME NEW kind \in RequestFailure, Fail(kind)
      PROVE  OutageDated'
  <2>1. kind \in FailureKind /\ 0 \in 0..MaxLag
    BY TimeAssumption DEF RequestFailure
  <2>2. SoundBreaker(RecordFailure(breaker, kind, 0))
    BY <1>1, <2>1, RecordFailureIsSound
  <2> QED
    BY <1>1, <1>4, <2>1, <2>2, FailureDatesTrip, TripIsDated DEF Fail
<1>5. ASSUME NEW lag \in PassLag, NEW suspected \in BOOLEAN, Watch(suspected, lag)
      PROVE  OutageDated'
  <2>1. lag \in 0..MaxLag
    BY TimeAssumption DEF PassLag, Lesser, RInv, IInv, TypeOK
  <2>2. SoundBreaker(RecordWedge(breaker, suspected, lag))
    BY <1>1, <2>1, RecordWedgeIsSound
  <2> QED
    BY <1>1, <1>5, <2>1, <2>2, WedgeDatesTrip, TripIsDated DEF Watch
<1>6. ASSUME NEW lag \in PassLag, StartProbe(lag)
      PROVE  OutageDated'
  BY <1>6, StartIsDated
<1>7. ASSUME NEW ok \in BOOLEAN, NEW s \in BOOLEAN, FinishProbe(ok, s)
      PROVE  OutageDated'
  BY <1>7, FinishIsDated
<1>8. CASE Tick
  BY <1>8, TickIsDated
<1> QED
  BY <1>2, <1>3, <1>4, <1>5, <1>6, <1>7, <1>8 DEF Next, Visit, Answer

LEMMA SpecRInv == Spec => []RInv
<1>1. Init => RInv
  BY InitIInv, InitDated DEF RInv
<1>2. RInv /\ [Next]_vars => RInv'
  BY NextIInv, NextDated DEF RInv
<1> QED
  BY <1>1, <1>2, PTL DEF Spec

-----------------------------------------------------------------------------
\* A call that leaves rotation and streak alone is a stutter of the contract; one
\* that takes the replica out is its Trip.
LEMMA CallImplements ==
    ASSUME RInv, NEW b \in Breakers, Replace(b),
           \/ b.state = breaker.state /\ b.good_probes = breaker.good_probes
           \/ Allows(breaker) /\ b.state = "OPEN" /\ b.good_probes = 0
    PROVE  [Contract!Next]_(Contract!vars)
<1>1. breaker' = b
  BY DEF Replace
<1>2. CASE b.state = breaker.state /\ b.good_probes = breaker.good_probes
  BY <1>1, <1>2 DEF Replace, Allows, Contract!vars
<1>3. CASE Allows(breaker) /\ b.state = "OPEN" /\ b.good_probes = 0
  <2>1. Contract!Trip
    BY <1>1, <1>3 DEF Replace, Allows, Contract!Trip
  <2> QED
    BY <2>1 DEF Contract!Next
<1> QED
  BY <1>2, <1>3

\* The streak after a call of a request or of the watch.
LEMMA StreakAfterFailure ==
    ASSUME NEW b \in Breakers, NEW kind \in FailureKind, NEW lag \in 0..MaxLag
    PROVE  \/ /\ RecordFailure(b, kind, lag).state = b.state
              /\ RecordFailure(b, kind, lag).good_probes = b.good_probes
           \/ /\ Allows(b)
              /\ RecordFailure(b, kind, lag).state = "OPEN"
              /\ RecordFailure(b, kind, lag).good_probes = 0
<1> DEFINE charged == [b EXCEPT !.score = @ + Weight[kind]]
<1>1. charged \in Breakers
  BY ChargedIsTyped, WeightAssumption
<1>2. \/ RecordFailure(b, kind, lag) = charged
      \/ Allows(b) /\ RecordFailure(b, kind, lag) = Opened(charged, lag)
  BY DEF RecordFailure
<1>3. Opened(charged, lag).state = "OPEN" /\ Opened(charged, lag).good_probes = 0
  BY <1>1 DEF Opened, Breakers
<1>4. charged.state = b.state /\ charged.good_probes = b.good_probes
  BY DEF Breakers
<1> QED
  BY <1>2, <1>3, <1>4

LEMMA StreakAfterWedge ==
    ASSUME NEW b \in Breakers, NEW suspected \in BOOLEAN, NEW lag \in 0..MaxLag
    PROVE  \/ /\ RecordWedge(b, suspected, lag).state = b.state
              /\ RecordWedge(b, suspected, lag).good_probes = b.good_probes
           \/ /\ Allows(b)
              /\ RecordWedge(b, suspected, lag).state = "OPEN"
              /\ RecordWedge(b, suspected, lag).good_probes = 0
<1> DEFINE n == IF suspected THEN b.wedge_confirmations + 1 ELSE 0
           seen == [b EXCEPT !.wedge_confirmations = n]
<1>1. n \in Nat
  BY DEF Breakers
<1>2. seen \in Breakers
  BY <1>1 DEF Breakers
<1>3. seen.state = b.state /\ seen.good_probes = b.good_probes
  BY DEF Breakers
<1>4. \/ RecordWedge(b, suspected, lag) = seen
      \/ RecordWedge(b, suspected, lag) = RecordFailure(seen, "WEDGE", lag)
  BY DEF RecordWedge, Breakers
<1>5. "WEDGE" \in FailureKind /\ (Allows(seen) <=> Allows(b))
  BY <1>3 DEF FailureKind, Allows
<1> HIDE DEF n, seen
<1> QED
  BY <1>2, <1>3, <1>4, <1>5, StreakAfterFailure

\* An answered probe is the contract's bad probe, its good probe or its reclose.
LEMMA FinishImplements ==
    ASSUME RInv, NEW ok \in BOOLEAN, NEW s \in BOOLEAN, FinishProbe(ok, s)
    PROVE  Contract!Next
<1> DEFINE half == [breaker EXCEPT !.state       = "HALF_OPEN",
                                   !.good_probes = @ + 1,
                                   !.probed_ago  = 0]
<1>1. /\ breaker' = RecordProbe(breaker, ok, s)
      /\ Replace(RecordProbe(breaker, ok, s))
      /\ breaker \in Breakers
      /\ ~Allows(breaker)
  BY DEF FinishProbe, Replace, RInv, IInv, TypeOK
<1>2. out_for \in Int /\ MinOutage \in Int /\ breaker.good_probes \in Nat /\ ProbesToClose \in Int
  BY <1>1, BoundsTyped, ProbesAssumption DEF RInv, IInv, TypeOK, Breakers
<1>3. CASE ~ok \/ s
  <2>1. breaker' = Reopened(breaker)
    BY <1>1, <1>3 DEF RecordProbe
  <2>2. ~Allows(breaker') /\ breaker'.good_probes = 0
    BY <1>1, <2>1, BadProbeDates DEF Allows
  <2>3. out_for' = out_for
    BY <1>1, <2>2 DEF Replace, Allows
  <2>4. Contract!BadProbe
    BY <1>1, <2>2, <2>3 DEF Contract!BadProbe, Allows
  <2> QED
    BY <2>4 DEF Contract!Next
<1>4. CASE ok /\ ~s
  <2>1. /\ half.state = "HALF_OPEN"
        /\ half.good_probes = breaker.good_probes + 1
    BY <1>1 DEF Breakers
  <2>2. CASE breaker.good_probes + 1 >= ProbesToClose
    <3>1. breaker' = Closed(half)
      BY <1>1, <1>4, <2>1, <2>2 DEF RecordProbe
    <3>2. breaker'.state = "CLOSED" /\ breaker'.good_probes = 0
      BY <1>1, <3>1 DEF Closed, Breakers
    <3>3. Allows(breaker') /\ out_for' = 0
      BY <1>1, <3>2 DEF Replace, Allows
    <3>4. out_for >= MinOutage
      BY <1>2, <3>3, FinishIsDated
    <3>5. Contract!Reclose
      BY <1>1, <2>2, <3>2, <3>3, <3>4 DEF Contract!Reclose, Allows
    <3> QED
      BY <3>5 DEF Contract!Next
  <2>3. CASE ~(breaker.good_probes + 1 >= ProbesToClose)
    <3>1. breaker' = half
      BY <1>1, <1>4, <2>1, <2>3 DEF RecordProbe
    <3>2. ~Allows(breaker') /\ breaker'.good_probes = breaker.good_probes + 1
      BY <2>1, <3>1 DEF Allows
    <3>3. out_for' = out_for
      BY <1>1, <3>2 DEF Replace, Allows
    <3>4. breaker.good_probes + 1 < ProbesToClose
      BY <1>2, <2>3
    <3>5. Contract!GoodProbe
      BY <1>1, <3>2, <3>3, <3>4 DEF Contract!GoodProbe, Allows
    <3> QED
      BY <3>5 DEF Contract!Next
  <2> QED
    BY <2>2, <2>3
<1> QED
  BY <1>3, <1>4

\* Time passes in the contract exactly while the replica is out.
LEMMA TickImplements ==
    ASSUME RInv, Tick
    PROVE  [Contract!Next]_(Contract!vars)
<1>1. breaker' = Aged(breaker) /\ breaker \in Breakers
  BY DEF Tick, RInv, IInv, TypeOK
<1>2. breaker'.state = breaker.state /\ breaker'.good_probes = breaker.good_probes
  BY <1>1 DEF Aged, Breakers
<1>3. out_for \in Int /\ MinOutage \in Int /\ out_for <= MinOutage
  BY BoundsTyped DEF RInv, IInv, TypeOK
<1>4. CASE Allows(breaker)
  <2>1. out_for' = out_for
    BY <1>4 DEF Tick
  <2> QED
    BY <1>2, <2>1 DEF Contract!vars, Allows
<1>5. CASE ~Allows(breaker)
  <2>1. out_for' = IF out_for < MinOutage THEN out_for + 1 ELSE out_for
    BY <1>3, <1>5 DEF Tick, Lesser
  <2>2. Contract!Tick
    BY <1>2, <1>5, <2>1 DEF Contract!Tick, Allows
  <2> QED
    BY <2>2 DEF Contract!Next
<1> QED
  BY <1>4, <1>5

\* The breaker, its requests and its prober implement the contract of the router:
\* in rotation again only after ProbesToClose good probes in a row, and never
\* sooner than MinOutage after the trip (record_probe, due_for_probe, allows).
THEOREM BreakerImplementsContract == Spec => ImplementsContract
<1>1. Init => Contract!Init
  BY DEF Init, Contract!Init, NewBreaker, Allows
<1>2. RInv /\ [Next]_vars => [Contract!Next]_(Contract!vars)
  <2> SUFFICES ASSUME RInv, [Next]_vars
               PROVE  [Contract!Next]_(Contract!vars)
    OBVIOUS
  <2>1. SoundBreaker(breaker) /\ breaker \in Breakers
    BY DEF RInv, IInv, TypeOK
  <2>2. CASE \/ Send \/ Turn \/ UNCHANGED vars
             \/ \E lag \in PassLag : PassBy(lag) \/ StartProbe(lag)
    <3>1. breaker' = breaker /\ out_for' = out_for
      BY <2>2 DEF Send, Turn, PassBy, StartProbe, vars
    <3> QED
      BY <3>1 DEF Contract!vars
  <2>3. CASE Succeed
    <3>1. RecordSuccess(breaker) \in Breakers
      BY <2>1, RecordSuccessIsSound DEF SoundBreaker
    <3> QED
      BY <2>1, <2>3, <3>1, SuccessKeepsDates, CallImplements DEF Succeed
  <2>4. ASSUME NEW kind \in RequestFailure, Fail(kind)
        PROVE  [Contract!Next]_(Contract!vars)
    <3>1. kind \in FailureKind /\ 0 \in 0..MaxLag
      BY TimeAssumption DEF RequestFailure
    <3>2. RecordFailure(breaker, kind, 0) \in Breakers
      BY <2>1, <3>1, RecordFailureIsSound DEF SoundBreaker
    <3> QED
      BY <2>1, <2>4, <3>1, <3>2, StreakAfterFailure, CallImplements DEF Fail
  <2>5. ASSUME NEW lag \in PassLag, NEW suspected \in BOOLEAN, Watch(suspected, lag)
        PROVE  [Contract!Next]_(Contract!vars)
    <3>1. lag \in 0..MaxLag
      BY TimeAssumption DEF PassLag, Lesser, RInv, IInv, TypeOK
    <3>2. RecordWedge(breaker, suspected, lag) \in Breakers
      BY <2>1, <3>1, RecordWedgeIsSound DEF SoundBreaker
    <3> QED
      BY <2>1, <2>5, <3>1, <3>2, StreakAfterWedge, CallImplements DEF Watch
  <2>6. ASSUME NEW ok \in BOOLEAN, NEW s \in BOOLEAN, FinishProbe(ok, s)
        PROVE  [Contract!Next]_(Contract!vars)
    BY <2>6, FinishImplements
  <2>7. CASE Tick
    BY <2>7, TickImplements
  <2> QED
    BY <2>2, <2>3, <2>4, <2>5, <2>6, <2>7 DEF Next, Visit, Answer
<1> QED
  BY <1>1, <1>2, SpecRInv, PTL DEF Spec, ImplementsContract, Contract!Spec

-----------------------------------------------------------------------------
(***************************************************************************)
(* How many failures a trip takes.                                         *)
(***************************************************************************)
\* A replica in rotation that has had no strike has no score: what the outage before
\* was charged is gone, and failures without weight add nothing.
Unstruck == Allows(breaker) /\ strikes = 0 => breaker.score = 0

LEMMA NextUnstruck == IInv /\ Unstruck /\ [Next]_vars => Unstruck'
<1> SUFFICES ASSUME IInv, Unstruck, [Next]_vars, Allows(breaker'), strikes' = 0
             PROVE  breaker'.score = 0
  BY DEF Unstruck, Allows
<1>1. breaker \in Breakers /\ SoundBreaker(breaker) /\ strikes \in 0..2
  BY DEF IInv, TypeOK
<1>2. CASE Send \/ Turn \/ (\E lag \in PassLag : PassBy(lag) \/ StartProbe(lag)) \/ UNCHANGED vars
  <2>1. breaker' = breaker /\ strikes' = strikes
    BY <1>2 DEF Send, Turn, PassBy, StartProbe, vars
  <2> QED
    BY <2>1 DEF Unstruck, Allows
<1>3. CASE Succeed
  BY <1>1, <1>3 DEF Succeed, Replace, RecordSuccess, Breakers
<1>4. ASSUME NEW kind \in RequestFailure, Fail(kind)
      PROVE  breaker'.score = 0
  <2>1. kind \in FailureKind /\ 0 \in 0..MaxLag
    BY TimeAssumption DEF RequestFailure
  <2>2. Weight[kind] = 0 /\ strikes = 0
    BY <1>1, <1>4 DEF Fail, Lesser
  <2>3. breaker' = breaker
    BY <1>1, <1>4, <2>1, <2>2, FailureScores DEF Fail, Replace
  <2> QED
    BY <2>2, <2>3 DEF Unstruck
<1>5. ASSUME NEW lag \in PassLag, NEW suspected \in BOOLEAN, Watch(suspected, lag)
      PROVE  breaker'.score = 0
  <2>1. lag \in 0..MaxLag
    BY TimeAssumption DEF PassLag, Lesser, IInv, TypeOK
  <2>2. breaker' = RecordWedge(breaker, suspected, lag) /\ Allows(breaker) /\ strikes = 0
    BY <1>5 DEF Watch, Replace
  <2>3. breaker'.score = breaker.score
    BY <1>1, <2>1, <2>2, WedgeScores
  <2> QED
    BY <2>2, <2>3 DEF Unstruck
<1>6. ASSUME NEW ok \in BOOLEAN, NEW s \in BOOLEAN, FinishProbe(ok, s)
      PROVE  breaker'.score = 0
  <2>1. breaker' = RecordProbe(breaker, ok, s) /\ ~Allows(breaker)
    BY <1>6 DEF FinishProbe, Replace, IInv
  <2> QED
    BY <1>1, <2>1, RecloseScores
<1>7. CASE Tick
  <2>1. breaker' = Aged(breaker) /\ strikes' = strikes
    BY <1>7 DEF Tick
  <2>2. breaker'.state = breaker.state /\ breaker'.score = breaker.score
    BY <1>1, <2>1 DEF Aged, Breakers
  <2> QED
    BY <2>1, <2>2 DEF Unstruck, Allows
<1> QED
  BY <1>2, <1>3, <1>4, <1>5, <1>6, <1>7 DEF Next, Visit, Answer

\* A request outcome that takes a replica out, outside probation, is at least its second
\* failure since the last success or reclose: no weight but a wedge's reaches the
\* threshold from a score of zero (WEIGHTS, record_failure).
THEOREM TripsAreDeliberate == Spec => DeliberateTrip
<1>1. ASSUME IInv, Unstruck, [Next]_vars, Allows(breaker), ~Allows(breaker'),
             inflight' < inflight, ~OnProbation(breaker, 0)
      PROVE  strikes' = 2
  <2>1. inflight \in Nat /\ breaker \in Breakers /\ strikes \in 0..2
    BY <1>1, ScheduleAssumption DEF IInv, TypeOK
  <2>2. Succeed \/ \E kind \in RequestFailure : Fail(kind)
    BY <1>1, <2>1 DEF Next, vars, Send, Visit, Watch, PassBy, StartProbe, Answer,
                      FinishProbe, Turn, Tick
  <2>3. ~Succeed
    BY <1>1, <2>1 DEF Succeed, Replace, RecordSuccess, Allows, Breakers
  <2>4. PICK kind \in RequestFailure : Fail(kind)
    BY <2>2, <2>3
  <2>5. kind \in FailureKind /\ 0 \in 0..MaxLag /\ Weight[kind] \in Nat /\ TripScore \in Nat
    BY TimeAssumption, WeightAssumption, TripAssumption DEF RequestFailure
  <2>6. Weight[kind] # 0 /\ breaker.score + Weight[kind] >= Threshold(breaker, 0)
    BY <1>1, <2>1, <2>4, <2>5, FailureScores DEF Fail, Replace
  <2>7. Threshold(breaker, 0) = TripScore
    BY <1>1 DEF Threshold
  <2>8. strikes # 0
    BY <1>1, <2>5, <2>6, <2>7, OneFailureAssumption DEF Unstruck
  <2> QED
    BY <2>1, <2>4, <2>6, <2>8 DEF Fail, Lesser
<1>2. Init => Unstruck
  BY DEF Init, Unstruck, NewBreaker
<1>3. Spec => [](IInv /\ Unstruck)
  BY <1>2, InitIInv, NextIInv, NextUnstruck, PTL DEF Spec
<1>4. IInv /\ Unstruck /\ [Next]_vars =>
        [ /\ Allows(breaker) /\ ~Allows(breaker')
          /\ inflight' < inflight
          /\ ~OnProbation(breaker, 0)
          => strikes' = 2 ]_vars
  BY <1>1 DEF Allows
<1> QED
  BY <1>3, <1>4, PTL DEF Spec, DeliberateTrip

-----------------------------------------------------------------------------
(***************************************************************************)
(* How long a healthy replica can stay out.  The code has no such bound;   *)
(* it follows from the timestamps, from when the prober's visits fall and  *)
(* from the streak.  In each state the outage so far is bounded by what    *)
(* came before the state was entered and by the time since: the timestamp  *)
(* while it can still be read, the prober's own delay once it is at its    *)
(* cap, that is, once a visit at any lag finds the replica due.            *)
(***************************************************************************)
\* The time since the state was entered, at the most.
Since(at, ago, cap, visited) ==
    IF at = "probing" THEN cap + VisitPeriod + visited
    ELSE IF ago = cap THEN cap + visited ELSE ago

\* How long the replica was healthy and out before its g-th good probe, at the most.
FoundAfter(g) == FoundWithin + (g - 1) * (ProbeInterval + ProbeDelay)

SoundBounded ==
    /\ visit_ago <= IF prober = "probing" THEN ProbeTimeout ELSE VisitPeriod
    /\ ~healthy => sound_for = 0
    /\ breaker.state = "OPEN" =>
         sound_for <= ProbeTimeout + Since(prober, breaker.opened_ago, OpenedCap, visit_ago)
    /\ breaker.state = "HALF_OPEN" =>
         sound_for <= FoundAfter(breaker.good_probes)
                      + Since(prober, breaker.probed_ago, ProbedCap, visit_ago)

TInv == IInv /\ SoundBounded

\* The time since a state was entered grows by a unit with every unit that passes.
LEMMA SinceBounds ==
    ASSUME NEW at \in {"away", "probing"}, NEW cap \in Nat, NEW ago \in 0..cap,
           NEW visited \in Nat
    PROVE  /\ Since(at, ago, cap, visited) \in Nat
           /\ Since(at, ago, cap, visited) + 1
                <= Since(at, Lesser(ago + 1, cap), cap, visited + 1)
<1>1. VisitPeriod \in Nat /\ ProbeTimeout \in Nat
  BY ScheduleAssumption
<1>2. CASE at = "away"
  BY <1>1, <1>2 DEF Since, Lesser
<1>3. CASE at = "probing"
  BY <1>1, <1>3 DEF Since, Lesser
<1> QED
  BY <1>2, <1>3

\* One more good probe costs the interval and the prober's delays, and there are fewer
\* of them before the last than ProbesToClose.
LEMMA FoundAfterGrows ==
    ASSUME NEW g \in Nat
    PROVE  /\ FoundAfter(1) = FoundWithin /\ FoundWithin \in Nat /\ ProbeDelay \in Nat
           /\ FoundAfter(g + 1) \in Nat
           /\ g # 0 => /\ FoundAfter(g) \in Nat
                       /\ FoundAfter(g) + ProbeInterval + ProbeDelay = FoundAfter(g + 1)
           /\ g < ProbesToClose => FoundAfter(g + 1) <= BackWithin
<1> DEFINE cost == ProbeInterval + ProbeDelay
<1>1. ProbeDelay \in Nat /\ FoundWithin \in Nat /\ cost \in Nat
  BY TimeAssumption, ScheduleAssumption DEF ProbeDelay, FoundWithin
<1>2. g * cost \in Nat /\ FoundAfter(g + 1) = FoundWithin + g * cost
  <2>1. (g + 1) - 1 = g
    OBVIOUS
  <2> HIDE DEF cost
  <2>2. g * cost \in Nat
    BY <1>1
  <2> QED
    BY <2>1, <2>2 DEF FoundAfter, cost
<1>3. FoundAfter(1) = FoundWithin
  <2>1. (1 - 1) * cost = 0
    BY <1>1
  <2> QED
    BY <1>1, <2>1 DEF FoundAfter
<1>4. ASSUME g # 0
      PROVE  /\ FoundAfter(g) \in Nat
             /\ FoundAfter(g) + ProbeInterval + ProbeDelay = FoundAfter(g + 1)
  <2>1. g - 1 \in Nat
    BY <1>4
  <2>2. FoundAfter(g) = FoundWithin + (g - 1) * cost
    BY DEF FoundAfter
  <2> HIDE DEF cost
  <2>3. (g - 1) * cost \in Nat /\ (g - 1) * cost + cost = g * cost
    BY <1>1, <2>1
  <2>4. FoundAfter(g) \in Nat /\ FoundAfter(g) + cost = FoundAfter(g + 1)
    BY <1>1, <1>2, <2>2, <2>3
  <2>5. FoundAfter(g) + ProbeInterval + ProbeDelay = FoundAfter(g) + cost
    BY <1>1, <2>4, TimeAssumption DEF cost
  <2> QED
    BY <2>4, <2>5
<1>5. ASSUME g < ProbesToClose PROVE FoundAfter(g + 1) <= BackWithin
  <2>1. PICK d \in Nat : ProbesToClose - 1 = g + d
    <3>1. ProbesToClose - 1 - g \in Nat /\ ProbesToClose - 1 = g + (ProbesToClose - 1 - g)
      BY <1>5, ProbesAssumption
    <3> QED
      BY <3>1
  <2>2. BackWithin = FoundWithin + (g + d) * cost
    BY <2>1 DEF BackWithin
  <2> HIDE DEF cost
  <2>3. (g + d) * cost = g * cost + d * cost /\ d * cost \in Nat
    BY <1>1
  <2> QED
    BY <1>1, <1>2, <2>2, <2>3
<1>6. FoundAfter(g + 1) \in Nat
  BY <1>1, <1>2
<1> QED
  BY <1>1, <1>3, <1>4, <1>5, <1>6

\* What the steps below need of the invariant.
LEMMA BoundFacts ==
    ASSUME TInv
    PROVE  /\ breaker \in Breakers /\ SoundBreaker(breaker)
           /\ sound_for \in Nat /\ visit_ago \in Nat /\ prober \in {"away", "probing"}
           /\ OpenedCap \in Nat /\ ProbedCap \in Nat /\ MaxLag \in 0..OpenedCap
           /\ VisitPeriod \in Nat /\ ProbeTimeout \in Nat
           /\ breaker.opened_ago # Never => breaker.opened_ago \in 0..OpenedCap
           /\ breaker.state = "OPEN" => breaker.opened_ago \in 0..OpenedCap
           /\ breaker.state = "HALF_OPEN" => /\ breaker.probed_ago \in 0..ProbedCap
                                             /\ breaker.good_probes \in Nat \ {0}
                                             /\ breaker.good_probes < ProbesToClose
                                             /\ FoundAfter(breaker.good_probes) \in Nat
<1>1. breaker \in Breakers /\ SoundBreaker(breaker) /\ OutageShape(breaker)
  BY DEF TInv, IInv, TypeOK, SoundBreaker
<1>2. /\ sound_for \in Nat /\ visit_ago \in Nat /\ prober \in {"away", "probing"}
      /\ OpenedCap \in Nat /\ ProbedCap \in Nat /\ MaxLag \in 0..OpenedCap
      /\ VisitPeriod \in Nat /\ ProbeTimeout \in Nat
  BY BoundsTyped, TimeAssumption, ScheduleAssumption
  DEF TInv, IInv, TypeOK, OpenedCap, ProbedCap
<1>3. breaker.opened_ago # Never => breaker.opened_ago \in 0..OpenedCap
  BY <1>1 DEF Breakers
<1>4. breaker.state = "OPEN" => breaker.opened_ago # Never
  BY <1>1 DEF OutageShape, Allows
<1>5. ASSUME breaker.state = "HALF_OPEN"
      PROVE  /\ breaker.probed_ago \in 0..ProbedCap
             /\ breaker.good_probes \in Nat \ {0}
             /\ breaker.good_probes < ProbesToClose
             /\ FoundAfter(breaker.good_probes) \in Nat
  <2>1. breaker.probed_ago # Never /\ breaker.good_probes \in 1..(ProbesToClose - 1)
    BY <1>1, <1>5 DEF OutageShape
  <2>2. breaker.probed_ago \in 0..ProbedCap
    BY <1>1, <2>1 DEF Breakers
  <2>3. breaker.good_probes \in Nat \ {0} /\ breaker.good_probes < ProbesToClose
    BY <2>1, ProbesAssumption
  <2> QED
    BY <2>2, <2>3, FoundAfterGrows
<1> QED
  BY <1>1, <1>2, <1>3, <1>4, <1>5

LEMMA InitBounded == Init => SoundBounded
BY ScheduleAssumption DEF Init, SoundBounded, NewBreaker

\* A call of a request, or the watch on a closed breaker, ends no wait: it trips the
\* breaker, and the history starts, or leaves the timestamps alone.
LEMMA CallBounded ==
    ASSUME TInv, NEW b, Replace(b), prober' = prober, healthy' = healthy,
           \/ visit_ago' = visit_ago
           \/ Allows(breaker) /\ prober = "away" /\ visit_ago' = 0,
           \/ /\ b.state = breaker.state
              /\ b.opened_ago = breaker.opened_ago
              /\ b.good_probes = breaker.good_probes
              /\ b.probed_ago = breaker.probed_ago
           \/ /\ Allows(breaker)
              /\ prober # "probing"
              /\ b.state = "OPEN"
              /\ b.opened_ago \in 0..MaxLag
    PROVE  SoundBounded'
<1>1. breaker' = b /\ (sound_for' = sound_for \/ sound_for' = 0)
  BY DEF Replace
<1>2. /\ visit_ago' <= IF prober' = "probing" THEN ProbeTimeout ELSE VisitPeriod
      /\ ~healthy' => sound_for' = 0
  BY <1>1, BoundFacts DEF TInv, SoundBounded
<1>3. CASE /\ b.state = breaker.state
           /\ b.opened_ago = breaker.opened_ago
           /\ b.good_probes = breaker.good_probes
           /\ b.probed_ago = breaker.probed_ago
  <2>1. sound_for' = sound_for
    BY <1>3 DEF Replace, Allows
  <2>2. CASE Allows(breaker)
    <3>1. breaker'.state = "CLOSED"
      BY <1>1, <1>3, <2>2 DEF Allows
    <3> QED
      BY <1>2, <3>1 DEF SoundBounded
  <2>3. CASE ~Allows(breaker)
    <3>1. visit_ago' = visit_ago
      BY <2>3
    <3> QED
      BY <1>1, <1>2, <1>3, <2>1, <3>1 DEF TInv, SoundBounded, FoundAfter, Since
  <2> QED
    BY <2>2, <2>3
<1>4. CASE /\ Allows(breaker)
           /\ prober # "probing"
           /\ b.state = "OPEN"
           /\ b.opened_ago \in 0..MaxLag
  <2>1. sound_for' = 0
    BY <1>4 DEF Replace, Allows
  <2>2. b.opened_ago \in 0..OpenedCap /\ visit_ago' \in Nat
    BY <1>4, BoundFacts
  <2>3. Since(prober, b.opened_ago, OpenedCap, visit_ago') \in Nat
    BY <2>2, BoundFacts, SinceBounds
  <2>4. 0 <= ProbeTimeout + Since(prober, b.opened_ago, OpenedCap, visit_ago')
    BY <2>3, BoundFacts
  <2> QED
    BY <1>1, <1>2, <1>4, <2>1, <2>4 DEF SoundBounded, Since
<1> QED
  BY <1>3, <1>4

\* What a visit does to a bound on the outage: it starts a probe, or passes by.
LEMMA SinceVisit ==
    ASSUME NEW cap \in Nat, NEW ago \in 0..cap, NEW visited \in 0..VisitPeriod,
           NEW out \in Nat, NEW before \in Nat,
           out <= before + Since("away", ago, cap, visited)
    PROVE  /\ ago # cap => out <= before + Since("away", ago, cap, 0)
           /\ out <= before + Since("probing", ago, cap, 0)
<1>1. VisitPeriod \in Nat /\ visited \in Nat /\ visited <= VisitPeriod
  BY ScheduleAssumption
<1> QED
  BY <1>1 DEF Since

\* A visit that finds nothing due proves that the timestamp is not at its cap yet; one
\* that starts a probe came within VisitPeriod.
LEMMA VisitBounded ==
    ASSUME TInv, NEW lag \in PassLag, PassBy(lag) \/ StartProbe(lag)
    PROVE  SoundBounded'
<1>1. /\ breaker' = breaker /\ sound_for' = sound_for /\ healthy' = healthy
      /\ visit_ago' = 0 /\ prober = "away"
      /\ (prober' = "away" /\ PassBy(lag)) \/ prober' = "probing"
  BY DEF PassBy, StartProbe
<1>2. /\ visit_ago' <= IF prober' = "probing" THEN ProbeTimeout ELSE VisitPeriod
      /\ ~healthy' => sound_for' = 0
      /\ visit_ago \in 0..VisitPeriod
  BY <1>1, BoundFacts DEF TInv, SoundBounded
<1>3. lag \in 0..MaxLag
  BY TimeAssumption DEF PassLag, Lesser, TInv, IInv, TypeOK
<1>4. ASSUME breaker.state = "OPEN"
      PROVE  sound_for <= ProbeTimeout + Since(prober', breaker.opened_ago, OpenedCap, 0)
  <2>1. /\ sound_for <= ProbeTimeout + Since("away", breaker.opened_ago, OpenedCap, visit_ago)
        /\ breaker.opened_ago \in 0..OpenedCap
    BY <1>1, <1>4, BoundFacts DEF TInv, SoundBounded
  <2>2. /\ breaker.opened_ago # OpenedCap
           => sound_for <= ProbeTimeout + Since("away", breaker.opened_ago, OpenedCap, 0)
        /\ sound_for <= ProbeTimeout + Since("probing", breaker.opened_ago, OpenedCap, 0)
    BY <1>2, <2>1, BoundFacts, SinceVisit
  <2>3. ASSUME PassBy(lag) PROVE breaker.opened_ago # OpenedCap
    <3>1. breaker.opened_ago # Never
      BY <1>4 DEF TInv, IInv, SoundBreaker, OutageShape, Allows
    <3>2. ~(breaker.opened_ago - lag >= breaker.open_sec)
      BY <1>4, <2>3, <3>1 DEF PassBy, DueForProbe
    <3>3. breaker.open_sec \in InitialOpen..MaxOpen
      BY BoundFacts DEF Breakers
    <3> QED
      BY <1>3, <3>2, <3>3, TimeAssumption DEF OpenedCap
  <2> QED
    BY <1>1, <2>2, <2>3
<1>5. ASSUME breaker.state = "HALF_OPEN"
      PROVE  sound_for <= FoundAfter(breaker.good_probes)
                          + Since(prober', breaker.probed_ago, ProbedCap, 0)
  <2> DEFINE before == FoundAfter(breaker.good_probes)
  <2>1. /\ sound_for <= before + Since("away", breaker.probed_ago, ProbedCap, visit_ago)
        /\ breaker.probed_ago \in 0..ProbedCap
        /\ before \in Nat
    BY <1>1, <1>5, BoundFacts DEF TInv, SoundBounded
  <2>2. /\ breaker.probed_ago # ProbedCap
           => sound_for <= before + Since("away", breaker.probed_ago, ProbedCap, 0)
        /\ sound_for <= before + Since("probing", breaker.probed_ago, ProbedCap, 0)
    <3> HIDE DEF before
    <3> QED
      BY <1>2, <2>1, BoundFacts, SinceVisit
  <2>3. ASSUME PassBy(lag) PROVE breaker.probed_ago # ProbedCap
    <3>1. breaker.probed_ago # Never
      BY <1>5 DEF TInv, IInv, SoundBreaker, OutageShape
    <3>2. ~(breaker.probed_ago - lag >= ProbeInterval)
      BY <1>5, <2>3, <3>1 DEF PassBy, DueForProbe
    <3> QED
      BY <1>3, <3>2, TimeAssumption DEF ProbedCap
  <2> QED
    BY <1>1, <2>2, <2>3
<1> QED
  BY <1>1, <1>2, <1>4, <1>5 DEF SoundBounded, FoundAfter, Since

\* A unit of time lengthens the outage and the time since its state was entered alike.
LEMMA TickBounded ==
    ASSUME TInv, Tick
    PROVE  SoundBounded'
<1>1. /\ breaker' = Aged(breaker) /\ prober' = prober /\ healthy' = healthy
      /\ visit_ago' = visit_ago + 1
      /\ visit_ago < IF prober = "probing" THEN ProbeTimeout ELSE VisitPeriod
  BY DEF Tick
<1>2. /\ breaker'.state = breaker.state
      /\ breaker'.good_probes = breaker.good_probes
      /\ breaker'.opened_ago = Later(breaker.opened_ago, OpenedCap)
      /\ breaker'.probed_ago = Later(breaker.probed_ago, ProbedCap)
  BY <1>1, BoundFacts DEF Aged, Breakers
<1>3. sound_for' \in Nat /\ sound_for' <= sound_for + 1 /\ (~healthy => sound_for' = sound_for)
  BY BoundsTyped, BoundFacts DEF Tick, Lesser
<1>4. /\ visit_ago' <= IF prober' = "probing" THEN ProbeTimeout ELSE VisitPeriod
      /\ ~healthy' => sound_for' = 0
  BY <1>1, <1>3, BoundFacts DEF TInv, SoundBounded
<1>5. ASSUME breaker.state = "OPEN"
      PROVE  sound_for' <= ProbeTimeout
                           + Since(prober, breaker'.opened_ago, OpenedCap, visit_ago + 1)
  <2>1. /\ breaker.opened_ago \in 0..OpenedCap
        /\ breaker'.opened_ago = Lesser(breaker.opened_ago + 1, OpenedCap)
    BY <1>2, <1>5, BoundFacts, NeverAssumption DEF Later
  <2>2. /\ Since(prober, breaker.opened_ago, OpenedCap, visit_ago) \in Nat
        /\ Since(prober, breaker.opened_ago, OpenedCap, visit_ago) + 1
             <= Since(prober, breaker'.opened_ago, OpenedCap, visit_ago + 1)
    BY <2>1, BoundFacts, SinceBounds
  <2>3. Since(prober, breaker'.opened_ago, OpenedCap, visit_ago + 1) \in Int
    BY <2>1, BoundFacts DEF Since, Lesser
  <2>4. sound_for <= ProbeTimeout + Since(prober, breaker.opened_ago, OpenedCap, visit_ago)
    BY <1>5 DEF TInv, SoundBounded
  <2> QED
    BY <1>3, <2>2, <2>3, <2>4, BoundFacts
<1>6. ASSUME breaker.state = "HALF_OPEN"
      PROVE  sound_for' <= FoundAfter(breaker.good_probes)
                           + Since(prober, breaker'.probed_ago, ProbedCap, visit_ago + 1)
  <2>1. /\ breaker.probed_ago \in 0..ProbedCap
        /\ breaker'.probed_ago = Lesser(breaker.probed_ago + 1, ProbedCap)
        /\ FoundAfter(breaker.good_probes) \in Nat
    BY <1>2, <1>6, BoundFacts, NeverAssumption DEF Later
  <2>2. /\ Since(prober, breaker.probed_ago, ProbedCap, visit_ago) \in Nat
        /\ Since(prober, breaker.probed_ago, ProbedCap, visit_ago) + 1
             <= Since(prober, breaker'.probed_ago, ProbedCap, visit_ago + 1)
    BY <2>1, BoundFacts, SinceBounds
  <2>3. Since(prober, breaker'.probed_ago, ProbedCap, visit_ago + 1) \in Int
    BY <2>1, BoundFacts DEF Since, Lesser
  <2>4. sound_for <= FoundAfter(breaker.good_probes)
                     + Since(prober, breaker.probed_ago, ProbedCap, visit_ago)
    BY <1>6 DEF TInv, SoundBounded
  <2> QED
    BY <1>3, <2>1, <2>2, <2>3, <2>4, BoundFacts
<1> QED
  BY <1>1, <1>2, <1>4, <1>5, <1>6 DEF SoundBounded, FoundAfter, Since

\* A bound on the time since a state was entered, in either state of the prober.
LEMMA SinceWithin ==
    ASSUME TInv, NEW cap \in Nat, NEW ago \in 0..cap
    PROVE  /\ Since(prober, ago, cap, visit_ago) \in Nat
           /\ Since(prober, ago, cap, visit_ago) <= cap + VisitPeriod + ProbeTimeout
<1>1. /\ visit_ago \in Nat /\ VisitPeriod \in Nat /\ ProbeTimeout \in Nat
      /\ prober = "away" \/ prober = "probing"
  BY BoundFacts
<1>2. CASE prober = "away"
  <2>1. visit_ago <= VisitPeriod
    BY <1>2 DEF TInv, SoundBounded
  <2> QED
    BY <1>1, <1>2, <2>1 DEF Since
<1>3. CASE prober = "probing"
  <2>1. visit_ago <= ProbeTimeout
    BY <1>3 DEF TInv, SoundBounded
  <2> QED
    BY <1>1, <1>3, <2>1 DEF Since
<1> QED
  BY <1>1, <1>2, <1>3

\* What a probe of a healthy replica ends, at the latest.
LEMMA FinishWithin ==
    ASSUME TInv, prober = "probing"
    PROVE  /\ ~Allows(breaker) /\ visit_ago <= ProbeTimeout
           /\ sound_for <= FoundAfter(breaker.good_probes + 1)
<1>1. ~Allows(breaker) /\ visit_ago <= ProbeTimeout
  BY DEF TInv, IInv, SoundBounded
<1>2. CASE breaker.state = "OPEN"
  <2> DEFINE since == Since(prober, breaker.opened_ago, OpenedCap, visit_ago)
  <2>1. breaker.opened_ago \in 0..OpenedCap /\ sound_for <= ProbeTimeout + since
    BY <1>2, BoundFacts DEF TInv, SoundBounded
  <2>2. since \in Nat /\ since <= OpenedCap + VisitPeriod + ProbeTimeout
    BY <2>1, BoundFacts, SinceWithin
  <2>3. FoundWithin = ProbeTimeout + OpenedCap + VisitPeriod + ProbeTimeout
    BY TimeAssumption, ScheduleAssumption DEF FoundWithin, ProbeDelay, OpenedCap
  <2>4. sound_for <= FoundWithin
    <3> HIDE DEF since
    <3> QED
      BY <2>1, <2>2, <2>3, BoundFacts
  <2>5. breaker.good_probes + 1 = 1
    BY <1>2 DEF TInv, IInv, SoundBreaker, OutageShape
  <2>6. FoundAfter(1) = FoundWithin
    BY FoundAfterGrows
  <2> QED
    BY <1>1, <2>4, <2>5, <2>6
<1>3. CASE breaker.state = "HALF_OPEN"
  <2> DEFINE since == Since(prober, breaker.probed_ago, ProbedCap, visit_ago)
             g == breaker.good_probes
  <2>1. breaker.probed_ago \in 0..ProbedCap /\ sound_for <= FoundAfter(g) + since
    BY <1>3, BoundFacts DEF TInv, SoundBounded
  <2>2. since \in Nat /\ since <= ProbedCap + VisitPeriod + ProbeTimeout
    BY <2>1, BoundFacts, SinceWithin
  <2>3. ProbeInterval + ProbeDelay = ProbedCap + VisitPeriod + ProbeTimeout
    BY TimeAssumption, ScheduleAssumption DEF ProbeDelay, ProbedCap
  <2>4. g \in Nat \ {0}
    BY <1>3, BoundFacts
  <2>5. /\ FoundAfter(g) \in Nat
        /\ FoundAfter(g) + ProbeInterval + ProbeDelay = FoundAfter(g + 1)
    BY <2>4, FoundAfterGrows
  <2>6. ProbeInterval \in Nat /\ ProbeDelay \in Nat
    BY TimeAssumption, ScheduleAssumption DEF ProbeDelay
  <2> HIDE DEF since, g
  <2>7. sound_for <= FoundAfter(g + 1)
    BY <2>1, <2>2, <2>3, <2>5, <2>6, BoundFacts
  <2> QED
    BY <1>1, <2>7 DEF g
<1> QED
  BY <1>1, <1>2, <1>3, BoundFacts DEF Breakers, BreakerState, Allows

\* A probe that fails a healthy replica began before it recovered; one that succeeds
\* came after the wait of its state, and after every good probe before it.
LEMMA FinishBounded ==
    ASSUME TInv, NEW ok \in BOOLEAN, NEW s \in BOOLEAN, FinishProbe(ok, s)
    PROVE  SoundBounded'
<1> DEFINE half == [breaker EXCEPT !.state       = "HALF_OPEN",
                                   !.good_probes = @ + 1,
                                   !.probed_ago  = 0]
<1>1. /\ breaker' = RecordProbe(breaker, ok, s)
      /\ prober = "probing" /\ prober' = "away"
      /\ healthy' = healthy /\ visit_ago' = 0
      /\ sound_for' = sound_for \/ sound_for' = 0
      /\ ~ok \/ s => ~healthy \/ sound_for <= visit_ago
  BY DEF FinishProbe, Replace
<1>2. ~Allows(breaker) /\ visit_ago <= ProbeTimeout
  BY <1>1, FinishWithin
<1>3. /\ visit_ago' <= IF prober' = "probing" THEN ProbeTimeout ELSE VisitPeriod
      /\ ~healthy' => sound_for' = 0
  BY <1>1, BoundFacts DEF TInv, SoundBounded
<1>4. CASE ~ok \/ s
  <2>1. breaker'.state = "OPEN" /\ breaker'.opened_ago = 0
    BY <1>1, <1>4, BadProbeDates, BoundFacts DEF RecordProbe
  <2>2. sound_for <= ProbeTimeout
    BY <1>1, <1>2, <1>4, BoundFacts DEF TInv, SoundBounded
  <2>3. Since("away", 0, OpenedCap, 0) \in Nat
    BY BoundFacts, SinceBounds
  <2>4. sound_for' <= ProbeTimeout + Since("away", 0, OpenedCap, 0)
    BY <1>1, <2>2, <2>3, BoundFacts
  <2> QED
    BY <1>1, <1>3, <2>1, <2>4 DEF SoundBounded, Since
<1>5. CASE ok /\ ~s
  <2>1. /\ half.state = "HALF_OPEN"
        /\ half.good_probes = breaker.good_probes + 1
        /\ half.probed_ago = 0
    BY BoundFacts DEF Breakers
  <2>2. CASE breaker' = Closed(half)
    <3>1. breaker'.state = "CLOSED"
      BY <2>2, BoundFacts DEF Closed, Breakers
    <3> QED
      BY <1>3, <3>1 DEF SoundBounded
  <2>3. CASE breaker' = half
    <3> DEFINE g == breaker.good_probes
    <3>1. FoundAfter(g + 1) \in Nat
      BY BoundFacts, FoundAfterGrows DEF Breakers
    <3>2. sound_for <= FoundAfter(g + 1)
      BY <1>1, FinishWithin
    <3>3. Since("away", 0, ProbedCap, 0) \in Nat
      BY BoundFacts, SinceBounds
    <3>4. sound_for' <= FoundAfter(g + 1) + Since("away", 0, ProbedCap, 0)
      <4> HIDE DEF g
      <4> QED
        BY <1>1, <3>1, <3>2, <3>3, BoundFacts
    <3>5. /\ breaker'.state = "HALF_OPEN"
          /\ breaker'.good_probes = g + 1
          /\ breaker'.probed_ago = 0
      BY <2>1, <2>3
    <3> QED
      BY <1>1, <1>3, <3>4, <3>5 DEF SoundBounded, FoundAfter, Since
  <2> QED
    BY <1>1, <1>5, <2>2, <2>3 DEF RecordProbe
<1> QED
  BY <1>4, <1>5

\* The bound is kept by every step.
LEMMA NextBounded == TInv /\ [Next]_vars => SoundBounded'
<1> SUFFICES ASSUME TInv, [Next]_vars
             PROVE  SoundBounded'
  OBVIOUS
<1>1. CASE Send \/ UNCHANGED vars
  <2>1. /\ breaker' = breaker /\ prober' = prober /\ visit_ago' = visit_ago
        /\ healthy' = healthy /\ sound_for' = sound_for
    BY <1>1 DEF Send, vars
  <2> QED
    BY <2>1 DEF TInv, SoundBounded, FoundAfter, Since
<1>2. CASE Succeed
  BY <1>2, BoundFacts, SuccessKeepsDates, CallBounded DEF Succeed
<1>3. ASSUME NEW kind \in RequestFailure, Fail(kind)
      PROVE  SoundBounded'
  <2>1. kind \in FailureKind /\ 0 \in 0..MaxLag
    BY TimeAssumption DEF RequestFailure
  <2>2. Allows(breaker) => prober # "probing"
    BY DEF TInv, IInv
  <2> QED
    BY <1>3, <2>1, <2>2, BoundFacts, FailureDatesTrip, CallBounded DEF Fail
<1>4. ASSUME NEW lag \in PassLag, NEW suspected \in BOOLEAN, Watch(suspected, lag)
      PROVE  SoundBounded'
  <2>1. lag \in 0..MaxLag
    BY TimeAssumption DEF PassLag, Lesser, TInv, IInv, TypeOK
  <2> QED
    BY <1>4, <2>1, BoundFacts, WedgeDatesTrip, CallBounded DEF Watch
<1>5. ASSUME NEW lag \in PassLag, PassBy(lag) \/ StartProbe(lag)
      PROVE  SoundBounded'
  BY <1>5, VisitBounded
<1>6. ASSUME NEW ok \in BOOLEAN, NEW s \in BOOLEAN, FinishProbe(ok, s)
      PROVE  SoundBounded'
  BY <1>6, FinishBounded
<1>7. CASE Turn
  <2>1. /\ breaker' = breaker /\ prober' = prober /\ visit_ago' = visit_ago
        /\ sound_for' = 0
    BY <1>7 DEF Turn
  <2>2. breaker.state = "OPEN"
          => 0 <= ProbeTimeout + Since(prober, breaker.opened_ago, OpenedCap, visit_ago)
    <3>1. breaker.state = "OPEN" => Since(prober, breaker.opened_ago, OpenedCap, visit_ago) \in Nat
      BY BoundFacts, SinceBounds
    <3> QED
      BY <3>1, BoundFacts
  <2>3. breaker.state = "HALF_OPEN"
          => 0 <= FoundAfter(breaker.good_probes)
                  + Since(prober, breaker.probed_ago, ProbedCap, visit_ago)
    <3>1. breaker.state = "HALF_OPEN"
            => Since(prober, breaker.probed_ago, ProbedCap, visit_ago) \in Nat
      BY BoundFacts, SinceBounds
    <3> QED
      BY <3>1, BoundFacts
  <2> QED
    BY <2>1, <2>2, <2>3 DEF TInv, SoundBounded, FoundAfter, Since
<1>8. CASE Tick
  BY <1>8, TickBounded
<1> QED
  BY <1>1, <1>2, <1>3, <1>4, <1>5, <1>6, <1>7, <1>8 DEF Next, Visit, Answer

LEMMA SpecTInv == Spec => []TInv
<1>1. Init => TInv
  BY InitIInv, InitBounded DEF TInv
<1>2. TInv /\ [Next]_vars => TInv'
  BY NextIInv, NextBounded DEF TInv
<1> QED
  BY <1>1, <1>2, PTL DEF Spec

\* A replica that is healthy again is probed within the longest backoff and back in
\* rotation within ProbesToClose probes of it, whatever the lag of the prober's clock,
\* the probe that was under way and the outcomes that arrive meanwhile (due_for_probe,
\* record_probe, main.py:55-76; "found within a minute", breaker.py:87-89).
THEOREM RecoveryIsBounded == Spec => []RecoversInTime
<1>1. TInv => RecoversInTime
  <2> SUFFICES ASSUME TInv
               PROVE  RecoversInTime
    OBVIOUS
  <2>1. FoundWithin \in Nat /\ BackWithin \in Int /\ FoundWithin <= BackWithin
    <3>1. FoundWithin \in Nat /\ ProbeDelay \in Nat
      BY FoundAfterGrows
    <3>2. 0 < ProbesToClose /\ FoundAfter(0 + 1) <= BackWithin
      BY FoundAfterGrows, ProbesAssumption
    <3>3. FoundAfter(0 + 1) = FoundWithin
      BY FoundAfterGrows
    <3>4. BackWithin \in Int
      BY <3>1, ProbesAssumption, TimeAssumption DEF BackWithin
    <3> QED
      BY <3>1, <3>2, <3>3, <3>4
  <2>2. ASSUME breaker.state = "OPEN" PROVE sound_for <= FoundWithin
    <3> DEFINE since == Since(prober, breaker.opened_ago, OpenedCap, visit_ago)
    <3>1. since \in Nat /\ since <= OpenedCap + VisitPeriod + ProbeTimeout
      BY <2>2, BoundFacts, SinceWithin
    <3>2. sound_for <= ProbeTimeout + since
      BY <2>2 DEF TInv, SoundBounded
    <3>3. FoundWithin = ProbeTimeout + OpenedCap + VisitPeriod + ProbeTimeout
      BY TimeAssumption, ScheduleAssumption DEF FoundWithin, ProbeDelay, OpenedCap
    <3> HIDE DEF since
    <3> QED
      BY <3>1, <3>2, <3>3, BoundFacts
  <2>3. ASSUME breaker.state = "HALF_OPEN" PROVE sound_for <= BackWithin
    <3> DEFINE since == Since(prober, breaker.probed_ago, ProbedCap, visit_ago)
               g == breaker.good_probes
    <3>1. since \in Nat /\ since <= ProbedCap + VisitPeriod + ProbeTimeout
      BY <2>3, BoundFacts, SinceWithin
    <3>2. sound_for <= FoundAfter(g) + since
      BY <2>3 DEF TInv, SoundBounded
    <3>3. ProbeInterval + ProbeDelay = ProbedCap + VisitPeriod + ProbeTimeout
      BY TimeAssumption, ScheduleAssumption DEF ProbeDelay, ProbedCap
    <3>4. /\ FoundAfter(g) \in Nat /\ FoundAfter(g + 1) \in Nat
          /\ FoundAfter(g) + ProbeInterval + ProbeDelay = FoundAfter(g + 1)
          /\ FoundAfter(g + 1) <= BackWithin
      BY <2>3, BoundFacts, FoundAfterGrows
    <3>5. ProbeInterval \in Nat /\ ProbeDelay \in Nat
      BY TimeAssumption, ScheduleAssumption DEF ProbeDelay
    <3> HIDE DEF since, g
    <3> QED
      BY <2>1, <3>1, <3>2, <3>3, <3>4, <3>5, BoundFacts
  <2> QED
    BY <2>1, <2>2, <2>3, BoundFacts DEF RecoversInTime, Allows, Breakers, BreakerState
<1> QED
  BY <1>1, SpecTInv, PTL
=============================================================================
