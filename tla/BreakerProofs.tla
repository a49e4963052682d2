---------------------------- MODULE BreakerProofs ----------------------------
(***************************************************************************)
(* What every method of ReplicaBreaker preserves, for all weights,         *)
(* durations and thresholds: a sound breaker stays sound, whoever calls    *)
(* the method and whenever.  The state machines that share breakers cite   *)
(* these lemmas, one per method.                                           *)
(***************************************************************************)
EXTENDS Breaker, TLAPS

SoundBreaker(b) == /\ b \in Breakers
                   /\ ClosedBelowThreshold(b)
                   /\ OutageShape(b)

-----------------------------------------------------------------------------
\* The threshold is a positive number and never above TRIP_SCORE; a caller with an
\* older clock, or an earlier moment, sees a lower one (threshold()).
LEMMA ThresholdBounds ==
    ASSUME NEW b \in Breakers, NEW lag \in Nat
    PROVE  /\ Threshold(b, lag) \in 1..TripScore
           /\ Threshold(b, lag) <= Threshold(b, 0)
<1>1. b.closed_ago \in Int /\ Probation \in Int
  BY TimeAssumption DEF Breakers, ClosedCap
<1>2. Larger(1, TripScore \div 2) \in 1..TripScore
  BY TripAssumption DEF Larger
<1>3. OnProbation(b, 0) => OnProbation(b, lag)
  BY <1>1 DEF OnProbation
<1> QED
  BY <1>2, <1>3, TripAssumption DEF Threshold

\* A new breaker, as BreakerRegistry.reset makes it.
LEMMA NewIsSound == SoundBreaker(NewBreaker)
<1>1. NewBreaker \in Breakers
  BY TimeAssumption DEF NewBreaker, Breakers, BreakerState, ClosedCap
<1>2. ClosedBelowThreshold(NewBreaker)
  <2>1. 0 < Threshold(NewBreaker, 0)
    BY <1>1, ThresholdBounds, TripAssumption
  <2> QED
    BY <2>1 DEF ClosedBelowThreshold, NewBreaker
<1>3. OutageShape(NewBreaker)
  BY DEF OutageShape, NewBreaker, Allows
<1> QED
  BY <1>1, <1>2, <1>3 DEF SoundBreaker

\* _open keeps the type, leaves rotation and dates the trip by its caller's clock.
LEMMA OpenedIsSound ==
    ASSUME NEW b \in Breakers, NEW lag \in 0..MaxLag
    PROVE  SoundBreaker(Opened(b, lag)) /\ ~Allows(Opened(b, lag))
<1> DEFINE o == Opened(b, lag)
<1>1. o \in Breakers
  <2>1. lag \in 0..OpenedCap
    BY TimeAssumption DEF OpenedCap
  <2> QED
    BY <2>1 DEF Opened, Breakers, BreakerState
<1>2. /\ o.state = "OPEN"
      /\ o.opened_ago = lag
      /\ o.good_probes = 0
  BY DEF Opened, Breakers
<1>3. o.opened_ago # Never
  BY <1>2, NeverAssumption, TimeAssumption
<1>4. ~Allows(o)
  BY <1>2 DEF Allows
<1>5. OutageShape(o)
  BY <1>2, <1>3, <1>4 DEF OutageShape
<1> QED
  BY <1>1, <1>4, <1>5 DEF SoundBreaker, ClosedBelowThreshold

\* _close keeps nothing of the outage.
LEMMA ClosedIsSound ==
    ASSUME NEW b \in Breakers
    PROVE  SoundBreaker(Closed(b)) /\ Allows(Closed(b))
<1> DEFINE c == Closed(b)
<1>1. c \in Breakers
  <2>1. InitialOpen \in InitialOpen..MaxOpen /\ 0 \in 0..ClosedCap
    BY TimeAssumption DEF ClosedCap
  <2> QED
    BY <2>1 DEF Closed, Breakers, BreakerState
<1>2. /\ c.state = "CLOSED"
      /\ c.score = 0
      /\ c.good_probes = 0
      /\ c.opened_ago = Never
      /\ c.open_sec = InitialOpen
      /\ c.wedge_confirmations = 0
  BY DEF Closed, Breakers
<1>3. Allows(c)
  BY <1>2 DEF Allows
<1>4. ClosedBelowThreshold(c)
  BY <1>1, <1>2, ThresholdBounds, TripAssumption DEF ClosedBelowThreshold
<1>5. OutageShape(c)
  BY <1>2 DEF OutageShape, Allows
<1> QED
  BY <1>1, <1>3, <1>4, <1>5 DEF SoundBreaker

-----------------------------------------------------------------------------
\* record_success never moves a breaker between its states.
LEMMA RecordSuccessIsSound ==
    ASSUME NEW b, SoundBreaker(b)
    PROVE  /\ SoundBreaker(RecordSuccess(b))
           /\ Allows(RecordSuccess(b)) <=> Allows(b)
<1> DEFINE s == RecordSuccess(b)
<1>1. b \in Breakers
  BY DEF SoundBreaker
<1>2. s \in Breakers
  BY <1>1 DEF RecordSuccess, Breakers
<1>3. /\ s.state = b.state
      /\ s.score = 0
      /\ s.wedge_confirmations = 0
      /\ s.opened_ago = b.opened_ago
      /\ s.open_sec = b.open_sec
      /\ s.good_probes = b.good_probes
      /\ s.probed_ago = b.probed_ago
  BY <1>1 DEF RecordSuccess, Breakers
<1>4. ClosedBelowThreshold(s)
  BY <1>2, <1>3, ThresholdBounds, TripAssumption DEF ClosedBelowThreshold
<1>5. OutageShape(s)
  BY <1>3 DEF SoundBreaker, OutageShape, Allows
<1> QED
  BY <1>2, <1>3, <1>4, <1>5 DEF SoundBreaker, Allows

\* Charging a failure keeps the type.
LEMMA ChargedIsTyped ==
    ASSUME NEW b \in Breakers, NEW w \in Nat
    PROVE  [b EXCEPT !.score = @ + w] \in Breakers
<1>1. b.score + w \in Nat
  BY DEF Breakers
<1> QED
  BY <1>1 DEF Breakers

\* record_failure on a breaker out of rotation charges the score and nothing else.
LEMMA LateFailureOnlyCharges ==
    ASSUME NEW b \in Breakers, NEW kind \in FailureKind, NEW lag \in Nat, ~Allows(b)
    PROVE  RecordFailure(b, kind, lag) = [b EXCEPT !.score = @ + Weight[kind]]
BY DEF RecordFailure, Allows, Breakers

\* record_failure trips or leaves a score below the threshold; it never closes.
LEMMA RecordFailureIsSound ==
    ASSUME NEW b, SoundBreaker(b), NEW kind \in FailureKind, NEW lag \in 0..MaxLag
    PROVE  /\ SoundBreaker(RecordFailure(b, kind, lag))
           /\ Allows(RecordFailure(b, kind, lag)) => Allows(b)
<1> DEFINE charged == [b EXCEPT !.score = @ + Weight[kind]]
           f == RecordFailure(b, kind, lag)
<1>1. b \in Breakers /\ Weight[kind] \in Nat /\ lag \in Nat
  BY WeightAssumption, TimeAssumption DEF SoundBreaker
<1>2. charged \in Breakers
  BY <1>1 DEF Breakers
<1>3. /\ charged.score = b.score + Weight[kind]
      /\ charged.state = b.state
      /\ charged.opened_ago = b.opened_ago
      /\ charged.open_sec = b.open_sec
      /\ charged.good_probes = b.good_probes
      /\ charged.probed_ago = b.probed_ago
      /\ charged.closed_ago = b.closed_ago
      /\ charged.wedge_confirmations = b.wedge_confirmations
  BY <1>1 DEF Breakers
<1>4. f = Opened(charged, lag) \/ f = charged
  BY DEF RecordFailure
<1>5. CASE f = Opened(charged, lag)
  BY <1>2, <1>5, OpenedIsSound
<1>6. CASE f = charged /\ f # Opened(charged, lag)
  <2>1. Allows(b) => Weight[kind] = 0 \/ charged.score < Threshold(b, lag)
    <3>1. ~(/\ Weight[kind] # 0
            /\ Allows(b)
            /\ charged.score >= Threshold(b, lag))
      BY <1>6 DEF RecordFailure
    <3>2. charged.score \in Nat /\ Threshold(b, lag) \in Nat
      BY <1>1, <1>2, ThresholdBounds, TripAssumption DEF Breakers
    <3> QED
      BY <3>1, <3>2
  <2>2. Allows(b) => charged.score < Threshold(b, 0)
    <3>1. Weight[kind] = 0 => charged.score = b.score
      BY <1>1, <1>3 DEF Breakers
    <3>2. /\ Threshold(b, lag) <= Threshold(b, 0)
          /\ Threshold(b, lag) \in Int /\ Threshold(b, 0) \in Int
      BY <1>1, ThresholdBounds, TripAssumption
    <3>3. charged.score \in Int
      BY <1>2 DEF Breakers
    <3> QED
      BY <2>1, <3>1, <3>2, <3>3 DEF SoundBreaker, ClosedBelowThreshold
  <2>3. Threshold(charged, 0) = Threshold(b, 0) /\ (Allows(charged) <=> Allows(b))
    BY <1>3 DEF Threshold, OnProbation, Allows
  <2>4. ClosedBelowThreshold(charged)
    BY <2>2, <2>3 DEF ClosedBelowThreshold
  <2>5. OutageShape(charged)
    BY <1>3 DEF SoundBreaker, OutageShape, Allows
  <2> QED
    BY <1>2, <1>6, <2>3, <2>4, <2>5 DEF SoundBreaker
<1> QED
  BY <1>4, <1>5, <1>6

\* record_wedge: a first confirmation is only counted, a second one trips, so a
\* replica in rotation never carries more than one.
LEMMA RecordWedgeIsSound ==
    ASSUME NEW b, SoundBreaker(b), NEW suspected \in BOOLEAN, NEW lag \in 0..MaxLag
    PROVE  /\ SoundBreaker(RecordWedge(b, suspected, lag))
           /\ Allows(RecordWedge(b, suspected, lag)) => Allows(b)
<1> DEFINE n == IF suspected THEN b.wedge_confirmations + 1 ELSE 0
           seen == [b EXCEPT !.wedge_confirmations = n]
           charged == [seen EXCEPT !.score = @ + Weight["WEDGE"]]
           w == RecordWedge(b, suspected, lag)
<1>1. b \in Breakers /\ lag \in Nat /\ n \in Nat
  BY TimeAssumption DEF SoundBreaker, Breakers
<1>2. seen \in Breakers
  BY <1>1 DEF Breakers
<1>3. /\ seen.wedge_confirmations = n
      /\ seen.score = b.score
      /\ seen.state = b.state
      /\ seen.opened_ago = b.opened_ago
      /\ seen.open_sec = b.open_sec
      /\ seen.good_probes = b.good_probes
      /\ seen.probed_ago = b.probed_ago
      /\ seen.closed_ago = b.closed_ago
  BY <1>1 DEF Breakers
<1>4. (Allows(seen) <=> Allows(b)) /\ Threshold(seen, 0) = Threshold(b, 0)
  BY <1>3 DEF Allows, Threshold, OnProbation
<1>5. w = IF n > 1 /\ Allows(b) THEN RecordFailure(seen, "WEDGE", lag) ELSE seen
  BY <1>1, <1>3 DEF RecordWedge, Breakers
<1>6. CASE n > 1 /\ Allows(b)
  <2>1. Weight["WEDGE"] \in Nat /\ Weight["WEDGE"] # 0
    BY WeightAssumption, TripAssumption DEF FailureKind
  <2>2. charged \in Breakers
    BY <1>2, <2>1, ChargedIsTyped
  <2>3. charged.score >= Threshold(seen, lag)
    <3>1. charged.score = seen.score + Weight["WEDGE"] /\ seen.score \in Nat
      BY <1>2 DEF Breakers
    <3>2. Threshold(seen, lag) \in 1..TripScore
      BY <1>1, <1>2, ThresholdBounds
    <3> QED
      BY <2>1, <3>1, <3>2, TripAssumption
  <2>4. w = Opened(charged, lag)
    BY <1>4, <1>5, <1>6, <2>1, <2>3 DEF RecordFailure
  <2> QED
    BY <2>2, <2>4, OpenedIsSound
<1>7. CASE ~(n > 1 /\ Allows(b))
  <2>1. w = seen
    BY <1>5, <1>7
  <2>2. ClosedBelowThreshold(seen)
    BY <1>3, <1>4 DEF SoundBreaker, ClosedBelowThreshold
  <2>3. Allows(b) => n <= 1
    BY <1>1, <1>7
  <2>4. OutageShape(seen)
    BY <1>3, <2>3 DEF SoundBreaker, OutageShape, Allows
  <2> QED
    BY <1>2, <1>4, <2>1, <2>2, <2>4 DEF SoundBreaker
<1> QED
  BY <1>6, <1>7

\* record_probe is called on a breaker out of rotation only; what it leaves has the
\* timestamps the next probe is computed from.
LEMMA RecordProbeIsSound ==
    ASSUME NEW b, SoundBreaker(b), ~Allows(b),
           NEW ok \in BOOLEAN, NEW wedge_suspected \in BOOLEAN
    PROVE  SoundBreaker(RecordProbe(b, ok, wedge_suspected))
<1> DEFINE half == [b EXCEPT !.state       = "HALF_OPEN",
                             !.good_probes = @ + 1,
                             !.probed_ago  = 0]
           p == RecordProbe(b, ok, wedge_suspected)
<1>1. b \in Breakers /\ b.opened_ago # Never
  BY DEF SoundBreaker, OutageShape
<1>2. 0 \in 0..OpenedCap /\ 0 \in 0..ProbedCap
  BY TimeAssumption DEF OpenedCap, ProbedCap
<1>3. half \in Breakers
  <2>1. b.good_probes + 1 \in Nat /\ "HALF_OPEN" \in BreakerState
    BY <1>1 DEF Breakers, BreakerState
  <2> QED
    BY <1>1, <1>2, <2>1 DEF Breakers
<1>4. /\ half.state = "HALF_OPEN"
      /\ half.good_probes = b.good_probes + 1
      /\ half.probed_ago = 0
      /\ half.opened_ago = b.opened_ago
  BY <1>1 DEF Breakers
<1>5. CASE ~ok \/ wedge_suspected
  <2>1. p = Reopened(b)
    BY <1>5 DEF RecordProbe
  <2>2. Lesser(2 * b.open_sec, MaxOpen) \in InitialOpen..MaxOpen
    BY <1>1, TimeAssumption DEF Lesser, Breakers
  <2>3. p \in Breakers
    <3>1. "OPEN" \in BreakerState /\ 0 \in Nat
      BY DEF BreakerState
    <3>2. p = [b EXCEPT !.state       = "OPEN",
                        !.opened_ago  = 0,
                        !.open_sec    = Lesser(2 * b.open_sec, MaxOpen),
                        !.good_probes = 0,
                        !.probed_ago  = 0]
      BY <2>1 DEF Reopened
    <3> QED
      BY <1>1, <1>2, <2>2, <3>1, <3>2 DEF Breakers
  <2>4. p.state = "OPEN" /\ p.opened_ago = 0 /\ p.good_probes = 0
    BY <1>1, <2>1 DEF Reopened, Breakers
  <2>5. ~Allows(p) /\ p.opened_ago # Never
    BY <2>4, NeverAssumption DEF Allows
  <2> QED
    BY <2>3, <2>4, <2>5 DEF SoundBreaker, ClosedBelowThreshold, OutageShape
<1>6. CASE ok /\ ~wedge_suspected /\ half.good_probes >= ProbesToClose
  <2>1. p = Closed(half)
    BY <1>6 DEF RecordProbe
  <2> QED
    BY <1>3, <2>1, ClosedIsSound
<1>7. CASE ok /\ ~wedge_suspected /\ ~(half.good_probes >= ProbesToClose)
  <2>1. p = half
    BY <1>7 DEF RecordProbe
  <2>2. ~Allows(half) /\ half.probed_ago # Never
    BY <1>4, NeverAssumption DEF Allows
  <2>3. half.good_probes \in 1..(ProbesToClose - 1)
    BY <1>1, <1>4, <1>7, ProbesAssumption DEF Breakers
  <2> QED
    BY <1>1, <1>3, <1>4, <2>1, <2>2, <2>3
    DEF SoundBreaker, ClosedBelowThreshold, OutageShape
<1> QED
  BY <1>5, <1>6, <1>7

-----------------------------------------------------------------------------
(***************************************************************************)
(* The score a replica is in rotation with.                                *)
(***************************************************************************)
\* A failure without weight neither trips nor counts; one with a weight trips at the
\* threshold of its moment, and only there.
LEMMA FailureScores ==
    ASSUME NEW b \in Breakers, NEW kind \in FailureKind, NEW lag \in 0..MaxLag
    PROVE  /\ Weight[kind] = 0 => RecordFailure(b, kind, lag) = b
           /\ Allows(b) /\ ~Allows(RecordFailure(b, kind, lag))
              => Weight[kind] # 0 /\ b.score + Weight[kind] >= Threshold(b, lag)
<1> DEFINE charged == [b EXCEPT !.score = @ + Weight[kind]]
<1>1. charged.state = b.state /\ charged.score = b.score + Weight[kind]
  BY DEF Breakers
<1>2. ASSUME Weight[kind] = 0 PROVE RecordFailure(b, kind, lag) = b
  <2>1. RecordFailure(b, kind, lag) = charged
    BY <1>2 DEF RecordFailure
  <2>2. b.score + Weight[kind] = b.score
    BY <1>2 DEF Breakers
  <2>3. charged = b
    BY <2>2 DEF Breakers
  <2> QED
    BY <2>1, <2>3
<1>3. ASSUME Allows(b), ~Allows(RecordFailure(b, kind, lag))
      PROVE  Weight[kind] # 0 /\ b.score + Weight[kind] >= Threshold(b, lag)
  <2>1. Allows(charged)
    BY <1>1, <1>3 DEF Allows
  <2>2. Weight[kind] # 0 /\ charged.score >= Threshold(b, lag)
    BY <1>3, <2>1 DEF RecordFailure
  <2> QED
    BY <1>1, <2>2
<1> QED
  BY <1>2, <1>3

\* The wedge watch leaves the score of a replica alone, unless it takes it out.
LEMMA WedgeScores ==
    ASSUME NEW b \in Breakers, NEW suspected \in BOOLEAN, NEW lag \in 0..MaxLag,
           Allows(RecordWedge(b, suspected, lag))
    PROVE  RecordWedge(b, suspected, lag).score = b.score
<1> DEFINE n == IF suspected THEN b.wedge_confirmations + 1 ELSE 0
           seen == [b EXCEPT !.wedge_confirmations = n]
<1>1. n \in Nat /\ lag \in Nat
  BY TimeAssumption DEF Breakers
<1>2. seen \in Breakers /\ seen.score = b.score /\ seen.state = b.state
  BY <1>1 DEF Breakers
<1>3. \/ RecordWedge(b, suspected, lag) = seen
      \/ Allows(b) /\ RecordWedge(b, suspected, lag) = RecordFailure(seen, "WEDGE", lag)
  BY DEF RecordWedge, Breakers
<1> HIDE DEF seen
<1>4. CASE RecordWedge(b, suspected, lag) = seen
  BY <1>2, <1>4
<1>5. CASE Allows(b) /\ RecordWedge(b, suspected, lag) = RecordFailure(seen, "WEDGE", lag)
  <2> DEFINE charged == [seen EXCEPT !.score = @ + Weight["WEDGE"]]
  <2>1. Weight["WEDGE"] \in Nat /\ Weight["WEDGE"] # 0 /\ Weight["WEDGE"] >= TripScore
    BY WeightAssumption, TripAssumption DEF FailureKind
  <2>2. charged \in Breakers /\ charged.score = seen.score + Weight["WEDGE"]
    BY <1>2, <2>1, ChargedIsTyped DEF Breakers
  <2>3. charged.score >= Threshold(seen, lag)
    <3>1. Threshold(seen, lag) \in 1..TripScore /\ seen.score \in Nat
      BY <1>1, <1>2, ThresholdBounds DEF Breakers
    <3> QED
      BY <2>1, <2>2, <3>1, TripAssumption
  <2>4. RecordFailure(seen, "WEDGE", lag) = Opened(charged, lag)
    BY <1>2, <1>5, <2>1, <2>3 DEF RecordFailure, Allows
  <2>5. ~Allows(Opened(charged, lag))
    BY <2>2, OpenedIsSound
  <2> QED
    BY <1>5, <2>4, <2>5
<1> QED
  BY <1>3, <1>4, <1>5

\* A replica comes back with no score, whatever was charged during the outage.
LEMMA RecloseScores ==
    ASSUME NEW b \in Breakers, ~Allows(b), NEW ok, NEW wedge_suspected,
           Allows(RecordProbe(b, ok, wedge_suspected))
    PROVE  RecordProbe(b, ok, wedge_suspected).score = 0
<1> DEFINE half == [b EXCEPT !.state       = "HALF_OPEN",
                             !.good_probes = @ + 1,
                             !.probed_ago  = 0]
<1>1. Reopened(b).state = "OPEN" /\ half.state = "HALF_OPEN"
  BY DEF Reopened, Breakers
<1>2. Closed(half).score = 0
  BY DEF Closed, Breakers
<1>3. RecordProbe(b, ok, wedge_suspected) \in {Reopened(b), Closed(half), half}
  BY DEF RecordProbe
<1> HIDE DEF half
<1> QED
  BY <1>1, <1>2, <1>3 DEF Allows

-----------------------------------------------------------------------------
\* An elapsed time that grows stays below its cap, and stays None if it was.
LEMMA LaterBounded ==
    ASSUME NEW cap \in Nat, NEW ago \in 0..cap \cup {Never}
    PROVE  /\ Later(ago, cap) \in 0..cap \cup {Never}
           /\ Later(ago, cap) = Never <=> ago = Never
           /\ ago # Never => Later(ago, cap) >= ago /\ Later(ago, cap) \in 0..cap
BY NeverAssumption DEF Later, Lesser

\* Time alone neither trips nor closes a breaker, and the end of probation only
\* raises the threshold.
LEMMA AgedIsSound ==
    ASSUME NEW b, SoundBreaker(b)
    PROVE  /\ SoundBreaker(Aged(b))
           /\ Allows(Aged(b)) <=> Allows(b)
<1> DEFINE a == Aged(b)
<1>1. b \in Breakers
  BY DEF SoundBreaker
<1>2. OpenedCap \in Nat /\ ProbedCap \in Nat /\ ClosedCap \in Nat /\ Probation \in Nat
  BY TimeAssumption DEF OpenedCap, ProbedCap, ClosedCap
<1>3. /\ a.state = b.state
      /\ a.score = b.score
      /\ a.open_sec = b.open_sec
      /\ a.good_probes = b.good_probes
      /\ a.wedge_confirmations = b.wedge_confirmations
      /\ a.opened_ago = Later(b.opened_ago, OpenedCap)
      /\ a.probed_ago = Later(b.probed_ago, ProbedCap)
      /\ a.closed_ago = Later(b.closed_ago, ClosedCap)
  BY <1>1 DEF Aged, Breakers
<1>4. /\ b.opened_ago \in 0..OpenedCap \cup {Never}
      /\ b.probed_ago \in 0..ProbedCap \cup {Never}
      /\ b.closed_ago \in 0..ClosedCap
      /\ b.closed_ago # Never
  BY <1>1, NeverAssumption DEF Breakers
<1>5. /\ a.opened_ago \in 0..OpenedCap \cup {Never}
      /\ a.opened_ago = Never <=> b.opened_ago = Never
  <2>1. /\ Later(b.opened_ago, OpenedCap) \in 0..OpenedCap \cup {Never}
        /\ Later(b.opened_ago, OpenedCap) = Never <=> b.opened_ago = Never
    BY <1>2, <1>4, LaterBounded
  <2> QED
    BY <1>3, <2>1
<1>6. /\ a.probed_ago \in 0..ProbedCap \cup {Never}
      /\ a.probed_ago = Never <=> b.probed_ago = Never
  BY <1>2, <1>3, <1>4, LaterBounded
<1>7. a.closed_ago \in 0..ClosedCap /\ a.closed_ago >= b.closed_ago
  BY <1>2, <1>3, <1>4, LaterBounded
<1>8. a \in Breakers
  <2>1. a = [b EXCEPT !.opened_ago = a.opened_ago,
                      !.probed_ago = a.probed_ago,
                      !.closed_ago = a.closed_ago]
    BY <1>1, <1>3 DEF Aged, Breakers
  <2> QED
    BY <1>1, <1>5, <1>6, <1>7, <2>1 DEF Breakers
<1>9. Allows(a) <=> Allows(b)
  BY <1>3 DEF Allows
<1>10. ClosedBelowThreshold(a)
  <2>1. OnProbation(a, 0) => OnProbation(b, 0)
    BY <1>2, <1>4, <1>7 DEF OnProbation
  <2>2. Threshold(b, 0) <= Threshold(a, 0)
    BY <2>1, TripAssumption DEF Threshold, Larger
  <2>3. Threshold(b, 0) \in Int /\ Threshold(a, 0) \in Int /\ b.score \in Int
    BY <1>1, <1>8, ThresholdBounds, TripAssumption DEF Breakers
  <2> QED
    BY <1>3, <1>9, <2>2, <2>3 DEF SoundBreaker, ClosedBelowThreshold
<1>11. OutageShape(a)
  BY <1>3, <1>5, <1>6, <1>9 DEF SoundBreaker, OutageShape
<1> QED
  BY <1>8, <1>9, <1>10, <1>11 DEF SoundBreaker
-----------------------------------------------------------------------------
(***************************************************************************)
(* The probe schedule: what a breaker's timestamps say of its next probe.  *)
(***************************************************************************)
\* c is scheduled as b is: the same state and the same timestamps.
SameSchedule(b, c) == /\ c.state = b.state
                      /\ c.opened_ago = b.opened_ago
                      /\ c.open_sec = b.open_sec
                      /\ c.probed_ago = b.probed_ago

\* allows_traffic, due_for_probe and seconds_until_probe read nothing else.
LEMMA ScheduleDecides ==
    ASSUME NEW b, NEW c, SameSchedule(b, c)
    PROVE  /\ Allows(c) <=> Allows(b)
           /\ \A lag : DueForProbe(c, lag) <=> DueForProbe(b, lag)
           /\ SecondsUntilProbe(c) = SecondsUntilProbe(b)
<1>1. Allows(c) <=> Allows(b)
  BY DEF SameSchedule, Allows
<1>2. ASSUME NEW lag PROVE DueForProbe(c, lag) <=> DueForProbe(b, lag)
  BY DEF SameSchedule, DueForProbe
<1>3. SecondsUntilProbe(c) = SecondsUntilProbe(b)
  BY DEF SameSchedule, SecondsUntilProbe
<1> QED
  BY <1>1, <1>2, <1>3

\* A request that ends during an outage does not reschedule the probe.
LEMMA LateOutcomeKeepsSchedule ==
    ASSUME NEW b \in Breakers, ~Allows(b)
    PROVE  /\ SameSchedule(b, RecordSuccess(b))
           /\ \A kind \in FailureKind, lag \in Nat :
                 SameSchedule(b, RecordFailure(b, kind, lag))
<1>1. SameSchedule(b, RecordSuccess(b))
  BY DEF RecordSuccess, SameSchedule, Breakers
<1>2. ASSUME NEW kind \in FailureKind, NEW lag \in Nat
      PROVE  SameSchedule(b, RecordFailure(b, kind, lag))
  <2>1. RecordFailure(b, kind, lag) = [b EXCEPT !.score = @ + Weight[kind]]
    BY LateFailureOnlyCharges
  <2> QED
    BY <2>1 DEF SameSchedule, Breakers
<1> QED
  BY <1>1, <1>2

\* seconds_until_probe is never negative and never above the longest delay there is.
LEMMA ProbeWaitBounded ==
    ASSUME NEW b \in Breakers
    PROVE  SecondsUntilProbe(b) \in 0..Larger(MaxOpen, ProbeInterval)
<1>1. /\ b.open_sec \in 0..MaxOpen
      /\ b.opened_ago # Never => b.opened_ago \in Nat
      /\ b.probed_ago # Never => b.probed_ago \in Nat
  BY TimeAssumption DEF Breakers, OpenedCap, ProbedCap
<1>2. /\ b.opened_ago # Never => Larger(0, b.open_sec - b.opened_ago) \in 0..MaxOpen
      /\ b.probed_ago # Never => Larger(0, ProbeInterval - b.probed_ago) \in 0..ProbeInterval
  BY <1>1, TimeAssumption DEF Larger
<1>3. /\ 0..MaxOpen \subseteq 0..Larger(MaxOpen, ProbeInterval)
      /\ 0..ProbeInterval \subseteq 0..Larger(MaxOpen, ProbeInterval)
      /\ 0 \in 0..Larger(MaxOpen, ProbeInterval)
  BY TimeAssumption DEF Larger
<1> QED
  BY <1>2, <1>3 DEF SecondsUntilProbe

\* What is due by an old clock is due by a fresh one, and what is due has no wait left.
LEMMA DueHasNoWait ==
    ASSUME NEW b, SoundBreaker(b), NEW lag \in Nat
    PROVE  /\ DueForProbe(b, lag) => DueForProbe(b, 0)
           /\ DueForProbe(b, 0) => ~Allows(b) /\ SecondsUntilProbe(b) = 0
<1>1. /\ b.state \in BreakerState
      /\ b.open_sec \in Nat
      /\ b.opened_ago # Never => b.opened_ago \in Nat
      /\ b.probed_ago # Never => b.probed_ago \in Nat
      /\ ProbeInterval \in Nat
  BY TimeAssumption DEF SoundBreaker, Breakers, OpenedCap, ProbedCap
<1>2. b.state = "HALF_OPEN" => b.probed_ago # Never
  BY DEF SoundBreaker, OutageShape
<1>3. DueForProbe(b, lag) => DueForProbe(b, 0)
  BY <1>1 DEF DueForProbe
<1>4. DueForProbe(b, 0) => ~Allows(b)
  BY DEF DueForProbe, Allows
<1>5. DueForProbe(b, 0) => SecondsUntilProbe(b) = 0
  BY <1>1, <1>2 DEF DueForProbe, SecondsUntilProbe, Larger
<1> QED
  BY <1>3, <1>4, <1>5

\* A unit of time takes at most one unit off the wait, and nothing due stops being so.
LEMMA AgedKeepsSchedule ==
    ASSUME NEW b, SoundBreaker(b)
    PROVE  /\ DueForProbe(b, 0) => DueForProbe(Aged(b), 0)
           /\ SecondsUntilProbe(b) <= SecondsUntilProbe(Aged(b)) + 1
<1> DEFINE a == Aged(b)
<1>1. /\ b.open_sec \in Nat /\ OpenedCap \in Nat /\ ProbedCap \in Nat /\ ProbeInterval \in Nat
      /\ b.opened_ago \in 0..OpenedCap \cup {Never}
      /\ b.probed_ago \in 0..ProbedCap \cup {Never}
  BY TimeAssumption DEF SoundBreaker, Breakers, OpenedCap, ProbedCap
<1>2. /\ a.state = b.state
      /\ a.open_sec = b.open_sec
      /\ a.opened_ago = Later(b.opened_ago, OpenedCap)
      /\ a.probed_ago = Later(b.probed_ago, ProbedCap)
  BY DEF Aged, SoundBreaker, Breakers
<1>3. /\ a.opened_ago = Never <=> b.opened_ago = Never
      /\ b.opened_ago # Never => /\ a.opened_ago \in Nat /\ b.opened_ago \in Nat
                                 /\ b.opened_ago <= a.opened_ago
                                 /\ a.opened_ago <= b.opened_ago + 1
  BY <1>1, <1>2, NeverAssumption DEF Later, Lesser
<1>4. /\ a.probed_ago = Never <=> b.probed_ago = Never
      /\ b.probed_ago # Never => /\ a.probed_ago \in Nat /\ b.probed_ago \in Nat
                                 /\ b.probed_ago <= a.probed_ago
                                 /\ a.probed_ago <= b.probed_ago + 1
  BY <1>1, <1>2, NeverAssumption DEF Later, Lesser
<1> HIDE DEF a
<1>5. DueForProbe(b, 0) => DueForProbe(a, 0)
  BY <1>1, <1>2, <1>3, <1>4 DEF DueForProbe
<1>6. SecondsUntilProbe(b) <= SecondsUntilProbe(a) + 1
  BY <1>1, <1>2, <1>3, <1>4 DEF SecondsUntilProbe, Larger
<1> QED
  BY <1>5, <1>6 DEF a
=============================================================================
