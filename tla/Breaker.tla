------------------------------- MODULE Breaker -------------------------------
(***************************************************************************)
(* The per-replica circuit breaker of gateway/upstream/breaker.py: a pure  *)
(* state machine whose clock is passed in.  A breaker is a record b and    *)
(* each method of ReplicaBreaker is an operator from a breaker to the      *)
(* breaker it leaves behind.                                               *)
(*                                                                         *)
(* TIME.  The code keeps the timestamps opened_at, last_probe_at and       *)
(* probation_until and only ever compares "now - timestamp" with a fixed   *)
(* duration.  The model keeps the elapsed times themselves (opened_ago,    *)
(* probed_ago, closed_ago), each saturating just above the largest value   *)
(* any comparison can tell apart, so the state space is finite without a   *)
(* horizon.  A caller whose `now` is old by `lag` (the prober reads the    *)
(* clock once per pass) sees every elapsed time shortened by lag.          *)
(***************************************************************************)
EXTENDS Integers

CONSTANTS
    Weight,         \* WEIGHTS: what one failure of each kind adds to the score
    TripScore,      \* TRIP_SCORE
    InitialOpen,    \* INITIAL_OPEN_SEC
    MaxOpen,        \* MAX_OPEN_SEC
    ProbeInterval,  \* PROBE_INTERVAL_SEC
    ProbesToClose,  \* PROBES_TO_CLOSE
    Probation,      \* PROBATION_SEC
    MaxLag,         \* how old a `now` may be when a method receives it
    Never           \* a timestamp that is None

FailureKind == {"CONNECT", "READ_TIMEOUT", "SERVER_ERROR",
                "THROTTLED", "CLIENT_ERROR", "WEDGE"}

BreakerState == {"CLOSED", "OPEN", "HALF_OPEN"}

ASSUME WeightAssumption == Weight \in [FailureKind -> Nat]

\* "Enough to trip alone" is what the table says of a confirmed wedge.
ASSUME TripAssumption == /\ TripScore \in Nat \ {0}
                         /\ Weight["WEDGE"] >= TripScore

ASSUME TimeAssumption == /\ InitialOpen \in Nat \ {0}
                         /\ MaxOpen \in Nat
                         /\ InitialOpen <= MaxOpen
                         /\ ProbeInterval \in Nat
                         /\ Probation \in Nat
                         /\ MaxLag \in Nat

ASSUME ProbesAssumption == ProbesToClose \in Nat \ {0}

ASSUME NeverAssumption == Never \notin Int

-----------------------------------------------------------------------------
Lesser(x, y) == IF x <= y THEN x ELSE y
Larger(x, y) == IF x >= y THEN x ELSE y

\* The elapsed times beyond which no comparison below can tell two values apart.
OpenedCap == MaxOpen + MaxLag
ProbedCap == ProbeInterval + MaxLag
ClosedCap == Probation + MaxLag

Breakers == [state               : BreakerState,
             score               : Nat,
             opened_ago          : 0..OpenedCap \cup {Never},
             open_sec            : InitialOpen..MaxOpen,
             good_probes         : Nat,
             probed_ago          : 0..ProbedCap \cup {Never},
             closed_ago          : 0..ClosedCap,
             wedge_confirmations : Nat]

\* probation_until starts at 0.0, long past on any running clock.
NewBreaker == [state               |-> "CLOSED",
               score               |-> 0,
               opened_ago          |-> Never,
               open_sec            |-> InitialOpen,
               good_probes         |-> 0,
               probed_ago          |-> Never,
               closed_ago          |-> ClosedCap,
               wedge_confirmations |-> 0]

OnProbation(b, lag) == b.closed_ago - lag < Probation

\* Fault: the two thresholds swapped.
ThresholdSwapped(b, lag) ==
    IF OnProbation(b, lag) THEN TripScore ELSE Larger(1, TripScore \div 2)

Threshold(b, lag) ==
    IF OnProbation(b, lag) THEN Larger(1, TripScore \div 2) ELSE TripScore

Allows(b) == b.state = "CLOSED"

-----------------------------------------------------------------------------
\* Fault: the time of the trip is not kept.
OpenedUndated(b, lag) == [b EXCEPT !.state       = "OPEN",
                                   !.good_probes = 0,
                                   !.probed_ago  = Never]

Opened(b, lag) == [b EXCEPT !.state       = "OPEN",
                            !.opened_ago  = lag,
                            !.good_probes = 0,
                            !.probed_ago  = Never]

\* Fault: the score of the outage is carried into service.
ClosedKeepingScore(b) == [b EXCEPT !.state               = "CLOSED",
                                   !.good_probes         = 0,
                                   !.opened_ago          = Never,
                                   !.open_sec            = InitialOpen,
                                   !.wedge_confirmations = 0,
                                   !.closed_ago          = 0]

Closed(b) == [b EXCEPT !.state               = "CLOSED",
                       !.score               = 0,
                       !.good_probes         = 0,
                       !.opened_ago          = Never,
                       !.open_sec            = InitialOpen,
                       !.wedge_confirmations = 0,
                       !.closed_ago          = 0]

\* Fault: a success closes the breaker, as if the request had been its probe.
RecordSuccessCloses(b) == IF Allows(b) THEN [b EXCEPT !.score = 0] ELSE Closed(b)

RecordSuccess(b) == [b EXCEPT !.score = 0, !.wedge_confirmations = 0]

\* Fault: a failure that lands on an open breaker opens it again.
RecordFailureAnyState(b, kind, lag) ==
    LET charged == [b EXCEPT !.score = @ + Weight[kind]]
    IN  IF Weight[kind] # 0 /\ charged.score >= Threshold(b, lag)
        THEN Opened(charged, lag) ELSE charged

\* The score is charged in every state; only a closed breaker can trip.
RecordFailure(b, kind, lag) ==
    LET charged == [b EXCEPT !.score = @ + Weight[kind]]
        trips   == /\ Weight[kind] # 0
                   /\ Allows(b)
                   /\ charged.score >= Threshold(b, lag)
    IN  IF trips THEN Opened(charged, lag) ELSE charged

\* The first confirmation is only counted; a later one is a failure.
RecordWedge(b, suspected, lag) ==
    LET seen == [b EXCEPT !.wedge_confirmations = IF suspected THEN @ + 1 ELSE 0]
    IN  IF seen.wedge_confirmations > 1 /\ Allows(b)
        THEN RecordFailure(seen, "WEDGE", lag)
        ELSE seen

\* Fault: a half-open breaker is due on the open breaker's timer.
DueForProbeOneTimer(b, lag) ==
    /\ ~Allows(b)
    /\ b.opened_ago # Never
    /\ b.opened_ago - lag >= b.open_sec

DueForProbe(b, lag) ==
    \/ /\ b.state = "OPEN"
       /\ b.opened_ago # Never
       /\ b.opened_ago - lag >= b.open_sec
    \/ /\ b.state = "HALF_OPEN"
       /\ \/ b.probed_ago = Never
          \/ b.probed_ago - lag >= ProbeInterval

\* Fault: the backoff doubles without its cap.
ReopenedUncapped(b) == [b EXCEPT !.state       = "OPEN",
                                 !.opened_ago  = 0,
                                 !.open_sec    = 2 * @,
                                 !.good_probes = 0,
                                 !.probed_ago  = 0]

Reopened(b) == [b EXCEPT !.state       = "OPEN",
                         !.opened_ago  = 0,
                         !.open_sec    = Lesser(2 * @, MaxOpen),
                         !.good_probes = 0,
                         !.probed_ago  = 0]

\* A good probe counts only when no live wedge signal contradicts it.
RecordProbe(b, ok, wedge_suspected) ==
    LET half == [b EXCEPT !.state       = "HALF_OPEN",
                          !.good_probes = @ + 1,
                          !.probed_ago  = 0]
    IN  IF ~ok \/ wedge_suspected
        THEN Reopened(b)
        ELSE IF half.good_probes >= ProbesToClose THEN Closed(half) ELSE half

SecondsUntilProbe(b) ==
    IF b.state = "OPEN" /\ b.opened_ago # Never
    THEN Larger(0, b.open_sec - b.opened_ago)
    ELSE IF b.state # "CLOSED" /\ b.probed_ago # Never
         THEN Larger(0, ProbeInterval - b.probed_ago)
         ELSE 0

-----------------------------------------------------------------------------
\* One unit of time passes for a breaker.
Later(ago, cap) == IF ago = Never THEN Never ELSE Lesser(ago + 1, cap)

Aged(b) == [b EXCEPT !.opened_ago = Later(@, OpenedCap),
                     !.probed_ago = Later(@, ProbedCap),
                     !.closed_ago = Later(@, ClosedCap)]

-----------------------------------------------------------------------------
(***************************************************************************)
(* What holds of a breaker between any two calls.                          *)
(***************************************************************************)
\* A replica still in rotation has not collected a score that should have
\* tripped it, at the threshold in force now (half of it on probation).
ClosedBelowThreshold(b) == Allows(b) => b.score < Threshold(b, 0)

\* Nothing of an outage survives into service, and an outage always has the
\* timestamps its own probe schedule is computed from.
OutageShape(b) ==
    /\ Allows(b) <=> b.opened_ago = Never
    /\ Allows(b) => /\ b.open_sec = InitialOpen
                    /\ b.good_probes = 0
                    /\ b.wedge_confirmations <= 1
    /\ b.state = "OPEN" => b.good_probes = 0
    /\ b.state = "HALF_OPEN" => /\ b.good_probes \in 1..(ProbesToClose - 1)
                                /\ b.probed_ago # Never
=============================================================================
