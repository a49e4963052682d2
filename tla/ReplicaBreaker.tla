--------------------------- MODULE ReplicaBreaker ---------------------------
(***************************************************************************)
(* One replica's breaker between the two actors that call it: the requests *)
(* of UpstreamPool, whose outcomes arrive long after they were sent and    *)
(* whatever has happened to the breaker since, and the prober task of      *)
(* gateway/main.py, which visits the breaker once per pass and awaits a    *)
(* probe in the middle of its visit.  The other replicas appear only as    *)
(* the time their probes cost: a visit may come late and with a stale      *)
(* clock.                                                                  *)
(***************************************************************************)
EXTENDS Breaker

CONSTANTS
    MaxInFlight,   \* bound: attempts in flight to the replica at once
    VisitPeriod,   \* longest time from one visit of the prober to the next
    ProbeTimeout   \* UPSTREAM_PROBE_TIMEOUT_SEC

ASSUME ScheduleAssumption == /\ MaxInFlight \in Nat
                             /\ VisitPeriod \in Nat \ {0}
                             /\ ProbeTimeout \in Nat
                             /\ MaxLag <= InitialOpen

VARIABLES
    breaker,     \* the ReplicaBreaker object
    inflight,    \* attempts sent and not yet answered
    prober,      \* "away", or "probing" while it awaits pool.probe(url)
    visit_ago,   \* time since the prober arrived at or left the breaker
    healthy,     \* does the replica answer probes, with no wedge signal?
    strikes,     \* history: failures since the last success or reclose, up to 2
    out_for,     \* history: how long the outage has lasted, up to MinOutage
    sound_for    \* history: how long it was out although healthy

vars == <<breaker, inflight, prober, visit_ago, healthy, strikes, out_for, sound_for>>

\* The outcomes a request can report; WEDGE comes from the prober alone.
RequestFailure == FailureKind \ {"WEDGE"}

\* In the table of weights only a confirmed wedge is "enough to trip alone".
ASSUME OneFailureAssumption == \A kind \in RequestFailure : Weight[kind] < TripScore

\* The shortest outage the constants allow: a first probe InitialOpen after a
\* trip whose clock may be MaxLag old, and ProbeInterval between good probes.
MinOutage == InitialOpen - MaxLag + (ProbesToClose - 1) * ProbeInterval

\* The longest a healthy replica can stay OPEN, and stay out of rotation: one
\* probe begun before it recovered, the longest backoff and the prober's delays.
ProbeDelay == MaxLag + VisitPeriod + ProbeTimeout
FoundWithin == ProbeTimeout + MaxOpen + ProbeDelay
BackWithin == FoundWithin + (ProbesToClose - 1) * (ProbeInterval + ProbeDelay)

TypeOK == /\ breaker \in Breakers
          /\ inflight \in 0..MaxInFlight
          /\ prober \in {"away", "probing"}
          /\ visit_ago \in Nat
          /\ healthy \in BOOLEAN
          /\ strikes \in 0..2
          /\ out_for \in 0..MinOutage
          /\ sound_for \in 0..(BackWithin + 1)

Init == /\ breaker = NewBreaker
        /\ inflight = 0
        /\ prober = "away"
        /\ visit_ago = 0
        /\ healthy = TRUE
        /\ strikes = 0
        /\ out_for = 0
        /\ sound_for = 0

-----------------------------------------------------------------------------
\* History kept by every call that replaces the breaker by b.
Replace(b) == /\ breaker' = b
              /\ IF Allows(b) = Allows(breaker)
                 THEN UNCHANGED <<out_for, sound_for>>
                 ELSE out_for' = 0 /\ sound_for' = 0

\* UpstreamPool.pick admits a closed breaker only.
Send == /\ Allows(breaker)
        /\ inflight < MaxInFlight
        /\ inflight' = inflight + 1
        /\ UNCHANGED <<breaker, prober, visit_ago, healthy, strikes, out_for, sound_for>>

Succeed == /\ inflight > 0
           /\ inflight' = inflight - 1
           /\ Replace(RecordSuccess(breaker))
           /\ strikes' = 0
           /\ UNCHANGED <<prober, visit_ago, healthy>>

Fail(kind) == /\ inflight > 0
              /\ inflight' = inflight - 1
              /\ Replace(RecordFailure(breaker, kind, 0))
              /\ strikes' = IF Weight[kind] = 0 THEN strikes ELSE Lesser(strikes + 1, 2)
              /\ UNCHANGED <<prober, visit_ago, healthy>>

-----------------------------------------------------------------------------
\* How old the clock of this pass may be when the visit begins.
PassLag == 0..Lesser(MaxLag, visit_ago)

\* A closed breaker is only asked about the wedge signature.
Watch(suspected, lag) ==
    /\ prober = "away"
    /\ Allows(breaker)
    /\ suspected => ~healthy
    /\ Replace(RecordWedge(breaker, suspected, lag))
    /\ visit_ago' = 0
    /\ UNCHANGED <<inflight, prober, healthy, strikes>>

PassBy(lag) ==
    /\ prober = "away"
    /\ ~Allows(breaker)
    /\ ~DueForProbe(breaker, lag)
    /\ visit_ago' = 0
    /\ UNCHANGED <<breaker, inflight, prober, healthy, strikes, out_for, sound_for>>

StartProbe(lag) ==
    /\ prober = "away"
    /\ DueForProbe(breaker, lag)
    /\ prober' = "probing"
    /\ visit_ago' = 0
    /\ UNCHANGED <<breaker, inflight, healthy, strikes, out_for, sound_for>>

\* A probe begun while the replica was down may still report it down.
FinishProbe(ok, suspected) ==
    /\ prober = "probing"
    /\ ~ok \/ suspected => ~healthy \/ sound_for <= visit_ago
    /\ Replace(RecordProbe(breaker, ok, suspected))
    /\ strikes' = IF Allows(breaker') THEN 0 ELSE strikes
    /\ prober' = "away"
    /\ visit_ago' = 0
    /\ UNCHANGED <<inflight, healthy>>

-----------------------------------------------------------------------------
\* The replica fails, or recovers.
Turn == /\ healthy' = ~healthy
        /\ sound_for' = 0
        /\ UNCHANGED <<breaker, inflight, prober, visit_ago, strikes, out_for>>

\* Time passes, but never past the point where the prober must act: the event
\* loop is responsive and a probe gives up after ProbeTimeout.
Tick == /\ visit_ago < IF prober = "probing" THEN ProbeTimeout ELSE VisitPeriod
        /\ visit_ago' = visit_ago + 1
        /\ breaker' = Aged(breaker)
        /\ out_for' = IF Allows(breaker) THEN out_for ELSE Lesser(out_for + 1, MinOutage)
        /\ sound_for' = IF healthy /\ ~Allows(breaker)
                        THEN Lesser(sound_for + 1, BackWithin + 1) ELSE sound_for
        /\ UNCHANGED <<inflight, prober, healthy, strikes>>

Visit == \E lag \in PassLag : \/ \E s \in BOOLEAN : Watch(s, lag)
                              \/ PassBy(lag)
                              \/ StartProbe(lag)

Answer == \E ok, s \in BOOLEAN : FinishProbe(ok, s)

Next == \/ Send
        \/ Succeed
        \/ \E kind \in RequestFailure : Fail(kind)
        \/ Visit
        \/ Answer
        \/ Turn
        \/ Tick

\* The event loop keeps running: time passes, the prober's task is scheduled
\* again after its sleep, and a probe is answered or times out.
Spec == Init /\ [][Next]_vars /\ WF_vars(Tick) /\ WF_vars(Visit) /\ WF_vars(Answer)

-----------------------------------------------------------------------------
(***************************************************************************)
(* Properties.                                                             *)
(***************************************************************************)
\* A replica in rotation never carries a score that should have taken it out,
\* whichever outcomes arrive late, from before an outage, and whenever the
\* threshold changes with probation (record_failure, _close, threshold).
ScoreBelowThreshold == ClosedBelowThreshold(breaker)

\* The verdict of an awaited probe never lands on a breaker that something else
\* closed meanwhile, and the breaker keeps the timestamps its next probe is
\* computed from: record_probe reopens or closes what due_for_probe chose.
ProbeOwnsOutage == /\ prober = "probing" => ~Allows(breaker)
                   /\ OutageShape(breaker)

\* Outside probation no single outcome takes a replica out: since the last
\* success or reclose at least two have failed ("1.5x is not enough margin to
\* act on one", breaker.py:57).
DeliberateTrip ==
    [][ /\ Allows(breaker) /\ ~Allows(breaker')
        /\ inflight' < inflight
        /\ ~OnProbation(breaker, 0)
        => strikes' = 2 ]_vars

\* The outcome of an attempt sent before the trip decides nothing about the
\* outage: not its state, its backoff, its streak or its probe schedule.
LateOutcomesInert ==
    [][ ~Allows(breaker) /\ inflight' < inflight
        => breaker' = [breaker EXCEPT !.score = breaker'.score,
                                      !.wedge_confirmations = breaker'.wedge_confirmations] ]_vars

\* A replica that is healthy again is found, and back in rotation, within the
\* longest backoff plus the prober's own delays ("a genuinely restarted pod is
\* found within a minute of being ready", breaker.py:87-89).
RecoversInTime == /\ breaker.state = "OPEN" => sound_for <= FoundWithin
                  /\ ~Allows(breaker) => sound_for <= BackWithin

\* Reclose is automatic and unattended: a replica that stays healthy does not
\* stay out of rotation.
Recloses == <>[]healthy => []<>Allows(breaker)

\* The breaker implements the contract the router relies on.
Contract == INSTANCE ReplicaContract
            WITH serving <- Allows(breaker), streak <- breaker.good_probes

ImplementsContract == Contract!Spec
=============================================================================
