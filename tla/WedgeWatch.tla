----------------------------- MODULE WedgeWatch -----------------------------
(***************************************************************************)
(* How a wedged engine leaves rotation and comes back.  The scrape loop    *)
(* samples the engine's counters (gateway/upstream/metrics_scraper.py),    *)
(* the detector dates the stall they show, and the prober of               *)
(* gateway/main.py, on a timer of its own, folds the detector's verdict    *)
(* into the breaker: two confirmations trip it, a live signal blocks its   *)
(* reclose.  Scraper and prober share nothing but the detector.            *)
(***************************************************************************)
EXTENDS Breaker

CONSTANTS
    Window,         \* UPSTREAM_WEDGE_WINDOW_SEC
    ScrapeTimeout   \* UPSTREAM_METRICS_TIMEOUT_SEC

ASSUME WedgeAssumption == /\ Window \in Nat \ {0}
                          /\ ScrapeTimeout \in Nat

VARIABLES
    engine,      \* the vLLM engine: is it wedged, is anything waiting, and
                 \* where its token counter stands to the last value scraped
    scrape,      \* age of the clock read by the scrape in flight, or Never
    detector,    \* WedgeDetector: has it a previous value, since when a stall
    breaker,     \* the replica's ReplicaBreaker
    probing,     \* does the prober await a reclose probe?
    idle_for,    \* history: how long the engine has made no token
    sample,      \* history: what the last useful scrape found, and how long ago;
                 \* has the stall it shows outlived a counter gone back?
    fresh        \* history: a useful scrape since the first wedge confirmation?

vars == <<engine, scrape, detector, breaker, probing, idle_for, sample, fresh>>

\* A stall is dated with a clock read before the scrape was awaited.
StallCap == Window + ScrapeTimeout

\* The counter stands where it was scraped, above or below that, or, after a restart,
\* at exactly the value it was scraped with: 0 in a crash loop, or by chance.
Counter == {"same", "more", "less", "back"}

TypeOK == /\ engine \in [wedged : BOOLEAN, waiting : BOOLEAN, counter : Counter]
          /\ scrape \in 0..ScrapeTimeout \cup {Never}
          /\ detector \in [previous : BOOLEAN, stall_ago : 0..StallCap \cup {Never}]
          /\ breaker \in Breakers
          /\ probing \in BOOLEAN
          /\ idle_for \in 0..StallCap
          /\ sample \in [idle : 0..StallCap, waiting : BOOLEAN, ago : 0..StallCap,
                       back : BOOLEAN]
          /\ fresh \in BOOLEAN

Init == /\ engine = [wedged |-> FALSE, waiting |-> FALSE, counter |-> "same"]
        /\ scrape = Never
        /\ detector = [previous |-> FALSE, stall_ago |-> Never]
        /\ breaker = NewBreaker
        /\ probing = FALSE
        /\ idle_for = 0
        /\ sample = [idle |-> 0, waiting |-> FALSE, ago |-> 0, back |-> FALSE]
        /\ fresh = FALSE

\* wedge_suspected() reads the clock itself, so the verdict ages between scrapes.
Suspected == detector.stall_ago # Never /\ detector.stall_ago >= Window

-----------------------------------------------------------------------------
(***************************************************************************)
(* The engine.                                                             *)
(***************************************************************************)
\* A restarted counter that grows may reach the last value scraped, and pass it.
Works == /\ ~engine.wedged
         /\ \E c \in IF engine.counter = "less" THEN {"less", "back", "more"} ELSE {"more"} :
              engine' = [engine EXCEPT !.counter = c]
         /\ idle_for' = 0
         /\ UNCHANGED <<scrape, detector, breaker, probing, sample, fresh>>

Queue == /\ engine' = [engine EXCEPT !.waiting = ~@]
         /\ UNCHANGED <<scrape, detector, breaker, probing, idle_for, sample, fresh>>

Wedges == /\ ~engine.wedged
          /\ engine' = [engine EXCEPT !.wedged = TRUE]
          /\ UNCHANGED <<scrape, detector, breaker, probing, idle_for, sample, fresh>>

\* The counter starts again from zero, which may be all that was scraped of it.
Restarts == /\ \E c \in CASE engine.counter = "less" -> {"less"}
                        [] engine.counter = "same" -> {"less", "same"}
                        [] OTHER -> {"less", "back"} :
                 engine' = [wedged |-> FALSE, waiting |-> FALSE, counter |-> c]
            /\ UNCHANGED <<scrape, detector, breaker, probing, idle_for, sample, fresh>>

-----------------------------------------------------------------------------
(***************************************************************************)
(* The scrape loop.                                                        *)
(***************************************************************************)
ScrapeStarts == /\ scrape = Never
                /\ scrape' = 0
                /\ UNCHANGED <<engine, detector, breaker, probing, idle_for, sample, fresh>>

\* All that the detector sees of it: gen == previous.
Unmoved(counter) == counter \in {"same", "back"}

\* Fault: a counter that went backwards is not told from one that stood still.
ObservedBackwards(d, waiting, counter, lag) ==
    [previous  |-> TRUE,
     stall_ago |-> IF ~d.previous THEN d.stall_ago
                   ELSE IF waiting /\ counter # "more"
                        THEN IF d.stall_ago = Never THEN lag ELSE d.stall_ago
                        ELSE Never]

\* Fault: a stall is never forgotten.
ObservedSticky(d, waiting, counter, lag) ==
    [previous  |-> TRUE,
     stall_ago |-> IF d.stall_ago = Never /\ d.previous /\ waiting /\ Unmoved(counter)
                   THEN lag ELSE d.stall_ago]

\* observe(): the first value says nothing; a later one starts, keeps or ends a stall.
Observed(d, waiting, counter, lag) ==
    [previous  |-> TRUE,
     stall_ago |-> IF ~d.previous THEN d.stall_ago
                   ELSE IF waiting /\ Unmoved(counter)
                        THEN IF d.stall_ago = Never THEN lag ELSE d.stall_ago
                        ELSE Never]

ScrapeAnswered ==
    /\ scrape # Never
    /\ detector' = Observed(detector, engine.waiting, engine.counter, scrape)
    /\ engine' = [engine EXCEPT !.counter = "same"]
    /\ sample' = [idle |-> idle_for, waiting |-> engine.waiting, ago |-> 0,
                  back |-> /\ detector.stall_ago # Never /\ detector'.stall_ago # Never
                           /\ sample.back \/ engine.counter = "back"]
    /\ fresh' = TRUE
    /\ scrape' = Never
    /\ UNCHANGED <<breaker, probing, idle_for>>

\* A failed scrape, or one without the token counter, is no information.
ScrapeFailed == /\ scrape # Never
                /\ scrape' = Never
                /\ UNCHANGED <<engine, detector, breaker, probing, idle_for, sample, fresh>>

-----------------------------------------------------------------------------
(***************************************************************************)
(* The prober, and the requests that keep succeeding meanwhile.            *)
(***************************************************************************)
\* The first confirmation opens the wait for the next scrape.
Watch == /\ ~probing
         /\ Allows(breaker)
         /\ breaker' = RecordWedge(breaker, Suspected, 0)
         /\ fresh' = IF breaker'.wedge_confirmations = 1 THEN FALSE ELSE fresh
         /\ UNCHANGED <<engine, scrape, detector, probing, idle_for, sample>>

ProbeStarts == /\ ~probing
               /\ DueForProbe(breaker, 0)
               /\ probing' = TRUE
               /\ UNCHANGED <<engine, scrape, detector, breaker, idle_for, sample, fresh>>

\* Fault: the verdict of the detector is not consulted.
ProbeAnsweredTrusting(ok) ==
    /\ probing
    /\ breaker' = RecordProbe(breaker, ok, FALSE)
    /\ probing' = FALSE
    /\ UNCHANGED <<engine, scrape, detector, idle_for, sample, fresh>>

\* A wedged engine's API server answers the probe all the same.
ProbeAnswered(ok) ==
    /\ probing
    /\ breaker' = RecordProbe(breaker, ok, Suspected)
    /\ probing' = FALSE
    /\ UNCHANGED <<engine, scrape, detector, idle_for, sample, fresh>>

\* A request is recorded as a success: a stream as soon as its headers are in, which
\* takes no token of the engine, and a request sent before a trip whenever it ends.
RequestSucceeds == /\ breaker' = RecordSuccess(breaker)
                   /\ UNCHANGED <<engine, scrape, detector, probing, idle_for, sample, fresh>>

-----------------------------------------------------------------------------
Tick == /\ scrape # Never => scrape < ScrapeTimeout
        /\ scrape' = IF scrape = Never THEN Never ELSE scrape + 1
        /\ detector' = [detector EXCEPT !.stall_ago = Later(@, StallCap)]
        /\ breaker' = Aged(breaker)
        /\ idle_for' = Later(idle_for, StallCap)
        /\ sample' = [sample EXCEPT !.ago = Later(@, StallCap)]
        /\ UNCHANGED <<engine, probing, fresh>>

Next == \/ Works \/ Queue \/ Wedges \/ Restarts
        \/ ScrapeStarts \/ ScrapeAnswered \/ ScrapeFailed
        \/ Watch \/ ProbeStarts \/ \E ok \in BOOLEAN : ProbeAnswered(ok)
        \/ RequestSucceeds
        \/ Tick

\* The loops run: a scrape and a probe are answered or time out, the sleeps
\* between them end, and time passes.
Spec == /\ Init /\ [][Next]_vars
        /\ WF_vars(ScrapeStarts)
        /\ WF_vars(ScrapeAnswered \/ ScrapeFailed)
        /\ WF_vars(Watch)
        /\ WF_vars(ProbeStarts)
        /\ WF_vars(\E ok \in BOOLEAN : ProbeAnswered(ok))
        /\ WF_vars(Tick)

-----------------------------------------------------------------------------
(***************************************************************************)
(* Properties.                                                             *)
(***************************************************************************)
\* What a live signal really says: at the last useful scrape something was waiting
\* and, going back from now, no token had been made for the window, give or take the
\* clock read before that scrape; the time since that scrape counts, whatever the
\* engine does or has become (stall_seconds, metrics_scraper.py:154-158).  One thing
\* else passes for a stall: a restarted engine whose counter a scrape found exactly
\* on the last value (metrics_scraper.py:131-140).
SuspicionIsDated ==
    Suspected => /\ sample.waiting
                 /\ \/ sample.idle + sample.ago >= Window - ScrapeTimeout
                    \/ sample.back

\* A reclose never happens under a live signal, nor on fewer good probes than the
\* code asks for: a wedged engine answers every probe (breaker.py:191-195).
NoRecloseUnderSignal ==
    [][ ~Allows(breaker) /\ Allows(breaker')
        => ~Suspected /\ breaker.good_probes + 1 = ProbesToClose ]_vars

ScrapesGetThrough == []<><<ScrapeAnswered>>_vars

Stuck == engine.wedged /\ engine.waiting

\* Requests stop reporting successes; a stream to a wedged engine reports one.
SuccessesStop == <>[][~RequestSucceeds]_vars

\* An engine that stays wedged with work waiting leaves rotation and stays out,
\* although it answers its probes, as long as scrapes get through now and then: the
\* wedge with no request in flight (breaker.py:155-159).  Without SuccessesStop it
\* may stay: each success clears the confirmations the prober counts.
WedgeIsRemoved ==
    <>[]Stuck /\ ScrapesGetThrough /\ SuccessesStop => <>[]~Allows(breaker)

\* An engine that is not wedged any more and has nothing waiting comes back, if its
\* probes answer and scrapes get through: the signal that took it out does not keep
\* it out.
WedgeIsForgiven ==
    /\ <>[](~engine.wedged /\ ~engine.waiting)
    /\ ScrapesGetThrough
    /\ <>[][~(probing /\ ~probing' /\ ~Suspected /\ breaker' = Reopened(breaker))]_vars
    => []<>Allows(breaker)
=============================================================================
