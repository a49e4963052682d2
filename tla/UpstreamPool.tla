---------------------------- MODULE UpstreamPool ----------------------------
(***************************************************************************)
(* The router of gateway/upstream/client.py: pick, one attempt, a bounded  *)
(* retry and the breaker bookkeeping, for concurrent requests over several *)
(* replicas, with the reclose prober of gateway/main.py running beside     *)
(* them.  One process, one event loop: a step runs from one await to the   *)
(* next.  A replica is its position in UPSTREAM_URLS, whose entries are    *)
(* taken to be distinct; an attempt's outcome is up to the replica.        *)
(***************************************************************************)
EXTENDS Breaker, Sequences, FiniteSets

CONSTANTS
    N,              \* len(UPSTREAM_URLS)
    Request,        \* bound: the requests being served at once
    MaxAttempts,    \* MAX_ATTEMPTS
    Second,         \* the units of time in a second, of which Retry-After is a number
    Observed,       \* bound: the outcomes the replicas produce
    BreakerEnabled, \* BREAKER_ENABLED
    None            \* Python's None

Replica == 1..N

ASSUME PoolAssumption == /\ N \in Nat \ {0}
                         /\ MaxAttempts \in Nat \ {0}
                         /\ Second \in Nat \ {0}
                         /\ BreakerEnabled \in BOOLEAN
                         /\ None \notin Replica

VARIABLES
    breakers,   \* BreakerRegistry: replica -> its breaker
    next,       \* _next, the round-robin counter
    request,    \* the coroutine serving each request
    prober      \* the coroutine of _breaker_prober

vars == <<breakers, next, request, prober>>

-----------------------------------------------------------------------------
(***************************************************************************)
(* Outcomes of one attempt.  A "broken_reply" is any exception other than  *)
(* a read timeout raised after the request was on the wire (ReadError,     *)
(* RemoteProtocolError); "unavailable" stands for 502, 503 and 504.        *)
(***************************************************************************)
Raised == {"connect_error", "broken_reply", "read_timeout"}
Responses == {"ok", "throttled", "client_error", "server_error", "unavailable"}
Outcome == Raised \cup Responses

ASSUME ObservedAssumption == Observed \subseteq Outcome

\* classify(): None for a success.
Classify(o) == CASE o = "ok"                             -> None
                 [] o = "read_timeout"                   -> "READ_TIMEOUT"
                 [] o \in {"connect_error", "broken_reply"} -> "CONNECT"
                 [] o = "throttled"                      -> "THROTTLED"
                 [] o = "client_error"                   -> "CLIENT_ERROR"
                 [] o \in {"server_error", "unavailable"} -> "SERVER_ERROR"

\* Fault: every exception is retried.
ShouldRetryAnyException(o) == o \in Raised \cup {"throttled", "unavailable"}

ShouldRetry(o) == IF o \in Raised THEN Classify(o) = "CONNECT"
                                  ELSE o \in {"throttled", "unavailable"}

\* record(): fold one outcome into a breaker, with a fresh clock.
Folded(b, o) == IF Classify(o) = None THEN RecordSuccess(b)
                                      ELSE RecordFailure(b, Classify(o), 0)

-----------------------------------------------------------------------------
(***************************************************************************)
(* The state of a request.  `log` is the replicas and outcomes of the      *)
(* attempts it has given up on, of which the code keeps the last; `wait`   *)
(* is what is left of the Retry-After its caller was given, a whole number *)
(* of seconds when it was given.                                           *)
(***************************************************************************)
Entry == [url : Replica, outcome : Outcome]

Stages == {"new", "sending", "backoff", "done"}
Results == {"ok", "status", "unreachable", "all_open"}

ASSUME NoneAssumption == None \notin Results

RequestState == [pc       : Stages,
                 upstream : Replica \cup {None},
                 exclude  : Replica \cup {None},
                 log      : Seq(Entry),
                 result   : Results \cup {None},
                 wait     : 0..(Larger(MaxOpen, ProbeInterval) + Second)]

NewRequest == [pc |-> "new", upstream |-> None, exclude |-> None,
               log |-> <<>>, result |-> None, wait |-> 0]

Finished(result) == [NewRequest EXCEPT !.pc = "done", !.result = result]

\* at = 0 while the prober sleeps, else the replica whose probe it awaits;
\* lag is the age of the clock it read when its pass began.
ProberState == [at : 0..N, lag : 0..MaxLag]

TypeOK == /\ breakers \in [Replica -> Breakers]
          /\ next \in 0..(N - 1)
          /\ request \in [Request -> RequestState]
          /\ prober \in ProberState

Init == /\ breakers = [u \in Replica |-> NewBreaker]
        /\ next = 0
        /\ request = [r \in Request |-> NewRequest]
        /\ prober = [at |-> 0, lag |-> 0]

-----------------------------------------------------------------------------
InRotation == {u \in Replica : Allows(breakers[u])}

\* Fault: no fallback to the excluded replica.
CandidatesStrict(exclude) ==
    IF BreakerEnabled THEN InRotation \ {exclude} ELSE Replica

\* Fault: the fallback takes any replica.
CandidatesAny(exclude) ==
    IF ~BreakerEnabled \/ InRotation \ {exclude} = {}
    THEN Replica ELSE InRotation \ {exclude}

\* The replicas pick() chooses among; the excluded one only as a last resort.
Candidates(exclude) ==
    IF ~BreakerEnabled THEN Replica
    ELSE IF InRotation \ {exclude} # {} THEN InRotation \ {exclude} ELSE InRotation

\* u is candidates[k], the list keeping the order of UPSTREAM_URLS.
IsCandidate(u, k, candidates) ==
    /\ u \in candidates
    /\ Cardinality({v \in candidates : v < u}) = k

\* Fault: the longest wait instead of the shortest.
RetryAfterLongest ==
    CHOOSE w \in {SecondsUntilProbe(breakers[u]) : u \in Replica} :
        \A u \in Replica : w >= SecondsUntilProbe(breakers[u])

\* min() over the replicas' seconds_until_probe.
RetryAfter ==
    CHOOSE w \in {SecondsUntilProbe(breakers[u]) : u \in Replica} :
        \A u \in Replica : w <= SecondsUntilProbe(breakers[u])

\* The header the handler makes of it: max(1, ceil(w)) seconds.
Told(w) == Second * Larger(1, (w + Second - 1) \div Second)

\* Fault: a retry that has nowhere to go waits for a replica to come back.
NowhereToRouteFirst(r) ==
    /\ request[r].pc = "new"
    /\ Candidates(request[r].exclude) = {}
    /\ request' = [request EXCEPT ![r] = [Finished("all_open") EXCEPT !.wait = Told(RetryAfter)]]
    /\ UNCHANGED <<breakers, next, prober>>

\* AllReplicasOpen propagates out of pick(), on a first attempt or on a retry.
NowhereToRoute(r) ==
    /\ request[r].pc \in {"new", "backoff"}
    /\ Candidates(request[r].exclude) = {}
    /\ request' = [request EXCEPT ![r] = [Finished("all_open") EXCEPT !.wait = Told(RetryAfter)]]
    /\ UNCHANGED <<breakers, next, prober>>

Attempt(r) ==
    LET candidates == Candidates(request[r].exclude)
    IN  /\ request[r].pc \in {"new", "backoff"}
        /\ candidates # {}
        /\ next' = (next + 1) % Cardinality(candidates)
        /\ \E u \in candidates :
             /\ IsCandidate(u, next', candidates)
             /\ request' = [request EXCEPT ![r].pc = "sending", ![r].upstream = u]
        /\ UNCHANGED <<breakers, prober>>

\* What the caller of request() or open_stream() gets.
ResultOf(o) == IF o = "ok" THEN "ok"
               ELSE IF o \in Raised THEN "unreachable" ELSE "status"

\* Fault: the retry does not exclude the replica that failed.
AfterAnswerNoExclude(q, o) ==
    IF Len(q.log) + 1 < MaxAttempts /\ ShouldRetry(o)
    THEN [q EXCEPT !.pc = "backoff",
                   !.log = Append(@, [url |-> q.upstream, outcome |-> o])]
    ELSE Finished(ResultOf(o))

\* What _with_retry does with an outcome: back off and try again, or return it.
AfterAnswer(q, o) ==
    IF Len(q.log) + 1 < MaxAttempts /\ ShouldRetry(o)
    THEN [q EXCEPT !.pc = "backoff", !.exclude = q.upstream,
                   !.log = Append(@, [url |-> q.upstream, outcome |-> o])]
    ELSE Finished(ResultOf(o))

\* _send_and_record resumes, records, and _with_retry decides: no await between.
Answer(r, o) ==
    /\ request[r].pc = "sending"
    /\ breakers' = [breakers EXCEPT ![request[r].upstream] = Folded(@, o)]
    /\ request' = [request EXCEPT ![r] = AfterAnswer(@, o)]
    /\ UNCHANGED <<next, prober>>

\* The caller has its response; the slot serves another request.
Again(r) ==
    /\ request[r].pc = "done"
    /\ request' = [request EXCEPT ![r] = NewRequest]
    /\ UNCHANGED <<breakers, next, prober>>

-----------------------------------------------------------------------------
(***************************************************************************)
(* The prober.  Between two awaits it sweeps the replicas from position    *)
(* `from` on, folding the wedge verdict into every closed breaker, up to   *)
(* the first one due for a probe, which it then awaits.                    *)
(***************************************************************************)
Sweep(bs, from, lag, wedged) ==
    LET due  == {u \in from..N : DueForProbe(bs[u], lag)}
        stop == IF due = {} THEN N + 1 ELSE CHOOSE u \in due : \A v \in due : u <= v
    IN  /\ breakers' = [u \in Replica |->
                          IF u \in from..(stop - 1) /\ Allows(bs[u])
                          THEN RecordWedge(bs[u], u \in wedged, lag) ELSE bs[u]]
        /\ prober' = IF due = {} THEN [at |-> 0, lag |-> 0] ELSE [at |-> stop, lag |-> lag]

\* A pass begins: the one reading of the clock.
Wake(wedged) == /\ prober.at = 0
                /\ Sweep(breakers, 1, 0, wedged)
                /\ UNCHANGED <<next, request>>

\* Fault: the pass ends with the first probe.
ProbeAnsweredEndsPass(ok, wedged) ==
    /\ prober.at # 0
    /\ breakers' = [breakers EXCEPT ![prober.at] = RecordProbe(@, ok, prober.at \in wedged)]
    /\ prober' = [at |-> 0, lag |-> 0]
    /\ UNCHANGED <<next, request>>

\* The probe is folded in with a fresh clock; the sweep goes on with the old one.
ProbeAnswered(ok, wedged) ==
    /\ prober.at # 0
    /\ LET u  == prober.at
           bs == [breakers EXCEPT ![u] = RecordProbe(@, ok, u \in wedged)]
       IN  Sweep(bs, u + 1, prober.lag, wedged)
    /\ UNCHANGED <<next, request>>

\* Time passes; a pass in progress is never older than its probes' timeouts.
Tick == /\ prober.at # 0 => prober.lag < MaxLag
        /\ breakers' = [u \in Replica |-> Aged(breakers[u])]
        /\ prober' = IF prober.at = 0 THEN prober ELSE [prober EXCEPT !.lag = @ + 1]
        /\ request' = [r \in Request |-> [request[r] EXCEPT !.wait = Larger(0, @ - 1)]]
        /\ UNCHANGED next

-----------------------------------------------------------------------------
Serve(r) == \/ NowhereToRoute(r)
            \/ Attempt(r)

Resolve(r) == \E o \in Observed : Answer(r, o)

Next == \/ \E r \in Request : Serve(r) \/ Resolve(r) \/ Again(r)
        \/ \E wedged \in SUBSET Replica : Wake(wedged)
        \/ \E ok \in BOOLEAN, wedged \in SUBSET Replica : ProbeAnswered(ok, wedged)
        \/ Tick

Fairness ==
    /\ \A r \in Request : WF_vars(Serve(r)) /\ WF_vars(Resolve(r))
    /\ WF_vars(\E wedged \in SUBSET Replica : Wake(wedged))
    /\ WF_vars(\E ok \in BOOLEAN, wedged \in SUBSET Replica : ProbeAnswered(ok, wedged))
    /\ WF_vars(Tick)

Spec == Init /\ [][Next]_vars

\* Every await of the loop ends: requests and probes are answered or time out, the
\* backoff and the prober's sleep run out, and the clock does not stop.
FairSpec == Spec /\ Fairness
-----------------------------------------------------------------------------
(***************************************************************************)
(* Properties.                                                             *)
(***************************************************************************)
\* Every breaker is sound whoever called it last, and a probe in flight is one of
\* a replica that is still out: requests and the prober share the breakers across
\* the prober's await (main.py:69-73).
BreakersSound == /\ \A u \in Replica : /\ ClosedBelowThreshold(breakers[u])
                                       /\ OutageShape(breakers[u])
                 /\ prober.at # 0 => ~Allows(breakers[prober.at])

\* The outcomes after which the replica may be working on the request all the same.
MayBeRunning == {"read_timeout", "broken_reply"}

\* A request is attempted at most MaxAttempts times and never again once it has an
\* answer that is the caller's.  While the replica may still be decoding it, it is
\* repeated in one case only: after a reply that broke off, which _should_retry
\* (client.py:166-177) takes for a failed connect.
BoundedRetries ==
    \A r \in Request :
        /\ Len(request[r].log) < MaxAttempts
        /\ \A i \in 1..Len(request[r].log) :
              LET o == request[r].log[i].outcome
              IN  /\ o \notin {"ok", "client_error", "server_error"}
                  /\ o \in MayBeRunning => o = "broken_reply"

\* "`exclude` cannot manufacture an outage when a retry has nowhere else to go"
\* (client.py:294-296): a request is turned away only when no breaker is closed.
TurnedAwayOnlyWhenAllOpen ==
    [][ \A r \in Request :
          request'[r].result = "all_open" /\ request[r].result # "all_open"
          => BreakerEnabled /\ InRotation = {} ]_vars

\* A retry goes to the replica that has just failed only when that is the only
\* one in rotation at that moment, whatever tripped during the backoff.
RetryGoesElsewhere ==
    [][ \A r \in Request :
          /\ BreakerEnabled
          /\ request[r].pc = "backoff" /\ request'[r].pc = "sending"
          /\ request'[r].upstream = request[r].log[Len(request[r].log)].url
          => InRotation = {request'[r].upstream} ]_vars

Sending(u) == {r \in Request : request[r].pc = "sending" /\ request[r].upstream = u}

\* While a replica is out of rotation the attempts in flight to it only drain:
\* "no request is ever used as an experiment" (breaker.py:119-125).
OutageTakesNoTraffic ==
    [][ BreakerEnabled => \A u \in Replica :
          ~Allows(breakers[u]) => Sending(u)' \subseteq Sending(u) ]_vars

\* Retry-After keeps a caller away at most a second longer than the outage lasts,
\* which is what its rounding (chat.py:186) adds: when a replica comes back, no wait
\* handed out has more than that left, whichever replicas tripped or failed their
\* probes since.
RetryAfterNotTooLong ==
    [][ \A u \in Replica : ~Allows(breakers[u]) /\ Allows(breakers'[u])
          => \A r \in Request : request[r].wait <= Second ]_vars

\* A replica due for its reclose probe is probed, although one task probes all of
\* them in turn and awaits each answer.
EveryOutageProbed ==
    \A u \in Replica : DueForProbe(breakers[u], 0) ~> prober.at = u

\* No request is lost between its attempts.
EveryRequestEnds ==
    \A r \in Request : request[r].pc \in {"sending", "backoff"} ~> request[r].pc = "done"
=============================================================================
