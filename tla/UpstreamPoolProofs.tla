------------------------- MODULE UpstreamPoolProofs -------------------------
(***************************************************************************)
(* Theorems about UpstreamPool, for every number of replicas and requests, *)
(* every choice of the outcomes the replicas produce and every clock lag:  *)
(* shared breakers stay sound, retries are bounded, and what the           *)
(* router promises of an outage holds whatever the prober does meanwhile.  *)
(***************************************************************************)
EXTENDS UpstreamPool, BreakerProofs, FiniteSetTheorems, WellFoundedInduction

\* The outcomes _should_retry lets through.
Retried == {"connect_error", "broken_reply", "throttled", "unavailable"}

(***************************************************************************)
(* The inductive invariant, by actor.  A request: what its coroutine holds *)
(* between two awaits is consistent with the attempts it has given up on.  *)
(***************************************************************************)
RequestInv(q) ==
    /\ q.pc = "sending" => q.upstream # None
    /\ q.pc = "backoff" => q.log # <<>> /\ q.exclude = q.log[Len(q.log)].url
    /\ Len(q.log) < MaxAttempts
    /\ \A i \in 1..Len(q.log) : q.log[i].outcome \in Retried

\* A Retry-After with more than a second to run: no replica is in rotation, and none
\* will be probed more than a second before the wait is over.
WaitInv(q, bs) ==
    q.wait > Second => \A u \in Replica : /\ ~Allows(bs[u])
                                          /\ q.wait <= SecondsUntilProbe(bs[u]) + Second

\* A probe in flight is one of a replica that is due for it, still.
ProberInv == prober.at # 0 => DueForProbe(breakers[prober.at], 0)

PInv == /\ TypeOK
        /\ \A u \in Replica : SoundBreaker(breakers[u])
        /\ \A r \in Request : /\ RequestInv(request[r])
                             /\ WaitInv(request[r], breakers)
        /\ ProberInv

-----------------------------------------------------------------------------
(***************************************************************************)
(* The operators of the model.                                             *)
(***************************************************************************)
\* A nonempty set of naturals has a least element: min() of a nonempty list.
LEMMA LeastNatural ==
    ASSUME NEW S, S \subseteq Nat, S # {}
    PROVE  \E x \in S : \A y \in S : x <= y
<1>1. IsWellFoundedOn(OpToRel(<, Nat), Nat)
  BY NatLessThanWellFounded
<1>2. PICK x \in S : \A y \in S : ~ (<<y, x>> \in OpToRel(<, Nat))
  BY <1>1, WFMin, Zenon
<1>3. ASSUME NEW y \in S PROVE x <= y
  <2>1. x \in Nat /\ y \in Nat
    OBVIOUS
  <2>2. ASSUME y < x PROVE <<y, x>> \in OpToRel(<, Nat)
    BY <2>1, <2>2 DEF OpToRel
  <2>3. ~ (y < x)
    BY <2>2, <1>2, Zenon
  <2> QED
    BY <2>1, <2>3
<1> QED
  BY <1>3, Zenon

\* The wait handed to a caller is that of no later a probe than any replica's.
LEMMA RetryAfterIsLeast ==
    ASSUME breakers \in [Replica -> Breakers]
    PROVE  /\ RetryAfter \in 0..Larger(MaxOpen, ProbeInterval)
           /\ \A u \in Replica : RetryAfter <= SecondsUntilProbe(breakers[u])
<1> DEFINE waits == {SecondsUntilProbe(breakers[u]) : u \in Replica}
<1>1. \A u \in Replica : SecondsUntilProbe(breakers[u]) \in 0..Larger(MaxOpen, ProbeInterval)
  BY ProbeWaitBounded
<1>2. 1 \in Replica
  BY PoolAssumption DEF Replica
<1>3. waits \subseteq 0..Larger(MaxOpen, ProbeInterval) /\ waits \subseteq Nat /\ waits # {}
  BY <1>1, <1>2
<1>4. \E w \in waits : \A y \in waits : w <= y
  BY <1>3, LeastNatural, Zenon
<1>5. \E w \in waits : \A u \in Replica : w <= SecondsUntilProbe(breakers[u])
  BY <1>4
<1>6. RetryAfter \in waits /\ \A u \in Replica : RetryAfter <= SecondsUntilProbe(breakers[u])
  BY <1>5, Zenon DEF RetryAfter
<1> QED
  BY <1>3, <1>6

\* Rounding adds at most a second to a wait.
LEMMA RoundingAddsASecond ==
    ASSUME NEW w \in 0..Larger(MaxOpen, ProbeInterval)
    PROVE  /\ Told(w) \in 0..(Larger(MaxOpen, ProbeInterval) + Second)
           /\ Told(w) <= w + Second
<1> DEFINE n == (w + Second - 1) \div Second
<1>1. Second \in Nat /\ Second >= 1
  BY PoolAssumption
<1>2. w \in Nat /\ Larger(MaxOpen, ProbeInterval) \in Nat
  BY TimeAssumption DEF Larger
<1>3. n \in Nat /\ Second * n \in Nat /\ Second * n <= w + Second - 1
  BY <1>1, <1>2
<1>4. Told(w) = Second * Larger(1, n)
  BY DEF Told
<1> HIDE DEF n
<1>5. Told(w) \in Nat /\ Told(w) <= w + Second
  <2>1. CASE n > 1
    BY <1>1, <1>2, <1>3, <1>4, <2>1 DEF Larger
  <2>2. CASE ~(n > 1)
    <3>1. Told(w) = Second
      BY <1>1, <1>3, <1>4, <2>2 DEF Larger
    <3> QED
      BY <1>1, <1>2, <3>1
  <2> QED
    BY <2>1, <2>2
<1> QED
  BY <1>1, <1>2, <1>5

\* pick() chooses inside the fleet, and has nowhere to route only when the breakers
\* are enabled and all of them are out.
LEMMA CandidatesShape ==
    ASSUME NEW exclude
    PROVE  /\ Candidates(exclude) \subseteq Replica
           /\ Candidates(exclude) = {} => BreakerEnabled /\ InRotation = {}
           /\ BreakerEnabled => Candidates(exclude) \subseteq InRotation
           /\ BreakerEnabled /\ exclude \in Candidates(exclude) => InRotation = {exclude}
<1>1. 1 \in Replica
  BY PoolAssumption DEF Replica
<1>2. InRotation \subseteq Replica
  BY DEF InRotation
<1> QED
  BY <1>1, <1>2 DEF Candidates

\* The round-robin counter stays inside the fleet, whatever list it indexes.
LEMMA CounterInRange ==
    ASSUME NEW candidates \in SUBSET Replica, candidates # {}, NEW k \in Nat
    PROVE  /\ Cardinality(candidates) \in 1..N
           /\ k % Cardinality(candidates) \in 0..(N - 1)
<1>1. IsFiniteSet(Replica) /\ Cardinality(Replica) = N
  BY FS_Interval, PoolAssumption DEF Replica
<1>2. IsFiniteSet(candidates) /\ Cardinality(candidates) <= N
  BY <1>1, FS_Subset
<1>3. Cardinality(candidates) \in Nat /\ Cardinality(candidates) # 0
  BY <1>2, FS_EmptySet, FS_CardinalityType
<1> QED
  BY <1>2, <1>3, PoolAssumption

\* _should_retry lets these outcomes through, and no other.
LEMMA OnlyTheseRetried ==
    ASSUME NEW o \in Outcome, ShouldRetry(o)
    PROVE  o \in Retried
BY DEF ShouldRetry, Classify, Outcome, Raised, Responses, Retried

\* Recording an outcome keeps a breaker sound and closes none; it leaves the probe
\* schedule of a replica that is out alone.
LEMMA FoldedIsSound ==
    ASSUME NEW b, SoundBreaker(b), NEW o \in Outcome
    PROVE  /\ SoundBreaker(Folded(b, o))
           /\ Allows(Folded(b, o)) => Allows(b)
           /\ ~Allows(b) => SameSchedule(b, Folded(b, o))
<1>1. b \in Breakers /\ 0 \in 0..MaxLag /\ 0 \in Nat
  BY TimeAssumption DEF SoundBreaker
<1>2. CASE Classify(o) = None
  <2>1. Folded(b, o) = RecordSuccess(b)
    BY <1>2 DEF Folded
  <2> QED
    BY <1>1, <2>1, RecordSuccessIsSound, LateOutcomeKeepsSchedule
<1>3. CASE Classify(o) # None
  <2>1. Classify(o) \in FailureKind
    BY <1>3 DEF Classify, Outcome, Raised, Responses, FailureKind
  <2>2. Folded(b, o) = RecordFailure(b, Classify(o), 0)
    BY <1>3 DEF Folded
  <2> QED
    BY <1>1, <2>1, <2>2, RecordFailureIsSound, LateOutcomeKeepsSchedule
<1> QED
  BY <1>2, <1>3

-----------------------------------------------------------------------------
(***************************************************************************)
(* The prober's sweep.                                                     *)
(***************************************************************************)
\* Between two awaits the prober keeps every breaker sound, closes none, leaves the
\* replicas that are out alone, and stops at one that is due.
LEMMA SweepIsSound ==
    ASSUME NEW bs \in [Replica -> Breakers], \A u \in Replica : SoundBreaker(bs[u]),
           NEW from \in 1..(N + 1), NEW lag \in 0..MaxLag, NEW wedged \in SUBSET Replica,
           Sweep(bs, from, lag, wedged)
    PROVE  /\ breakers' \in [Replica -> Breakers]
           /\ \A u \in Replica : /\ SoundBreaker(breakers'[u])
                                 /\ Allows(breakers'[u]) => Allows(bs[u])
                                 /\ ~Allows(bs[u]) => breakers'[u] = bs[u]
           /\ prober' \in ProberState
           /\ prober'.at # 0 => DueForProbe(breakers'[prober'.at], 0)
<1> DEFINE due == {u \in from..N : DueForProbe(bs[u], lag)}
           stop == IF due = {} THEN N + 1 ELSE CHOOSE u \in due : \A v \in due : u <= v
           Swept(u) == u \in from..(stop - 1) /\ Allows(bs[u])
           w(u) == RecordWedge(bs[u], u \in wedged, lag)
<1>1. /\ breakers' = [u \in Replica |-> IF Swept(u) THEN w(u) ELSE bs[u]]
      /\ prober' = IF due = {} THEN [at |-> 0, lag |-> 0] ELSE [at |-> stop, lag |-> lag]
  BY DEF Sweep
<1>2. lag \in Nat /\ N \in Nat /\ MaxLag \in Nat
  BY TimeAssumption, PoolAssumption
<1>3. due \subseteq Replica /\ due \subseteq Nat
  BY <1>2 DEF Replica
<1>4. due # {} => stop \in due
  <2>1. due # {} => \E u \in due : \A v \in due : u <= v
    BY <1>3, LeastNatural, Zenon
  <2> QED
    BY <2>1, Zenon
<1> HIDE DEF stop
<1>5. ASSUME NEW u \in Replica
      PROVE  /\ SoundBreaker(w(u))
             /\ Allows(w(u)) => Allows(bs[u])
  <2>1. SoundBreaker(bs[u])
    BY <1>5
  <2>2. (u \in wedged) \in BOOLEAN
    OBVIOUS
  <2>3. \A suspected \in BOOLEAN :
           /\ SoundBreaker(RecordWedge(bs[u], suspected, lag))
           /\ Allows(RecordWedge(bs[u], suspected, lag)) => Allows(bs[u])
    BY <2>1, RecordWedgeIsSound
  <2> QED
    BY <2>2, <2>3, Zenon
<1> HIDE DEF w
<1>6. ASSUME NEW u \in Replica
      PROVE  /\ SoundBreaker(breakers'[u])
             /\ Allows(breakers'[u]) => Allows(bs[u])
             /\ ~Allows(bs[u]) => breakers'[u] = bs[u]
  BY <1>1, <1>5, <1>6
<1>7. breakers' \in [Replica -> Breakers]
  BY <1>1, <1>5 DEF SoundBreaker
<1>8. prober' \in ProberState
  <2>1. CASE due = {}
    <3>1. prober' = [at |-> 0, lag |-> 0] /\ 0 \in 0..N /\ 0 \in 0..MaxLag
      BY <1>1, <1>2, <2>1
    <3> QED
      BY <3>1 DEF ProberState
  <2>2. CASE due # {}
    <3>1. prober' = [at |-> stop, lag |-> lag] /\ stop \in 0..N
      BY <1>1, <1>2, <1>3, <1>4, <2>2 DEF Replica
    <3> QED
      BY <3>1 DEF ProberState
  <2> QED
    BY <2>1, <2>2
<1>9. ASSUME prober'.at # 0 PROVE DueForProbe(breakers'[prober'.at], 0)
  <2>1. due # {}
    BY <1>1, <1>9
  <2>2. prober'.at = stop /\ stop \in due /\ stop \in Replica
    BY <1>1, <1>3, <1>4, <2>1
  <2>3. DueForProbe(bs[stop], 0) /\ ~Allows(bs[stop])
    BY <1>2, <2>2, DueHasNoWait
  <2>4. breakers'[stop] = bs[stop]
    BY <1>6, <2>2, <2>3
  <2> QED
    BY <2>2, <2>3, <2>4
<1> QED
  BY <1>6, <1>7, <1>8, <1>9

-----------------------------------------------------------------------------
(***************************************************************************)
(* What a step makes of one request.                                       *)
(***************************************************************************)
\* A coroutine before its first attempt.
LEMMA NewIsFresh ==
    /\ NewRequest \in RequestState
    /\ NewRequest.pc = "new" /\ NewRequest.wait = 0
    /\ NewRequest.result = None
    /\ RequestInv(NewRequest)
<1>1. NewRequest \in RequestState
  <2>1. <<>> \in Seq(Entry) /\ "new" \in Stages /\ 0 \in 0..(Larger(MaxOpen, ProbeInterval) + Second)
    BY TimeAssumption, PoolAssumption DEF Stages, Larger
  <2> QED
    BY <2>1 DEF NewRequest, RequestState
<1>2. /\ NewRequest.pc = "new" /\ NewRequest.wait = 0
      /\ NewRequest.result = None /\ NewRequest.log = <<>>
  BY DEF NewRequest
<1>3. RequestInv(NewRequest)
  BY <1>2, PoolAssumption DEF RequestInv
<1> QED
  BY <1>1, <1>2, <1>3

\* A coroutine that has returned, or raised AllReplicasOpen with a wait.
FinishedWith(result, w) == [Finished(result) EXCEPT !.wait = w]

LEMMA FinishedIsFresh ==
    ASSUME NEW result \in Results, NEW w \in 0..(Larger(MaxOpen, ProbeInterval) + Second)
    PROVE  /\ FinishedWith(result, w) \in RequestState
           /\ FinishedWith(result, w).pc = "done"
           /\ FinishedWith(result, w).wait = w
           /\ FinishedWith(result, w).result = result
           /\ RequestInv(FinishedWith(result, w))
<1> DEFINE f == FinishedWith(result, w)
<1>1. f = [NewRequest EXCEPT !.pc = "done", !.result = result, !.wait = w]
  BY DEF FinishedWith, Finished, NewRequest
<1>2. /\ NewRequest \in RequestState
      /\ NewRequest.log = <<>>
  BY NewIsFresh DEF NewRequest
<1>3. "done" \in Stages /\ result \in Results \cup {None}
  BY DEF Stages
<1>4. /\ f \in RequestState
      /\ f.pc = "done" /\ f.wait = w
      /\ f.result = result /\ f.log = <<>>
  BY <1>1, <1>2, <1>3 DEF RequestState
<1>5. RequestInv(f)
  BY <1>4, PoolAssumption DEF RequestInv
<1> QED
  BY <1>4, <1>5

\* One request moves and the others stay.
LEMMA OneMoves ==
    ASSUME request \in [Request -> RequestState], NEW r \in Request, NEW h \in RequestState,
           request' = [request EXCEPT ![r] = h]
    PROVE  /\ request' \in [Request -> RequestState]
           /\ request'[r] = h
           /\ \A q \in Request \ {r} : request'[q] = request[q]
OBVIOUS

\* An answer leaves the request finished, or backing off after an outcome that is safe
\* to repeat, with an attempt to spare and the replica that failed excluded.
LEMMA AnswerIsSafe ==
    ASSUME NEW q \in RequestState, RequestInv(q), q.pc = "sending", NEW o \in Outcome
    PROVE  /\ AfterAnswer(q, o) \in RequestState
           /\ RequestInv(AfterAnswer(q, o))
           /\ AfterAnswer(q, o).wait \in {0, q.wait}
           /\ AfterAnswer(q, o).pc \in {"backoff", "done"}
           /\ AfterAnswer(q, o).result \in {"ok", "status", "unreachable", q.result}
<1> DEFINE h == AfterAnswer(q, o)
<1>1. CASE Len(q.log) + 1 < MaxAttempts /\ ShouldRetry(o)
  <2> DEFINE e == [url |-> q.upstream, outcome |-> o]
             l == Append(q.log, e)
  <2>1. q.upstream \in Replica
    BY DEF RequestInv, RequestState
  <2>2. e \in Entry /\ e.url = q.upstream /\ e.outcome = o
    BY <2>1 DEF Entry
  <2> HIDE DEF e
  <2>3. q.log \in Seq(Entry)
    BY DEF RequestState
  <2>4. /\ l \in Seq(Entry) /\ Len(l) = Len(q.log) + 1 /\ Len(q.log) \in Nat
        /\ l[Len(l)] = e
        /\ \A i \in 1..Len(q.log) : l[i] = q.log[i]
    BY <2>2, <2>3
  <2>5. h = [q EXCEPT !.pc = "backoff", !.exclude = q.upstream, !.log = l]
    BY <1>1 DEF AfterAnswer, e
  <2> HIDE DEF l
  <2>6. h \in RequestState
    <3>1. "backoff" \in Stages
      BY DEF Stages
    <3> QED
      BY <2>1, <2>4, <2>5, <3>1 DEF RequestState
  <2>7. /\ h.pc = "backoff" /\ h.exclude = q.upstream /\ h.log = l
        /\ h.wait = q.wait /\ h.result = q.result
    BY <2>5 DEF RequestState
  <2>8. o \in Retried
    BY <1>1, OnlyTheseRetried
  <2>9. RequestInv(h)
    <3>1. ASSUME NEW i \in 1..Len(l) PROVE l[i].outcome \in Retried
      <4>1. CASE i = Len(l)
        BY <2>2, <2>4, <2>8, <4>1
      <4>2. CASE i # Len(l)
        <5>1. i \in 1..Len(q.log) /\ l[i] = q.log[i]
          BY <2>4, <4>2
        <5> QED
          BY <5>1 DEF RequestInv
      <4> QED
        BY <4>1, <4>2
    <3>2. l # <<>> /\ l[Len(l)].url = q.upstream
      BY <2>2, <2>4
    <3>3. Len(l) < MaxAttempts
      BY <1>1, <2>4
    <3> QED
      BY <2>7, <3>1, <3>2, <3>3 DEF RequestInv
  <2> QED
    BY <2>6, <2>7, <2>9
<1>2. CASE ~(Len(q.log) + 1 < MaxAttempts /\ ShouldRetry(o))
  <2>1. h = Finished(ResultOf(o))
    BY <1>2 DEF AfterAnswer
  <2>2. ResultOf(o) \in Results /\ ResultOf(o) \in {"ok", "status", "unreachable"}
    BY DEF ResultOf, Results
  <2>3. h = FinishedWith(ResultOf(o), 0)
    BY <2>1 DEF FinishedWith, Finished, NewRequest
  <2>4. 0 \in 0..(Larger(MaxOpen, ProbeInterval) + Second)
    BY TimeAssumption, PoolAssumption DEF Larger
  <2> HIDE DEF h
  <2>5. /\ h \in RequestState
        /\ h.pc = "done" /\ h.wait = 0 /\ h.result = ResultOf(o)
        /\ RequestInv(h)
    BY <2>2, <2>3, <2>4, FinishedIsFresh
  <2>6. AfterAnswer(q, o) = h
    BY DEF h
  <2> QED
    BY <2>2, <2>5, <2>6, Zenon
<1> QED
  BY <1>1, <1>2

-----------------------------------------------------------------------------
(***************************************************************************)
(* The invariant is inductive: one lemma per action.                       *)
(***************************************************************************)
\* Without an answered probe, no wait outlives an outage by more than a second: the
\* replicas that are out keep their schedule.
LEMMA WaitKept ==
    ASSUME NEW q, NEW p, NEW bs, NEW cs, WaitInv(q, bs), p.wait \in {0, q.wait},
           \A u \in Replica : ~Allows(bs[u]) => SameSchedule(bs[u], cs[u])
    PROVE  WaitInv(p, cs)
<1> SUFFICES ASSUME p.wait > Second, NEW u \in Replica
             PROVE  ~Allows(cs[u]) /\ p.wait <= SecondsUntilProbe(cs[u]) + Second
  BY DEF WaitInv
<1>1. p.wait = q.wait
  BY PoolAssumption
<1>2. ~Allows(bs[u]) /\ q.wait <= SecondsUntilProbe(bs[u]) + Second
  BY <1>1 DEF WaitInv
<1>3. SameSchedule(bs[u], cs[u])
  BY <1>2
<1> QED
  BY <1>1, <1>2, <1>3, ScheduleDecides

LEMMA InitPInv == Init => PInv
<1> SUFFICES ASSUME Init PROVE PInv
  OBVIOUS
<1>1. /\ breakers \in [Replica -> Breakers]
      /\ \A u \in Replica : SoundBreaker(breakers[u])
  BY NewIsSound DEF Init, SoundBreaker
<1>2. /\ request \in [Request -> RequestState]
      /\ \A r \in Request : RequestInv(request[r]) /\ request[r].wait = 0
  <2>1. request = [r \in Request |-> NewRequest]
    BY DEF Init
  <2> QED
    BY <2>1, NewIsFresh
<1>3. next \in 0..(N - 1)
  BY PoolAssumption DEF Init
<1>4. prober \in ProberState /\ prober.at = 0
  BY PoolAssumption, TimeAssumption DEF Init, ProberState
<1> QED
  BY <1>1, <1>2, <1>3, <1>4, PoolAssumption DEF PInv, TypeOK, WaitInv, ProberInv

\* A request is turned away with the shortest of the waits, rounded.
LEMMA TurnedAwayPInv ==
    ASSUME PInv, NEW r \in Request, NowhereToRoute(r)
    PROVE  PInv' /\ request'[r].result = "all_open"
<1> DEFINE told == Told(RetryAfter)
           h == FinishedWith("all_open", told)
<1>1. /\ breakers \in [Replica -> Breakers]
      /\ request \in [Request -> RequestState]
  BY DEF PInv, TypeOK
<1>2. /\ request' = [request EXCEPT ![r] = h]
      /\ Candidates(request[r].exclude) = {}
      /\ UNCHANGED <<breakers, next, prober>>
  BY DEF NowhereToRoute, FinishedWith
<1>3. /\ told \in 0..(Larger(MaxOpen, ProbeInterval) + Second)
      /\ \A u \in Replica : told <= SecondsUntilProbe(breakers[u]) + Second
  <2>1. /\ RetryAfter \in 0..Larger(MaxOpen, ProbeInterval)
        /\ \A u \in Replica : RetryAfter <= SecondsUntilProbe(breakers[u])
    BY <1>1, RetryAfterIsLeast
  <2>2. told \in 0..(Larger(MaxOpen, ProbeInterval) + Second) /\ told <= RetryAfter + Second
    BY <2>1, RoundingAddsASecond
  <2>3. \A u \in Replica : SecondsUntilProbe(breakers[u]) \in 0..Larger(MaxOpen, ProbeInterval)
    BY <1>1, ProbeWaitBounded
  <2> HIDE DEF told
  <2>4. Larger(MaxOpen, ProbeInterval) \in Nat /\ Second \in Nat
    BY TimeAssumption, PoolAssumption DEF Larger
  <2> QED
    BY <2>1, <2>2, <2>3, <2>4
<1> HIDE DEF told
<1>4. \A u \in Replica : ~Allows(breakers[u])
  BY <1>2, CandidatesShape DEF InRotation
<1>5. "all_open" \in Results
  BY DEF Results
<1>6. /\ h \in RequestState
      /\ h.wait = told /\ h.result = "all_open"
      /\ RequestInv(h)
  BY <1>3, <1>5, FinishedIsFresh
<1> HIDE DEF h
<1>7. WaitInv(h, breakers)
  BY <1>3, <1>4, <1>6 DEF WaitInv
<1>8. /\ request' \in [Request -> RequestState]
      /\ request'[r] = h
      /\ \A q \in Request \ {r} : request'[q] = request[q]
  BY <1>1, <1>2, <1>6, OneMoves
<1>9. \A q \in Request : RequestInv(request'[q]) /\ WaitInv(request'[q], breakers)
  BY <1>6, <1>7, <1>8 DEF PInv
<1> QED
  BY <1>2, <1>6, <1>8, <1>9 DEF PInv, TypeOK, ProberInv

\* An attempt goes to one of the candidates, and to a replica in the fleet.
LEMMA AttemptShape ==
    ASSUME TypeOK, NEW r \in Request, Attempt(r)
    PROVE  /\ \E u \in Candidates(request[r].exclude) :
                 request' = [request EXCEPT ![r] =
                                [request[r] EXCEPT !.pc = "sending", !.upstream = u]]
           /\ next' \in 0..(N - 1)
           /\ UNCHANGED <<breakers, prober>>
<1> DEFINE candidates == Candidates(request[r].exclude)
<1>1. candidates \in SUBSET Replica /\ candidates # {}
  BY CandidatesShape DEF Attempt
<1>2. next + 1 \in Nat /\ next' = (next + 1) % Cardinality(candidates)
  BY PoolAssumption DEF Attempt, TypeOK
<1>3. next' \in 0..(N - 1)
  BY <1>1, <1>2, CounterInRange
<1>4. PICK u \in candidates :
         request' = [request EXCEPT ![r].pc = "sending", ![r].upstream = u]
  BY DEF Attempt
<1>5. request' = [request EXCEPT ![r] =
                     [request[r] EXCEPT !.pc = "sending", !.upstream = u]]
  BY <1>4 DEF TypeOK
<1> QED
  BY <1>3, <1>5 DEF Attempt

LEMMA AttemptPInv ==
    ASSUME PInv, NEW r \in Request, Attempt(r)
    PROVE  PInv'
<1>1. /\ breakers \in [Replica -> Breakers]
      /\ request \in [Request -> RequestState]
      /\ RequestInv(request[r]) /\ WaitInv(request[r], breakers)
  BY DEF PInv, TypeOK
<1>2. PICK u \in Replica :
         request' = [request EXCEPT ![r] =
                        [request[r] EXCEPT !.pc = "sending", !.upstream = u]]
  BY AttemptShape, CandidatesShape DEF PInv
<1>3. next' \in 0..(N - 1) /\ UNCHANGED <<breakers, prober>>
  BY AttemptShape DEF PInv
<1> DEFINE h == [request[r] EXCEPT !.pc = "sending", !.upstream = u]
<1>4. /\ h \in RequestState
      /\ h.pc = "sending" /\ h.upstream = u
      /\ h.log = request[r].log /\ h.wait = request[r].wait
  <2>1. "sending" \in Stages /\ u \in Replica \cup {None} /\ request[r] \in RequestState
    BY <1>1 DEF Stages
  <2> QED
    BY <2>1 DEF RequestState
<1> HIDE DEF h
<1>5. RequestInv(h)
  BY <1>1, <1>4, PoolAssumption DEF RequestInv
<1>6. WaitInv(h, breakers)
  BY <1>1, <1>4 DEF WaitInv
<1>7. /\ request' \in [Request -> RequestState]
      /\ request'[r] = h
      /\ \A q \in Request \ {r} : request'[q] = request[q]
  BY <1>1, <1>2, <1>4, OneMoves DEF h
<1>8. \A q \in Request : RequestInv(request'[q]) /\ WaitInv(request'[q], breakers)
  BY <1>5, <1>6, <1>7 DEF PInv
<1> QED
  BY <1>3, <1>7, <1>8 DEF PInv, TypeOK, ProberInv

\* An answer is folded into the breaker of its replica, which closes nothing.
LEMMA AnswerShape ==
    ASSUME PInv, NEW r \in Request, NEW o \in Outcome, Answer(r, o)
    PROVE  /\ breakers' \in [Replica -> Breakers]
           /\ \A u \in Replica : /\ SoundBreaker(breakers'[u])
                                 /\ Allows(breakers'[u]) => Allows(breakers[u])
                                 /\ ~Allows(breakers[u])
                                    => SameSchedule(breakers[u], breakers'[u])
           /\ request' \in [Request -> RequestState]
           /\ request'[r] = AfterAnswer(request[r], o)
           /\ \A q \in Request \ {r} : request'[q] = request[q]
<1>1. /\ breakers \in [Replica -> Breakers]
      /\ request \in [Request -> RequestState]
      /\ RequestInv(request[r])
      /\ \A u \in Replica : SoundBreaker(breakers[u])
  BY DEF PInv, TypeOK
<1>2. request[r].pc = "sending" /\ request[r].upstream \in Replica
  BY <1>1 DEF Answer, RequestInv, RequestState
<1>3. PICK u \in Replica : u = request[r].upstream
  BY <1>2
<1>4. breakers' = [breakers EXCEPT ![u] = Folded(breakers[u], o)]
  BY <1>3 DEF Answer
<1>5. /\ SoundBreaker(Folded(breakers[u], o))
      /\ Allows(Folded(breakers[u], o)) => Allows(breakers[u])
      /\ ~Allows(breakers[u]) => SameSchedule(breakers[u], Folded(breakers[u], o))
  BY <1>1, FoldedIsSound
<1>6. \A v \in Replica : breakers'[v] = IF v = u THEN Folded(breakers[u], o) ELSE breakers[v]
  BY <1>1, <1>4
<1>7. ASSUME NEW v \in Replica
      PROVE  /\ SoundBreaker(breakers'[v])
             /\ Allows(breakers'[v]) => Allows(breakers[v])
             /\ ~Allows(breakers[v]) => SameSchedule(breakers[v], breakers'[v])
  <2>1. SameSchedule(breakers[v], breakers[v])
    BY DEF SameSchedule
  <2> QED
    BY <1>1, <1>5, <1>6, <2>1
<1>8. breakers' \in [Replica -> Breakers]
  BY <1>1, <1>4, <1>5 DEF SoundBreaker
<1>9. AfterAnswer(request[r], o) \in RequestState
  BY <1>1, <1>2, AnswerIsSafe
<1>10. request' = [request EXCEPT ![r] = AfterAnswer(request[r], o)]
  BY DEF Answer
<1>11. /\ request' \in [Request -> RequestState]
       /\ request'[r] = AfterAnswer(request[r], o)
       /\ \A q \in Request \ {r} : request'[q] = request[q]
  BY <1>1, <1>9, <1>10, OneMoves
<1> QED
  BY <1>7, <1>8, <1>11

LEMMA AnswerPInv ==
    ASSUME PInv, NEW r \in Request, NEW o \in Outcome, Answer(r, o)
    PROVE  PInv'
<1>1. /\ request \in [Request -> RequestState]
      /\ RequestInv(request[r]) /\ WaitInv(request[r], breakers)
      /\ request[r].pc = "sending"
      /\ UNCHANGED <<next, prober>>
  BY DEF PInv, TypeOK, Answer
<1>2. /\ RequestInv(AfterAnswer(request[r], o))
      /\ AfterAnswer(request[r], o).wait \in {0, request[r].wait}
  BY <1>1, AnswerIsSafe
<1>3. ASSUME NEW q \in Request
      PROVE  RequestInv(request'[q]) /\ WaitInv(request'[q], breakers')
  <2>1. RequestInv(request'[q]) /\ request'[q].wait \in {0, request[q].wait}
    BY <1>2, AnswerShape DEF PInv
  <2>2. WaitInv(request[q], breakers)
    BY DEF PInv
  <2> QED
    BY <2>1, <2>2, AnswerShape, WaitKept
<1>4. ProberInv'
  <2>1. CASE prober.at = 0
    BY <1>1, <2>1 DEF ProberInv
  <2>2. CASE prober.at # 0
    <3>1. prober.at \in Replica /\ DueForProbe(breakers[prober.at], 0)
      BY <2>2 DEF PInv, ProberInv, TypeOK, ProberState, Replica
    <3>2. ~Allows(breakers[prober.at])
      BY <3>1, DueHasNoWait DEF PInv
    <3>3. SameSchedule(breakers[prober.at], breakers'[prober.at])
      BY <3>1, <3>2, AnswerShape
    <3>4. DueForProbe(breakers'[prober.at], 0)
      BY <3>1, <3>3, ScheduleDecides
    <3> QED
      BY <1>1, <3>4 DEF ProberInv
  <2> QED
    BY <2>1, <2>2
<1> QED
  BY <1>1, <1>3, <1>4, AnswerShape DEF PInv, TypeOK

LEMMA AgainPInv ==
    ASSUME PInv, NEW r \in Request, Again(r)
    PROVE  PInv'
<1>1. /\ request' = [request EXCEPT ![r] = NewRequest]
      /\ request \in [Request -> RequestState]
      /\ UNCHANGED <<breakers, next, prober>>
  BY DEF PInv, TypeOK, Again
<1>2. /\ request' \in [Request -> RequestState]
      /\ request'[r] = NewRequest
      /\ \A q \in Request \ {r} : request'[q] = request[q]
  BY <1>1, NewIsFresh, OneMoves
<1>3. WaitInv(NewRequest, breakers)
  BY NewIsFresh, PoolAssumption DEF WaitInv
<1>4. \A q \in Request : RequestInv(request'[q]) /\ WaitInv(request'[q], breakers)
  BY <1>2, <1>3, NewIsFresh DEF PInv
<1> QED
  BY <1>1, <1>2, <1>4 DEF PInv, TypeOK, ProberInv

\* A pass of the prober begins.
LEMMA WakePInv ==
    ASSUME PInv, NEW wedged \in SUBSET Replica, Wake(wedged)
    PROVE  /\ PInv'
           /\ \A u \in Replica : Allows(breakers'[u]) => Allows(breakers[u])
<1>1. /\ breakers \in [Replica -> Breakers]
      /\ \A u \in Replica : SoundBreaker(breakers[u])
      /\ 1 \in 1..(N + 1) /\ 0 \in 0..MaxLag
      /\ Sweep(breakers, 1, 0, wedged)
      /\ UNCHANGED <<next, request>>
  BY PoolAssumption, TimeAssumption DEF PInv, TypeOK, Wake
<1>2. /\ breakers' \in [Replica -> Breakers]
      /\ \A u \in Replica : /\ SoundBreaker(breakers'[u])
                            /\ Allows(breakers'[u]) => Allows(breakers[u])
                            /\ ~Allows(breakers[u]) => breakers'[u] = breakers[u]
      /\ prober' \in ProberState
      /\ prober'.at # 0 => DueForProbe(breakers'[prober'.at], 0)
  BY <1>1, SweepIsSound
<1>3. ASSUME NEW r \in Request PROVE WaitInv(request[r], breakers')
  <2>1. \A u \in Replica : ~Allows(breakers[u]) => SameSchedule(breakers[u], breakers'[u])
    BY <1>2 DEF SameSchedule
  <2>2. WaitInv(request[r], breakers)
    BY DEF PInv
  <2> QED
    BY <2>1, <2>2, WaitKept
<1> QED
  BY <1>1, <1>2, <1>3 DEF PInv, TypeOK, ProberInv

\* A probe is answered.  Only the breaker it was of can close, and as it was due no
\* caller has more than a second to wait; then the sweep goes on.
LEMMA ProbePInv ==
    ASSUME PInv, NEW ok \in BOOLEAN, NEW wedged \in SUBSET Replica,
           ProbeAnswered(ok, wedged)
    PROVE  /\ PInv'
           /\ \A u \in Replica \ {prober.at} : Allows(breakers'[u]) => Allows(breakers[u])
           /\ \A r \in Request : request[r].wait <= Second
<1>1. PICK u \in Replica : u = prober.at
  BY DEF PInv, TypeOK, ProberState, Replica, ProbeAnswered
<1> DEFINE p == RecordProbe(breakers[u], ok, u \in wedged)
           bs == [breakers EXCEPT ![u] = p]
<1>2. /\ breakers \in [Replica -> Breakers]
      /\ request \in [Request -> RequestState]
      /\ \A v \in Replica : SoundBreaker(breakers[v])
      /\ UNCHANGED <<next, request>>
  BY DEF PInv, TypeOK, ProbeAnswered
<1>3. DueForProbe(breakers[u], 0)
  BY <1>1 DEF PInv, ProberInv, Replica
<1>4. ~Allows(breakers[u]) /\ SecondsUntilProbe(breakers[u]) = 0
  BY <1>2, <1>3, DueHasNoWait
<1>5. SoundBreaker(p)
  <2>1. (u \in wedged) \in BOOLEAN
    OBVIOUS
  <2>2. \A suspected \in BOOLEAN : SoundBreaker(RecordProbe(breakers[u], ok, suspected))
    BY <1>2, <1>4, RecordProbeIsSound
  <2> QED
    BY <2>1, <2>2, Zenon
<1>6. Sweep(bs, u + 1, prober.lag, wedged)
  BY <1>1 DEF ProbeAnswered
<1> HIDE DEF p
<1>7. /\ bs \in [Replica -> Breakers]
      /\ bs[u] = p
      /\ \A v \in Replica \ {u} : bs[v] = breakers[v]
  BY <1>2, <1>5 DEF SoundBreaker
<1>8. u + 1 \in 1..(N + 1) /\ prober.lag \in 0..MaxLag
  BY PoolAssumption DEF PInv, TypeOK, ProberState, Replica
<1> HIDE DEF bs
<1>9. /\ breakers' \in [Replica -> Breakers]
      /\ \A v \in Replica : /\ SoundBreaker(breakers'[v])
                            /\ Allows(breakers'[v]) => Allows(bs[v])
      /\ prober' \in ProberState
      /\ prober'.at # 0 => DueForProbe(breakers'[prober'.at], 0)
  <2>1. \A v \in Replica : SoundBreaker(bs[v])
    BY <1>2, <1>5, <1>7
  <2> QED
    BY <1>6, <1>7, <1>8, <2>1, SweepIsSound
<1>10. ASSUME NEW r \in Request PROVE request[r].wait <= Second
  <2>1. WaitInv(request[r], breakers)
    BY DEF PInv
  <2>2. request[r].wait \in Nat /\ Second \in Nat
    BY <1>2, TimeAssumption, PoolAssumption DEF RequestState, Larger
  <2> QED
    BY <1>4, <2>1, <2>2 DEF WaitInv
<1>11. \A r \in Request : WaitInv(request[r], breakers')
  <2>1. ASSUME NEW r \in Request PROVE request[r].wait \in Nat /\ Second \in Nat
    BY <1>2, TimeAssumption, PoolAssumption DEF RequestState, Larger
  <2> QED
    BY <1>10, <2>1 DEF WaitInv
<1>12. PInv'
  BY <1>2, <1>9, <1>11 DEF PInv, TypeOK, ProberInv
<1> QED
  BY <1>1, <1>7, <1>9, <1>10, <1>12

\* Time passes: a wait runs down as fast as the outage it was computed from.
LEMMA TickPInv ==
    ASSUME PInv, Tick
    PROVE  /\ PInv'
           /\ \A u \in Replica : Allows(breakers'[u]) <=> Allows(breakers[u])
           /\ \A r \in Request : /\ request'[r].pc = request[r].pc
                                 /\ request'[r].upstream = request[r].upstream
                                 /\ request'[r].result = request[r].result
<1>1. /\ breakers \in [Replica -> Breakers]
      /\ request \in [Request -> RequestState]
      /\ \A u \in Replica : SoundBreaker(breakers[u])
      /\ breakers' = [u \in Replica |-> Aged(breakers[u])]
      /\ request' = [r \in Request |-> [request[r] EXCEPT !.wait = Larger(0, @ - 1)]]
      /\ UNCHANGED next
  BY DEF PInv, TypeOK, Tick
<1>2. ASSUME NEW u \in Replica
      PROVE  /\ SoundBreaker(breakers'[u])
             /\ Allows(breakers'[u]) <=> Allows(breakers[u])
             /\ DueForProbe(breakers[u], 0) => DueForProbe(breakers'[u], 0)
             /\ SecondsUntilProbe(breakers[u]) <= SecondsUntilProbe(breakers'[u]) + 1
  <2>1. breakers'[u] = Aged(breakers[u]) /\ SoundBreaker(breakers[u])
    BY <1>1
  <2> QED
    BY <2>1, AgedIsSound, AgedKeepsSchedule
<1>3. breakers' \in [Replica -> Breakers]
  BY <1>1, <1>2 DEF SoundBreaker
<1>4. ASSUME NEW r \in Request
      PROVE  /\ request'[r] \in RequestState
             /\ request'[r].wait = Larger(0, request[r].wait - 1)
             /\ request'[r].pc = request[r].pc
             /\ request'[r].upstream = request[r].upstream
             /\ request'[r].exclude = request[r].exclude
             /\ request'[r].log = request[r].log
             /\ request'[r].result = request[r].result
  <2>1. request'[r] = [request[r] EXCEPT !.wait = Larger(0, request[r].wait - 1)]
    BY <1>1
  <2>2. request[r] \in RequestState
    BY <1>1
  <2>3. Larger(0, request[r].wait - 1) \in 0..(Larger(MaxOpen, ProbeInterval) + Second)
    BY <2>2, TimeAssumption, PoolAssumption DEF RequestState, Larger
  <2> QED
    BY <2>1, <2>2, <2>3 DEF RequestState
<1>5. request' \in [Request -> RequestState]
  BY <1>1, <1>4
<1>6. ASSUME NEW r \in Request
      PROVE  RequestInv(request'[r]) /\ WaitInv(request'[r], breakers')
  <2>1. RequestInv(request'[r])
    BY <1>4 DEF PInv, RequestInv
  <2>2. request[r].wait \in Nat /\ Second \in Nat
    BY <1>1, TimeAssumption, PoolAssumption DEF RequestState, Larger
  <2>3. ASSUME request'[r].wait > Second, NEW u \in Replica
        PROVE  ~Allows(breakers'[u]) /\ request'[r].wait <= SecondsUntilProbe(breakers'[u]) + Second
    <3>1. request[r].wait > Second /\ request'[r].wait = request[r].wait - 1
      BY <1>4, <2>2, <2>3 DEF Larger
    <3>2. ~Allows(breakers[u]) /\ request[r].wait <= SecondsUntilProbe(breakers[u]) + Second
      BY <3>1 DEF PInv, WaitInv
    <3>3. /\ SecondsUntilProbe(breakers[u]) \in Nat
          /\ SecondsUntilProbe(breakers'[u]) \in Nat
      BY <1>1, <1>3, ProbeWaitBounded, TimeAssumption DEF Larger
    <3> QED
      BY <1>2, <2>2, <3>1, <3>2, <3>3
  <2> QED
    BY <2>1, <2>3 DEF WaitInv
<1>7. /\ prober' \in ProberState
      /\ prober'.at = prober.at
  <2>1. CASE prober.at = 0
    BY <2>1 DEF Tick, PInv, TypeOK
  <2>2. CASE prober.at # 0
    <3>1. prober' = [prober EXCEPT !.lag = prober.lag + 1] /\ prober.lag < MaxLag
      BY <2>2 DEF Tick
    <3>2. prober \in ProberState
      BY DEF PInv, TypeOK
    <3> QED
      BY <3>1, <3>2, TimeAssumption DEF ProberState
  <2> QED
    BY <2>1, <2>2
<1>8. ProberInv'
  BY <1>2, <1>7 DEF PInv, ProberInv, ProberState, Replica
<1> QED
  BY <1>1, <1>2, <1>3, <1>4, <1>5, <1>6, <1>7, <1>8 DEF PInv, TypeOK

-----------------------------------------------------------------------------
LEMMA NextPInv == PInv /\ [Next]_vars => PInv'
<1> SUFFICES ASSUME PInv, [Next]_vars
             PROVE  PInv'
  OBVIOUS
<1>1. ASSUME NEW r \in Request, Serve(r) PROVE PInv'
  BY <1>1, TurnedAwayPInv, AttemptPInv DEF Serve
<1>2. ASSUME NEW r \in Request, Resolve(r) PROVE PInv'
  BY <1>2, AnswerPInv, ObservedAssumption DEF Resolve
<1>3. ASSUME NEW r \in Request, Again(r) PROVE PInv'
  BY <1>3, AgainPInv
<1>4. ASSUME NEW wedged \in SUBSET Replica, Wake(wedged) PROVE PInv'
  BY <1>4, WakePInv
<1>5. ASSUME NEW ok \in BOOLEAN, NEW wedged \in SUBSET Replica, ProbeAnswered(ok, wedged)
      PROVE  PInv'
  BY <1>5, ProbePInv
<1>6. CASE Tick
  BY <1>6, TickPInv
<1>7. CASE UNCHANGED vars
  BY <1>7 DEF vars, PInv, TypeOK, ProberInv
<1> QED
  BY <1>1, <1>2, <1>3, <1>4, <1>5, <1>6, <1>7, Zenon DEF Next

LEMMA SpecPInv == Spec => []PInv
BY InitPInv, NextPInv, PTL DEF Spec

\* Every value stays in its type: the round-robin counter inside the fleet, the
\* Retry-After between zero and the longest delay there is (pick, _with_retry).
THEOREM TypeCorrect == Spec => []TypeOK
<1>1. PInv => TypeOK
  BY DEF PInv
<1> QED
  BY <1>1, SpecPInv, PTL

\* Breakers shared by any number of requests and the prober stay sound, and the probe
\* in flight is of a replica still out (main.py:69-73, client.py:343-359).
THEOREM BreakersStaySound == Spec => []BreakersSound
<1>1. PInv => BreakersSound
  <2> SUFFICES ASSUME PInv PROVE BreakersSound
    OBVIOUS
  <2>1. \A u \in Replica : ClosedBelowThreshold(breakers[u]) /\ OutageShape(breakers[u])
    BY DEF PInv, SoundBreaker
  <2>2. ASSUME prober.at # 0 PROVE ~Allows(breakers[prober.at])
    <3>1. prober.at \in Replica /\ DueForProbe(breakers[prober.at], 0)
      BY <2>2 DEF PInv, ProberInv, TypeOK, ProberState, Replica
    <3> QED
      BY <3>1, DueHasNoWait DEF PInv
  <2> QED
    BY <2>1, <2>2 DEF BreakersSound
<1> QED
  BY <1>1, SpecPInv, PTL

\* No request is attempted more often than MAX_ATTEMPTS allows, nor repeated after an
\* answer that was its caller's or a read timeout; of the outcomes that may leave it
\* running only a broken reply is repeated (_should_retry, _with_retry).
THEOREM RetriesAreBounded == Spec => []BoundedRetries
<1>1. PInv => BoundedRetries
  <2> SUFFICES ASSUME PInv, NEW r \in Request, NEW i \in 1..Len(request[r].log)
               PROVE  /\ Len(request[r].log) < MaxAttempts
                      /\ request[r].log[i].outcome \notin {"ok", "client_error", "server_error"}
                      /\ request[r].log[i].outcome \in MayBeRunning
                            => request[r].log[i].outcome = "broken_reply"
    BY DEF BoundedRetries, PInv, RequestInv
  <2>1. RequestInv(request[r])
    BY DEF PInv
  <2> QED
    BY <2>1 DEF RequestInv, Retried, MayBeRunning
<1> QED
  BY <1>1, SpecPInv, PTL

-----------------------------------------------------------------------------
(***************************************************************************)
(* What no step may do.                                                    *)
(***************************************************************************)
\* A coroutine that is sending was sending already, or has just been given one of the
\* candidates of that moment: pick() and the send are one step (client.py:78-81).
LEMMA SendingWasPicked ==
    ASSUME PInv, [Next]_vars, NEW q \in Request, request'[q].pc = "sending"
    PROVE  \/ /\ request[q].pc = "sending"
              /\ request'[q].upstream = request[q].upstream
           \/ request'[q].upstream \in Candidates(request[q].exclude)
<1> DEFINE Goal == \/ /\ request[q].pc = "sending"
                      /\ request'[q].upstream = request[q].upstream
                   \/ request'[q].upstream \in Candidates(request[q].exclude)
<1> SUFFICES Goal
  OBVIOUS
<1>1. request \in [Request -> RequestState]
  BY DEF PInv, TypeOK
<1>2. CASE request'[q] = request[q]
  BY <1>2
<1>3. ASSUME NEW r \in Request, NowhereToRoute(r) PROVE Goal
  <2>1. request' = [request EXCEPT ![r] = FinishedWith("all_open", Told(RetryAfter))]
    BY <1>3 DEF NowhereToRoute, FinishedWith
  <2>2. FinishedWith("all_open", Told(RetryAfter)).pc = "done"
    BY DEF FinishedWith, Finished, NewRequest
  <2> HIDE DEF Goal
  <2> QED
    BY <1>1, <1>2, <2>1, <2>2
<1>4. ASSUME NEW r \in Request, Attempt(r) PROVE Goal
  <2>1. PICK u \in Candidates(request[r].exclude) :
           request' = [request EXCEPT ![r] =
                          [request[r] EXCEPT !.pc = "sending", !.upstream = u]]
    BY <1>4, AttemptShape DEF PInv
  <2>2. CASE q = r
    <3>1. request'[q].upstream = u
      BY <1>1, <2>1, <2>2 DEF RequestState
    <3> QED
      BY <2>2, <3>1
  <2>3. CASE q # r
    BY <1>1, <1>2, <2>1, <2>3
  <2> QED
    BY <2>2, <2>3
<1>5. ASSUME NEW r \in Request, NEW o \in Outcome, Answer(r, o) PROVE Goal
  <2>1. AfterAnswer(request[r], o).pc # "sending"
    BY <1>1, <1>5, AnswerIsSafe DEF PInv, Answer
  <2> HIDE DEF Goal
  <2> QED
    BY <1>2, <1>5, <2>1, AnswerShape
<1>6. ASSUME NEW r \in Request, Again(r) PROVE Goal
  <2>1. request' = [request EXCEPT ![r] = NewRequest] /\ NewRequest.pc = "new"
    BY <1>6, NewIsFresh DEF Again
  <2> HIDE DEF Goal
  <2> QED
    BY <1>1, <1>2, <2>1
<1>7. CASE Tick
  BY <1>7, TickPInv
<1>8. CASE request' = request
  BY <1>8, <1>2
<1> HIDE DEF Goal
<1>9. ASSUME NEW r \in Request, Serve(r) \/ Resolve(r) \/ Again(r) PROVE Goal
  BY <1>3, <1>4, <1>5, <1>6, <1>9, ObservedAssumption DEF Serve, Resolve
<1>10. \/ \E r \in Request : Serve(r) \/ Resolve(r) \/ Again(r)
       \/ Tick
       \/ request' = request
  BY DEF Next, Wake, ProbeAnswered, vars
<1> QED
  BY <1>7, <1>8, <1>9, <1>10

\* A coroutine that ends with AllReplicasOpen has just found nowhere to route.
LEMMA AllOpenWasFound ==
    ASSUME PInv, [Next]_vars, NEW q \in Request,
           request'[q].result = "all_open", request[q].result # "all_open"
    PROVE  NowhereToRoute(q)
<1>1. request \in [Request -> RequestState] /\ request'[q] # request[q]
  BY DEF PInv, TypeOK
<1>2. ~Tick /\ request' # request
  BY <1>1, TickPInv
<1>3. PICK r \in Request : Serve(r) \/ Resolve(r) \/ Again(r)
  BY <1>2 DEF Next, Wake, ProbeAnswered, vars
<1>4. CASE NowhereToRoute(r)
  <2>1. q = r
    BY <1>1, <1>4 DEF NowhereToRoute
  <2> QED
    BY <1>4, <2>1
<1>5. CASE Attempt(r)
  <2>1. PICK u \in Candidates(request[r].exclude) :
           request' = [request EXCEPT ![r] =
                          [request[r] EXCEPT !.pc = "sending", !.upstream = u]]
    BY <1>5, AttemptShape DEF PInv
  <2>2. request'[q].result = request[q].result
    BY <1>1, <2>1 DEF RequestState
  <2> QED
    BY <2>2
<1>6. ASSUME NEW o \in Outcome, Answer(r, o) PROVE FALSE
  <2>1. q = r /\ request'[q] = AfterAnswer(request[q], o)
    BY <1>1, <1>6, AnswerShape
  <2>2. request[q] \in RequestState /\ RequestInv(request[q]) /\ request[q].pc = "sending"
    BY <1>1, <1>6, <2>1 DEF PInv, Answer
  <2>3. AfterAnswer(request[q], o).result \in {"ok", "status", "unreachable", request[q].result}
    BY <2>2, AnswerIsSafe
  <2> QED
    BY <2>1, <2>3
<1>7. CASE Again(r)
  <2>1. request'[q] = NewRequest
    BY <1>1, <1>7 DEF Again
  <2>2. "all_open" # None
    BY NoneAssumption DEF Results
  <2> QED
    BY <2>1, <2>2, NewIsFresh
<1> QED
  BY <1>3, <1>4, <1>5, <1>6, <1>7, ObservedAssumption DEF Serve, Resolve

\* A 503 of the router's own means that every replica is out: excluding the one that
\* has just failed turns no retry away (client.py:294-296).
THEOREM TurnedAwayMeansAllOpen == Spec => TurnedAwayOnlyWhenAllOpen
<1>1. ASSUME PInv, [Next]_vars, NEW r \in Request,
             request'[r].result = "all_open", request[r].result # "all_open"
      PROVE  BreakerEnabled /\ InRotation = {}
  <2>1. Candidates(request[r].exclude) = {}
    BY <1>1, AllOpenWasFound DEF NowhereToRoute
  <2> QED
    BY <2>1, CandidatesShape
<1>2. PInv /\ [Next]_vars =>
        [ \A r \in Request :
            request'[r].result = "all_open" /\ request[r].result # "all_open"
            => BreakerEnabled /\ InRotation = {} ]_vars
  BY <1>1
<1> QED
  BY <1>2, SpecPInv, PTL DEF Spec, TurnedAwayOnlyWhenAllOpen

\* A retry that goes back to the replica that has just failed had no other choice.
THEOREM RetriesGoElsewhere == Spec => RetryGoesElsewhere
<1>1. ASSUME PInv, [Next]_vars, NEW r \in Request, BreakerEnabled,
             request[r].pc = "backoff", request'[r].pc = "sending",
             request'[r].upstream = request[r].log[Len(request[r].log)].url
      PROVE  InRotation = {request'[r].upstream}
  <2>1. request'[r].upstream \in Candidates(request[r].exclude)
    BY <1>1, SendingWasPicked
  <2>2. request[r].exclude = request'[r].upstream
    BY <1>1 DEF PInv, RequestInv
  <2> QED
    BY <1>1, <2>1, <2>2, CandidatesShape
<1>2. PInv /\ [Next]_vars =>
        [ \A r \in Request :
            /\ BreakerEnabled
            /\ request[r].pc = "backoff" /\ request'[r].pc = "sending"
            /\ request'[r].upstream = request[r].log[Len(request[r].log)].url
            => InRotation = {request'[r].upstream} ]_vars
  BY <1>1
<1> QED
  BY <1>2, SpecPInv, PTL DEF Spec, RetryGoesElsewhere

\* A replica that is out gets no new attempt; those in flight to it only end.
THEOREM OutagesTakeNoTraffic == Spec => OutageTakesNoTraffic
<1>1. ASSUME PInv, [Next]_vars, BreakerEnabled, NEW u \in Replica, ~Allows(breakers[u]),
             NEW r \in Request, request'[r].pc = "sending", request'[r].upstream = u
      PROVE  request[r].pc = "sending" /\ request[r].upstream = u
  <2>1. u \notin Candidates(request[r].exclude)
    BY <1>1, CandidatesShape DEF InRotation
  <2> QED
    BY <1>1, <2>1, SendingWasPicked
<1>2. PInv /\ [Next]_vars =>
        [ BreakerEnabled => \A u \in Replica :
            ~Allows(breakers[u]) => Sending(u)' \subseteq Sending(u) ]_vars
  BY <1>1 DEF Sending
<1> QED
  BY <1>2, SpecPInv, PTL DEF Spec, OutageTakesNoTraffic

\* A breaker closes only when a probe is answered, and a probe is sent only when its
\* replica is due: by then no Retry-After handed out has more than a second to run, the
\* rounding (min() in pick, seconds_until_probe, the header at chat.py:186).
THEOREM RetryAfterIsNotTooLong == Spec => RetryAfterNotTooLong
<1>1. ASSUME PInv, [Next]_vars, NEW u \in Replica,
             ~Allows(breakers[u]), Allows(breakers'[u]), NEW r \in Request
      PROVE  request[r].wait <= Second
  <2>1. ASSUME NEW q \in Request, NEW o \in Outcome, Answer(q, o) PROVE FALSE
    BY <1>1, <2>1, AnswerShape
  <2>2. ASSUME NEW wedged \in SUBSET Replica, Wake(wedged) PROVE FALSE
    BY <1>1, <2>2, WakePInv
  <2>3. ~Tick /\ breakers' # breakers
    BY <1>1, TickPInv
  <2>4. \E ok \in BOOLEAN, wedged \in SUBSET Replica : ProbeAnswered(ok, wedged)
    BY <1>1, <2>1, <2>2, <2>3, ObservedAssumption
    DEF Next, Serve, Resolve, NowhereToRoute, Attempt, Again, vars
  <2> QED
    BY <1>1, <2>4, ProbePInv
<1>2. PInv /\ [Next]_vars =>
        [ \A u \in Replica : ~Allows(breakers[u]) /\ Allows(breakers'[u])
            => \A r \in Request : request[r].wait <= Second ]_vars
  BY <1>1
<1> QED
  BY <1>2, SpecPInv, PTL DEF Spec, RetryAfterNotTooLong
=============================================================================
