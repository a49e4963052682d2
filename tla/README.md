# A TLA+ model of the inference gateway

This directory holds TLA+ modules that model the gateway in `gateway/` (an
authenticating, OpenAI-compatible proxy in front of vLLM replicas), the TLC
configurations that model-check them, and theorems about them that TLAPS proves.
Paths and line numbers below are relative to the repository root.

    tlasany M.tla                          parse a module
    tlc -workers 2 -config X.cfg M         model-check module M
    tlapm M.tla                            check the proofs of module M

`PROJECT.json` lists the components, the runs, the hazards, the mutants that show
each property can fail, the theorems, and for every definition the lines it models.

## 1. Inventory

The gateway is one process with one asyncio event loop (`--workers 1`). All state is
in memory; nothing but the audit log is written, so a crash forgets everything. Code
runs from one `await` to the next without interruption. That is the grain of every
action in the modules: an action is what one handler or task does between two awaits.

| Component | State | Operations | Talks to |
|---|---|---|---|
| Circuit breaker, `upstream/breaker.py` | per replica: state, score, `opened_at`, `open_sec`, `good_probes`, `last_probe_at`, `probation_until`, `wedge_confirmations` | `record_success`, `record_failure`, `record_wedge`, `due_for_probe`, `record_probe`, `threshold`, `allows`, `seconds_until_probe` | called by the pool and the prober |
| Upstream pool, `upstream/client.py` | `_next`, the breaker registry, the HTTP client | `pick`, `record`, `classify`, `_should_retry`, `_send_and_record`, `_with_retry`, `probe`, `health` | replicas; breakers; called by the route and the prober |
| Breaker prober, `main.py` | where it is in its pass, one reading of the clock | a pass over all replicas, then a sleep | breakers, `pool.probe`, the wedge verdict |
| Wedge detector and scraper, `upstream/metrics_scraper.py`, `main.py` | per replica: last token counter, `stall_since`; which replicas fail | `observe`, `on_scrape_failure`, `suspected`, `poll_once` | replicas' `/metrics`; read by the prober |
| Quota, `quota.py` | per key: slots in flight, tokens used | `check_budget`, `acquire`, `release`, `record_usage` | called by the route |
| Chat route, `routes/chat.py` | per request: who owns its slot and its upstream response, the usage seen so far | validation, the quota gates, the pool call, the whole response, `_stream` and its `relay()` | quota, pool, audit, the ASGI server |
| Authentication, `auth/` | the key store, read once; a limiter of argon2 threads and its queue | `get_key_store`, `require_principal`, `KeyStore.verify`, `JwtVerifier.verify` | called by the route; the key file, which an operator rewrites |
| Health, models and metrics routes | none | `/healthz`, `/readyz`, `/v1/models`, `/metrics` | `pool.health` |
| Audit log, metrics | counters, the in-flight gauge, a file | `write`, `inc`, the middleware around each request | called by everybody, read by nobody here |
| Lifespan, `main.py` | three background tasks, the pool's client | start, cancel, await, stop | the pool, the loops |
| Stub, scripts, deployment | a fake upstream and tools | | not part of the service |

**What is hard in it, and what makes each part correct.**

* *Breaker.* Requests report outcomes long after they were sent, whatever has become
  of the breaker since; the prober awaits a probe in the middle of its visit, with a
  clock it read before. A breaker in rotation must not carry a score that should have
  tripped it; late outcomes must not touch an outage; a probe's answer must belong to
  the outage it was sent for; an outage must have its minimum length and its streak of
  good probes; a recovered replica must come back, within a bound.
* *Pool.* Concurrent requests share the breakers and one round-robin counter, and
  replicas trip between any two of a request's attempts. No new traffic to a replica
  that is out, no outage manufactured by `exclude`, no repeat of what was answered or may
  be running (but for a reply that broke off, section 6), no more than two attempts, a
  `Retry-After` that fits the outage, every request answered.
* *Wedge watch.* Two unsynchronised loops, scrapes that fail, counters that restart, an
  engine that answers every probe while it serves nothing. A wedged engine must leave
  rotation and stay out; an idle or restarted one must not be taken for it.
* *Quota and route.* The budget is checked at admission and charged at the end; a slot
  is handed from the handler to `_stream` to a generator, and each of them has exits of
  its own. A slot must be released exactly once however the request ends.
* *Authentication.* Threads that race to build the store from a file being rewritten, a
  queue of any length before a bounded limiter, a decision taken before a long hash and
  delivered after it. A revocation followed by a restart must hold, an expiry may be
  overshot by the hashes under way and by no more, no thread may idle while a caller
  waits, and everybody is answered.
* *The request as a whole.* Fifteen reasons to be refused, exceptions that nothing
  handles, streams that end, break off or are dropped, each with lines of its own for the
  record, the counter, the slot and the connection. Every known caller is audited exactly
  once, the ledgers and the caller agree on what came of it, and nothing stays taken.
* *Lifespan and readiness.* Loops cancelled in the middle of a call on the client that is
  about to be closed; a verdict pieced together from probes of different moments.

The hazards are listed one by one, each at its line, in `PROJECT.json`.

## 2. Modules

| Module | Models | Built on |
|---|---|---|
| `Breaker` | every method of `ReplicaBreaker`, as operators on a record | |
| `ReplicaContract` | abstract: what a breaker promises the router about one replica | |
| `ReplicaBreaker` | one breaker between late outcomes and the prober's visits | `Breaker`; implements `ReplicaContract` |
| `UpstreamPool` | the router, its retries and the prober, over several replicas | `Breaker` |
| `WedgeWatch` | engine, scraper, detector, prober and breaker of one replica | `Breaker` |
| `Quota` | both counters of `quota.py` | |
| `ChatCompletions` | a request from the quota gates to the end of its response | `Quota` |
| `SseRelay` | one stream through `relay()` and `_parse_usage_frame` | |
| `Gateway` | a request from the middleware to its last record: validation, the audit log, the counters, the connection | `ChatCompletions` |
| `Authentication` | `require_principal` with the limiter, its threads, the key store and the file under it | |
| `Lifespan` | start and stop of the process, its three loops, and `/readyz` | |
| `MC...` | weights, limits and symmetry for TLC | |
| `BreakerProofs` | lemmas: what each method of a breaker keeps | `Breaker` |
| `ReplicaBreakerProofs`, `UpstreamPoolProofs`, `WedgeWatchProofs` | theorems | the module they name, `BreakerProofs` |
| `SseRelayProofs`, `AuthenticationProofs`, `LifespanProofs` | theorems | the module they name |
| `GatewayProofs` | theorems about `ChatCompletions` (part 1) and `Gateway` (part 2) | `Gateway` |

**Time.** The breaker keeps timestamps and only ever compares `now - timestamp` with a
fixed duration. The modules keep the *elapsed* times (`opened_ago`, `probed_ago`,
`closed_ago`, `stall_ago`), each saturating just above the largest duration it is
compared with, where no comparison can tell two values apart any more. So time is
unbounded and the state space finite. `Tick` lets one unit pass for everybody. A caller
that passes an old clock (the prober reads it once per pass and awaits probes) is a
`lag` that every comparison subtracts; `MaxLag` bounds it.

**`Breaker` and `ReplicaBreaker`.** A breaker is the record of the Python fields; its
methods are `RecordSuccess`, `RecordFailure`, `RecordWedge`, `RecordProbe`,
`DueForProbe`, `Threshold`, `Allows`, `SecondsUntilProbe`. `_open` and `_close` are
`Opened` and `Closed`, the failed branch of `record_probe` is `Reopened`. In
`ReplicaBreaker`, `Send` is a `pick` that chose this replica, `Succeed` and `Fail` are
`UpstreamPool.record`; `Watch`, `PassBy`, `StartProbe` and `FinishProbe` are what
`_breaker_prober` does when its pass reaches this replica. `strikes`, `out_for` and
`sound_for` are history. `Turn` is the replica failing or recovering.

**`UpstreamPool`.** `Attempt` is `pick` with the send that follows it, `NowhereToRoute`
the `AllReplicasOpen` it raises, `Answer` the return of the send with `record`,
`_should_retry` and the decision of `_with_retry`, which no await separates. The backoff
is the stage between `Answer` and the next `Attempt` and may last any time: the length is
not modelled. `Told` is what the route makes of the pool's wait, whole seconds rounded up
and at least one (`chat.py:186`); `Second` is the units in a second. `Wake` and
`ProbeAnswered` are the prober: `Sweep` is the part of its pass between two awaits.
Outcomes are those the code tells apart: three ways to raise and five classes of status.
The wedge verdict is arbitrary here and is the subject of `WedgeWatch`.

**`WedgeWatch`.** The engine's counter is above, at, or below the last value scraped, or
back exactly on it after a restart (0 again in a crash loop), which `observe` cannot tell
from a stall. `sample` is history: what the last useful scrape really found.
`ScrapeStarts` reads the clock, `ScrapeAnswered` is `observe`, `ScrapeFailed` is `_fail`
or a scrape without the token series. `Watch`, `ProbeStarts` and `ProbeAnswered` are the
prober, `RequestSucceeds` is a request that resets score and confirmations: at any
moment, a wedged engine included, since a stream is a success at its headers.

**`Quota` and `ChatCompletions`.** `Admit` and `TurnAway` are the two gates, in the
order of the code and with no await before the pool call. From there a request is in
the pool, draining an error, handed over, relaying, at a yield, abandoned at a yield, or
closing. The eight ways it ends are the exits of `chat_completions`, `_stream` and
`relay()`. A chunk carries a usage frame or none, and the last one counts.

**`SseRelay`.** Where that usage comes from. A stream is a sequence of symbols: line
breaks, the `data:` that begins a line, and what follows it, told apart as far as
`_parse_usage_frame` does. `Receive` appends a chunk to the buffer, each `ParseEvent` is
a turn of the inner loop, `YieldChunk` the `yield` after it, and the upstream may end or
break off and the caller leave at every await and yield. The error frame is sent in the
two pieces of the code behind whatever was delivered (`notice`), so that it is an event of
its own only behind the end of a line. The reference definition
`UsageOf` reads the text as a whole, from its blank lines. Line ends are `\n`, as vLLM
writes them: events that end in `\r\n\r\n` are never found by the code.

**`Gateway`.** Every action of `ChatCompletions` again, conjoined with what it leaves
behind in `http` (the stage of the request as the middleware sees it, its status, its
audit lines, its counted refusals, the status in `requests_total`), in the gauge
`inflight`, and in `upstream`, the open upstream response of a stream. Before them come
`Enter` (the middleware), `Unauthorized` and `Authenticate` (the dependency; the two
outcomes of `Authentication`), `Flawed` (a body by its first flaw, with `FlawStatus` the
rejections in the order of the code), `Unhandled`, and the gates. `Reject` is `_reject`:
count, audit, raise. After them comes `Exit`, the middleware's `finally`. A stream whose
caller leaves is over for the middleware (`RelayDropped`) before its generator is
finalised, and its record is written by the generator (`RelayCloses`), unless its
`_record_usage` raises on a usage that is not one of token counts (`UsageRaises`). The
upstream succeeds with any status of `OkStatus`, the answer to the caller is 200.

**`Authentication`.** `get_key_store` is a plain function that FastAPI runs in a thread:
`ReadFile`, `InstallStore` and `TakeStore` are its look, its assignment and its return,
and two requests may be anywhere in it. `DecideOnTheLoop` and `Dispatch` are
`require_principal`; `Look` is the part of `KeyStore.verify` that reads the record, and
`Resume` the coroutine that goes on after the thread. anyio hands the token of the
limiter over when that coroutine goes on, to the longest waiter. `write_text` truncates
and then fills the file, hence `writing`: a reader in between finds no keys, or half a
document. `barred` and `overdue` are history.

**`Lifespan`.** A loop is asleep, in a call on the client, cancelled or ended; `Cancel`
cancels all three wherever they are, `AwaitTask` awaits them in the order of the code,
`Stop` drops the client and `Stopped` ends its `aclose()`. A `/readyz` check remembers
which replicas were up all the time and which at some time since it began.

## 3. Runs

| Run | States | What it asks and shows |
|---|---|---|
| `ReplicaBreaker` | 360,527 | one breaker with the code's weights and durations (a unit is 5 s): the score stays below the threshold in force through probation and its end; a probe's answer always meets its own outage; outside probation no single failure trips; late outcomes are inert; the contract is implemented; a replica that recovers is found within the longest backoff plus the prober's delays and comes back |
| `UpstreamPool` | 840,748 | two requests, two replicas, all interleavings: sound breakers, no manufactured outage, the excluded replica only as a last resort, no new traffic to a replica that is out |
| `UpstreamPoolLive` | 261,610 | one request whose attempts end in every way there is, the clock running on during a probe: what is repeated, and how often; a `Retry-After` at most a second longer than the outage; every outage is probed by the one prober task, no request is lost between its attempts |
| `ChatCompletions` | 418,760 | three requests of a limited key or of JWT principals: slots match requests on every exit, the cap holds, the overshoot is bounded, everything reported is charged, every slot returns |
| `SseRelay` | 181,507 | 283 streams, every way to cut them, break them off or leave them: what is read of a stream does not depend on the cuts, a usage frame that was delivered is charged, a truncation is marked by the error frame, readable exactly if the break ended a line, the buffer holds one event at most |
| `Gateway` | 255,600 | two requests through everything: one audit record per known caller on every exit, an error has one status and one reason in every ledger and a success is one in all of them, the gauge and the open connections are accounted for |
| `Authentication` | 390,257 | three callers, one thread: at most `Limit` verify and no token idles, an expired key lets in no more than were being verified, a revocation holds from the next start, everybody is answered |
| `Lifespan` | 40,260 | the client is closed when nobody uses it, a shutdown ends, `/readyz` is green for a replica that was up throughout and only for one that was up |
| `WedgeWatch` | 463,520 | the signal is dated, no reclose under a live signal, a wedged engine leaves and stays out once successes cease, an unwedged one is forgiven |
| `UpstreamPoolBroken`, `WedgeConfirmation`, `SseRelayNotObject` | violations | see section 6 |

**Bounds, and why they are enough.**

* *Durations.* `ReplicaBreaker` uses the ratios of the code: first backoff 15 s, cap
  60 s, probe interval 5 s, probation 60 s are 3, 12, 1, 12. Three attempts in flight
  are enough for two failures and a late third. The prober's delays (one second's tick,
  two seconds' probe) are rounded up to a unit. In the other runs durations shrink to
  one unit, so every order of expiry occurs in a few steps; the doubling and its cap are
  the business of `ReplicaBreaker`. `UpstreamPoolLive` has backoffs of three units and a
  second of two, so that waits of no, half, one and one and a half seconds are rounded.
* *Weights.* `UpstreamPool` counts each failure for half a trip: two trip, one does on
  probation. That preserves every branch and reaches trips under retry sooner.
* *Replicas and requests.* Two replicas give the excluded and the other, and the
  outage of all; two requests give a trip during another's backoff. With two, outcomes are
  one of each kind, retried or not and counted or not; with one, all but the 502 to 504,
  which is retried and counted like a failed connect.
* *Cap and budget.* Two slots and three requests: the cap is reached, refused and freed;
  a budget of two with a cost up to two is overshot by one request and by two together.
* *Streams.* Two events of eight kinds and a usage event that may lack its end: that
  makes a usage the first, the last, replaced, hidden by what raises, cut in two, and
  unfinished, and a chunk anything from a symbol to three events.
* *Requests in `Gateway`.* Requests interfere through the quota only, which
  `ChatCompletions` checks with three of them and two slots; here two and one slot give
  the refusal at the cap. One flaw for each status a flaw may have, since a rejection
  differs from another in its status and reason alone; a success that is a 200 and one
  that is not; an error below and one above 500.
* *Callers.* Three callers and one token: one verifies and two wait in an order. They
  come back after each answer, so a caller can be overtaken if the code lets it. One JWT,
  one stranger's key and the key stand for what is decided on the loop, what can only be
  refused in a thread and what a thread may accept.
* *Checks.* Two `/readyz` at a time, two replicas that turn at any moment.
* *Stall.* A window of three units, so that a stall can outlast a lost scrape and end
  before the window.

## 4. Fairness and assumptions about the environment

* The event loop keeps running what is ready, and time passes (`WF(Tick)`). Each await
  in the modelled code carries a timeout (the pool's 120 s, the probe's and the scrape's
  few seconds) or is a sleep, hence weak fairness on answers, on probes and on the
  loops. `_breaker_prober` and `_scrape_loop` catch every exception and go on, so a
  failed pass does not end them.
* `Tick` in `ReplicaBreaker` never passes the point where the prober must act. That is
  the assumption "the breaker's timings assume the loop is responsive" of
  `main.py:81-90`; `RecoversInTime` depends on it. `Recloses` assumes only fairness.
* `ChatCompletions` assumes that the server pulls the stream it was handed, that a
  caller reads what it is sent or goes away, and that `resp.aclose()` returns. The code
  has no timeout for a caller that does neither.
* `Authentication` assumes fairness of the threads and of the loop, per caller. That no
  caller is overtaken for ever follows from the queue and is not assumed. Nothing is
  assumed of the operator, the clock or a restart.
* `Lifespan` assumes that a cancelled task is resumed and that a probe ends (by its
  timeout). uvicorn, as configured, lets the requests in flight finish before it ends the
  lifespan. Nobody owes a start, a shutdown or a check.
* `UPSTREAM_URLS` has distinct entries; a duplicate would share a breaker.
* `MAX_PROMPT_TOKENS` is compared with a word count, so what bounds the cost of a
  request is the upstream's own context limit, `MaxCost` in the module.
* `WedgeIsRemoved` assumes that successes cease (`SuccessesStop`). A wedged engine's server
  still sends the headers of a stream, `client.py:348` records them as a success, and each
  one clears the confirmations the prober counts: with such traffic a wedged replica may
  stay in rotation, and TLC shows it as soon as the hypothesis is dropped. What is left
  then are the read timeouts of the requests.
* A scrape gets through now and then (`ScrapesGetThrough`): if none ever does, the
  detector is frozen as the code intends.

## 5. What is proved

Every theorem holds for every value of the constants that satisfies the assumptions of
its modules. Every safety property of the passing runs is one of them.

* `WeightAssumption`, `TripAssumption`, `TimeAssumption`, `ProbesAssumption`,
  `NeverAssumption` (`Breaker`): weights are naturals and a confirmed wedge weighs at
  least a trip, as the table in `breaker.py` says; durations are naturals and the first
  backoff is positive and within its cap. `ScheduleAssumption` (`ReplicaBreaker`): the
  prober's clock is not older than the first backoff. `OneFailureAssumption`: no outcome
  of a request weighs a trip alone (`breaker.py:46-74`).
* `PoolAssumption`, `ObservedAssumption`, `NoneAssumption` (`UpstreamPool`): at least one
  replica and one attempt, a second of at least one unit, outcomes among those the code
  tells apart, and an absent value that is no replica and no result. `WedgeAssumption`:
  the window is positive.
* `QuotaAssumption`, `ChatAssumption`: each limit is a natural or absent; finitely many
  requests. `StreamAssumption`: a line break is not the `data:` that begins a line, and
  the marks for no usage, for an exception and for the gateway's error are no symbols.

**Breaker.** `BreakerProofs` proves once, for each method, that it leaves a sound
breaker (`SoundBreaker`: typed, below its threshold if closed, with the dates its state
needs), what it does to the score, and when it makes the next probe due. The three
modules that own breakers use these lemmas, one step per action. In `ReplicaBreaker`
`ScoreBelowThreshold` alone is not inductive: that a late failure cannot trip an open
breaker and that a close forgets the score needs the shape of the outage, and
`record_probe` preserves soundness only of a breaker that is out. So the invariant is
`IInv`: types, soundness, and a breaker under probe is out of rotation. It gives
`TypeCorrect`, `ScoreStaysBelowThreshold`, `ProbeAlwaysOwnsOutage` and
`LateOutcomesAreInert`. Three theorems need more:

* `TripsAreDeliberate`: a breaker in rotation with no strike since the last success or
  reclose has no score (`Unstruck`), and from no score one failure does not reach the
  threshold.
* `BreakerImplementsContract` strengthens it to `RInv`, which dates the outage: what
  `out_for` has counted is at least the time since the trip less the lag of the clock that
  dated it, plus an interval for each good probe, so that the close finds `out_for` at
  `MinOutage`; every step then maps to a step of the contract or to a stutter.
* `RecoveryIsBounded`: `RecoversInTime` bounds `sound_for`, but what a step adds to it must
  be paid for by a deadline that the next visit keeps. `SoundBounded` (with `IInv`, `TInv`)
  therefore bounds it by the time since the trip while the breaker is open, and by
  `FoundAfter` the good probes so far plus the time since the last of them while it is half
  open. Those ages saturate at their caps; from there on the time since the last visit,
  which `Tick` bounds, takes over (`Since`).

**Pool.** `PInv` of `UpstreamPoolProofs`: types; `SoundBreaker` of each replica's
breaker; `RequestInv`, what a coroutine holds between two awaits agrees with the attempts
it has given up (in its backoff it excludes the last of them, and every attempt given up
ended in an outcome `_should_retry` repeats); `ProberInv`, the replica under probe is
still due for it; `WaitInv`, while a `Retry-After` has more than a second to run no
replica is in rotation and none is due more than a second before it is over
(`RoundingAddsASecond`). The last two need each other: only the answer of a probe brings
a replica back, the replica probed is due, so nobody waits any more; and that late
outcomes leave the schedule alone rests on the soundness of the breaker they are reported
to. It gives `TypeCorrect`, `BreakersStaySound`, `RetriesAreBounded`,
`TurnedAwayMeansAllOpen`, `RetriesGoElsewhere`, `OutagesTakeNoTraffic` and
`RetryAfterIsNotTooLong`. That the chosen replica is one of the candidates for every
length of the list is arithmetic modulo that length.

**Wedge watch.** `SuspicionIsDated` is not inductive: the detector keeps a stall from one
scrape to the next on the word of a counter. `WInv` dates the stall against the scrapes,
unless the last of them found a restarted counter back on its value (`StallDated`), and
says that a counter that stands where the last useful scrape found it has not moved since
(`IdleDated`); with soundness, and a probe only of a breaker that is out, it gives
`TypeCorrect`, `SuspicionAlwaysDated` and `NeverReclosedUnderSignal`.

**Quota and route** (`GatewayProofs`, part 1). `OvershootBounded` is not inductive: what
limits the overshoot is not the tokens used but those still to come. `IInv` says, per
key, that the slots are the holders, the holders are within the cap, and tokens used plus
`MaxCost` for each holder is within `Budget - 1 + Cap * MaxCost`. `Admit` adds a holder
when the budget still has room; an exit trades a holder for at most `MaxCost` tokens. It
gives `TypeCorrect`, `SlotsAlwaysMatch`, `CapAlwaysRespected` and
`OvershootAlwaysBounded`. For `EverythingIsCharged` the invariant `CInv` adds a balance
per key: tokens used and what the key's live requests have seen and not charged are what
was reported. The sum over the requests is the cardinality of a set of tokens, a token
being a request and a number, so that adding to it is adding elements and no induction is
needed.

**Relay.** `TruncationMarked` and `HoldsOneEvent` need, at every point of the relay, what
its caller has been sent and what the buffer is: `IInv` of `SseRelayProofs` says that the
buffer is the end of what has arrived (`IsTail`, which an append and a cut preserve) and
that a caller that stays has been sent everything but the chunk in hand, and of the error
frame what has been yielded of it. It gives
`TypeCorrect`, `BufferHoldsOneEvent` and `TruncationIsMarked` for every set of streams.
`ChunkingNeverMatters` and `NothingReadIsFree` relate the loop, which takes the text apart
from the front, to `UsageOf`, which looks for finished events in the whole of it. Neither
is recursive, so no induction over the text is needed: `UsageBy(s, m)` is the reference's
answer for the events finished within the first `m` symbols, and the invariant `UInv` says
that the relay's usage is `UsageBy(received, Taken)`, where `Taken` is what has left the
buffer and always a `Boundary`, the place after a blank line. `NextCut` is the heart of
it: one turn of the inner loop moves that boundary past exactly one finished event, whose
text the relay and the reference read alike (`CutIsEvent`; a surplus line break may come
before it, `LeadingBreak`). `UsageAgrees`: what arrives later changes nothing; `QuietSince`:
what has arrived since the boundary says nothing until its event is complete. For
`NothingReadIsFree`, `UInv` adds that what was sent to the caller ends before the first
event still in the buffer does, which an exception in the middle of a chunk leaves there.

**The request as a whole** (`GatewayProofs`, part 2). `GatewayImplementsChat` says that
every step of `Gateway` is a step of `ChatCompletions` or none, so the theorems of part 1
hold of it as well: `QuotaHoldsInTheGateway` states them. None of the three properties of
`Gateway` is inductive, because what has been written about a request depends on where it
is. `GInv` therefore relates, for each request, its stage in `http` to its stage in
`request`, to the connection in `upstream` and to what is in its ledgers: nothing before
the gates (`Early`) and in the handler (`Handled`); at most the counted break while its
stream is relayed (`Relayed`); and once it is answered (`Answered`) either `Settled`, one
record that tells of the caller's status and has the counted reason, or still owned by a
generator that has yet to write it. The gauge is a cardinality, kept by `Enter` and
`Exit` alone. It gives `GatewayTypeCorrect`, `AlwaysAuditedOnce`, `LedgersAlwaysAgree`
and `NothingEverLeaks`, from `GatewayAssumption` (the flaws are those of the table, a
success of an upstream is a status from 200 to 399 and an error one from 400 to 599, the
absent reason is no reason).

**Authentication.** Four invariants, each needed by the next or by a property. `QueueInv`:
the queue is the waiting callers, each of them once. `TokenInv`: a token for each caller in
a thread, none idle while somebody waits; with the queue it gives `AlwaysBoundedAndBusy`.
`ExpiryInv`: after the expiry those let in late and those about to be are together within
`Limit`, for whoever was accepted held a token; it gives `ExpiryOvershootAlwaysBounded`.
`StoreInv`: once a process has started after the revocation no store it has read, installed
or not, holds the live key; it gives `RevocationAlwaysHolds`. From `AuthAssumption`
(finitely many callers, a positive limit) and `NoneAssumption` (no store is none of the
stores).

**Lifespan.** `PhaseInv` says what each phase has already ended: in `cancelling`, the loops
awaited so far; in `closing`, all of them, with no check in progress. `CheckInv` says that
a check has found out at least those asked that were always up, and only some that ever
were. They give `ClientIsClosedLast` and `ReadinessAlwaysHonest`, from
`LifespanAssumption`.

**Only model-checked.** Liveness (`Recloses`, `EveryOutageProbed`, `EveryRequestEnds`,
`EverySlotReturns`, `WedgeIsRemoved`, `WedgeIsForgiven`, `EveryCallerAnswered`,
`ShutdownCompletes`): fairness and `ENABLED` are out of the prover's reach. The inductive
invariants were given to TLC as invariants of the same instances before they were proved.
No module declares a RECURSIVE operator; induction over data is not used.

## 6. Where the documentation and the code differ

* `client.py:152-154` takes every exception but a read timeout for one that reached
  nothing; a reply broken off has reached the GPU, and is retried (`UpstreamPoolBroken`).
* `breaker.py:148-149` and its warning say the second confirmation is the next scrape's;
  the prober re-reads the same scrape a second later (`WedgeConfirmation`).
* `chat.py:284-285` says that reading the usage never breaks the stream it observes; an
  event that is JSON but not an object does (`SseRelayNotObject`).
* The signature itself may miss a frozen engine, as `docs/PROBE_CONTRACT.md` §4 reports:
  `num_requests_waiting` may stay 0. `WedgeIsRemoved` is about an engine that stays
  wedged *with work waiting*.

Differences that no run checks, read off the code and its modules:

* `client.py:127` says that no attempt was answered; `UpstreamUnreachable` is raised on
  the last attempt's exception alone (`Answer` in `UpstreamPool`).
* `client.py:254` says round-robin; one counter modulo a list that changes length can
  pass over the same healthy replica again and again (`Candidates`).
* `keys.py:191-193` says that the audit log records which rejection a key met; a 401
  leaves no record (`Unauthorized` in `Gateway`), as `metrics.py:238-240` admits.
* `chat.py:32-33` says that the counter and the audit log cannot drift apart; the error of
  an upstream on a whole response is audited and not counted (`WholeError`), on a stream
  it is both (`RejectDrained`). `LedgersAgree` states exactly this exception.
* `chat.py:393-397` says of a truncated stream that it will "say so explicitly"; the error
  frame begins with `data:` and no line break, so behind an unfinished line it is a part of
  that line, and a consumer that skips what it cannot parse sees a short answer.
  `TruncationMarked` states when it can be read.
* A success is audited with the status of the upstream (`chat.py:217`, `chat.py:419`) while
  the caller and `requests_total` get 200 (`chat.py:228`, `chat.py:431`): they differ for a
  201 or a redirect. `LedgersAgree` says that this is the only difference.
* `metrics_scraper.py:131-140` takes a counter that has not moved for a stall; one that a
  restart has brought back exactly to the last value has not either. `SuspicionIsDated`
  names the case (`sample.back`).
* `Retry-After` is rounded up to whole seconds and at least one (`chat.py:186`), so a caller
  may be kept away up to a second after the outage, which `RetryAfterNotTooLong` allows.
* `health.py:32` says red only when no replica is reachable; `/readyz` asks one after the
  other, so replicas that take turns can be found down each. What does hold is
  `ReadinessIsHonest`.
* `BREAKER_OPEN_SEC` (`config.py:150-155`) is read only as the default of a `min()` over a
  list that is never empty, so setting it changes nothing.

## 7. Not modelled, and the plan

Not modelled because there is no behaviour to state a property of: `models.py` and
`config.py` (constants), the checks inside PyJWT, the wording of the audit line, the
instruments nothing reads, the exposition, the load generator and the deployment files.
The stub is a test double: its failure modes are among the outcomes `UpstreamPool`,
`Gateway` and `WedgeWatch` give an upstream. Of the validation, the tests on the body are
abstracted to its first flaw. Of the key file, several keys are: `dev_key.sh` loads, adds
and saves without a lock, and two operators at once may lose one of their writes. A usage
of which one of the two counts is a number and the other is not is one of no tokens, in
the model as for the budget, and in a stream such a usage comes behind no good one.
`resp.aclose()` returns and does not raise. The requests in
flight at a shutdown are not in `Lifespan`: the server ends them before the lifespan (the
`Drain` of the module), and one whose caller neither reads nor leaves can hold it there.

Every safety property the runs check is proved. What remains of the plan:

1. Each breaker of `UpstreamPool` implements `ReplicaContract`, as the one of
   `ReplicaBreaker` does; this needs the length of an outage as history in the pool too.
2. `UpstreamPool` read as the source of what `PoolAnswers` returns in `ChatCompletions`,
   so that a request's attempts and its slot can be stated together.
