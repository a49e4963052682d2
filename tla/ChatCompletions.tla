--------------------------- MODULE ChatCompletions ---------------------------
(***************************************************************************)
(* The life of a POST /v1/chat/completions in gateway/routes/chat.py from  *)
(* the moment its body has been accepted: the two quota gates, the call to *)
(* the pool, and the two ways a response leaves, whole or relayed frame by *)
(* frame.  Each action runs from one await to the next.  The pool is seen  *)
(* through what its call returns or raises; the server (Starlette under    *)
(* uvicorn) through when it pulls the generator, cancels it or drops it.   *)
(***************************************************************************)
EXTENDS Quota, FiniteSets

CONSTANTS
    Request,    \* bound: the requests that arrive
    MaxCost,    \* most tokens the upstream reports for a request (its own
                \* --max-model-len bounds prompt and completion together)
    MaxChunks   \* bound: chunks of a stream (max_tokens is clamped)

ASSUME ChatAssumption == /\ IsFiniteSet(Request)
                         /\ MaxCost \in Nat
                         /\ MaxChunks \in Nat

VARIABLES
    request,    \* each request's coroutine, then its relay generator
    reported    \* history: tokens the upstream has reported for each key

vars == <<quotaVars, request, reported>>

Usage == 0..MaxCost \cup {None}

\* Where a request is suspended while it occupies its slot.
Waiting == {"pool"}                    \* pool.request or pool.open_stream
Streaming == {"draining",              \* _drain_error reads an error body
              "handed_over",           \* StreamingResponse returned, not yet pulled
              "relaying",              \* relay() awaits the next upstream chunk
              "sending",               \* relay() is at a yield, the server sends
              "abandoned",             \* at a yield the server will not resume
              "closing"}               \* relay()'s finally awaits resp.aclose()
Live == Waiting \cup Streaming

RequestState == [pc     : {"new", "done"} \cup Live,
                 key    : Key \cup {None},
                 stream : BOOLEAN,
                 usage  : Usage,
                 broken : BOOLEAN,
                 left   : 0..MaxChunks]

NewRequest == [pc |-> "new", key |-> None, stream |-> FALSE,
               usage |-> None, broken |-> FALSE, left |-> MaxChunks]

TypeOK == /\ QuotaTypeOK
          /\ request \in [Request -> RequestState]
          /\ reported \in [Key -> Int]

Init == /\ QuotaInit
        /\ request = [r \in Request |-> NewRequest]
        /\ reported = [k \in Key |-> 0]

-----------------------------------------------------------------------------
Move(r, pc) == request' = [request EXCEPT ![r].pc = pc]

Leave(r) == request' = [request EXCEPT ![r] = [NewRequest EXCEPT !.pc = "done"]]

\* The upstream has named a cost for r in place of the one it named before.
Report(k, usage, before) ==
    reported' = IF k = None THEN reported
                ELSE [reported EXCEPT ![k] = @ + (IF usage = None THEN 0 ELSE usage)
                                               - (IF before = None THEN 0 ELSE before)]

\* Both gates pass and the slot is taken, with no await from there to the pool.
Admit(r, k, stream) ==
    /\ request[r].pc = "new"
    /\ ~OverBudget(k)
    /\ ~AtCap(k)
    /\ Acquire(k)
    /\ request' = [request EXCEPT ![r].pc = "pool", ![r].key = k, ![r].stream = stream]
    /\ UNCHANGED <<tokens_used, reported>>

\* A 429 from either gate; nothing was taken.
TurnAway(r, k) ==
    /\ request[r].pc = "new"
    /\ OverBudget(k) \/ AtCap(k)
    /\ Leave(r)
    /\ UNCHANGED <<quotaVars, reported>>

-----------------------------------------------------------------------------
(***************************************************************************)
(* The pool answers.                                                       *)
(***************************************************************************)
\* AllReplicasOpen or UpstreamUnreachable: the finally of chat_completions gives
\* the slot back, or for a stream the except clause of _stream.
PoolRaises(r) ==
    /\ request[r].pc = "pool"
    /\ Release(request[r].key)
    /\ Leave(r)
    /\ UNCHANGED <<tokens_used, reported>>

\* A whole response.  usage is None when it carries none, when it is an error, a
\* body that is not JSON, or JSON that is not an object.
Respond(r, usage) ==
    /\ request[r].pc = "pool"
    /\ ~request[r].stream
    /\ Release(request[r].key)
    /\ RecordUsage(request[r].key, usage)
    /\ Report(request[r].key, usage, None)
    /\ Leave(r)

\* An unread stream whose status is an error: it is drained before it is refused.
StreamRefused(r) ==
    /\ request[r].pc = "pool"
    /\ request[r].stream
    /\ Move(r, "draining")
    /\ UNCHANGED <<quotaVars, reported>>

\* Fault: a stream refused before its first chunk keeps its slot.
DrainedWithoutRelease(r) ==
    /\ request[r].pc = "draining"
    /\ Leave(r)
    /\ UNCHANGED <<quotaVars, reported>>

Drained(r) ==
    /\ request[r].pc = "draining"
    /\ Release(request[r].key)
    /\ Leave(r)
    /\ UNCHANGED <<tokens_used, reported>>

\* Fault: the slot is given back when the handler returns the stream.
StreamOpenedReleasing(r) ==
    /\ request[r].pc = "pool"
    /\ request[r].stream
    /\ Move(r, "handed_over")
    /\ Release(request[r].key)
    /\ UNCHANGED <<tokens_used, reported>>

\* From here relay() owns the slot.
StreamOpened(r) ==
    /\ request[r].pc = "pool"
    /\ request[r].stream
    /\ Move(r, "handed_over")
    /\ UNCHANGED <<quotaVars, reported>>

-----------------------------------------------------------------------------
(***************************************************************************)
(* The relay.                                                              *)
(***************************************************************************)
\* The server pulls the generator for the first time.
Pull(r) ==
    /\ request[r].pc = "handed_over"
    /\ Move(r, "relaying")
    /\ UNCHANGED <<quotaVars, reported>>

\* A chunk, which may complete a usage frame; the last such frame counts.
Chunk(r, usage) ==
    /\ request[r].pc = "relaying"
    /\ request[r].left > 0
    /\ request' = [request EXCEPT ![r].pc = "sending", ![r].left = @ - 1,
                                  ![r].usage = usage]
    /\ Report(request[r].key, usage, request[r].usage)
    /\ UNCHANGED quotaVars

\* The stream ends, or the caller has gone and the server cancels the await.
Ended(r) ==
    /\ request[r].pc = "relaying"
    /\ Move(r, "closing")
    /\ UNCHANGED <<quotaVars, reported>>

\* Fault: the error frame does not end the relay.
BreaksOffAndContinues(r) ==
    /\ request[r].pc = "relaying"
    /\ Move(r, "sending")
    /\ UNCHANGED <<quotaVars, reported>>

\* The upstream breaks off: the caller is told so in a last frame, not [DONE].
BreaksOff(r) ==
    /\ request[r].pc = "relaying"
    /\ request' = [request EXCEPT ![r].pc = "sending", ![r].broken = TRUE]
    /\ UNCHANGED <<quotaVars, reported>>

Sent(r) ==
    /\ request[r].pc = "sending"
    /\ Move(r, IF request[r].broken THEN "closing" ELSE "relaying")
    /\ UNCHANGED <<quotaVars, reported>>

\* The caller goes away while the server is sending: the generator is dropped at
\* its yield, to be finalised by the event loop in a task of its own.
Dropped(r) ==
    /\ request[r].pc = "sending"
    /\ Move(r, "abandoned")
    /\ UNCHANGED <<quotaVars, reported>>

\* GeneratorExit at the yield.
Finalised(r) ==
    /\ request[r].pc = "abandoned"
    /\ Move(r, "closing")
    /\ UNCHANGED <<quotaVars, reported>>

\* resp.aclose() has returned: the rest of the finally runs in one piece.
Closed(r) ==
    /\ request[r].pc = "closing"
    /\ Release(request[r].key)
    /\ RecordUsage(request[r].key, request[r].usage)
    /\ Leave(r)
    /\ UNCHANGED reported

-----------------------------------------------------------------------------
Arrive(r) == \E k \in Key \cup {None} : \/ TurnAway(r, k)
                                        \/ \E stream \in BOOLEAN : Admit(r, k, stream)

PoolAnswers(r) == \/ PoolRaises(r)
                  \/ \E usage \in Usage : Respond(r, usage)
                  \/ StreamRefused(r)
                  \/ StreamOpened(r)

Upstream(r) == \/ \E usage \in 0..MaxCost \cup {request[r].usage} : Chunk(r, usage)
               \/ Ended(r)
               \/ BreaksOff(r)

Caller(r) == Sent(r) \/ Dropped(r)

Server(r) == Drained(r) \/ Pull(r) \/ Finalised(r) \/ Closed(r)

Next == \E r \in Request : Arrive(r) \/ PoolAnswers(r) \/ Upstream(r) \/ Caller(r) \/ Server(r)

Spec == Init /\ [][Next]_vars

\* The pool's and the upstream's awaits end by their timeouts, a stream by its
\* bounded length; the loop runs what is ready; and a caller either reads what it
\* is sent or goes away.
FairSpec == /\ Spec
            /\ \A r \in Request : /\ WF_vars(PoolAnswers(r))
                                  /\ WF_vars(Upstream(r))
                                  /\ WF_vars(Caller(r))
                                  /\ WF_vars(Server(r))

-----------------------------------------------------------------------------
(***************************************************************************)
(* Properties.                                                             *)
(***************************************************************************)
Holders(k) == {r \in Request : request[r].pc \in Live /\ request[r].key = k}

\* "Every successful acquire MUST be matched by exactly one release, on every exit
\* path" (quota.py:68-71): the counter of a capped key is the number of its
\* requests that are not over, whichever of the eight ways they end.
SlotsMatchHolders == \A k \in Key : HasCap(k) => slots[k] = Cardinality(Holders(k))

\* A capped key never has more requests in the system than its cap, however its
\* arrivals, streams and disconnections interleave.
CapRespected == \A k \in Key : HasCap(k) => Cardinality(Holders(k)) <= Cap[k]

\* The budget is checked against what earlier requests cost (quota.py:5-11), so
\* requests admitted together overshoot it: by less than what as many requests as
\* the cap allows can cost, and never more.
OvershootBounded ==
    \A k \in Key : HasBudget(k) /\ HasCap(k) =>
        tokens_used[k] <= Larger(0, Budget[k] - 1 + Cap[k] * MaxCost)

\* Every token the upstream reported is charged by the time the key's requests are
\* over: a stream that breaks off or whose caller goes away is not a free one.
EverythingCharged ==
    \A k \in Key : Holders(k) = {} => tokens_used[k] = reported[k]

\* No exit path keeps a request, and with it a slot, for ever.
EverySlotReturns ==
    \A r \in Request : request[r].pc \in Live ~> request[r].pc = "done"
=============================================================================
