------------------------------- MODULE Gateway -------------------------------
(***************************************************************************)
(* A POST /v1/chat/completions through the whole gateway: the metrics      *)
(* middleware around it, the authentication dependency, the validation of  *)
(* the body, and then the handler of ChatCompletions, whose steps these    *)
(* are with what they leave behind: the audit record, the counted refusal, *)
(* the status the caller sees, and the upstream connection of a stream.    *)
(*                                                                         *)
(* A body is what its first flaw makes of it.  An exception that nothing   *)
(* handles is a 500 of the server's, which the middleware counts.          *)
(***************************************************************************)
EXTENDS ChatCompletions, Sequences

CONSTANTS
    Flaw,         \* bound: the flaws a body may have
    OkStatus,     \* bound: the statuses below 400 an upstream may answer with
    ErrorStatus   \* bound: the errors an upstream may answer with

VARIABLES
    http,         \* each request as the middleware and the route see it
    inflight,     \* the gauge inflight_requests
    upstream      \* the status of the open upstream response of each stream

gatewayVars == <<vars, http, inflight, upstream>>

\* The rejections of chat_completions that precede both gates, in its order.
FlawStatus == [body_too_large     |-> 413,
               invalid_json       |-> 400,
               invalid_body       |-> 400,
               scope_denied       |-> 403,
               model_not_allowed  |-> 400,
               messages_required  |-> 400,
               prompt_too_long    |-> 400,
               max_tokens_invalid |-> 400]

\* The pool's two exceptions.
PoolStatus == [all_replicas_open |-> 503, upstream_unreachable |-> 502]

\* REJECT_REASONS, the closed vocabulary of the metric; the record has no such limit.
Reason == {"body_too_large", "invalid_json", "invalid_body", "scope_denied",
           "model_not_allowed", "messages_required", "prompt_too_long",
           "max_tokens_invalid", "upstream_unreachable", "upstream_error",
           "upstream_bad_response", "upstream_stream_broken", "all_replicas_open",
           "token_budget_exceeded", "concurrency_cap_exceeded"}

ASSUME GatewayAssumption == /\ Flaw \subseteq DOMAIN FlawStatus
                            /\ OkStatus \subseteq 200..399
                            /\ ErrorStatus \subseteq 400..599
                            /\ None \notin Reason

Status == 200..599

\* status: what the middleware has seen of the response; audit: the request's lines in
\* the audit log; refusals: what it added to rejections_total; recorded: its status in
\* requests_total.
Http == [stage    : {"out", "auth", "body", "handler", "streaming", "responding", "gone"},
         known    : BOOLEAN,
         key      : Key \cup {None},
         status   : Status \cup {None},
         crashed  : BOOLEAN,
         audit    : Seq([status : Status, reason : Reason \cup {None}]),
         refusals : Seq(Reason \cup {"other"}),
         recorded : Status \cup {None}]

NotArrived == [stage |-> "out", known |-> FALSE, key |-> None, status |-> None,
               crashed |-> FALSE, audit |-> <<>>, refusals |-> <<>>, recorded |-> None]

GatewayTypeOK == /\ TypeOK
                 /\ http \in [Request -> Http]
                 /\ inflight \in Int
                 /\ upstream \in [Request -> Status \cup {None}]

GatewayInit == /\ Init
               /\ http = [r \in Request |-> NotArrived]
               /\ inflight = 0
               /\ upstream = [r \in Request |-> None]

-----------------------------------------------------------------------------
Stage(r, stage) == http' = [http EXCEPT ![r].stage = stage]

Audited(h, status, reason) ==
    [h EXCEPT !.audit = Append(@, [status |-> status, reason |-> reason])]

Responding(h, status) == [h EXCEPT !.stage = "responding", !.status = status]

\* record_rejection, which folds a reason it does not know.
Counted(h, reason) ==
    [h EXCEPT !.refusals = Append(@, IF reason \in Reason THEN reason ELSE "other")]

\* _reject: count the refusal, audit it, raise it.
Reject(r, status, reason) ==
    http' = [http EXCEPT ![r] = Responding(Audited(Counted(@, reason), status, reason), status)]

\* An exception no handler lists passes through the middleware to the server.
Crash(r) == http' = [http EXCEPT ![r] = [Responding(@, 500) EXCEPT !.crashed = TRUE]]

Open(r, status) == upstream' = [upstream EXCEPT ![r] = status]

-----------------------------------------------------------------------------
(***************************************************************************)
(* From the first byte to the gates.                                       *)
(***************************************************************************)
Enter(r) ==
    /\ http[r].stage = "out"
    /\ Stage(r, "auth")
    /\ inflight' = inflight + 1
    /\ UNCHANGED <<vars, upstream>>

\* require_principal raises in the dependency: the handler never runs.
Unauthorized(r) ==
    /\ http[r].stage = "auth"
    /\ http' = [http EXCEPT ![r] = Responding(@, 401)]
    /\ UNCHANGED <<vars, inflight, upstream>>

Authenticate(r, k) ==
    /\ http[r].stage = "auth"
    /\ http' = [http EXCEPT ![r].stage = "body", ![r].known = TRUE, ![r].key = k]
    /\ UNCHANGED <<vars, inflight, upstream>>

\* The caller leaves before its body is in (request.body() raises), or the body
\* has a message that is no object or an infinite max_tokens.
Unhandled(r) ==
    /\ http[r].stage = "body"
    /\ Crash(r)
    /\ UNCHANGED <<vars, inflight, upstream>>

Flawed(r, flaw) ==
    /\ http[r].stage = "body"
    /\ Reject(r, FlawStatus[flaw], flaw)
    /\ UNCHANGED <<vars, inflight, upstream>>

OverLimit(r) ==
    /\ http[r].stage = "body"
    /\ TurnAway(r, http[r].key)
    /\ Reject(r, 429, IF OverBudget(http[r].key) THEN "token_budget_exceeded"
                                                 ELSE "concurrency_cap_exceeded")
    /\ UNCHANGED <<inflight, upstream>>

Forward(r, stream) ==
    /\ http[r].stage = "body"
    /\ Admit(r, http[r].key, stream)
    /\ Stage(r, "handler")
    /\ UNCHANGED <<inflight, upstream>>

-----------------------------------------------------------------------------
(***************************************************************************)
(* The pool's answer.                                                      *)
(***************************************************************************)
NoReplica(r, reason) ==
    /\ PoolRaises(r)
    /\ Reject(r, PoolStatus[reason], reason)
    /\ UNCHANGED <<inflight, upstream>>

\* A JSON object: its usage is charged and the request audited.  Any status below 400
\* is a success, audited as it came and answered with 200.
Whole(r, usage, status) ==
    /\ Respond(r, usage)
    /\ http' = [http EXCEPT ![r] = Responding(Audited(@, status, None), 200)]
    /\ UNCHANGED <<inflight, upstream>>

\* An error of the upstream's is audited here and, unlike a stream's, not counted.
WholeError(r, status) ==
    /\ Respond(r, None)
    /\ http' = [http EXCEPT ![r] = Responding(Audited(@, status, "upstream_error"), status)]
    /\ UNCHANGED <<inflight, upstream>>

NotJson(r) ==
    /\ Respond(r, None)
    /\ Reject(r, 502, "upstream_bad_response")
    /\ UNCHANGED <<inflight, upstream>>

\* JSON that is not an object, or whose usage is not one of token counts: what reads
\* it raises before the audit record.
NotAnObject(r) ==
    /\ Respond(r, None)
    /\ Crash(r)
    /\ UNCHANGED <<inflight, upstream>>

\* Fault: the response is handed over whatever its status is.
ErrorRelayed(r, status) ==
    /\ StreamOpened(r)
    /\ Open(r, status)
    /\ UNCHANGED <<http, inflight>>

StreamError(r, status) ==
    /\ StreamRefused(r)
    /\ Open(r, status)
    /\ UNCHANGED <<http, inflight>>

\* Fault: the error body is drained and its connection kept.
DrainedAndKept(r) ==
    /\ Drained(r)
    /\ Reject(r, upstream[r], "upstream_error")
    /\ UNCHANGED <<inflight, upstream>>

RejectDrained(r) ==
    /\ Drained(r)
    /\ Reject(r, upstream[r], "upstream_error")
    /\ Open(r, None)
    /\ UNCHANGED inflight

StreamOpen(r, status) ==
    /\ StreamOpened(r)
    /\ Open(r, status)
    /\ UNCHANGED <<http, inflight>>

-----------------------------------------------------------------------------
(***************************************************************************)
(* The stream leaves.                                                      *)
(***************************************************************************)
\* The server sends the status line, whose 200 is the gateway's own, and pulls the
\* generator.
StartResponse(r) ==
    /\ Pull(r)
    /\ http' = [http EXCEPT ![r].stage = "streaming", ![r].status = 200]
    /\ UNCHANGED <<inflight, upstream>>

Relay(r) ==
    /\ \/ \E usage \in 0..MaxCost \cup {request[r].usage} : Chunk(r, usage)
       \/ Ended(r)
       \/ Sent(r)
       \/ Finalised(r)
    /\ UNCHANGED <<http, inflight, upstream>>

\* The error frame follows the count of the broken stream.
RelayBreaksOff(r) ==
    /\ BreaksOff(r)
    /\ http' = [http EXCEPT ![r] = Counted(@, "upstream_stream_broken")]
    /\ UNCHANGED <<inflight, upstream>>

\* The response is over for the middleware while the generator is yet to be finalised.
RelayDropped(r) ==
    /\ Dropped(r)
    /\ Stage(r, "responding")
    /\ UNCHANGED <<inflight, upstream>>

BrokenReason(r) == IF request[r].broken THEN "upstream_stream_broken" ELSE None

\* The end of the generator ends the response, unless the server has given it up.
Finished(h) == [h EXCEPT !.stage = IF @ = "streaming" THEN "responding" ELSE @]

\* Fault: the record is written after relay()'s finally and not in it: a generator
\* that is finalised never gets there.
AuditedAfterwards(r) ==
    /\ Closed(r)
    /\ http' = [http EXCEPT ![r] =
                    IF @.stage = "streaming"
                    THEN [Audited(@, upstream[r], BrokenReason(r))
                              EXCEPT !.stage = "responding"]
                    ELSE @]
    /\ Open(r, None)
    /\ UNCHANGED inflight

\* relay()'s finally: the connection, the slot, the usage, the record.
RelayCloses(r) ==
    /\ Closed(r)
    /\ http' = [http EXCEPT ![r] = Finished(Audited(@, upstream[r], BrokenReason(r)))]
    /\ Open(r, None)
    /\ UNCHANGED inflight

\* The last usage frame is not one of token counts, hence none: _record_usage raises in
\* relay()'s finally, after the slot and before the record.
UsageRaises(r) ==
    /\ request[r].usage = None
    /\ Closed(r)
    /\ http' = [http EXCEPT ![r] =
                    [(IF @.stage = "streaming" THEN Responding(@, 500) ELSE @)
                        EXCEPT !.crashed = TRUE]]
    /\ Open(r, None)
    /\ UNCHANGED inflight

\* The middleware's finally: the gauge, and the status it saw or was raised past it.
Exit(r) ==
    /\ http[r].stage = "responding"
    /\ http' = [http EXCEPT ![r].stage = "gone", ![r].recorded = http[r].status]
    /\ inflight' = inflight - 1
    /\ UNCHANGED <<vars, upstream>>

-----------------------------------------------------------------------------
Intake(r) == \/ Enter(r) \/ Unauthorized(r) \/ Unhandled(r) \/ OverLimit(r)
             \/ \E k \in Key \cup {None} : Authenticate(r, k)
             \/ \E flaw \in Flaw : Flawed(r, flaw)
             \/ \E stream \in BOOLEAN : Forward(r, stream)

PoolReturns(r) == \/ \E reason \in DOMAIN PoolStatus : NoReplica(r, reason)
                  \/ \E status \in OkStatus : \/ \E usage \in Usage : Whole(r, usage, status)
                                              \/ StreamOpen(r, status)
                  \/ \E status \in ErrorStatus : WholeError(r, status) \/ StreamError(r, status)
                  \/ NotJson(r) \/ NotAnObject(r)

Leaves(r) == \/ RejectDrained(r) \/ StartResponse(r) \/ Relay(r) \/ RelayBreaksOff(r)
             \/ RelayDropped(r) \/ RelayCloses(r) \/ UsageRaises(r) \/ Exit(r)

GatewayNext == \E r \in Request : Intake(r) \/ PoolReturns(r) \/ Leaves(r)

GatewaySpec == GatewayInit /\ [][GatewayNext]_gatewayVars

-----------------------------------------------------------------------------
(***************************************************************************)
(* Properties.                                                             *)
(***************************************************************************)
\* Nothing of the request runs any more, its generator included.
Over(r) == http[r].stage = "gone" /\ request[r].pc \notin Live

\* Every caller the gateway knew leaves exactly one audit record, on whichever of
\* the exits of chat.py its request took, a dropped generator included.  The one
\* exception is an exception nothing handles: in the validation (chat.py:126), before the
\* record of a whole response (chat.py:207-208), and before that of a stream (chat.py:410).
AuditedOnce ==
    \A r \in Request :
        /\ Len(http[r].audit) <= 1
        /\ Over(r) => Len(http[r].audit) = IF http[r].known /\ ~http[r].crashed THEN 1 ELSE 0

\* What the audit log says of a request and what the middleware recorded of it: an
\* error has one status in both; a success is audited with the upstream's own status
\* (chat.py:217, chat.py:419) and answered with 200 (chat.py:228, chat.py:431).
Tells(audited, answered) == answered = IF audited < 400 THEN 200 ELSE audited

\* The audit log, requests_total and rejections_total tell one story of a request: no
\* failure is a success to the caller or the other way round, which a stream once was
\* (chat.py:310-313), a failure has one status everywhere, and the reason counted is the
\* reason audited ("so the two cannot drift apart", chat.py:32-33), but for an upstream
\* error of a whole response.
LedgersAgree ==
    \A r \in Request : Over(r) /\ http[r].audit # <<>> =>
        LET record == http[r].audit[1]
        IN  /\ Tells(record.status, http[r].recorded)
            /\ \/ record.reason # None /\ http[r].refusals = <<record.reason>>
               \/ record.reason \in {None, "upstream_error"} /\ http[r].refusals = <<>>

\* What a request holds is given back on every exit: the gauge is the number of
\* requests inside ("the gauge would climb forever", metrics.py:272-275), and an
\* upstream response is open only while somebody will close it ("whoever receives a
\* non-error response owns aclose()", chat.py:320-321).
NothingLeaks ==
    /\ inflight = Cardinality({r \in Request : http[r].stage \notin {"out", "gone"}})
    /\ \A r \in Request : upstream[r] # None <=> request[r].pc \in Streaming
    /\ \A r \in Request : http[r].stage \in {"handler", "streaming"} => request[r].pc \in Live
=============================================================================
