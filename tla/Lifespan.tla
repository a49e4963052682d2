------------------------------ MODULE Lifespan ------------------------------
(***************************************************************************)
(* The gateway as a process: lifespan in gateway/main.py with the pool's   *)
(* start and stop, the three background loops it owns, and GET /readyz,    *)
(* which asks every replica in turn.  The application may be started again *)
(* after it has stopped; the pool is the same object.                      *)
(*                                                                         *)
(* uvicorn is external: at a shutdown it accepts nothing more, lets what   *)
(* is in flight finish, and then ends the lifespan.                        *)
(***************************************************************************)
EXTENDS Naturals, Sequences, FiniteSets

CONSTANTS
    Replicas,  \* pool.urls, in their order
    Check      \* bound: the /readyz requests in flight at a time

ASSUME LifespanAssumption == Replicas \in Seq(STRING) /\ Replicas # <<>> /\ IsFiniteSet(Check)

VARIABLES
    phase,     \* of the process
    client,    \* pool._client: is there one
    task,      \* each background loop
    awaiting,  \* the task the end of the lifespan awaits
    check,     \* each GET /readyz
    up         \* the replicas that answer GET /models below 400

vars == <<phase, client, task, awaiting, check, up>>

\* In the order in which lifespan creates, cancels and awaits them.
Tasks == <<"upstream-metrics", "loop-lag", "breaker-prober">>
Task == {Tasks[i] : i \in DOMAIN Tasks}
Replica == {Replicas[i] : i \in DOMAIN Replicas}

\* asked: how many replicas have answered; out: those found reachable.
\* History, of the time since the check began: those that were always up, and those
\* that ever were.
CheckState == [pc      : {"idle", "asking", "green", "red"},
               asked   : 0..Len(Replicas),
               out     : SUBSET Replica,
               always  : SUBSET Replica,
               ever    : SUBSET Replica]

NoCheck == [pc |-> "idle", asked |-> 0, out |-> {}, always |-> {}, ever |-> {}]

TypeOK == /\ phase \in {"down", "serving", "draining", "cancelling", "closing"}
          /\ client \in BOOLEAN
          /\ task \in [Task -> {"none", "asleep", "calling", "cancelled", "ended"}]
          /\ awaiting \in 1..Len(Tasks) + 1
          /\ check \in [Check -> CheckState]
          /\ up \subseteq Replica

Init == /\ phase = "down"
        /\ client = FALSE
        /\ task = [t \in Task |-> "none"]
        /\ awaiting = 1
        /\ check = [c \in Check |-> NoCheck]
        /\ up \in SUBSET Replica

-----------------------------------------------------------------------------
\* pool.start, then the tasks.
Start ==
    /\ phase = "down"
    /\ phase' = "serving"
    /\ client' = TRUE
    /\ task' = [t \in Task |-> "asleep"]
    /\ UNCHANGED <<awaiting, check, up>>

\* A pass of a loop over the client; the lag monitor only sleeps.
Call(t) ==
    /\ task[t] = "asleep"
    /\ t # "loop-lag"
    /\ client
    /\ task' = [task EXCEPT ![t] = "calling"]
    /\ UNCHANGED <<phase, client, awaiting, check, up>>

\* It ends, well or with an exception that the loop logs.
Return(t) ==
    /\ task[t] = "calling"
    /\ task' = [task EXCEPT ![t] = "asleep"]
    /\ UNCHANGED <<phase, client, awaiting, check, up>>

\* The signal: what is in flight may finish, nothing new is accepted.
Drain ==
    /\ phase = "serving"
    /\ phase' = "draining"
    /\ UNCHANGED <<client, task, awaiting, check, up>>

\* Fault: the tasks are cancelled and not awaited.
CancelOnly ==
    /\ phase = "draining"
    /\ \A c \in Check : check[c].pc = "idle"
    /\ phase' = "cancelling"
    /\ task' = [t \in Task |-> "cancelled"]
    /\ awaiting' = Len(Tasks) + 1
    /\ UNCHANGED <<client, check, up>>

\* The finally of lifespan: all are cancelled before the first is awaited.
Cancel ==
    /\ phase = "draining"
    /\ \A c \in Check : check[c].pc = "idle"
    /\ phase' = "cancelling"
    /\ task' = [t \in Task |-> "cancelled"]
    /\ awaiting' = 1
    /\ UNCHANGED <<client, check, up>>

\* Fault: the loop takes its cancellation for one more failed pass.
Swallow(t) ==
    /\ task[t] = "cancelled"
    /\ task' = [task EXCEPT ![t] = IF t = "loop-lag" THEN "ended" ELSE "asleep"]
    /\ UNCHANGED <<phase, client, awaiting, check, up>>

\* CancelledError, at the await the loop was suspended at; the loops raise it again.
End(t) ==
    /\ task[t] = "cancelled"
    /\ task' = [task EXCEPT ![t] = "ended"]
    /\ UNCHANGED <<phase, client, awaiting, check, up>>

AwaitTask ==
    /\ phase = "cancelling"
    /\ awaiting <= Len(Tasks)
    /\ task[Tasks[awaiting]] = "ended"
    /\ awaiting' = awaiting + 1
    /\ UNCHANGED <<phase, client, task, check, up>>

\* pool.stop drops the client, then awaits its aclose().
Stop ==
    /\ phase = "cancelling"
    /\ awaiting > Len(Tasks)
    /\ phase' = "closing"
    /\ client' = FALSE
    /\ UNCHANGED <<task, awaiting, check, up>>

Stopped ==
    /\ phase = "closing"
    /\ phase' = "down"
    /\ task' = [t \in Task |-> "none"]
    /\ awaiting' = 1
    /\ UNCHANGED <<client, check, up>>

-----------------------------------------------------------------------------
(***************************************************************************)
(* GET /readyz: pool.health, one replica after the other, each under the   *)
(* probe timeout.                                                          *)
(***************************************************************************)
Ask(c) ==
    /\ phase = "serving"
    /\ check[c].pc = "idle"
    /\ check' = [check EXCEPT ![c] = [NoCheck EXCEPT !.pc = "asking", !.always = up, !.ever = up]]
    /\ UNCHANGED <<phase, client, task, awaiting, up>>

\* An answer below 400, or not; an exception of any kind counts as not.
Probed(c) ==
    /\ check[c].pc = "asking"
    /\ check[c].asked < Len(Replicas)
    /\ LET replica == Replicas[check[c].asked + 1]
       IN  check' = [check EXCEPT ![c].asked = @ + 1,
                                  ![c].out = IF client /\ replica \in up THEN @ \cup {replica}
                                                                         ELSE @]
    /\ UNCHANGED <<phase, client, task, awaiting, up>>

\* Fault: every replica has to be reachable.
VerdictOfAll(c) ==
    /\ check[c].pc = "asking"
    /\ check[c].asked = Len(Replicas)
    /\ check' = [check EXCEPT ![c].pc = IF check[c].out = Replica THEN "green" ELSE "red"]
    /\ UNCHANGED <<phase, client, task, awaiting, up>>

\* "ANY reachable replica means ready"; an open breaker is reported and not counted.
Verdict(c) ==
    /\ check[c].pc = "asking"
    /\ check[c].asked = Len(Replicas)
    /\ check' = [check EXCEPT ![c].pc = IF check[c].out # {} THEN "green" ELSE "red"]
    /\ UNCHANGED <<phase, client, task, awaiting, up>>

Answered(c) ==
    /\ check[c].pc \in {"green", "red"}
    /\ check' = [check EXCEPT ![c] = NoCheck]
    /\ UNCHANGED <<phase, client, task, awaiting, up>>

\* A replica goes or comes back.
Turn(replica) ==
    /\ up' = IF replica \in up THEN up \ {replica} ELSE up \cup {replica}
    /\ check' = [c \in Check |->
                    IF check[c].pc # "asking" THEN check[c]
                    ELSE [check[c] EXCEPT !.always = @ \cap up', !.ever = @ \cup up']]
    /\ UNCHANGED <<phase, client, task, awaiting>>

-----------------------------------------------------------------------------
Loops(t) == Call(t) \/ Return(t) \/ End(t)

Finally == Cancel \/ AwaitTask \/ Stop \/ Stopped

Readyz(c) == Probed(c) \/ Verdict(c) \/ Answered(c)

Next == \/ Start \/ Drain \/ Finally
        \/ \E t \in Task : Loops(t)
        \/ \E c \in Check : Ask(c) \/ Readyz(c)
        \/ \E replica \in Replica : Turn(replica)

Spec == Init /\ [][Next]_vars

\* The loop runs what is ready, every probe ends by its timeout, and a cancelled
\* task is resumed; nobody owes a start, a shutdown or a check.
FairSpec == /\ Spec
            /\ WF_vars(Finally)
            /\ \A t \in Task : WF_vars(End(t))
            /\ \A c \in Check : WF_vars(Readyz(c))

-----------------------------------------------------------------------------
(***************************************************************************)
(* Properties.                                                             *)
(***************************************************************************)
\* "Cancel and await BEFORE closing the client" (main.py:133-134): when the pool
\* lets go of its client nobody is using it or will again, neither a loop, wherever
\* its cancellation found it, nor a /readyz still walking its replicas.
ClientClosedLast ==
    ~client => /\ \A t \in Task : task[t] \in {"none", "ended"}
               /\ \A c \in Check : check[c].pc # "asking"

\* The verdict is pieced together from probes of different moments (client.py:423).
\* All the same it is green for a replica that was up throughout, and only for one
\* that was up at some time: a replica that restarts while another stays up does not
\* turn /readyz red.
ReadinessIsHonest ==
    \A c \in Check : /\ check[c].pc = "red" => check[c].always = {}
                     /\ check[c].pc = "green" => check[c].ever # {}

\* A shutdown ends, whatever the loops were doing and whatever the replicas do.
ShutdownCompletes == phase = "draining" ~> phase = "down"
=============================================================================
