--------------------------- MODULE ReplicaContract ---------------------------
(***************************************************************************)
(* What gateway/upstream/breaker.py promises the router about one replica, *)
(* with no score, no timestamps and no backoff: the replica is in rotation *)
(* or out of it, and it comes back only after ProbesToClose consecutive    *)
(* good probes and never sooner than MinOutage after it left.              *)
(***************************************************************************)
EXTENDS Integers

CONSTANTS ProbesToClose, MinOutage

VARIABLES
    serving,   \* is the replica in rotation?
    streak,    \* consecutive good probes of this outage
    out_for    \* how long this outage has lasted, saturating at MinOutage

vars == <<serving, streak, out_for>>

Init == /\ serving = TRUE
        /\ streak = 0
        /\ out_for = 0

Trip == /\ serving
        /\ serving' = FALSE
        /\ streak' = 0
        /\ out_for' = 0

GoodProbe == /\ ~serving
             /\ streak + 1 < ProbesToClose
             /\ streak' = streak + 1
             /\ UNCHANGED <<serving, out_for>>

BadProbe == /\ ~serving
            /\ streak' = 0
            /\ UNCHANGED <<serving, out_for>>

Reclose == /\ ~serving
           /\ streak + 1 >= ProbesToClose
           /\ out_for >= MinOutage
           /\ serving' = TRUE
           /\ streak' = 0
           /\ out_for' = 0

Tick == /\ ~serving
        /\ out_for' = IF out_for < MinOutage THEN out_for + 1 ELSE out_for
        /\ UNCHANGED <<serving, streak>>

Next == Trip \/ GoodProbe \/ BadProbe \/ Reclose \/ Tick

Spec == Init /\ [][Next]_vars
=============================================================================
