-------------------------- MODULE MCReplicaBreaker --------------------------
(***************************************************************************)
(* ReplicaBreaker with the weights, the trip score and the probe count of  *)
(* the code, and its durations in units of five seconds.                   *)
(***************************************************************************)
EXTENDS ReplicaBreaker

MCWeight == [kind \in FailureKind |->
                CASE kind \in {"CONNECT", "READ_TIMEOUT"} -> 3
                  [] kind = "SERVER_ERROR" -> 1
                  [] kind = "WEDGE" -> 6
                  [] OTHER -> 0]
=============================================================================
