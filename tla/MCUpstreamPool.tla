--------------------------- MODULE MCUpstreamPool ---------------------------
(***************************************************************************)
(* UpstreamPool with every failure that counts worth half a trip: two of   *)
(* them in a row take a replica out, one on probation.                     *)
(***************************************************************************)
EXTENDS UpstreamPool, TLC

MCWeight == [kind \in FailureKind |->
                CASE kind \in {"CONNECT", "READ_TIMEOUT", "SERVER_ERROR"} -> 1
                  [] kind = "WEDGE" -> 2
                  [] OTHER -> 0]

\* The requests are alike.
Alike == Permutations(Request)

\* "Everything else reaching here failed before or during connect ... nothing
\* reached the GPU" (client.py:152-153): whenever an attempt that raised is
\* repeated, its request never got onto the wire.
RepeatedOnlyIfNothingSent ==
    \A r \in Request : \A i \in 1..Len(request[r].log) :
        request[r].log[i].outcome \in Raised
            => request[r].log[i].outcome = "connect_error"
=============================================================================
