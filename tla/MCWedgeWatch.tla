---------------------------- MODULE MCWedgeWatch ----------------------------
(***************************************************************************)
(* WedgeWatch with no failure but a confirmed wedge counting for a trip:   *)
(* what takes the replica out in these runs is the wedge path alone.       *)
(***************************************************************************)
EXTENDS WedgeWatch

MCWeight == [kind \in FailureKind |-> IF kind = "WEDGE" THEN 2 ELSE 0]

\* "Not acting until it is confirmed on the next scrape", which "costs one scrape
\* interval" (breaker.py:148-149, 162-165): between the first confirmation and the
\* trip a useful scrape has been seen.
ConfirmedOnNextScrape ==
    [][ Allows(breaker) /\ ~Allows(breaker') => fresh ]_vars
=============================================================================
