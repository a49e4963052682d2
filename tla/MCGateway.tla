----------------------------- MODULE MCGateway -----------------------------
(***************************************************************************)
(* Gateway with keys that have both limits; a JWT principal has neither.   *)
(***************************************************************************)
EXTENDS Gateway

MCBudget == [k \in Key |-> 2]
MCCap == [k \in Key |-> 1]
=============================================================================
