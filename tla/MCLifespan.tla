----------------------------- MODULE MCLifespan -----------------------------
(***************************************************************************)
(* Lifespan with two replicas.                                             *)
(***************************************************************************)
EXTENDS Lifespan

MCReplicas == <<"replica0", "replica1">>
=============================================================================
