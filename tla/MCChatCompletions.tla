-------------------------- MODULE MCChatCompletions --------------------------
(***************************************************************************)
(* ChatCompletions with keys that have both limits; a JWT principal has    *)
(* neither.                                                                *)
(***************************************************************************)
EXTENDS ChatCompletions

MCBudget == [k \in Key |-> 2]
MCCap == [k \in Key |-> 2]
=============================================================================
