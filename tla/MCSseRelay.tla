----------------------------- MODULE MCSseRelay -----------------------------
(***************************************************************************)
(* SseRelay over every stream of up to two events of the kinds below, with *)
(* a last usage event that is complete or lacks one break or both.         *)
(***************************************************************************)
EXTENDS SseRelay

CONSTANTS u1, u2

Event == {<<Data, u1>>, <<Data, u2>>, <<Data, Delta>>, <<Data, Done>>, <<Data, NotObject>>,
          <<Junk, Break, Data, u1>>,            \* a comment line before the data
          <<Data, Delta, Break, Data, u2>>,     \* two data lines
          <<Break, Data, Junk>>}                \* a surplus break; text that is no JSON

Events == {<<>>} \cup {e \o <<Break, Break>> : e \in Event}

MCStream == {a \o b \o last : a, b \in Events,
                last \in {<<>>, <<Data, u2>>, <<Data, u2, Break>>, <<Data, u2, Break, Break>>}}
=============================================================================
