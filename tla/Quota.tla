-------------------------------- MODULE Quota --------------------------------
(***************************************************************************)
(* gateway/quota.py: the per-key token budget and concurrency cap.  Both   *)
(* tables are process-local and grow by the calls alone; a key that is not *)
(* in a table counts as 0.  A key may have either limit, both or neither.  *)
(***************************************************************************)
EXTENDS Integers

CONSTANTS
    Key,      \* the keyids of the key store
    Budget,   \* token_budget of each key, or None
    Cap,      \* max_concurrency of each key, or None
    None

ASSUME QuotaAssumption == /\ Budget \in [Key -> Nat \cup {None}]
                          /\ Cap \in [Key -> Nat \cup {None}]
                          /\ None \notin Nat
                          /\ None \notin Key

VARIABLES
    slots,         \* _inflight
    tokens_used    \* _tokens_used

quotaVars == <<slots, tokens_used>>

QuotaTypeOK == /\ slots \in [Key -> Nat]
               /\ tokens_used \in [Key -> Nat]

QuotaInit == /\ slots = [k \in Key |-> 0]
             /\ tokens_used = [k \in Key |-> 0]

Larger(x, y) == IF x >= y THEN x ELSE y

\* A JWT principal has no keyid and neither limit (chat.py:146-163).
HasBudget(k) == k # None /\ Budget[k] # None
HasCap(k) == k # None /\ Cap[k] # None

\* Fault: a key at its budget is still let in.
OverBudgetLate(k) == HasBudget(k) /\ tokens_used[k] > Budget[k]

\* check_budget raises.
OverBudget(k) == HasBudget(k) /\ tokens_used[k] >= Budget[k]

\* acquire raises.
AtCap(k) == HasCap(k) /\ slots[k] >= Cap[k]

Acquire(k) == slots' = IF HasCap(k) THEN [slots EXCEPT ![k] = @ + 1] ELSE slots

\* release floors at zero.
Release(k) == slots' = IF HasCap(k) THEN [slots EXCEPT ![k] = Larger(0, @ - 1)]
                                    ELSE slots

\* Fault: the new total replaces the sum.
RecordUsageOverwrites(k, usage) ==
    tokens_used' = IF k # None /\ usage # None /\ usage > 0
                   THEN [tokens_used EXCEPT ![k] = usage] ELSE tokens_used

\* Usage the upstream did not report cannot be charged.
RecordUsage(k, usage) ==
    tokens_used' = IF k # None /\ usage # None /\ usage > 0
                   THEN [tokens_used EXCEPT ![k] = @ + usage] ELSE tokens_used
=============================================================================
