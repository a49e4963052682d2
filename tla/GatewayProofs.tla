---------------------------- MODULE GatewayProofs ----------------------------
(***************************************************************************)
(* Proofs about a request through the whole gateway, in two parts.  The    *)
(* first is about ChatCompletions alone, for any number of requests and    *)
(* keys and all limits: slots are never leaked or given back twice, the    *)
(* concurrency cap holds, a budget is overshot by a bounded amount only,   *)
(* and every token the upstream reports is charged.  The second is about   *)
(* Gateway: a request of it is a request of ChatCompletions, so that the   *)
(* first part holds of it too; every caller the gateway knew is audited    *)
(* exactly once; the audit log, the counters and the caller are told the   *)
(* same; and nothing stays taken.                                          *)
(***************************************************************************)
EXTENDS Gateway, FiniteSetTheorems, TLAPS

(***************************************************************************)
(* Part 1: the route.                                                      *)
(***************************************************************************)
Held(k) == Cardinality(Holders(k))

\* The most a key with both limits can ever be charged.
Worst(k) == Larger(0, Budget[k] - 1 + Cap[k] * MaxCost)

\* Every request still in the system may yet be charged MaxCost, so what bounds the
\* overshoot is not the tokens used but the tokens used and those still to come.
KeyInv(k) == HasCap(k) => /\ slots[k] = Held(k)
                          /\ Held(k) <= Cap[k]
                          /\ HasBudget(k) => tokens_used[k] + Held(k) * MaxCost <= Worst(k)

\* The inductive invariant.
IInv == TypeOK /\ \A k \in Key : KeyInv(k)

-----------------------------------------------------------------------------
\* The requests of a key are finitely many.
LEMMA HoldersFinite ==
    ASSUME NEW k
    PROVE  IsFiniteSet(Holders(k)) /\ Held(k) \in Nat
<1>1. Holders(k) \in SUBSET Request
  BY DEF Holders
<1> QED
  BY <1>1, ChatAssumption, FS_Subset, FS_CardinalityType DEF Held

\* A request that is admitted joins the requests of its key.
LEMMA EnterHolders ==
    ASSUME TypeOK, NEW r \in Request, NEW k \in Key \cup {None}, NEW stream \in BOOLEAN,
           request[r].pc = "new",
           request' = [request EXCEPT ![r].pc = "pool", ![r].key = k, ![r].stream = stream],
           NEW j \in Key
    PROVE  /\ Holders(j)' = IF j = k THEN Holders(j) \cup {r} ELSE Holders(j)
           /\ Held(j)' = IF j = k THEN Held(j) + 1 ELSE Held(j)
<1>1. /\ request'[r].pc = "pool" /\ request'[r].key = k
      /\ \A q \in Request \ {r} : request'[q] = request[q]
  BY DEF TypeOK, RequestState
<1>2. "pool" \in Live /\ "new" \notin Live
  BY DEF Live, Waiting, Streaming
<1>3. Holders(j)' = IF j = k THEN Holders(j) \cup {r} ELSE Holders(j)
  BY <1>1, <1>2 DEF Holders
<1>4. r \notin Holders(j)
  BY <1>2 DEF Holders
<1> QED
  BY <1>3, <1>4, HoldersFinite, FS_AddElement DEF Held

\* One that leaves is one less.
LEMMA LeaveHolders ==
    ASSUME TypeOK, NEW r \in Request, Leave(r), request[r].pc \in Live, NEW j \in Key
    PROVE  /\ Held(j)' = IF j = request[r].key THEN Held(j) - 1 ELSE Held(j)
           /\ j = request[r].key => Held(j) >= 1
<1>1. /\ request'[r].pc = "done"
      /\ \A q \in Request \ {r} : request'[q] = request[q]
  BY DEF TypeOK, Leave, NewRequest
<1>2. "done" \notin Live
  BY DEF Live, Waiting, Streaming
<1>3. Holders(j)' = Holders(j) \ {r}
  BY <1>1, <1>2 DEF Holders
<1>4. r \in Holders(j) <=> j = request[r].key
  BY DEF Holders
<1>5. Held(j)' = IF r \in Holders(j) THEN Held(j) - 1 ELSE Held(j)
  BY <1>3, HoldersFinite, FS_RemoveElement DEF Held
<1>6. Held(j)' \in Nat
  BY <1>5, <1>3, HoldersFinite, FS_RemoveElement, FS_CardinalityType DEF Held
<1> QED
  BY <1>4, <1>5, <1>6, HoldersFinite

\* One that goes from one await to the next, or is turned away, changes nothing.
LEMMA StayHolders ==
    ASSUME NEW r \in Request,
           \A q \in Request \ {r} : request'[q] = request[q],
           request'[r].pc \in Live <=> request[r].pc \in Live,
           request[r].pc \in Live => request'[r].key = request[r].key,
           NEW j \in Key
    PROVE  Held(j)' = Held(j)
<1>1. Holders(j)' = Holders(j)
  BY DEF Holders
<1> QED
  BY <1>1 DEF Held

-----------------------------------------------------------------------------
\* Products of naturals, as far as the budget needs them.
LEMMA CostOfOneMore ==
    ASSUME NEW h \in Nat, NEW c \in Nat, h + 1 <= c
    PROVE  /\ h * MaxCost \in Nat
           /\ c * MaxCost \in Nat
           /\ (h + 1) * MaxCost = h * MaxCost + MaxCost
           /\ (h + 1) * MaxCost <= c * MaxCost
<1>1. PICK d \in Nat : c = h + 1 + d
  <2>1. c - (h + 1) \in Nat /\ c = h + 1 + (c - (h + 1))
    OBVIOUS
  <2> QED
    BY <2>1
<1>2. h * MaxCost \in Nat /\ d * MaxCost \in Nat /\ c * MaxCost \in Nat
  BY ChatAssumption
<1>3. (h + 1) * MaxCost = h * MaxCost + MaxCost
  BY ChatAssumption
<1>4. c * MaxCost = (h + 1) * MaxCost + d * MaxCost
  BY <1>1, ChatAssumption
<1> QED
  BY <1>2, <1>3, <1>4, ChatAssumption

LEMMA CostOfOneLess ==
    ASSUME NEW h \in Nat, h >= 1
    PROVE  /\ h * MaxCost = (h - 1) * MaxCost + MaxCost
           /\ (h - 1) * MaxCost \in Int
<1>1. h - 1 \in Nat
  OBVIOUS
<1> QED
  BY <1>1, ChatAssumption

\* What the limits of a key are when it has them.
LEMMA LimitsTyped ==
    ASSUME NEW k \in Key
    PROVE  /\ HasCap(k) <=> Cap[k] # None
           /\ HasBudget(k) <=> Budget[k] # None
           /\ HasCap(k) => Cap[k] \in Nat
           /\ HasBudget(k) => Budget[k] \in Nat
BY QuotaAssumption DEF HasCap, HasBudget

\* The initial state.
LEMMA InitIInv == Init => IInv
<1> SUFFICES ASSUME Init
             PROVE  IInv
  OBVIOUS
<1>1. TypeOK
  BY ChatAssumption DEF Init, QuotaInit, TypeOK, QuotaTypeOK, NewRequest, RequestState, Usage
<1>2. ASSUME NEW k \in Key
      PROVE  KeyInv(k)
  <2>1. Holders(k) = {}
    BY DEF Holders, Init, NewRequest, Live, Waiting, Streaming
  <2>2. Held(k) = 0
    BY <2>1, FS_EmptySet DEF Held
  <2>3. slots[k] = 0 /\ tokens_used[k] = 0
    BY DEF Init, QuotaInit
  <2>4. HasCap(k) /\ HasBudget(k) => Worst(k) \in Int /\ Worst(k) >= 0
    BY LimitsTyped, ChatAssumption DEF Worst, Larger
  <2> QED
    BY <2>2, <2>3, <2>4, LimitsTyped, ChatAssumption DEF KeyInv
<1> QED
  BY <1>1, <1>2 DEF IInv

-----------------------------------------------------------------------------
\* Admission takes a slot below the cap, on a key whose budget is not used up.
LEMMA AdmitIInv ==
    ASSUME IInv, NEW r \in Request, NEW k \in Key \cup {None}, NEW stream \in BOOLEAN,
           Admit(r, k, stream)
    PROVE  IInv'
<1>1. TypeOK /\ request[r].pc = "new"
  BY DEF IInv, Admit
<1>2. TypeOK'
  <2>1. slots' \in [Key -> Nat]
    <3>1. CASE ~HasCap(k)
      BY <1>1, <3>1 DEF Admit, Acquire, TypeOK, QuotaTypeOK
    <3>2. CASE HasCap(k)
      <4>1. k \in Key /\ slots[k] + 1 \in Nat
        BY <1>1, <3>2 DEF HasCap, TypeOK, QuotaTypeOK
      <4>2. slots' = [slots EXCEPT ![k] = slots[k] + 1]
        BY <3>2 DEF Admit, Acquire
      <4> QED
        BY <1>1, <4>1, <4>2 DEF TypeOK, QuotaTypeOK
    <3> QED
      BY <3>1, <3>2
  <2>2. request' \in [Request -> RequestState]
    <3> DEFINE admitted == [request[r] EXCEPT !.pc = "pool", !.key = k, !.stream = stream]
    <3>1. request' = [request EXCEPT ![r] = admitted]
      BY DEF Admit
    <3>2. "pool" \in {"new", "done"} \cup Live
      BY DEF Live, Waiting
    <3>3. request[r] \in RequestState
      BY <1>1 DEF TypeOK
    <3>4. admitted \in RequestState
      BY <3>2, <3>3 DEF RequestState
    <3> QED
      BY <1>1, <3>1, <3>4 DEF TypeOK
  <2> QED
    BY <1>1, <2>1, <2>2 DEF Admit, TypeOK, QuotaTypeOK
<1>3. ASSUME NEW j \in Key
      PROVE  KeyInv(j)'
  <2>1. Held(j)' = IF j = k THEN Held(j) + 1 ELSE Held(j)
    BY <1>1, EnterHolders DEF Admit
  <2>2. tokens_used' = tokens_used /\ tokens_used[j] \in Nat /\ slots[j] \in Nat
    BY <1>1 DEF Admit, TypeOK, QuotaTypeOK
  <2>3. CASE j # k \/ ~HasCap(j)
    <3>1. slots'[j] = slots[j]
      BY <1>1, <2>3 DEF Admit, Acquire, TypeOK, QuotaTypeOK
    <3> QED
      BY <2>1, <2>2, <2>3, <3>1 DEF IInv, KeyInv, Worst, HasCap, HasBudget
  <2>4. CASE j = k /\ HasCap(j)
    <3>1. slots'[j] = slots[j] + 1
      BY <1>1, <2>4 DEF Admit, Acquire, TypeOK, QuotaTypeOK
    <3>2. /\ slots[j] = Held(j)
          /\ Held(j) \in Nat
          /\ Cap[j] \in Nat
          /\ Held(j) + 1 <= Cap[j]
      BY <2>2, <2>4, HoldersFinite, LimitsTyped DEF IInv, KeyInv, Admit, AtCap
    <3>3. ASSUME HasBudget(j)
          PROVE  tokens_used[j] + (Held(j) + 1) * MaxCost <= Worst(j)
      <4>1. Budget[j] \in Nat /\ tokens_used[j] <= Budget[j] - 1
        BY <2>2, <2>4, <3>3, LimitsTyped DEF Admit, OverBudget
      <4> DEFINE held == Held(j)
                 worth == Cap[j] * MaxCost
      <4>2. /\ held * MaxCost \in Nat
            /\ worth \in Nat
            /\ (held + 1) * MaxCost = held * MaxCost + MaxCost
            /\ (held + 1) * MaxCost <= worth
        BY ONLY <3>2, CostOfOneMore, Zenon
      <4>3. (held + 1) * MaxCost \in Int
        BY <4>2, ChatAssumption
      <4>4. tokens_used[j] + (held + 1) * MaxCost <= Budget[j] - 1 + worth
        <5> HIDE DEF held, worth
        <5> QED
          BY <2>2, <4>1, <4>2, <4>3
      <4>5. Budget[j] - 1 + worth <= Worst(j) /\ Worst(j) \in Int
        BY <4>1, <4>2 DEF Worst, Larger
      <4> QED
        BY <2>2, <4>1, <4>2, <4>3, <4>4, <4>5
    <3> QED
      BY <2>1, <2>2, <2>4, <3>1, <3>2, <3>3 DEF KeyInv, Worst, HasCap, HasBudget
  <2> QED
    BY <2>3, <2>4
<1> QED
  BY <1>2, <1>3 DEF IInv

\* Every exit path: one slot is given back, and one request's cost is charged.
LEMMA ExitIInv ==
    ASSUME IInv, NEW r \in Request, NEW usage \in Usage,
           request[r].pc \in Live, Release(request[r].key),
           RecordUsage(request[r].key, usage), Leave(r), reported' \in [Key -> Int]
    PROVE  IInv'
<1> DEFINE k == request[r].key
           cost == IF usage = None THEN 0 ELSE usage
<1>1. TypeOK
  BY DEF IInv
<1>2. cost \in 0..MaxCost /\ (usage # None => usage \in Nat)
  BY ChatAssumption DEF Usage
<1>3. TypeOK'
  <2>1. slots' \in [Key -> Nat]
    <3>1. CASE ~HasCap(k)
      BY <1>1, <3>1 DEF Release, TypeOK, QuotaTypeOK
    <3>2. CASE HasCap(k)
      <4>1. k \in Key /\ slots[k] \in Nat
        BY <1>1, <3>2 DEF HasCap, TypeOK, QuotaTypeOK, RequestState
      <4>2. Larger(0, slots[k] - 1) \in Nat
        BY <4>1 DEF Larger
      <4>3. slots' = [slots EXCEPT ![k] = Larger(0, slots[k] - 1)]
        BY <3>2 DEF Release
      <4> QED
        BY <1>1, <4>1, <4>2, <4>3 DEF TypeOK, QuotaTypeOK
    <3> QED
      BY <3>1, <3>2
  <2>2. tokens_used' \in [Key -> Nat]
    <3>1. CASE k # None /\ usage # None /\ usage > 0
      <4>1. k \in Key /\ tokens_used[k] + usage \in Nat
        BY <1>1, <1>2, <3>1 DEF TypeOK, QuotaTypeOK, RequestState
      <4>2. tokens_used' = [tokens_used EXCEPT ![k] = tokens_used[k] + usage]
        BY <3>1 DEF RecordUsage
      <4> QED
        BY <1>1, <4>1, <4>2 DEF TypeOK, QuotaTypeOK
    <3>2. CASE ~(k # None /\ usage # None /\ usage > 0)
      BY <1>1, <3>2 DEF RecordUsage, TypeOK, QuotaTypeOK
    <3> QED
      BY <3>1, <3>2
  <2>3. request' \in [Request -> RequestState]
    <3>1. request' = [request EXCEPT ![r] = [NewRequest EXCEPT !.pc = "done"]]
      BY DEF Leave
    <3>2. [NewRequest EXCEPT !.pc = "done"] \in RequestState
      <4>1. NewRequest \in RequestState
        BY ChatAssumption DEF NewRequest, RequestState, Usage
      <4>2. "done" \in {"new", "done"} \cup Live
        OBVIOUS
      <4> QED
        BY <4>1, <4>2 DEF RequestState
    <3> QED
      BY <1>1, <3>1, <3>2 DEF TypeOK
  <2> QED
    BY <2>1, <2>2, <2>3 DEF TypeOK, QuotaTypeOK
<1>4. ASSUME NEW j \in Key
      PROVE  KeyInv(j)'
  <2>1. /\ Held(j)' = IF j = k THEN Held(j) - 1 ELSE Held(j)
        /\ j = k => Held(j) >= 1
        /\ Held(j) \in Nat
    BY <1>1, LeaveHolders, HoldersFinite
  <2>2. tokens_used[j] \in Nat /\ slots[j] \in Nat
    BY <1>1 DEF TypeOK, QuotaTypeOK
  <2>3. CASE j # k
    <3>1. slots'[j] = slots[j] /\ tokens_used'[j] = tokens_used[j]
      BY <1>1, <2>3 DEF Release, RecordUsage, TypeOK, QuotaTypeOK
    <3> QED
      BY <2>1, <2>3, <3>1 DEF IInv, KeyInv, Worst, HasCap, HasBudget
  <2>4. CASE j = k /\ HasCap(j)
    <3>1. slots[j] = Held(j) /\ Held(j) <= Cap[j] /\ Cap[j] \in Nat
      BY <2>4, LimitsTyped DEF IInv, KeyInv
    <3>2. slots'[j] = Held(j) - 1
      BY <1>1, <2>1, <2>2, <2>4, <3>1 DEF Release, Larger, TypeOK, QuotaTypeOK
    <3>3. tokens_used'[j] <= tokens_used[j] + cost /\ tokens_used'[j] \in Nat
      <4>1. tokens_used'[j] = tokens_used[j] \/ tokens_used'[j] = tokens_used[j] + cost
        BY <1>1, <1>2, <2>4 DEF RecordUsage, TypeOK, QuotaTypeOK
      <4> QED
        BY <1>2, <2>2, <4>1, ChatAssumption
    <3>4. ASSUME HasBudget(j)
          PROVE  tokens_used'[j] + (Held(j) - 1) * MaxCost <= Worst(j)
      <4>1. tokens_used[j] + Held(j) * MaxCost <= Worst(j)
        BY <2>4, <3>4 DEF IInv, KeyInv
      <4>2. Held(j) \in Nat /\ Held(j) >= 1
        BY <2>1, <2>4
      <4>3. /\ Held(j) * MaxCost = (Held(j) - 1) * MaxCost + MaxCost
            /\ (Held(j) - 1) * MaxCost \in Int
        BY ONLY <4>2, CostOfOneLess, Zenon
      <4>4. Worst(j) \in Int
        BY <3>1, <3>4, LimitsTyped, ChatAssumption DEF Worst, Larger
      <4> QED
        BY <1>2, <2>2, <3>3, <4>1, <4>3, <4>4, ChatAssumption
    <3> QED
      BY <2>1, <2>4, <3>1, <3>2, <3>4 DEF KeyInv, Worst, HasCap, HasBudget
  <2>5. CASE ~HasCap(j)
    BY <2>5 DEF KeyInv, HasCap
  <2> QED
    BY <2>3, <2>4, <2>5
<1> QED
  BY <1>3, <1>4 DEF IInv

\* Between two awaits of one request the tables are not touched.
LEMMA StayIInv ==
    ASSUME IInv, NEW r \in Request, UNCHANGED quotaVars,
           request' \in [Request -> RequestState], reported' \in [Key -> Int],
           \A q \in Request \ {r} : request'[q] = request[q],
           request'[r].pc \in Live <=> request[r].pc \in Live,
           request[r].pc \in Live => request'[r].key = request[r].key
    PROVE  IInv'
<1>1. TypeOK'
  BY DEF IInv, TypeOK, QuotaTypeOK, quotaVars
<1>2. ASSUME NEW j \in Key
      PROVE  KeyInv(j)'
  <2>1. Held(j)' = Held(j)
    BY StayHolders
  <2> QED
    BY <2>1 DEF IInv, KeyInv, Worst, HasCap, HasBudget, quotaVars
<1> QED
  BY <1>1, <1>2 DEF IInv

-----------------------------------------------------------------------------
\* Changing one request's record within its type leaves the others alone.
LEMMA UpdateTyped ==
    ASSUME TypeOK, NEW r \in Request, NEW q \in RequestState,
           request' = [request EXCEPT ![r] = q]
    PROVE  /\ request' \in [Request -> RequestState]
           /\ request'[r] = q
           /\ \A p \in Request \ {r} : request'[p] = request[p]
BY DEF TypeOK

\* What the upstream has reported stays a table of numbers.
LEMMA ReportTyped ==
    ASSUME TypeOK, NEW k \in Key \cup {None}, NEW usage \in Usage, NEW before \in Usage,
           Report(k, usage, before)
    PROVE  reported' \in [Key -> Int]
<1> DEFINE more == IF usage = None THEN 0 ELSE usage
           less == IF before = None THEN 0 ELSE before
<1>1. more \in Int /\ less \in Int
  BY ChatAssumption DEF Usage
<1>2. CASE k = None
  BY <1>2 DEF Report, TypeOK
<1>3. CASE k # None
  <2>1. reported' = [reported EXCEPT ![k] = reported[k] + more - less]
    BY <1>3 DEF Report
  <2>2. reported[k] + more - less \in Int
    BY <1>1, <1>3 DEF TypeOK
  <2> QED
    BY <2>1, <2>2 DEF TypeOK
<1> QED
  BY <1>2, <1>3

\* A step from one await of a request to the next one.
LEMMA MoveIInv ==
    ASSUME IInv, NEW r \in Request, NEW pc \in Live, request[r].pc \in Live,
           Move(r, pc), UNCHANGED <<quotaVars, reported>>
    PROVE  IInv'
<1> DEFINE q == [request[r] EXCEPT !.pc = pc]
<1>1. TypeOK /\ request[r] \in RequestState
  BY DEF IInv, TypeOK
<1>2. q \in RequestState /\ q.pc = pc /\ q.key = request[r].key
  BY <1>1 DEF RequestState
<1>3. request' = [request EXCEPT ![r] = q]
  BY DEF Move
<1>4. reported' \in [Key -> Int]
  BY <1>1 DEF TypeOK
<1> HIDE DEF q
<1> QED
  BY <1>1, <1>2, <1>3, <1>4, UpdateTyped, StayIInv

\* A chunk that arrives changes what the stream is known to have cost.
LEMMA ChunkIInv ==
    ASSUME IInv, NEW r \in Request,
           NEW usage \in 0..MaxCost \cup {request[r].usage}, Chunk(r, usage)
    PROVE  IInv'
<1> DEFINE q == [request[r] EXCEPT !.pc = "sending", !.left = @ - 1, !.usage = usage]
<1>1. TypeOK /\ request[r] \in RequestState /\ request[r].pc \in Live
  BY DEF IInv, TypeOK, Chunk, Live, Streaming
<1>2. usage \in Usage /\ request[r].usage \in Usage /\ request[r].key \in Key \cup {None}
  BY <1>1 DEF RequestState, Usage
<1>3. "sending" \in Live
  BY DEF Live, Streaming
<1>4. request[r].left - 1 \in 0..MaxChunks
  BY <1>1, ChatAssumption DEF Chunk, RequestState
<1>5. q \in RequestState /\ q.pc = "sending" /\ q.key = request[r].key
  BY <1>1, <1>2, <1>3, <1>4 DEF RequestState
<1>6. request' = [request EXCEPT ![r] = q]
  BY DEF Chunk
<1>7. reported' \in [Key -> Int]
  BY <1>1, <1>2, ReportTyped DEF Chunk
<1>8. UNCHANGED quotaVars
  BY DEF Chunk
<1> HIDE DEF q
<1> QED
  BY <1>1, <1>3, <1>5, <1>6, <1>7, <1>8, UpdateTyped, StayIInv

\* A request that was turned away never counted.
LEMMA TurnAwayIInv ==
    ASSUME IInv, NEW r \in Request, NEW k \in Key \cup {None}, TurnAway(r, k)
    PROVE  IInv'
<1> DEFINE q == [NewRequest EXCEPT !.pc = "done"]
<1>1. TypeOK /\ request[r].pc = "new" /\ UNCHANGED quotaVars /\ UNCHANGED reported
  BY DEF IInv, TurnAway
<1>2. q \in RequestState /\ q.pc = "done"
  <2>1. NewRequest \in RequestState
    BY ChatAssumption DEF NewRequest, RequestState, Usage
  <2>2. "done" \in {"new", "done"} \cup Live
    OBVIOUS
  <2> QED
    BY <2>1, <2>2 DEF RequestState
<1>3. request' = [request EXCEPT ![r] = q]
  BY DEF TurnAway, Leave
<1>4. reported' \in [Key -> Int]
  BY <1>1 DEF TypeOK
<1>5. "new" \notin Live /\ "done" \notin Live
  BY DEF Live, Waiting, Streaming
<1> HIDE DEF q
<1> QED
  BY <1>1, <1>2, <1>3, <1>4, <1>5, UpdateTyped, StayIInv

\* The caller of a stream that breaks off is still to be told so.
LEMMA BreaksOffIInv ==
    ASSUME IInv, NEW r \in Request, BreaksOff(r)
    PROVE  IInv'
<1> DEFINE q == [request[r] EXCEPT !.pc = "sending", !.broken = TRUE]
<1>1. /\ TypeOK /\ request[r] \in RequestState
      /\ UNCHANGED quotaVars /\ UNCHANGED reported
  BY DEF IInv, TypeOK, BreaksOff
<1>2. "sending" \in Live /\ request[r].pc \in Live
  BY DEF BreaksOff, Live, Streaming
<1>3. q \in RequestState /\ q.pc = "sending" /\ q.key = request[r].key
  BY <1>1, <1>2 DEF RequestState
<1>4. request' = [request EXCEPT ![r] = q]
  BY DEF BreaksOff
<1>5. reported' \in [Key -> Int]
  BY <1>1 DEF TypeOK
<1> HIDE DEF q
<1> QED
  BY <1>1, <1>2, <1>3, <1>4, <1>5, UpdateTyped, StayIInv

\* Every step preserves the invariant.
LEMMA NextIInv == IInv /\ [Next]_vars => IInv'
<1> SUFFICES ASSUME IInv, [Next]_vars
             PROVE  IInv'
  OBVIOUS
<1>1. TypeOK
  BY DEF IInv
<1>2. CASE UNCHANGED vars
  <2>1. TypeOK'
    BY <1>1, <1>2 DEF vars, quotaVars, TypeOK, QuotaTypeOK
  <2>2. ASSUME NEW j \in Key
        PROVE  KeyInv(j)'
    <3>1. Held(j)' = Held(j)
      BY <1>2 DEF vars, Held, Holders
    <3> QED
      BY <1>2, <3>1 DEF vars, quotaVars, IInv, KeyInv, Worst, HasCap, HasBudget
  <2> QED
    BY <2>1, <2>2 DEF IInv
<1>3. ASSUME NEW r \in Request, Arrive(r)
      PROVE  IInv'
  BY <1>3, TurnAwayIInv, AdmitIInv DEF Arrive
<1>4. ASSUME NEW r \in Request, PoolRaises(r) \/ Drained(r)
      PROVE  IInv'
  <2>1. None \in Usage /\ request[r].pc \in Live
    BY <1>4 DEF Usage, PoolRaises, Drained, Live, Waiting, Streaming
  <2>2. RecordUsage(request[r].key, None) /\ reported' \in [Key -> Int]
    BY <1>1, <1>4 DEF PoolRaises, Drained, RecordUsage, TypeOK
  <2>3. Release(request[r].key) /\ Leave(r)
    BY <1>4 DEF PoolRaises, Drained
  <2> QED
    BY <2>1, <2>2, <2>3, ExitIInv
<1>5. ASSUME NEW r \in Request, NEW usage \in Usage, Respond(r, usage)
      PROVE  IInv'
  <2>1. None \in Usage /\ request[r].pc \in Live /\ request[r].key \in Key \cup {None}
    BY <1>1, <1>5 DEF Usage, Respond, Live, Waiting, TypeOK, RequestState
  <2>2. reported' \in [Key -> Int]
    BY <1>1, <1>5, <2>1, ReportTyped DEF Respond
  <2> QED
    BY <1>5, <2>1, <2>2, ExitIInv DEF Respond
<1>6. ASSUME NEW r \in Request, Closed(r)
      PROVE  IInv'
  <2>1. request[r].usage \in Usage /\ request[r].pc \in Live
    BY <1>1, <1>6 DEF Closed, Live, Streaming, TypeOK, RequestState
  <2>2. reported' \in [Key -> Int]
    BY <1>1, <1>6 DEF Closed, TypeOK
  <2> QED
    BY <1>6, <2>1, <2>2, ExitIInv DEF Closed
<1>7. ASSUME NEW r \in Request,
             \/ StreamRefused(r) \/ StreamOpened(r) \/ Pull(r) \/ Ended(r)
             \/ Sent(r) \/ Dropped(r) \/ Finalised(r)
      PROVE  IInv'
  <2>1. request[r].pc \in Live /\ UNCHANGED <<quotaVars, reported>>
    BY <1>7 DEF StreamRefused, StreamOpened, Pull, Ended, Sent, Dropped, Finalised,
                Live, Waiting, Streaming
  <2>2. \E pc \in Live : Move(r, pc)
    BY <1>7 DEF StreamRefused, StreamOpened, Pull, Ended, Sent, Dropped, Finalised,
                Live, Streaming
  <2> QED
    BY <2>1, <2>2, MoveIInv
<1>8. ASSUME NEW r \in Request, Upstream(r)
      PROVE  IInv'
  BY <1>7, <1>8, ChunkIInv, BreaksOffIInv DEF Upstream
<1> QED
  BY <1>2, <1>3, <1>4, <1>5, <1>6, <1>7, <1>8 DEF Next, PoolAnswers, Caller, Server

LEMMA SpecIInv == Spec => []IInv
BY InitIInv, NextIInv, PTL DEF Spec

-----------------------------------------------------------------------------
\* Type correctness, for all limits and any number of requests.
THEOREM TypeCorrect == Spec => []TypeOK
BY SpecIInv, PTL DEF IInv

\* Every acquire has exactly one release, on every exit path (quota.py:68-71,
\* chat.py:328-337): the floor of release() never hides a second one.
THEOREM SlotsAlwaysMatch == Spec => []SlotsMatchHolders
<1>1. IInv => SlotsMatchHolders
  BY DEF IInv, KeyInv, SlotsMatchHolders, Held
<1> QED
  BY <1>1, SpecIInv, PTL

\* The concurrency cap holds, however requests and streams interleave (acquire).
THEOREM CapAlwaysRespected == Spec => []CapRespected
<1>1. IInv => CapRespected
  BY DEF IInv, KeyInv, CapRespected, Held
<1> QED
  BY <1>1, SpecIInv, PTL

\* A key with both limits overshoots its budget by less than the cost of as many
\* requests as its cap allows (check_budget against record_usage).
THEOREM OvershootAlwaysBounded == Spec => []OvershootBounded
<1>1. ASSUME IInv, NEW k \in Key, HasBudget(k), HasCap(k)
      PROVE  tokens_used[k] <= Larger(0, Budget[k] - 1 + Cap[k] * MaxCost)
  <2>1. tokens_used[k] + Held(k) * MaxCost <= Worst(k)
    BY <1>1 DEF IInv, KeyInv
  <2>2. Held(k) * MaxCost \in Nat /\ tokens_used[k] \in Nat
    BY <1>1, HoldersFinite, ChatAssumption DEF IInv, TypeOK, QuotaTypeOK
  <2>3. Worst(k) \in Int
    BY <1>1, LimitsTyped, ChatAssumption DEF Worst, Larger
  <2> QED
    BY <2>1, <2>2, <2>3 DEF Worst
<1>2. IInv => OvershootBounded
  BY <1>1 DEF OvershootBounded
<1> QED
  BY <1>2, SpecIInv, PTL

-----------------------------------------------------------------------------
(***************************************************************************)
(* Every reported token is charged.  What a key is still to be charged is  *)
(* the sum over its live requests of what each is known to have cost: the  *)
(* size of the set of their tokens, a token being a request and a number.  *)
(***************************************************************************)
Tokens(cost) == {t \in Request \X (1..MaxCost) : t[2] <= cost[t[1]]}

\* What each request still in the system is known to have cost its key k.
Pending(requests, k) ==
    [r \in Request |-> IF /\ requests[r].pc \in Live /\ requests[r].key = k
                          /\ requests[r].usage # None
                       THEN requests[r].usage ELSE 0]

Balanced(k) == tokens_used[k] + Cardinality(Tokens(Pending(request, k))) = reported[k]

\* A request has cost nothing yet before its response or its stream's first chunk.
Unbilled == {"new", "done", "pool", "draining", "handed_over"}

CInv == /\ IInv
        /\ \A r \in Request : request[r].pc \in Unbilled => request[r].usage = None
        /\ \A k \in Key : Balanced(k)

\* The tokens of one request are as many as its cost.
LEMMA TokensOfOne ==
    ASSUME NEW r, NEW n \in Nat
    PROVE  IsFiniteSet({r} \X (1..n)) /\ Cardinality({r} \X (1..n)) = n
<1>1. IsFiniteSet({r}) /\ Cardinality({r}) = 1
  BY FS_Singleton
<1>2. IsFiniteSet(1..n) /\ Cardinality(1..n) = n
  BY FS_Interval
<1>3. /\ IsFiniteSet({r} \X (1..n))
      /\ Cardinality({r} \X (1..n)) = 1 * n
  BY <1>1, <1>2, FS_Product
<1> QED
  BY <1>3

\* Changing the cost of one request changes the sum by as much.
LEMMA OneCostChanges ==
    ASSUME NEW f \in [Request -> 0..MaxCost], NEW g \in [Request -> 0..MaxCost],
           NEW r \in Request, \A q \in Request \ {r} : g[q] = f[q]
    PROVE  /\ Cardinality(Tokens(f)) \in Nat /\ Cardinality(Tokens(g)) \in Nat
           /\ Cardinality(Tokens(g)) = Cardinality(Tokens(f)) - f[r] + g[r]
<1> DEFINE rest == {t \in Request \X (1..MaxCost) : t[1] # r /\ t[2] <= f[t[1]]}
<1>1. IsFiniteSet(rest) /\ Cardinality(rest) \in Nat
  <2>1. IsFiniteSet(1..MaxCost)
    BY FS_Interval, ChatAssumption
  <2>2. IsFiniteSet(Request \X (1..MaxCost))
    BY <2>1, FS_Product, ChatAssumption
  <2>3. rest \in SUBSET (Request \X (1..MaxCost))
    OBVIOUS
  <2> QED
    BY <2>2, <2>3, FS_Subset, FS_CardinalityType
<1>2. ASSUME NEW h \in [Request -> 0..MaxCost], \A q \in Request \ {r} : h[q] = f[q]
      PROVE  Cardinality(Tokens(h)) = Cardinality(rest) + h[r]
  <2> DEFINE own == {r} \X (1..h[r])
  <2>1. h[r] \in Nat /\ h[r] <= MaxCost /\ MaxCost \in Nat
    BY ChatAssumption
  <2>2. IsFiniteSet(own) /\ Cardinality(own) = h[r]
    BY <2>1, TokensOfOne
  <2>3. Tokens(h) = rest \cup own
    <3>1. ASSUME NEW t \in Request \X (1..MaxCost)
          PROVE  t[2] <= h[t[1]] <=> t \in rest \cup own
      <4>1. PICK q \in Request, n \in 1..MaxCost : t = <<q, n>>
        BY <3>1
      <4>2. t[1] = q /\ t[2] = n
        BY <4>1
      <4>3. CASE q = r
        BY <2>1, <4>1, <4>2, <4>3
      <4>4. CASE q # r
        BY <1>2, <4>1, <4>2, <4>4
      <4> QED
        BY <4>3, <4>4
    <3>2. own \subseteq Request \X (1..MaxCost)
      BY <2>1
    <3>3. rest \subseteq Request \X (1..MaxCost)
      OBVIOUS
    <3> QED
      BY <3>1, <3>2, <3>3 DEF Tokens
  <2>4. rest \cap own = {}
    OBVIOUS
  <2>5. Cardinality(Tokens(h)) = Cardinality(rest) + Cardinality(own) - Cardinality(rest \cap own)
    BY <1>1, <2>2, <2>3, FS_Union
  <2>6. Cardinality(rest \cap own) = 0
    BY <2>4, FS_EmptySet
  <2> HIDE DEF rest, own
  <2> QED
    BY <1>1, <2>1, <2>2, <2>5, <2>6
<1> HIDE DEF rest
<1>3. Cardinality(Tokens(f)) = Cardinality(rest) + f[r]
  BY <1>2
<1>4. Cardinality(Tokens(g)) = Cardinality(rest) + g[r]
  BY <1>2
<1>5. f[r] \in Nat /\ g[r] \in Nat
  BY ChatAssumption
<1> QED
  BY <1>1, <1>3, <1>4, <1>5

LEMMA PendingTyped ==
    ASSUME NEW requests \in [Request -> RequestState], NEW k
    PROVE  Pending(requests, k) \in [Request -> 0..MaxCost]
<1>1. ASSUME NEW r \in Request, requests[r].usage # None
      PROVE  requests[r].usage \in 0..MaxCost
  BY <1>1 DEF RequestState, Usage
<1>2. 0 \in 0..MaxCost
  BY ChatAssumption
<1> QED
  BY <1>1, <1>2 DEF Pending

\* A step of one request keeps every account, when what it charges and what it leaves
\* pending is what was pending and what the upstream has reported meanwhile.
LEMMA BalanceKept ==
    ASSUME TypeOK, TypeOK', NEW r \in Request,
           \A q \in Request \ {r} : request'[q] = request[q],
           NEW j \in Key, Balanced(j),
           tokens_used'[j] + Pending(request', j)[r] - reported'[j]
             = tokens_used[j] + Pending(request, j)[r] - reported[j]
    PROVE  Balanced(j)'
<1> DEFINE f == Pending(request, j)
           g == Pending(request', j)
<1>1. f \in [Request -> 0..MaxCost] /\ g \in [Request -> 0..MaxCost]
  BY PendingTyped DEF TypeOK
<1>2. \A q \in Request \ {r} : g[q] = f[q]
  BY DEF Pending
<1>3. tokens_used'[j] + g[r] - reported'[j] = tokens_used[j] + f[r] - reported[j]
  OBVIOUS
<1>4. tokens_used[j] + Cardinality(Tokens(f)) = reported[j]
  BY DEF Balanced
<1> HIDE DEF f, g
<1>5. /\ Cardinality(Tokens(f)) \in Nat /\ Cardinality(Tokens(g)) \in Nat
      /\ Cardinality(Tokens(g)) = Cardinality(Tokens(f)) - f[r] + g[r]
  BY <1>1, <1>2, OneCostChanges
<1>6. /\ f[r] \in Int /\ g[r] \in Int
      /\ tokens_used[j] \in Int /\ tokens_used'[j] \in Int
      /\ reported[j] \in Int /\ reported'[j] \in Int
  BY <1>1, ChatAssumption DEF TypeOK, QuotaTypeOK
<1>7. PICK a \in Int, b \in Int : a = Cardinality(Tokens(f)) /\ b = Cardinality(Tokens(g))
  BY <1>5
<1>8. PICK x \in Int, y \in Int : x = f[r] /\ y = g[r]
  BY <1>6
<1>9. PICK t \in Int, u \in Int : t = tokens_used[j] /\ u = tokens_used'[j]
  BY <1>6
<1>10. PICK m \in Int, n \in Int : m = reported[j] /\ n = reported'[j]
  BY <1>6
<1>11. t + a = m /\ b = a - x + y
  BY <1>4, <1>5, <1>7, <1>8, <1>9, <1>10
<1>12. u + y - n = t + x - m
  BY <1>3, <1>8, <1>9, <1>10
<1>13. u + b = n
  BY ONLY <1>11, <1>12, a \in Int, b \in Int, x \in Int, y \in Int,
          t \in Int, u \in Int, m \in Int, n \in Int
<1> QED
  BY <1>7, <1>9, <1>10, <1>13 DEF Balanced, g

\* The initial state: nothing reported, nothing charged, nothing pending.
LEMMA InitCInv == Init => CInv
<1> SUFFICES ASSUME Init
             PROVE  CInv
  OBVIOUS
<1>1. IInv
  BY InitIInv
<1>2. \A r \in Request : request[r].usage = None /\ request[r].pc \notin Live
  BY DEF Init, NewRequest, Live, Waiting, Streaming
<1>3. ASSUME NEW k \in Key PROVE Balanced(k)
  <2>1. \A r \in Request : Pending(request, k)[r] = 0
    BY <1>2 DEF Pending
  <2>2. Tokens(Pending(request, k)) = {}
    BY <2>1 DEF Tokens
  <2>3. tokens_used[k] = 0 /\ reported[k] = 0
    BY DEF Init, QuotaInit
  <2> QED
    BY <2>2, <2>3, FS_EmptySet DEF Balanced
<1> QED
  BY <1>1, <1>2, <1>3 DEF CInv

\* A step that neither charges nor reports, and leaves pending what was pending.
LEMMA QuietCInv ==
    ASSUME CInv, IInv', NEW r \in Request,
           \A q \in Request \ {r} : request'[q] = request[q],
           UNCHANGED <<tokens_used, reported>>,
           request'[r].usage = request[r].usage,
           request'[r].pc \in Unbilled => request[r].usage = None,
           \/ request[r].usage = None
           \/ /\ request'[r].pc \in Live <=> request[r].pc \in Live
              /\ request'[r].key = request[r].key
    PROVE  CInv'
<1>1. TypeOK /\ TypeOK'
  BY DEF CInv, IInv
<1>2. \A q \in Request : request'[q].pc \in Unbilled => request'[q].usage = None
  BY DEF CInv
<1>3. ASSUME NEW j \in Key PROVE Balanced(j)'
  <2>1. Pending(request', j)[r] = Pending(request, j)[r]
    BY DEF Pending
  <2>2. Balanced(j)
    BY DEF CInv
  <2>3. tokens_used'[j] = tokens_used[j] /\ reported'[j] = reported[j]
    OBVIOUS
  <2> QED
    BY <1>1, <2>1, <2>2, <2>3, BalanceKept
<1> QED
  BY <1>2, <1>3 DEF CInv

\* A coroutine that is over holds nothing, and its record is a new one but for that.
LEMMA GoneShape ==
    ASSUME TypeOK, NEW r \in Request, Leave(r)
    PROVE  /\ request'[r].pc = "done" /\ request'[r].usage = None
           /\ \A q \in Request \ {r} : request'[q] = request[q]
BY DEF Leave, TypeOK, NewRequest

\* record_usage adds what it is given, to the account of the key alone.
LEMMA RecordAdds ==
    ASSUME TypeOK, NEW k \in Key \cup {None}, NEW usage \in Usage, RecordUsage(k, usage),
           NEW j \in Key
    PROVE  tokens_used'[j] = tokens_used[j] + IF j = k /\ usage # None THEN usage ELSE 0
<1>1. tokens_used[j] \in Nat /\ (usage # None => usage \in Nat)
  BY ChatAssumption DEF TypeOK, QuotaTypeOK, Usage
<1>2. j # None
  BY QuotaAssumption
<1>3. CASE k # None /\ usage # None /\ usage > 0
  <2>1. tokens_used' = [tokens_used EXCEPT ![k] = tokens_used[k] + usage]
    BY <1>3 DEF RecordUsage
  <2>2. j # k => tokens_used'[j] = tokens_used[j]
    BY <2>1 DEF TypeOK, QuotaTypeOK
  <2>3. j = k => tokens_used'[j] = tokens_used[j] + usage
    BY <2>1 DEF TypeOK, QuotaTypeOK
  <2> QED
    BY <1>1, <1>3, <2>2, <2>3
<1>4. CASE ~(k # None /\ usage # None /\ usage > 0)
  <2>1. tokens_used' = tokens_used
    BY <1>4 DEF RecordUsage
  <2>2. j = k /\ usage # None => usage = 0
    BY <1>1, <1>2, <1>4
  <2> QED
    BY <1>1, <2>1, <2>2
<1> QED
  BY <1>3, <1>4

\* What the upstream reports of a request replaces what it had reported of it.
LEMMA ReportReplaces ==
    ASSUME TypeOK, NEW k \in Key \cup {None}, NEW usage \in Usage, NEW before \in Usage,
           Report(k, usage, before), NEW j \in Key
    PROVE  reported'[j] = reported[j] + (IF j = k /\ usage # None THEN usage ELSE 0)
                                      - (IF j = k /\ before # None THEN before ELSE 0)
<1> DEFINE more == IF usage = None THEN 0 ELSE usage
           less == IF before = None THEN 0 ELSE before
<1>1. reported[j] \in Int /\ more \in Nat /\ less \in Nat
  BY ChatAssumption DEF TypeOK, Usage
<1>2. j # None
  BY QuotaAssumption
<1>3. CASE j = k
  <2>1. reported' = [reported EXCEPT ![k] = reported[k] + more - less]
    BY <1>2, <1>3 DEF Report
  <2>2. reported'[j] = reported[j] + more - less
    BY <1>3, <2>1 DEF TypeOK
  <2> QED
    BY <1>3, <2>2
<1>4. CASE j # k
  <2>1. reported'[j] = reported[j]
    BY <1>4 DEF Report, TypeOK
  <2> QED
    BY <1>1, <1>4, <2>1
<1> QED
  BY <1>3, <1>4

\* The end of a relay charges what the stream is known to have cost, and a whole
\* response what it names: in both cases what was pending or has just been reported.
LEMMA ChargedCInv ==
    ASSUME CInv, IInv', NEW r \in Request, NEW usage \in Usage,
           request[r].pc \in Live, RecordUsage(request[r].key, usage), Leave(r),
           \/ usage = request[r].usage /\ UNCHANGED reported
           \/ request[r].usage = None /\ Report(request[r].key, usage, None)
    PROVE  CInv'
<1> DEFINE k == request[r].key
           Cost(j, x) == IF j = k /\ x # None THEN x ELSE 0
<1>1. /\ TypeOK /\ TypeOK'
      /\ k \in Key \cup {None} /\ request[r].usage \in Usage /\ None \in Usage
  BY DEF CInv, IInv, TypeOK, RequestState, Usage
<1>2. /\ request'[r].pc = "done" /\ request'[r].usage = None
      /\ \A q \in Request \ {r} : request'[q] = request[q]
  BY <1>1, GoneShape
<1>3. \A q \in Request : request'[q].pc \in Unbilled => request'[q].usage = None
  BY <1>2 DEF CInv
<1>4. ASSUME NEW j \in Key PROVE Balanced(j)'
  <2>1. tokens_used'[j] = tokens_used[j] + Cost(j, usage)
    BY <1>1, RecordAdds
  <2>2. Pending(request, j)[r] = Cost(j, request[r].usage)
    BY DEF Pending
  <2>3. Pending(request', j)[r] = 0
    BY <1>2 DEF Pending
  <2>4. reported'[j] = reported[j] + Cost(j, usage) - Cost(j, request[r].usage)
    <3>1. /\ reported[j] \in Int /\ Cost(j, usage) \in Int
          /\ Cost(j, request[r].usage) \in Int
      BY <1>1, ChatAssumption DEF TypeOK, Usage
    <3>2. CASE usage = request[r].usage /\ UNCHANGED reported
      BY <3>1, <3>2
    <3>3. CASE request[r].usage = None /\ Report(k, usage, None)
      <4>1. reported'[j] = reported[j] + Cost(j, usage) - Cost(j, None)
        BY <1>1, <3>3, ReportReplaces
      <4> QED
        BY <3>3, <4>1
    <3> QED
      BY <3>2, <3>3
  <2>5. /\ tokens_used[j] \in Int /\ reported[j] \in Int
        /\ Cost(j, usage) \in Int /\ Cost(j, request[r].usage) \in Int
    BY <1>1, ChatAssumption DEF TypeOK, QuotaTypeOK, Usage
  <2> HIDE DEF Cost
  <2>6. tokens_used'[j] + Pending(request', j)[r] - reported'[j]
          = tokens_used[j] + Pending(request, j)[r] - reported[j]
    BY <2>1, <2>2, <2>3, <2>4, <2>5
  <2>7. Balanced(j)
    BY DEF CInv
  <2> QED
    BY <1>1, <1>2, <2>6, <2>7, BalanceKept
<1> QED
  BY <1>3, <1>4 DEF CInv

\* A chunk that names another cost moves what is pending by as much as what is reported.
LEMMA ChunkCInv ==
    ASSUME CInv, IInv', NEW r \in Request,
           NEW usage \in 0..MaxCost \cup {request[r].usage}, Chunk(r, usage)
    PROVE  CInv'
<1> DEFINE k == request[r].key
           Cost(j, x) == IF j = k /\ x # None THEN x ELSE 0
<1>1. /\ TypeOK /\ TypeOK' /\ request[r] \in RequestState
      /\ k \in Key \cup {None} /\ request[r].usage \in Usage /\ usage \in Usage
  BY DEF CInv, IInv, TypeOK, RequestState, Usage
<1>2. /\ request[r].pc = "relaying" /\ request'[r].pc = "sending"
      /\ request'[r].usage = usage /\ request'[r].key = k
      /\ \A q \in Request \ {r} : request'[q] = request[q]
      /\ UNCHANGED tokens_used
  BY <1>1 DEF Chunk, TypeOK, RequestState, quotaVars
<1>3. \A q \in Request : request'[q].pc \in Unbilled => request'[q].usage = None
  BY <1>2 DEF CInv, Unbilled
<1>4. "relaying" \in Live /\ "sending" \in Live
  BY DEF Live, Streaming
<1>5. ASSUME NEW j \in Key PROVE Balanced(j)'
  <2>1. /\ Pending(request, j)[r] = Cost(j, request[r].usage)
        /\ Pending(request', j)[r] = Cost(j, usage)
    BY <1>2, <1>4 DEF Pending
  <2>2. reported'[j] = reported[j] + Cost(j, usage) - Cost(j, request[r].usage)
    BY <1>1, ReportReplaces DEF Chunk
  <2>3. /\ tokens_used[j] \in Int /\ reported[j] \in Int
        /\ Cost(j, usage) \in Int /\ Cost(j, request[r].usage) \in Int
    BY <1>1, ChatAssumption DEF TypeOK, QuotaTypeOK, Usage
  <2> HIDE DEF Cost
  <2>4. tokens_used'[j] + Pending(request', j)[r] - reported'[j]
          = tokens_used[j] + Pending(request, j)[r] - reported[j]
    BY <1>2, <2>1, <2>2, <2>3
  <2>5. Balanced(j)
    BY DEF CInv
  <2> QED
    BY <1>1, <1>2, <2>4, <2>5, BalanceKept
<1> QED
  BY <1>3, <1>5 DEF CInv

\* Every step keeps the accounts.
LEMMA NextCInv == CInv /\ [Next]_vars => CInv'
<1> SUFFICES ASSUME CInv, [Next]_vars
             PROVE  CInv'
  OBVIOUS
<1>1. IInv /\ IInv' /\ TypeOK
  BY NextIInv DEF CInv, IInv
<1>2. /\ \A r \in Request : request[r] \in RequestState
      /\ \A r \in Request : request[r].pc \in Unbilled => request[r].usage = None
  BY <1>1 DEF CInv, TypeOK
<1>3. CASE UNCHANGED vars
  <2>1. \A k \in Key : Balanced(k)'
    BY <1>3 DEF CInv, Balanced, Pending, Tokens, vars, quotaVars
  <2> QED
    BY <1>1, <1>2, <1>3, <2>1 DEF CInv, vars
<1>4. ASSUME NEW r \in Request, NEW k \in Key \cup {None},
             TurnAway(r, k) \/ \E stream \in BOOLEAN : Admit(r, k, stream)
      PROVE  CInv'
  <2>1. request[r].usage = None /\ UNCHANGED <<tokens_used, reported>>
    BY <1>2, <1>4 DEF TurnAway, Admit, Unbilled, quotaVars
  <2>2. /\ request'[r].usage = None
        /\ \A q \in Request \ {r} : request'[q] = request[q]
    <3>1. CASE TurnAway(r, k)
      BY <1>1, <3>1, GoneShape DEF TurnAway
    <3>2. ASSUME NEW stream \in BOOLEAN, Admit(r, k, stream)
          PROVE  /\ request'[r].usage = request[r].usage
                 /\ \A q \in Request \ {r} : request'[q] = request[q]
      BY <1>1, <3>2 DEF Admit, TypeOK, RequestState
    <3> QED
      BY <1>4, <2>1, <3>1, <3>2
  <2> QED
    BY <1>1, <2>1, <2>2, QuietCInv
<1>5. ASSUME NEW r \in Request, PoolRaises(r) \/ Drained(r)
      PROVE  CInv'
  <2>1. request[r].usage = None /\ UNCHANGED <<tokens_used, reported>> /\ Leave(r)
    BY <1>2, <1>5 DEF PoolRaises, Drained, Unbilled
  <2> QED
    BY <1>1, <2>1, GoneShape, QuietCInv
<1>6. ASSUME NEW r \in Request, NEW usage \in Usage, Respond(r, usage)
      PROVE  CInv'
  <2>1. request[r].usage = None /\ request[r].pc \in Live
    BY <1>2, <1>6 DEF Respond, Unbilled, Live, Waiting
  <2> QED
    BY <1>1, <1>6, <2>1, ChargedCInv DEF Respond
<1>7. ASSUME NEW r \in Request, Closed(r)
      PROVE  CInv'
  <2>1. request[r].usage \in Usage /\ request[r].pc \in Live
    BY <1>2, <1>7 DEF Closed, Live, Streaming, RequestState
  <2> QED
    BY <1>1, <1>7, <2>1, ChargedCInv DEF Closed
<1>8. ASSUME NEW r \in Request,
             \/ StreamRefused(r) \/ StreamOpened(r) \/ Pull(r) \/ Ended(r)
             \/ Sent(r) \/ Dropped(r) \/ Finalised(r) \/ BreaksOff(r)
      PROVE  CInv'
  <2>1. /\ request'[r].usage = request[r].usage /\ request'[r].key = request[r].key
        /\ \A q \in Request \ {r} : request'[q] = request[q]
        /\ UNCHANGED <<tokens_used, reported>>
    <3>1. CASE BreaksOff(r)
      BY <1>1, <1>2, <3>1 DEF BreaksOff, TypeOK, RequestState, quotaVars
    <3>2. CASE ~BreaksOff(r)
      <4>1. /\ \E pc \in Live : Move(r, pc)
            /\ UNCHANGED <<tokens_used, reported>>
        BY <1>8, <3>2 DEF StreamRefused, StreamOpened, Pull, Ended, Sent, Dropped,
                          Finalised, Live, Streaming, quotaVars
      <4> QED
        BY <1>1, <1>2, <4>1 DEF Move, TypeOK, RequestState
    <3> QED
      BY <3>1, <3>2
  <2>2. /\ request[r].pc \in Live /\ request'[r].pc \in Live
        /\ request[r].pc \in Unbilled \/ request'[r].pc \notin Unbilled
    BY <1>1, <1>2, <1>8 DEF StreamRefused, StreamOpened, Pull, Ended, Sent, Dropped,
          Finalised, BreaksOff, Move, TypeOK, RequestState, Live, Waiting, Streaming, Unbilled
  <2> QED
    BY <1>1, <1>2, <2>1, <2>2, QuietCInv
<1>9. ASSUME NEW r \in Request, Upstream(r)
      PROVE  CInv'
  BY <1>1, <1>8, <1>9, ChunkCInv DEF Upstream
<1> QED
  BY <1>3, <1>4, <1>5, <1>6, <1>7, <1>8, <1>9
  DEF Next, Arrive, PoolAnswers, Caller, Server

LEMMA SpecCInv == Spec => []CInv
BY InitCInv, NextCInv, PTL DEF Spec

\* When the requests of a key are over, it has been charged all that the upstream has
\* reported for it, whichever way each of them ended (_record_usage at chat.py:208, and
\* at chat.py:410 in the finally of relay()).
THEOREM EverythingIsCharged == Spec => []EverythingCharged
<1>1. ASSUME CInv, NEW k \in Key, Holders(k) = {}
      PROVE  tokens_used[k] = reported[k]
  <2>1. \A r \in Request : Pending(request, k)[r] = 0
    BY <1>1 DEF Pending, Holders
  <2>2. Tokens(Pending(request, k)) = {}
    BY <2>1 DEF Tokens
  <2>3. tokens_used[k] + Cardinality(Tokens(Pending(request, k))) = reported[k]
    BY <1>1 DEF CInv, Balanced
  <2>4. tokens_used[k] \in Nat
    BY <1>1 DEF CInv, IInv, TypeOK, QuotaTypeOK
  <2> QED
    BY <2>2, <2>3, <2>4, FS_EmptySet
<1>2. CInv => EverythingCharged
  BY <1>1 DEF EverythingCharged
<1> QED
  BY <1>2, SpecCInv, PTL

-----------------------------------------------------------------------------
(***************************************************************************)
(* Part 2: the whole gateway.                                              *)
(***************************************************************************)
\* Nothing has been written about the request.
Clean(h) == h.audit = <<>> /\ h.refusals = <<>> /\ ~h.crashed

\* A stream whose status line has gone out, and whose record is relay()'s to write.
Streamed(r) ==
    /\ upstream[r] \in OkStatus /\ http[r].status = 200
    /\ http[r].known /\ ~http[r].crashed /\ http[r].audit = <<>>
    /\ http[r].refusals = IF request[r].broken THEN <<"upstream_stream_broken">> ELSE <<>>

\* One record, if the caller is known and nothing was raised past the route; it tells
\* of the response that went out, and has the reason that was counted.
Settled(h) ==
    IF h.known /\ ~h.crashed
    THEN \E status \in Status, reason \in Reason \cup {None} :
            /\ h.audit = <<[status |-> status, reason |-> reason]>>
            /\ Tells(status, h.status)
            /\ \/ reason # None /\ h.refusals = <<reason>>
               \/ reason \in {None, "upstream_error"} /\ h.refusals = <<>>
    ELSE h.audit = <<>>

\* Before the gates.
Early(r) ==
    http[r].stage \in {"out", "auth", "body"} =>
        /\ request[r].pc = "new" /\ upstream[r] = None
        /\ Clean(http[r])
        /\ http[r].known <=> http[r].stage = "body"

\* From the gates to the response.
Handled(r) ==
    http[r].stage = "handler" =>
        /\ Clean(http[r]) /\ http[r].known
        /\ \/ request[r].pc = "pool" /\ upstream[r] = None
           \/ request[r].pc = "draining" /\ upstream[r] \in ErrorStatus
           \/ request[r].pc = "handed_over" /\ upstream[r] \in OkStatus

\* From the status line to the end of the response, or of the generator.
Relayed(r) ==
    http[r].stage = "streaming" =>
        Streamed(r) /\ request[r].pc \in {"relaying", "sending", "closing"}

Answered(r) ==
    http[r].stage \in {"responding", "gone"} =>
        \/ request[r].pc \in {"abandoned", "closing"} /\ Streamed(r)
        \/ request[r].pc \in {"new", "done"} /\ upstream[r] = None /\ Settled(http[r])

Local(r) ==
    /\ Early(r) /\ Handled(r) /\ Relayed(r) /\ Answered(r)
    /\ request[r].pc \in {"new", "pool", "draining", "handed_over", "relaying"}
            => ~request[r].broken
    /\ http[r].stage = "gone" => http[r].recorded = http[r].status

Inside == {r \in Request : http[r].stage \notin {"out", "gone"}}

GInv == /\ IInv
        /\ http \in [Request -> Http]
        /\ upstream \in [Request -> Status \cup {None}]
        /\ inflight = Cardinality(Inside)
        /\ \A r \in Request : Local(r)

-----------------------------------------------------------------------------
LEMMA InsideFinite == IsFiniteSet(Inside) /\ Cardinality(Inside) \in Nat
<1>1. Inside \in SUBSET Request
  BY DEF Inside
<1> QED
  BY <1>1, ChatAssumption, FS_Subset, FS_CardinalityType

\* None is neither a status nor a reason.
LEMMA NoneApart ==
    /\ None \notin Status /\ None \notin Reason
    /\ None \notin ErrorStatus /\ None \notin OkStatus
    /\ ErrorStatus \subseteq Status /\ OkStatus \subseteq Status /\ 200 \in Status
<1>1. ErrorStatus \subseteq 400..599 /\ OkStatus \subseteq 200..399 /\ None \notin Reason
  BY GatewayAssumption
<1>2. None \notin Nat
  BY QuotaAssumption
<1>3. Status \subseteq Nat
  BY DEF Status
<1>4. ErrorStatus \subseteq Status /\ OkStatus \subseteq Status /\ 200 \in Status
  BY <1>1 DEF Status
<1> QED
  BY <1>1, <1>2, <1>3, <1>4

\* A success is audited as it came and answered with 200, an error as it is.
LEMMA WhatTheRecordTells ==
    /\ \A status \in OkStatus : Tells(status, 200)
    /\ \A status \in ErrorStatus : Tells(status, status)
<1>1. ErrorStatus \subseteq 400..599 /\ OkStatus \subseteq 200..399
  BY GatewayAssumption
<1>2. \A status \in 200..399 : Tells(status, 200)
  BY DEF Tells
<1>3. \A status \in 400..599 : Tells(status, status)
  BY DEF Tells
<1> QED
  BY <1>1, <1>2, <1>3

\* What the tables say of a status and a reason.
LEMMA TablesTyped ==
    /\ \A f \in Flaw : /\ f \in Reason /\ FlawStatus[f] \in Status
                        /\ Tells(FlawStatus[f], FlawStatus[f])
    /\ \A reason \in DOMAIN PoolStatus : /\ reason \in Reason /\ PoolStatus[reason] \in Status
                                         /\ Tells(PoolStatus[reason], PoolStatus[reason])
<1>1. ASSUME NEW f \in Flaw
      PROVE  /\ f \in Reason /\ FlawStatus[f] \in Status
             /\ Tells(FlawStatus[f], FlawStatus[f])
  <2>1. f \in DOMAIN FlawStatus
    BY GatewayAssumption
  <2>2. f \in Reason
    BY <2>1 DEF FlawStatus, Reason
  <2>3. FlawStatus[f] \in {413, 400, 403}
    BY <2>1 DEF FlawStatus
  <2> QED
    BY <2>2, <2>3 DEF Status, Tells
<1>2. ASSUME NEW reason \in DOMAIN PoolStatus
      PROVE  /\ reason \in Reason /\ PoolStatus[reason] \in Status
             /\ Tells(PoolStatus[reason], PoolStatus[reason])
  <2>1. reason \in Reason
    BY DEF PoolStatus, Reason
  <2>2. PoolStatus[reason] \in {503, 502}
    BY DEF PoolStatus
  <2> QED
    BY <2>1, <2>2 DEF Status, Tells
<1> QED
  BY <1>1, <1>2

\* What one record in an empty log and one refusal among none come to.
LEMMA AuditedFirst ==
    ASSUME NEW h \in Http, h.audit = <<>>,
           NEW status \in Status, NEW reason \in Reason \cup {None}
    PROVE  /\ Audited(h, status, reason)
                = [h EXCEPT !.audit = <<[status |-> status, reason |-> reason]>>]
           /\ Audited(h, status, reason) \in Http
<1> DEFINE record == [status |-> status, reason |-> reason]
<1>1. record \in [status : Status, reason : Reason \cup {None}]
  OBVIOUS
<1> HIDE DEF record
<1>2. Append(<<>>, record) = <<record>>
  OBVIOUS
<1>3. <<record>> \in Seq([status : Status, reason : Reason \cup {None}])
  BY <1>1
<1> QED
  BY <1>2, <1>3 DEF Audited, Http, record

LEMMA CountedFirst ==
    ASSUME NEW h \in Http, h.refusals = <<>>, NEW reason \in Reason
    PROVE  /\ Counted(h, reason) = [h EXCEPT !.refusals = <<reason>>]
           /\ Counted(h, reason) \in Http
<1>1. Append(<<>>, reason) = <<reason>>
  OBVIOUS
<1>2. <<reason>> \in Seq(Reason \cup {"other"})
  OBVIOUS
<1> QED
  BY <1>1, <1>2 DEF Counted, Http

LEMMA RespondingTyped ==
    ASSUME NEW h \in Http, NEW status \in Status
    PROVE  Responding(h, status) \in Http
BY DEF Responding, Http

\* _reject leaves a settled request behind.
LEMMA Rejected ==
    ASSUME NEW h \in Http, Clean(h), h.known,
           NEW status \in Status, Tells(status, status), NEW reason \in Reason
    PROVE  LET g == Responding(Audited(Counted(h, reason), status, reason), status)
           IN  g \in Http /\ g.stage = "responding" /\ Settled(g)
<1> DEFINE c == Counted(h, reason)
           a == Audited(c, status, reason)
           g == Responding(a, status)
<1>1. c = [h EXCEPT !.refusals = <<reason>>] /\ c \in Http
  BY CountedFirst DEF Clean
<1>2. c.audit = <<>> /\ c.known /\ ~c.crashed /\ c.refusals = <<reason>>
  BY <1>1 DEF Clean, Http
<1> HIDE DEF c
<1>3. a = [c EXCEPT !.audit = <<[status |-> status, reason |-> reason]>>] /\ a \in Http
  BY <1>1, <1>2, AuditedFirst
<1>4. /\ a.audit = <<[status |-> status, reason |-> reason]>>
      /\ a.known /\ ~a.crashed /\ a.refusals = <<reason>>
  BY <1>1, <1>2, <1>3 DEF Http
<1> HIDE DEF a
<1>5. /\ g.audit = a.audit /\ g.known = a.known /\ g.crashed = a.crashed
      /\ g.refusals = a.refusals /\ g.stage = "responding" /\ g.status = status
  BY <1>3 DEF Responding, Http
<1>6. g \in Http
  BY <1>3, RespondingTyped
<1> HIDE DEF g
<1>7. reason # None
  BY NoneApart
<1>8. Settled(g)
  BY <1>4, <1>5, <1>7 DEF Settled
<1> QED
  BY <1>5, <1>6, <1>8 DEF g, a, c

-----------------------------------------------------------------------------
\* What a step of the coroutine makes of it and of the others.
LEMMA MoveAt ==
    ASSUME TypeOK, NEW r \in Request, NEW pc, Move(r, pc)
    PROVE  /\ request'[r].pc = pc /\ request'[r].broken = request[r].broken
           /\ \A q \in Request \ {r} : request'[q] = request[q]
<1>1. request[r] \in RequestState
  BY DEF TypeOK
<1> QED
  BY <1>1 DEF Move, TypeOK, RequestState

LEMMA LeaveAt ==
    ASSUME TypeOK, NEW r \in Request, Leave(r)
    PROVE  /\ request'[r].pc = "done" /\ request'[r].broken = FALSE
           /\ \A q \in Request \ {r} : request'[q] = request[q]
BY DEF Leave, TypeOK, NewRequest

\* The requests a step leaves alone stay as they were.
LEMMA OthersStay ==
    ASSUME GInv, NEW q \in Request,
           request'[q] = request[q], http'[q] = http[q], upstream'[q] = upstream[q]
    PROVE  Local(q)'
<1>1. Local(q)
  BY DEF GInv
<1>2. (Early(q) <=> Early(q)') /\ (Handled(q) <=> Handled(q)')
  BY DEF Early, Handled, Clean
<1>3. Streamed(q) <=> Streamed(q)'
  BY DEF Streamed
<1>4. (Relayed(q) <=> Relayed(q)') /\ (Answered(q) <=> Answered(q)')
  BY <1>3 DEF Relayed, Answered, Settled
<1> QED
  BY <1>1, <1>2, <1>4 DEF Local

\* A step of one request that neither comes in nor goes out.
LEMMA LocalStep ==
    ASSUME GInv, [Next]_vars, NEW r \in Request,
           \A q \in Request \ {r} : request'[q] = request[q],
           NEW h \in Http, http' = [http EXCEPT ![r] = h],
           NEW u \in Status \cup {None}, upstream' = [upstream EXCEPT ![r] = u],
           h.stage \in {"out", "gone"} <=> http[r].stage \in {"out", "gone"},
           inflight' = inflight,
           Local(r)'
    PROVE  GInv'
<1>1. /\ http' \in [Request -> Http] /\ http'[r] = h
      /\ \A q \in Request \ {r} : http'[q] = http[q]
  BY DEF GInv
<1>2. /\ upstream' \in [Request -> Status \cup {None}]
      /\ \A q \in Request \ {r} : upstream'[q] = upstream[q]
  BY DEF GInv
<1>3. Inside' = Inside
  BY <1>1 DEF Inside
<1>4. \A q \in Request : Local(q)'
  BY <1>1, <1>2, OthersStay
<1>5. IInv'
  BY NextIInv DEF GInv
<1> QED
  BY <1>1, <1>2, <1>3, <1>4, <1>5 DEF GInv

\* A step that leaves a part of one request's state as it is.
LEMMA Same ==
    ASSUME GInv, NEW r \in Request
    PROVE  /\ http = [http EXCEPT ![r] = http[r]] /\ http[r] \in Http
           /\ upstream = [upstream EXCEPT ![r] = upstream[r]]
           /\ upstream[r] \in Status \cup {None}
           /\ TypeOK /\ Local(r) /\ request[r] \in RequestState
BY DEF GInv, IInv, TypeOK

-----------------------------------------------------------------------------
(***************************************************************************)
(* From the first byte to the gates.                                       *)
(***************************************************************************)
LEMMA EnterGInv ==
    ASSUME GInv, NEW r \in Request, Enter(r)
    PROVE  GInv'
<1> DEFINE h == [http[r] EXCEPT !.stage = "auth"]
<1>1. http[r] \in Http /\ Local(r) /\ http[r].stage = "out"
  BY Same DEF Enter
<1>2. /\ h \in Http /\ h.stage = "auth" /\ h.audit = http[r].audit
      /\ h.refusals = http[r].refusals /\ h.crashed = http[r].crashed
      /\ h.known = http[r].known
  BY <1>1 DEF Http
<1>3. http' = [http EXCEPT ![r] = h]
  BY DEF Enter, Stage
<1> HIDE DEF h
<1>4. /\ http' \in [Request -> Http] /\ http'[r] = h
      /\ \A q \in Request \ {r} : http'[q] = http[q]
  BY <1>2, <1>3 DEF GInv
<1>5. UNCHANGED vars /\ request' = request /\ upstream' = upstream /\ inflight' = inflight + 1
  BY DEF Enter, vars
<1>6. Inside' = Inside \cup {r} /\ r \notin Inside
  BY <1>1, <1>2, <1>4 DEF Inside
<1>7. inflight' = Cardinality(Inside')
  BY <1>5, <1>6, InsideFinite, FS_AddElement DEF GInv
<1>8. Local(r)'
  BY <1>1, <1>2, <1>4, <1>5 DEF Local, Early, Handled, Relayed, Answered, Clean
<1>9. \A q \in Request : Local(q)'
  BY <1>4, <1>5, <1>8, OthersStay
<1>10. IInv'
  BY <1>5, NextIInv DEF GInv
<1> QED
  BY <1>4, <1>5, <1>7, <1>9, <1>10 DEF GInv

LEMMA ExitGInv ==
    ASSUME GInv, NEW r \in Request, Exit(r)
    PROVE  GInv'
<1> DEFINE h == [http[r] EXCEPT !.stage = "gone", !.recorded = http[r].status]
<1>1. http[r] \in Http /\ Local(r) /\ http[r].stage = "responding"
  BY Same DEF Exit
<1>2. /\ h \in Http /\ h.stage = "gone" /\ h.audit = http[r].audit
      /\ h.refusals = http[r].refusals /\ h.crashed = http[r].crashed
      /\ h.known = http[r].known /\ h.status = http[r].status /\ h.recorded = http[r].status
  BY <1>1 DEF Http
<1>3. http' = [http EXCEPT ![r] = h]
  BY DEF Exit
<1> HIDE DEF h
<1>4. /\ http' \in [Request -> Http] /\ http'[r] = h
      /\ \A q \in Request \ {r} : http'[q] = http[q]
  BY <1>2, <1>3 DEF GInv
<1>5. UNCHANGED vars /\ request' = request /\ upstream' = upstream /\ inflight' = inflight - 1
  BY DEF Exit, vars
<1>6. Inside' = Inside \ {r} /\ r \in Inside
  BY <1>1, <1>2, <1>4 DEF Inside
<1>7. inflight' = Cardinality(Inside')
  BY <1>5, <1>6, InsideFinite, FS_RemoveElement DEF GInv
<1>8. Answered(r)
  BY <1>1 DEF Local
<1>9. (Streamed(r) => Streamed(r)') /\ (Settled(http[r]) => Settled(h))
  BY <1>2, <1>4, <1>5 DEF Streamed, Settled
<1>10. Answered(r)'
  BY <1>1, <1>2, <1>4, <1>5, <1>8, <1>9 DEF Answered
<1>11. Local(r)'
  BY <1>1, <1>2, <1>4, <1>5, <1>10 DEF Local, Early, Handled, Relayed
<1>12. \A q \in Request : Local(q)'
  BY <1>4, <1>5, <1>11, OthersStay
<1>13. IInv'
  BY <1>5, NextIInv DEF GInv
<1> QED
  BY <1>4, <1>5, <1>7, <1>12, <1>13 DEF GInv

LEMMA AuthenticateGInv ==
    ASSUME GInv, NEW r \in Request, NEW k \in Key \cup {None}, Authenticate(r, k)
    PROVE  GInv'
<1> DEFINE h == [http[r] EXCEPT !.stage = "body", !.known = TRUE, !.key = k]
<1>1. http[r] \in Http /\ Local(r) /\ http[r].stage = "auth" /\ upstream[r] \in Status \cup {None}
  BY Same DEF Authenticate
<1>2. /\ h \in Http /\ h.stage = "body" /\ h.audit = http[r].audit
      /\ h.refusals = http[r].refusals /\ h.crashed = http[r].crashed /\ h.known
  BY <1>1 DEF Http
<1>3. http' = [http EXCEPT ![r] = h]
  BY DEF Authenticate
<1> HIDE DEF h
<1>4. UNCHANGED vars /\ request' = request /\ upstream' = upstream /\ inflight' = inflight
  BY DEF Authenticate, vars
<1>5. http'[r] = h
  BY <1>3 DEF GInv
<1>6. Local(r)'
  BY <1>1, <1>2, <1>4, <1>5 DEF Local, Early, Handled, Relayed, Answered, Clean
<1>7. upstream' = [upstream EXCEPT ![r] = upstream[r]]
  BY <1>4, Same
<1> QED
  BY <1>1, <1>2, <1>3, <1>4, <1>6, <1>7, LocalStep

\* A refusal or an exception ends the handler: the request is over but for its
\* response, and every part of Local but Answered is about other stages.
LEMMA RespondStep ==
    ASSUME GInv, [Next]_vars, NEW r \in Request,
           http[r].stage \notin {"out", "gone"},
           NEW h \in Http, http' = [http EXCEPT ![r] = h],
           h.stage = "responding", Settled(h),
           \A q \in Request \ {r} : request'[q] = request[q],
           request'[r].pc \in {"new", "done"}, request'[r].broken = FALSE,
           upstream' = [upstream EXCEPT ![r] = None], inflight' = inflight
    PROVE  GInv'
<1>1. http'[r] = h /\ upstream'[r] = None
  BY DEF GInv
<1>2. Answered(r)'
  BY <1>1 DEF Answered
<1>3. Local(r)'
  BY <1>1, <1>2 DEF Local, Early, Handled, Relayed
<1> QED
  BY <1>3, LocalStep

\* The same of a request that was waiting for its body or for the pool, which has no
\* upstream response open.
LEMMA RefuseStep ==
    ASSUME GInv, [Next]_vars, NEW r \in Request,
           http[r].stage \in {"auth", "body", "handler"}, upstream[r] = None,
           NEW h \in Http, http' = [http EXCEPT ![r] = h],
           h.stage = "responding", Settled(h),
           \A q \in Request \ {r} : request'[q] = request[q],
           request'[r].pc \in {"new", "done"}, request'[r].broken = FALSE,
           UNCHANGED <<inflight, upstream>>
    PROVE  GInv'
<1>1. upstream' = [upstream EXCEPT ![r] = None]
  BY DEF GInv
<1> QED
  BY <1>1, RespondStep

\* Of a request before the gates.
LEMMA BeforeTheGates ==
    ASSUME GInv, NEW r \in Request, http[r].stage \in {"auth", "body"}
    PROVE  /\ http[r] \in Http /\ Clean(http[r]) /\ upstream[r] = None
           /\ http[r].known <=> http[r].stage = "body"
           /\ request[r].pc = "new" /\ request[r].broken = FALSE
           /\ http[r].key \in Key \cup {None}
<1>1. request[r].broken \in BOOLEAN /\ http[r] \in Http
  BY Same DEF RequestState
<1> QED
  BY <1>1, Same DEF Local, Early, Http

LEMMA UnauthorizedGInv ==
    ASSUME GInv, NEW r \in Request, Unauthorized(r)
    PROVE  GInv'
<1> DEFINE h == Responding(http[r], 401)
<1>1. http[r].stage = "auth" /\ UNCHANGED vars /\ request' = request
  BY DEF Unauthorized, vars
<1>2. http[r] \in Http /\ Clean(http[r]) /\ ~http[r].known
  BY <1>1, BeforeTheGates
<1>3. h \in Http /\ h.stage = "responding" /\ h.audit = <<>> /\ ~h.known
  <2>1. 401 \in Status
    BY DEF Status
  <2>2. h \in Http
    BY <1>2, <2>1, RespondingTyped
  <2>3. h.stage = "responding" /\ h.audit = http[r].audit /\ h.known = http[r].known
    BY <1>2 DEF Responding, Http
  <2> QED
    BY <1>2, <2>2, <2>3 DEF Clean
<1>4. Settled(h)
  BY <1>3 DEF Settled
<1>5. http' = [http EXCEPT ![r] = h]
  BY DEF Unauthorized
<1> HIDE DEF h
<1> QED
  BY <1>1, <1>3, <1>4, <1>5, BeforeTheGates, RefuseStep DEF Unauthorized

\* An unhandled exception leaves no record.
LEMMA Crashed ==
    ASSUME GInv, NEW r \in Request, http[r].audit = <<>>, Crash(r)
    PROVE  \E h \in Http : /\ http' = [http EXCEPT ![r] = h]
                           /\ h.stage = "responding" /\ Settled(h)
<1> DEFINE g == Responding(http[r], 500)
           h == [g EXCEPT !.crashed = TRUE]
<1>1. http[r] \in Http
  BY Same
<1>2. g \in Http /\ g.stage = "responding" /\ g.audit = <<>>
  <2>1. 500 \in Status
    BY DEF Status
  <2>2. g \in Http
    BY <1>1, <2>1, RespondingTyped
  <2>3. g.stage = "responding" /\ g.audit = http[r].audit
    BY <1>1 DEF Responding, Http
  <2> QED
    BY <2>2, <2>3
<1>3. http' = [http EXCEPT ![r] = h]
  BY DEF Crash
<1> HIDE DEF g
<1>4. h \in Http /\ h.stage = "responding" /\ h.crashed = TRUE /\ h.audit = <<>>
  BY <1>2 DEF Http
<1> HIDE DEF h
<1>5. Settled(h)
  BY <1>4 DEF Settled
<1> QED
  BY <1>3, <1>4, <1>5

LEMMA Refused ==
    ASSUME GInv, NEW r \in Request, Clean(http[r]), http[r].known,
           NEW status \in Status, Tells(status, status),
           NEW reason \in Reason, Reject(r, status, reason)
    PROVE  \E h \in Http : /\ http' = [http EXCEPT ![r] = h]
                           /\ h.stage = "responding" /\ Settled(h)
<1> DEFINE h == Responding(Audited(Counted(http[r], reason), status, reason), status)
<1>1. http[r] \in Http
  BY Same
<1>2. h \in Http /\ h.stage = "responding" /\ Settled(h)
  BY <1>1, Rejected
<1>3. http' = [http EXCEPT ![r] = h]
  BY DEF Reject
<1> QED
  BY <1>2, <1>3

LEMMA UnhandledGInv ==
    ASSUME GInv, NEW r \in Request, Unhandled(r)
    PROVE  GInv'
<1>1. http[r].stage = "body" /\ UNCHANGED vars /\ request' = request /\ Crash(r)
  BY DEF Unhandled, vars
<1>2. PICK h \in Http : /\ http' = [http EXCEPT ![r] = h]
                        /\ h.stage = "responding" /\ Settled(h)
  BY <1>1, BeforeTheGates, Crashed DEF Clean
<1> QED
  BY <1>1, <1>2, BeforeTheGates, RefuseStep DEF Unhandled

LEMMA FlawedGInv ==
    ASSUME GInv, NEW r \in Request, NEW flaw \in Flaw, Flawed(r, flaw)
    PROVE  GInv'
<1>1. http[r].stage = "body" /\ UNCHANGED vars /\ request' = request
  BY DEF Flawed, vars
<1>2. /\ flaw \in Reason /\ FlawStatus[flaw] \in Status
      /\ Tells(FlawStatus[flaw], FlawStatus[flaw]) /\ Reject(r, FlawStatus[flaw], flaw)
  BY TablesTyped DEF Flawed
<1>3. PICK h \in Http : /\ http' = [http EXCEPT ![r] = h]
                        /\ h.stage = "responding" /\ Settled(h)
  BY <1>1, <1>2, BeforeTheGates, Refused
<1> QED
  BY <1>1, <1>3, BeforeTheGates, RefuseStep DEF Flawed

\* Every step of a handler is one of ChatCompletions.
LEMMA OverLimitGInv ==
    ASSUME GInv, NEW r \in Request, OverLimit(r)
    PROVE  GInv'
<1> DEFINE reason == IF OverBudget(http[r].key) THEN "token_budget_exceeded"
                                                ELSE "concurrency_cap_exceeded"
<1>1. http[r].stage = "body" /\ TurnAway(r, http[r].key) /\ Reject(r, 429, reason)
      /\ UNCHANGED <<inflight, upstream>>
  BY DEF OverLimit
<1>2. reason \in Reason /\ 429 \in Status /\ Tells(429, 429)
  BY DEF Reason, Status, Tells
<1> HIDE DEF reason
<1>3. PICK h \in Http : /\ http' = [http EXCEPT ![r] = h]
                        /\ h.stage = "responding" /\ Settled(h)
  BY <1>1, <1>2, BeforeTheGates, Refused
<1>4. [Next]_vars
  BY <1>1, BeforeTheGates DEF Next, Arrive
<1>5. Leave(r)
  BY <1>1 DEF TurnAway
<1> QED
  BY <1>1, <1>3, <1>4, <1>5, BeforeTheGates, LeaveAt, Same, RefuseStep

LEMMA ForwardGInv ==
    ASSUME GInv, NEW r \in Request, NEW stream \in BOOLEAN, Forward(r, stream)
    PROVE  GInv'
<1> DEFINE h == [http[r] EXCEPT !.stage = "handler"]
<1>1. http[r].stage = "body" /\ Admit(r, http[r].key, stream) /\ Stage(r, "handler")
      /\ UNCHANGED <<inflight, upstream>>
  BY DEF Forward
<1>2. [Next]_vars
  BY <1>1, BeforeTheGates DEF Next, Arrive
<1>3. /\ request'[r].pc = "pool" /\ request'[r].broken = request[r].broken
      /\ \A q \in Request \ {r} : request'[q] = request[q]
  BY <1>1, Same DEF Admit, TypeOK, RequestState
<1>4. /\ h \in Http /\ h.stage = "handler" /\ h.audit = http[r].audit
      /\ h.refusals = http[r].refusals /\ h.crashed = http[r].crashed
      /\ h.known = http[r].known
  BY Same DEF Http
<1>5. http' = [http EXCEPT ![r] = h]
  BY <1>1 DEF Stage
<1> HIDE DEF h
<1>6. http'[r] = h
  BY <1>4, <1>5 DEF GInv
<1>7. Local(r)'
  BY <1>1, <1>3, <1>4, <1>6, BeforeTheGates
     DEF Local, Early, Handled, Relayed, Answered, Clean
<1>8. upstream' = [upstream EXCEPT ![r] = upstream[r]]
  BY <1>1, Same
<1> QED
  BY <1>1, <1>2, <1>3, <1>4, <1>5, <1>7, <1>8, Same, LocalStep

-----------------------------------------------------------------------------
(***************************************************************************)
(* The pool's answer.                                                      *)
(***************************************************************************)
\* Where a coroutine is tells how far its request has come.
LEMMA InThePool ==
    ASSUME GInv, NEW r \in Request, request[r].pc = "pool"
    PROVE  /\ http[r].stage = "handler" /\ http[r] \in Http
           /\ Clean(http[r]) /\ http[r].known /\ upstream[r] = None
           /\ request[r].broken = FALSE
<1>1. request[r].broken \in BOOLEAN /\ http[r] \in Http /\ Local(r)
  BY Same DEF RequestState
<1>2. http[r].stage = "handler"
  BY <1>1 DEF Local, Early, Relayed, Answered, Http
<1> QED
  BY <1>1, <1>2 DEF Local, Handled

LEMMA NoReplicaGInv ==
    ASSUME GInv, NEW r \in Request, NEW reason \in DOMAIN PoolStatus, NoReplica(r, reason)
    PROVE  GInv'
<1>1. PoolRaises(r) /\ Reject(r, PoolStatus[reason], reason) /\ UNCHANGED <<inflight, upstream>>
  BY DEF NoReplica
<1>2. request[r].pc = "pool" /\ Leave(r) /\ [Next]_vars
  BY <1>1 DEF PoolRaises, Next, PoolAnswers
<1>3. /\ reason \in Reason /\ PoolStatus[reason] \in Status
      /\ Tells(PoolStatus[reason], PoolStatus[reason])
  BY TablesTyped
<1>4. PICK h \in Http : /\ http' = [http EXCEPT ![r] = h]
                        /\ h.stage = "responding" /\ Settled(h)
  BY <1>1, <1>2, <1>3, InThePool, Refused
<1> QED
  BY <1>1, <1>2, <1>4, InThePool, LeaveAt, Same, RefuseStep

\* A whole answer with a record of its own.
LEMMA AnsweredWhole ==
    ASSUME GInv, NEW r \in Request, request[r].pc = "pool",
           NEW status \in Status, NEW reason \in {None, "upstream_error"},
           NEW answer \in Status, Tells(status, answer),
           http' = [http EXCEPT ![r] = Responding(Audited(http[r], status, reason), answer)]
    PROVE  \E h \in Http : /\ http' = [http EXCEPT ![r] = h]
                           /\ h.stage = "responding" /\ Settled(h)
<1> DEFINE a == Audited(http[r], status, reason)
           h == Responding(a, answer)
<1>1. http[r] \in Http /\ Clean(http[r]) /\ http[r].known
  BY InThePool
<1>2. reason \in Reason \cup {None}
  BY DEF Reason
<1>3. a = [http[r] EXCEPT !.audit = <<[status |-> status, reason |-> reason]>>] /\ a \in Http
  BY <1>1, <1>2, AuditedFirst DEF Clean
<1>4. /\ a.audit = <<[status |-> status, reason |-> reason]>>
      /\ a.known /\ ~a.crashed /\ a.refusals = <<>>
  BY <1>1, <1>3 DEF Clean, Http
<1> HIDE DEF a
<1>5. /\ h.audit = a.audit /\ h.known = a.known /\ h.crashed = a.crashed
      /\ h.refusals = a.refusals /\ h.stage = "responding" /\ h.status = answer
  BY <1>3 DEF Responding, Http
<1>6. h \in Http
  BY <1>3, RespondingTyped
<1> HIDE DEF h
<1>7. Settled(h)
  BY <1>2, <1>4, <1>5 DEF Settled
<1> QED
  BY <1>5, <1>6, <1>7 DEF a, h

LEMMA RespondStays ==
    ASSUME GInv, NEW r \in Request, NEW usage \in Usage, Respond(r, usage)
    PROVE  request[r].pc = "pool" /\ Leave(r) /\ [Next]_vars
BY DEF Respond, Next, PoolAnswers

LEMMA WholeGInv ==
    ASSUME GInv, NEW r \in Request, NEW usage \in Usage, NEW status \in OkStatus,
           Whole(r, usage, status)
    PROVE  GInv'
<1>0. PICK answer \in Status : answer = 200
  BY NoneApart
<1>1. /\ request[r].pc = "pool" /\ Leave(r) /\ [Next]_vars
      /\ UNCHANGED <<inflight, upstream>>
  BY RespondStays DEF Whole
<1>2. /\ http' = [http EXCEPT ![r] = Responding(Audited(http[r], status, None), answer)]
      /\ status \in Status /\ Tells(status, answer)
  BY <1>0, NoneApart, WhatTheRecordTells DEF Whole
<1>3. PICK h \in Http : /\ http' = [http EXCEPT ![r] = h]
                        /\ h.stage = "responding" /\ Settled(h)
  BY <1>1, <1>2, AnsweredWhole
<1> QED
  BY <1>1, <1>3, InThePool, LeaveAt, Same, RefuseStep

LEMMA WholeErrorGInv ==
    ASSUME GInv, NEW r \in Request, NEW status \in ErrorStatus, WholeError(r, status)
    PROVE  GInv'
<1>1. /\ request[r].pc = "pool" /\ Leave(r) /\ [Next]_vars
      /\ UNCHANGED <<inflight, upstream>>
  BY RespondStays DEF WholeError, Usage
<1>2. http' = [http EXCEPT ![r] =
                    Responding(Audited(http[r], status, "upstream_error"), status)]
  BY DEF WholeError
<1>3. PICK h \in Http : /\ http' = [http EXCEPT ![r] = h]
                        /\ h.stage = "responding" /\ Settled(h)
  BY <1>1, <1>2, NoneApart, WhatTheRecordTells, AnsweredWhole
<1> QED
  BY <1>1, <1>3, InThePool, LeaveAt, Same, RefuseStep

LEMMA NotJsonGInv ==
    ASSUME GInv, NEW r \in Request, NotJson(r)
    PROVE  GInv'
<1>1. /\ request[r].pc = "pool" /\ Leave(r) /\ [Next]_vars
      /\ UNCHANGED <<inflight, upstream>> /\ Reject(r, 502, "upstream_bad_response")
  BY RespondStays DEF NotJson, Usage
<1>2. 502 \in Status /\ Tells(502, 502) /\ "upstream_bad_response" \in Reason
  BY DEF Status, Reason, Tells
<1>3. PICK h \in Http : /\ http' = [http EXCEPT ![r] = h]
                        /\ h.stage = "responding" /\ Settled(h)
  BY <1>1, <1>2, InThePool, Refused
<1> QED
  BY <1>1, <1>3, InThePool, LeaveAt, Same, RefuseStep

LEMMA NotAnObjectGInv ==
    ASSUME GInv, NEW r \in Request, NotAnObject(r)
    PROVE  GInv'
<1>1. /\ request[r].pc = "pool" /\ Leave(r) /\ [Next]_vars
      /\ UNCHANGED <<inflight, upstream>> /\ Crash(r)
  BY RespondStays DEF NotAnObject, Usage
<1>2. PICK h \in Http : /\ http' = [http EXCEPT ![r] = h]
                        /\ h.stage = "responding" /\ Settled(h)
  BY <1>1, InThePool, Crashed DEF Clean
<1> QED
  BY <1>1, <1>2, InThePool, LeaveAt, Same, RefuseStep

\* A stream that opens, or an error that is about to be drained.
LEMMA OpenedGInv ==
    ASSUME GInv, [Next]_vars, NEW r \in Request, request[r].pc = "pool",
           NEW pc, NEW status \in Status, Move(r, pc), Open(r, status),
           \/ pc = "handed_over" /\ status \in OkStatus
           \/ pc = "draining" /\ status \in ErrorStatus,
           UNCHANGED <<http, inflight>>
    PROVE  GInv'
<1>1. /\ request'[r].pc = pc /\ request'[r].broken = FALSE
      /\ \A q \in Request \ {r} : request'[q] = request[q]
  BY MoveAt, Same, InThePool
<1>2. upstream'[r] = status
  BY DEF Open, GInv
<1>3. Local(r)'
  BY <1>1, <1>2, InThePool DEF Local, Early, Handled, Relayed, Answered, Clean
<1> QED
  BY <1>1, <1>3, Same, LocalStep DEF Open

LEMMA StreamErrorGInv ==
    ASSUME GInv, NEW r \in Request, NEW status \in ErrorStatus, StreamError(r, status)
    PROVE  GInv'
<1>1. /\ request[r].pc = "pool" /\ Move(r, "draining") /\ [Next]_vars
      /\ Open(r, status) /\ UNCHANGED <<http, inflight>>
  BY DEF StreamError, StreamRefused, Next, PoolAnswers
<1> QED
  BY <1>1, NoneApart, OpenedGInv

LEMMA StreamOpenGInv ==
    ASSUME GInv, NEW r \in Request, NEW status \in OkStatus, StreamOpen(r, status)
    PROVE  GInv'
<1>1. /\ request[r].pc = "pool" /\ Move(r, "handed_over") /\ [Next]_vars
      /\ Open(r, status) /\ UNCHANGED <<http, inflight>>
  BY DEF StreamOpen, StreamOpened, Next, PoolAnswers
<1> QED
  BY <1>1, NoneApart, OpenedGInv

LEMMA RejectDrainedGInv ==
    ASSUME GInv, NEW r \in Request, RejectDrained(r)
    PROVE  GInv'
<1>1. /\ Drained(r) /\ Reject(r, upstream[r], "upstream_error") /\ Open(r, None)
      /\ UNCHANGED inflight
  BY DEF RejectDrained
<1>2. request[r].pc = "draining" /\ Leave(r) /\ [Next]_vars
  BY <1>1 DEF Drained, Next, Server
<1>3. Local(r) /\ http[r] \in Http
  BY Same
<1>4. http[r].stage = "handler"
  BY <1>2, <1>3 DEF Local, Early, Relayed, Answered, Http
<1>5. /\ Clean(http[r]) /\ http[r].known /\ upstream[r] \in Status
      /\ Tells(upstream[r], upstream[r])
  BY <1>2, <1>3, <1>4, NoneApart, WhatTheRecordTells DEF Local, Handled
<1>6. "upstream_error" \in Reason
  BY DEF Reason
<1>7. PICK h \in Http : /\ http' = [http EXCEPT ![r] = h]
                        /\ h.stage = "responding" /\ Settled(h)
  BY <1>1, <1>5, <1>6, Refused
<1> QED
  BY <1>1, <1>2, <1>4, <1>7, LeaveAt, Same, RespondStep DEF Open

-----------------------------------------------------------------------------
(***************************************************************************)
(* The stream leaves.                                                      *)
(***************************************************************************)
LEMMA StartResponseGInv ==
    ASSUME GInv, NEW r \in Request, StartResponse(r)
    PROVE  GInv'
<1>0. PICK status \in Status : status = 200
  BY NoneApart
<1> DEFINE h == [http[r] EXCEPT !.stage = "streaming", !.status = status]
<1>1. /\ request[r].pc = "handed_over" /\ Move(r, "relaying") /\ [Next]_vars
      /\ UNCHANGED <<inflight, upstream>>
  BY DEF StartResponse, Pull, Next, Server
<1>2. Local(r) /\ http[r] \in Http /\ request[r].broken \in BOOLEAN
  BY Same DEF RequestState
<1>3. http[r].stage = "handler"
  BY <1>1, <1>2 DEF Local, Early, Relayed, Answered, Http
<1>4. /\ Clean(http[r]) /\ http[r].known /\ upstream[r] \in OkStatus
      /\ request[r].broken = FALSE
  BY <1>1, <1>2, <1>3, NoneApart DEF Local, Handled
<1>5. /\ h \in Http /\ h.stage = "streaming" /\ h.status = status
      /\ h.audit = http[r].audit /\ h.refusals = http[r].refusals
      /\ h.crashed = http[r].crashed /\ h.known = http[r].known
  BY <1>2 DEF Http
<1>6. http' = [http EXCEPT ![r] = h]
  BY <1>0 DEF StartResponse
<1> HIDE DEF h
<1>7. http'[r] = h /\ upstream'[r] = upstream[r]
  BY <1>1, <1>5, <1>6 DEF GInv
<1>8. /\ request'[r].pc = "relaying" /\ request'[r].broken = FALSE
      /\ \A q \in Request \ {r} : request'[q] = request[q]
  BY <1>1, <1>4, MoveAt, Same
<1>9. Streamed(r)'
  BY <1>0, <1>4, <1>5, <1>7, <1>8 DEF Streamed, Clean
<1>10. Local(r)'
  BY <1>5, <1>7, <1>8, <1>9 DEF Local, Early, Handled, Relayed, Answered
<1>11. upstream' = [upstream EXCEPT ![r] = upstream[r]]
  BY <1>1, Same
<1> QED
  BY <1>1, <1>3, <1>5, <1>6, <1>8, <1>10, <1>11, Same, LocalStep

\* What is known of a stream while relay() holds it.
LEMMA InTheRelay ==
    ASSUME GInv, NEW r \in Request,
           request[r].pc \in {"relaying", "sending", "abandoned", "closing"}
    PROVE  /\ http[r] \in Http /\ Streamed(r)
           /\ request[r].pc \in {"relaying", "sending"} => http[r].stage = "streaming"
           /\ http[r].stage \in {"streaming", "responding", "gone"}
           /\ http[r].stage = "gone" => http[r].recorded = http[r].status
           /\ request[r].pc = "relaying" => request[r].broken = FALSE
<1>1. Local(r) /\ http[r] \in Http /\ request[r].broken \in BOOLEAN
  BY Same DEF RequestState
<1>2. http[r].stage \in {"streaming", "responding", "gone"}
  BY <1>1 DEF Local, Early, Handled, Http
<1>3. request[r].pc \in {"relaying", "sending"} => http[r].stage = "streaming"
  BY <1>1, <1>2 DEF Local, Answered
<1>4. Streamed(r)
  BY <1>1, <1>2 DEF Local, Relayed, Answered
<1> QED
  BY <1>1, <1>2, <1>3, <1>4 DEF Local, Streamed

\* A step of relay() that the route does not see.
LEMMA RelayStep ==
    ASSUME GInv, [Next]_vars, NEW r \in Request,
           request[r].pc \in {"relaying", "sending", "abandoned"},
           request'[r].pc \in {"relaying", "sending", "closing"},
           request[r].pc = "abandoned" => request'[r].pc = "closing",
           request'[r].broken = request[r].broken,
           request'[r].pc = "relaying" => request[r].broken = FALSE,
           \A q \in Request \ {r} : request'[q] = request[q],
           UNCHANGED <<http, inflight, upstream>>
    PROVE  GInv'
<1>1. Streamed(r)'
  BY InTheRelay DEF Streamed
<1>2. Local(r)
  BY Same
<1>3. Local(r)'
  BY <1>1, <1>2, InTheRelay DEF Local, Early, Handled, Relayed, Answered
<1> QED
  BY <1>3, Same, LocalStep

LEMMA RelayGInv ==
    ASSUME GInv, NEW r \in Request, Relay(r)
    PROVE  GInv'
<1>0. UNCHANGED <<http, inflight, upstream>>
  BY DEF Relay
<1>1. ASSUME NEW usage \in 0..MaxCost \cup {request[r].usage}, Chunk(r, usage)
      PROVE  GInv'
  <2>1. request[r].pc = "relaying" /\ [Next]_vars
    BY <1>1 DEF Chunk, Next, Upstream
  <2>2. /\ request'[r].pc = "sending" /\ request'[r].broken = request[r].broken
        /\ \A q \in Request \ {r} : request'[q] = request[q]
    BY <1>1, Same DEF Chunk, TypeOK, RequestState
  <2> QED
    BY <1>0, <2>1, <2>2, RelayStep
<1>2. ASSUME Ended(r)
      PROVE  GInv'
  <2>1. request[r].pc = "relaying" /\ Move(r, "closing") /\ [Next]_vars
    BY <1>2 DEF Ended, Next, Upstream
  <2> QED
    BY <1>0, <2>1, Same, MoveAt, RelayStep
<1>3. ASSUME Sent(r)
      PROVE  GInv'
  <2>1. /\ request[r].pc = "sending" /\ [Next]_vars
        /\ Move(r, IF request[r].broken THEN "closing" ELSE "relaying")
    BY <1>3 DEF Sent, Next, Caller
  <2>2. request[r].broken \in BOOLEAN
    BY Same DEF RequestState
  <2>3. CASE request[r].broken = TRUE
    BY <1>0, <2>1, <2>3, Same, MoveAt, RelayStep
  <2>4. CASE request[r].broken = FALSE
    BY <1>0, <2>1, <2>4, Same, MoveAt, RelayStep
  <2> QED
    BY <2>2, <2>3, <2>4
<1>4. ASSUME Finalised(r)
      PROVE  GInv'
  <2>1. request[r].pc = "abandoned" /\ Move(r, "closing") /\ [Next]_vars
    BY <1>4 DEF Finalised, Next, Server
  <2> QED
    BY <1>0, <2>1, Same, MoveAt, RelayStep
<1> QED
  BY <1>1, <1>2, <1>3, <1>4 DEF Relay

\* The broken stream is counted before its last frame is sent.
LEMMA RelayBreaksOffGInv ==
    ASSUME GInv, NEW r \in Request, RelayBreaksOff(r)
    PROVE  GInv'
<1> DEFINE h == Counted(http[r], "upstream_stream_broken")
<1>1. BreaksOff(r) /\ UNCHANGED <<inflight, upstream>> /\ http' = [http EXCEPT ![r] = h]
  BY DEF RelayBreaksOff
<1>2. request[r].pc = "relaying" /\ [Next]_vars
  BY <1>1 DEF BreaksOff, Next, Upstream
<1>3. /\ request'[r].pc = "sending" /\ request'[r].broken = TRUE
      /\ \A q \in Request \ {r} : request'[q] = request[q]
  BY <1>1, Same DEF BreaksOff, TypeOK, RequestState
<1>4. /\ http[r] \in Http /\ http[r].stage = "streaming" /\ Streamed(r)
      /\ http[r].refusals = <<>>
  BY <1>2, InTheRelay DEF Streamed
<1>5. "upstream_stream_broken" \in Reason
  BY DEF Reason
<1>6. h = [http[r] EXCEPT !.refusals = <<"upstream_stream_broken">>] /\ h \in Http
  BY <1>4, <1>5, CountedFirst
<1>7. /\ h.stage = "streaming" /\ h.status = http[r].status /\ h.audit = http[r].audit
      /\ h.refusals = <<"upstream_stream_broken">>
      /\ h.crashed = http[r].crashed /\ h.known = http[r].known
  BY <1>4, <1>6 DEF Http
<1> HIDE DEF h
<1>8. http'[r] = h /\ upstream'[r] = upstream[r]
  BY <1>1, <1>6 DEF GInv
<1>9. Streamed(r)'
  BY <1>3, <1>4, <1>7, <1>8 DEF Streamed
<1>10. Local(r)'
  BY <1>3, <1>7, <1>8, <1>9 DEF Local, Early, Handled, Relayed, Answered
<1>11. upstream' = [upstream EXCEPT ![r] = upstream[r]]
  BY <1>1, Same
<1> QED
  BY <1>1, <1>2, <1>3, <1>4, <1>6, <1>7, <1>10, <1>11, Same, LocalStep

LEMMA RelayDroppedGInv ==
    ASSUME GInv, NEW r \in Request, RelayDropped(r)
    PROVE  GInv'
<1> DEFINE h == [http[r] EXCEPT !.stage = "responding"]
<1>1. /\ request[r].pc = "sending" /\ Move(r, "abandoned") /\ [Next]_vars
      /\ Stage(r, "responding") /\ UNCHANGED <<inflight, upstream>>
  BY DEF RelayDropped, Dropped, Next, Caller
<1>2. /\ request'[r].pc = "abandoned" /\ request'[r].broken = request[r].broken
      /\ \A q \in Request \ {r} : request'[q] = request[q]
  BY <1>1, MoveAt, Same
<1>3. http[r] \in Http /\ http[r].stage = "streaming" /\ Streamed(r)
  BY <1>1, InTheRelay
<1>4. /\ h \in Http /\ h.stage = "responding" /\ h.status = http[r].status
      /\ h.audit = http[r].audit /\ h.refusals = http[r].refusals
      /\ h.crashed = http[r].crashed /\ h.known = http[r].known
  BY <1>3 DEF Http
<1>5. http' = [http EXCEPT ![r] = h]
  BY <1>1 DEF Stage
<1> HIDE DEF h
<1>6. http'[r] = h /\ upstream'[r] = upstream[r]
  BY <1>1, <1>4, <1>5 DEF GInv
<1>7. Streamed(r)'
  BY <1>2, <1>3, <1>4, <1>6 DEF Streamed
<1>8. Local(r)'
  BY <1>2, <1>4, <1>6, <1>7 DEF Local, Early, Handled, Relayed, Answered
<1>9. upstream' = [upstream EXCEPT ![r] = upstream[r]]
  BY <1>1, Same
<1> QED
  BY <1>1, <1>2, <1>3, <1>4, <1>5, <1>8, <1>9, Same, LocalStep

\* relay()'s finally writes the one record of a stream.
LEMMA RelayClosesGInv ==
    ASSUME GInv, NEW r \in Request, RelayCloses(r)
    PROVE  GInv'
<1> DEFINE reason == BrokenReason(r)
           a == Audited(http[r], upstream[r], reason)
           h == Finished(a)
<1>1. /\ Closed(r) /\ http' = [http EXCEPT ![r] = h]
      /\ Open(r, None) /\ UNCHANGED inflight
  BY DEF RelayCloses
<1>2. request[r].pc = "closing" /\ Leave(r) /\ [Next]_vars
  BY <1>1 DEF Closed, Next, Server
<1>3. /\ request'[r].pc = "done" /\ request'[r].broken = FALSE
      /\ \A q \in Request \ {r} : request'[q] = request[q]
  BY <1>2, LeaveAt, Same
<1>4. /\ http[r] \in Http /\ http[r].stage \in {"streaming", "responding", "gone"}
      /\ http[r].stage = "gone" => http[r].recorded = http[r].status
      /\ Streamed(r)
  BY <1>2, InTheRelay
<1>5. /\ upstream[r] \in Status /\ Tells(upstream[r], http[r].status)
      /\ http[r].audit = <<>> /\ http[r].known /\ ~http[r].crashed
  BY <1>4, NoneApart, WhatTheRecordTells DEF Streamed
<1>6. /\ reason \in Reason \cup {None}
      /\ \/ reason # None /\ http[r].refusals = <<reason>>
         \/ reason = None /\ http[r].refusals = <<>>
  <2>1. "upstream_stream_broken" \in Reason
    BY DEF Reason
  <2> QED
    BY <1>4, <2>1, NoneApart DEF BrokenReason, Streamed
<1> HIDE DEF reason
<1>7. /\ a \in Http
      /\ a = [http[r] EXCEPT !.audit = <<[status |-> upstream[r], reason |-> reason]>>]
  BY <1>4, <1>5, <1>6, AuditedFirst
<1>8. /\ a.stage = http[r].stage /\ a.status = http[r].status
      /\ a.audit = <<[status |-> upstream[r], reason |-> reason]>>
      /\ a.refusals = http[r].refusals /\ a.known = http[r].known
      /\ a.crashed = http[r].crashed /\ a.recorded = http[r].recorded
  BY <1>4, <1>7 DEF Http
<1> HIDE DEF a
<1>9. /\ h \in Http
      /\ h.stage = IF a.stage = "streaming" THEN "responding" ELSE a.stage
      /\ h.status = a.status /\ h.audit = a.audit /\ h.refusals = a.refusals
      /\ h.known = a.known /\ h.crashed = a.crashed /\ h.recorded = a.recorded
  BY <1>7 DEF Finished, Http
<1> HIDE DEF h
<1>10. Settled(h)
  BY <1>5, <1>6, <1>8, <1>9 DEF Settled
<1>11. http'[r] = h /\ upstream'[r] = None
  BY <1>1, <1>9 DEF Open, GInv
<1>12. Answered(r)'
  BY <1>3, <1>10, <1>11 DEF Answered
<1>13. h.stage \in {"responding", "gone"} /\ (h.stage = "gone" <=> http[r].stage = "gone")
  BY <1>4, <1>8, <1>9
<1>14. Local(r)'
  BY <1>3, <1>4, <1>8, <1>9, <1>11, <1>12, <1>13 DEF Local, Early, Handled, Relayed
<1> QED
  BY <1>1, <1>2, <1>3, <1>4, <1>9, <1>13, <1>14, LocalStep DEF Open

\* A generator whose finally raises leaves no record, and a 500 if it was still awaited.
LEMMA UsageRaisesGInv ==
    ASSUME GInv, NEW r \in Request, UsageRaises(r)
    PROVE  GInv'
<1> DEFINE g == IF http[r].stage = "streaming" THEN Responding(http[r], 500) ELSE http[r]
           h == [g EXCEPT !.crashed = TRUE]
<1>1. /\ Closed(r) /\ http' = [http EXCEPT ![r] = h]
      /\ Open(r, None) /\ UNCHANGED inflight
  BY DEF UsageRaises
<1>2. request[r].pc = "closing" /\ Leave(r) /\ [Next]_vars
  BY <1>1 DEF Closed, Next, Server
<1>3. /\ request'[r].pc = "done" /\ request'[r].broken = FALSE
      /\ \A q \in Request \ {r} : request'[q] = request[q]
  BY <1>2, LeaveAt, Same
<1>4. /\ http[r] \in Http /\ http[r].stage \in {"streaming", "responding", "gone"}
      /\ http[r].stage = "gone" => http[r].recorded = http[r].status
      /\ http[r].audit = <<>>
  BY <1>2, InTheRelay DEF Streamed
<1>5. /\ g \in Http /\ g.audit = <<>> /\ g.stage \in {"responding", "gone"}
      /\ g.stage = "gone" <=> http[r].stage = "gone"
      /\ g.stage = "gone" => g.recorded = g.status
  <2>1. CASE http[r].stage = "streaming"
    <3>1. g = Responding(http[r], 500) /\ 500 \in Status
      BY <2>1 DEF Status
    <3>2. g \in Http
      BY <1>4, <3>1, RespondingTyped
    <3>3. g.stage = "responding" /\ g.audit = http[r].audit
      BY <1>4, <3>1 DEF Responding, Http
    <3> QED
      BY <1>4, <2>1, <3>2, <3>3
  <2>2. CASE http[r].stage # "streaming"
    BY <1>4, <2>2
  <2> QED
    BY <2>1, <2>2
<1> HIDE DEF g
<1>6. /\ h \in Http /\ h.crashed = TRUE /\ h.audit = <<>> /\ h.stage = g.stage
      /\ h.status = g.status /\ h.recorded = g.recorded
  BY <1>5 DEF Http
<1> HIDE DEF h
<1>7. Settled(h)
  BY <1>6 DEF Settled
<1>8. http'[r] = h /\ upstream'[r] = None
  BY <1>1, <1>6 DEF Open, GInv
<1>9. Answered(r)'
  BY <1>3, <1>7, <1>8 DEF Answered
<1>10. Local(r)'
  BY <1>3, <1>5, <1>6, <1>8, <1>9 DEF Local, Early, Handled, Relayed
<1> QED
  BY <1>1, <1>2, <1>3, <1>4, <1>5, <1>6, <1>10, LocalStep DEF Open

-----------------------------------------------------------------------------
LEMMA InitGInv == GatewayInit => GInv
<1> SUFFICES ASSUME GatewayInit
             PROVE  GInv
  OBVIOUS
<1>1. IInv /\ inflight = 0 /\ http = [r \in Request |-> NotArrived]
      /\ upstream = [r \in Request |-> None] /\ request = [r \in Request |-> NewRequest]
  BY InitIInv DEF GatewayInit, Init
<1>2. NotArrived \in Http
  BY DEF NotArrived, Http
<1>3. NotArrived.stage = "out" /\ NotArrived.audit = <<>> /\ NotArrived.refusals = <<>>
      /\ NotArrived.crashed = FALSE /\ NotArrived.known = FALSE
  BY DEF NotArrived
<1>4. NewRequest.pc = "new" /\ NewRequest.broken = FALSE
  BY DEF NewRequest
<1> HIDE DEF NotArrived, NewRequest
<1>5. Inside = {}
  BY <1>1, <1>3 DEF Inside
<1>6. ASSUME NEW r \in Request
      PROVE  Local(r)
  BY <1>1, <1>3, <1>4, <1>6 DEF Local, Early, Handled, Relayed, Answered, Clean
<1> QED
  BY <1>1, <1>2, <1>5, <1>6, FS_EmptySet DEF GInv

LEMMA NextGInv == GInv /\ [GatewayNext]_gatewayVars => GInv'
<1> SUFFICES ASSUME GInv, [GatewayNext]_gatewayVars
             PROVE  GInv'
  OBVIOUS
<1>1. ASSUME UNCHANGED gatewayVars
      PROVE  GInv'
  <2>1. UNCHANGED vars /\ http' = http /\ upstream' = upstream /\ inflight' = inflight
        /\ request' = request
    BY <1>1 DEF gatewayVars, vars
  <2>2. IInv'
    BY <2>1, NextIInv DEF GInv
  <2>3. \A r \in Request : Local(r)'
    BY <2>1, OthersStay
  <2>4. Inside' = Inside
    BY <2>1 DEF Inside
  <2> QED
    BY <2>1, <2>2, <2>3, <2>4 DEF GInv
<1>2. ASSUME NEW r \in Request, Intake(r)
      PROVE  GInv'
  BY <1>2, EnterGInv, UnauthorizedGInv, UnhandledGInv, OverLimitGInv, AuthenticateGInv,
     FlawedGInv, ForwardGInv DEF Intake
<1>3. ASSUME NEW r \in Request, PoolReturns(r)
      PROVE  GInv'
  BY <1>3, NoReplicaGInv, WholeGInv, WholeErrorGInv, StreamErrorGInv, NotJsonGInv,
     NotAnObjectGInv, StreamOpenGInv DEF PoolReturns
<1>4. ASSUME NEW r \in Request, Leaves(r)
      PROVE  GInv'
  BY <1>4, RejectDrainedGInv, StartResponseGInv, RelayGInv, RelayBreaksOffGInv,
     RelayDroppedGInv, RelayClosesGInv, UsageRaisesGInv, ExitGInv DEF Leaves
<1> QED
  BY <1>1, <1>2, <1>3, <1>4 DEF GatewayNext

LEMMA SpecGInv == GatewaySpec => []GInv
<1> QED
  BY InitGInv, NextGInv, PTL DEF GatewaySpec

-----------------------------------------------------------------------------
\* The requests of the whole gateway are those of ChatCompletions: every step of
\* chat.py's handler in its surroundings is one of its steps, or none, so the caps,
\* the slots and the overshoot of quota.py hold of it too.
THEOREM GatewayImplementsChat == GatewaySpec => Spec
<1>1. GatewayInit => Init
  BY DEF GatewayInit
<1>2. GInv /\ [GatewayNext]_gatewayVars => [Next]_vars
  <2> SUFFICES ASSUME GInv, [GatewayNext]_gatewayVars
               PROVE  [Next]_vars
    OBVIOUS
  <2>1. CASE UNCHANGED gatewayVars
    BY <2>1 DEF gatewayVars
  <2>2. ASSUME NEW r \in Request, Intake(r)
        PROVE  [Next]_vars
    <3>1. http[r].key \in Key \cup {None}
      BY Same DEF Http
    <3> QED
      BY <2>2, <3>1 DEF Intake, Enter, Unauthorized, Unhandled, OverLimit, Authenticate,
                        Flawed, Forward, Next, Arrive
  <2>3. ASSUME NEW r \in Request, PoolReturns(r)
        PROVE  [Next]_vars
    BY <2>3 DEF PoolReturns, NoReplica, Whole, WholeError, StreamError, NotJson,
                NotAnObject, StreamOpen, Usage, Next, PoolAnswers
  <2>4. ASSUME NEW r \in Request, Leaves(r)
        PROVE  [Next]_vars
    BY <2>4 DEF Leaves, RejectDrained, StartResponse, Relay, RelayBreaksOff, RelayDropped,
                RelayCloses, UsageRaises, Exit, Next, Upstream, Caller, Server
  <2> QED
    BY <2>1, <2>2, <2>3, <2>4 DEF GatewayNext
<1> QED
  BY <1>1, <1>2, SpecGInv, PTL DEF GatewaySpec, Spec

\* What the invariant says of a request that is over.
LEMMA OverIsSettled ==
    ASSUME GInv, NEW r \in Request, Over(r)
    PROVE  Settled(http[r]) /\ http[r].recorded = http[r].status
<1>1. http[r].stage = "gone" /\ request[r].pc \notin {"abandoned", "closing"}
  BY DEF Over, Live, Streaming
<1> QED
  BY <1>1, Same DEF Local, Answered

\* Every caller the gateway knew leaves exactly one audit record, on whichever of the
\* exits of chat.py its request took, for any number of requests.
THEOREM AlwaysAuditedOnce == GatewaySpec => []AuditedOnce
<1>1. GInv => AuditedOnce
  <2> SUFFICES ASSUME GInv, NEW r \in Request
               PROVE  /\ Len(http[r].audit) <= 1
                      /\ Over(r) => Len(http[r].audit)
                                        = IF http[r].known /\ ~http[r].crashed THEN 1 ELSE 0
    BY DEF AuditedOnce
  <2>1. ASSUME NEW record \in [status : Status \cup {None}, reason : Reason \cup {None}]
        PROVE  Len(<<record>>) = 1
    OBVIOUS
  <2>2. ASSUME Settled(http[r])
        PROVE  Len(http[r].audit) = IF http[r].known /\ ~http[r].crashed THEN 1 ELSE 0
    <3>1. http[r].status \in Status \cup {None}
      BY Same DEF Http
    <3>2. Len(<<>>) = 0
      OBVIOUS
    <3> QED
      BY <2>1, <2>2, <3>1, <3>2 DEF Settled
  <2>3. http[r].audit = <<>> \/ Settled(http[r])
    BY Same DEF Local, Early, Handled, Relayed, Answered, Streamed, Clean, Http
  <2> QED
    BY <2>2, <2>3, OverIsSettled
<1> QED
  BY <1>1, SpecGInv, PTL

\* The audit log, requests_total and rejections_total tell one story of a request.
THEOREM LedgersAlwaysAgree == GatewaySpec => []LedgersAgree
<1>1. GInv => LedgersAgree
  <2> SUFFICES ASSUME GInv, NEW r \in Request, Over(r), http[r].audit # <<>>
               PROVE  LET record == http[r].audit[1]
                      IN  /\ Tells(record.status, http[r].recorded)
                          /\ \/ record.reason # None /\ http[r].refusals = <<record.reason>>
                             \/ /\ record.reason \in {None, "upstream_error"}
                                /\ http[r].refusals = <<>>
    BY DEF LedgersAgree
  <2>1. PICK status \in Status, reason \in Reason \cup {None} :
            /\ http[r].audit = <<[status |-> status, reason |-> reason]>>
            /\ Tells(status, http[r].status)
            /\ \/ reason # None /\ http[r].refusals = <<reason>>
               \/ reason \in {None, "upstream_error"} /\ http[r].refusals = <<>>
    BY OverIsSettled DEF Settled
  <2>2. http[r].audit[1] = [status |-> status, reason |-> reason]
    BY <2>1
  <2> QED
    BY <2>1, <2>2, OverIsSettled
<1> QED
  BY <1>1, SpecGInv, PTL

\* What a request holds is given back on every exit: the gauge inflight_requests is
\* the number of requests inside, and no upstream response is left open.
THEOREM NothingEverLeaks == GatewaySpec => []NothingLeaks
<1>1. GInv => NothingLeaks
  <2> SUFFICES ASSUME GInv
               PROVE  NothingLeaks
    OBVIOUS
  <2>1. ASSUME NEW r \in Request
        PROVE  /\ upstream[r] # None <=> request[r].pc \in Streaming
               /\ http[r].stage \in {"handler", "streaming"} => request[r].pc \in Live
    <3>1. /\ Local(r)
          /\ http[r].stage \in {"out", "auth", "body", "handler", "streaming",
                                "responding", "gone"}
      BY Same DEF Http
    <3>2. None \notin OkStatus /\ None \notin ErrorStatus
      BY NoneApart
    <3> QED
      BY <3>1, <3>2 DEF Local, Early, Handled, Relayed, Answered, Streamed,
                        Live, Waiting, Streaming
  <2> QED
    BY <2>1 DEF GInv, NothingLeaks, Inside
<1> QED
  BY <1>1, SpecGInv, PTL

\* What the gateway keeps of a request, of the gauge and of a connection stays within its
\* type, on every exit of chat.py.
THEOREM GatewayTypeCorrect == GatewaySpec => []GatewayTypeOK
<1>1. GInv => GatewayTypeOK
  <2> SUFFICES ASSUME GInv
               PROVE  GatewayTypeOK
    OBVIOUS
  <2>1. inflight \in Int
    BY InsideFinite DEF GInv
  <2> QED
    BY <2>1 DEF GInv, IInv, GatewayTypeOK
<1> QED
  BY <1>1, SpecGInv, PTL

\* In the whole gateway, with validation, authentication, crashes of a handler and the
\* middleware around it, the quota still holds: slots match requests, the cap is kept,
\* the overshoot bounded, and everything a request reported is charged.
THEOREM QuotaHoldsInTheGateway ==
    GatewaySpec => [](SlotsMatchHolders /\ CapRespected /\ OvershootBounded /\ EverythingCharged)
<1> QED
  BY GatewayImplementsChat, SlotsAlwaysMatch, CapAlwaysRespected, OvershootAlwaysBounded,
     EverythingIsCharged, PTL
=============================================================================
