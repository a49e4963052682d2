------------------------ MODULE AuthenticationProofs ------------------------
(***************************************************************************)
(* Proofs about the authentication dependency: for any number of callers   *)
(* and threads the limiter is bounded and busy, an expired key lets in at  *)
(* most as many as were being verified, and a revocation holds from the    *)
(* next start.                                                             *)
(***************************************************************************)
EXTENDS Authentication, FiniteSetTheorems, TLAPS

\* The queue is the callers that wait, each of them once.
QueueInv ==
    /\ \A i \in 1..Len(waiting) : call[waiting[i]].pc = "waiting"
    /\ \A i, j \in 1..Len(waiting) : waiting[i] = waiting[j] => i = j
    /\ \A c \in Caller : call[c].pc = "waiting" => \E i \in 1..Len(waiting) : waiting[i] = c

\* A token for each caller in a thread, and none left while somebody waits.
TokenInv ==
    /\ Cardinality(borrowed) <= Limit
    /\ waiting # <<>> => Cardinality(borrowed) = Limit
    /\ \A c \in Caller : c \in borrowed <=> call[c].pc \in Borrowing

Accepting == {c \in Caller : call[c].pc = "accepting"}

\* Nobody is let in late before the expiry, and after it only those who had been
\* accepted when it came.
ExpiryInv == /\ ~expired => overdue = 0
             /\ expired => overdue + Cardinality(Accepting) <= Limit

\* Once a process has started with the key revoked, nothing it has read says otherwise.
StoreInv ==
    barred => /\ file = "revoked key"
              /\ store # "live key"
              /\ \A c \in Caller : call[c].read # "live key" /\ call[c].pc # "accepting"

IInv == TypeOK /\ QueueInv /\ TokenInv /\ ExpiryInv /\ StoreInv

-----------------------------------------------------------------------------
(***************************************************************************)
(* Counting and types.                                                     *)
(***************************************************************************)
LEMMA Counted ==
    ASSUME TypeOK
    PROVE  /\ IsFiniteSet(borrowed) /\ Cardinality(borrowed) \in Nat
           /\ IsFiniteSet(Accepting) /\ Cardinality(Accepting) \in Nat
           /\ Limit \in Nat \ {0}
<1>1. borrowed \in SUBSET Caller /\ Accepting \in SUBSET Caller
  BY DEF TypeOK, Accepting
<1> QED
  BY <1>1, AuthAssumption, FS_Subset, FS_CardinalityType

\* Those let in late, and those about to be, hold tokens.
LEMMA AcceptingBorrow ==
    ASSUME TypeOK, TokenInv
    PROVE  Cardinality(Accepting) <= Limit
<1>1. Accepting \in SUBSET borrowed
  BY DEF Accepting, TokenInv, Borrowing
<1>2. Cardinality(Accepting) <= Cardinality(borrowed)
  BY <1>1, Counted, FS_Subset
<1> QED
  BY <1>2, Counted DEF TokenInv

LEMMA IdleIsACall == Idle \in Call /\ Idle.pc = "idle" /\ Idle.read = None
  BY DEF Idle, Call

\* A step of one caller that neither enters nor leaves the limiter, nor is accepted
\* after the expiry, leaves its invariants as they are.
LEMMA AsideKeepsInv ==
    ASSUME IInv, NEW c \in Caller, NEW q \in Call,
           call' = [call EXCEPT ![c] = q],
           UNCHANGED <<limiterVars, expired, overdue>>,
           q.pc = "waiting" <=> call[c].pc = "waiting",
           q.pc \in Borrowing <=> call[c].pc \in Borrowing,
           q.pc = "accepting" => call[c].pc = "accepting" \/ ~expired
    PROVE  /\ call' \in [Caller -> Call]
           /\ \A d \in Caller : call'[d] = IF d = c THEN q ELSE call[d]
           /\ QueueInv' /\ TokenInv' /\ ExpiryInv'
<1> USE DEF limiterVars
<1>1. /\ call' \in [Caller -> Call]
      /\ \A d \in Caller : call'[d] = IF d = c THEN q ELSE call[d]
  BY DEF IInv, TypeOK
<1>2. waiting \in Seq(Caller)
  BY DEF IInv, TypeOK
<1>3. \A i \in 1..Len(waiting) : waiting[i] \in Caller
  BY <1>2
<1>4. QueueInv'
  BY <1>1, <1>3 DEF IInv, QueueInv
<1>5. TokenInv'
  BY <1>1 DEF IInv, TokenInv
<1>6. ExpiryInv'
  <2>1. CASE ~expired
    BY <2>1 DEF IInv, ExpiryInv
  <2>2. CASE expired
    <3>1. Accepting' \in SUBSET Accepting
      BY <1>1, <2>2 DEF Accepting
    <3>2. Cardinality(Accepting') <= Cardinality(Accepting) /\ Cardinality(Accepting') \in Nat
      BY <3>1, Counted, FS_Subset, FS_CardinalityType DEF IInv
    <3> QED
      BY <2>2, <3>2, Counted DEF IInv, ExpiryInv, TypeOK
  <2> QED
    BY <2>1, <2>2 DEF IInv, TypeOK
<1> QED
  BY <1>1, <1>4, <1>5, <1>6

-----------------------------------------------------------------------------
LEMMA InitInv == Init => IInv
<1> SUFFICES ASSUME Init PROVE IInv
  OBVIOUS
<1>1. call \in [Caller -> Call] /\ \A c \in Caller : call[c].pc = "idle"
  BY IdleIsACall DEF Init
<1>2. waiting = <<>> /\ borrowed = {} /\ overdue = 0 /\ ~expired /\ ~barred
  BY Zenon DEF Init
<1>3. waiting \in Seq(Caller) /\ Len(waiting) = 0
  BY <1>2
<1>4. /\ file \in Content /\ store \in Content \cup {None}
      /\ {writing, expired, barred} \subseteq BOOLEAN
  BY Zenon DEF Init, Content
<1>5. TypeOK
  BY <1>1, <1>2, <1>3, <1>4 DEF TypeOK
<1>6. QueueInv
  BY <1>1, <1>3 DEF QueueInv
<1>7. TokenInv
  BY <1>1, <1>2, FS_EmptySet, AuthAssumption DEF TokenInv, Borrowing
<1> QED
  BY <1>2, <1>5, <1>6, <1>7 DEF IInv, ExpiryInv, StoreInv

\* Arrival, get_key_store and what is decided on the loop.
LEMMA OnLoopKeepsInv ==
    ASSUME IInv, NEW c \in Caller,
           \/ \E credential \in Credential : Arrive(c, credential)
           \/ GetKeyStore(c)
           \/ DecideOnTheLoop(c)
    PROVE  IInv'
<1>1. /\ call[c] \in Call
      /\ TypeOK
  BY DEF IInv, TypeOK
<1>2. ASSUME NEW credential \in Credential, Arrive(c, credential)
      PROVE  IInv'
  <2> DEFINE q == [call[c] EXCEPT !.pc = "dependency", !.credential = credential]
  <2>1. q \in Call /\ q.pc = "dependency" /\ q.read = call[c].read
    BY <1>1, AuthAssumption DEF Call
  <2>2. call' = [call EXCEPT ![c] = q]
    BY <1>2 DEF Arrive
  <2>3. /\ call' \in [Caller -> Call]
        /\ \A d \in Caller : call'[d] = IF d = c THEN q ELSE call[d]
        /\ QueueInv' /\ TokenInv' /\ ExpiryInv'
    BY <1>2, <2>1, <2>2, AsideKeepsInv DEF Arrive, Borrowing, historyVars
  <2>4. TypeOK'
    BY <1>1, <1>2, <2>3 DEF TypeOK, Arrive, operatorVars, limiterVars, historyVars
  <2>5. StoreInv'
    BY <1>2, <2>1, <2>3 DEF IInv, StoreInv, Arrive, operatorVars, historyVars
  <2> QED
    BY <2>3, <2>4, <2>5 DEF IInv
<1>3. CASE ReadFile(c)
  <2> DEFINE content == IF writing THEN "no key" ELSE file
             q == [call[c] EXCEPT !.pc = "building", !.read = content]
  <2>1. content \in Content
    BY <1>1 DEF TypeOK, Content
  <2>2. q \in Call /\ q.pc = "building" /\ q.read = content
    BY <1>1, <2>1 DEF Call
  <2>3. call' = [call EXCEPT ![c] = q]
    BY <1>3 DEF ReadFile
  <2>4. /\ call' \in [Caller -> Call]
        /\ \A d \in Caller : call'[d] = IF d = c THEN q ELSE call[d]
        /\ QueueInv' /\ TokenInv' /\ ExpiryInv'
    BY <1>3, <2>2, <2>3, AsideKeepsInv DEF ReadFile, Borrowing, historyVars
  <2>5. TypeOK'
    BY <1>1, <1>3, <2>4 DEF TypeOK, ReadFile, operatorVars, limiterVars, historyVars
  <2>6. barred => content # "live key"
    BY DEF IInv, StoreInv
  <2>7. StoreInv'
    BY <1>3, <2>2, <2>4, <2>6 DEF IInv, StoreInv, ReadFile, operatorVars, historyVars
  <2> QED
    BY <2>4, <2>5, <2>7 DEF IInv
<1>4. CASE ReadFails(c) \/ DecideOnTheLoop(c)
  <2>1. call' = [call EXCEPT ![c] = Idle] /\ call[c].pc \in {"dependency", "presenting"}
    BY <1>4 DEF ReadFails, DecideOnTheLoop, Answer
  <2>2. UNCHANGED <<operatorVars, store, expired, limiterVars, historyVars>>
    BY <1>4 DEF ReadFails, DecideOnTheLoop
  <2>3. /\ call' \in [Caller -> Call]
        /\ \A d \in Caller : call'[d] = IF d = c THEN Idle ELSE call[d]
        /\ QueueInv' /\ TokenInv' /\ ExpiryInv'
    BY <2>1, <2>2, IdleIsACall, AsideKeepsInv DEF Borrowing, historyVars
  <2>4. TypeOK'
    BY <1>1, <2>2, <2>3 DEF TypeOK, operatorVars, limiterVars, historyVars
  <2>5. StoreInv'
    BY <2>2, <2>3, IdleIsACall, NoneAssumption DEF IInv, StoreInv, operatorVars, historyVars
  <2> QED
    BY <2>3, <2>4, <2>5 DEF IInv
<1>5. CASE InstallStore(c)
  <2> DEFINE q == [call[c] EXCEPT !.pc = "dependency", !.read = None]
  <2>1. q \in Call /\ q.pc = "dependency" /\ q.read = None
    BY <1>1 DEF Call
  <2>2. call' = [call EXCEPT ![c] = q]
    BY <1>5 DEF InstallStore
  <2>3. /\ call' \in [Caller -> Call]
        /\ \A d \in Caller : call'[d] = IF d = c THEN q ELSE call[d]
        /\ QueueInv' /\ TokenInv' /\ ExpiryInv'
    BY <1>5, <2>1, <2>2, AsideKeepsInv DEF InstallStore, Borrowing, historyVars
  <2>4. store' \in Content \cup {None}
    BY <1>1, <1>5 DEF InstallStore, Call
  <2>5. TypeOK'
    BY <1>1, <1>5, <2>3, <2>4 DEF TypeOK, InstallStore, operatorVars, limiterVars, historyVars
  <2>6. StoreInv'
    BY <1>5, <2>1, <2>3, NoneAssumption
       DEF IInv, StoreInv, InstallStore, operatorVars, historyVars
  <2> QED
    BY <2>3, <2>5, <2>6 DEF IInv
<1>6. CASE TakeStore(c)
  <2> DEFINE q == [call[c] EXCEPT !.pc = "presenting", !.read = store]
  <2>1. q \in Call /\ q.pc = "presenting" /\ q.read = store
    BY <1>1 DEF Call, TypeOK
  <2>2. call' = [call EXCEPT ![c] = q]
    BY <1>6 DEF TakeStore
  <2>3. /\ call' \in [Caller -> Call]
        /\ \A d \in Caller : call'[d] = IF d = c THEN q ELSE call[d]
        /\ QueueInv' /\ TokenInv' /\ ExpiryInv'
    BY <1>6, <2>1, <2>2, AsideKeepsInv DEF TakeStore, Borrowing, historyVars
  <2>4. TypeOK'
    BY <1>1, <1>6, <2>3 DEF TypeOK, TakeStore, operatorVars, limiterVars, historyVars
  <2>5. StoreInv'
    BY <1>6, <2>1, <2>3 DEF IInv, StoreInv, TakeStore, operatorVars, historyVars
  <2> QED
    BY <2>3, <2>4, <2>5 DEF IInv
<1> QED
  BY <1>2, <1>3, <1>4, <1>5, <1>6 DEF GetKeyStore

\* A credential that is not a JWT takes a free token, or a place at the end.
LEMMA DispatchKeepsInv ==
    ASSUME IInv, NEW c \in Caller, Dispatch(c)
    PROVE  IInv'
<1>1. /\ TypeOK /\ QueueInv /\ TokenInv
      /\ waiting \in Seq(Caller)
      /\ call[c] \in Call
      /\ call[c].pc = "presenting"
  BY DEF IInv, TypeOK, Dispatch
<1>2. PICK pc \in {"looking", "waiting"} : call' = [call EXCEPT ![c].pc = pc]
  BY DEF Dispatch, Move
<1> DEFINE q == [call[c] EXCEPT !.pc = pc]
<1>3. /\ call' \in [Caller -> Call]
      /\ \A d \in Caller : call'[d] = IF d = c THEN q ELSE call[d]
      /\ q.pc = pc /\ q.read = call[c].read
  <2>1. q \in Call /\ q.pc = pc /\ q.read = call[c].read
    BY <1>1 DEF Call, Borrowing
  <2> QED
    BY <1>1, <1>2, <2>1 DEF TypeOK
<1>4. UNCHANGED <<file, writing, store, expired, barred, overdue>>
  BY DEF Dispatch, operatorVars, historyVars
<1>5. \A i \in 1..Len(waiting) : waiting[i] \in Caller /\ waiting[i] # c
  BY <1>1 DEF QueueInv
<1>6. c \notin borrowed
  BY <1>1 DEF TokenInv, Borrowing
<1>7. StoreInv'
  BY <1>1, <1>3, <1>4 DEF IInv, StoreInv
<1>8. ExpiryInv'
  <2>1. Accepting' = Accepting
    BY <1>1, <1>3 DEF Accepting
  <2> QED
    BY <1>4, <2>1 DEF IInv, ExpiryInv
<1>9. CASE waiting = <<>> /\ Cardinality(borrowed) < Limit
  <2>1. /\ waiting' = waiting
        /\ borrowed' = borrowed \cup {c}
        /\ call' = [call EXCEPT ![c].pc = "looking"]
    BY <1>9 DEF Dispatch, Move
  <2>2. call'[c].pc = "looking" /\ \A d \in Caller \ {c} : call'[d] = call[d]
    BY <1>1, <1>3, <2>1 DEF Call
  <2>3. Cardinality(borrowed') <= Limit
    <3>1. Cardinality(borrowed \cup {c}) = Cardinality(borrowed) + 1
      BY <1>1, <1>6, Counted, FS_AddElement
    <3> QED
      BY <1>1, <1>9, <2>1, <3>1, Counted
  <2>4. TypeOK'
    BY <1>1, <1>3, <1>4, <2>1 DEF TypeOK
  <2>5. QueueInv'
    BY <1>9, <2>1, <2>2 DEF QueueInv, IInv
  <2>6. TokenInv'
    BY <1>9, <2>1, <2>2, <2>3 DEF TokenInv, IInv, Borrowing
  <2> QED
    BY <1>7, <1>8, <2>4, <2>5, <2>6 DEF IInv
<1>10. CASE ~(waiting = <<>> /\ Cardinality(borrowed) < Limit)
  <2>1. /\ waiting' = Append(waiting, c)
        /\ borrowed' = borrowed
        /\ call' = [call EXCEPT ![c].pc = "waiting"]
    BY <1>10 DEF Dispatch, Move
  <2>2. call'[c].pc = "waiting" /\ \A d \in Caller \ {c} : call'[d] = call[d]
    BY <1>1, <1>3, <2>1 DEF Call
  <2>3. /\ waiting' \in Seq(Caller)
        /\ Len(waiting') = Len(waiting) + 1
        /\ Len(waiting) \in Nat
        /\ waiting'[Len(waiting) + 1] = c
        /\ \A i \in 1..Len(waiting) : waiting'[i] = waiting[i]
    BY <1>1, <2>1
  <2>4. TypeOK'
    BY <1>1, <1>3, <1>4, <2>1, <2>3 DEF TypeOK
  <2>5. QueueInv'
    <3>1. \A i \in 1..Len(waiting') : i \in 1..Len(waiting) \/ i = Len(waiting) + 1
      BY <2>3
    <3>2. \A i \in 1..Len(waiting') : call'[waiting'[i]].pc = "waiting"
      BY <1>1, <1>5, <2>2, <2>3, <3>1 DEF QueueInv
    <3>3. \A i, j \in 1..Len(waiting') : waiting'[i] = waiting'[j] => i = j
      BY <1>1, <1>5, <2>3, <3>1 DEF QueueInv
    <3>4. \A d \in Caller : call'[d].pc = "waiting"
                               => \E i \in 1..Len(waiting') : waiting'[i] = d
      <4>1. SUFFICES ASSUME NEW d \in Caller, call'[d].pc = "waiting"
                     PROVE  \E i \in 1..Len(waiting') : waiting'[i] = d
        OBVIOUS
      <4>2. CASE d = c
        BY <2>3, <4>2
      <4>3. CASE d # c
        <5>1. PICK i \in 1..Len(waiting) : waiting[i] = d
          BY <1>1, <2>2, <4>1, <4>3 DEF QueueInv
        <5> QED
          BY <2>3, <5>1
      <4> QED
        BY <4>2, <4>3
    <3> QED
      BY <3>2, <3>3, <3>4 DEF QueueInv
  <2>6. Cardinality(borrowed) = Limit
    BY <1>1, <1>10, Counted DEF TokenInv
  <2>7. TokenInv'
    BY <1>1, <2>1, <2>2, <2>6 DEF TokenInv, Borrowing
  <2> QED
    BY <1>7, <1>8, <2>4, <2>5, <2>7 DEF IInv
<1> QED
  BY <1>9, <1>10

\* The look at the record decides before the hash, and holds the token through it.
LEMMA LookKeepsInv ==
    ASSUME IInv, NEW c \in Caller, Look(c)
    PROVE  IInv'
<1> DEFINE pc == IF Verifies(c) THEN "accepting" ELSE "refusing"
           q == [Idle EXCEPT !.pc = pc]
<1>1. q \in Call /\ q.pc = pc /\ q.read = None
  BY IdleIsACall DEF Call, Borrowing
<1>2. /\ call' = [call EXCEPT ![c] = q]
      /\ call[c].pc = "looking"
      /\ UNCHANGED <<file, writing, store, expired, waiting, borrowed, barred, overdue>>
  BY DEF Look, operatorVars, limiterVars, historyVars
<1>3. pc = "accepting" => ~expired /\ call[c].read = "live key"
  BY DEF Verifies
<1> HIDE DEF q
<1>4. /\ call' \in [Caller -> Call]
      /\ \A d \in Caller : call'[d] = IF d = c THEN q ELSE call[d]
      /\ QueueInv' /\ TokenInv' /\ ExpiryInv'
  <2>1. q.pc \in {"accepting", "refusing"}
    BY <1>1
  <2> HIDE DEF pc
  <2> QED
    BY <1>1, <1>2, <1>3, <2>1, AsideKeepsInv DEF limiterVars, Borrowing
<1>5. TypeOK'
  BY <1>2, <1>4 DEF IInv, TypeOK
<1>6. StoreInv'
  <2>1. barred => q.pc # "accepting"
    BY <1>1, <1>3 DEF IInv, StoreInv
  <2> QED
    BY <1>1, <1>2, <1>4, <2>1, NoneAssumption DEF IInv, StoreInv
<1> QED
  BY <1>4, <1>5, <1>6 DEF IInv

\* What is let in late was accepted before the expiry.
LEMMA LetInKeepsExpiry ==
    ASSUME IInv, NEW c \in Caller, LetIn(c), UNCHANGED expired,
           \A d \in Caller : call'[d].pc = "accepting" <=> d # c /\ call[d].pc = "accepting"
    PROVE  ExpiryInv' /\ overdue' \in Nat
<1>1. Accepting' = Accepting \ {c}
  BY DEF Accepting
<1>2. overdue \in Nat /\ expired \in BOOLEAN /\ ExpiryInv
  BY DEF IInv, TypeOK
<1>3. /\ Cardinality(Accepting) \in Nat
      /\ Cardinality(Accepting') = IF c \in Accepting THEN Cardinality(Accepting) - 1
                                                      ELSE Cardinality(Accepting)
  BY <1>1, Counted, FS_RemoveElement DEF IInv
<1>4. c \in Accepting <=> call[c].pc = "accepting"
  BY DEF Accepting
<1>5. CASE expired /\ call[c].pc = "accepting"
  <2>1. overdue' = overdue + 1
    BY <1>5 DEF LetIn
  <2> QED
    BY <1>2, <1>3, <1>4, <1>5, <2>1, AuthAssumption DEF ExpiryInv
<1>6. CASE ~(expired /\ call[c].pc = "accepting")
  <2>1. overdue' = overdue
    BY <1>2, <1>6 DEF LetIn
  <2> QED
    BY <1>2, <1>3, <1>4, <1>6, <2>1, AuthAssumption DEF ExpiryInv
<1> QED
  BY <1>5, <1>6

\* The coroutine goes on, and its token is free or the longest waiter's.
LEMMA ResumeKeepsInv ==
    ASSUME IInv, NEW c \in Caller, Resume(c)
    PROVE  IInv'
<1>1. /\ TypeOK /\ QueueInv /\ TokenInv /\ StoreInv
      /\ waiting \in Seq(Caller)
      /\ call \in [Caller -> Call]
      /\ call[c].pc \in {"accepting", "refusing"}
  BY DEF IInv, TypeOK, Resume
<1>2. UNCHANGED <<file, writing, store, expired, barred>> /\ LetIn(c)
  BY DEF Resume, operatorVars
<1>3. c \in borrowed
  BY <1>1 DEF TokenInv, Borrowing
<1>4. IsFiniteSet(borrowed) /\ Cardinality(borrowed) \in Nat /\ Limit \in Nat \ {0}
  BY <1>1, Counted
<1>5. /\ IsFiniteSet(borrowed \ {c})
      /\ Cardinality(borrowed \ {c}) = Cardinality(borrowed) - 1
  BY <1>3, <1>4, FS_RemoveElement
<1>6. CASE waiting = <<>>
  <2>1. /\ waiting' = waiting
        /\ borrowed' = borrowed \ {c}
        /\ call' = [call EXCEPT ![c] = Idle]
    BY <1>6 DEF Resume, Answer
  <2>2. /\ call' \in [Caller -> Call]
        /\ \A d \in Caller : call'[d] = IF d = c THEN Idle ELSE call[d]
    BY <1>1, <2>1, IdleIsACall
  <2>3. ExpiryInv' /\ overdue' \in Nat
    BY <1>2, <2>2, IdleIsACall, LetInKeepsExpiry
  <2>4. TypeOK'
    BY <1>1, <1>2, <2>1, <2>2, <2>3 DEF TypeOK
  <2>5. QueueInv'
    BY <1>1, <1>6, <2>1, <2>2, IdleIsACall DEF QueueInv
  <2>6. TokenInv'
    <3>1. Cardinality(borrowed') <= Limit
      BY <1>1, <1>4, <1>5, <2>1 DEF TokenInv
    <3>2. \A d \in Caller : d \in borrowed' <=> call'[d].pc \in Borrowing
      BY <1>1, <2>1, <2>2, IdleIsACall DEF TokenInv, Borrowing
    <3> QED
      BY <1>6, <2>1, <3>1, <3>2 DEF TokenInv
  <2>7. StoreInv'
    BY <1>1, <1>2, <2>2, IdleIsACall, NoneAssumption DEF StoreInv
  <2> QED
    BY <2>3, <2>4, <2>5, <2>6, <2>7 DEF IInv
<1>7. CASE waiting # <<>>
  <2> DEFINE w == Head(waiting)
  <2>1. /\ waiting' = Tail(waiting)
        /\ borrowed' = (borrowed \ {c}) \cup {w}
        /\ call' = [call EXCEPT ![c] = Idle, ![w].pc = "looking"]
    BY <1>7 DEF Resume
  <2>2. /\ Len(waiting) \in Nat /\ Len(waiting) >= 1
        /\ w = waiting[1] /\ w \in Caller
        /\ waiting' \in Seq(Caller)
        /\ Len(waiting') = Len(waiting) - 1
        /\ \A i \in 1..Len(waiting') : waiting'[i] = waiting[i + 1]
    BY <1>1, <1>7, <2>1
  <2>3. call[w].pc = "waiting" /\ w # c /\ w \notin borrowed
    <3>1. call[w].pc = "waiting"
      BY <1>1, <2>2 DEF QueueInv
    <3> QED
      BY <1>1, <2>2, <3>1 DEF TokenInv, Borrowing
  <2> HIDE DEF w
  <2>4. /\ call'[c] = Idle
        /\ call'[w] = [call[w] EXCEPT !.pc = "looking"]
        /\ \A d \in Caller \ {c, w} : call'[d] = call[d]
        /\ DOMAIN call' = Caller
    BY <1>1, <2>1, <2>2, <2>3
  <2>5. /\ call'[w] \in Call
        /\ call'[w].pc = "looking"
        /\ call'[w].read = call[w].read
    <3>1. call[w] \in Call
      BY <1>1, <2>2
    <3>2. [call[w] EXCEPT !.pc = "looking"] \in Call
      BY <3>1 DEF Call, Borrowing
    <3>3. /\ [call[w] EXCEPT !.pc = "looking"].pc = "looking"
          /\ [call[w] EXCEPT !.pc = "looking"].read = call[w].read
      BY <3>1 DEF Call
    <3> QED
      BY <2>4, <3>2, <3>3
  <2>6. call' \in [Caller -> Call]
    <3>1. call' = [d \in Caller |-> call'[d]]
      BY <1>1, <2>1
    <3>2. \A d \in Caller : call'[d] \in Call
      BY <1>1, <2>4, <2>5, IdleIsACall
    <3> QED
      BY <3>1, <3>2
  <2>7. ExpiryInv' /\ overdue' \in Nat
    <3>1. \A d \in Caller : call'[d].pc = "accepting" <=> d # c /\ call[d].pc = "accepting"
      BY <2>3, <2>4, <2>5, IdleIsACall
    <3> QED
      BY <1>2, <3>1, LetInKeepsExpiry
  <2>8. TypeOK'
    BY <1>1, <1>2, <2>1, <2>2, <2>6, <2>7 DEF TypeOK
  <2>9. QueueInv'
    <3>1. \A i \in 1..Len(waiting') :
              /\ i + 1 \in 1..Len(waiting)
              /\ waiting'[i] = waiting[i + 1]
              /\ waiting[i + 1] \in Caller \ {c, w}
      BY <1>1, <2>2, <2>3 DEF QueueInv
    <3>2. \A i \in 1..Len(waiting') : call'[waiting'[i]].pc = "waiting"
      BY <1>1, <2>4, <3>1 DEF QueueInv
    <3>3. \A i, j \in 1..Len(waiting') : waiting'[i] = waiting'[j] => i = j
      <4>1. SUFFICES ASSUME NEW i \in 1..Len(waiting'), NEW j \in 1..Len(waiting'),
                            waiting'[i] = waiting'[j]
                     PROVE  i = j
        OBVIOUS
      <4>2. i + 1 = j + 1
        BY <1>1, <3>1, <4>1 DEF QueueInv
      <4> QED
        BY <4>2
    <3>4. ASSUME NEW d \in Caller, call'[d].pc = "waiting"
          PROVE  \E i \in 1..Len(waiting') : waiting'[i] = d
      <4>1. d # c /\ d # w /\ call[d].pc = "waiting"
        BY <2>4, <2>5, <3>4, IdleIsACall
      <4>2. PICK j \in 1..Len(waiting) : waiting[j] = d
        BY <1>1, <4>1 DEF QueueInv
      <4>3. j - 1 \in 1..Len(waiting') /\ (j - 1) + 1 = j
        BY <2>2, <4>1, <4>2
      <4> QED
        BY <3>1, <4>2, <4>3
    <3> QED
      BY <3>2, <3>3, <3>4 DEF QueueInv
  <2>10. TokenInv'
    <3>1. Cardinality(borrowed') = Cardinality(borrowed)
      <4>1. w \notin borrowed \ {c}
        BY <2>3
      <4>2. Cardinality((borrowed \ {c}) \cup {w}) = Cardinality(borrowed \ {c}) + 1
        BY <1>5, <4>1, FS_AddElement
      <4> QED
        BY <1>4, <1>5, <2>1, <4>2
    <3>2. Cardinality(borrowed) = Limit
      BY <1>1, <1>7 DEF TokenInv
    <3>3. \A d \in Caller : d \in borrowed' <=> call'[d].pc \in Borrowing
      BY <1>1, <2>1, <2>3, <2>4, <2>5, IdleIsACall DEF TokenInv, Borrowing
    <3> QED
      BY <1>4, <3>1, <3>2, <3>3 DEF TokenInv
  <2>11. StoreInv'
    <3>1. ASSUME barred, NEW d \in Caller
          PROVE  call'[d].read # "live key" /\ call'[d].pc # "accepting"
      <4>1. \A e \in Caller : call[e].read # "live key" /\ call[e].pc # "accepting"
        BY <1>1, <3>1 DEF StoreInv
      <4>2. CASE d = c
        BY <2>4, <4>2, IdleIsACall, NoneAssumption
      <4>3. CASE d = w
        BY <2>5, <3>1, <4>1, <4>3
      <4>4. CASE d \notin {c, w}
        BY <2>4, <4>1, <4>4
      <4> QED
        BY <4>2, <4>3, <4>4
    <3> QED
      BY <1>1, <1>2, <3>1 DEF StoreInv
  <2> QED
    BY <2>7, <2>8, <2>9, <2>10, <2>11 DEF IInv
<1> QED
  BY <1>6, <1>7

\* The operator, the clock and a restart.
LEMMA BesideKeepsInv ==
    ASSUME IInv, Operator \/ Expire \/ Restart
    PROVE  IInv'
<1>1. CASE Operator
  <2>1. /\ UNCHANGED <<store, expired, call, waiting, borrowed, barred, overdue>>
        /\ file' \in Content /\ writing' \in BOOLEAN
        /\ file = "revoked key" => file' = file
    BY <1>1 DEF IInv, TypeOK, Operator, Mint, Revoke, FinishWrite, Content, limiterVars,
                historyVars
  <2> QED
    BY <2>1 DEF IInv, TypeOK, QueueInv, TokenInv, ExpiryInv, Accepting, StoreInv
<1>2. CASE Expire
  <2>1. /\ UNCHANGED <<file, writing, store, call, waiting, borrowed, barred, overdue>>
        /\ ~expired /\ expired' = TRUE
    BY <1>2 DEF Expire, operatorVars, limiterVars, historyVars
  <2>2. overdue = 0 /\ Accepting' = Accepting
    BY <2>1 DEF IInv, ExpiryInv, Accepting
  <2>3. Cardinality(Accepting) <= Limit /\ Cardinality(Accepting) \in Nat
    BY AcceptingBorrow, Counted DEF IInv
  <2>4. ExpiryInv'
    BY <2>1, <2>2, <2>3 DEF ExpiryInv
  <2> QED
    BY <2>1, <2>4 DEF IInv, TypeOK, QueueInv, TokenInv, StoreInv
<1>3. CASE Restart
  <2>1. /\ UNCHANGED <<file, writing, expired, overdue>>
        /\ waiting' = <<>> /\ borrowed' = {} /\ store' = None
        /\ call' = [c \in Caller |-> Idle]
    BY <1>3, Zenon DEF Restart, operatorVars
  <2>2. (barred' => file = "revoked key") /\ barred' \in BOOLEAN
    BY <1>3, Zenon DEF Restart
  <2>3. /\ call' \in [Caller -> Call]
        /\ \A c \in Caller : call'[c].pc = "idle" /\ call'[c].read = None
    BY <2>1, IdleIsACall
  <2>4. waiting' \in Seq(Caller) /\ Len(waiting') = 0
    BY <2>1
  <2>5. TypeOK'
    BY <2>1, <2>2, <2>3, <2>4 DEF IInv, TypeOK
  <2>6. QueueInv'
    BY <2>3, <2>4 DEF QueueInv
  <2>7. TokenInv'
    BY <2>1, <2>3, FS_EmptySet, AuthAssumption DEF TokenInv, Borrowing
  <2>8. ExpiryInv'
    <3>1. Accepting' = {}
      BY <2>3 DEF Accepting
    <3>2. Cardinality(Accepting') = 0
      BY <3>1, FS_EmptySet
    <3>3. (~expired => overdue = 0) /\ (expired => overdue + 0 <= Limit)
      BY Counted DEF IInv, ExpiryInv, TypeOK
    <3> QED
      BY <2>1, <3>2, <3>3 DEF ExpiryInv
  <2>9. StoreInv'
    BY <2>1, <2>2, <2>3, NoneAssumption DEF StoreInv
  <2> QED
    BY <2>5, <2>6, <2>7, <2>8, <2>9 DEF IInv
<1> QED
  BY <1>1, <1>2, <1>3

-----------------------------------------------------------------------------
\* Every step keeps the invariant.
LEMMA NextInv == IInv /\ [Next]_vars => IInv'
<1> SUFFICES ASSUME IInv, [Next]_vars PROVE IInv'
  OBVIOUS
<1>1. CASE UNCHANGED vars
  BY <1>1 DEF IInv, TypeOK, QueueInv, TokenInv, ExpiryInv, Accepting, StoreInv, vars,
              operatorVars, limiterVars, historyVars
<1>2. CASE Next
  BY <1>2, OnLoopKeepsInv, DispatchKeepsInv, LookKeepsInv, ResumeKeepsInv, BesideKeepsInv
     DEF Next, RequirePrincipal
<1> QED
  BY <1>1, <1>2

\* A caller is in the queue as often as it waits: once, or not at all.
LEMMA PlacesInQueue ==
    ASSUME IInv, NEW c \in Caller
    PROVE  Cardinality({i \in DOMAIN waiting : waiting[i] = c})
               = (IF call[c].pc = "waiting" THEN 1 ELSE 0)
<1> DEFINE places == {i \in DOMAIN waiting : waiting[i] = c}
<1>1. QueueInv /\ DOMAIN waiting = 1..Len(waiting)
  BY DEF IInv, TypeOK
<1>2. CASE call[c].pc = "waiting"
  <2>1. PICK i \in 1..Len(waiting) : waiting[i] = c
    BY <1>1, <1>2 DEF QueueInv
  <2>2. places = {i}
    BY <1>1, <2>1 DEF QueueInv
  <2> QED
    BY <1>2, <2>2, FS_Singleton
<1>3. CASE call[c].pc # "waiting"
  <2>1. places = {}
    BY <1>1, <1>3 DEF QueueInv
  <2> QED
    BY <1>3, <2>1, FS_EmptySet
<1> QED
  BY <1>2, <1>3

\* What each theorem below reads off the invariant.
LEMMA InvImplies == IInv => /\ TypeOK /\ BoundedAndBusy
                            /\ ExpiryOvershootBounded /\ RevocationHolds
<1> SUFFICES ASSUME IInv
             PROVE  TypeOK /\ BoundedAndBusy /\ ExpiryOvershootBounded /\ RevocationHolds
  OBVIOUS
<1>1. BoundedAndBusy
  BY PlacesInQueue DEF IInv, TokenInv, BoundedAndBusy
<1>2. ExpiryOvershootBounded
  BY Counted DEF IInv, TypeOK, ExpiryInv, ExpiryOvershootBounded
<1>3. RevocationHolds
  BY DEF IInv, StoreInv, RevocationHolds
<1> QED
  BY <1>1, <1>2, <1>3 DEF IInv

\* The invariant holds of the dependency, whatever the operator, the clock and the
\* restarts do beside it.
LEMMA InvariantHolds == Spec => []IInv
  BY InitInv, NextInv, PTL DEF Spec

\* The limiter, the store and every request stay within their types.
THEOREM TypeCorrect == Spec => []TypeOK
  BY InvariantHolds, InvImplies, PTL

\* "Off the event loop and bounded" (auth/__init__.py:182): the limiter for any
\* number of callers and tokens.
THEOREM AlwaysBoundedAndBusy == Spec => []BoundedAndBusy
  BY InvariantHolds, InvImplies, PTL

\* The check of expires_at before the hash (keys.py:206-210) lets in at most as many
\* too late as there are threads.
THEOREM ExpiryOvershootAlwaysBounded == Spec => []ExpiryOvershootBounded
  BY InvariantHolds, InvImplies, PTL

\* "Revocation needs a restart" (docs/SECURITY.md:59), and one is enough.
THEOREM RevocationAlwaysHolds == Spec => []RevocationHolds
  BY InvariantHolds, InvImplies, PTL
=============================================================================
