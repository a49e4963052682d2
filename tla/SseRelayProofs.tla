--------------------------- MODULE SseRelayProofs ---------------------------
(***************************************************************************)
(* Proofs about SseRelay, for every set of streams: types, what the buffer *)
(* holds, that no truncation is silent, that cutting a stream into chunks  *)
(* is immaterial to what is read of it, and that whoever was sent a usage  *)
(* is charged.                                                             *)
(***************************************************************************)
EXTENDS SseRelay, SequenceTheorems, WellFoundedInduction, TLAPS

-----------------------------------------------------------------------------
\* A nonempty set of naturals has a least element, which Min chooses.
LEMMA MinOfNaturals ==
    ASSUME NEW S, S \subseteq Nat, S # {}
    PROVE  Min(S) \in S /\ \A y \in S : Min(S) <= y
<1>1. IsWellFoundedOn(OpToRel(<, Nat), Nat)
  BY NatLessThanWellFounded
<1>2. PICK x \in S : \A y \in S : ~ (<<y, x>> \in OpToRel(<, Nat))
  BY <1>1, WFMin, Zenon
<1>3. ASSUME NEW y \in S PROVE x <= y
  <2>1. x \in Nat /\ y \in Nat
    OBVIOUS
  <2>2. ASSUME y < x PROVE <<y, x>> \in OpToRel(<, Nat)
    BY <2>1, <2>2 DEF OpToRel
  <2>3. ~ (y < x)
    BY <2>2, <1>2, Zenon
  <2> QED
    BY <2>1, <2>3
<1> QED
  BY <1>3, Zenon DEF Min

\* What follows a position of a sequence is a sequence, and one of its ends.
LEMMA RestOfSequence ==
    ASSUME NEW S, NEW s \in Seq(S), NEW i \in 1..Len(s) + 1
    PROVE  /\ Rest(s, i) \in Seq(S)
           /\ Len(Rest(s, i)) = Len(s) - i + 1
           /\ \A k \in 1..Len(s) - i + 1 : Rest(s, i)[k] = s[i + k - 1]
  BY SubSeqProperties DEF Rest

\* The relay cuts its buffer where an event ends, inside the buffer.
LEMMA CutInside ==
    ASSUME NEW s \in Seq(Symbol), HasEvent(s)
    PROVE  Min(EventEnds(s)) \in 1..Len(s) - 1
<1>1. EventEnds(s) \subseteq Nat /\ EventEnds(s) # {}
  BY DEF EventEnds, HasEvent
<1>2. Min(EventEnds(s)) \in EventEnds(s)
  BY <1>1, MinOfNaturals, Zenon
<1> QED
  BY <1>2 DEF EventEnds

\* Whatever the event, it names a usage, none, or it raises.
LEMMA ParsedIsUsage ==
    ASSUME NEW event
    PROVE  ParseUsageFrame(event) \in Usage \cup {None, Raised}
<1> DEFINE text == Text(event, Min(Deciding(event)))
<1>1. CASE text \in {<<u>> : u \in Usage}
  <2>1. PICK u \in Usage : text = <<u>>
    BY <1>1
  <2>2. text[1] = u
    BY <2>1
  <2> QED
    BY <2>2, <1>1 DEF ParseUsageFrame
<1>2. CASE text \notin {<<u>> : u \in Usage}
  BY <1>2 DEF ParseUsageFrame
<1> QED
  BY <1>1, <1>2

\* t is the end of s.
IsTail(t, s) == /\ Len(t) <= Len(s)
                /\ \A k \in 1..Len(t) : t[k] = s[Len(s) - Len(t) + k]

\* What is appended to both keeps one the end of the other.
LEMMA TailGrows ==
    ASSUME NEW S, NEW s \in Seq(S), NEW t \in Seq(S), NEW c \in Seq(S), IsTail(t, s)
    PROVE  IsTail(t \o c, s \o c)
<1>1. /\ Len(s) \in Nat /\ Len(t) \in Nat /\ Len(c) \in Nat
      /\ Len(s \o c) = Len(s) + Len(c) /\ Len(t \o c) = Len(t) + Len(c)
  BY ConcatProperties, LenProperties
<1>2. ASSUME NEW k \in 1..Len(t \o c), NEW j \in Int, j = Len(s) - Len(t) + k
      PROVE  (t \o c)[k] = (s \o c)[j]
  <2>1. j \in 1..Len(s) + Len(c) /\ k \in 1..Len(t) + Len(c)
    BY <1>1, <1>2 DEF IsTail
  <2>2. (t \o c)[k] = IF k <= Len(t) THEN t[k] ELSE c[k - Len(t)]
    BY <2>1, ConcatProperties
  <2>3. (s \o c)[j] = IF j <= Len(s) THEN s[j] ELSE c[j - Len(s)]
    BY <2>1, ConcatProperties
  <2>4. CASE k <= Len(t)
    <3>1. j <= Len(s) /\ k \in 1..Len(t)
      BY <1>1, <1>2, <2>1, <2>4
    <3>2. t[k] = s[j]
      BY <1>2, <3>1 DEF IsTail
    <3> QED
      BY <2>2, <2>3, <2>4, <3>1, <3>2
  <2>5. CASE ~ (k <= Len(t))
    <3>1. ~ (j <= Len(s)) /\ j - Len(s) = k - Len(t)
      BY <1>1, <1>2, <2>1, <2>5
    <3> QED
      BY <2>2, <2>3, <2>5, <3>1
  <2> QED
    BY <2>4, <2>5
<1>3. \A k \in 1..Len(t \o c) : /\ Len(s \o c) - Len(t \o c) + k \in Int
                               /\ Len(s \o c) - Len(t \o c) + k = Len(s) - Len(t) + k
  BY <1>1
<1>4. Len(t \o c) <= Len(s \o c)
  BY <1>1 DEF IsTail
<1> QED
  BY <1>2, <1>3, <1>4 DEF IsTail

\* The end of an end is an end.
LEMMA TailShrinks ==
    ASSUME NEW S, NEW s \in Seq(S), NEW t \in Seq(S), IsTail(t, s), NEW i \in 1..Len(t) + 1
    PROVE  IsTail(Rest(t, i), s)
<1>1. Len(s) \in Nat /\ Len(t) \in Nat /\ i \in Nat /\ Len(t) <= Len(s)
  BY LenProperties DEF IsTail
<1>2. /\ Len(Rest(t, i)) = Len(t) - i + 1
      /\ \A k \in 1..Len(t) - i + 1 : Rest(t, i)[k] = t[i + k - 1]
  BY RestOfSequence
<1>3. ASSUME NEW k \in 1..Len(t) - i + 1
      PROVE  Rest(t, i)[k] = s[Len(s) - (Len(t) - i + 1) + k]
  <2>1. /\ i + k - 1 \in 1..Len(t)
        /\ Len(s) - Len(t) + (i + k - 1) = Len(s) - (Len(t) - i + 1) + k
    BY <1>1
  <2>2. t[i + k - 1] = s[Len(s) - Len(t) + (i + k - 1)]
    BY <2>1 DEF IsTail
  <2> QED
    BY <1>2, <2>1, <2>2
<1>4. Len(Rest(t, i)) <= Len(s)
  BY <1>1, <1>2
<1> QED
  BY <1>2, <1>3, <1>4 DEF IsTail

-----------------------------------------------------------------------------
\* What is buffered is the end of what has arrived.
BufferIsTail == IsTail(buf, received)

\* Where a caller that stays stands, at each point of the relay.
CallerUpToDate ==
    ~gone => /\ pc = "receiving" => delivered = received
             /\ pc \in {"parsing", "sending"} => delivered \o chunk = received
             /\ pc \in {"receiving", "parsing", "sending"} => ~cut /\ notice = <<>>
             /\ pc \in {"closing", "done"} => \/ notice = ErrorFrame
                                              \/ delivered = stream /\ ~cut /\ notice = <<>>

IInv == /\ TypeOK
        /\ BufferIsTail
        /\ pc \in {"receiving", "sending"} => ~HasEvent(buf)
        /\ gone => pc \in {"closing", "done"}
        /\ CallerUpToDate

LEMMA InitIInv == Init => IInv
<1> SUFFICES ASSUME Init PROVE IInv
  OBVIOUS
<1>1. <<>> \in Seq(Symbol) /\ Len(<<>>) = 0
  OBVIOUS
<1>2. TypeOK
  BY <1>1 DEF Init, TypeOK
<1>3. ~HasEvent(buf)
  BY <1>1 DEF Init, HasEvent, EventEnds
<1> QED
  BY <1>1, <1>2, <1>3 DEF Init, IInv, BufferIsTail, IsTail, CallerUpToDate

LEMMA ReceiveKeepsIInv ==
    ASSUME IInv, NEW n \in 1..Len(stream) - Len(received),
           Receive(SubSeq(stream, Len(received) + 1, Len(received) + n))
    PROVE  IInv'
<1> DEFINE c == SubSeq(stream, Len(received) + 1, Len(received) + n)
<1>1. stream \in Seq(Symbol) /\ received \in Seq(Symbol) /\ buf \in Seq(Symbol)
  BY StreamAssumption DEF IInv, TypeOK
<1>2. c \in Seq(Symbol)
  BY <1>1, SubSeqProperties
<1> HIDE DEF c
<1>3. Receive(c)
  BY DEF c
<1>4. /\ received' \in Seq(Symbol) /\ Len(received') = Len(received) + Len(c)
      /\ buf' \in Seq(Symbol) /\ Len(buf') = Len(buf) + Len(c)
  BY <1>1, <1>2, <1>3, ConcatProperties DEF Receive
<1>5. TypeOK'
  BY <1>2, <1>3, <1>4 DEF IInv, TypeOK, Receive
<1>6. BufferIsTail'
  BY <1>1, <1>2, <1>3, TailGrows DEF IInv, BufferIsTail, Receive
<1>7. CallerUpToDate'
  BY <1>3 DEF IInv, CallerUpToDate, Receive
<1> QED
  BY <1>3, <1>5, <1>6, <1>7 DEF IInv, Receive

LEMMA ParseKeepsIInv ==
    ASSUME IInv, ParseEvent PROVE IInv'
<1> DEFINE i == Min(EventEnds(buf))
           parsed == ParseUsageFrame(SubSeq(buf, 1, i - 1))
<1>1. /\ buf \in Seq(Symbol) /\ received \in Seq(Symbol)
      /\ HasEvent(buf)
      /\ buf' = Rest(buf, i + 2)
      /\ usage' = IF parsed \in {None, Raised} THEN usage ELSE parsed
      /\ pc = "parsing"
      /\ pc' = IF parsed = Raised THEN "telling" ELSE "parsing"
      /\ UNCHANGED <<stream, received, delivered, chunk, charged, cut, notice, gone>>
  BY DEF IInv, TypeOK, ParseEvent
<1>2. i \in 1..Len(buf) - 1
  BY <1>1, CutInside
<1>3. parsed \in Usage \cup {None, Raised}
  BY ParsedIsUsage
<1> HIDE DEF i, parsed
<1>4. i + 2 \in 1..Len(buf) + 1 /\ buf' \in Seq(Symbol)
  BY <1>1, <1>2, RestOfSequence
<1>5. TypeOK'
  <2>1. usage' \in Usage \cup {None}
    BY <1>1, <1>3 DEF IInv, TypeOK
  <2> QED
    BY <2>1, <1>1, <1>4 DEF IInv, TypeOK
<1>6. BufferIsTail'
  BY <1>1, <1>4, TailShrinks DEF IInv, BufferIsTail
<1> QED
  BY <1>1, <1>5, <1>6 DEF IInv, CallerUpToDate

LEMMA SendKeepsIInv ==
    ASSUME IInv, YieldChunk \/ ChunkSent \/ CallerGoes PROVE IInv'
<1>1. delivered \in Seq(Symbol) /\ chunk \in Seq(Symbol) /\ <<>> \in Seq(Symbol)
  BY DEF IInv, TypeOK
<1>2. delivered \o chunk \in Seq(Symbol)
  BY <1>1, ConcatProperties
<1>3. CASE YieldChunk
  BY <1>3 DEF YieldChunk, IInv, TypeOK, BufferIsTail, IsTail, HasEvent, EventEnds, CallerUpToDate
<1>4. CASE ChunkSent
  <2>1. TypeOK'
    BY <1>1, <1>2, <1>4 DEF ChunkSent, IInv, TypeOK
  <2> QED
    BY <1>4, <2>1 DEF ChunkSent, IInv, BufferIsTail, IsTail, HasEvent, EventEnds, CallerUpToDate
<1>5. CASE CallerGoes
  <2>1. TypeOK'
    BY <1>1, <1>2, <1>5 DEF CallerGoes, IInv, TypeOK, Further
  <2> QED
    BY <1>5, <2>1 DEF CallerGoes, IInv, BufferIsTail, IsTail, HasEvent, EventEnds, CallerUpToDate
<1> QED
  BY <1>3, <1>4, <1>5

LEMMA EndKeepsIInv ==
    ASSUME IInv, UpstreamEnds \/ UpstreamBreaks \/ ErrorSent \/ Close PROVE IInv'
<1>1. CASE UpstreamEnds
  BY <1>1 DEF UpstreamEnds, IInv, TypeOK, BufferIsTail, IsTail, CallerUpToDate
<1>2. CASE UpstreamBreaks
  BY <1>2 DEF UpstreamBreaks, IInv, TypeOK, BufferIsTail, IsTail, CallerUpToDate
<1>3. CASE ErrorSent
  BY <1>3 DEF ErrorSent, Further, IInv, TypeOK, BufferIsTail, IsTail, CallerUpToDate
<1>4. CASE Close
  BY <1>4 DEF Close, IInv, TypeOK, BufferIsTail, IsTail, CallerUpToDate
<1> QED
  BY <1>1, <1>2, <1>3, <1>4

LEMMA NextKeepsIInv == IInv /\ [Next]_vars => IInv'
<1> SUFFICES ASSUME IInv, [Next]_vars PROVE IInv'
  OBVIOUS
<1>1. CASE UNCHANGED vars
  BY <1>1 DEF vars, IInv, TypeOK, BufferIsTail, IsTail, HasEvent, EventEnds, CallerUpToDate
<1>2. ASSUME NEW n \in 1..Len(stream) - Len(received),
             Receive(SubSeq(stream, Len(received) + 1, Len(received) + n))
      PROVE  IInv'
  BY <1>2, ReceiveKeepsIInv
<1>3. CASE ParseEvent
  BY <1>3, ParseKeepsIInv
<1>4. CASE YieldChunk \/ ChunkSent \/ CallerGoes
  BY <1>4, SendKeepsIInv
<1>5. CASE UpstreamEnds \/ UpstreamBreaks \/ ErrorSent \/ Close
  BY <1>5, EndKeepsIInv
<1> QED
  BY <1>1, <1>2, <1>3, <1>4, <1>5 DEF Next

\* The invariant holds in every reachable state.
THEOREM Invariant == Spec => []IInv
<1>1. IInv /\ [Next]_vars => IInv'
  BY NextKeepsIInv
<1> QED
  BY InitIInv, <1>1, PTL DEF Spec

-----------------------------------------------------------------------------
\* Whatever an upstream sends, nothing relay() keeps leaves its type: what a malformed
\* event is read as never becomes a usage.
THEOREM TypeCorrect == Spec => []TypeOK
<1>1. IInv => TypeOK
  BY DEF IInv
<1> QED
  BY Invariant, <1>1, PTL

\* relay() holds the end of what has arrived, and no complete event of it, however
\* long the stream and however it is cut.
THEOREM BufferHoldsOneEvent == Spec => []HoldsOneEvent
<1>1. IInv => HoldsOneEvent
  <2> SUFFICES ASSUME IInv, pc \in {"receiving", "sending"}
               PROVE  ~HasEvent(buf) /\ buf = Rest(received, Len(received) - Len(buf) + 1)
    BY DEF HoldsOneEvent
  <2>1. buf \in Seq(Symbol) /\ received \in Seq(Symbol) /\ ~HasEvent(buf) /\ BufferIsTail
    BY DEF IInv, TypeOK
  <2> DEFINE i == Len(received) - Len(buf) + 1
  <2>2. i \in 1..Len(received) + 1 /\ Len(received) - i + 1 = Len(buf)
    BY <2>1 DEF BufferIsTail, IsTail
  <2>3. /\ Rest(received, i) \in Seq(Symbol)
        /\ Len(Rest(received, i)) = Len(buf)
        /\ \A k \in 1..Len(buf) : Rest(received, i)[k] = received[i + k - 1]
    BY <2>1, <2>2, RestOfSequence
  <2>4. ASSUME NEW k \in 1..Len(buf) PROVE buf[k] = Rest(received, i)[k]
    <3>1. i + k - 1 = Len(received) - Len(buf) + k
      BY <2>1
    <3> QED
      BY <2>1, <2>3, <3>1 DEF BufferIsTail, IsTail
  <2>5. buf = Rest(received, i)
    BY <2>1, <2>3, <2>4, SeqEqual
  <2> QED
    BY <2>1, <2>5
<1> QED
  BY Invariant, <1>1, PTL

\* The error frame is a line of its own only if the text before it ends a line.
LEMMA FrameNeedsALine ==
    ASSUME NEW s \in Seq(Symbol), NEW t, t = s \o ErrorFrame
    PROVE  ReadsError(t) <=> StartsLine(t, Len(s) + 1)
<1> DEFINE n == Len(s)
<1>1. /\ n \in Nat
      /\ Len(t) = n + 4
      /\ \A i \in 1..n : t[i] \in Symbol
      /\ t[n + 1] = Data /\ t[n + 2] = Error /\ t[n + 3] = Break /\ t[n + 4] = Break
  <2> DEFINE S == Symbol \cup {Error}
             f == ErrorFrame
  <2>1. /\ f \in Seq(S) /\ Len(f) = 4
        /\ f[1] = Data /\ f[2] = Error /\ f[3] = Break /\ f[4] = Break
    BY DEF ErrorFrame, Symbol
  <2>2. s \in Seq(S) /\ n \in Nat /\ \A i \in 1..n : s[i] \in Symbol
    OBVIOUS
  <2> HIDE DEF f, S
  <2>3. /\ Len(s \o f) = Len(s) + Len(f)
        /\ \A i \in 1..Len(s) + Len(f) :
              (s \o f)[i] = IF i <= Len(s) THEN s[i] ELSE f[i - Len(s)]
    BY <2>1, <2>2, ConcatProperties
  <2>4. t = s \o f
    BY DEF f
  <2> HIDE DEF n
  <2>5. /\ Len(t) = n + 4
        /\ \A i \in 1..n + 4 : t[i] = IF i <= n THEN s[i] ELSE f[i - n]
    BY <2>1, <2>3, <2>4 DEF n
  <2>6. \A i \in 1..n : t[i] \in Symbol
    BY <2>2, <2>5
  <2>7. /\ t[n + 1] = f[1] /\ t[n + 2] = f[2]
        /\ t[n + 3] = f[3] /\ t[n + 4] = f[4]
    BY <2>2, <2>5
  <2> QED
    BY <2>1, <2>2, <2>5, <2>6, <2>7
<1>2. Data \in Symbol /\ Break \in Symbol /\ Error \notin Symbol
  BY StreamAssumption DEF Symbol
<1> HIDE DEF n
<1>3. ASSUME ReadsError(t) PROVE StartsLine(t, n + 1)
  <2>1. PICK i \in 1..Len(t) - 2 : StartsLine(t, i) /\ t[i + 1] = Error
    BY <1>3 DEF ReadsError
  <2>2. i = n + 1
    BY <1>1, <1>2, <2>1
  <2> QED
    BY <2>1, <2>2
<1>4. ASSUME StartsLine(t, n + 1) PROVE ReadsError(t)
  <2>1. /\ n + 1 \in 1..Len(t) - 2
        /\ t[(n + 1) + 1] = Error /\ t[(n + 1) + 2] = Break
    BY <1>1
  <2> QED
    BY <1>1, <1>4, <2>1 DEF ReadsError
<1>5. n = Len(s)
  BY DEF n
<1> QED
  BY <1>3, <1>4, <1>5

\* A caller that stays is sent all that the upstream had, or the error frame after what
\* it was sent; and that frame it can read exactly if it begins a line.
THEOREM TruncationIsMarked == Spec => []TruncationMarked
<1>1. IInv => TruncationMarked
  <2> SUFFICES ASSUME IInv, pc = "done", ~gone, notice = ErrorFrame
               PROVE  ReadsError(delivered \o notice)
                        <=> StartsLine(delivered \o notice, Len(delivered) + 1)
    BY DEF IInv, CallerUpToDate, TruncationMarked
  <2>1. delivered \in Seq(Symbol)
    BY DEF IInv, TypeOK
  <2> QED
    BY <2>1, FrameNeedsALine
<1> QED
  BY Invariant, <1>1, PTL

-----------------------------------------------------------------------------
(***************************************************************************)
(* What the relay reads is what a reader of the whole text reads.  Neither *)
(* reading is recursive: the reference finds the finished events in the    *)
(* text, the relay has taken a prefix of it apart.  So the relay's usage   *)
(* is the reference's usage of the prefix it has taken, and one turn of    *)
(* the inner loop moves that prefix past exactly one finished event.       *)
(***************************************************************************)
\* What the events finished within the first m symbols of s say.
TellingBy(s, m) == {j \in Finished(s) : j + 2 <= m /\ ParseUsageFrame(EventAt(s, j)) \in Usage}

UsageBy(s, m) == IF TellingBy(s, m) = {} THEN None
                 ELSE ParseUsageFrame(EventAt(s, Max(TellingBy(s, m))))

\* A place where the relay cuts: the beginning, or just after a blank line.
Boundary(s, n) == n = 0 \/ (n >= 2 /\ s[n - 1] = Break /\ s[n] = Break)

\* The ends of events after a cut, counted from it.
EndsAfter(s, n) == {e \in 1..Len(s) - n - 1 : s[n + e] = Break /\ s[n + e + 1] = Break}

Agree(s, t, m) == m <= Len(s) /\ m <= Len(t) /\ \A k \in 1..m : t[k] = s[k]

-----------------------------------------------------------------------------
\* A nonempty set of naturals below a bound has a greatest element, which Max chooses.
LEMMA MaxOfNaturals ==
    ASSUME NEW N \in Nat, NEW S, S \subseteq 0..N, S # {}
    PROVE  Max(S) \in S /\ \A y \in S : y <= Max(S)
<1> DEFINE T == {d \in 0..N : N - d \in S}
<1>1. \A y \in S : y \in 0..N /\ N - y \in T
  <2> TAKE y \in S
  <2>1. y \in 0..N /\ N - y \in 0..N /\ N - (N - y) = y
    OBVIOUS
  <2> QED
    BY <2>1
<1>2. Min(T) \in T /\ \A d \in T : Min(T) <= d
  <2>1. T \subseteq Nat
    OBVIOUS
  <2>2. T # {}
    <3>1. PICK y \in S : TRUE
      OBVIOUS
    <3>2. N - y \in T
      BY <1>1, <3>1
    <3> HIDE DEF T
    <3> QED
      BY <3>2
  <2> HIDE DEF T
  <2> QED
    BY <2>1, <2>2, MinOfNaturals, Zenon
<1>3. PICK x \in S : Min(T) = N - x
  <2>1. Min(T) \in 0..N /\ N - Min(T) \in S
    BY <1>2
  <2> DEFINE x == N - Min(T)
  <2>2. x \in S /\ Min(T) = N - x
    BY <2>1
  <2> HIDE DEF T, x
  <2> QED
    BY <2>2
<1>4. \A y \in S : x >= y
  <2> TAKE y \in S
  <2>1. N - x <= N - y
    BY <1>1, <1>2, <1>3
  <2> QED
    BY <1>1, <2>1
<1>5. Max(S) \in S /\ \A y \in S : Max(S) >= y
  BY <1>3, <1>4, Zenon DEF Max
<1> QED
  BY <1>5

\* Min and Max are the only elements that bound their set.
LEMMA MinIs ==
    ASSUME NEW S, S \subseteq Nat, NEW x \in S, \A y \in S : x <= y
    PROVE  Min(S) = x
<1>1. Min(S) \in S /\ \A y \in S : Min(S) <= y
  BY MinOfNaturals, Zenon
<1>2. Min(S) \in Nat /\ x \in Nat /\ Min(S) <= x /\ x <= Min(S)
  BY <1>1
<1> QED
  BY <1>2

LEMMA MaxIs ==
    ASSUME NEW N \in Nat, NEW S, S \subseteq 0..N, NEW x \in S, \A y \in S : y <= x
    PROVE  Max(S) = x
<1>1. Max(S) \in S /\ \A y \in S : y <= Max(S)
  BY MaxOfNaturals, Zenon
<1>2. Max(S) \in 0..N /\ x \in 0..N /\ Max(S) <= x /\ x <= Max(S)
  BY <1>1
<1> QED
  BY <1>2

\* Two sequences that agree on a stretch have it in common, shifted or not.
LEMMA SameSlice ==
    ASSUME NEW s \in Seq(Symbol), NEW t \in Seq(Symbol), NEW a \in Int, NEW b \in Int,
           NEW d \in Int, 1 <= a, b <= Len(s), 1 <= a + d, b + d <= Len(t),
           \A k \in a..b : t[k + d] = s[k]
    PROVE  SubSeq(t, a + d, b + d) = SubSeq(s, a, b)
<1>1. Len(s) \in Nat /\ Len(t) \in Nat
  BY LenProperties
<1>2. \A k \in a..b : s[k] \in Symbol
  BY <1>1, ElementOfSeq
<1>3. \A k \in (a + d)..(b + d) : t[k] \in Symbol
  BY <1>1, ElementOfSeq
<1>4. /\ SubSeq(s, a, b) \in Seq(Symbol)
      /\ Len(SubSeq(s, a, b)) = IF a <= b THEN b - a + 1 ELSE 0
      /\ \A i \in 1..b - a + 1 : SubSeq(s, a, b)[i] = s[a + i - 1]
  BY <1>2, SubSeqProperties
<1>5. /\ SubSeq(t, a + d, b + d) \in Seq(Symbol)
      /\ Len(SubSeq(t, a + d, b + d)) = IF a <= b THEN b - a + 1 ELSE 0
      /\ \A i \in 1..b - a + 1 : SubSeq(t, a + d, b + d)[i] = t[a + d + i - 1]
  <2> DEFINE a1 == a + d
             b1 == b + d
  <2>1. a1 \in Int /\ b1 \in Int /\ \A k \in a1..b1 : t[k] \in Symbol
    BY <1>3
  <2> HIDE DEF a1, b1
  <2>2. /\ SubSeq(t, a1, b1) \in Seq(Symbol)
        /\ Len(SubSeq(t, a1, b1)) = IF a1 <= b1 THEN b1 - a1 + 1 ELSE 0
        /\ \A i \in 1..b1 - a1 + 1 : SubSeq(t, a1, b1)[i] = t[a1 + i - 1]
    BY <2>1, SubSeqProperties
  <2>3. b1 - a1 + 1 = b - a + 1 /\ (a1 <= b1 <=> a <= b)
    BY DEF a1, b1
  <2>4. /\ SubSeq(t, a1, b1) \in Seq(Symbol)
        /\ Len(SubSeq(t, a1, b1)) = IF a <= b THEN b - a + 1 ELSE 0
        /\ \A i \in 1..b - a + 1 : SubSeq(t, a1, b1)[i] = t[a1 + i - 1]
    BY <2>2, <2>3
  <2> QED
    BY <2>4 DEF a1, b1
<1>6. ASSUME NEW i \in 1..b - a + 1 PROVE t[a + d + i - 1] = s[a + i - 1]
  <2>1. a + i - 1 \in a..b /\ (a + i - 1) + d = a + d + i - 1
    OBVIOUS
  <2> QED
    BY <2>1
<1>7. \A i \in 1..Len(SubSeq(t, a + d, b + d)) :
         SubSeq(t, a + d, b + d)[i] = SubSeq(s, a, b)[i]
  BY <1>4, <1>5, <1>6
<1> QED
  BY <1>4, <1>5, <1>7, SeqEqual

-----------------------------------------------------------------------------
\* Where the event that ends at j begins.
LEMMA EventBegins ==
    ASSUME NEW s \in Seq(Symbol), NEW j \in Nat
    PROVE  /\ Max({i \in 1..j : Blank(s, i)} \cup {0}) \in 0..j
           /\ \A a \in 0..j :
                (a = 0 \/ Blank(s, a)) /\ (\A i \in a + 1..j : ~Blank(s, i))
                => Max({i \in 1..j : Blank(s, i)} \cup {0}) = a
<1> DEFINE B == {i \in 1..j : Blank(s, i)} \cup {0}
<1>1. B \subseteq 0..j /\ 0 \in B
  OBVIOUS
<1>2. Max(B) \in 0..j
  <2> HIDE DEF B
  <2>1. B # {}
    BY <1>1
  <2>2. Max(B) \in B
    BY <1>1, <2>1, MaxOfNaturals, Zenon
  <2> QED
    BY <1>1, <2>2
<1>3. ASSUME NEW a \in 0..j, a = 0 \/ Blank(s, a), \A i \in a + 1..j : ~Blank(s, i)
      PROVE  Max(B) = a
  <2>1. a \in B
    BY <1>3
  <2>2. ASSUME NEW i \in B PROVE i <= a
    <3>1. i \notin a + 1..j
      BY <1>3, <2>2
    <3> QED
      BY <1>1, <3>1
  <2> HIDE DEF B
  <2> QED
    BY <1>1, <2>1, <2>2, MaxIs
<1> QED
  BY <1>2, <1>3

\* What has arrived later does not change an event.
LEMMA EventAgrees ==
    ASSUME NEW s \in Seq(Symbol), NEW t \in Seq(Symbol), NEW j \in Nat, Agree(s, t, j)
    PROVE  EventAt(t, j) = EventAt(s, j)
<1>1. \A i \in 1..j : Blank(t, i) <=> Blank(s, i)
  <2> TAKE i \in 1..j
  <2>1. t[i] = s[i] /\ (i # 1 => t[i - 1] = s[i - 1])
    <3>1. i # 1 => i - 1 \in 1..j
      OBVIOUS
    <3> QED
      BY <3>1 DEF Agree
  <2> QED
    BY <2>1 DEF Blank, StartsLine
<1>2. {i \in 1..j : Blank(t, i)} = {i \in 1..j : Blank(s, i)}
  BY <1>1
<1> DEFINE a == Max({i \in 1..j : Blank(s, i)} \cup {0})
<1>3. a \in 0..j
  BY EventBegins
<1>4. EventAt(s, j) = SubSeq(s, a + 1, j) /\ EventAt(t, j) = SubSeq(t, a + 1, j)
  BY <1>2 DEF EventAt
<1> HIDE DEF a
<1> DEFINE b == a + 1
<1>5. b \in Int /\ 1 <= b /\ b + 0 = b /\ j + 0 = j /\ j \in Int
  BY <1>3
<1>6. \A k \in b..j : t[k + 0] = s[k]
  <2> TAKE k \in b..j
  <2>1. k + 0 = k /\ k \in 1..j
    BY <1>5
  <2> QED
    BY <2>1 DEF Agree
<1> HIDE DEF b
<1>7. SubSeq(t, b + 0, j + 0) = SubSeq(s, b, j)
  <2>1. j <= Len(s) /\ j + 0 <= Len(t) /\ 1 <= b + 0 /\ 0 \in Int
    BY <1>5 DEF Agree
  <2> QED
    BY <1>5, <1>6, <2>1, SameSlice
<1> QED
  BY <1>4, <1>5, <1>7 DEF b

\* Nor does it change what the finished events say.
LEMMA UsageAgrees ==
    ASSUME NEW s \in Seq(Symbol), NEW t \in Seq(Symbol), NEW m \in Nat, Agree(s, t, m)
    PROVE  UsageBy(t, m) = UsageBy(s, m)
<1>1. ASSUME NEW p \in Seq(Symbol), NEW q \in Seq(Symbol), Agree(p, q, m),
             NEW j \in TellingBy(p, m)
      PROVE  j \in TellingBy(q, m) /\ EventAt(q, j) = EventAt(p, j)
  <2>1. /\ j \in 1..Len(p) - 2 /\ j + 2 <= m
        /\ p[j] # Break /\ p[j + 1] = Break /\ p[j + 2] = Break
        /\ ParseUsageFrame(EventAt(p, j)) \in Usage
    BY <1>1 DEF TellingBy, Finished
  <2>2. Len(p) \in Nat /\ Len(q) \in Nat /\ m <= Len(p) /\ m <= Len(q)
    BY LenProperties, <1>1 DEF Agree
  <2>3. j \in 1..m /\ j + 1 \in 1..m /\ j + 2 \in 1..m /\ j \in 1..Len(q) - 2 /\ j \in Nat
    BY <2>1, <2>2
  <2>4. q[j] = p[j] /\ q[j + 1] = p[j + 1] /\ q[j + 2] = p[j + 2]
    BY <1>1, <2>3 DEF Agree
  <2>5. Agree(p, q, j)
    BY <1>1, <2>2, <2>3 DEF Agree
  <2>6. EventAt(q, j) = EventAt(p, j)
    BY <2>3, <2>5, EventAgrees
  <2> QED
    BY <2>1, <2>3, <2>4, <2>6 DEF TellingBy, Finished
<1>2. Agree(t, s, m)
  BY DEF Agree
<1>3. TellingBy(t, m) = TellingBy(s, m)
  BY <1>1, <1>2
<1>4. CASE TellingBy(s, m) = {}
  BY <1>3, <1>4 DEF UsageBy
<1>5. CASE TellingBy(s, m) # {}
  <2>1. TellingBy(s, m) \subseteq 0..m
    <3>1. \A j \in TellingBy(s, m) : j \in Nat /\ j + 2 <= m
      BY LenProperties DEF TellingBy, Finished
    <3> QED
      BY <3>1
  <2>2. Max(TellingBy(s, m)) \in TellingBy(s, m)
    BY <1>5, <2>1, MaxOfNaturals, Zenon
  <2> QED
    BY <1>1, <1>3, <1>5, <2>2 DEF UsageBy
<1> QED
  BY <1>4, <1>5

\* The reference reads a prefix by the events finished within it.
LEMMA UsageOfPrefix ==
    ASSUME NEW s \in Seq(Symbol), NEW m \in 0..Len(s)
    PROVE  /\ UsageOf(SubSeq(s, 1, m)) = UsageBy(s, m)
           /\ UsageOf(s) = UsageBy(s, Len(s))
<1>1. ASSUME NEW p \in Seq(Symbol) PROVE UsageOf(p) = UsageBy(p, Len(p))
  <2>1. \A j \in Finished(p) : j + 2 <= Len(p)
    BY LenProperties DEF Finished
  <2>2. {j \in Finished(p) : ParseUsageFrame(EventAt(p, j)) \in Usage} = TellingBy(p, Len(p))
    BY <2>1 DEF TellingBy
  <2> QED
    BY <2>2 DEF UsageOf, UsageBy
<1> DEFINE p == SubSeq(s, 1, m)
<1>2. p \in Seq(Symbol) /\ Len(p) = m /\ \A k \in 1..m : p[k] = s[k]
  <2>1. Len(s) \in Nat /\ m \in Nat
    BY LenProperties
  <2>2. \A k \in 1..m : s[k] \in Symbol
    BY <2>1, ElementOfSeq
  <2>3. p \in Seq(Symbol) /\ Len(p) = (IF 1 <= m THEN m - 1 + 1 ELSE 0)
        /\ \A k \in 1..m - 1 + 1 : p[k] = s[1 + k - 1]
    BY <2>1, <2>2, SubSeqProperties
  <2> HIDE DEF p
  <2> QED
    BY <2>1, <2>3
<1> HIDE DEF p
<1>3. Agree(s, p, m)
  BY <1>2, LenProperties DEF Agree
<1>4. UsageBy(p, m) = UsageBy(s, m)
  BY <1>2, <1>3, LenProperties, UsageAgrees
<1> QED
  BY <1>1, <1>2, <1>4 DEF p

-----------------------------------------------------------------------------
\* t is ev without the break it begins with.
Shifted(ev, t) == /\ Len(ev) = Len(t) + 1
                  /\ ev[1] = Break
                  /\ \A k \in 1..Len(t) : t[k] = ev[k + 1]

\* What follows a symbol on its line does not depend on where the line is.
LEMMA TextShifts ==
    ASSUME NEW ev \in Seq(Symbol), NEW t \in Seq(Symbol), Shifted(ev, t), NEW i \in 1..Len(t)
    PROVE  Text(ev, i + 1) = Text(t, i)
<1> DEFINE S == {j \in i..Len(t) - 1 : t[j + 1] = Break} \cup {Len(t)}
           T == {j \in i + 1..Len(ev) - 1 : ev[j + 1] = Break} \cup {Len(ev)}
           b == Min(S)
<1>1. Len(t) \in Nat /\ i \in Nat /\ Len(ev) = Len(t) + 1
  BY LenProperties DEF Shifted
<1>2. S \subseteq i..Len(t) /\ Len(t) \in S
  BY <1>1
<1>3. b \in S /\ (\A y \in S : b <= y) /\ b \in i..Len(t)
  <2>1. S \subseteq Nat /\ S # {}
    BY <1>1, <1>2
  <2> HIDE DEF S
  <2>2. b \in S /\ \A y \in S : b <= y
    BY <2>1, MinOfNaturals, Zenon
  <2> QED
    BY <1>2, <2>2
<1> HIDE DEF b
<1>4. b + 1 \in T
  <2>1. CASE b = Len(t)
    BY <1>1, <2>1
  <2>2. CASE b \in i..Len(t) - 1 /\ t[b + 1] = Break
    <3>1. b + 1 \in i + 1..Len(ev) - 1 /\ b + 1 \in 1..Len(t)
      BY <1>1, <2>2
    <3>2. ev[b + 1 + 1] = Break
      BY <2>2, <3>1 DEF Shifted
    <3> QED
      BY <3>1, <3>2
  <2> QED
    BY <1>3, <2>1, <2>2
<1>5. ASSUME NEW y \in T PROVE b + 1 <= y
  <2>1. CASE y = Len(ev)
    BY <1>1, <1>3, <2>1
  <2>2. CASE y \in i + 1..Len(ev) - 1 /\ ev[y + 1] = Break
    <3>1. PICK x \in i..Len(t) - 1 : x + 1 \in 1..Len(t) /\ x + 1 = y
      <4>1. y - 1 \in i..Len(t) - 1 /\ (y - 1) + 1 \in 1..Len(t) /\ (y - 1) + 1 = y
        BY <1>1, <2>2
      <4> QED
        BY <4>1
    <3>2. t[x + 1] = ev[x + 1 + 1]
      BY <3>1 DEF Shifted
    <3>3. x \in S
      BY <2>2, <3>1, <3>2
    <3> QED
      BY <1>3, <3>1, <3>3
  <2> QED
    BY <1>5, <2>1, <2>2
<1>6. Min(T) = b + 1
  <2>1. T \subseteq Nat
    BY <1>1
  <2> HIDE DEF T
  <2> QED
    BY <1>4, <1>5, <2>1, MinIs
<1>7. Text(t, i) = SubSeq(t, i + 1, b) /\ Text(ev, i + 1) = SubSeq(ev, i + 1 + 1, b + 1)
  <2>1. Text(t, i) = SubSeq(t, i + 1, Min(S)) /\ Text(ev, i + 1) = SubSeq(ev, i + 1 + 1, Min(T))
    BY DEF Text
  <2> QED
    BY <1>6, <2>1 DEF b
<1> DEFINE a == i + 1
<1>8. \A k \in a..b : ev[k + 1] = t[k]
  BY <1>1, <1>3 DEF Shifted
<1>9. a \in Int /\ b \in Int /\ 1 <= a /\ b <= Len(t) /\ 1 <= a + 1 /\ b + 1 <= Len(ev)
  BY <1>1, <1>3
<1> HIDE DEF a
<1>10. SubSeq(ev, a + 1, b + 1) = SubSeq(t, a, b)
  BY <1>8, <1>9, SameSlice
<1> QED
  BY <1>7, <1>10 DEF a

\* A surplus break before an event does not change what it says.
LEMMA LeadingBreak ==
    ASSUME NEW ev \in Seq(Symbol), NEW t \in Seq(Symbol), Shifted(ev, t)
    PROVE  ParseUsageFrame(ev) = ParseUsageFrame(t)
<1>1. Len(t) \in Nat /\ Len(ev) = Len(t) + 1 /\ DOMAIN t = 1..Len(t) /\ DOMAIN ev = 1..Len(ev)
  BY LenProperties DEF Shifted
<1>2. ASSUME NEW i \in 1..Len(t)
      PROVE  i + 1 \in Deciding(ev) <=> i \in Deciding(t)
  <2>1. i + 1 \in 1..Len(ev) /\ i + 1 # 1 /\ (i + 1) - 1 = i /\ ev[i + 1] = t[i]
    BY <1>1 DEF Shifted
  <2>2. StartsLine(ev, i + 1) <=> StartsLine(t, i)
    <3>1. CASE i = 1
      BY <2>1, <3>1 DEF StartsLine, Shifted
    <3>2. CASE i # 1
      <4>1. i - 1 \in 1..Len(t) /\ (i - 1) + 1 = i
        BY <1>1, <3>2
      <4>2. t[i - 1] = ev[i]
        BY <4>1 DEF Shifted
      <4> QED
        BY <2>1, <3>2, <4>2 DEF StartsLine
    <3> QED
      BY <3>1, <3>2
  <2>3. Text(ev, i + 1) = Text(t, i)
    BY TextShifts
  <2> QED
    BY <1>1, <2>1, <2>2, <2>3 DEF Deciding
<1>3. Deciding(ev) \subseteq 2..Len(ev) /\ Deciding(t) \subseteq 1..Len(t)
  <2>1. 1 \notin Deciding(ev)
    BY StreamAssumption DEF Deciding, Shifted
  <2>2. Deciding(ev) \subseteq 1..Len(ev) /\ Deciding(t) \subseteq 1..Len(t)
    BY <1>1 DEF Deciding
  <2> QED
    BY <1>1, <2>1, <2>2
<1>4. ASSUME NEW x \in Deciding(ev)
      PROVE  x - 1 \in Deciding(t)
  <2>1. x - 1 \in 1..Len(t) /\ (x - 1) + 1 = x
    BY <1>1, <1>3
  <2> QED
    BY <1>2, <2>1
<1>5. CASE Deciding(t) = {}
  <2>1. Deciding(ev) = {}
    BY <1>4, <1>5
  <2> QED
    BY <1>5, <2>1 DEF ParseUsageFrame
<1>6. CASE Deciding(t) # {}
  <2> DEFINE i == Min(Deciding(t))
  <2>1. i \in Deciding(t) /\ \A y \in Deciding(t) : i <= y
    BY <1>3, <1>6, MinOfNaturals
  <2>2. i \in 1..Len(t)
    BY <1>3, <2>1
  <2> HIDE DEF i
  <2>3. i + 1 \in Deciding(ev)
    BY <1>2, <2>1, <2>2
  <2>4. ASSUME NEW x \in Deciding(ev) PROVE i + 1 <= x
    <3>1. i <= x - 1 /\ x \in Int
      BY <1>3, <1>4, <2>1
    <3> QED
      BY <2>2, <3>1
  <2>5. Deciding(ev) \subseteq Nat
    BY <1>3
  <2>6. Min(Deciding(ev)) = i + 1
    BY <2>3, <2>4, <2>5, MinIs
  <2>7. Text(ev, Min(Deciding(ev))) = Text(t, Min(Deciding(t)))
    BY <2>2, <2>6, TextShifts DEF i
  <2> QED
    BY <1>6, <2>3, <2>7 DEF ParseUsageFrame
<1> QED
  BY <1>5, <1>6

-----------------------------------------------------------------------------
\* An event that finishes between two cuts, or after a cut, ends where two breaks follow
\* each other after the first.
LEMMA FinishedAfter ==
    ASSUME NEW s \in Seq(Symbol), NEW n \in 0..Len(s), Boundary(s, n),
           NEW j \in Finished(s), n < j + 2
    PROVE  n < j /\ j + 1 - n \in EndsAfter(s, n)
<1>1. /\ Len(s) \in Nat /\ j \in 1..Len(s) - 2
      /\ s[j] # Break /\ s[j + 1] = Break /\ s[j + 2] = Break
  BY LenProperties DEF Finished
<1>2. j # n - 1 /\ j # n
  <2>1. CASE n = 0
    BY <1>1, <2>1
  <2>2. CASE n # 0
    BY <1>1, <2>2 DEF Boundary
  <2> QED
    BY <2>1, <2>2
<1>3. n < j
  BY <1>1, <1>2
<1>4. /\ j + 1 - n \in 1..Len(s) - n - 1
      /\ n + (j + 1 - n) = j + 1 /\ n + (j + 1 - n) + 1 = j + 2
  BY <1>1, <1>3
<1> QED
  BY <1>1, <1>3, <1>4 DEF EndsAfter

\* What has arrived since the last cut says nothing until an event of it is complete.
LEMMA QuietSince ==
    ASSUME NEW s \in Seq(Symbol), NEW n \in 0..Len(s), NEW m \in n..Len(s), Boundary(s, n),
           \A e \in EndsAfter(s, n) : m < n + e + 1
    PROVE  UsageBy(s, m) = UsageBy(s, n)
<1>1. ASSUME NEW j \in Finished(s), j + 2 <= m PROVE j + 2 <= n
  <2>1. j \in Int /\ n \in Int /\ m \in Int /\ Len(s) \in Nat
    BY LenProperties DEF Finished
  <2>2. ASSUME n < j + 2 PROVE FALSE
    <3>1. j + 1 - n \in EndsAfter(s, n)
      BY <2>2, FinishedAfter
    <3>2. n + (j + 1 - n) + 1 = j + 2
      BY <2>1
    <3>3. m < j + 2
      BY <3>1, <3>2
    <3> QED
      BY <1>1, <2>1, <3>3
  <2> QED
    BY <2>1, <2>2
<1>2. ASSUME NEW j \in Finished(s), j + 2 <= n PROVE j + 2 <= m
  BY <1>2, LenProperties DEF Finished
<1>3. TellingBy(s, m) = TellingBy(s, n)
  BY <1>1, <1>2 DEF TellingBy
<1> QED
  BY <1>3 DEF UsageBy

\* The event the relay cuts off next says what the reference reads of it there.
LEMMA CutIsEvent ==
    ASSUME NEW s \in Seq(Symbol), NEW n \in 0..Len(s), Boundary(s, n),
           NEW e \in EndsAfter(s, n), \A f \in EndsAfter(s, n) : e <= f, e # 1,
           NEW ev \in Seq(Symbol), Len(ev) = e - 1, \A k \in 1..e - 1 : ev[k] = s[n + k]
    PROVE  /\ n + e - 1 \in Finished(s)
           /\ ParseUsageFrame(EventAt(s, n + e - 1)) = ParseUsageFrame(ev)
<1> DEFINE j == n + e - 1
<1>1. /\ Len(s) \in Nat /\ e \in 2..Len(s) - n - 1
      /\ s[n + e] = Break /\ s[n + e + 1] = Break
  BY LenProperties DEF EndsAfter
<1>2. ASSUME NEW i \in n + 1..j, s[i] = Break PROVE s[i + 1] # Break
  <2>1. i - n \in 1..Len(s) - n - 1 /\ n + (i - n) = i /\ n + (i - n) + 1 = i + 1
    BY <1>1
  <2>2. ASSUME s[i + 1] = Break PROVE FALSE
    <3>1. i - n \in EndsAfter(s, n)
      BY <1>2, <2>1, <2>2 DEF EndsAfter
    <3>2. e <= i - n
      BY <3>1
    <3> QED
      BY <1>1, <3>2
  <2> QED
    BY <2>2
<1>3. j \in 1..Len(s) - 2 /\ j \in n + 1..j /\ j + 1 = n + e /\ j + 2 = n + e + 1
  BY <1>1
<1>4. s[j] # Break /\ j \in Finished(s)
  <2>1. s[j] # Break
    BY <1>1, <1>2, <1>3
  <2> QED
    BY <1>1, <1>3, <2>1 DEF Finished
<1> HIDE DEF j
<1>5. ASSUME NEW i \in n + 2..j PROVE ~Blank(s, i)
  <2>1. i - 1 \in n + 1..j /\ (i - 1) + 1 = i /\ i # 1
    BY <1>3
  <2>2. ~(s[i - 1] = Break /\ s[i] = Break)
    BY <1>2, <2>1
  <2> QED
    BY <2>1, <2>2 DEF Blank, StartsLine
<1>6. Blank(s, n + 1) <=> s[n + 1] = Break
  <2>1. n = 0 => n + 1 = 1
    OBVIOUS
  <2>2. n # 0 => (n + 1) - 1 = n /\ s[n] = Break
    BY DEF Boundary
  <2> QED
    BY <2>1, <2>2 DEF Blank, StartsLine
<1>7. n = 0 \/ Blank(s, n)
  BY DEF Boundary, Blank, StartsLine
<1>8. CASE s[n + 1] # Break
  <2>1. \A i \in n + 1..j : ~Blank(s, i)
    <3> TAKE i \in n + 1..j
    <3>1. i = n + 1 \/ i \in n + 2..j
      BY <1>3
    <3> QED
      BY <1>5, <1>6, <1>8, <3>1
  <2>2. n \in 0..j /\ j \in Nat
    BY <1>3
  <2>3. EventAt(s, j) = SubSeq(s, n + 1, j)
    BY <1>7, <2>1, <2>2, EventBegins DEF EventAt
  <2>4. \A k \in 1..Len(ev) : s[k + n] = ev[k]
    BY <1>1
  <2>5. Len(ev) + n = j /\ 1 + n = n + 1 /\ j <= Len(s) /\ Len(ev) \in Int /\ n \in Int
    BY <1>1, <1>3
  <2>6. SubSeq(s, 1 + n, Len(ev) + n) = SubSeq(ev, 1, Len(ev))
    BY <2>4, <2>5, SameSlice
  <2>7. SubSeq(ev, 1, Len(ev)) = ev
    BY SubSeqFull
  <2> QED
    BY <1>4, <2>3, <2>5, <2>6, <2>7 DEF j
<1>9. CASE s[n + 1] = Break
  <2>1. n + 1 \in 0..j /\ j \in Nat /\ n + 1 # j
    BY <1>3, <1>4, <1>9
  <2>2. \A i \in (n + 1) + 1..j : ~Blank(s, i)
    <3> TAKE i \in (n + 1) + 1..j
    <3>1. i \in n + 2..j
      OBVIOUS
    <3> QED
      BY <1>5, <3>1
  <2>3. EventAt(s, j) = SubSeq(s, (n + 1) + 1, j)
    BY <1>6, <1>9, <2>1, <2>2, EventBegins DEF EventAt
  <2> DEFINE t == SubSeq(s, (n + 1) + 1, j)
  <2>4. /\ t \in Seq(Symbol) /\ Len(t) = j - n - 1
        /\ \A k \in 1..Len(t) : t[k] = s[n + k + 1]
    <3> DEFINE a == (n + 1) + 1
    <3>1. a \in Int /\ j \in Int /\ a <= j /\ a = n + 2 /\ j <= Len(s)
      BY <1>1, <1>3, <2>1
    <3>2. \A k \in a..j : s[k] \in Symbol
      BY <1>1, <3>1, ElementOfSeq
    <3> HIDE DEF a
    <3>3. /\ SubSeq(s, a, j) \in Seq(Symbol) /\ Len(SubSeq(s, a, j)) = j - a + 1
          /\ \A k \in 1..j - a + 1 : SubSeq(s, a, j)[k] = s[a + k - 1]
      BY <3>1, <3>2, SubSeqProperties
    <3>4. j - a + 1 = j - n - 1 /\ \A k \in 1..j - a + 1 : a + k - 1 = n + k + 1
      BY <3>1
    <3>5. /\ SubSeq(s, a, j) \in Seq(Symbol) /\ Len(SubSeq(s, a, j)) = j - n - 1
          /\ \A k \in 1..j - n - 1 : SubSeq(s, a, j)[k] = s[n + k + 1]
      BY <3>3, <3>4
    <3> QED
      BY <3>5 DEF a
  <2>5. Len(ev) = Len(t) + 1 /\ 1 \in 1..e - 1
    BY <1>1, <1>3, <2>4
  <2> HIDE DEF t
  <2>6. \A k \in 1..Len(t) : t[k] = ev[k + 1]
    <3> TAKE k \in 1..Len(t)
    <3>1. k + 1 \in 1..e - 1 /\ n + (k + 1) = n + k + 1
      BY <1>1, <2>4, <2>5
    <3> QED
      BY <2>4, <3>1
  <2>7. Shifted(ev, t)
    BY <1>9, <2>5, <2>6 DEF Shifted
  <2>8. ParseUsageFrame(ev) = ParseUsageFrame(t)
    BY <2>4, <2>7, LeadingBreak
  <2> QED
    BY <1>4, <2>3, <2>8 DEF t, j
<1> QED
  BY <1>8, <1>9

\* One turn of the inner loop reads what the reference reads up to the next cut.
LEMMA NextCut ==
    ASSUME NEW s \in Seq(Symbol), NEW n \in 0..Len(s), Boundary(s, n),
           NEW e \in EndsAfter(s, n), \A f \in EndsAfter(s, n) : e <= f,
           NEW ev \in Seq(Symbol), Len(ev) = e - 1, \A k \in 1..e - 1 : ev[k] = s[n + k]
    PROVE  /\ n + e + 1 \in 0..Len(s) /\ Boundary(s, n + e + 1)
           /\ ParseUsageFrame(ev) \in Usage => UsageBy(s, n + e + 1) = ParseUsageFrame(ev)
           /\ ParseUsageFrame(ev) \notin Usage => UsageBy(s, n + e + 1) = UsageBy(s, n)
           /\ ParseUsageFrame(ev) = Raised => ~Readable(s)
<1> DEFINE m == n + e + 1
           j == n + e - 1
           parsed == ParseUsageFrame(ev)
<1>1. /\ Len(s) \in Nat /\ n \in Nat /\ e \in 1..Len(s) - n - 1
      /\ s[n + e] = Break /\ s[n + e + 1] = Break
  BY LenProperties DEF EndsAfter
<1>2. m \in 0..Len(s) /\ Boundary(s, m)
  <2>1. m \in 0..Len(s) /\ m >= 2 /\ m - 1 = n + e
    BY <1>1
  <2> QED
    BY <1>1, <2>1 DEF Boundary
<1>3. None \notin Usage /\ Raised \notin Usage /\ None # Raised
  BY StreamAssumption DEF Symbol
<1>4. CASE e = 1
  <2>1. parsed = None
    <3>1. Deciding(ev) = {}
      BY <1>4, LenProperties DEF Deciding
    <3> QED
      BY <3>1 DEF ParseUsageFrame
  <2>2. ASSUME NEW i \in Finished(s), i + 2 <= m PROVE i + 2 <= n
    <3>1. i \in Int
      BY DEF Finished
    <3>2. ASSUME n < i + 2 PROVE FALSE
      BY <1>1, <1>4, <2>2, <3>1, <3>2, FinishedAfter
    <3> QED
      BY <1>1, <3>1, <3>2
  <2>3. TellingBy(s, m) = TellingBy(s, n)
    <3>1. \A i \in Finished(s) : i + 2 <= n => i + 2 <= m
      BY <1>1 DEF Finished
    <3> QED
      BY <2>2, <3>1 DEF TellingBy
  <2> QED
    BY <1>2, <1>3, <2>1, <2>3 DEF UsageBy
<1>5. CASE e # 1
  <2>1. j \in Finished(s) /\ ParseUsageFrame(EventAt(s, j)) = parsed
    BY <1>5, CutIsEvent
  <2>2. j \in Nat /\ j + 2 = m /\ m \in Nat
    BY <1>1
  <2> HIDE DEF j, m, parsed
  <2>3. ASSUME NEW i \in Finished(s), i + 2 <= m, i # j PROVE i + 2 <= n
    <3>1. i \in Int /\ n + e + 1 = m
      BY DEF Finished, m
    <3>2. ASSUME n < i + 2 PROVE FALSE
      <4>1. i + 1 - n \in EndsAfter(s, n)
        BY <3>2, FinishedAfter
      <4>2. e <= i + 1 - n
        BY <4>1
      <4> QED
        BY <1>1, <2>2, <2>3, <3>1, <4>2
    <3> QED
      BY <1>1, <3>1, <3>2
  <2>4. ASSUME NEW i \in Finished(s), i + 2 <= n PROVE i + 2 <= m /\ i < j
    <3>1. i \in Int /\ n + e + 1 = m
      BY DEF Finished, m
    <3> QED
      BY <1>1, <2>2, <2>4, <3>1
  <2>5. CASE parsed \in Usage
    <3>1. j \in TellingBy(s, m)
      BY <2>1, <2>2, <2>5 DEF TellingBy
    <3>2. \A i \in TellingBy(s, m) : i \in Nat /\ i <= j
      <4> TAKE i \in TellingBy(s, m)
      <4>1. i \in Finished(s) /\ i + 2 <= m
        BY DEF TellingBy
      <4>2. i \in Nat
        BY <4>1 DEF Finished
      <4>3. CASE i # j
        BY <2>2, <2>3, <2>4, <4>1, <4>2, <4>3
      <4> QED
        BY <2>2, <4>2, <4>3
    <3>3. TellingBy(s, m) \subseteq 0..j
      BY <2>2, <3>2
    <3>4. Max(TellingBy(s, m)) = j
      BY <2>2, <3>1, <3>2, <3>3, MaxIs
    <3>5. UsageBy(s, m) = parsed
      BY <2>1, <3>1, <3>4 DEF UsageBy
    <3> QED
      BY <1>2, <1>3, <2>5, <3>5 DEF m, parsed
  <2>6. CASE parsed \notin Usage
    <3>1. TellingBy(s, m) = TellingBy(s, n)
      BY <2>1, <2>3, <2>4, <2>6 DEF TellingBy
    <3>2. UsageBy(s, m) = UsageBy(s, n)
      BY <3>1 DEF UsageBy
    <3>3. parsed = Raised => ~Readable(s)
      BY <2>1 DEF Readable
    <3> QED
      BY <1>2, <2>6, <3>2, <3>3 DEF m, parsed
  <2> QED
    BY <2>5, <2>6
<1> QED
  BY <1>4, <1>5

-----------------------------------------------------------------------------
\* How far the relay has taken apart what has arrived.
Taken == Len(received) - Len(buf)

\* The usage is the reference's of what has been taken apart; an event is left in the
\* buffer only by an exception, and nothing sent to the caller reaches the end of one.
UInv == /\ IInv
        /\ Boundary(received, Taken)
        /\ usage = UsageBy(received, Taken)
        /\ pc # "parsing" => ~HasEvent(buf) \/ ~Readable(received)
        /\ Len(delivered) <= Len(received)
        /\ \A e \in EventEnds(buf) : Len(delivered) < Taken + e + 1
        /\ pc = "done" => charged = usage

\* The events in the buffer end where those after the cut do.
LEMMA TailEnds ==
    ASSUME NEW s \in Seq(Symbol), NEW t \in Seq(Symbol), IsTail(t, s)
    PROVE  /\ Len(s) - Len(t) \in 0..Len(s)
           /\ EventEnds(t) = EndsAfter(s, Len(s) - Len(t))
<1> DEFINE n == Len(s) - Len(t)
<1>1. Len(s) \in Nat /\ Len(t) \in Nat /\ n \in 0..Len(s) /\ Len(s) - n - 1 = Len(t) - 1
  BY LenProperties DEF IsTail
<1>2. ASSUME NEW e \in 1..Len(t) - 1 PROVE t[e] = s[n + e] /\ t[e + 1] = s[n + e + 1]
  <2>1. e \in 1..Len(t) /\ e + 1 \in 1..Len(t) /\ n + (e + 1) = n + e + 1
    BY <1>1
  <2> QED
    BY <2>1 DEF IsTail
<1> HIDE DEF n
<1>3. EventEnds(t) = EndsAfter(s, n)
  BY <1>1, <1>2 DEF EventEnds, EndsAfter
<1> QED
  BY <1>1, <1>3 DEF n

LEMMA InitUInv == Init => UInv
<1> SUFFICES ASSUME Init PROVE UInv
  OBVIOUS
<1>1. Len(<<>>) = 0
  OBVIOUS
<1>2. received = <<>> /\ buf = <<>> /\ delivered = <<>> /\ usage = None /\ pc = "receiving"
  BY DEF Init
<1>3. Taken = 0
  BY <1>1, <1>2 DEF Taken
<1>4. EventEnds(buf) = {} /\ ~HasEvent(buf)
  BY <1>1, <1>2 DEF EventEnds, HasEvent
<1>5. TellingBy(received, 0) = {}
  BY <1>1, <1>2 DEF TellingBy, Finished
<1> QED
  BY <1>1, <1>2, <1>3, <1>4, <1>5, InitIInv DEF UInv, Boundary, UsageBy

LEMMA ReceiveKeepsUInv ==
    ASSUME UInv, NEW n \in 1..Len(stream) - Len(received),
           Receive(SubSeq(stream, Len(received) + 1, Len(received) + n))
    PROVE  UInv'
<1> DEFINE c == SubSeq(stream, Len(received) + 1, Len(received) + n)
<1>1. IInv' /\ IInv
  BY ReceiveKeepsIInv DEF UInv
<1>2. stream \in Seq(Symbol) /\ received \in Seq(Symbol) /\ buf \in Seq(Symbol)
  BY <1>1, StreamAssumption DEF IInv, TypeOK
<1>3. c \in Seq(Symbol)
  BY <1>2, SubSeqProperties
<1> HIDE DEF c
<1>4. Receive(c)
  BY DEF c
<1>5. /\ received' = received \o c /\ buf' = buf \o c /\ delivered' = delivered
      /\ usage' = usage /\ pc = "receiving" /\ pc' = "parsing"
  BY <1>4 DEF Receive
<1>6. /\ Len(received) \in Nat /\ Len(buf) \in Nat /\ Len(c) \in Nat
      /\ received' \in Seq(Symbol) /\ Len(received') = Len(received) + Len(c)
      /\ \A k \in 1..Len(received) : received'[k] = received[k]
  BY <1>2, <1>3, <1>5, ConcatProperties, LenProperties
<1>7. /\ buf' \in Seq(Symbol) /\ Len(buf') = Len(buf) + Len(c)
      /\ \A k \in 1..Len(buf) : buf'[k] = buf[k]
  BY <1>2, <1>3, <1>5, ConcatProperties, LenProperties
<1>8. Taken \in 0..Len(received) /\ Taken' = Taken
  BY <1>1, <1>2, <1>6, <1>7, TailEnds DEF IInv, BufferIsTail, Taken
<1>9. Boundary(received', Taken) /\ Agree(received, received', Taken)
  BY <1>6, <1>8 DEF UInv, Boundary, Agree
<1>10. UsageBy(received', Taken) = UsageBy(received, Taken)
  BY <1>2, <1>6, <1>8, <1>9, UsageAgrees
<1>11. delivered = received /\ ~HasEvent(buf)
  BY <1>1, <1>5 DEF IInv, CallerUpToDate
<1>12. ASSUME NEW e \in EventEnds(buf') PROVE Len(delivered') < Taken' + e + 1
  <2>1. e \in 1..Len(buf') - 1 /\ buf'[e] = Break /\ buf'[e + 1] = Break
    BY DEF EventEnds
  <2>2. ASSUME e + 1 <= Len(buf) PROVE FALSE
    <3>1. e \in 1..Len(buf) - 1 /\ e \in 1..Len(buf) /\ e + 1 \in 1..Len(buf)
      BY <1>6, <2>1, <2>2
    <3>2. e \in EventEnds(buf)
      BY <1>7, <2>1, <3>1 DEF EventEnds
    <3> QED
      BY <1>11, <3>2 DEF HasEvent
  <2>3. Taken + Len(buf) = Len(received)
    BY <1>6 DEF Taken
  <2>4. Len(delivered') = Len(received) /\ Taken' = Taken
    BY <1>5, <1>8, <1>11
  <2>5. e \in Nat /\ Len(buf) < e + 1
    BY <1>6, <1>7, <2>1, <2>2
  <2>6. Len(received) < Taken + e + 1
    BY <1>6, <1>8, <2>3, <2>5
  <2> QED
    BY <2>4, <2>6
<1>13. Len(delivered') <= Len(received')
  BY <1>5, <1>6, <1>11
<1>14. usage' = UsageBy(received', Taken')
  BY <1>5, <1>8, <1>10 DEF UInv
<1>15. pc' # "done" /\ ~(pc' # "parsing")
  BY <1>5
<1> QED
  BY <1>1, <1>8, <1>9, <1>12, <1>13, <1>14, <1>15 DEF UInv

LEMMA ParseKeepsUInv ==
    ASSUME UInv, ParseEvent PROVE UInv'
<1> DEFINE i == Min(EventEnds(buf))
           ev == SubSeq(buf, 1, i - 1)
           parsed == ParseUsageFrame(ev)
<1>1. IInv /\ IInv'
  BY ParseKeepsIInv DEF UInv
<1>2. /\ buf \in Seq(Symbol) /\ received \in Seq(Symbol)
      /\ HasEvent(buf)
      /\ buf' = Rest(buf, i + 2)
      /\ usage' = IF parsed \in {None, Raised} THEN usage ELSE parsed
      /\ pc' = IF parsed = Raised THEN "telling" ELSE "parsing"
      /\ received' = received /\ delivered' = delivered
  BY <1>1 DEF IInv, TypeOK, ParseEvent
<1>3. i \in EventEnds(buf) /\ \A e \in EventEnds(buf) : i <= e
  <2>1. EventEnds(buf) \subseteq Nat /\ EventEnds(buf) # {}
    BY <1>2 DEF EventEnds, HasEvent
  <2> QED
    BY <2>1, MinOfNaturals, Zenon
<1>4. i \in 1..Len(buf) - 1 /\ Len(buf) \in Nat /\ Len(received) \in Nat
  BY <1>2, <1>3, LenProperties DEF EventEnds
<1>5. parsed \in Usage \cup {None, Raised}
  BY ParsedIsUsage
<1> HIDE DEF i
<1>6. ev \in Seq(Symbol) /\ Len(ev) = i - 1 /\ \A k \in 1..i - 1 : ev[k] = buf[k]
  <2>1. i - 1 \in 0..Len(buf)
    BY <1>4
  <2>2. CASE i = 1
    <3>1. ev = <<>> /\ 1..i - 1 = {}
      BY <2>2, <1>2, SubSeqProperties
    <3> QED
      BY <2>2, <3>1
  <2>3. CASE i # 1
    <3> DEFINE b == i - 1
    <3>1. b \in Int /\ 1 <= b /\ b <= Len(buf) /\ b - 1 + 1 = b
      BY <1>4, <2>3
    <3> HIDE DEF b
    <3>2. \A k \in 1..b : buf[k] \in Symbol
      BY <1>2, <1>4, <3>1, ElementOfSeq
    <3>3. /\ SubSeq(buf, 1, b) \in Seq(Symbol) /\ Len(SubSeq(buf, 1, b)) = b
          /\ \A k \in 1..b : SubSeq(buf, 1, b)[k] = buf[k]
      BY <1>2, <3>1, <3>2, SubSeqProperties
    <3> QED
      BY <3>3 DEF b
  <2> QED
    BY <2>2, <2>3
<1> HIDE DEF ev, parsed
<1>7. Taken \in 0..Len(received) /\ EventEnds(buf) = EndsAfter(received, Taken)
  BY <1>1, <1>2, TailEnds DEF IInv, BufferIsTail, Taken
<1>8. \A k \in 1..i - 1 : ev[k] = received[Taken + k]
  <2> TAKE k \in 1..i - 1
  <2>1. k \in 1..Len(buf) /\ ev[k] = buf[k]
    BY <1>4, <1>6
  <2> QED
    BY <1>1, <2>1 DEF IInv, BufferIsTail, IsTail, Taken
<1>9. /\ Boundary(received, Taken + i + 1)
      /\ parsed \in Usage => UsageBy(received, Taken + i + 1) = parsed
      /\ parsed \notin Usage => UsageBy(received, Taken + i + 1) = UsageBy(received, Taken)
      /\ parsed = Raised => ~Readable(received)
  <2>1. Boundary(received, Taken)
    BY DEF UInv
  <2> QED
    BY <1>2, <1>3, <1>6, <1>7, <1>8, <2>1, NextCut DEF parsed
<1>10. /\ Len(buf') = Len(buf) - i - 1
       /\ \A k \in 1..Len(buf) - i - 1 : buf'[k] = buf[k + i + 1]
  <2> DEFINE a == i + 2
  <2>1. /\ a \in 1..Len(buf) + 1 /\ Len(buf) - a + 1 = Len(buf) - i - 1
        /\ \A k \in 1..Len(buf) - i - 1 : a + k - 1 = k + i + 1
    BY <1>4
  <2>2. buf \in Seq(Symbol) /\ buf' = Rest(buf, a)
    BY <1>2
  <2> HIDE DEF a
  <2>3. /\ Len(buf') = Len(buf) - a + 1
        /\ \A k \in 1..Len(buf) - a + 1 : buf'[k] = buf[a + k - 1]
    BY <2>1, <2>2, RestOfSequence
  <2> QED
    BY <2>1, <2>3
<1>11. Taken' = Taken + i + 1
  <2>1. received' = received
    BY <1>2
  <2>2. Len(buf') = Len(buf) - i - 1
    BY <1>10
  <2>3. Len(received) - Len(buf') = Len(received) - Len(buf) + i + 1
    BY <1>4, <2>2
  <2> QED
    BY <2>1, <2>3 DEF Taken
<1>12. usage' = UsageBy(received', Taken')
  <2>1. usage' = UsageBy(received, Taken + i + 1)
    <3>1. CASE parsed \in Usage
      <4>1. parsed \notin {None, Raised}
        BY <3>1, StreamAssumption DEF Symbol
      <4> QED
        BY <1>2, <1>9, <3>1, <4>1
    <3>2. CASE parsed \notin Usage
      <4>1. parsed \in {None, Raised}
        BY <1>5, <3>2
      <4> QED
        BY <1>2, <1>9, <3>2, <4>1 DEF UInv
    <3> QED
      BY <3>1, <3>2
  <2> QED
    BY <1>2, <1>11, <2>1
<1>13. ASSUME NEW e \in EventEnds(buf') PROVE Len(delivered') < Taken' + e + 1
  <2>1. e \in 1..Len(buf') - 1 /\ buf'[e] = Break /\ buf'[e + 1] = Break
    BY DEF EventEnds
  <2>2. PICK f \in 1..Len(buf) - 1 : f = e + i + 1
    <3>1. e + i + 1 \in 1..Len(buf) - 1
      BY <1>4, <1>10, <2>1
    <3> QED
      BY <3>1
  <2>3. /\ e \in 1..Len(buf) - i - 1 /\ e + i + 1 = f
        /\ e + 1 \in 1..Len(buf) - i - 1 /\ (e + 1) + i + 1 = f + 1
    BY <1>4, <1>10, <2>1, <2>2
  <2>4. buf[f] = Break /\ buf[f + 1] = Break
    BY <1>10, <2>1, <2>3
  <2>5. f \in EventEnds(buf)
    BY <2>2, <2>4 DEF EventEnds
  <2>6. Len(delivered) < Taken + f + 1
    BY <2>5 DEF UInv
  <2>7. Taken + f + 1 = (Taken + i + 1) + e + 1
    BY <1>4, <1>7, <2>1, <2>2
  <2> QED
    BY <1>2, <1>11, <2>6, <2>7
<1>14. pc' # "parsing" => ~Readable(received')
  BY <1>2, <1>9
<1>15. pc' # "done" /\ Len(delivered') <= Len(received') /\ Boundary(received', Taken')
  BY <1>2, <1>9, <1>11 DEF UInv
<1> QED
  BY <1>1, <1>12, <1>13, <1>14, <1>15 DEF UInv

LEMMA SendKeepsUInv ==
    ASSUME UInv, YieldChunk \/ ChunkSent \/ CallerGoes PROVE UInv'
<1>1. IInv /\ IInv'
  BY SendKeepsIInv DEF UInv
<1>2. UNCHANGED <<received, buf, usage, charged>> /\ pc' # "done" /\ pc' # "parsing"
  BY DEF YieldChunk, ChunkSent, CallerGoes
<1>3. Taken' = Taken
  BY <1>2 DEF Taken
<1>4. ~HasEvent(buf) \/ (delivered' = delivered /\ pc # "parsing")
  BY <1>1 DEF IInv, YieldChunk, ChunkSent, CallerGoes
<1>5. delivered' = delivered \/ delivered' = received
  <2>1. pc = "sending" => delivered \o chunk = received
    BY <1>1 DEF IInv, CallerUpToDate
  <2> QED
    BY <2>1 DEF YieldChunk, ChunkSent, CallerGoes
<1>6. Len(delivered') <= Len(received')
  BY <1>1, <1>2, <1>5, LenProperties DEF UInv, IInv, TypeOK
<1>7. \A e \in EventEnds(buf) : Len(delivered') < Taken + e + 1
  BY <1>4 DEF UInv, HasEvent
<1>8. ~HasEvent(buf) \/ ~Readable(received)
  BY <1>4 DEF UInv
<1> QED
  BY <1>1, <1>2, <1>3, <1>6, <1>7, <1>8 DEF UInv

LEMMA EndKeepsUInv ==
    ASSUME UInv, UpstreamEnds \/ UpstreamBreaks \/ ErrorSent \/ Close PROVE UInv'
<1>1. IInv /\ IInv'
  BY EndKeepsIInv DEF UInv
<1>2. UNCHANGED <<received, delivered, buf, usage>> /\ pc # "parsing" /\ pc' # "parsing"
  BY DEF UpstreamEnds, UpstreamBreaks, ErrorSent, Close
<1>3. Taken' = Taken
  BY <1>2 DEF Taken
<1>4. pc' = "done" => charged' = usage
  BY DEF UpstreamEnds, UpstreamBreaks, ErrorSent, Close
<1> QED
  BY <1>1, <1>2, <1>3, <1>4 DEF UInv

LEMMA NextKeepsUInv == UInv /\ [Next]_vars => UInv'
<1> SUFFICES ASSUME UInv, [Next]_vars PROVE UInv'
  OBVIOUS
<1>1. CASE UNCHANGED vars
  <2>1. IInv'
    BY <1>1, NextKeepsIInv DEF UInv
  <2>2. UNCHANGED <<received, delivered, buf, usage, charged, pc>>
    BY <1>1 DEF vars
  <2>3. Taken' = Taken
    BY <2>2 DEF Taken
  <2> QED
    BY <2>1, <2>2, <2>3 DEF UInv
<1>2. ASSUME NEW n \in 1..Len(stream) - Len(received),
             Receive(SubSeq(stream, Len(received) + 1, Len(received) + n))
      PROVE  UInv'
  BY <1>2, ReceiveKeepsUInv
<1>3. CASE ParseEvent
  BY <1>3, ParseKeepsUInv
<1>4. CASE YieldChunk \/ ChunkSent \/ CallerGoes
  BY <1>4, SendKeepsUInv
<1>5. CASE UpstreamEnds \/ UpstreamBreaks \/ ErrorSent \/ Close
  BY <1>5, EndKeepsUInv
<1> QED
  BY <1>1, <1>2, <1>3, <1>4, <1>5 DEF Next

LEMMA ReadInvariant == Spec => []UInv
<1>1. UInv /\ [Next]_vars => UInv'
  BY NextKeepsUInv
<1> QED
  BY InitUInv, <1>1, PTL DEF Spec

\* What stands where, in every reachable state.
LEMMA WhereItStands ==
    ASSUME UInv
    PROVE  /\ received \in Seq(Symbol) /\ Len(delivered) \in Nat
           /\ Taken \in 0..Len(received) /\ Boundary(received, Taken)
           /\ EventEnds(buf) = EndsAfter(received, Taken)
           /\ usage = UsageOf(SubSeq(received, 1, Taken))
<1>1. received \in Seq(Symbol) /\ buf \in Seq(Symbol) /\ delivered \in Seq(Symbol)
  BY DEF UInv, IInv, TypeOK
<1>2. Taken \in 0..Len(received) /\ EventEnds(buf) = EndsAfter(received, Taken)
  BY <1>1, TailEnds DEF UInv, IInv, BufferIsTail, Taken
<1>3. usage = UsageOf(SubSeq(received, 1, Taken))
  BY <1>1, <1>2, UsageOfPrefix DEF UInv
<1> QED
  BY <1>1, <1>2, <1>3, LenProperties DEF UInv

-----------------------------------------------------------------------------
\* Wherever the network cuts a stream, at every await and yield the relay has read of
\* it what a reader of the whole text would: for every stream and every cut of it.
THEOREM ChunkingNeverMatters == Spec => []ChunkingImmaterial
<1>1. UInv => ChunkingImmaterial
  <2> SUFFICES ASSUME UInv, pc # "parsing", Readable(received)
               PROVE  usage = UsageOf(received)
    BY DEF ChunkingImmaterial
  <2> DEFINE m == Len(received)
  <2>1. /\ received \in Seq(Symbol) /\ Taken \in 0..m /\ m \in Taken..m
        /\ Boundary(received, Taken) /\ EventEnds(buf) = EndsAfter(received, Taken)
    BY WhereItStands, LenProperties
  <2>2. EndsAfter(received, Taken) = {} /\ usage = UsageBy(received, Taken)
    BY <2>1 DEF UInv, HasEvent
  <2>3. UsageBy(received, m) = UsageBy(received, Taken)
    BY <2>1, <2>2, QuietSince
  <2>4. UsageOf(received) = UsageBy(received, m)
    BY <2>1, UsageOfPrefix
  <2> QED
    BY <2>2, <2>3, <2>4
<1> QED
  BY ReadInvariant, <1>1, PTL

\* Whoever has been sent a usage frame is charged by it or by a later one that had
\* arrived: gone or not, broken off or not, readable or not.
THEOREM NothingReadIsFree == Spec => []NoFreeAnswer
<1>1. UInv => NoFreeAnswer
  <2> SUFFICES ASSUME UInv, pc = "done"
               PROVE  \E n \in Len(delivered)..Len(received) :
                         charged = UsageOf(SubSeq(received, 1, n))
    BY DEF NoFreeAnswer
  <2> DEFINE d == Len(delivered)
  <2>1. /\ received \in Seq(Symbol) /\ Len(received) \in Nat
        /\ d \in 0..Len(received) /\ Taken \in 0..Len(received)
        /\ Boundary(received, Taken) /\ EventEnds(buf) = EndsAfter(received, Taken)
        /\ charged = UsageOf(SubSeq(received, 1, Taken))
        /\ charged = UsageBy(received, Taken)
    BY WhereItStands, LenProperties DEF UInv
  <2>2. CASE d <= Taken
    <3>1. Taken \in d..Len(received)
      BY <2>1, <2>2
    <3> QED
      BY <2>1, <3>1
  <2>3. CASE Taken < d
    <3>1. \A e \in EndsAfter(received, Taken) : d < Taken + e + 1
      BY <2>1 DEF UInv
    <3>2. d \in Taken..Len(received) /\ d \in d..Len(received)
      BY <2>1, <2>3
    <3> HIDE DEF d
    <3>3. UsageBy(received, d) = UsageBy(received, Taken)
      BY <2>1, <3>1, <3>2, QuietSince
    <3>4. UsageOf(SubSeq(received, 1, d)) = UsageBy(received, d)
      BY <2>1, UsageOfPrefix
    <3> QED
      BY <2>1, <3>2, <3>3, <3>4 DEF d
  <2> QED
    BY <2>1, <2>2, <2>3
<1> QED
  BY ReadInvariant, <1>1, PTL
=============================================================================
