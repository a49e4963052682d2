--------------------------- MODULE LifespanProofs ---------------------------
(***************************************************************************)
(* Proofs about the lifespan: for any replicas and any number of checks    *)
(* the client is closed when nobody uses it, and the verdict of /readyz is *)
(* worth what ReadinessIsHonest says.                                      *)
(***************************************************************************)
EXTENDS Lifespan, TLAPS

Quiet == \A c \in Check : check[c].pc = "idle"

\* What each phase has already done with the client, the loops and the checks.
PhaseInv ==
    /\ phase = "down" => ~client /\ Quiet /\ \A t \in Task : task[t] = "none"
    /\ phase \in {"serving", "draining"} => client
    /\ phase = "cancelling" => /\ client /\ Quiet
                               /\ \A t \in Task : task[t] \in {"cancelled", "ended"}
                               /\ \A i \in 1..awaiting - 1 : task[Tasks[i]] = "ended"
    /\ phase = "closing" => ~client /\ Quiet /\ \A t \in Task : task[t] = "ended"

AskedOf(q) == {Replicas[i] : i \in 1..q.asked}

\* What a check has found lies between the replicas that were always up and those
\* that ever were.
CheckInv(q) ==
    /\ q.pc = "asking" => /\ q.always \subseteq up
                          /\ up \subseteq q.ever
                          /\ q.always \cap AskedOf(q) \subseteq q.out
                          /\ q.out \subseteq q.ever
    /\ q.pc = "red" => q.always = {}
    /\ q.pc = "green" => q.ever # {}

IInv == /\ TypeOK
        /\ PhaseInv
        /\ \A c \in Check : CheckInv(check[c])

-----------------------------------------------------------------------------
\* The replicas are those at the positions of pool.urls.
LEMMA ReplicasKnown ==
    /\ Len(Replicas) \in Nat
    /\ \A i \in 1..Len(Replicas) : Replicas[i] \in Replica
    /\ Replica = {Replicas[i] : i \in 1..Len(Replicas)}
<1>1. Len(Replicas) \in Nat /\ DOMAIN Replicas = 1..Len(Replicas)
  BY LifespanAssumption
<1> QED
  BY <1>1 DEF Replica

\* There are three loops, and each of them is at one of the positions awaited.
LEMMA TasksKnown ==
    /\ Len(Tasks) = 3
    /\ \A i \in 1..3 : Tasks[i] \in Task
    /\ \A t \in Task : \E i \in 1..3 : t = Tasks[i]
  BY DEF Task, Tasks

\* The process starts down, with nothing running (UpstreamPool.__init__).
LEMMA InitInv == Init => IInv
<1> SUFFICES ASSUME Init PROVE IInv
  OBVIOUS
<1>1. NoCheck \in CheckState
  BY ReplicasKnown DEF NoCheck, CheckState
<1>2. check \in [Check -> CheckState]
  BY <1>1 DEF Init
<1>3. awaiting \in 1..Len(Tasks) + 1
  BY TasksKnown DEF Init
<1>4. TypeOK
  BY <1>2, <1>3 DEF Init, TypeOK
<1>5. \A c \in Check : check[c] = NoCheck
  BY DEF Init
<1>6. PhaseInv /\ \A c \in Check : CheckInv(check[c])
  BY <1>5 DEF Init, PhaseInv, Quiet, CheckInv, NoCheck
<1> QED
  BY <1>4, <1>6 DEF IInv

\* The steps of the process and its loops leave the checks alone.
LEMMA ProcessKeepsInv ==
    ASSUME IInv,
           Start \/ Drain \/ Finally \/ \E t \in Task : Loops(t)
    PROVE  IInv'
<1> USE TasksKnown
<1>1. /\ UNCHANGED <<check, up>>
      /\ \A c \in Check : CheckInv(check[c])'
  BY DEF IInv, CheckInv, AskedOf, Start, Drain, Finally, Cancel, AwaitTask, Stop, Stopped,
         Loops, Call, Return, End
<1>2. Quiet' = Quiet
  BY <1>1 DEF Quiet
<1>3. CASE Start
  BY <1>1, <1>2, <1>3 DEF IInv, TypeOK, PhaseInv, Start
<1>4. CASE Drain
  BY <1>1, <1>2, <1>4 DEF IInv, TypeOK, PhaseInv, Drain
<1>5. CASE Cancel
  <2>1. Quiet
    BY <1>5 DEF Cancel, Quiet
  <2> QED
    BY <1>1, <1>2, <1>5, <2>1 DEF IInv, TypeOK, PhaseInv, Cancel
<1>6. CASE AwaitTask
  <2>1. awaiting \in 1..3 /\ awaiting' = awaiting + 1 /\ phase' = "cancelling"
    BY <1>6 DEF IInv, TypeOK, AwaitTask
  <2>2. TypeOK'
    BY <1>1, <1>6, <2>1 DEF IInv, TypeOK, AwaitTask
  <2>3. \A i \in 1..awaiting' - 1 : task'[Tasks[i]] = "ended"
    BY <1>6, <2>1 DEF IInv, PhaseInv, AwaitTask
  <2> QED
    BY <1>1, <1>2, <1>6, <2>1, <2>2, <2>3 DEF IInv, PhaseInv, AwaitTask
<1>7. CASE Stop
  <2>1. awaiting = 4
    BY <1>7 DEF IInv, TypeOK, Stop
  <2>2. \A t \in Task : task[t] = "ended"
    BY <1>7, <2>1 DEF IInv, PhaseInv, Stop
  <2> QED
    BY <1>1, <1>2, <1>7, <2>2 DEF IInv, TypeOK, PhaseInv, Stop
<1>8. CASE Stopped
  BY <1>1, <1>2, <1>8 DEF IInv, TypeOK, PhaseInv, Stopped
<1>9. ASSUME NEW t \in Task, Call(t) \/ Return(t)
      PROVE  IInv'
  <2>1. phase \in {"serving", "draining"}
    BY <1>9 DEF IInv, TypeOK, PhaseInv, Call, Return
  <2> QED
    BY <1>1, <1>9, <2>1 DEF IInv, TypeOK, PhaseInv, Call, Return
<1>10. ASSUME NEW t \in Task, End(t)
       PROVE  IInv'
  <2>1. phase \in {"serving", "draining", "cancelling"}
    BY <1>10 DEF IInv, TypeOK, PhaseInv, End
  <2> QED
    BY <1>1, <1>2, <1>10, <2>1 DEF IInv, TypeOK, PhaseInv, End
<1> QED
  BY <1>3, <1>4, <1>5, <1>6, <1>7, <1>8, <1>9, <1>10 DEF Finally, Loops

\* A step of one check, taken while the process serves or drains, keeps what is
\* known of the phases.
LEMMA CheckKeepsInv ==
    ASSUME IInv, NEW c \in Check, NEW q \in CheckState,
           check' = [check EXCEPT ![c] = q],
           UNCHANGED <<phase, client, task, awaiting, up>>,
           phase \in {"serving", "draining"},
           CheckInv(q)
    PROVE  IInv'
<1>1. TypeOK' /\ PhaseInv'
  BY DEF IInv, TypeOK, PhaseInv
<1>2. \A d \in Check : check'[d] = IF d = c THEN q ELSE check[d]
  BY DEF IInv, TypeOK
<1>3. \A d \in Check : CheckInv(check[d])'
  BY <1>2 DEF IInv, CheckInv, AskedOf
<1> QED
  BY <1>1, <1>3 DEF IInv

\* A check runs only while the process serves or drains (uvicorn lets it finish).
LEMMA CheckServed ==
    ASSUME IInv, NEW c \in Check, check[c].pc # "idle"
    PROVE  /\ phase \in {"serving", "draining"}
           /\ client
           /\ check[c] \in CheckState
           /\ CheckInv(check[c])
  BY DEF IInv, TypeOK, PhaseInv, Quiet

\* GET /readyz, from its first probe to its answer.
LEMMA ReadyzKeepsInv ==
    ASSUME IInv, NEW c \in Check, Ask(c) \/ Readyz(c)
    PROVE  IInv'
<1> DEFINE p == check[c]
<1>0. p \in CheckState /\ up \subseteq Replica
  BY DEF IInv, TypeOK
<1>1. CASE Ask(c)
  <2> DEFINE q == [NoCheck EXCEPT !.pc = "asking", !.always = up, !.ever = up]
  <2>1. NoCheck \in CheckState /\ NoCheck.asked = 0 /\ NoCheck.out = {}
    BY ReplicasKnown DEF NoCheck, CheckState
  <2>2. /\ q \in CheckState
        /\ q.pc = "asking" /\ q.asked = 0 /\ q.out = {} /\ q.always = up /\ q.ever = up
    BY <1>0, <2>1 DEF CheckState
  <2>3. AskedOf(q) = {}
    BY <2>2 DEF AskedOf
  <2>4. CheckInv(q)
    BY <2>2, <2>3 DEF CheckInv
  <2> QED
    BY <1>1, <2>2, <2>4, CheckKeepsInv DEF Ask
<1>2. CASE Probed(c)
  <2> DEFINE replica == Replicas[p.asked + 1]
             found == IF client /\ replica \in up THEN p.out \cup {replica} ELSE p.out
             q == [p EXCEPT !.asked = p.asked + 1, !.out = found]
  <2>1. /\ phase \in {"serving", "draining"}
        /\ client
        /\ CheckInv(p)
        /\ p.pc = "asking"
        /\ p.asked < Len(Replicas)
    BY <1>2, CheckServed DEF Probed
  <2>2. p.asked + 1 \in 1..Len(Replicas) /\ replica \in Replica
    BY <1>0, <2>1, ReplicasKnown DEF CheckState
  <2>3. q \in CheckState
    <3>1. found \in SUBSET Replica
      BY <1>0, <2>2 DEF CheckState
    <3>2. p.asked + 1 \in 0..Len(Replicas)
      BY <2>2, ReplicasKnown
    <3> HIDE DEF found
    <3> QED
      BY <1>0, <3>1, <3>2 DEF CheckState
  <2>4. AskedOf(q) = AskedOf(p) \cup {replica}
    <3>1. p.asked \in Nat /\ q.asked = p.asked + 1
      BY <1>0 DEF CheckState
    <3>2. 1..q.asked = 1..p.asked \cup {p.asked + 1}
      BY <3>1
    <3> QED
      BY <3>2 DEF AskedOf
  <2>5. CheckInv(q)
    BY <1>0, <2>1, <2>4 DEF CheckInv, CheckState
  <2> QED
    BY <1>2, <2>1, <2>3, <2>5, CheckKeepsInv DEF Probed
<1>3. CASE Verdict(c)
  <2> DEFINE q == [p EXCEPT !.pc = IF p.out # {} THEN "green" ELSE "red"]
  <2>1. /\ phase \in {"serving", "draining"}
        /\ CheckInv(p)
        /\ p.pc = "asking"
        /\ p.asked = Len(Replicas)
    BY <1>3, CheckServed DEF Verdict
  <2>2. AskedOf(p) = Replica
    BY <2>1, ReplicasKnown DEF AskedOf
  <2>3. q \in CheckState /\ CheckInv(q)
    BY <1>0, <2>1, <2>2 DEF CheckInv, CheckState
  <2> QED
    BY <1>3, <2>1, <2>3, CheckKeepsInv DEF Verdict
<1>4. CASE Answered(c)
  <2>1. phase \in {"serving", "draining"}
    BY <1>4, CheckServed DEF Answered
  <2>2. NoCheck \in CheckState /\ CheckInv(NoCheck)
    BY ReplicasKnown DEF NoCheck, CheckState, CheckInv
  <2> QED
    BY <1>4, <2>1, <2>2, CheckKeepsInv DEF Answered
<1> QED
  BY <1>1, <1>2, <1>3, <1>4 DEF Readyz

\* A replica that turns is no longer one that was always up, or is one that was.
LEMMA TurnKeepsInv ==
    ASSUME IInv, NEW replica \in Replica, Turn(replica)
    PROVE  IInv'
<1>1. up' \subseteq Replica
  BY DEF IInv, TypeOK, Turn
<1>2. ASSUME NEW c \in Check
      PROVE  /\ check'[c] \in CheckState
             /\ check'[c].pc = check[c].pc
             /\ CheckInv(check[c])'
  <2>1. check[c] \in CheckState /\ CheckInv(check[c])
    BY DEF IInv, TypeOK
  <2>2. CASE check[c].pc # "asking"
    BY <2>1, <2>2 DEF Turn, CheckInv
  <2>3. CASE check[c].pc = "asking"
    <3>1. check'[c] = [check[c] EXCEPT !.always = @ \cap up', !.ever = @ \cup up']
      BY <2>3 DEF Turn
    <3>2. check'[c] \in CheckState /\ check'[c].pc = "asking"
      BY <1>1, <2>1, <2>3, <3>1 DEF CheckState
    <3> QED
      BY <2>1, <2>3, <3>1, <3>2 DEF CheckInv, AskedOf, CheckState
  <2> QED
    BY <2>2, <2>3
<1>3. check' \in [Check -> CheckState]
  BY <1>2 DEF Turn
<1>4. TypeOK'
  BY <1>1, <1>3 DEF IInv, TypeOK, Turn
<1>5. PhaseInv'
  BY <1>2 DEF IInv, PhaseInv, Quiet, Turn
<1> QED
  BY <1>2, <1>4, <1>5 DEF IInv

-----------------------------------------------------------------------------
\* Every step of the process keeps the invariant.
LEMMA NextInv == IInv /\ [Next]_vars => IInv'
<1> SUFFICES ASSUME IInv, [Next]_vars PROVE IInv'
  OBVIOUS
<1>1. CASE UNCHANGED vars
  BY <1>1 DEF IInv, TypeOK, PhaseInv, Quiet, CheckInv, AskedOf, vars
<1>2. CASE Next
  BY <1>2, ProcessKeepsInv, ReadyzKeepsInv, TurnKeepsInv DEF Next
<1> QED
  BY <1>1, <1>2

\* What each theorem below reads off the invariant.
LEMMA InvImplies == IInv => TypeOK /\ ClientClosedLast /\ ReadinessIsHonest
<1> SUFFICES ASSUME IInv PROVE TypeOK /\ ClientClosedLast /\ ReadinessIsHonest
  OBVIOUS
<1>1. ClientClosedLast
  BY DEF IInv, TypeOK, PhaseInv, Quiet, ClientClosedLast
<1>2. ReadinessIsHonest
  BY DEF IInv, CheckInv, ReadinessIsHonest
<1> QED
  BY <1>1, <1>2 DEF IInv

\* The invariant holds of the process, however often it is started and stopped.
LEMMA InvariantHolds == Spec => []IInv
  BY InitInv, NextInv, PTL DEF Spec

\* The process, its loops and its checks stay within their types.
THEOREM TypeCorrect == Spec => []TypeOK
  BY InvariantHolds, InvImplies, PTL

\* "Cancel and await BEFORE closing the client" (main.py:133-134): nobody is using
\* the client when the pool lets go of it.
THEOREM ClientIsClosedLast == Spec => []ClientClosedLast
  BY InvariantHolds, InvImplies, PTL

\* /readyz (health.py:30-57) is green for a replica that was up throughout the
\* check, and only for one that was up in it.
THEOREM ReadinessAlwaysHonest == Spec => []ReadinessIsHonest
  BY InvariantHolds, InvImplies, PTL
=============================================================================
