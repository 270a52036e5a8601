---------------------------- MODULE SchedulerProofs ----------------------------
(***************************************************************************)
(* Theorems about the event queue, for any number of events, any delays    *)
(* and any depth of re-entrant advance_to calls.                           *)
(***************************************************************************)
EXTENDS Scheduler, SequenceTheorems, TLAPS

USE SchedulerAssumption

\* The inductive invariant.  NoneOverdue is what makes OnTime inductive: a
\* callback can only be late if its deadline was behind the clock.
IInv == TypeOK /\ NoneOverdue /\ OnTime

LEMMA InitInv == Init => IInv
<1> SUFFICES ASSUME Init PROVE IInv
  OBVIOUS
<1>1. TypeOK
  BY DEF Init, TypeOK
<1>2. NoneOverdue
  BY DEF Init, NoneOverdue
<1>3. OnTime
  BY DEF Init, OnTime
<1>4. QED
  BY <1>1, <1>2, <1>3 DEF IInv

\* A callback starting: the one step that needs NoneOverdue.
LEMMA FireInv ==
  ASSUME IInv, NEW e \in Events, Fire(e)
  PROVE  IInv'
<1> USE DEF IInv, TypeOK
<1> DEFINE c == [Top EXCEPT !.running = e, !.late = 0]
<1>1. calls # <<>> /\ Len(calls) \in 1..Len(calls) /\ Top \in Call
  BY DEF Fire, Outside, Top
<1>2. deadline[e] \in 0..Horizon /\ now <= deadline[e] /\ now' = deadline[e]
  BY <1>1 DEF Fire, Due, Picked, NoneOverdue, Call
<1>3. c \in Call /\ c.late = 0
  BY <1>1 DEF Call
<1>4. calls' = [calls EXCEPT ![Len(calls)] = c]
  <2>1. (IF now > deadline[e] THEN now - deadline[e] ELSE 0) = 0
    BY <1>2
  <2>2. QED
    BY <2>1 DEF Fire, Top
<1>5. /\ calls' \in Seq(Call)
      /\ Len(calls') = Len(calls)
      /\ calls'[Len(calls)] = c
      /\ \A i \in 1..Len(calls) : i # Len(calls) => calls'[i] = calls[i]
  BY <1>1, <1>3, <1>4, ExceptSeq
<1>6. TypeOK'
  BY <1>2, <1>5 DEF Fire
<1>7. NoneOverdue'
  BY <1>2 DEF Fire, Due, Picked, NoneOverdue
<1>8. OnTime'
  BY <1>1, <1>3, <1>5 DEF OnTime
<1>9. QED
  BY <1>6, <1>7, <1>8

LEMMA ReturnInv ==
  ASSUME IInv, Return
  PROVE  IInv'
<1> USE DEF IInv, TypeOK
<1> DEFINE c == [Top EXCEPT !.running = Idle]
<1>1. calls # <<>> /\ Len(calls) \in 1..Len(calls) /\ Top \in Call
  BY DEF Return, Top
<1>2. c \in Call /\ c.late = 0
  BY <1>1 DEF Call, OnTime, Top
<1>3. calls' = [calls EXCEPT ![Len(calls)] = c]
  BY DEF Return, Top
<1>4. /\ calls' \in Seq(Call)
      /\ Len(calls') = Len(calls)
      /\ calls'[Len(calls)] = c
      /\ \A i \in 1..Len(calls) : i # Len(calls) => calls'[i] = calls[i]
  BY <1>1, <1>2, <1>3, ExceptSeq
<1>5. TypeOK' /\ NoneOverdue'
  BY <1>4 DEF Return, NoneOverdue
<1>6. OnTime'
  BY <1>1, <1>2, <1>4 DEF OnTime
<1>7. QED
  BY <1>5, <1>6

LEMMA FinishInv ==
  ASSUME IInv, Finish
  PROVE  IInv'
<1> USE DEF IInv, TypeOK
<1>1. calls # <<>> /\ Len(calls) \in Nat \ {0} /\ Top \in Call
  BY DEF Finish, Outside, Top
<1>2. /\ calls' \in Seq(Call)
      /\ Len(calls') = Len(calls) - 1
      /\ \A i \in 1..Len(calls') : calls'[i] = calls[i]
  <2>1. \A i \in 1..Len(calls)-1 : calls[i] \in Call
    BY <1>1
  <2> DEFINE n == Len(calls) - 1
  <2>2. n \in Int /\ n >= 0 /\ \A i \in 1..n : 1+i-1 = i
    BY <1>1
  <2>3. /\ SubSeq(calls, 1, n) \in Seq(Call)
        /\ Len(SubSeq(calls, 1, n)) = IF 1 <= n THEN n-1+1 ELSE 0
        /\ \A i \in 1..n-1+1 : SubSeq(calls, 1, n)[i] = calls[1+i-1]
    <3>1. \A i \in 1..n : calls[i] \in Call
      BY <2>1
    <3> HIDE DEF n
    <3>2. QED
      BY <2>2, <3>1, SubSeqProperties
  <2>4. calls' = SubSeq(calls, 1, n)
    BY DEF Finish
  <2> HIDE DEF n
  <2>5. Len(calls') = n
    BY <2>2, <2>3, <2>4
  <2>6. \A i \in 1..n : calls'[i] = calls[i]
    BY <2>2, <2>3, <2>4
  <2>7. QED
    BY <2>3, <2>4, <2>5, <2>6 DEF n
<1>3. now' \in 0..Horizon /\ \A e \in Events : now' <= deadline[e]
  <2>1. Top.target \in 0..Horizon
    BY <1>1 DEF Call
  <2>2. QED
    BY <2>1 DEF Finish, NoneOverdue
<1>4. TypeOK'
  BY <1>1, <1>2, <1>3 DEF Finish
<1>5. NoneOverdue'
  BY <1>3 DEF Finish, NoneOverdue
<1>6. OnTime'
  BY <1>1, <1>2 DEF OnTime
<1>7. QED
  BY <1>4, <1>5, <1>6

LEMMA RequestInv ==
  ASSUME IInv, NEW e \in Events,
         Cancel(e) \/ \E d \in Delays : Request(e, d)
  PROVE  IInv'
<1> USE DEF IInv, TypeOK
<1>1. ASSUME Cancel(e) PROVE IInv'
  BY <1>1 DEF Cancel, NoneOverdue, OnTime
<1>2. ASSUME NEW d \in Delays, Request(e, d) PROVE IInv'
  <2>1. d \in Nat /\ now + d \in 0..Horizon
    BY <1>2 DEF Request
  <2>2. QED
    BY <1>2, <2>1 DEF Request, NoneOverdue, OnTime
<1>3. QED
  BY <1>1, <1>2

LEMMA AdvanceToInv ==
  ASSUME IInv, NEW t \in 0..Horizon, AdvanceTo(t)
  PROVE  IInv'
<1> USE DEF IInv, TypeOK
<1> DEFINE c == [target |-> t, running |-> Idle, late |-> 0]
<1>1. c \in Call
  BY DEF Call
<1>2. /\ calls' \in Seq(Call)
      /\ Len(calls') = Len(calls) + 1
      /\ \A i \in 1..Len(calls') : calls'[i] = IF i <= Len(calls) THEN calls[i] ELSE c
  BY <1>1 DEF AdvanceTo
<1>3. QED
  BY <1>1, <1>2 DEF AdvanceTo, NoneOverdue, OnTime

LEMMA NextInv == IInv /\ [Next]_vars => IInv'
<1> SUFFICES ASSUME IInv, [Next]_vars PROVE IInv'
  OBVIOUS
<1>1. CASE \E e \in Events, d \in Delays : Request(e, d)
  BY <1>1, RequestInv
<1>2. CASE \E e \in Events : Cancel(e)
  BY <1>2, RequestInv
<1>3. CASE \E t \in 0..Horizon : AdvanceTo(t)
  BY <1>3, AdvanceToInv
<1>4. CASE \E e \in Events : Fire(e)
  BY <1>4, FireInv
<1>5. CASE Return
  BY <1>5, ReturnInv
<1>6. CASE Finish
  BY <1>6, FinishInv
<1>7. CASE UNCHANGED vars
  BY <1>7 DEF vars, IInv, TypeOK, NoneOverdue, OnTime
<1>8. QED
  BY <1>1, <1>2, <1>3, <1>4, <1>5, <1>6, <1>7 DEF Next, Step

THEOREM Invariance == Spec => []IInv
<1>1. QED
  BY InitInv, NextInv, PTL DEF Spec

\* The clock, the deadlines and the stack of advance_to calls are well typed.
THEOREM TypeCorrect == Spec => []TypeOK
<1>1. IInv => TypeOK
  BY DEF IInv
<1>2. QED
  BY <1>1, Invariance, PTL

\* No armed event is ever behind the clock: advance_to cannot skip one, even
\* when a callback of one advance_to calls another (scheduler.cpp 25-45).
THEOREM NothingSkipped == Spec => []NoneOverdue
<1>1. IInv => NoneOverdue
  BY DEF IInv
<1>2. QED
  BY <1>1, Invariance, PTL

\* Every callback is told it is exactly on time (scheduler.cpp 37): `late` is
\* never positive, whatever the target of the advance.
THEOREM NeverLate == Spec => []OnTime
<1>1. IInv => OnTime
  BY DEF IInv
<1>2. QED
  BY <1>1, Invariance, PTL

-------------------------------------------------------------------------------
\* When an advance_to returns, all that was due by its target has run and the
\* clock has reached the target (scheduler.h 36-38).
THEOREM Completes == Spec => AdvanceCompletes
<1> DEFINE A == Len(calls') < Len(calls) =>
                  /\ calls[Len(calls)].target <= now'
                  /\ \A e \in Events : deadline'[e] > calls[Len(calls)].target
<1>1. IInv /\ [Next]_vars => [A]_vars
  <2> SUFFICES ASSUME IInv, Next PROVE A
    OBVIOUS
  <2> USE DEF IInv, TypeOK
  <2>1. CASE Finish
    <3>1. calls # <<>> /\ Top \in Call
      BY <2>1 DEF Finish, Outside, Top
    <3>2. QED
      BY <2>1, <3>1 DEF Finish, Top, Call
  <2>2. CASE (\E e \in Events : Fire(e)) \/ Return
    <3>1. calls # <<>>
      BY <2>2 DEF Fire, Return, Outside
    <3>2. \E c : calls' = [calls EXCEPT ![Len(calls)] = c]
      BY <2>2 DEF Fire, Return
    <3>3. calls' \in Seq(Call) /\ DOMAIN calls' = DOMAIN calls
      BY <3>2, NextInv
    <3>4. QED
      BY <3>3
  <2>3. CASE UNCHANGED calls
    BY <2>3
  <2>4. CASE \E t \in 0..Horizon : AdvanceTo(t)
    BY <2>4 DEF AdvanceTo
  <2>5. QED
    BY <2>1, <2>2, <2>3, <2>4 DEF Next, Step, Request, Cancel
<1>2. QED
  BY <1>1, Invariance, PTL DEF Spec, AdvanceCompletes

\* The event queue implements the abstract alarm clock: its devices can rely on
\* alarms that ring on time and in order.
THEOREM Refines == Spec => ImplementsAlarmClock
<1>1. Init => Clock!Init
  BY DEF Init, Clock!Init
<1>2. IInv /\ [Next]_vars => [Clock!Next]_Clock!vars
  <2> SUFFICES ASSUME IInv, [Next]_vars PROVE [Clock!Next]_Clock!vars
    OBVIOUS
  <2> USE DEF IInv, TypeOK
  <2>1. IInv'
    BY NextInv
  <2>2. ASSUME NEW e \in Events, Cancel(e) \/ \E d \in Delays : Request(e, d)
        PROVE  Clock!Set(e)
    BY <2>1, <2>2 DEF Cancel, Request, Clock!Set, Clock!Rearmed, NoneOverdue
  <2>3. ASSUME NEW e \in Events, Fire(e)
        PROVE  Clock!Ring(e)
    BY <2>1, <2>3 DEF Fire, Due, Picked, Clock!Ring, Clock!Rearmed, NoneOverdue
  <2>4. CASE Finish
    <3>1. calls # <<>> /\ Top \in Call
      BY <2>4 DEF Finish, Outside, Top
    <3>2. Clock!Pass
      BY <2>1, <2>4, <3>1 DEF Finish, Clock!Pass, NoneOverdue, Call
    <3>3. QED
      BY <3>2 DEF Clock!Next
  <2>5. ASSUME UNCHANGED <<now, deadline>> PROVE [Clock!Next]_Clock!vars
    BY <2>5 DEF Clock!vars
  <2>6. CASE Next
    BY <2>2, <2>3, <2>4, <2>5, <2>6 DEF Next, Step, AdvanceTo, Return, Clock!Next
  <2>7. QED
    BY <2>5, <2>6 DEF vars
<1>3. QED
  BY <1>1, <1>2, Invariance, PTL DEF Spec, ImplementsAlarmClock, Clock!Spec
===============================================================================
