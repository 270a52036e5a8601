------------------------------- MODULE Scheduler -------------------------------
(***************************************************************************)
(* sched::Scheduler (runtime/src/sched/scheduler.cpp): the virtual clock   *)
(* and its event queue.  advance_to runs callbacks on the caller's stack,  *)
(* and a callback may arm events and, through a device register access     *)
(* (System::install, on_device_access), call advance_to again, so the      *)
(* calls in progress are a stack.                                          *)
(***************************************************************************)
EXTENDS Naturals, Sequences

CONSTANTS
  NumEvents,  \* events registered by add()
  Delays,     \* delays a device asks for
  Horizon,    \* bound: the run ends before the clock would pass this
  Never,      \* kNever, larger than any reading of the clock
  MaxDepth    \* bound: advance_to calls in progress at once

ASSUME SchedulerAssumption ==
  /\ NumEvents \in Nat \ {0}
  /\ Delays \subseteq Nat
  /\ Horizon \in Nat
  /\ Never \in Nat
  /\ Horizon < Never
  /\ MaxDepth \in Nat \ {0}

Events == 1..NumEvents
Idle   == 0   \* an advance_to that is in its loop, not in a callback

VARIABLES
  now,       \* now_
  deadline,  \* events_[e].deadline
  calls      \* advance_to calls in progress, innermost last

vars == <<now, deadline, calls>>

Init ==
  /\ now = 0
  /\ deadline = [e \in Events |-> Never]
  /\ calls = <<>>

Top == calls[Len(calls)]

\* Device or guest code runs: no advance_to, or the callback of the innermost.
Outside == calls # <<>> => Top.running # Idle

\* Mutant of Picked: any armed event, not the earliest.
PickedUnordered(e) == deadline[e] # Never

\* The event advance_to picks: the least deadline, the lowest index on a tie.
Picked(e) ==
  /\ deadline[e] # Never
  /\ \A f \in Events : \/ deadline[e] < deadline[f]
                       \/ deadline[e] = deadline[f] /\ e <= f

Due(e) == Picked(e) /\ deadline[e] <= Top.target

\* request(e, d), and cancel(e) which is request(e, kNever).
Request(e, d) ==
  /\ Outside
  /\ now + d <= Horizon
  /\ deadline' = [deadline EXCEPT ![e] = now + d]
  /\ UNCHANGED <<now, calls>>

Cancel(e) ==
  /\ Outside
  /\ deadline' = [deadline EXCEPT ![e] = Never]
  /\ UNCHANGED <<now, calls>>

\* advance_to(t) is called, by the guest or by a running callback.
AdvanceTo(t) ==
  /\ Outside
  /\ Len(calls) < MaxDepth
  /\ calls' = Append(calls, [target |-> t, running |-> Idle, late |-> 0])
  /\ UNCHANGED <<now, deadline>>

\* Mutant of Fire: the event is left armed.
FireWithoutDisarm(e) ==
  /\ ~Outside
  /\ Due(e)
  /\ now' = IF now < deadline[e] THEN deadline[e] ELSE now
  /\ calls' = [calls EXCEPT ![Len(calls)] = [@ EXCEPT !.running = e, !.late = 0]]
  /\ UNCHANGED deadline

\* One iteration: the clock moves to the deadline, the event is disarmed and
\* its callback starts with the lateness advance_to computed.
Fire(e) ==
  /\ ~Outside
  /\ Due(e)
  /\ now' = IF now < deadline[e] THEN deadline[e] ELSE now
  /\ deadline' = [deadline EXCEPT ![e] = Never]
  /\ calls' = [calls EXCEPT ![Len(calls)] =
                 [@ EXCEPT !.running = e,
                           !.late = IF now > deadline[e] THEN now - deadline[e] ELSE 0]]

\* The callback returns to the loop.
Return ==
  /\ calls # <<>>
  /\ Top.running # Idle
  /\ calls' = [calls EXCEPT ![Len(calls)] = [@ EXCEPT !.running = Idle]]
  /\ UNCHANGED <<now, deadline>>

\* Mutant of Finish: what is due exactly at the target is left for later.
FinishEarly ==
  /\ ~Outside
  /\ \A e \in Events : Top.target <= deadline[e]
  /\ now' = IF Top.target > now THEN Top.target ELSE now
  /\ calls' = SubSeq(calls, 1, Len(calls) - 1)
  /\ UNCHANGED deadline

\* Mutant of Finish: the clock is set to the target even if it is past it.
FinishBackwards ==
  /\ ~Outside
  /\ \A e \in Events : Top.target < deadline[e]
  /\ now' = Top.target
  /\ calls' = SubSeq(calls, 1, Len(calls) - 1)
  /\ UNCHANGED deadline

\* Nothing is due any more: the clock is left at the target.
Finish ==
  /\ ~Outside
  /\ \A e \in Events : Top.target < deadline[e]
  /\ now' = IF Top.target > now THEN Top.target ELSE now
  /\ calls' = SubSeq(calls, 1, Len(calls) - 1)
  /\ UNCHANGED deadline

Step == (\E e \in Events : Fire(e)) \/ Return \/ Finish

Next ==
  \/ \E e \in Events, d \in Delays : Request(e, d)
  \/ \E e \in Events : Cancel(e)
  \/ \E t \in 0..Horizon : AdvanceTo(t)
  \/ Step

Spec == Init /\ [][Next]_vars

\* advance_to never waits, and a callback is a finite piece of code: whatever it
\* arms and however often it advances the clock itself, it returns.
FairSpec == Spec /\ WF_vars(Step) /\ SF_vars(Return)

-------------------------------------------------------------------------------
Call == [target : 0..Horizon, running : {Idle} \cup Events, late : Nat]

TypeOK ==
  /\ now \in 0..Horizon
  /\ deadline \in [Events -> 0..Horizon \cup {Never}]
  /\ calls \in Seq(Call)
  /\ Len(calls) <= MaxDepth

\* No armed event is ever behind the clock, whatever callbacks re-arm and
\* however deeply advance_to re-enters itself (scheduler.cpp 25-45).
NoneOverdue == \A e \in Events : now <= deadline[e]

\* Every callback is told it runs exactly on its deadline: `late` is 0, also
\* for a coarse advance over several events (scheduler.cpp 37).
OnTime == \A i \in 1..Len(calls) : calls[i].late = 0

\* When an advance_to returns, everything due by its target has run and the
\* clock reads at least the target (scheduler.h 36-38).
AdvanceCompletes ==
  [][Len(calls') < Len(calls) =>
       /\ calls[Len(calls)].target <= now'
       /\ \A e \in Events : deadline'[e] > calls[Len(calls)].target]_vars

\* The clock and its events behave as the abstract alarm clock.
Clock == INSTANCE AlarmClock WITH Alarms <- Events, clock <- now, alarm <- deadline
ImplementsAlarmClock == Clock!Spec

\* An advance_to whose callbacks re-arm at least one cycle ahead returns
\* (the loop of scheduler.cpp 26-42 has no other bound).
AdvanceReturns == \A n \in 1..MaxDepth : Len(calls) = n ~> Len(calls) < n
===============================================================================
