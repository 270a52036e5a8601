------------------------------ MODULE AlarmClock ------------------------------
(***************************************************************************)
(* What the virtual clock promises its devices (runtime/sched/scheduler.h, *)
(* lines 1-4 and 36-38): an alarm that is set rings exactly when the clock *)
(* reads its time, the earliest alarm first, and the clock never moves past *)
(* an alarm that has not rung.  The event queue (Scheduler) and the        *)
(* composed machine (Interrupts) are both shown to implement this.         *)
(***************************************************************************)
EXTENDS Naturals

CONSTANTS Alarms,  \* the registered events
          Never    \* the time of an alarm that is not set

VARIABLES clock, alarm

vars == <<clock, alarm>>

Init ==
  /\ clock = 0
  /\ alarm = [a \in Alarms |-> alarm[a]]
  /\ \A a \in Alarms : clock <= alarm[a] /\ alarm[a] <= Never

\* Only alarm a changes, to a time that is not in the past, or to Never.
Rearmed(a) ==
  /\ alarm' = [alarm EXCEPT ![a] = alarm'[a]]
  /\ clock' <= alarm'[a]
  /\ alarm'[a] <= Never

Set(a) == clock' = clock /\ Rearmed(a)

\* The earliest alarm rings on time; its callback may set it again.
Ring(a) ==
  /\ alarm[a] # Never
  /\ \A b \in Alarms : alarm[a] <= alarm[b]
  /\ clock' = alarm[a]
  /\ Rearmed(a)

\* Time passes, but not beyond an alarm that is still to ring.
Pass ==
  /\ clock <= clock'
  /\ \A a \in Alarms : clock' <= alarm[a]
  /\ alarm' = alarm

Next == Pass \/ \E a \in Alarms : Set(a) \/ Ring(a)

Spec == Init /\ [][Next]_vars
===============================================================================
