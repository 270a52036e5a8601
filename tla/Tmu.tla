---------------------------------- MODULE Tmu ----------------------------------
(***************************************************************************)
(* One channel of the SH-4 timer (runtime/src/sh4/tmu.cpp).  The counter is *)
(* not counted: it is derived from the clock, and an event is armed for the  *)
(* cycle of its underflow, no further ahead than Clamp (kSh4Clock, 200M).    *)
(* The three channels share nothing.  The guest touches a register only      *)
(* when no event is due: System::on_device_access advances the clock first.  *)
(***************************************************************************)
EXTENDS Integers

CONSTANTS
  Counts,   \* values written to TCNT and TCOR, and their reset value
  Prescalers, \* CPU cycles in a tick: 2^(4 + 2 * TPSC)
  Clamp,    \* cycles an event is armed ahead at most
  Cycles,   \* bound: cycles of the run
  Never     \* kNever

VARIABLES
  now, due,     \* the clock, and the deadline of the channel's event
  running,      \* running_
  prescaler,    \* 1 << shift_, for tcr_mode_
  base,         \* base_
  tcor,         \* tcor_
  unf, unie,    \* UNF and UNIE in tcr_
  pending       \* the channel's request in Intc

vars == <<now, due, running, prescaler, base, tcor, unf, unie, pending>>

Ticks(p) == now \div p
Counter == IF running THEN base - Ticks(prescaler) ELSE base
AtLeast0(n) == IF n < 0 THEN 0 ELSE n
Least(a, b) == IF a < b THEN a ELSE b

\* Mutant of ToUnderflow: the part of the current tick that has passed is not taken off.
ToUnderflowFull(cnt, p) == AtLeast0(cnt + 1) * p

\* Cycles until a count of cnt would pass below zero.
ToUnderflow(cnt, p) == AtLeast0(cnt + 1) * p - (now % p)

\* schedule: an unsigned difference, so one below zero is as far as the clamp.
Schedule(cnt, run, p) ==
  due' = IF ~run THEN Never
         ELSE now + (IF ToUnderflow(cnt, p) < 0 THEN Clamp ELSE Least(ToUnderflow(cnt, p), Clamp))

SetCounter(v, run, p) ==
  /\ base' = IF run THEN v + Ticks(p) ELSE v
  /\ Schedule(v, run, p)

\* The counter passed below zero, by -1 - v ticks more than one.
Reload(v) ==
  /\ unf' = TRUE
  /\ pending' = unie
  /\ SetCounter(AtLeast0(tcor + v + 1), running, prescaler)

\* The event, which the scheduler has disarmed.
OnEvent ==
  /\ due = now
  /\ IF ~running THEN due' = Never /\ UNCHANGED <<base, unf, pending>>
     ELSE IF Counter < 0 THEN Reload(Counter)
     ELSE Schedule(Counter, running, prescaler) /\ UNCHANGED <<base, unf, pending>>
  /\ UNCHANGED <<now, running, prescaler, tcor, unie>>

Cycle ==
  /\ due # now /\ now < Cycles
  /\ now' = now + 1
  /\ UNCHANGED <<due, running, prescaler, base, tcor, unf, unie, pending>>

ReadTcnt ==
  /\ due # now
  /\ IF Counter < 0 THEN Reload(Counter) ELSE UNCHANGED <<base, due, unf, pending>>
  /\ UNCHANGED <<now, running, prescaler, tcor, unie>>

WriteTstr(on) ==
  /\ due # now
  /\ on # running
  /\ running' = on
  /\ SetCounter(Counter, on, prescaler)
  /\ UNCHANGED <<now, prescaler, tcor, unf, unie, pending>>

WriteTcor(v) ==
  /\ due # now
  /\ tcor' = v
  /\ UNCHANGED <<now, due, running, prescaler, base, unf, unie, pending>>

WriteTcnt(v) ==
  /\ due # now
  /\ SetCounter(v, running, prescaler)
  /\ UNCHANGED <<now, running, prescaler, tcor, unf, unie, pending>>

\* TCR: UNF is kept or cleared, never set; a new prescaler keeps the count.
WriteTcr(keep, ie, p) ==
  /\ due # now
  /\ unf' = (unf /\ keep)
  /\ unie' = ie
  /\ pending' = (unf' /\ ie)
  /\ prescaler' = p
  /\ IF p = prescaler THEN UNCHANGED <<base, due>> ELSE SetCounter(Counter, running, p)
  /\ UNCHANGED <<now, running, tcor>>

Init ==
  /\ now = 0 /\ due = Never
  /\ running = FALSE
  /\ prescaler \in Prescalers
  /\ tcor \in Counts /\ base = tcor
  /\ unf = FALSE /\ unie = FALSE /\ pending = FALSE

Next ==
  \/ OnEvent \/ Cycle \/ ReadTcnt
  \/ \E on \in BOOLEAN : WriteTstr(on)
  \/ \E v \in Counts : WriteTcor(v) \/ WriteTcnt(v)
  \/ \E keep, ie \in BOOLEAN, p \in Prescalers : WriteTcr(keep, ie, p)

Spec == Init /\ [][Next]_vars

-------------------------------------------------------------------------------
\* Between the cycle of an underflow and its event, the underflow has happened for the
\* guest, which cannot look before the event has run.
Passed == Counter < 0

HardwareTimer ==
  INSTANCE TimerChannel WITH
    time <- now, on <- running, constant <- tcor, enable <- unie,
    count <- IF Passed THEN AtLeast0(tcor + Counter + 1) ELSE Counter,
    flag <- unf \/ Passed,
    irq <- IF Passed THEN unie ELSE pending

\* The counter derived from the clock is, cycle by cycle, the one a hardware timer counts:
\* through starts, stops, prescaler changes and writes in mid-tick, events armed less far
\* ahead than the underflow, and a constant of zero (tmu.cpp 30-98, 145-175).
CountsAsHardware == HardwareTimer!Spec
===============================================================================
