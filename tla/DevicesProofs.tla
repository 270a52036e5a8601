----------------------------- MODULE DevicesProofs -----------------------------
(***************************************************************************)
(* Theorems about the devices, for any registers, lists, partitions, discs   *)
(* and requests that satisfy DevicesAssumption.  Each device's invariant      *)
(* holds in the runs of the others too, where it stays as it was reset.       *)
(***************************************************************************)
EXTENDS Devices, FiniteSetTheorems, WellFoundedInduction, TLAPS

--------------------------------------------------------------------------------
(* The timer. *)

LEMMA Quotient ==
  ASSUME NEW n \in Nat, NEW p \in Nat \ {0}
  PROVE  n \div p \in Nat /\ n % p \in 0..(p - 1) /\ n = p * (n \div p) + (n % p)
  OBVIOUS

LEMMA QuotientIs ==
  ASSUME NEW n \in Nat, NEW p \in Nat \ {0}, NEW k \in Nat, NEW l \in 0..(p - 1), n = p * k + l
  PROVE  n \div p = k /\ n % p = l
  OBVIOUS

\* A tick ends at each multiple of the prescaler.
LEMMA NextTick ==
  ASSUME NEW n \in Nat, NEW p \in Nat \ {0}
  PROVE  (n + 1) \div p = IF (n + 1) % p = 0 THEN n \div p + 1 ELSE n \div p
<1>1. PICK k \in Nat, l \in 0..(p - 1) : k = n \div p /\ n = p * k + l
  BY Quotient
<1>2. CASE l = p - 1
  <2>1. p * (k + 1) = p * k + p
    OBVIOUS
  <2>2. PICK m \in Nat, j \in Nat : m = n + 1 /\ j = k + 1
    OBVIOUS
  <2>3. m = p * j + 0 /\ 0 \in 0..(p - 1)
    <3>1. PICK x \in Nat : x = p * k
      OBVIOUS
    <3>2. p * j = x + p
      BY <2>1, <2>2, <3>1
    <3>3. QED
      BY <1>1, <1>2, <2>2, <3>1, <3>2
  <2>4. m \div p = j /\ m % p = 0
    BY <2>3, QuotientIs
  <2>5. QED
    BY <1>1, <2>2, <2>4
<1>3. CASE l # p - 1
  <2>1. n + 1 = p * k + (l + 1) /\ l + 1 \in 1..(p - 1)
    BY <1>1, <1>3
  <2>2. (n + 1) \div p = k /\ (n + 1) % p = l + 1
    BY <2>1, QuotientIs
  <2>3. QED
    BY <1>1, <2>1, <2>2
<1>4. QED
  BY <1>2, <1>3

\* The event comes no later than the underflow, so that the counter is never seen below zero.
TimerInv ==
  /\ now \in Nat /\ running \in BOOLEAN /\ prescaler \in Prescalers /\ base \in Int /\ tcor \in Nat
  /\ unf \in BOOLEAN /\ unie \in BOOLEAN /\ pending = (unf /\ unie)
  /\ ~running => base >= 0
  /\ running => due \in Int /\ now <= due /\ due <= (base + 1) * prescaler

\* What schedule arms for a count of v.
LEMMA Scheduled ==
  ASSUME now \in Nat, NEW v \in Nat, NEW run \in BOOLEAN, NEW p \in Prescalers,
         Timer!SetCounter(v, run, p)
  PROVE  /\ base' \in Int
         /\ ~run => base' = v
         /\ run => base' = v + (now \div p) /\ due' \in Int /\ now < due' /\ due' <= (base' + 1) * p
<1>1. p \in Nat \ {0} /\ Clamp \in Nat \ {0}
  BY DevicesAssumption DEF DevicesAssumption
<1>2. PICK k \in Nat, l \in 0..(p - 1) : k = now \div p /\ l = now % p /\ now = p * k + l
  BY <1>1, Quotient
<1>3. base' = IF run THEN v + k ELSE v
  BY <1>2 DEF Timer!SetCounter, Timer!Ticks
<1>4. PICK x \in Nat : x = v * p
  BY <1>1
<1> PICK y \in Nat : y = k * p
  BY <1>1
<1> PICK c \in Int : c = x + p - l
  BY <1>1
<1>5. c > 0 /\ now + c = (v + k + 1) * p /\ (v + 1) * p - l = c
  <2>1. (v + 1) * p = x + p /\ p * k = y /\ (v + k + 1) * p = x + y + p
    BY <1>1, <1>4
  <2>2. now = y + l
    BY <1>2, <2>1
  <2>3. now + c = x + y + p /\ c > 0
    BY <1>1, <2>2
  <2>4. (v + 1) * p - l = c
    <3>1. (x + p) - l = c
      BY <1>1
    <3>2. (v + 1) * p = x + p
      BY <2>1
    <3>3. QED
      BY <3>1, <3>2, Zenon
  <2>5. QED
    BY <2>1, <2>3, <2>4
<1>6. ASSUME run PROVE due' = now + (IF c <= Clamp THEN c ELSE Clamp)
  <2>1. Timer!AtLeast0(v + 1) = v + 1
    BY DEF Timer!AtLeast0
  <2>2. Timer!ToUnderflow(v, p) = c
    BY <1>2, <1>5, <2>1, Zenon DEF Timer!ToUnderflow
  <2>3. Timer!Least(c, Clamp) = IF c <= Clamp THEN c ELSE Clamp
    BY <1>1, <1>4 DEF Timer!Least
  <2>4. due' = now + Timer!Least(c, Clamp)
    BY <1>5, <1>6, <2>2 DEF Timer!SetCounter, Timer!Schedule
  <2>5. QED
    BY <2>3, <2>4
<1>7. ASSUME run PROVE due' \in Int /\ now < due' /\ due' <= (base' + 1) * p
  <2>1. due' \in Int /\ now < due' /\ due' <= now + c
    BY <1>1, <1>4, <1>5, <1>6, <1>7
  <2>2. (base' + 1) * p = now + c
    <3>1. base' = v + k
      BY <1>3, <1>7
    <3>2. QED
      BY <1>5, <3>1
  <2>3. QED
    BY <2>1, <2>2
<1>8. base' \in Int
  <2>1. v \in Int /\ v + k \in Int
    OBVIOUS
  <2>2. QED
    BY <1>3, <2>1, Zenon
<1>9. (~run => base' = v) /\ (run => base' = v + (now \div p))
  BY <1>2, <1>3, Zenon
<1>10. QED
  BY <1>7, <1>8, <1>9

\* The counter is below zero in the cycle of the underflow only, whose event is due.
LEMMA UnderflowIsDue ==
  ASSUME TimerInv
  PROVE  /\ Timer!Counter \in Int
         /\ Timer!Counter < 0 => running /\ due = now /\ Timer!Counter = -1 /\ now % prescaler = 0
<1>1. prescaler \in Nat \ {0} /\ now \in Nat
  BY DevicesAssumption DEF DevicesAssumption, TimerInv
<1>2. PICK p \in Nat \ {0} : p = prescaler
  BY <1>1
<1>3. PICK k \in Nat, l \in 0..(p - 1) : k = now \div p /\ l = now % p /\ now = p * k + l
  BY <1>1, Quotient
<1>4. Timer!Counter = IF running THEN base - k ELSE base
  BY <1>2, <1>3 DEF Timer!Counter, Timer!Ticks
<1>5. ASSUME running, base - k < 0 PROVE due = now /\ base - k = -1 /\ l = 0
  <2>1. PICK d \in Int, b \in Int : d = due /\ b = base /\ now <= d /\ d <= (b + 1) * p /\ b - k < 0
    BY <1>2, <1>5 DEF TimerInv
  <2>2. PICK j \in Nat : k = b + 1 + j
    <3>1. k - b - 1 \in Nat /\ k = b + 1 + (k - b - 1)
      BY <2>1
    <3>2. QED
      BY <3>1
  <2>3. PICK x \in Int, y \in Nat : x = (b + 1) * p /\ y = j * p
    OBVIOUS
  <2>4. p * k = x + y
    BY <2>2, <2>3
  <2>5. y = 0 /\ l = 0 /\ d = now
    BY <1>3, <2>1, <2>3, <2>4
  <2>6. j = 0
    BY <2>3, <2>5
  <2>7. QED
    BY <2>1, <2>2, <2>5, <2>6
<1>6. QED
  BY <1>2, <1>3, <1>4, <1>5 DEF TimerInv

LEMMA RunsUntilUnderflow == ASSUME TimerInv, due # now PROVE Timer!Counter \in Nat
BY UnderflowIsDue

\* What the guest sees of a channel that has just taken the count v.
LEMMA CountTaken ==
  ASSUME now \in Nat, now' = now, NEW v \in Nat, NEW run \in BOOLEAN, running' = run,
         NEW p \in Prescalers, prescaler' = p, Timer!SetCounter(v, run, p),
         tcor' \in Nat, unf' \in BOOLEAN, unie' \in BOOLEAN, pending' = (unf' /\ unie')
  PROVE  TimerInv' /\ Timer!Counter' = v
<1>1. /\ base' \in Int
      /\ ~run => base' = v
      /\ run => base' = v + (now \div p) /\ due' \in Int /\ now < due' /\ due' <= (base' + 1) * p
  BY Scheduled
<1>2. Timer!Counter' = v
  <2>1. Timer!Counter' = IF run THEN base' - (now \div p) ELSE base'
    BY DEF Timer!Counter, Timer!Ticks
  <2>2. PICK k \in Nat : k = now \div p
    BY Quotient, DevicesAssumption DEF DevicesAssumption
  <2>3. run => base' - k = v
    BY <1>1, <2>2
  <2>4. QED
    BY <1>1, <2>1, <2>2, <2>3, Zenon
<1>3. TimerInv'
  <2>1. run => now' <= due'
    BY <1>1
  <2>2. run => due' <= (base' + 1) * prescaler'
    BY <1>1
  <2>3. ~run => base' >= 0
    BY <1>1
  <2>4. QED
    BY <1>1, <2>1, <2>2, <2>3 DEF TimerInv
<1>4. QED
  BY <1>2, <1>3

\* The counter as the hardware has it.
HwCount == IF Timer!Passed THEN Timer!AtLeast0(tcor + Timer!Counter + 1) ELSE Timer!Counter
HwFlag  == unf \/ Timer!Passed
HwIrq   == IF Timer!Passed THEN unie ELSE pending

LEMMA HwCases ==
  ASSUME TimerInv
  PROVE  /\ Timer!Passed => HwCount = tcor /\ HwFlag = TRUE /\ HwIrq = unie
         /\ ~Timer!Passed => HwCount = Timer!Counter /\ HwFlag = unf /\ HwIrq = pending
         /\ HwFlag \in BOOLEAN
<1>1. Timer!Passed => HwCount = tcor
  <2>1. Timer!Passed => Timer!Counter = -1
    BY UnderflowIsDue DEF Timer!Passed
  <2>2. Timer!AtLeast0(tcor + (-1) + 1) = tcor
    BY DEF Timer!AtLeast0, TimerInv
  <2>3. QED
    BY <2>1, <2>2, Zenon DEF HwCount
<1>2. QED
  BY <1>1 DEF HwCount, HwFlag, HwIrq, TimerInv

\* The event, or a read, after the underflow: for the hardware it has happened already.
LEMMA Reloaded ==
  ASSUME TimerInv, Timer!Passed, Timer!Reload(Timer!Counter),
         UNCHANGED <<now, running, prescaler, tcor, unie>>
  PROVE  TimerInv' /\ HwCount' = HwCount /\ HwFlag' = HwFlag /\ HwIrq' = HwIrq
<1>1. running /\ Timer!Counter = -1
  BY UnderflowIsDue DEF Timer!Passed
<1>2. Timer!SetCounter(tcor, running, prescaler)
  <2>1. Timer!SetCounter(Timer!AtLeast0(tcor + (-1) + 1), running, prescaler)
    BY <1>1, Zenon DEF Timer!Reload
  <2>2. Timer!AtLeast0(tcor + (-1) + 1) = tcor
    BY DEF Timer!AtLeast0, TimerInv
  <2>3. QED
    BY <2>1, <2>2, Zenon
<1>3. unf' = TRUE /\ pending' = unie
  BY DEF Timer!Reload
<1>4. TimerInv' /\ Timer!Counter' = tcor
  BY <1>2, <1>3, CountTaken DEF TimerInv
<1>5. ~Timer!Passed'
  BY <1>4 DEF Timer!Passed, TimerInv
<1>6. QED
  BY <1>3, <1>4, <1>5, HwCases DEF HwCount, HwFlag, HwIrq

\* A guest step that leaves the channel's count alone, or sets it.
LEMMA Rewritten ==
  ASSUME TimerInv, TimerInv', Timer!Counter \in Nat, Timer!Counter' \in Nat
  PROVE  /\ HwCount = Timer!Counter /\ HwFlag = unf /\ HwIrq = pending
         /\ HwCount' = Timer!Counter' /\ HwFlag' = unf' /\ HwIrq' = pending'
<1>1. ~Timer!Passed /\ ~Timer!Passed'
  BY DEF Timer!Passed
<1>2. unf \in BOOLEAN /\ unf' \in BOOLEAN
  BY DEF TimerInv
<1>3. QED
  BY <1>1, <1>2 DEF HwCount, HwFlag, HwIrq

\* A cycle passes: the hardware counts at each tick.
LEMMA CycleCounts ==
  ASSUME TimerInv, Timer!Cycle
  PROVE  /\ TimerInv' /\ now' = now + 1
         /\ IF running /\ now' % prescaler = 0
            THEN /\ HwCount' = IF HwCount = 0 THEN tcor ELSE HwCount - 1
                 /\ HwFlag' = (HwFlag \/ HwCount = 0)
                 /\ HwIrq' = (HwFlag' /\ unie)
            ELSE HwCount' = HwCount /\ HwFlag' = HwFlag /\ HwIrq' = HwIrq
<1>1. /\ due # now /\ now' = now + 1 /\ now \in Nat
      /\ UNCHANGED <<due, running, prescaler, base, tcor, unf, unie, pending>>
  BY DEF Timer!Cycle, TimerInv
<1>2. TimerInv'
  <2>1. running => now' <= due'
    BY <1>1 DEF TimerInv
  <2>2. QED
    BY <1>1, <2>1 DEF TimerInv
<1>3. Timer!Counter \in Nat
  BY <1>1, RunsUntilUnderflow
<1>4. HwCount = Timer!Counter /\ HwFlag = unf /\ HwIrq = pending
  <2>1. ~Timer!Passed
    BY <1>3 DEF Timer!Passed
  <2>2. QED
    BY <2>1, HwCases
<1>5. prescaler \in Nat \ {0}
  BY DevicesAssumption DEF DevicesAssumption, TimerInv
<1>6. PICK k \in Nat : k = now \div prescaler
  BY <1>1, <1>5, Quotient
<1>7. now' \div prescaler = IF now' % prescaler = 0 THEN k + 1 ELSE k
  BY <1>1, <1>5, <1>6, NextTick
<1>8. Timer!Counter = IF running THEN base - k ELSE base
  BY <1>6, Zenon DEF Timer!Counter, Timer!Ticks
<1>9. Timer!Counter' = IF running THEN base - (now' \div prescaler) ELSE base
  BY <1>1, Zenon DEF Timer!Counter, Timer!Ticks
<1>10. CASE running /\ now' % prescaler = 0
  <2>1. Timer!Counter = base - k /\ Timer!Counter' = base - (k + 1)
    BY <1>7, <1>8, <1>9, <1>10, Zenon
  <2>2. Timer!Counter' = Timer!Counter - 1
    BY <2>1 DEF TimerInv
  <2>3. Timer!Passed' <=> HwCount = 0
    BY <1>3, <1>4, <2>2 DEF Timer!Passed
  <2>4. /\ Timer!Passed' => HwCount' = tcor' /\ HwFlag' = TRUE /\ HwIrq' = unie'
        /\ ~Timer!Passed' => HwCount' = Timer!Counter' /\ HwFlag' = unf' /\ HwIrq' = pending'
    <3>1. tcor' \in Nat /\ unf' \in BOOLEAN
      BY <1>2 DEF TimerInv
    <3>2. Timer!Passed' => Timer!Counter' = -1
      BY <1>3, <1>4, <2>2, <2>3
    <3>3. Timer!AtLeast0(tcor' + (-1) + 1) = tcor'
      <4>1. Timer!AtLeast0(tcor + (-1) + 1) = tcor
        BY DEF Timer!AtLeast0, TimerInv
      <4>2. QED
        BY <1>1, <4>1
    <3>4. Timer!Passed' => HwCount' = tcor'
      BY <3>2, <3>3, Zenon DEF HwCount
    <3>5. QED
      BY <3>1, <3>4 DEF HwCount, HwFlag, HwIrq
  <2>5. pending = (unf /\ unie) /\ unf \in BOOLEAN /\ unie \in BOOLEAN
    BY DEF TimerInv
  <2>6. QED
    BY <1>1, <1>2, <1>4, <1>10, <2>2, <2>3, <2>4, <2>5
<1>11. CASE ~(running /\ now' % prescaler = 0)
  <2>1. Timer!Counter' = Timer!Counter
    BY <1>7, <1>8, <1>9, <1>11, Zenon
  <2>2. QED
    BY <1>1, <1>2, <1>3, <1>4, <1>11, <2>1, Rewritten
<1>12. QED
  BY <1>10, <1>11

\* What the code does in a step a hardware timer does in that step, or had done before.
LEMMA TimerStep ==
  ASSUME TimerInv, Timer!Next
  PROVE  TimerInv' /\ [Timer!HardwareTimer!Next]_<<now, Timer!HardwareTimer!channel>>
<1> DEFINE Stutters == now' = now /\ UNCHANGED <<running, prescaler, tcor, unie>>
                       /\ HwCount' = HwCount /\ HwFlag' = HwFlag /\ HwIrq' = HwIrq
<1>1. ASSUME Stutters PROVE UNCHANGED <<now, Timer!HardwareTimer!channel>>
  BY <1>1, Zenon DEF Timer!HardwareTimer!channel, HwCount, HwFlag, HwIrq
<1>2. CASE Timer!Cycle
  <2>1. UNCHANGED <<running, prescaler, tcor, unie>>
    BY <1>2 DEF Timer!Cycle
  <2>2. Timer!HardwareTimer!Cycle
    BY <1>2, <2>1, CycleCounts, Zenon DEF Timer!HardwareTimer!Cycle, HwCount, HwFlag, HwIrq
  <2>3. QED
    BY <1>2, <2>2, CycleCounts DEF Timer!HardwareTimer!Next
<1>3. CASE (Timer!OnEvent \/ Timer!ReadTcnt) /\ Timer!Passed
  <2>1. Timer!Reload(Timer!Counter) /\ UNCHANGED <<now, running, prescaler, tcor, unie>>
    <3>1. running /\ Timer!Counter < 0
      BY <1>3, UnderflowIsDue DEF Timer!Passed
    <3>2. QED
      BY <1>3, <3>1 DEF Timer!OnEvent, Timer!ReadTcnt
  <2>2. TimerInv' /\ Stutters
    BY <1>3, <2>1, Reloaded
  <2>3. QED
    BY <1>1, <2>2
<1>4. CASE Timer!OnEvent /\ ~Timer!Passed
  <2>1. /\ UNCHANGED <<now, running, prescaler, tcor, unie, base, unf, pending>>
        /\ ~(Timer!Counter < 0) /\ Timer!Counter \in Int
        /\ running => Timer!Schedule(Timer!Counter, running, prescaler)
    BY <1>4, UnderflowIsDue DEF Timer!OnEvent, Timer!Passed
  <2>2. Timer!Counter' = Timer!Counter
    BY <2>1, Zenon DEF Timer!Counter, Timer!Ticks
  <2>3. Timer!Counter \in Nat
    BY <2>1
  <2>4. TimerInv'
    <3>1. CASE running
      <4>1. Timer!SetCounter(Timer!Counter, running, prescaler)
        <5>1. base = Timer!Counter + Timer!Ticks(prescaler)
          <6>1. PICK k \in Nat : k = now \div prescaler
            BY Quotient, DevicesAssumption DEF DevicesAssumption, TimerInv
          <6>2. Timer!Counter = base - k /\ Timer!Ticks(prescaler) = k
            BY <3>1, <6>1, Zenon DEF Timer!Counter, Timer!Ticks
          <6>3. QED
            BY <6>2 DEF TimerInv
        <5>2. QED
          BY <2>1, <3>1, <5>1, Zenon DEF Timer!SetCounter
      <4>2. QED
        BY <2>1, <2>3, <4>1, CountTaken DEF TimerInv
    <3>2. CASE ~running
      BY <2>1, <3>2 DEF TimerInv
    <3>3. QED
      BY <3>1, <3>2
  <2>5. Stutters
    BY <2>1, <2>2, <2>3, <2>4, Rewritten
  <2>6. QED
    BY <1>1, <2>4, <2>5
<1>5. CASE Timer!ReadTcnt /\ ~Timer!Passed
  <2>1. UNCHANGED <<now, due, running, prescaler, base, tcor, unf, unie, pending>>
    BY <1>5 DEF Timer!ReadTcnt, Timer!Passed
  <2>2. TimerInv' /\ Timer!Counter' = Timer!Counter
    BY <2>1 DEF TimerInv, Timer!Counter, Timer!Ticks
  <2>3. Stutters
    BY <2>1, <2>2, Zenon DEF HwCount, HwFlag, HwIrq, Timer!Passed
  <2>4. QED
    BY <1>1, <2>2, <2>3
<1> DEFINE Writes(v) ==
             /\ TimerInv' /\ now' = now /\ Timer!Counter \in Nat /\ v \in Nat /\ Timer!Counter' = v
<1>6. ASSUME NEW v, Writes(v)
      PROVE  /\ HwCount = Timer!Counter /\ HwFlag = unf /\ HwIrq = pending
             /\ HwCount' = v /\ HwFlag' = unf' /\ HwIrq' = pending'
  BY <1>6, Rewritten
<1>7. CASE \E on \in BOOLEAN : Timer!WriteTstr(on)
  <2>1. PICK on \in BOOLEAN : Timer!WriteTstr(on)
    BY <1>7
  <2>2. /\ due # now /\ running' = on /\ Timer!SetCounter(Timer!Counter, on, prescaler)
        /\ UNCHANGED <<now, prescaler, tcor, unf, unie, pending>>
    BY <2>1 DEF Timer!WriteTstr
  <2>3. Writes(Timer!Counter)
    BY <2>2, RunsUntilUnderflow, CountTaken DEF TimerInv
  <2>4. Timer!HardwareTimer!Write
    <3>1. UNCHANGED <<HwCount, HwFlag, HwIrq>>
      BY <1>6, <2>2, <2>3
    <3>2. QED
      BY <2>2, <3>1, Zenon DEF Timer!HardwareTimer!Write, HwCount, HwFlag, HwIrq
  <2>5. QED
    BY <2>3, <2>4 DEF Timer!HardwareTimer!Next
<1>8. CASE \E v \in Counts : Timer!WriteTcor(v)
  <2>1. PICK v \in Counts : Timer!WriteTcor(v)
    BY <1>8
  <2>2. /\ due # now /\ tcor' = v
        /\ UNCHANGED <<now, due, running, prescaler, base, unf, unie, pending>>
    BY <2>1 DEF Timer!WriteTcor
  <2>3. v \in Nat /\ Timer!Counter \in Nat
    BY <2>2, RunsUntilUnderflow, DevicesAssumption DEF DevicesAssumption
  <2>4. Writes(Timer!Counter)
    <3>1. Timer!Counter' = Timer!Counter
      BY <2>2, Zenon DEF Timer!Counter, Timer!Ticks
    <3>2. QED
      BY <2>2, <2>3, <3>1 DEF TimerInv
  <2>5. Timer!HardwareTimer!Write
    <3>1. UNCHANGED <<HwCount, HwFlag, HwIrq>>
      BY <1>6, <2>2, <2>4
    <3>2. QED
      BY <2>2, <2>3, <3>1, Zenon DEF Timer!HardwareTimer!Write, HwCount, HwFlag, HwIrq
  <2>6. QED
    BY <2>4, <2>5 DEF Timer!HardwareTimer!Next
<1>9. CASE \E v \in Counts : Timer!WriteTcnt(v)
  <2>1. PICK v \in Counts : Timer!WriteTcnt(v)
    BY <1>9
  <2>2. /\ due # now /\ Timer!SetCounter(v, running, prescaler)
        /\ UNCHANGED <<now, running, prescaler, tcor, unf, unie, pending>>
    BY <2>1 DEF Timer!WriteTcnt
  <2>3. v \in Nat
    BY DevicesAssumption DEF DevicesAssumption
  <2>4. Writes(v)
    BY <2>2, <2>3, RunsUntilUnderflow, CountTaken DEF TimerInv
  <2>5. Timer!HardwareTimer!Write
    <3>1. HwCount' \in Nat /\ UNCHANGED <<HwFlag, HwIrq>>
      BY <1>6, <2>2, <2>4
    <3>2. QED
      BY <2>2, <3>1, Zenon DEF Timer!HardwareTimer!Write, HwCount, HwFlag, HwIrq
  <2>6. QED
    BY <2>4, <2>5 DEF Timer!HardwareTimer!Next
<1>10. CASE \E keep, ie \in BOOLEAN, p \in Prescalers : Timer!WriteTcr(keep, ie, p)
  <2>1. PICK keep \in BOOLEAN, ie \in BOOLEAN, p \in Prescalers : Timer!WriteTcr(keep, ie, p)
    BY <1>10
  <2>2. /\ due # now /\ unf' = (unf /\ keep) /\ unie' = ie /\ pending' = (unf' /\ ie)
        /\ prescaler' = p /\ UNCHANGED <<now, running, tcor>>
        /\ IF p = prescaler THEN UNCHANGED <<base, due>>
           ELSE Timer!SetCounter(Timer!Counter, running, p)
    BY <2>1 DEF Timer!WriteTcr
  <2>3. Timer!Counter \in Nat
    BY <2>2, RunsUntilUnderflow
  <2>4. unf' \in BOOLEAN /\ unf' \in {unf, FALSE}
    BY <2>2 DEF TimerInv
  <2>5. Writes(Timer!Counter)
    <3>1. CASE p = prescaler
      <4>1. Timer!Counter' = Timer!Counter
        BY <2>2, <3>1, Zenon DEF Timer!Counter, Timer!Ticks
      <4>2. QED
        BY <2>2, <2>3, <2>4, <3>1, <4>1 DEF TimerInv
    <3>2. CASE p # prescaler
      BY <2>2, <2>3, <2>4, <3>2, CountTaken DEF TimerInv
    <3>3. QED
      BY <3>1, <3>2
  <2>6. Timer!HardwareTimer!Write
    <3>1. p \in Nat \ {0}
      BY DevicesAssumption DEF DevicesAssumption
    <3>2. /\ prescaler' \in Nat \ {0} /\ unie' \in BOOLEAN /\ HwFlag' \in {HwFlag, FALSE}
          /\ HwIrq' = (HwFlag' /\ unie') /\ UNCHANGED <<running, HwCount, tcor>> /\ now' = now
      BY <1>6, <2>2, <2>4, <2>5, <3>1
    <3>3. QED
      BY <3>2, Zenon DEF Timer!HardwareTimer!Write, HwCount, HwFlag, HwIrq
  <2>7. QED
    BY <2>5, <2>6 DEF Timer!HardwareTimer!Next
<1>11. QED
  BY <1>2, <1>3, <1>4, <1>5, <1>7, <1>8, <1>9, <1>10 DEF Timer!Next

--------------------------------------------------------------------------------
(* G2 DMA. *)

G2Inv ==
  /\ G2!BusyUntilAnnounced /\ G2!EndsWhereItCopied
  /\ (kept /\ ~announced) =>
       reg.star = copied.star /\ reg.stag = copied.stag /\ reg.len = copied.len

Channels == [st : BOOLEAN, en : BOOLEAN, stopped : BOOLEAN, len : Nat, once : BOOLEAN,
             star : Nat, stag : Nat]
G2Type == reg \in Channels /\ armed \in BOOLEAN /\ kept \in BOOLEAN /\ announced \in BOOLEAN

LEMMA FinishedFields ==
  ASSUME NEW r \in Channels
  PROVE  LET f == G2!Finished(r) IN
         /\ f \in Channels
         /\ ~f.st /\ f.stopped /\ f.len = 0
         /\ f.star = r.star + r.len /\ f.stag = r.stag + r.len
<1> DEFINE With(e) == [r EXCEPT !.en = e, !.star = @ + r.len, !.stag = @ + r.len,
                               !.len = 0, !.once = FALSE, !.st = FALSE, !.stopped = TRUE]
           Good(f) == /\ f \in Channels
                      /\ ~f.st /\ f.stopped /\ f.len = 0
                      /\ f.star = r.star + r.len /\ f.stag = r.stag + r.len
<1>1. ASSUME NEW e \in BOOLEAN PROVE Good(With(e))
  <2> DEFINE moved == [r EXCEPT !.en = e, !.star = @ + r.len, !.stag = @ + r.len]
  <2>1. moved \in Channels /\ moved.star = r.star + r.len /\ moved.stag = r.stag + r.len
    <3>1. r.star + r.len \in Nat /\ r.stag + r.len \in Nat
      BY DEF Channels
    <3>2. QED
      BY <3>1 DEF Channels
  <2> DEFINE ended == [moved EXCEPT !.len = 0, !.once = FALSE]
  <2>2. /\ ended \in Channels /\ ended.len = 0
        /\ ended.star = moved.star /\ ended.stag = moved.stag
    <3> HIDE DEF moved
    <3>1. QED
      BY <2>1 DEF Channels
  <2>3. With(e) = [ended EXCEPT !.st = FALSE, !.stopped = TRUE]
    OBVIOUS
  <2> HIDE DEF moved, ended, With
  <2>4. QED
    BY <2>1, <2>2, <2>3 DEF Channels
<1>2. G2!Finished(r) = With(r.en /\ ~r.once)
  BY Zenon DEF G2!Finished
<1>3. (r.en /\ ~r.once) \in BOOLEAN
  OBVIOUS
<1> HIDE DEF With, Good
<1>4. Good(G2!Finished(r))
  BY <1>1, <1>2, <1>3, Zenon
<1>5. QED
  BY <1>4, Zenon DEF Good

LEMMA G2Keeps == ASSUME G2Type, G2Inv, G2!Next PROVE G2Type' /\ G2Inv'
<1> USE DEF G2Type, G2Inv, G2!BusyUntilAnnounced, G2!EndsWhereItCopied
<1>1. CASE G2!Finish
  BY <1>1, FinishedFields DEF G2!Finish
<1>2. CASE G2!Start
  <2>1. CASE G2!Refused(reg)
    BY <1>2, <2>1 DEF G2!Start, Channels
  <2>2. CASE ~G2!Refused(reg)
    <3> DEFINE busy == [reg EXCEPT !.st = TRUE, !.stopped = FALSE]
    <3>1. /\ busy \in Channels /\ busy.st /\ ~busy.stopped
          /\ busy.len = reg.len /\ busy.star = reg.star /\ busy.stag = reg.stag
      BY DEF Channels
    <3>2. G2!Begin /\ kept' = TRUE
          /\ copied' = [star |-> reg.star, stag |-> reg.stag, len |-> reg.len]
          /\ ~reg.st
      BY <1>2, <2>2 DEF G2!Start
    <3> HIDE DEF busy
    <3>3. CASE reg.len \in AtOnce
      <4>1. reg' = G2!Finished(busy) /\ announced' = TRUE /\ armed' = armed
        BY <3>2, <3>3 DEF G2!Begin, busy
      <4>2. QED
        BY <3>1, <3>2, <4>1, FinishedFields
    <3>4. CASE reg.len \notin AtOnce
      <4>1. reg' = busy /\ announced' = FALSE /\ armed' = TRUE
        BY <3>2, <3>4 DEF G2!Begin, busy
      <4>2. QED
        BY <3>1, <3>2, <4>1
    <3>5. QED
      BY <3>3, <3>4
  <2>3. QED
    BY <2>1, <2>2
<1>3. CASE G2!WriteRegister
  <2>1. \/ \E b \in BOOLEAN : reg' = [reg EXCEPT !.en = b] /\ kept' = kept
        \/ /\ \/ \E n \in Nat, b \in BOOLEAN : reg' = [reg EXCEPT !.len = n, !.once = b]
              \/ \E a \in Nat : reg' = [reg EXCEPT !.star = a]
              \/ \E a \in Nat : reg' = [reg EXCEPT !.stag = a]
           /\ kept' = FALSE
    <3>1. G2Lengths \subseteq Nat /\ G2!Addresses \subseteq Nat
      BY DevicesAssumption DEF DevicesAssumption, G2!Addresses
    <3>2. QED
      BY <1>3, <3>1, Zenon DEF G2!WriteRegister
  <2>2. /\ reg' \in Channels /\ reg'.st = reg.st /\ reg'.stopped = reg.stopped
        /\ kept' \in BOOLEAN
        /\ kept' => kept /\ reg'.star = reg.star /\ reg'.stag = reg.stag /\ reg'.len = reg.len
    BY <2>1 DEF Channels
  <2>3. QED
    BY <1>3, <2>2 DEF G2!WriteRegister
<1>4. CASE \E i \in {"done", "error"} : G2!Acknowledge(i)
  BY <1>4 DEF G2!Acknowledge
<1>5. QED
  BY <1>1, <1>2, <1>3, <1>4 DEF G2!Next

--------------------------------------------------------------------------------
(* The memory card. *)

CardInv ==
  /\ Card!AnsweredIsSaved
  /\ process \in {"opening", "writing", "up"} => file.kind # "other"

LEMMA CardKeeps ==
  ASSUME CardInv, Card!Next
  PROVE  CardInv' /\ (file.kind = "other" => file' = file)
                  /\ (process = "down" /\ file.kind # "card" => process' # "up")
<1> USE DEF CardInv, Card!AnsweredIsSaved
<1>1. CASE \E create \in BOOLEAN : Card!Boot(create)
  BY <1>1 DEF Card!Boot, Card!Adoptable
<1>2. CASE \E b \in Blocks, q \in Quarters, d \in Data : Card!BlockWrite(b, q, d)
  BY <1>2 DEF Card!BlockWrite
<1>3. CASE Card!Open
  BY <1>3 DEF Card!Open, Card!NoCard
<1>4. CASE Card!SaveFails
  BY <1>4 DEF Card!SaveFails
<1>5. CASE Card!Saved
  BY <1>5 DEF Card!Saved, Card!Card
<1>6. CASE Card!Stop
  BY <1>6 DEF Card!Stop
<1>7. QED
  BY <1>1, <1>2, <1>3, <1>4, <1>5, <1>6 DEF Card!Next

--------------------------------------------------------------------------------
(* The GD-ROM command queue. *)

Running == status \in {"busy", "complete"} /\ command.kind = "read"

GdType ==
  /\ status \in {"ok", "busy", "complete", "err"}
  /\ command \in Gd!Commands
  /\ remaining \in Nat /\ total \in Nat /\ position \in Nat
  /\ sectors \in [ReadPlaces -> DiscSectors \cup {None}]

\* What has been read of the command that holds the queue: nothing until it is started, then
\* the sectors up to the position.
ReadInv ==
  /\ (Running /\ total = 0) => remaining = 0
  /\ (status = "busy" /\ command.kind # "read") => remaining = 0
  /\ (Running /\ total # 0) =>
       /\ total = command.n /\ position + remaining = command.n
       /\ \A i \in Nat : (i < position /\ command.s + i \in ReadableSectors) =>
            sectors[command.d + i] = command.s + i
  /\ (status = "complete" /\ command.kind = "read") => total # 0 /\ remaining = 0

LEMMA CommandFields ==
  ASSUME DevicesAssumption, NEW c \in Gd!Commands
  PROVE  /\ c.s \in Nat /\ c.n \in Nat /\ c.d \in Nat
         /\ c.kind = "read" =>
              \A i \in 0..c.n - 1 : c.s + i \in DiscSectors /\ c.d + i \in ReadPlaces
<1>1. CASE c \in {x \in Gd!Reads : \A i \in 0..x.n - 1 :
                              x.s + i \in DiscSectors /\ x.d + i \in ReadPlaces}
  BY <1>1 DEF DevicesAssumption, Gd!Reads
<1>2. CASE c \in {Gd!Other("init"), Gd!Other("immediate"), Gd!Other("unknown")}
  BY <1>2 DEF Gd!Other
<1>3. QED
  BY <1>1, <1>2, Zenon DEF Gd!Commands

\* A batch lies within what the command asked for.
LEMMA BatchDelivers ==
  ASSUME DevicesAssumption, GdType, ReadInv, status = "busy", command.kind = "read",
         remaining # 0, NEW b \in 1..remaining, Gd!TransferBatch(b)
  PROVE  /\ total # 0 /\ position + b <= command.n
         /\ \A p \in ReadPlaces : sectors'[p] # sectors[p] =>
              p \in command.d..command.d + command.n - 1
         /\ sectors' \in [ReadPlaces -> DiscSectors \cup {None}]
         /\ \A i \in Nat : (i < position + b /\ command.s + i \in ReadableSectors) =>
              sectors'[command.d + i] = command.s + i
<1>1. /\ command.s \in Nat /\ command.n \in Nat /\ command.d \in Nat
      /\ \A i \in 0..command.n - 1 : command.s + i \in DiscSectors /\ command.d + i \in ReadPlaces
  BY CommandFields DEF GdType
<1>2. /\ total # 0 /\ total = command.n /\ position + remaining = command.n
      /\ position \in Nat /\ remaining \in Nat /\ b \in Nat /\ b >= 1 /\ b <= remaining
  BY DEF ReadInv, Running, GdType
<1>3. position + b <= command.n
  BY <1>1, <1>2
<1> DEFINE Now(p) == \E i \in position..position + b - 1 :
                       p = command.d + i /\ command.s + i \in ReadableSectors
<1>4. sectors' = [p \in ReadPlaces |-> IF Now(p) THEN command.s + (p - command.d) ELSE sectors[p]]
  BY DEF Gd!TransferBatch
<1>5. \A p \in ReadPlaces : Now(p) =>
        /\ p \in command.d..command.d + command.n - 1
        /\ command.s + (p - command.d) \in DiscSectors
  BY <1>1, <1>2, <1>3
<1>6. \A i \in Nat : (i < position + b /\ command.s + i \in ReadableSectors) =>
        sectors'[command.d + i] = command.s + i
  <2> SUFFICES ASSUME NEW i \in Nat, i < position + b, command.s + i \in ReadableSectors
               PROVE  sectors'[command.d + i] = command.s + i
    OBVIOUS
  <2>1. command.d + i \in ReadPlaces /\ command.s + ((command.d + i) - command.d) = command.s + i
    BY <1>1, <1>2, <1>3
  <2>2. CASE i < position
    <3>1. ~Now(command.d + i)
      BY <2>2, <1>1, <1>2
    <3>2. sectors[command.d + i] = command.s + i
      BY <2>2, <1>2 DEF ReadInv, Running
    <3>3. QED
      BY <3>1, <3>2, <2>1, <1>4
  <2>3. CASE ~(i < position)
    <3>1. Now(command.d + i)
      BY <2>3, <1>1, <1>2
    <3> HIDE DEF Now
    <3>2. QED
      BY <3>1, <2>1, <1>4
  <2>4. QED
    BY <2>2, <2>3
<1> HIDE DEF Now
<1>7. sectors' \in [ReadPlaces -> DiscSectors \cup {None}]
  BY <1>4, <1>5 DEF GdType
<1>8. \A p \in ReadPlaces : sectors'[p] # sectors[p] => p \in command.d..command.d + command.n - 1
  BY <1>4, <1>5
<1>9. QED
  BY <1>2, <1>3, <1>6, <1>7, <1>8

LEMMA ReadKeeps ==
  ASSUME DevicesAssumption, GdType, ReadInv, Gd!Next
  PROVE  /\ GdType' /\ ReadInv'
         /\ \A p \in ReadPlaces : sectors'[p] # sectors[p] =>
              /\ status = "busy" /\ command.kind = "read"
              /\ p \in command.d..command.d + command.n - 1
<1> USE DEF GdType, ReadInv, Running
<1>1. CASE Gd!Tick
  <2>1. CASE status # "busy" \/ remaining = 0
    BY <1>1, <2>1 DEF Gd!Tick, Gd!read
  <2>2. CASE status = "busy" /\ remaining # 0
    <3> DEFINE b == IF remaining < Batch THEN remaining ELSE Batch
    <3>1. b \in 1..remaining
      BY <2>2 DEF DevicesAssumption
    <3>2. /\ Gd!TransferBatch(b) /\ UNCHANGED command
          /\ status' = IF remaining' = 0 THEN "complete" ELSE "busy"
      BY <1>1, <2>2 DEF Gd!Tick
    <3> HIDE DEF b
    <3>3. command.kind = "read"
      BY <2>2
    <3>4. /\ total # 0 /\ position + b <= command.n
          /\ \A p \in ReadPlaces : sectors'[p] # sectors[p] =>
               p \in command.d..command.d + command.n - 1
          /\ sectors' \in [ReadPlaces -> DiscSectors \cup {None}]
          /\ \A i \in Nat : (i < position + b /\ command.s + i \in ReadableSectors) =>
               sectors'[command.d + i] = command.s + i
      BY <3>1, <3>2, <3>3, <2>2, BatchDelivers DEF GdType, ReadInv
    <3>5. position' = position + b /\ remaining' = remaining - b /\ total' = total
      BY <3>2 DEF Gd!TransferBatch
    <3>6. command.n \in Nat /\ total = command.n /\ position + remaining = command.n
      BY <3>3, <3>4, <2>2, CommandFields
    <3>7. QED
      BY <3>1, <3>2, <3>3, <3>4, <3>5, <3>6, <2>2
  <2>3. QED
    BY <2>1, <2>2
<1>2. CASE \E c \in Gd!Commands : Gd!Request(c)
  BY <1>2 DEF Gd!Request
<1>3. CASE Gd!ExecServer
  <2>1. CASE command.kind = "read"
    <3>1. command.n \in Nat
      BY CommandFields
    <3>2. CASE remaining = 0 /\ total = 0
      <4>1. /\ position' = 0 /\ remaining' = command.n /\ total' = command.n
            /\ UNCHANGED <<status, command, sectors>> /\ status = "busy"
        BY <1>3, <2>1, <3>2 DEF Gd!ExecServer, Gd!ExecRead, Gd!ExecOther
      <4>2. QED
        BY <4>1, <3>1, <2>1
    <3>3. CASE ~(remaining = 0 /\ total = 0)
      BY <1>3, <2>1, <3>3 DEF Gd!ExecServer, Gd!ExecRead, Gd!ExecOther, Gd!read
    <3>4. QED
      BY <3>2, <3>3
  <2>2. CASE command.kind # "read"
    BY <1>3, <2>2 DEF Gd!ExecServer, Gd!ExecRead, Gd!ExecOther
  <2>3. QED
    BY <2>1, <2>2
<1>4. CASE \E id \in Gd!Ids : Gd!GetCmdStat(id)
  BY <1>4 DEF Gd!GetCmdStat, Gd!read
<1>5. CASE \E id \in 0..Gd!Forgot : Gd!ReadAbort(id)
  BY <1>5 DEF Gd!ReadAbort
<1>6. CASE Gd!G1DmaEnd
  BY <1>6 DEF Gd!G1DmaEnd, Gd!read
<1>7. CASE Gd!Reset
  BY <1>7 DEF Gd!Reset, Gd!read
<1>8. CASE Gd!InitSystem
  BY <1>8 DEF Gd!InitSystem, Gd!Commands, Gd!Other
<1>9. QED
  BY <1>1, <1>2, <1>3, <1>4, <1>5, <1>6, <1>7, <1>8, Zenon DEF Gd!Next

\* The request that holds the queue is the newest and has not been told of its end.
ReportInv ==
  /\ told \in [Gd!Ids -> Nat] /\ nextRequest \in 1..Gd!Forgot
  /\ Gd!ReportedOnce
  /\ status # "ok" => lastRequest \in Gd!Ids /\ lastRequest < nextRequest /\ told[lastRequest] = 0

LEMMA ReportKeeps ==
  ASSUME DevicesAssumption, ReportInv, Gd!Next
  PROVE  ReportInv'
<1> USE DEF ReportInv, Gd!ReportedOnce, Gd!Ids, Gd!Forgot, DevicesAssumption
<1>1. CASE Gd!Tick
  BY <1>1 DEF Gd!Tick
<1>2. CASE \E c \in Gd!Commands : Gd!Request(c)
  <2>1. /\ nextRequest \in Gd!Ids /\ told[nextRequest] = 0
    BY <1>2 DEF Gd!Request
  <2>2. QED
    BY <1>2, <2>1 DEF Gd!Request
<1>3. CASE Gd!ExecServer
  BY <1>3 DEF Gd!ExecServer, Gd!ExecRead, Gd!ExecOther
<1>4. CASE \E id \in Gd!Ids : Gd!GetCmdStat(id)
  BY <1>4 DEF Gd!GetCmdStat
<1>5. CASE \E id \in 0..Gd!Forgot : Gd!ReadAbort(id)
  BY <1>5 DEF Gd!ReadAbort
<1>6. CASE Gd!G1DmaEnd
  BY <1>6 DEF Gd!G1DmaEnd
<1>7. CASE Gd!Reset
  BY <1>7 DEF Gd!Reset
<1>8. CASE Gd!InitSystem
  BY <1>8 DEF Gd!InitSystem
<1>9. QED
  BY <1>1, <1>2, <1>3, <1>4, <1>5, <1>6, <1>7, <1>8, Zenon DEF Gd!Next

--------------------------------------------------------------------------------
(* The Maple bus. *)

\* What waits to be written is the newest list's, while its event is armed.
BusInv ==
  /\ Bus!RepliesOfNewestList /\ Bus!BusyIsArmed
  /\ list \in Lists /\ started \in Lists /\ left \in Nat
  /\ mdst \in BOOLEAN
  /\ left > 0 => out = Bus!Replies(started)
  /\ left = 0 => out = {}
  /\ DOMAIN ram = Bus!RecvAreas

\* A frame's reply is the only one for its receive area.
LEMMA ReplyFound ==
  ASSUME DevicesAssumption, NEW l \in Lists, NEW a, a # 0, NEW f \in Frames[l], f.recv = a
  PROVE  /\ a \in Bus!RecvAreas
         /\ \E r \in Bus!Replies(l) : r.recv = a
         /\ \A r \in Bus!Replies(l) : r.recv = a => r.reply = Bus!ReplyTo(f)
<1>1. f \in UNION {Frames[k] : k \in Lists}
  OBVIOUS
<1>2. a \in Bus!RecvAreas
  BY <1>1 DEF Bus!RecvAreas
<1>3. [recv |-> f.recv, reply |-> Bus!ReplyTo(f)] \in Bus!Replies(l)
  BY DEF Bus!Replies
<1>4. ASSUME NEW r \in Bus!Replies(l), r.recv = a PROVE r.reply = Bus!ReplyTo(f)
  <2>1. PICK g \in Frames[l] : r = [recv |-> g.recv, reply |-> Bus!ReplyTo(g)]
    BY <1>4 DEF Bus!Replies
  <2>2. g.recv = f.recv
    BY <1>4, <2>1
  <2>3. g = f
    BY <2>2 DEF DevicesAssumption
  <2>4. QED
    BY <2>1, <2>3
<1>5. QED
  BY <1>2, <1>3, <1>4

LEMMA StartKeeps ==
  ASSUME DevicesAssumption, BusInv, Bus!StartDma, list' \in Lists
  PROVE  BusInv'
<1>1. WireTime[list] \in Nat /\ WireTime[list] > 0
  BY DEF DevicesAssumption, BusInv
<1>2. \A a \in Bus!RecvAreas : ram'[a][1] = "old"
  BY DEF Bus!StartDma
<1>3. /\ mdst' = TRUE /\ out' = Bus!Replies(list) /\ left' = WireTime[list]
      /\ started' = list /\ answered' = FALSE /\ list \in Lists
      /\ DOMAIN ram' = Bus!RecvAreas
  BY DEF Bus!StartDma, Bus!NewOut, BusInv
<1>4. QED
  BY <1>1, <1>2, <1>3 DEF BusInv, Bus!RepliesOfNewestList, Bus!BusyIsArmed

LEMMA CompleteKeeps ==
  ASSUME DevicesAssumption, BusInv, Bus!Complete
  PROVE  BusInv'
<1>1. out = Bus!Replies(started) /\ started \in Lists /\ left = 1 /\ left' = 0 /\ out' = {}
      /\ UNCHANGED <<list, started>>
  BY DEF Bus!Complete, BusInv, Bus!regs
<1>0. ~mdst' /\ mdst' \in BOOLEAN
  BY Zenon DEF Bus!Complete, Bus!BusyAfter
<1>2. CASE ~mden
  BY <1>0, <1>1, <1>2 DEF Bus!Complete, BusInv, Bus!RepliesOfNewestList, Bus!BusyIsArmed
<1>3. CASE mden
  <2> DEFINE Of(a) == CHOOSE r \in out : r.recv = a
  <2>1. ram' = [a \in Bus!RecvAreas |-> IF \E r \in out : r.recv = a
                                        THEN <<"new", Of(a).reply>> ELSE ram[a]]
    BY <1>3 DEF Bus!Complete
  <2>2. ASSUME NEW a \in Bus!RecvAreas, \E r \in out : r.recv = a
        PROVE  Of(a) \in out /\ Of(a).recv = a
    BY <2>2
  <2>3. \A r \in out : r = [recv |-> r.recv, reply |-> r.reply]
    BY <1>1 DEF Bus!Replies
  <2> HIDE DEF Of
  <2>4. ASSUME NEW a \in Bus!RecvAreas, ram'[a][1] = "new"
        PROVE  [recv |-> a, reply |-> ram'[a][2]] \in Bus!Replies(started)
    <3>1. CASE \E r \in out : r.recv = a
      <4>1. Of(a) \in out /\ Of(a).recv = a
        BY <2>2, <3>1
      <4>2. ram'[a][2] = Of(a).reply
        BY <2>1, <3>1
      <4>3. QED
        BY <4>1, <4>2, <2>3, <1>1
    <3>2. CASE ~\E r \in out : r.recv = a
      <4>1. ram'[a] = ram[a]
        BY <2>1, <3>2
      <4>2. QED
        BY <4>1, <2>4 DEF BusInv, Bus!RepliesOfNewestList
    <3>3. QED
      BY <3>1, <3>2
  <2>5. ASSUME NEW f \in Frames[started], f.recv # 0
        PROVE  ram'[f.recv] = <<"new", Bus!ReplyTo(f)>>
    <3>1. /\ f.recv \in Bus!RecvAreas
          /\ \E r \in out : r.recv = f.recv
          /\ \A r \in out : r.recv = f.recv => r.reply = Bus!ReplyTo(f)
      BY <1>1, <2>5, ReplyFound
    <3>2. Of(f.recv) \in out /\ Of(f.recv).recv = f.recv
      BY <3>1, <2>2
    <3>3. QED
      BY <3>1, <3>2, <2>1
  <2>6. DOMAIN ram' = Bus!RecvAreas
    BY <2>1
  <2>7. QED
    BY <1>0, <1>1, <2>4, <2>5, <2>6 DEF BusInv, Bus!RepliesOfNewestList, Bus!BusyIsArmed
<1>4. QED
  BY <1>2, <1>3

LEMMA BusKeeps ==
  ASSUME DevicesAssumption, BusInv, Bus!Next
  PROVE  BusInv'
<1>1. CASE Bus!Tick
  BY <1>1 DEF Bus!Tick, Bus!regs, BusInv, Bus!RepliesOfNewestList, Bus!BusyIsArmed
<1>2. CASE Bus!VBlank
  <2>1. list' = list
    BY <1>2 DEF Bus!VBlank, Bus!regs
  <2>2. CASE Bus!StartDma
    BY <2>1, <2>2, StartKeeps DEF BusInv
  <2>3. CASE UNCHANGED <<mdst, out, left, ram, started, answered>>
    BY <2>1, <2>3 DEF BusInv, Bus!RepliesOfNewestList, Bus!BusyIsArmed
  <2>4. QED
    BY <1>2, <2>2, <2>3 DEF Bus!VBlank
<1>3. CASE Bus!Complete
  BY <1>3, CompleteKeeps
<1>4. CASE Bus!WriteMdst
  BY <1>4, StartKeeps DEF Bus!WriteMdst, Bus!regs, BusInv
<1>5. CASE Bus!WriteOther
  BY <1>5 DEF Bus!WriteOther, BusInv, Bus!RepliesOfNewestList, Bus!BusyIsArmed
<1>6. CASE Bus!Acknowledge
  BY <1>6 DEF Bus!Acknowledge, Bus!regs, BusInv, Bus!RepliesOfNewestList, Bus!BusyIsArmed
<1>7. CASE \E on \in BOOLEAN : Bus!WriteMden(on)
  BY <1>7 DEF Bus!WriteMden, BusInv, Bus!RepliesOfNewestList, Bus!BusyIsArmed
<1>8. QED
  BY <1>1, <1>2, <1>3, <1>4, <1>5, <1>6, <1>7, Zenon DEF Bus!Next, Bus!Step

--------------------------------------------------------------------------------
(* The flash. *)

BlockType == [id : BlockIds \cup {0}, data : SUBSET Bits]

\* An id is in one block only, and that block is among those a lookup looks at.
RomInv ==
  /\ free \subseteq Rom!Physical
  /\ block \in [Rom!Physical -> BlockType]
  /\ stored \in [BlockIds -> SUBSET SUBSET Bits]
  /\ \A p \in Rom!Physical : block[p].id \in BlockIds => p \in Rom!Searched
  /\ \A p, q \in Rom!Physical : block[p].id = block[q].id /\ block[p].id \in BlockIds => p = q
  /\ \A id \in BlockIds : stored[id] # {} =>
       \E p \in Rom!Physical : block[p].id = id /\ block[p].data \in stored[id]

LEMMA LowestIsLeast ==
  ASSUME NEW S, S \subseteq Nat, S # {}
  PROVE  Rom!Lowest(S) \in S /\ \A q \in S : Rom!Lowest(S) <= q
<1> DEFINE T == {1..n : n \in S}
<1>1. T # {} /\ T \subseteq FiniteSubsetsOf(Nat)
  <2>1. \A n \in S : 1..n \in SUBSET Nat /\ IsFiniteSet(1..n)
    BY FS_Interval
  <2>2. QED
    BY <2>1 DEF FiniteSubsetsOf
<1>2. \E X \in T : \A Y \in T : ~(<<Y, X>> \in StrictSubsetOrdering(Nat))
  <2> HIDE DEF T
  <2>1. QED
    BY <1>1, FS_StrictSubsetOrderingWellFounded, WFMin
<1>3. PICK x \in S : \A y \in S : ~(<<1..y, 1..x>> \in StrictSubsetOrdering(Nat))
  BY <1>2
<1>4. ASSUME NEW y \in S PROVE x <= y
  <2>1. x \in Nat /\ y \in Nat
    OBVIOUS
  <2>2. y < x => <<1..y, 1..x>> \in StrictSubsetOrdering(Nat)
    <3>1. y < x => 1..y \in SUBSET Nat /\ 1..x \in SUBSET Nat /\ 1..y \subseteq 1..x
      BY <2>1
    <3>2. y < x => x \in 1..x /\ x \notin 1..y
      BY <2>1
    <3>3. QED
      BY <3>1, <3>2 DEF StrictSubsetOrdering
  <2>3. QED
    BY <2>1, <2>2, <1>3
<1>5. QED
  BY <1>4 DEF Rom!Lowest

\* The block that an id is in is the one that is found.
LEMMA FoundInItsBlock ==
  ASSUME RomInv, NEW id \in BlockIds, NEW p \in Rom!Physical, block[p].id = id
  PROVE  Rom!Lookup(id) # {} /\ Rom!Highest(Rom!Lookup(id)) = p
<1>1. p \in Rom!Searched /\ \A q \in Rom!Physical : block[q].id = id => q = p
  BY DEF RomInv
<1>2. Rom!Lookup(id) = {p}
  BY <1>1 DEF Rom!Lookup, Rom!Searched
<1>3. p <= p
  BY DEF Rom!Physical
<1>4. QED
  BY <1>2, <1>3 DEF Rom!Highest

\* A larger part is searched when less is free.
LEMMA SearchedGrows ==
  ASSUME free' \subseteq free
  PROVE  Rom!Searched \subseteq Rom!Searched'
BY DEF Rom!Searched

LEMMA LowestIsSearched ==
  ASSUME DevicesAssumption, free \subseteq Rom!Physical, free # {},
         NEW p, p = Rom!Lowest(free), free' = free \ {p}
  PROVE  p \in free /\ p \notin Rom!Searched /\ p \in Rom!Searched'
<1>1. free \subseteq Nat /\ NumBlocks \in Nat
  BY DEF DevicesAssumption, Rom!Physical
<1>2. p \in free /\ \A q \in free : p <= q
  BY <1>1, LowestIsLeast
<1>3. p \in Rom!Physical /\ p \in 1..p
  BY <1>1, <1>2 DEF Rom!Physical
<1>4. \A q \in 1..p : q \notin free'
  BY <1>1, <1>2
<1>5. QED
  BY <1>2, <1>3, <1>4 DEF Rom!Searched, Rom!Physical

LEMMA WriteKeeps ==
  ASSUME DevicesAssumption, RomInv, NEW id \in BlockIds, NEW data \in Rom!Payloads,
         Rom!WriteBlock(id, data)
  PROVE  RomInv'
<1>1. CASE Rom!Lookup(id) \cup free = {}
  BY <1>1 DEF Rom!WriteBlock, Rom!vars, RomInv, Rom!Searched, Rom!Physical
<1>2. CASE ~(Rom!Lookup(id) \cup free = {})
  <2> DEFINE p == IF Rom!Lookup(id) # {} THEN Rom!Highest(Rom!Lookup(id)) ELSE Rom!Lowest(free)
  <2>1. /\ block' = [block EXCEPT ![p] = [id |-> id, data |-> data]]
        /\ free' = free \ {p} /\ stored' = [stored EXCEPT ![id] = {data}]
    BY <1>2 DEF Rom!WriteBlock
  <2>2. /\ p \in Rom!Physical /\ p \in Rom!Searched'
        /\ block[p].id # id => block[p].id \notin BlockIds
        /\ \A q \in Rom!Physical : block[q].id = id => q = p
    <3>1. CASE Rom!Lookup(id) # {}
      <4>1. PICK q \in Rom!Physical : block[q].id = id
        BY <3>1 DEF Rom!Lookup, Rom!Searched
      <4>2. p = q
        BY <3>1, <4>1, FoundInItsBlock
      <4> HIDE DEF p
      <4>3. p \in Rom!Searched /\ \A r \in Rom!Physical : block[r].id = id => r = p
        BY <4>1, <4>2 DEF RomInv
      <4>4. QED
        BY <4>1, <4>2, <4>3, <2>1, SearchedGrows
    <3>2. CASE Rom!Lookup(id) = {}
      <4>1. p = Rom!Lowest(free) /\ free # {}
        BY <1>2, <3>2
      <4> HIDE DEF p
      <4>2. p \in free /\ p \notin Rom!Searched /\ p \in Rom!Searched'
        BY <4>1, <2>1, LowestIsSearched DEF RomInv
      <4>3. block[p].id \notin BlockIds
        BY <4>2 DEF RomInv
      <4>4. \A q \in Rom!Physical : block[q].id # id
        BY <3>2 DEF RomInv, Rom!Lookup
      <4>5. QED
        BY <4>2, <4>3, <4>4 DEF RomInv
    <3>3. QED
      BY <3>1, <3>2
  <2> HIDE DEF p
  <2>3. /\ block' \in [Rom!Physical -> BlockType] /\ free' \subseteq Rom!Physical
        /\ stored' \in [BlockIds -> SUBSET SUBSET Bits]
        /\ block'[p] = [id |-> id, data |-> data]
        /\ \A q \in Rom!Physical : q # p => block'[q] = block[q]
    BY <2>1, <2>2 DEF RomInv, BlockType, Rom!Payloads
  <2>4. Rom!Searched \subseteq Rom!Searched'
    BY <2>1, SearchedGrows
  <2>5. ASSUME NEW q \in Rom!Physical, block'[q].id \in BlockIds PROVE q \in Rom!Searched'
    BY <2>2, <2>3, <2>4, <2>5 DEF RomInv
  <2>6. ASSUME NEW q \in Rom!Physical, NEW r \in Rom!Physical,
               block'[q].id = block'[r].id, block'[q].id \in BlockIds
        PROVE  q = r
    BY <2>2, <2>3, <2>6 DEF RomInv
  <2>7. ASSUME NEW i \in BlockIds, stored'[i] # {}
        PROVE  \E q \in Rom!Physical : block'[q].id = i /\ block'[q].data \in stored'[i]
    <3>1. CASE i = id
      <4>1. stored'[i] = {data}
        BY <2>1, <3>1 DEF RomInv
      <4>2. QED
        BY <2>2, <2>3, <3>1, <4>1
    <3>2. CASE i # id
      <4>1. stored'[i] = stored[i]
        BY <2>1, <3>2 DEF RomInv
      <4>2. PICK q \in Rom!Physical : block[q].id = i /\ block[q].data \in stored[i]
        BY <4>1, <2>7 DEF RomInv
      <4>3. q # p
        BY <4>2, <3>2, <2>2
      <4>4. QED
        BY <4>1, <4>2, <4>3, <2>3
    <3>3. QED
      BY <3>1, <3>2
  <2>8. QED
    BY <2>3, <2>5, <2>6, <2>7 DEF RomInv, Rom!Physical
<1>3. QED
  BY <1>1, <1>2

LEMMA ProgramKeeps ==
  ASSUME DevicesAssumption, RomInv, Rom!Program
  PROVE  RomInv'
<1>1. CASE /\ \E p \in Rom!Physical, keep \in Rom!Payloads :
                /\ block' = [block EXCEPT ![p].data = @ \cap keep]
                /\ stored' = [id \in BlockIds |-> IF block[p].id = id THEN {} ELSE stored[id]]
           /\ free' = free
  <2>1. PICK p \in Rom!Physical, keep \in Rom!Payloads :
          /\ block' = [block EXCEPT ![p].data = @ \cap keep]
          /\ stored' = [id \in BlockIds |-> IF block[p].id = id THEN {} ELSE stored[id]]
    BY <1>1
  <2>2. /\ block' \in [Rom!Physical -> BlockType]
        /\ \A q \in Rom!Physical : block'[q].id = block[q].id
        /\ \A q \in Rom!Physical : q # p => block'[q] = block[q]
    BY <2>1 DEF RomInv, BlockType
  <2>3. /\ stored' \in [BlockIds -> SUBSET SUBSET Bits]
        /\ \A id \in BlockIds : stored'[id] # {} => block[p].id # id /\ stored'[id] = stored[id]
    BY <2>1 DEF RomInv
  <2>4. Rom!Searched' = Rom!Searched
    BY <1>1 DEF Rom!Searched, Rom!Physical
  <2>5. \A id \in BlockIds : stored'[id] # {} =>
          \E q \in Rom!Physical : block'[q].id = id /\ block'[q].data \in stored'[id]
    BY <2>2, <2>3 DEF RomInv
  <2>6. QED
    BY <1>1, <2>2, <2>3, <2>4, <2>5 DEF RomInv, Rom!Physical
<1>2. CASE free' \subseteq free /\ UNCHANGED <<block, stored>>
  BY <1>2, SearchedGrows DEF RomInv, Rom!Physical
<1>3. QED
  BY <1>1, <1>2 DEF Rom!Program

LEMMA DeleteKeeps ==
  ASSUME DevicesAssumption, Rom!Delete
  PROVE  RomInv'
<1>1. /\ \A p \in Rom!Physical : block'[p] = [id |-> 0, data |-> Bits]
      /\ block' \in [Rom!Physical -> BlockType]
  BY DEF Rom!Delete, Rom!Erased, Rom!NoId, BlockType
<1>2. \A p \in Rom!Physical : block'[p].id \notin BlockIds
  BY <1>1 DEF DevicesAssumption
<1>3. stored' = [id \in BlockIds |-> {}] /\ free' = Rom!Physical
  BY DEF Rom!Delete
<1>4. QED
  BY <1>1, <1>2, <1>3 DEF RomInv, Rom!Physical

LEMMA RomKeeps ==
  ASSUME DevicesAssumption, RomInv, Rom!Next
  PROVE  RomInv'
BY WriteKeeps, ProgramKeeps, DeleteKeeps DEF Rom!Next

LEMMA BlocksAreFound ==
  ASSUME RomInv
  PROVE  Rom!BlocksReadBack
<1> SUFFICES ASSUME NEW id \in BlockIds, header, stored[id] # {}
             PROVE  Rom!Readable(id) /\ Rom!ReadBlock(id) \in stored[id]
  BY DEF Rom!BlocksReadBack
<1>1. PICK p \in Rom!Physical : block[p].id = id /\ block[p].data \in stored[id]
  BY DEF RomInv
<1>2. QED
  BY <1>1, FoundInItsBlock DEF Rom!Readable, Rom!ReadBlock

--------------------------------------------------------------------------------
(* All of them. *)

Inv == G2Type /\ G2Inv /\ CardInv /\ GdType /\ ReadInv /\ ReportInv /\ BusInv /\ RomInv

\* What a step of one device leaves the others.
LEMMA G2Stays == ASSUME G2Type, G2Inv, UNCHANGED g2 PROVE G2Type' /\ G2Inv'
BY DEF g2, G2Type, G2Inv, G2!BusyUntilAnnounced, G2!EndsWhereItCopied

LEMMA CardStays == ASSUME CardInv, UNCHANGED card PROVE CardInv'
BY DEF card, CardInv, Card!AnsweredIsSaved

LEMMA GdStays ==
  ASSUME GdType, ReadInv, ReportInv, UNCHANGED gd
  PROVE  GdType' /\ ReadInv' /\ ReportInv' /\ sectors' = sectors
BY DEF gd, GdType, ReadInv, ReportInv, Running, Gd!ReportedOnce

LEMMA BusStays == ASSUME BusInv, UNCHANGED bus PROVE BusInv'
BY DEF bus, BusInv, Bus!RepliesOfNewestList, Bus!BusyIsArmed

LEMMA RomStays == ASSUME RomInv, UNCHANGED rom PROVE RomInv'
BY DEF rom, RomInv, Rom!Searched, Rom!Physical

LEMMA Initially == ASSUME DevicesAssumption, Init PROVE Inv
<1>1. G2Type /\ G2Inv
  <2>1. /\ reg \in Channels /\ ~reg.st /\ reg.stopped
        /\ reg.star = 0 /\ reg.stag = 0 /\ reg.len = 0
    BY DEF Init, G2!Init, Channels
  <2>2. copied.star = 0 /\ copied.stag = 0 /\ copied.len = 0
    BY DEF Init, G2!Init
  <2>3. ~armed /\ armed \in BOOLEAN /\ kept \in BOOLEAN /\ announced \in BOOLEAN /\ announced
    BY Zenon DEF Init, G2!Init
  <2>4. QED
    BY <2>1, <2>2, <2>3 DEF G2Type, G2Inv, G2!BusyUntilAnnounced, G2!EndsWhereItCopied
<1>2. CardInv
  BY DEF Init, Card!Init, CardInv, Card!AnsweredIsSaved
<1>3. GdType /\ ReadInv
  BY DEF Init, Gd!Init, GdType, ReadInv, Running, Gd!Commands, Gd!Other
<1>4. ReportInv
  BY DEF Init, Gd!Init, ReportInv, Gd!ReportedOnce, Gd!Ids, Gd!Forgot, DevicesAssumption
<1>5. BusInv
  <2>1. ~mdst /\ mdst \in BOOLEAN /\ ~answered
    BY Zenon DEF Init, Bus!Init
  <2>2. DOMAIN ram = Bus!RecvAreas /\ \A a \in Bus!RecvAreas : ram[a][1] = "old"
    BY DEF Init, Bus!Init
  <2>3. list \in Lists /\ started = list /\ left = 0 /\ out = {}
    BY Zenon DEF Init, Bus!Init
  <2>4. QED
    BY <2>1, <2>2, <2>3 DEF BusInv, Bus!RepliesOfNewestList, Bus!BusyIsArmed
<1>6. RomInv
  <2>1. /\ \A p \in Rom!Physical : block[p] = [id |-> 0, data |-> Bits]
        /\ block \in [Rom!Physical -> BlockType]
    BY DEF Init, Rom!Init, Rom!Erased, Rom!NoId, BlockType
  <2>2. free = Rom!Physical /\ stored = [id \in BlockIds |-> {}]
    BY DEF Init, Rom!Init
  <2>3. QED
    BY <2>1, <2>2 DEF RomInv, DevicesAssumption
<1>7. QED
  BY <1>1, <1>2, <1>3, <1>4, <1>5, <1>6 DEF Inv

LEMMA Inductive ==
  ASSUME DevicesAssumption, Inv, [Next]_vars
  PROVE  Inv'
<1> USE DEF Inv
<1>1. CASE UNCHANGED vars
  BY <1>1, G2Stays, CardStays, GdStays, BusStays, RomStays DEF vars
<1>2. CASE Timer!Next /\ UNCHANGED <<device, g2, bus, card, rom, gd>>
  BY <1>2, G2Stays, CardStays, GdStays, BusStays, RomStays
<1>3. CASE G2!Next /\ UNCHANGED <<device, timer, bus, card, rom, gd>>
  BY <1>3, G2Keeps, CardStays, GdStays, BusStays, RomStays
<1>4. CASE Bus!Next /\ UNCHANGED <<device, timer, g2, card, rom, gd>>
  BY <1>4, G2Stays, CardStays, GdStays, BusKeeps, RomStays
<1>5. CASE Card!Next /\ UNCHANGED <<device, timer, g2, bus, rom, gd>>
  BY <1>5, G2Stays, CardKeeps, GdStays, BusStays, RomStays
<1>6. CASE Rom!Next /\ UNCHANGED <<device, timer, g2, bus, card, gd>>
  BY <1>6, G2Stays, CardStays, GdStays, BusStays, RomKeeps
<1>7. CASE Gd!Next /\ UNCHANGED <<device, timer, g2, bus, card, rom>>
  BY <1>7, G2Stays, CardStays, ReadKeeps, ReportKeeps, BusStays, RomStays
<1>8. QED
  BY <1>1, <1>2, <1>3, <1>4, <1>5, <1>6, <1>7, Zenon DEF Next

LEMMA Always == Spec => []Inv
<1>1. Init => Inv
  BY Initially, DevicesAssumption
<1>2. Inv /\ [Next]_vars => Inv'
  BY Inductive, DevicesAssumption
<1>3. QED
  BY <1>1, <1>2, PTL DEF Spec

--------------------------------------------------------------------------------
\* A G2 transfer reads busy until its end is announced, and leaves its registers behind what it
\* copied unless the guest wrote them meanwhile (g2dma.cpp 56-101).
THEOREM TransfersEnd == Spec => []TransferEndsWhereItCopied
<1>1. Inv => TransferEndsWhereItCopied
  BY DEF Inv, G2Inv, TransferEndsWhereItCopied
<1>2. QED
  BY <1>1, Always, PTL

\* No Maple reply of an interrupted list passes for the newest's, a list that was answered has
\* all its replies, and a busy bus has its event armed (maple.cpp 322-421).
THEOREM RepliesAreOfTheNewest == Spec => []RepliesOfNewestList
<1>1. Inv => RepliesOfNewestList
  BY DEF Inv, BusInv, RepliesOfNewestList
<1>2. QED
  BY <1>1, Always, PTL

\* A card write that was answered is in the file, and every flash id reads back what was written
\* under it (maple.cpp 228-236, flash.cpp 118-175).
THEOREM StorageIsKept == Spec => []StorageKeeps
<1>1. Inv => StorageKeeps
  BY BlocksAreFound DEF Inv, CardInv, StorageKeeps
<1>2. QED
  BY <1>1, Always, PTL

\* A GD-ROM read that is reported complete has delivered its sectors, whatever was aborted, reset
\* or left armed before it (bios.cpp 291-323).
THEOREM ReadsDeliver == Spec => []ReadDelivers
<1>1. Inv => ReadDelivers
  <2> SUFFICES ASSUME Inv, status = "complete", command.kind = "read",
                      NEW i \in 0..command.n - 1, command.s + i \in ReadableSectors
               PROVE  sectors[command.d + i] = command.s + i
    BY DEF ReadDelivers, Gd!ReadDelivers
  <2>1. /\ total # 0 /\ remaining = 0 /\ position + remaining = command.n /\ position \in Nat
        /\ \A j \in Nat : (j < position /\ command.s + j \in ReadableSectors) =>
             sectors[command.d + j] = command.s + j
    BY DEF Inv, ReadInv, GdType, Running
  <2>2. command.n \in Nat
    BY CommandFields, DevicesAssumption DEF Inv, GdType
  <2>3. i \in Nat /\ i < position
    BY <2>1, <2>2
  <2>4. QED
    BY <2>1, <2>3
<1>2. QED
  BY <1>1, Always, PTL

\* The end of a GD-ROM request is reported once (bios.cpp 488-503).
THEOREM ReportsOnce == Spec => []ReportedOnce
<1>1. Inv => ReportedOnce
  BY DEF Inv, ReportInv, ReportedOnce
<1>2. QED
  BY <1>1, Always, PTL

\* A read writes nowhere else, and a file that is not a card is left as it is (bios.cpp 291-323,
\* maple.cpp 36-60).
THEOREM NothingElseIsWritten == Spec => OverwritesNothingElse
<1> DEFINE Buffered == \A p \in ReadPlaces : sectors'[p] # sectors[p] =>
                         /\ status = "busy" /\ command.kind = "read"
                         /\ p \in command.d..command.d + command.n - 1
           Refused == /\ file.kind = "other" => file' = file
                      /\ process = "down" /\ file.kind # "card" => process' # "up"
<1>1. Inv /\ [Next]_vars => [Buffered]_(Gd!vars)
  <2> SUFFICES ASSUME Inv, [Next]_vars, ~(UNCHANGED Gd!vars) PROVE Buffered
    OBVIOUS
  <2>1. Gd!Next
    BY DEF Next, vars, gd, Gd!vars, Gd!read
  <2>2. QED
    BY <2>1, ReadKeeps, DevicesAssumption DEF Inv
<1>2. Inv /\ [Next]_vars => [Refused]_(Card!vars)
  <2> SUFFICES ASSUME Inv, [Next]_vars, ~(UNCHANGED Card!vars) PROVE Refused
    OBVIOUS
  <2>1. Card!Next
    BY DEF Next, vars, card, Card!vars
  <2>2. QED
    BY <2>1, CardKeeps DEF Inv
<1>3. QED
  BY <1>1, <1>2, Always, PTL
     DEF Spec, OverwritesNothingElse, Gd!WritesOnlyItsBuffer, Card!RefusesWhatIsNoCard

\* The counter that the timer derives from the clock goes down, reloads, sets its flag and
\* requests its interrupt in the cycles in which a counter that is decremented does, through
\* starts, stops, prescaler changes and writes in mid-tick, and events armed less far ahead
\* than the underflow (tmu.cpp 30-98, 145-175).
THEOREM TimerCounts == Spec => CountsAsHardware
<1>1. Init => TimerInv /\ Timer!HardwareTimer!Init
  <2> SUFFICES ASSUME Init PROVE TimerInv /\ Timer!HardwareTimer!Init
    OBVIOUS
  <2>1. /\ now = 0 /\ running = FALSE /\ prescaler \in Prescalers /\ tcor \in Counts /\ base = tcor
        /\ unf = FALSE /\ unie = FALSE /\ pending = FALSE
    BY Zenon DEF Init, Timer!Init
  <2>2. tcor \in Nat
    BY <2>1, DevicesAssumption DEF DevicesAssumption
  <2>3. Timer!Counter = tcor
    BY <2>1, Zenon DEF Timer!Counter
  <2>4. ~Timer!Passed
    BY <2>2, <2>3 DEF Timer!Passed
  <2>5. Timer!HardwareTimer!Init
    BY <2>1, <2>3, <2>4, Zenon DEF Timer!HardwareTimer!Init
  <2>6. TimerInv
    <3>1. now \in Nat /\ base \in Int /\ base >= 0
      BY <2>1, <2>2
    <3>2. pending = (unf /\ unie) /\ unf \in BOOLEAN /\ unie \in BOOLEAN /\ running \in BOOLEAN
      BY <2>1
    <3>3. QED
      BY <2>1, <2>2, <3>1, <3>2, Zenon DEF TimerInv
  <2>7. QED
    BY <2>5, <2>6
<1>2. TimerInv /\ [Next]_vars =>
        TimerInv' /\ [Timer!HardwareTimer!Next]_<<now, Timer!HardwareTimer!channel>>
  <2> SUFFICES ASSUME TimerInv, [Next]_vars
               PROVE  TimerInv' /\ [Timer!HardwareTimer!Next]_<<now, Timer!HardwareTimer!channel>>
    OBVIOUS
  <2>1. CASE UNCHANGED timer
    <3>1. TimerInv'
      BY <2>1 DEF timer, TimerInv
    <3>2. UNCHANGED <<now, Timer!HardwareTimer!channel>>
      BY <2>1, Zenon DEF timer, Timer!HardwareTimer!channel, Timer!Passed, Timer!Counter, Timer!Ticks
    <3>3. QED
      BY <3>1, <3>2
  <2>2. CASE Timer!Next
    BY <2>2, TimerStep
  <2>3. QED
    BY <2>1, <2>2 DEF Next, vars
<1>3. QED
  BY <1>1, <1>2, PTL DEF Spec, CountsAsHardware, Timer!CountsAsHardware, Timer!HardwareTimer!Spec
================================================================================
