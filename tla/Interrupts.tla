------------------------------ MODULE Interrupts ------------------------------
(***************************************************************************)
(* The interrupt path of the running machine: System (runtime/src/         *)
(* system.cpp) composed with the SH-4 interrupt controller (sh4/intc.cpp), *)
(* the Holly interrupt controller (holly/intc.cpp), the scanline event of  *)
(* the SPG (pvr/spg.cpp) and devices that finish on a scheduler event.     *)
(*                                                                         *)
(* Delivery is cooperative.  Emitted code polls where cycles >= nextEvent; *)
(* on_poll catches the scheduler up, runs one nested guest call per        *)
(* deliverable interrupt, and arms the next poll.  `host` says which host  *)
(* function is innermost, and a frame of `frames` stands for one           *)
(* enter_exception waiting for its handler's RTE.                          *)
(***************************************************************************)
EXTENDS Naturals, Sequences, FiniteSets

CONSTANTS
  Sources,       \* Holly interrupt sources in use
  External,      \* those of SB_ISTEXT: cleared at the device only
  OnChip,        \* on-chip sources in use, besides the three IRL lines
  Devices,       \* one-shot scheduler events other than the scanline
  Raises,        \* Raises[d]: the source, Holly or on-chip, device d raises
  VBlank,        \* the Holly source a scanline may raise
  ImlChoices,    \* settings of the level 2, 4 and 6 mask registers in use
  IprChoices,    \* interrupt priority nibbles in use
  ImaskChoices,  \* SR.IMASK values in use
  LinePeriods,   \* scanline lengths the SPG registers select
  Delays,        \* how far ahead a device event is requested
  Steps,         \* cycles one block of guest code takes
  DeliverLimit,  \* deliveries per poll after which deliver_pending gives up: 64
  Polite,        \* handlers raise IMASK to their own level before clearing BL
  Horizon,       \* bound: the run ends before the clock would pass this
  Never,         \* kNever, larger than any reading of the clock
  MaxNesting     \* bound: exceptions in progress at once

\* The sources of sh4::Irq in their fixed order.
IrqOrder == <<"Irl9", "Irl11", "Irl13", "Tmu0", "Tmu1", "Tmu2", "Dmte0", "Dmte1",
              "Dmte2", "Dmte3", "Dmae", "ScifEri", "ScifRxi", "ScifBri", "ScifTxi">>
Irls == {"Irl9", "Irl11", "Irl13"}
Irqs == Irls \cup OnChip

\* The priority nibble an on-chip source takes its priority from.
Group(i) ==
  IF i \in {"Tmu0", "Tmu1", "Tmu2"} THEN i
  ELSE IF i \in {"Dmte0", "Dmte1", "Dmte2", "Dmte3", "Dmae"} THEN "Dmac" ELSE "Scif"
Groups == {Group(i) : i \in OnChip}

Line   == "line"
Events == {Line} \cup Devices

ASSUME InterruptsAssumption ==
  /\ External \subseteq Sources /\ VBlank \in Sources
  /\ OnChip \subseteq {IrqOrder[n] : n \in 4..15}
  /\ Line \notin Devices
  /\ Raises \in [Devices -> Sources \cup OnChip]
  /\ OnChip \cap Sources = {}
  /\ ImlChoices \subseteq [Irls -> SUBSET Sources]
  /\ IprChoices \subseteq 0..15 /\ ImaskChoices \subseteq 0..15
  /\ LinePeriods \subseteq Nat \ {0} /\ LinePeriods # {}
  /\ Delays \subseteq Nat /\ Steps \subseteq Nat
  /\ DeliverLimit \in Nat /\ MaxNesting \in Nat
  /\ Polite \in BOOLEAN
  /\ Horizon \in Nat /\ Never \in Nat
  /\ \A p \in LinePeriods : Horizon + p < Never

VARIABLES
  now, deadline,   \* Scheduler: now_ and the events' deadlines
  lineCycles,      \* Spg::line_cycles_
  raised,          \* istnrm, istext and isterr together
  iml,             \* iml6*, iml4* and iml2*, by the line they feed
  pending, ipr,    \* Intc::pending_ and the priority nibbles
  cycles,          \* Ctx::cycles
  nextEvent,       \* Ctx::next_event
  sr,              \* SR.BL and SR.IMASK
  frames,          \* enter_exception calls in progress, innermost last
  host,            \* "guest", or the loop of the host that runs
  delivered        \* the count of the innermost deliver_pending

clockVars  == <<now, deadline, lineCycles>>
deviceVars == <<raised, iml, pending, ipr>>
cpuVars    == <<cycles, nextEvent, sr, frames, host, delivered>>
vars == <<clockVars, deviceVars, cpuVars>>

Max2(a, b) == IF a > b THEN a ELSE b

-------------------------------------------------------------------------------
(* The interrupt controllers *)

\* Holly's recompute(): the lines whose mask register lets a raised source through.
LinesOf(r, m) == {l \in Irls : m[l] \cap r # {}}

Recompute == pending' = (pending \cap OnChip) \cup LinesOf(raised', iml')

Priority(i) ==
  IF i \in OnChip THEN ipr[Group(i)]
  ELSE CASE i = "Irl9" -> 6 [] i = "Irl11" -> 4 [] i = "Irl13" -> 2

Rank(i) == CHOOSE n \in 1..Len(IrqOrder) : IrqOrder[n] = i

\* Mutant of LetThrough: the level of SR.IMASK itself is let through.
LetThroughEqual(s) == {i \in pending : ~s.bl /\ Priority(i) >= s.imask /\ Priority(i) > 0}

LetThrough(s) == {i \in pending : ~s.bl /\ Priority(i) > s.imask}

\* Intc::select: the most urgent, the first in order among equals.
Selected(s, i) ==
  /\ i \in LetThrough(s)
  /\ \A j \in LetThrough(s) : \/ Priority(j) < Priority(i)
                              \/ Priority(j) = Priority(i) /\ Rank(i) <= Rank(j)

\* A device raises its source, through Holly or directly at the SH-4.
Raise(src) ==
  IF src \in OnChip
  THEN pending' = pending \cup {src} /\ UNCHANGED <<raised, iml, ipr>>
  ELSE raised' = raised \cup {src} /\ UNCHANGED <<iml, ipr>> /\ Recompute

-------------------------------------------------------------------------------
(* The virtual clock: advance_to(cycles), run by on_poll and by a device   *)
(* register access.  A callback and the re-arming it does are one step.    *)

Advancing == host \in {"poll", "access"}

\* Mutant of Due: events run in no order.
DueUnordered(e) == deadline[e] <= cycles

Due(e) == /\ deadline[e] <= cycles
          /\ \A f \in Events : deadline[e] <= deadline[f]

\* Spg::on_line.
LineEvent ==
  /\ Advancing /\ Due(Line)
  /\ now' = Max2(now, deadline[Line])
  /\ deadline' = [deadline EXCEPT ![Line] = now' + lineCycles]
  /\ Raise(VBlank) \/ UNCHANGED deviceVars
  /\ UNCHANGED <<lineCycles, cpuVars>>

\* A device's completion event.
DeviceEvent(d) ==
  /\ Advancing /\ Due(d)
  /\ now' = Max2(now, deadline[d])
  /\ deadline' = [deadline EXCEPT ![d] = Never]
  /\ Raise(Raises[d])
  /\ UNCHANGED <<lineCycles, cpuVars>>

\* Nothing is due any more: back to the device register, or on to delivery.
Advanced ==
  /\ Advancing
  /\ \A e \in Events : cycles < deadline[e]
  /\ now' = Max2(now, cycles)
  /\ host' = IF host = "poll" THEN "deliver" ELSE "guest"
  /\ UNCHANGED <<deadline, lineCycles, deviceVars, cycles, nextEvent, sr, frames, delivered>>

-------------------------------------------------------------------------------
(* The CPU *)

\* write_sr: a change of BL or IMASK forces a poll.
WriteSr(s) ==
  /\ sr' = s
  /\ nextEvent' = IF s # sr THEN 0 ELSE nextEvent

\* Mutant of ArmNextPoll: the scanline is not one of the events that are looked at.
ArmNextPollWithoutLine(s) ==
  IF LetThrough(s) # {} THEN nextEvent' = cycles
  ELSE \E d \in Devices : /\ \A f \in Devices : deadline[d] <= deadline[f]
                          /\ nextEvent' = deadline[d]

\* System::arm_next_poll.
ArmNextPoll(s) ==
  IF LetThrough(s) # {} THEN nextEvent' = cycles
  ELSE \E e \in Events : /\ \A f \in Events : deadline[e] <= deadline[f]
                         /\ nextEvent' = deadline[e]

\* The first half of enter_exception; the handler is then the running guest.
EnterException(vector, level, count) ==
  /\ Len(frames) < MaxNesting
  /\ frames' = Append(frames, [sr |-> sr, vector |-> vector, level |-> level,
                               delivered |-> count])
  /\ WriteSr([sr EXCEPT !.bl = TRUE])
  /\ host' = "guest"
  /\ delivered' = 0

\* Mutant of Deliver: the deliveries are not counted.
DeliverUncounted ==
  /\ host = "deliver"
  /\ delivered <= DeliverLimit
  /\ \E i \in Irqs : Selected(sr, i) /\ EnterException("irq", Priority(i), delivered)
  /\ UNCHANGED <<clockVars, deviceVars, cycles>>

\* deliver_pending: one more interrupt.
Deliver ==
  /\ host = "deliver"
  /\ delivered <= DeliverLimit
  /\ \E i \in Irqs : Selected(sr, i) /\ EnterException("irq", Priority(i), delivered + 1)
  /\ UNCHANGED <<clockVars, deviceVars, cycles>>

\* deliver_pending finds nothing more, or gives up; on_poll arms the next poll.
PollReturns ==
  /\ host = "deliver"
  /\ LetThrough(sr) = {} \/ delivered > DeliverLimit
  /\ ArmNextPoll(sr)
  /\ host' = "guest"
  /\ delivered' = 0
  /\ UNCHANGED <<clockVars, deviceVars, cycles, sr, frames>>

\* The handler's RTE resumes what it interrupted: enter_exception returns, and
\* deliver_pending goes on, or on_trapa arms the next poll.
Rte ==
  /\ host = "guest" /\ frames # <<>>
  /\ LET f == frames[Len(frames)] IN
       /\ frames' = SubSeq(frames, 1, Len(frames) - 1)
       /\ \/ /\ f.vector = "irq"
             /\ WriteSr(f.sr)
             /\ host' = "deliver" /\ delivered' = f.delivered
          \/ /\ f.vector = "trapa"
             /\ sr' = f.sr /\ ArmNextPoll(f.sr)
             /\ UNCHANGED <<host, delivered>>
  /\ UNCHANGED <<clockVars, deviceVars, cycles>>

\* An RTE to another context, or outside any handler: a NonLocalReturn drops
\* every host frame, and on_poll never gets to arm the next poll.
RteElsewhere(m) ==
  /\ host = "guest"
  /\ WriteSr([bl |-> FALSE, imask |-> m])
  /\ frames' = <<>>
  /\ UNCHANGED <<clockVars, deviceVars, cycles, host, delivered>>

-------------------------------------------------------------------------------
(* Guest code *)

Run(k) ==
  /\ host = "guest"
  /\ cycles + k <= Horizon
  /\ cycles' = cycles + k
  /\ UNCHANGED <<clockVars, deviceVars, nextEvent, sr, frames, host, delivered>>

\* A function entry or a loop back-edge, where the clock has reached nextEvent.
Poll ==
  /\ host = "guest"
  /\ cycles >= nextEvent
  /\ host' = IF cycles > now THEN "poll" ELSE "deliver"
  /\ delivered' = 0
  /\ UNCHANGED <<clockVars, deviceVars, cycles, nextEvent, sr, frames>>

\* TRAPA enters at once, whatever SR.BL says.
Trapa ==
  /\ host = "guest"
  /\ EnterException("trapa", 0, 0)
  /\ UNCHANGED <<clockVars, deviceVars, cycles>>

\* LDC Rm,SR.  A polite handler keeps its own level masked.
HandlerLevels == {frames[n].level : n \in 1..Len(frames)}
LdcSr(s) ==
  /\ host = "guest"
  /\ Polite => s.bl \/ \A l \in HandlerLevels : l <= s.imask
  /\ WriteSr(s)
  /\ UNCHANGED <<clockVars, deviceVars, cycles, frames, host, delivered>>

\* A device register is touched while the scheduler is behind the CPU.
CatchUp ==
  /\ host = "guest"
  /\ now < cycles
  /\ host' = "access"
  /\ UNCHANGED <<clockVars, deviceVars, cycles, nextEvent, sr, frames, delivered>>

\* The register writes themselves happen in the device's present.
Register == host = "guest" /\ now >= cycles /\ UNCHANGED cpuVars

\* SB_ISTNRM and SB_ISTERR are write-1-to-clear; SB_ISTEXT ignores the write.
AckHolly(s) ==
  /\ Register
  /\ raised' = raised \ ({s} \ External)
  /\ UNCHANGED <<clockVars, iml, ipr>>
  /\ Recompute

\* The device of an external source drops it.
ClearExternal(s) ==
  /\ Register
  /\ raised' = raised \ {s}
  /\ UNCHANGED <<clockVars, iml, ipr>>
  /\ Recompute

\* Mutant of WriteIml: the lines are not recomputed.
WriteImlOnly(m) ==
  /\ Register
  /\ iml' = m
  /\ UNCHANGED <<clockVars, raised, ipr, pending>>

WriteIml(m) ==
  /\ Register
  /\ iml' = m
  /\ UNCHANGED <<clockVars, raised, ipr>>
  /\ Recompute

WriteIpr(g, p) ==
  /\ Register
  /\ ipr' = [ipr EXCEPT ![g] = p]
  /\ UNCHANGED <<clockVars, raised, iml, pending>>

\* An on-chip module drops its request (a TMU flag is cleared).
ClearOnChip(i) ==
  /\ Register
  /\ pending' = pending \ {i}
  /\ UNCHANGED <<clockVars, raised, iml, ipr>>

StartDevice(d, t) ==
  /\ Register
  /\ now + t <= Horizon
  /\ deadline' = [deadline EXCEPT ![d] = now + t]
  /\ UNCHANGED <<now, lineCycles, deviceVars>>

\* A write to SPG_LOAD, SPG_CONTROL or the pixel clock: recalc() restarts the line.
WriteSpg(p) ==
  /\ Register
  /\ lineCycles' = p
  /\ deadline' = [deadline EXCEPT ![Line] = now + p]
  /\ UNCHANGED <<now, deviceVars>>

-------------------------------------------------------------------------------
Init ==
  /\ now = 0
  /\ lineCycles \in LinePeriods
  /\ deadline = [e \in Events |-> IF e = Line THEN lineCycles ELSE Never]
  /\ raised = {} /\ pending = {}
  /\ iml = [l \in Irls |-> {}]
  /\ ipr = [g \in Groups |-> 0]
  /\ cycles = 0 /\ nextEvent = 0
  /\ sr = [bl |-> TRUE, imask |-> 15]
  /\ frames = <<>> /\ host = "guest" /\ delivered = 0

DeviceWrite ==
  \/ \E s \in Sources : AckHolly(s)
  \/ \E s \in External : ClearExternal(s)
  \/ \E m \in ImlChoices : WriteIml(m)
  \/ \E g \in Groups, p \in IprChoices : WriteIpr(g, p)
  \/ \E i \in OnChip : ClearOnChip(i)
  \/ \E d \in Devices, t \in Delays : StartDevice(d, t)
  \/ \E p \in LinePeriods : WriteSpg(p)

Guest ==
  \/ \E k \in Steps : Run(k)
  \/ Poll
  \/ Trapa
  \/ Rte
  \/ \E m \in ImaskChoices : RteElsewhere(m)
  \/ \E s \in [bl : BOOLEAN, imask : ImaskChoices] : LdcSr(s)
  \/ CatchUp
  \/ DeviceWrite

Host == LineEvent \/ (\E d \in Devices : DeviceEvent(d)) \/ Advanced \/ Deliver \/ PollReturns

Next == Guest \/ Host

Spec == Init /\ [][Next]_vars

\* Host loops run to their end and guest code keeps running.  Every loop of emitted
\* code has a poll on its back-edge, so a guest that keeps running keeps coming to
\* a poll; and every handler comes to its RTE.
Fairness ==
  /\ WF_vars(Host)
  /\ WF_vars(\E k \in Steps : Run(k))
  /\ SF_vars(Poll)
  /\ \A n \in 1..MaxNesting : SF_vars(Rte /\ Len(frames) = n)

FairSpec == Spec /\ Fairness

-------------------------------------------------------------------------------
SrType == [bl : BOOLEAN, imask : 0..15]
Frame == [sr : SrType, vector : {"irq", "trapa"}, level : 0..15, delivered : 0..DeliverLimit + 1]

TypeOK ==
  /\ now \in Nat /\ lineCycles \in LinePeriods
  /\ deadline \in [Events -> Nat]
  /\ raised \in SUBSET Sources
  /\ iml \in [Irls -> SUBSET Sources]
  /\ pending \in SUBSET Irqs
  /\ ipr \in [Groups -> 0..15]
  /\ cycles \in 0..Horizon
  /\ nextEvent \in Nat
  /\ sr \in SrType
  /\ frames \in Seq(Frame) /\ Len(frames) <= MaxNesting
  /\ host \in {"guest", "poll", "access", "deliver"}
  /\ delivered \in 0..DeliverLimit + 1

\* The IRL lines show what the status and mask registers say, whoever wrote them
\* last: no interrupt is stuck on a line and none is lost (holly/intc.cpp 43-50).
IrlMirrorsHolly == pending \cap Irls = LinesOf(raised, iml)

\* A poll is due, or will be within one scanline of the clock, whatever the
\* guest starts, masks or switches to in between: an interrupt that becomes
\* deliverable without forcing a poll (by a register access, a priority or a mask
\* write, or behind a NonLocalReturn that skips arm_next_poll) waits no longer
\* (system.cpp 55-58, 122-127, 142-150).
PollsEveryLine ==
  nextEvent <= cycles \/ \E p \in LinePeriods : nextEvent <= now + p

\* A nested handler is always of a higher priority than those it interrupts, when
\* handlers keep their own level masked (docs/runtime-interrupts.md 34-35).
NestsByPriority ==
  \A i, j \in 1..Len(frames) :
    /\ i < j
    /\ frames[i].vector = "irq" /\ frames[j].vector = "irq"
    => frames[i].level < frames[j].level

\* The composed machine still keeps the promise of the virtual clock.
Clock == INSTANCE AlarmClock WITH Alarms <- Events, clock <- now, alarm <- deadline
ImplementsAlarmClock == Clock!Spec

\* A deliverable interrupt is delivered, unless it is masked or dropped first; the
\* bound leaves time for the poll that PollsEveryLine promises.
DeliversEventually ==
  (/\ host = "guest" /\ LetThrough(sr) # {}
   /\ \A p \in LinePeriods : cycles + p <= Horizon)
    ~> (host = "deliver" \/ LetThrough(sr) = {})

\* A source that its handler never clears cannot keep the interrupted program from
\* running: the poll gives up after DeliverLimit (system.cpp 116-117).
StormYields == (host = "deliver" /\ frames = <<>>) ~> (host = "guest" /\ frames = <<>>)
===============================================================================
