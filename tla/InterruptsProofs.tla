--------------------------- MODULE InterruptsProofs ---------------------------
(***************************************************************************)
(* Theorems about the interrupt path, for any sources, devices, mask and   *)
(* priority settings, scanline lengths and bounds.                         *)
(***************************************************************************)
EXTENDS Interrupts, SequenceTheorems, TLAPS

USE InterruptsAssumption

LEMMA SumType == \A x, y \in Nat : x + y \in Nat /\ x <= x + y
  OBVIOUS

LEMMA LevelType == \A x \in 0..15 : x \in Nat
  OBVIOUS

LEMMA LaterSum == \A x, y, z, p \in Nat : x <= y + p /\ y <= z => x <= z + p
  OBVIOUS

LEMMA AtMostTrans == \A x, y, z \in Nat : x <= y /\ y <= z => x <= z
  OBVIOUS

LEMMA IrqsDistinct == OnChip \cap Irls = {}
<1>1. \A n \in 4..15 : IrqOrder[n] \notin Irls
  BY DEF IrqOrder, Irls
<1>2. QED
  BY <1>1

LEMMA PriorityType ==
  ASSUME TypeOK, NEW i \in Irqs
  PROVE  Priority(i) \in 0..15
<1>1. CASE i \in OnChip
  BY <1>1 DEF Priority, Groups, TypeOK
<1>2. CASE i \in Irls /\ i \notin OnChip
  BY <1>2 DEF Priority, Irls
<1>3. QED
  BY <1>1, <1>2 DEF Irqs

LEMMA ArmType ==
  ASSUME TypeOK, NEW s \in SrType, ArmNextPoll(s)
  PROVE  nextEvent' \in Nat /\ (nextEvent' <= cycles \/ nextEvent' <= deadline[Line])
<1>1. CASE LetThrough(s) # {}
  BY <1>1 DEF ArmNextPoll, TypeOK
<1>2. CASE LetThrough(s) = {}
  BY <1>2 DEF ArmNextPoll, TypeOK, Events
<1>3. QED
  BY <1>1, <1>2

LEMMA WriteSrType ==
  ASSUME TypeOK, NEW s \in SrType, WriteSr(s)
  PROVE  sr' \in SrType /\ nextEvent' \in Nat /\ nextEvent' <= nextEvent
  BY DEF WriteSr, TypeOK

LEMMA EnterType ==
  ASSUME TypeOK, NEW vector \in {"irq", "trapa"}, NEW level \in 0..15,
         NEW count \in 0..DeliverLimit + 1, EnterException(vector, level, count)
  PROVE  /\ frames' \in Seq(Frame) /\ Len(frames') <= MaxNesting
         /\ sr' \in SrType /\ nextEvent' \in Nat /\ nextEvent' <= nextEvent
         /\ host' = "guest" /\ delivered' = 0
<1> DEFINE f == [sr |-> sr, vector |-> vector, level |-> level, delivered |-> count]
<1>1. f \in Frame
  BY DEF Frame, TypeOK
<1>2. frames' = Append(frames, f) /\ Len(frames) < MaxNesting
  BY DEF EnterException
<1> HIDE DEF f
<1>3. frames' \in Seq(Frame) /\ Len(frames') <= MaxNesting
  BY <1>1, <1>2, AppendProperties DEF TypeOK
<1>4. [sr EXCEPT !.bl = TRUE] \in SrType
  BY DEF TypeOK, SrType
<1>5. QED
  BY <1>3, <1>4, WriteSrType DEF EnterException

LEMMA RaiseType ==
  ASSUME TypeOK, NEW src \in Sources \cup OnChip, Raise(src)
  PROVE  /\ raised' \in SUBSET Sources /\ pending' \in SUBSET Irqs
         /\ UNCHANGED <<iml, ipr>>
  BY DEF TypeOK, Raise, Recompute, LinesOf, Irqs

\* Rte pops the innermost frame.
LEMMA PopType ==
  ASSUME TypeOK, frames # <<>>
  PROVE  /\ frames[Len(frames)] \in Frame
         /\ SubSeq(frames, 1, Len(frames) - 1) \in Seq(Frame)
         /\ Len(SubSeq(frames, 1, Len(frames) - 1)) = Len(frames) - 1
         /\ \A n \in 1..Len(frames) - 1 :
              SubSeq(frames, 1, Len(frames) - 1)[n] = frames[n]
<1>1. frames \in Seq(Frame) /\ Len(frames) \in Nat \ {0}
  BY EmptySeq DEF TypeOK
<1> DEFINE n == Len(frames) - 1
<1>2. n \in Nat /\ \A i \in 1..n : frames[i] \in Frame
  BY <1>1
<1>3. /\ SubSeq(frames, 1, n) \in Seq(Frame)
      /\ Len(SubSeq(frames, 1, n)) = n
      /\ \A i \in 1..n : SubSeq(frames, 1, n)[i] = frames[i]
  <2> HIDE DEF n
  <2>1. \A i \in 1..n - 1 + 1 : SubSeq(frames, 1, n)[i] = frames[1 + i - 1]
    BY <1>2, SubSeqProperties
  <2>2. QED
    BY <1>2, <2>1, SubSeqProperties
<1>4. QED
  BY <1>1, <1>3

\* What a device register write leaves alone.
LEMMA DeviceWriteFrame ==
  ASSUME DeviceWrite
  PROVE  /\ UNCHANGED cpuVars
         /\ \/ UNCHANGED clockVars
            \/ \E d \in Devices, t \in Delays : StartDevice(d, t)
            \/ \E p \in LinePeriods : WriteSpg(p)
<1>1. CASE \E s \in Sources : AckHolly(s)
  BY <1>1 DEF AckHolly, Register
<1>2. CASE \E s \in External : ClearExternal(s)
  BY <1>2 DEF ClearExternal, Register
<1>3. CASE \E m \in ImlChoices : WriteIml(m)
  BY <1>3 DEF WriteIml, Register
<1>4. CASE \E g \in Groups, p \in IprChoices : WriteIpr(g, p)
  BY <1>4 DEF WriteIpr, Register
<1>5. CASE \E i \in OnChip : ClearOnChip(i)
  BY <1>5 DEF ClearOnChip, Register
<1>6. CASE \E d \in Devices, t \in Delays : StartDevice(d, t)
  BY <1>6 DEF StartDevice, Register
<1>7. CASE \E p \in LinePeriods : WriteSpg(p)
  BY <1>7 DEF WriteSpg, Register
<1>8. QED
  BY <1>1, <1>2, <1>3, <1>4, <1>5, <1>6, <1>7 DEF DeviceWrite

-------------------------------------------------------------------------------
LEMMA TypeInit == Init => TypeOK
<1> SUFFICES ASSUME Init PROVE TypeOK
  OBVIOUS
<1> USE DEF Init
<1>1. sr \in SrType
  BY DEF SrType
<1>2. frames \in Seq(Frame) /\ Len(frames) <= MaxNesting
  OBVIOUS
<1>3. deadline \in [Events -> Nat] /\ lineCycles \in LinePeriods
  OBVIOUS
<1>4. ipr \in [Groups -> 0..15] /\ iml \in [Irls -> SUBSET Sources]
  OBVIOUS
<1>5. QED
  BY <1>1, <1>2, <1>3, <1>4 DEF TypeOK

LEMMA TypeNext == TypeOK /\ [Next]_vars => TypeOK'
<1> SUFFICES ASSUME TypeOK, [Next]_vars PROVE TypeOK'
  OBVIOUS
<1> USE DEF TypeOK
<1>1. CASE LineEvent
  <2>1. /\ now' = Max2(now, deadline[Line])
        /\ deadline' = [deadline EXCEPT ![Line] = now' + lineCycles]
        /\ UNCHANGED <<lineCycles, cpuVars>>
    BY <1>1 DEF LineEvent
  <2>2. now \in Nat /\ deadline[Line] \in Nat /\ lineCycles \in Nat
    BY DEF Events
  <2>3. now' \in Nat
    BY <2>1, <2>2 DEF Max2
  <2>4. deadline' \in [Events -> Nat]
    <3>1. now' + lineCycles \in Nat
      BY <2>2, <2>3, SumType
    <3>2. QED
      BY <2>1, <3>1
  <2>5. raised' \in SUBSET Sources /\ pending' \in SUBSET Irqs /\ UNCHANGED <<iml, ipr>>
    BY <1>1, RaiseType DEF LineEvent, deviceVars
  <2>6. QED
    BY <2>1, <2>3, <2>4, <2>5 DEF cpuVars
<1>2. ASSUME NEW d \in Devices, DeviceEvent(d) PROVE TypeOK'
  <2>1. now' \in Nat /\ deadline' \in [Events -> Nat]
    BY <1>2 DEF DeviceEvent, Max2, Events
  <2>2. raised' \in SUBSET Sources /\ pending' \in SUBSET Irqs /\ UNCHANGED <<iml, ipr>>
    BY <1>2, RaiseType DEF DeviceEvent
  <2>3. QED
    BY <1>2, <2>1, <2>2 DEF DeviceEvent, cpuVars
<1>3. CASE Advanced
  BY <1>3 DEF Advanced, deviceVars, Max2
<1>4. CASE Deliver
  <2>1. PICK i \in Irqs : EnterException("irq", Priority(i), delivered + 1)
    BY <1>4 DEF Deliver
  <2>2. Priority(i) \in 0..15 /\ delivered + 1 \in 0..DeliverLimit + 1
    BY <1>4, PriorityType DEF Deliver
  <2>3. /\ frames' \in Seq(Frame) /\ Len(frames') <= MaxNesting
        /\ sr' \in SrType /\ nextEvent' \in Nat
        /\ host' = "guest" /\ delivered' = 0
    BY <2>1, <2>2, EnterType
  <2>4. UNCHANGED <<clockVars, deviceVars, cycles>>
    BY <1>4 DEF Deliver
  <2>5. QED
    BY <2>3, <2>4 DEF clockVars, deviceVars
<1>5. CASE PollReturns
  BY <1>5, ArmType DEF PollReturns, clockVars, deviceVars
<1>6. ASSUME NEW k \in Steps, Run(k) PROVE TypeOK'
  BY <1>6 DEF Run, clockVars, deviceVars
<1>7. CASE Poll
  BY <1>7 DEF Poll, clockVars, deviceVars
<1>8. CASE Trapa
  BY <1>8, EnterType DEF Trapa, clockVars, deviceVars
<1>9. CASE Rte
  <2> DEFINE f == frames[Len(frames)]
  <2>1. f \in Frame /\ frames # <<>>
    BY <1>9, PopType DEF Rte
  <2>2. f.sr \in SrType /\ f.delivered \in 0..DeliverLimit + 1
    BY <2>1 DEF Frame
  <2>3. frames' \in Seq(Frame) /\ Len(frames') <= MaxNesting
    BY <1>9, <2>1, PopType DEF Rte
  <2>4. /\ sr' \in SrType /\ nextEvent' \in Nat /\ delivered' \in 0..DeliverLimit + 1
        /\ host' \in {"guest", "poll", "access", "deliver"}
    BY <1>9, <2>2, WriteSrType, ArmType DEF Rte
  <2> HIDE DEF f
  <2>5. QED
    BY <1>9, <2>3, <2>4 DEF Rte, clockVars, deviceVars
<1>10. ASSUME NEW m \in ImaskChoices, RteElsewhere(m) PROVE TypeOK'
  <2>1. [bl |-> FALSE, imask |-> m] \in SrType
    BY DEF SrType
  <2>2. sr' \in SrType /\ nextEvent' \in Nat
    BY <1>10, <2>1, WriteSrType DEF RteElsewhere
  <2>3. frames' \in Seq(Frame) /\ Len(frames') <= MaxNesting
    BY <1>10 DEF RteElsewhere
  <2>4. QED
    BY <1>10, <2>2, <2>3 DEF RteElsewhere, clockVars, deviceVars
<1>11. ASSUME NEW s \in [bl : BOOLEAN, imask : ImaskChoices], LdcSr(s) PROVE TypeOK'
  <2>1. s \in SrType
    BY DEF SrType
  <2>2. sr' \in SrType /\ nextEvent' \in Nat
    BY <1>11, <2>1, WriteSrType DEF LdcSr
  <2>3. QED
    BY <1>11, <2>2 DEF LdcSr, clockVars, deviceVars
<1>12. CASE CatchUp
  BY <1>12 DEF CatchUp, clockVars, deviceVars
<1>13. CASE DeviceWrite
  <2>1. UNCHANGED cpuVars
    BY <1>13, DeviceWriteFrame
  <2>2. now' \in Nat /\ lineCycles' \in LinePeriods /\ deadline' \in [Events -> Nat]
    <3>1. ASSUME NEW d \in Devices, NEW t \in Delays, StartDevice(d, t)
          PROVE  now' \in Nat /\ lineCycles' \in LinePeriods /\ deadline' \in [Events -> Nat]
      <4>1. now + t \in Nat
        OBVIOUS
      <4>2. QED
        BY <3>1, <4>1 DEF StartDevice
    <3>2. ASSUME NEW p \in LinePeriods, WriteSpg(p)
          PROVE  now' \in Nat /\ lineCycles' \in LinePeriods /\ deadline' \in [Events -> Nat]
      <4>1. now + p \in Nat
        OBVIOUS
      <4>2. QED
        BY <3>2, <4>1 DEF WriteSpg
    <3>3. ASSUME UNCHANGED clockVars
          PROVE  now' \in Nat /\ lineCycles' \in LinePeriods /\ deadline' \in [Events -> Nat]
      BY <3>3 DEF clockVars
    <3>4. \/ UNCHANGED clockVars
          \/ \E d \in Devices, t \in Delays : StartDevice(d, t)
          \/ \E p \in LinePeriods : WriteSpg(p)
      BY <1>13, DeviceWriteFrame
    <3>5. QED
      BY <3>1, <3>2, <3>3, <3>4
  <2>3. raised' \in SUBSET Sources /\ iml' \in [Irls -> SUBSET Sources]
    BY <1>13 DEF DeviceWrite, AckHolly, ClearExternal, WriteIml, WriteIpr, ClearOnChip,
                 StartDevice, WriteSpg, deviceVars
  <2>4. pending' \in SUBSET Irqs
    BY <1>13 DEF DeviceWrite, AckHolly, ClearExternal, WriteIml, WriteIpr, ClearOnChip,
                 StartDevice, WriteSpg, deviceVars, Recompute, LinesOf, Irqs
  <2>5. ipr' \in [Groups -> 0..15]
    BY <1>13 DEF DeviceWrite, AckHolly, ClearExternal, WriteIml, WriteIpr, ClearOnChip,
                 StartDevice, WriteSpg, deviceVars
  <2>6. QED
    BY <2>1, <2>2, <2>3, <2>4, <2>5 DEF cpuVars
<1>14. CASE UNCHANGED vars
  BY <1>14 DEF vars, clockVars, deviceVars, cpuVars
<1>15. QED
  BY <1>1, <1>2, <1>3, <1>4, <1>5, <1>6, <1>7, <1>8, <1>9, <1>10, <1>11, <1>12, <1>13, <1>14
  DEF Next, Guest, Host

\* The interrupt path is well typed: no count, level or nesting leaves its range.
THEOREM TypeCorrect == Spec => []TypeOK
<1>1. QED
  BY TypeInit, TypeNext, PTL DEF Spec

-------------------------------------------------------------------------------
(* Whoever changes a status or a mask register recomputes the lines, and   *)
(* nobody else touches them.                                               *)

LEMMA RaiseMirrors ==
  ASSUME IrlMirrorsHolly, NEW src \in Sources \cup OnChip, Raise(src)
  PROVE  IrlMirrorsHolly'
<1>1. CASE src \in OnChip
  <2>1. pending' = pending \cup {src} /\ UNCHANGED <<raised, iml>> /\ src \notin Irls
    BY <1>1, IrqsDistinct DEF Raise
  <2>2. QED
    BY <2>1 DEF IrlMirrorsHolly, LinesOf
<1>2. CASE src \notin OnChip
  BY <1>2, IrqsDistinct DEF Raise, Recompute, IrlMirrorsHolly, LinesOf
<1>3. QED
  BY <1>1, <1>2

\* The IRL lines show what the status and mask registers say, whoever wrote them
\* last: no interrupt is stuck on a line and none is lost (holly/intc.cpp 43-50).
THEOREM LinesMirrorHolly == Spec => []IrlMirrorsHolly
<1>1. Init => IrlMirrorsHolly
  BY DEF Init, IrlMirrorsHolly, LinesOf
<1>2. IrlMirrorsHolly /\ [Next]_vars => IrlMirrorsHolly'
  <2> SUFFICES ASSUME IrlMirrorsHolly, [Next]_vars PROVE IrlMirrorsHolly'
    OBVIOUS
  <2>1. ASSUME UNCHANGED deviceVars PROVE IrlMirrorsHolly'
    BY <2>1 DEF deviceVars, IrlMirrorsHolly, LinesOf
  <2>2. CASE LineEvent
    BY <2>1, <2>2, RaiseMirrors DEF LineEvent
  <2>3. ASSUME NEW d \in Devices, DeviceEvent(d) PROVE IrlMirrorsHolly'
    BY <2>3, RaiseMirrors DEF DeviceEvent
  <2>4. CASE DeviceWrite
    <3>1. ASSUME Recompute PROVE IrlMirrorsHolly'
      BY <3>1, IrqsDistinct DEF Recompute, IrlMirrorsHolly, LinesOf
    <3>2. ASSUME NEW g \in Groups, NEW p \in IprChoices, WriteIpr(g, p) PROVE IrlMirrorsHolly'
      BY <3>2 DEF WriteIpr, IrlMirrorsHolly, LinesOf
    <3>3. ASSUME NEW i \in OnChip, ClearOnChip(i) PROVE IrlMirrorsHolly'
      <4>1. pending' = pending \ {i} /\ UNCHANGED <<raised, iml>> /\ i \notin Irls
        BY <3>3, IrqsDistinct DEF ClearOnChip
      <4>2. QED
        BY <4>1 DEF IrlMirrorsHolly, LinesOf
    <3>4. ASSUME (\E d \in Devices, t \in Delays : StartDevice(d, t))
                 \/ (\E p \in LinePeriods : WriteSpg(p))
          PROVE  UNCHANGED deviceVars
      BY <3>4 DEF StartDevice, WriteSpg
    <3>5. QED
      BY <2>1, <2>4, <3>1, <3>2, <3>3, <3>4 DEF DeviceWrite, AckHolly, ClearExternal, WriteIml
  <2>5. CASE UNCHANGED vars
    BY <2>1, <2>5 DEF vars
  <2>6. CASE Guest /\ ~DeviceWrite
    <3>1. UNCHANGED deviceVars
      BY <2>6 DEF Guest, Run, Poll, Trapa, Rte, RteElsewhere, LdcSr, CatchUp
    <3>2. QED
      BY <2>1, <3>1
  <2>7. CASE Advanced \/ Deliver \/ PollReturns
    <3>1. UNCHANGED deviceVars
      BY <2>7 DEF Advanced, Deliver, PollReturns
    <3>2. QED
      BY <2>1, <3>1
  <2>8. QED
    BY <2>2, <2>3, <2>4, <2>5, <2>6, <2>7 DEF Next, Guest, Host
<1>3. QED
  BY <1>1, <1>2, PTL DEF Spec

-------------------------------------------------------------------------------
(* Handlers nest by priority: with polite handlers, SR always masks the    *)
(* levels of all handlers in progress, and each frame's SR those below it. *)

Masks(s, n) == s.bl \/ \A m \in 1..n : frames[m].level <= s.imask

LevelsMasked ==
  /\ Masks(sr, Len(frames))
  /\ \A n \in 1..Len(frames) : Masks(frames[n].sr, n - 1)

NestInv == TypeOK /\ LevelsMasked /\ NestsByPriority

LEMMA EnterMasked ==
  ASSUME NestInv, NEW vector \in {"irq", "trapa"}, NEW level \in 0..15,
         NEW count \in 0..DeliverLimit + 1, EnterException(vector, level, count),
         vector = "irq" => ~sr.bl /\ level > sr.imask
  PROVE  LevelsMasked' /\ NestsByPriority'
<1> DEFINE f == [sr |-> sr, vector |-> vector, level |-> level, delivered |-> count]
<1>1. f \in Frame /\ frames \in Seq(Frame) /\ frames' = Append(frames, f)
  BY DEF EnterException, NestInv, TypeOK, Frame
<1>2. f.sr = sr /\ f.vector = vector /\ f.level = level
  OBVIOUS
<1>3. sr' = [sr EXCEPT !.bl = TRUE] /\ sr \in SrType
  BY DEF EnterException, WriteSr, NestInv, TypeOK
<1>4. sr'.bl
  BY <1>3 DEF SrType
<1> HIDE DEF f
<1>5. /\ Len(frames') = Len(frames) + 1 /\ Len(frames) \in Nat
      /\ \A n \in 1..Len(frames) : frames'[n] = frames[n]
      /\ frames'[Len(frames) + 1] = f
  BY <1>1, AppendProperties
<1>6. LevelsMasked'
  <2>1. Masks(sr, Len(frames))'
    BY <1>4 DEF Masks
  <2>2. ASSUME NEW n \in 1..Len(frames')
        PROVE  Masks(frames[n].sr, n - 1)'
    <3>1. CASE n \in 1..Len(frames)
      <4>1. Masks(frames[n].sr, n - 1)
        BY <3>1 DEF NestInv, LevelsMasked
      <4>2. frames'[n] = frames[n] /\ \A m \in 1..n - 1 : frames'[m] = frames[m]
        BY <1>5, <3>1
      <4>3. QED
        BY <4>1, <4>2 DEF Masks
    <3>2. CASE n = Len(frames) + 1
      <4>1. Masks(sr, Len(frames)) /\ frames'[n].sr = sr
        BY <1>2, <1>5, <3>2 DEF NestInv, LevelsMasked
      <4>2. \A m \in 1..n - 1 : frames'[m] = frames[m]
        BY <1>5, <3>2
      <4>3. n - 1 = Len(frames)
        BY <1>5, <3>2
      <4>4. QED
        BY <4>1, <4>2, <4>3 DEF Masks
    <3>3. QED
      BY <1>5, <2>2, <3>1, <3>2
  <2>3. QED
    BY <2>1, <2>2 DEF LevelsMasked
<1>7. NestsByPriority'
  <2> SUFFICES ASSUME NEW i \in 1..Len(frames'), NEW j \in 1..Len(frames'), i < j,
                      frames'[i].vector = "irq", frames'[j].vector = "irq"
               PROVE  frames'[i].level < frames'[j].level
    BY DEF NestsByPriority
  <2>1. i \in 1..Len(frames) /\ frames'[i] = frames[i]
    BY <1>5
  <2>2. CASE j \in 1..Len(frames)
    BY <1>5, <2>1, <2>2 DEF NestInv, NestsByPriority
  <2>3. CASE j = Len(frames) + 1
    <3>1. frames'[j].level = level /\ vector = "irq"
      BY <1>2, <1>5, <2>3
    <3>2. frames[i].level <= sr.imask
      BY <2>1, <3>1 DEF NestInv, LevelsMasked, Masks
    <3>3. frames[i].level \in Nat /\ sr.imask \in Nat
      <4>1. frames[i] \in Frame
        BY <1>1, <2>1
      <4>2. frames[i].level \in 0..15 /\ sr.imask \in 0..15
        BY <1>3, <4>1 DEF Frame, SrType
      <4>3. QED
        BY <4>2, LevelType
    <3>4. QED
      BY <2>1, <3>1, <3>2, <3>3
  <2>4. QED
    BY <1>5, <2>2, <2>3
<1>8. QED
  BY <1>6, <1>7

LEMMA NestNext ==
  ASSUME Polite
  PROVE  NestInv /\ [Next]_vars => NestInv'
<1> SUFFICES ASSUME NestInv, [Next]_vars PROVE LevelsMasked' /\ NestsByPriority'
  BY TypeNext DEF NestInv
<1> USE DEF NestInv
<1>1. ASSUME UNCHANGED <<sr, frames>> PROVE LevelsMasked' /\ NestsByPriority'
  BY <1>1 DEF LevelsMasked, Masks, NestsByPriority
<1>2. CASE Deliver
  <2>1. PICK i \in Irqs : Selected(sr, i) /\ EnterException("irq", Priority(i), delivered + 1)
    BY <1>2 DEF Deliver
  <2>2. ~sr.bl /\ Priority(i) > sr.imask
    BY <2>1 DEF Selected, LetThrough
  <2>3. Priority(i) \in 0..15 /\ delivered + 1 \in 0..DeliverLimit + 1
    BY <1>2, PriorityType DEF Deliver, TypeOK
  <2>4. QED
    BY <2>1, <2>2, <2>3, EnterMasked
<1>3. CASE Trapa
  BY <1>3, EnterMasked DEF Trapa
<1>4. CASE Rte
  <2>1. frames # <<>> /\ frames' = SubSeq(frames, 1, Len(frames) - 1)
    BY <1>4 DEF Rte
  <2>2. sr' = frames[Len(frames)].sr
    BY <1>4 DEF Rte, WriteSr
  <2>3. /\ Len(frames) \in Nat \ {0} /\ Len(frames') = Len(frames) - 1
        /\ \A n \in 1..Len(frames) - 1 : frames'[n] = frames[n]
    BY <2>1, PopType, EmptySeq DEF TypeOK
  <2>4. Masks(sr, Len(frames))'
    <3>1. Masks(frames[Len(frames)].sr, Len(frames) - 1)
      BY <2>3 DEF LevelsMasked
    <3>2. \A m \in 1..Len(frames) - 1 : frames'[m] = frames[m]
      BY <2>3
    <3>3. QED
      BY <2>2, <2>3, <3>1, <3>2 DEF Masks
  <2>5. \A n \in 1..Len(frames') : Masks(frames[n].sr, n - 1)'
    <3> SUFFICES ASSUME NEW n \in 1..Len(frames')
                 PROVE  Masks(frames[n].sr, n - 1)'
      OBVIOUS
    <3>1. Masks(frames[n].sr, n - 1) /\ frames'[n] = frames[n]
      BY <2>3 DEF LevelsMasked
    <3>2. \A m \in 1..n - 1 : frames'[m] = frames[m]
      BY <2>3
    <3>3. QED
      BY <3>1, <3>2 DEF Masks
  <2>6. NestsByPriority'
    BY <2>3 DEF NestsByPriority
  <2>7. QED
    BY <2>4, <2>5, <2>6 DEF LevelsMasked
<1>5. ASSUME NEW m \in ImaskChoices, RteElsewhere(m) PROVE LevelsMasked' /\ NestsByPriority'
  BY <1>5 DEF RteElsewhere, LevelsMasked, Masks, NestsByPriority
<1>6. ASSUME NEW s \in [bl : BOOLEAN, imask : ImaskChoices], LdcSr(s)
      PROVE  LevelsMasked' /\ NestsByPriority'
  <2>1. Masks(s, Len(frames))
    BY <1>6 DEF LdcSr, HandlerLevels, Masks
  <2>2. sr' = s /\ UNCHANGED frames
    BY <1>6 DEF LdcSr, WriteSr
  <2>3. QED
    BY <2>1, <2>2 DEF LevelsMasked, Masks, NestsByPriority
<1>7. CASE LineEvent \/ (\E d \in Devices : DeviceEvent(d)) \/ Advanced \/ PollReturns
  <2>1. UNCHANGED <<sr, frames>>
    BY <1>7 DEF LineEvent, DeviceEvent, Advanced, PollReturns, cpuVars
  <2>2. QED
    BY <1>1, <2>1
<1>8. CASE (\E k \in Steps : Run(k)) \/ Poll \/ CatchUp
  BY <1>1, <1>8 DEF Run, Poll, CatchUp
<1>9. CASE DeviceWrite
  BY <1>1, <1>9, DeviceWriteFrame DEF cpuVars
<1>10. CASE UNCHANGED vars
  BY <1>1, <1>10 DEF vars, cpuVars
<1>11. QED
  BY <1>2, <1>3, <1>4, <1>5, <1>6, <1>7, <1>8, <1>9, <1>10 DEF Next, Guest, Host

\* A nested handler is always of a higher priority than those it interrupts, when
\* handlers keep their own level masked (docs/runtime-interrupts.md 34-35).
THEOREM HandlersNest ==
  ASSUME Polite
  PROVE  Spec => []NestsByPriority
<1>1. Init => NestInv
  BY TypeInit DEF Init, NestInv, LevelsMasked, Masks, NestsByPriority
<1>2. NestInv => NestsByPriority
  BY DEF NestInv
<1>3. QED
  BY <1>1, <1>2, NestNext, PTL DEF Spec

-------------------------------------------------------------------------------
(* The next poll: the line event is never further away than one line, and  *)
(* whatever arms the poll looks at the line event too.                     *)

LineArmed == \E p \in LinePeriods : deadline[Line] <= now + p

PollInv == TypeOK /\ LineArmed /\ PollsEveryLine

\* Only the line event and a write to the SPG move the line event.
LEMMA LineNext ==
  ASSUME TypeOK, LineArmed, [Next]_vars
  PROVE  LineArmed' /\ now <= now'
<1> USE DEF TypeOK
<1>1. ASSUME NEW e \in Events, now' = Max2(now, deadline[e])
      PROVE  now' \in Nat /\ now <= now'
  BY <1>1 DEF Max2
<1>2. ASSUME now' \in Nat, now <= now', deadline'[Line] = deadline[Line]
      PROVE  LineArmed' /\ now <= now'
  <2>1. PICK p \in LinePeriods : deadline[Line] <= now + p
    BY DEF LineArmed
  <2>2. PICK n \in Nat : n = now'
    BY <1>2
  <2>3. deadline[Line] <= n + p
    <3>1. deadline[Line] \in Nat /\ p \in Nat
      BY DEF Events
    <3>2. QED
      BY <1>2, <2>1, <2>2, <3>1
  <2>4. QED
    BY <1>2, <2>2, <2>3 DEF LineArmed
<1>3. CASE LineEvent
  <2>1. /\ now' = Max2(now, deadline[Line]) /\ Line \in Events
        /\ deadline' = [deadline EXCEPT ![Line] = now' + lineCycles]
    BY <1>3 DEF LineEvent, Events
  <2>2. PICK n \in Nat : n = now' /\ now <= n
    BY <1>1, <2>1
  <2>3. deadline'[Line] = n + lineCycles
    BY <2>1, <2>2
  <2>4. deadline'[Line] <= n + lineCycles
    <3>1. n + lineCycles \in Nat
      BY SumType
    <3>2. QED
      BY <2>3, <3>1
  <2>5. QED
    BY <2>2, <2>4, TypeNext DEF LineArmed
<1>4. ASSUME NEW d \in Devices, DeviceEvent(d) PROVE LineArmed' /\ now <= now'
  <2>1. now' = Max2(now, deadline[d]) /\ deadline'[Line] = deadline[Line] /\ d \in Events
    BY <1>4 DEF DeviceEvent, Events
  <2>2. QED
    BY <1>1, <1>2, <2>1
<1>5. CASE Advanced
  <2>1. now' = Max2(now, cycles) /\ deadline'[Line] = deadline[Line]
    BY <1>5 DEF Advanced
  <2>2. now' \in Nat /\ now <= now'
    BY <2>1 DEF Max2
  <2>3. QED
    BY <1>2, <2>1, <2>2
<1>6. ASSUME UNCHANGED <<now, deadline>> PROVE LineArmed' /\ now <= now'
  BY <1>2, <1>6
<1>7. ASSUME NEW d \in Devices, NEW t \in Delays, StartDevice(d, t)
      PROVE  LineArmed' /\ now <= now'
  <2>1. now' = now /\ deadline'[Line] = deadline[Line]
    BY <1>7 DEF StartDevice, Events
  <2>2. QED
    BY <1>2, <2>1
<1>8. ASSUME NEW p \in LinePeriods, WriteSpg(p) PROVE LineArmed' /\ now <= now'
  <2>1. now' = now /\ deadline'[Line] = now + p /\ now + p \in Nat
    BY <1>8 DEF WriteSpg, Events
  <2>2. QED
    BY <2>1 DEF LineArmed
<1>9. CASE DeviceWrite
  BY <1>6, <1>7, <1>8, <1>9, DeviceWriteFrame DEF clockVars
<1>10. CASE Guest /\ ~DeviceWrite
  <2>1. UNCHANGED clockVars
    BY <1>10 DEF Guest, Run, Poll, Trapa, Rte, RteElsewhere, LdcSr, CatchUp
  <2>2. QED
    BY <1>6, <2>1 DEF clockVars
<1>11. CASE Deliver \/ PollReturns \/ UNCHANGED vars
  <2>1. UNCHANGED clockVars
    BY <1>11 DEF Deliver, PollReturns, vars
  <2>2. QED
    BY <1>6, <2>1 DEF clockVars
<1>12. QED
  BY <1>3, <1>4, <1>5, <1>9, <1>10, <1>11 DEF Next, Guest, Host

\* Nothing moves the next poll but an arming or a forced poll.
LEMMA NextEventNext ==
  ASSUME TypeOK, [Next]_vars
  PROVE  /\ cycles <= cycles'
         /\ \/ nextEvent' = nextEvent
            \/ nextEvent' <= cycles
            \/ nextEvent' <= deadline[Line] /\ UNCHANGED clockVars
<1> USE DEF TypeOK
<1>1. ASSUME NEW s \in SrType, ArmNextPoll(s), UNCHANGED <<clockVars, cycles>>
      PROVE  /\ cycles <= cycles'
             /\ nextEvent' <= cycles \/ (nextEvent' <= deadline[Line] /\ UNCHANGED clockVars)
  BY <1>1, ArmType
<1>2. ASSUME NEW s, WriteSr(s), UNCHANGED cycles
      PROVE  cycles <= cycles' /\ (nextEvent' = nextEvent \/ nextEvent' <= cycles)
  BY <1>2 DEF WriteSr
<1>3. ASSUME UNCHANGED <<cycles, nextEvent>> PROVE cycles <= cycles' /\ nextEvent' = nextEvent
  BY <1>3
<1>4. CASE LineEvent \/ (\E d \in Devices : DeviceEvent(d)) \/ Advanced \/ DeviceWrite \/ UNCHANGED vars
  <2>1. UNCHANGED <<cycles, nextEvent>>
    BY <1>4, DeviceWriteFrame DEF LineEvent, DeviceEvent, Advanced, cpuVars, vars
  <2>2. QED
    BY <1>3, <2>1
<1>5. CASE Deliver \/ Trapa \/ (\E m \in ImaskChoices : RteElsewhere(m))
           \/ \E s \in [bl : BOOLEAN, imask : ImaskChoices] : LdcSr(s)
  <2>1. UNCHANGED cycles /\ \E s : WriteSr(s)
    BY <1>5 DEF Deliver, Trapa, EnterException, RteElsewhere, LdcSr
  <2>2. QED
    BY <1>2, <2>1
<1>6. CASE PollReturns
  BY <1>1, <1>6 DEF PollReturns
<1>7. CASE Rte
  <2> DEFINE f == frames[Len(frames)]
  <2>1. f.sr \in SrType
    BY <1>7, PopType DEF Rte, Frame
  <2>2. UNCHANGED <<clockVars, cycles>> /\ (WriteSr(f.sr) \/ ArmNextPoll(f.sr))
    BY <1>7 DEF Rte
  <2> HIDE DEF f
  <2>3. QED
    BY <1>1, <1>2, <2>1, <2>2
<1>8. CASE Poll \/ CatchUp
  BY <1>3, <1>8 DEF Poll, CatchUp
<1>9. ASSUME NEW k \in Steps, Run(k) PROVE cycles <= cycles' /\ nextEvent' = nextEvent
  <2>1. cycles' = cycles + k /\ nextEvent' = nextEvent
    BY <1>9 DEF Run
  <2>2. cycles \in Nat /\ k \in Nat
    OBVIOUS
  <2>3. QED
    BY <2>1, <2>2, SumType
<1>10. QED
  BY <1>4, <1>5, <1>6, <1>7, <1>8, <1>9 DEF Next, Guest, Host

\* A poll is due, or will be within one scanline of the clock, whatever the guest
\* starts, masks or switches to in between (system.cpp 55-58, 122-127, 142-150).
THEOREM PollsComeByLine == Spec => []PollsEveryLine
<1>1. Init => PollInv
  <2> SUFFICES ASSUME Init PROVE LineArmed /\ PollsEveryLine
    BY TypeInit DEF PollInv
  <2>1. now = 0 /\ deadline[Line] = lineCycles /\ lineCycles \in LinePeriods
    BY DEF Init, Events
  <2>2. lineCycles <= now + lineCycles
    BY <2>1
  <2>3. LineArmed
    BY <2>1, <2>2 DEF LineArmed
  <2>4. PollsEveryLine
    BY DEF Init, PollsEveryLine
  <2>5. QED
    BY <2>3, <2>4
<1>2. PollInv /\ [Next]_vars => PollInv'
  <2> SUFFICES ASSUME PollInv, [Next]_vars PROVE PollsEveryLine'
    BY TypeNext, LineNext DEF PollInv
  <2>1. TypeOK /\ TypeOK' /\ LineArmed /\ PollsEveryLine
    BY TypeNext DEF PollInv
  <2>2. PICK n \in Nat, c \in Nat, x \in Nat :
          n = now' /\ c = cycles' /\ x = nextEvent' /\ now <= n /\ cycles <= c
    BY <2>1, LineNext, NextEventNext DEF TypeOK
  <2>3. x <= c \/ \E p \in LinePeriods : x <= n + p
    <3> now \in Nat /\ cycles \in Nat /\ deadline[Line] \in Nat
      BY <2>1 DEF TypeOK, Events
    <3>1. ASSUME NEW p \in LinePeriods, x <= now + p
          PROVE  x <= n + p
      <4>1. p \in Nat
        OBVIOUS
      <4>2. QED
        BY <2>2, <3>1, <4>1, LaterSum
    <3>2. CASE x <= cycles
      BY <2>2, <3>2, AtMostTrans
    <3>3. CASE \E p \in LinePeriods : x <= now + p
      <4>1. PICK p \in LinePeriods : x <= now + p
        BY <3>3
      <4>2. x <= n + p
        BY <3>1, <4>1
      <4>3. QED
        BY <4>2
    <3>4. CASE x <= deadline[Line]
      <4>1. PICK p \in LinePeriods : deadline[Line] <= now + p
        BY <2>1 DEF LineArmed
      <4>2. x <= now + p
        BY <3>4, <4>1, AtMostTrans, SumType
      <4>3. x <= n + p
        BY <3>1, <4>2
      <4>4. QED
        BY <4>3
    <3>5. x = nextEvent => x <= cycles \/ \E p \in LinePeriods : x <= now + p
      BY <2>1 DEF PollsEveryLine
    <3>6. QED
      BY <2>1, <2>2, <3>2, <3>3, <3>4, <3>5, NextEventNext
  <2>4. QED
    BY <2>2, <2>3 DEF PollsEveryLine
<1>3. PollInv => PollsEveryLine
  BY DEF PollInv
<1>4. QED
  BY <1>1, <1>2, <1>3, PTL DEF Spec

-------------------------------------------------------------------------------
(* The composed machine implements the abstract clock: events are set to   *)
(* times that are not past, and both loops that advance the clock stop at  *)
(* every event on the way.                                                 *)

OnTime == \A e \in Events : now <= deadline[e] /\ deadline[e] <= Never

ClockInv == TypeOK /\ now <= Horizon /\ OnTime

LEMMA HorizonBeforeNever ==
  /\ Horizon < Never
  /\ \A x \in Nat, p \in LinePeriods : x <= Horizon => x <= x + p /\ x + p <= Never
<1>1. \A p \in LinePeriods : p \in Nat \ {0} /\ Horizon + p < Never
  OBVIOUS
<1>2. PICK p \in LinePeriods : TRUE
  OBVIOUS
<1>3. Horizon < Never
  BY <1>1, <1>2
<1>4. QED
  BY <1>1, <1>3

\* Event e of the host's loop is a ring of its alarm, to be set again for t or for Never.
LEMMA EventRings ==
  ASSUME ClockInv, NEW e \in Events, Due(e), NEW t \in Nat, deadline[e] <= t, t <= Never,
         now' = Max2(now, deadline[e]), deadline' = [deadline EXCEPT ![e] = t]
  PROVE  now' <= Horizon /\ OnTime' /\ Clock!Ring(e)
<1>1. now \in Nat /\ cycles \in Nat /\ cycles <= Horizon /\ deadline \in [Events -> Nat]
  BY DEF ClockInv, TypeOK
<1>2. now' = deadline[e]
  BY <1>1 DEF Max2, ClockInv, OnTime
<1>3. deadline[e] <= cycles /\ \A f \in Events : deadline[e] <= deadline[f]
  BY DEF Due
<1>4. deadline[e] <= Horizon
  BY <1>1, <1>3
<1>5. OnTime'
  BY <1>1, <1>2, <1>3 DEF ClockInv, OnTime
<1>6. deadline[e] # Never
  BY <1>1, <1>4, HorizonBeforeNever
<1>7. Clock!Rearmed(e)
  BY <1>1, <1>2 DEF Clock!Rearmed
<1>8. QED
  BY <1>2, <1>3, <1>4, <1>5, <1>6, <1>7 DEF Clock!Ring

\* A device that asks for an event sets its alarm.
LEMMA RequestSets ==
  ASSUME ClockInv, NEW e \in Events, NEW t \in Nat, now <= t, t <= Never,
         now' = now, deadline' = [deadline EXCEPT ![e] = t]
  PROVE  now' <= Horizon /\ OnTime' /\ Clock!Set(e)
<1>1. now \in Nat /\ deadline \in [Events -> Nat]
  BY DEF ClockInv, TypeOK
<1>2. now' <= Horizon /\ OnTime'
  BY <1>1 DEF ClockInv, OnTime
<1>3. QED
  BY <1>1, <1>2 DEF Clock!Set, Clock!Rearmed

LEMMA ClockNext ==
  ASSUME ClockInv, [Next]_vars
  PROVE  now' <= Horizon /\ OnTime' /\ [Clock!Next]_Clock!vars
<1> USE DEF ClockInv
<1>1. CASE LineEvent
  <2>1. PICK n \in Nat : n = now'
    BY TypeNext DEF TypeOK
  <2>2. /\ n = Max2(now, deadline[Line]) /\ deadline' = [deadline EXCEPT ![Line] = n + lineCycles]
        /\ Due(Line) /\ Line \in Events
    BY <1>1, <2>1 DEF LineEvent, Events
  <2>3. n = deadline[Line] /\ n <= Horizon
    BY <2>2 DEF Max2, OnTime, Due, TypeOK
  <2>4. lineCycles \in LinePeriods
    BY DEF TypeOK
  <2>5. n + lineCycles \in Nat /\ n <= n + lineCycles /\ n + lineCycles <= Never
    BY <2>3, <2>4, HorizonBeforeNever, SumType
  <2>6. QED
    BY <2>1, <2>2, <2>3, <2>5, EventRings DEF Clock!Next
<1>2. ASSUME NEW d \in Devices, DeviceEvent(d)
      PROVE  now' <= Horizon /\ OnTime' /\ [Clock!Next]_Clock!vars
  <2>1. /\ now' = Max2(now, deadline[d]) /\ deadline' = [deadline EXCEPT ![d] = Never]
        /\ Due(d) /\ d \in Events
    BY <1>2 DEF DeviceEvent, Events
  <2>2. deadline[d] <= Never /\ Never <= Never
    BY <2>1 DEF OnTime
  <2>3. QED
    BY <2>1, <2>2, EventRings DEF Clock!Next
<1>3. CASE Advanced
  <2>1. PICK n \in Nat : n = now' /\ n = Max2(now, cycles)
    BY <1>3, TypeNext DEF TypeOK, Advanced
  <2>2. deadline' = deadline /\ \A e \in Events : cycles < deadline[e]
    BY <1>3 DEF Advanced
  <2>3. now <= n /\ n <= Horizon /\ \A e \in Events : n <= deadline[e]
    BY <2>1, <2>2 DEF Max2, OnTime, TypeOK
  <2>4. OnTime'
    BY <2>1, <2>2, <2>3 DEF OnTime
  <2>5. Clock!Pass
    BY <2>1, <2>2, <2>3 DEF Clock!Pass
  <2>6. QED
    BY <2>1, <2>3, <2>4, <2>5 DEF Clock!Next
<1>4. ASSUME NEW d \in Devices, NEW t \in Delays, StartDevice(d, t)
      PROVE  now' <= Horizon /\ OnTime' /\ [Clock!Next]_Clock!vars
  <2>1. /\ now' = now /\ deadline' = [deadline EXCEPT ![d] = now + t] /\ now + t <= Horizon
        /\ d \in Events
    BY <1>4 DEF StartDevice, Events
  <2>2. now + t \in Nat /\ now <= now + t
    BY SumType DEF TypeOK
  <2>3. now + t <= Never
    BY <2>1, <2>2, HorizonBeforeNever
  <2>4. QED
    BY <2>1, <2>2, <2>3, RequestSets DEF Clock!Next
<1>5. ASSUME NEW p \in LinePeriods, WriteSpg(p)
      PROVE  now' <= Horizon /\ OnTime' /\ [Clock!Next]_Clock!vars
  <2>1. now' = now /\ deadline' = [deadline EXCEPT ![Line] = now + p] /\ Line \in Events
    BY <1>5 DEF WriteSpg, Events
  <2>2. now + p \in Nat /\ now <= now + p /\ now + p <= Never
    BY HorizonBeforeNever, SumType DEF TypeOK
  <2>3. QED
    BY <2>1, <2>2, RequestSets DEF Clock!Next
<1>6. ASSUME UNCHANGED clockVars PROVE now' <= Horizon /\ OnTime' /\ [Clock!Next]_Clock!vars
  BY <1>6 DEF clockVars, OnTime, Clock!vars
<1>7. CASE DeviceWrite
  BY <1>4, <1>5, <1>6, <1>7, DeviceWriteFrame
<1>8. CASE Guest /\ ~DeviceWrite
  <2>1. UNCHANGED clockVars
    BY <1>8 DEF Guest, Run, Poll, Trapa, Rte, RteElsewhere, LdcSr, CatchUp
  <2>2. QED
    BY <1>6, <2>1
<1>9. CASE Deliver \/ PollReturns \/ UNCHANGED vars
  <2>1. UNCHANGED clockVars
    BY <1>9 DEF Deliver, PollReturns, vars
  <2>2. QED
    BY <1>6, <2>1
<1>10. QED
  BY <1>1, <1>2, <1>3, <1>7, <1>8, <1>9 DEF Next, Guest, Host

\* The composed machine still keeps the promise of the virtual clock, although two
\* loops of the host advance it and guest code gets in between (system.cpp 41-53, 122-127).
THEOREM Refines == Spec => ImplementsAlarmClock
<1>1. Init => ClockInv /\ Clock!Init
  <2> SUFFICES ASSUME Init PROVE ClockInv /\ Clock!Init
    OBVIOUS
  <2>1. TypeOK /\ now = 0 /\ lineCycles \in LinePeriods
    BY TypeInit DEF Init
  <2>2. \A e \in Events : deadline[e] = lineCycles \/ deadline[e] = Never
    BY DEF Init
  <2>3. lineCycles \in Nat /\ lineCycles <= Never /\ now <= Horizon
    BY <2>1, HorizonBeforeNever
  <2>4. OnTime
    BY <2>1, <2>2, <2>3 DEF OnTime
  <2>5. deadline = [e \in Events |-> deadline[e]]
    BY <2>1 DEF TypeOK
  <2>6. QED
    BY <2>1, <2>3, <2>4, <2>5 DEF ClockInv, OnTime, Clock!Init
<1>2. ClockInv /\ [Next]_vars => ClockInv'
  BY TypeNext, ClockNext DEF ClockInv
<1>3. ClockInv /\ [Next]_vars => [Clock!Next]_Clock!vars
  BY ClockNext
<1>4. QED
  BY <1>1, <1>2, <1>3, PTL DEF Spec, ImplementsAlarmClock, Clock!Spec
===============================================================================
