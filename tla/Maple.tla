--------------------------------- MODULE Maple ---------------------------------
(***************************************************************************)
(* The Maple bus (runtime/src/maple/maple.cpp 295-491).  A start reads the   *)
(* whole descriptor list, asks the devices and keeps their replies; they go  *)
(* to RAM when the event fires, after the time the wire would take.  A start *)
(* comes from the guest, or from every vertical blank under the hardware     *)
(* trigger.  Times are counted from now.                                     *)
(***************************************************************************)
EXTENDS Naturals

CONSTANTS
  Lists,      \* descriptor lists the guest prepares
  Frames,     \* list -> its frames, [port, to, recv]: recv 0 drops the reply
  WireTime,   \* list -> cycles its transfer takes
  Attached,   \* <<port, place>> of the devices: place 5 the main one, 0..4 expansion slots
  FramePeriod \* cycles between vertical blanks

Places == 0..5
RecvAreas == {f.recv : f \in UNION {Frames[l] : l \in Lists}} \ {0}
NoAnswer  == {}   \* 0xFFFFFFFF: the reply of no sender

VARIABLES
  mden, mdst, hwTrigger,  \* SB_MDEN, SB_MDST, SB_MDTSEL
  manualReset, waitReset, \* bit 12 of SB_MSYS, trigger_pending_reset_
  list,        \* the list SB_MDSTAR points at
  out,         \* out_: receive area -> reply waiting to be written
  left,        \* cycles to the event, 0 when it is not armed
  toVBlank,    \* cycles to the next vertical blank
  ram,         \* receive area -> <<age, reply>>, the age "new" if of the newest start
  dmaEnd,      \* MapleDma is raised
  started, answered  \* history: the newest list started; its replies were written

vars == <<mden, mdst, hwTrigger, manualReset, waitReset, list, out, left, toVBlank, ram,
          dmaEnd, started, answered>>
regs == <<mden, hwTrigger, manualReset, list>>

\* device_for: the main device if bit 5 is set, else the lowest expansion slot addressed that
\* is named by the byte; a slot without a device does not answer.
Recipient(to) == IF 5 \in to THEN 5 ELSE CHOOSE s \in to : \A q \in to : s <= q
Answers(f) == f.to # {} /\ <<f.port, Recipient(f.to)>> \in Attached

\* The reply to a frame names its sender; a main device's names its occupied slots too.
ReplyTo(f) ==
  IF ~Answers(f) THEN NoAnswer
  ELSE f.to \cup IF 5 \in f.to THEN {s \in 0..4 : <<f.port, s>> \in Attached} ELSE {}

Replies(l) == {[recv |-> f.recv, reply |-> ReplyTo(f)] : f \in Frames[l]}

\* Mutant of NewOut: replies of an interrupted list are not dropped.
NewOutKeepsOld(l) == out \cup Replies(l)

\* What waits to be written once list l is started: the old replies are dropped.
NewOut(l) == Replies(l)

\* start_dma.
StartDma ==
  /\ mdst' = TRUE
  /\ out' = NewOut(list)
  /\ left' = WireTime[list]
  /\ ram' = [a \in RecvAreas |-> <<"old", ram[a][2]>>]
  /\ started' = list
  /\ answered' = FALSE

\* The guest writes 1 to SB_MDST: ignored while a transfer is in progress.
WriteMdst ==
  /\ mden /\ ~mdst
  /\ StartDma
  /\ UNCHANGED <<regs, waitReset, toVBlank, dmaEnd>>

\* The SPG at vertical blank out.
VBlank ==
  /\ toVBlank = 0
  /\ toVBlank' = FramePeriod
  /\ IF mden /\ hwTrigger /\ ~waitReset
     THEN /\ StartDma
          /\ waitReset' = manualReset
     ELSE /\ waitReset' = (waitReset /\ (~mden \/ hwTrigger))
          /\ UNCHANGED <<mdst, out, left, ram, started, answered>>
  /\ UNCHANGED <<regs, dmaEnd>>

\* Mutant of BusyAfter: SB_MDST is left set.
BusyAfterStays == mdst

\* SB_MDST after complete, whether the bus is still on or not.
BusyAfter == FALSE

\* complete.
Complete ==
  /\ left = 1
  /\ left' = 0
  /\ IF mden
     THEN /\ ram' = [a \in RecvAreas |->
                       IF \E r \in out : r.recv = a
                       THEN <<"new", (CHOOSE r \in out : r.recv = a).reply>> ELSE ram[a]]
          /\ dmaEnd' = TRUE
          /\ answered' = (out = Replies(started))
     ELSE UNCHANGED <<ram, dmaEnd, answered>>
  /\ out' = {}
  /\ mdst' = BusyAfter
  /\ UNCHANGED <<regs, waitReset, toVBlank, started>>

Tick ==
  /\ left # 1 /\ toVBlank # 0
  /\ left' = IF left = 0 THEN 0 ELSE left - 1
  /\ toVBlank' = toVBlank - 1
  /\ UNCHANGED <<regs, mdst, waitReset, out, ram, dmaEnd, started, answered>>

\* SB_MDEN; switching the bus off clears SB_MDST, but neither event nor replies.
WriteMden(on) ==
  /\ mden' = on
  /\ mdst' = (mdst /\ on)
  /\ UNCHANGED <<hwTrigger, manualReset, waitReset, list, out, left, toVBlank, ram, dmaEnd,
                 started, answered>>

\* SB_MDSTAR, SB_MDTSEL, SB_MSYS and SB_MSHTCL.
WriteOther ==
  /\ \/ \E l \in Lists : list' = l /\ UNCHANGED <<hwTrigger, manualReset, waitReset>>
     \/ \E b \in BOOLEAN : hwTrigger' = b /\ UNCHANGED <<list, manualReset, waitReset>>
     \/ \E b \in BOOLEAN : manualReset' = b /\ UNCHANGED <<list, hwTrigger, waitReset>>
     \/ waitReset' = FALSE /\ UNCHANGED <<list, hwTrigger, manualReset>>
  /\ UNCHANGED <<mden, mdst, out, left, toVBlank, ram, dmaEnd, started, answered>>

Acknowledge ==
  /\ dmaEnd' = FALSE
  /\ UNCHANGED <<regs, mdst, waitReset, out, left, toVBlank, ram, started, answered>>

Init ==
  /\ mden = FALSE /\ mdst = FALSE /\ hwTrigger = FALSE
  /\ manualReset = TRUE /\ waitReset = FALSE
  /\ list \in Lists
  /\ out = {} /\ left = 0 /\ toVBlank = FramePeriod
  /\ ram = [a \in RecvAreas |-> <<"old", NoAnswer>>]
  /\ dmaEnd = FALSE
  /\ started = list /\ answered = FALSE

Step == Tick \/ VBlank \/ Complete

Next ==
  \/ Step \/ WriteMdst \/ WriteOther \/ Acknowledge
  \/ \E on \in BOOLEAN : WriteMden(on)

-------------------------------------------------------------------------------
\* Whatever restarts, list changes and switching off and on come between, the guest never
\* finds a reply of an interrupted list as if it were of the newest, and a list that was
\* answered has every reply it asked for (maple.cpp 322-421).
RepliesOfNewestList ==
  /\ \A a \in RecvAreas : ram[a][1] = "new" =>
       [recv |-> a, reply |-> ram[a][2]] \in Replies(started)
  /\ answered => \A f \in Frames[started] :
       f.recv # 0 => ram[f.recv] = <<"new", ReplyTo(f)>>

\* A busy bus has its event armed, so nothing the guest writes can leave it busy for ever
\* (maple.cpp 411-421, 455-470).
BusyIsArmed == mdst => left > 0

\* A transfer that takes less than a frame ends, even when every vertical blank starts it
\* again; one that takes longer need not (maple.cpp 322-335).
ShortTransferEnds ==
  \A l \in Lists : WireTime[l] < FramePeriod =>
    ((mdst /\ started = l) ~> (~mdst \/ started # l))
===============================================================================
