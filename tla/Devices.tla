-------------------------------- MODULE Devices --------------------------------
(***************************************************************************)
(* Devices that share no state with each other, checked in one run: the run  *)
(* chooses one of them, and the others stay as they were reset.  What they    *)
(* raise at the interrupt controllers is modelled in Interrupts.              *)
(***************************************************************************)
EXTENDS Integers

CONSTANTS
  Counts, Prescalers, Clamp, Cycles, Never,              \* Tmu
  Sources, Targets, G2Lengths, AtOnce, TopAddress,       \* G2Dma
  Lists, Frames, WireTime, Attached, FramePeriod,        \* Maple
  Blocks, Quarters, Data,                                          \* MemoryCard
  NumBlocks, BlockIds, Bits,                             \* Flash
  DiscSectors, ReadableSectors, ReadPlaces, ReadCounts, Batch, MaxRequests, None  \* GdRom

VARIABLES
  device,  \* the device of this run
  now, due, running, prescaler, base, tcor, unf, unie, pending,
  reg, armed, raised, copied, kept, announced,
  mden, mdst, hwTrigger, manualReset, waitReset, list, out, left, toVBlank, ram, dmaEnd,
  started, answered,
  file, process, boot, flash, reply,
  header, free, block, stored,
  status, command, lastRequest, nextRequest, remaining, total, position, gdEvent, g1DmaEnd,
  sectors, told

\* Counts, lengths and addresses are numbers; a tick of a timer and a Maple transfer take time;
\* the receive areas of a list are its own; no flash id is that of an erased block; a tick of
\* the GD-ROM transfers something.
DevicesAssumption ==
  /\ Counts \subseteq Nat /\ Prescalers \subseteq Nat \ {0} /\ Clamp \in Nat \ {0}
  /\ G2Lengths \subseteq Nat /\ TopAddress \in Nat
  /\ WireTime \in [Lists -> Nat \ {0}]
  /\ \A l \in Lists : \A f, g \in Frames[l] : f.recv = g.recv /\ f.recv # 0 => f = g
  /\ NumBlocks \in Nat /\ 0 \notin BlockIds
  /\ DiscSectors \subseteq Nat /\ ReadPlaces \subseteq Nat /\ ReadCounts \subseteq Nat
  /\ Batch \in Nat \ {0} /\ MaxRequests \in Nat
ASSUME DevicesAssumption

Timer == INSTANCE Tmu
G2    == INSTANCE G2Dma
Bus   == INSTANCE Maple
Card  == INSTANCE MemoryCard
Rom   == INSTANCE Flash
Gd    == INSTANCE GdRom WITH armed <- gdEvent, dmaEnd <- g1DmaEnd, ram <- sectors,
                             Sectors <- DiscSectors, Readable <- ReadableSectors,
                             Places <- ReadPlaces, Counts <- ReadCounts

timer == <<now, due, running, prescaler, base, tcor, unf, unie, pending>>
g2    == <<reg, armed, raised, copied, kept, announced>>
bus   == <<mden, mdst, hwTrigger, manualReset, waitReset, list, out, left, toVBlank, ram,
           dmaEnd, started, answered>>
card  == <<file, process, boot, flash, reply>>
rom   == <<header, free, block, stored>>
gd    == <<status, command, lastRequest, nextRequest, remaining, total, position, gdEvent,
           g1DmaEnd, sectors, told>>
vars  == <<device, timer, g2, bus, card, rom, gd>>

Init ==
  /\ device \in {"tmu", "g2", "maple", "card", "flash", "gdrom"}
  /\ Timer!Init /\ G2!Init /\ Bus!Init /\ Card!Init /\ Rom!Init /\ Gd!Init
  /\ device # "tmu"   => tcor = CHOOSE c \in Counts : TRUE
  /\ device # "tmu"   => prescaler = CHOOSE p \in Prescalers : TRUE
  /\ device # "maple" => list = CHOOSE l \in Lists : TRUE
  /\ device # "card"  => file = Card!NoCard("missing")

Next ==
  \/ /\ device = "tmu" /\ Timer!Next
     /\ UNCHANGED <<device, g2, bus, card, rom, gd>>
  \/ /\ device = "g2" /\ G2!Next
     /\ UNCHANGED <<device, timer, bus, card, rom, gd>>
  \/ /\ device = "maple" /\ Bus!Next
     /\ UNCHANGED <<device, timer, g2, card, rom, gd>>
  \/ /\ device = "card" /\ Card!Next
     /\ UNCHANGED <<device, timer, g2, bus, rom, gd>>
  \/ /\ device = "flash" /\ Rom!Next
     /\ UNCHANGED <<device, timer, g2, bus, card, gd>>
  \/ /\ device = "gdrom" /\ Gd!Next
     /\ UNCHANGED <<device, timer, g2, bus, card, rom>>

Spec == Init /\ [][Next]_vars

\* Time passes, whatever the guest does, and the scheduler runs what is due; a guest that
\* waits for a command keeps calling the server.
FairSpec ==
  /\ Spec
  /\ WF_vars(device = "maple" /\ Bus!Step /\ UNCHANGED <<device, timer, g2, card, rom, gd>>)
  /\ WF_vars(device = "gdrom" /\ Gd!Tick /\ UNCHANGED <<device, timer, g2, bus, card, rom>>)
  /\ WF_vars(device = "gdrom" /\ Gd!ExecServer /\ UNCHANGED <<device, timer, g2, bus, card, rom>>)

-------------------------------------------------------------------------------
\* The timer's derived counter is the hardware's (tmu.cpp 30-98, 145-175).
CountsAsHardware == Timer!CountsAsHardware

\* G2 DMA reads busy until its end is announced, and ends where it copied to, unless its
\* registers were written meanwhile (g2dma.cpp 56-101).
TransferEndsWhereItCopied == G2!BusyUntilAnnounced /\ G2!EndsWhereItCopied

\* Maple never shows replies of an interrupted list as the newest's, and a busy bus has its
\* event armed (maple.cpp 322-421).
RepliesOfNewestList == Bus!RepliesOfNewestList /\ Bus!BusyIsArmed

\* A Maple transfer shorter than a frame ends under every trigger (maple.cpp 322-335).
ShortTransferEnds == Bus!ShortTransferEnds

\* A block write answered with success is in the card's file, and flash blocks read back
\* what was written under their id (maple.cpp 228-236, flash.cpp 118-175).
StorageKeeps == Card!AnsweredIsSaved /\ Rom!BlocksReadBack

\* A GD-ROM read reported complete has put every sector where it was asked for (bios.cpp
\* 291-323).
ReadDelivers == Gd!ReadDelivers

\* Nothing else is overwritten: a read writes RAM only where the request that holds the
\* queue asked for it, and a file that is not a card, or a save that was cut short, is
\* neither adopted nor written over (bios.cpp 291-323, maple.cpp 36-60).
OverwritesNothingElse == Gd!WritesOnlyItsBuffer /\ Card!RefusesWhatIsNoCard

\* The end of each request is reported once (bios.cpp 488-503).
ReportedOnce == Gd!ReportedOnce

\* A command that is queued ends (bios.cpp 336).
CommandsEnd == Gd!CommandsEnd
===============================================================================
