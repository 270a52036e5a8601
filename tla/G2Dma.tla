--------------------------------- MODULE G2Dma ---------------------------------
(***************************************************************************)
(* One channel of the G2 bus DMA (runtime/src/holly/g2dma.cpp).  A start      *)
(* copies everything at once and then stays busy for the time the bus would   *)
(* take, during which the guest may write every register; the end works on    *)
(* the registers as they are then.                                            *)
(***************************************************************************)
EXTENDS Naturals

CONSTANTS
  Sources,      \* STAR values in system RAM or VRAM
  Targets,      \* STAG values on the G2 bus or in RAM
  G2Lengths,    \* LEN values, 0 among them
  AtOnce,       \* lengths that take 512 cycles or less: up to 128 bytes
  TopAddress    \* bound: addresses the registers advance to

VARIABLES
  reg,        \* the channel's registers; once is bit 31 of LEN, stopped bit 4 of SUSP
  armed,      \* the channel's event is armed
  raised,     \* interrupts raised: "done", "error"
  copied,     \* history: what the last accepted start copied
  kept,       \* history: no address or length was written since
  announced   \* history: its end has been raised

vars == <<reg, armed, raised, copied, kept, announced>>

Addresses == 0..TopAddress

\* Mutant of Finished: only the source address goes on.
FinishedSourceOnly(r) ==
  [r EXCEPT !.en = @ /\ ~r.once, !.star = @ + r.len,
            !.len = 0, !.once = FALSE, !.st = FALSE, !.stopped = TRUE]

\* finish, on the registers r.
Finished(r) ==
  [r EXCEPT !.en = @ /\ ~r.once, !.star = @ + r.len, !.stag = @ + r.len,
            !.len = 0, !.once = FALSE, !.st = FALSE, !.stopped = TRUE]

Finish ==
  /\ armed
  /\ armed' = FALSE
  /\ reg' = Finished(reg)
  /\ raised' = raised \cup {"done"}
  /\ announced' = TRUE
  /\ UNCHANGED <<copied, kept>>

\* A start outside the address ranges, or of nothing.
Refused(r) == r.star \notin Sources \/ r.stag \notin Targets \/ r.len = 0

\* The copy is made; a short one ends before the register write returns.
Begin ==
  LET busy == [reg EXCEPT !.st = TRUE, !.stopped = FALSE] IN
  IF reg.len \in AtOnce
  THEN /\ reg' = Finished(busy)
       /\ raised' = raised \cup {"done"}
       /\ announced' = TRUE
       /\ UNCHANGED armed
  ELSE /\ reg' = busy
       /\ armed' = TRUE
       /\ announced' = FALSE
       /\ UNCHANGED raised

Start ==
  /\ ~reg.st /\ reg.en
  /\ IF Refused(reg)
     THEN /\ reg' = [reg EXCEPT !.st = FALSE, !.en = FALSE]
          /\ raised' = raised \cup {"error"}
          /\ UNCHANGED <<armed, copied, kept, announced>>
     ELSE /\ Begin
          /\ copied' = [star |-> reg.star, stag |-> reg.stag, len |-> reg.len]
          /\ kept' = TRUE

\* EN, LEN, STAR and STAG are stored at any time.
WriteRegister ==
  /\ \/ \E b \in BOOLEAN : reg' = [reg EXCEPT !.en = b] /\ UNCHANGED kept
     \/ /\ \/ \E n \in G2Lengths, b \in BOOLEAN : reg' = [reg EXCEPT !.len = n, !.once = b]
           \/ \E a \in Addresses : reg' = [reg EXCEPT !.star = a]
           \/ \E a \in Addresses : reg' = [reg EXCEPT !.stag = a]
        /\ reg'.star + reg'.len \in Addresses /\ reg'.stag + reg'.len \in Addresses
        /\ kept' = FALSE
  /\ UNCHANGED <<armed, raised, copied, announced>>

Acknowledge(i) ==
  /\ raised' = raised \ {i}
  /\ UNCHANGED <<reg, armed, copied, kept, announced>>

Init ==
  /\ reg = [st |-> FALSE, en |-> FALSE, stopped |-> TRUE, len |-> 0, once |-> FALSE,
            star |-> 0, stag |-> 0]
  /\ armed = FALSE /\ raised = {}
  /\ copied = [star |-> 0, stag |-> 0, len |-> 0] /\ kept = TRUE /\ announced = TRUE

Next == Finish \/ Start \/ WriteRegister \/ \E i \in {"done", "error"} : Acknowledge(i)

-------------------------------------------------------------------------------
\* A channel reads busy exactly from an accepted start to its end interrupt, and while it
\* does its event is armed (g2dma.cpp 56-101).
BusyUntilAnnounced ==
  /\ reg.st <=> armed
  /\ reg.st <=> ~announced
  /\ reg.stopped <=> ~reg.st

\* A guest that leaves the registers of a transfer alone finds both addresses at the end of
\* what was copied, whether it ended at once or later, with a length of zero (g2dma.cpp 89-99).
EndsWhereItCopied ==
  (kept /\ announced) => /\ reg.star = copied.star + copied.len
                         /\ reg.stag = copied.stag + copied.len
                         /\ reg.len = 0
===============================================================================
