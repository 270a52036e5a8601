--------------------------------- MODULE GdRom ---------------------------------
(***************************************************************************)
(* The GD-ROM syscalls of the BIOS (runtime/src/hle/bios.cpp 284-558): a    *)
(* queue of one command, served by the guest's calls of EXEC_SERVER, and   *)
(* sector reads that complete batch by batch on a scheduler event.         *)
(*                                                                         *)
(* The guest's threads call in any order, with any request id.  Time is    *)
(* the scheduler's: an armed event fires at some later point, which may be *)
(* inside a call that runs advance_to first.  Commands that are done as    *)
(* soon as they are executed differ only in the data they return.          *)
(***************************************************************************)
EXTENDS Naturals, FiniteSets

CONSTANTS
  Sectors,      \* disc sectors read commands ask for
  Readable,     \* those the disc image holds
  Places,       \* RAM the reads go to, in sectors
  Counts,       \* sector counts the reads ask for
  Batch,        \* sectors a tick transfers: 5
  MaxRequests,  \* bound: requests accepted between two INIT_SYSTEM
  None          \* a place no read has written

\* command and its params: a read of n sectors from s on to place d.
Reads == [kind : {"read"}, s : Sectors, n : Counts, d : Places]
Other(kind) == [kind |-> kind, s |-> 0, n |-> 0, d |-> 0]
Commands == {c \in Reads : \A i \in 0..c.n - 1 : c.s + i \in Sectors /\ c.d + i \in Places}
              \cup {Other("init"), Other("immediate"), Other("unknown")}

Ids    == 1..MaxRequests
Forgot == MaxRequests + 1    \* 0xFFFFFFFF, an id no request has

VARIABLES
  status,       \* GDC_OK, GDC_BUSY, GDC_COMPLETE or GDC_ERR
  command,      \* command and params
  lastRequest, nextRequest,
  remaining, total,  \* read_remaining, read_total
  position,     \* read_sector and read_dest, as an offset from params
  armed,        \* gd_event_ is armed
  dmaEnd,       \* the G1 DMA-end interrupt is raised
  ram,          \* the sector each place holds
  told          \* history: how often each id was told its command had ended

read == <<remaining, total, position>>
vars == <<status, command, lastRequest, nextRequest, read, armed, dmaEnd, ram, told>>

-------------------------------------------------------------------------------
\* The next b sectors of the read go to RAM.
TransferBatch(b) ==
  /\ ram' = [p \in Places |->
               IF \E i \in position..position + b - 1 :
                    p = command.d + i /\ command.s + i \in Readable
               THEN command.s + (p - command.d)
               ELSE ram[p]]
  /\ position' = position + b
  /\ remaining' = remaining - b
  /\ total' = total

\* Mutant of Tick: the last sectors are not waited for.
TickEndsEarly ==
  /\ armed
  /\ IF status # "busy" \/ remaining = 0
     THEN armed' = FALSE /\ UNCHANGED <<status, read, dmaEnd, ram>>
     ELSE /\ TransferBatch(IF remaining < Batch THEN remaining ELSE Batch)
          /\ armed' = (remaining' >= Batch)
          /\ status' = IF remaining' < Batch THEN "complete" ELSE "busy"
          /\ dmaEnd' = (dmaEnd \/ remaining' = 0)
  /\ UNCHANGED <<command, lastRequest, nextRequest, told>>

\* gd_tick.
Tick ==
  /\ armed
  /\ IF status # "busy" \/ remaining = 0
     THEN armed' = FALSE /\ UNCHANGED <<status, read, dmaEnd, ram>>
     ELSE /\ TransferBatch(IF remaining < Batch THEN remaining ELSE Batch)
          /\ armed' = (remaining' # 0)
          /\ status' = IF remaining' = 0 THEN "complete" ELSE "busy"
          /\ dmaEnd' = (dmaEnd \/ remaining' = 0)
  /\ UNCHANGED <<command, lastRequest, nextRequest, told>>

\* Mutant of Request: read_total is left from the last read.
RequestKeepsTotal(c) ==
  /\ status = "ok"
  /\ nextRequest <= MaxRequests
  /\ command' = c
  /\ remaining' = 0 /\ total' = total
  /\ status' = "busy"
  /\ lastRequest' = nextRequest
  /\ nextRequest' = nextRequest + 1
  /\ UNCHANGED <<position, armed, dmaEnd, ram, told>>

\* FN_REQ_CMD, refused while a command is queued or its end has not been asked for.
Request(c) ==
  /\ status = "ok"
  /\ nextRequest <= MaxRequests
  /\ command' = c
  /\ remaining' = 0 /\ total' = 0
  /\ status' = "busy"
  /\ lastRequest' = nextRequest
  /\ nextRequest' = nextRequest + 1
  /\ UNCHANGED <<position, armed, dmaEnd, ram, told>>

\* Mutant of ExecRead: read_sector and read_dest go on from the last read.
ExecReadGoesOn ==
  /\ command.kind = "read"
  /\ IF remaining = 0 /\ total = 0
     THEN /\ remaining' = command.n /\ total' = command.n
          /\ armed' = TRUE
          /\ UNCHANGED position
     ELSE UNCHANGED <<read, armed>>
  /\ UNCHANGED status

\* gd_start_read, if the read has not been started.
ExecRead ==
  /\ command.kind = "read"
  /\ IF remaining = 0 /\ total = 0
     THEN /\ position' = 0
          /\ remaining' = command.n /\ total' = command.n
          /\ armed' = TRUE
     ELSE UNCHANGED <<read, armed>>
  /\ UNCHANGED status

ExecOther ==
  /\ command.kind # "read"
  /\ status' = IF command.kind = "unknown" THEN "err" ELSE "complete"
  /\ remaining' = IF command.kind = "init" THEN 0 ELSE remaining
  /\ UNCHANGED <<total, position, armed>>

\* FN_EXEC_SERVER.
ExecServer ==
  /\ status = "busy"
  /\ ExecRead \/ ExecOther
  /\ UNCHANGED <<command, lastRequest, nextRequest, dmaEnd, ram, told>>

\* Mutant of GetCmdStat: the queue is not freed.
GetCmdStatAgain(id) ==
  /\ id = lastRequest /\ status \in {"complete", "err"}
  /\ told' = [told EXCEPT ![id] = @ + 1]
  /\ UNCHANGED <<status, command, lastRequest, nextRequest, read, armed, dmaEnd, ram>>

\* FN_GET_CMD_STAT: the end of a command is reported once.
GetCmdStat(id) ==
  /\ id = lastRequest /\ status \in {"complete", "err"}
  /\ status' = "ok"
  /\ told' = [told EXCEPT ![id] = @ + 1]
  /\ UNCHANGED <<command, lastRequest, nextRequest, read, armed, dmaEnd, ram>>

\* FN_G1_DMA_END installs the callback and drops the interrupt.
G1DmaEnd ==
  /\ dmaEnd' = FALSE
  /\ UNCHANGED <<status, command, lastRequest, nextRequest, read, armed, ram, told>>

\* FN_READ_ABORT.
ReadAbort(id) ==
  /\ id = lastRequest
  /\ remaining' = 0
  /\ armed' = FALSE
  /\ status' = "ok"
  /\ UNCHANGED <<command, lastRequest, nextRequest, total, position, dmaEnd, ram, told>>

\* FN_RESET.
Reset ==
  /\ status' = "ok"
  /\ lastRequest' = Forgot
  /\ UNCHANGED <<command, nextRequest, read, armed, dmaEnd, ram, told>>

\* FN_INIT_SYSTEM: a new Gd, with new ids; the event stays armed.
InitSystem ==
  /\ status' = "ok"
  /\ command' = Other("immediate")
  /\ lastRequest' = 0 /\ nextRequest' = 1
  /\ remaining' = 0 /\ total' = 0 /\ position' = 0
  /\ told' = [id \in Ids |-> 0]
  /\ UNCHANGED <<armed, dmaEnd, ram>>

Init ==
  /\ status = "ok"
  /\ command = Other("immediate")
  /\ lastRequest = 0 /\ nextRequest = 1
  /\ remaining = 0 /\ total = 0 /\ position = 0
  /\ armed = FALSE /\ dmaEnd = FALSE
  /\ ram = [p \in Places |-> None]
  /\ told = [id \in Ids |-> 0]

Next ==
  \/ Tick
  \/ \E c \in Commands : Request(c)
  \/ ExecServer
  \/ \E id \in Ids : GetCmdStat(id)
  \/ \E id \in 0..Forgot : ReadAbort(id)
  \/ G1DmaEnd
  \/ Reset
  \/ InitSystem

Spec == Init /\ [][Next]_vars

\* The scheduler runs an armed event, and a guest that waits for a command keeps
\* calling the server.
FairSpec == Spec /\ WF_vars(Tick) /\ WF_vars(ExecServer)

-------------------------------------------------------------------------------
TypeOK ==
  /\ status \in {"ok", "busy", "complete", "err"}
  /\ command \in Commands
  /\ lastRequest \in 0..Forgot /\ nextRequest \in 1..Forgot
  /\ remaining \in Nat /\ total \in Nat /\ position \in Nat
  /\ armed \in BOOLEAN /\ dmaEnd \in BOOLEAN
  /\ ram \in [Places -> Sectors \cup {None}]
  /\ told \in [Ids -> Nat]

\* A read that is reported complete has put every sector it asked for, in order, where
\* it asked for it, whatever reads were aborted, reset or left with an armed event before
\* (bios.cpp 291-323).
ReadDelivers ==
  (status = "complete" /\ command.kind = "read") =>
    \A i \in 0..command.n - 1 :
      command.s + i \in Readable => ram[command.d + i] = command.s + i

\* RAM is written only where the request that holds the queue asked for it (bios.cpp
\* 291-323).
WritesOnlyItsBuffer ==
  [][\A p \in Places :
       ram'[p] # ram[p] =>
         /\ status = "busy" /\ command.kind = "read"
         /\ p \in command.d..command.d + command.n - 1]_vars

\* The end of each request is reported at most once, and only while it is the newest
\* (bios.cpp 488-503).
ReportedOnce == \A id \in Ids : told[id] <= 1 /\ (told[id] = 1 => id < nextRequest)

\* A command that is queued ends (bios.cpp 336: "completes from the scheduler").
CommandsEnd == status = "busy" ~> status # "busy"
===============================================================================
