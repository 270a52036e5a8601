--------------------------------- MODULE Replay ---------------------------------
(***************************************************************************)
(* Comparing translated functions with the interpreter as they run            *)
(* (runtime/src/devinterp/replay.cpp, the journal of runtime/src/mem/           *)
(* dc_memory.cpp, ReplayScope of runtime/src/sh4/abi_bare.cpp).                 *)
(* A guest instruction is [k, c, v]: "load" a cell into the register, "store"    *)
(* the register to a cell, "set" the register, and a "device" access of v        *)
(* bytes.  What the translated code does for it may be wrong.                    *)
(***************************************************************************)
EXTENDS Integers, Sequences, FiniteSets, SequencesExt

CONSTANTS
  Functions,     \* addresses of translated functions
  Cells,         \* words of guest memory
  JournalLimit,  \* kJournalLimit
  Sites,         \* return addresses a function is called with
  MaxOps, MaxDepth  \* bounds of the exploration

None == "none"
Instructions ==
  [k : {"load", "store"}, c : Cells, v : {0}] \cup [k : {"set"}, c : {None}, v : {1, 2}]
  \cup [k : {"device"}, c : {None}, v : {4, 8}]

VARIABLES
  mem, x, pr,     \* guest memory, a register, the return address
  frames,         \* translated functions on the host stack: [f, site, ops]
  active, entry,  \* active_, and [x, pr, interrupts] at its entry
  journal, journaling, sawDevice,
  tooLong,        \* too_long_
  interrupts,     \* the counter it watches
  alarms,         \* divergences_: how many
  device,         \* accesses a device has seen
  plainMem, plainX, plainDevice,  \* the same program, nothing being compared
  voided, escaped, \* ghosts: what a comparison cannot know of, in it and ever
  executed

vars == <<mem, x, pr, frames, active, entry, journal, journaling, sawDevice, tooLong,
          interrupts, alarms, device, plainMem, plainX, plainDevice, voided, escaped, executed>>

-------------------------------------------------------------------------------
(* One instruction on a machine [mem, x, journal, saw, device]. *)

Journalled(s, c, v) == Append(s.journal, [c |-> c, old |-> s.mem[c], new |-> v])

Apply(s, i) ==
  CASE i.k = "load"  -> [s EXCEPT !.x = s.mem[i.c]]
    [] i.k = "set"   -> [s EXCEPT !.x = i.v]
    [] i.k = "store" -> [s EXCEPT !.mem[i.c] = s.x, !.journal = Journalled(s, i.c, s.x)]
    \* load and store note a device, read64 and write64 do not.
    [] i.k = "device" -> [s EXCEPT !.saw = @ \/ i.v # 8, !.device = @ + 1]
ApplyAll(s, ops) ==
  LET after[n \in 0..Len(ops)] == IF n = 0 THEN s ELSE Apply(after[n - 1], ops[n])
  IN after[Len(ops)]

\* undo_journal, newest first; redo_journal, oldest first.
Undo(m, j) ==
  LET back[n \in 0..Len(j)] ==
        IF n = 0 THEN m ELSE LET w == j[Len(j) + 1 - n] IN [back[n - 1] EXCEPT ![w.c] = w.old]
  IN back[Len(j)]
Redo(m, j) ==
  LET forth[n \in 0..Len(j)] ==
        IF n = 0 THEN m ELSE [forth[n - 1] EXCEPT ![j[n].c] = j[n].new]
  IN forth[Len(j)]

-------------------------------------------------------------------------------
(* Replay::exit for the function under comparison. *)

\* Mutant of NotComparable: interrupts are not looked at.
NotComparableNoInterrupts == sawDevice \/ pr # entry.pr

\* The reasons not to compare a call at all.
NotComparable == entry.interrupts # interrupts \/ sawDevice \/ pr # entry.pr

\* The interpreter runs the function from the memory and context of its entry.
Interpreted(ops) ==
  ApplyAll([mem |-> Undo(mem, journal), x |-> entry.x, journal |-> << >>, saw |-> FALSE,
            device |-> device], ops)
Stores(j) == [n \in DOMAIN j |-> <<j[n].c, j[n].new>>]
Disagree(r) == x # r.x \/ Stores(journal) # Stores(r.journal)

\* Mutant of PutBack: the interpreter's memory is kept.
PutBackInterpreted(r) == r.mem

\* What the interpreter did is undone and what the translated code did put back.
PutBack(r) == Redo(Undo(r.mem, r.journal), journal)

Exit(f, ops) ==
  IF active # f THEN UNCHANGED <<mem, active, journal, journaling, alarms, device>>
  ELSE /\ active' = None /\ journaling' = FALSE /\ journal' = << >>
       /\ IF NotComparable THEN UNCHANGED <<mem, alarms, device>>
          ELSE LET r == Interpreted(ops) IN
               /\ device' = r.device
               /\ mem' = PutBack(r)
               /\ alarms' = alarms + (IF ~r.saw /\ Disagree(r) THEN 1 ELSE 0)

-------------------------------------------------------------------------------
Init ==
  /\ mem = [c \in Cells |-> 0] /\ x = 0 /\ pr = 0
  /\ frames = << >>
  /\ active = None /\ entry = [x |-> 0, pr |-> 0, interrupts |-> 0]
  /\ journal = << >> /\ journaling = FALSE /\ sawDevice = FALSE
  /\ tooLong = {} /\ interrupts = 0 /\ alarms = 0 /\ device = 0
  /\ plainMem = mem /\ plainX = x /\ plainDevice = 0 /\ voided = {} /\ escaped = {} /\ executed = 0

Tick == executed < MaxOps /\ executed' = executed + 1

\* Replay::enter_impl: a comparison that has grown too long is given up, and none starts
\* inside another.
Enter ==
  \E f \in Functions, s \in Sites :
    /\ Tick /\ Len(frames) < MaxDepth
    /\ frames' = Append(frames, [f |-> f, site |-> s, ops |-> << >>])
    /\ pr' = s
    /\ LET abandon == active # None /\ Len(journal) > JournalLimit
           idle == active = None \/ abandon
           lost == IF abandon THEN tooLong \cup {active} ELSE tooLong
           start == idle /\ f \notin lost IN
       /\ tooLong' = lost
       /\ active' = IF start THEN f ELSE IF abandon THEN None ELSE active
       /\ entry' = IF start THEN [x |-> x, pr |-> s, interrupts |-> interrupts] ELSE entry
       /\ journal' = IF start \/ abandon THEN << >> ELSE journal
       /\ journaling' = IF start THEN TRUE ELSE IF abandon THEN FALSE ELSE journaling
       /\ sawDevice' = IF start THEN FALSE ELSE sawDevice
       /\ voided' = IF start THEN {} ELSE voided \cup (IF active = f THEN {"recursive"} ELSE {})
    /\ UNCHANGED <<mem, x, interrupts, alarms, device, plainMem, plainX, plainDevice, escaped>>

\* An instruction i, for which the translated code does t.
Perform(i, t) ==
  LET s == Apply([mem |-> mem, x |-> x, journal |-> journal, saw |-> sawDevice, device |-> device], t)
      p == Apply([mem |-> plainMem, x |-> plainX, journal |-> << >>, saw |-> FALSE,
                  device |-> plainDevice], t) IN
  /\ mem' = s.mem /\ x' = s.x /\ device' = s.device
  /\ journal' = IF journaling THEN s.journal ELSE journal
  /\ sawDevice' = IF journaling THEN s.saw ELSE sawDevice
  /\ plainMem' = p.mem /\ plainX' = p.x /\ plainDevice' = p.device
  /\ LET wide == IF i.k = "device" /\ i.v = 8 THEN {"wide"} ELSE {} IN
     /\ voided' = voided \cup wide \cup (IF i # t THEN {"wrong"} ELSE {})
     /\ escaped' = escaped \cup wide
Execute ==
  \E i, t \in Instructions :
    /\ Tick /\ frames # << >> /\ t \in {i, [i EXCEPT !.v = IF i.k = "set" THEN 3 - i.v ELSE i.v]}
    /\ frames' = [n \in DOMAIN frames |-> [frames[n] EXCEPT !.ops = Append(@, i)]]
    /\ Perform(i, t)
    /\ UNCHANGED <<pr, active, entry, journaling, tooLong, interrupts, alarms>>

\* An interrupt: its handler's store is journalled, the interpreter runs without it.
Interrupt ==
  \E c \in Cells :
    /\ Tick /\ frames # << >>
    /\ interrupts' = interrupts + 1
    /\ mem' = [mem EXCEPT ![c] = 5] /\ plainMem' = [plainMem EXCEPT ![c] = 5]
    /\ journal' = IF journaling
                  THEN Append(journal, [c |-> c, old |-> mem[c], new |-> 5]) ELSE journal
    /\ UNCHANGED <<x, pr, frames, active, entry, journaling, sawDevice, tooLong, alarms, device,
                   plainX, plainDevice, voided, escaped>>

\* A sector arrives: write_sector copies into RAM past the journal (bios.cpp 170-185).
Sector ==
  \E c \in Cells :
    /\ Tick
    /\ mem' = [mem EXCEPT ![c] = 7] /\ plainMem' = [plainMem EXCEPT ![c] = 7]
    /\ voided' = voided \cup {"sector"} /\ escaped' = escaped \cup {"sector"}
    /\ UNCHANGED <<x, pr, frames, active, entry, journal, journaling, sawDevice, tooLong,
                   interrupts, alarms, device, plainX, plainDevice>>

\* rts from the innermost function, to where it was called from: ReplayScope ends.
Return ==
  /\ frames # << >>
  /\ LET top == Last(frames) IN
     /\ frames' = Front(frames)
     /\ pr' = IF Len(frames) > 1 THEN frames[Len(frames) - 1].site ELSE 0
     /\ Exit(top.f, top.ops)
     /\ escaped' = IF active = top.f /\ voided \cap {"unwound", "recursive"} # {}
                   THEN escaped \cup {"mistaken"} ELSE escaped
  /\ UNCHANGED <<x, entry, sawDevice, tooLong, interrupts, plainMem, plainX, plainDevice,
                 voided, executed>>

\* A non-local return: the destructors of the frames it drops tell the replay nothing.
Unwind ==
  \E n \in 0..(Len(frames) - 1) :
    /\ Tick
    /\ frames' = SubSeq(frames, 1, n)
    /\ pr' = IF n > 0 THEN frames[n].site ELSE 0
    /\ voided' = voided \cup {"unwound"}
    /\ UNCHANGED <<mem, x, active, entry, journal, journaling, sawDevice, tooLong, interrupts,
                   alarms, device, plainMem, plainX, plainDevice, escaped>>

Next == Enter \/ Execute \/ Interrupt \/ Sector \/ Return \/ Unwind

-------------------------------------------------------------------------------
\* Comparing changes nothing: memory and registers are as without it, also when the call under
\* comparison was left by a non-local return and the comparison ends in another call; and no
\* device sees an access twice, unless the exit was taken for that of another call.  Two kinds of
\* event escape the journal and are left out: a sector copied into RAM, and a device accessed
\* with 64 bits (replay.cpp 93-184, dc_memory.cpp 247-288, 315-386, bios.cpp 178).
ComparisonUnseen ==
  /\ "sector" \notin escaped => mem = plainMem /\ x = plainX
  /\ escaped = {} => device = plainDevice

\* An alarm is a wrong translation, unless one of those events, a non-local return or a second
\* call of the same function came between the entry and the exit that the comparison takes for
\* one call: exit knows the function, not the call (replay.cpp 98, abi_bare.cpp 120-129).
AlarmsAreWrong == [][alarms' # alarms => voided # {}]_vars
===============================================================================
