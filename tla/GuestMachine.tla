------------------------------ MODULE GuestMachine ------------------------------
(***************************************************************************)
(* What executing guest code rests on, in one run: the helpers of both       *)
(* engines, the two engines side by side, the comparison of one with the      *)
(* other while the program runs, and the memory they access.  The run chooses  *)
(* one of the four; they share no state, and the others stay as they start.     *)
(***************************************************************************)
EXTENDS Integers

CONSTANTS
  W,                                                          \* Ops
  AfterMode, SlotOps,                                         \* Engines
  Functions, Cells, JournalLimit, Sites, MaxOps, MaxDepth,    \* Replay
  Words, Burst, Entries, MaxUnique, Values, MaxSteps          \* AddressSpace

VARIABLES
  part,  \* what this run is about
  a, b, high, signed, rn, rl, q, m, t, left,
  interpreted, emitted, double, pairs, mode, cycles, counted, pending, done,
  mem, x, pr, frames, active, entry, journal, journaling, sawDevice, tooLong, interrupts,
  alarms, device, plainMem, plainX, plainDevice, voided, escaped, executed,
  bytes, sq, area, at, tlb, hits, total, dropped, got, chips, mapped, torn, steps

Helpers == INSTANCE Ops WITH steps <- left
Both    == INSTANCE Engines
Compare == INSTANCE Replay
Memory  == INSTANCE AddressSpace

\* A word has a power of two of bits.  An address is none of the names that stand for no
\* address.  A bank has a whole number of bursts and of 64-bit words.
GuestMachineAssumption ==
  /\ W \in Nat \ {0} /\ Helpers!TwoTo[W] % W = 0
  /\ "none" \notin Functions
  /\ Words \in Nat \ {0} /\ Burst \in Nat \ {0} /\ Words % Burst = 0 /\ Words % 2 = 0
  /\ Entries \in Nat /\ Values \subseteq Nat
ASSUME GuestMachineAssumption

helpers == <<a, b, high, signed, rn, rl, q, m, t, left>>
both    == <<interpreted, emitted, double, pairs, mode, cycles, counted, pending, done>>
compare == <<mem, x, pr, frames, active, entry, journal, journaling, sawDevice, tooLong,
             interrupts, alarms, device, plainMem, plainX, plainDevice, voided, escaped, executed>>
memory  == <<bytes, sq, area, at, tlb, hits, total, dropped, got, chips, mapped, torn, steps>>
vars    == <<part, helpers, both, compare, memory>>

Init ==
  /\ part \in {"helpers", "both", "compare", "memory"}
  /\ Helpers!Init /\ (part # "helpers" => a = 0 /\ b = 1 /\ high = 0 /\ signed = 0)
  /\ Both!Init    /\ (part # "both" => ~double /\ ~pairs /\ mode.pr = 0)
  /\ Compare!Init
  /\ Memory!Init
  /\ part # "memory" => LET e == tlb[Entries] IN e.vpn = 0 /\ e.ppn = 0 /\ ~e.av /\ ~e.big

Next ==
  \/ /\ part = "helpers" /\ Helpers!Next
     /\ UNCHANGED <<part, both, compare, memory>>
  \/ /\ part = "both" /\ Both!Next
     /\ UNCHANGED <<part, helpers, compare, memory>>
  \/ /\ part = "compare" /\ Compare!Next
     /\ UNCHANGED <<part, helpers, both, memory>>
  \/ /\ part = "memory" /\ Memory!Next
     /\ UNCHANGED <<part, helpers, both, compare>>

Spec == Init /\ [][Next]_vars

-------------------------------------------------------------------------------
\* The guest's division loops divide and the helpers' carries, borrows, overflows and
\* saturation are the integers' (ops.h 15-189).
HelpersExact == Helpers!DivisionDivides /\ Helpers!HelpersExact

\* The two engines do the same to registers, memory and the next address, for all values and
\* choices of registers (interpreter.cpp 13-15, emit.cpp 1068-1645).
EnginesAgree == Both!EnginesAgree

\* Comparing the engines as the program runs changes nothing the program sees
\* (replay.cpp 93-184, dc_memory.cpp 247-288).
ComparisonUnseen == Compare!ComparisonUnseen

\* An alarm is a wrong translation, unless a non-local return, a second call of the function
\* or an event past the journal came between (replay.cpp 98-244, abi_bare.cpp 112-129).
AlarmsAreWrong == Compare!AlarmsAreWrong

\* All addresses of a word, store queues and UTLB included, are one memory
\* (dc_memory.cpp 68-226, 397-424).
OneMemory == Memory!OneMemory
===============================================================================
