------------------------------ MODULE AddressSpace ------------------------------
(***************************************************************************)
(* The Dreamcast address space (runtime/src/mem/dc_memory.cpp): regions and  *)
(* their mirrors, the two views of VRAM, the store queues with their flush    *)
(* through QACR or the UTLB, and the log of accesses that hit nothing.        *)
(* Addresses are [region, off] with off in 32-bit words; the top bits the     *)
(* code masks off (segments, mirrors) are offsets beyond a region's size.     *)
(* A burst is Burst words instead of 8, a TLB page one burst or two.          *)
(***************************************************************************)
EXTENDS Integers, Sequences, FiniteSets, FiniteSetsExt, Functions, TLC

CONSTANTS
  Words,      \* words of each of RAM, and of one bank of VRAM
  Burst,      \* words of a store queue; divides Words
  Entries,    \* UTLB entries, in the order they are searched
  MaxUnique,  \* kMaxUnique of the fault log
  Values,     \* what is stored
  MaxSteps    \* bound of the exploration

Regions == {"ram", "vram64", "vram32", "device", "hole"}
Bursts  == 0..((2 * Words) \div Burst - 1)   \* bursts of a store-queue page: what UTLB entries map

VARIABLES
  bytes,      \* host memory: [ram, vram] -> words
  sq,         \* sq_: queue 0 and 1
  area,       \* QACR0 and QACR1: the region a queue is flushed to
  at,         \* MMUCR.AT
  tlb,        \* addr_, data1_: entry -> [vpn, av, ppn, dv, big]
  hits,       \* FaultLog: key -> count
  total, dropped,
  got,        \* what the device was sent
  chips, mapped, torn,  \* ghosts: the memory chips, the mappings in force, see Torn
  steps

vars == <<bytes, sq, area, at, tlb, hits, total, dropped, got, chips, mapped, torn, steps>>

-------------------------------------------------------------------------------
\* vram_map32: the words of the two banks go to even and odd slots.
VramMap32(off) == (off % Words) * 2 + (off \div Words)

\* resolve: the host word behind an address, or a device, or nothing.
Resolve(a) ==
  CASE a.region = "ram"    -> [k |-> "bytes", m |-> "ram", o |-> a.off % Words]
    [] a.region = "vram64" -> [k |-> "bytes", m |-> "vram", o |-> a.off % (2 * Words)]
    [] a.region = "vram32" -> [k |-> "bytes", m |-> "vram", o |-> VramMap32(a.off % (2 * Words))]
    [] a.region = "device" -> [k |-> "mmio", m |-> "device", o |-> a.off]
    [] OTHER -> [k |-> "none", m |-> "none", o |-> a.off]

\* n words from the first on, in host order.
Poke(t, words) == [bytes EXCEPT ![t.m] =
  [o \in DOMAIN @ |-> IF o \in t.o..(t.o + Len(words) - 1) THEN words[o - t.o + 1] ELSE @[o]]]

\* FaultLog::record.
Record(key) ==
  /\ total' = total + 1
  /\ IF key \in DOMAIN hits THEN hits' = [hits EXCEPT ![key] = @ + 1] /\ UNCHANGED dropped
     ELSE IF Cardinality(DOMAIN hits) >= MaxUnique THEN dropped' = dropped + 1 /\ UNCHANGED hits
     ELSE hits' = hits @@ (key :> 1) /\ UNCHANGED dropped

\* Utlb::translate: the first valid entry whose page holds the burst.
PageOf(e) == IF tlb[e].big THEN 2 ELSE 1
Maps(e, va) == tlb[e].dv /\ va \div PageOf(e) = tlb[e].vpn \div PageOf(e)
Hit(va) == {e \in 1..Entries : Maps(e, va)}
PageBase(e) == tlb[e].ppn - (tlb[e].ppn % PageOf(e))
\* Mutant of Physical: the offset within a large page is lost.
PhysicalNoOffset(e, va) == [region |-> "vram64", off |-> Burst * PageBase(e)]

Physical(e, va) == [region |-> "vram64",
                    off |-> Burst * (PageBase(e) + (va % PageOf(e)))]

\* Where sq_flush of burst va of queue q lands.
FlushTo(q, va) ==
  IF at /\ Hit(va) # {} THEN Physical(Min(Hit(va)), va)
  ELSE [region |-> area[q], off |-> Burst * va]

-------------------------------------------------------------------------------
(* The memory the program sees, for the properties: chips hold the words, RAM, and two banks  *)
(* of VRAM that the 32-bit view has behind each other and the 64-bit view side by side.        *)

Chip(a) ==
  CASE a.region = "ram"    -> [m |-> "ram", b |-> 0, w |-> a.off % Words]
    [] a.region = "vram64" -> [m |-> "vram", b |-> a.off % 2, w |-> (a.off \div 2) % Words]
    [] a.region = "vram32" -> [m |-> "vram", b |-> (a.off \div Words) % 2, w |-> a.off % Words]
Memory == {"ram", "vram64", "vram32"}
Chips  == [m : {"ram"}, b : {0}, w : 0..(Words - 1)] \cup [m : {"vram"}, b : {0, 1}, w : 0..(Words - 1)]

Store(a, words) ==
  IF a.region \notin Memory THEN UNCHANGED <<chips, torn>>
  ELSE LET at_(i) == Chip([a EXCEPT !.off = @ + i - 1])
           here(c) == {i \in DOMAIN words : at_(i) = c} IN
       /\ chips' = [c \in Chips |-> IF here(c) = {} THEN chips[c] ELSE words[Min(here(c))]]
       \* Several words at once through the 32-bit view: the code lays them out as in the other.
       /\ torn' = IF a.region = "vram32" /\ Len(words) > 1
                  THEN torn \cup {at_(i) : i \in DOMAIN words}
                       \cup {Chip([region |-> "vram64", off |-> VramMap32(a.off % (2 * Words)) + i - 1]) :
                                i \in DOMAIN words}
                  ELSE torn

\* Where the flush of burst va goes by the manual: the first mapping in force, burst by burst.
Page(n, big) == IF big THEN {n - (n % 2), n - (n % 2) + 1} ELSE {n}
InForce(va) == {e \in 1..Entries : mapped[e] /\ va \in Page(tlb[e].vpn, tlb[e].big)}
Intended(q, va) ==
  IF at /\ InForce(va) # {}
  THEN LET e == Min(InForce(va))
           behind == va - Min(Page(tlb[e].vpn, tlb[e].big)) IN
       [region |-> "vram64", off |-> Burst * (Min(Page(tlb[e].ppn, tlb[e].big)) + behind)]
  ELSE [region |-> area[q], off |-> Burst * va]

\* The access to a, of a program that means the address meant.
Deliver(a, meant, words) ==
  LET t == Resolve(a) IN
  /\ Store(meant, words)
  /\ bytes' = IF t.k = "bytes" THEN Poke(t, words) ELSE bytes
  /\ got' = IF t.k = "mmio" THEN words ELSE got
  /\ IF t.k = "none" THEN Record(<<a, Len(words)>>) ELSE UNCHANGED <<hits, total, dropped>>

-------------------------------------------------------------------------------
Init ==
  /\ bytes = [m \in {"ram", "vram"} |->
       [o \in 0..(IF m = "ram" THEN Words - 1 ELSE 2 * Words - 1) |-> 0]]
  /\ sq = [q \in {0, 1} |-> [i \in 1..Burst |-> 10 * (q + 1) + i]]
  /\ area = [q \in {0, 1} |-> "ram"]
  /\ at = TRUE
  /\ \E va, pa \in Bursts, v, big \in BOOLEAN :
       tlb = [e \in 1..Entries |->
                [vpn |-> va, av |-> v /\ e = Entries, ppn |-> pa, dv |-> v /\ e = Entries, big |-> big]]
  /\ hits = << >> /\ total = 0 /\ dropped = 0 /\ got = << >>
  /\ chips = [c \in Chips |-> 0] /\ mapped = [e \in 1..Entries |-> tlb[e].dv] /\ torn = {}
  /\ steps = 0

Step == steps < MaxSteps /\ steps' = steps + 1

\* write32, and write64 on an even word.
Write ==
  \E r \in Regions, o \in 0..(2 * Words - 1), v \in Values, n \in {1, 2} :
    /\ Step /\ (n = 2 => o % 2 = 0)
    /\ LET a == [region |-> r, off |-> o] IN Deliver(a, a, [i \in 1..n |-> v + i - 1])
    /\ UNCHANGED <<sq, area, at, tlb, mapped>>

\* A store into the queues, and PREF.
SqWrite ==
  \E q \in {0, 1}, i \in 1..Burst, v \in Values :
    /\ Step /\ sq' = [sq EXCEPT ![q][i] = v]
    /\ UNCHANGED <<bytes, area, at, tlb, hits, total, dropped, got, chips, mapped, torn>>
SqFlush ==
  \E q \in {0, 1}, va \in Bursts :
    /\ Step /\ Deliver(FlushTo(q, va), Intended(q, va), sq[q])
    /\ UNCHANGED <<sq, area, at, tlb, mapped>>

\* The CCN registers: QACR, MMUCR with its TI bit.
WriteQacr ==
  \E q \in {0, 1}, r \in Regions :
    /\ Step /\ area' = [area EXCEPT ![q] = r]
    /\ UNCHANGED <<bytes, sq, at, tlb, hits, total, dropped, got, chips, mapped, torn>>
WriteMmucr ==
  \E on, ti \in BOOLEAN :
    /\ Step /\ at' = on
    /\ tlb' = IF ti THEN [e \in 1..Entries |-> [tlb[e] EXCEPT !.av = FALSE, !.dv = FALSE]] ELSE tlb
    /\ mapped' = IF ti THEN [e \in 1..Entries |-> FALSE] ELSE mapped
    /\ UNCHANGED <<bytes, sq, area, hits, total, dropped, got, chips, torn>>

\* Utlb::write: the address array and data array 1 carry the same valid bit.
WithAddress(e, va, v) == [tlb EXCEPT ![e].vpn = va, ![e].av = v, ![e].dv = v]
WithData(e, pa, v, big) == [tlb EXCEPT ![e].ppn = pa, ![e].dv = v, ![e].big = big, ![e].av = v]
WriteTlb ==
  \E e \in 1..Entries, p \in Bursts, v, big, addr \in BOOLEAN :
    /\ Step
    /\ tlb' = IF addr THEN WithAddress(e, p, v) ELSE WithData(e, p, v, big)
    /\ mapped' = [mapped EXCEPT ![e] = v]
    /\ UNCHANGED <<bytes, sq, area, at, hits, total, dropped, got, chips, torn>>

Next == Write \/ SqWrite \/ SqFlush \/ WriteQacr \/ WriteMmucr \/ WriteTlb

-------------------------------------------------------------------------------
Read(a) == LET t == Resolve(a) IN bytes[t.m][t.o]

\* A word reads back, at every address it has, as what was last stored at any of them, by a
\* store or by the flush of a store queue, through QACR or the UTLB: mirrors and the two views
\* of VRAM are one memory, and an entry of the UTLB translates exactly while its V bit, written
\* through either array, says so (dc_memory.cpp 138-226, 397-424, 68-109). Words written
\* several at a time through the 32-bit view of VRAM are left out: see Torn in README.md.
OneMemory ==
  /\ \A r \in Memory, o \in 0..(2 * Words - 1) : LET a == [region |-> r, off |-> o] IN
       Chip(a) \notin torn => Read(a) = chips[Chip(a)]
  /\ \A e \in 1..Entries : tlb[e].dv = mapped[e] /\ tlb[e].av = mapped[e]
===============================================================================
