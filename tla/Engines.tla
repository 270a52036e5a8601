-------------------------------- MODULE Engines --------------------------------
(***************************************************************************)
(* The interpreter and emitted code over the same basic block: instructions  *)
(* of every kind and every choice of registers, then a branch with its delay  *)
(* slot.  The emitter counts cycles at the end of the block, the interpreter    *)
(* at each instruction.  Every instruction comes first in a block; after one that *)
(* changes the mode, those of AfterMode; in a delay slot, those of SlotOps.        *)
(***************************************************************************)
EXTENDS Integers, Sequences, FiniteSets

CONSTANTS
  AfterMode,  \* operations looked at after one that changes the mode
  SlotOps     \* operations looked at in a delay slot

I == INSTANCE Lowering

VARIABLES
  interpreted, emitted,     \* the two contexts
  double, pairs,            \* FPSCR.PR and FPSCR.SZ
  mode,                     \* what the emitter knows of them
  cycles, counted, pending, \* c.cycles of either, and pending_cycles_
  done                      \* the instructions so far, a branch last

vars == <<interpreted, emitted, double, pairs, mode, cycles, counted, pending, done>>

Fields(kind, ops, sizes, cregs) ==
  [kind : {kind}, op : ops, n : {0, 1}, m : {0, 1}, size : sizes, creg : cregs,
   queue : BOOLEAN, patched : BOOLEAN, seen : BOOLEAN]
Unflagged(fields) == {i \in fields : ~i.queue /\ ~i.patched /\ ~i.seen}

Arithmetic == Unflagged(Fields("fp",
  {"FLDI0", "FLDI1", "FLDS", "FSTS", "FABS", "FNEG", "FSRRA", "FADD", "FSUB", "FMUL", "FDIV",
   "FCMP_EQ", "FCMP_GT", "FSQRT", "FLOAT", "FTRC", "FMAC", "FCNVSD", "FCNVDS", "FSCA", "FIPR",
   "FTRV"}, {32}, {"none"}))
Fmovs == Unflagged(Fields("fmov",
  {"FMOV", "FMOV_LOAD", "FMOV_LOAD_INC", "FMOV_LOAD_R0", "FMOV_STORE", "FMOV_STORE_DEC",
   "FMOV_STORE_R0"}, {32}, {"none"}))
Moves ==
  LET of(ops, sizes) == Unflagged(Fields("move", ops, sizes, {"none"})) IN
  of({"MOV_I", "MOVT", "MOV", "SWAP_B", "SWAP_W", "XTRCT", "MOVA", "MOV_S_DISP", "MOV_L_DISP"}, {32})
  \cup of({"MOV_S_DISP0", "MOV_L_DISP0"}, {8, 16})
  \cup of({"MOV_S", "MOV_L", "MOV_SD", "MOV_LI", "MOV_S_R0", "MOV_L_R0", "MOV_S_GBR", "MOV_L_GBR"},
          {8, 16, 32})
\* scan_stores saw every store that patches a literal.
Literals == {i \in Fields("move", {"MOV_PCREL"}, {16, 32}, {"none"}) :
               ~i.queue /\ (i.patched => i.seen)}
Integral == Unflagged(Fields("integer",
  {"ADD", "SUB", "ADD_I", "ADDC", "SUBC", "ADDV", "SUBV", "NEGC", "DIV1", "DIV0S", "DIV0U", "NEG",
   "EXTS_B", "EXTS_W", "EXTU_B", "EXTU_W", "CMP_EQ_I", "CMP_EQ", "CMP_HS", "CMP_GE", "CMP_HI",
   "CMP_GT", "CMP_STR", "CMP_PZ", "CMP_PL", "DT", "DMULS_L", "DMULU_L", "MUL_L", "MULS_W", "MULU_W",
   "MAC_L", "MAC_W"}, {32}, {"none"}))
Logical == Unflagged(Fields("logic",
  {"AND", "OR", "XOR", "SHAD", "SHLD", "NOT", "AND_I", "OR_I", "XOR_I", "AND_B_GBR", "OR_B_GBR",
   "XOR_B_GBR", "TAS_B", "TST", "TST_I", "TST_B_GBR", "ROTL", "ROTR", "ROTCL", "ROTCR", "SHAL",
   "SHLL", "SHAR", "SHLR", "SHLL2", "SHLL8", "SHLL16", "SHLR2", "SHLR8", "SHLR16"}, {32}, {"none"}))
Systems == Unflagged(Fields("system",
  {"CLRMAC", "CLRS", "SETS", "CLRT", "SETT", "TRAPA", "MOVCA_L", "NOP", "FRCHG", "FSCHG", "LDTLB"},
  {32}, {"none"}))
Caches == {i \in Fields("system", {"PREF", "OCBI", "OCBP", "OCBWB"}, {32}, {"none"}) :
             ~i.patched /\ ~i.seen}
Controls ==
  LET of(ops, cregs) == Unflagged(Fields("system", ops, {32}, cregs)) IN
  of({"STC", "STC_L", "LDC", "LDC_L"}, {"sr", "gbr", "vbr", "ssr", "spc", "dbr", "mach", "macl", "pr",
                                        "fpul", "fpscr", "b0", "b1"})
  \cup of({"STC", "STC_L"}, {"sgr"})

Plain == Arithmetic \cup Fmovs \cup Moves \cup Literals \cup Integral \cup Logical
         \cup Systems \cup Caches \cup Controls

Branches == [kind : {"branch"}, m : {0, 1},
             op : {"BT_S", "BF_S", "BRA", "BRAF", "JMP", "BSR", "BSRF", "JSR", "RTS", "RTE"}]

WritesFpscr(i) == i.op \in {"LDC", "LDC_L"} /\ i.creg = "fpscr"
WritesSr(i)    == i.op \in {"LDC", "LDC_L"} /\ i.creg = "sr"
Flips(i)       == IF WritesFpscr(i) \/ WritesSr(i) THEN BOOLEAN ELSE {FALSE}
ChangesMode(i) == i.op = "FSCHG" \/ WritesFpscr(i)
Bit(b)         == IF b THEN 1 ELSE 0

Init ==
  /\ interpreted = I!Initially /\ emitted = I!Initially
  /\ double \in BOOLEAN /\ pairs \in BOOLEAN
  /\ mode \in {[pr |-> Bit(double), sz |-> Bit(pairs)], [pr |-> I!Unknown, sz |-> I!Unknown]}
  /\ cycles = 0 /\ counted = 0 /\ pending = 0
  /\ done = <<>>

\* transfer: what the emitter knows of the mode after i; a loaded constant is known.
Transfer(i, known) ==
  CASE i.op = "FSCHG" -> [mode EXCEPT !.sz = IF @ = I!Unknown THEN @ ELSE 1 - @]
    [] WritesFpscr(i) -> IF known THEN [pr |-> Bit(double'), sz |-> Bit(pairs')]
                         ELSE [pr |-> I!Unknown, sz |-> I!Unknown]
    [] OTHER -> mode

Sensitive   == {j \in Plain : j.op \in AfterMode}
Slots       == {j \in Plain : j.op \in SlotOps}

\* An instruction that is no branch: emit_instruction counts it for later.
Instruction(i) ==
  \E flip \in Flips(i), known \in (IF WritesFpscr(i) /\ i.op = "LDC" THEN BOOLEAN ELSE {FALSE}) :
    /\ double' \in IF WritesFpscr(i) THEN BOOLEAN ELSE {double}
    /\ pairs' \in IF WritesFpscr(i) THEN BOOLEAN ELSE IF i.op = "FSCHG" THEN {~pairs} ELSE {pairs}
    /\ mode' = Transfer(i, known)
    /\ interpreted' = I!Forget(I!Do(interpreted, I!Exec(i, double, pairs), flip))
    /\ emitted' = I!Forget(I!Do(emitted, I!Lower(i, mode, double, pairs), flip))
    /\ cycles' = cycles + I!Cycles(i)
    /\ pending' = pending + 1
    /\ done' = Append(done, i)
    /\ UNCHANGED counted

First     == done = <<>> /\ \E i \in Plain : Instruction(i)
AfterOne  == Len(done) = 1 /\ ChangesMode(done[1]) /\ \E i \in Sensitive : Instruction(i)

\* A delayed branch with its slot ends the block: flush_cycles before its code.  A slot that
\* changes the mode, or that writes SR before an RTE, is outside this instance.
Branch ==
  /\ done = <<>> \/ (Len(done) = 1 /\ ChangesMode(done[1]))
  /\ \E i \in Branches, slot \in Slots :
       \E flip \in (IF i.op = "RTE" THEN BOOLEAN ELSE Flips(slot)) :
         /\ ~(i.op = "RTE" /\ WritesSr(slot))
         /\ interpreted' = I!Do(interpreted, I!Delayed(i, slot, double, pairs), flip)
         /\ emitted' = I!Do(emitted, I!EmitDelayed(i, slot, mode, double, pairs), flip)
         /\ cycles' = cycles + I!Cycles(i)
         /\ counted' = counted + pending + 2
         /\ pending' = 0
         /\ done' = Append(done, i)
         /\ UNCHANGED <<double, pairs, mode>>

Next ==
  \/ First \/ AfterOne
  \/ Branch

-------------------------------------------------------------------------------
Visible(c) == [c EXCEPT !.reg = [p \in (DOMAIN @) \ {"v", "w", "ea"} |-> @[p]]]

\* After every instruction, and after every branch with its slot, emitted code has left the
\* registers, the target and the accesses to memory as the interpreter has, for all values and
\* all choices of registers; at the end of a block the clocks agree.  It is what the comment
\* at interpreter.cpp 13-15 asks for, and what a replay compares.
EnginesAgree ==
  /\ Visible(interpreted) = Visible(emitted)
  /\ done # <<>> /\ done[Len(done)].kind = "branch" => cycles = counted
===============================================================================
