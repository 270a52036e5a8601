------------------------------ MODULE Interpreter ------------------------------
(***************************************************************************)
(* The context that the development interpreter and emitted code both work    *)
(* on (runtime/include/dream/runtime/sh4/ctx.h), with symbolic values: a       *)
(* register holds a term over the values at the start, so that two engines     *)
(* that leave equal terms agree for every value.  What either does for an       *)
(* instruction is a sequence of assignments; reads and writes of memory go      *)
(* into a log, in order, since a device may answer.                             *)
(*                                                                              *)
(* Then what the interpreter does for an instruction (runtime/src/devinterp/    *)
(* interpreter.cpp): exec_fp with the mode FPSCR has, exec, and the delayed     *)
(* branches of run.  An instruction i has op, n, m, size (of a move) and creg   *)
(* (of LDC, LDS, STC, STS); a value computed from operands is the operation's   *)
(* name applied to them.                                                        *)
(***************************************************************************)
EXTENDS Sequences, Naturals, Functions

General  == <<"r0", "r1">>
Bank     == <<"b0", "b1">>
Fr    == <<"f0", "f1">>
Xf     == <<"x0", "x1">>
Controls == {"gbr", "vbr", "ssr", "spc", "dbr", "sgr", "mach", "macl", "pr", "fpul"}
Temps    == {"v", "w", "ea", "target", "taken"}
Places   == Range(General) \cup Range(Bank) \cup Range(Fr) \cup Range(Xf)
            \cup Controls \cup Temps \cup {"t", "sr", "fpscr", "imm", "pc"}

R(k)  == General[k + 1]
F(k)  == Fr[k + 1]
\* fmov_pair_load, fmov_pair_store: the low bit of the field selects the bank.
Pair(k) == IF k = 1 THEN Xf ELSE Fr

\* One assignment: the place, the operation, and the places of its operands.
Set(to, f, args) == <<[to |-> to, f |-> f, args |-> args]>>
Copy(to, from)   == Set(to, "id", <<from>>)
Nothing          == <<>>

Sizes   == {8, 16, 32}
Bits(b, h, l) == [size \in Sizes |-> CASE size = 8 -> b [] size = 16 -> h [] size = 32 -> l]
ReadOp   == Bits("read8", "read16", "read32")
WriteOp  == Bits("write8", "write16", "write32")
Step     == Bits("add1", "add2", "add4")
StepBack == Bits("sub1", "sub2", "sub4")
\* sx8, sx16: a loaded value is sign extended; a whole word is not changed.
Extend   == Bits("sx8", "sx16", "id")
Read(to, size, addr)   == Set(to, ReadOp[size], <<addr>>)
Write(size, addr, val) == Set("mem", WriteOp[size], <<addr, val>>)

Initially == [reg |-> [p \in Places |-> <<"initial", p>>], log |-> <<>>]

\* What the C++ comparison of a register with itself is.
Reflexive == {"CMP_EQ", "CMP_HS", "CMP_GE"}
Irreflexive == {"CMP_HI", "CMP_GT"}
Term(f, vals) ==
  CASE f = "id" -> vals[1]
    [] f \in Reflexive /\ vals[1] = vals[2] -> <<"true">>
    [] f \in Irreflexive /\ vals[1] = vals[2] -> <<"false">>
    [] OTHER -> <<f>> \o vals

Swapped(c, some, others) ==
  [p \in Places |->
     IF \E k \in DOMAIN some : some[k] = p
     THEN c.reg[others[CHOOSE k \in DOMAIN some : some[k] = p]]
     ELSE IF \E k \in DOMAIN some : others[k] = p
     THEN c.reg[some[CHOOSE k \in DOMAIN some : others[k] = p]]
     ELSE c.reg[p]]

Operands(c, s) == [k \in DOMAIN s.args |-> c.reg[s.args[k]]]

\* A read is answered by the memory, or a device, of that moment.
Answered(c, to, f, addr) ==
  [reg |-> [c.reg EXCEPT ![to] = <<f, addr, Len(c.log)>>], log |-> Append(c.log, <<f, addr>>)]

\* write_sr, write_fpscr: with a bit that swaps banks, flip says whether it changed.
WithSr(c, flip, val) ==
  [c EXCEPT !.reg = [(IF flip THEN Swapped(c, General, Bank) ELSE c.reg)
                       EXCEPT !["sr"] = val, !["t"] = <<"tbit", val>>]]
WithFpscr(c, flip, val) ==
  [c EXCEPT !.reg = [(IF flip THEN Swapped(c, Fr, Xf) ELSE c.reg) EXCEPT !["fpscr"] = val]]

\* One assignment done.
Apply(c, s, flip) ==
  LET vals == Operands(c, s) IN
  CASE s.f \in {"read8", "read16", "read32"} -> Answered(c, s.to, s.f, vals[1])
    [] s.to = "mem"      -> [c EXCEPT !.log = Append(@, <<s.f>> \o vals)]
    [] s.f = "write_sr"  -> WithSr(c, flip, vals[1])
    [] s.f \in {"write_fpscr", "frchg"} -> WithFpscr(c, flip \/ s.f = "frchg", Term(s.f, vals))
    [] OTHER             -> [c EXCEPT !.reg[s.to] = Term(s.f, vals)]

\* The temporaries of an instruction are gone after it.
Forget(c) == [c EXCEPT !.reg = [p \in Places |-> IF p \in Temps THEN <<"initial", p>> ELSE @[p]]]

\* The assignments one after the other.
Do(c, stmts, flip) ==
  LET at[n \in 0..Len(stmts)] == IF n = 0 THEN c ELSE Apply(at[n - 1], stmts[n], flip)
  IN  at[Len(stmts)]

-------------------------------------------------------------------------------
\* A double of an even register and the next: get_dr and set_dr.
GetDr(to)  == Set(to, "pair", Fr)
SetDr(val) == Set("f0", "hi", <<val>>) \o Set("f1", "lo", <<val>>)
LoadPair(k, val) == Set(Pair(k)[1], "hi", <<val>>) \o Set(Pair(k)[2], "lo", <<val>>)

\* read_pair and write_pair: the word at the lower address is the high half.
ReadPair(addr) == Read("v", 32, addr) \o Set("w", "add4", <<addr>>) \o Read("w", 32, "w")
WritePair(addr, k) == Write(32, addr, Pair(k)[1]) \o Set("w", "add4", <<addr>>)
                      \o Write(32, "w", Pair(k)[2])

\* exec_fp, arithmetic.  Both operands of a double operation are even registers: with two
\* registers both are the same pair.
Arithmetic(i, pr) ==
  LET fn == F(i.n)  fm == F(i.m) IN
  CASE i.op \in {"FLDI0", "FLDI1"} -> Set(fn, i.op, <<>>)
    [] i.op = "FLDS" -> Copy("fpul", fn)
    [] i.op = "FSTS" -> Copy(fn, "fpul")
    [] i.op \in {"FABS", "FNEG", "FSRRA"} -> Set(fn, i.op, <<fn>>)
    [] i.op \in {"FADD", "FSUB", "FMUL", "FDIV"} ->
         IF pr THEN GetDr("v") \o Set("v", i.op, <<"v", "v">>) \o SetDr("v")
         ELSE Set(fn, i.op, <<fn, fm>>)
    [] i.op \in {"FCMP_EQ", "FCMP_GT"} ->
         IF pr THEN GetDr("v") \o Set("t", i.op, <<"v", "v">>)
         ELSE Set("t", i.op, <<fn, fm>>)
    [] i.op = "FSQRT" ->
         IF pr THEN GetDr("v") \o Set("v", i.op, <<"v">>) \o SetDr("v")
         ELSE Set(fn, i.op, <<fn>>)
    [] i.op = "FLOAT" ->
         IF pr THEN Set("v", "double", <<"fpul">>) \o SetDr("v") ELSE Set(fn, i.op, <<"fpul">>)
    [] i.op = "FTRC" ->
         IF pr THEN GetDr("v") \o Set("fpul", i.op, <<"v">>) ELSE Set("fpul", i.op, <<fn>>)
    [] i.op = "FMAC" -> Set(fn, i.op, <<"f0", fm, fn>>)
    [] i.op = "FCNVSD" -> Set("v", i.op, <<"fpul">>) \o SetDr("v")
    [] i.op = "FCNVDS" -> GetDr("v") \o Set("fpul", i.op, <<"v">>)
    [] i.op = "FSCA" -> Set("v", i.op, <<"fpul">>) \o SetDr("v")
    [] i.op = "FIPR" -> Set("f1", i.op, Fr)
    [] i.op = "FTRV" -> Set("v", i.op, Fr \o Xf) \o SetDr("v")

\* exec_fp, moves: of a pair if SZ is set, and then a pointer moves by eight.
Fmov(i, sz) ==
  LET rn == R(i.n)  rm == R(i.m)
      load(addr)  == IF sz THEN ReadPair(addr) \o Copy(Pair(i.n)[1], "v") \o Copy(Pair(i.n)[2], "w")
                     ELSE Read(F(i.n), 32, addr)
      store(addr) == IF sz THEN WritePair(addr, i.m) ELSE Write(32, addr, F(i.m)) IN
  CASE i.op = "FMOV" ->
         IF sz THEN Set("v", "pair", Pair(i.m)) \o LoadPair(i.n, "v") ELSE Copy(F(i.n), F(i.m))
    [] i.op = "FMOV_LOAD" -> load(rm)
    [] i.op = "FMOV_LOAD_INC" -> load(rm) \o Set(rm, IF sz THEN "add8" ELSE "add4", <<rm>>)
    [] i.op = "FMOV_LOAD_R0" -> Set("ea", "add", <<rm, "r0">>) \o load("ea")
    [] i.op = "FMOV_STORE" -> store(rn)
    [] i.op = "FMOV_STORE_DEC" -> Set(rn, IF sz THEN "sub8" ELSE "sub4", <<rn>>) \o store(rn)
    [] i.op = "FMOV_STORE_R0" -> Set("ea", "add", <<rn, "r0">>) \o store("ea")

\* exec, moves, loads and stores.  A literal is read from memory: the image's word, unless
\* the program has patched it.
Move(i) ==
  LET rn == R(i.n)  rm == R(i.m)  size == i.size
      load(to, addr) == Read("v", size, addr) \o Set(to, Extend[size], <<"v">>) IN
  CASE i.op = "MOV_I" -> Copy(rn, "imm")
    [] i.op = "MOVT" -> Copy(rn, "t")
    [] i.op = "MOV" -> Copy(rn, rm)
    [] i.op \in {"SWAP_B", "SWAP_W"} -> Set(rn, i.op, <<rm>>)
    [] i.op = "XTRCT" -> Set(rn, i.op, <<rm, rn>>)
    [] i.op = "MOVA" -> Set("r0", "pcrel", <<"pc">>)
    [] i.op = "MOV_PCREL" -> Set("v", IF i.patched THEN "memory" ELSE "image", <<"pc">>)
                             \o Set(rn, Extend[size], <<"v">>)
    [] i.op = "MOV_S" -> Write(size, rn, rm)
    [] i.op = "MOV_L" -> load(rn, rm)
    [] i.op = "MOV_SD" -> Set(rn, StepBack[size], <<rn>>) \o Write(size, rn, rm)
    [] i.op = "MOV_LI" ->
         Read("v", size, rm) \o Set("v", Extend[size], <<"v">>)
         \o (IF i.n # i.m THEN Set(rm, Step[size], <<rm>>) ELSE Nothing) \o Copy(rn, "v")
    [] i.op = "MOV_S_DISP" -> Set("ea", "disp", <<rn>>) \o Write(size, "ea", rm)
    [] i.op = "MOV_L_DISP" -> Set("ea", "disp", <<rm>>) \o load(rn, "ea")
    [] i.op = "MOV_S_DISP0" -> Set("ea", "disp", <<rm>>) \o Write(size, "ea", "r0")
    [] i.op = "MOV_L_DISP0" -> Set("ea", "disp", <<rm>>) \o load("r0", "ea")
    [] i.op = "MOV_S_R0" -> Set("ea", "add", <<rn, "r0">>) \o Write(size, "ea", rm)
    [] i.op = "MOV_L_R0" -> Set("ea", "add", <<rm, "r0">>) \o load(rn, "ea")
    [] i.op = "MOV_S_GBR" -> Set("ea", "disp", <<"gbr">>) \o Write(size, "ea", "r0")
    [] i.op = "MOV_L_GBR" -> Set("ea", "disp", <<"gbr">>) \o load("r0", "ea")

\* exec, arithmetic.  A helper that sets T does so before Rn is assigned.
Integer(i) ==
  LET rn == R(i.n)  rm == R(i.m)
      withT(args, into) == Set("v", i.op, args) \o Set("t", "t_of", <<"v">>) \o Set(into, "res_of", <<"v">>)
      mac(size) == Read("v", size, rn) \o Set(rn, Step[size], <<rn>>)
                   \o Read("w", size, rm) \o Set(rm, Step[size], <<rm>>)
                   \o Set("v", i.op, <<"v", "w", "mach", "macl", "sr">>)
                   \o Set("mach", "hi", <<"v">>) \o Set("macl", "lo", <<"v">>) IN
  CASE i.op \in {"ADD", "SUB"} -> Set(rn, i.op, <<rn, rm>>)
    [] i.op = "ADD_I" -> Set(rn, "ADD", <<rn, "imm">>)
    [] i.op \in {"ADDC", "SUBC", "ADDV", "SUBV"} -> withT(<<rn, rm, "t">>, rn)
    [] i.op = "NEGC" -> withT(<<rm, "t">>, rn)
    [] i.op = "DIV1" -> Set("v", i.op, <<rn, rm, "sr", "t">>) \o Set("sr", "sr_of", <<"v">>)
                        \o Set("t", "t_of", <<"v">>) \o Set(rn, "res_of", <<"v">>)
    [] i.op = "DIV0S" -> Set("v", i.op, <<rn, rm, "sr">>) \o Set("sr", "sr_of", <<"v">>)
                         \o Set("t", "t_of", <<"v">>)
    [] i.op = "DIV0U" -> Set("sr", i.op, <<"sr">>) \o Set("t", "zero", <<>>)
    [] i.op \in {"NEG", "EXTS_B", "EXTS_W", "EXTU_B", "EXTU_W"} -> Set(rn, i.op, <<rm>>)
    [] i.op = "CMP_EQ_I" -> Set("t", "equal", <<"r0", "imm">>)
    [] i.op \in {"CMP_EQ", "CMP_HS", "CMP_GE", "CMP_HI", "CMP_GT", "CMP_STR"} ->
         Set("t", i.op, <<rn, rm>>)
    [] i.op \in {"CMP_PZ", "CMP_PL"} -> Set("t", i.op, <<rn>>)
    [] i.op = "DT" -> Set(rn, "sub1", <<rn>>) \o Set("t", "is_zero", <<rn>>)
    [] i.op \in {"DMULS_L", "DMULU_L"} -> Set("v", i.op, <<rn, rm>>) \o Set("mach", "hi", <<"v">>)
                                          \o Set("macl", "lo", <<"v">>)
    [] i.op \in {"MUL_L", "MULS_W", "MULU_W"} -> Set("macl", i.op, <<rn, rm>>)
    [] i.op = "MAC_L" -> mac(32)
    [] i.op = "MAC_W" -> mac(16)

\* exec, logic, shifts and rotates.
Logic(i) ==
  LET rn == R(i.n)  rm == R(i.m) IN
  CASE i.op \in {"AND", "OR", "XOR", "SHAD", "SHLD"} -> Set(rn, i.op, <<rn, rm>>)
    [] i.op = "NOT" -> Set(rn, i.op, <<rm>>)
    [] i.op \in {"AND_I", "OR_I", "XOR_I"} -> Set("r0", i.op, <<"r0", "imm">>)
    [] i.op \in {"AND_B_GBR", "OR_B_GBR", "XOR_B_GBR"} ->
         Set("ea", "add", <<"gbr", "r0">>) \o Read("v", 8, "ea") \o Set("v", i.op, <<"v", "imm">>)
         \o Write(8, "ea", "v")
    [] i.op = "TAS_B" -> Read("v", 8, rn) \o Set("t", "is_zero", <<"v">>)
                         \o Set("v", "or80", <<"v">>) \o Write(8, rn, "v")
    [] i.op = "TST" -> Set("v", "AND", <<rn, rm>>) \o Set("t", "is_zero", <<"v">>)
    [] i.op = "TST_I" -> Set("v", "AND_I", <<"r0", "imm">>) \o Set("t", "is_zero", <<"v">>)
    [] i.op = "TST_B_GBR" -> Set("ea", "add", <<"gbr", "r0">>) \o Read("v", 8, "ea")
                             \o Set("v", "AND_I", <<"v", "imm">>) \o Set("t", "is_zero", <<"v">>)
    [] i.op = "ROTL" -> Set("t", "top", <<rn>>) \o Set(rn, "shl_or", <<rn, "t">>)
    [] i.op = "ROTR" -> Set("t", "low", <<rn>>) \o Set(rn, "shr_or", <<rn, "t">>)
    [] i.op \in {"ROTCL", "ROTCR"} -> Set("v", i.op, <<rn, "t">>) \o Set("t", "t_of", <<"v">>)
                                      \o Set(rn, "res_of", <<"v">>)
    [] i.op \in {"SHAL", "SHLL"} -> Set("t", "top", <<rn>>) \o Set(rn, "shl", <<rn>>)
    [] i.op \in {"SHAR", "SHLR"} -> Set("t", "low", <<rn>>) \o Set(rn, i.op, <<rn>>)
    [] i.op \in {"SHLL2", "SHLL8", "SHLL16", "SHLR2", "SHLR8", "SHLR16"} -> Set(rn, i.op, <<rn>>)

\* exec, control registers.  Rm is the register of the bank in front after SR is written.
Control(i) ==
  LET rn == R(i.n)  rm == R(i.m)
      assign(from) == CASE i.creg = "sr" -> Set("sr", "write_sr", <<from>>)
                        [] i.creg = "fpscr" -> Set("fpscr", "write_fpscr", <<from>>)
                        [] OTHER -> Copy(i.creg, from)
      value == IF i.creg = "sr" THEN Set("v", "read_sr", <<"sr", "t">>) ELSE Copy("v", i.creg) IN
  CASE i.op = "LDC" -> assign(rm)
    [] i.op = "LDC_L" -> Read("v", 32, rm) \o assign("v") \o Set(rm, "add4", <<rm>>)
    [] i.op = "STC" -> value \o Copy(rn, "v")
    [] i.op = "STC_L" -> Set(rn, "sub4", <<rn>>) \o value \o Write(32, rn, "v")

\* exec, flags, traps and the cache.
System(i) ==
  CASE i.op = "CLRMAC" -> Set("mach", "zero", <<>>) \o Set("macl", "zero", <<>>)
    [] i.op \in {"CLRS", "SETS"} -> Set("sr", i.op, <<"sr">>)
    [] i.op = "CLRT" -> Set("t", "zero", <<>>)
    [] i.op = "SETT" -> Set("t", "one", <<>>)
    [] i.op = "TRAPA" -> Set("mem", "trapa", <<"pc", "imm">>)
    [] i.op = "MOVCA_L" -> Write(32, R(i.n), "r0")
    [] i.op = "PREF" -> IF i.queue THEN Set("mem", "sq_flush", <<R(i.n)>>) ELSE Nothing
    [] i.op \in {"NOP", "OCBI", "OCBP", "OCBWB"} -> Nothing
    [] i.op = "FRCHG" -> Set("fpscr", "frchg", <<"fpscr">>)
    [] i.op = "FSCHG" -> Set("fpscr", "fschg", <<"fpscr">>)
    [] i.op = "LDTLB" -> Set("mem", "fault", <<"pc">>)
    [] OTHER -> Control(i)

Exec(i, pr, sz) ==
  CASE i.kind = "fp" -> Arithmetic(i, pr)
    [] i.kind = "fmov" -> Fmov(i, sz)
    [] i.kind = "move" -> Move(i)
    [] i.kind = "integer" -> Integer(i)
    [] i.kind = "logic" -> Logic(i)
    [] i.kind = "system" -> System(i)

\* run, a delayed branch: target, condition and PR before the slot.
BranchBeforeSlot(i) ==
  LET rm == R(i.m) IN
  CASE i.op \in {"BT_S", "BF_S"} -> Set("taken", i.op, <<"t">>) \o Set("target", "pcrel", <<"pc">>)
    [] i.op = "BRA" -> Set("target", "pcrel", <<"pc">>)
    [] i.op = "BRAF" -> Set("target", "add", <<"pc", rm>>)
    [] i.op = "JMP" -> Copy("target", rm)
    [] i.op = "BSR" -> Set("target", "pcrel", <<"pc">>) \o Set("pr", "add4", <<"pc">>)
    [] i.op = "BSRF" -> Set("target", "add", <<"pc", rm>>) \o Set("pr", "add4", <<"pc">>)
    [] i.op = "JSR" -> Copy("target", rm) \o Set("pr", "add4", <<"pc">>)
    [] i.op = "RTS" -> Copy("target", "pr")
    [] i.op = "RTE" -> Nothing

\* What follows the slot: RTE reads SPC and SSR only now.
BranchAfterSlot(i) ==
  IF i.op = "RTE" THEN Copy("target", "spc") \o Set("sr", "write_sr", <<"ssr">>) ELSE Nothing

Delayed(i, slot, pr, sz) == BranchBeforeSlot(i) \o Exec(slot, pr, sz) \o BranchAfterSlot(i)
Cycles(i) == IF i.kind = "branch" THEN 2 ELSE 1
===============================================================================
