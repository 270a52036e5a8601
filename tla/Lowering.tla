------------------------------- MODULE Lowering -------------------------------
(***************************************************************************)
(* What the statements that the translator emits for an instruction do       *)
(* (translator/src/emit/emit.cpp: lower_fp, lower_fp_mode, lower and           *)
(* emit_delayed).  The mode of floating-point instructions is resolved when    *)
(* the code is emitted: mode.pr and mode.sz are 0, 1 or Unknown.               *)
(***************************************************************************)
EXTENDS Interpreter

Unknown == 2

\* lower_fp_mode, arithmetic, in a mode decided before.
LowerArithmetic(i, pr) ==
  LET frn == F(i.n)  frm == F(i.m)
      drn(to)   == Set(to, "pair", Fr)
      setDrn(v) == Set("f0", "hi", <<v>>) \o Set("f1", "lo", <<v>>) IN
  CASE i.op \in {"FLDI0", "FLDI1"} -> Set(frn, i.op, <<>>)
    [] i.op = "FLDS" -> Copy("fpul", frn)
    [] i.op = "FSTS" -> Copy(frn, "fpul")
    [] i.op \in {"FABS", "FNEG", "FSRRA"} -> Set(frn, i.op, <<frn>>)
    [] i.op \in {"FADD", "FSUB", "FMUL", "FDIV"} /\ pr -> drn("v") \o Set("v", i.op, <<"v", "v">>) \o setDrn("v")
    [] i.op \in {"FADD", "FSUB", "FMUL", "FDIV"} /\ ~pr -> Set(frn, i.op, <<frn, frm>>)
    [] i.op \in {"FCMP_EQ", "FCMP_GT"} /\ pr -> drn("v") \o Set("t", i.op, <<"v", "v">>)
    [] i.op \in {"FCMP_EQ", "FCMP_GT"} /\ ~pr -> Set("t", i.op, <<frn, frm>>)
    [] i.op = "FSQRT" /\ pr -> drn("v") \o Set("v", i.op, <<"v">>) \o setDrn("v")
    [] i.op = "FSQRT" /\ ~pr -> Set(frn, i.op, <<frn>>)
    [] i.op = "FLOAT" /\ pr -> Set("v", "double", <<"fpul">>) \o setDrn("v")
    [] i.op = "FLOAT" /\ ~pr -> Set(frn, i.op, <<"fpul">>)
    [] i.op = "FTRC" /\ pr -> drn("v") \o Set("fpul", i.op, <<"v">>)
    [] i.op = "FTRC" /\ ~pr -> Set("fpul", i.op, <<frn>>)
    [] i.op = "FMAC" -> Set(frn, i.op, <<"f0", frm, frn>>)
    [] i.op \in {"FCNVSD", "FSCA"} -> Set("v", i.op, <<"fpul">>) \o setDrn("v")
    [] i.op = "FCNVDS" -> drn("v") \o Set("fpul", i.op, <<"v">>)
    [] i.op = "FIPR" -> Set("f1", i.op, Fr)
    [] i.op = "FTRV" -> Set("v", i.op, Fr \o Xf) \o setDrn("v")

\* lower_fp_mode, moves of one register or of a pair.
LowerFmov(i, sz) ==
  LET rn == R(i.n)  rm == R(i.m)
      address == CASE i.op = "FMOV_LOAD_R0" -> Set("ea", "add", <<rm, "r0">>)
                   [] i.op = "FMOV_STORE_R0" -> Set("ea", "add", <<rn, "r0">>)
                   [] i.op \in {"FMOV_LOAD", "FMOV_LOAD_INC"} -> Copy("ea", rm)
                   [] i.op = "FMOV_STORE" -> Copy("ea", rn)
                   [] i.op = "FMOV_STORE_DEC" -> Set(rn, IF sz THEN "sub8" ELSE "sub4", <<rn>>)
                                                 \o Copy("ea", rn)
      increment == IF i.op = "FMOV_LOAD_INC"
                   THEN Set(rm, IF sz THEN "add8" ELSE "add4", <<rm>>) ELSE Nothing
      second == Set("w", "add4", <<"ea">>) IN
  CASE i.op = "FMOV" /\ sz -> Set("v", "pair", Pair(i.m)) \o Set(Pair(i.n)[1], "hi", <<"v">>)
                              \o Set(Pair(i.n)[2], "lo", <<"v">>)
    [] i.op = "FMOV" /\ ~sz -> Copy(F(i.n), F(i.m))
    [] i.op \in {"FMOV_LOAD", "FMOV_LOAD_INC", "FMOV_LOAD_R0"} ->
         address \o (IF sz THEN Read(Pair(i.n)[1], 32, "ea") \o second \o Read(Pair(i.n)[2], 32, "w")
                     ELSE Read(F(i.n), 32, "ea")) \o increment
    [] i.op \in {"FMOV_STORE", "FMOV_STORE_DEC", "FMOV_STORE_R0"} ->
         address \o (IF sz THEN Write(32, "ea", Pair(i.m)[1]) \o second \o Write(32, "w", Pair(i.m)[2])
                     ELSE Write(32, "ea", F(i.m)))

PrDependent == {"FADD", "FSUB", "FMUL", "FDIV", "FCMP_EQ", "FCMP_GT", "FLOAT", "FTRC", "FSQRT"}

\* Mutant of LowerFp: an unknown mode is taken for the reset mode.
LowerFpAssumesReset(i, mode, pr, sz) ==
  IF i.kind = "fp" THEN LowerArithmetic(i, mode.pr = 1) ELSE LowerFmov(i, mode.sz = 1)

\* lower_fp: what depends on an unknown bit is emitted both ways, behind a test of FPSCR.
LowerFp(i, mode, pr, sz) ==
  IF i.kind = "fp"
  THEN LowerArithmetic(i, IF i.op \in PrDependent /\ mode.pr = Unknown THEN pr ELSE mode.pr = 1)
  ELSE LowerFmov(i, IF mode.sz = Unknown THEN sz ELSE mode.sz = 1)

\* lower, moves: a load with increment assigns Rn first, and leaves a pointer it overwrote.
Increment(i) == IF i.n # i.m THEN Set(R(i.m), Step[i.size], <<R(i.m)>>) ELSE Nothing

LowerMove(i) ==
  LET rn == R(i.n)  rm == R(i.m)
      ldsx(to, addr) == Read(to, i.size, addr) \o Set(to, Extend[i.size], <<to>>)
      at(f, args) == Set("ea", f, args) IN
  CASE i.op = "MOV_I" -> Copy(rn, "imm")
    [] i.op = "MOVT" -> Copy(rn, "t")
    [] i.op = "MOV" -> Copy(rn, rm)
    [] i.op \in {"SWAP_B", "SWAP_W"} -> Set(rn, i.op, <<rm>>)
    [] i.op = "XTRCT" -> Set(rn, i.op, <<rm, rn>>)
    [] i.op = "MOVA" -> Set("r0", "pcrel", <<"pc">>)
    [] i.op = "MOV_PCREL" /\ i.seen -> Set(rn, IF i.patched THEN "memory" ELSE "image", <<"pc">>)
                                       \o Set(rn, Extend[i.size], <<rn>>)
    [] i.op = "MOV_PCREL" /\ ~i.seen -> Set(rn, "image", <<"pc">>) \o Set(rn, Extend[i.size], <<rn>>)
    [] i.op = "MOV_S" -> Write(i.size, rn, rm)
    [] i.op = "MOV_L" -> ldsx(rn, rm)
    [] i.op = "MOV_SD" -> Set(rn, StepBack[i.size], <<rn>>) \o Write(i.size, rn, rm)
    [] i.op = "MOV_LI" -> ldsx(rn, rm) \o Increment(i)
    [] i.op = "MOV_S_DISP" -> at("disp", <<rn>>) \o Write(i.size, "ea", rm)
    [] i.op = "MOV_L_DISP" -> at("disp", <<rm>>) \o ldsx(rn, "ea")
    [] i.op = "MOV_S_DISP0" -> at("disp", <<rm>>) \o Write(i.size, "ea", "r0")
    [] i.op = "MOV_L_DISP0" -> at("disp", <<rm>>) \o ldsx("r0", "ea")
    [] i.op = "MOV_S_R0" -> at("add", <<rn, "r0">>) \o Write(i.size, "ea", rm)
    [] i.op = "MOV_L_R0" -> at("add", <<rm, "r0">>) \o ldsx(rn, "ea")
    [] i.op = "MOV_S_GBR" -> at("disp", <<"gbr">>) \o Write(i.size, "ea", "r0")
    [] i.op = "MOV_L_GBR" -> at("disp", <<"gbr">>) \o ldsx("r0", "ea")

\* lower, arithmetic.  A register compared with itself is emitted as the constant it gives.
LowerInteger(i) ==
  LET rn == R(i.n)  rm == R(i.m)
      call(args) == Set("v", i.op, args)
      setsT      == Set("t", "t_of", <<"v">>)
      accumulate(size) == Read("v", size, rn) \o Set(rn, Step[size], <<rn>>)
                          \o Read("w", size, rm) \o Set(rm, Step[size], <<rm>>)
                          \o call(<<"v", "w", "mach", "macl", "sr">>)
      product    == Set("mach", "hi", <<"v">>) \o Set("macl", "lo", <<"v">>) IN
  CASE i.op \in {"ADD", "SUB"} -> Set(rn, i.op, <<rn, rm>>)
    [] i.op = "ADD_I" -> Set(rn, "ADD", <<rn, "imm">>)
    [] i.op \in {"ADDC", "SUBC", "ADDV", "SUBV"} ->
         call(<<rn, rm, "t">>) \o setsT \o Set(rn, "res_of", <<"v">>)
    [] i.op = "NEGC" -> call(<<rm, "t">>) \o setsT \o Set(rn, "res_of", <<"v">>)
    [] i.op = "DIV1" -> call(<<rn, rm, "sr", "t">>) \o Set("sr", "sr_of", <<"v">>) \o setsT
                        \o Set(rn, "res_of", <<"v">>)
    [] i.op = "DIV0S" -> call(<<rn, rm, "sr">>) \o Set("sr", "sr_of", <<"v">>) \o setsT
    [] i.op = "DIV0U" -> Set("sr", i.op, <<"sr">>) \o Set("t", "zero", <<>>)
    [] i.op \in {"NEG", "EXTS_B", "EXTS_W", "EXTU_B", "EXTU_W"} -> Set(rn, i.op, <<rm>>)
    [] i.op = "CMP_EQ_I" -> Set("t", "equal", <<"r0", "imm">>)
    [] i.op \in Reflexive /\ i.n = i.m -> Set("t", "true", <<>>)
    [] i.op \in Irreflexive /\ i.n = i.m -> Set("t", "false", <<>>)
    [] i.op \in Reflexive \cup Irreflexive /\ i.n # i.m -> Set("t", i.op, <<rn, rm>>)
    [] i.op = "CMP_STR" -> Set("t", i.op, <<rn, rm>>)
    [] i.op \in {"CMP_PZ", "CMP_PL"} -> Set("t", i.op, <<rn>>)
    [] i.op = "DT" -> Set(rn, "sub1", <<rn>>) \o Set("t", "is_zero", <<rn>>)
    [] i.op \in {"DMULS_L", "DMULU_L"} -> call(<<rn, rm>>) \o product
    [] i.op \in {"MUL_L", "MULS_W", "MULU_W"} -> Set("macl", i.op, <<rn, rm>>)
    [] i.op = "MAC_L" -> accumulate(32) \o product
    [] i.op = "MAC_W" -> accumulate(16) \o product

\* lower, logic, shifts and rotates.
LowerLogic(i) ==
  LET rn == R(i.n)  rm == R(i.m)
      byte  == Set("ea", "add", <<"gbr", "r0">>) \o Read("v", 8, "ea")
      test  == Set("t", "is_zero", <<"v">>) IN
  CASE i.op \in {"AND", "OR", "XOR", "SHAD", "SHLD"} -> Set(rn, i.op, <<rn, rm>>)
    [] i.op = "NOT" -> Set(rn, i.op, <<rm>>)
    [] i.op \in {"AND_I", "OR_I", "XOR_I"} -> Set("r0", i.op, <<"r0", "imm">>)
    [] i.op \in {"AND_B_GBR", "OR_B_GBR", "XOR_B_GBR"} ->
         byte \o Set("v", i.op, <<"v", "imm">>) \o Write(8, "ea", "v")
    [] i.op = "TAS_B" -> Read("v", 8, rn) \o test \o Set("v", "or80", <<"v">>) \o Write(8, rn, "v")
    [] i.op = "TST" -> Set("v", "AND", <<rn, rm>>) \o test
    [] i.op = "TST_I" -> Set("v", "AND_I", <<"r0", "imm">>) \o test
    [] i.op = "TST_B_GBR" -> byte \o Set("v", "AND_I", <<"v", "imm">>) \o test
    [] i.op = "ROTL" -> Set("t", "top", <<rn>>) \o Set(rn, "shl_or", <<rn, "t">>)
    [] i.op = "ROTR" -> Set("t", "low", <<rn>>) \o Set(rn, "shr_or", <<rn, "t">>)
    [] i.op \in {"ROTCL", "ROTCR"} -> Set("v", i.op, <<rn, "t">>) \o Set("t", "t_of", <<"v">>)
                                      \o Set(rn, "res_of", <<"v">>)
    [] i.op \in {"SHAL", "SHLL"} -> Set("t", "top", <<rn>>) \o Set(rn, "shl", <<rn>>)
    [] i.op \in {"SHAR", "SHLR"} -> Set("t", "low", <<rn>>) \o Set(rn, i.op, <<rn>>)
    [] i.op \in {"SHLL2", "SHLL8", "SHLL16", "SHLR2", "SHLR8", "SHLR16"} -> Set(rn, i.op, <<rn>>)

\* lower, system and FPU control.
LowerSystem(i) ==
  LET rn == R(i.n)  rm == R(i.m)
      control(from) == CASE i.creg = "sr" -> Set("sr", "write_sr", <<from>>)
                         [] i.creg = "fpscr" -> Set("fpscr", "write_fpscr", <<from>>)
                         [] OTHER -> Copy(i.creg, from)
      value(to) == IF i.creg = "sr" THEN Set(to, "read_sr", <<"sr", "t">>) ELSE Copy(to, i.creg) IN
  CASE i.op = "CLRMAC" -> Set("mach", "zero", <<>>) \o Set("macl", "zero", <<>>)
    [] i.op \in {"CLRS", "SETS"} -> Set("sr", i.op, <<"sr">>)
    [] i.op = "CLRT" -> Set("t", "zero", <<>>)
    [] i.op = "SETT" -> Set("t", "one", <<>>)
    [] i.op = "LDC" -> control(rm)
    [] i.op = "LDC_L" -> Read("v", 32, rm) \o control("v") \o Set(rm, "add4", <<rm>>)
    [] i.op = "STC" -> value(rn)
    [] i.op = "STC_L" -> Set(rn, "sub4", <<rn>>) \o value("v") \o Write(32, rn, "v")
    [] i.op = "TRAPA" -> Set("mem", "trapa", <<"pc", "imm">>)
    [] i.op = "MOVCA_L" -> Write(32, rn, "r0")
    [] i.op = "PREF" -> IF i.queue THEN Set("mem", "sq_flush", <<rn>>) ELSE Nothing
    [] i.op \in {"NOP", "OCBI", "OCBP", "OCBWB"} -> Nothing
    [] i.op = "FRCHG" -> Set("fpscr", "frchg", <<"fpscr">>)
    [] i.op = "FSCHG" -> Set("fpscr", "fschg", <<"fpscr">>)
    [] i.op = "LDTLB" -> Set("mem", "fault", <<"pc">>)

Lower(i, mode, pr, sz) ==
  CASE i.kind \in {"fp", "fmov"} -> LowerFp(i, mode, pr, sz)
    [] i.kind = "move" -> LowerMove(i)
    [] i.kind = "integer" -> LowerInteger(i)
    [] i.kind = "logic" -> LowerLogic(i)
    [] i.kind = "system" -> LowerSystem(i)

\* emit_delayed, RTS: the address is taken before the slot.
ReturnTo(code) == Copy("target", "pr") \o code

\* emit_delayed: a target in a register, PR and the condition are read before the slot.
EmitDelayed(i, slot, mode, pr, sz) ==
  LET code == Lower(slot, mode, pr, sz)
      inRegister == IF i.op \in {"BRAF", "BSRF"} THEN Set("target", "add", <<"pc", R(i.m)>>)
                    ELSE Copy("target", R(i.m))
      local  == Set("target", "pcrel", <<"pc">>)
      return == Set("pr", "add4", <<"pc">>) IN
  CASE i.op \in {"BT_S", "BF_S"} -> Set("taken", i.op, <<"t">>) \o code \o local
    [] i.op = "BRA" -> code \o local
    [] i.op = "BSR" -> return \o code \o local
    [] i.op \in {"BSRF", "JSR"} -> inRegister \o return \o code
    [] i.op \in {"BRAF", "JMP"} -> inRegister \o code
    [] i.op = "RTS" -> ReturnTo(code)
    [] i.op = "RTE" -> code \o Copy("target", "spc") \o Set("sr", "write_sr", <<"ssr">>)
===============================================================================
