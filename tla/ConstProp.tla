-------------------------------- MODULE ConstProp --------------------------------
(***************************************************************************)
(* Constants in registers within a block (translator/src/analysis/            *)
(* constprop.cpp, constant_at without alias_or), against what the interpreter   *)
(* does.  Both call targets and patched literals are resolved with it, so a      *)
(* register it calls constant must hold that value.  Values are terms; a word    *)
(* of the image is a constant that is not patched.                              *)
(***************************************************************************)
EXTENDS Naturals, Sequences, FiniteSets

CONSTANTS
  Instructions  \* with n and m as decode sets them

I == INSTANCE Interpreter

VARIABLES
  known,    \* r: register number -> term, or Unknown
  machine,  \* the context, as the interpreter leaves it
  marked,   \* addresses the instruction stores to, as scan_stores marks them
  missed,   \* ghost: registers that changed in a way constant_at does not look for
  misread,  \* ghost: scan_stores took another register for the address
  executed

vars == <<known, machine, marked, missed, misread, executed>>

Unknown == <<"unknown">>
Known(k) == known[k] # Unknown
Imm      == <<"initial", "imm">>
Pc       == <<"initial", "pc">>

\* reads_only.  Anything else is taken to write Rn, and only that.
ReadsOnly ==
  {"MOV_S", "MOV_S_R0", "MOV_S_DISP0", "MOV_S_DISP", "MOV_S_GBR", "MOVCA_L", "FMOV_STORE",
   "FMOV_STORE_R0", "CMP_EQ", "CMP_EQ_I", "CMP_HS", "CMP_GE", "CMP_HI", "CMP_GT", "CMP_STR", "CMP_PZ",
   "CMP_PL", "TST", "TST_I", "TST_B_GBR", "AND_B_GBR", "OR_B_GBR", "XOR_B_GBR", "DIV0S", "DIV0U",
   "MUL_L", "MULS_W", "MULU_W", "DMULS_L", "DMULU_L", "NOP", "TRAPA", "PREF", "OCBI", "OCBP", "OCBWB",
   "CLRT", "SETT", "CLRS", "SETS", "CLRMAC", "LDTLB", "TAS_B", "LDC", "FADD", "FSUB", "FMUL", "FDIV",
   "FMAC", "FCMP_EQ", "FCMP_GT", "FABS", "FNEG", "FSQRT", "FSRRA", "FLDI0", "FLDI1", "FLDS", "FSTS",
   "FLOAT", "FTRC", "FCNVSD", "FCNVDS", "FSCA", "FIPR", "FTRV", "FMOV", "FSCHG", "FRCHG", "FMOV_LOAD",
   "FMOV_LOAD_R0"}

\* What is computed of known operands; f of a sequence of terms is what the operation gives.
OfBoth == {"ADD", "SUB", "OR", "AND", "XOR"}
OfN == [SHLL |-> "shl", SHAL |-> "shl", SHLL2 |-> "SHLL2", SHLL8 |-> "SHLL8", SHLL16 |-> "SHLL16",
        SHLR |-> "SHLR", SHLR2 |-> "SHLR2", SHLR8 |-> "SHLR8", SHLR16 |-> "SHLR16",
        SHAR |-> "SHAR", DT |-> "sub1"]
OfM == {"NOT", "NEG", "EXTU_B", "EXTU_W", "EXTS_B", "EXTS_W", "SWAP_W", "SWAP_B"}

Value(f, ks) == IF \A j \in DOMAIN ks : ks[j] # Unknown THEN I!Term(f, ks) ELSE Unknown

\* Mutant of Pointers: a load over its own pointer leaves the advanced pointer.
PointersAlways(i) ==
  [k \in {0, 1} |-> IF k = i.m THEN Value(I!Step[i.size], <<known[i.m]>>)
                    ELSE IF k = i.n THEN Unknown ELSE known[k]]

\* Post-increment loads: the destination is unknown, the pointer advances.
Pointers(i) ==
  [k \in {0, 1} |-> IF k = i.n THEN Unknown
                    ELSE IF k = i.m THEN Value(I!Step[i.size], <<known[i.m]>>) ELSE known[k]]

\* One instruction of constant_at's loop.
After(i) ==
  LET n == i.n  m == i.m
      set(k, v) == [known EXCEPT ![k] = v] IN
  CASE i.op = "MOV_I" -> set(n, Imm)
    [] i.op = "MOV_PCREL" -> set(n, I!Term(I!Extend[i.size], <<I!Term("image", <<Pc>>)>>))
    [] i.op = "MOVA" -> set(0, I!Term("pcrel", <<Pc>>))
    [] i.op = "MOV" -> set(n, known[m])
    [] i.op = "ADD_I" -> set(n, Value("ADD", <<known[n], Imm>>))
    [] i.op \in OfBoth -> set(n, Value(i.op, <<known[n], known[m]>>))
    [] i.op \in {"OR_I", "AND_I", "XOR_I"} -> set(0, Value(i.op, <<known[0], Imm>>))
    [] i.op \in DOMAIN OfN -> set(n, Value(OfN[i.op], <<known[n]>>))
    [] i.op \in OfM -> set(n, Value(i.op, <<known[m]>>))
    [] i.op = "MOV_LI" -> Pointers(i)
    [] i.op \in {"MAC_L", "MAC_W"} -> [known EXCEPT ![n] = Unknown, ![m] = Unknown]
    [] i.op = "FMOV_LOAD_INC" -> set(m, Unknown)
    [] i.op = "MOV_SD" -> set(n, Value(I!StepBack[i.size], <<known[n]>>))
    [] i.op = "FMOV_STORE_DEC" -> set(n, Unknown)
    [] i.op \in ReadsOnly -> known
    [] OTHER -> set(n, Unknown)

-------------------------------------------------------------------------------
\* scan_stores: what a store through registers that are known writes to, which is always taken
\* to be Rn.  Stores through GBR, of control registers and of TAS.B are not looked at.
Marked(i) ==
  LET at(f, ks) == {Value(f, ks)} \ {Unknown}
      double(as) == as \cup {I!Term("add4", <<a>>) : a \in as}
      indexed == at("add", <<known[i.n], known[0]>>) IN
  CASE i.op \in {"MOV_S", "MOVCA_L"} -> at("id", <<known[i.n]>>)
    [] i.op = "MOV_SD" -> at(I!StepBack[i.size], <<known[i.n]>>)
    [] i.op \in {"MOV_S_DISP", "MOV_S_DISP0"} -> at("disp", <<known[i.n]>>)
    [] i.op = "MOV_S_R0" -> indexed
    [] i.op = "FMOV_STORE" -> double(at("id", <<known[i.n]>>))
    [] i.op = "FMOV_STORE_R0" -> double(indexed)
    [] i.op = "FMOV_STORE_DEC" -> at("sub8", <<known[i.n]>>) \cup at("sub4", <<known[i.n]>>)
    [] OTHER -> {}

-------------------------------------------------------------------------------
\* LDC.L and LDS.L advance Rm, which decode puts in m alone, and a write to SR may switch the
\* bank of the registers.
Missed(i, flip) == (IF i.op = "LDC_L" THEN {i.m} ELSE {})
                   \cup (IF flip /\ i.creg = "sr" THEN {0, 1} ELSE {})

\* Any registers may be known before an instruction, whatever the block had in front of it.
Init ==
  /\ machine = I!Initially /\ marked = {} /\ missed = {} /\ misread = FALSE /\ executed = FALSE
  /\ \E ks \in SUBSET {0, 1} : known = [k \in {0, 1} |-> IF k \in ks THEN machine.reg[I!R(k)] ELSE Unknown]

Next ==
  /\ ~executed /\ executed' = TRUE
  /\ \E i \in Instructions, flip \in BOOLEAN :
       /\ flip => i.op \in {"LDC", "LDC_L"} /\ i.creg \in {"sr", "fpscr"}
       /\ known' = After(i)
       /\ machine' = I!Forget(I!Do(machine, I!Exec(i, FALSE, FALSE), flip))
       /\ marked' = Marked(i)
       /\ missed' = Missed(i, flip)
       /\ misread' = (i.op = "MOV_S_DISP0")

-------------------------------------------------------------------------------
\* A register that is called constant holds that value when the instruction has been executed,
\* unless it changed in one of the two ways above (constprop.cpp 121-347, 100-105: these are
\* taken to write Rn or nothing).
ConstantsHold == \A k \in {0, 1} : Known(k) /\ k \notin missed => known[k] = machine.reg[I!R(k)]

\* A store that was looked at writes nowhere else than where it was marked: the literals there
\* are read at run time.  MOV.B and MOV.W with a displacement have their register in m
\* (emit.cpp 137-225).
Stored == {machine.log[k][2] : k \in {j \in DOMAIN machine.log :
             machine.log[j][1] \in {"write8", "write16", "write32"}}}
StoresMarked == (marked # {} /\ ~misread) => Stored \subseteq marked
===============================================================================
