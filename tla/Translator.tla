------------------------------- MODULE Translator -------------------------------
(***************************************************************************)
(* The translator's analyses, in one run: those of Inference, the instruction *)
(* table, the blocks of a function, switch tables and the discovery of          *)
(* functions.  The run chooses one of the six; they share no state, and the      *)
(* others have none.  The instruction table and its decoding                      *)
(* (translator/src/sh4/decoder.cpp) come first: its rows are grouped by mask and   *)
(* operand fields.                                                                  *)
(***************************************************************************)
EXTENDS Inference, FiniteSets

CONSTANTS
  FunctionSize, FunctionTexts,          \* Blocks
  Switches, Indices, Alias, MaxEntries, \* SwitchTables
  ImageSize, Images, Seeds              \* Discover

VARIABLES
  high,  \* the table: the first digit of the words looked at
  function, entry, text, pc, item, size,
  switch, index, at, reg, t,
  image, functions, code, slots, work, phase, word, home

-------------------------------------------------------------------------------
\* The rows <<value, op>> with one mask and one kind of fields.
Class(fields, mask, rows) ==
  [fields |-> fields, mask |-> mask,
   ops |-> [v \in {r[1] : r \in rows} |-> (CHOOSE r \in rows : r[1] = v)[2]]]

\* First digit 0 to 3 and 5.
TableLow == <<
  Class("None", \hFFFF,
   {<<\h0008, "CLRT">>, <<\h0018, "SETT">>, <<\h0028, "CLRMAC">>, <<\h0038, "LDTLB">>,
    <<\h0048, "CLRS">>, <<\h0058, "SETS">>, <<\h0009, "NOP">>, <<\h0019, "DIV0U">>,
    <<\h000B, "RTS">>, <<\h001B, "SLEEP">>, <<\h002B, "RTE">>}),
  Class("N", \hF0FF,
   {<<\h0002, "STC_SR">>, <<\h0012, "STC_GBR">>, <<\h0022, "STC_VBR">>, <<\h0032, "STC_SSR">>,
    <<\h0042, "STC_SPC">>, <<\h003A, "STC_SGR">>, <<\h00FA, "STC_DBR">>, <<\h0083, "PREF">>,
    <<\h0093, "OCBI">>, <<\h00A3, "OCBP">>, <<\h00B3, "OCBWB">>, <<\h00C3, "MOVCA_L">>,
    <<\h0029, "MOVT">>, <<\h000A, "STS_MACH">>, <<\h001A, "STS_MACL">>, <<\h002A, "STS_PR">>,
    <<\h005A, "STS_FPUL">>, <<\h006A, "STS_FPSCR">>}),
  Class("BANK_N", \hF08F,
   {<<\h0082, "STC_BANK">>}),
  Class("M", \hF0FF,
   {<<\h0003, "BSRF">>, <<\h0023, "BRAF">>}),
  Class("NM", \hF00F,
   {<<\h0004, "MOV_B_S_R0">>, <<\h0005, "MOV_W_S_R0">>, <<\h0006, "MOV_L_S_R0">>,
    <<\h0007, "MUL_L">>, <<\h000C, "MOV_B_L_R0">>, <<\h000D, "MOV_W_L_R0">>,
    <<\h000E, "MOV_L_L_R0">>, <<\h000F, "MAC_L">>, <<\h2000, "MOV_B_S">>, <<\h2001, "MOV_W_S">>,
    <<\h2002, "MOV_L_S">>, <<\h2004, "MOV_B_SD">>, <<\h2005, "MOV_W_SD">>, <<\h2006, "MOV_L_SD">>,
    <<\h2007, "DIV0S">>, <<\h2008, "TST">>, <<\h2009, "AND">>, <<\h200A, "XOR">>, <<\h200B, "OR">>,
    <<\h200C, "CMP_STR">>, <<\h200D, "XTRCT">>, <<\h200E, "MULU_W">>, <<\h200F, "MULS_W">>,
    <<\h3000, "CMP_EQ">>, <<\h3002, "CMP_HS">>, <<\h3003, "CMP_GE">>, <<\h3004, "DIV1">>,
    <<\h3005, "DMULU_L">>, <<\h3006, "CMP_HI">>, <<\h3007, "CMP_GT">>, <<\h3008, "SUB">>,
    <<\h300A, "SUBC">>, <<\h300B, "SUBV">>, <<\h300C, "ADD">>, <<\h300D, "DMULS_L">>,
    <<\h300E, "ADDC">>, <<\h300F, "ADDV">>}),
  Class("NMD4", \hF000,
   {<<\h1000, "MOV_L_S_DISP">>, <<\h5000, "MOV_L_L_DISP">>}) >>
\* First digit 4.
TableFour == <<
  Class("N", \hF0FF,
   {<<\h4000, "SHLL">>, <<\h4010, "DT">>, <<\h4020, "SHAL">>, <<\h4001, "SHLR">>,
    <<\h4011, "CMP_PZ">>, <<\h4021, "SHAR">>, <<\h4002, "STS_L_MACH">>, <<\h4012, "STS_L_MACL">>,
    <<\h4022, "STS_L_PR">>, <<\h4052, "STS_L_FPUL">>, <<\h4062, "STS_L_FPSCR">>,
    <<\h4003, "STC_L_SR">>, <<\h4013, "STC_L_GBR">>, <<\h4023, "STC_L_VBR">>,
    <<\h4033, "STC_L_SSR">>, <<\h4043, "STC_L_SPC">>, <<\h4032, "STC_L_SGR">>,
    <<\h40F2, "STC_L_DBR">>, <<\h4004, "ROTL">>, <<\h4024, "ROTCL">>, <<\h4005, "ROTR">>,
    <<\h4015, "CMP_PL">>, <<\h4025, "ROTCR">>, <<\h4008, "SHLL2">>, <<\h4018, "SHLL8">>,
    <<\h4028, "SHLL16">>, <<\h4009, "SHLR2">>, <<\h4019, "SHLR8">>, <<\h4029, "SHLR16">>,
    <<\h401B, "TAS_B">>}),
  Class("BANK_N", \hF08F,
   {<<\h4083, "STC_L_BANK">>}),
  Class("M", \hF0FF,
   {<<\h4006, "LDS_L_MACH">>, <<\h4016, "LDS_L_MACL">>, <<\h4026, "LDS_L_PR">>,
    <<\h4056, "LDS_L_FPUL">>, <<\h4066, "LDS_L_FPSCR">>, <<\h4007, "LDC_L_SR">>,
    <<\h4017, "LDC_L_GBR">>, <<\h4027, "LDC_L_VBR">>, <<\h4037, "LDC_L_SSR">>,
    <<\h4047, "LDC_L_SPC">>, <<\h4036, "LDC_L_SGR">>, <<\h40F6, "LDC_L_DBR">>,
    <<\h400A, "LDS_MACH">>, <<\h401A, "LDS_MACL">>, <<\h402A, "LDS_PR">>, <<\h405A, "LDS_FPUL">>,
    <<\h406A, "LDS_FPSCR">>, <<\h400B, "JSR">>, <<\h402B, "JMP">>, <<\h400E, "LDC_SR">>,
    <<\h401E, "LDC_GBR">>, <<\h402E, "LDC_VBR">>, <<\h403E, "LDC_SSR">>, <<\h404E, "LDC_SPC">>,
    <<\h403A, "LDC_SGR">>, <<\h40FA, "LDC_DBR">>}),
  Class("BANK_M", \hF08F,
   {<<\h4087, "LDC_L_BANK">>, <<\h408E, "LDC_BANK">>}),
  Class("NM", \hF00F,
   {<<\h400C, "SHAD">>, <<\h400D, "SHLD">>, <<\h400F, "MAC_W">>}) >>
\* First digit 6 to 14.
TableHigh == <<
  Class("NM", \hF00F,
   {<<\h6000, "MOV_B_L">>, <<\h6001, "MOV_W_L">>, <<\h6002, "MOV_L_L">>, <<\h6003, "MOV">>,
    <<\h6004, "MOV_B_LI">>, <<\h6005, "MOV_W_LI">>, <<\h6006, "MOV_L_LI">>, <<\h6007, "NOT">>,
    <<\h6008, "SWAP_B">>, <<\h6009, "SWAP_W">>, <<\h600A, "NEGC">>, <<\h600B, "NEG">>,
    <<\h600C, "EXTU_B">>, <<\h600D, "EXTU_W">>, <<\h600E, "EXTS_B">>, <<\h600F, "EXTS_W">>}),
  Class("NI8", \hF000,
   {<<\h7000, "ADD_I">>, <<\hE000, "MOV_I">>}),
  Class("MD4_R0", \hFF00,
   {<<\h8000, "MOV_B_S_DISP0">>, <<\h8100, "MOV_W_S_DISP0">>, <<\h8400, "MOV_B_L_DISP0">>,
    <<\h8500, "MOV_W_L_DISP0">>}),
  Class("I8", \hFF00,
   {<<\h8800, "CMP_EQ_I">>}),
  Class("S8", \hFF00,
   {<<\h8900, "BT">>, <<\h8B00, "BF">>, <<\h8D00, "BT_S">>, <<\h8F00, "BF_S">>}),
  Class("NU8", \hF000,
   {<<\h9000, "MOV_W_PCREL">>, <<\hD000, "MOV_L_PCREL">>}),
  Class("S12", \hF000,
   {<<\hA000, "BRA">>, <<\hB000, "BSR">>}),
  Class("U8", \hFF00,
   {<<\hC000, "MOV_B_S_GBR">>, <<\hC100, "MOV_W_S_GBR">>, <<\hC200, "MOV_L_S_GBR">>,
    <<\hC300, "TRAPA">>, <<\hC400, "MOV_B_L_GBR">>, <<\hC500, "MOV_W_L_GBR">>,
    <<\hC600, "MOV_L_L_GBR">>, <<\hC700, "MOVA">>, <<\hC800, "TST_I">>, <<\hC900, "AND_I">>,
    <<\hCA00, "XOR_I">>, <<\hCB00, "OR_I">>, <<\hCC00, "TST_B_GBR">>, <<\hCD00, "AND_B_GBR">>,
    <<\hCE00, "XOR_B_GBR">>, <<\hCF00, "OR_B_GBR">>}) >>
\* The FPU.
TableFpu == <<
  Class("None", \hFFFF,
   {<<\hF3FD, "FSCHG">>, <<\hFBFD, "FRCHG">>}),
  Class("FTRV", \hF3FF,
   {<<\hF1FD, "FTRV">>}),
  Class("N", \hF1FF,
   {<<\hF0FD, "FSCA">>, <<\hF0AD, "FCNVSD">>, <<\hF0BD, "FCNVDS">>}),
  Class("FIPR", \hF0FF,
   {<<\hF0ED, "FIPR">>}),
  Class("N", \hF0FF,
   {<<\hF00D, "FSTS">>, <<\hF01D, "FLDS">>, <<\hF02D, "FLOAT">>, <<\hF03D, "FTRC">>,
    <<\hF04D, "FNEG">>, <<\hF05D, "FABS">>, <<\hF06D, "FSQRT">>, <<\hF07D, "FSRRA">>,
    <<\hF08D, "FLDI0">>, <<\hF09D, "FLDI1">>}),
  Class("NM", \hF00F,
   {<<\hF000, "FADD">>, <<\hF001, "FSUB">>, <<\hF002, "FMUL">>, <<\hF003, "FDIV">>,
    <<\hF004, "FCMP_EQ">>, <<\hF005, "FCMP_GT">>, <<\hF006, "FMOV_LOAD_R0">>,
    <<\hF007, "FMOV_STORE_R0">>, <<\hF008, "FMOV_LOAD">>, <<\hF009, "FMOV_LOAD_INC">>,
    <<\hF00A, "FMOV_STORE">>, <<\hF00B, "FMOV_STORE_DEC">>, <<\hF00C, "FMOV">>, <<\hF00E, "FMAC">>}) >>

kTable == TableLow \o TableFour \o TableHigh \o TableFpu

Digit(x, k) == (x \div 16^k) % 16

\* Mutant of MaskDigit: a digit is looked at as a whole or not at all.
MaskDigitWhole(d, m) == IF m = 15 THEN d ELSE 0

\* raw & mask, for the digits the masks have.
MaskDigit(d, m) ==
  CASE m = 15 -> d [] m = 0 -> 0 [] m = 8 -> 8 * (d \div 8) [] m = 3 -> d % 4 [] m = 1 -> d % 2
Masked(raw, mask) ==
  MaskDigit(Digit(raw, 0), Digit(mask, 0)) + 16 * MaskDigit(Digit(raw, 1), Digit(mask, 1))
  + 256 * MaskDigit(Digit(raw, 2), Digit(mask, 2)) + 4096 * MaskDigit(Digit(raw, 3), Digit(mask, 3))

\* Lookup: the classes with a row for raw; the first row wins.
Matching(raw) == {k \in DOMAIN kTable : Masked(raw, kTable[k].mask) \in DOMAIN kTable[k].ops}

Sext(v, bits) == IF v >= 2^(bits - 1) THEN v - 2^bits ELSE v

Args(n, m, imm, bank) == [n |-> n, m |-> m, imm |-> imm, bank |-> bank]
\* decode: the operands.
Operands(fields, raw) ==
  LET hi == Digit(raw, 2)  mid == Digit(raw, 1)  low == Digit(raw, 0)  byte == raw % 256 IN
  CASE fields = "None"   -> Args(0, 0, 0, 0)
    [] fields = "N"      -> Args(hi, 0, 0, 0)
    [] fields = "M"      -> Args(0, hi, 0, 0)
    [] fields = "NM"     -> Args(hi, mid, 0, 0)
    [] fields = "NMD4"   -> Args(hi, mid, low, 0)
    [] fields = "MD4_R0" -> Args(0, mid, low, 0)
    [] fields = "NI8"    -> Args(hi, 0, Sext(byte, 8), 0)
    [] fields = "NU8"    -> Args(hi, 0, byte, 0)
    [] fields \in {"I8", "S8"} -> Args(0, 0, Sext(byte, 8), 0)
    [] fields = "U8"     -> Args(0, 0, byte, 0)
    [] fields = "S12"    -> Args(0, 0, Sext(raw % 4096, 12), 0)
    [] fields = "BANK_N" -> Args(hi, 0, 0, mid % 8)
    [] fields = "BANK_M" -> Args(0, hi, 0, mid % 8)
    [] fields = "FIPR"   -> Args(4 * (hi \div 4), 4 * (hi % 4), 0, 0)
    [] fields = "FTRV"   -> Args(4 * (hi \div 4), 0, 0, 0)

Decode(raw) ==
  LET k == CHOOSE k \in Matching(raw) : TRUE IN
  [op |-> kTable[k].ops[Masked(raw, kTable[k].mask)], args |-> Operands(kTable[k].fields, raw)]

TableInit == high \in 0..15

Words == {4096 * high + low : low \in 0..4095}
Valid == {raw \in Words : Matching(raw) # {}}

-------------------------------------------------------------------------------
Function == INSTANCE Blocks WITH Size <- FunctionSize, Programs <- FunctionTexts, program <- function
Switch   == INSTANCE SwitchTables WITH Programs <- Switches, program <- switch, pc <- at
Image    == INSTANCE Discover WITH Size <- ImageSize, pc <- word

ofFunction == <<function, entry, text, pc, item, size>>
ofSwitch   == <<switch, index, at, reg, t>>
ofImage    == <<image, functions, code, slots, work, phase, word, home>>
vars       == <<inferred, high, ofFunction, ofSwitch, ofImage>>

NoTable == high = None
NoFunction == /\ function = None /\ entry = None /\ text = None
               /\ pc = None /\ item = None /\ size = None
NoSwitch == /\ switch = None /\ index = None /\ at = None
             /\ reg = None /\ t = None
NoImage == /\ image = None /\ functions = None /\ code = None /\ slots = None
            /\ work = None /\ phase = None /\ word = None /\ home = None

Init ==
  /\ part \in {"table", "unit", "block", "function", "switch", "image"} /\ InferenceInit
  /\ \/ part = "table" /\ TableInit
     \/ part # "table" /\ NoTable
  /\ \/ part = "function" /\ Function!Init
     \/ part # "function" /\ NoFunction
  /\ \/ part = "switch" /\ Switch!Init
     \/ part # "switch" /\ NoSwitch
  /\ \/ part = "image" /\ Image!Init
     \/ part # "image" /\ NoImage

Next ==
  \/ InferenceNext /\ UNCHANGED <<high, ofFunction, ofSwitch, ofImage>>
  \/ /\ part = "function" /\ Function!Next
     /\ UNCHANGED <<inferred, high, ofSwitch, ofImage>>
  \/ /\ part = "switch" /\ Switch!Next
     /\ UNCHANGED <<inferred, high, ofFunction, ofImage>>
  \/ /\ part = "image" /\ Image!Next
     /\ UNCHANGED <<inferred, high, ofFunction, ofSwitch>>

Spec == Init /\ [][Next]_vars

-------------------------------------------------------------------------------
\* No word matches two rows, so the order of the table decides nothing; and no two words decode
\* to the same instruction with the same operands: an overlapping mask or an operand that is
\* left in the word would execute one instruction as another (decoder.cpp 38-361).
OneInstructionEach == part = "table" =>
  /\ \A raw \in Words : Cardinality(Matching(raw)) <= 1
  /\ Cardinality({Decode(raw) : raw \in Valid}) = Cardinality(Valid)

\* The emitted function executes the instructions the guest's words say, in their order, leaves
\* for the same place, and each was lowered for the mode it executes in if modes are followed
\* (emit.cpp 357-492, 237-302, 683-785, 860-1055).
SameInstructions == part = "function" => Function!SameInstructions /\ Function!ModeAsResolved

\* The jump of a recovered switch goes to one of its targets, and nothing behind its table is
\* taken for one (switch.cpp 16-327).
SwitchRecovered == part = "switch" => Switch!SwitchRecovered

\* What control reaches lies in the function that executes or is the entry of another
\* (discover.cpp 31-475).
HandsOverToAFunction == part = "image" => Image!HandsOverToAFunction
===============================================================================
