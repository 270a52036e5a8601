------------------------------ MODULE MCTranslator ------------------------------
EXTENDS Translator

Is(w, targets) == [w |-> w, t |-> targets]
HasNext(p, a) == a + 1 \in DOMAIN p

-------------------------------------------------------------------------------
\* Functions of six words that end in RTS: two instructions of any kind and an FSCHG anywhere
\* before it.
Straight == [[a \in 0..5 |-> Is("op", {})] EXCEPT ![4] = Is("rts", {})]
Chosen   == {Is(w, {to}) : w \in {"bf", "bfs", "bra"}, to \in 0..5}
            \cup {Is("jsr", {}), Is("rts", {}), Is("op", {}), Is("jmp", {0, 3})}
SlotsExecute(p) == \A a \in DOMAIN p : p[a].w \in {"bfs", "bra", "jsr", "jmp", "rts"} =>
  HasNext(p, a) /\ p[a + 1].w \in {"op", "tog"} /\ \A b \in DOMAIN p : 5 \notin p[b].t
MCFunctionTexts == {p \in {[Straight EXCEPT ![a] = i, ![b] = j, ![c] = Is("tog", {})] :
                             a, b, c \in 0..3, i, j \in Chosen} : SlotsExecute(p)}

-------------------------------------------------------------------------------
\* Units of three functions: the first sets the mode and calls the others, which call each other,
\* change the mode or save it.
It(k, g, may) == [k |-> k, g |-> g, v |-> 0, may |-> may]
Outer == {It("call", 2, FALSE), It("call", 3, FALSE), It("tog", 0, FALSE), It("tog", 0, TRUE)}
Inner == {It("tog", 0, FALSE), It("tog", 0, TRUE), It("call", 2, TRUE), It("call", 3, TRUE),
          It("icall", 3, FALSE), It("keep", 0, FALSE)}
UpTo(S, n) == UNION {[1..k -> S] : k \in 1..n}
MCBodies == {<<a, b, c>> : a \in {<<It("set", 0, FALSE), o, It("call", 2, FALSE)>> : o \in Outer}, b \in UpTo(Inner, 2),
                           c \in UpTo(Inner, 1)}

-------------------------------------------------------------------------------
\* Every instruction of the machine, without a second register where it has none.
Machines == INSTANCE Engines WITH
  AfterMode <- {}, SlotOps <- {}, interpreted <- 0, emitted <- 0, double <- FALSE, pairs <- FALSE,
  mode <- 0, cycles <- 0, counted <- 0, pending <- 0, done <- 0
NoN == {"MOV_S_DISP0", "MOV_L_DISP0", "MOV_S_GBR", "MOV_L_GBR", "LDC", "LDC_L", "OR_I", "AND_I",
        "XOR_I", "TST_I", "CMP_EQ_I", "MOVA", "TRAPA"}
MCInstructions == {i \in Machines!Plain : ~i.patched /\ (i.op \in NoN => i.n = 0)}

-------------------------------------------------------------------------------
\* Switches over r1, as two compilers write them: a check against a limit, the index or a copy
\* of it scaled, the table by MOVA or as a literal, and three forms of jump; and a mask with
\* code of equal length behind the jump.
In(op, n, m, v) == [op |-> op, n |-> n, m |-> m, v |-> v]
Checks == {<<In("MOV_I", 2, 0, 1), In("CMP_HI", 1, 2, 0), In("BT", 0, 0, 0)>>,
           <<In("MOV_I", 2, 0, 2), In("CMP_HS", 1, 2, 0), In("BT", 0, 0, 0)>>,
           <<In("MOV_I", 3, 0, 1), In("MOV", 2, 3, 0), In("CMP_HI", 1, 2, 0), In("BT", 0, 0, 0)>>}
Copies == {<<1, << >> >>, <<3, <<In("MOV", 3, 1, 0)>> >>,
           <<3, <<In("EXTU_B", 3, 1, 0), In("NOP", 0, 0, 0)>> >>}
Scaling(r, s) == CASE s = 4 -> <<In("SHLL2", r, 0, 0)>> [] s = 2 -> <<In("SHLL", r, 0, 0)>>
                   [] OTHER -> << >>
Load(s, j, m) == In(CASE s = 4 -> "MOV_L_L_R0" [] s = 2 -> "MOV_W_L_R0" [] OTHER -> "MOV_B_L_R0", j, m, 0)
Gcc(r, s, j, to) == <<In("MOVA", 0, 0, to), Load(s, j, r)>>
Shc(r, s, j, to) == <<In("MOV", 0, r, 0), In("MOV_L_PCREL", 2, 0, to), Load(s, j, 2)>>
Jump(form, j, gcc) == CASE form = "pc" -> <<In("BRAF", 0, j, 0)>>
  [] form = "table" -> <<In("ADD", j, IF gcc THEN 0 ELSE 2, 0), In("JMP", 0, j, 0)>>
  [] OTHER -> <<In("JMP", 0, j, 0)>>
Code(check, copy, s, gcc, form, j, to) ==
  check \o copy[2] \o Scaling(copy[1], s)
  \o (IF gcc THEN Gcc(copy[1], s, j, to) ELSE Shc(copy[1], s, j, to)) \o Jump(form, j, gcc)
Written(check, copy, s, gcc, form, j, alias) ==
  [code |-> Code(check, copy, s, gcc, form, j, 2 * Len(Code(check, copy, s, gcc, form, j, 0)) + 2),
   cases |-> <<100, 104>>, extra |-> <<100, 102>>, form |-> form, alias |-> alias, in |-> 1,
   checked |-> check # << >>]
Stubs == {[code |-> <<In("AND_I", 0, 0, m), In(op, 0, 0, 0), In("BRAF", 0, 0, 0)>>,
           cases |-> <<0, 0, 0, 0>>, extra |-> << >>, form |-> "stub", alias |-> 0, in |-> 0,
           checked |-> TRUE] : m \in {1, 3}, op \in {"SHLL", "SHLL2"}}
MCSwitches == Stubs \cup
  {Written(check, copy, s, gcc, form, j, alias) :
     check \in Checks \cup {<< >>}, copy \in Copies, s \in {1, 2, 4}, gcc \in BOOLEAN,
     form \in {"abs", "pc", "table"}, j \in {1, 3}, alias \in {0, 500}}
MCIndices == 0..3

-------------------------------------------------------------------------------
\* Images of nine words, entered at the first: branches, calls and pointers over each other.
To(ws, targets) == {Is(w, to) : w \in ws, to \in targets}
Any == {"bf", "bfs", "bra", "bsr", "ptr"}
Blank == [[a \in 0..8 |-> Is("op", 0)] EXCEPT ![7] = Is("rts", 0)]
SlotsAre(p) == \A a \in DOMAIN p : p[a].w \in {"bfs", "bra", "bsr", "rts"} =>
                 HasNext(p, a) /\ p[a + 1].w = "op"
MCImages == {p \in {[Blank EXCEPT ![0] = i, ![2] = l, ![3] = j, ![5] = k] :
                      i \in To(Any, {3, 5, 7}), j \in To(Any, {0, 5, 7}) \cup {Is("rts", 0)},
                      k \in To(Any, {0, 2, 3}) \cup {Is("rts", 0), Is("op", 0)},
                      l \in To({"bf", "ptr"}, {0, 5}) \cup {Is("op", 0)}} : SlotsAre(p)}
MCSeeds == <<0>>
===============================================================================
