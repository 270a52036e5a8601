------------------------------ MODULE SwitchTables ------------------------------
(***************************************************************************)
(* Recovering the targets of a switch from the code in front of its jump      *)
(* (translator/src/analysis/switch.cpp), against what that code jumps to.       *)
(* An instruction is [op, n, m, v] at an even address from 0; v is the constant  *)
(* it loads, or a mask.  Behind the code lies the table, and behind the table     *)
(* words that look like more of it.                                             *)
(***************************************************************************)
EXTENDS Integers, Sequences, FiniteSets

CONSTANTS
  Programs,   \* [code, cases, extra, form, alias]: cases the targets in the table, extra those behind
  Indices,    \* what is switched over
  Alias,      \* distance of the two segments an address may be written in
  MaxEntries  \* max_entries

None == -1

VARIABLES
  program, index,  \* the code, and the value in r1
  pc, reg, t       \* the guest: next instruction, registers 0..3, T

vars == <<program, index, pc, reg, t>>

JumpAt(p)  == 2 * (Len(p.code) - 1)
At(p, a)   == p.code[(a \div 2) + 1]
TableAt(p) == 2 * Len(p.code) + 2
High(p)    == 200     \* range_hi

\* The raw entry k of the table, as the form of the jump needs it.
Listed(p) == p.cases \o p.extra
Raw(p, k) == CASE p.form = "pc"    -> Listed(p)[k + 1] - (JumpAt(p) + 4)
               [] p.form = "table" -> Listed(p)[k + 1] - TableAt(p)
               [] OTHER            -> Listed(p)[k + 1] + p.alias

Rebase(x) == x % Alias

Branches == {"BT", "BF", "BRA", "JMP", "BRAF"}
Loads    == {"MOV_B_L_R0", "MOV_W_L_R0", "MOV_L_L_R0"}
Size(op) == CASE op = "MOV_B_L_R0" -> 1 [] op = "MOV_W_L_R0" -> 2 [] OTHER -> 4
Compares == {"CMP_HI", "CMP_HS", "CMP_GT", "CMP_GE"}
Scales   == {"SHLL", "SHLL2"}

-------------------------------------------------------------------------------
\* constant_in: the last definition of a register in the block, through copies.
RECURSIVE ConstantIn(_, _, _, _)
ConstantIn(p, at, r, depth) ==
  IF depth > 3 \/ at <= 0 THEN None
  ELSE LET i == At(p, at - 2) IN
       CASE i.op = "MOVA" /\ r = 0 -> i.v
         [] i.op \in {"MOV_I", "MOV_L_PCREL"} /\ i.n = r -> i.v
         [] i.op = "MOV" /\ i.n = r -> ConstantIn(p, at - 2, i.m, depth + 1)
         [] i.n = r /\ i.op \notin (Compares \cup {"TST", "MOVA", "MOV", "MOV_I", "MOV_L_PCREL"}) -> None
         [] i.op \in Branches -> None
         [] OTHER -> ConstantIn(p, at - 2, r, depth)

\* Mutant of Admitted: cmp/hi counted as cmp/hs.
AdmittedOneLess(i, limit) == limit

\* How many cases a comparison with limit admits.
Admitted(i, limit) == IF i.op \in {"CMP_HI", "CMP_GT"} THEN limit + 1 ELSE limit

\* table_bound: straight back across branches to the comparison of the index; 0 is none.
RECURSIVE TableBound(_, _, _)
TableBound(p, at, idx) ==
  IF at <= 0 THEN 0
  ELSE LET i == At(p, at - 2) IN
       CASE i.op \in {"JMP", "BRAF"} -> 0
         [] i.op = "AND_I" /\ idx = 0 -> 0
         [] i.op \in Compares /\ i.n = idx ->
              LET limit == ConstantIn(p, at - 2, i.m, 0) IN
              IF limit = None THEN 0 ELSE Admitted(i, limit)
         [] i.op \in {"MOV", "EXTU_B"} /\ i.n = idx -> TableBound(p, at - 2, i.m)
         [] i.op \in {"BT", "BF", "BRA", "NOP", "MOVA", "AND_I"} \cup Compares \cup Scales ->
              TableBound(p, at - 2, idx)
         [] i.n = idx -> 0
         [] OTHER -> TableBound(p, at - 2, idx)

\* Back from the jump to the load that defines its register: [at, relative, base], a scaled
\* index without a load, or nothing.
RECURSIVE Definition(_, _, _, _, _)
Definition(p, at, r, relative, base) ==
  IF at <= 0 \/ JumpAt(p) - at >= 24 THEN [k |-> "scaled"]
  ELSE LET i == At(p, at - 2) IN
       CASE i.n # r -> Definition(p, at - 2, r, relative, base)
         [] i.n = r /\ i.op = "ADD" /\ ~relative -> Definition(p, at - 2, r, TRUE, i.m)
         [] i.n = r /\ i.op \in Loads -> [k |-> "load", at |-> at - 2, relative |-> relative, base |-> base]
         [] i.n = r /\ i.op = "MOV" -> Definition(p, at - 2, i.m, relative, base)
         [] i.n = r /\ i.op \in Scales \cup {"AND_I"} -> [k |-> "scaled"]
         [] OTHER -> [k |-> "other"]

\* The loop over the entries: until one is no even address of the function, or lies in the
\* table itself.
RECURSIVE Entries(_, _, _, _, _)
Entries(p, d, base, k, count) ==
  LET size == Size(At(p, d.at).op)
      target == CASE At(p, JumpAt(p)).op = "BRAF" -> JumpAt(p) + 4 + Raw(p, k)
                  [] d.relative -> base + Raw(p, k)
                  [] OTHER -> Rebase(Raw(p, k)) IN
  IF k >= count \/ k >= Len(Listed(p)) THEN << >>
  ELSE IF target \notin 0..(High(p) - 1) \/ target % 2 = 1
          \/ (target >= base /\ target < base + (k + 1) * size) THEN << >>
  ELSE <<target>> \o Entries(p, d, base, k + 1, count)

Smaller(x, y) == IF x < y THEN x ELSE y

FromTable(p, d) ==
  LET i == At(p, d.at)
      viaM == IF i.m # 0 THEN ConstantIn(p, d.at, i.m, 0) ELSE None
      base == IF viaM # None THEN viaM ELSE ConstantIn(p, d.at, 0, 0)
      bound == TableBound(p, d.at, IF viaM # None THEN 0 ELSE i.m)
      other == IF d.relative /\ d.base \notin {i.m, 0} THEN ConstantIn(p, d.at, d.base, 0) ELSE None IN
  IF base = None THEN << >>
  ELSE Entries(p, d, IF other # None THEN other ELSE base, 0,
               IF bound # 0 THEN Smaller(bound, MaxEntries) ELSE MaxEntries)

\* and #mask,r0; a shift; braf r0: stubs straight behind the jump.
Scaled(p) ==
  LET at == {a \in 1..Len(p.code) : p.code[a].op \in Scales /\ p.code[a].n = At(p, JumpAt(p)).m}
      mask == {a \in 1..Len(p.code) : p.code[a].op = "AND_I" /\ At(p, JumpAt(p)).m = 0} IN
  IF At(p, JumpAt(p)).op # "BRAF" \/ at = {} \/ mask = {} THEN << >>
  ELSE LET i == p.code[CHOOSE a \in at : TRUE]
           stride == IF i.op = "SHLL2" THEN 4 ELSE 2 IN
       [k \in 1..Smaller(p.code[CHOOSE a \in mask : TRUE].v + 1, 16) |-> JumpAt(p) + 4 + (k - 1) * stride]

\* recover_switch.
Recovered(p) ==
  LET d == Definition(p, JumpAt(p), At(p, JumpAt(p)).m, FALSE, None) IN
  CASE d.k = "load" -> FromTable(p, d) [] d.k = "scaled" -> Scaled(p) [] OTHER -> << >>

-------------------------------------------------------------------------------
Init ==
  /\ program \in Programs /\ index \in Indices
  /\ pc = 0 /\ reg = [r \in 0..3 |-> IF r = program.in THEN index ELSE 0] /\ t = FALSE

Left == -2   \* through the default branch, or past the table

Execute ==
  /\ pc \in 0..JumpAt(program)
  /\ LET i == At(program, pc)
         to(r, v) == reg' = [reg EXCEPT ![r] = v]
         k == IF i.op \in Loads /\ (reg[0] + reg[i.m] - TableAt(program)) % Size(i.op) = 0
              THEN (reg[0] + reg[i.m] - TableAt(program)) \div Size(i.op) ELSE None IN
     /\ CASE i.op \in {"MOV_I", "MOV_L_PCREL"} -> to(i.n, i.v)
          [] i.op = "MOVA" -> to(0, i.v)
          [] i.op \in {"MOV", "EXTU_B"} -> to(i.n, reg[i.m])
          [] i.op = "ADD" -> to(i.n, reg[i.n] + reg[i.m])
          [] i.op = "SHLL" -> to(i.n, reg[i.n] * 2)
          [] i.op = "SHLL2" -> to(i.n, reg[i.n] * 4)
          [] i.op = "AND_I" -> to(0, reg[0] % (i.v + 1))
          [] i.op \in Loads /\ k \in 0..(Len(Listed(program)) - 1) -> to(i.n, Raw(program, k))
          [] OTHER -> UNCHANGED reg
     /\ t' = CASE i.op \in {"CMP_HI", "CMP_GT"} -> reg[i.n] > reg[i.m]
               [] i.op \in {"CMP_HS", "CMP_GE"} -> reg[i.n] >= reg[i.m]
               [] OTHER -> t
     /\ pc' = CASE i.op = "BT" /\ t -> Left
                [] i.op \in Loads /\ k \notin 0..(Len(Listed(program)) - 1) -> Left
                [] i.op = "JMP" -> 1000 + Rebase(reg[i.m])
                [] i.op = "BRAF" -> 1000 + pc + 4 + reg[i.m]
                [] OTHER -> pc + 2
  /\ UNCHANGED <<program, index>>

Next == Execute

-------------------------------------------------------------------------------
Targets(p) == {Recovered(p)[k] : k \in DOMAIN Recovered(p)}

\* The jump of a recovered switch goes to one of its targets, for every index that the code's own
\* check lets through; and where that check was found, no word behind the table is taken for a
\* case: it would become a block of the function (switch.cpp 98-161, 165-325).
SwitchRecovered ==
  /\ (pc >= 1000 /\ Recovered(program) # << >>) => pc - 1000 \in Targets(program)
  /\ program.checked => Len(Recovered(program)) <= Len(program.cases)
===============================================================================
