--------------------------------- MODULE Blocks ---------------------------------
(***************************************************************************)
(* How the translator turns a function's words into C++ with labels and      *)
(* gotos (translator/src/emit/emit.cpp: discover, analyse_fp_modes, run,       *)
(* emit_instruction, emit_delayed), against what the words do.  Words are       *)
(* numbered from 0, the function is 0..Size-1, and a word is                    *)
(*   op     anything without a branch        tog   FSCHG                        *)
(*   bf     conditional branch to t          bfs   the same, with a delay slot  *)
(*   bra    branch to t, with a slot         jsr   call, with a slot            *)
(*   jmp    switch over the targets t        rts   return, with a slot          *)
(***************************************************************************)
EXTENDS Integers, Sequences, FiniteSets, SequencesExt

CONSTANTS
  Size,     \* words of the function
  Programs  \* functions looked at: word number -> [w, t], t a set of word numbers

Words == 0..(Size - 1)
InRange(a) == a \in Words

\* has_delay_slot, and the conditional branches.
HasSlot(i)     == i.w \in {"bfs", "bra", "jsr", "jmp", "rts"}
Conditional(i) == i.w \in {"bf", "bfs"}
Next_(i, pc)   == pc + (IF HasSlot(i) THEN 2 ELSE 1)
NoWord         == [w |-> "data", t |-> {}]
At(p, a)       == IF InRange(a) THEN p[a] ELSE NoWord

Modes   == {0, 1}
Unknown == 2
Merge(x, y) == IF x = y THEN x ELSE Unknown
Toggle(x)   == IF x = Unknown THEN x ELSE 1 - x

-------------------------------------------------------------------------------
(* discover: decoding, from a stack of addresses. *)

\* The targets that become labels, and what is pushed after them.
Local(i) == {t \in i.t : InRange(t)}
Pushed(i, pc) == SetToSortSeq(Local(i), <) \o (IF Conditional(i) THEN <<Next_(i, pc)>> ELSE <<>>)

\* A block from start: until a branch that is no call, a label, or the end of the function.
RECURSIVE DecodeFrom(_, _, _, _)
DecodeFrom(p, d, start, pc) ==
  IF ~InRange(pc) \/ (pc # start /\ pc \in d.labels)
  THEN [d EXCEPT !.blocks = @ \cup {start}, !.end[start] = pc, !.transfer = @ \ {start}]
  ELSE LET i    == p[pc]
           slot == IF HasSlot(i) THEN {pc + 1} ELSE {}
           e    == [d EXCEPT !.seen = @ \cup {pc} \cup slot, !.slots = @ \cup slot] IN
       IF i.w \in {"op", "tog", "jsr"} THEN DecodeFrom(p, e, start, Next_(i, pc))
       ELSE [e EXCEPT !.labels = @ \cup Local(i), !.work = @ \o Pushed(i, pc),
                      !.blocks = @ \cup {start}, !.end[start] = Next_(i, pc),
                      !.transfer = @ \cup {start}]

\* One address at a time from the top; a branch to another's slot continues after it.
RECURSIVE Decode(_, _)
Decode(p, d) ==
  IF d.work = <<>> THEN d
  ELSE LET pc == Last(d.work)
           e  == [d EXCEPT !.work = Front(@)] IN
       IF ~InRange(pc) THEN Decode(p, e)
       ELSE IF pc \notin d.seen
       THEN Decode(p, DecodeFrom(p, [e EXCEPT !.starts = @ \cup {pc}], pc, pc))
       ELSE IF pc \in d.slots \ d.starts
       THEN Decode(p, [e EXCEPT !.labels = @ \cup {pc}, !.work = Append(@, pc + 1)])
       ELSE Decode(p, e)

Decoded(p) ==
  Decode(p, [work |-> <<0>>, seen |-> {}, slots |-> {}, starts |-> {}, labels |-> {},
             blocks |-> {}, slotLabels |-> {}, end |-> [a \in Words |-> a], transfer |-> {}])

\* The instructions of a block, slots left out.
RECURSIVE Starts(_, _, _)
Starts(p, pc, stop) == IF pc >= stop THEN <<>> ELSE <<pc>> \o Starts(p, Next_(At(p, pc), pc), stop)

\* Labels on a slot are no block starts, and where control goes on after such a slot is one.
AfterSlot(p, d) ==
  LET decoded == UNION {Range(Starts(p, b, d.end[b])) : b \in d.blocks}
      owners  == {pc \in decoded : HasSlot(At(p, pc)) /\ pc + 1 \in d.labels}
      after   == {pc + 2 : pc \in owners} \cap (Words \ d.blocks)
      labels  == d.labels \cup after IN
  [d EXCEPT !.labels = labels,
            !.slotLabels = {pc + 1 : pc \in owners} \cup (labels \ (decoded \cup after))]

\* Every other label splits the block it is in.
RECURSIVE Split(_)
Split(d) ==
  LET inside(b) == {l \in d.labels \ d.slotLabels : b < l /\ l < d.end[b]}
      open == {b \in d.blocks : inside(b) # {}} IN
  IF open = {} THEN d
  ELSE LET b == Min(open)  l == Min(inside(b)) IN
       Split([d EXCEPT !.end[b] = l, !.end[l] = d.end[b], !.blocks = @ \cup {l},
                       !.transfer = (@ \ {b, l}) \cup (IF b \in @ THEN {l} ELSE {})])

Discovered(p) == Split(AfterSlot(p, Decoded(p)))

-------------------------------------------------------------------------------
(* analyse_fp_modes: the SZ bit at the start of every block. *)

NotReached == 3

\* The block a branch to t continues in, for the analysis: the one that contains it.
Successor(d, t) == {Max({b \in d.blocks : b <= t})}

\* The word that ends a block: the last, or the one before its slot.
LastBranch(p, d, b) == LET last == d.end[b] - 1 IN
  IF ~HasSlot(At(p, last)) /\ At(p, last).w # "bf" /\ last > b THEN last - 1 ELSE last

Successors(p, d, b) ==
  IF b \notin d.transfer THEN {d.end[b]} \cap d.blocks
  ELSE LET i == At(p, LastBranch(p, d, b)) IN
       UNION {Successor(d, t) : t \in Local(i)}
       \cup (IF Conditional(i) THEN {d.end[b]} \cap d.blocks ELSE {})

\* transfer over every word of a block, slots included.
Through(p, d, b, mode) ==
  LET toggles == {a \in b..(d.end[b] - 1) : At(p, a).w = "tog"} IN
  IF Cardinality(toggles) % 2 = 1 THEN Toggle(mode) ELSE mode

RECURSIVE Propagate(_, _, _)
Propagate(p, d, modes) ==
  LET into(b) == {Through(p, d, c, modes[c]) :
                    c \in {x \in d.blocks : modes[x] # NotReached /\ b \in Successors(p, d, x)}}
      merged(b) == LET all == into(b) \cup ({modes[b]} \ {NotReached}) IN
                   IF all = {} THEN NotReached
                   ELSE IF Cardinality(all) = 1 THEN CHOOSE x \in all : TRUE ELSE Unknown
      next == [b \in d.blocks |-> merged(b)] IN
  IF next = modes THEN modes ELSE Propagate(p, d, next)

\* A block that the analysis does not reach keeps the unknown mode.
BlockModes(p, d, entry) ==
  LET modes == Propagate(p, d, [b \in d.blocks |-> IF b = 0 THEN entry ELSE NotReached]) IN
  [b \in d.blocks |-> IF modes[b] = NotReached THEN Unknown ELSE modes[b]]

-------------------------------------------------------------------------------
(* run: the text of the function, in the order of the blocks. *)

Item(k, a, mode) == [k |-> k, a |-> a, mode |-> mode]

\* Mutant of SlotCopy: the path that has run the slot runs into its copy.
SlotCopyRunsOn(d, pc, mode) ==
  IF pc + 1 \in d.slotLabels \ d.blocks
  THEN <<Item("label", pc + 1, mode), Item("slot", pc + 1, mode)>> ELSE <<>>

\* emit_delayed: a slot that is branched to is emitted once more behind its branch.
SlotCopy(d, pc, mode) ==
  IF pc + 1 \notin d.slotLabels THEN <<>>
  ELSE IF pc + 1 \in d.blocks
  THEN IF pc + 2 \in d.blocks THEN <<Item("goto", pc + 2, mode)>> ELSE <<>>
  ELSE <<Item("goto_skip", pc, mode), Item("label", pc + 1, mode), Item("slot", pc + 1, mode),
         Item("skip", pc, mode)>>

\* emit_instruction, with the mode at it; the mode moves on instruction by instruction.
RECURSIVE EmitFrom(_, _, _, _, _)
EmitFrom(p, d, pc, stop, mode) ==
  IF pc >= stop THEN <<>>
  ELSE LET i == At(p, pc) IN
       <<Item("run", pc, mode)>> \o (IF HasSlot(i) THEN SlotCopy(d, pc, mode) ELSE <<>>)
       \o EmitFrom(p, d, Next_(i, pc), stop, IF i.w = "tog" THEN Toggle(mode) ELSE mode)

\* A block that can be left at its end, and is not followed by what comes after it in the
\* program, hands over to the function there.
EmitBlock(p, d, modes, b) ==
  LET stop == d.end[b]
      after == {c \in d.blocks : c > b}
      falls == b \notin d.transfer \/ Conditional(At(p, Last(Starts(p, b, stop)))) IN
  <<Item("label", b, modes[b])>> \o EmitFrom(p, d, b, stop, modes[b])
  \o (IF falls /\ (after = {} \/ Min(after) # stop) THEN <<Item("leave", stop, modes[b])>> ELSE <<>>)

RECURSIVE EmitBlocks(_, _, _, _)
EmitBlocks(p, d, modes, blocks) ==
  IF blocks = {} THEN <<>>
  ELSE EmitBlock(p, d, modes, Min(blocks)) \o EmitBlocks(p, d, modes, blocks \ {Min(blocks)})

Emitted(p, entry) == LET d == Discovered(p) IN EmitBlocks(p, d, BlockModes(p, d, entry), d.blocks)

-------------------------------------------------------------------------------
VARIABLES
  program, entry,  \* the function, and the mode it was compiled for
  text,            \* what was emitted
  pc,              \* the guest's next instruction; outside Words: control has left
  item,            \* the next item of the text that executes something, or an end
  size             \* FPSCR.SZ

vars == <<program, entry, text, pc, item, size>>

Returned == -1
Lost     == -2   \* a goto without its one label, or the end of the C++ function

\* The text from n on: labels and gotos are passed, and a leave names the place it goes to.
Labels(t, k, a) == {n \in DOMAIN t : t[n].k = k /\ t[n].a = a}
RECURSIVE Settle(_, _)
Goto(t, k, a) == IF Cardinality(Labels(t, k, a)) = 1
                 THEN Settle(t, CHOOSE n \in Labels(t, k, a) : TRUE) ELSE [n |-> 0, a |-> Lost]
Settle(t, n) ==
  IF n \notin DOMAIN t THEN [n |-> 0, a |-> Lost]
  ELSE CASE t[n].k \in {"run", "slot"} -> [n |-> n, a |-> t[n].a]
         [] t[n].k \in {"label", "skip"} -> Settle(t, n + 1)
         [] t[n].k = "goto" -> Goto(t, "label", t[n].a)
         [] t[n].k = "goto_skip" -> Goto(t, "skip", t[n].a)
         [] t[n].k = "leave" -> [n |-> 0, a |-> t[n].a]
Jump(t, a) == IF InRange(a) THEN Goto(t, "label", a) ELSE [n |-> 0, a |-> a]

Init ==
  /\ program \in Programs
  /\ size \in Modes
  /\ entry \in {size, Unknown}
  /\ text = Emitted(program, entry)
  /\ pc = 0
  /\ item = Settle(text, 1)

\* The guest executes what is at pc, with its slot, and the text what is at item.
Execute ==
  /\ InRange(pc) /\ item.n # 0
  /\ LET i == program[pc]
         copied == text[item.n].k = "slot"
         j == program[item.a]
         toggled == {a \in {pc} \cup (IF HasSlot(i) THEN {pc + 1} ELSE {}) : program[a].w = "tog"} IN
     /\ \E to \in (IF Conditional(i) THEN i.t \cup {Next_(i, pc)}
                   ELSE IF i.w \in {"bra", "jmp"} THEN i.t
                   ELSE IF i.w = "rts" THEN {Returned} ELSE {Next_(i, pc)}) :
          /\ pc' = to
          /\ item' = IF copied \/ j.w \in {"op", "tog", "jsr"} THEN Settle(text, item.n + 1)
                     ELSE IF j.w = "rts" THEN [n |-> 0, a |-> Returned]
                     ELSE IF to \in j.t THEN Jump(text, to) ELSE Settle(text, item.n + 1)
     /\ size' = IF Cardinality(toggled) % 2 = 1 THEN 1 - size ELSE size
  /\ UNCHANGED <<program, entry, text>>

Next == Execute

-------------------------------------------------------------------------------
\* The emitted function executes the instructions the guest's words say, in their order,
\* whatever branches into a delay slot or the middle of a block, and leaves it for the same
\* place (emit.cpp 357-492, 250-289, 874-1055).
SameInstructions == item.a = pc

\* The functions whose modes are followed word by word: nothing branches into a delay slot,
\* and no call has FSCHG in its slot.
ModesFollow(p) == \A a \in Words : HasSlot(p[a]) =>
  /\ \A b \in Words : a + 1 \notin p[b].t
  /\ ~(p[a].w = "jsr" /\ p[a + 1].w = "tog")

\* Where the SZ mode of an instruction was resolved it is the one FPSCR has then, in every
\* function whose modes are followed: the lowering leaves out the run-time test
\* (emit.cpp 683-785).
ModeAsResolved ==
  (ModesFollow(program) /\ item.n # 0) => text[item.n].mode \in {size, Unknown}
===============================================================================
