--------------------------------- MODULE FpModes ---------------------------------
(***************************************************************************)
(* The floating-point mode across the functions of a unit (translator/src/   *)
(* emit/emit.cpp: summaries and entry modes in emit_unit, transfer), against   *)
(* the mode the guest is in, and the check a development run makes on entry     *)
(* (runtime/src/devinterp/replay.cpp 39-58).  The mode is one bit, FPSCR.SZ.     *)
(* A body is a sequence of [k, g, v, may]; what may be skipped ends in a join.    *)
(*   tog    FSCHG            set    LDS to FPSCR, of a constant v                *)
(*   call   of g, constant   icall  of g through a register                      *)
(*   keep   sts.l fpscr,@-r15 ... lds.l @r15+,fpscr around the rest              *)
(***************************************************************************)
EXTENDS Integers, Sequences, FiniteSets, SequencesExt, TLC

CONSTANTS
  Count,      \* functions, in the order of the specs; 1 is entered from outside
  Programs,   \* functions -> bodies
  Depth,      \* bound of the call depth
  MaxSteps    \* bound of the run

Functions == 1..Count
Items == {i \in [k : {"tog", "set", "call", "icall", "keep"}, g : 0..Count, v : {0, 1}, may : BOOLEAN] :
            i.k \in {"call", "icall"} => i.g \in Functions}

Unknown == 2
Entry   == 3        \* as at the entry of the function
Toggled == 4        \* the other one
Bits    == {0, 1}

\* merge_bit, toggle_bit, apply_effect, resolve_bit.
Merge(a, b) == IF a = b THEN a ELSE Unknown
Toggle(m) == CASE m \in Bits -> 1 - m [] m = Entry -> Toggled [] m = Toggled -> Entry
               [] OTHER -> Unknown
Effect(m, e) == CASE e = Entry -> m [] e = Toggled -> Toggle(m) [] e \in Bits -> e [] OTHER -> Unknown
Resolve(m, at) == IF m \in {Entry, Toggled} THEN Effect(at, m) ELSE m

\* transfer.  No summary of a callee yet, and a callee that is not known: the mode is preserved.
Keeps(body) == \E n \in DOMAIN body : body[n].k = "keep"
Does(sums, i, m) ==
  CASE i.k = "tog" -> Toggle(m)
    [] i.k = "set" -> i.v
    [] i.k = "call" /\ i.g \in DOMAIN sums -> Effect(m, sums[i.g])
    [] OTHER -> m

\* Mutant of Transfer: what a branch may skip is taken to happen.
TransferNoJoin(sums, i, m) == Does(sums, i, m)

Transfer(sums, i, m) == IF i.may THEN Merge(m, Does(sums, i, m)) ELSE Does(sums, i, m)

\* The mode before item n of a body, and its summary: at the end, the saved mode again.
ModeAt(sums, body, m, n) ==
  LET after[k \in 0..Len(body)] == IF k = 0 THEN m ELSE Transfer(sums, body[k], after[k - 1])
  IN after[n - 1]
Summary(sums, body) ==
  IF Keeps(body) THEN Entry ELSE ModeAt(sums, body, Entry, Len(body) + 1)

-------------------------------------------------------------------------------
(* emit_unit. *)

\* A function's turn in a round: a summary that changes more than four times is widened.
Summarised(p, s, f) ==
  LET sm == Summary(s.sums, p[f])
      count == s.changes[f] + 1 IN
  IF f \in DOMAIN s.sums /\ s.sums[f] = sm THEN s
  ELSE [sums |-> (f :> IF count > 4 THEN Unknown ELSE sm) @@ s.sums,
        changes |-> [s.changes EXCEPT ![f] = count], changed |-> TRUE]

\* Eight rounds over the functions in order, or until one changes nothing.
Summaries(p) ==
  LET States == [sums : UNION {[S -> 0..4] : S \in SUBSET Functions}, changes : [Functions -> Nat],
                 changed : BOOLEAN]
      Turns[k \in 0..Count] ==   \* the turns of the last k functions
        [s \in States |-> IF k = 0 THEN s ELSE Turns[k - 1][Summarised(p, s, Count + 1 - k)]]
      Rounds[n \in 0..8] ==
        [s \in States |-> IF n = 0 \/ ~s.changed THEN s
                          ELSE Rounds[n - 1][Turns[Count][[s EXCEPT !.changed = FALSE]]]]
  IN Rounds[8][[sums |-> << >>, changes |-> [f \in Functions |-> 0], changed |-> TRUE]].sums

\* call_site_modes: the entry-relative mode at every direct call of another function.
Sites(p, sums, f) ==
  {<<p[f][n].g, ModeAt(sums, p[f], Entry, n)>> :
     n \in {k \in DOMAIN p[f] : p[f][k].k = "call" /\ p[f][k].g # f}}

\* A caller's turn: its mode at each call is joined into the callee's entry mode.
NotYet == 5
Pushed(p, sums, e, f) ==
  LET all(g) == {Resolve(site[2], e[f]) : site \in {x \in Sites(p, sums, f) : x[1] = g}}
                \cup ({e[g]} \ {NotYet})
      joined == [g \in Functions |->
                   IF all(g) = {} THEN NotYet
                   ELSE IF Cardinality(all(g)) = 1 THEN CHOOSE x \in all(g) : TRUE ELSE Unknown]
  IN IF e[f] = NotYet \/ joined = e THEN e ELSE joined
Called(p, sums) == {s[1] : s \in UNION {Sites(p, sums, f) : f \in Functions}}

\* The entry modes: unknown where nothing calls, joined from the call sites elsewhere, the reset
\* mode where only a cycle leads; 32 rounds, or until one changes nothing.
EntryModes(p, sums) ==
  LET Found == [Functions -> Bits \cup {Unknown, NotYet}]
      Turns[k \in 0..Count] ==
        [e \in Found |-> IF k = 0 THEN e ELSE Turns[k - 1][Pushed(p, sums, e, Count + 1 - k)]]
      Rounds[n \in 0..32] ==
        [e \in Found |-> IF n = 0 \/ Turns[Count][e] = e THEN e ELSE Rounds[n - 1][Turns[Count][e]]]
      joined == Rounds[32][[f \in Functions |-> IF f \in Called(p, sums) THEN NotYet ELSE Unknown]]
  IN [f \in Functions |-> IF joined[f] = NotYet THEN 0 ELSE joined[f]]

-------------------------------------------------------------------------------
VARIABLES
  program, sums, modes,  \* the unit, and what was found out about it
  stack,                 \* calls: [f, n the next item, saved, indirect, was the mode at the call]
  sz,                    \* FPSCR.SZ
  mismatches,            \* mode_mismatches: entered in another mode than compiled for
  changedBy,             \* ghost: an indirect call returned in another mode
  taken

vars == <<program, sums, modes, stack, sz, mismatches, changedBy, taken>>

Top  == stack[Len(stack)]
Body == program[Top.f]

\* Replay::enter checks the bits that were known.
Check(f, now) == IF modes[f] \in Bits /\ modes[f] # now THEN mismatches + 1 ELSE mismatches

Frame(f, indirect) == [f |-> f, n |-> 1, saved |-> sz, indirect |-> indirect]

Init ==
  /\ program \in Programs
  /\ sums = Summaries(program)
  /\ modes = EntryModes(program, sums)
  /\ sz \in Bits
  /\ stack = <<Frame(1, FALSE)>>
  /\ mismatches = (IF modes[1] \in Bits \ {sz} THEN 1 ELSE 0) /\ changedBy = FALSE /\ taken = 0

Tick == taken < MaxSteps /\ taken' = taken + 1
Advance == [stack EXCEPT ![Len(stack)].n = @ + 1]

Execute ==
  /\ Tick /\ stack # << >> /\ Top.n <= Len(Body)
  /\ LET i == Body[Top.n] IN
     \/ /\ i.may \/ i.k = "keep"
        /\ stack' = Advance /\ UNCHANGED <<sz, mismatches>>
     \/ /\ i.k \in {"tog", "set"}
        /\ sz' = IF i.k = "tog" THEN 1 - sz ELSE i.v
        /\ stack' = Advance /\ UNCHANGED mismatches
     \/ /\ i.k \in {"call", "icall"} /\ Len(stack) < Depth
        /\ stack' = Append(Advance, Frame(i.g, i.k = "icall"))
        /\ mismatches' = Check(i.g, sz) /\ UNCHANGED sz
  /\ UNCHANGED <<program, sums, modes, changedBy>>

Return ==
  /\ Tick /\ stack # << >> /\ Top.n > Len(Body)
  /\ sz' = IF Keeps(Body) THEN Top.saved ELSE sz
  /\ changedBy' = (changedBy \/ (Top.indirect /\ sz' # Top.saved))
  /\ stack' = Front(stack)
  /\ UNCHANGED <<program, sums, modes, mismatches>>

Next == Execute \/ Return

-------------------------------------------------------------------------------
\* The summaries are those of the bodies, or were widened: the rounds came to rest.
SummariesSettled ==
  \A f \in Functions : f \in DOMAIN sums /\ sums[f] \in {Summary(sums, program[f]), Unknown}

\* The mode an instruction was lowered for is the one it executes in, or was left to a run-time
\* test, if the summaries came to rest, unless the development check has reported an entry in the wrong mode or a call through
\* a register has come back in another mode, which the emitter takes not to happen
\* (emit.cpp 621-665, 1700-1822, replay.cpp 39-58).
LoweredForItsMode ==
  (stack # << >> /\ SummariesSettled /\ mismatches = 0 /\ ~changedBy) =>
    Resolve(ModeAt(sums, Body, Entry, Top.n), modes[Top.f]) \in {sz, Unknown}
===============================================================================
