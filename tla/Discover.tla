-------------------------------- MODULE Discover --------------------------------
(***************************************************************************)
(* Finding the functions of an image (translator/src/analysis/discover.cpp).  *)
(* Words are numbered 0..Size-1, and a word is                                 *)
(*   op     anything without a branch      bad    no instruction               *)
(*   bf     conditional branch to t        bfs    the same, with a delay slot  *)
(*   bra    branch to t, with a slot       rts    return, with a slot          *)
(*   bsr    call of t, with a slot         ptr    a literal that holds t        *)
(* A call through a register whose value is known counts as bsr, one that is     *)
(* not known as op, and a switch that was recovered is left to SwitchTables.      *)
(***************************************************************************)
EXTENDS Integers, Sequences, FiniteSets, SequencesExt, TLC

CONSTANTS
  Size,    \* words of the image
  Images,  \* images looked at: word number -> [w, t]
  Seeds    \* configured entries, in order

Words == 0..(Size - 1)
In(a) == a \in Words

HasSlot(i)  == i.w \in {"bfs", "bra", "rts", "bsr"}
NextOf(i, pc) == pc + (IF HasSlot(i) THEN 2 ELSE 1)
Conditional == {"bf", "bfs"}

VARIABLES
  image,
  functions,    \* functions_: entry -> [end, origin]
  code, slots,  \* code_ and slots_
  work,         \* work_: [entry, origin]
  phase,        \* "seeds", "pointers", then "run"
  pc, home      \* the guest: its next word, and the function whose body executes it

vars == <<image, functions, code, slots, work, phase, pc, home>>

Entries == DOMAIN functions

-------------------------------------------------------------------------------
\* rank: configured and called entries are certain, pointers guesses, branch targets fragments.
Rank(origin) == CASE origin = "branch" -> 0 [] origin = "pointer" -> 2 [] OTHER -> 3

\* enqueue.
Enqueue(q, known, entry, origin) ==
  IF ~In(entry) \/ entry \in known \/ \E k \in DOMAIN q : q[k].entry = entry THEN q
  ELSE Append(q, [entry |-> entry, origin |-> origin])
RECURSIVE EnqueueAll(_, _, _, _)
EnqueueAll(q, known, entries, origin) ==
  IF entries = << >> THEN q
  ELSE EnqueueAll(Enqueue(q, known, Head(entries), origin), known, Tail(entries), origin)

\* foreign_target: before the entry, or within the extent of a function at least as certain.
Foreign(entry, origin, t) ==
  /\ t # entry
  /\ \/ t < entry
     \/ \E f \in Entries :
          /\ f <= t /\ \A g \in Entries : g <= t => g <= f
          /\ f # entry /\ t < functions[f].end
          /\ Rank(functions[f].origin) >= Rank(origin)

\* analyse_function, its walk: w is [visited, work, starts, hi, calls, tails, slots].
Branch(w, entry, origin, t) ==
  IF ~In(t) THEN w
  ELSE IF Foreign(entry, origin, t) THEN [w EXCEPT !.tails = Append(@, t)]
  ELSE [w EXCEPT !.work = Append(@, t), !.starts = @ \cup {t}]
Call(w, t) == IF In(t) THEN [w EXCEPT !.calls = Append(@, t)] ELSE w
Visit(w, at) ==
  LET i == image[at]  next == NextOf(i, at)
      slot == IF HasSlot(i) THEN {at + 1} ELSE {} IN
  [w EXCEPT !.visited = @ \cup {at} \cup (slot \cap Words), !.slots = @ \cup slot,
            !.hi = IF next > @ THEN next ELSE @]

RECURSIVE WalkFrom(_, _, _, _)
WalkFrom(entry, origin, w, at) ==
  IF ~In(at) \/ at \in w.visited THEN w
  ELSE LET i == image[at]  next == NextOf(i, at) IN
       CASE i.w \in Conditional -> WalkFrom(entry, origin, Branch(Visit(w, at), entry, origin, i.t), next)
         [] i.w = "bra" -> Branch(Visit(w, at), entry, origin, i.t)
         [] i.w = "bsr" -> WalkFrom(entry, origin, Call(Visit(w, at), i.t), next)
         [] i.w \in {"rts", "bad", "ptr"} -> Visit(w, at)
         [] OTHER -> WalkFrom(entry, origin, Visit(w, at), next)

RECURSIVE Walk(_, _, _)
Walk(entry, origin, w) ==
  IF w.work = << >> THEN w
  ELSE Walk(entry, origin,
            WalkFrom(entry, origin, [w EXCEPT !.work = Front(@)], Last(w.work)))

\* Mutant of LeftOut: what the trim leaves outside is forgotten.
LeftOutForgotten(w, end) == << >>

\* The blocks the walk reached that the trim left outside.
LeftOut(w, end) == SetToSortSeq({b \in w.starts : b >= end}, <)

\* The first entry inside, of a function at least as certain, ends the function.
End(entry, origin, w) ==
  LET others == {a \in (w.visited \ w.slots) \cap Entries :
                   a > entry /\ Rank(functions[a].origin) >= Rank(origin)}
      hi == IF others # {} /\ Min(others) < w.hi THEN Min(others) ELSE w.hi IN
  IF hi > entry + 1 THEN hi ELSE entry + 1

-------------------------------------------------------------------------------
Init ==
  /\ image \in Images
  /\ functions = << >> /\ code = {} /\ slots = {}
  /\ work = EnqueueAll(<< >>, {}, Seeds, "seed")
  /\ phase = "seeds" /\ pc = 0 /\ home = 0

\* drain: the newest entry first.
Analyse ==
  /\ phase # "run" /\ work # << >>
  /\ LET entry == Last(work).entry  origin == Last(work).origin IN
     IF entry \in Entries
     THEN work' = Front(work) /\ UNCHANGED <<functions, code, slots>>
     ELSE \E w \in {Walk(entry, origin, [visited |-> {}, work |-> <<entry>>, starts |-> {entry},
                        hi |-> entry, calls |-> << >>, tails |-> << >>, slots |-> {}])} :
          LET end == End(entry, origin, w)  known == Entries \cup {entry} IN
          /\ functions' = (entry :> [end |-> end, origin |-> origin]) @@ functions
          /\ code' = code \cup w.visited /\ slots' = slots \cup w.slots
          /\ work' = EnqueueAll(EnqueueAll(Front(work), known, w.calls, "call"), known,
                                w.tails \o LeftOut(w, end), "branch")
  /\ UNCHANGED <<image, phase, pc, home>>

\* plausible_entry: a run of instructions up to one that ends it, outside all code.
RECURSIVE RunsToAnEnd(_)
RunsToAnEnd(a) == In(a) /\ image[a].w \notin {"bad", "ptr"}
                  /\ (image[a].w \in {"rts", "bra"} \/ RunsToAnEnd(a + 1))
Plausible(a) == In(a) /\ a \notin code \cup slots /\ RunsToAnEnd(a)

\* pointer_pass, over the words that are no code.
PointerPass ==
  /\ phase = "seeds" /\ work = << >>
  /\ LET pointers == SetToSortSeq({a \in Words \ code : image[a].w = "ptr" /\ Plausible(image[a].t)}, <)
     IN work' = EnqueueAll(<< >>, Entries, [k \in DOMAIN pointers |-> image[pointers[k]].t], "pointer")
  /\ phase' = "pointers"
  /\ UNCHANGED <<image, functions, code, slots, pc, home>>

\* All functions are found; the program starts in one of them.
Start ==
  /\ phase = "pointers" /\ work = << >>
  /\ phase' = "run"
  /\ pc' \in Entries /\ home' = pc'
  /\ UNCHANGED <<image, functions, code, slots, work>>

\* Where the emitted body of home hands over: to another part of itself, or to a function.
Inside(a) == home <= a /\ a < functions[home].end
Goes(a) ==
  /\ pc' = a
  /\ home' = IF Inside(a) \/ a \notin Entries THEN home ELSE a

Execute ==
  /\ phase = "run" /\ In(pc) /\ image[pc].w \notin {"bad", "ptr", "rts"}
  /\ LET i == image[pc] IN
     \/ i.w \in Conditional \cup {"bra"} /\ Goes(i.t)
     \/ i.w = "bsr" /\ pc' = i.t /\ home' = IF i.t \in Entries THEN i.t ELSE home
     \/ i.w # "bra" /\ Goes(NextOf(i, pc))
  /\ UNCHANGED <<image, functions, code, slots, work, phase>>

Next == Analyse \/ PointerPass \/ Start \/ Execute

-------------------------------------------------------------------------------
\* A branch into a delay slot: the walk has visited the slot with its branch and does not go on
\* behind it.
IntoSlot == \E a, b \in Words : HasSlot(image[a]) /\ image[b].w # "ptr" /\ image[b].t = a + 1
                               /\ image[b].w \notin {"op", "bad", "rts"}

\* Whatever control reaches from the entries, by branches, calls and running on, is either in
\* the extent of the function that is executing or the entry of another, unless something
\* branches into a delay slot: a body can hand over to translated code wherever it is left
\* (discover.cpp 145-400).
HandsOverToAFunction == (phase = "run" /\ In(pc) /\ ~IntoSlot) => Inside(pc)
===============================================================================
