------------------------------- MODULE Inference -------------------------------
(***************************************************************************)
(* What the translator infers about a program without looking for its blocks: *)
(* the floating-point mode across the functions of a unit, and constants in      *)
(* registers within a block.  A run is about one of the two, or about another     *)
(* part of the translator; they share no state.                                    *)
(***************************************************************************)
EXTENDS Integers, Sequences

CONSTANTS
  Count, Bodies, Depth, MaxSteps,  \* FpModes
  Instructions                     \* ConstProp

VARIABLES
  part,  \* what this run is about
  unit, sums, modes, stack, sz, mismatches, changedBy, taken,
  known, machine, marked, missed, misread, executed

Unit  == INSTANCE FpModes WITH Programs <- Bodies, program <- unit
Block == INSTANCE ConstProp

\* There is a function to enter, and calls are of functions of the unit.
InferenceAssumption ==
  Count \in Nat \ {0} /\ Bodies \subseteq [1..Count -> Seq(Unit!Items)]
ASSUME InferenceAssumption

ofUnit   == <<unit, sums, modes, stack, sz, mismatches, changedBy, taken>>
ofBlock  == <<known, machine, marked, missed, misread, executed>>
inferred == <<part, ofUnit, ofBlock>>

\* What this run is not about has no state.
None == "none"
NoUnit == /\ unit = None /\ sums = None /\ modes = None /\ stack = None
          /\ sz = None /\ mismatches = None /\ changedBy = None /\ taken = None
NoBlock == /\ known = None /\ machine = None /\ marked = None
           /\ missed = None /\ misread = None /\ executed = None

InferenceInit ==
  \/ part = "unit" /\ Unit!Init /\ NoBlock
  \/ part = "block" /\ Block!Init /\ NoUnit
  \/ part \notin {"unit", "block"} /\ NoUnit /\ NoBlock

InferenceNext ==
  \/ part = "unit" /\ Unit!Next /\ UNCHANGED <<part, ofBlock>>
  \/ part = "block" /\ Block!Next /\ UNCHANGED <<part, ofUnit>>

InferenceSpec == InferenceInit /\ [][InferenceNext]_inferred

-------------------------------------------------------------------------------
\* An instruction lowered for a mode executes in it, across calls, as long as the summaries came
\* to rest and no check has reported a wrong entry (emit.cpp 621-810, 1700-1822,
\* replay.cpp 39-58).
LoweredForItsMode == part = "unit" => Unit!LoweredForItsMode

\* A register called constant holds that value, but for the two ways a register changes that are
\* not looked for, and a store through constants is marked where it writes, but for the form
\* whose register is read wrongly (constprop.cpp 12-347, emit.cpp 137-225).
ConstantsHold == part = "block" => Block!ConstantsHold /\ Block!StoresMarked
===============================================================================
