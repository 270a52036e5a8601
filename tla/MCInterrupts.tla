----------------------------- MODULE MCInterrupts -----------------------------
(* Small instances of Interrupts for TLC. *)
EXTENDS Interrupts

MCRaises == [d \in Devices |-> IF d = "tmu" THEN "Tmu0" ELSE "aica"]

\* Both sources at level 6; the external one alone at level 2, vertical blank off.
MCIml == {[l \in Irls |-> IF l = "Irl9" THEN Sources ELSE {}],
          [l \in Irls |-> IF l = "Irl13" THEN External ELSE {}]}
===============================================================================
