------------------------------ MODULE MCDispatch ------------------------------
(* Small tables for Dispatch: a program with two functions that share a tail *)
(* and a firmware hook, and overlays that are copied over one address.       *)
EXTENDS Dispatch

Fn(name, a, b, sig) == [name |-> name, address |-> a, end |-> b, signature |-> sig]

Program  == {Fn("main", 0, 3, None), Fn("tail", 2, 3, None), Fn("hook", 5, 0, None)}
Overlays == {Fn("stage1", 3, 5, "code1"), Fn("stage2", 3, 5, "code2")}

MCUnits == {Program, Overlays}

\* The program itself has a translation of the code it starts with at address 3.
MixedUnits == {{Fn("boot", 3, 5, None)}, Overlays}

\* A function inside the extent of another, and both of them hidden.
NestedUnits    == {{Fn("host", 0, 5, None), Fn("branch", 2, 3, None)}}
NestedHideSets == {{}, {<<0, 5>>, <<2, 3>>}}

MCHideSets == {{}, {<<0, 3>>}, {<<2, 3>>, <<3, 5>>}}
===============================================================================
