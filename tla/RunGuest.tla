-------------------------------- MODULE RunGuest --------------------------------
(***************************************************************************)
(* Translated code runs as C++ calls, but the guest kernel switches tasks  *)
(* by loading another stack and executing rts or rte.  This module models  *)
(* how the host call stack follows: the resume entries and the rts check   *)
(* the emitter generates (translator/src/emit/emit.cpp), the function      *)
(* dispatch and run_guest (runtime/src/sh4/abi_bare.cpp), and exception    *)
(* entry and RTE (runtime/src/system.cpp).                                 *)
(*                                                                         *)
(* The guest's own state (cur, gpc, stack, saved) moves as the hardware    *)
(* would; the host's (host, hpc) moves as the C++ code does.  The question *)
(* is whether both are always at the same place of the program.            *)
(***************************************************************************)
EXTENDS Naturals, Sequences, FiniteSets

CONSTANTS
  Funcs,               \* translated functions tasks run
  Tasks, Main,         \* guest tasks; Main is the one run_guest starts
  MaxStack,            \* bound: return addresses and exceptions on a guest stack
  MaxExc,              \* bound: exceptions in progress in one task
  Situations           \* the situations below that guest code gets itself into

ASSUME RunGuestAssumption ==
  /\ Main \in Tasks
  /\ {"irq", "launcher"} \cap Funcs = {}
  /\ MaxStack \in Nat /\ MaxExc \in Nat
  /\ Situations \subseteq {"resume poll", "interior call", "tail call"}

\* Each function has an entry, a loop head, and a call with its return site.
Handler == "irq"
Code    == Funcs \cup {Handler}
Fn(l)   == l[1]
Entry(f) == <<f, "entry">>
Loop(f)  == <<f, "loop">>
Ret(f)   == <<f, "ret">>
Stop    == <<"launcher", "ret">>    \* stop_pr: the PR run_guest started with
None    == <<"none", "none">>
Labels  == {Entry(f) : f \in Code} \cup {Loop(f) : f \in Code} \cup {Ret(f) : f \in Code}

VARIABLES
  cur,    \* the task whose registers are in Ctx
  gpc,    \* where the guest is
  stack,  \* per task: calls and exceptions to return from, innermost last
  saved,  \* per task: where it was suspended, and the PC the kernel stored for it
  host,   \* the C++ activations of translated code, innermost last
  hpc,    \* the label the innermost activation is at
  poll    \* the pc a poll that is about to run has recorded, or None

guest == <<cur, gpc, stack, saved>>
vars  == <<cur, gpc, stack, saved, host, hpc, poll>>

Last(s)  == s[Len(s)]
Drop(s) == SubSeq(s, 1, Len(s) - 1)

\* r15 identifies a task's stack and how deep it is.
SP(t, s) == <<t, Len(s)>>

\* PR when the innermost function was entered.
PR(s) == IF s = <<>> THEN None ELSE Last(s).at

Running == poll = None /\ gpc # Stop

-------------------------------------------------------------------------------
(* Host side *)

\* pr is entry_pr, back the C++ return site, spc and sp what enter_exception recorded.
Activation(kind, resumed, pr, back) ==
  [kind |-> kind, resumed |-> resumed, pr |-> pr, back |-> back, spc |-> None, sp |-> None]

\* Mutant of ResumeAt: the target is called on top of the abandoned activations.
ResumeOnTop(pc, pr) ==
  IF pc = Stop
  THEN host' = <<>> /\ hpc' = Stop /\ poll' = None
  ELSE /\ host' = Append(host, Activation("run", pc # Entry(Fn(pc)), pr, Stop))
       /\ hpc' = pc
       /\ poll' = Entry(Fn(pc))

\* resume_at: the function's entry when pc is one, its resume entry otherwise; the
\* body polls first, recording the address of the function's entry.
ResumeAt(pc, pr) ==
  IF pc = Stop
  THEN host' = <<>> /\ hpc' = Stop /\ poll' = None
  ELSE /\ host' = <<Activation("run", pc # Entry(Fn(pc)), pr, Stop)>>
       /\ hpc' = pc
       /\ poll' = Entry(Fn(pc))

\* nonlocal_return(pc): every activation is dropped and run_guest resumes at pc.
NonlocalReturn(pc, pr) == ResumeAt(pc, pr)

\* An rts emitted code has come to, to `target`.  pr is what PR is afterwards for the
\* code at the target.
HostRts(target, pr) ==
  LET a == Last(host) IN
  IF ~a.resumed /\ target # a.pr
  THEN NonlocalReturn(target, pr)
  ELSE CASE a.kind = "start" -> host' = <<>> /\ hpc' = Stop /\ poll' = None
         [] a.kind = "run"   -> ResumeAt(target, pr)    \* run_guest continues at PR
         [] OTHER            -> host' = Drop(host) /\ hpc' = a.back /\ poll' = None

\* The last of frame_pcs and frame_sps is of activation n.
Innermost(n) ==
  host[n].kind = "irq" /\ \A m \in DOMAIN host : m > n => host[m].kind # "irq"

\* Mutant of HostRte: only SPC is compared, not r15.
HostRteBySpc(spc, sp, pr) ==
  IF \E n \in DOMAIN host : Innermost(n) /\ host[n].spc = spc
  THEN /\ host' = Drop(host)
       /\ hpc' = Last(host).back
       /\ poll' = IF Last(host).kind = "irq" THEN spc ELSE None
  ELSE NonlocalReturn(spc, pr)

\* on_rte and the emitted return after it: the code that executed the RTE returns to
\* its C++ caller if SPC and r15 are those of the innermost exception frame; the poll
\* then goes on.  Any other RTE is a non-local return.
HostRte(spc, sp, pr) ==
  IF \E n \in DOMAIN host : Innermost(n) /\ host[n].spc = spc /\ host[n].sp = sp
  THEN /\ host' = Drop(host)
       /\ hpc' = Last(host).back
       /\ poll' = IF Last(host).kind = "irq" THEN spc ELSE None
  ELSE NonlocalReturn(spc, pr)

-------------------------------------------------------------------------------
(* Steps of translated code *)

\* A taken back-edge: the poll records the loop head.
BackEdge ==
  /\ Running
  /\ gpc' = Loop(Fn(gpc))
  /\ hpc' = Loop(Fn(hpc))
  /\ poll' = hpc'
  /\ UNCHANGED <<cur, stack, saved, host>>

\* A call to the entry of g; the entry polls.
Call(g) ==
  /\ Running
  /\ Len(stack[cur]) < MaxStack
  /\ stack' = [stack EXCEPT ![cur] =
                 Append(@, [kind |-> "call", at |-> Ret(Fn(gpc)), spc |-> None])]
  /\ gpc' = Entry(g)
  /\ host' = Append(host, Activation("call", FALSE, Ret(Fn(hpc)), Ret(Fn(hpc))))
  /\ hpc' = Entry(g)
  /\ poll' = Entry(g)
  /\ UNCHANGED <<cur, saved>>

\* call_indirect to a block inside g goes through its resume entry.
CallInterior(g) ==
  /\ Running
  /\ Len(stack[cur]) < MaxStack
  /\ stack' = [stack EXCEPT ![cur] =
                 Append(@, [kind |-> "call", at |-> Ret(Fn(gpc)), spc |-> None])]
  /\ gpc' = Loop(g)
  /\ host' = Append(host, Activation("call", TRUE, Ret(Fn(hpc)), Ret(Fn(hpc))))
  /\ hpc' = Loop(g)
  /\ poll' = Entry(g)
  /\ UNCHANGED <<cur, saved>>

Exceptions(s) == {n \in 1..Len(s) : s[n].kind = "exc"}

\* Three situations in which the host loses the guest, each avoided unless it is in
\* Situations.  "resume poll": a task switch while the running task is in a handler
\* entered at the poll of a resumed body, which recorded another pc than it
\* interrupted.  "interior call": a switch by rts while a block inside a function has
\* been called.  "tail call": a jump to another function from a body that another
\* task entered.
MaySwitch ==
  \/ "resume poll" \in Situations
  \/ \A n \in Exceptions(stack[cur]) : stack[cur][n].spc = stack[cur][n].at
MaySwitchByRts ==
  /\ MaySwitch
  /\ \/ "interior call" \in Situations
     \/ \A n \in 1..Len(host) : host[n].kind = "call" => ~host[n].resumed
MayTailCall ==
  \/ "tail call" \in Situations
  \/ Last(host).resumed
  \/ Last(host).pr = PR(stack[cur])

InCall == stack[cur] # <<>> /\ Last(stack[cur]).kind = "call"

\* A jump to another function, in place of an rts: `call; return;`, so the activation
\* of g stands for both.
TailCall(g) ==
  /\ Running /\ InCall /\ MayTailCall
  /\ gpc' = Entry(g)
  /\ host' = [host EXCEPT ![Len(host)] = [@ EXCEPT !.resumed = FALSE, !.pr = PR(stack[cur])]]
  /\ hpc' = Entry(g)
  /\ poll' = Entry(g)
  /\ UNCHANGED <<cur, stack, saved>>

\* An ordinary return.
Rts ==
  /\ Running /\ InCall
  /\ LET s == stack[cur] IN
       /\ stack' = [stack EXCEPT ![cur] = Drop(s)]
       /\ gpc' = Last(s).at
       /\ HostRts(Last(s).at, PR(Drop(s)))
  /\ UNCHANGED <<cur, saved>>

\* The kernel's setjmp/longjmp pair: the running task is saved as it will be when its
\* call returns, t's registers are loaded, and rts goes to t.
SwitchByRts(t) ==
  /\ Running /\ InCall /\ t # cur /\ MaySwitchByRts
  /\ LET s == stack[cur] IN
       /\ saved' = [saved EXCEPT ![cur] = [at |-> Last(s).at, spc |-> Last(s).at]]
       /\ stack' = [stack EXCEPT ![cur] = Drop(s)]
  /\ cur' = t
  /\ gpc' = saved[t].at
  /\ HostRts(saved[t].spc, PR(stack[t]))

-------------------------------------------------------------------------------
(* Polls, exceptions and RTE *)

\* Nothing is deliverable.
PollQuiet ==
  /\ poll # None
  /\ poll' = None
  /\ UNCHANGED <<cur, gpc, stack, saved, host, hpc>>

\* An interrupt is delivered at the poll: enter_exception pushes a frame with the
\* recorded pc and r15 and calls the handler, which polls at its entry too.
Interrupt ==
  /\ poll # None
  /\ Cardinality(Exceptions(stack[cur])) < MaxExc
  /\ Len(stack[cur]) < MaxStack
  /\ stack' = [stack EXCEPT ![cur] = Append(@, [kind |-> "exc", at |-> gpc, spc |-> poll])]
  /\ gpc' = Entry(Handler)
  /\ host' = Append(host, [Activation("irq", FALSE, None, hpc) EXCEPT
                             !.spc = poll, !.sp = SP(cur, stack[cur])])
  /\ hpc' = Entry(Handler)
  /\ poll' = Entry(Handler)
  /\ UNCHANGED <<cur, saved>>

InException == stack[cur] # <<>> /\ Last(stack[cur]).kind = "exc"

\* The handler resumes what it interrupted.
Rte ==
  /\ Running /\ InException
  /\ LET s == stack[cur] IN
       /\ stack' = [stack EXCEPT ![cur] = Drop(s)]
       /\ gpc' = Last(s).at
       /\ HostRte(Last(s).spc, SP(cur, Drop(s)), PR(Drop(s)))
  /\ UNCHANGED <<cur, saved>>

\* The kernel's scheduler ran in the handler: the RTE resumes another task.
RteSwitch(t) ==
  /\ Running /\ InException /\ t # cur /\ MaySwitch
  /\ LET s == stack[cur] IN
       /\ saved' = [saved EXCEPT ![cur] = [at |-> Last(s).at, spc |-> Last(s).spc]]
       /\ stack' = [stack EXCEPT ![cur] = Drop(s)]
  /\ cur' = t
  /\ gpc' = saved[t].at
  /\ HostRte(saved[t].spc, SP(t, stack[t]), PR(stack[t]))

-------------------------------------------------------------------------------
\* run_guest calls the entry function; the other tasks have been created to start at
\* the entry of a function they never return from.
Init ==
  \E f \in [Tasks -> Funcs] :
    /\ cur = Main
    /\ gpc = Entry(f[Main]) /\ hpc = gpc /\ poll = gpc
    /\ stack = [t \in Tasks |->
                  IF t = Main THEN <<[kind |-> "call", at |-> Stop, spc |-> None]>> ELSE <<>>]
    /\ saved = [t \in Tasks |-> [at |-> Entry(f[t]), spc |-> Entry(f[t])]]
    /\ host = <<Activation("start", FALSE, Stop, Stop)>>

Next ==
  \/ BackEdge
  \/ \E g \in Funcs : Call(g) \/ CallInterior(g) \/ TailCall(g)
  \/ Rts
  \/ \E t \in Tasks : SwitchByRts(t) \/ RteSwitch(t)
  \/ PollQuiet
  \/ Interrupt
  \/ Rte

Spec == Init /\ [][Next]_vars

-------------------------------------------------------------------------------
TypeOK ==
  /\ cur \in Tasks
  /\ gpc \in Labels \cup {Stop} /\ hpc \in Labels \cup {Stop}
  /\ poll \in Labels \cup {None}
  /\ \A t \in Tasks :
       /\ saved[t] \in [at : Labels \cup {Stop}, spc : Labels \cup {Stop}]
       /\ \A n \in 1..Len(stack[t]) :
            stack[t][n] \in [kind : {"call", "exc"}, at : Labels \cup {Stop},
                             spc : Labels \cup {None}]
  /\ \A n \in 1..Len(host) : host[n].kind \in {"start", "run", "call", "irq"}

\* The C++ code that runs next is the translation of the code the guest would run
\* next, through calls, returns, nested interrupts and every kind of task switch
\* (docs/emitter-design.md 149-178).
HostFollowsGuest == hpc = gpc

\* What all tasks have to return from.
GuestFrames == UNION {{t} \X DOMAIN stack[t] : t \in Tasks}

\* The C++ stack is never deeper than the guest stacks together: no task switch, however
\* often tasks switch, leaves C++ frames behind that pile up (docs/emitter-design.md
\* 167-178).
HostStackBounded == Len(host) <= 1 + Cardinality(GuestFrames)
===============================================================================
