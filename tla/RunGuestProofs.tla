---------------------------- MODULE RunGuestProofs ----------------------------
(***************************************************************************)
(* Outside the three situations the host follows the guest, and the C++     *)
(* stack is never deeper than the guest's, for any functions, any tasks and  *)
(* any depths of calls and exceptions.                                        *)
(***************************************************************************)
EXTENDS RunGuest, FiniteSetTheorems, SequenceTheorems, TLAPS

Place == Labels \cup {Stop}
Frame == [kind : {"call", "exc"}, at : Place, spc : Labels \cup {None}]
Act   == [kind : {"start", "run", "call", "irq"}, resumed : BOOLEAN, pr : Place \cup {None},
          back : Place, spc : Labels \cup {None}, sp : (Tasks \X Nat) \cup {None}]

\* The C++ stack and the guest stacks as sequences of records.
Typed ==
  /\ cur \in Tasks /\ gpc \in Place /\ hpc \in Place /\ poll \in Labels \cup {None}
  /\ stack \in [Tasks -> Seq(Frame)]
  /\ saved \in [Tasks -> [at : Place, spc : Place]]
  /\ host \in Seq(Act)

Together ==
  /\ hpc = gpc
  /\ gpc # Stop => host # <<>>
  /\ poll # None => gpc # Stop

\* The handler runs exactly on top of an exception: here, where a task was saved, and where
\* each call and exception returns to.  A task that is not running resumes where it stopped.
InHandler(pc) == Fn(pc) = Handler
OnException(s, n) == n \in 1..Len(s) /\ s[n].kind = "exc"

HandlersOnExceptions ==
  /\ InHandler(gpc) <=> OnException(stack[cur], Len(stack[cur]))
  /\ \A t \in Tasks : t # cur =>
       /\ InHandler(saved[t].at) <=> OnException(stack[t], Len(stack[t]))
       /\ saved[t].spc = saved[t].at
  /\ \A t \in Tasks : \A n \in 1..Len(stack[t]) :
       /\ InHandler(stack[t][n].at) <=> OnException(stack[t], n - 1)
       /\ stack[t][n].kind = "exc" => stack[t][n].at # Stop /\ stack[t][n].spc \in Labels

\* Where activation n is: at hpc, or at the call of the one above it.
At(n) == IF n = Len(host) THEN hpc ELSE host[n + 1].back

\* Only run_guest's activation is below others.  A body that was not resumed returns where its
\* rts compares with, and only handlers run in the activations of on_poll.
Activations ==
  \A n \in 1..Len(host) : LET a == host[n] IN
    /\ a.kind \in {"start", "run"} <=> n = 1
    /\ a.kind = "start" => ~a.resumed /\ a.pr = Stop
    /\ a.kind = "call"  => Fn(At(n)) \in Funcs /\ a.back # Stop /\ (~a.resumed => a.pr = a.back)
    /\ a.kind = "irq"   => InHandler(At(n)) /\ a.back # Stop /\ ~a.resumed /\ a.pr = None

\* An exception frame of the host's is of an exception the guest has still to return from.
FramesExist ==
  \A n \in 1..Len(host) : host[n].kind = "irq" =>
    /\ host[n].sp \in Tasks \X Nat
    /\ LET s == stack[host[n].sp[1]]
           m == host[n].sp[2] + 1 IN
         m \in 1..Len(s) /\ s[m] = [kind |-> "exc", at |-> host[n].back, spc |-> host[n].spc]
FramesDiffer ==
  \A m, n \in 1..Len(host) :
    host[m].kind = "irq" /\ host[n].kind = "irq" /\ host[m].sp = host[n].sp => m = n

\* A body entered at an interior block, and a handler whose RTE names another PC than it returns
\* to, must be left by the C++ return they were entered for: from there up, the host's
\* activations are those of the running task, one for one.
Pinned(n) == \/ host[n].kind = "call" /\ host[n].resumed
             \/ host[n].kind = "irq" /\ host[n].spc # host[n].back
\* Activation n is of entry m of the running task's stack.
IsOf(n, m) ==
  LET s == stack[cur] IN
  /\ m \in 1..Len(s) /\ s[m].at = host[n].back
  /\ host[n].kind = "irq" <=> s[m].kind = "exc"
  /\ host[n].kind = "irq" => host[n].sp = <<cur, m - 1>>
PinnedInStep ==
  \A n \in 1..Len(host) : Pinned(n) =>
    \A k \in n..Len(host) : IsOf(k, k + Len(stack[cur]) - Len(host))

\* Such an exception is the running task's, and the host has it.
OddExceptionsHeld ==
  \A t \in Tasks : \A n \in 1..Len(stack[t]) :
    stack[t][n].kind = "exc" /\ stack[t][n].spc # stack[t][n].at =>
      t = cur /\ \E m \in 1..Len(host) : host[m].kind = "irq" /\ host[m].sp = <<t, n - 1>>

IInv == /\ Typed /\ Together /\ HandlersOnExceptions /\ Activations
        /\ FramesExist /\ FramesDiffer /\ PinnedInStep /\ OddExceptionsHeld

-------------------------------------------------------------------------------
(* Sequences at their end. *)

LEMMA AppendFacts ==
  ASSUME NEW S, NEW s \in Seq(S), NEW e \in S
  PROVE  /\ Append(s, e) \in Seq(S) /\ Append(s, e) # <<>>
         /\ Len(s) \in Nat /\ Len(Append(s, e)) = Len(s) + 1
         /\ DOMAIN s = 1..Len(s) /\ DOMAIN Append(s, e) = 1..Len(s) + 1
         /\ \A n \in DOMAIN s : Append(s, e)[n] = s[n]
         /\ Append(s, e)[Len(s) + 1] = e
  BY AppendProperties, LenProperties

LEMMA DropFacts ==
  ASSUME NEW S, NEW s \in Seq(S), s # <<>>
  PROVE  /\ Len(s) \in Nat \ {0} /\ DOMAIN s = 1..Len(s)
         /\ Last(s) = s[Len(s)] /\ Last(s) \in S
         /\ Drop(s) \in Seq(S) /\ Len(Drop(s)) = Len(s) - 1
         /\ DOMAIN Drop(s) = 1..Len(s) - 1
         /\ \A n \in 1..Len(s) - 1 : Drop(s)[n] = s[n]
<1>1. Len(s) \in Nat \ {0} /\ DOMAIN s = 1..Len(s) /\ \A n \in 1..Len(s) : s[n] \in S
  BY EmptySeq, LenProperties, ElementOfSeq
<1>2. Last(s) = s[Len(s)] /\ Last(s) \in S
  BY <1>1 DEF Last
<1>3. /\ Drop(s) \in Seq(S) /\ Len(Drop(s)) = Len(s) - 1
      /\ \A n \in 1..Len(s) - 1 : Drop(s)[n] = s[n]
  BY <1>1, SubSeqProperties DEF Drop
<1>4. DOMAIN Drop(s) = 1..Len(s) - 1
  BY <1>3, LenProperties
<1>5. QED
  BY <1>1, <1>2, <1>3, <1>4

LEMMA LabelFacts ==
         /\ \A f \in Code : /\ Entry(f) \in Labels /\ Loop(f) \in Labels /\ Ret(f) \in Labels
                            /\ Fn(Entry(f)) = f /\ Fn(Loop(f)) = f /\ Fn(Ret(f)) = f
         /\ \A l \in Labels : Fn(l) \in Code /\ l # Stop /\ l # None
         /\ None # Stop /\ Fn(Stop) # Handler /\ Fn(Stop) \notin Funcs
         /\ Funcs \subseteq Code /\ Handler \in Code /\ Handler \notin Funcs
         /\ Code \ Funcs = {Handler}
<1>1. /\ Funcs \subseteq Code /\ Handler \in Code /\ Handler \notin Funcs
      /\ Code \ Funcs = {Handler} /\ "launcher" \notin Code
  BY RunGuestAssumption DEF Code, Handler
<1>2. /\ None # Stop /\ Fn(Stop) # Handler /\ Fn(Stop) \notin Funcs
  BY RunGuestAssumption DEF Fn, Stop, None, Handler
<1>3. \A f \in Code : /\ Entry(f) \in Labels /\ Loop(f) \in Labels /\ Ret(f) \in Labels
                      /\ Fn(Entry(f)) = f /\ Fn(Loop(f)) = f /\ Fn(Ret(f)) = f
  BY DEF Entry, Loop, Ret, Labels, Fn
<1>4. ASSUME NEW l \in Labels PROVE Fn(l) \in Code /\ l # Stop /\ l # None
  <2>1. PICK f \in Code : l = Entry(f) \/ l = Loop(f) \/ l = Ret(f)
    BY DEF Labels
  <2>2. Fn(l) \in Code /\ Fn(Stop) \notin Code
    BY <1>1, <1>3, <2>1 DEF Fn, Stop
  <2>3. l # None
    BY <2>1 DEF Entry, Loop, Ret, None
  <2>4. QED
    BY <2>2, <2>3
<1>5. QED
  BY <1>1, <1>2, <1>3, <1>4

-------------------------------------------------------------------------------
LEMMA InitInv == ASSUME Init PROVE IInv
<1>1. PICK f \in [Tasks -> Funcs] :
        /\ cur = Main
        /\ gpc = Entry(f[Main]) /\ hpc = gpc /\ poll = gpc
        /\ stack = [t \in Tasks |->
                      IF t = Main THEN <<[kind |-> "call", at |-> Stop, spc |-> None]>> ELSE <<>>]
        /\ saved = [t \in Tasks |-> [at |-> Entry(f[t]), spc |-> Entry(f[t])]]
        /\ host = <<Activation("start", FALSE, Stop, Stop)>>
  BY DEF Init
<1>2. \A t \in Tasks : /\ Entry(f[t]) \in Labels /\ Fn(Entry(f[t])) = f[t]
                       /\ f[t] \in Funcs /\ f[t] # Handler
  BY LabelFacts
<1> USE <1>1, <1>2, LabelFacts
<1>s. /\ stack[Main] = <<[kind |-> "call", at |-> Stop, spc |-> None]>>
      /\ \A t \in Tasks : t # Main => stack[t] = <<>>
      /\ Main \in Tasks
  BY RunGuestAssumption
<1>3. Typed
  <2>1. /\ [kind |-> "call", at |-> Stop, spc |-> None] \in Frame
        /\ Activation("start", FALSE, Stop, Stop) \in Act
    BY DEF Place, Frame, Act, Activation
  <2>2. stack \in [Tasks -> Seq(Frame)] /\ host \in Seq(Act)
    <3>1. \A t \in Tasks : stack[t] \in Seq(Frame)
      BY <2>1, <1>s
    <3>2. host \in Seq(Act)
      <4>1. <<Activation("start", FALSE, Stop, Stop)>> \in Seq(Act)
        <5>1. \A a \in Act : <<a>> \in Seq(Act)
          OBVIOUS
        <5>2. QED
          BY <5>1, <2>1
      <4>2. QED
        BY ONLY <4>1, <1>1
    <3>3. QED
      BY <3>1, <3>2
  <2>3. saved \in [Tasks -> [at : Place, spc : Place]]
    BY DEF Place
  <2>4. QED
    BY <1>s, <2>2, <2>3 DEF Typed, Place
<1>4. Together
  <2>1. host # <<>> /\ gpc # Stop
    BY <1>s
  <2>2. QED
    BY <2>1 DEF Together
<1>5. HandlersOnExceptions
  <2>1. ~InHandler(gpc) /\ ~InHandler(Stop) /\ \A t \in Tasks : ~InHandler(saved[t].at)
    BY <1>s DEF InHandler
  <2>2. \A t \in Tasks, n \in Nat : ~OnException(stack[t], n)
    BY <1>s DEF OnException
  <2>3. \A t \in Tasks : Len(stack[t]) \in Nat
    BY <1>s
  <2>4. \A t \in Tasks : \A n \in 1..Len(stack[t]) : n = 1 /\ t = Main
    BY <1>s
  <2>5. QED
    BY <1>s, <2>1, <2>2, <2>3, <2>4 DEF HandlersOnExceptions
<1>6. Activations
  BY DEF Activations, Activation
<1>7. FramesExist /\ FramesDiffer /\ PinnedInStep
  BY DEF FramesExist, FramesDiffer, PinnedInStep, Pinned, Activation
<1>8. OddExceptionsHeld
  BY DEF OddExceptionsHeld
<1>9. QED
  BY <1>3, <1>4, <1>5, <1>6, <1>7, <1>8 DEF IInv

-------------------------------------------------------------------------------
(* The guest's side of a step. *)

\* A call or an exception.
LEMMA GuestPushes ==
  ASSUME Typed, HandlersOnExceptions, NEW fr \in Frame,
         stack' = [stack EXCEPT ![cur] = Append(@, fr)], cur' = cur, saved' = saved,
         Fn(fr.at) = Fn(gpc), fr.kind = "exc" => fr.at # Stop /\ fr.spc \in Labels,
         InHandler(gpc') <=> fr.kind = "exc"
  PROVE  /\ stack' \in [Tasks -> Seq(Frame)]
         /\ HandlersOnExceptions'
<1> DEFINE s == stack[cur]
<1>1. s \in Seq(Frame) /\ stack'[cur] = Append(s, fr) /\ \A t \in Tasks : t # cur => stack'[t] = stack[t]
  BY DEF Typed
<1>2. stack' \in [Tasks -> Seq(Frame)]
  BY <1>1, AppendFacts DEF Typed
<1>3. (InHandler(gpc) <=> OnException(stack[cur], Len(stack[cur])))'
  BY <1>1, AppendFacts DEF OnException
<1>4. ASSUME NEW n \in 1..Len(Append(s, fr))
      PROVE  /\ InHandler(Append(s, fr)[n].at) <=> OnException(Append(s, fr), n - 1)
             /\ Append(s, fr)[n].kind = "exc" =>
                  Append(s, fr)[n].at # Stop /\ Append(s, fr)[n].spc \in Labels
  <2>1. CASE n \in 1..Len(s)
    <3>1. OnException(Append(s, fr), n - 1) <=> OnException(s, n - 1)
      BY <1>1, <2>1, AppendFacts DEF OnException
    <3>2. QED
      BY <1>1, <2>1, <3>1, AppendFacts DEF HandlersOnExceptions, Typed
  <2>2. CASE n = Len(s) + 1
    <3>1. OnException(Append(s, fr), Len(s)) <=> OnException(s, Len(s))
      BY <1>1, AppendFacts DEF OnException
    <3>2. QED
      BY <1>1, <2>2, <3>1, AppendFacts DEF HandlersOnExceptions, InHandler
  <2>3. QED
    BY <1>1, <2>1, <2>2, AppendFacts
<1>5. QED
  BY <1>1, <1>2, <1>3, <1>4 DEF HandlersOnExceptions

\* A return: the running task goes on where the call or the exception on top says.
LEMMA GuestReturns ==
  ASSUME Typed, HandlersOnExceptions, stack[cur] # <<>>,
         stack' = [stack EXCEPT ![cur] = Drop(stack[cur])], cur' = cur, saved' = saved,
         gpc' = Last(stack[cur]).at
  PROVE  /\ stack' \in [Tasks -> Seq(Frame)]
         /\ HandlersOnExceptions'
<1> DEFINE s == stack[cur]
<1>1. s \in Seq(Frame) /\ stack'[cur] = Drop(s) /\ \A t \in Tasks : t # cur => stack'[t] = stack[t]
  BY DEF Typed
<1>h. \A n \in 1..Len(s) :
        /\ InHandler(s[n].at) <=> OnException(s, n - 1)
        /\ s[n].kind = "exc" => s[n].at # Stop /\ s[n].spc \in Labels
  BY DEF HandlersOnExceptions, Typed
<1>f. /\ Len(s) \in Nat \ {0} /\ DOMAIN s = 1..Len(s) /\ Last(s) = s[Len(s)] /\ Last(s) \in Frame
      /\ Drop(s) \in Seq(Frame) /\ Len(Drop(s)) = Len(s) - 1 /\ DOMAIN Drop(s) = 1..Len(s) - 1
      /\ \A n \in 1..Len(s) - 1 : Drop(s)[n] = s[n]
  BY <1>1, DropFacts
<1>2. stack' \in [Tasks -> Seq(Frame)]
  BY <1>1, <1>f DEF Typed
<1>3. \A n \in 0..Len(s) - 1 : OnException(Drop(s), n) <=> OnException(s, n)
  BY <1>1, <1>f DEF OnException
<1>4. (InHandler(gpc) <=> OnException(stack[cur], Len(stack[cur])))'
  <2>1. InHandler(Last(s).at) <=> OnException(s, Len(s) - 1)
    BY <1>h, <1>f
  <2>2. QED
    BY <1>1, <1>3, <2>1, <1>f DEF InHandler
<1>5. ASSUME NEW n \in 1..Len(Drop(s))
      PROVE  /\ InHandler(Drop(s)[n].at) <=> OnException(Drop(s), n - 1)
             /\ Drop(s)[n].kind = "exc" => Drop(s)[n].at # Stop /\ Drop(s)[n].spc \in Labels
  <2>1. n \in 1..Len(s) - 1 /\ n \in 1..Len(s) /\ n - 1 \in 0..Len(s) - 1
    BY <1>f
  <2>2. Drop(s)[n] = s[n] /\ (OnException(Drop(s), n - 1) <=> OnException(s, n - 1))
    BY <2>1, <1>3, <1>f
  <2>3. QED
    BY <2>1, <2>2, <1>h
<1>6. QED
  BY <1>1, <1>2, <1>4, <1>5 DEF HandlersOnExceptions

\* A switch: the running task is saved as it will be when it has returned.
LEMMA GuestSwitches ==
  ASSUME Typed, HandlersOnExceptions, stack[cur] # <<>>, NEW t \in Tasks, t # cur,
         NEW at \in Place, at = Last(stack[cur]).at,
         stack' = [stack EXCEPT ![cur] = Drop(stack[cur])], cur' = t,
         saved' = [saved EXCEPT ![cur] = [at |-> at, spc |-> at]], gpc' = saved[t].at
  PROVE  /\ stack' \in [Tasks -> Seq(Frame)]
         /\ saved' \in [Tasks -> [at : Place, spc : Place]]
         /\ HandlersOnExceptions'
<1> DEFINE s == stack[cur]
<1>1. /\ s \in Seq(Frame) /\ stack'[cur] = Drop(s) /\ \A u \in Tasks : u # cur => stack'[u] = stack[u]
      /\ saved'[cur] = [at |-> at, spc |-> at] /\ \A u \in Tasks : u # cur => saved'[u] = saved[u]
      /\ cur \in Tasks
  BY DEF Typed
<1>h. \A n \in 1..Len(s) :
        /\ InHandler(s[n].at) <=> OnException(s, n - 1)
        /\ s[n].kind = "exc" => s[n].at # Stop /\ s[n].spc \in Labels
  BY DEF HandlersOnExceptions, Typed
<1>f. /\ Len(s) \in Nat \ {0} /\ DOMAIN s = 1..Len(s) /\ Last(s) = s[Len(s)] /\ Last(s) \in Frame
      /\ Drop(s) \in Seq(Frame) /\ Len(Drop(s)) = Len(s) - 1 /\ DOMAIN Drop(s) = 1..Len(s) - 1
      /\ \A n \in 1..Len(s) - 1 : Drop(s)[n] = s[n]
  BY <1>1, DropFacts
<1>2. stack' \in [Tasks -> Seq(Frame)] /\ saved' \in [Tasks -> [at : Place, spc : Place]]
  BY <1>1, <1>f DEF Typed
<1>3. \A n \in 0..Len(s) - 1 : OnException(Drop(s), n) <=> OnException(s, n)
  BY <1>1, <1>f DEF OnException
<1>4. InHandler(at) <=> OnException(Drop(s), Len(Drop(s)))
  <2>1. InHandler(Last(s).at) <=> OnException(s, Len(s) - 1)
    BY <1>h, <1>f
  <2>2. QED
    BY <1>1, <1>3, <2>1, <1>f
<1>5. (InHandler(gpc) <=> OnException(stack[cur], Len(stack[cur])))'
  BY <1>1 DEF HandlersOnExceptions, InHandler
<1>6. ASSUME NEW u \in Tasks, u # t
      PROVE  (InHandler(saved[u].at) <=> OnException(stack[u], Len(stack[u])))'
             /\ saved'[u].spc = saved'[u].at
  <2>1. CASE u = cur
    BY <1>1, <1>4, <2>1 DEF InHandler
  <2>2. CASE u # cur
    BY <1>1, <2>2 DEF HandlersOnExceptions, InHandler
  <2>3. QED
    BY <2>1, <2>2
<1>7. ASSUME NEW n \in 1..Len(Drop(s))
      PROVE  /\ InHandler(Drop(s)[n].at) <=> OnException(Drop(s), n - 1)
             /\ Drop(s)[n].kind = "exc" => Drop(s)[n].at # Stop /\ Drop(s)[n].spc \in Labels
  <2>1. n \in 1..Len(s) - 1 /\ n \in 1..Len(s) /\ n - 1 \in 0..Len(s) - 1
    BY <1>f
  <2>2. Drop(s)[n] = s[n] /\ (OnException(Drop(s), n - 1) <=> OnException(s, n - 1))
    BY <2>1, <1>3, <1>f
  <2>3. QED
    BY <2>1, <2>2, <1>h
<1>8. QED
  BY <1>1, <1>2, <1>5, <1>6, <1>7 DEF HandlersOnExceptions

-------------------------------------------------------------------------------
(* The host's side of a step. *)

HostInv == Activations /\ FramesExist /\ FramesDiffer /\ PinnedInStep /\ OddExceptionsHeld

\* run_guest starts again, with one activation.
LEMMA HostResumes ==
  ASSUME NEW pc \in Place, NEW pr \in Place \cup {None}, ResumeAt(pc, pr), gpc' = pc
  PROVE  /\ host' \in Seq(Act) /\ hpc' \in Place /\ poll' \in Labels \cup {None}
         /\ Together' /\ Activations' /\ FramesExist' /\ FramesDiffer' /\ PinnedInStep'
<1>1. CASE pc = Stop
  <2>1. host' = <<>> /\ hpc' = Stop /\ poll' = None
    BY <1>1 DEF ResumeAt
  <2>2. Together'
    BY <1>1, <2>1 DEF Together
  <2>3. Activations' /\ FramesExist' /\ FramesDiffer' /\ PinnedInStep'
    BY <2>1 DEF Activations, FramesExist, FramesDiffer, PinnedInStep
  <2>4. QED
    BY <1>1, <2>1, <2>2, <2>3
<1>2. CASE pc # Stop
  <2> DEFINE a == Activation("run", pc # Entry(Fn(pc)), pr, Stop)
  <2>1. host' = <<a>> /\ hpc' = pc /\ poll' = Entry(Fn(pc))
    BY <1>2 DEF ResumeAt
  <2>2. a \in Act /\ a.kind = "run"
    BY DEF Act, Activation, Place
  <2>3. pc \in Labels /\ poll' \in Labels
    BY <1>2, <2>1, LabelFacts DEF Place
  <2> HIDE DEF a
  <2>4. host' \in Seq(Act) /\ host' # <<>> /\ Len(host') = 1 /\ host'[1] = a
    <3>1. \A b \in Act : <<b>> \in Seq(Act) /\ <<b>> # <<>> /\ Len(<<b>>) = 1 /\ <<b>>[1] = b
      OBVIOUS
    <3>2. QED
      BY <2>1, <2>2, <3>1
  <2>5. Together'
    BY <1>2, <2>1, <2>4 DEF Together
  <2>6. \A n \in 1..Len(host') : n = 1 /\ host'[n].kind = "run"
    BY <2>2, <2>4
  <2>7. Activations'
    BY <2>6 DEF Activations
  <2>8. FramesExist' /\ FramesDiffer' /\ PinnedInStep'
    BY <2>6 DEF FramesExist, FramesDiffer, PinnedInStep, Pinned
  <2>9. QED
    BY <2>1, <2>3, <2>4, <2>5, <2>7, <2>8
<1>3. QED
  BY <1>1, <1>2

\* A C++ call, for a call or an exception of the guest's.
LEMMA HostPushes ==
  ASSUME Typed, Together, HostInv, NEW fr \in Frame, NEW a \in Act, NEW pc \in Labels,
         stack' = [stack EXCEPT ![cur] = Append(@, fr)], cur' = cur,
         host' = Append(host, a), hpc' = pc, gpc # Stop,
         fr.at = a.back, Fn(a.back) = Fn(gpc), a.back # Stop,
         \/ /\ a.kind = "call" /\ fr.kind = "call" /\ Fn(pc) \in Funcs
            /\ ~a.resumed => a.pr = a.back
         \/ /\ a.kind = "irq" /\ fr = [kind |-> "exc", at |-> a.back, spc |-> a.spc]
            /\ Fn(pc) = Handler /\ ~a.resumed /\ a.pr = None
            /\ a.sp = <<cur, Len(stack[cur])>>
  PROVE  host' \in Seq(Act) /\ host' # <<>> /\ HostInv'
<1> DEFINE s == stack[cur]
<1>1. s \in Seq(Frame) /\ host \in Seq(Act) /\ cur \in Tasks /\ host # <<>> /\ hpc = gpc
  BY DEF Typed, Together
<1>p. PICK h \in Nat, l \in Nat : h = Len(host) /\ l = Len(s)
  BY <1>1, LenProperties
<1>2. /\ host' \in Seq(Act) /\ host' # <<>> /\ h \in Nat \ {0} /\ Len(host') = h + 1
      /\ (\A n \in 1..h : host'[n] = host[n]) /\ host'[h + 1] = a
  <2>1. Len(host) \in Nat \ {0}
    BY <1>1, EmptySeq
  <2>2. QED
    BY <1>1, <1>p, <2>1, AppendFacts
<1>3. /\ l \in Nat /\ Len(stack'[cur]) = l + 1 /\ stack'[cur][l + 1] = fr
      /\ (\A n \in 1..l : stack'[cur][n] = s[n])
      /\ \A t \in Tasks : t # cur => stack'[t] = stack[t]
  BY <1>1, <1>p, AppendFacts DEF Typed
<1>4. \A t \in Tasks : \A n \in 1..Len(stack[t]) :
        n \in 1..Len(stack'[t]) /\ stack'[t][n] = stack[t][n]
  BY <1>3, <1>p
<1>5. Activations'
  <2>1. ASSUME NEW n \in 1..h PROVE At(n)' = At(n) \/ (n = h /\ At(n)' = a.back /\ At(n) = gpc)
    BY <1>1, <1>2, <1>p DEF At
  <2>2. At(h + 1)' = pc
    BY <1>2 DEF At
  <2>3. ASSUME NEW n \in 1..h + 1
        PROVE  LET b == host'[n] IN
               /\ b.kind \in {"start", "run"} <=> n = 1
               /\ b.kind = "start" => ~b.resumed /\ b.pr = Stop
               /\ b.kind = "call"  => Fn(At(n)') \in Funcs /\ b.back # Stop /\ (~b.resumed => b.pr = b.back)
               /\ b.kind = "irq"   => Fn(At(n)') = Handler /\ b.back # Stop /\ ~b.resumed /\ b.pr = None
    <3>1. CASE n = h + 1
      BY <1>2, <2>2, <3>1
    <3>2. CASE n \in 1..h
      <4>1. Fn(At(n)') = Fn(At(n))
        BY <2>1, <3>2
      <4>2. QED
        BY <1>2, <3>2, <4>1, <1>p DEF HostInv, Activations, InHandler
    <3>3. QED
      BY <3>1, <3>2, <1>2
  <2>4. QED
    BY <1>2, <2>3 DEF Activations, InHandler
<1>6. FramesExist'
  <2>1. ASSUME NEW n \in 1..h + 1, host'[n].kind = "irq"
        PROVE  /\ host'[n].sp \in Tasks \X Nat
               /\ LET t == stack'[host'[n].sp[1]]
                      m == host'[n].sp[2] + 1 IN
                    m \in 1..Len(t) /\ t[m] = [kind |-> "exc", at |-> host'[n].back, spc |-> host'[n].spc]
    <3>1. CASE n = h + 1
      <4>1. a.sp = <<cur, l>> /\ fr = [kind |-> "exc", at |-> a.back, spc |-> a.spc]
        BY <1>2, <2>1, <3>1, <1>p
      <4>2. a.sp \in Tasks \X Nat /\ a.sp[1] = cur /\ a.sp[2] = l
        BY <1>1, <1>3, <4>1
      <4>3. QED
        <5>1. host'[n] = a /\ stack'[a.sp[1]] = stack'[cur] /\ a.sp[2] + 1 = l + 1
          BY <1>2, <3>1, <4>2
        <5>2. l + 1 \in 1..Len(stack'[cur]) /\ stack'[cur][l + 1] = fr
          BY <1>3
        <5>3. QED
          BY <4>1, <4>2, <5>1, <5>2
    <3>2. CASE n \in 1..h
      BY <1>2, <1>4, <2>1, <3>2, <1>p DEF HostInv, FramesExist
    <3>3. QED
      BY <3>1, <3>2, <1>2
  <2>2. QED
    BY <1>2, <2>1 DEF FramesExist
<1>7. FramesDiffer'
  <2>1. ASSUME NEW n \in 1..h, host[n].kind = "irq", a.kind = "irq" PROVE host[n].sp # a.sp
    <3>1. host[n].sp \in Tasks \X Nat /\ host[n].sp[2] + 1 \in 1..Len(stack[host[n].sp[1]])
      BY <2>1, <1>p DEF HostInv, FramesExist
    <3>2. a.sp = <<cur, l>>
      BY <2>1, <1>p
    <3>3. QED
      BY <1>3, <3>1, <3>2, <1>p
  <2>2. QED
    BY <1>2, <2>1, <1>p DEF HostInv, FramesDiffer
<1>8. PinnedInStep'
  <2>1. SUFFICES ASSUME NEW n \in 1..h + 1, Pinned(n)', NEW k \in n..h + 1
                 PROVE  IsOf(k, k + l - h)'
    <3>1. Len(host') = h + 1 /\ Len(stack'[cur']) = l + 1
      BY <1>2, <1>3
    <3>2. \A n \in 1..h + 1 : \A k \in n..h + 1 : k + Len(stack'[cur']) - Len(host') = k + l - h
      BY <3>1
    <3>3. QED
      BY <3>1, <3>2 DEF PinnedInStep
  <2>2. CASE k = h + 1
    <3>1. k + l - h = l + 1 /\ l + 1 - 1 = l
      BY <2>2
    <3>2. IsOf(h + 1, l + 1)'
      <4>1. host'[h + 1] = a /\ stack'[cur'][l + 1] = fr /\ l + 1 \in 1..Len(stack'[cur'])
        BY <1>2, <1>3
      <4>2. (a.kind = "irq" <=> fr.kind = "exc") /\ (a.kind = "irq" => a.sp = <<cur', l + 1 - 1>>)
        BY <1>p, <3>1
      <4>3. QED
        BY <4>1, <4>2 DEF IsOf
    <3>3. QED
      BY <2>2, <3>1, <3>2
  <2>3. CASE k \in n..h
    <3>1. n \in 1..h /\ k \in 1..h /\ Pinned(n)
      BY <1>2, <2>1, <2>3 DEF Pinned
    <3>2. IsOf(k, k + l - h)
      BY <2>3, <3>1, <1>p DEF HostInv, PinnedInStep
    <3>3. QED
      BY <1>2, <1>3, <3>1, <3>2, <1>p DEF IsOf
  <2>4. QED
    BY <1>2, <2>1, <2>2, <2>3
<1>9. OddExceptionsHeld'
  <2>1. ASSUME NEW t \in Tasks, NEW n \in 1..Len(stack'[t]),
               stack'[t][n].kind = "exc", stack'[t][n].spc # stack'[t][n].at
        PROVE  t = cur /\ \E m \in 1..h + 1 : host'[m].kind = "irq" /\ host'[m].sp = <<t, n - 1>>
    <3>1. CASE n \in 1..Len(stack[t])
      <4>1. t = cur /\ \E m \in 1..h : host[m].kind = "irq" /\ host[m].sp = <<t, n - 1>>
        BY <1>4, <2>1, <3>1, <1>p DEF HostInv, OddExceptionsHeld
      <4>2. QED
        BY <1>2, <4>1
    <3>2. CASE n \notin 1..Len(stack[t])
      <4>1. t = cur /\ n = l + 1
        BY <1>3, <3>2, <1>p
      <4>2. host'[h + 1].kind = "irq" /\ host'[h + 1].sp = <<t, n - 1>>
        BY <1>2, <1>3, <2>1, <4>1, <1>p
      <4>3. QED
        BY <1>2, <4>1, <4>2
    <3>3. QED
      BY <3>1, <3>2
  <2>2. QED
    <3>1. Len(host') = h + 1 /\ cur' = cur
      BY <1>2
    <3>2. ASSUME NEW t \in Tasks, NEW n \in 1..Len(stack'[t]),
                 stack'[t][n].kind = "exc" /\ stack'[t][n].spc # stack'[t][n].at
          PROVE  t = cur' /\ \E m \in 1..Len(host') : host'[m].kind = "irq" /\ host'[m].sp = <<t, n - 1>>
      BY <2>1, <3>1, <3>2
    <3>3. QED
      BY <3>2 DEF OddExceptionsHeld
<1>10. QED
  BY <1>2, <1>5, <1>6, <1>7, <1>8, <1>9 DEF HostInv

\* The host's activation on top of a pinned one is of the guest's last call or exception.
LEMMA PinnedTop ==
  ASSUME Typed, HostInv, NEW n \in 1..Len(host), Pinned(n)
  PROVE  /\ IsOf(Len(host), Len(stack[cur])) /\ stack[cur] # <<>>
         /\ Last(host).kind \in {"call", "irq"} /\ Last(host).back = PR(stack[cur])
<1>1. host \in Seq(Act) /\ stack[cur] \in Seq(Frame)
  BY DEF Typed
<1>2. PICK h \in Nat, l \in Nat : h = Len(host) /\ l = Len(stack[cur])
  BY <1>1, LenProperties
<1>3. IsOf(h, l)
  <2>1. h \in n..h /\ h + l - h = l
    BY <1>2
  <2>2. IsOf(h, h + l - h)
    BY <1>2, <2>1 DEF HostInv, PinnedInStep
  <2>3. QED
    BY <2>1, <2>2
<1>4. stack[cur] # <<>> /\ stack[cur][l].at = host[h].back
  BY <1>1, <1>2, <1>3, EmptySeq DEF IsOf
<1>5. host[h].kind \in {"call", "irq"}
  <2>1. host[h] \in Act /\ h \in 1..h /\ h # 1
    <3>1. n # 1 /\ h \in 1..h
      BY <1>2 DEF HostInv, Activations, Pinned
    <3>2. QED
      BY <1>1, <1>2, <3>1, ElementOfSeq
  <2>2. host[h].kind \notin {"start", "run"}
    BY <1>2, <2>1 DEF HostInv, Activations
  <2>3. QED
    BY <2>1, <2>2 DEF Act
<1>6. QED
  BY <1>2, <1>3, <1>4, <1>5 DEF Last, PR

\* An exception that resumes elsewhere than its poll said pins the host's activation of it.
LEMMA OddPinned ==
  ASSUME Typed, HostInv, NEW t \in Tasks, NEW n \in 1..Len(stack[t]),
         stack[t][n].kind = "exc", stack[t][n].spc # stack[t][n].at
  PROVE  t = cur /\ \E m \in 1..Len(host) : Pinned(m)
<1>1. t = cur
  BY DEF HostInv, OddExceptionsHeld
<1>2. PICK m \in 1..Len(host) : host[m].kind = "irq" /\ host[m].sp = <<t, n - 1>>
  BY DEF HostInv, OddExceptionsHeld
<1>3. stack[t][n] = [kind |-> "exc", at |-> host[m].back, spc |-> host[m].spc]
  <2>1. n \in Nat /\ n - 1 + 1 = n
    BY DEF Typed
  <2>2. host[m].sp[1] = t /\ host[m].sp[2] + 1 = n
    BY <1>2, <2>1
  <2>3. QED
    BY <1>2, <2>2 DEF HostInv, FramesExist
<1>4. QED
  BY <1>1, <1>2, <1>3 DEF Pinned

\* Only that and a body called at a block inside pin anything.
LEMMA NothingPinned ==
  ASSUME Typed, HostInv,
         \A n \in 1..Len(host) : host[n].kind = "call" => ~host[n].resumed,
         \A n \in Exceptions(stack[cur]) : stack[cur][n].spc = stack[cur][n].at
  PROVE  \A n \in 1..Len(host) : ~Pinned(n)
<1> SUFFICES ASSUME NEW n \in 1..Len(host), Pinned(n) PROVE FALSE
  OBVIOUS
<1>1. host[n].kind = "irq" /\ host[n].spc # host[n].back
  BY DEF Pinned
<1>2. PICK h \in Nat, l \in Nat : h = Len(host) /\ l = Len(stack[cur])
  BY LenProperties DEF Typed
<1>3. IsOf(n, n + l - h)
  BY <1>2 DEF HostInv, PinnedInStep
<1> DEFINE m == n + l - h
<1>4. m \in 1..l /\ stack[cur][m].kind = "exc" /\ host[n].sp = <<cur, m - 1>>
  BY <1>1, <1>2, <1>3 DEF IsOf
<1>5. stack[cur][m].spc = host[n].spc /\ stack[cur][m].at = host[n].back
  <2>1. host[n].sp[1] = cur /\ host[n].sp[2] + 1 = m
    BY <1>2, <1>4
  <2>2. stack[cur][m] = [kind |-> "exc", at |-> host[n].back, spc |-> host[n].spc]
    BY <1>1, <2>1 DEF HostInv, FramesExist
  <2>3. QED
    BY <2>2
<1>6. m \in Exceptions(stack[cur])
  BY <1>2, <1>4 DEF Exceptions
<1>7. QED
  BY <1>1, <1>5, <1>6

\* With no such exception in progress, run_guest may start again.
LEMMA NothingOdd ==
  ASSUME Typed, HostInv, stack[cur] # <<>>,
         \A n \in Exceptions(stack[cur]) : stack[cur][n].spc = stack[cur][n].at,
         stack' = [stack EXCEPT ![cur] = Drop(stack[cur])]
  PROVE  OddExceptionsHeld'
<1>1. stack[cur] \in Seq(Frame) /\ cur \in Tasks
  BY DEF Typed
<1>f. /\ Len(stack[cur]) \in Nat \ {0} /\ Len(Drop(stack[cur])) = Len(stack[cur]) - 1
      /\ \A n \in 1..Len(stack[cur]) - 1 : Drop(stack[cur])[n] = stack[cur][n]
  BY <1>1, DropFacts
<1>2. ASSUME NEW t \in Tasks, NEW n \in 1..Len(stack'[t]),
             stack'[t][n].kind = "exc", stack'[t][n].spc # stack'[t][n].at
      PROVE  FALSE
  <2>1. n \in 1..Len(stack[t]) /\ stack'[t][n] = stack[t][n]
    BY <1>1, <1>f DEF Typed
  <2>2. t = cur
    BY <1>2, <2>1 DEF HostInv, OddExceptionsHeld
  <2>3. n \in Exceptions(stack[cur])
    BY <1>2, <2>1, <2>2 DEF Exceptions
  <2>4. QED
    BY <1>2, <2>1, <2>2, <2>3
<1>3. QED
  BY <1>2 DEF OddExceptionsHeld

\* The other way round.
LEMMA NothingPinnedNothingOdd ==
  ASSUME Typed, HostInv, \A n \in 1..Len(host) : ~Pinned(n)
  PROVE  \A n \in Exceptions(stack[cur]) : stack[cur][n].spc = stack[cur][n].at
BY OddPinned DEF Exceptions, Typed

\* A C++ return, for a return of the guest's.  If another task runs then, nothing is pinned.
LEMMA HostReturns ==
  ASSUME Typed, HostInv, stack[cur] # <<>>, host # <<>>, Last(host).kind \in {"call", "irq"},
         stack' = [stack EXCEPT ![cur] = Drop(stack[cur])],
         host' = Drop(host), hpc' = Last(host).back,
         Last(host).kind = "irq" <=> Last(stack[cur]).kind = "exc",
         Last(host).kind = "irq" => Last(host).sp = <<cur, Len(stack[cur]) - 1>>,
         cur' = cur \/ \A n \in 1..Len(host) : ~Pinned(n)
  PROVE  host' \in Seq(Act) /\ host' # <<>> /\ hpc' \in Place /\ hpc' # Stop /\ HostInv'
<1> DEFINE s == stack[cur]
<1>1. s \in Seq(Frame) /\ host \in Seq(Act) /\ cur \in Tasks
  BY DEF Typed
<1>p. PICK h \in Nat, l \in Nat : h = Len(host) /\ l = Len(s)
  BY <1>1, LenProperties
<1>2. /\ h \in Nat \ {0} /\ Len(host') = h - 1 /\ host' \in Seq(Act)
      /\ Last(host) = host[h] /\ host[h] \in Act
      /\ \A n \in 1..h - 1 : host'[n] = host[n]
  BY <1>1, <1>p, DropFacts
<1>3. /\ l \in Nat \ {0} /\ Len(stack'[cur]) = l - 1 /\ Last(s) = s[l]
      /\ \A n \in 1..l - 1 : stack'[cur][n] = s[n]
      /\ \A t \in Tasks : t # cur => stack'[t] = stack[t]
  <2>1. /\ l \in Nat \ {0} /\ Len(Drop(s)) = l - 1 /\ Last(s) = s[l]
        /\ \A n \in 1..l - 1 : Drop(s)[n] = s[n]
    BY <1>1, <1>p, DropFacts
  <2>2. QED
    BY <1>1, <2>1 DEF Typed
<1>4. h # 1 /\ host' # <<>> /\ host[h].back # Stop
  <2>1. h # 1 /\ host[h].back # Stop
    BY <1>2, <1>p DEF HostInv, Activations
  <2>2. QED
    BY <1>2, <2>1
<1>5. Activations'
  <2>1. ASSUME NEW n \in 1..h - 1 PROVE At(n)' = At(n)
    BY <1>2, <1>p DEF At
  <2>3. ASSUME NEW n \in 1..h - 1
        PROVE  LET b == host'[n] IN
               /\ b.kind \in {"start", "run"} <=> n = 1
               /\ b.kind = "start" => ~b.resumed /\ b.pr = Stop
               /\ b.kind = "call"  => Fn(At(n)') \in Funcs /\ b.back # Stop /\ (~b.resumed => b.pr = b.back)
               /\ b.kind = "irq"   => Fn(At(n)') = Handler /\ b.back # Stop /\ ~b.resumed /\ b.pr = None
    BY <1>2, <2>1, <1>p DEF HostInv, Activations, InHandler
  <2>4. QED
    BY <1>2, <2>3 DEF Activations, InHandler
<1>6. FramesExist'
  <2>1. ASSUME NEW n \in 1..h - 1, host[n].kind = "irq"
        PROVE  /\ host[n].sp \in Tasks \X Nat
               /\ LET t == stack'[host[n].sp[1]]
                      m == host[n].sp[2] + 1 IN
                    m \in 1..Len(t) /\ t[m] = [kind |-> "exc", at |-> host[n].back, spc |-> host[n].spc]
    <3>1. /\ host[n].sp \in Tasks \X Nat
          /\ host[n].sp[2] + 1 \in 1..Len(stack[host[n].sp[1]])
          /\ stack[host[n].sp[1]][host[n].sp[2] + 1]
               = [kind |-> "exc", at |-> host[n].back, spc |-> host[n].spc]
      BY <2>1, <1>p, <1>2 DEF HostInv, FramesExist
    <3>2. PICK t \in Tasks, k \in Nat : host[n].sp = <<t, k>>
      BY <3>1
    <3>3. k + 1 \in 1..Len(stack[t])
          /\ stack[t][k + 1] = [kind |-> "exc", at |-> host[n].back, spc |-> host[n].spc]
      BY <3>1, <3>2
    <3>4. ~(t = cur /\ k + 1 = l)
      <4>1. SUFFICES ASSUME t = cur, k + 1 = l PROVE FALSE
        OBVIOUS
      <4>2. host[h].kind = "irq" /\ host[h].sp = <<cur, l - 1>>
        BY <1>2, <1>3, <3>3, <4>1, <1>p
      <4>3. host[n].sp = host[h].sp
        BY <3>2, <4>1, <4>2
      <4>4. n \in 1..Len(host) /\ h \in 1..Len(host) /\ n # h
        BY <1>2, <1>p
      <4>5. QED
        BY <2>1, <4>2, <4>3, <4>4 DEF HostInv, FramesDiffer
    <3>5. k + 1 \in 1..Len(stack'[t]) /\ stack'[t][k + 1] = stack[t][k + 1]
      BY <1>3, <3>3, <3>4, <1>p
    <3>6. QED
      BY <3>1, <3>2, <3>3, <3>5
  <2>2. QED
    BY <1>2, <2>1 DEF FramesExist
<1>7. FramesDiffer'
  <2>1. \A m, n \in 1..h - 1 :
          m \in 1..Len(host) /\ n \in 1..Len(host) /\ host'[m] = host[m] /\ host'[n] = host[n]
    BY <1>2, <1>p
  <2>2. \A m, n \in 1..h - 1 :
          host'[m].kind = "irq" /\ host'[n].kind = "irq" /\ host'[m].sp = host'[n].sp => m = n
    BY <2>1 DEF HostInv, FramesDiffer
  <2>3. QED
    BY <1>2, <2>2 DEF FramesDiffer
<1>8. PinnedInStep'
  <2>1. CASE \A n \in 1..Len(host) : ~Pinned(n)
    <3>1. \A n \in 1..h - 1 : ~Pinned(n)'
      BY <1>2, <1>p, <2>1 DEF Pinned
    <3>2. QED
      BY <1>2, <3>1 DEF PinnedInStep
  <2>2. CASE cur' = cur
    <3>1. SUFFICES ASSUME NEW n \in 1..h - 1, Pinned(n)', NEW k \in n..h - 1
                   PROVE  IsOf(k, k + l - h)'
      <4>1. Len(host') = h - 1 /\ Len(stack'[cur']) = l - 1
        BY <1>2, <1>3, <2>2
      <4>2. \A n \in 1..h - 1 : \A k \in n..h - 1 : k + Len(stack'[cur']) - Len(host') = k + l - h
        BY <4>1
      <4>3. QED
        BY <4>1, <4>2 DEF PinnedInStep
    <3>2. n \in 1..h /\ k \in n..h /\ k \in 1..h - 1 /\ Pinned(n)
      BY <1>2, <3>1 DEF Pinned
    <3>3. IsOf(k, k + l - h)
      BY <3>2, <1>p DEF HostInv, PinnedInStep
    <3>4. k + l - h \in 1..l - 1
      BY <3>2, <3>3, <1>p DEF IsOf
    <3>5. QED
      BY <1>2, <1>3, <2>2, <3>2, <3>3, <3>4 DEF IsOf
  <2>3. QED
    BY <2>1, <2>2
<1>9. OddExceptionsHeld'
  <2>1. ASSUME NEW t \in Tasks, NEW n \in 1..Len(stack'[t]),
               stack'[t][n].kind = "exc", stack'[t][n].spc # stack'[t][n].at
        PROVE  t = cur' /\ \E m \in 1..Len(host') : host'[m].kind = "irq" /\ host'[m].sp = <<t, n - 1>>
    <3>1. n \in 1..Len(stack[t]) /\ stack'[t][n] = stack[t][n] /\ (t = cur => n \in 1..l - 1)
      BY <1>3, <1>p
    <3>2. t = cur /\ ~(\A m \in 1..Len(host) : ~Pinned(m))
      BY <2>1, <3>1, OddPinned
    <3>3. PICK m \in 1..h : host[m].kind = "irq" /\ host[m].sp = <<t, n - 1>>
      BY <2>1, <3>1, <1>p DEF HostInv, OddExceptionsHeld
    <3>4. m # h
      BY <1>2, <1>3, <3>1, <3>2, <3>3, <1>p
    <3>5. m \in 1..Len(host') /\ host'[m] = host[m]
      BY <1>2, <3>4
    <3>6. QED
      BY <3>2, <3>3, <3>5
  <2>2. QED
    BY <2>1 DEF OddExceptionsHeld
<1>10. hpc' \in Place
  BY <1>2 DEF Act
<1>11. QED
  BY <1>2, <1>4, <1>5, <1>6, <1>7, <1>8, <1>9, <1>10 DEF HostInv

-------------------------------------------------------------------------------
(* The steps. *)

\* The guest code gets itself into none of the three situations.
Avoided == Situations = {}

\* What a running body, and a handler about to return or not, say of the activation on top.
LEMMA RunningFacts ==
  ASSUME IInv, gpc # Stop
  PROVE  /\ host # <<>> /\ host \in Seq(Act) /\ Len(host) \in Nat \ {0}
         /\ Last(host) = host[Len(host)] /\ Last(host) \in Act
         /\ gpc \in Labels /\ hpc = gpc /\ Fn(gpc) \in Code
         /\ Last(host).kind \in {"start", "run"} <=> Len(host) = 1
         /\ Last(host).kind = "start" => ~Last(host).resumed /\ Last(host).pr = Stop
         /\ Last(host).kind = "call" =>
              /\ ~InHandler(gpc)
              /\ Last(host).back # Stop /\ (~Last(host).resumed => Last(host).pr = Last(host).back)
         /\ Last(host).kind = "irq" =>
              InHandler(gpc) /\ Last(host).back # Stop /\ ~Last(host).resumed
<1>1. host # <<>> /\ host \in Seq(Act) /\ hpc = gpc
  BY DEF IInv, Together, Typed
<1>2. gpc \in Labels /\ Fn(gpc) \in Code
  BY LabelFacts DEF IInv, Typed, Place
<1>3. Len(host) \in Nat \ {0} /\ Last(host) = host[Len(host)] /\ Last(host) \in Act
  BY <1>1, DropFacts
<1>4. PICK h \in Nat \ {0} : h = Len(host)
  BY <1>3
<1>5. At(h) = gpc /\ h \in 1..Len(host)
  BY <1>1, <1>4 DEF At
<1>6. /\ host[h].kind \in {"start", "run"} <=> h = 1
      /\ host[h].kind = "start" => ~host[h].resumed /\ host[h].pr = Stop
      /\ host[h].kind = "call"  =>
           Fn(gpc) \in Funcs /\ host[h].back # Stop /\ (~host[h].resumed => host[h].pr = host[h].back)
      /\ host[h].kind = "irq"   => InHandler(gpc) /\ host[h].back # Stop /\ ~host[h].resumed
  BY <1>5 DEF IInv, Activations
<1>7. QED
  BY <1>1, <1>2, <1>3, <1>4, <1>6, LabelFacts DEF InHandler

\* In a call the activation on top is no handler's, in a handler it is no call's.
LEMMA OnTop ==
  ASSUME IInv, gpc # Stop
  PROVE  /\ stack[cur] \in Seq(Frame)
         /\ InCall => Last(host).kind # "irq"
         /\ InException => Last(host).kind # "call"
<1>1. stack[cur] \in Seq(Frame)
  BY DEF IInv, Typed
<1>2. stack[cur] # <<>> => /\ Last(stack[cur]) = stack[cur][Len(stack[cur])]
                           /\ Len(stack[cur]) \in 1..Len(stack[cur])
  <2>1. SUFFICES ASSUME stack[cur] # <<>>
                 PROVE  /\ Last(stack[cur]) = stack[cur][Len(stack[cur])]
                        /\ Len(stack[cur]) \in 1..Len(stack[cur])
    OBVIOUS
  <2>2. Len(stack[cur]) \in Nat \ {0} /\ Last(stack[cur]) = stack[cur][Len(stack[cur])]
    BY <1>1, <2>1, DropFacts
  <2>3. QED
    BY <2>2
<1>3. InHandler(gpc) <=> OnException(stack[cur], Len(stack[cur]))
  BY DEF IInv, HandlersOnExceptions
<1>4. (InCall => ~InHandler(gpc)) /\ (InException => InHandler(gpc))
  BY <1>2, <1>3 DEF InCall, InException, OnException
<1>5. QED
  BY <1>1, <1>4, RunningFacts

\* Neither guest nor host returns from an exception.
LEMMA OddOnSame ==
  ASSUME OddExceptionsHeld, cur' = cur, stack' = stack,
         \A n \in 1..Len(host) : /\ n \in 1..Len(host')
                                 /\ host'[n].kind = host[n].kind /\ host'[n].sp = host[n].sp
  PROVE  OddExceptionsHeld'
<1>1. ASSUME NEW t \in Tasks, NEW n \in 1..Len(stack'[t]),
             stack'[t][n].kind = "exc", stack'[t][n].spc # stack'[t][n].at
      PROVE  t = cur' /\ \E m \in 1..Len(host') : host'[m].kind = "irq" /\ host'[m].sp = <<t, n - 1>>
  <2>1. t = cur /\ \E m \in 1..Len(host) : host[m].kind = "irq" /\ host[m].sp = <<t, n - 1>>
    BY <1>1 DEF OddExceptionsHeld
  <2>2. PICK m \in 1..Len(host) : host[m].kind = "irq" /\ host[m].sp = <<t, n - 1>>
    BY <2>1
  <2>3. m \in 1..Len(host') /\ host'[m].kind = "irq" /\ host'[m].sp = <<t, n - 1>>
    BY <2>2
  <2>4. QED
    BY <2>1, <2>3
<1>2. QED
  BY <1>1 DEF OddExceptionsHeld

LEMMA BackEdgeStep == ASSUME IInv, BackEdge PROVE IInv'
<1>1. gpc # Stop /\ cur' = cur /\ stack' = stack /\ saved' = saved /\ host' = host
  BY DEF BackEdge, Running
<1>2. gpc \in Labels /\ hpc = gpc /\ Fn(gpc) \in Code /\ host # <<>>
  BY <1>1, RunningFacts
<1>3. gpc' \in Labels /\ hpc' = gpc' /\ poll' = gpc' /\ Fn(gpc') = Fn(gpc) /\ gpc' # Stop
  BY <1>2, LabelFacts DEF BackEdge
<1>4. Typed' /\ Together'
  BY <1>1, <1>2, <1>3 DEF IInv, Typed, Together, Place
<1>5. HandlersOnExceptions'
  BY <1>1, <1>3 DEF IInv, HandlersOnExceptions, InHandler
<1>6. Activations'
  <2>1. \A n \in 1..Len(host) : Fn(At(n)') = Fn(At(n))
    BY <1>1, <1>2, <1>3 DEF At
  <2>2. QED
    BY <1>1, <2>1 DEF IInv, Activations, InHandler
<1>7. FramesExist' /\ FramesDiffer' /\ PinnedInStep' /\ OddExceptionsHeld'
  <2>1. FramesExist' /\ FramesDiffer'
    BY <1>1 DEF IInv, FramesExist, FramesDiffer
  <2>2. PinnedInStep'
    BY <1>1 DEF IInv, PinnedInStep, Pinned, IsOf
  <2>3. OddExceptionsHeld'
    BY <1>1, OddOnSame DEF IInv
  <2>4. QED
    BY <2>1, <2>2, <2>3
<1>8. QED
  BY <1>4, <1>5, <1>6, <1>7 DEF IInv

\* A call, to a function's entry or to a block inside it.
LEMMA CallStep ==
  ASSUME IInv, NEW g \in Funcs, NEW resumed \in BOOLEAN, NEW pc \in Labels, Fn(pc) = g, Running,
         stack' = [stack EXCEPT ![cur] =
                     Append(@, [kind |-> "call", at |-> Ret(Fn(gpc)), spc |-> None])],
         gpc' = pc, hpc' = pc, poll' = Entry(g),
         host' = Append(host, Activation("call", resumed, Ret(Fn(hpc)), Ret(Fn(hpc)))),
         UNCHANGED <<cur, saved>>
  PROVE  IInv'
<1> DEFINE fr == [kind |-> "call", at |-> Ret(Fn(gpc)), spc |-> None]
           a  == Activation("call", resumed, Ret(Fn(hpc)), Ret(Fn(hpc)))
<1>1. gpc # Stop
  BY DEF Running
<1>2. gpc \in Labels /\ hpc = gpc /\ Fn(gpc) \in Code
  BY <1>1, RunningFacts
<1>3. Ret(Fn(gpc)) \in Labels /\ Fn(Ret(Fn(gpc))) = Fn(gpc) /\ Ret(Fn(gpc)) # Stop
  BY <1>2, LabelFacts
<1>4. fr \in Frame /\ fr.kind = "call" /\ fr.at = Ret(Fn(gpc))
  BY <1>3 DEF Frame, Place
<1>5. /\ a \in Act /\ a.kind = "call" /\ a.back = Ret(Fn(gpc)) /\ a.pr = a.back
  BY <1>2, <1>3 DEF Act, Place, Activation
<1>6. /\ stack' = [stack EXCEPT ![cur] = Append(@, fr)] /\ host' = Append(host, a)
      /\ cur' = cur /\ saved' = saved
  OBVIOUS
<1>7. pc # Stop /\ ~InHandler(pc) /\ Entry(g) \in Labels
  BY LabelFacts DEF InHandler
<1> HIDE DEF fr, a
<1>8. stack' \in [Tasks -> Seq(Frame)] /\ HandlersOnExceptions'
  <2>1. InHandler(gpc') <=> fr.kind = "exc"
    BY <1>4, <1>7 DEF InHandler
  <2>2. Fn(fr.at) = Fn(gpc) /\ (fr.kind = "exc" => fr.at # Stop /\ fr.spc \in Labels)
    BY <1>3, <1>4
  <2>3. QED
    BY <1>4, <1>6, <2>1, <2>2, GuestPushes DEF IInv
<1>9. host' \in Seq(Act) /\ host' # <<>> /\ HostInv'
  <2>1. fr.at = a.back /\ Fn(a.back) = Fn(gpc) /\ a.back # Stop
    BY <1>3, <1>4, <1>5
  <2>2. a.kind = "call" /\ fr.kind = "call" /\ Fn(pc) \in Funcs /\ (~a.resumed => a.pr = a.back)
    BY <1>4, <1>5
  <2>3. QED
    BY <1>1, <1>4, <1>5, <1>6, <2>1, <2>2, HostPushes DEF IInv, HostInv
<1>10. Typed' /\ Together'
  BY <1>6, <1>7, <1>8, <1>9 DEF IInv, Typed, Together, Place
<1>11. QED
  BY <1>8, <1>9, <1>10 DEF IInv, HostInv

LEMMA InterruptStep == ASSUME IInv, Interrupt PROVE IInv'
<1> DEFINE fr == [kind |-> "exc", at |-> gpc, spc |-> poll]
           a  == [Activation("irq", FALSE, None, hpc) EXCEPT !.spc = poll, !.sp = SP(cur, stack[cur])]
<1>1. gpc # Stop /\ poll \in Labels /\ cur \in Tasks /\ stack[cur] \in Seq(Frame)
  BY DEF Interrupt, IInv, Together, Typed
<1>2. gpc \in Labels /\ hpc = gpc
  BY <1>1, RunningFacts
<1>3. fr \in Frame /\ fr.kind = "exc" /\ fr.at = gpc /\ fr.spc = poll
  BY <1>1, <1>2 DEF Frame, Place
<1>4. /\ a \in Act /\ a.kind = "irq" /\ a.back = gpc /\ a.pr = None /\ ~a.resumed
      /\ a.spc = poll /\ a.sp = <<cur, Len(stack[cur])>>
  <2>1. Len(stack[cur]) \in Nat
    BY <1>1
  <2>2. SP(cur, stack[cur]) \in Tasks \X Nat
    BY <1>1, <2>1 DEF SP
  <2>3. QED
    BY <1>1, <1>2, <2>2 DEF Act, Place, Activation, SP
<1>5. /\ stack' = [stack EXCEPT ![cur] = Append(@, fr)] /\ host' = Append(host, a)
      /\ cur' = cur /\ saved' = saved
      /\ gpc' = Entry(Handler) /\ hpc' = Entry(Handler) /\ poll' = Entry(Handler)
  BY DEF Interrupt
<1>6. Entry(Handler) \in Labels /\ Fn(Entry(Handler)) = Handler /\ Entry(Handler) # Stop
  BY LabelFacts
<1>7. fr = [kind |-> "exc", at |-> a.back, spc |-> a.spc]
  BY <1>4
<1> HIDE DEF fr, a
<1>8. stack' \in [Tasks -> Seq(Frame)] /\ HandlersOnExceptions'
  <2>1. InHandler(gpc') <=> fr.kind = "exc"
    BY <1>3, <1>5, <1>6 DEF InHandler
  <2>2. Fn(fr.at) = Fn(gpc) /\ (fr.kind = "exc" => fr.at # Stop /\ fr.spc \in Labels)
    BY <1>1, <1>3
  <2>3. QED
    BY <1>3, <1>5, <2>1, <2>2, GuestPushes DEF IInv
<1>9. host' \in Seq(Act) /\ host' # <<>> /\ HostInv'
  <2>1. fr.at = a.back /\ Fn(a.back) = Fn(gpc) /\ a.back # Stop
    BY <1>1, <1>3, <1>4
  <2>2. QED
    BY <1>1, <1>3, <1>4, <1>5, <1>6, <1>7, <2>1, HostPushes DEF IInv, HostInv
<1>10. Typed' /\ Together'
  BY <1>5, <1>6, <1>8, <1>9 DEF IInv, Typed, Together, Place
<1>11. QED
  BY <1>8, <1>9, <1>10 DEF IInv, HostInv

\* A jump to another function keeps the activation, and what a pinned one below is called for.
LEMMA TailCallStep == ASSUME Avoided, IInv, NEW g \in Funcs, TailCall(g) PROVE IInv'
<1>1. gpc # Stop /\ InCall /\ MayTailCall /\ cur' = cur /\ stack' = stack /\ saved' = saved
  BY DEF TailCall, Running
<1>2. PICK h \in Nat \ {0} : h = Len(host)
  BY <1>1, RunningFacts
<1> DEFINE b == [host[h] EXCEPT !.resumed = FALSE, !.pr = PR(stack[cur])]
<1>3. /\ host' = [host EXCEPT ![h] = b] /\ gpc' = Entry(g) /\ hpc' = Entry(g) /\ poll' = Entry(g)
      /\ Entry(g) \in Labels /\ Fn(Entry(g)) = g /\ g # Handler /\ Entry(g) # Stop
  BY <1>2, LabelFacts DEF TailCall
<1>4. /\ host \in Seq(Act) /\ host[h] \in Act /\ Last(host) = host[h] /\ h \in 1..Len(host)
      /\ host[h].kind # "irq" /\ (host[h].kind \in {"start", "run"} <=> h = 1)
      /\ host[h].kind = "start" => ~host[h].resumed /\ host[h].pr = Stop
      /\ host[h].kind = "call" =>
           host[h].back # Stop /\ (~host[h].resumed => host[h].pr = host[h].back)
  BY <1>1, <1>2, RunningFacts, OnTop
<1>5. PR(stack[cur]) \in Place /\ stack[cur] \in Seq(Frame) /\ stack[cur] # <<>>
  <2>1. stack[cur] # <<>> /\ stack[cur] \in Seq(Frame)
    BY <1>1, OnTop DEF InCall
  <2>2. Last(stack[cur]) \in Frame
    BY <2>1, DropFacts
  <2>3. QED
    BY <2>1, <2>2 DEF PR, Frame
<1>6. /\ b \in Act /\ b.kind = host[h].kind /\ b.back = host[h].back /\ b.sp = host[h].sp
      /\ b.spc = host[h].spc /\ ~b.resumed /\ b.pr = PR(stack[cur])
  BY <1>4, <1>5 DEF Act
<1> HIDE DEF b
<1>7. /\ host' \in Seq(Act) /\ Len(host') = h /\ host'[h] = b
      /\ \A n \in 1..h : n # h => host'[n] = host[n]
  BY <1>2, <1>3, <1>4, <1>6
<1>8. /\ host[h].kind = "start" => b.pr = Stop
      /\ host[h].kind = "call" => b.pr = b.back
  <2>1. CASE host[h].resumed
    <3>1. host[h].kind = "call" => host[h].back = PR(stack[cur])
      <4>1. SUFFICES ASSUME host[h].kind = "call" PROVE host[h].back = PR(stack[cur])
        OBVIOUS
      <4>2. Pinned(h)
        BY <2>1, <4>1 DEF Pinned
      <4>3. QED
        BY <1>4, <4>2, PinnedTop DEF IInv, HostInv
    <3>2. QED
      BY <1>4, <1>6, <2>1, <3>1
  <2>2. CASE ~host[h].resumed
    <3>1. host[h].pr = PR(stack[cur])
      BY <1>1, <1>4, <2>2 DEF MayTailCall, Avoided
    <3>2. QED
      BY <1>4, <1>6, <2>2, <3>1
  <2>3. QED
    BY <2>1, <2>2
<1>9. Typed' /\ Together'
  BY <1>1, <1>2, <1>3, <1>7 DEF IInv, Typed, Together, Place
<1>10. HandlersOnExceptions'
  <2>1. ~InHandler(gpc)
    <3>1. ~OnException(stack[cur], Len(stack[cur]))
      BY <1>1, <1>5, DropFacts DEF InCall, OnException
    <3>2. QED
      BY <3>1 DEF IInv, HandlersOnExceptions
  <2>2. ~InHandler(gpc')
    BY <1>3 DEF InHandler
  <2>3. QED
    BY <1>1, <2>1, <2>2 DEF IInv, HandlersOnExceptions, InHandler
<1>11. Activations'
  <2>1. At(h)' = Entry(g)
    BY <1>3, <1>7 DEF At
  <2>2. ASSUME NEW n \in 1..h
        PROVE  LET c == host'[n] IN
               /\ c.kind \in {"start", "run"} <=> n = 1
               /\ c.kind = "start" => ~c.resumed /\ c.pr = Stop
               /\ c.kind = "call"  => Fn(At(n)') \in Funcs /\ c.back # Stop /\ (~c.resumed => c.pr = c.back)
               /\ c.kind = "irq"   => Fn(At(n)') = Handler /\ c.back # Stop /\ ~c.resumed /\ c.pr = None
    <3>1. CASE n = h
      BY <1>3, <1>4, <1>6, <1>7, <1>8, <2>1, <3>1
    <3>2. CASE n # h
      <4>1. At(n)' = At(n)
        <5>1. n + 1 \in 1..h /\ host'[n + 1].back = host[n + 1].back
          BY <1>6, <1>7, <3>2
        <5>2. QED
          BY <1>2, <1>7, <3>2, <5>1 DEF At
      <4>2. QED
        BY <1>2, <1>7, <3>2, <4>1 DEF IInv, Activations, InHandler
    <3>3. QED
      BY <3>1, <3>2
  <2>3. QED
    BY <1>7, <2>2 DEF Activations, InHandler
<1>12. \A n \in 1..Len(host') : /\ n \in 1..Len(host) /\ host'[n].kind = host[n].kind
                                /\ host'[n].back = host[n].back /\ host'[n].sp = host[n].sp
                                /\ host'[n].spc = host[n].spc
                                /\ host'[n].resumed => host[n].resumed
  BY <1>2, <1>6, <1>7
<1>13. FramesExist' /\ FramesDiffer'
  BY <1>1, <1>12 DEF IInv, FramesExist, FramesDiffer
<1>14. PinnedInStep'
  <2>1. \A n \in 1..h : Pinned(n)' => Pinned(n)
    BY <1>7, <1>12 DEF Pinned
  <2>2. \A n \in 1..h : \A k \in n..h : IsOf(k, k + Len(stack[cur]) - h)
                                          => IsOf(k, k + Len(stack[cur]) - h)'
    BY <1>1, <1>7, <1>12 DEF IsOf
  <2>3. QED
    BY <1>1, <1>2, <1>7, <2>1, <2>2 DEF IInv, PinnedInStep
<1>15. OddExceptionsHeld'
  <2>1. \A n \in 1..Len(host) : /\ n \in 1..Len(host')
                                /\ host'[n].kind = host[n].kind /\ host'[n].sp = host[n].sp
    BY <1>2, <1>6, <1>7
  <2>2. QED
    BY <1>1, <2>1, OddOnSame DEF IInv
<1>16. QED
  BY <1>9, <1>10, <1>11, <1>13, <1>14, <1>15 DEF IInv

LEMMA PollQuietStep == ASSUME IInv, PollQuiet PROVE IInv'
<1>1. UNCHANGED <<cur, gpc, stack, saved, host, hpc>> /\ poll' = None
  BY DEF PollQuiet
<1>2. Typed' /\ Together'
  BY <1>1 DEF IInv, Typed, Together
<1>3. HandlersOnExceptions' /\ Activations'
  BY <1>1 DEF IInv, HandlersOnExceptions, Activations, At
<1>4. FramesExist' /\ FramesDiffer'
  BY <1>1 DEF IInv, FramesExist, FramesDiffer
<1>5. PinnedInStep'
  BY <1>1 DEF IInv, PinnedInStep, Pinned, IsOf
<1>6. OddExceptionsHeld'
  BY <1>1, OddOnSame DEF IInv
<1>7. QED
  BY <1>2, <1>3, <1>4, <1>5, <1>6 DEF IInv

\* The two ways the host follows a return: run_guest starts again at the guest's place, or the C++
\* code returns as well.
LEMMA ResumedStep ==
  ASSUME IInv, stack[cur] # <<>>, stack' = [stack EXCEPT ![cur] = Drop(stack[cur])],
         stack' \in [Tasks -> Seq(Frame)], saved' \in [Tasks -> [at : Place, spc : Place]],
         HandlersOnExceptions', cur' \in Tasks, gpc' \in Place,
         NEW pr \in Place \cup {None}, ResumeAt(gpc', pr),
         \A n \in Exceptions(stack[cur]) : stack[cur][n].spc = stack[cur][n].at
  PROVE  IInv'
<1>1. /\ host' \in Seq(Act) /\ hpc' \in Place /\ poll' \in Labels \cup {None}
      /\ Together' /\ Activations' /\ FramesExist' /\ FramesDiffer' /\ PinnedInStep'
  <2>1. PICK pc \in Place : pc = gpc'
    OBVIOUS
  <2>2. ResumeAt(pc, pr)
    BY <2>1 DEF ResumeAt
  <2>3. QED
    BY <2>1, <2>2, HostResumes
<1>2. OddExceptionsHeld'
  BY NothingOdd DEF IInv, HostInv
<1>3. Typed'
  BY <1>1 DEF Typed
<1>4. QED
  BY <1>1, <1>2, <1>3 DEF IInv

LEMMA PoppedStep ==
  ASSUME IInv, stack[cur] # <<>>, stack' = [stack EXCEPT ![cur] = Drop(stack[cur])],
         stack' \in [Tasks -> Seq(Frame)], saved' \in [Tasks -> [at : Place, spc : Place]],
         HandlersOnExceptions', cur' \in Tasks, gpc' \in Place,
         host # <<>>, Last(host).kind \in {"call", "irq"},
         host' = Drop(host), hpc' = Last(host).back, gpc' = Last(host).back,
         Last(host).kind = "irq" <=> Last(stack[cur]).kind = "exc",
         Last(host).kind = "irq" => Last(host).sp = <<cur, Len(stack[cur]) - 1>>,
         cur' = cur \/ \A n \in 1..Len(host) : ~Pinned(n),
         poll' \in Labels \cup {None}
  PROVE  IInv'
<1>1. host' \in Seq(Act) /\ host' # <<>> /\ hpc' \in Place /\ hpc' # Stop /\ HostInv'
  BY HostReturns DEF IInv, HostInv
<1>2. Typed' /\ Together'
  BY <1>1 DEF Typed, Together
<1>3. QED
  BY <1>1, <1>2 DEF IInv, HostInv

\* What every return starts from.
LEMMA ReturnFacts ==
  ASSUME IInv, stack[cur] # <<>>
  PROVE  /\ stack[cur] \in Seq(Frame) /\ cur \in Tasks /\ saved \in [Tasks -> [at : Place, spc : Place]]
         /\ Len(stack[cur]) \in Nat \ {0} /\ Last(stack[cur]) = stack[cur][Len(stack[cur])]
         /\ Last(stack[cur]) \in Frame
         /\ Last(stack[cur]).kind = "exc" =>
              Last(stack[cur]).at # Stop /\ Last(stack[cur]).spc \in Labels
         /\ Len(Drop(stack[cur])) = Len(stack[cur]) - 1
         /\ PR(stack[cur]) = Last(stack[cur]).at
         /\ PR(Drop(stack[cur])) \in Place \cup {None}
<1>1. stack[cur] \in Seq(Frame) /\ cur \in Tasks /\ saved \in [Tasks -> [at : Place, spc : Place]]
  BY DEF IInv, Typed
<1>2. /\ Len(stack[cur]) \in Nat \ {0} /\ Last(stack[cur]) = stack[cur][Len(stack[cur])]
      /\ Last(stack[cur]) \in Frame /\ Drop(stack[cur]) \in Seq(Frame)
      /\ Len(Drop(stack[cur])) = Len(stack[cur]) - 1
  BY <1>1, DropFacts
<1>3. Drop(stack[cur]) # <<>> => Last(Drop(stack[cur])) \in Frame
  BY <1>2, DropFacts
<1>4. PR(Drop(stack[cur])) \in Place \cup {None}
  BY <1>3 DEF PR, Frame
<1>5. Last(stack[cur]).kind = "exc" => Last(stack[cur]).at # Stop /\ Last(stack[cur]).spc \in Labels
  BY <1>1, <1>2 DEF IInv, HandlersOnExceptions
<1>6. QED
  BY <1>1, <1>2, <1>4, <1>5 DEF PR

\* An ordinary return: PR is the return site unless another task entered the body, and then
\* nothing is pinned.
LEMMA RtsStep == ASSUME IInv, Rts PROVE IInv'
<1>1. /\ gpc # Stop /\ InCall /\ cur' = cur /\ saved' = saved
      /\ stack[cur] # <<>> /\ Last(stack[cur]).kind = "call"
      /\ stack' = [stack EXCEPT ![cur] = Drop(stack[cur])] /\ gpc' = Last(stack[cur]).at
      /\ HostRts(gpc', PR(Drop(stack[cur])))
  BY DEF Rts, Running, InCall
<1> DEFINE a == Last(host)
<1>2. /\ host # <<>> /\ a \in Act /\ a.kind # "irq" /\ a = host[Len(host)] /\ Len(host) \in 1..Len(host)
      /\ a.kind = "start" => ~a.resumed /\ a.pr = Stop
      /\ a.kind = "call"  => (~a.resumed => a.pr = a.back)
  BY <1>1, RunningFacts, OnTop
<1>3. stack' \in [Tasks -> Seq(Frame)] /\ HandlersOnExceptions'
  BY <1>1, GuestReturns DEF IInv
<1>4. /\ gpc' \in Place /\ PR(Drop(stack[cur])) \in Place \cup {None} /\ cur' \in Tasks
      /\ saved' \in [Tasks -> [at : Place, spc : Place]] /\ gpc' = PR(stack[cur])
  BY <1>1, ReturnFacts DEF Frame
<1>5. ASSUME a.kind = "call" => ~a.resumed /\ gpc' # a.pr
      PROVE  \A n \in Exceptions(stack[cur]) : stack[cur][n].spc = stack[cur][n].at
  <2>1. ASSUME NEW n \in 1..Len(host), Pinned(n) PROVE FALSE
    <3>1. a.kind \in {"call", "irq"} /\ a.back = PR(stack[cur])
      BY <2>1, PinnedTop DEF IInv, HostInv
    <3>2. QED
      BY <1>2, <1>4, <1>5, <3>1
  <2>2. QED
    BY <2>1, NothingPinnedNothingOdd DEF IInv, HostInv
<1>6. CASE ~a.resumed /\ gpc' # a.pr
  <2>1. ResumeAt(gpc', PR(Drop(stack[cur])))
    BY <1>1, <1>6 DEF HostRts, NonlocalReturn
  <2>2. QED
    BY <1>1, <1>3, <1>4, <1>5, <1>6, <2>1, ResumedStep
<1>7. CASE ~(~a.resumed /\ gpc' # a.pr) /\ a.kind \in {"start", "run"}
  <2>1. ResumeAt(gpc', PR(Drop(stack[cur])))
    BY <1>1, <1>2, <1>7 DEF HostRts, ResumeAt
  <2>2. QED
    BY <1>1, <1>3, <1>4, <1>5, <1>7, <2>1, ResumedStep
<1>8. CASE ~(~a.resumed /\ gpc' # a.pr) /\ a.kind = "call"
  <2>1. host' = Drop(host) /\ hpc' = a.back /\ poll' = None
    BY <1>1, <1>8 DEF HostRts
  <2>2. gpc' = a.back
    <3>1. CASE a.resumed
      <4>1. Pinned(Len(host))
        BY <1>2, <1>8, <3>1 DEF Pinned
      <4>2. a.back = PR(stack[cur])
        BY <1>2, <4>1, PinnedTop DEF IInv, HostInv
      <4>3. QED
        BY <1>4, <4>2
    <3>2. CASE ~a.resumed
      BY <1>2, <1>8, <3>2
    <3>3. QED
      BY <3>1, <3>2
  <2>3. QED
    BY <1>1, <1>2, <1>3, <1>4, <1>8, <2>1, <2>2, PoppedStep
<1>9. QED
  BY <1>2, <1>6, <1>7, <1>8 DEF Act

\* A switch by rts drops the C++ stack, unless PR happens to be the one the body returns to.
LEMMA SwitchByRtsStep == ASSUME Avoided, IInv, NEW t \in Tasks, SwitchByRts(t) PROVE IInv'
<1>1. /\ gpc # Stop /\ InCall /\ t # cur /\ cur' = t
      /\ stack[cur] # <<>> /\ Last(stack[cur]).kind = "call"
      /\ stack' = [stack EXCEPT ![cur] = Drop(stack[cur])] /\ gpc' = saved[t].at
      /\ saved' = [saved EXCEPT ![cur] = [at |-> Last(stack[cur]).at, spc |-> Last(stack[cur]).at]]
      /\ HostRts(saved[t].spc, PR(stack[t]))
  BY DEF SwitchByRts, Running, InCall
<1>2. /\ \A n \in 1..Len(host) : host[n].kind = "call" => ~host[n].resumed
      /\ \A n \in Exceptions(stack[cur]) : stack[cur][n].spc = stack[cur][n].at
  BY DEF Avoided, SwitchByRts, MaySwitchByRts, MaySwitch
<1>3. \A n \in 1..Len(host) : ~Pinned(n)
  BY <1>2, NothingPinned DEF IInv, HostInv
<1> DEFINE a == Last(host)
<1>4. /\ host # <<>> /\ a \in Act /\ a.kind # "irq" /\ a = host[Len(host)] /\ Len(host) \in 1..Len(host)
      /\ a.kind = "start" => ~a.resumed /\ a.pr = Stop
      /\ a.kind = "call"  => (~a.resumed => a.pr = a.back)
  BY <1>1, RunningFacts, OnTop
<1>5. Last(stack[cur]).at \in Place /\ gpc' \in Place /\ saved[t].spc = gpc'
  BY <1>1, ReturnFacts DEF Frame, IInv, HandlersOnExceptions
<1>6. /\ stack' \in [Tasks -> Seq(Frame)] /\ saved' \in [Tasks -> [at : Place, spc : Place]]
      /\ HandlersOnExceptions'
  BY <1>1, <1>5, GuestSwitches DEF IInv
<1>7. PR(stack[t]) \in Place \cup {None}
  <2>1. stack[t] \in Seq(Frame)
    BY DEF IInv, Typed
  <2>2. stack[t] # <<>> => Last(stack[t]) \in Frame
    BY <2>1, DropFacts
  <2>3. QED
    BY <2>2 DEF PR, Frame
<1>8. CASE ~(a.kind = "call" /\ (a.resumed \/ gpc' = a.pr))
  <2>1. ResumeAt(gpc', PR(stack[t]))
    BY <1>1, <1>4, <1>5, <1>8 DEF HostRts, NonlocalReturn, ResumeAt, Act
  <2>2. QED
    BY <1>1, <1>2, <1>5, <1>6, <1>7, <2>1, ResumedStep
<1>9. CASE a.kind = "call" /\ (a.resumed \/ gpc' = a.pr)
  <2>1. ~a.resumed /\ gpc' = a.back
    BY <1>2, <1>4, <1>9
  <2>2. host' = Drop(host) /\ hpc' = a.back /\ poll' = None
    BY <1>1, <1>5, <1>9 DEF HostRts
  <2>3. QED
    BY <1>1, <1>3, <1>4, <1>5, <1>6, <1>9, <2>1, <2>2, PoppedStep
<1>10. QED
  BY <1>8, <1>9

\* An RTE to what the handler interrupted is of the exception frame on top, if the host has it.
LEMMA RteStep == ASSUME IInv, Rte PROVE IInv'
<1>1. /\ gpc # Stop /\ InException /\ cur' = cur /\ saved' = saved
      /\ stack[cur] # <<>> /\ Last(stack[cur]).kind = "exc"
      /\ stack' = [stack EXCEPT ![cur] = Drop(stack[cur])] /\ gpc' = Last(stack[cur]).at
      /\ HostRte(Last(stack[cur]).spc, SP(cur, Drop(stack[cur])), PR(Drop(stack[cur])))
  BY DEF Rte, Running, InException
<1> DEFINE a == Last(host)
           e == Last(stack[cur])
<1>2. PICK h \in Nat \ {0}, l \in Nat \ {0} : h = Len(host) /\ l = Len(stack[cur])
  BY <1>1, RunningFacts, ReturnFacts
<1>3. /\ host # <<>> /\ a \in Act /\ a.kind # "call" /\ a = host[h]
      /\ a.kind \in {"start", "run"} <=> h = 1
  BY <1>1, <1>2, RunningFacts, OnTop
<1>4. /\ stack[cur] \in Seq(Frame) /\ cur \in Tasks /\ e = stack[cur][l] /\ e \in Frame
      /\ e.at # Stop /\ e.spc \in Labels /\ SP(cur, Drop(stack[cur])) = <<cur, l - 1>>
      /\ PR(Drop(stack[cur])) \in Place \cup {None}
      /\ saved' \in [Tasks -> [at : Place, spc : Place]]
  BY <1>1, <1>2, ReturnFacts DEF SP
<1>5. stack' \in [Tasks -> Seq(Frame)] /\ HandlersOnExceptions'
  BY <1>1, GuestReturns DEF IInv
<1>6. gpc' \in Place /\ cur' \in Tasks
  BY <1>1, <1>4 DEF Frame
<1>7. CASE \E n \in DOMAIN host : /\ Innermost(n) /\ host[n].spc = e.spc
                                  /\ host[n].sp = SP(cur, Drop(stack[cur]))
  <2>1. PICK n \in 1..h : /\ Innermost(n) /\ host[n].spc = e.spc /\ host[n].sp = <<cur, l - 1>>
    <3>1. DOMAIN host = 1..h
      BY <1>2 DEF IInv, Typed
    <3>2. QED
      BY <1>4, <1>7, <3>1
  <2>2. n = h
    <3>1. host[n].kind = "irq" /\ \A m \in 1..h : m > n => host[m].kind # "irq"
      BY <1>2, <2>1 DEF Innermost, IInv, Typed
    <3>2. n # 1
      BY <1>2, <3>1 DEF IInv, Activations
    <3>3. h # 1
      BY <3>2
    <3>4. a.kind = "irq"
      BY <1>3, <3>3 DEF Act
    <3>5. QED
      BY <1>3, <3>1, <3>4
  <2>3. a.kind = "irq" /\ a.sp = <<cur, l - 1>>
    BY <1>3, <2>1, <2>2 DEF Innermost
  <2>4. e.at = a.back
    <3>1. a.sp[1] = cur /\ a.sp[2] + 1 = l
      BY <1>2, <2>3
    <3>2. stack[a.sp[1]][a.sp[2] + 1] = [kind |-> "exc", at |-> a.back, spc |-> a.spc]
      BY <1>2, <1>3, <2>1, <2>2, <2>3 DEF IInv, FramesExist
    <3>3. QED
      BY <1>4, <3>1, <3>2
  <2>5. host' = Drop(host) /\ hpc' = a.back /\ poll' = e.spc
    BY <1>1, <1>7, <2>3 DEF HostRte
  <2>6. QED
    BY <1>1, <1>2, <1>3, <1>4, <1>5, <1>6, <2>3, <2>4, <2>5, PoppedStep
<1>8. CASE ~\E n \in DOMAIN host : /\ Innermost(n) /\ host[n].spc = e.spc
                                   /\ host[n].sp = SP(cur, Drop(stack[cur]))
  <2>1. \A n \in 1..Len(host) : ~Pinned(n)
    <3>1. SUFFICES ASSUME NEW n \in 1..Len(host), Pinned(n) PROVE FALSE
      OBVIOUS
    <3>2. IsOf(h, l)
      BY <1>2, <3>1, PinnedTop DEF IInv, HostInv
    <3>3. host[h].kind = "irq" /\ host[h].sp = <<cur, l - 1>>
      BY <1>1, <1>4, <3>2 DEF IsOf
    <3>4. host[h].spc = e.spc
      <4>1. host[h].sp[1] = cur /\ host[h].sp[2] + 1 = l
        BY <1>2, <3>3
      <4>2. stack[host[h].sp[1]][host[h].sp[2] + 1]
              = [kind |-> "exc", at |-> host[h].back, spc |-> host[h].spc]
        BY <1>2, <3>3 DEF IInv, FramesExist
      <4>3. QED
        BY <1>4, <4>1, <4>2
    <3>5. h \in DOMAIN host /\ Innermost(h)
      BY <1>2, <3>3 DEF Innermost, IInv, Typed
    <3>6. QED
      BY <1>4, <1>8, <3>3, <3>4, <3>5
  <2>2. \A n \in Exceptions(stack[cur]) : stack[cur][n].spc = stack[cur][n].at
    BY <2>1, NothingPinnedNothingOdd DEF IInv, HostInv
  <2>3. e.spc = e.at
    BY <1>1, <1>2, <1>4, <2>2 DEF Exceptions
  <2>4. ResumeAt(gpc', PR(Drop(stack[cur])))
    BY <1>1, <1>8, <2>3 DEF HostRte, NonlocalReturn
  <2>5. QED
    BY <1>1, <1>4, <1>5, <1>6, <2>2, <2>4, ResumedStep
<1>9. QED
  BY <1>7, <1>8

\* An RTE to another task has the r15 of no exception frame the host has.
LEMMA RteSwitchStep == ASSUME Avoided, IInv, NEW t \in Tasks, RteSwitch(t) PROVE IInv'
<1>1. /\ gpc # Stop /\ InException /\ t # cur /\ cur' = t
      /\ stack[cur] # <<>> /\ Last(stack[cur]).kind = "exc"
      /\ stack' = [stack EXCEPT ![cur] = Drop(stack[cur])] /\ gpc' = saved[t].at
      /\ saved' = [saved EXCEPT ![cur] = [at |-> Last(stack[cur]).at, spc |-> Last(stack[cur]).spc]]
      /\ HostRte(saved[t].spc, SP(t, stack[t]), PR(stack[t]))
  BY DEF RteSwitch, Running, InException
<1>2. \A n \in Exceptions(stack[cur]) : stack[cur][n].spc = stack[cur][n].at
  BY DEF Avoided, RteSwitch, MaySwitch
<1>3. /\ Last(stack[cur]).at \in Place /\ gpc' \in Place /\ saved[t].spc = gpc'
      /\ Last(stack[cur]).spc = Last(stack[cur]).at
  <2>1. Len(stack[cur]) \in Exceptions(stack[cur])
    BY <1>1, ReturnFacts DEF Exceptions
  <2>2. QED
    BY <1>1, <1>2, <2>1, ReturnFacts DEF Frame, IInv, HandlersOnExceptions
<1>4. /\ stack' \in [Tasks -> Seq(Frame)] /\ saved' \in [Tasks -> [at : Place, spc : Place]]
      /\ HandlersOnExceptions'
  BY <1>1, <1>3, GuestSwitches DEF IInv
<1>5. stack[t] \in Seq(Frame)
  BY DEF IInv, Typed
<1>6. PR(stack[t]) \in Place \cup {None}
  <2>1. stack[t] # <<>> => Last(stack[t]) \in Frame
    BY <1>5, DropFacts
  <2>2. QED
    BY <2>1 DEF PR, Frame
<1>7. ASSUME NEW n \in DOMAIN host, Innermost(n), host[n].sp = SP(t, stack[t]) PROVE FALSE
  <2>1. host[n].kind = "irq" /\ n \in 1..Len(host) /\ host[n].sp = <<t, Len(stack[t])>>
    BY <1>7 DEF Innermost, IInv, Typed, SP
  <2>2. host[n].sp[1] = t /\ host[n].sp[2] = Len(stack[t])
    BY <2>1
  <2>3. Len(stack[t]) + 1 \in 1..Len(stack[t])
    BY <2>1, <2>2 DEF IInv, FramesExist
  <2>4. QED
    BY <1>5, <2>3
<1>8. ResumeAt(gpc', PR(stack[t]))
  BY <1>1, <1>3, <1>7 DEF HostRte, NonlocalReturn
<1>9. QED
  BY <1>1, <1>2, <1>3, <1>4, <1>6, <1>8, ResumedStep

\* No step leads out of the invariant.
LEMMA StepInv == ASSUME Avoided, IInv, [Next]_vars PROVE IInv'
<1>1. CASE UNCHANGED vars
  <2>1. UNCHANGED <<cur, gpc, stack, saved, host, hpc, poll>>
    BY <1>1 DEF vars
  <2>2. Typed' /\ Together' /\ HandlersOnExceptions' /\ Activations'
    BY <2>1 DEF IInv, Typed, Together, HandlersOnExceptions, Activations, At
  <2>3. FramesExist' /\ FramesDiffer'
    BY <2>1 DEF IInv, FramesExist, FramesDiffer
  <2>4. PinnedInStep'
    BY <2>1 DEF IInv, PinnedInStep, Pinned, IsOf
  <2>5. OddExceptionsHeld'
    BY <2>1, OddOnSame DEF IInv
  <2>6. QED
    BY <2>2, <2>3, <2>4, <2>5 DEF IInv
<1>2. CASE BackEdge
  BY <1>2, BackEdgeStep
<1>3. ASSUME NEW g \in Funcs, Call(g) PROVE IInv'
  <2>1. Entry(g) \in Labels /\ Fn(Entry(g)) = g
    BY LabelFacts
  <2>2. QED
    BY <1>3, <2>1, CallStep DEF Call
<1>4. ASSUME NEW g \in Funcs, CallInterior(g) PROVE IInv'
  <2>1. Loop(g) \in Labels /\ Fn(Loop(g)) = g
    BY LabelFacts
  <2>2. QED
    BY <1>4, <2>1, CallStep DEF CallInterior
<1>5. ASSUME NEW g \in Funcs, TailCall(g) PROVE IInv'
  BY <1>5, TailCallStep
<1>6. CASE Rts
  BY <1>6, RtsStep
<1>7. ASSUME NEW t \in Tasks, SwitchByRts(t) \/ RteSwitch(t) PROVE IInv'
  BY <1>7, SwitchByRtsStep, RteSwitchStep
<1>8. CASE PollQuiet
  BY <1>8, PollQuietStep
<1>9. CASE Interrupt
  BY <1>9, InterruptStep
<1>10. CASE Rte
  BY <1>10, RteStep
<1>11. QED
  BY <1>1, <1>2, <1>3, <1>4, <1>5, <1>6, <1>7, <1>8, <1>9, <1>10 DEF Next

\* Everything the invariant says holds of every reachable state: each activation of translated
\* code is where a call or an exception of some task left it (emit.cpp, abi_bare.cpp, system.cpp).
THEOREM Inductive == Avoided /\ Spec => []IInv
<1>1. ASSUME Avoided PROVE IInv /\ [Next]_vars => IInv'
  BY <1>1, StepInv
<1>2. QED
  <2>1. Init => IInv
    BY InitInv
  <2>2. Avoided => (Spec => []IInv)
    <3>1. SUFFICES ASSUME Avoided PROVE Spec => []IInv
      OBVIOUS
    <3>2. IInv /\ [Next]_vars => IInv'
      BY <1>1, <3>1
    <3>3. QED
      BY <2>1, <3>2, PTL DEF Spec
  <2>3. QED
    BY <2>2

\* Every variable has its type; what TypeOK says of the stacks entry by entry is said of them as
\* sequences here.
THEOREM TypeCorrect == Avoided /\ Spec => []TypeOK
<1>1. IInv => TypeOK
  <2>1. SUFFICES ASSUME IInv PROVE TypeOK
    OBVIOUS
  <2>2. /\ cur \in Tasks /\ gpc \in Place /\ hpc \in Place /\ poll \in Labels \cup {None}
        /\ stack \in [Tasks -> Seq(Frame)] /\ host \in Seq(Act)
        /\ saved \in [Tasks -> [at : Place, spc : Place]]
    BY <2>1 DEF IInv, Typed
  <2>3. \A t \in Tasks : \A n \in 1..Len(stack[t]) : stack[t][n] \in Frame
    BY <2>2
  <2>4. \A n \in 1..Len(host) : host[n].kind \in {"start", "run", "call", "irq"}
    <3>1. \A n \in 1..Len(host) : host[n] \in Act
      BY <2>2
    <3>2. QED
      BY <3>1 DEF Act
  <2>5. QED
    BY <2>2, <2>3, <2>4 DEF TypeOK, Place, Frame
<1>2. QED
  BY <1>1, Inductive, PTL

\* The C++ code that runs next is the translation of the code the guest would run next, through
\* any calls, returns, nested interrupts and task switches, unless guest code gets itself into one
\* of the three situations (docs/emitter-design.md 149-178).
THEOREM HostFollows == Avoided /\ Spec => []HostFollowsGuest
<1>1. IInv => HostFollowsGuest
  BY DEF IInv, Together, HostFollowsGuest
<1>2. QED
  BY <1>1, Inductive, PTL

-------------------------------------------------------------------------------
(* The depth of the C++ stack. *)

Depth == IsFiniteSet(GuestFrames) /\ HostStackBounded

LEMMA GuestFramesIs ==
  ASSUME stack \in [Tasks -> Seq(Frame)]
  PROVE  GuestFrames = {x \in Tasks \X Nat : x[2] \in 1..Len(stack[x[1]])}
<1>1. \A t \in Tasks : DOMAIN stack[t] = 1..Len(stack[t]) /\ Len(stack[t]) \in Nat
  <2>1. \A t \in Tasks : stack[t] \in Seq(Frame)
    OBVIOUS
  <2>2. QED
    BY <2>1, LenProperties
<1>2. \A x : x \in GuestFrames <=> \E t \in Tasks : x \in {t} \X DOMAIN stack[t]
  BY DEF GuestFrames
<1>3. \A x : x \in GuestFrames <=> \E t \in Tasks, n \in Nat : x = <<t, n>> /\ n \in 1..Len(stack[t])
  BY <1>1, <1>2
<1>4. QED
  BY <1>3

\* A call or an exception is one more to return from, a return one less.
LEMMA FramesPushed ==
  ASSUME Typed, stack' \in [Tasks -> Seq(Frame)], NEW fr \in Frame,
         stack' = [stack EXCEPT ![cur] = Append(@, fr)], IsFiniteSet(GuestFrames)
  PROVE  IsFiniteSet(GuestFrames') /\ Cardinality(GuestFrames') = Cardinality(GuestFrames) + 1
<1>1. stack \in [Tasks -> Seq(Frame)] /\ cur \in Tasks /\ stack[cur] \in Seq(Frame)
  BY DEF Typed
<1>2. PICK l \in Nat : l = Len(stack[cur])
  BY <1>1, LenProperties
<1>3. /\ Len(stack'[cur]) = l + 1
      /\ \A t \in Tasks : t # cur => stack'[t] = stack[t]
  BY <1>1, <1>2, AppendFacts
<1>4. GuestFrames' = {x \in Tasks \X Nat : x[2] \in 1..Len(stack'[x[1]])}
  BY <1>1, GuestFramesIs DEF GuestFrames
<1>5. GuestFrames = {x \in Tasks \X Nat : x[2] \in 1..Len(stack[x[1]])}
  BY <1>1, GuestFramesIs
<1>6. <<cur, l + 1>> \notin GuestFrames
  BY <1>1, <1>2, <1>5
<1>7. GuestFrames' = GuestFrames \cup {<<cur, l + 1>>}
  <2>1. ASSUME NEW t \in Tasks, NEW n \in Nat
        PROVE  n \in 1..Len(stack'[t]) <=> n \in 1..Len(stack[t]) \/ (t = cur /\ n = l + 1)
    BY <1>2, <1>3
  <2>2. QED
    BY <1>1, <1>4, <1>5, <2>1
<1>8. QED
  BY <1>6, <1>7, FS_AddElement

LEMMA FramesPopped ==
  ASSUME Typed, stack' \in [Tasks -> Seq(Frame)], stack[cur] # <<>>,
         stack' = [stack EXCEPT ![cur] = Drop(stack[cur])], IsFiniteSet(GuestFrames)
  PROVE  /\ IsFiniteSet(GuestFrames') /\ Cardinality(GuestFrames) \in Nat
         /\ Cardinality(GuestFrames') = Cardinality(GuestFrames) - 1
         /\ Cardinality(GuestFrames') \in Nat
<1>1. stack \in [Tasks -> Seq(Frame)] /\ cur \in Tasks /\ stack[cur] \in Seq(Frame)
  BY DEF Typed
<1>2. PICK l \in Nat \ {0} : l = Len(stack[cur])
  BY <1>1, DropFacts
<1>3. /\ Len(stack'[cur]) = l - 1
      /\ \A t \in Tasks : t # cur => stack'[t] = stack[t]
  BY <1>1, <1>2, DropFacts
<1>4. GuestFrames' = {x \in Tasks \X Nat : x[2] \in 1..Len(stack'[x[1]])}
  BY <1>1, GuestFramesIs DEF GuestFrames
<1>5. GuestFrames = {x \in Tasks \X Nat : x[2] \in 1..Len(stack[x[1]])}
  BY <1>1, GuestFramesIs
<1>6. <<cur, l>> \in GuestFrames
  BY <1>1, <1>2, <1>5
<1>7. GuestFrames' = GuestFrames \ {<<cur, l>>}
  <2>1. ASSUME NEW t \in Tasks, NEW n \in Nat
        PROVE  n \in 1..Len(stack'[t]) <=> n \in 1..Len(stack[t]) /\ ~(t = cur /\ n = l)
    BY <1>2, <1>3
  <2>2. QED
    BY <1>1, <1>4, <1>5, <2>1
<1>8. QED
  BY <1>6, <1>7, FS_RemoveElement, FS_CardinalityType

\* What a return does to the C++ stack.
LEMMA HostShrinks ==
  ASSUME host \in Seq(Act), host # <<>>, NEW pc, NEW pr, ResumeAt(pc, pr) \/ host' = Drop(host)
  PROVE  Len(host') <= 1 \/ Len(host') = Len(host) - 1
<1>1. CASE ResumeAt(pc, pr)
  <2>1. CASE pc = Stop
    BY <1>1, <2>1 DEF ResumeAt
  <2>2. CASE pc # Stop
    <3>1. PICK a : a = Activation("run", pc # Entry(Fn(pc)), pr, Stop)
      OBVIOUS
    <3>2. host' = <<a>>
      BY <1>1, <2>2, <3>1 DEF ResumeAt
    <3>3. Len(<<a>>) = 1
      OBVIOUS
    <3>4. QED
      BY <3>2, <3>3
  <2>3. QED
    BY <2>1, <2>2
<1>2. CASE host' = Drop(host)
  BY <1>2, DropFacts
<1>3. QED
  BY <1>1, <1>2

\* A step calls on both sides, returns on both sides, or does neither.
LEMMA DepthStep == ASSUME IInv, IInv', Depth, [Next]_vars PROVE Depth'
<1>1. /\ Typed /\ host \in Seq(Act) /\ Len(host) \in Nat /\ cur \in Tasks
      /\ stack' \in [Tasks -> Seq(Frame)]
  BY DEF IInv, Typed
<1>2. IsFiniteSet(GuestFrames) /\ Cardinality(GuestFrames) \in Nat
      /\ Len(host) <= 1 + Cardinality(GuestFrames)
  BY FS_CardinalityType DEF Depth, HostStackBounded
<1>3. CASE stack' = stack /\ Len(host') = Len(host)
  <2>1. GuestFrames' = GuestFrames
    BY <1>3 DEF GuestFrames
  <2>2. QED
    BY <1>2, <1>3, <2>1 DEF Depth, HostStackBounded
<1>4. ASSUME NEW fr \in Frame, stack' = [stack EXCEPT ![cur] = Append(@, fr)],
             NEW a, host' = Append(host, a)
      PROVE  Depth'
  <2>1. Len(host') = Len(host) + 1
    BY <1>1, <1>4
  <2>2. IsFiniteSet(GuestFrames') /\ Cardinality(GuestFrames') = Cardinality(GuestFrames) + 1
    BY <1>1, <1>2, <1>4, FramesPushed
  <2>3. QED
    BY <1>1, <1>2, <2>1, <2>2 DEF Depth, HostStackBounded
<1>5. ASSUME stack[cur] # <<>>, stack' = [stack EXCEPT ![cur] = Drop(stack[cur])],
             Len(host') <= 1 \/ Len(host') = Len(host) - 1
      PROVE  Depth'
  <2>1. /\ IsFiniteSet(GuestFrames') /\ Cardinality(GuestFrames') \in Nat
        /\ Cardinality(GuestFrames') = Cardinality(GuestFrames) - 1
    BY <1>1, <1>2, <1>5, FramesPopped
  <2>2. Len(host') \in Nat
    BY LenProperties DEF IInv, Typed
  <2>3. QED
    BY <1>1, <1>2, <1>5, <2>1, <2>2 DEF Depth, HostStackBounded
<1>6. Running => host # <<>>
  BY RunningFacts DEF Running
<1>7. CASE UNCHANGED vars \/ BackEdge \/ PollQuiet
  BY <1>3, <1>7 DEF vars, BackEdge, PollQuiet
<1>8. ASSUME NEW g \in Funcs, Call(g) \/ CallInterior(g) PROVE Depth'
  <2>1. [kind |-> "call", at |-> Ret(Fn(gpc)), spc |-> None] \in Frame
    <3>1. Ret(Fn(gpc)) \in Labels
      BY <1>8, RunningFacts, LabelFacts DEF Call, CallInterior, Running
    <3>2. QED
      BY <3>1 DEF Frame, Place
  <2>2. QED
    BY <1>4, <1>8, <2>1 DEF Call, CallInterior
<1>9. ASSUME NEW g \in Funcs, TailCall(g) PROVE Depth'
  <2>1. stack' = stack /\ Len(host') = Len(host)
    <3>1. host' \in Seq(Act) /\ DOMAIN host' = DOMAIN host /\ stack' = stack
      BY <1>9 DEF IInv, Typed, TailCall
    <3>2. QED
      BY <1>1, <3>1, LenProperties
  <2>2. QED
    BY <1>3, <2>1
<1>10. CASE Interrupt
  <2>1. [kind |-> "exc", at |-> gpc, spc |-> poll] \in Frame
    BY <1>10 DEF Interrupt, IInv, Typed, Frame
  <2>2. QED
    BY <1>4, <1>10, <2>1 DEF Interrupt
<1>11. ASSUME NEW pc, NEW pr, HostRts(pc, pr), host # <<>>
       PROVE  Len(host') <= 1 \/ Len(host') = Len(host) - 1
  <2>1. \/ ResumeAt(pc, pr) \/ host' = Drop(host) \/ host' = <<>>
    BY <1>11 DEF HostRts, NonlocalReturn
  <2>2. Len(<<>>) = 0
    OBVIOUS
  <2>3. QED
    BY <1>1, <1>11, <2>1, <2>2, HostShrinks
<1>12. ASSUME NEW pc, NEW sp, NEW pr, HostRte(pc, sp, pr), host # <<>>
       PROVE  Len(host') <= 1 \/ Len(host') = Len(host) - 1
  <2>1. ResumeAt(pc, pr) \/ host' = Drop(host)
    BY <1>12 DEF HostRte, NonlocalReturn
  <2>2. QED
    BY <1>1, <1>12, <2>1, HostShrinks
<1>13. CASE Rts \/ Rte
  BY <1>5, <1>6, <1>11, <1>12, <1>13 DEF Rts, Rte, InCall, InException
<1>14. ASSUME NEW t \in Tasks, SwitchByRts(t) \/ RteSwitch(t) PROVE Depth'
  BY <1>5, <1>6, <1>11, <1>12, <1>14 DEF SwitchByRts, RteSwitch, InCall, InException
<1>15. QED
  BY <1>7, <1>8, <1>9, <1>10, <1>13, <1>14 DEF Next

LEMMA DepthInit == ASSUME Init PROVE Depth
<1>1. /\ cur = Main /\ stack[Main] = <<[kind |-> "call", at |-> Stop, spc |-> None]>>
      /\ \A t \in Tasks : t # Main => stack[t] = <<>>
      /\ host = <<Activation("start", FALSE, Stop, Stop)>>
  BY RunGuestAssumption DEF Init
<1>2. Len(host) = 1
  BY <1>1
<1>3. GuestFrames = {<<Main, 1>>}
  <2>1. Main \in Tasks
    BY RunGuestAssumption
  <2>2. /\ DOMAIN stack[Main] = {1} /\ \A t \in Tasks : t # Main => DOMAIN stack[t] = {}
    BY <1>1
  <2>3. \A x : x \in GuestFrames <=> \E t \in Tasks : x \in {t} \X DOMAIN stack[t]
    BY DEF GuestFrames
  <2>4. \A x : x \in GuestFrames <=> x = <<Main, 1>>
    BY <2>1, <2>2, <2>3
  <2>5. QED
    BY <2>4
<1>4. IsFiniteSet({<<Main, 1>>}) /\ Cardinality({<<Main, 1>>}) = 1
  BY FS_Singleton
<1>5. QED
  BY <1>2, <1>3, <1>4 DEF Depth, HostStackBounded

\* The C++ stack is never deeper than the guest stacks together, however often tasks switch
\* (docs/emitter-design.md 167-178).
THEOREM StackBounded == Avoided /\ Spec => []HostStackBounded
<1>1. Avoided => (Spec => [](IInv /\ Depth))
  <2>1. SUFFICES ASSUME Avoided PROVE Spec => [](IInv /\ Depth)
    OBVIOUS
  <2>2. Init => IInv /\ Depth
    BY InitInv, DepthInit
  <2>3. (IInv /\ Depth) /\ [Next]_vars => (IInv /\ Depth)'
    <3>1. IInv /\ [Next]_vars => IInv'
      BY <2>1, StepInv
    <3>2. QED
      BY <3>1, DepthStep
  <2>4. QED
    BY <2>2, <2>3, PTL DEF Spec
<1>2. IInv /\ Depth => HostStackBounded
  BY DEF Depth
<1>3. QED
  BY <1>1, <1>2, PTL
===============================================================================
