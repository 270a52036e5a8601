----------------------------- MODULE TimerChannel -----------------------------
(***************************************************************************)
(* What a TMU channel promises: a counter that goes down once per prescaled *)
(* tick while it runs, and at the end of its count takes the constant again, *)
(* sets the underflow flag and, if enabled, requests its interrupt.         *)
(***************************************************************************)
EXTENDS Naturals

VARIABLES time, on, prescaler, count, constant, flag, enable, irq

channel == <<on, prescaler, count, constant, flag, enable, irq>>

Init ==
  /\ time = 0 /\ on = FALSE /\ count = constant
  /\ flag = FALSE /\ enable = FALSE /\ irq = FALSE

\* One cycle of the CPU clock.
Cycle ==
  /\ time' = time + 1
  /\ IF on /\ time' % prescaler = 0
     THEN /\ count' = IF count = 0 THEN constant ELSE count - 1
          /\ flag' = (flag \/ count = 0)
          /\ irq' = (flag' /\ enable)
     ELSE UNCHANGED <<count, flag, irq>>
  /\ UNCHANGED <<on, prescaler, constant, enable>>

\* A register write: TSTR, TCOR, TCNT, or TCR, which can clear the flag.
Write ==
  /\ \/ on' \in BOOLEAN /\ UNCHANGED <<prescaler, count, constant, flag, enable, irq>>
     \/ constant' \in Nat /\ UNCHANGED <<on, prescaler, count, flag, enable, irq>>
     \/ count' \in Nat /\ UNCHANGED <<on, prescaler, constant, flag, enable, irq>>
     \/ /\ prescaler' \in Nat \ {0} /\ enable' \in BOOLEAN
        /\ flag' \in {flag, FALSE}
        /\ irq' = (flag' /\ enable')
        /\ UNCHANGED <<on, count, constant>>
  /\ time' = time

Next == Cycle \/ Write

Spec == Init /\ [][Next]_<<time, channel>>
===============================================================================
