---------------------------------- MODULE Ops ----------------------------------
(***************************************************************************)
(* The helpers that both engines call for the instructions whose lowering    *)
(* is more than a line (runtime/include/dream/runtime/sh4/ops.h), on words   *)
(* of W bits, and the guest's division loops built from them: DIV0U or       *)
(* DIV0S, then W times ROTCL and DIV1.  Carry, borrow and overflow are        *)
(* computed as the code does, from wrapped words, and compared with what the  *)
(* integers say.                                                              *)
(***************************************************************************)
EXTENDS Integers

CONSTANT W  \* bits of a word: 32 in the code, a power of two

\* Powers of two, as far as a double word needs them.
TwoTo[n \in 0..(2 * W)] == IF n = 0 THEN 1 ELSE 2 * TwoTo[n - 1]

Word == 0..(TwoTo[W] - 1)
Wrap(x)   == x % TwoTo[W]
Top(x)    == x \div TwoTo[W - 1]
Signed(x) == IF Top(x) = 1 THEN x - TwoTo[W] ELSE x
Flag(b)   == IF b THEN 1 ELSE 0

\* addc, subc, negc: the carry is seen in the wrapped sums.
Addc(a, b, t) == LET tmp == Wrap(a + b)  res == Wrap(tmp + t) IN
                 [res |-> res, t |-> Flag(tmp < a \/ res < tmp)]

Subc(a, b, t) == LET tmp == Wrap(a - b)  res == Wrap(tmp - t) IN
                 [res |-> res, t |-> Flag(a < tmp \/ tmp < res)]
Negc(a, t)    == LET tmp == Wrap(-a)  res == Wrap(tmp - t) IN
                 [res |-> res, t |-> Flag(0 < tmp \/ tmp < res)]

\* addv, subv: overflow where the operands' signs allow it and the result's differs.
Addv(a, b) == LET res == Wrap(a + b) IN
              [res |-> res, t |-> Flag(Top(a) = Top(b) /\ Top(res) # Top(a))]
Subv(a, b) == LET res == Wrap(a - b) IN
              [res |-> res, t |-> Flag(Top(a) # Top(b) /\ Top(res) # Top(a))]

\* shad, shld: the count's low bits, and the other direction if it is negative.
Shad(v, count) == LET s == count % W IN
  IF Top(count) = 0 THEN Wrap(v * TwoTo[s])
  ELSE IF s = 0 THEN (IF Top(v) = 1 THEN TwoTo[W] - 1 ELSE 0)
  ELSE Wrap(Signed(v) \div TwoTo[W - s])
Shld(v, count) == LET s == count % W IN
  IF Top(count) = 0 THEN Wrap(v * TwoTo[s]) ELSE IF s = 0 THEN 0 ELSE v \div TwoTo[W - s]

Rotcl(v, t) == [res |-> Wrap(v * 2 + t), t |-> Top(v)]
Rotcr(v, t) == [res |-> (v \div 2) + t * TwoTo[W - 1], t |-> v % 2]

\* Mutant of Div1: the quotient bit ignores the bit shifted out.
Div1NoTop(rn, rm, q, m, t) ==
  LET shifted == Wrap(rn * 2 + t)
      res     == Wrap(IF q = m THEN shifted - rm ELSE shifted + rm)
      carry   == Flag(IF q = m THEN res > shifted ELSE res < shifted)
      newQ    == IF m = 0 THEN carry ELSE 1 - carry
  IN [res |-> res, q |-> newQ, t |-> Flag(newQ = m)]

\* div1: one step of the non-restoring division, on Rn, Rm and the bits Q, M, T.
Div1(rn, rm, q, m, t) ==
  LET shifted == Wrap(rn * 2 + t)
      res     == Wrap(IF q = m THEN shifted - rm ELSE shifted + rm)
      carry   == Flag(IF q = m THEN res > shifted ELSE res < shifted)
      flipped == IF Top(rn) = 1 THEN 1 - carry ELSE carry
      newQ    == IF m = 0 THEN flipped ELSE 1 - flipped
  IN [res |-> res, q |-> newQ, t |-> Flag(newQ = m)]

\* mac_l on the accumulator hi:lo of 2W bits; with S the sum saturates at 3W/2 bits.
MacL(hi, lo, a, b, s) ==
  LET all   == Signed(hi) * TwoTo[W] + lo
      short == TwoTo[(3 * W) \div 2]
      low   == all % short
      acc   == IF s = 1 THEN (IF low >= short \div 2 THEN low - short ELSE low) ELSE all
      sum   == acc + Signed(a) * Signed(b)
      sat   == IF s = 0 THEN sum
               ELSE IF sum > short \div 2 - 1 THEN short \div 2 - 1
               ELSE IF sum < -(short \div 2) THEN -(short \div 2) ELSE sum
  IN (sat % TwoTo[2 * W])

\* dmulu, dmuls: the product in MACH:MACL.
Dmulu(a, b) == a * b
Dmuls(a, b) == (Signed(a) * Signed(b)) % TwoTo[2 * W]

-------------------------------------------------------------------------------
VARIABLES
  a, b,     \* the dividend's low word and the divisor, or any operands
  high,     \* the dividend's high word
  signed,   \* which of the two loops runs
  rn, rl,   \* the registers of the loop: partial remainder, and dividend then quotient
  q, m, t,
  steps     \* steps of the loop left

vars == <<a, b, high, signed, rn, rl, q, m, t, steps>>

\* The guest's unsigned division of high:a by b, with DIV0U.
Unsigned ==
  /\ high < b
  /\ signed = 0 /\ rn = high /\ rl = a /\ q = 0 /\ m = 0 /\ t = 0

\* The guest's signed division of a by b: the dividend in ones' complement, with DIV0S.
SignedStart ==
  LET ones == Subc(a, 0, Top(a)).res
      ext  == IF Top(a) = 1 THEN TwoTo[W] - 1 ELSE 0 IN
  /\ high = 0 /\ signed = 1 /\ b # 0
  /\ rn = ext /\ rl = ones
  /\ q = Top(ext) /\ m = Top(b) /\ t = IF Top(ext) = Top(b) THEN 0 ELSE 1

Init ==
  /\ a \in Word /\ b \in Word /\ high \in Word
  /\ Unsigned \/ SignedStart
  /\ steps = W

\* ROTCL of the low word, then DIV1.
DivideStep ==
  LET shift == Rotcl(rl, t)
      d     == Div1(rn, b, q, m, shift.t) IN
  /\ steps > 0
  /\ steps' = steps - 1
  /\ rl' = shift.res
  /\ rn' = d.res /\ q' = d.q /\ t' = d.t
  /\ UNCHANGED <<a, b, high, signed, m>>

Next == DivideStep

-------------------------------------------------------------------------------
\* The quotient: the last ROTCL, and in the signed loop the ADDC that rounds towards zero.
Quotient == LET last == Rotcl(rl, t) IN
            IF signed = 1 THEN Addc(last.res, 0, last.t).res ELSE last.res

\* The integers' quotient, rounded towards zero.
Truncated(x, y) == LET abs(k) == IF k < 0 THEN -k ELSE k
                       mag    == abs(x) \div abs(y) IN
                   IF (x < 0) # (y < 0) THEN -mag ELSE mag

\* The division loops that compilers emit give the quotient, for every dividend and
\* divisor of both kinds: W steps through Q, M and T (ops.h 84-135).
DivisionDivides ==
  steps = 0 => Quotient = IF signed = 1 THEN Wrap(Truncated(Signed(a), Signed(b)))
                          ELSE (high * TwoTo[W] + a) \div b

\* Carry, borrow, overflow and saturation are the integers', the two shifts undo nothing
\* they should keep, and a rotation through T can be undone (ops.h 17-79, 137-177).
HelpersExact ==
  LET fits(x) == x >= -(TwoTo[W - 1]) /\ x < TwoTo[W - 1] IN
  \A c \in {0, 1} :
    /\ a + b + c = Addc(a, b, c).res + TwoTo[W] * Addc(a, b, c).t
    /\ a - b - c = Subc(a, b, c).res - TwoTo[W] * Subc(a, b, c).t
    /\ 0 - a - c = Negc(a, c).res - TwoTo[W] * Negc(a, c).t
    /\ Addv(a, b).t = 0 <=> fits(Signed(a) + Signed(b))
    /\ Subv(a, b).t = 0 <=> fits(Signed(a) - Signed(b))
    /\ Rotcr(Rotcl(a, c).res, Rotcl(a, c).t) = [res |-> a, t |-> c]
    /\ Signed(b) < 0 /\ Signed(b) > -W =>
         /\ Signed(Shad(a, b)) = Signed(a) \div TwoTo[-Signed(b)]
         /\ Shld(a, b) = a \div TwoTo[-Signed(b)]
    /\ Dmuls(a, b) = MacL(0, 0, a, b, 0)
===============================================================================
