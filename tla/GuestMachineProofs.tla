-------------------------- MODULE GuestMachineProofs --------------------------
(***************************************************************************)
(* The division loops divide, and the helpers' flags are the integers', for   *)
(* words of any power of two of bits; the two engines do the same, for any     *)
(* operations in a delay slot and after a change of mode; comparing them while   *)
(* the program runs changes nothing that the program sees, and an alarm is a      *)
(* wrong translation, for any functions, any memory, any journal limit and any     *)
(* depth of calls; and all addresses of a word are one memory, for any size of      *)
(* the banks, of a burst and of the UTLB.  First what all of these use:              *)
(* induction, recursive functions, quotients.                                         *)
(***************************************************************************)
EXTENDS GuestMachine, Sequences, SequenceTheorems, WellFoundedInduction, TLAPS

(* Induction as a fact about sets: the numbers outside S have a least one. *)

LEMMA LeastNumber ==
  ASSUME NEW T \in SUBSET Nat, T # {} PROVE \E n \in T : \A k \in T : n <= k
<1> DEFINE R == OpToRel(<, Nat)
<1>1. IsWellFoundedOn(R, Nat)
  BY NatLessThanWellFounded
<1>2. \A i, j \in Nat : i < j => <<i, j>> \in R
  BY DEF OpToRel
<1> HIDE DEF R
<1>3. PICK n \in T : \A k \in T : ~(<<k, n>> \in R)
  BY <1>1, WFMin
<1>4. ASSUME NEW k \in T PROVE n <= k
  <2>1. n \in Nat /\ k \in Nat
    OBVIOUS
  <2>2. ~(k < n)
    BY <1>2, <1>3, <2>1
  <2>3. QED
    BY <2>1, <2>2
<1>5. QED
  BY <1>4

LEMMA SetInduction ==
  ASSUME NEW S, 0 \in S, \A n \in Nat : n \in S => n + 1 \in S
  PROVE  Nat \subseteq S
<1> DEFINE T == {n \in Nat : n \notin S}
<1>1. SUFFICES ASSUME T # {} PROVE FALSE
  OBVIOUS
<1>2. PICK n \in T : \A k \in T : n <= k
  BY <1>1, LeastNumber
<1>3. n # 0 /\ n - 1 \in Nat /\ n - 1 < n
  BY <1>2
<1>4. n - 1 \in S
  BY <1>2, <1>3
<1>5. QED
  BY <1>3, <1>4

\* What is begun with v is carried on by L functions, one after the other.
Chains(L, X) == [1..L -> [X -> X]]
Carried(X, v, L, F) ==
  \E g \in [0..L -> X] : g[0] = v /\ \A n \in 1..L : g[n] = F[n][g[n - 1]]

LEMMA Iterates ==
  ASSUME NEW X, NEW v \in X, NEW L \in Nat, NEW F \in Chains(L, X)
  PROVE  Carried(X, v, L, F)
<1> DEFINE Good(g, k) == g[0] = v /\ \A n \in 1..k : g[n] = F[n][g[n - 1]]
           S == {k \in Nat : k <= L => \E g \in [0..k -> X] : Good(g, k)}
<1>1. 0 \in S
  <2> DEFINE g == [n \in 0..0 |-> v]
  <2>1. g \in [0..0 -> X] /\ g[0] = v
    OBVIOUS
  <2>2. Good(g, 0)
    BY <2>1
  <2>3. QED
    BY <2>1, <2>2
<1>2. ASSUME NEW k \in Nat, k \in S PROVE k + 1 \in S
  <2>1. SUFFICES ASSUME k + 1 <= L PROVE \E g \in [0..(k + 1) -> X] : Good(g, k + 1)
    OBVIOUS
  <2>2. PICK g \in [0..k -> X] : Good(g, k)
    BY <1>2, <2>1
  <2> DEFINE h == [n \in 0..(k + 1) |-> IF n = k + 1 THEN F[k + 1][g[k]] ELSE g[n]]
  <2>3. F[k + 1][g[k]] \in X
    <3>1. k + 1 \in 1..L /\ k \in 0..k
      BY <2>1
    <3>2. QED
      BY <3>1 DEF Chains
  <2>4. h \in [0..(k + 1) -> X]
    BY <2>3
  <2>5. h[0] = v
    BY <2>2
  <2>6. ASSUME NEW n \in 1..(k + 1) PROVE h[n] = F[n][h[n - 1]]
    <3>1. CASE n = k + 1
      BY <3>1
    <3>2. CASE n # k + 1
      <4>1. n \in 1..k /\ n - 1 \in 0..k /\ n - 1 # k + 1
        BY <3>2
      <4>2. h[n] = g[n] /\ h[n - 1] = g[n - 1]
        BY <4>1
      <4>3. QED
        BY <2>2, <4>1, <4>2
    <3>3. QED
      BY <3>1, <3>2
  <2>7. QED
    BY <2>4, <2>5, <2>6
<1>3. Nat \subseteq S
  <2> HIDE DEF S
  <2>1. QED
    BY <1>1, <1>2, SetInduction
<1>4. QED
  BY <1>3 DEF Carried

\* A function that is begun and carried on like this stays in X.
Follows(X, v, L, F, h) == h[0] = v /\ \A n \in 1..L : h[n - 1] \in X => h[n] = F[n][h[n - 1]]

LEMMA FollowsWithin ==
  ASSUME NEW X, NEW v \in X, NEW L \in Nat, NEW F \in Chains(L, X), NEW h, Follows(X, v, L, F, h)
  PROVE  \A n \in 0..L : h[n] \in X
<1> DEFINE S == {n \in Nat : n <= L => h[n] \in X}
<1>1. 0 \in S
  BY DEF Follows
<1>2. ASSUME NEW n \in Nat, n \in S PROVE n + 1 \in S
  <2>1. SUFFICES ASSUME n + 1 <= L PROVE h[n + 1] \in X
    OBVIOUS
  <2>2. n + 1 \in 1..L /\ (n + 1) - 1 = n /\ h[n] \in X
    BY <1>2, <2>1
  <2>3. h[n + 1] = F[n + 1][h[n]]
    BY <2>2 DEF Follows
  <2>4. QED
    BY <2>2, <2>3 DEF Chains
<1>3. Nat \subseteq S
  <2> HIDE DEF S
  <2>1. QED
    BY <1>1, <1>2, SetInduction
<1>4. QED
  BY <1>3

-------------------------------------------------------------------------------
(* Quotients. *)

\* A quotient and what is left over.
LEMMA Division ==
  ASSUME NEW n \in Nat, NEW d \in Nat \ {0}
  PROVE  n \div d \in Nat /\ n % d \in 0..(d - 1) /\ n = d * (n \div d) + (n % d)
  OBVIOUS

LEMMA Divided ==
  ASSUME NEW n \in Nat, NEW d \in Nat \ {0}, NEW k \in Nat, NEW l \in 0..(d - 1), n = d * k + l
  PROVE  n \div d = k /\ n % d = l
  OBVIOUS

LEMMA Multiple ==
  ASSUME NEW n \in Nat, NEW d \in Nat \ {0}, n % d = 0 PROVE \E k \in Nat : n = d * k
<1>1. PICK k \in Nat : k = n \div d
  BY Division
<1>2. n = d * k + (n % d)
  BY <1>1, Division
<1>3. d * k \in Nat
  OBVIOUS
<1>4. n = d * k
  BY <1>2, <1>3
<1>5. QED
  BY <1>4

LEMMA Halves ==
  ASSUME NEW d \in Nat \ {0}, NEW n \in 0..(2 * d - 1)
  PROVE  /\ n \div d \in {0, 1} /\ n % d \in 0..(d - 1) /\ n = d * (n \div d) + (n % d)
         /\ (n \div d) % 2 = n \div d /\ n % (2 * d) = n
         /\ n % 2 \in {0, 1} /\ n \div 2 \in 0..(d - 1) /\ n = 2 * (n \div 2) + (n % 2)
         /\ (n \div 2) % d = n \div 2
<1>1. n \in Nat
  OBVIOUS
<1>2. n < d => n \div d = 0 /\ n % d = n
  BY <1>1, Divided
<1>3. n >= d => n \div d = 1 /\ n % d = n - d
  BY <1>1, Divided
<1>4. n % (2 * d) = n
  BY <1>1, Divided
<1>5. n \div 2 \in Nat /\ n % 2 \in 0..1 /\ n = 2 * (n \div 2) + (n % 2)
  BY <1>1, Division
<1>6. n \div 2 \in 0..(d - 1)
  BY <1>5
<1>7. (n \div 2) % d = n \div 2
  BY <1>6, Divided
<1>8. (n \div d) % 2 = n \div d
  BY <1>2, <1>3
<1>9. QED
  BY <1>2, <1>3, <1>4, <1>5, <1>6, <1>7, <1>8

-------------------------------------------------------------------------------
(* Words. *)

Size == Helpers!TwoTo[W]
Half == Helpers!TwoTo[W - 1]

\* The powers of two are defined, and each is twice the one before.
LEMMA Powers ==
  /\ Helpers!TwoTo[0] = 1
  /\ \A n \in 0..(2 * W) : Helpers!TwoTo[n] \in Nat \ {0}
  /\ \A n \in 1..(2 * W) : Helpers!TwoTo[n] = 2 * Helpers!TwoTo[n - 1]
<1> DEFINE L == 2 * W
           F == [n \in 1..L |-> [z \in Nat |-> 2 * z]]
           D(g) == [n \in 0..L |-> IF n = 0 THEN 1 ELSE 2 * g[n - 1]]
           two == CHOOSE g : g = D(g)
<1>0. L \in Nat
  BY GuestMachineAssumption DEF GuestMachineAssumption
<1>1. F \in Chains(L, Nat)
  BY DEF Chains
<1>2. PICK g \in [0..L -> Nat] : g[0] = 1 /\ \A n \in 1..L : g[n] = F[n][g[n - 1]]
  <2> HIDE DEF F, L, D, two
  <2>1. Carried(Nat, 1, L, F)
    BY <1>0, <1>1, Iterates
  <2>2. QED
    BY <2>1 DEF Carried
<1>3. ASSUME NEW n \in 1..L PROVE g[n] = 2 * g[n - 1] /\ g[n - 1] \in Nat
  <2>1. n - 1 \in 0..L
    BY <1>0
  <2>2. g[n - 1] \in Nat
    BY <2>1
  <2>3. QED
    BY <1>2, <2>2
<1>4. g = D(g)
  <2>1. \A n \in 0..L : g[n] = D(g)[n]
    BY <1>0, <1>2, <1>3
  <2>2. QED
    BY <2>1
<1>5. two = D(two)
  <2> HIDE DEF D
  <2>1. QED
    BY <1>4
<1>6. Helpers!TwoTo = two
  BY DEF Helpers!TwoTo
<1> HIDE DEF two
<1>7. two[0] = 1 /\ \A n \in 1..L : two[n] = 2 * two[n - 1]
  <2>1. \A n \in 0..L : two[n] = IF n = 0 THEN 1 ELSE 2 * two[n - 1]
    BY <1>5, Zenon
  <2>2. 0 \in 0..L /\ \A n \in 1..L : n \in 0..L /\ n # 0
    BY <1>0
  <2>3. QED
    BY <2>1, <2>2
<1> DEFINE S == {n \in Nat : n <= L => two[n] \in Nat \ {0}}
<1>8. Nat \subseteq S
  <2>1. 0 \in S
    BY <1>7
  <2>2. ASSUME NEW n \in Nat, n \in S PROVE n + 1 \in S
    <3>1. SUFFICES ASSUME n + 1 <= L PROVE two[n + 1] \in Nat \ {0}
      OBVIOUS
    <3>2. n + 1 \in 1..L /\ (n + 1) - 1 = n /\ two[n] \in Nat \ {0}
      BY <1>0, <2>2, <3>1
    <3>3. two[n + 1] = 2 * two[n]
      BY <1>7, <3>2
    <3>4. QED
      BY <3>2, <3>3
  <2> HIDE DEF S
  <2>3. QED
    BY <2>1, <2>2, SetInduction
<1>9. \A n \in 0..L : two[n] \in Nat \ {0}
  BY <1>8
<1>10. QED
  BY <1>6, <1>7, <1>9

LEMMA Sizes ==
  /\ Size \in Nat \ {0} /\ Half \in Nat \ {0} /\ Size = 2 * Half
  /\ Helpers!Word = 0..(Size - 1)
<1>1. W \in Nat \ {0}
  BY GuestMachineAssumption DEF GuestMachineAssumption
<1>2. W \in 1..(2 * W) /\ W \in 0..(2 * W) /\ W - 1 \in 0..(2 * W)
  BY <1>1
<1>3. QED
  BY <1>2, Powers DEF Size, Half, Helpers!Word

\* What a word is of an integer, its top bit, and the integer it is with a sign.
LEMMA Wrapped ==
  ASSUME NEW n \in Int, NEW k \in Int, NEW w \in 0..(Size - 1), n = k * Size + w
  PROVE  Helpers!Wrap(n) = w
  BY Sizes DEF Helpers!Wrap, Size

LEMMA WrapsToWord ==
  ASSUME NEW n \in Int
  PROVE  Helpers!Wrap(n) \in 0..(Size - 1) /\ \E k \in Int : n = k * Size + Helpers!Wrap(n)
<1>1. n \div Size \in Int /\ n % Size \in 0..(Size - 1) /\ n = (n \div Size) * Size + (n % Size)
  BY Sizes
<1>2. QED
  BY <1>1 DEF Helpers!Wrap, Size

LEMMA TopBit ==
  ASSUME NEW w \in 0..(Size - 1)
  PROVE  /\ w >= Half => Helpers!Top(w) = 1 /\ Helpers!Signed(w) = w - Size
         /\ w < Half => Helpers!Top(w) = 0 /\ Helpers!Signed(w) = w
         /\ Helpers!Top(w) \in {0, 1}
<1>1. w >= Half => w \div Half = 1
  <2>1. ASSUME w >= Half PROVE w = Half * 1 + (w - Half) /\ w - Half \in 0..(Half - 1) /\ w \in Nat
    BY <2>1, Sizes
  <2>2. QED
    BY <2>1, Sizes, Divided
<1>2. w < Half => w \div Half = 0
  <2>1. ASSUME w < Half PROVE w = Half * 0 + w /\ w \in 0..(Half - 1) /\ w \in Nat
    BY <2>1, Sizes
  <2>2. QED
    BY <2>1, Sizes, Divided
<1>3. Helpers!Top(w) = w \div Half
  BY DEF Helpers!Top, Half
<1>4. w \in Int /\ Half \in Int
  BY Sizes
<1>5. QED
  BY <1>1, <1>2, <1>3, <1>4 DEF Helpers!Signed, Size

LEMMA WrapNear ==
  ASSUME NEW n \in Int, 0 - Size <= n, n < 2 * Size
  PROVE  Helpers!Wrap(n) = IF n < 0 THEN n + Size ELSE IF n < Size THEN n ELSE n - Size
<1>1. CASE n < 0
  <2>1. n + Size \in 0..(Size - 1) /\ n = (0 - 1) * Size + (n + Size)
    BY <1>1, Sizes
  <2>2. Helpers!Wrap(n) = n + Size
    BY <2>1, Wrapped
  <2>3. QED
    BY <1>1, <2>2
<1>2. CASE 0 <= n /\ n < Size
  <2>1. n \in 0..(Size - 1) /\ n = 0 * Size + n
    BY <1>2, Sizes
  <2>2. Helpers!Wrap(n) = n
    BY <2>1, Wrapped
  <2>3. QED
    BY <1>2, <2>2
<1>3. CASE Size <= n
  <2>1. n - Size \in 0..(Size - 1) /\ n = 1 * Size + (n - Size)
    BY <1>3, Sizes
  <2>2. Helpers!Wrap(n) = n - Size
    BY <2>1, Wrapped
  <2>3. QED
    BY <1>3, <2>2, Sizes
<1>4. QED
  BY <1>1, <1>2, <1>3, Sizes

-------------------------------------------------------------------------------
(* The helpers. *)

Word == 0..(Size - 1)

\* The carry that is seen in the wrapped sums is the sum's.
LEMMA AddCarries ==
  ASSUME NEW u \in Word, NEW v \in Word, NEW c \in {0, 1}
  PROVE  /\ Helpers!Addc(u, v, c).res \in Word /\ Helpers!Addc(u, v, c).t \in {0, 1}
         /\ u + v + c = Helpers!Addc(u, v, c).res + Size * Helpers!Addc(u, v, c).t
<1> DEFINE tmp == Helpers!Wrap(u + v)
           res == Helpers!Wrap(tmp + c)
<1>1. Helpers!Addc(u, v, c).res = res /\ Helpers!Addc(u, v, c).t = IF tmp < u \/ res < tmp THEN 1 ELSE 0
  BY DEF Helpers!Addc, Helpers!Flag
<1>2. tmp = IF u + v < Size THEN u + v ELSE u + v - Size
  BY WrapNear, Sizes DEF Word
<1> HIDE DEF tmp
<1>3. tmp \in Word
  BY <1>2, Sizes DEF Word
<1>4. res = IF tmp + c < Size THEN tmp + c ELSE tmp + c - Size
  BY <1>3, WrapNear, Sizes DEF Word
<1> HIDE DEF res
<1>5. QED
  BY <1>1, <1>2, <1>3, <1>4, Sizes DEF Word

LEMMA SubBorrows ==
  ASSUME NEW u \in Word, NEW v \in Word, NEW c \in {0, 1}
  PROVE  /\ Helpers!Subc(u, v, c).res \in Word /\ Helpers!Subc(u, v, c).t \in {0, 1}
         /\ u - v - c = Helpers!Subc(u, v, c).res - Size * Helpers!Subc(u, v, c).t
<1> DEFINE tmp == Helpers!Wrap(u - v)
           res == Helpers!Wrap(tmp - c)
<1>1. Helpers!Subc(u, v, c).res = res /\ Helpers!Subc(u, v, c).t = IF u < tmp \/ tmp < res THEN 1 ELSE 0
  BY DEF Helpers!Subc, Helpers!Flag
<1>2. tmp = IF u - v < 0 THEN u - v + Size ELSE u - v
  BY WrapNear, Sizes DEF Word
<1> HIDE DEF tmp
<1>3. tmp \in Word
  BY <1>2, Sizes DEF Word
<1>4. res = IF tmp - c < 0 THEN tmp - c + Size ELSE tmp - c
  BY <1>3, WrapNear, Sizes DEF Word
<1> HIDE DEF res
<1>5. QED
  BY <1>1, <1>2, <1>3, <1>4, Sizes DEF Word

LEMMA NegBorrows ==
  ASSUME NEW u \in Word, NEW c \in {0, 1}
  PROVE  0 - u - c = Helpers!Negc(u, c).res - Size * Helpers!Negc(u, c).t
<1> DEFINE tmp == Helpers!Wrap(-u)
           res == Helpers!Wrap(tmp - c)
<1>1. Helpers!Negc(u, c).res = res /\ Helpers!Negc(u, c).t = IF 0 < tmp \/ tmp < res THEN 1 ELSE 0
  BY DEF Helpers!Negc, Helpers!Flag
<1>2. tmp = IF u = 0 THEN 0 ELSE Size - u
  <2>1. -u \in Int /\ 0 - Size <= -u /\ -u < 2 * Size /\ (-u < 0 <=> u # 0)
    BY Sizes DEF Word
  <2>2. QED
    BY <2>1, WrapNear, Sizes DEF Word
<1> HIDE DEF tmp
<1>3. tmp \in Word
  BY <1>2, Sizes DEF Word
<1>4. res = IF tmp - c < 0 THEN tmp - c + Size ELSE tmp - c
  BY <1>3, WrapNear, Sizes DEF Word
<1> HIDE DEF res
<1>5. QED
  BY <1>1, <1>2, <1>3, <1>4, Sizes DEF Word

\* Overflow by the signs is overflow.
Fits(n) == n >= -Half /\ n < Half

LEMMA AddOverflows ==
  ASSUME NEW u \in Word, NEW v \in Word
  PROVE  Helpers!Addv(u, v).t = 0 <=> Fits(Helpers!Signed(u) + Helpers!Signed(v))
<1>1. PICK res \in Int : res = Helpers!Wrap(u + v) /\ res = IF u + v < Size THEN u + v ELSE u + v - Size
  BY WrapNear, Sizes DEF Word
<1>2. res \in Word
  BY <1>1, Sizes DEF Word
<1>3. Helpers!Addv(u, v).t = IF Helpers!Top(u) = Helpers!Top(v) /\ Helpers!Top(res) # Helpers!Top(u) THEN 1 ELSE 0
  BY <1>1 DEF Helpers!Addv, Helpers!Flag
<1>4. /\ Helpers!Top(u) = (IF u >= Half THEN 1 ELSE 0) /\ Helpers!Signed(u) = (IF u >= Half THEN u - Size ELSE u)
      /\ Helpers!Top(v) = (IF v >= Half THEN 1 ELSE 0) /\ Helpers!Signed(v) = (IF v >= Half THEN v - Size ELSE v)
      /\ Helpers!Top(res) = (IF res >= Half THEN 1 ELSE 0)
  BY <1>2, TopBit, Sizes DEF Word
<1>5. QED
  BY <1>1, <1>2, <1>3, <1>4, Sizes DEF Word, Fits

LEMMA SubOverflows ==
  ASSUME NEW u \in Word, NEW v \in Word
  PROVE  Helpers!Subv(u, v).t = 0 <=> Fits(Helpers!Signed(u) - Helpers!Signed(v))
<1>1. PICK res \in Int : res = Helpers!Wrap(u - v) /\ res = IF u - v < 0 THEN u - v + Size ELSE u - v
  BY WrapNear, Sizes DEF Word
<1>2. res \in Word
  BY <1>1, Sizes DEF Word
<1>3. Helpers!Subv(u, v).t = IF Helpers!Top(u) # Helpers!Top(v) /\ Helpers!Top(res) # Helpers!Top(u) THEN 1 ELSE 0
  BY <1>1 DEF Helpers!Subv, Helpers!Flag
<1>4. /\ Helpers!Top(u) = (IF u >= Half THEN 1 ELSE 0) /\ Helpers!Signed(u) = (IF u >= Half THEN u - Size ELSE u)
      /\ Helpers!Top(v) = (IF v >= Half THEN 1 ELSE 0) /\ Helpers!Signed(v) = (IF v >= Half THEN v - Size ELSE v)
      /\ Helpers!Top(res) = (IF res >= Half THEN 1 ELSE 0)
  BY <1>2, TopBit, Sizes DEF Word
<1>5. QED
  BY <1>1, <1>2, <1>3, <1>4, Sizes DEF Word, Fits

\* A rotation through T shifts the top bit out, and can be undone.
LEMMA Rotated ==
  ASSUME NEW u \in Word, NEW c \in {0, 1}
  PROVE  /\ Helpers!Rotcl(u, c) = [res |-> 2 * u + c - Helpers!Top(u) * Size, t |-> Helpers!Top(u)]
         /\ Helpers!Top(u) \in {0, 1}
         /\ 2 * u + c - Helpers!Top(u) * Size \in Word
         /\ Helpers!Rotcr(Helpers!Rotcl(u, c).res, Helpers!Rotcl(u, c).t) = [res |-> u, t |-> c]
<1>1. Helpers!Top(u) = IF u >= Half THEN 1 ELSE 0
  BY TopBit, Sizes DEF Word
<1>2. PICK res \in Int : res = 2 * u + c - Helpers!Top(u) * Size
  BY <1>1, Sizes DEF Word
<1>3. res \in Word /\ u * 2 + c = Helpers!Top(u) * Size + res
  BY <1>1, <1>2, Sizes DEF Word
<1>4. Helpers!Wrap(u * 2 + c) = res
  <2>1. u * 2 + c \in Int /\ Helpers!Top(u) \in Int /\ res \in 0..(Size - 1)
    BY <1>1, <1>3, Sizes DEF Word
  <2>2. QED
    BY <1>3, <2>1, Wrapped
<1>5. Helpers!Rotcl(u, c) = [res |-> res, t |-> Helpers!Top(u)]
  BY <1>4 DEF Helpers!Rotcl
<1>6. PICK low \in Nat : low = IF u >= Half THEN u - Half ELSE u
  <2>1. (IF u >= Half THEN u - Half ELSE u) \in Nat
    BY Sizes DEF Word
  <2>2. QED
    BY <2>1
<1>7. res = 2 * low + c /\ u = low + Helpers!Top(u) * Half
  BY <1>1, <1>2, <1>6, Sizes DEF Word
<1>8. res \div 2 = low /\ res % 2 = c
  <2>1. res \in Nat /\ c \in 0..1
    BY <1>3, Sizes DEF Word
  <2>2. QED
    BY <1>7, <2>1, Divided
<1>9. QED
  BY <1>1, <1>2, <1>3, <1>5, <1>7, <1>8 DEF Helpers!Rotcr, Half

\* A quotient by some power of two lies between the number and zero.
LEMMA QuotientBetween ==
  ASSUME NEW n \in Int, NEW d \in Nat \ {0}
  PROVE  /\ n \div d \in Int
         /\ n >= 0 => n \div d \in 0..n
         /\ n < 0 => n \div d < 0 /\ n \div d >= n
<1>1. PICK k \in Int, l \in 0..(d - 1) : n = d * k + l /\ k = n \div d
  <2>1. n \div d \in Int /\ n % d \in 0..(d - 1) /\ n = d * (n \div d) + (n % d)
    OBVIOUS
  <2>2. QED
    BY <2>1
<1>2. ASSUME n >= 0 PROVE k \in 0..n
  <2>1. k >= 0
    <3>1. SUFFICES ASSUME k + 1 <= 0 PROVE FALSE
      BY <1>1
    <3>2. d * k + d <= 0
      BY <3>1
    <3>3. QED
      BY <1>1, <1>2, <3>2
  <2>2. d * k >= k
    BY <2>1
  <2>3. QED
    BY <1>1, <1>2, <2>1, <2>2
<1>3. ASSUME n < 0 PROVE k < 0 /\ k >= n
  <2>1. k < 0
    <3>1. SUFFICES ASSUME k >= 0 PROVE FALSE
      BY <1>1
    <3>2. d * k >= 0
      BY <3>1
    <3>3. QED
      BY <1>1, <1>3, <3>2
  <2>2. d * (k + 1) <= k + 1
    BY <1>1, <2>1
  <2>3. d * (k + 1) = d * k + d
    BY <1>1
  <2>4. QED
    BY <1>1, <2>1, <2>2, <2>3
<1>4. QED
  BY <1>1, <1>2, <1>3

\* A shift by a negative count is a division by a power of two.
LEMMA ShiftsDivide ==
  ASSUME NEW u \in Word, NEW v \in Word, Helpers!Signed(v) < 0, Helpers!Signed(v) > -W
  PROVE  /\ Helpers!Signed(Helpers!Shad(u, v)) = Helpers!Signed(u) \div Helpers!TwoTo[-Helpers!Signed(v)]
         /\ Helpers!Shld(u, v) = u \div Helpers!TwoTo[-Helpers!Signed(v)]
<1>1. W \in Nat \ {0} /\ Size % W = 0
  BY GuestMachineAssumption DEF GuestMachineAssumption, Size
<1>2. PICK n \in Nat : n = -Helpers!Signed(v) /\ n \in 1..(W - 1) /\ v = Size - n /\ Helpers!Top(v) = 1
  <2>1. v >= Half
    BY TopBit, Sizes DEF Word
  <2>2. Helpers!Signed(v) = v - Size /\ Helpers!Top(v) = 1
    BY <2>1, TopBit DEF Word
  <2>3. Size - v \in Nat /\ Size - v = -(v - Size)
    BY Sizes DEF Word
  <2>4. Size - v \in 1..(W - 1) /\ v = Size - (Size - v)
    BY <1>1, <2>2, <2>3, Sizes DEF Word
  <2>5. QED
    BY <2>2, <2>3, <2>4
<1>3. v % W = W - n
  <2>1. PICK k \in Nat : Size = W * k
    BY <1>1, Sizes, Multiple
  <2>2. k >= 1
    BY <1>1, <2>1, Sizes
  <2>3. PICK j \in Nat : k = j + 1
    BY <2>2
  <2>4. v = W * j + (W - n) /\ W - n \in 0..(W - 1) /\ v \in Nat
    <3>1. W * k = W * j + W
      BY <1>1, <2>3
    <3>2. v = W * k - n /\ W * j \in Nat
      BY <1>1, <1>2, <2>1
    <3>3. v = W * j + (W - n)
      BY <1>1, <1>2, <3>1, <3>2
    <3>4. QED
      BY <1>1, <1>2, <3>3 DEF Word
  <2>5. QED
    BY <1>1, <2>4, Divided
<1>4. W - n # 0 /\ W - (W - n) = n
  BY <1>1, <1>2
<1>5. Helpers!TwoTo[n] \in Nat \ {0}
  BY <1>1, <1>2, Powers
<1>6. Helpers!Shld(u, v) = u \div Helpers!TwoTo[n]
  BY <1>2, <1>3, <1>4 DEF Helpers!Shld
<1>7. Helpers!Shad(u, v) = Helpers!Wrap(Helpers!Signed(u) \div Helpers!TwoTo[n])
  BY <1>2, <1>3, <1>4 DEF Helpers!Shad
<1>8. PICK s \in Int : s = Helpers!Signed(u) /\ -Half <= s /\ s < Half
  BY TopBit, Sizes DEF Word
<1>9. PICK d \in Int : d = s \div Helpers!TwoTo[n] /\ -Half <= d /\ d < Half
  <2>1. PICK p \in Nat \ {0} : p = Helpers!TwoTo[n]
    BY <1>5
  <2>2. s \div p \in Int
    BY QuotientBetween
  <2>3. s >= 0 => s \div p \in 0..s
    BY QuotientBetween
  <2>4. s < 0 => s \div p < 0 /\ s \div p >= s
    BY QuotientBetween
  <2>5. PICK d \in Int : d = s \div p
    BY <2>2
  <2>6. -Half <= d /\ d < Half
    BY <1>8, <2>3, <2>4, <2>5, Sizes
  <2>7. QED
    BY <2>1, <2>5, <2>6
<1>10. Helpers!Wrap(d) = IF d < 0 THEN d + Size ELSE d
  BY <1>9, WrapNear, Sizes
<1>11. Helpers!Signed(Helpers!Wrap(d)) = d
  <2>1. PICK w \in 0..(Size - 1) : w = Helpers!Wrap(d)
    BY <1>9, WrapsToWord
  <2>2. QED
    BY <1>9, <1>10, <2>1, TopBit, Sizes
<1>12. QED
  BY <1>2, <1>6, <1>7, <1>8, <1>9, <1>11

\* The product of two words is the product on an empty accumulator.
LEMMA ProductsAgree ==
  ASSUME NEW u \in Word, NEW v \in Word
  PROVE  Helpers!Dmuls(u, v) = Helpers!MacL(0, 0, u, v, 0)
<1>1. Helpers!Signed(0) = 0
  BY TopBit, Sizes DEF Word
<1>2. Helpers!Signed(u) \in Int /\ Helpers!Signed(v) \in Int
  BY TopBit, Sizes DEF Word
<1>3. PICK n \in Int : n = Helpers!Signed(u) * Helpers!Signed(v)
  BY <1>2
<1>4. Helpers!Signed(0) * Helpers!TwoTo[W] + 0 = 0
  BY <1>1, Sizes DEF Size
<1>5. Helpers!MacL(0, 0, u, v, 0) = (0 + n) % Helpers!TwoTo[2 * W]
  BY <1>3, <1>4 DEF Helpers!MacL
<1>6. QED
  BY <1>3, <1>5 DEF Helpers!Dmuls

-------------------------------------------------------------------------------
(* The division loops. *)

\* What is left of the dividend, as an integer, has the divisor's sign.
Left(d, r) == IF d > 0 THEN 0 <= r /\ r < d ELSE d <= r /\ r < 0

\* The remainder behind a partial remainder r whose sign is in q0.
Restored(r, q0, m0, d) ==
  IF q0 = 0 THEN (IF m0 = 0 THEN r ELSE r + d)
  ELSE (IF m0 = 0 THEN r - Size + d ELSE r - Size)

\* DIV1 carries the division on by one bit of the dividend.
LEMMA DivideOnce ==
  ASSUME NEW r \in Word, NEW q0 \in {0, 1}, NEW m0 \in {0, 1}, NEW bit \in {0, 1},
         NEW d \in Int, NEW w \in Word,
         m0 = 0 => w = d /\ d > 0,
         m0 = 1 => w = d + Size /\ d < 0 /\ d >= -Half,
         Left(d, Restored(r, q0, m0, d))
  PROVE  LET z == Helpers!Div1(r, w, q0, m0, bit) IN
         /\ z.res \in Word /\ z.q \in {0, 1} /\ z.t \in {0, 1}
         /\ Left(d, Restored(z.res, z.q, m0, d))
         /\ 2 * Restored(r, q0, m0, d) + bit = d * z.t + Restored(z.res, z.q, m0, d)
<1> DEFINE z == Helpers!Div1(r, w, q0, m0, bit)
<1>0. /\ Size \in Nat /\ Half \in Nat /\ Size = 2 * Half /\ Half > 0
      /\ r \in Int /\ 0 <= r /\ r < Size /\ w \in Int /\ 0 <= w /\ w < Size
  BY Sizes DEF Word
<1>1. PICK top \in {0, 1} : top = Helpers!Top(r) /\ top = IF r >= Half THEN 1 ELSE 0
  BY TopBit, Sizes DEF Word
<1>2. PICK shifted \in Word : shifted = Helpers!Wrap(r * 2 + bit)
                           /\ shifted = IF top = 1 THEN 2 * r + bit - Size ELSE 2 * r + bit
  <2>1. Helpers!Rotcl(r, bit).res = 2 * r + bit - top * Size /\ 2 * r + bit - top * Size \in Word
    <3>1. /\ Helpers!Rotcl(r, bit) = [res |-> 2 * r + bit - Helpers!Top(r) * Size, t |-> Helpers!Top(r)]
          /\ 2 * r + bit - Helpers!Top(r) * Size \in Word
      BY Rotated
    <3>2. Helpers!Top(r) = top
      BY <1>1
    <3>3. Helpers!Rotcl(r, bit) = [res |-> 2 * r + bit - top * Size, t |-> top]
      BY <3>1, <3>2, Zenon
    <3>4. 2 * r + bit - top * Size \in Word
      BY <3>1, <3>2, Zenon
    <3>5. QED
      BY <3>3, <3>4
  <2>2. Helpers!Rotcl(r, bit).res = Helpers!Wrap(r * 2 + bit)
    BY DEF Helpers!Rotcl
  <2>3. 2 * r + bit - top * Size = IF top = 1 THEN 2 * r + bit - Size ELSE 2 * r + bit
    BY <1>0
  <2>4. QED
    BY <2>1, <2>2, <2>3
<1>3. PICK res \in Word :
        /\ res = Helpers!Wrap(IF q0 = m0 THEN shifted - w ELSE shifted + w)
        /\ res = IF q0 = m0 THEN (IF shifted < w THEN shifted - w + Size ELSE shifted - w)
                 ELSE (IF shifted + w < Size THEN shifted + w ELSE shifted + w - Size)
  <2>1. CASE q0 = m0
    <3>1. Helpers!Wrap(shifted - w) = IF shifted < w THEN shifted - w + Size ELSE shifted - w
      BY WrapNear, Sizes DEF Word
    <3>2. (IF shifted < w THEN shifted - w + Size ELSE shifted - w) \in Word
      BY Sizes DEF Word
    <3>3. QED
      BY <2>1, <3>1, <3>2
  <2>2. CASE q0 # m0
    <3>1. Helpers!Wrap(shifted + w) = IF shifted + w < Size THEN shifted + w ELSE shifted + w - Size
      BY WrapNear, Sizes DEF Word
    <3>2. (IF shifted + w < Size THEN shifted + w ELSE shifted + w - Size) \in Word
      BY Sizes DEF Word
    <3>3. QED
      BY <2>2, <3>1, <3>2
  <2>3. QED
    BY <2>1, <2>2
<1>4. PICK carry \in {0, 1} : carry = IF q0 = m0 THEN (IF res > shifted THEN 1 ELSE 0)
                                         ELSE (IF res < shifted THEN 1 ELSE 0)
  OBVIOUS
<1>5. PICK newQ \in {0, 1} :
        newQ = IF m0 = 0 THEN (IF top = 1 THEN 1 - carry ELSE carry)
               ELSE 1 - (IF top = 1 THEN 1 - carry ELSE carry)
  OBVIOUS
<1>6. z = [res |-> res, q |-> newQ, t |-> IF newQ = m0 THEN 1 ELSE 0]
  BY <1>1, <1>2, <1>3, <1>4, <1>5 DEF Helpers!Div1, Helpers!Flag
<1> HIDE DEF z
<1>7. carry = IF q0 = m0 THEN (IF shifted < w THEN 1 ELSE 0)
              ELSE (IF shifted + w < Size THEN 0 ELSE 1)
  <2>1. w < Size /\ 0 <= w /\ shifted \in Int /\ res \in Int
    BY Sizes DEF Word
  <2>2. w > 0 \/ q0 = m0
    BY <1>0
  <2>3. QED
    BY <1>0, <1>3, <1>4, <2>1, <2>2
<1>8. PICK rest \in Int : rest = Restored(r, q0, m0, d) /\ Left(d, rest)
  BY <1>0 DEF Restored
<1>9. PICK partial \in Int :
        partial = (IF newQ = 1 THEN res - Size ELSE res) /\ partial = 2 * rest + bit - d
  <2>1. shifted \in Int /\ res \in Int
    BY DEF Word
  <2>2. (IF newQ = 1 THEN res - Size ELSE res) \in Int
    BY <1>0, <2>1
  <2>3. SUFFICES (IF newQ = 1 THEN res - Size ELSE res) = 2 * rest + bit - d
    BY <2>2
  <2>4. CASE m0 = 0 /\ q0 = 0
    <3>1. d > 0 /\ w = d /\ rest = r /\ 0 <= r /\ r < d
      BY <1>8, <2>4 DEF Left, Restored
    <3>2. CASE top = 0
      BY <1>0, <1>2, <1>3, <1>5, <1>7, <2>1, <2>4, <3>1, <3>2
    <3>3. CASE top = 1
      BY <1>0, <1>2, <1>3, <1>5, <1>7, <2>1, <2>4, <3>1, <3>3
    <3>4. QED
      BY <3>2, <3>3
  <2>5. CASE m0 = 0 /\ q0 = 1
    <3>1. d > 0 /\ w = d /\ rest = r - Size + d /\ 0 <= r - Size + d
      BY <1>8, <2>5 DEF Left, Restored
    <3>2. CASE top = 0
      BY <1>0, <1>2, <1>3, <1>5, <1>7, <2>1, <2>5, <3>1, <3>2
    <3>3. CASE top = 1
      BY <1>0, <1>2, <1>3, <1>5, <1>7, <2>1, <2>5, <3>1, <3>3
    <3>4. QED
      BY <3>2, <3>3
  <2>6. CASE m0 = 1 /\ q0 = 0
    <3>1. d < 0 /\ d >= -Half /\ w = d + Size /\ rest = r + d /\ r + d < 0
      BY <1>8, <2>6 DEF Left, Restored
    <3>2. top = 0
      BY <1>0, <1>1, <3>1
    <3>3. QED
      BY <1>0, <1>2, <1>3, <1>5, <1>7, <2>1, <2>6, <3>1, <3>2
  <2>7. CASE m0 = 1 /\ q0 = 1
    <3>1. d < 0 /\ d >= -Half /\ w = d + Size /\ rest = r - Size /\ d <= r - Size
      BY <1>8, <2>7 DEF Left, Restored
    <3>2. top = 1
      BY <1>0, <1>1, <3>1
    <3>3. QED
      BY <1>0, <1>2, <1>3, <1>5, <1>7, <2>1, <2>7, <3>1, <3>2
  <2>8. QED
    BY <2>4, <2>5, <2>6, <2>7
<1>10. Restored(res, newQ, m0, d) = IF newQ = m0 THEN 2 * rest + bit - d ELSE 2 * rest + bit
  <2>1. res \in Int
    BY DEF Word
  <2>2. QED
    BY <1>0, <1>9, <2>1 DEF Restored
<1>11. newQ = 0 <=> 2 * rest + bit - d >= 0
  <2>1. res \in Int /\ 0 <= res /\ res < Size
    BY <1>0 DEF Word
  <2>2. QED
    BY <1>0, <1>9, <2>1
<1>12. d > 0 <=> m0 = 0
  OBVIOUS
<1>13. Left(d, Restored(res, newQ, m0, d))
  BY <1>8, <1>10, <1>11, <1>12 DEF Left
<1>14. 2 * rest + bit = d * (IF newQ = m0 THEN 1 ELSE 0) + Restored(res, newQ, m0, d)
  BY <1>8, <1>10
<1>15. z.res = res /\ z.q = newQ /\ z.t = (IF newQ = m0 THEN 1 ELSE 0)
  BY <1>6
<1>16. /\ z.res \in Word /\ z.q \in {0, 1} /\ z.t \in {0, 1}
       /\ Left(d, Restored(z.res, z.q, m0, d))
       /\ 2 * Restored(r, q0, m0, d) + bit = d * z.t + Restored(z.res, z.q, m0, d)
  BY <1>8, <1>13, <1>14, <1>15
<1>17. QED
  BY <1>16 DEF z

\* h * v + f is k times d and e over.
Balances(h, v, f, d, k, e) == h * v + f = d * k + e

\* The dividend lo, n of whose bits are still to come: it is top * 2^n + bits, and the low
\* register holds those bits above the bits of the quotient that are known, low of v.  The
\* known bits of the quotient, 2 * known + t0, and the remainder give back the bits that went.
Reached(d, hi, lo, r, reg, q0, m0, t0, n, u, v, top, bits, low, known, sign) ==
  /\ u = Helpers!TwoTo[n] /\ u * v = Size /\ bits < u /\ low < v
  /\ lo = top * u + bits
  /\ reg = bits * v + low /\ known = sign * v + low
  /\ Balances(hi, v, top, d, 2 * known + t0, Restored(r, q0, m0, d))
  /\ Left(d, Restored(r, q0, m0, d))

Dividing(d, hi, lo, r, reg, q0, m0, t0, n) ==
  \E u, v, top, bits, low \in Nat, known, sign \in Int :
    Reached(d, hi, lo, r, reg, q0, m0, t0, n, u, v, top, bits, low, known, sign)

\* The divisor as an integer, and how its word and M stand for it.
StandsFor(d, w, m0) ==
  /\ d \in Int
  /\ m0 = 0 => w = d /\ d > 0
  /\ m0 = 1 => w = d + Size /\ d < 0 /\ d >= -Half

LEMMA RestoredInt ==
  ASSUME NEW r \in Word, NEW q0 \in {0, 1}, NEW m0 \in {0, 1}, NEW d \in Int
  PROVE  Restored(r, q0, m0, d) \in Int
<1>1. r \in Int /\ Size \in Int
  BY Sizes DEF Word
<1>2. QED
  BY <1>1 DEF Restored

\* A register of two parts, u times v being half the size of a word.
Holds(reg, u, v, bits, low) == u * v = Half /\ bits < 2 * u /\ low < v /\ reg = bits * v + low

\* The bits of a register that is shifted: the next bit of the dividend leaves it.
LEMMA ShiftedOut ==
  ASSUME NEW u \in Nat \ {0}, NEW v \in Nat \ {0}, NEW bits \in Nat, NEW low \in Nat,
         NEW reg \in Word, Holds(reg, u, v, bits, low)
  PROVE  \E bit \in {0, 1}, rest \in Nat :
           /\ bit = Helpers!Top(reg) /\ bits = bit * u + rest /\ rest < u
           /\ 2 * reg - bit * Size = rest * (2 * v) + 2 * low
<1>1. u * v \in Nat /\ Half = u * v /\ bits < 2 * u /\ low < v /\ reg = bits * v + low
  BY DEF Holds
<1>2. CASE bits >= u
  <2>1. PICK rest \in Nat : bits = u + rest /\ rest < u
    <3>1. bits - u \in Nat /\ bits = u + (bits - u) /\ bits - u < u
      BY <1>1, <1>2
    <3>2. QED
      BY <3>1
  <2>2. bits * v = u * v + rest * v /\ rest * v \in Nat
    BY <2>1
  <2>3. reg = Half + rest * v + low
    BY <1>1, <2>2
  <2>4. Helpers!Top(reg) = 1
    <3>1. reg >= Half
      BY <2>2, <2>3, Sizes
    <3>2. QED
      BY <3>1, TopBit DEF Word
  <2>5. 2 * reg - 1 * Size = rest * (2 * v) + 2 * low
    <3>1. PICK k \in Nat : k = rest * v
      BY <2>2
    <3>2. rest * (2 * v) = 2 * k
      BY <3>1
    <3>3. QED
      BY <2>3, <3>1, <3>2, Sizes
  <2>6. bits = 1 * u + rest
    BY <2>1
  <2>7. QED
    BY <2>1, <2>4, <2>5, <2>6
<1>3. CASE bits < u
  <2>1. PICK k \in Nat : k = bits * v
    OBVIOUS
  <2>2. k + v <= Half
    <3>1. PICK j \in Nat : u = bits + 1 + j
      <4>1. u - bits - 1 \in Nat /\ u = bits + 1 + (u - bits - 1)
        BY <1>3
      <4>2. QED
        BY <4>1
    <3>2. u * v = bits * v + v + j * v /\ j * v \in Nat
      BY <3>1
    <3>3. QED
      BY <1>1, <2>1, <3>2
  <2>3. Helpers!Top(reg) = 0
    <3>1. reg < Half
      BY <1>1, <2>1, <2>2, Sizes
    <3>2. QED
      BY <3>1, TopBit DEF Word
  <2>4. 2 * reg - 0 * Size = bits * (2 * v) + 2 * low
    <3>1. bits * (2 * v) = 2 * k
      BY <2>1
    <3>2. QED
      BY <1>1, <2>1, <3>1, Sizes
  <2>5. bits = 0 * u + bits
    OBVIOUS
  <2>6. QED
    BY <1>3, <2>3, <2>4, <2>5
<1>4. QED
  BY <1>2, <1>3

\* The identity that one step of the loop keeps.
LEMMA CarriedOn ==
  ASSUME NEW h \in Int, NEW v \in Nat, NEW top \in Nat, NEW bit \in {0, 1}, NEW d \in Int, NEW k \in Int,
         NEW t1 \in {0, 1}, NEW r0 \in Int, NEW r1 \in Int,
         Balances(h, v, top, d, k, r0), Balances(2, r0, bit, d, t1, r1)
  PROVE  Balances(h, 2 * v, 2 * top + bit, d, 2 * k + t1, r1)
<1>1. PICK g \in Int, e \in Int, f \in Int : g = h * v /\ e = d * k /\ f = d * t1
  OBVIOUS
<1>2. h * (2 * v) = 2 * g /\ d * (2 * k + t1) = 2 * e + f
  BY <1>1
<1>3. g + top = e + r0 /\ 2 * r0 + bit = f + r1
  BY <1>1 DEF Balances
<1>4. h * (2 * v) + (2 * top + bit) = d * (2 * k + t1) + r1
  BY <1>1, <1>2, <1>3
<1>5. QED
  BY <1>4 DEF Balances

\* ROTCL and DIV1 carry the division on.
Underway(d, hi, lo, r, reg, q0, m0, t0, n, w) ==
  /\ hi \in Int /\ lo \in Word /\ r \in Word /\ reg \in Word /\ w \in Word /\ n \in 0..W
  /\ q0 \in {0, 1} /\ m0 \in {0, 1} /\ t0 \in {0, 1}
  /\ StandsFor(d, w, m0) /\ Dividing(d, hi, lo, r, reg, q0, m0, t0, n)

GoesOn(d, hi, lo, r, reg, q0, m0, t0, n, w) ==
  LET shift == Helpers!Rotcl(reg, t0)
      z     == Helpers!Div1(r, w, q0, m0, shift.t) IN
  /\ shift.res \in Word /\ z.res \in Word /\ z.q \in {0, 1} /\ z.t \in {0, 1}
  /\ Dividing(d, hi, lo, z.res, shift.res, z.q, m0, z.t, n - 1)

LEMMA DividingOn ==
  ASSUME NEW d, NEW hi, NEW lo, NEW r, NEW reg, NEW q0, NEW m0, NEW t0, NEW n, NEW w,
         Underway(d, hi, lo, r, reg, q0, m0, t0, n, w), n # 0
  PROVE  GoesOn(d, hi, lo, r, reg, q0, m0, t0, n, w)
<1> USE DEF Underway
<1> DEFINE shift == Helpers!Rotcl(reg, t0)
           z     == Helpers!Div1(r, w, q0, m0, shift.t)
<1>1. d \in Int
  BY DEF StandsFor
<1>2. PICK u, v, top, bits, low \in Nat, known, sign \in Int :
        Reached(d, hi, lo, r, reg, q0, m0, t0, n, u, v, top, bits, low, known, sign)
  BY DEF Dividing
<1>20. /\ u = Helpers!TwoTo[n] /\ u * v = Size /\ bits < u /\ low < v
       /\ lo = top * u + bits
       /\ reg = bits * v + low /\ known = sign * v + low
       /\ Balances(hi, v, top, d, 2 * known + t0, Restored(r, q0, m0, d))
       /\ Left(d, Restored(r, q0, m0, d))
  BY <1>2 DEF Reached
<1>3. PICK u1 \in Nat \ {0} : u1 = Helpers!TwoTo[n - 1] /\ u = 2 * u1
  <2>1. W \in Nat
    BY GuestMachineAssumption DEF GuestMachineAssumption
  <2>2. n \in 1..(2 * W) /\ n - 1 \in 0..(2 * W)
    BY <2>1
  <2>3. QED
    BY <1>20, <2>2, Powers
<1>4. v \in Nat \ {0} /\ u1 * v = Half /\ bits < 2 * u1
  <2>1. v # 0
    BY <1>20, Sizes
  <2>2. PICK k \in Nat : k = u1 * v
    OBVIOUS
  <2>3. u * v = 2 * k
    BY <1>3, <2>2
  <2>4. u1 * v = Half
    BY <1>20, <2>2, <2>3, Sizes
  <2>5. QED
    BY <1>20, <1>3, <2>1, <2>4
<1>5. PICK bit \in {0, 1}, rest \in Nat :
        /\ bit = Helpers!Top(reg) /\ bits = bit * u1 + rest /\ rest < u1
        /\ 2 * reg - bit * Size = rest * (2 * v) + 2 * low
  <2>1. Holds(reg, u1, v, bits, low)
    BY <1>20, <1>4 DEF Holds
  <2>2. v \in Nat \ {0} /\ u1 \in Nat \ {0} /\ bits \in Nat /\ low \in Nat
    BY <1>4
  <2>3. QED
    BY <2>1, <2>2, ShiftedOut
<1>6. shift = [res |-> 2 * reg + t0 - Helpers!Top(reg) * Size, t |-> Helpers!Top(reg)]
      /\ 2 * reg + t0 - Helpers!Top(reg) * Size \in Word
  BY Rotated
<1> HIDE DEF shift
<1>7. PICK reg1 \in Word : reg1 = 2 * reg + t0 - bit * Size /\ shift = [res |-> reg1, t |-> bit]
  BY <1>5, <1>6
<1>8. /\ z.res \in Word /\ z.q \in {0, 1} /\ z.t \in {0, 1}
      /\ Left(d, Restored(z.res, z.q, m0, d))
      /\ 2 * Restored(r, q0, m0, d) + bit = d * z.t + Restored(z.res, z.q, m0, d)
  <2>1. shift.t = bit
    BY <1>7
  <2>2. /\ m0 = 0 => w = d /\ d > 0
        /\ m0 = 1 => w = d + Size /\ d < 0 /\ d >= -Half
    BY DEF StandsFor
  <2>3. LET y == Helpers!Div1(r, w, q0, m0, bit) IN
        /\ y.res \in Word /\ y.q \in {0, 1} /\ y.t \in {0, 1}
        /\ Left(d, Restored(y.res, y.q, m0, d))
        /\ 2 * Restored(r, q0, m0, d) + bit = d * y.t + Restored(y.res, y.q, m0, d)
    <3>1. Left(d, Restored(r, q0, m0, d))
      BY <1>20
    <3>2. QED
      BY <1>1, <2>2, <3>1, DivideOnce
  <2>4. QED
    BY <2>1, <2>3
<1> HIDE DEF z
<1>9. PICK r0, r1 \in Int : r0 = Restored(r, q0, m0, d) /\ r1 = Restored(z.res, z.q, m0, d)
  BY <1>1, <1>8, RestoredInt
<1>10. Balances(hi, 2 * v, 2 * top + bit, d, 2 * (2 * known + t0) + z.t, r1)
  <2>1. Balances(hi, v, top, d, 2 * known + t0, r0)
    BY <1>20, <1>9
  <2>2. Balances(2, r0, bit, d, z.t, r1)
    BY <1>8, <1>9 DEF Balances
  <2>3. z.t \in {0, 1}
    BY <1>8
  <2>4. PICK k \in Int : k = 2 * known + t0
    OBVIOUS
  <2>5. Balances(hi, v, top, d, k, r0)
    BY <2>1, <2>4
  <2>6. Balances(hi, 2 * v, 2 * top + bit, d, 2 * k + z.t, r1)
    BY <1>1, <2>2, <2>3, <2>5, CarriedOn
  <2>7. QED
    BY <2>4, <2>6
<1>11. /\ u1 * (2 * v) = Size /\ rest < u1 /\ 2 * low + t0 < 2 * v
       /\ lo = (2 * top + bit) * u1 + rest
       /\ reg1 = rest * (2 * v) + (2 * low + t0)
       /\ 2 * known + t0 = sign * (2 * v) + (2 * low + t0)
  <2>1. u1 * (2 * v) = Size
    <3>1. PICK k \in Nat : k = u1 * v
      OBVIOUS
    <3>2. u1 * (2 * v) = 2 * k
      BY <3>1
    <3>3. QED
      BY <1>4, <3>1, <3>2, Sizes
  <2>2. lo = (2 * top + bit) * u1 + rest
    <3>1. PICK k \in Nat, i \in Nat : k = top * u1 /\ i = bit * u1
      OBVIOUS
    <3>2. top * u = 2 * k
      BY <1>3, <3>1
    <3>3. (2 * top + bit) * u1 = 2 * k + i
      BY <3>1
    <3>4. QED
      BY <1>20, <1>5, <3>1, <3>2, <3>3
  <2>3. 2 * known + t0 = sign * (2 * v) + (2 * low + t0)
    <3>1. PICK k \in Int : k = sign * v
      OBVIOUS
    <3>2. sign * (2 * v) = 2 * k
      BY <3>1
    <3>3. QED
      BY <1>20, <3>1, <3>2
  <2>4. rest < u1 /\ 2 * low + t0 < 2 * v
    BY <1>20, <1>5
  <2>5. reg1 = rest * (2 * v) + (2 * low + t0)
    <3>1. PICK k \in Nat, e \in Int : k = rest * (2 * v) /\ e = bit * Size
      BY Sizes
    <3>2. 2 * reg - e = k + 2 * low /\ reg1 = 2 * reg + t0 - e /\ reg \in Int
      BY <1>5, <1>7, <3>1 DEF Word
    <3>3. QED
      BY <3>1, <3>2
  <2>6. QED
    BY <2>1, <2>2, <2>3, <2>4, <2>5
<1>12. Dividing(d, hi, lo, z.res, reg1, z.q, m0, z.t, n - 1)
  <2>1. u1 \in Nat /\ 2 * v \in Nat /\ 2 * top + bit \in Nat /\ 2 * low + t0 \in Nat /\ 2 * known + t0 \in Int
    OBVIOUS
  <2>2. /\ u1 = Helpers!TwoTo[n - 1] /\ u1 * (2 * v) = Size /\ rest < u1 /\ 2 * low + t0 < 2 * v
        /\ lo = (2 * top + bit) * u1 + rest
        /\ reg1 = rest * (2 * v) + (2 * low + t0)
        /\ 2 * known + t0 = sign * (2 * v) + (2 * low + t0)
        /\ Balances(hi, 2 * v, 2 * top + bit, d, 2 * (2 * known + t0) + z.t, Restored(z.res, z.q, m0, d))
        /\ Left(d, Restored(z.res, z.q, m0, d))
    BY <1>3, <1>8, <1>9, <1>10, <1>11
  <2>3. PICK v2 \in Nat, top2 \in Nat, low2 \in Nat, known2 \in Int :
          v2 = 2 * v /\ top2 = 2 * top + bit /\ low2 = 2 * low + t0 /\ known2 = 2 * known + t0
    BY <2>1
  <2>4. Reached(d, hi, lo, z.res, reg1, z.q, m0, z.t, n - 1, u1, v2, top2, rest, low2, known2, sign)
    BY <2>2, <2>3 DEF Reached
  <2>5. u1 \in Nat /\ rest \in Nat /\ sign \in Int
    BY <1>5
  <2>6. QED
    BY <2>3, <2>4, <2>5 DEF Dividing
<1>13. shift.res = reg1
  BY <1>7
<1>14. shift.res \in Word /\ z.res \in Word /\ z.q \in {0, 1} /\ z.t \in {0, 1}
       /\ Dividing(d, hi, lo, z.res, shift.res, z.q, m0, z.t, n - 1)
  BY <1>8, <1>12, <1>13
<1>15. QED
  BY <1>14 DEF z, shift, GoesOn

-------------------------------------------------------------------------------
(* The invariant of the loops. *)

DivisorOf(y, s) == IF s = 1 THEN Helpers!Signed(y) ELSE y
LowOf(z, s)     == IF s = 1 THEN Helpers!Subc(z, 0, Helpers!Top(z)).res ELSE z
HighOf(h, z, s) == IF s = 1 THEN -Helpers!Top(z) ELSE h

HelpersTyped ==
  /\ a \in Word /\ b \in Word /\ high \in Word /\ rn \in Word /\ rl \in Word
  /\ q \in {0, 1} /\ m \in {0, 1} /\ t \in {0, 1} /\ signed \in {0, 1} /\ left \in 0..W
  /\ signed = 0 => high < b
  /\ signed = 1 => b # 0

DivisionInv ==
  /\ HelpersTyped
  /\ StandsFor(DivisorOf(b, signed), b, m)
  /\ Dividing(DivisorOf(b, signed), HighOf(high, a, signed), LowOf(a, signed), rn, rl, q, m, t, left)

\* The ones' complement of the dividend, and its bits above the word.
LEMMA DividendOf ==
  ASSUME NEW z \in Word
  PROVE  /\ LowOf(z, 1) \in Word /\ HighOf(0, z, 1) \in Int
         /\ HighOf(0, z, 1) = -Helpers!Top(z)
         /\ HighOf(0, z, 1) * Size + LowOf(z, 1) = Helpers!Signed(z) - Helpers!Top(z)
<1>1. PICK top \in {0, 1} : top = Helpers!Top(z) /\ top = (IF z >= Half THEN 1 ELSE 0)
                         /\ Helpers!Signed(z) = IF z >= Half THEN z - Size ELSE z
  BY TopBit, Sizes DEF Word
<1>2. PICK res \in Word, borrow \in {0, 1} : res = LowOf(z, 1) /\ z - 0 - top = res - Size * borrow
  <2>1. 0 \in Word
    BY Sizes DEF Word
  <2>2. /\ Helpers!Subc(z, 0, top).res \in Word /\ Helpers!Subc(z, 0, top).t \in {0, 1}
        /\ z - 0 - top = Helpers!Subc(z, 0, top).res - Size * Helpers!Subc(z, 0, top).t
    BY <2>1, SubBorrows
  <2>3. LowOf(z, 1) = Helpers!Subc(z, 0, top).res
    BY <1>1 DEF LowOf
  <2>4. QED
    BY <2>2, <2>3
<1>3. res = z - top
  <2>1. z \in Int /\ z >= top /\ z < Size /\ res \in Int /\ res < Size
    BY <1>1, Sizes DEF Word
  <2>2. CASE borrow = 0
    BY <1>2, <2>1, <2>2, Sizes
  <2>3. CASE borrow = 1
    BY <1>2, <2>1, <2>3, Sizes
  <2>4. QED
    BY <2>2, <2>3
<1>4. HighOf(0, z, 1) = -top
  BY <1>1 DEF HighOf
<1>5. (-top) * Size + res = Helpers!Signed(z) - top
  <2>1. z \in Int
    BY DEF Word
  <2>2. CASE top = 0
    BY <1>1, <1>3, <2>1, <2>2, Sizes
  <2>3. CASE top = 1
    BY <1>1, <1>3, <2>1, <2>3, Sizes
  <2>4. QED
    BY <2>2, <2>3
<1>6. HighOf(0, z, 1) * Size + LowOf(z, 1) = Helpers!Signed(z) - Helpers!Top(z)
  BY <1>1, <1>2, <1>4, <1>5, Zenon
<1>7. HighOf(0, z, 1) \in Int /\ LowOf(z, 1) \in Word
  BY <1>2, <1>4
<1>8. QED
  BY <1>1, <1>4, <1>6, <1>7, Zenon

\* A division with every bit of the dividend still to come.
LEMMA Starts ==
  ASSUME NEW d \in Int, NEW hi \in Int, NEW lo \in Word, NEW r \in Word, NEW q0 \in {0, 1}, NEW m0 \in {0, 1},
         NEW t0 \in {0, 1},
         hi = (IF t0 = 1 THEN -d ELSE 0) + Restored(r, q0, m0, d), Left(d, Restored(r, q0, m0, d))
  PROVE  Dividing(d, hi, lo, r, lo, q0, m0, t0, W)
<1>1. PICK e \in Int : e = Restored(r, q0, m0, d)
  BY RestoredInt
<1>2. PICK u \in Nat : u = Helpers!TwoTo[W] /\ u = Size
  BY Sizes DEF Size
<1>3. PICK k \in Int : k = -t0
  OBVIOUS
<1>4. hi * 1 + 0 = d * (2 * k + t0) + e
  <2>1. CASE t0 = 0
    BY <1>1, <1>3, <2>1
  <2>2. CASE t0 = 1
    BY <1>1, <1>3, <2>2
  <2>3. QED
    BY <2>1, <2>2
<1>5. /\ u * 1 = Size /\ lo < u /\ 0 < 1 /\ lo = 0 * u + lo /\ lo = lo * 1 + 0 /\ k = k * 1 + 0 /\ lo \in Nat
  BY <1>2, Sizes DEF Word
<1>6. Reached(d, hi, lo, r, lo, q0, m0, t0, W, u, 1, 0, lo, 0, k, k)
  BY <1>1, <1>2, <1>4, <1>5 DEF Reached, Balances
<1>7. QED
  BY <1>5, <1>6 DEF Dividing

LEMMA DivisionInit ==
  Helpers!Init => DivisionInv
<1> SUFFICES ASSUME Helpers!Init PROVE DivisionInv
  OBVIOUS
<1>1. /\ a \in Word /\ b \in Word /\ high \in Word /\ left = W
      /\ Helpers!Unsigned \/ Helpers!SignedStart
  BY Sizes DEF Helpers!Init, Word
<1>2. W \in Nat \ {0} /\ left \in 0..W
  BY <1>1, GuestMachineAssumption DEF GuestMachineAssumption
<1>3. 0 \in Word /\ Size - 1 \in Word /\ Size \in Nat /\ Half \in Nat \ {0} /\ Size = 2 * Half
  BY Sizes DEF Word
<1>4. CASE Helpers!Unsigned
  <2>1. /\ high < b /\ signed = 0 /\ rn = high /\ rl = a /\ q = 0 /\ m = 0 /\ t = 0
    BY <1>4 DEF Helpers!Unsigned
  <2>2. b \in Int /\ high \in Int /\ 0 <= high /\ b > 0
    BY <1>1, <2>1 DEF Word
  <2>3. HelpersTyped
    BY <1>1, <1>2, <2>1 DEF HelpersTyped
  <2>4. DivisorOf(b, signed) = b /\ HighOf(high, a, signed) = high /\ LowOf(a, signed) = a
    BY <2>1 DEF DivisorOf, HighOf, LowOf
  <2>5. StandsFor(b, b, 0)
    BY <2>2 DEF StandsFor
  <2>6. Restored(high, 0, 0, b) = high
    BY DEF Restored
  <2>7. Left(b, Restored(high, 0, 0, b))
    BY <2>1, <2>2, <2>6 DEF Left
  <2>8. high = (IF 0 = 1 THEN -b ELSE 0) + Restored(high, 0, 0, b)
    BY <2>2, <2>6
  <2>9. 0 \in {0, 1}
    OBVIOUS
  <2>10. Dividing(b, high, a, high, a, 0, 0, 0, W)
    BY <1>1, <2>2, <2>7, <2>8, <2>9, Starts
  <2>11. QED
    BY <1>1, <2>1, <2>3, <2>4, <2>5, <2>10 DEF DivisionInv
<1>5. CASE Helpers!SignedStart
  <2>1. PICK top \in {0, 1} : top = Helpers!Top(a)
    BY <1>1, TopBit DEF Word
  <2>2. PICK ext \in Word : ext = IF top = 1 THEN Size - 1 ELSE 0
    BY <1>3
  <2>3. Helpers!Top(ext) = top
    <3>1. CASE top = 1
      <4>1. ext >= Half
        BY <1>3, <2>2, <3>1
      <4>2. QED
        BY <2>2, <3>1, <4>1, TopBit DEF Word
    <3>2. CASE top = 0
      <4>1. ext < Half
        BY <1>3, <2>2, <3>2
      <4>2. QED
        BY <2>2, <3>2, <4>1, TopBit DEF Word
    <3>3. QED
      BY <3>1, <3>2
  <2>4. PICK m0 \in {0, 1} : m0 = Helpers!Top(b)
    BY <1>1, TopBit DEF Word
  <2>5. PICK t0 \in {0, 1} : t0 = IF top = m0 THEN 0 ELSE 1
    OBVIOUS
  <2>6. /\ high = 0 /\ signed = 1 /\ b # 0 /\ rn = ext /\ rl = LowOf(a, 1) /\ q = top /\ m = m0 /\ t = t0
    BY <1>5, <2>1, <2>2, <2>3, <2>4, <2>5 DEF Helpers!SignedStart, LowOf, Size
  <2>7. PICK lo \in Word, hi \in Int : lo = LowOf(a, 1) /\ hi = HighOf(0, a, 1) /\ hi = -top
    BY <1>1, <2>1, DividendOf
  <2>8. HelpersTyped
    BY <1>1, <1>2, <1>3, <2>6, <2>7 DEF HelpersTyped
  <2>9. PICK d \in Int : /\ d = Helpers!Signed(b) /\ d = (IF m0 = 1 THEN b - Size ELSE b)
                         /\ m0 = 1 => b >= Half
                         /\ b \in Int /\ 0 < b /\ b < Size
    BY <1>1, <1>3, <2>4, <2>6, TopBit DEF Word
  <2>10. StandsFor(d, b, m0)
    BY <1>3, <2>9 DEF StandsFor
  <2>11. Restored(ext, top, m0, d) = IF top = 0 THEN (IF m0 = 0 THEN 0 ELSE d)
                                     ELSE (IF m0 = 0 THEN d - 1 ELSE -1)
    BY <1>3, <2>2, <2>9 DEF Restored
  <2>12. Left(d, Restored(ext, top, m0, d))
    BY <1>3, <2>9, <2>11 DEF Left
  <2>13. hi = (IF t0 = 1 THEN -d ELSE 0) + Restored(ext, top, m0, d)
    BY <2>5, <2>7, <2>9, <2>11
  <2>14. Dividing(d, hi, lo, ext, lo, top, m0, t0, W)
    BY <2>12, <2>13, Starts
  <2>15. DivisorOf(b, signed) = d /\ HighOf(high, a, signed) = hi /\ LowOf(a, signed) = lo
    BY <2>6, <2>7, <2>9 DEF DivisorOf
  <2>16. QED
    BY <1>1, <2>6, <2>7, <2>8, <2>10, <2>14, <2>15 DEF DivisionInv
<1>6. QED
  BY <1>1, <1>4, <1>5

LEMMA DivisionStep ==
  DivisionInv /\ Helpers!Next => DivisionInv'
<1> SUFFICES ASSUME DivisionInv, Helpers!Next PROVE DivisionInv'
  OBVIOUS
<1>1. /\ a \in Word /\ b \in Word /\ high \in Word /\ rn \in Word /\ rl \in Word
      /\ q \in {0, 1} /\ m \in {0, 1} /\ t \in {0, 1} /\ signed \in {0, 1} /\ left \in 0..W
      /\ signed = 0 => high < b
      /\ signed = 1 => b # 0
  BY DEF DivisionInv, HelpersTyped
<1>2. PICK d : d = DivisorOf(b, signed) /\ StandsFor(d, b, m)
  BY DEF DivisionInv
<1>3. PICK hi \in Int, lo \in Word : hi = HighOf(high, a, signed) /\ lo = LowOf(a, signed)
  <2>1. CASE signed = 1
    <3>1. LowOf(a, 1) \in Word /\ HighOf(0, a, 1) \in Int /\ HighOf(high, a, 1) = HighOf(0, a, 1)
      BY <1>1, DividendOf DEF HighOf
    <3>2. QED
      BY <2>1, <3>1
  <2>2. CASE signed = 0
    <3>1. LowOf(a, 0) = a /\ HighOf(high, a, 0) = high /\ high \in Int
      BY <1>1 DEF LowOf, HighOf, Word
    <3>2. QED
      BY <1>1, <2>2, <3>1
  <2>3. QED
    BY <1>1, <2>1, <2>2
<1>4. Dividing(d, hi, lo, rn, rl, q, m, t, left)
  BY <1>2, <1>3 DEF DivisionInv
<1>5. /\ left > 0 /\ left' = left - 1
      /\ rl' = Helpers!Rotcl(rl, t).res
      /\ rn' = Helpers!Div1(rn, b, q, m, Helpers!Rotcl(rl, t).t).res
      /\ q' = Helpers!Div1(rn, b, q, m, Helpers!Rotcl(rl, t).t).q
      /\ t' = Helpers!Div1(rn, b, q, m, Helpers!Rotcl(rl, t).t).t
      /\ a' = a /\ b' = b /\ high' = high /\ signed' = signed /\ m' = m
  BY DEF Helpers!Next, Helpers!DivideStep
<1>6. left \in 1..W /\ left - 1 \in 0..W
  <2>1. W \in Nat
    BY GuestMachineAssumption DEF GuestMachineAssumption
  <2>2. QED
    BY <1>1, <1>5, <2>1
<1>7. GoesOn(d, hi, lo, rn, rl, q, m, t, left, b)
  <2>1. Underway(d, hi, lo, rn, rl, q, m, t, left, b)
    BY <1>1, <1>2, <1>4, <1>6 DEF Underway
  <2>2. left # 0
    BY <1>6
  <2>3. QED
    BY <2>1, <2>2, DividingOn
<1>8. /\ rl' \in Word /\ rn' \in Word /\ q' \in {0, 1} /\ t' \in {0, 1}
      /\ Dividing(d, hi, lo, rn', rl', q', m, t', left')
  BY <1>5, <1>7 DEF GoesOn
<1>9. HelpersTyped'
  BY <1>1, <1>5, <1>6, <1>8 DEF HelpersTyped, Word
<1>10. d = DivisorOf(b', signed') /\ hi = HighOf(high', a', signed') /\ lo = LowOf(a', signed')
  BY <1>2, <1>3, <1>5
<1>11. StandsFor(DivisorOf(b', signed'), b', m')
  BY <1>2, <1>5, <1>10
<1>12. Dividing(DivisorOf(b', signed'), HighOf(high', a', signed'), LowOf(a', signed'), rn', rl', q', m', t', left')
  BY <1>5, <1>8, <1>10
<1>13. QED
  BY <1>9, <1>11, <1>12 DEF DivisionInv, DivisorOf, HighOf, LowOf

\* All bits taken: the register and the quotient agree on a word, and the dividend is divided.
LEMMA AllTaken ==
  ASSUME NEW d, NEW hi, NEW lo, NEW r, NEW reg, NEW q0, NEW m0, NEW t0, NEW n, NEW w,
         Underway(d, hi, lo, r, reg, q0, m0, t0, n, w), n = 0
  PROVE  \E known, sign, e \in Int :
           /\ hi * Size + lo = d * (2 * known + t0) + e /\ Left(d, e)
           /\ known = sign * Size + reg
<1> USE DEF Underway
<1>1. PICK u, v, top, bits, low \in Nat, known, sign \in Int :
        Reached(d, hi, lo, r, reg, q0, m0, t0, n, u, v, top, bits, low, known, sign)
  BY DEF Dividing
<1>2. PICK e \in Int : e = Restored(r, q0, m0, d)
  BY RestoredInt DEF StandsFor
<1>3. /\ u * v = Size /\ bits < u /\ low < v
      /\ lo = top * u + bits
      /\ reg = bits * v + low /\ known = sign * v + low
      /\ hi * v + top = d * (2 * known + t0) + e
      /\ Left(d, e)
  BY <1>1, <1>2 DEF Reached, Balances
<1>4. u = 1
  BY <1>1, Powers DEF Reached
<1>5. v = Size /\ bits = 0
  BY <1>3, <1>4
<1>6. lo = top /\ reg = low
  BY <1>3, <1>4, <1>5
<1>7. QED
  BY <1>3, <1>5, <1>6

\* What the last ROTCL leaves: the quotient's word.
LEMMA LastShift ==
  ASSUME NEW reg \in Word, NEW t0 \in {0, 1}, NEW known \in Int, NEW sign \in Int, known = sign * Size + reg
  PROVE  /\ Helpers!Rotcl(reg, t0).res \in Word /\ Helpers!Rotcl(reg, t0).t = Helpers!Top(reg)
         /\ \E k \in Int : 2 * known + t0 = k * Size + Helpers!Rotcl(reg, t0).res
<1>1. /\ Helpers!Rotcl(reg, t0) = [res |-> 2 * reg + t0 - Helpers!Top(reg) * Size, t |-> Helpers!Top(reg)]
      /\ Helpers!Top(reg) \in {0, 1}
      /\ 2 * reg + t0 - Helpers!Top(reg) * Size \in Word
  BY Rotated
<1>2. PICK top \in {0, 1} : top = Helpers!Top(reg)
  BY <1>1
<1>3. PICK res \in Word : res = 2 * reg + t0 - top * Size /\ res = Helpers!Rotcl(reg, t0).res
  BY <1>1, <1>2
<1>4. 2 * known + t0 = (2 * sign + top) * Size + res
  <2>1. PICK g \in Int, e \in Int : g = sign * Size /\ e = top * Size
    BY Sizes
  <2>2. (2 * sign + top) * Size = 2 * g + e
    BY <2>1, Sizes
  <2>3. reg \in Int /\ res \in Int
    BY DEF Word
  <2>4. QED
    BY <1>3, <2>1, <2>2, <2>3
<1>5. 2 * sign + top \in Int
  OBVIOUS
<1>6. QED
  BY <1>1, <1>3, <1>4, <1>5

\* The unsigned loop's quotient, which fits a word because the divisor is above the high word.
LEMMA UnsignedQuotient ==
  ASSUME NEW d \in Word, NEW hi \in Word, NEW lo \in Word, hi < d, NEW k \in Int, NEW e \in Int,
         hi * Size + lo = d * k + e, Left(d, e)
  PROVE  k \in Word /\ (hi * Size + lo) \div d = k
<1>1. d \in Nat \ {0} /\ hi \in Nat /\ lo \in Nat /\ lo < Size /\ Size \in Nat \ {0}
  BY Sizes DEF Word
<1>2. 0 <= e /\ e < d
  BY <1>1 DEF Left
<1>3. PICK n \in Nat : n = hi * Size + lo
  BY <1>1
<1>4. k >= 0
  <2>1. SUFFICES ASSUME k <= -1 PROVE FALSE
    OBVIOUS
  <2>2. d * k <= -d
    BY <1>1, <2>1
  <2>3. PICK g \in Int : g = d * k
    BY <1>1
  <2>4. QED
    BY <1>1, <1>2, <1>3, <2>2, <2>3
<1>5. k < Size
  <2>1. SUFFICES ASSUME k >= Size PROVE FALSE
    BY <1>1
  <2>2. PICK g \in Int, f \in Int, i \in Int : g = d * k /\ f = d * Size /\ i = hi * Size
    BY <1>1
  <2>3. g >= f
    BY <1>1, <2>1, <2>2
  <2>4. i + Size <= f
    <3>1. PICK j \in Nat : d = hi + 1 + j
      <4>1. d - hi - 1 \in Nat /\ d = hi + 1 + (d - hi - 1)
        BY <1>1
      <4>2. QED
        BY <4>1
    <3>2. d * Size = hi * Size + Size + j * Size /\ j * Size >= 0
      BY <1>1, <3>1
    <3>3. PICK w \in Int : w = j * Size /\ w >= 0
      BY <1>1, <3>2
    <3>4. f = i + Size + w
      BY <2>2, <3>2, <3>3
    <3>5. QED
      BY <1>1, <3>3, <3>4
  <2>5. i + lo = g + e
    BY <2>2
  <2>6. QED
    BY <1>1, <1>2, <2>3, <2>4, <2>5
<1>6. n \div d = k
  <2>1. k \in Nat /\ e \in 0..(d - 1) /\ n = d * k + e
    BY <1>1, <1>2, <1>3, <1>4
  <2>2. QED
    BY <1>1, <2>1, Divided
<1>7. QED
  BY <1>1, <1>3, <1>4, <1>5, <1>6 DEF Word

\* The signed loop divides z, or z - 1 if z is negative; its quotient is one too small if negative.
LEMMA SignedQuotient ==
  ASSUME NEW z \in Int, NEW y \in Int, y # 0, NEW k \in Int, NEW e \in Int,
         z - (IF z < 0 THEN 1 ELSE 0) = y * k + e, Left(y, e), -Half <= z, z < Half
  PROVE  /\ Helpers!Truncated(z, y) = IF k < 0 THEN k + 1 ELSE k
         /\ -Half - 1 <= k /\ k <= Half
<1> DEFINE abs(i) == IF i < 0 THEN -i ELSE i
<1>1. PICK p \in Nat \ {0} : p = abs(y)
  OBVIOUS
<1>2. PICK n \in Nat : n = abs(z)
  OBVIOUS
<1>3. Helpers!Truncated(z, y) = IF (z < 0) # (y < 0) THEN -(n \div p) ELSE n \div p
  BY <1>1, <1>2 DEF Helpers!Truncated
<1>4. PICK g \in Int : g = p * k
  OBVIOUS
<1>5. PICK mag \in Int, rest \in 0..(p - 1) :
        /\ n = p * mag + rest
        /\ k = IF (z < 0) # (y < 0) THEN -mag - 1 ELSE mag
  <2>1. CASE z >= 0 /\ y > 0
    <3>1. n = p * k + e /\ e \in 0..(p - 1)
      BY <1>1, <1>2, <2>1 DEF Left
    <3>2. QED
      BY <2>1, <3>1
  <2>2. CASE z >= 0 /\ y < 0
    <3>1. y = -p /\ y * k = -g
      BY <1>1, <1>4, <2>2
    <3>2. n = -g + e /\ p + e \in 0..(p - 1)
      BY <1>1, <1>2, <2>2, <3>1 DEF Left
    <3>3. p * (-k - 1) = -g - p
      BY <1>4
    <3>4. n = p * (-k - 1) + (p + e)
      BY <3>2, <3>3
    <3>5. QED
      BY <2>2, <3>2, <3>4
  <2>3. CASE z < 0 /\ y > 0
    <3>1. z - 1 = g + e /\ p - 1 - e \in 0..(p - 1)
      BY <1>1, <1>4, <2>3 DEF Left
    <3>2. p * (-k - 1) = -g - p
      BY <1>4
    <3>3. n = p * (-k - 1) + (p - 1 - e)
      BY <1>2, <2>3, <3>1, <3>2
    <3>4. QED
      BY <2>3, <3>1, <3>3
  <2>4. CASE z < 0 /\ y < 0
    <3>1. y = -p /\ y * k = -g
      BY <1>1, <1>4, <2>4
    <3>2. z - 1 = -g + e /\ -1 - e \in 0..(p - 1)
      BY <1>1, <2>4, <3>1 DEF Left
    <3>3. n = p * k + (-1 - e)
      BY <1>2, <1>4, <2>4, <3>2
    <3>4. QED
      BY <2>4, <3>2, <3>3
  <2>5. QED
    BY <2>1, <2>2, <2>3, <2>4
<1>6. mag >= 0
  <2>1. SUFFICES ASSUME mag <= -1 PROVE FALSE
    OBVIOUS
  <2>2. PICK f \in Int : f = p * mag
    OBVIOUS
  <2>3. f <= -p
    BY <2>1, <2>2
  <2>4. QED
    BY <1>5, <2>2, <2>3
<1>7. n \div p = mag
  <2>1. mag \in Nat
    BY <1>6
  <2>2. QED
    BY <1>5, <2>1, Divided
<1>8. mag <= n
  <2>1. p * mag >= mag
    BY <1>6
  <2>2. PICK f \in Int : f = p * mag
    OBVIOUS
  <2>3. QED
    BY <1>5, <2>1, <2>2
<1>9. n <= Half
  BY <1>2, Sizes
<1>10. QED
  BY <1>3, <1>5, <1>6, <1>7, <1>8, <1>9, Sizes

LEMMA DivisionEnds ==
  DivisionInv => Helpers!DivisionDivides
<1> SUFFICES ASSUME DivisionInv, left = 0 PROVE Helpers!DivisionDivides
  BY DEF Helpers!DivisionDivides
<1>1. /\ a \in Word /\ b \in Word /\ high \in Word /\ rn \in Word /\ rl \in Word
      /\ q \in {0, 1} /\ m \in {0, 1} /\ t \in {0, 1} /\ signed \in {0, 1}
      /\ signed = 0 => high < b
      /\ signed = 1 => b # 0
  BY DEF DivisionInv, HelpersTyped
<1>20. left = 0 /\ left \in 0..W
  BY DEF DivisionInv, HelpersTyped
<1>2. PICK d \in Int : d = DivisorOf(b, signed) /\ StandsFor(d, b, m)
  BY DEF DivisionInv, StandsFor
<1>3. Helpers!DivisionDivides <=>
        Helpers!Quotient = IF signed = 1 THEN Helpers!Wrap(Helpers!Truncated(Helpers!Signed(a), Helpers!Signed(b)))
                           ELSE (high * Size + a) \div b
  BY DEF Helpers!DivisionDivides, Size
<1>4. PICK last, top : Helpers!Rotcl(rl, t).res = last /\ Helpers!Rotcl(rl, t).t = top
  OBVIOUS
<1>5. Helpers!Quotient = IF signed = 1 THEN Helpers!Addc(last, 0, top).res ELSE last
  BY <1>4 DEF Helpers!Quotient
<1>6. CASE signed = 0
  <2>1. d = b /\ HighOf(high, a, signed) = high /\ LowOf(a, signed) = a
    BY <1>2, <1>6 DEF DivisorOf, HighOf, LowOf
  <2>2. Dividing(d, high, a, rn, rl, q, m, t, left)
    BY <1>2, <2>1 DEF DivisionInv
  <2>3. PICK h \in Int : h = high
    BY <1>1 DEF Word
  <2>4. PICK known, sign, e \in Int :
          /\ h * Size + a = d * (2 * known + t) + e /\ Left(d, e)
          /\ known = sign * Size + rl
    <3>1. Underway(d, h, a, rn, rl, q, m, t, left, b)
      BY <1>1, <1>2, <1>20, <2>2, <2>3 DEF Underway
    <3>2. QED
      BY <1>20, <3>1, AllTaken
  <2>5. PICK k \in Int : k = 2 * known + t
    BY <1>1
  <2>6. /\ last \in Word /\ \E j \in Int : k = j * Size + last
    BY <1>1, <1>4, <2>4, <2>5, LastShift
  <2>7. k \in Word /\ (high * Size + a) \div b = k
    <3>1. high * Size + a = b * k + e /\ Left(b, e)
      BY <2>1, <2>3, <2>4, <2>5
    <3>2. high < b
      BY <1>1, <1>6
    <3>3. QED
      BY <1>1, <3>1, <3>2, UnsignedQuotient
  <2>8. last = k
    <3>1. Helpers!Wrap(k) = last
      BY <2>6, Wrapped DEF Word
    <3>2. k = 0 * Size + k /\ k \in 0..(Size - 1)
      BY <2>7, Sizes DEF Word
    <3>3. Helpers!Wrap(k) = k
      BY <3>2, Wrapped
    <3>4. QED
      BY <3>1, <3>3
  <2>9. QED
    BY <1>3, <1>5, <1>6, <2>7, <2>8
<1>7. CASE signed = 1
  <2>1. PICK z \in Int : /\ z = Helpers!Signed(a) /\ -Half <= z /\ z < Half
                         /\ Helpers!Top(a) = IF z < 0 THEN 1 ELSE 0
    BY <1>1, TopBit, Sizes DEF Word
  <2>2. PICK hi \in Int, lo \in Word :
          /\ hi = HighOf(high, a, signed) /\ lo = LowOf(a, signed)
          /\ hi * Size + lo = z - (IF z < 0 THEN 1 ELSE 0)
    <3>1. HighOf(high, a, signed) = HighOf(0, a, 1)
      BY <1>7 DEF HighOf
    <3>2. /\ LowOf(a, 1) \in Word /\ HighOf(0, a, 1) \in Int
          /\ HighOf(0, a, 1) * Size + LowOf(a, 1) = Helpers!Signed(a) - Helpers!Top(a)
      BY <1>1, DividendOf
    <3>3. QED
      BY <1>7, <2>1, <3>1, <3>2
  <2>3. Dividing(d, hi, lo, rn, rl, q, m, t, left)
    BY <1>2, <2>2 DEF DivisionInv
  <2>4. PICK known, sign, e \in Int :
          /\ hi * Size + lo = d * (2 * known + t) + e /\ Left(d, e)
          /\ known = sign * Size + rl
    <3>1. Underway(d, hi, lo, rn, rl, q, m, t, left, b)
      BY <1>1, <1>2, <1>20, <2>3 DEF Underway
    <3>2. QED
      BY <1>20, <3>1, AllTaken
  <2>5. PICK k \in Int : k = 2 * known + t
    BY <1>1
  <2>6. PICK j \in Int : k = j * Size + last
    BY <1>1, <1>4, <2>4, <2>5, LastShift
  <2>7. last \in Word /\ top = Helpers!Top(rl)
    BY <1>1, <1>4, <2>4, LastShift
  <2>8. d = Helpers!Signed(b) /\ d # 0
    BY <1>1, <1>2, <1>7 DEF DivisorOf, StandsFor
  <2>9. /\ Helpers!Truncated(z, d) = IF k < 0 THEN k + 1 ELSE k
        /\ -Half - 1 <= k /\ k <= Half
    <3>1. z - (IF z < 0 THEN 1 ELSE 0) = d * k + e /\ Left(d, e)
      BY <2>2, <2>4, <2>5
    <3>2. QED
      BY <2>1, <2>8, <3>1, SignedQuotient
  <2>10. top = IF k < 0 THEN 1 ELSE 0
    <3>1. -Half <= known /\ known < Half /\ (k < 0 <=> known < 0)
      BY <1>1, <2>5, <2>9, Sizes
    <3>2. rl \in Int /\ 0 <= rl /\ rl < Size
      BY <1>1, Sizes DEF Word
    <3>3. known >= 0 => rl < Half
      <4>1. SUFFICES ASSUME known >= 0 PROVE rl = known
        BY <3>1
      <4>2. Helpers!Wrap(known) = rl
        BY <1>1, <2>4, Wrapped DEF Word
      <4>3. known = 0 * Size + known /\ known \in 0..(Size - 1)
        BY <3>1, <4>1, Sizes
      <4>4. QED
        BY <4>2, <4>3, Wrapped
    <3>4. known < 0 => rl >= Half
      <4>1. SUFFICES ASSUME known < 0 PROVE rl = known + Size
        BY <3>1, Sizes
      <4>2. Helpers!Wrap(known) = rl
        BY <1>1, <2>4, Wrapped DEF Word
      <4>3. known = (-1) * Size + (known + Size) /\ known + Size \in 0..(Size - 1) /\ -1 \in Int
        BY <3>1, <4>1, Sizes
      <4>4. QED
        BY <4>2, <4>3, Wrapped
    <3>5. QED
      BY <1>1, <2>7, <3>1, <3>3, <3>4, TopBit DEF Word
  <2>11. PICK c \in {0, 1} : c = top
    BY <2>10
  <2>12. PICK res \in Word, over \in {0, 1} : /\ res = Helpers!Addc(last, 0, top).res
                                              /\ last + 0 + c = res + Size * over
    <3>1. PICK zero \in Word : zero = 0
      BY Sizes DEF Word
    <3>2. /\ Helpers!Addc(last, zero, c).res \in Word /\ Helpers!Addc(last, zero, c).t \in {0, 1}
          /\ last + zero + c = Helpers!Addc(last, zero, c).res + Size * Helpers!Addc(last, zero, c).t
      BY <2>7, AddCarries
    <3>3. QED
      BY <2>11, <3>1, <3>2
  <2>13. Helpers!Wrap(k + c) = res
    <3>1. last \in Int /\ res \in 0..(Size - 1)
      BY <2>7 DEF Word
    <3>2. (j + over) * Size = j * Size + Size * over
      BY Sizes
    <3>3. k + c = (j + over) * Size + res
      <4>1. PICK g \in Int, f \in Int : g = j * Size /\ f = Size * over
        BY Sizes
      <4>2. res \in Int
        BY <3>1
      <4>3. k = g + last /\ last + c = res + f /\ (j + over) * Size = g + f
        BY <2>6, <2>12, <3>1, <3>2, <4>1
      <4>4. QED
        BY <3>1, <4>2, <4>3
    <3>4. j + over \in Int /\ k + c \in Int
      OBVIOUS
    <3>5. QED
      BY <3>1, <3>3, <3>4, Wrapped
  <2>14. Helpers!Truncated(z, d) = k + c
    BY <2>9, <2>10, <2>11
  <2>15. Helpers!Wrap(Helpers!Truncated(Helpers!Signed(a), Helpers!Signed(b))) = res
    BY <2>1, <2>8, <2>13, <2>14
  <2>16. QED
    BY <1>3, <1>5, <1>7, <2>12, <2>15
<1>8. QED
  BY <1>1, <1>6, <1>7

LEMMA HelpersAreTheIntegers ==
  HelpersTyped => Helpers!HelpersExact
<1> SUFFICES ASSUME HelpersTyped PROVE Helpers!HelpersExact
  OBVIOUS
<1>1. a \in Word /\ b \in Word /\ Half = Helpers!TwoTo[W - 1] /\ Size = Helpers!TwoTo[W]
  BY DEF HelpersTyped, Half, Size
<1>2. ASSUME NEW c \in {0, 1}
      PROVE  /\ a + b + c = Helpers!Addc(a, b, c).res + Size * Helpers!Addc(a, b, c).t
             /\ a - b - c = Helpers!Subc(a, b, c).res - Size * Helpers!Subc(a, b, c).t
             /\ 0 - a - c = Helpers!Negc(a, c).res - Size * Helpers!Negc(a, c).t
             /\ Helpers!Rotcr(Helpers!Rotcl(a, c).res, Helpers!Rotcl(a, c).t) = [res |-> a, t |-> c]
  <2>1. a + b + c = Helpers!Addc(a, b, c).res + Size * Helpers!Addc(a, b, c).t
    BY <1>1, AddCarries
  <2>2. a - b - c = Helpers!Subc(a, b, c).res - Size * Helpers!Subc(a, b, c).t
    BY <1>1, SubBorrows
  <2>3. 0 - a - c = Helpers!Negc(a, c).res - Size * Helpers!Negc(a, c).t
    BY <1>1, NegBorrows
  <2>4. Helpers!Rotcr(Helpers!Rotcl(a, c).res, Helpers!Rotcl(a, c).t) = [res |-> a, t |-> c]
    BY <1>1, Rotated
  <2>5. QED
    BY <2>1, <2>2, <2>3, <2>4
<1>3. /\ Helpers!Addv(a, b).t = 0 <=> Fits(Helpers!Signed(a) + Helpers!Signed(b))
      /\ Helpers!Subv(a, b).t = 0 <=> Fits(Helpers!Signed(a) - Helpers!Signed(b))
  BY <1>1, AddOverflows, SubOverflows
<1>4. Helpers!Signed(b) < 0 /\ Helpers!Signed(b) > -W =>
         /\ Helpers!Signed(Helpers!Shad(a, b)) = Helpers!Signed(a) \div Helpers!TwoTo[-Helpers!Signed(b)]
         /\ Helpers!Shld(a, b) = a \div Helpers!TwoTo[-Helpers!Signed(b)]
  BY <1>1, ShiftsDivide
<1>5. Helpers!Dmuls(a, b) = Helpers!MacL(0, 0, a, b, 0)
  BY <1>1, ProductsAgree
<1>6. QED
  BY <1>1, <1>2, <1>3, <1>4, <1>5, Zenon DEF Helpers!HelpersExact, Fits

\* The helpers that both engines call are exact for words of any power of two of bits, and the
\* division loops made of them divide (ops.h 15-189): the invariant says what is divided
\* after each step, of which the registers hold the remainder and the bits of the quotient.
THEOREM HelpersAreExact == Spec => []HelpersExact
<1>1. Init => DivisionInv
  BY DivisionInit DEF Init
<1>2. DivisionInv /\ [Next]_vars => DivisionInv'
  <2>1. SUFFICES ASSUME DivisionInv, [Next]_vars PROVE DivisionInv'
    OBVIOUS
  <2>2. CASE Helpers!Next
    BY <2>1, <2>2, DivisionStep
  <2>3. CASE UNCHANGED helpers
    <3>1. /\ a' = a /\ b' = b /\ high' = high /\ signed' = signed
          /\ rn' = rn /\ rl' = rl /\ q' = q /\ m' = m /\ t' = t /\ left' = left
      BY <2>3 DEF helpers
    <3>2. HelpersTyped'
      BY <2>1, <3>1 DEF DivisionInv, HelpersTyped, Word
    <3>3. /\ DivisorOf(b', signed') = DivisorOf(b, signed)
          /\ HighOf(high', a', signed') = HighOf(high, a, signed)
          /\ LowOf(a', signed') = LowOf(a, signed)
      BY <3>1
    <3>4. StandsFor(DivisorOf(b', signed'), b', m')
      BY <2>1, <3>1, <3>3 DEF DivisionInv
    <3>5. Dividing(DivisorOf(b', signed'), HighOf(high', a', signed'), LowOf(a', signed'), rn', rl', q', m', t', left')
      BY <2>1, <3>1, <3>3 DEF DivisionInv
    <3>6. QED
      BY <3>2, <3>4, <3>5 DEF DivisionInv, DivisorOf, HighOf, LowOf
  <2>4. QED
    BY <2>1, <2>2, <2>3 DEF Next, vars
<1>3. DivisionInv => HelpersExact
  BY DivisionEnds, HelpersAreTheIntegers DEF HelpersExact, DivisionInv
<1>4. QED
  BY <1>1, <1>2, <1>3, PTL DEF Spec

\* The contexts after each of the first L assignments.
Contexts(c, L, stmts, flip, g) ==
  g = [n \in 0..L |-> IF n = 0 THEN c ELSE Both!I!Apply(g[n - 1], stmts[n], flip)]

LEMMA DoExists ==
  ASSUME NEW c, NEW L \in Nat, NEW stmts, NEW flip
  PROVE  \E g : Contexts(c, L, stmts, flip, g)
<1> DEFINE Good(g, k) == g = [n \in 0..k |-> IF n = 0 THEN c ELSE Both!I!Apply(g[n - 1], stmts[n], flip)]
           S == {k \in Nat : \E g : Good(g, k)}
<1>1. 0 \in S
  <2> DEFINE g == [n \in 0..0 |-> c]
  <2>1. Good(g, 0)
    OBVIOUS
  <2>2. QED
    BY <2>1
<1>2. ASSUME NEW k \in Nat, k \in S PROVE k + 1 \in S
  <2>1. PICK g : Good(g, k)
    BY <1>2
  <2> DEFINE h == [n \in 0..(k + 1) |-> IF n = k + 1 THEN Both!I!Apply(g[k], stmts[k + 1], flip) ELSE g[n]]
  <2>2. ASSUME NEW n \in 0..(k + 1)
        PROVE  h[n] = IF n = 0 THEN c ELSE Both!I!Apply(h[n - 1], stmts[n], flip)
    <3>1. CASE n = k + 1
      <4>1. n # 0 /\ n - 1 = k /\ k \in 0..(k + 1) /\ k # k + 1
        BY <3>1
      <4>2. h[n - 1] = g[k]
        BY <4>1
      <4>3. QED
        BY <3>1, <4>1, <4>2
    <3>2. CASE n # k + 1
      <4>1. n \in 0..k /\ h[n] = g[n]
        BY <3>2
      <4>2. CASE n = 0
        BY <2>1, <4>1, <4>2
      <4>3. CASE n # 0
        <5>1. n - 1 \in 0..(k + 1) /\ n - 1 # k + 1
          BY <4>1, <4>3
        <5>2. h[n - 1] = g[n - 1]
          BY <5>1
        <5>3. g[n] = Both!I!Apply(g[n - 1], stmts[n], flip)
          BY <2>1, <4>1, <4>3
        <5>4. QED
          BY <4>1, <4>3, <5>2, <5>3
      <4>4. QED
        BY <4>2, <4>3
    <3>3. QED
      BY <3>1, <3>2
  <2>3. h = [n \in 0..(k + 1) |-> h[n]]
    OBVIOUS
  <2>4. Good(h, k + 1)
    <3> HIDE DEF h
    <3>1. QED
      BY <2>2, <2>3
  <2> HIDE DEF h, Good
  <2>5. QED
    BY <2>4
<1>3. Nat \subseteq S
  <2> HIDE DEF S
  <2>1. QED
    BY <1>1, <1>2, SetInduction
<1>4. PICK g : Good(g, L)
  BY <1>3
<1>5. QED
  BY <1>4 DEF Contexts

Passes(c, stmts, flip, g) ==
  g[0] = c /\ \A n \in 1..Len(stmts) : g[n] = Both!I!Apply(g[n - 1], stmts[n], flip)

LEMMA DoIs ==
  ASSUME NEW c, NEW stmts, Len(stmts) \in Nat, NEW flip, NEW g, Passes(c, stmts, flip, g)
  PROVE  Both!I!Do(c, stmts, flip) = g[Len(stmts)]
<1> DEFINE L == Len(stmts)
           run == CHOOSE r : Contexts(c, L, stmts, flip, r)
<1>0. \E g_1 : Contexts(c, L, stmts, flip, g_1)
  BY DoExists
<1>a. Contexts(c, L, stmts, flip, run)
  BY <1>0
<1> USE DEF Passes
<1>1. run = [n \in 0..L |-> IF n = 0 THEN c ELSE Both!I!Apply(run[n - 1], stmts[n], flip)]
  BY <1>a DEF Contexts
<1>2. Both!I!Do(c, stmts, flip) = run[L]
  BY DEF Both!I!Do, Contexts
<1> HIDE DEF run
<1> DEFINE S == {n \in Nat : n <= L => run[n] = g[n]}
<1>3. 0 \in S
  BY <1>1
<1>4. ASSUME NEW n \in Nat, n \in S PROVE n + 1 \in S
  <2>1. SUFFICES ASSUME n + 1 <= L PROVE run[n + 1] = g[n + 1]
    OBVIOUS
  <2>2. n + 1 \in 0..L /\ n + 1 # 0 /\ (n + 1) - 1 = n /\ n + 1 \in 1..L
    BY <2>1
  <2>3. run[n] = g[n]
    BY <1>4, <2>1
  <2>4. run[n + 1] = Both!I!Apply(run[n], stmts[n + 1], flip)
    BY <1>1, <2>2
  <2>5. QED
    BY <2>2, <2>3, <2>4
<1>5. Nat \subseteq S
  <2> HIDE DEF S
  <2>1. QED
    BY <1>3, <1>4, SetInduction
<1>6. L \in S
  BY <1>5
<1>7. QED
  BY <1>2, <1>6

\* How a Do is run: the contexts after each assignment.
LEMMA DoRuns ==
  ASSUME NEW c, NEW stmts, Len(stmts) \in Nat, NEW flip
  PROVE  \E g : Passes(c, stmts, flip, g) /\ Both!I!Do(c, stmts, flip) = g[Len(stmts)]
<1>0. PICK g : Contexts(c, Len(stmts), stmts, flip, g)
  BY DoExists
<1>1. g = [n \in 0..Len(stmts) |-> IF n = 0 THEN c ELSE Both!I!Apply(g[n - 1], stmts[n], flip)]
  BY <1>0 DEF Contexts
<1>2. g[0] = c
  BY <1>1
<1>3. ASSUME NEW n \in 1..Len(stmts) PROVE g[n] = Both!I!Apply(g[n - 1], stmts[n], flip)
  BY <1>1
<1>4. Passes(c, stmts, flip, g)
  BY <1>2, <1>3 DEF Passes
<1>5. QED
  BY <1>4, DoIs

LEMMA DoNone == ASSUME NEW c, NEW flip PROVE Both!I!Do(c, << >>, flip) = c
<1>1. PICK g : Passes(c, << >>, flip, g) /\ Both!I!Do(c, << >>, flip) = g[Len(<< >>)]
  BY DoRuns
<1>2. QED
  BY <1>1 DEF Passes

LEMMA DoOne ==
  ASSUME NEW c, NEW s, NEW flip PROVE Both!I!Do(c, <<s>>, flip) = Both!I!Apply(c, s, flip)
<1>1. Len(<<s>>) = 1 /\ <<s>>[1] = s
  OBVIOUS
<1>2. PICK g : Passes(c, <<s>>, flip, g) /\ Both!I!Do(c, <<s>>, flip) = g[Len(<<s>>)]
  BY <1>1, DoRuns
<1>3. QED
  BY <1>1, <1>2 DEF Passes

LEMMA DoBoth ==
  ASSUME NEW c, NEW S, NEW a_ \in Seq(S), NEW b_ \in Seq(S), NEW flip
  PROVE  Both!I!Do(c, a_ \o b_, flip) = Both!I!Do(Both!I!Do(c, a_, flip), b_, flip)
<1> DEFINE ab == a_ \o b_
<1>1. /\ Len(a_) \in Nat /\ Len(b_) \in Nat /\ Len(ab) = Len(a_) + Len(b_)
      /\ \A n \in 1..Len(a_) : ab[n] = a_[n]
      /\ \A n \in 1..Len(b_) : ab[Len(a_) + n] = b_[n]
  <2>1. \A n \in 1..(Len(a_) + Len(b_)) : ab[n] = IF n <= Len(a_) THEN a_[n] ELSE b_[n - Len(a_)]
    BY ConcatProperties
  <2>2. QED
    BY <2>1, ConcatProperties
<1> HIDE DEF ab
<1>2. PICK g : Passes(c, ab, flip, g) /\ Both!I!Do(c, ab, flip) = g[Len(ab)]
  <2>1. Len(ab) \in Nat
    BY <1>1
  <2>2. QED
    BY <2>1, DoRuns
<1>3. Passes(c, a_, flip, g)
  <2>1. ASSUME NEW n \in 1..Len(a_) PROVE g[n] = Both!I!Apply(g[n - 1], a_[n], flip)
    <3>1. n \in 1..Len(ab) /\ ab[n] = a_[n]
      BY <1>1
    <3>2. QED
      BY <1>2, <3>1 DEF Passes
  <2>2. QED
    BY <1>2, <2>1 DEF Passes
<1>4. Both!I!Do(c, a_, flip) = g[Len(a_)]
  BY <1>1, <1>3, DoIs
<1> DEFINE h == [n \in 0..Len(b_) |-> g[Len(a_) + n]]
<1>5. h[0] = g[Len(a_)] /\ h[Len(b_)] = g[Len(ab)]
  BY <1>1
<1>6. ASSUME NEW n \in 1..Len(b_) PROVE h[n] = Both!I!Apply(h[n - 1], b_[n], flip)
  <2>1. /\ n \in 0..Len(b_) /\ n - 1 \in 0..Len(b_)
        /\ Len(a_) + n \in 1..Len(ab) /\ (Len(a_) + n) - 1 = Len(a_) + (n - 1)
    BY <1>1
  <2>2. h[n] = g[Len(a_) + n] /\ h[n - 1] = g[Len(a_) + (n - 1)]
    BY <2>1
  <2> HIDE DEF h
  <2>3. g[Len(a_) + n] = Both!I!Apply(g[(Len(a_) + n) - 1], ab[Len(a_) + n], flip)
    BY <1>2, <2>1 DEF Passes
  <2>4. QED
    BY <1>1, <2>1, <2>2, <2>3
<1> HIDE DEF h
<1>7. Passes(g[Len(a_)], b_, flip, h)
  BY <1>5, <1>6 DEF Passes
<1>8. Both!I!Do(g[Len(a_)], b_, flip) = h[Len(b_)]
  BY <1>1, <1>7, DoIs
<1>9. QED
  BY <1>2, <1>4, <1>5, <1>8 DEF ab

-------------------------------------------------------------------------------
(* Places and codes. *)

Lasting == Both!I!Places \ {"v", "w", "ea"}

LEMMA PlacesAre ==
  /\ Both!I!Places = {"r0", "r1", "b0", "b1", "f0", "f1", "x0", "x1", "gbr", "vbr", "ssr", "spc", "dbr",
                 "sgr", "mach", "macl", "pr", "fpul", "v", "w", "ea", "target", "taken", "t", "sr",
                 "fpscr", "imm", "pc"}
  /\ \A k \in {0, 1} :
       /\ Both!I!R(k) \in {"r0", "r1"}
       /\ Both!I!F(k) \in {"f0", "f1"}
       /\ Both!I!Pair(k)[1] \in {"f0", "x0"} /\ Both!I!Pair(k)[2] \in {"f1", "x1"}
<1>1. /\ Both!I!Range(Both!I!General) = {"r0", "r1"} /\ Both!I!Range(Both!I!Bank) = {"b0", "b1"}
      /\ Both!I!Range(Both!I!Fr) = {"f0", "f1"} /\ Both!I!Range(Both!I!Xf) = {"x0", "x1"}
  BY DEF Both!I!Range, Both!I!General, Both!I!Bank, Both!I!Fr, Both!I!Xf
<1>2. ASSUME NEW k \in {0, 1}
      PROVE  /\ Both!I!R(k) \in {"r0", "r1"}
             /\ Both!I!F(k) \in {"f0", "f1"}
             /\ Both!I!Pair(k)[1] \in {"f0", "x0"} /\ Both!I!Pair(k)[2] \in {"f1", "x1"}
  BY DEF Both!I!R, Both!I!F, Both!I!Pair, Both!I!General, Both!I!Fr, Both!I!Xf
<1>3. Both!I!Places = {"r0", "r1", "b0", "b1", "f0", "f1", "x0", "x1", "gbr", "vbr", "ssr", "spc", "dbr",
                 "sgr", "mach", "macl", "pr", "fpul", "v", "w", "ea", "target", "taken", "t", "sr",
                 "fpscr", "imm", "pc"}
  BY <1>1 DEF Both!I!Places, Both!I!Controls, Both!I!Temps
<1>4. QED
  BY <1>2, <1>3

IsCode(code) == \E S : code \in Seq(S)

LEMMA SetCode ==
  ASSUME NEW to, NEW f, NEW args PROVE IsCode(Both!I!Set(to, f, args))
<1>1. Both!I!Set(to, f, args) \in Seq({[to |-> to, f |-> f, args |-> args]})
  BY DEF Both!I!Set
<1>2. QED
  BY <1>1 DEF IsCode

LEMMA CopyCode == ASSUME NEW to, NEW from PROVE IsCode(Both!I!Copy(to, from))
BY SetCode DEF Both!I!Copy

LEMMA ReadCode == ASSUME NEW to, NEW size, NEW addr PROVE IsCode(Both!I!Read(to, size, addr))
BY SetCode DEF Both!I!Read

LEMMA WriteCode == ASSUME NEW size, NEW addr, NEW val PROVE IsCode(Both!I!Write(size, addr, val))
BY SetCode DEF Both!I!Write

LEMMA NoCode == IsCode(Both!I!Nothing)
<1>1. Both!I!Nothing \in Seq({})
  BY DEF Both!I!Nothing
<1>2. QED
  BY <1>1 DEF IsCode

LEMMA BothInOne ==
  ASSUME NEW c_, NEW d_, IsCode(c_), IsCode(d_)
  PROVE  \E S : c_ \in Seq(S) /\ d_ \in Seq(S)
<1>1. PICK S_1 : c_ \in Seq(S_1)
  BY DEF IsCode
<1>2. PICK S_2 : d_ \in Seq(S_2)
  BY DEF IsCode
<1>3. c_ \in Seq(S_1 \cup S_2) /\ d_ \in Seq(S_1 \cup S_2)
  BY <1>1, <1>2
<1>4. QED
  BY <1>3

LEMMA DoThen ==
  ASSUME NEW c, NEW c_, NEW d_, IsCode(c_), IsCode(d_), NEW flip
  PROVE  /\ IsCode(c_ \o d_)
         /\ Both!I!Do(c, c_ \o d_, flip) = Both!I!Do(Both!I!Do(c, c_, flip), d_, flip)
<1>1. PICK S : c_ \in Seq(S) /\ d_ \in Seq(S)
  BY BothInOne
<1>2. c_ \o d_ \in Seq(S)
  BY <1>1
<1>3. QED
  BY <1>1, <1>2, DoBoth DEF IsCode

-------------------------------------------------------------------------------
(* Contexts, and what one assignment does to them. *)

IsContext(c) == c = [reg |-> c.reg, log |-> c.log] /\ c.reg = [p \in Both!I!Places |-> c.reg[p]]

Put(c, p, val) == [reg |-> [c.reg EXCEPT ![p] = val], log |-> c.log]

\* d is c with one place assigned.
Assigned(c, d, to, val) ==
  /\ IsContext(d)
  /\ d.reg[to] = val
  /\ \A p \in Both!I!Places \ {to} : d.reg[p] = c.reg[p]
  /\ d.log = c.log

Special == {"read8", "read16", "read32", "write_sr", "write_fpscr", "frchg"}

\* The value of operation f of one place.
Of(f, val) == Both!I!Term(f, <<val>>)

LEMMA PutAssigns ==
  ASSUME NEW c, IsContext(c), NEW p \in Both!I!Places, NEW val
  PROVE  Assigned(c, Put(c, p, val), p, val)
<1> DEFINE d == Put(c, p, val)
<1>1. d = [reg |-> [q_ \in Both!I!Places |-> IF q_ = p THEN val ELSE c.reg[q_]], log |-> c.log]
  BY DEF Put, IsContext
<1> HIDE DEF d
<1>2. d.reg = [q_ \in Both!I!Places |-> IF q_ = p THEN val ELSE c.reg[q_]] /\ d.log = c.log
  BY <1>1
<1>3. IsContext(d)
  BY <1>1, <1>2 DEF IsContext
<1>4. d.reg[p] = val /\ (\A q_ \in Both!I!Places \ {p} : d.reg[q_] = c.reg[q_]) /\ d.log = c.log
  BY <1>2
<1>5. QED
  BY <1>3, <1>4 DEF Assigned, d

LEMMA SetDoes ==
  ASSUME NEW c, IsContext(c), NEW to \in Both!I!Places, NEW f, f \notin Special, NEW args, NEW flip
  PROVE  Assigned(c, Both!I!Do(c, Both!I!Set(to, f, args), flip), to,
                  Both!I!Term(f, [k \in DOMAIN args |-> c.reg[args[k]]]))
<1> DEFINE s == [to |-> to, f |-> f, args |-> args]
           val == Both!I!Term(f, [k \in DOMAIN args |-> c.reg[args[k]]])
<1>1. Both!I!Do(c, Both!I!Set(to, f, args), flip) = Both!I!Apply(c, s, flip)
  BY DoOne DEF Both!I!Set
<1>2. to # "mem"
  BY PlacesAre
<1>3. Both!I!Apply(c, s, flip) = [c EXCEPT !.reg[to] = val]
  BY <1>2 DEF Both!I!Apply, Both!I!Operands, Special
<1> HIDE DEF val
<1>4. [c EXCEPT !.reg[to] = val] = Put(c, to, val)
  BY DEF Put, IsContext
<1>5. QED
  BY <1>1, <1>3, <1>4, PutAssigns DEF val

LEMMA UnaryDoes ==
  ASSUME NEW c, IsContext(c), NEW to \in Both!I!Places, NEW f, f \notin Special, NEW from, NEW flip
  PROVE  Assigned(c, Both!I!Do(c, Both!I!Set(to, f, <<from>>), flip), to, Of(f, c.reg[from]))
<1>1. [k \in DOMAIN <<from>> |-> c.reg[<<from>>[k]]] = <<c.reg[from]>>
  OBVIOUS
<1>2. QED
  BY <1>1, SetDoes DEF Of

LEMMA CopyDoes ==
  ASSUME NEW c, IsContext(c), NEW to \in Both!I!Places, NEW from, NEW flip
  PROVE  Assigned(c, Both!I!Do(c, Both!I!Copy(to, from), flip), to, c.reg[from])
<1>1. "id" \notin Special /\ Of("id", c.reg[from]) = c.reg[from]
  BY DEF Special, Of, Both!I!Term, Both!I!Reflexive, Both!I!Irreflexive
<1>2. QED
  BY <1>1, UnaryDoes DEF Both!I!Copy

\* A read of memory: the value read and the entry in the log.
Got(size, val, log) == <<Both!I!ReadOp[size], val, Len(log)>>
LogOfRead(size, val, log) == Append(log, <<Both!I!ReadOp[size], val>>)
LogOfWrite(size, ad, val, log) == Append(log, <<Both!I!WriteOp[size]>> \o <<ad, val>>)

LEMMA SizeOps ==
  ASSUME NEW size \in {8, 16, 32}
  PROVE  /\ Both!I!ReadOp[size] \in {"read8", "read16", "read32"}
         /\ Both!I!WriteOp[size] \in {"write8", "write16", "write32"}
         /\ Both!I!Step[size] \notin Special /\ Both!I!StepBack[size] \notin Special
         /\ Both!I!Extend[size] \notin Special
BY DEF Both!I!ReadOp, Both!I!WriteOp, Both!I!Step, Both!I!StepBack, Both!I!Extend, Both!I!Bits, Both!I!Sizes, Special

LEMMA ReadDoes ==
  ASSUME NEW c, IsContext(c), NEW to \in Both!I!Places, NEW size \in {8, 16, 32}, NEW addr, NEW flip
  PROVE  LET d == Both!I!Do(c, Both!I!Read(to, size, addr), flip) IN
         /\ IsContext(d)
         /\ d.reg[to] = Got(size, c.reg[addr], c.log)
         /\ \A p \in Both!I!Places \ {to} : d.reg[p] = c.reg[p]
         /\ d.log = LogOfRead(size, c.reg[addr], c.log)
<1> DEFINE f == Both!I!ReadOp[size]
           s == [to |-> to, f |-> f, args |-> <<addr>>]
           d == Both!I!Do(c, Both!I!Read(to, size, addr), flip)
<1>1. f \in {"read8", "read16", "read32"}
  BY SizeOps
<1> HIDE DEF f
<1>2. d = Both!I!Apply(c, s, flip)
  BY DoOne DEF Both!I!Set, Both!I!Read, f
<1>a. Both!I!Operands(c, s)[1] = c.reg[addr]
  BY DEF Both!I!Operands
<1>3. Both!I!Apply(c, s, flip)
        = [reg |-> [c.reg EXCEPT ![to] = <<f, c.reg[addr], Len(c.log)>>],
           log |-> Append(c.log, <<f, c.reg[addr]>>)]
  <2>1. Both!I!Apply(c, s, flip) = Both!I!Answered(c, to, f, Both!I!Operands(c, s)[1])
    <3>1. to # "mem"
      BY PlacesAre
    <3>2. QED
      BY <1>1, <3>1 DEF Both!I!Apply
  <2>2. QED
    BY <1>a, <2>1 DEF Both!I!Answered
<1> DEFINE val == <<f, c.reg[addr], Len(c.log)>>
           log == Append(c.log, <<f, c.reg[addr]>>)
<1>4. d = [reg |-> [p \in Both!I!Places |-> IF p = to THEN val ELSE c.reg[p]], log |-> log]
  BY <1>2, <1>3 DEF IsContext
<1>5. val = Got(size, c.reg[addr], c.log) /\ log = LogOfRead(size, c.reg[addr], c.log)
  BY DEF Got, LogOfRead, f
<1> HIDE DEF d, val, log
<1>6. d.reg = [p \in Both!I!Places |-> IF p = to THEN val ELSE c.reg[p]] /\ d.log = log
  BY <1>4
<1>7. IsContext(d) /\ d.reg[to] = val /\ \A p \in Both!I!Places \ {to} : d.reg[p] = c.reg[p]
  BY <1>4, <1>6 DEF IsContext
<1>8. QED
  BY <1>5, <1>6, <1>7 DEF d

LEMMA WriteDoes ==
  ASSUME NEW c, IsContext(c), NEW size \in {8, 16, 32}, NEW addr, NEW val, NEW flip
  PROVE  LET d == Both!I!Do(c, Both!I!Write(size, addr, val), flip) IN
         /\ IsContext(d)
         /\ d.reg = c.reg
         /\ d.log = LogOfWrite(size, c.reg[addr], c.reg[val], c.log)
<1> DEFINE f == Both!I!WriteOp[size]
           s == [to |-> "mem", f |-> f, args |-> <<addr, val>>]
           d == Both!I!Do(c, Both!I!Write(size, addr, val), flip)
<1>1. f \in {"write8", "write16", "write32"}
  BY SizeOps
<1> HIDE DEF f
<1>2. d = Both!I!Apply(c, s, flip)
  BY DoOne DEF Both!I!Set, Both!I!Write, f
<1>3. Both!I!Operands(c, s) = <<c.reg[addr], c.reg[val]>>
  BY DEF Both!I!Operands
<1>4. Both!I!Apply(c, s, flip) = [c EXCEPT !.log = Append(@, <<f>> \o <<c.reg[addr], c.reg[val]>>)]
  BY <1>1, <1>3 DEF Both!I!Apply
<1>5. d = [reg |-> c.reg, log |-> LogOfWrite(size, c.reg[addr], c.reg[val], c.log)]
  BY <1>2, <1>4 DEF IsContext, LogOfWrite, f
<1> HIDE DEF d
<1>6. QED
  BY <1>5 DEF IsContext, d

-------------------------------------------------------------------------------
(* Code that does not touch the target of a branch. *)

Readable  == Both!I!Places \ {"target", "taken"}
Assignable == Both!I!Places \ {"target", "taken", "pc"}

CleanStatement(s) ==
  /\ s.to \in Assignable \/ (s.to = "mem" /\ s.f \notin Special)
  /\ \A k \in DOMAIN s.args : s.args[k] \in Readable
  /\ s.f \in Special => 1 \in DOMAIN s.args

Clean(code) == IsCode(code) /\ \A n \in 1..Len(code) : CleanStatement(code[n])

LEMMA CleanJoin ==
  ASSUME NEW c_, NEW d_, Clean(c_), Clean(d_) PROVE Clean(c_ \o d_)
<1>1. PICK S : c_ \in Seq(S) /\ d_ \in Seq(S)
  BY BothInOne DEF Clean
<1>2. ASSUME NEW n \in 1..Len(c_ \o d_) PROVE CleanStatement((c_ \o d_)[n])
  <2>1. /\ Len(c_) \in Nat /\ Len(d_) \in Nat /\ Len(c_ \o d_) = Len(c_) + Len(d_)
        /\ (c_ \o d_)[n] = IF n <= Len(c_) THEN c_[n] ELSE d_[n - Len(c_)]
    BY <1>1, ConcatProperties
  <2>2. CASE n <= Len(c_)
    <3>1. n \in 1..Len(c_)
      BY <2>1, <2>2
    <3>2. QED
      BY <2>1, <2>2, <3>1 DEF Clean
  <2>3. CASE ~(n <= Len(c_))
    <3>1. n - Len(c_) \in 1..Len(d_)
      BY <2>1, <2>3
    <3>2. QED
      BY <2>1, <2>3, <3>1 DEF Clean
  <2>4. QED
    BY <2>2, <2>3
<1>3. IsCode(c_ \o d_)
  BY DoThen DEF Clean
<1>4. QED
  BY <1>2, <1>3 DEF Clean

LEMMA CleanSet ==
  ASSUME NEW to \in Assignable \cup {"mem"}, NEW f, NEW args, \A k \in DOMAIN args : args[k] \in Readable,
         f \in Special => to # "mem" /\ 1 \in DOMAIN args
  PROVE  Clean(Both!I!Set(to, f, args))
<1> DEFINE s == [to |-> to, f |-> f, args |-> args]
<1>1. CleanStatement(s)
  BY DEF CleanStatement
<1> HIDE DEF s
<1>2. \A n \in 1..Len(<<s>>) : <<s>>[n] = s
  OBVIOUS
<1>3. Both!I!Set(to, f, args) = <<s>>
  BY DEF Both!I!Set, s
<1>4. \A n \in 1..Len(<<s>>) : CleanStatement(<<s>>[n])
  BY <1>1, <1>2
<1>5. QED
  BY <1>3, <1>4, SetCode DEF Clean

LEMMA CleanUnary ==
  ASSUME NEW to \in Assignable, NEW f, NEW p \in Readable
  PROVE  Clean(Both!I!Set(to, f, <<p>>)) /\ Clean(Both!I!Copy(to, p))
<1>1. "mem" \notin Assignable
  BY PlacesAre DEF Assignable
<1>2. \A k \in DOMAIN <<p>> : <<p>>[k] \in Readable
  OBVIOUS
<1>3. 1 \in DOMAIN <<p>>
  OBVIOUS
<1>4. ASSUME NEW g PROVE Clean(Both!I!Set(to, g, <<p>>))
  <2> DEFINE args == <<p>>
  <2>1. (\A k \in DOMAIN args : args[k] \in Readable) /\ 1 \in DOMAIN args
    BY <1>2, <1>3
  <2> HIDE DEF args
  <2>2. Clean(Both!I!Set(to, g, args))
    BY <1>1, <2>1, CleanSet
  <2>3. QED
    BY <2>2 DEF args
<1>5. QED
  BY <1>4 DEF Both!I!Copy

LEMMA CleanWide ==
  ASSUME NEW to \in Assignable, NEW f, f \notin Special
  PROVE  /\ Clean(Both!I!Set(to, f, << >>))
         /\ \A x1 \in Readable, x2 \in Readable : Clean(Both!I!Set(to, f, <<x1, x2>>))
         /\ \A x1 \in Readable, x2 \in Readable, x3 \in Readable : Clean(Both!I!Set(to, f, <<x1, x2, x3>>))
         /\ \A x1 \in Readable, x2 \in Readable, x3 \in Readable, x4 \in Readable :
              Clean(Both!I!Set(to, f, <<x1, x2, x3, x4>>))
         /\ \A x1 \in Readable, x2 \in Readable, x3 \in Readable, x4 \in Readable, x5 \in Readable :
              Clean(Both!I!Set(to, f, <<x1, x2, x3, x4, x5>>))
         /\ Clean(Both!I!Set(to, f, Both!I!Fr)) /\ Clean(Both!I!Set(to, f, Both!I!Xf))
         /\ Clean(Both!I!Set(to, f, Both!I!Fr \o Both!I!Xf))
<1>1. ASSUME NEW args, \A k \in DOMAIN args : args[k] \in Readable PROVE Clean(Both!I!Set(to, f, args))
  BY <1>1, CleanSet
<1> DEFINE Fine(args) == \A k \in DOMAIN args : args[k] \in Readable
<1>2. \A args : Fine(args) => Clean(Both!I!Set(to, f, args))
  BY <1>1
<1>3. Fine(<< >>)
  OBVIOUS
<1>4. \A x1 \in Readable, x2 \in Readable : Fine(<<x1, x2>>)
  OBVIOUS
<1>5. \A x1 \in Readable, x2 \in Readable, x3 \in Readable : Fine(<<x1, x2, x3>>)
  OBVIOUS
<1>6. \A x1 \in Readable, x2 \in Readable, x3 \in Readable, x4 \in Readable : Fine(<<x1, x2, x3, x4>>)
  OBVIOUS
<1>7. \A x1 \in Readable, x2 \in Readable, x3 \in Readable, x4 \in Readable, x5 \in Readable :
        Fine(<<x1, x2, x3, x4, x5>>)
  OBVIOUS
<1>8. Fine(Both!I!Fr) /\ Fine(Both!I!Xf)
  BY PlacesAre DEF Both!I!Fr, Both!I!Xf, Readable
<1>9. Fine(Both!I!Fr \o Both!I!Xf)
  <2>1. "f0" \in Readable /\ "f1" \in Readable /\ "x0" \in Readable /\ "x1" \in Readable
    BY PlacesAre DEF Readable
  <2>2. Both!I!Fr \in Seq(Readable) /\ Both!I!Xf \in Seq(Readable)
    BY <2>1 DEF Both!I!Fr, Both!I!Xf
  <2>3. Both!I!Fr \o Both!I!Xf \in Seq(Readable)
    BY <2>2
  <2> HIDE DEF Fine
  <2>4. ASSUME NEW s \in Seq(Readable) PROVE Fine(s)
    BY DEF Fine
  <2>5. QED
    BY <2>3, <2>4
<1> HIDE DEF Fine
<1>10. QED
  BY <1>2, <1>3, <1>4, <1>5, <1>6, <1>7, <1>8, <1>9

LEMMA CleanRead ==
  ASSUME NEW to \in Assignable, NEW size, NEW p \in Readable PROVE Clean(Both!I!Read(to, size, p))
BY CleanUnary DEF Both!I!Read

LEMMA CleanMemory ==
  ASSUME NEW f, f \notin Special, NEW p \in Readable
  PROVE  /\ Clean(Both!I!Set("mem", f, <<p>>))
         /\ \A val \in Readable : Clean(Both!I!Set("mem", f, <<p, val>>))
<1>1. \A k \in DOMAIN <<p>> : <<p>>[k] \in Readable
  OBVIOUS
<1>2. ASSUME NEW val \in Readable PROVE \A k \in DOMAIN <<p, val>> : <<p, val>>[k] \in Readable
  OBVIOUS
<1>3. ASSUME NEW args, \A k \in DOMAIN args : args[k] \in Readable
      PROVE  Clean(Both!I!Set("mem", f, args))
  BY <1>3, CleanSet
<1>4. QED
  BY <1>1, <1>2, <1>3

LEMMA CleanWrite ==
  ASSUME NEW size \in {8, 16, 32}, NEW p \in Readable, NEW val \in Readable
  PROVE Clean(Both!I!Write(size, p, val))
<1>1. Both!I!WriteOp[size] \notin Special
  BY SizeOps DEF Special
<1>2. QED
  BY <1>1, CleanMemory DEF Both!I!Write

LEMMA CleanNothing == Clean(Both!I!Nothing)
BY NoCode DEF Clean, Both!I!Nothing

-------------------------------------------------------------------------------
(* Every instruction's code is such code. *)

LEMMA PlainFields ==
  ASSUME NEW i \in Both!Plain
  PROVE  /\ i.n \in {0, 1} /\ i.m \in {0, 1} /\ i.size \in {8, 16, 32}
         /\ i.patched => i.seen
         /\ \/ i.kind = "fp" /\ i \in Both!Arithmetic
            \/ i.kind = "fmov" /\ i \in Both!Fmovs
            \/ i.kind = "move" /\ i \in Both!Moves \cup Both!Literals
            \/ i.kind = "integer" /\ i \in Both!Integral
            \/ i.kind = "logic" /\ i \in Both!Logical
            \/ i.kind = "system" /\ i \in Both!Systems \cup Both!Caches \cup Both!Controls
<1>1. CASE i \in Both!Arithmetic
  BY <1>1 DEF Both!Arithmetic, Both!Unflagged, Both!Fields
<1>2. CASE i \in Both!Fmovs
  BY <1>2 DEF Both!Fmovs, Both!Unflagged, Both!Fields
<1>3. CASE i \in Both!Moves
  BY <1>3 DEF Both!Moves, Both!Unflagged, Both!Fields
<1>4. CASE i \in Both!Literals
  BY <1>4 DEF Both!Literals, Both!Fields
<1>5. CASE i \in Both!Integral
  BY <1>5 DEF Both!Integral, Both!Unflagged, Both!Fields
<1>6. CASE i \in Both!Logical
  BY <1>6 DEF Both!Logical, Both!Unflagged, Both!Fields
<1>7. CASE i \in Both!Systems
  BY <1>7 DEF Both!Systems, Both!Unflagged, Both!Fields
<1>8. CASE i \in Both!Caches
  BY <1>8 DEF Both!Caches, Both!Fields
<1>9. CASE i \in Both!Controls
  BY <1>9 DEF Both!Controls, Both!Unflagged, Both!Fields
<1>10. QED
  BY <1>1, <1>2, <1>3, <1>4, <1>5, <1>6, <1>7, <1>8, <1>9 DEF Both!Plain

LEMMA FpOps ==
  ASSUME NEW i \in Both!Arithmetic
  PROVE  i.op \in {"FLDI0", "FLDI1", "FLDS", "FSTS", "FABS", "FNEG", "FSRRA", "FADD", "FSUB", "FMUL",
                   "FDIV", "FCMP_EQ", "FCMP_GT", "FSQRT", "FLOAT", "FTRC", "FMAC", "FCNVSD", "FCNVDS",
                   "FSCA", "FIPR", "FTRV"}
BY DEF Both!Arithmetic, Both!Unflagged, Both!Fields

LEMMA FmovOps ==
  ASSUME NEW i \in Both!Fmovs
  PROVE  i.op \in {"FMOV", "FMOV_LOAD", "FMOV_LOAD_INC", "FMOV_LOAD_R0", "FMOV_STORE",
                   "FMOV_STORE_DEC", "FMOV_STORE_R0"}
BY DEF Both!Fmovs, Both!Unflagged, Both!Fields

LEMMA MoveOps ==
  ASSUME NEW i \in Both!Moves \cup Both!Literals
  PROVE  i.op \in {"MOV_I", "MOVT", "MOV", "SWAP_B", "SWAP_W", "XTRCT", "MOVA", "MOV_S_DISP",
                   "MOV_L_DISP", "MOV_S_DISP0", "MOV_L_DISP0", "MOV_S", "MOV_L", "MOV_SD", "MOV_LI",
                   "MOV_S_R0", "MOV_L_R0", "MOV_S_GBR", "MOV_L_GBR", "MOV_PCREL"}
<1>1. CASE i \in Both!Moves
  BY <1>1 DEF Both!Moves, Both!Unflagged, Both!Fields
<1>2. CASE i \in Both!Literals
  BY <1>2 DEF Both!Literals, Both!Fields
<1>3. QED
  BY <1>1, <1>2

LEMMA IntegerOps ==
  ASSUME NEW i \in Both!Integral
  PROVE  i.op \in {"ADD", "SUB", "ADD_I", "ADDC", "SUBC", "ADDV", "SUBV", "NEGC", "DIV1",
                   "DIV0S", "DIV0U", "NEG", "EXTS_B", "EXTS_W", "EXTU_B", "EXTU_W",
                   "CMP_EQ_I", "CMP_EQ", "CMP_HS", "CMP_GE", "CMP_HI", "CMP_GT", "CMP_STR",
                   "CMP_PZ", "CMP_PL", "DT", "DMULS_L", "DMULU_L", "MUL_L", "MULS_W",
                   "MULU_W", "MAC_L", "MAC_W"}
BY DEF Both!Integral, Both!Unflagged, Both!Fields

LEMMA LogicOps ==
  ASSUME NEW i \in Both!Logical
  PROVE  i.op \in {"AND", "OR", "XOR", "SHAD", "SHLD", "NOT", "AND_I", "OR_I", "XOR_I",
                   "AND_B_GBR", "OR_B_GBR", "XOR_B_GBR", "TAS_B", "TST", "TST_I", "TST_B_GBR",
                   "ROTL", "ROTR", "ROTCL", "ROTCR", "SHAL", "SHLL", "SHAR", "SHLR", "SHLL2",
                   "SHLL8", "SHLL16", "SHLR2", "SHLR8", "SHLR16"}
BY DEF Both!Logical, Both!Unflagged, Both!Fields

LEMMA SystemOps ==
  ASSUME NEW i \in Both!Systems \cup Both!Caches \cup Both!Controls
  PROVE  \/ i.op \in {"CLRMAC", "CLRS", "SETS", "CLRT", "SETT", "TRAPA", "MOVCA_L", "NOP",
                       "FRCHG", "FSCHG", "LDTLB", "PREF", "OCBI", "OCBP", "OCBWB"}
         \/ /\ i.op \in {"STC", "STC_L", "LDC", "LDC_L"}
            /\ i.creg \in {"sr", "gbr", "vbr", "ssr", "spc", "dbr", "mach", "macl", "pr", "fpul",
                            "fpscr", "b0", "b1", "sgr"}
<1>1. CASE i \in Both!Systems
  BY <1>1 DEF Both!Systems, Both!Unflagged, Both!Fields
<1>2. CASE i \in Both!Caches
  BY <1>2 DEF Both!Caches, Both!Fields
<1>3. CASE i \in Both!Controls
  BY <1>3 DEF Both!Controls, Both!Unflagged, Both!Fields
<1>4. QED
  BY <1>1, <1>2, <1>3

LEMMA Registers ==
  ASSUME NEW i \in Both!Plain
  PROVE  /\ \A k \in {i.n, i.m} :
              /\ Both!I!R(k) \in Readable \cap Assignable /\ Both!I!F(k) \in Readable \cap Assignable
              /\ Both!I!Pair(k)[1] \in Readable \cap Assignable /\ Both!I!Pair(k)[2] \in Readable \cap Assignable
         /\ {"r0", "f0", "f1", "gbr", "vbr", "ssr", "spc", "dbr", "sgr", "mach", "macl", "pr", "fpul",
             "v", "w", "ea", "t", "sr", "fpscr", "b0", "b1"} \subseteq Readable \cap Assignable
         /\ "imm" \in Readable /\ "pc" \in Readable
BY PlainFields, PlacesAre DEF Readable, Assignable

Named == Readable \cap Assignable

\* What one assignment of an instruction may be.
LEMMA CleanFacts ==
  /\ \A c_, d_ : Clean(c_) /\ Clean(d_) => Clean(c_ \o d_)
  /\ \A f : \A to \in Named, p \in Readable : Clean(Both!I!Set(to, f, <<p>>))
  /\ \A to \in Named, p \in Readable : Clean(Both!I!Copy(to, p))
  /\ \A f : \A to \in Named : f \notin Special => Clean(Both!I!Set(to, f, << >>))
  /\ \A f : \A to \in Named, x1 \in Readable, x2 \in Readable : 
        f \notin Special => Clean(Both!I!Set(to, f, <<x1, x2>>))
  /\ \A f : \A to \in Named, x1 \in Readable, x2 \in Readable, x3 \in Readable : 
        f \notin Special => Clean(Both!I!Set(to, f, <<x1, x2, x3>>))
BY CleanJoin, CleanUnary, CleanWide DEF Named

LEMMA CleanMore ==
  /\ \A f : \A to \in Named, x1 \in Readable, x2 \in Readable, x3 \in Readable, x4 \in Readable :
        f \notin Special => Clean(Both!I!Set(to, f, <<x1, x2, x3, x4>>))
  /\ \A f : \A to \in Named, x1 \in Readable, x2 \in Readable, x3 \in Readable, x4 \in Readable, x5 \in Readable :
        f \notin Special => Clean(Both!I!Set(to, f, <<x1, x2, x3, x4, x5>>))
BY CleanWide DEF Named

LEMMA CleanVectors ==
  /\ \A f : \A to \in Named :
        f \notin Special => /\ Clean(Both!I!Set(to, f, Both!I!Fr))
                            /\ Clean(Both!I!Set(to, f, Both!I!Xf))
                            /\ Clean(Both!I!Set(to, f, Both!I!Fr \o Both!I!Xf))
BY CleanWide DEF Named

LEMMA CleanAccess ==
  /\ \A size : \A to \in Named, p \in Readable : Clean(Both!I!Read(to, size, p))
  /\ \A size \in {8, 16, 32}, p \in Readable, val \in Readable : Clean(Both!I!Write(size, p, val))
  /\ Clean(Both!I!Nothing)
BY CleanRead, CleanWrite, CleanNothing DEF Named

LEMMA Names ==
  ASSUME NEW i \in Both!Plain
  PROVE  /\ Both!I!R(i.n) \in Named /\ Both!I!F(i.n) \in Named
         /\ Both!I!R(i.m) \in Named /\ Both!I!F(i.m) \in Named
         /\ Both!I!Pair(i.n)[1] \in Named /\ Both!I!Pair(i.n)[2] \in Named
         /\ Both!I!Pair(i.m)[1] \in Named /\ Both!I!Pair(i.m)[2] \in Named
         /\ Named \subseteq Readable
         /\ {"r0", "f0", "f1", "gbr", "vbr", "ssr", "spc", "dbr", "sgr", "mach", "macl", "pr", "fpul",
             "v", "w", "ea", "t", "sr", "fpscr", "b0", "b1"} \subseteq Named
         /\ "imm" \in Readable /\ "pc" \in Readable
BY Registers DEF Named

LEMMA CleanDoubles ==
  Clean(Both!I!GetDr("v")) /\ Clean(Both!I!SetDr("v"))
<1>1. "v" \in Named /\ "f0" \in Named /\ "f1" \in Named /\ "v" \in Readable
  BY PlacesAre DEF Readable, Assignable, Named
<1>2. "pair" \notin Special
  BY DEF Special
<1>3. QED
  BY <1>1, <1>2, CleanVectors, CleanFacts DEF Both!I!GetDr, Both!I!SetDr

LEMMA CleanArithmetic ==
  ASSUME NEW i \in Both!Plain, i \in Both!Arithmetic, NEW double_ \in BOOLEAN
  PROVE  Clean(Both!I!Arithmetic(i, double_))
<1>1. i.op \notin Special /\ "double" \notin Special
  BY FpOps DEF Special
<1>2. Both!I!R(i.n) \in Named /\ Both!I!F(i.n) \in Named /\ Both!I!F(i.m) \in Named
      /\ {"f0", "f1", "fpul", "v", "t"} \subseteq Named /\ Named \subseteq Readable
  BY Names
<1>3. CASE i.op \in {"FLDI0", "FLDI1", "FLDS", "FSTS", "FABS", "FNEG", "FSRRA"}
  BY <1>1, <1>2, <1>3, CleanFacts DEF Both!I!Arithmetic
<1>4. CASE i.op \in {"FADD", "FSUB", "FMUL", "FDIV"}
  BY <1>1, <1>2, <1>4, CleanFacts, CleanDoubles DEF Both!I!Arithmetic
<1>5. CASE i.op \in {"FCMP_EQ", "FCMP_GT", "FSQRT"}
  BY <1>1, <1>2, <1>5, CleanFacts, CleanDoubles DEF Both!I!Arithmetic
<1>6. CASE i.op \in {"FLOAT", "FTRC", "FMAC"}
  BY <1>1, <1>2, <1>6, CleanFacts, CleanDoubles DEF Both!I!Arithmetic
<1>7. CASE i.op \in {"FCNVSD", "FCNVDS", "FSCA", "FIPR", "FTRV"}
  BY <1>1, <1>2, <1>7, CleanFacts, CleanVectors, CleanDoubles DEF Both!I!Arithmetic
<1>10. QED
  BY <1>3, <1>4, <1>5, <1>6, <1>7, FpOps

LEMMA CleanFmov ==
  ASSUME NEW i \in Both!Plain, i \in Both!Fmovs, NEW pairs_ \in BOOLEAN
  PROVE  Clean(Both!I!Fmov(i, pairs_))
<1>1. /\ Both!I!R(i.n) \in Named /\ Both!I!F(i.n) \in Named
      /\ Both!I!R(i.m) \in Named /\ Both!I!F(i.m) \in Named
      /\ Both!I!Pair(i.n)[1] \in Named /\ Both!I!Pair(i.n)[2] \in Named
      /\ Both!I!Pair(i.m)[1] \in Named /\ Both!I!Pair(i.m)[2] \in Named
      /\ Named \subseteq Readable /\ {"r0", "v", "w", "ea"} \subseteq Named
  BY Names
<1>2. "add" \notin Special
  BY DEF Special
<1>3. ASSUME NEW p \in Readable
      PROVE  /\ Clean(Both!I!ReadPair(p)) /\ Clean(Both!I!WritePair(p, i.m))
             /\ Clean(Both!I!Read(Both!I!F(i.n), 32, p)) /\ Clean(Both!I!Write(32, p, Both!I!F(i.m)))
  BY <1>1, CleanFacts, CleanAccess DEF Both!I!ReadPair, Both!I!WritePair
<1>4. Clean(Both!I!Set("v", "pair", Both!I!Pair(i.m)))
  <2>1. Both!I!Pair(i.m) \in {Both!I!Fr, Both!I!Xf} /\ "pair" \notin Special
    BY DEF Both!I!Pair, Special
  <2>2. QED
    BY <1>1, <2>1, CleanVectors
<1>5. CASE i.op = "FMOV"
  BY <1>1, <1>4, <1>5, CleanFacts DEF Both!I!Fmov, Both!I!LoadPair
<1>6. CASE i.op \in {"FMOV_LOAD", "FMOV_LOAD_INC", "FMOV_LOAD_R0"}
  BY <1>1, <1>2, <1>3, <1>6, CleanFacts DEF Both!I!Fmov
<1>7. CASE i.op \in {"FMOV_STORE", "FMOV_STORE_DEC", "FMOV_STORE_R0"}
  BY <1>1, <1>2, <1>3, <1>7, CleanFacts DEF Both!I!Fmov
<1>8. QED
  BY <1>5, <1>6, <1>7, FmovOps

LEMMA CleanMove ==
  ASSUME NEW i \in Both!Plain, i \in Both!Moves \cup Both!Literals
  PROVE  Clean(Both!I!Move(i))
<1>1. /\ Both!I!R(i.n) \in Named /\ Both!I!R(i.m) \in Named
      /\ Named \subseteq Readable /\ {"r0", "v", "ea", "t", "gbr"} \subseteq Named
      /\ "imm" \in Readable /\ "pc" \in Readable
  BY Names
<1>2. i.op \in {"XTRCT"} => i.op \notin Special
  BY DEF Special
<1>3. "add" \notin Special /\ i.size \in {8, 16, 32}
  BY PlainFields DEF Special
<1>4. CASE i.op \in {"MOV_I", "MOVT", "MOV", "SWAP_B", "SWAP_W", "XTRCT", "MOVA", "MOV_PCREL"}
  BY <1>1, <1>2, <1>4, CleanFacts DEF Both!I!Move
<1>5. CASE i.op \in {"MOV_S", "MOV_SD", "MOV_S_DISP", "MOV_S_DISP0", "MOV_S_R0", "MOV_S_GBR"}
  BY <1>1, <1>3, <1>5, CleanFacts, CleanAccess DEF Both!I!Move
<1>6. CASE i.op \in {"MOV_L", "MOV_LI", "MOV_L_DISP", "MOV_L_DISP0", "MOV_L_R0", "MOV_L_GBR"}
  BY <1>1, <1>3, <1>6, CleanFacts, CleanAccess DEF Both!I!Move
<1>7. QED
  BY <1>4, <1>5, <1>6, MoveOps

LEMMA CleanInteger ==
  ASSUME NEW i \in Both!Plain, i \in Both!Integral
  PROVE  Clean(Both!I!Integer(i))
<1>1. /\ Both!I!R(i.n) \in Named /\ Both!I!R(i.m) \in Named
      /\ Named \subseteq Readable /\ {"r0", "v", "w", "t", "sr", "mach", "macl"} \subseteq Named
      /\ "imm" \in Readable
  BY Names
<1>2. i.op \notin Special /\ "ADD" \notin Special /\ "zero" \notin Special /\ "equal" \notin Special
  BY IntegerOps DEF Special
<1>3. CASE i.op \in {"ADD", "SUB", "ADD_I", "ADDC", "SUBC", "ADDV", "SUBV", "NEGC"}
  BY <1>1, <1>2, <1>3, CleanFacts DEF Both!I!Integer
<1>4. CASE i.op \in {"DIV1", "DIV0S", "DIV0U", "NEG", "EXTS_B", "EXTS_W", "EXTU_B", "EXTU_W"}
  BY <1>1, <1>2, <1>4, CleanFacts, CleanMore DEF Both!I!Integer
<1>5. CASE i.op \in {"CMP_EQ_I", "CMP_EQ", "CMP_HS", "CMP_GE", "CMP_HI", "CMP_GT", "CMP_STR",
                     "CMP_PZ", "CMP_PL", "DT"}
  BY <1>1, <1>2, <1>5, CleanFacts DEF Both!I!Integer
<1>6. CASE i.op \in {"DMULS_L", "DMULU_L", "MUL_L", "MULS_W", "MULU_W"}
  BY <1>1, <1>2, <1>6, CleanFacts DEF Both!I!Integer
<1>7. CASE i.op \in {"MAC_L", "MAC_W"}
  BY <1>1, <1>2, <1>7, CleanFacts, CleanMore, CleanAccess DEF Both!I!Integer
<1>8. QED
  BY <1>3, <1>4, <1>5, <1>6, <1>7, IntegerOps

LEMMA CleanLogic ==
  ASSUME NEW i \in Both!Plain, i \in Both!Logical
  PROVE  Clean(Both!I!Logic(i))
<1>1. /\ Both!I!R(i.n) \in Named /\ Both!I!R(i.m) \in Named
      /\ Named \subseteq Readable /\ {"r0", "v", "ea", "t", "gbr"} \subseteq Named
      /\ "imm" \in Readable
  BY Names
<1>2. /\ i.op \notin Special /\ "add" \notin Special /\ "AND" \notin Special /\ "AND_I" \notin Special
      /\ "shl_or" \notin Special /\ "shr_or" \notin Special
  BY LogicOps DEF Special
<1>3. CASE i.op \in {"AND", "OR", "XOR", "SHAD", "SHLD", "NOT", "AND_I", "OR_I", "XOR_I"}
  BY <1>1, <1>2, <1>3, CleanFacts DEF Both!I!Logic
<1>4. CASE i.op \in {"AND_B_GBR", "OR_B_GBR", "XOR_B_GBR", "TAS_B", "TST", "TST_I", "TST_B_GBR"}
  BY <1>1, <1>2, <1>4, CleanFacts, CleanAccess DEF Both!I!Logic
<1>5. CASE i.op \in {"ROTL", "ROTR", "ROTCL", "ROTCR", "SHAL", "SHLL", "SHAR", "SHLR", "SHLL2",
                     "SHLL8", "SHLL16", "SHLR2", "SHLR8", "SHLR16"}
  BY <1>1, <1>2, <1>5, CleanFacts DEF Both!I!Logic
<1>6. QED
  BY <1>3, <1>4, <1>5, LogicOps

LEMMA CleanControl ==
  ASSUME NEW i \in Both!Plain, i.op \in {"STC", "STC_L", "LDC", "LDC_L"},
         i.creg \in {"sr", "gbr", "vbr", "ssr", "spc", "dbr", "mach", "macl", "pr", "fpul",
                     "fpscr", "b0", "b1", "sgr"}
  PROVE  Clean(Both!I!Control(i))
<1>1. /\ Both!I!R(i.n) \in Named /\ Both!I!R(i.m) \in Named
      /\ Named \subseteq Readable /\ {"v", "t", "sr", "fpscr"} \subseteq Named /\ i.creg \in Named
  BY Names
<1>2. "read_sr" \notin Special
  BY DEF Special
<1>3. QED
  BY <1>1, <1>2, CleanFacts, CleanAccess DEF Both!I!Control

LEMMA CleanSystem ==
  ASSUME NEW i \in Both!Plain, i \in Both!Systems \cup Both!Caches \cup Both!Controls
  PROVE  Clean(Both!I!System(i))
<1>1. /\ Both!I!R(i.n) \in Named /\ Named \subseteq Readable
      /\ {"r0", "t", "sr", "mach", "macl", "fpscr"} \subseteq Named /\ "imm" \in Readable /\ "pc" \in Readable
  BY Names
<1>2. "zero" \notin Special /\ "one" \notin Special /\ "trapa" \notin Special /\ "sq_flush" \notin Special
      /\ "fault" \notin Special
  BY DEF Special
<1>3. CASE i.op \in {"STC", "STC_L", "LDC", "LDC_L"}
  <2>1. Both!I!System(i) = Both!I!Control(i)
    BY <1>3 DEF Both!I!System
  <2>2. QED
    BY <1>3, <2>1, CleanControl, SystemOps
<1>4. CASE i.op \in {"CLRMAC", "CLRS", "SETS", "CLRT", "SETT", "FRCHG", "FSCHG"}
  BY <1>1, <1>2, <1>4, CleanFacts DEF Both!I!System
<1>5. CASE i.op \in {"TRAPA", "MOVCA_L", "NOP", "LDTLB", "PREF", "OCBI", "OCBP", "OCBWB"}
  BY <1>1, <1>2, <1>5, CleanAccess, CleanMemory DEF Both!I!System
<1>6. QED
  BY <1>3, <1>4, <1>5, SystemOps

\* Every instruction's code leaves the target of a branch alone.
LEMMA CleanExec ==
  ASSUME NEW i \in Both!Plain, NEW double_ \in BOOLEAN, NEW pairs_ \in BOOLEAN
  PROVE  Clean(Both!I!Exec(i, double_, pairs_))
BY PlainFields, CleanArithmetic, CleanFmov, CleanMove, CleanInteger, CleanLogic, CleanSystem
   DEF Both!I!Exec

-------------------------------------------------------------------------------
(* Such code does the same whatever the target of the branch is. *)

LEMMA ContextIs ==
  ASSUME NEW c
  PROVE  IsContext(c) <=> \E reg, log : /\ c = [reg |-> reg, log |-> log]
                                        /\ reg = [p \in Both!I!Places |-> reg[p]]
<1>1. ASSUME NEW reg, NEW log, c = [reg |-> reg, log |-> log], reg = [p \in Both!I!Places |-> reg[p]]
      PROVE  IsContext(c)
  <2>1. c.reg = reg /\ c.log = log
    BY <1>1
  <2>2. QED
    BY <1>1, <2>1 DEF IsContext
<1>2. QED
  BY <1>1 DEF IsContext

\* What Apply leaves: a context, where the target and pc are those of before.
Leaves(c, d) ==
  /\ IsContext(d)
  /\ \A p \in {"target", "taken", "pc"} : d.reg[p] = c.reg[p]

LEMMA SwappedIs ==
  ASSUME NEW c, IsContext(c), NEW val, NEW p \in {"target", "taken", "pc"},
         NEW some, NEW others,
         <<some, others>> \in {<<Both!I!General, Both!I!Bank>>, <<Both!I!Fr, Both!I!Xf>>}
  PROVE  /\ Both!I!Swapped(c, some, others) = [k \in Both!I!Places |-> Both!I!Swapped(c, some, others)[k]]
         /\ Both!I!Swapped(c, some, others)[p] = c.reg[p]
         /\ Both!I!Swapped(Put(c, p, val), some, others)
              = [Both!I!Swapped(c, some, others) EXCEPT ![p] = val]
<1>0. /\ DOMAIN some = {1, 2} /\ DOMAIN others = {1, 2}
      /\ \A k \in {1, 2} : some[k] \in Both!I!Places \ {p} /\ others[k] \in Both!I!Places \ {p}
      /\ p \in Both!I!Places
  <2>1. CASE some = Both!I!General /\ others = Both!I!Bank
    BY <2>1, PlacesAre DEF Both!I!General, Both!I!Bank
  <2>2. CASE some = Both!I!Fr /\ others = Both!I!Xf
    BY <2>2, PlacesAre DEF Both!I!Fr, Both!I!Xf
  <2>3. QED
    BY <2>1, <2>2
<1>1. Assigned(c, Put(c, p, val), p, val)
  BY <1>0, PutAssigns
<1> DEFINE Swap(d) ==
      [place \in Both!I!Places |->
         IF \E k \in {1, 2} : some[k] = place
         THEN d.reg[others[CHOOSE k \in {1, 2} : some[k] = place]]
         ELSE IF \E k \in {1, 2} : others[k] = place
         THEN d.reg[some[CHOOSE k \in {1, 2} : others[k] = place]]
         ELSE d.reg[place]]
<1>2. \A d : Both!I!Swapped(d, some, others) = Swap(d)
  BY <1>0 DEF Both!I!Swapped
<1>3. Swap(c)[p] = c.reg[p]
  BY <1>0
<1>4. ASSUME NEW place \in Both!I!Places
      PROVE  Swap(Put(c, p, val))[place] = IF place = p THEN val ELSE Swap(c)[place]
  <2>1. CASE \E k \in {1, 2} : some[k] = place
    <3>1. others[CHOOSE k \in {1, 2} : some[k] = place] \in Both!I!Places \ {p} /\ place # p
      BY <1>0, <2>1
    <3>2. QED
      BY <1>1, <2>1, <3>1 DEF Assigned
  <2>2. CASE ~(\E k \in {1, 2} : some[k] = place) /\ \E k \in {1, 2} : others[k] = place
    <3>1. some[CHOOSE k \in {1, 2} : others[k] = place] \in Both!I!Places \ {p} /\ place # p
      BY <1>0, <2>2
    <3>2. QED
      BY <1>1, <2>2, <3>1 DEF Assigned
  <2>3. CASE ~(\E k \in {1, 2} : some[k] = place) /\ ~(\E k \in {1, 2} : others[k] = place)
    BY <1>1, <2>3 DEF Assigned
  <2>4. QED
    BY <2>1, <2>2, <2>3
<1>5. Swap(Put(c, p, val)) = [Swap(c) EXCEPT ![p] = val]
  <2>1. Swap(Put(c, p, val)) = [place \in Both!I!Places |-> Swap(Put(c, p, val))[place]]
    OBVIOUS
  <2>2. [Swap(c) EXCEPT ![p] = val] = [place \in Both!I!Places |-> IF place = p THEN val ELSE Swap(c)[place]]
    OBVIOUS
  <2> HIDE DEF Swap
  <2>3. QED
    BY <1>4, <2>1, <2>2
<1>6. Swap(c) = [place \in Both!I!Places |-> Swap(c)[place]]
  OBVIOUS
<1> HIDE DEF Swap
<1>7. QED
  BY <1>2, <1>3, <1>5, <1>6

LEMMA OneCommutes ==
  ASSUME NEW c, IsContext(c), NEW s, CleanStatement(s), NEW flip,
         NEW p \in {"target", "taken"}, NEW val
  PROVE  /\ Leaves(c, Both!I!Apply(c, s, flip))
         /\ Both!I!Apply(Put(c, p, val), s, flip) = Put(Both!I!Apply(c, s, flip), p, val)
<1> DEFINE d == Put(c, p, val)
           ops == Both!I!Operands(c, s)
<1>0. p \in Both!I!Places /\ Assignable \subseteq Both!I!Places /\ "mem" \notin Assignable
      /\ "target" \notin Assignable /\ "taken" \notin Assignable /\ "pc" \notin Assignable
      /\ {"target", "taken", "pc", "sr", "t", "fpscr"} \subseteq Both!I!Places
  BY PlacesAre DEF Assignable
<1>1. Assigned(c, d, p, val)
  BY <1>0, PutAssigns
<1>2. Both!I!Operands(d, s) = ops
  <2>1. ASSUME NEW k \in DOMAIN s.args PROVE d.reg[s.args[k]] = c.reg[s.args[k]]
    BY <1>1 DEF CleanStatement, Readable, Assigned
  <2>2. QED
    BY <2>1 DEF Both!I!Operands
<1>3. d = [reg |-> d.reg, log |-> d.log] /\ d.log = c.log /\ d.reg = [c.reg EXCEPT ![p] = val]
      /\ c = [reg |-> c.reg, log |-> c.log] /\ c.reg = [q_ \in Both!I!Places |-> c.reg[q_]]
  BY <1>1 DEF Assigned, IsContext, Put
<1> HIDE DEF d
<1> DEFINE Goal(x_, y_) == Leaves(c, x_) /\ y_ = Put(x_, p, val)
<1>4. ASSUME NEW reg, NEW log, reg = [q_ \in Both!I!Places |-> reg[q_]],
             \A k \in {"target", "taken", "pc"} : reg[k] = c.reg[k]
      PROVE  Goal([reg |-> reg, log |-> log], [reg |-> [reg EXCEPT ![p] = val], log |-> log])
  <2> DEFINE z == [reg |-> reg, log |-> log]
  <2>1. z.reg = reg /\ z.log = log
    OBVIOUS
  <2>2. IsContext(z)
    BY <1>4, <2>1 DEF IsContext
  <2>3. Put(z, p, val) = [reg |-> [reg EXCEPT ![p] = val], log |-> log]
    BY <2>1 DEF Put
  <2> HIDE DEF z
  <2>4. Leaves(c, z)
    BY <1>4, <2>1, <2>2 DEF Leaves
  <2>5. QED
    BY <2>3, <2>4 DEF z
<1> HIDE DEF Goal
<1>5. CASE s.f \in {"read8", "read16", "read32"}
  <2>1. s.to \in Assignable /\ s.to # "mem"
    BY <1>0, <1>5 DEF CleanStatement, Special
  <2>2. /\ Both!I!Apply(c, s, flip) = Both!I!Answered(c, s.to, s.f, ops[1])
        /\ Both!I!Apply(d, s, flip) = Both!I!Answered(d, s.to, s.f, ops[1])
    BY <1>2, <1>5, <2>1 DEF Both!I!Apply
  <2> DEFINE reg == [c.reg EXCEPT ![s.to] = <<s.f, ops[1], Len(c.log)>>]
             log == Append(c.log, <<s.f, ops[1]>>)
  <2>3. /\ Both!I!Answered(c, s.to, s.f, ops[1]) = [reg |-> reg, log |-> log]
        /\ Both!I!Answered(d, s.to, s.f, ops[1]) = [reg |-> [reg EXCEPT ![p] = val], log |-> log]
    <3>1. s.to # p /\ s.to \in Both!I!Places /\ p \in Both!I!Places
      BY <1>0, <2>1 DEF Assignable
    <3>2. \A ad : [[c.reg EXCEPT ![p] = val] EXCEPT ![s.to] = ad]
                   = [[c.reg EXCEPT ![s.to] = ad] EXCEPT ![p] = val]
      BY <1>3, <3>1
    <3>3. QED
      BY <1>3, <3>2 DEF Both!I!Answered
  <2>4. /\ reg = [q_ \in Both!I!Places |-> reg[q_]]
        /\ \A k \in {"target", "taken", "pc"} : reg[k] = c.reg[k]
    BY <1>0, <1>3, <2>1
  <2> HIDE DEF reg, log
  <2>5. QED
    BY <1>4, <2>2, <2>3, <2>4 DEF d, Goal
<1>6. CASE s.f \notin {"read8", "read16", "read32"} /\ s.to = "mem"
  <2> DEFINE log == Append(c.log, <<s.f>> \o ops)
  <2>1. s.f \notin Special
    BY <1>0, <1>6 DEF CleanStatement
  <2>2. /\ Both!I!Apply(c, s, flip) = [c EXCEPT !.log = log]
        /\ Both!I!Apply(d, s, flip) = [d EXCEPT !.log = log]
    BY <1>2, <1>3, <1>6, <2>1 DEF Both!I!Apply, Special
  <2> HIDE DEF log
  <2>3. /\ Both!I!Apply(c, s, flip) = [reg |-> c.reg, log |-> log]
        /\ Both!I!Apply(d, s, flip) = [reg |-> [c.reg EXCEPT ![p] = val], log |-> log]
    BY <1>3, <2>2
  <2>4. QED
    BY <1>3, <1>4, <2>3 DEF d, Goal
<1>7. CASE s.f = "write_sr"
  <2>1. s.to # "mem"
    BY <1>0, <1>7 DEF CleanStatement, Special
  <2>2. /\ Both!I!Apply(c, s, flip) = Both!I!WithSr(c, flip, ops[1])
        /\ Both!I!Apply(d, s, flip) = Both!I!WithSr(d, flip, ops[1])
    BY <1>2, <1>7, <2>1 DEF Both!I!Apply
  <2> DEFINE base == IF flip THEN Both!I!Swapped(c, Both!I!General, Both!I!Bank) ELSE c.reg
             reg == [base EXCEPT !["sr"] = ops[1], !["t"] = <<"tbit", ops[1]>>]
  <2>3. /\ base = [q_ \in Both!I!Places |-> base[q_]]
        /\ \A k \in {"target", "taken", "pc"} : base[k] = c.reg[k]
        /\ (IF flip THEN Both!I!Swapped(d, Both!I!General, Both!I!Bank) ELSE d.reg)
              = [base EXCEPT ![p] = val]
    <3>1. CASE flip
      BY <1>3, <3>1, SwappedIs DEF d
    <3>2. CASE ~flip
      BY <1>3, <3>2
    <3>3. QED
      BY <3>1, <3>2
  <2>4. /\ Both!I!WithSr(c, flip, ops[1]) = [reg |-> reg, log |-> c.log]
        /\ Both!I!WithSr(d, flip, ops[1])
             = [reg |-> [(IF flip THEN Both!I!Swapped(d, Both!I!General, Both!I!Bank) ELSE d.reg)
                           EXCEPT !["sr"] = ops[1], !["t"] = <<"tbit", ops[1]>>],
                log |-> c.log]
    BY <1>3 DEF Both!I!WithSr
  <2> HIDE DEF base
  <2>5. /\ reg = [q_ \in Both!I!Places |-> reg[q_]]
        /\ \A k \in {"target", "taken", "pc"} : reg[k] = c.reg[k]
        /\ [[base EXCEPT ![p] = val] EXCEPT !["sr"] = ops[1], !["t"] = <<"tbit", ops[1]>>]
             = [reg EXCEPT ![p] = val]
    BY <1>0, <2>3
  <2> HIDE DEF reg
  <2>6. QED
    BY <1>4, <2>2, <2>3, <2>4, <2>5 DEF d, Goal
<1>8. CASE s.f \in {"write_fpscr", "frchg"}
  <2>1. s.to # "mem"
    BY <1>0, <1>8 DEF CleanStatement, Special
  <2> DEFINE swap == flip \/ s.f = "frchg"
             term == Both!I!Term(s.f, ops)
  <2>2. /\ Both!I!Apply(c, s, flip) = Both!I!WithFpscr(c, swap, term)
        /\ Both!I!Apply(d, s, flip) = Both!I!WithFpscr(d, swap, term)
    BY <1>2, <1>8, <2>1 DEF Both!I!Apply
  <2> HIDE DEF term
  <2> DEFINE base == IF swap THEN Both!I!Swapped(c, Both!I!Fr, Both!I!Xf) ELSE c.reg
             reg == [base EXCEPT !["fpscr"] = term]
  <2>3. /\ base = [q_ \in Both!I!Places |-> base[q_]]
        /\ \A k \in {"target", "taken", "pc"} : base[k] = c.reg[k]
        /\ (IF swap THEN Both!I!Swapped(d, Both!I!Fr, Both!I!Xf) ELSE d.reg)
              = [base EXCEPT ![p] = val]
    <3>1. CASE swap
      BY <1>3, <3>1, SwappedIs DEF d
    <3>2. CASE ~swap
      BY <1>3, <3>2
    <3>3. QED
      BY <3>1, <3>2
  <2>4. /\ Both!I!WithFpscr(c, swap, term) = [reg |-> reg, log |-> c.log]
        /\ Both!I!WithFpscr(d, swap, term)
             = [reg |-> [(IF swap THEN Both!I!Swapped(d, Both!I!Fr, Both!I!Xf) ELSE d.reg)
                           EXCEPT !["fpscr"] = term],
                log |-> c.log]
    BY <1>3 DEF Both!I!WithFpscr
  <2> HIDE DEF base, swap
  <2>5. /\ reg = [q_ \in Both!I!Places |-> reg[q_]]
        /\ \A k \in {"target", "taken", "pc"} : reg[k] = c.reg[k]
        /\ [[base EXCEPT ![p] = val] EXCEPT !["fpscr"] = term] = [reg EXCEPT ![p] = val]
    BY <1>0, <2>3
  <2> HIDE DEF reg
  <2>6. QED
    BY <1>4, <2>2, <2>3, <2>4, <2>5 DEF d, Goal
<1>9. CASE s.f \notin Special /\ s.to # "mem"
  <2>1. s.to \in Assignable
    BY <1>9 DEF CleanStatement
  <2> DEFINE term == Both!I!Term(s.f, ops)
             reg == [c.reg EXCEPT ![s.to] = term]
  <2>2. /\ Both!I!Apply(c, s, flip) = [c EXCEPT !.reg[s.to] = term]
        /\ Both!I!Apply(d, s, flip) = [d EXCEPT !.reg[s.to] = term]
    BY <1>2, <1>9 DEF Both!I!Apply, Special
  <2> HIDE DEF term
  <2>3. /\ Both!I!Apply(c, s, flip) = [reg |-> reg, log |-> c.log]
        /\ Both!I!Apply(d, s, flip) = [reg |-> [reg EXCEPT ![p] = val], log |-> c.log]
    BY <1>0, <1>3, <2>1, <2>2
  <2>4. /\ reg = [q_ \in Both!I!Places |-> reg[q_]]
        /\ \A k \in {"target", "taken", "pc"} : reg[k] = c.reg[k]
    BY <1>0, <1>3, <2>1
  <2> HIDE DEF reg
  <2>5. QED
    BY <1>4, <2>3, <2>4 DEF d, Goal
<1>10. QED
  BY <1>5, <1>6, <1>7, <1>8, <1>9 DEF Special

LEMMA CodeCommutes ==
  ASSUME NEW c, IsContext(c), NEW code, Clean(code), NEW flip,
         NEW p \in {"target", "taken"}, NEW val
  PROVE  /\ Leaves(c, Both!I!Do(c, code, flip))
         /\ Both!I!Do(Put(c, p, val), code, flip) = Put(Both!I!Do(c, code, flip), p, val)
<1> DEFINE L == Len(code)
<1>1. L \in Nat /\ \A n \in 1..L : CleanStatement(code[n])
  BY DEF Clean, IsCode
<1> HIDE DEF L
<1>2. PICK g : Passes(c, code, flip, g) /\ Both!I!Do(c, code, flip) = g[L]
  BY <1>1, DoRuns DEF L
<1> DEFINE S == {n \in Nat : n <= L => Leaves(c, g[n])}
<1>3. 0 \in S
  BY <1>2 DEF Passes, Leaves
<1>4. ASSUME NEW n \in Nat, n \in S PROVE n + 1 \in S
  <2>1. SUFFICES ASSUME n + 1 <= L PROVE Leaves(c, g[n + 1])
    OBVIOUS
  <2>2. n + 1 \in 1..L /\ (n + 1) - 1 = n /\ n <= L
    BY <1>1, <2>1
  <2>3. Leaves(c, g[n])
    BY <1>4, <2>2
  <2>4. g[n + 1] = Both!I!Apply(g[n], code[n + 1], flip)
    BY <1>2, <2>2 DEF Passes, L
  <2>5. Leaves(g[n], g[n + 1])
    BY <1>1, <2>2, <2>3, <2>4, OneCommutes DEF Leaves
  <2>6. QED
    BY <2>3, <2>5 DEF Leaves
<1>5. \A n \in 0..L : Leaves(c, g[n])
  <2>1. Nat \subseteq S
    <3> HIDE DEF S
    <3>1. QED
      BY <1>3, <1>4, SetInduction
  <2>2. QED
    BY <1>1, <2>1
<1> DEFINE h == [n \in 0..L |-> Put(g[n], p, val)]
<1>6. Passes(Put(c, p, val), code, flip, h)
  <2>1. h[0] = Put(c, p, val)
    BY <1>1, <1>2 DEF Passes
  <2>2. ASSUME NEW n \in 1..L PROVE h[n] = Both!I!Apply(h[n - 1], code[n], flip)
    <3>1. n \in 0..L /\ n - 1 \in 0..L
      BY <1>1
    <3>2. h[n] = Put(g[n], p, val) /\ h[n - 1] = Put(g[n - 1], p, val)
      BY <3>1
    <3> HIDE DEF h
    <3>3. g[n] = Both!I!Apply(g[n - 1], code[n], flip)
      BY <1>2 DEF Passes, L
    <3>4. IsContext(g[n - 1])
      BY <1>5, <3>1 DEF Leaves
    <3>5. QED
      BY <1>1, <3>2, <3>3, <3>4, OneCommutes
  <2> HIDE DEF h
  <2>3. QED
    BY <2>1, <2>2 DEF Passes, L
<1>7. Both!I!Do(Put(c, p, val), code, flip) = h[L]
  <2> HIDE DEF h
  <2>1. QED
    BY <1>1, <1>6, DoIs DEF L
<1>8. h[L] = Put(g[L], p, val) /\ Leaves(c, g[L])
  BY <1>1, <1>5
<1>9. QED
  BY <1>2, <1>7, <1>8

-------------------------------------------------------------------------------
(* The code of the one engine and of the other. *)

\* Two contexts that differ at most in the temporaries.
Same(c, d) == c.log = d.log /\ \A p \in Lasting : c.reg[p] = d.reg[p]

\* From c, the codes of the two engines leave the same.
CodesAlike(c, code, code_, flip) ==
  /\ IsContext(Both!I!Do(c, code_, flip))
  /\ Same(Both!I!Do(c, code, flip), Both!I!Do(c, code_, flip))

LEMMA EqualAlike ==
  ASSUME NEW c, IsContext(c), NEW code, Clean(code), NEW flip PROVE CodesAlike(c, code, code, flip)
BY CodeCommutes DEF CodesAlike, Same, Leaves

\* After the same code before, alike codes are alike; and the same unary operation after them.
LEMMA AlikeAfter ==
  ASSUME NEW c, IsContext(c), NEW code, Clean(code), NEW code_, IsCode(code_), NEW code_1, IsCode(code_1),
         NEW flip, \A d : IsContext(d) => CodesAlike(d, code_, code_1, flip)
  PROVE  CodesAlike(c, code \o code_, code \o code_1, flip)
<1>1. IsContext(Both!I!Do(c, code, flip))
  BY CodeCommutes DEF Leaves
<1>2. QED
  BY <1>1, DoThen DEF CodesAlike, Clean

LEMMA UnaryAfter ==
  ASSUME NEW c, NEW d, IsContext(c), IsContext(d), Same(c, d), NEW to \in Both!I!Places,
         NEW f, f \notin Special, NEW p \in Lasting, NEW flip
  PROVE  /\ IsContext(Both!I!Do(c, Both!I!Set(to, f, <<p>>), flip))
         /\ IsContext(Both!I!Do(d, Both!I!Set(to, f, <<p>>), flip))
         /\ Same(Both!I!Do(c, Both!I!Set(to, f, <<p>>), flip), Both!I!Do(d, Both!I!Set(to, f, <<p>>), flip))
<1> DEFINE x_ == Both!I!Do(c, Both!I!Set(to, f, <<p>>), flip)
           y_ == Both!I!Do(d, Both!I!Set(to, f, <<p>>), flip)
<1>1. Assigned(c, x_, to, Of(f, c.reg[p])) /\ Assigned(d, y_, to, Of(f, d.reg[p]))
  BY UnaryDoes
<1>2. c.reg[p] = d.reg[p]
  BY DEF Same
<1> HIDE DEF x_, y_
<1>3. QED
  BY <1>1, <1>2 DEF Assigned, Same, Lasting, x_, y_

LEMMA NamedKept ==
  /\ Named \ {"v", "w", "ea"} \subseteq Lasting
  /\ Named \subseteq Both!I!Places /\ Readable \subseteq Both!I!Places
BY DEF Named, Readable, Lasting

LEMMA LoadAlike ==
  ASSUME NEW c, IsContext(c), NEW to \in Lasting, NEW size \in {8, 16, 32}, NEW p \in Both!I!Places,
         NEW flip
  PROVE  CodesAlike(c, Both!I!Read("v", size, p) \o Both!I!Set(to, Both!I!Extend[size], <<"v">>),
                  Both!I!Read(to, size, p) \o Both!I!Set(to, Both!I!Extend[size], <<to>>), flip)
<1> DEFINE c1 == Both!I!Do(c, Both!I!Read("v", size, p), flip)
           c2 == Both!I!Do(c1, Both!I!Set(to, Both!I!Extend[size], <<"v">>), flip)
           d1 == Both!I!Do(c, Both!I!Read(to, size, p), flip)
           d2 == Both!I!Do(d1, Both!I!Set(to, Both!I!Extend[size], <<to>>), flip)
<1>0. "v" \in Both!I!Places /\ to \in Both!I!Places /\ to # "v" /\ Both!I!Extend[size] \notin Special
  BY PlacesAre, SizeOps DEF Lasting
<1>1. /\ Both!I!Do(c, Both!I!Read("v", size, p) \o Both!I!Set(to, Both!I!Extend[size], <<"v">>), flip) = c2
      /\ Both!I!Do(c, Both!I!Read(to, size, p) \o Both!I!Set(to, Both!I!Extend[size], <<to>>), flip) = d2
  BY DoThen, ReadCode, SetCode
<1> DEFINE val == Got(size, c.reg[p], c.log)
           log == LogOfRead(size, c.reg[p], c.log)
<1>2. /\ IsContext(c1) /\ c1.reg["v"] = val /\ c1.log = log
      /\ \A k \in Both!I!Places \ {"v"} : c1.reg[k] = c.reg[k]
  BY <1>0, ReadDoes
<1>3. /\ IsContext(d1) /\ d1.reg[to] = val /\ d1.log = log
      /\ \A k \in Both!I!Places \ {to} : d1.reg[k] = c.reg[k]
  BY <1>0, ReadDoes
<1> HIDE DEF c1, d1, val, log
<1>4. Assigned(c1, c2, to, Of(Both!I!Extend[size], val))
  BY <1>0, <1>2, UnaryDoes
<1>5. Assigned(d1, d2, to, Of(Both!I!Extend[size], val))
  BY <1>0, <1>3, UnaryDoes
<1> HIDE DEF c2, d2
<1>6. IsContext(d2) /\ Same(c2, d2)
  BY <1>0, <1>2, <1>3, <1>4, <1>5 DEF Assigned, Same, Lasting
<1>7. QED
  BY <1>1, <1>6 DEF CodesAlike

\* A value through a temporary, and without it.
LEMMA ThroughAlike ==
  ASSUME NEW c, IsContext(c), NEW to \in Lasting, NEW f, f \notin Special, NEW g, g \notin Special,
         NEW args, NEW flip
  PROVE  /\ CodesAlike(c, Both!I!Set("v", f, args) \o Both!I!Set(to, g, <<"v">>),
                     Both!I!Set(to, f, args) \o Both!I!Set(to, g, <<to>>), flip)
         /\ CodesAlike(c, Both!I!Set("v", f, args) \o Both!I!Copy(to, "v"), Both!I!Set(to, f, args), flip)
<1> DEFINE val == Both!I!Term(f, [k \in DOMAIN args |-> c.reg[args[k]]])
           c1 == Both!I!Do(c, Both!I!Set("v", f, args), flip)
           c2 == Both!I!Do(c1, Both!I!Set(to, g, <<"v">>), flip)
           c3 == Both!I!Do(c1, Both!I!Copy(to, "v"), flip)
           d1 == Both!I!Do(c, Both!I!Set(to, f, args), flip)
           d2 == Both!I!Do(d1, Both!I!Set(to, g, <<to>>), flip)
<1>0. "v" \in Both!I!Places /\ to \in Both!I!Places /\ to # "v"
  BY PlacesAre DEF Lasting
<1>1. /\ Both!I!Do(c, Both!I!Set("v", f, args) \o Both!I!Set(to, g, <<"v">>), flip) = c2
      /\ Both!I!Do(c, Both!I!Set("v", f, args) \o Both!I!Copy(to, "v"), flip) = c3
      /\ Both!I!Do(c, Both!I!Set(to, f, args) \o Both!I!Set(to, g, <<to>>), flip) = d2
  BY DoThen, SetCode, CopyCode
<1>2. Assigned(c, c1, "v", val) /\ Assigned(c, d1, to, val)
  BY <1>0, SetDoes
<1> HIDE DEF c1, d1, val
<1>3. Assigned(c1, c2, to, Of(g, val)) /\ Assigned(c1, c3, to, val) /\ Assigned(d1, d2, to, Of(g, val))
  BY <1>0, <1>2, UnaryDoes, CopyDoes DEF Assigned
<1> HIDE DEF c2, c3, d2
<1>4. IsContext(d1) /\ IsContext(d2) /\ Same(c2, d2) /\ Same(c3, d1)
  BY <1>0, <1>2, <1>3 DEF Assigned, Same, Lasting
<1>5. QED
  BY <1>1, <1>4 DEF CodesAlike, d1

LEMMA LoadAndStepAlike ==
  ASSUME NEW c, IsContext(c), NEW to \in Lasting, NEW from \in Lasting, to # from, NEW size \in {8, 16, 32}, NEW flip
  PROVE  CodesAlike(c, Both!I!Read("v", size, from) \o Both!I!Set("v", Both!I!Extend[size], <<"v">>)
                    \o Both!I!Set(from, Both!I!Step[size], <<from>>) \o Both!I!Copy(to, "v"),
                  Both!I!Read(to, size, from) \o Both!I!Set(to, Both!I!Extend[size], <<to>>)
                    \o Both!I!Set(from, Both!I!Step[size], <<from>>), flip)
<1> DEFINE r_(k) == Both!I!Read(k, size, from)
           e_(k) == Both!I!Set(k, Both!I!Extend[size], <<k>>)
           s_ == Both!I!Set(from, Both!I!Step[size], <<from>>)
           c1 == Both!I!Do(c, r_("v"), flip)
           c2 == Both!I!Do(c1, e_("v"), flip)
           c3 == Both!I!Do(c2, s_, flip)
           c4 == Both!I!Do(c3, Both!I!Copy(to, "v"), flip)
           d1 == Both!I!Do(c, r_(to), flip)
           d2 == Both!I!Do(d1, e_(to), flip)
           d3 == Both!I!Do(d2, s_, flip)
<1>0. /\ "v" \in Both!I!Places /\ to \in Both!I!Places /\ to # "v" /\ from \in Both!I!Places /\ from # "v"
      /\ Both!I!Extend[size] \notin Special /\ Both!I!Step[size] \notin Special
  BY PlacesAre, SizeOps DEF Lasting
<1>1. /\ \A k : IsCode(r_(k)) /\ IsCode(e_(k))
      /\ IsCode(s_) /\ IsCode(Both!I!Copy(to, "v"))
  BY ReadCode, SetCode, CopyCode
<1> DEFINE val == Got(size, c.reg[from], c.log)
           log == LogOfRead(size, c.reg[from], c.log)
<1>2. /\ IsContext(c1) /\ c1.reg["v"] = val /\ c1.log = log
      /\ \A k \in Both!I!Places \ {"v"} : c1.reg[k] = c.reg[k]
  BY <1>0, ReadDoes
<1>3. /\ IsContext(d1) /\ d1.reg[to] = val /\ d1.log = log
      /\ \A k \in Both!I!Places \ {to} : d1.reg[k] = c.reg[k]
  BY <1>0, ReadDoes
<1> HIDE DEF c1, d1, val, log
<1>4. Assigned(c1, c2, "v", Of(Both!I!Extend[size], val)) /\ Assigned(d1, d2, to, Of(Both!I!Extend[size], val))
  BY <1>0, <1>2, <1>3, UnaryDoes
<1> HIDE DEF c2, d2
<1>5. Assigned(c2, c3, from, Of(Both!I!Step[size], c2.reg[from])) /\ Assigned(d2, d3, from, Of(Both!I!Step[size], d2.reg[from]))
  BY <1>0, <1>4, UnaryDoes DEF Assigned
<1> HIDE DEF c3, d3
<1>6. Assigned(c3, c4, to, c3.reg["v"])
  BY <1>0, <1>5, CopyDoes DEF Assigned
<1> HIDE DEF c4
<1>7. IsContext(d3) /\ Same(c4, d3)
  BY <1>0, <1>2, <1>3, <1>4, <1>5, <1>6 DEF Assigned, Same, Lasting
<1> HIDE DEF r_, e_, s_
<1>8. Both!I!Do(c, r_("v") \o e_("v") \o s_ \o Both!I!Copy(to, "v"), flip) = c4
  <2>1. Both!I!Do(c, r_("v") \o e_("v"), flip) = c2 /\ IsCode(r_("v") \o e_("v"))
    BY <1>1, DoThen DEF c1, c2
  <2>2. Both!I!Do(c, r_("v") \o e_("v") \o s_, flip) = c3 /\ IsCode(r_("v") \o e_("v") \o s_)
    BY <1>1, <2>1, DoThen DEF c3
  <2>3. QED
    BY <1>1, <2>2, DoThen DEF c4
<1>9. Both!I!Do(c, r_(to) \o e_(to) \o s_, flip) = d3
  <2>1. Both!I!Do(c, r_(to) \o e_(to), flip) = d2 /\ IsCode(r_(to) \o e_(to))
    BY <1>1, DoThen DEF d1, d2
  <2>2. QED
    BY <1>1, <2>1, DoThen DEF d3
<1>10. QED
  BY <1>7, <1>8, <1>9 DEF CodesAlike, r_, e_, s_

\* From c and from d, the codes of the two engines leave the same.
Meets(c, d, code, code_, flip) ==
  /\ IsContext(Both!I!Do(c, code, flip)) /\ IsContext(Both!I!Do(d, code_, flip))
  /\ Same(Both!I!Do(c, code, flip), Both!I!Do(d, code_, flip))

LEMMA FmovLoadMeets ==
  ASSUME NEW c, NEW d, IsContext(c), IsContext(d), Same(c, d), NEW p \in {"r0", "r1", "ea"},
         d.reg["ea"] = c.reg[p], NEW n \in {0, 1}, NEW flip
  PROVE  /\ Meets(c, d, Both!I!Read(Both!I!F(n), 32, p), Both!I!Read(Both!I!F(n), 32, "ea"), flip)
         /\ Meets(c, d, Both!I!ReadPair(p) \o Both!I!Copy(Both!I!Pair(n)[1], "v")
                          \o Both!I!Copy(Both!I!Pair(n)[2], "w"),
                  Both!I!Read(Both!I!Pair(n)[1], 32, "ea") \o Both!I!Set("w", "add4", <<"ea">>)
                    \o Both!I!Read(Both!I!Pair(n)[2], 32, "w"), flip)
<1> DEFINE p1 == Both!I!Pair(n)[1]
           p2 == Both!I!Pair(n)[2]
           f_ == Both!I!F(n)
<1>0. /\ p1 \in {"f0", "x0"} /\ p2 \in {"f1", "x1"} /\ f_ \in {"f0", "f1"}
      /\ {"v", "w", "ea", "r0", "r1", "f0", "f1", "x0", "x1"} \subseteq Both!I!Places
  BY PlacesAre
<1>a. "add4" \notin Special
  BY DEF Special
<1> HIDE DEF p1, p2, f_
<1>1. Meets(c, d, Both!I!Read(f_, 32, p), Both!I!Read(f_, 32, "ea"), flip)
  <2> DEFINE c1 == Both!I!Do(c, Both!I!Read(f_, 32, p), flip)
             d1 == Both!I!Do(d, Both!I!Read(f_, 32, "ea"), flip)
             val == Got(32, c.reg[p], c.log)
             log == LogOfRead(32, c.reg[p], c.log)
  <2>1. /\ IsContext(c1) /\ c1.reg[f_] = val /\ c1.log = log
        /\ \A k \in Both!I!Places \ {f_} : c1.reg[k] = c.reg[k]
    BY <1>0, ReadDoes
  <2>2. /\ IsContext(d1) /\ d1.reg[f_] = val /\ d1.log = log
        /\ \A k \in Both!I!Places \ {f_} : d1.reg[k] = d.reg[k]
    <3>1. d.log = c.log
      BY DEF Same
    <3>2. QED
      BY <1>0, <3>1, ReadDoes
  <2> HIDE DEF c1, d1, val, log
  <2>3. Same(c1, d1)
    BY <1>0, <2>1, <2>2 DEF Same, Lasting
  <2>4. QED
    BY <2>1, <2>2, <2>3 DEF Meets, c1, d1
<1> DEFINE c1 == Both!I!Do(c, Both!I!Read("v", 32, p), flip)
           c2 == Both!I!Do(c1, Both!I!Set("w", "add4", <<p>>), flip)
           c3 == Both!I!Do(c2, Both!I!Read("w", 32, "w"), flip)
           c4 == Both!I!Do(c3, Both!I!Copy(p1, "v"), flip)
           c5 == Both!I!Do(c4, Both!I!Copy(p2, "w"), flip)
           d1 == Both!I!Do(d, Both!I!Read(p1, 32, "ea"), flip)
           d2 == Both!I!Do(d1, Both!I!Set("w", "add4", <<"ea">>), flip)
           d3 == Both!I!Do(d2, Both!I!Read(p2, 32, "w"), flip)
           val1 == Got(32, c.reg[p], c.log)
           log1 == LogOfRead(32, c.reg[p], c.log)
           second == Of("add4", c.reg[p])
           val2 == Got(32, second, log1)
           log2 == LogOfRead(32, second, log1)
<1>2. /\ IsContext(c1) /\ c1.reg["v"] = val1 /\ c1.log = log1
      /\ \A k \in Both!I!Places \ {"v"} : c1.reg[k] = c.reg[k]
  BY <1>0, ReadDoes
<1>3. /\ IsContext(d1) /\ d1.reg[p1] = val1 /\ d1.log = log1
      /\ \A k \in Both!I!Places \ {p1} : d1.reg[k] = d.reg[k]
  <2>1. d.log = c.log /\ p1 \in Both!I!Places
    BY <1>0 DEF Same
  <2>2. QED
    BY <2>1, ReadDoes
<1> HIDE DEF c1, d1, val1, log1
<1>4. Assigned(c1, c2, "w", second) /\ Assigned(d1, d2, "w", second)
  <2>1. c1.reg[p] = c.reg[p] /\ d1.reg["ea"] = c.reg[p]
    BY <1>0, <1>2, <1>3
  <2>2. QED
    BY <1>0, <1>a, <1>2, <1>3, <2>1, UnaryDoes
<1> HIDE DEF c2, d2, second
<1>5. /\ IsContext(c3) /\ c3.reg["w"] = val2 /\ c3.log = log2
      /\ \A k \in Both!I!Places \ {"w"} : c3.reg[k] = c2.reg[k]
  <2>1. IsContext(c2) /\ c2.reg["w"] = second /\ c2.log = log1
    BY <1>2, <1>4 DEF Assigned
  <2>2. QED
    BY <1>0, <2>1, ReadDoes
<1>6. /\ IsContext(d3) /\ d3.reg[p2] = val2 /\ d3.log = log2
      /\ \A k \in Both!I!Places \ {p2} : d3.reg[k] = d2.reg[k]
  <2>1. IsContext(d2) /\ d2.reg["w"] = second /\ d2.log = log1 /\ p2 \in Both!I!Places
    BY <1>0, <1>3, <1>4 DEF Assigned
  <2>2. QED
    BY <2>1, ReadDoes
<1> HIDE DEF c3, d3, val2, log2
<1>7. Assigned(c3, c4, p1, c3.reg["v"]) /\ Assigned(c4, c5, p2, c4.reg["w"])
  <2>1. p1 \in Both!I!Places /\ p2 \in Both!I!Places
    BY <1>0
  <2>2. Assigned(c3, c4, p1, c3.reg["v"])
    BY <1>5, <2>1, CopyDoes
  <2> HIDE DEF c4
  <2>3. QED
    BY <2>1, <2>2, CopyDoes DEF Assigned
<1> HIDE DEF c4, c5
<1>8. c3.reg["v"] = val1 /\ c4.reg["w"] = val2
  BY <1>0, <1>2, <1>4, <1>5, <1>7 DEF Assigned
<1>9. Same(c5, d3)
  <2>1. c5.log = d3.log
    BY <1>5, <1>6, <1>7 DEF Assigned
  <2>2. ASSUME NEW k \in Lasting PROVE c5.reg[k] = d3.reg[k]
    <3>1. k \in Both!I!Places \ {"v", "w", "ea"} /\ c.reg[k] = d.reg[k] /\ p1 # p2
      BY <1>0 DEF Lasting, Same
    <3>2. CASE k = p2
      BY <1>6, <1>7, <1>8, <3>2 DEF Assigned
    <3>3. CASE k = p1
      <4>1. c5.reg[k] = val1
        BY <1>7, <1>8, <3>1, <3>3 DEF Assigned
      <4>2. d3.reg[k] = val1
        BY <1>3, <1>4, <1>6, <3>1, <3>3 DEF Assigned
      <4>3. QED
        BY <4>1, <4>2
    <3>4. CASE k # p1 /\ k # p2
      <4>1. c5.reg[k] = c.reg[k]
        BY <1>2, <1>4, <1>5, <1>7, <3>1, <3>4 DEF Assigned
      <4>2. d3.reg[k] = d.reg[k]
        BY <1>3, <1>4, <1>6, <3>1, <3>4 DEF Assigned
      <4>3. QED
        BY <3>1, <4>1, <4>2
    <3>5. QED
      BY <3>2, <3>3, <3>4
  <2>3. QED
    BY <2>1, <2>2 DEF Same
<1>10. Both!I!Do(c, Both!I!ReadPair(p) \o Both!I!Copy(p1, "v") \o Both!I!Copy(p2, "w"), flip) = c5
  <2> DEFINE e1 == Both!I!Read("v", 32, p)
             e2 == Both!I!Set("w", "add4", <<p>>)
             e3 == Both!I!Read("w", 32, "w")
             e4 == Both!I!Copy(p1, "v")
             e5 == Both!I!Copy(p2, "w")
  <2>1. IsCode(e1) /\ IsCode(e2) /\ IsCode(e3) /\ IsCode(e4) /\ IsCode(e5)
    BY ReadCode, SetCode, CopyCode
  <2>2. /\ c1 = Both!I!Do(c, e1, flip) /\ c2 = Both!I!Do(c1, e2, flip) /\ c3 = Both!I!Do(c2, e3, flip)
        /\ c4 = Both!I!Do(c3, e4, flip) /\ c5 = Both!I!Do(c4, e5, flip)
    BY DEF c1, c2, c3, c4, c5
  <2>3. Both!I!ReadPair(p) = e1 \o e2 \o e3
    BY DEF Both!I!ReadPair
  <2> HIDE DEF e1, e2, e3, e4, e5
  <2>4. IsCode(e1 \o e2) /\ Both!I!Do(c, e1 \o e2, flip) = c2
    BY <2>1, <2>2, DoThen
  <2>5. IsCode(e1 \o e2 \o e3) /\ Both!I!Do(c, e1 \o e2 \o e3, flip) = c3
    BY <2>1, <2>2, <2>4, DoThen
  <2>6. IsCode(e1 \o e2 \o e3 \o e4) /\ Both!I!Do(c, e1 \o e2 \o e3 \o e4, flip) = c4
    BY <2>1, <2>2, <2>5, DoThen
  <2>7. Both!I!Do(c, e1 \o e2 \o e3 \o e4 \o e5, flip) = c5
    BY <2>1, <2>2, <2>6, DoThen
  <2>8. QED
    BY <2>3, <2>7 DEF e4, e5
<1>11. Both!I!Do(d, Both!I!Read(p1, 32, "ea") \o Both!I!Set("w", "add4", <<"ea">>)
                      \o Both!I!Read(p2, 32, "w"), flip) = d3
  <2> DEFINE e1 == Both!I!Read(p1, 32, "ea")
             e2 == Both!I!Set("w", "add4", <<"ea">>)
             e3 == Both!I!Read(p2, 32, "w")
  <2>1. IsCode(e1) /\ IsCode(e2) /\ IsCode(e3)
    BY ReadCode, SetCode
  <2>2. d1 = Both!I!Do(d, e1, flip) /\ d2 = Both!I!Do(d1, e2, flip) /\ d3 = Both!I!Do(d2, e3, flip)
    BY DEF d1, d2, d3
  <2> HIDE DEF e1, e2, e3
  <2>4. IsCode(e1 \o e2) /\ Both!I!Do(d, e1 \o e2, flip) = d2
    BY <2>1, <2>2, DoThen
  <2>5. Both!I!Do(d, e1 \o e2 \o e3, flip) = d3
    BY <2>1, <2>2, <2>4, DoThen
  <2>6. QED
    BY <2>5 DEF e1, e2, e3
<1>12. IsContext(c5) /\ IsContext(d3)
  BY <1>6, <1>7 DEF Assigned
<1>13. QED
  BY <1>1, <1>9, <1>10, <1>11, <1>12 DEF Meets, p1, p2, f_

LEMMA FmovStoreMeets ==
  ASSUME NEW c, NEW d, IsContext(c), IsContext(d), Same(c, d), NEW p \in {"r0", "r1", "ea"},
         d.reg["ea"] = c.reg[p], NEW n \in {0, 1}, NEW flip
  PROVE  /\ Meets(c, d, Both!I!Write(32, p, Both!I!F(n)), Both!I!Write(32, "ea", Both!I!F(n)), flip)
         /\ Meets(c, d, Both!I!WritePair(p, n),
                  Both!I!Write(32, "ea", Both!I!Pair(n)[1]) \o Both!I!Set("w", "add4", <<"ea">>)
                    \o Both!I!Write(32, "w", Both!I!Pair(n)[2]), flip)
<1> DEFINE p1 == Both!I!Pair(n)[1]
           p2 == Both!I!Pair(n)[2]
           f_ == Both!I!F(n)
<1>0. /\ p1 \in Lasting /\ p2 \in Lasting /\ f_ \in Lasting /\ p1 # "w" /\ p2 # "w"
      /\ {"w", "ea", "r0", "r1", p1, p2} \subseteq Both!I!Places
  BY PlacesAre DEF Lasting
<1>a. "add4" \notin Special
  BY DEF Special
<1> HIDE DEF p1, p2, f_
<1>b. c.log = d.log /\ \A k \in Lasting : c.reg[k] = d.reg[k]
  BY DEF Same
<1>1. Meets(c, d, Both!I!Write(32, p, f_), Both!I!Write(32, "ea", f_), flip)
  <2> DEFINE c1 == Both!I!Do(c, Both!I!Write(32, p, f_), flip)
             d1 == Both!I!Do(d, Both!I!Write(32, "ea", f_), flip)
  <2>1. IsContext(c1) /\ c1.reg = c.reg /\ c1.log = LogOfWrite(32, c.reg[p], c.reg[f_], c.log)
    BY WriteDoes
  <2>2. IsContext(d1) /\ d1.reg = d.reg /\ d1.log = LogOfWrite(32, d.reg["ea"], d.reg[f_], d.log)
    BY WriteDoes
  <2>3. d.reg[f_] = c.reg[f_]
    BY <1>0, <1>b
  <2> HIDE DEF c1, d1
  <2>4. Same(c1, d1)
    BY <1>b, <2>1, <2>2, <2>3 DEF Same
  <2>5. QED
    BY <2>1, <2>2, <2>4 DEF Meets, c1, d1
<1> DEFINE e1 == Both!I!Write(32, p, p1)
           e2 == Both!I!Set("w", "add4", <<p>>)
           e3 == Both!I!Write(32, "w", p2)
           l1 == Both!I!Write(32, "ea", p1)
           l2 == Both!I!Set("w", "add4", <<"ea">>)
           c1 == Both!I!Do(c, e1, flip)
           c2 == Both!I!Do(c1, e2, flip)
           c3 == Both!I!Do(c2, e3, flip)
           d1 == Both!I!Do(d, l1, flip)
           d2 == Both!I!Do(d1, l2, flip)
           d3 == Both!I!Do(d2, e3, flip)
           log1 == LogOfWrite(32, c.reg[p], c.reg[p1], c.log)
           second == Of("add4", c.reg[p])
<1>2. IsContext(c1) /\ c1.reg = c.reg /\ c1.log = log1
  BY WriteDoes
<1>3. IsContext(d1) /\ d1.reg = d.reg /\ d1.log = log1
  <2>1. d.reg[p1] = c.reg[p1] /\ d.log = c.log
    BY <1>0, <1>b
  <2>2. QED
    BY <2>1, WriteDoes
<1> HIDE DEF c1, d1, log1
<1>4. Assigned(c1, c2, "w", second) /\ Assigned(d1, d2, "w", second)
  BY <1>0, <1>a, <1>2, <1>3, UnaryDoes
<1> HIDE DEF c2, d2, second
<1>5. IsContext(c3) /\ c3.reg = c2.reg /\ c3.log = LogOfWrite(32, second, c.reg[p2], log1)
  <2>1. IsContext(c2) /\ c2.reg["w"] = second /\ c2.log = log1 /\ c2.reg[p2] = c.reg[p2]
    BY <1>0, <1>2, <1>4 DEF Assigned
  <2>2. QED
    BY <2>1, WriteDoes
<1>6. IsContext(d3) /\ d3.reg = d2.reg /\ d3.log = LogOfWrite(32, second, c.reg[p2], log1)
  <2>1. IsContext(d2) /\ d2.reg["w"] = second /\ d2.log = log1 /\ d2.reg[p2] = c.reg[p2]
    BY <1>0, <1>b, <1>3, <1>4 DEF Assigned
  <2>2. QED
    BY <2>1, WriteDoes
<1> HIDE DEF c3, d3
<1>7. Same(c3, d3)
  <2>1. ASSUME NEW k \in Lasting PROVE c3.reg[k] = d3.reg[k]
    BY <1>b, <1>2, <1>3, <1>4, <1>5, <1>6 DEF Assigned, Lasting
  <2>2. QED
    BY <1>5, <1>6, <2>1 DEF Same
<1>8. Both!I!WritePair(p, n) = e1 \o e2 \o e3
  BY DEF Both!I!WritePair, p1, p2
<1>9. IsCode(e1) /\ IsCode(e2) /\ IsCode(e3) /\ IsCode(l1) /\ IsCode(l2)
  BY WriteCode, SetCode
<1>10. /\ c1 = Both!I!Do(c, e1, flip) /\ c2 = Both!I!Do(c1, e2, flip) /\ c3 = Both!I!Do(c2, e3, flip)
       /\ d1 = Both!I!Do(d, l1, flip) /\ d2 = Both!I!Do(d1, l2, flip) /\ d3 = Both!I!Do(d2, e3, flip)
  BY DEF c1, c2, c3, d1, d2, d3
<1> HIDE DEF e1, e2, e3, l1, l2
<1>11. /\ IsCode(e1 \o e2) /\ Both!I!Do(c, e1 \o e2, flip) = c2
       /\ IsCode(l1 \o l2) /\ Both!I!Do(d, l1 \o l2, flip) = d2
  BY <1>9, <1>10, DoThen
<1>12. Both!I!Do(c, e1 \o e2 \o e3, flip) = c3 /\ Both!I!Do(d, l1 \o l2 \o e3, flip) = d3
  BY <1>9, <1>10, <1>11, DoThen
<1>13. Meets(c, d, Both!I!WritePair(p, n), l1 \o l2 \o e3, flip)
  BY <1>5, <1>6, <1>7, <1>8, <1>12 DEF Meets
<1>14. QED
  BY <1>1, <1>13 DEF p1, p2, f_, e3, l1, l2

LEMMA DoNothing == ASSUME NEW c, NEW flip PROVE Both!I!Do(c, Both!I!Nothing, flip) = c
BY DoNone DEF Both!I!Nothing

\* What both engines do after code that meets.
LEMMA MeetThen ==
  ASSUME NEW c, NEW d, NEW e_, NEW l_, IsCode(e_), IsCode(l_), NEW flip, Meets(c, d, e_, l_, flip),
         NEW to \in Both!I!Places, NEW f, f \notin Special, NEW p \in Lasting
  PROVE  Meets(c, d, e_ \o Both!I!Set(to, f, <<p>>), l_ \o Both!I!Set(to, f, <<p>>), flip)
<1>1. /\ IsContext(Both!I!Do(c, e_, flip)) /\ IsContext(Both!I!Do(d, l_, flip))
      /\ Same(Both!I!Do(c, e_, flip), Both!I!Do(d, l_, flip))
  BY DEF Meets
<1>2. IsCode(Both!I!Set(to, f, <<p>>))
  BY SetCode
<1>3. QED
  BY <1>1, <1>2, UnaryAfter, DoThen DEF Meets

\* And what the emitted code does before: it copies the address.
LEMMA AddressFirst ==
  ASSUME NEW c, IsContext(c), NEW p \in {"r0", "r1"}, NEW e_, NEW l_, IsCode(e_), IsCode(l_), NEW flip,
         \A d : IsContext(d) /\ Same(c, d) /\ d.reg["ea"] = c.reg[p] => Meets(c, d, e_, l_, flip)
  PROVE  /\ Meets(c, c, e_, Both!I!Copy("ea", p) \o l_, flip)
         /\ IsCode(Both!I!Copy("ea", p) \o l_)
<1> DEFINE d == Both!I!Do(c, Both!I!Copy("ea", p), flip)
<1>1. Assigned(c, d, "ea", c.reg[p])
  BY PlacesAre, CopyDoes
<1>2. /\ Both!I!Do(c, Both!I!Copy("ea", p) \o l_, flip) = Both!I!Do(d, l_, flip)
      /\ IsCode(Both!I!Copy("ea", p) \o l_)
  BY CopyCode, DoThen
<1> HIDE DEF d
<1>3. IsContext(d) /\ Same(c, d) /\ d.reg["ea"] = c.reg[p]
  BY <1>1 DEF Assigned, Same, Lasting
<1>4. QED
  BY <1>2, <1>3 DEF Meets

LEMMA ArithmeticAlike ==
  ASSUME NEW i \in Both!Arithmetic, NEW double_ \in BOOLEAN
  PROVE  Both!I!LowerArithmetic(i, double_) = Both!I!Arithmetic(i, double_)
<1> USE DEF Both!I!GetDr, Both!I!SetDr
<1>1. CASE i.op \in {"FLDI0", "FLDI1", "FLDS", "FSTS", "FABS", "FNEG", "FSRRA"}
  BY <1>1 DEF Both!I!Arithmetic, Both!I!LowerArithmetic
<1>2. CASE i.op \in {"FADD", "FSUB", "FMUL", "FDIV"}
  BY <1>2 DEF Both!I!Arithmetic, Both!I!LowerArithmetic
<1>3. CASE i.op \in {"FCMP_EQ", "FCMP_GT", "FSQRT"}
  BY <1>3 DEF Both!I!Arithmetic, Both!I!LowerArithmetic
<1>4. CASE i.op \in {"FLOAT", "FTRC", "FMAC"}
  BY <1>4 DEF Both!I!Arithmetic, Both!I!LowerArithmetic
<1>5. CASE i.op \in {"FCNVSD", "FCNVDS", "FSCA", "FIPR", "FTRV"}
  BY <1>5 DEF Both!I!Arithmetic, Both!I!LowerArithmetic
<1>6. QED
  BY <1>1, <1>2, <1>3, <1>4, <1>5, FpOps

LEMMA LogicAlike ==
  ASSUME NEW i \in Both!Logical PROVE Both!I!LowerLogic(i) = Both!I!Logic(i)
<1>1. CASE i.op \in {"AND", "OR", "XOR", "SHAD", "SHLD", "NOT", "AND_I", "OR_I", "XOR_I"}
  BY <1>1 DEF Both!I!Logic, Both!I!LowerLogic
<1>2. CASE i.op \in {"AND_B_GBR", "OR_B_GBR", "XOR_B_GBR", "TAS_B", "TST", "TST_I", "TST_B_GBR"}
  BY <1>2 DEF Both!I!Logic, Both!I!LowerLogic
<1>3. CASE i.op \in {"ROTL", "ROTR", "ROTCL", "ROTCR", "SHAL", "SHLL", "SHAR", "SHLR", "SHLL2",
                     "SHLL8", "SHLL16", "SHLR2", "SHLR8", "SHLR16"}
  BY <1>3 DEF Both!I!Logic, Both!I!LowerLogic
<1>4. QED
  BY <1>1, <1>2, <1>3, LogicOps

\* The helpers of an arm are grouped another way.
LEMMA Regrouped ==
  ASSUME NEW c, IsContext(c), NEW c_, NEW d_, NEW e_, Clean(c_), Clean(d_), Clean(e_), NEW flip
  PROVE  CodesAlike(c, c_ \o d_ \o e_, c_ \o (d_ \o e_), flip) /\ CodesAlike(c, c_ \o (d_ \o e_), c_ \o d_ \o e_, flip)
<1>1. Clean(c_ \o d_ \o e_) /\ Clean(c_ \o (d_ \o e_))
  BY CleanJoin
<1>2. Both!I!Do(c, c_ \o d_ \o e_, flip) = Both!I!Do(c, c_ \o (d_ \o e_), flip)
  BY DoThen DEF Clean
<1>3. QED
  BY <1>1, <1>2, EqualAlike DEF CodesAlike

LEMMA ComparedWithItself ==
  ASSUME NEW c, IsContext(c), NEW p \in Readable, NEW f, NEW flip
  PROVE  /\ f \in Both!I!Reflexive
              => CodesAlike(c, Both!I!Set("t", f, <<p, p>>), Both!I!Set("t", "true", << >>), flip)
         /\ f \in Both!I!Irreflexive
              => CodesAlike(c, Both!I!Set("t", f, <<p, p>>), Both!I!Set("t", "false", << >>), flip)
<1>1. [k \in DOMAIN <<p, p>> |-> c.reg[<<p, p>>[k]]] = <<c.reg[p], c.reg[p]>>
      /\ [k \in DOMAIN << >> |-> c.reg[<< >>[k]]] = << >>
  OBVIOUS
<1>2. "t" \in Both!I!Places /\ "true" \notin Special /\ "false" \notin Special
  BY PlacesAre DEF Special
<1> DEFINE yes == Both!I!Do(c, Both!I!Set("t", "true", << >>), flip)
           no == Both!I!Do(c, Both!I!Set("t", "false", << >>), flip)
           d == Both!I!Do(c, Both!I!Set("t", f, <<p, p>>), flip)
<1>3. /\ Assigned(c, yes, "t", Both!I!Term("true", << >>))
      /\ Assigned(c, no, "t", Both!I!Term("false", << >>))
  <2> DEFINE none == << >>
  <2>1. [k \in DOMAIN none |-> c.reg[none[k]]] = none
    OBVIOUS
  <2>2. yes = Both!I!Do(c, Both!I!Set("t", "true", none), flip)
        /\ no = Both!I!Do(c, Both!I!Set("t", "false", none), flip)
    OBVIOUS
  <2> HIDE DEF none, yes, no
  <2>3. Assigned(c, yes, "t", Both!I!Term("true", none)) /\ Assigned(c, no, "t", Both!I!Term("false", none))
    BY <1>2, <2>1, <2>2, SetDoes
  <2>4. QED
    BY <2>3 DEF none
<1>4. ASSUME f \notin Special
      PROVE  Assigned(c, d, "t", Both!I!Term(f, <<c.reg[p], c.reg[p]>>))
  BY <1>1, <1>2, <1>4, SetDoes
<1>5. Both!I!Term("true", << >>) = <<"true">> /\ Both!I!Term("false", << >>) = <<"false">>
  <2>1. <<"true">> \o << >> = <<"true">> /\ <<"false">> \o << >> = <<"false">>
    OBVIOUS
  <2>2. QED
    BY <2>1 DEF Both!I!Term, Both!I!Reflexive, Both!I!Irreflexive
<1>6. ASSUME NEW val
      PROVE  /\ f \in Both!I!Reflexive => Both!I!Term(f, <<val, val>>) = <<"true">>
             /\ f \in Both!I!Irreflexive => Both!I!Term(f, <<val, val>>) = <<"false">>
  BY DEF Both!I!Term, Both!I!Reflexive, Both!I!Irreflexive
<1> HIDE DEF yes, no, d
<1>7. ASSUME f \in Both!I!Reflexive PROVE IsContext(yes) /\ Same(d, yes)
  <2>1. f \notin Special
    BY <1>7 DEF Special, Both!I!Reflexive
  <2>2. QED
    BY <1>3, <1>4, <1>5, <1>6, <1>7, <2>1 DEF Assigned, Same, Lasting
<1>8. ASSUME f \in Both!I!Irreflexive PROVE IsContext(no) /\ Same(d, no)
  <2>1. f \notin Special
    BY <1>8 DEF Special, Both!I!Irreflexive
  <2>2. QED
    BY <1>3, <1>4, <1>5, <1>6, <1>8, <2>1 DEF Assigned, Same, Lasting
<1>9. QED
  BY <1>7, <1>8 DEF CodesAlike, yes, no, d

LEMMA IntegerAlike ==
  ASSUME NEW c, IsContext(c), NEW i \in Both!Plain, i \in Both!Integral, NEW flip
  PROVE  CodesAlike(c, Both!I!Integer(i), Both!I!LowerInteger(i), flip)
<1>1. /\ Both!I!R(i.n) \in Named /\ Both!I!R(i.m) \in Named
      /\ Named \subseteq Readable /\ {"r0", "v", "w", "t", "sr", "mach", "macl"} \subseteq Named
      /\ "imm" \in Readable
  BY Names
<1>2. CodesAlike(c, Both!I!Integer(i), Both!I!Integer(i), flip)
  BY CleanInteger, EqualAlike
<1>3. CASE i.op \in {"ADD", "SUB", "ADD_I", "ADDC", "SUBC", "ADDV", "SUBV", "NEGC"}
  <2>1. Both!I!LowerInteger(i) = Both!I!Integer(i)
    BY <1>3 DEF Both!I!Integer, Both!I!LowerInteger, Both!I!Reflexive, Both!I!Irreflexive
  <2>2. QED
    BY <1>2, <2>1
<1>4. CASE i.op \in {"DIV1", "DIV0S", "DIV0U", "NEG", "EXTS_B", "EXTS_W", "EXTU_B", "EXTU_W"}
  <2>1. Both!I!LowerInteger(i) = Both!I!Integer(i)
    BY <1>4 DEF Both!I!Integer, Both!I!LowerInteger, Both!I!Reflexive, Both!I!Irreflexive
  <2>2. QED
    BY <1>2, <2>1
<1>5. CASE \/ i.op \in {"CMP_EQ_I", "CMP_STR", "CMP_PZ", "CMP_PL", "DT", "MUL_L", "MULS_W", "MULU_W"}
           \/ i.op \in {"CMP_EQ", "CMP_HS", "CMP_GE", "CMP_HI", "CMP_GT"} /\ i.n # i.m
  <2>1. Both!I!LowerInteger(i) = Both!I!Integer(i)
    BY <1>5 DEF Both!I!Integer, Both!I!LowerInteger, Both!I!Reflexive, Both!I!Irreflexive
  <2>2. QED
    BY <1>2, <2>1
<1>6. CASE i.op \in {"CMP_EQ", "CMP_HS", "CMP_GE"} /\ i.n = i.m
  <2>1. /\ Both!I!Integer(i) = Both!I!Set("t", i.op, <<Both!I!R(i.n), Both!I!R(i.n)>>)
        /\ Both!I!LowerInteger(i) = Both!I!Set("t", "true", << >>)
        /\ i.op \in Both!I!Reflexive
    BY <1>6 DEF Both!I!Integer, Both!I!LowerInteger, Both!I!Reflexive, Both!I!Irreflexive
  <2>2. QED
    BY <1>1, <2>1, ComparedWithItself
<1>7. CASE i.op \in {"CMP_HI", "CMP_GT"} /\ i.n = i.m
  <2>1. /\ Both!I!Integer(i) = Both!I!Set("t", i.op, <<Both!I!R(i.n), Both!I!R(i.n)>>)
        /\ Both!I!LowerInteger(i) = Both!I!Set("t", "false", << >>)
        /\ i.op \in Both!I!Irreflexive
    BY <1>7 DEF Both!I!Integer, Both!I!LowerInteger, Both!I!Reflexive, Both!I!Irreflexive
  <2>2. QED
    BY <1>1, <2>1, ComparedWithItself
<1> DEFINE hi == Both!I!Set("mach", "hi", <<"v">>)
           lo == Both!I!Set("macl", "lo", <<"v">>)
<1>8. Clean(hi) /\ Clean(lo)
  BY <1>1, CleanFacts
<1>9. CASE i.op \in {"DMULS_L", "DMULU_L"}
  <2> DEFINE call == Both!I!Set("v", i.op, <<Both!I!R(i.n), Both!I!R(i.m)>>)
  <2>1. Both!I!Integer(i) = call \o hi \o lo /\ Both!I!LowerInteger(i) = call \o (hi \o lo)
    BY <1>9 DEF Both!I!Integer, Both!I!LowerInteger, Both!I!Reflexive, Both!I!Irreflexive
  <2>2. Clean(call)
    BY <1>1, <1>9, CleanFacts DEF Special
  <2> HIDE DEF call, hi, lo
  <2>3. QED
    BY <1>8, <2>1, <2>2, Regrouped
<1>10. CASE i.op \in {"MAC_L", "MAC_W"}
  <2> DEFINE size == IF i.op = "MAC_L" THEN 32 ELSE 16
             sum == Both!I!Read("v", size, Both!I!R(i.n))
                    \o Both!I!Set(Both!I!R(i.n), Both!I!Step[size], <<Both!I!R(i.n)>>)
                    \o Both!I!Read("w", size, Both!I!R(i.m))
                    \o Both!I!Set(Both!I!R(i.m), Both!I!Step[size], <<Both!I!R(i.m)>>)
                    \o Both!I!Set("v", i.op, <<"v", "w", "mach", "macl", "sr">>)
  <2>1. Both!I!Integer(i) = sum \o hi \o lo /\ Both!I!LowerInteger(i) = sum \o (hi \o lo)
    BY <1>10 DEF Both!I!Integer, Both!I!LowerInteger, Both!I!Reflexive, Both!I!Irreflexive
  <2>2. Clean(sum)
    BY <1>1, <1>10, CleanFacts, CleanMore, CleanAccess DEF Special
  <2> HIDE DEF sum, hi, lo
  <2>3. QED
    BY <1>8, <2>1, <2>2, Regrouped
<1>11. QED
  BY <1>3, <1>4, <1>5, <1>6, <1>7, <1>9, <1>10, IntegerOps

LEMMA SystemAlike ==
  ASSUME NEW c, IsContext(c), NEW i \in Both!Plain,
         i \in Both!Systems \cup Both!Caches \cup Both!Controls, NEW flip
  PROVE  CodesAlike(c, Both!I!System(i), Both!I!LowerSystem(i), flip)
<1>1. CodesAlike(c, Both!I!System(i), Both!I!System(i), flip)
  BY CleanSystem, EqualAlike
<1>2. CASE i.op \in {"CLRMAC", "CLRS", "SETS", "CLRT", "SETT", "FRCHG", "FSCHG",
                     "TRAPA", "MOVCA_L", "NOP", "LDTLB", "PREF", "OCBI", "OCBP", "OCBWB"}
  <2>1. Both!I!LowerSystem(i) = Both!I!System(i)
    BY <1>2 DEF Both!I!System, Both!I!LowerSystem
  <2>2. QED
    BY <1>1, <2>1
<1>3. CASE i.op \in {"STC_L", "LDC", "LDC_L"}
  <2>1. Both!I!LowerSystem(i) = Both!I!System(i)
    BY <1>3 DEF Both!I!System, Both!I!Control, Both!I!LowerSystem
  <2>2. QED
    BY <1>1, <2>1
<1>4. CASE i.op = "STC"
  <2> DEFINE to == Both!I!R(i.n)
  <2>1. to \in Lasting
    BY PlainFields, PlacesAre DEF Lasting
  <2>2. "read_sr" \notin Special /\ "id" \notin Special
    BY DEF Special
  <2>3. CASE i.creg = "sr"
    <3>1. /\ Both!I!System(i) = Both!I!Set("v", "read_sr", <<"sr", "t">>) \o Both!I!Copy(to, "v")
          /\ Both!I!LowerSystem(i) = Both!I!Set(to, "read_sr", <<"sr", "t">>)
      BY <1>4, <2>3 DEF Both!I!System, Both!I!Control, Both!I!LowerSystem
    <3> HIDE DEF to
    <3>2. QED
      BY <2>1, <2>2, <3>1, ThroughAlike
  <2>4. CASE i.creg # "sr"
    <3>1. /\ Both!I!System(i) = Both!I!Copy("v", i.creg) \o Both!I!Copy(to, "v")
          /\ Both!I!LowerSystem(i) = Both!I!Copy(to, i.creg)
      BY <1>4, <2>4 DEF Both!I!System, Both!I!Control, Both!I!LowerSystem
    <3>2. /\ Both!I!Copy("v", i.creg) = Both!I!Set("v", "id", <<i.creg>>)
          /\ Both!I!Copy(to, i.creg) = Both!I!Set(to, "id", <<i.creg>>)
      BY DEF Both!I!Copy
    <3> HIDE DEF to
    <3>3. QED
      BY <2>1, <2>2, <3>1, <3>2, ThroughAlike
  <2>5. QED
    BY <2>3, <2>4
<1>5. QED
  BY <1>2, <1>3, <1>4, SystemOps

LEMMA MoveAlike ==
  ASSUME NEW c, IsContext(c), NEW i \in Both!Plain, i \in Both!Moves \cup Both!Literals, NEW flip
  PROVE  CodesAlike(c, Both!I!Move(i), Both!I!LowerMove(i), flip)
<1> DEFINE rn_ == Both!I!R(i.n)
           rm_ == Both!I!R(i.m)
           load(to, p) == Both!I!Read("v", i.size, p) \o Both!I!Set(to, Both!I!Extend[i.size], <<"v">>)
           ldsx(to, p) == Both!I!Read(to, i.size, p) \o Both!I!Set(to, Both!I!Extend[i.size], <<to>>)
<1>0. /\ rn_ \in Named /\ rm_ \in Named /\ rn_ \in Lasting /\ rm_ \in Lasting /\ "r0" \in Lasting
      /\ Named \subseteq Readable /\ Named \subseteq Both!I!Places
      /\ {"r0", "v", "ea", "t", "gbr"} \subseteq Named
      /\ i.size \in {8, 16, 32} /\ Both!I!Extend[i.size] \notin Special
      /\ i.n # i.m => rn_ # rm_
  <2>1. i.size \in {8, 16, 32} /\ Both!I!Extend[i.size] \notin Special
    BY PlainFields, SizeOps
  <2>2. i.n # i.m => rn_ # rm_
    BY PlainFields DEF Both!I!R, Both!I!General
  <2>3. QED
    BY <2>1, <2>2, Names, NamedKept, PlainFields, PlacesAre DEF Lasting
<1>1. CASE i.op \in {"MOV_I", "MOVT", "MOV", "SWAP_B", "SWAP_W", "XTRCT", "MOVA",
                     "MOV_S", "MOV_SD", "MOV_S_DISP", "MOV_S_DISP0", "MOV_S_R0", "MOV_S_GBR"}
  <2>1. Both!I!LowerMove(i) = Both!I!Move(i)
    BY <1>1 DEF Both!I!Move, Both!I!LowerMove
  <2>2. QED
    BY <2>1, CleanMove, EqualAlike
<1>2. CASE i.op = "MOV_PCREL"
  <2> DEFINE word == IF i.patched THEN "memory" ELSE "image"
  <2>1. i.patched => i.seen
    BY PlainFields
  <2>2. /\ Both!I!Move(i) = Both!I!Set("v", word, <<"pc">>)
                              \o Both!I!Set(rn_, Both!I!Extend[i.size], <<"v">>)
        /\ Both!I!LowerMove(i) = Both!I!Set(rn_, word, <<"pc">>)
                              \o Both!I!Set(rn_, Both!I!Extend[i.size], <<rn_>>)
    BY <1>2, <2>1 DEF Both!I!Move, Both!I!LowerMove
  <2>3. word \notin Special
    BY DEF Special
  <2> HIDE DEF word, rn_
  <2>4. QED
    BY <1>0, <2>2, <2>3, ThroughAlike
<1>3. ASSUME NEW to \in Lasting, NEW p \in Both!I!Places
      PROVE  \A d : IsContext(d) => CodesAlike(d, load(to, p), ldsx(to, p), flip)
  BY <1>0, <1>3, LoadAlike
<1>4. \A to, p : IsCode(load(to, p)) /\ IsCode(ldsx(to, p))
  BY ReadCode, SetCode, DoThen
<1>5. CASE i.op = "MOV_L"
  <2>1. Both!I!Move(i) = load(rn_, rm_) /\ Both!I!LowerMove(i) = ldsx(rn_, rm_)
    BY <1>5 DEF Both!I!Move, Both!I!LowerMove
  <2> HIDE DEF load, ldsx, rn_, rm_
  <2>2. QED
    BY <1>0, <1>3, <2>1
<1>6. ASSUME NEW code, Clean(code), NEW to \in Lasting
      PROVE  CodesAlike(c, code \o load(to, "ea"), code \o ldsx(to, "ea"), flip)
  <2> HIDE DEF load, ldsx
  <2>1. QED
    BY <1>0, <1>3, <1>4, <1>6, AlikeAfter
<1>7. /\ Clean(Both!I!Set("ea", "disp", <<rm_>>)) /\ Clean(Both!I!Set("ea", "disp", <<"gbr">>))
      /\ Clean(Both!I!Set("ea", "add", <<rm_, "r0">>))
  BY <1>0, CleanFacts DEF Special
<1>8. CASE i.op = "MOV_L_DISP"
  <2>1. /\ Both!I!Move(i) = Both!I!Set("ea", "disp", <<rm_>>) \o load(rn_, "ea")
        /\ Both!I!LowerMove(i) = Both!I!Set("ea", "disp", <<rm_>>) \o ldsx(rn_, "ea")
    BY <1>8 DEF Both!I!Move, Both!I!LowerMove
  <2> HIDE DEF load, ldsx, rn_, rm_
  <2>2. QED
    BY <1>0, <1>6, <1>7, <2>1
<1>9. CASE i.op = "MOV_L_DISP0"
  <2>1. /\ Both!I!Move(i) = Both!I!Set("ea", "disp", <<rm_>>) \o load("r0", "ea")
        /\ Both!I!LowerMove(i) = Both!I!Set("ea", "disp", <<rm_>>) \o ldsx("r0", "ea")
    BY <1>9 DEF Both!I!Move, Both!I!LowerMove
  <2> HIDE DEF load, ldsx, rn_, rm_
  <2>2. QED
    BY <1>0, <1>6, <1>7, <2>1
<1>10. CASE i.op = "MOV_L_R0"
  <2>1. /\ Both!I!Move(i) = Both!I!Set("ea", "add", <<rm_, "r0">>) \o load(rn_, "ea")
        /\ Both!I!LowerMove(i) = Both!I!Set("ea", "add", <<rm_, "r0">>) \o ldsx(rn_, "ea")
    BY <1>10 DEF Both!I!Move, Both!I!LowerMove
  <2> HIDE DEF load, ldsx, rn_, rm_
  <2>2. QED
    BY <1>0, <1>6, <1>7, <2>1
<1>11. CASE i.op = "MOV_L_GBR"
  <2>1. /\ Both!I!Move(i) = Both!I!Set("ea", "disp", <<"gbr">>) \o load("r0", "ea")
        /\ Both!I!LowerMove(i) = Both!I!Set("ea", "disp", <<"gbr">>) \o ldsx("r0", "ea")
    BY <1>11 DEF Both!I!Move, Both!I!LowerMove
  <2> HIDE DEF load, ldsx, rn_, rm_
  <2>2. QED
    BY <1>0, <1>6, <1>7, <2>1
<1>12. CASE i.op = "MOV_LI" /\ i.n # i.m
  <2>1. /\ Both!I!Move(i) = Both!I!Read("v", i.size, rm_)
                              \o Both!I!Set("v", Both!I!Extend[i.size], <<"v">>)
                              \o Both!I!Set(rm_, Both!I!Step[i.size], <<rm_>>) \o Both!I!Copy(rn_, "v")
        /\ Both!I!LowerMove(i) = ldsx(rn_, rm_) \o Both!I!Set(rm_, Both!I!Step[i.size], <<rm_>>)
    BY <1>12 DEF Both!I!Move, Both!I!LowerMove, Both!I!Increment
  <2>2. rn_ # rm_
    BY <1>0, <1>12
  <2> HIDE DEF rn_, rm_
  <2>3. CodesAlike(c, Both!I!Read("v", i.size, rm_) \o Both!I!Set("v", Both!I!Extend[i.size], <<"v">>)
                   \o Both!I!Set(rm_, Both!I!Step[i.size], <<rm_>>) \o Both!I!Copy(rn_, "v"),
                 ldsx(rn_, rm_) \o Both!I!Set(rm_, Both!I!Step[i.size], <<rm_>>), flip)
    BY <1>0, <2>2, LoadAndStepAlike
  <2>4. QED
    BY <2>1, <2>3
<1>13. CASE i.op = "MOV_LI" /\ i.n = i.m
  <2> DEFINE e_ == Both!I!Read("v", i.size, rm_) \o Both!I!Set("v", Both!I!Extend[i.size], <<"v">>)
             s_ == Both!I!Set(rn_, Both!I!Extend[i.size], <<"v">>)
             c1 == Both!I!Do(c, Both!I!Read("v", i.size, rm_), flip)
             c2 == Both!I!Do(c1, Both!I!Set("v", Both!I!Extend[i.size], <<"v">>), flip)
             c3 == Both!I!Do(c2, Both!I!Copy(rn_, "v"), flip)
             d2 == Both!I!Do(c1, s_, flip)
  <2>1. /\ Both!I!Move(i) = e_ \o Both!I!Nothing \o Both!I!Copy(rn_, "v")
        /\ Both!I!LowerMove(i) = ldsx(rn_, rm_) \o Both!I!Nothing
    BY <1>13 DEF Both!I!Move, Both!I!LowerMove, Both!I!Increment
  <2>2. /\ IsCode(e_) /\ IsCode(e_ \o Both!I!Nothing)
        /\ Both!I!Do(c, e_, flip) = c2 /\ Both!I!Do(c, e_ \o Both!I!Nothing, flip) = c2
    BY ReadCode, SetCode, NoCode, DoThen, DoNothing
  <2>3. Both!I!Do(c, e_ \o Both!I!Nothing \o Both!I!Copy(rn_, "v"), flip) = c3
    BY <2>2, CopyCode, DoThen
  <2>4. Both!I!Do(c, ldsx(rn_, rm_) \o Both!I!Nothing, flip) = Both!I!Do(c, ldsx(rn_, rm_), flip)
    BY <1>4, NoCode, DoThen, DoNothing
  <2>5. Both!I!Do(c, load(rn_, rm_), flip) = d2
    BY ReadCode, SetCode, DoThen
  <2>6. "v" \in Both!I!Places /\ rn_ # "v" /\ rn_ \in Both!I!Places
    BY <1>0 DEF Lasting
  <2>7. IsContext(c1)
    BY <1>0, <2>6, ReadDoes
  <2> HIDE DEF c1
  <2>8. /\ Assigned(c1, c2, "v", Of(Both!I!Extend[i.size], c1.reg["v"]))
        /\ Assigned(c1, d2, rn_, Of(Both!I!Extend[i.size], c1.reg["v"]))
    BY <1>0, <2>6, <2>7, UnaryDoes
  <2> HIDE DEF c2
  <2>9. Assigned(c2, c3, rn_, c2.reg["v"])
    BY <2>6, <2>8, CopyDoes DEF Assigned
  <2> HIDE DEF c3, d2
  <2>10. Same(c3, d2)
    BY <2>6, <2>8, <2>9 DEF Assigned, Same, Lasting
  <2>11. CodesAlike(c, load(rn_, rm_), ldsx(rn_, rm_), flip)
    BY <1>0, <1>3
  <2> HIDE DEF e_, load, ldsx
  <2>12. QED
    BY <2>1, <2>3, <2>4, <2>5, <2>10, <2>11 DEF CodesAlike, Same
<1>14. QED
  BY <1>1, <1>2, <1>5, <1>8, <1>9, <1>10, <1>11, <1>12, <1>13, MoveOps

LEMMA FmovAlike ==
  ASSUME NEW c, IsContext(c), NEW i \in Both!Plain, i \in Both!Fmovs, NEW pairs_ \in BOOLEAN, NEW flip
  PROVE  CodesAlike(c, Both!I!Fmov(i, pairs_), Both!I!LowerFmov(i, pairs_), flip)
<1> DEFINE rn_ == Both!I!R(i.n)
           rm_ == Both!I!R(i.m)
           n1 == Both!I!Pair(i.n)[1]
           n2 == Both!I!Pair(i.n)[2]
           m1 == Both!I!Pair(i.m)[1]
           m2 == Both!I!Pair(i.m)[2]
           load(p) == IF pairs_ THEN Both!I!ReadPair(p) \o Both!I!Copy(n1, "v") \o Both!I!Copy(n2, "w")
                      ELSE Both!I!Read(Both!I!F(i.n), 32, p)
           store(p) == IF pairs_ THEN Both!I!WritePair(p, i.m) ELSE Both!I!Write(32, p, Both!I!F(i.m))
           second == Both!I!Set("w", "add4", <<"ea">>)
           fetch == IF pairs_ THEN Both!I!Read(n1, 32, "ea") \o second \o Both!I!Read(n2, 32, "w")
                    ELSE Both!I!Read(Both!I!F(i.n), 32, "ea")
           put_ == IF pairs_ THEN Both!I!Write(32, "ea", m1) \o second \o Both!I!Write(32, "w", m2)
                   ELSE Both!I!Write(32, "ea", Both!I!F(i.m))
           step(k) == Both!I!Set(k, IF pairs_ THEN "add8" ELSE "add4", <<k>>)
           back(k) == Both!I!Set(k, IF pairs_ THEN "sub8" ELSE "sub4", <<k>>)
<1>0. /\ rn_ \in Named /\ rm_ \in Named /\ rn_ \in Lasting /\ rm_ \in Lasting
      /\ Named \subseteq Readable /\ Named \subseteq Both!I!Places
      /\ {"r0", "v", "ea", "w"} \subseteq Named
      /\ rn_ \in {"r0", "r1"} /\ rm_ \in {"r0", "r1"} /\ i.n \in {0, 1} /\ i.m \in {0, 1}
  BY Names, NamedKept, PlainFields, PlacesAre DEF Lasting
<1>1. /\ \A p : IsCode(load(p)) /\ IsCode(store(p)) /\ IsCode(step(p)) /\ IsCode(back(p))
      /\ IsCode(fetch) /\ IsCode(put_)
  <2>1. \A p : IsCode(Both!I!ReadPair(p)) /\ IsCode(Both!I!WritePair(p, i.m))
    BY ReadCode, WriteCode, SetCode, DoThen DEF Both!I!ReadPair, Both!I!WritePair
  <2>2. QED
    BY <2>1, ReadCode, WriteCode, SetCode, CopyCode, DoThen
<1>2. ASSUME NEW d, NEW e, IsContext(d), IsContext(e), Same(d, e), NEW p \in {"r0", "r1", "ea"},
             e.reg["ea"] = d.reg[p]
      PROVE  Meets(d, e, load(p), fetch, flip) /\ Meets(d, e, store(p), put_, flip)
  <2>1. CASE pairs_
    BY <1>0, <1>2, <2>1, FmovLoadMeets, FmovStoreMeets
  <2>2. CASE ~pairs_
    BY <1>0, <1>2, <2>2, FmovLoadMeets, FmovStoreMeets
  <2>3. QED
    BY <2>1, <2>2
<1>3. CASE i.op = "FMOV"
  <2> DEFINE x_ == Both!I!Set("v", "pair", Both!I!Pair(i.m))
             hi == Both!I!Set(n1, "hi", <<"v">>)
             lo == Both!I!Set(n2, "lo", <<"v">>)
  <2>1. CASE pairs_
    <3>1. /\ Both!I!Fmov(i, pairs_) = x_ \o (hi \o lo)
          /\ Both!I!LowerFmov(i, pairs_) = x_ \o hi \o lo
      BY <1>3, <2>1 DEF Both!I!Fmov, Both!I!LowerFmov, Both!I!LoadPair
    <3>2. Clean(x_) /\ Clean(hi) /\ Clean(lo)
      <4>1. Both!I!Pair(i.m) \in {Both!I!Fr, Both!I!Xf} /\ "pair" \notin Special
        BY DEF Both!I!Pair, Special
      <4>2. n1 \in Named /\ n2 \in Named
        BY Names
      <4>3. QED
        BY <1>0, <4>1, <4>2, CleanVectors, CleanFacts
    <3> HIDE DEF x_, hi, lo
    <3>3. QED
      BY <3>1, <3>2, Regrouped
  <2>2. CASE ~pairs_
    <3>1. Both!I!LowerFmov(i, pairs_) = Both!I!Fmov(i, pairs_)
      BY <1>3, <2>2 DEF Both!I!Fmov, Both!I!LowerFmov
    <3>2. QED
      BY <3>1, CleanFmov, EqualAlike
  <2>3. QED
    BY <2>1, <2>2
<1>4. /\ i.op = "FMOV_LOAD" => /\ Both!I!Fmov(i, pairs_) = load(rm_)
                               /\ Both!I!LowerFmov(i, pairs_)
                                    = (Both!I!Copy("ea", rm_) \o fetch) \o Both!I!Nothing
      /\ i.op = "FMOV_LOAD_INC" => /\ Both!I!Fmov(i, pairs_) = load(rm_) \o step(rm_)
                                   /\ Both!I!LowerFmov(i, pairs_)
                                        = (Both!I!Copy("ea", rm_) \o fetch) \o step(rm_)
      /\ i.op = "FMOV_LOAD_R0" => /\ Both!I!Fmov(i, pairs_) = Both!I!Set("ea", "add", <<rm_, "r0">>) \o load("ea")
                                  /\ Both!I!LowerFmov(i, pairs_)
                                       = (Both!I!Set("ea", "add", <<rm_, "r0">>) \o fetch) \o Both!I!Nothing
  BY DEF Both!I!Fmov, Both!I!LowerFmov
<1>5. /\ i.op = "FMOV_STORE" => /\ Both!I!Fmov(i, pairs_) = store(rn_)
                                /\ Both!I!LowerFmov(i, pairs_) = Both!I!Copy("ea", rn_) \o put_
      /\ i.op = "FMOV_STORE_DEC" => /\ Both!I!Fmov(i, pairs_) = back(rn_) \o store(rn_)
                                    /\ Both!I!LowerFmov(i, pairs_)
                                         = (back(rn_) \o Both!I!Copy("ea", rn_)) \o put_
      /\ i.op = "FMOV_STORE_R0" => /\ Both!I!Fmov(i, pairs_) = Both!I!Set("ea", "add", <<rn_, "r0">>) \o store("ea")
                                   /\ Both!I!LowerFmov(i, pairs_)
                                        = Both!I!Set("ea", "add", <<rn_, "r0">>) \o put_
  BY DEF Both!I!Fmov, Both!I!LowerFmov
<1>6. "add" \notin Special /\ (IF pairs_ THEN "add8" ELSE "add4") \notin Special
  BY DEF Special
<1>7. /\ Clean(Both!I!Set("ea", "add", <<rm_, "r0">>)) /\ Clean(Both!I!Set("ea", "add", <<rn_, "r0">>))
      /\ Clean(back(rn_))
  BY <1>0, <1>6, CleanFacts
<1>8. Same(c, c)
  BY DEF Same
<1> HIDE DEF load, store, fetch, put_, back, rn_, rm_
<1>9. ASSUME NEW d, IsContext(d)
      PROVE  /\ Meets(d, d, load(rm_), Both!I!Copy("ea", rm_) \o fetch, flip)
             /\ Meets(d, d, store(rn_), Both!I!Copy("ea", rn_) \o put_, flip)
             /\ IsCode(Both!I!Copy("ea", rm_) \o fetch)
             /\ Meets(d, d, load("ea"), fetch, flip) /\ Meets(d, d, store("ea"), put_, flip)
  <2>1. Same(d, d)
    BY DEF Same
  <2>2. /\ Meets(d, d, load(rm_), Both!I!Copy("ea", rm_) \o fetch, flip)
        /\ IsCode(Both!I!Copy("ea", rm_) \o fetch)
    BY <1>0, <1>1, <1>2, <1>9, AddressFirst
  <2>3. Meets(d, d, store(rn_), Both!I!Copy("ea", rn_) \o put_, flip)
    BY <1>0, <1>1, <1>2, <1>9, AddressFirst
  <2>4. QED
    BY <1>2, <1>9, <2>1, <2>2, <2>3
<1>10. \A d, e_, l_ : Meets(d, d, e_, l_, flip) => CodesAlike(d, e_, l_, flip)
  BY DEF Meets, CodesAlike
<1>11. ASSUME NEW d, NEW e_, NEW l_, IsCode(l_), CodesAlike(d, e_, l_, flip)
       PROVE  CodesAlike(d, e_, l_ \o Both!I!Nothing, flip)
  BY <1>11, NoCode, DoThen, DoNothing DEF CodesAlike
<1>12. CASE i.op = "FMOV_LOAD"
  BY <1>4, <1>9, <1>10, <1>11, <1>12
<1>13. CASE i.op = "FMOV_LOAD_INC"
  <2>1. Meets(c, c, load(rm_) \o step(rm_), (Both!I!Copy("ea", rm_) \o fetch) \o step(rm_), flip)
    BY <1>0, <1>1, <1>6, <1>9, MeetThen
  <2> HIDE DEF step
  <2>2. QED
    BY <1>4, <1>10, <1>13, <2>1
<1>14. CASE i.op = "FMOV_LOAD_R0"
  <2> DEFINE a_ == Both!I!Set("ea", "add", <<rm_, "r0">>)
  <2>1. Clean(a_) /\ IsCode(a_)
    BY <1>7 DEF Clean
  <2> HIDE DEF a_
  <2>2. CodesAlike(c, a_ \o load("ea"), a_ \o fetch, flip) /\ IsCode(a_ \o fetch)
    BY <1>1, <1>9, <1>10, <2>1, AlikeAfter, DoThen
  <2>3. QED
    BY <1>4, <1>11, <1>14, <2>2 DEF a_
<1>15. CASE i.op = "FMOV_STORE"
  BY <1>5, <1>9, <1>10, <1>15
<1>16. CASE i.op = "FMOV_STORE_DEC"
  <2> DEFINE code == Both!I!Copy("ea", rn_)
  <2>1. IsCode(code) /\ IsCode(back(rn_))
    BY <1>1, CopyCode
  <2>2. \A d : IsContext(d) => CodesAlike(d, store(rn_), code \o put_, flip)
    BY <1>9, <1>10
  <2> HIDE DEF code
  <2>3. IsCode(code \o put_) /\ IsCode(back(rn_) \o code)
    BY <1>1, <2>1, DoThen
  <2>4. CodesAlike(c, back(rn_) \o store(rn_), back(rn_) \o (code \o put_), flip)
    BY <1>1, <1>7, <2>2, <2>3, AlikeAfter
  <2>5. Both!I!Do(c, back(rn_) \o (code \o put_), flip) = Both!I!Do(c, back(rn_) \o code \o put_, flip)
    BY <1>1, <2>1, <2>3, DoThen
  <2>6. QED
    BY <1>5, <1>16, <2>4, <2>5 DEF CodesAlike, code
<1>17. CASE i.op = "FMOV_STORE_R0"
  <2> DEFINE a_ == Both!I!Set("ea", "add", <<rn_, "r0">>)
  <2>1. Clean(a_)
    BY <1>7
  <2> HIDE DEF a_
  <2>2. CodesAlike(c, a_ \o store("ea"), a_ \o put_, flip)
    BY <1>1, <1>9, <1>10, <2>1, AlikeAfter
  <2>3. QED
    BY <1>5, <1>17, <2>2 DEF a_
<1>18. QED
  BY <1>3, <1>12, <1>13, <1>14, <1>15, <1>16, <1>17, FmovOps

\* The mode that the emitter knows is the one FPSCR has.
ModeKnown(known, double_, pairs_) ==
  known.pr \in {Both!Bit(double_), Both!I!Unknown} /\ known.sz \in {Both!Bit(pairs_), Both!I!Unknown}

\* Whatever the instruction, its registers and the values in them, the emitted statements
\* do what the interpreter does.
LEMMA LowerAlike ==
  ASSUME NEW c, IsContext(c), NEW i \in Both!Plain, NEW double_ \in BOOLEAN, NEW pairs_ \in BOOLEAN,
         NEW known, ModeKnown(known, double_, pairs_), NEW flip
  PROVE  CodesAlike(c, Both!I!Exec(i, double_, pairs_), Both!I!Lower(i, known, double_, pairs_), flip)
<1>1. CASE i.kind = "fp" /\ i \in Both!Arithmetic
  <2>1. Both!I!Exec(i, double_, pairs_) = Both!I!Arithmetic(i, double_)
    BY <1>1 DEF Both!I!Exec
  <2>2. PICK pr_ \in BOOLEAN : /\ Both!I!Lower(i, known, double_, pairs_) = Both!I!LowerArithmetic(i, pr_)
                               /\ i.op \in Both!I!PrDependent => pr_ = double_
    <3>1. known.pr = Both!I!Unknown \/ (known.pr = 1) = double_
      BY DEF ModeKnown, Both!Bit
    <3>2. CASE i.op \in Both!I!PrDependent /\ known.pr = Both!I!Unknown
      BY <1>1, <3>2 DEF Both!I!Lower, Both!I!LowerFp
    <3>3. CASE ~(i.op \in Both!I!PrDependent /\ known.pr = Both!I!Unknown)
      <4>1. Both!I!Lower(i, known, double_, pairs_) = Both!I!LowerArithmetic(i, known.pr = 1)
        BY <1>1, <3>3 DEF Both!I!Lower, Both!I!LowerFp
      <4>2. (known.pr = 1) \in BOOLEAN /\ (i.op \in Both!I!PrDependent => (known.pr = 1) = double_)
        BY <3>1, <3>3
      <4>3. QED
        BY <4>1, <4>2
    <3>4. QED
      BY <3>2, <3>3
  <2>3. Both!I!Arithmetic(i, pr_) = Both!I!Arithmetic(i, double_)
    <3>1. CASE i.op \in Both!I!PrDependent
      BY <2>2, <3>1
    <3>2. CASE i.op \notin Both!I!PrDependent
      <4>1. i.op \in {"FLDI0", "FLDI1", "FLDS", "FSTS", "FABS", "FNEG", "FSRRA", "FMAC", "FCNVSD",
                      "FCNVDS", "FSCA", "FIPR", "FTRV"}
        BY <1>1, <3>2, FpOps DEF Both!I!PrDependent
      <4>2. QED
        BY <4>1 DEF Both!I!Arithmetic
    <3>3. QED
      BY <3>1, <3>2
  <2>4. QED
    BY <1>1, <2>1, <2>2, <2>3, ArithmeticAlike, CleanArithmetic, EqualAlike
<1>2. CASE i.kind = "fmov" /\ i \in Both!Fmovs
  <2>1. Both!I!Exec(i, double_, pairs_) = Both!I!Fmov(i, pairs_)
    BY <1>2 DEF Both!I!Exec
  <2>2. Both!I!Lower(i, known, double_, pairs_) = Both!I!LowerFmov(i, pairs_)
    <3>1. CASE known.sz = Both!I!Unknown
      BY <1>2, <3>1 DEF Both!I!Lower, Both!I!LowerFp
    <3>2. CASE known.sz # Both!I!Unknown
      <4>1. Both!I!Lower(i, known, double_, pairs_) = Both!I!LowerFmov(i, known.sz = 1)
        BY <1>2, <3>2 DEF Both!I!Lower, Both!I!LowerFp
      <4>2. (known.sz = 1) = pairs_
        BY <3>2 DEF ModeKnown, Both!Bit
      <4>3. QED
        BY <4>1, <4>2
    <3>3. QED
      BY <3>1, <3>2
  <2>3. QED
    BY <1>2, <2>1, <2>2, FmovAlike
<1>3. CASE i.kind = "move" /\ i \in Both!Moves \cup Both!Literals
  BY <1>3, MoveAlike DEF Both!I!Exec, Both!I!Lower
<1>4. CASE i.kind = "integer" /\ i \in Both!Integral
  BY <1>4, IntegerAlike DEF Both!I!Exec, Both!I!Lower
<1>5. CASE i.kind = "logic" /\ i \in Both!Logical
  BY <1>5, LogicAlike, CleanLogic, EqualAlike DEF Both!I!Exec, Both!I!Lower
<1>6. CASE i.kind = "system" /\ i \in Both!Systems \cup Both!Caches \cup Both!Controls
  BY <1>6, SystemAlike DEF Both!I!Exec, Both!I!Lower
<1>7. QED
  BY <1>1, <1>2, <1>3, <1>4, <1>5, <1>6, PlainFields

-------------------------------------------------------------------------------
(* Delayed branches. *)

LEMMA PutsIt ==
  ASSUME NEW c, IsContext(c), NEW d, NEW p \in Both!I!Places, NEW val, Assigned(c, d, p, val)
  PROVE  d = Put(c, p, val)
<1>1. d.reg = [k \in Both!I!Places |-> IF k = p THEN val ELSE c.reg[k]]
  BY DEF Assigned, IsContext
<1>2. [c.reg EXCEPT ![p] = val] = [k \in Both!I!Places |-> IF k = p THEN val ELSE c.reg[k]]
  BY DEF IsContext
<1>3. d = [reg |-> d.reg, log |-> c.log]
  BY DEF Assigned, IsContext
<1>4. QED
  BY <1>1, <1>2, <1>3 DEF Put

LocalTarget == Both!I!Set("target", "pcrel", <<"pc">>)

\* The target of a branch to a label is computed before the slot or after it.
LEMMA LocalAfter ==
  ASSUME NEW c, IsContext(c), NEW x_, NEW l_, Clean(x_), IsCode(l_), NEW flip, CodesAlike(c, x_, l_, flip)
  PROVE  LET X_ == Both!I!Do(Both!I!Do(c, LocalTarget, flip), x_, flip)
             Y_ == Both!I!Do(Both!I!Do(c, l_, flip), LocalTarget, flip)
         IN  IsContext(X_) /\ IsContext(Y_) /\ Same(X_, Y_)
<1> DEFINE X_ == Both!I!Do(Both!I!Do(c, LocalTarget, flip), x_, flip)
           Y_ == Both!I!Do(Both!I!Do(c, l_, flip), LocalTarget, flip)
           xc == Both!I!Do(c, x_, flip)
           lc == Both!I!Do(c, l_, flip)
           val == Of("pcrel", c.reg["pc"])
<1>1. "target" \in Both!I!Places /\ "pc" \in Lasting /\ "pcrel" \notin Special /\ "target" \in Lasting
  BY PlacesAre DEF Special, Lasting
<1>2. Both!I!Do(c, LocalTarget, flip) = Put(c, "target", val)
  BY <1>1, UnaryDoes, PutsIt DEF LocalTarget
<1>3. X_ = Put(xc, "target", val) /\ IsContext(xc) /\ xc.reg["pc"] = c.reg["pc"]
  BY <1>2, CodeCommutes DEF Leaves
<1>4. IsContext(lc) /\ Same(xc, lc)
  BY DEF CodesAlike
<1>5. Y_ = Put(lc, "target", Of("pcrel", lc.reg["pc"]))
  BY <1>1, <1>4, UnaryDoes, PutsIt DEF LocalTarget
<1>6. lc.reg["pc"] = c.reg["pc"]
  BY <1>1, <1>3, <1>4 DEF Same
<1> HIDE DEF X_, Y_, xc, lc, val
<1>7. Assigned(xc, X_, "target", val) /\ Assigned(lc, Y_, "target", val)
  BY <1>1, <1>3, <1>4, <1>5, <1>6, PutAssigns DEF val
<1>8. Same(X_, Y_)
  BY <1>4, <1>7 DEF Assigned, Same, Lasting
<1>9. QED
  BY <1>7, <1>8 DEF Assigned, X_, Y_

\* RTE: SR is written, and with it perhaps the bank swapped, in both.
LEMMA ReturnAfter ==
  ASSUME NEW c, NEW d, IsContext(c), IsContext(d), Same(c, d), NEW flip
  PROVE  LET code == Both!I!Set("sr", "write_sr", <<"ssr">>)
             X_ == Both!I!Do(c, code, flip)
             Y_ == Both!I!Do(d, code, flip)
         IN  IsContext(X_) /\ IsContext(Y_) /\ Same(X_, Y_)
<1> DEFINE s == [to |-> "sr", f |-> "write_sr", args |-> <<"ssr">>]
           base(z) == IF flip THEN Both!I!Swapped(z, Both!I!General, Both!I!Bank) ELSE z.reg
           reg(z) == [base(z) EXCEPT !["sr"] = z.reg["ssr"], !["t"] = <<"tbit", z.reg["ssr"]>>]
<1>1. ASSUME NEW z PROVE Both!I!Do(z, Both!I!Set("sr", "write_sr", <<"ssr">>), flip)
                           = [z EXCEPT !.reg = reg(z)]
  <2>1. Both!I!Do(z, Both!I!Set("sr", "write_sr", <<"ssr">>), flip) = Both!I!Apply(z, s, flip)
    BY DoOne DEF Both!I!Set
  <2>2. Both!I!Operands(z, s)[1] = z.reg["ssr"]
    BY DEF Both!I!Operands
  <2>3. Both!I!Apply(z, s, flip) = Both!I!WithSr(z, flip, Both!I!Operands(z, s)[1])
    BY DEF Both!I!Apply
  <2>4. QED
    BY <2>1, <2>2, <2>3 DEF Both!I!WithSr
<1>2. c.log = d.log /\ \A p \in Lasting : c.reg[p] = d.reg[p]
  BY DEF Same
<1>3. {"ssr", "sr", "t"} \subseteq Lasting /\ Lasting \subseteq Both!I!Places
  BY PlacesAre DEF Lasting
<1>4. \A p \in Lasting : base(c)[p] = base(d)[p]
  <2>1. CASE flip
    <3>1. /\ DOMAIN Both!I!General = {1, 2} /\ DOMAIN Both!I!Bank = {1, 2}
          /\ \A k \in {1, 2} : Both!I!General[k] \in Lasting /\ Both!I!Bank[k] \in Lasting
      BY PlacesAre DEF Both!I!General, Both!I!Bank, Lasting
    <3> DEFINE g_ == Both!I!General
               b_ == Both!I!Bank
    <3> HIDE DEF g_, b_
    <3> DEFINE Swap(z) ==
             [place \in Both!I!Places |->
                  IF \E k \in {1, 2} : g_[k] = place
                  THEN z.reg[b_[CHOOSE k \in {1, 2} : g_[k] = place]]
                  ELSE IF \E k \in {1, 2} : b_[k] = place
                  THEN z.reg[g_[CHOOSE k \in {1, 2} : b_[k] = place]]
                  ELSE z.reg[place]]
    <3>2. \A z : Both!I!Swapped(z, g_, b_) = Swap(z)
      BY <3>1 DEF Both!I!Swapped, g_, b_
    <3>3. ASSUME NEW p \in Lasting PROVE Swap(c)[p] = Swap(d)[p]
      <4>1. p \in Both!I!Places
        BY <1>3
      <4>2. CASE \E k \in {1, 2} : g_[k] = p
        <5>1. b_[CHOOSE k \in {1, 2} : g_[k] = p] \in Lasting
          BY <3>1, <4>2 DEF b_, g_
        <5>2. QED
          BY <1>2, <4>1, <4>2, <5>1
      <4>3. CASE ~(\E k \in {1, 2} : g_[k] = p) /\ \E k \in {1, 2} : b_[k] = p
        <5>1. g_[CHOOSE k \in {1, 2} : b_[k] = p] \in Lasting
          BY <3>1, <4>3 DEF b_, g_
        <5>2. QED
          BY <1>2, <4>1, <4>3, <5>1
      <4>4. CASE ~(\E k \in {1, 2} : g_[k] = p) /\ ~(\E k \in {1, 2} : b_[k] = p)
        BY <1>2, <4>1, <4>4
      <4>5. QED
        BY <4>2, <4>3, <4>4
    <3> HIDE DEF Swap
    <3>4. QED
      BY <2>1, <3>2, <3>3 DEF g_, b_
  <2>2. CASE ~flip
    BY <1>2, <2>2
  <2>3. QED
    BY <2>1, <2>2
<1>5. ASSUME NEW z, IsContext(z) PROVE base(z) = [p \in Both!I!Places |-> base(z)[p]]
  BY <1>5 DEF IsContext, Both!I!Swapped
<1> HIDE DEF base
<1>6. ASSUME NEW z, IsContext(z)
      PROVE  reg(z) = [p \in Both!I!Places |-> IF p = "t" THEN <<"tbit", z.reg["ssr"]>>
                                              ELSE IF p = "sr" THEN z.reg["ssr"] ELSE base(z)[p]]
  BY <1>5, <1>6
<1> HIDE DEF reg
<1>7. ASSUME NEW z, IsContext(z)
      PROVE  /\ IsContext([z EXCEPT !.reg = reg(z)])
             /\ [z EXCEPT !.reg = reg(z)].reg = reg(z) /\ [z EXCEPT !.reg = reg(z)].log = z.log
  <2>1. [z EXCEPT !.reg = reg(z)] = [reg |-> reg(z), log |-> z.log]
    BY <1>7 DEF IsContext
  <2>2. reg(z) = [p \in Both!I!Places |-> reg(z)[p]]
    BY <1>6, <1>7
  <2>3. QED
    BY <2>1, <2>2 DEF IsContext
<1>8. \A p \in Lasting : reg(c)[p] = reg(d)[p]
  <2>1. c.reg["ssr"] = d.reg["ssr"]
    BY <1>2, <1>3
  <2>2. QED
    BY <1>3, <1>4, <1>6, <2>1
<1> DEFINE X_ == [c EXCEPT !.reg = reg(c)]
           Y_ == [d EXCEPT !.reg = reg(d)]
<1>9. IsContext(X_) /\ IsContext(Y_) /\ X_.reg = reg(c) /\ Y_.reg = reg(d) /\ X_.log = Y_.log
  BY <1>2, <1>7
<1> HIDE DEF X_, Y_
<1>10. Same(X_, Y_)
  BY <1>8, <1>9 DEF Same
<1>11. QED
  BY <1>1, <1>9, <1>10 DEF X_, Y_

LEMMA CodeFacts ==
  /\ \A to, f, args : IsCode(Both!I!Set(to, f, args))
  /\ \A to, from : IsCode(Both!I!Copy(to, from))
  /\ \A to, size, p : IsCode(Both!I!Read(to, size, p)) /\ IsCode(Both!I!Write(size, p, to))
  /\ \A c_, d_ : IsCode(c_) /\ IsCode(d_) => IsCode(c_ \o d_)
  /\ IsCode(Both!I!Nothing)
BY SetCode, CopyCode, ReadCode, WriteCode, NoCode, DoThen

LEMMA FmovCode ==
  ASSUME NEW i \in Both!Plain, i \in Both!Fmovs, NEW pairs_ \in BOOLEAN
  PROVE  Clean(Both!I!LowerFmov(i, pairs_))
<1>1. /\ Both!I!R(i.n) \in Named /\ Both!I!F(i.n) \in Named
      /\ Both!I!R(i.m) \in Named /\ Both!I!F(i.m) \in Named
      /\ Both!I!Pair(i.n)[1] \in Named /\ Both!I!Pair(i.n)[2] \in Named
      /\ Both!I!Pair(i.m)[1] \in Named /\ Both!I!Pair(i.m)[2] \in Named
      /\ Named \subseteq Readable /\ {"r0", "v", "w", "ea"} \subseteq Named
  BY Names
<1>2. "add" \notin Special
  BY DEF Special
<1>3. Clean(Both!I!Set("v", "pair", Both!I!Pair(i.m)))
  <2>1. Both!I!Pair(i.m) \in {Both!I!Fr, Both!I!Xf} /\ "pair" \notin Special
    BY DEF Both!I!Pair, Special
  <2>2. QED
    BY <1>1, <2>1, CleanVectors
<1>4. CASE i.op = "FMOV"
  BY <1>1, <1>3, <1>4, CleanFacts DEF Both!I!LowerFmov
<1>5. CASE i.op \in {"FMOV_LOAD", "FMOV_LOAD_INC", "FMOV_LOAD_R0"}
  BY <1>1, <1>2, <1>5, CleanFacts, CleanAccess DEF Both!I!LowerFmov
<1>6. CASE i.op \in {"FMOV_STORE", "FMOV_STORE_DEC", "FMOV_STORE_R0"}
  BY <1>1, <1>2, <1>6, CleanFacts, CleanAccess DEF Both!I!LowerFmov
<1>7. QED
  BY <1>4, <1>5, <1>6, FmovOps

LEMMA MoveCode ==
  ASSUME NEW i \in Both!Plain, i \in Both!Moves \cup Both!Literals
  PROVE  Clean(Both!I!LowerMove(i))
<1>1. /\ Both!I!R(i.n) \in Named /\ Both!I!R(i.m) \in Named
      /\ Named \subseteq Readable /\ {"r0", "v", "ea", "t", "gbr"} \subseteq Named
      /\ "imm" \in Readable /\ "pc" \in Readable
  BY Names
<1>2. i.op \in {"XTRCT"} => i.op \notin Special
  BY DEF Special
<1>3. "add" \notin Special /\ i.size \in {8, 16, 32}
  BY PlainFields DEF Special
<1>4. Clean(Both!I!Increment(i))
  BY <1>1, CleanFacts, CleanAccess DEF Both!I!Increment
<1>5. CASE i.op \in {"MOV_I", "MOVT", "MOV", "SWAP_B", "SWAP_W", "XTRCT", "MOVA", "MOV_PCREL"}
  BY <1>1, <1>2, <1>5, CleanFacts DEF Both!I!LowerMove
<1>6. CASE i.op \in {"MOV_S", "MOV_SD", "MOV_S_DISP", "MOV_S_DISP0", "MOV_S_R0", "MOV_S_GBR"}
  BY <1>1, <1>3, <1>6, CleanFacts, CleanAccess DEF Both!I!LowerMove
<1>7. CASE i.op \in {"MOV_L", "MOV_LI", "MOV_L_DISP", "MOV_L_DISP0", "MOV_L_R0", "MOV_L_GBR"}
  BY <1>1, <1>3, <1>4, <1>7, CleanFacts, CleanAccess DEF Both!I!LowerMove
<1>8. QED
  BY <1>5, <1>6, <1>7, MoveOps

LEMMA IntegerCode ==
  ASSUME NEW i \in Both!Plain, i \in Both!Integral
  PROVE  Clean(Both!I!LowerInteger(i))
<1>1. /\ Both!I!R(i.n) \in Named /\ Both!I!R(i.m) \in Named
      /\ Named \subseteq Readable /\ {"r0", "v", "w", "t", "sr", "mach", "macl"} \subseteq Named
      /\ "imm" \in Readable
  BY Names
<1>2. /\ i.op \notin Special /\ "ADD" \notin Special /\ "zero" \notin Special /\ "equal" \notin Special
      /\ "true" \notin Special /\ "false" \notin Special
  BY IntegerOps DEF Special
<1> USE DEF Both!I!Reflexive, Both!I!Irreflexive
<1>3. CASE i.op \in {"ADD", "SUB", "ADD_I", "ADDC", "SUBC", "ADDV", "SUBV", "NEGC"}
  BY <1>1, <1>2, <1>3, CleanFacts DEF Both!I!LowerInteger
<1>4. CASE i.op \in {"DIV1", "DIV0S", "DIV0U", "NEG", "EXTS_B", "EXTS_W", "EXTU_B", "EXTU_W"}
  BY <1>1, <1>2, <1>4, CleanFacts, CleanMore DEF Both!I!LowerInteger
<1>5. CASE i.op \in {"CMP_EQ_I", "CMP_EQ", "CMP_HS", "CMP_GE", "CMP_HI", "CMP_GT", "CMP_STR",
                     "CMP_PZ", "CMP_PL", "DT"}
  BY <1>1, <1>2, <1>5, CleanFacts DEF Both!I!LowerInteger
<1>6. CASE i.op \in {"DMULS_L", "DMULU_L", "MUL_L", "MULS_W", "MULU_W"}
  BY <1>1, <1>2, <1>6, CleanFacts DEF Both!I!LowerInteger
<1>7. CASE i.op \in {"MAC_L", "MAC_W"}
  BY <1>1, <1>2, <1>7, CleanFacts, CleanMore, CleanAccess DEF Both!I!LowerInteger
<1>8. QED
  BY <1>3, <1>4, <1>5, <1>6, <1>7, IntegerOps

LEMMA SystemCode ==
  ASSUME NEW i \in Both!Plain, i \in Both!Systems \cup Both!Caches \cup Both!Controls
  PROVE  Clean(Both!I!LowerSystem(i))
<1>1. /\ Both!I!R(i.n) \in Named /\ Both!I!R(i.m) \in Named /\ Named \subseteq Readable
      /\ {"r0", "v", "t", "sr", "mach", "macl", "fpscr"} \subseteq Named
      /\ "imm" \in Readable /\ "pc" \in Readable
  BY Names
<1>2. /\ "zero" \notin Special /\ "one" \notin Special /\ "trapa" \notin Special
      /\ "sq_flush" \notin Special /\ "fault" \notin Special /\ "read_sr" \notin Special
  BY DEF Special
<1>3. CASE i.op \in {"STC", "STC_L", "LDC", "LDC_L"}
  <2>1. i.creg \in Named
    BY <1>3, Names, SystemOps
  <2>2. QED
    BY <1>1, <1>2, <1>3, <2>1, CleanFacts, CleanAccess DEF Both!I!LowerSystem
<1>4. CASE i.op \in {"CLRMAC", "CLRS", "SETS", "CLRT", "SETT", "FRCHG", "FSCHG"}
  BY <1>1, <1>2, <1>4, CleanFacts DEF Both!I!LowerSystem
<1>5. CASE i.op \in {"TRAPA", "MOVCA_L", "NOP", "LDTLB", "PREF", "OCBI", "OCBP", "OCBWB"}
  BY <1>1, <1>2, <1>5, CleanAccess, CleanMemory DEF Both!I!LowerSystem
<1>6. QED
  BY <1>3, <1>4, <1>5, SystemOps

LEMMA LowerCode ==
  ASSUME NEW i \in Both!Plain, NEW double_ \in BOOLEAN, NEW pairs_ \in BOOLEAN,
         NEW known, ModeKnown(known, double_, pairs_)
  PROVE  IsCode(Both!I!Lower(i, known, double_, pairs_))
<1>1. CASE i.kind = "fp" /\ i \in Both!Arithmetic
  <2>1. PICK pr_ \in BOOLEAN : Both!I!Lower(i, known, double_, pairs_) = Both!I!LowerArithmetic(i, pr_)
    BY <1>1 DEF Both!I!Lower, Both!I!LowerFp
  <2>2. QED
    BY <1>1, <2>1, ArithmeticAlike, CleanArithmetic DEF Clean
<1>2. CASE i.kind = "fmov" /\ i \in Both!Fmovs
  <2>1. PICK sz_ \in BOOLEAN : Both!I!Lower(i, known, double_, pairs_) = Both!I!LowerFmov(i, sz_)
    BY <1>2 DEF Both!I!Lower, Both!I!LowerFp
  <2>2. QED
    BY <1>2, <2>1, FmovCode DEF Clean
<1>3. CASE i.kind = "move" /\ i \in Both!Moves \cup Both!Literals
  BY <1>3, MoveCode DEF Both!I!Lower, Clean
<1>4. CASE i.kind = "integer" /\ i \in Both!Integral
  BY <1>4, IntegerCode DEF Both!I!Lower, Clean
<1>5. CASE i.kind = "logic" /\ i \in Both!Logical
  BY <1>5, LogicAlike, CleanLogic DEF Both!I!Lower, Clean
<1>6. CASE i.kind = "system" /\ i \in Both!Systems \cup Both!Caches \cup Both!Controls
  BY <1>6, SystemCode DEF Both!I!Lower, Clean
<1>7. QED
  BY <1>1, <1>2, <1>3, <1>4, <1>5, <1>6, PlainFields

LEMMA BeforeSlot ==
  ASSUME NEW c, IsContext(c), NEW to \in Both!I!Places, NEW f, f \notin Special, NEW args, NEW from, NEW flip
  PROVE  /\ IsContext(Both!I!Do(c, Both!I!Set(to, f, args), flip))
         /\ IsContext(Both!I!Do(c, Both!I!Copy(to, from), flip))
BY SetDoes, CopyDoes DEF Assigned

LEMMA DoThree ==
  ASSUME NEW c, NEW c_, NEW d_, NEW e_, IsCode(c_), IsCode(d_), IsCode(e_), NEW flip
  PROVE  Both!I!Do(c, c_ \o d_ \o e_, flip)
           = Both!I!Do(Both!I!Do(Both!I!Do(c, c_, flip), d_, flip), e_, flip)
BY DoThen

\* The slot between what both engines compute before it and after it.
LEMMA DelayedAlike ==
  ASSUME NEW c, IsContext(c), NEW i \in Both!Branches, NEW slot \in Both!Plain,
         NEW double_ \in BOOLEAN, NEW pairs_ \in BOOLEAN,
         NEW known, ModeKnown(known, double_, pairs_), NEW flip
  PROVE  Meets(c, c, Both!I!Delayed(i, slot, double_, pairs_),
               Both!I!EmitDelayed(i, slot, known, double_, pairs_), flip)
<1> DEFINE x_ == Both!I!Exec(slot, double_, pairs_)
           l_ == Both!I!Lower(slot, known, double_, pairs_)
           e_ == Both!I!Delayed(i, slot, double_, pairs_)
           d_ == Both!I!EmitDelayed(i, slot, known, double_, pairs_)
           ret == Both!I!Set("pr", "add4", <<"pc">>)
           taken_ == Both!I!Set("taken", i.op, <<"t">>)
           spc_ == Both!I!Copy("target", "spc")
           sr_ == Both!I!Set("sr", "write_sr", <<"ssr">>)
           none == Both!I!Nothing
           Goal == /\ IsContext(Both!I!Do(c, e_, flip)) /\ IsContext(Both!I!Do(c, d_, flip))
                   /\ Same(Both!I!Do(c, e_, flip), Both!I!Do(c, d_, flip))
<1> SUFFICES Goal
  BY DEF Meets
<1>1. Clean(x_) /\ IsCode(x_) /\ IsCode(l_)
  BY CleanExec, LowerCode DEF Clean
<1>2. \A d : IsContext(d) => /\ CodesAlike(d, x_, l_, flip) /\ IsContext(Both!I!Do(d, x_, flip))
                             /\ IsContext(Both!I!Do(d, l_, flip))
                             /\ Same(Both!I!Do(d, x_, flip), Both!I!Do(d, l_, flip))
  BY <1>1, CodeCommutes, LowerAlike DEF Leaves, CodesAlike
<1>3. /\ IsCode(ret) /\ IsCode(LocalTarget) /\ IsCode(none) /\ IsCode(taken_) /\ IsCode(spc_) /\ IsCode(sr_)
      /\ \A p, q_ : IsCode(p) /\ IsCode(q_) => IsCode(p \o q_)
  BY CodeFacts DEF LocalTarget
<1>4. /\ i.op \in {"BT_S", "BF_S", "BRA", "BRAF", "JMP", "BSR", "BSRF", "JSR", "RTS", "RTE"}
      /\ i.m \in {0, 1}
  BY DEF Both!Branches
<1>5. i.op \notin Special /\ "add4" \notin Special /\ "add" \notin Special /\ "pcrel" \notin Special
  BY <1>4 DEF Special
<1>6. /\ "pr" \in Both!I!Places /\ "target" \in Both!I!Places /\ "taken" \in Both!I!Places
      /\ "spc" \in Lasting
  BY PlacesAre DEF Lasting
<1>7. \A d : Both!I!Do(d, none, flip) = d
  BY DoNothing
<1> HIDE DEF x_, l_
<1>8. CASE i.op \in {"BT_S", "BF_S"}
  <2> DEFINE c1 == Both!I!Do(c, taken_, flip)
  <2>1. /\ e_ = taken_ \o LocalTarget \o x_ \o none
        /\ d_ = taken_ \o l_ \o LocalTarget
    BY <1>8 DEF Both!I!Delayed, Both!I!BranchBeforeSlot, Both!I!BranchAfterSlot, Both!I!EmitDelayed,
                LocalTarget, x_, l_
  <2>2. IsContext(c1)
    BY <1>5, <1>6, BeforeSlot
  <2> HIDE DEF e_, d_, taken_, none
  <2>3. Both!I!Do(c, taken_ \o LocalTarget \o x_, flip) = Both!I!Do(Both!I!Do(c1, LocalTarget, flip), x_, flip)
    BY <1>1, <1>3, DoThree
  <2>4. Both!I!Do(c, e_, flip) = Both!I!Do(c, taken_ \o LocalTarget \o x_, flip)
    BY <1>1, <1>3, <1>7, <2>1, DoThen
  <2>5. Both!I!Do(c, d_, flip) = Both!I!Do(Both!I!Do(c1, l_, flip), LocalTarget, flip)
    BY <1>1, <1>3, <2>1, DoThree
  <2> HIDE DEF c1
  <2>6. QED
    BY <1>1, <1>2, <2>2, <2>3, <2>4, <2>5, LocalAfter
<1>9. CASE i.op = "BRA"
  <2>1. e_ = LocalTarget \o x_ \o none /\ d_ = l_ \o LocalTarget
    BY <1>9 DEF Both!I!Delayed, Both!I!BranchBeforeSlot, Both!I!BranchAfterSlot, Both!I!EmitDelayed,
                LocalTarget, x_, l_
  <2> HIDE DEF e_, d_, none
  <2>2. Both!I!Do(c, e_, flip) = Both!I!Do(Both!I!Do(c, LocalTarget, flip), x_, flip)
    BY <1>1, <1>3, <1>7, <2>1, DoThree
  <2>3. Both!I!Do(c, d_, flip) = Both!I!Do(Both!I!Do(c, l_, flip), LocalTarget, flip)
    BY <1>1, <1>3, <2>1, DoThen
  <2>4. QED
    BY <1>1, <1>2, <2>2, <2>3, LocalAfter
<1>10. CASE i.op = "BSR"
  <2> DEFINE c1 == Both!I!Do(c, ret, flip)
             val == Of("pcrel", c.reg["pc"])
  <2>1. e_ = (LocalTarget \o ret) \o x_ \o none /\ d_ = ret \o l_ \o LocalTarget
    BY <1>10 DEF Both!I!Delayed, Both!I!BranchBeforeSlot, Both!I!BranchAfterSlot, Both!I!EmitDelayed,
                 LocalTarget, x_, l_
  <2>2. Clean(ret)
    BY Registers, CleanUnary, PlacesAre DEF Readable, Assignable
  <2>3. IsContext(c1) /\ c1.reg["pc"] = c.reg["pc"]
    BY <2>2, CodeCommutes DEF Leaves
  <2>4. Both!I!Do(c, LocalTarget, flip) = Put(c, "target", val)
    BY <1>5, <1>6, UnaryDoes, PutsIt DEF LocalTarget
  <2>5. Both!I!Do(c1, LocalTarget, flip) = Put(c1, "target", val)
    <3>1. Assigned(c1, Both!I!Do(c1, LocalTarget, flip), "target", val)
      BY <1>5, <1>6, <2>3, UnaryDoes DEF LocalTarget
    <3>2. QED
      BY <1>6, <2>3, <3>1, PutsIt
  <2>6. Both!I!Do(Both!I!Do(c, LocalTarget, flip), ret, flip) = Both!I!Do(c1, LocalTarget, flip)
    BY <2>2, <2>4, <2>5, CodeCommutes
  <2> HIDE DEF e_, d_, none, ret, val
  <2>7. Both!I!Do(c, (LocalTarget \o ret) \o x_, flip) = Both!I!Do(Both!I!Do(c1, LocalTarget, flip), x_, flip)
    BY <1>1, <1>3, <2>6, DoThree
  <2>8. Both!I!Do(c, e_, flip) = Both!I!Do(c, (LocalTarget \o ret) \o x_, flip)
    BY <1>1, <1>3, <1>7, <2>1, DoThen
  <2>9. Both!I!Do(c, d_, flip) = Both!I!Do(Both!I!Do(c1, l_, flip), LocalTarget, flip)
    BY <1>1, <1>3, <2>1, DoThree
  <2> HIDE DEF c1
  <2>10. QED
    BY <1>1, <1>2, <2>3, <2>7, <2>8, <2>9, LocalAfter
<1>11. ASSUME NEW before, IsCode(before), IsContext(Both!I!Do(c, before, flip)),
              e_ = before \o x_ \o none, d_ = before \o l_
       PROVE  Goal
  <2> HIDE DEF e_, d_, none
  <2>1. Both!I!Do(c, e_, flip) = Both!I!Do(Both!I!Do(c, before, flip), x_, flip)
    BY <1>1, <1>3, <1>7, <1>11, DoThree
  <2>2. Both!I!Do(c, d_, flip) = Both!I!Do(Both!I!Do(c, before, flip), l_, flip)
    BY <1>1, <1>3, <1>11, DoThen
  <2>3. QED
    BY <1>2, <1>11, <2>1, <2>2
<1>12. CASE i.op \in {"BRAF", "JMP", "RTS"}
  <2> DEFINE before == CASE i.op = "BRAF" -> Both!I!Set("target", "add", <<"pc", Both!I!R(i.m)>>)
                         [] i.op = "JMP" -> Both!I!Copy("target", Both!I!R(i.m))
                         [] i.op = "RTS" -> Both!I!Copy("target", "pr")
  <2>1. e_ = before \o x_ \o none /\ d_ = before \o l_
    BY <1>12 DEF Both!I!Delayed, Both!I!BranchBeforeSlot, Both!I!BranchAfterSlot, Both!I!EmitDelayed,
                 Both!I!ReturnTo, x_, l_
  <2>2. IsCode(before) /\ IsContext(Both!I!Do(c, before, flip))
    BY <1>5, <1>6, <1>12, CodeFacts, BeforeSlot
  <2> HIDE DEF before, e_, d_
  <2>3. QED
    BY <1>11, <2>1, <2>2
<1>13. CASE i.op \in {"BSRF", "JSR"}
  <2> DEFINE to == IF i.op = "BSRF" THEN Both!I!Set("target", "add", <<"pc", Both!I!R(i.m)>>)
                   ELSE Both!I!Copy("target", Both!I!R(i.m))
             before == to \o ret
  <2>1. e_ = before \o x_ \o none /\ d_ = before \o l_
    BY <1>13 DEF Both!I!Delayed, Both!I!BranchBeforeSlot, Both!I!BranchAfterSlot, Both!I!EmitDelayed,
                 x_, l_
  <2>2. IsCode(to) /\ IsContext(Both!I!Do(c, to, flip))
    BY <1>5, <1>6, CodeFacts, BeforeSlot
  <2> HIDE DEF to
  <2>3. IsCode(before) /\ Both!I!Do(c, before, flip) = Both!I!Do(Both!I!Do(c, to, flip), ret, flip)
    BY <1>3, <2>2, DoThen
  <2>4. IsContext(Both!I!Do(c, before, flip))
    BY <1>5, <1>6, <2>2, <2>3, BeforeSlot
  <2> HIDE DEF before, e_, d_
  <2>5. QED
    BY <1>11, <2>1, <2>3, <2>4
<1>14. CASE i.op = "RTE"
  <2> DEFINE x1 == Both!I!Do(c, x_, flip)
             l1 == Both!I!Do(c, l_, flip)
             x2 == Both!I!Do(x1, spc_, flip)
             l2 == Both!I!Do(l1, spc_, flip)
  <2>1. e_ = none \o x_ \o (spc_ \o sr_) /\ d_ = l_ \o spc_ \o sr_
    BY <1>14 DEF Both!I!Delayed, Both!I!BranchBeforeSlot, Both!I!BranchAfterSlot, Both!I!EmitDelayed,
                 x_, l_
  <2>2. IsContext(x1) /\ IsContext(l1) /\ Same(x1, l1)
    BY <1>2
  <2>3. Assigned(x1, x2, "target", x1.reg["spc"]) /\ Assigned(l1, l2, "target", l1.reg["spc"])
    BY <1>6, <2>2, CopyDoes
  <2> HIDE DEF e_, d_, none, spc_, sr_
  <2>4. Both!I!Do(c, d_, flip) = Both!I!Do(l2, sr_, flip)
    BY <1>1, <1>3, <2>1, DoThree
  <2>5. Both!I!Do(c, e_, flip) = Both!I!Do(x2, sr_, flip)
    <3>1. Both!I!Do(c, e_, flip) = Both!I!Do(Both!I!Do(Both!I!Do(c, none, flip), x_, flip), spc_ \o sr_, flip)
      BY <1>1, <1>3, <2>1, DoThree
    <3>2. Both!I!Do(x1, spc_ \o sr_, flip) = Both!I!Do(x2, sr_, flip)
      BY <1>3, DoThen
    <3>3. QED
      BY <1>7, <3>1, <3>2
  <2> HIDE DEF x1, l1, x2, l2
  <2>6. IsContext(x2) /\ IsContext(l2) /\ Same(x2, l2)
    BY <1>6, <2>2, <2>3 DEF Assigned, Same, Lasting
  <2>7. QED
    BY <2>4, <2>5, <2>6, ReturnAfter DEF sr_
<1>15. QED
  BY <1>4, <1>8, <1>9, <1>10, <1>12, <1>13, <1>14

-------------------------------------------------------------------------------
(* The blocks. *)

Ended == done # <<>> /\ done[Len(done)].kind = "branch"

\* Between instructions the temporaries are dead, and the clock of emitted code lags by what
\* it has not counted yet.
EnginesInv ==
  /\ double \in BOOLEAN /\ pairs \in BOOLEAN
  /\ mode \in [pr : {0, 1, 2}, sz : {0, 1, 2}] /\ ModeKnown(mode, double, pairs)
  /\ IsContext(interpreted) /\ IsContext(emitted) /\ Same(interpreted, emitted)
  /\ cycles \in Nat /\ counted \in Nat /\ pending \in Nat
  /\ done \in Seq(Both!Plain \cup Both!Branches)
  /\ ~Ended => interpreted = emitted /\ cycles = counted + pending
  /\ Ended => cycles = counted

LEMMA SameForgotten ==
  ASSUME NEW c, NEW d, IsContext(c), IsContext(d), Same(c, d)
  PROVE  /\ IsContext(Both!I!Forget(c)) /\ Both!I!Forget(c) = Both!I!Forget(d)
         /\ Both!Visible(c) = Both!Visible(d)
<1>1. {"v", "w", "ea"} \subseteq Both!I!Temps
  BY DEF Both!I!Temps
<1> DEFINE clear(z) == [p \in Both!I!Places |-> IF p \in Both!I!Temps THEN <<"initial", p>> ELSE z.reg[p]]
           kept(z) == [p \in Lasting |-> z.reg[p]]
<1>2. ASSUME NEW z, IsContext(z)
      PROVE  /\ Both!I!Forget(z) = [reg |-> clear(z), log |-> z.log]
             /\ Both!Visible(z) = [reg |-> kept(z), log |-> z.log]
  <2>1. z = [reg |-> z.reg, log |-> z.log] /\ DOMAIN z.reg = Both!I!Places
    BY <1>2 DEF IsContext
  <2>2. Both!I!Forget(z) = [reg |-> clear(z), log |-> z.log]
    BY <2>1 DEF Both!I!Forget
  <2>3. Both!Visible(z) = [reg |-> kept(z), log |-> z.log]
    BY <2>1 DEF Both!Visible, Lasting
  <2>4. QED
    BY <2>2, <2>3
<1>3. clear(c) = clear(d) /\ kept(c) = kept(d) /\ c.log = d.log
  BY <1>1 DEF Same, Lasting
<1>4. clear(c) = [p \in Both!I!Places |-> clear(c)[p]]
  OBVIOUS
<1> HIDE DEF clear, kept
<1>5. Both!I!Forget(c) = Both!I!Forget(d) /\ Both!Visible(c) = Both!Visible(d)
  BY <1>2, <1>3
<1>6. Both!I!Forget(c) = [reg |-> clear(c), log |-> c.log]
  BY <1>2
<1>7. Both!I!Forget(c).reg = clear(c) /\ Both!I!Forget(c).log = c.log
  BY <1>6
<1>8. IsContext(Both!I!Forget(c))
  BY <1>4, <1>6, <1>7 DEF IsContext
<1>9. QED
  BY <1>5, <1>8

LEMMA EnginesInit == Both!Init => EnginesInv
<1> SUFFICES ASSUME Both!Init PROVE EnginesInv
  OBVIOUS
<1>1. IsContext(interpreted) /\ interpreted = emitted
  <2> DEFINE reg == [p \in Both!I!Places |-> <<"initial", p>>]
  <2>1. interpreted = [reg |-> reg, log |-> <<>>] /\ interpreted = emitted
    BY DEF Both!Init, Both!I!Initially
  <2>2. reg = [p \in Both!I!Places |-> reg[p]]
    OBVIOUS
  <2> HIDE DEF reg
  <2>3. QED
    BY <2>1, <2>2 DEF IsContext
<1>2. mode \in [pr : {0, 1, 2}, sz : {0, 1, 2}] /\ ModeKnown(mode, double, pairs)
  BY DEF Both!Init, Both!Bit, Both!I!Unknown, ModeKnown
<1>3. done = <<>> /\ done \in Seq(Both!Plain \cup Both!Branches) /\ ~Ended
  BY DEF Both!Init, Ended
<1>4. QED
  BY <1>1, <1>2, <1>3 DEF Both!Init, EnginesInv, Same

\* Instructions come first in a block, or after one that is no branch.
LEMMA NotEnded ==
  ASSUME EnginesInv, done = <<>> \/ (Len(done) = 1 /\ Both!ChangesMode(done[1]))
  PROVE  ~Ended
<1>1. CASE Len(done) = 1 /\ Both!ChangesMode(done[1])
  <2>1. done[1] \in Both!Plain \cup Both!Branches
    BY <1>1 DEF EnginesInv
  <2>2. done[1].op \in {"FSCHG", "LDC", "LDC_L"}
    BY <1>1 DEF Both!ChangesMode, Both!WritesFpscr
  <2>3. done[1] \notin Both!Branches
    BY <2>2 DEF Both!Branches
  <2>4. done[1].kind # "branch"
    BY <2>1, <2>3, PlainFields
  <2>5. QED
    BY <1>1, <2>4 DEF Ended
<1>2. QED
  BY <1>1 DEF Ended

LEMMA LastDone ==
  ASSUME EnginesInv, NEW i \in Both!Plain \cup Both!Branches, done' = Append(done, i)
  PROVE  /\ done' \in Seq(Both!Plain \cup Both!Branches)
         /\ Ended' <=> i.kind = "branch"
<1>1. done \in Seq(Both!Plain \cup Both!Branches)
  BY DEF EnginesInv
<1>2. done' \in Seq(Both!Plain \cup Both!Branches) /\ done' # <<>> /\ done'[Len(done')] = i
  BY <1>1
<1>3. QED
  BY <1>2 DEF Ended

LEMMA InstructionStep ==
  ASSUME EnginesInv, ~Ended, NEW i \in Both!Plain, Both!Instruction(i)
  PROVE  EnginesInv'
<1>1. PICK flip \in Both!Flips(i), known \in BOOLEAN :
        /\ double' \in IF Both!WritesFpscr(i) THEN BOOLEAN ELSE {double}
        /\ pairs' \in IF Both!WritesFpscr(i) THEN BOOLEAN ELSE IF i.op = "FSCHG" THEN {~pairs} ELSE {pairs}
        /\ mode' = Both!Transfer(i, known)
        /\ interpreted' = Both!I!Forget(Both!I!Do(interpreted, Both!I!Exec(i, double, pairs), flip))
        /\ emitted' = Both!I!Forget(Both!I!Do(emitted, Both!I!Lower(i, mode, double, pairs), flip))
        /\ cycles' = cycles + Both!I!Cycles(i)
        /\ pending' = pending + 1
        /\ done' = Append(done, i)
        /\ UNCHANGED counted
  BY DEF Both!Instruction
<1>2. double' \in BOOLEAN /\ pairs' \in BOOLEAN
  BY <1>1 DEF EnginesInv
<1>3. mode' \in [pr : {0, 1, 2}, sz : {0, 1, 2}] /\ ModeKnown(mode', double', pairs')
  <2>1. CASE i.op = "FSCHG"
    <3>1. ~Both!WritesFpscr(i) /\ double' = double /\ pairs' = ~pairs
      BY <1>1, <2>1 DEF Both!WritesFpscr
    <3>2. mode' = [mode EXCEPT !.sz = IF @ = Both!I!Unknown THEN @ ELSE 1 - @]
      BY <1>1, <2>1, <3>1 DEF Both!Transfer
    <3>3. /\ mode' = [pr |-> mode.pr, sz |-> IF mode.sz = 2 THEN 2 ELSE 1 - mode.sz]
          /\ mode.pr \in {0, 1, 2} /\ mode.sz \in {0, 1, 2}
      BY <3>2 DEF EnginesInv, Both!I!Unknown
    <3>4. mode'.pr = mode.pr /\ mode'.sz = (IF mode.sz = 2 THEN 2 ELSE 1 - mode.sz)
      BY <3>3
    <3>5. (1 - mode.sz = Both!Bit(pairs')) \/ mode.sz = 2
      <4>1. mode.sz \in {Both!Bit(pairs), 2} /\ pairs \in BOOLEAN
        BY DEF EnginesInv, ModeKnown, Both!I!Unknown
      <4>2. Both!Bit(pairs') = IF pairs THEN 0 ELSE 1
        BY <3>1 DEF Both!Bit
      <4>3. QED
        BY <4>1, <4>2 DEF Both!Bit
    <3>6. mode.pr \in {Both!Bit(double'), 2}
      BY <3>1 DEF EnginesInv, ModeKnown, Both!I!Unknown
    <3>7. QED
      BY <3>3, <3>4, <3>5, <3>6 DEF ModeKnown, Both!I!Unknown
  <2>2. CASE i.op # "FSCHG" /\ Both!WritesFpscr(i)
    <3>1. mode' = IF known THEN [pr |-> Both!Bit(double'), sz |-> Both!Bit(pairs')]
                  ELSE [pr |-> Both!I!Unknown, sz |-> Both!I!Unknown]
      BY <1>1, <2>2 DEF Both!Transfer
    <3>2. QED
      BY <1>2, <3>1 DEF ModeKnown, Both!Bit, Both!I!Unknown
  <2>3. CASE i.op # "FSCHG" /\ ~Both!WritesFpscr(i)
    <3>1. double' = double /\ pairs' = pairs /\ mode' = mode
      BY <1>1, <2>3 DEF Both!Transfer
    <3>2. QED
      BY <3>1 DEF EnginesInv
  <2>4. QED
    BY <2>1, <2>2, <2>3
<1>4. IsContext(interpreted') /\ interpreted' = emitted'
  <2> DEFINE x_ == Both!I!Do(interpreted, Both!I!Exec(i, double, pairs), flip)
             l_ == Both!I!Do(emitted, Both!I!Lower(i, mode, double, pairs), flip)
  <2>1. IsContext(interpreted) /\ interpreted = emitted /\ double \in BOOLEAN /\ pairs \in BOOLEAN
        /\ ModeKnown(mode, double, pairs)
    BY DEF EnginesInv
  <2>2. IsContext(l_) /\ Same(x_, l_)
    BY <2>1, LowerAlike DEF CodesAlike
  <2>3. IsContext(x_)
    BY <2>1, CleanExec, CodeCommutes DEF Leaves
  <2> HIDE DEF x_, l_
  <2>4. Both!I!Forget(x_) = Both!I!Forget(l_) /\ IsContext(Both!I!Forget(x_))
    BY <2>2, <2>3, SameForgotten
  <2>5. QED
    BY <1>1, <2>4 DEF x_, l_
<1>5. i.kind # "branch"
  BY PlainFields
<1>6. done' \in Seq(Both!Plain \cup Both!Branches) /\ ~Ended'
  BY <1>1, <1>5, LastDone
<1>7. cycles' = cycles + 1
  BY <1>1, <1>5 DEF Both!I!Cycles
<1>8. QED
  BY <1>1, <1>2, <1>3, <1>4, <1>6, <1>7 DEF EnginesInv, Same

LEMMA BranchStep ==
  ASSUME EnginesInv, Both!Branch
  PROVE  EnginesInv'
<1>1. PICK i \in Both!Branches, slot \in Both!Slots, flip \in BOOLEAN :
        /\ interpreted' = Both!I!Do(interpreted, Both!I!Delayed(i, slot, double, pairs), flip)
        /\ emitted' = Both!I!Do(emitted, Both!I!EmitDelayed(i, slot, mode, double, pairs), flip)
        /\ cycles' = cycles + Both!I!Cycles(i)
        /\ counted' = counted + pending + 2
        /\ pending' = 0
        /\ done' = Append(done, i)
        /\ UNCHANGED <<double, pairs, mode>>
  BY DEF Both!Branch, Both!Flips
<1>2. ~Ended
  BY NotEnded DEF Both!Branch
<1>3. slot \in Both!Plain
  BY DEF Both!Slots
<1>4. IsContext(interpreted) /\ interpreted = emitted /\ double \in BOOLEAN /\ pairs \in BOOLEAN
      /\ ModeKnown(mode, double, pairs)
  BY <1>2 DEF EnginesInv
<1>5. Meets(interpreted, interpreted, Both!I!Delayed(i, slot, double, pairs),
            Both!I!EmitDelayed(i, slot, mode, double, pairs), flip)
  BY <1>3, <1>4, DelayedAlike
<1>6. IsContext(interpreted') /\ IsContext(emitted') /\ Same(interpreted', emitted')
  BY <1>1, <1>4, <1>5 DEF Meets
<1>7. i.kind = "branch"
  BY DEF Both!Branches
<1>8. done' \in Seq(Both!Plain \cup Both!Branches) /\ Ended'
  BY <1>1, <1>7, LastDone
<1>9. cycles' = cycles + 2
  BY <1>1, <1>7 DEF Both!I!Cycles
<1>10. QED
  BY <1>1, <1>2, <1>6, <1>8, <1>9 DEF EnginesInv

LEMMA EnginesNext == EnginesInv /\ [Next]_vars => EnginesInv'
<1> SUFFICES ASSUME EnginesInv, [Next]_vars PROVE EnginesInv'
  OBVIOUS
<1>1. CASE UNCHANGED both
  BY <1>1 DEF both, EnginesInv, Ended
<1>2. CASE Both!First
  <2>1. ~Ended
    BY <1>2, NotEnded DEF Both!First
  <2>2. QED
    BY <1>2, <2>1, InstructionStep DEF Both!First
<1>3. CASE Both!AfterOne
  <2>1. ~Ended
    BY <1>3, NotEnded DEF Both!AfterOne
  <2>2. PICK i \in Both!Plain : Both!Instruction(i)
    BY <1>3 DEF Both!AfterOne, Both!Sensitive
  <2>3. QED
    BY <2>1, <2>2, InstructionStep
<1>4. CASE Both!Branch
  BY <1>4, BranchStep
<1>5. QED
  BY <1>1, <1>2, <1>3, <1>4 DEF Next, vars, Both!Next

\* For all values, all choices of registers, any operations in a delay slot and any after a
\* change of mode, emitted code leaves registers, target and memory as the interpreter does, and
\* counts the same cycles to the end of a block (interpreter.cpp 13-15, emit.cpp 1068-1645).
THEOREM EnginesDoTheSame == Spec => []EnginesAgree
<1>1. Init => EnginesInv
  BY EnginesInit DEF Init
<1>2. EnginesInv /\ [Next]_vars => EnginesInv'
  BY EnginesNext
<1>3. EnginesInv => EnginesAgree
  BY SameForgotten DEF EnginesInv, EnginesAgree, Both!EnginesAgree, Ended
<1>4. QED
  BY <1>1, <1>2, <1>3, PTL DEF Spec

-------------------------------------------------------------------------------
(* Running instructions. *)

Memories == [Cells -> Nat]
Writes   == [c : Cells, old : Nat, new : Nat]
Machines == [mem : Memories, x : Nat, journal : Seq(Writes), saw : BOOLEAN, device : Nat]

LEMMA ApplyTyped ==
  ASSUME NEW s \in Machines, NEW i \in Compare!Instructions
  PROVE  Compare!Apply(s, i) \in Machines
<1>1. /\ s.mem \in Memories /\ s.x \in Nat /\ s.journal \in Seq(Writes) /\ s.saw \in BOOLEAN
      /\ s.device \in Nat /\ s \in [mem : {s.mem}, x : {s.x}, journal : {s.journal}, saw : {s.saw},
                                    device : {s.device}]
  BY DEF Machines
<1>2. CASE i.k = "load"
  <2>1. i.c \in Cells /\ Compare!Apply(s, i) = [s EXCEPT !.x = s.mem[i.c]]
    BY <1>2 DEF Compare!Apply, Compare!Instructions
  <2>2. s.mem[i.c] \in Nat
    BY <1>1, <2>1 DEF Memories
  <2>3. QED
    BY <1>1, <2>1, <2>2 DEF Machines
<1>3. CASE i.k = "set"
  <2>1. i.v \in Nat /\ Compare!Apply(s, i) = [s EXCEPT !.x = i.v]
    BY <1>3 DEF Compare!Apply, Compare!Instructions
  <2>2. QED
    BY <1>1, <2>1 DEF Machines
<1>4. CASE i.k = "store"
  <2> DEFINE w == [c |-> i.c, old |-> s.mem[i.c], new |-> s.x]
             M == [s.mem EXCEPT ![i.c] = s.x]
             J == Append(s.journal, w)
  <2>1. i.c \in Cells
    BY <1>4 DEF Compare!Instructions
  <2>2. Compare!Apply(s, i) = [s EXCEPT !.mem = M, !.journal = J]
    BY <1>1, <1>4 DEF Compare!Apply, Compare!Journalled
  <2>3. w \in Writes /\ M \in Memories
    BY <1>1, <2>1 DEF Writes, Memories
  <2>4. J \in Seq(Writes)
    BY <1>1, <2>3, AppendProperties
  <2> HIDE DEF J, M
  <2>5. QED
    BY <1>1, <2>2, <2>3, <2>4 DEF Machines
<1>5. CASE i.k = "device"
  <2>1. Compare!Apply(s, i) = [s EXCEPT !.saw = @ \/ i.v # 8, !.device = @ + 1]
    BY <1>5 DEF Compare!Apply
  <2> DEFINE saw == s.saw \/ i.v # 8
             n == s.device + 1
  <2>2. Compare!Apply(s, i) = [s EXCEPT !.saw = saw, !.device = n] /\ saw \in BOOLEAN /\ n \in Nat
    BY <1>1, <2>1
  <2> HIDE DEF saw, n
  <2>3. QED
    BY <1>1, <2>2 DEF Machines
<1>6. QED
  BY <1>2, <1>3, <1>4, <1>5 DEF Compare!Instructions

\* A run by its steps.
LEMMA RunBySteps ==
  ASSUME NEW s \in Machines, NEW ops \in Seq(Compare!Instructions)
  PROVE  \E g \in [0..Len(ops) -> Machines] :
           /\ g[0] = s
           /\ \A n \in 1..Len(ops) : g[n] = Compare!Apply(g[n - 1], ops[n])
           /\ Compare!ApplyAll(s, ops) = g[Len(ops)]
<1> DEFINE L == Len(ops)
           F == [n \in 1..L |-> [z \in Machines |-> Compare!Apply(z, ops[n])]]
           D(g) == [n \in 0..L |-> IF n = 0 THEN s ELSE Compare!Apply(g[n - 1], ops[n])]
           after == CHOOSE g : g = D(g)
<1>0. L \in Nat
  BY LenProperties
<1>1. F \in Chains(L, Machines)
  BY ApplyTyped, ElementOfSeq DEF Chains
<1>2. PICK g \in [0..L -> Machines] : g[0] = s /\ \A n \in 1..L : g[n] = F[n][g[n - 1]]
  <2> HIDE DEF F, L, D, after
  <2>1. Carried(Machines, s, L, F)
    BY <1>0, <1>1, Iterates
  <2>2. QED
    BY <2>1 DEF Carried
<1>3. ASSUME NEW n \in 1..L PROVE g[n] = Compare!Apply(g[n - 1], ops[n])
  <2>1. n - 1 \in 0..L
    BY <1>0
  <2>2. g[n - 1] \in Machines
    BY <2>1
  <2>3. QED
    BY <1>2, <2>2
<1>4. g = D(g)
  <2>1. \A n \in 0..L : g[n] = D(g)[n]
    BY <1>0, <1>2, <1>3
  <2>2. QED
    BY <2>1
<1>5. after = D(after)
  <2> HIDE DEF D
  <2>1. QED
    BY <1>4
<1>6. Compare!ApplyAll(s, ops) = after[L]
  BY DEF Compare!ApplyAll
<1> HIDE DEF after
<1>7. after[0] = s /\ \A n \in 1..L : after[n] = Compare!Apply(after[n - 1], ops[n])
  BY <1>0, <1>5
<1>8. Follows(Machines, s, L, F, after)
  BY <1>7 DEF Follows
<1>9. \A n \in 0..L : after[n] \in Machines
  <2> HIDE DEF F, L, D
  <2>1. QED
    BY <1>0, <1>1, <1>8, FollowsWithin
<1>10. after \in [0..L -> Machines]
  BY <1>5, <1>9
<1>11. QED
  BY <1>6, <1>7, <1>10

\* Undoing and redoing a journal by their steps.
LEMMA UndoBySteps ==
  ASSUME NEW z \in Memories, NEW j \in Seq(Writes)
  PROVE  \E g \in [0..Len(j) -> Memories] :
           /\ g[0] = z
           /\ \A n \in 1..Len(j) : g[n] = [g[n - 1] EXCEPT ![j[Len(j) + 1 - n].c] = j[Len(j) + 1 - n].old]
           /\ Compare!Undo(z, j) = g[Len(j)]
<1> DEFINE L == Len(j)
           At(n) == j[L + 1 - n]
           F == [n \in 1..L |-> [y \in Memories |-> [y EXCEPT ![At(n).c] = At(n).old]]]
           D(g) == [n \in 0..L |-> IF n = 0 THEN z ELSE [g[n - 1] EXCEPT ![At(n).c] = At(n).old]]
           back == CHOOSE g : g = D(g)
<1>0. L \in Nat
  BY LenProperties
<1>1. F \in Chains(L, Memories)
  <2>1. ASSUME NEW n \in 1..L PROVE At(n).old \in Nat
    <3>1. L + 1 - n \in 1..Len(j)
      BY <1>0
    <3>2. At(n) \in Writes
      BY <3>1, ElementOfSeq
    <3>3. QED
      BY <3>2 DEF Writes
  <2>2. QED
    BY <2>1 DEF Chains, Memories
<1>2. PICK g \in [0..L -> Memories] : g[0] = z /\ \A n \in 1..L : g[n] = F[n][g[n - 1]]
  <2> HIDE DEF F, L, D, back
  <2>1. Carried(Memories, z, L, F)
    BY <1>0, <1>1, Iterates
  <2>2. QED
    BY <2>1 DEF Carried
<1>3. ASSUME NEW n \in 1..L PROVE g[n] = [g[n - 1] EXCEPT ![At(n).c] = At(n).old]
  <2>1. n - 1 \in 0..L
    BY <1>0
  <2>2. g[n - 1] \in Memories
    BY <2>1
  <2> HIDE DEF At
  <2>3. QED
    BY <1>2, <2>2
<1>4. g = D(g)
  <2>1. ASSUME NEW n \in 0..L PROVE g[n] = D(g)[n]
    <3> HIDE DEF At
    <3>1. CASE n = 0
      BY <1>2, <3>1
    <3>2. CASE n # 0
      <4>1. n \in 1..L
        BY <1>0, <3>2
      <4>2. QED
        BY <1>3, <3>2, <4>1
    <3>3. QED
      BY <3>1, <3>2
  <2>2. QED
    BY <2>1
<1>5. back = D(back)
  <2> HIDE DEF D
  <2>1. QED
    BY <1>4
<1>6. Compare!Undo(z, j) = back[L]
  BY DEF Compare!Undo
<1> HIDE DEF back
<1>7. /\ back[0] = z
      /\ \A n \in 1..L : back[n] = [back[n - 1] EXCEPT ![At(n).c] = At(n).old]
  <2> HIDE DEF At
  <2>1. back[0] = z
    BY <1>0, <1>5
  <2>2. ASSUME NEW n \in 1..L PROVE back[n] = [back[n - 1] EXCEPT ![At(n).c] = At(n).old]
    <3>1. n \in 0..L /\ n # 0
      BY <1>0
    <3>2. QED
      BY <1>5, <3>1
  <2>3. QED
    BY <2>1, <2>2
<1>8. Follows(Memories, z, L, F, back)
  <2> HIDE DEF At
  <2>1. QED
    BY <1>7 DEF Follows
<1>9. \A n \in 0..L : back[n] \in Memories
  <2> HIDE DEF F, L, D
  <2>1. QED
    BY <1>0, <1>1, <1>8, FollowsWithin
<1>10. back \in [0..L -> Memories]
  <2> HIDE DEF At
  <2>1. QED
    BY <1>5, <1>9
<1>11. QED
  BY <1>6, <1>7, <1>10

LEMMA RedoBySteps ==
  ASSUME NEW z \in Memories, NEW j \in Seq(Writes)
  PROVE  \E g \in [0..Len(j) -> Memories] :
           /\ g[0] = z
           /\ \A n \in 1..Len(j) : g[n] = [g[n - 1] EXCEPT ![j[n].c] = j[n].new]
           /\ Compare!Redo(z, j) = g[Len(j)]
<1> DEFINE L == Len(j)
           At(n) == j[n]
           F == [n \in 1..L |-> [y \in Memories |-> [y EXCEPT ![At(n).c] = At(n).new]]]
           D(g) == [n \in 0..L |-> IF n = 0 THEN z ELSE [g[n - 1] EXCEPT ![At(n).c] = At(n).new]]
           forth == CHOOSE g : g = D(g)
<1>0. L \in Nat
  BY LenProperties
<1>1. F \in Chains(L, Memories)
  <2>1. ASSUME NEW n \in 1..L PROVE At(n).new \in Nat
    <3>1. n \in 1..Len(j)
      BY <1>0
    <3>2. At(n) \in Writes
      BY <3>1, ElementOfSeq
    <3>3. QED
      BY <3>2 DEF Writes
  <2>2. QED
    BY <2>1 DEF Chains, Memories
<1>2. PICK g \in [0..L -> Memories] : g[0] = z /\ \A n \in 1..L : g[n] = F[n][g[n - 1]]
  <2> HIDE DEF F, L, D, forth
  <2>1. Carried(Memories, z, L, F)
    BY <1>0, <1>1, Iterates
  <2>2. QED
    BY <2>1 DEF Carried
<1>3. ASSUME NEW n \in 1..L PROVE g[n] = [g[n - 1] EXCEPT ![At(n).c] = At(n).new]
  <2>1. n - 1 \in 0..L
    BY <1>0
  <2>2. g[n - 1] \in Memories
    BY <2>1
  <2> HIDE DEF At
  <2>3. QED
    BY <1>2, <2>2
<1>4. g = D(g)
  <2>1. ASSUME NEW n \in 0..L PROVE g[n] = D(g)[n]
    <3> HIDE DEF At
    <3>1. CASE n = 0
      BY <1>2, <3>1
    <3>2. CASE n # 0
      <4>1. n \in 1..L
        BY <1>0, <3>2
      <4>2. QED
        BY <1>3, <3>2, <4>1
    <3>3. QED
      BY <3>1, <3>2
  <2>2. QED
    BY <2>1
<1>5. forth = D(forth)
  <2> HIDE DEF D
  <2>1. QED
    BY <1>4
<1>6. Compare!Redo(z, j) = forth[L]
  BY DEF Compare!Redo
<1> HIDE DEF forth
<1>7. /\ forth[0] = z
      /\ \A n \in 1..L : forth[n] = [forth[n - 1] EXCEPT ![At(n).c] = At(n).new]
  <2> HIDE DEF At
  <2>1. forth[0] = z
    BY <1>0, <1>5
  <2>2. ASSUME NEW n \in 1..L PROVE forth[n] = [forth[n - 1] EXCEPT ![At(n).c] = At(n).new]
    <3>1. n \in 0..L /\ n # 0
      BY <1>0
    <3>2. QED
      BY <1>5, <3>1
  <2>3. QED
    BY <2>1, <2>2
<1>8. Follows(Memories, z, L, F, forth)
  <2> HIDE DEF At
  <2>1. QED
    BY <1>7 DEF Follows
<1>9. \A n \in 0..L : forth[n] \in Memories
  <2> HIDE DEF F, L, D
  <2>1. QED
    BY <1>0, <1>1, <1>8, FollowsWithin
<1>10. forth \in [0..L -> Memories]
  <2> HIDE DEF At
  <2>1. QED
    BY <1>5, <1>9
<1>11. QED
  BY <1>6, <1>7, <1>10

-------------------------------------------------------------------------------
(* One instruction, one write more. *)

LEMMA Appended ==
  ASSUME NEW S, NEW seq \in Seq(S), NEW e \in S
  PROVE  /\ Len(seq) \in Nat /\ Append(seq, e) \in Seq(S) /\ Len(Append(seq, e)) = Len(seq) + 1
         /\ \A n \in 1..Len(seq) : Append(seq, e)[n] = seq[n]
         /\ Append(seq, e)[Len(seq) + 1] = e
  BY AppendProperties, LenProperties

LEMMA RunOneMore ==
  ASSUME NEW s \in Machines, NEW ops \in Seq(Compare!Instructions), NEW i \in Compare!Instructions
  PROVE  Compare!ApplyAll(s, Append(ops, i)) = Compare!Apply(Compare!ApplyAll(s, ops), i)
<1> DEFINE L == Len(ops)
           more == Append(ops, i)
<1>1. /\ more \in Seq(Compare!Instructions) /\ L \in Nat /\ Len(more) = L + 1
      /\ \A n \in 1..L : more[n] = ops[n]
      /\ more[L + 1] = i
  BY Appended
<1> HIDE DEF more
<1>2. PICK g \in [0..L -> Machines] :
        /\ g[0] = s /\ \A n \in 1..L : g[n] = Compare!Apply(g[n - 1], ops[n])
        /\ Compare!ApplyAll(s, ops) = g[L]
  BY RunBySteps
<1>3. PICK h \in [0..(L + 1) -> Machines] :
        /\ h[0] = s /\ \A n \in 1..(L + 1) : h[n] = Compare!Apply(h[n - 1], more[n])
        /\ Compare!ApplyAll(s, more) = h[L + 1]
  <2>1. \E h \in [0..Len(more) -> Machines] :
          /\ h[0] = s /\ \A n \in 1..Len(more) : h[n] = Compare!Apply(h[n - 1], more[n])
          /\ Compare!ApplyAll(s, more) = h[Len(more)]
    BY <1>1, RunBySteps
  <2>2. QED
    BY <1>1, <2>1
<1> DEFINE S == {n \in Nat : n <= L => h[n] = g[n]}
<1>4. 0 \in S
  BY <1>2, <1>3
<1>5. ASSUME NEW n \in Nat, n \in S PROVE n + 1 \in S
  <2>1. SUFFICES ASSUME n + 1 <= L PROVE h[n + 1] = g[n + 1]
    OBVIOUS
  <2>2. n + 1 \in 1..L /\ n + 1 \in 1..(L + 1) /\ (n + 1) - 1 = n /\ h[n] = g[n]
    BY <1>1, <1>5, <2>1
  <2>3. h[n + 1] = Compare!Apply(h[n], more[n + 1])
    BY <1>3, <2>2
  <2>4. g[n + 1] = Compare!Apply(g[n], ops[n + 1])
    BY <1>2, <2>2
  <2>5. QED
    BY <1>1, <2>2, <2>3, <2>4
<1>6. Nat \subseteq S
  <2> HIDE DEF S
  <2>1. QED
    BY <1>4, <1>5, SetInduction
<1>7. h[L] = g[L]
  BY <1>1, <1>6
<1>8. h[L + 1] = Compare!Apply(h[L], more[L + 1])
  <2>1. L + 1 \in 1..(L + 1) /\ (L + 1) - 1 = L
    BY <1>1
  <2>2. QED
    BY <1>3, <2>1
<1>9. QED
  BY <1>1, <1>2, <1>3, <1>7, <1>8 DEF more

\* The newest write is the first to be undone, and the last to be redone.
LEMMA UndoOneMore ==
  ASSUME NEW z \in Memories, NEW j \in Seq(Writes), NEW w \in Writes
  PROVE  Compare!Undo(z, Append(j, w)) = Compare!Undo([z EXCEPT ![w.c] = w.old], j)
<1> DEFINE L == Len(j)
           more == Append(j, w)
           y == [z EXCEPT ![w.c] = w.old]
<1>1. /\ more \in Seq(Writes) /\ L \in Nat /\ Len(more) = L + 1
      /\ \A n \in 1..L : more[n] = j[n]
      /\ more[L + 1] = w
  BY Appended
<1>2. y \in Memories
  BY DEF Memories, Writes
<1> HIDE DEF more
<1>3. PICK g \in [0..L -> Memories] :
        /\ g[0] = y /\ \A n \in 1..L : g[n] = [g[n - 1] EXCEPT ![j[L + 1 - n].c] = j[L + 1 - n].old]
        /\ Compare!Undo(y, j) = g[L]
  <2> HIDE DEF y
  <2>1. \E g \in [0..Len(j) -> Memories] :
          /\ g[0] = y
          /\ \A n \in 1..Len(j) : g[n] = [g[n - 1] EXCEPT ![j[Len(j) + 1 - n].c] = j[Len(j) + 1 - n].old]
          /\ Compare!Undo(y, j) = g[Len(j)]
    BY <1>2, UndoBySteps
  <2>2. QED
    BY <2>1
<1>4. PICK h \in [0..(L + 1) -> Memories] :
        /\ h[0] = z
        /\ \A n \in 1..(L + 1) : h[n] = [h[n - 1] EXCEPT ![more[L + 1 + 1 - n].c] = more[L + 1 + 1 - n].old]
        /\ Compare!Undo(z, more) = h[L + 1]
  <2>1. \E h \in [0..Len(more) -> Memories] :
          /\ h[0] = z
          /\ \A n \in 1..Len(more) :
               h[n] = [h[n - 1] EXCEPT ![more[Len(more) + 1 - n].c] = more[Len(more) + 1 - n].old]
          /\ Compare!Undo(z, more) = h[Len(more)]
    BY <1>1, UndoBySteps
  <2>2. QED
    BY <1>1, <2>1
<1> DEFINE S == {n \in Nat : n <= L => h[n + 1] = g[n]}
<1>5. 0 \in S
  <2>1. 1 \in 1..(L + 1) /\ L + 1 + 1 - 1 = L + 1 /\ 1 - 1 = 0
    BY <1>1
  <2>2. h[1] = [z EXCEPT ![w.c] = w.old]
    BY <1>1, <1>4, <2>1
  <2>3. QED
    BY <1>3, <2>2
<1>6. ASSUME NEW n \in Nat, n \in S PROVE n + 1 \in S
  <2>1. SUFFICES ASSUME n + 1 <= L PROVE h[n + 1 + 1] = g[n + 1]
    OBVIOUS
  <2> DEFINE k == L - n
  <2>2. /\ n + 1 \in 1..L /\ n + 1 + 1 \in 1..(L + 1) /\ (n + 1) - 1 = n /\ (n + 1 + 1) - 1 = n + 1
        /\ L + 1 - (n + 1) = k /\ L + 1 + 1 - (n + 1 + 1) = k /\ k \in 1..L /\ h[n + 1] = g[n]
    BY <1>1, <1>6, <2>1
  <2> HIDE DEF k
  <2>3. h[n + 1 + 1] = [h[n + 1] EXCEPT ![more[k].c] = more[k].old]
    BY <1>4, <2>2
  <2>4. g[n + 1] = [g[n] EXCEPT ![j[k].c] = j[k].old]
    BY <1>3, <2>2
  <2>5. QED
    BY <1>1, <2>2, <2>3, <2>4
<1>7. Nat \subseteq S
  <2> HIDE DEF S
  <2>1. QED
    BY <1>5, <1>6, SetInduction
<1>8. QED
  BY <1>1, <1>3, <1>4, <1>7 DEF more

LEMMA RedoOneMore ==
  ASSUME NEW z \in Memories, NEW j \in Seq(Writes), NEW w \in Writes
  PROVE  Compare!Redo(z, Append(j, w)) = [Compare!Redo(z, j) EXCEPT ![w.c] = w.new]
<1> DEFINE L == Len(j)
           more == Append(j, w)
<1>1. /\ more \in Seq(Writes) /\ L \in Nat /\ Len(more) = L + 1
      /\ \A n \in 1..L : more[n] = j[n]
      /\ more[L + 1] = w
  BY Appended
<1> HIDE DEF more
<1>2. PICK g \in [0..L -> Memories] :
        /\ g[0] = z /\ \A n \in 1..L : g[n] = [g[n - 1] EXCEPT ![j[n].c] = j[n].new]
        /\ Compare!Redo(z, j) = g[L]
  BY RedoBySteps
<1>3. PICK h \in [0..(L + 1) -> Memories] :
        /\ h[0] = z /\ \A n \in 1..(L + 1) : h[n] = [h[n - 1] EXCEPT ![more[n].c] = more[n].new]
        /\ Compare!Redo(z, more) = h[L + 1]
  BY <1>1, RedoBySteps
<1> DEFINE S == {n \in Nat : n <= L => h[n] = g[n]}
<1>4. 0 \in S
  BY <1>2, <1>3
<1>5. ASSUME NEW n \in Nat, n \in S PROVE n + 1 \in S
  <2>1. SUFFICES ASSUME n + 1 <= L PROVE h[n + 1] = g[n + 1]
    OBVIOUS
  <2>2. n + 1 \in 1..L /\ n + 1 \in 1..(L + 1) /\ (n + 1) - 1 = n /\ h[n] = g[n]
    BY <1>1, <1>5, <2>1
  <2>3. h[n + 1] = [h[n] EXCEPT ![more[n + 1].c] = more[n + 1].new]
    BY <1>3, <2>2
  <2>4. g[n + 1] = [g[n] EXCEPT ![j[n + 1].c] = j[n + 1].new]
    BY <1>2, <2>2
  <2>5. QED
    BY <1>1, <2>2, <2>3, <2>4
<1>6. Nat \subseteq S
  <2> HIDE DEF S
  <2>1. QED
    BY <1>4, <1>5, SetInduction
<1>7. h[L] = g[L]
  BY <1>1, <1>6
<1>8. h[L + 1] = [h[L] EXCEPT ![more[L + 1].c] = more[L + 1].new]
  <2>1. L + 1 \in 1..(L + 1) /\ (L + 1) - 1 = L
    BY <1>1
  <2>2. QED
    BY <1>3, <2>1
<1>9. QED
  BY <1>1, <1>2, <1>3, <1>7, <1>8 DEF more

LEMMA NothingDone ==
  /\ \A s \in Machines : Compare!ApplyAll(s, <<>>) = s
  /\ \A z \in Memories : Compare!Undo(z, <<>>) = z /\ Compare!Redo(z, <<>>) = z
<1> DEFINE none == <<>>
<1>0. none \in Seq(Compare!Instructions) /\ none \in Seq(Writes)
  OBVIOUS
<1>1. Len(none) = 0
  OBVIOUS
<1> HIDE DEF none
<1>2. ASSUME NEW s \in Machines PROVE Compare!ApplyAll(s, none) = s
  <2>1. \E g \in [0..Len(none) -> Machines] : g[0] = s /\ Compare!ApplyAll(s, none) = g[Len(none)]
    BY <1>0, RunBySteps
  <2>2. QED
    BY <1>1, <2>1
<1>3. ASSUME NEW z \in Memories PROVE Compare!Undo(z, none) = z /\ Compare!Redo(z, none) = z
  <2>1. PICK g \in [0..Len(none) -> Memories] :
          /\ g[0] = z
          /\ \A n \in 1..Len(none) :
               g[n] = [g[n - 1] EXCEPT ![none[Len(none) + 1 - n].c] = none[Len(none) + 1 - n].old]
          /\ Compare!Undo(z, none) = g[Len(none)]
    BY <1>0, UndoBySteps
  <2>2. PICK h \in [0..Len(none) -> Memories] :
          /\ h[0] = z
          /\ \A n \in 1..Len(none) : h[n] = [h[n - 1] EXCEPT ![none[n].c] = none[n].new]
          /\ Compare!Redo(z, none) = h[Len(none)]
    BY <1>0, RedoBySteps
  <2>3. QED
    BY <1>1, <2>1, <2>2
<1>4. QED
  BY <1>2, <1>3 DEF none

\* A write with its entry in the journal can be undone, and redone.
LEMMA WriteRollsBack ==
  ASSUME NEW z \in Memories, NEW j \in Seq(Writes), NEW cell \in Cells, NEW v \in Nat
  PROVE  LET z2 == [z EXCEPT ![cell] = v]
             j2 == Append(j, [c |-> cell, old |-> z[cell], new |-> v]) IN
         /\ z2 \in Memories /\ j2 \in Seq(Writes)
         /\ Compare!Undo(z2, j2) = Compare!Undo(z, j)
         /\ Compare!Redo(Compare!Undo(z, j), j) = z => Compare!Redo(Compare!Undo(z2, j2), j2) = z2
<1> DEFINE w == [c |-> cell, old |-> z[cell], new |-> v]
           z2 == [z EXCEPT ![cell] = v]
           j2 == Append(j, w)
           u == Compare!Undo(z, j)
<1>1. w \in Writes /\ z2 \in Memories /\ w.c = cell /\ w.old = z[cell] /\ w.new = v
  BY DEF Writes, Memories
<1>2. [z2 EXCEPT ![w.c] = w.old] = z
  BY <1>1 DEF Memories
<1>3. [z EXCEPT ![w.c] = w.new] = z2
  BY <1>1
<1>4. u \in Memories
  <2>1. Len(j) \in Nat
    BY LenProperties
  <2>2. QED
    BY <2>1, UndoBySteps
<1> HIDE DEF w, z2, u
<1>5. j2 \in Seq(Writes)
  BY <1>1, Appended
<1>6. Compare!Undo(z2, j2) = u
  BY <1>1, <1>2, UndoOneMore DEF u
<1>7. Compare!Redo(u, j) = z => Compare!Redo(u, j2) = z2
  BY <1>1, <1>3, <1>4, RedoOneMore
<1> HIDE DEF j2
<1>8. /\ z2 \in Memories /\ j2 \in Seq(Writes) /\ Compare!Undo(z2, j2) = u
      /\ Compare!Redo(u, j) = z => Compare!Redo(Compare!Undo(z2, j2), j2) = z2
  BY <1>1, <1>5, <1>6, <1>7
<1>9. QED
  BY <1>8 DEF w, z2, j2, u

\* So can an instruction.
LEMMA ApplyRollsBack ==
  ASSUME NEW s \in Machines, NEW i \in Compare!Instructions
  PROVE  LET r == Compare!Apply(s, i) IN
         /\ Compare!Undo(r.mem, r.journal) = Compare!Undo(s.mem, s.journal)
         /\ Compare!Redo(Compare!Undo(s.mem, s.journal), s.journal) = s.mem =>
              Compare!Redo(Compare!Undo(r.mem, r.journal), r.journal) = r.mem
         /\ i.k # "device" => r.device = s.device
<1>1. /\ s.mem \in Memories /\ s.x \in Nat /\ s.journal \in Seq(Writes)
      /\ s \in [mem : {s.mem}, x : {s.x}, journal : {s.journal}, saw : {s.saw}, device : {s.device}]
  BY DEF Machines
<1> DEFINE r == Compare!Apply(s, i)
<1>2. CASE i.k = "store"
  <2> DEFINE z2 == [s.mem EXCEPT ![i.c] = s.x]
             j2 == Append(s.journal, [c |-> i.c, old |-> s.mem[i.c], new |-> s.x])
  <2>1. i.c \in Cells
    BY <1>2 DEF Compare!Instructions
  <2>2. r = [s EXCEPT !.mem = z2, !.journal = j2]
    BY <1>1, <1>2 DEF Compare!Apply, Compare!Journalled
  <2>3. /\ Compare!Undo(z2, j2) = Compare!Undo(s.mem, s.journal)
        /\ Compare!Redo(Compare!Undo(s.mem, s.journal), s.journal) = s.mem =>
             Compare!Redo(Compare!Undo(z2, j2), j2) = z2
    BY <1>1, <2>1, WriteRollsBack
  <2> HIDE DEF z2, j2
  <2>4. r.mem = z2 /\ r.journal = j2 /\ r.device = s.device
    BY <1>1, <2>2
  <2>5. QED
    BY <2>3, <2>4
<1>3. CASE i.k # "store"
  <2>1. r.mem = s.mem /\ r.journal = s.journal /\ (i.k # "device" => r.device = s.device)
    BY <1>1, <1>3 DEF Compare!Apply, Compare!Instructions
  <2>2. QED
    BY <2>1
<1>4. QED
  BY <1>2, <1>3

\* What the interpreter has written is undone, and it reaches a device only by an instruction that
\* does.
LEMMA RunRollsBack ==
  ASSUME NEW s \in Machines, NEW ops \in Seq(Compare!Instructions)
  PROVE  LET r == Compare!ApplyAll(s, ops) IN
         /\ r \in Machines
         /\ Compare!Undo(r.mem, r.journal) = Compare!Undo(s.mem, s.journal)
         /\ (\A n \in 1..Len(ops) : ops[n].k # "device") => r.device = s.device
<1>1. Len(ops) \in Nat /\ \A n \in 1..Len(ops) : ops[n] \in Compare!Instructions
  BY LenProperties, ElementOfSeq
<1>2. PICK g \in [0..Len(ops) -> Machines] :
        /\ g[0] = s /\ \A n \in 1..Len(ops) : g[n] = Compare!Apply(g[n - 1], ops[n])
        /\ Compare!ApplyAll(s, ops) = g[Len(ops)]
  BY RunBySteps
<1> DEFINE u == Compare!Undo(s.mem, s.journal)
           Quiet == \A n \in 1..Len(ops) : ops[n].k # "device"
           Kept(z) == Compare!Undo(z.mem, z.journal) = u /\ (Quiet => z.device = s.device)
           S == {n \in Nat : n <= Len(ops) => Kept(g[n])}
<1>3. 0 \in S
  BY <1>2
<1>4. ASSUME NEW n \in Nat, n \in S PROVE n + 1 \in S
  <2>1. SUFFICES ASSUME n + 1 <= Len(ops) PROVE Kept(g[n + 1])
    OBVIOUS
  <2>2. /\ n + 1 \in 1..Len(ops) /\ (n + 1) - 1 = n /\ n \in 0..Len(ops) /\ Kept(g[n])
    BY <1>1, <1>4, <2>1
  <2>3. g[n + 1] = Compare!Apply(g[n], ops[n + 1]) /\ g[n] \in Machines
    BY <1>2, <2>2
  <2>4. ops[n + 1] \in Compare!Instructions /\ (Quiet => ops[n + 1].k # "device")
    BY <1>1, <2>2
  <2>5. /\ Compare!Undo(g[n + 1].mem, g[n + 1].journal) = Compare!Undo(g[n].mem, g[n].journal)
        /\ ops[n + 1].k # "device" => g[n + 1].device = g[n].device
    BY <2>3, <2>4, ApplyRollsBack
  <2> HIDE DEF u, Quiet
  <2>6. QED
    BY <2>2, <2>4, <2>5
<1>5. Nat \subseteq S
  <2> HIDE DEF S
  <2>1. QED
    BY <1>3, <1>4, SetInduction
<1>6. Kept(g[Len(ops)]) /\ g[Len(ops)] \in Machines
  BY <1>1, <1>5
<1>7. QED
  BY <1>2, <1>6

\* What an instruction does to memory, register, journal and devices depends on nothing else.
LEMMA ApplyAlike ==
  ASSUME NEW s \in Machines, NEW r \in Machines, NEW i \in Compare!Instructions,
         s.mem = r.mem, s.x = r.x
  PROVE  LET s2 == Compare!Apply(s, i)
             r2 == Compare!Apply(r, i) IN
         /\ s2.mem = r2.mem /\ s2.x = r2.x
         /\ s.journal = r.journal => s2.journal = r2.journal
         /\ s.device = r.device => s2.device = r2.device
<1>1. /\ s \in [mem : {s.mem}, x : {s.x}, journal : {s.journal}, saw : {s.saw}, device : {s.device}]
      /\ r \in [mem : {r.mem}, x : {r.x}, journal : {r.journal}, saw : {r.saw}, device : {r.device}]
  BY DEF Machines
<1>2. CASE i.k = "load"
  BY <1>1, <1>2 DEF Compare!Apply
<1>3. CASE i.k = "set"
  BY <1>1, <1>3 DEF Compare!Apply
<1>4. CASE i.k = "store"
  BY <1>1, <1>4 DEF Compare!Apply, Compare!Journalled
<1>5. CASE i.k = "device"
  BY <1>1, <1>5 DEF Compare!Apply
<1>6. QED
  BY <1>2, <1>3, <1>4, <1>5 DEF Compare!Instructions

-------------------------------------------------------------------------------
(* The invariant of the comparison. *)

None  == Compare!None
Calls == [f : Functions, site : Sites, ops : Seq(Compare!Instructions)]

Typed ==
  /\ mem \in Memories /\ plainMem \in Memories /\ x \in Nat /\ plainX \in Nat
  /\ device \in Nat /\ plainDevice \in Nat /\ alarms \in Nat
  /\ frames \in Seq(Calls)
  /\ active \in Functions \cup {None} /\ (journaling <=> active # None)
  /\ entry.x \in Nat /\ entry.interrupts \in Nat /\ interrupts \in Nat
  /\ entry.interrupts <= interrupts
  /\ journal \in Seq(Writes) /\ journaling \in BOOLEAN /\ sawDevice \in BOOLEAN

\* Memory at the entry of the call under comparison.
Before == Compare!Undo(mem, journal)

\* The journal tells that memory from the memory now, unless something was written past it.
RollsBack ==
  "sector" \notin escaped =>
    /\ mem = plainMem /\ x = plainX
    /\ journaling => Compare!Redo(Before, journal) = mem

\* Call n is the one under comparison, and no call above it is of the same function.
Compared(n) == frames[n].f = active /\ \A k \in (n + 1)..Len(frames) : frames[k].f # active

\* While no device has been seen, the call's instructions reach none.
Quiet(n) ==
  ~sawDevice /\ "wide" \notin voided =>
    \A k \in 1..Len(frames[n].ops) : frames[n].ops[k].k # "device"

\* While nothing has come between, the interpreter would now be where the program is.
Start(d) == [mem |-> Before, x |-> entry.x, journal |-> <<>>, saw |-> FALSE, device |-> d]
Reaches(r) == r.mem = mem /\ r.x = x /\ r.journal = journal
Alike(n) ==
  voided = {} /\ entry.interrupts = interrupts =>
    \A d \in Nat : Reaches(Compare!ApplyAll(Start(d), frames[n].ops))

UnderComparison ==
  active # None /\ voided \cap {"unwound", "recursive"} = {} =>
    \E n \in 1..Len(frames) : Compared(n) /\ Quiet(n) /\ Alike(n)

DevicesOnce ==
  /\ "wide" \in voided => "wide" \in escaped
  /\ escaped = {} => device = plainDevice

Inv == Typed /\ RollsBack /\ UnderComparison /\ DevicesOnce

LEMMA BeforeTyped == ASSUME Typed PROVE /\ Before \in Memories
                                        /\ Compare!Redo(Before, journal) \in Memories
                                        /\ \A d \in Nat : Start(d) \in Machines
<1>1. mem \in Memories /\ journal \in Seq(Writes) /\ Len(journal) \in Nat
  BY LenProperties DEF Typed
<1>2. Before \in Memories
  <2>1. PICK g \in [0..Len(journal) -> Memories] : Compare!Undo(mem, journal) = g[Len(journal)]
    BY <1>1, UndoBySteps
  <2>2. Compare!Undo(mem, journal) \in Memories
    BY <1>1, <2>1
  <2>3. QED
    BY <2>2 DEF Before
<1>3. Compare!Redo(Before, journal) \in Memories
  <2>1. PICK g \in [0..Len(journal) -> Memories] :
          Compare!Redo(Before, journal) = g[Len(journal)]
    BY <1>1, <1>2, RedoBySteps
  <2>2. QED
    BY <1>1, <2>1
<1>4. \A d \in Nat : Start(d) \in Machines
  BY <1>2 DEF Typed, Start, Machines
<1>5. QED
  BY <1>2, <1>3, <1>4

LEMMA InitInv == Init => Inv
<1> SUFFICES ASSUME Init PROVE Inv
  OBVIOUS
<1>1. Compare!Init
  BY DEF Init
<1>2. Typed
  <2>1. mem \in Memories /\ plainMem \in Memories
    BY <1>1 DEF Compare!Init, Memories
  <2>2. frames \in Seq(Calls) /\ journal \in Seq(Writes)
    BY <1>1 DEF Compare!Init
  <2>3. entry.x = 0 /\ entry.interrupts = 0
    BY <1>1 DEF Compare!Init
  <2>4. /\ x = 0 /\ plainX = 0 /\ device = 0 /\ plainDevice = 0 /\ alarms = 0 /\ interrupts = 0
        /\ active = None /\ journaling = FALSE /\ sawDevice = FALSE
    BY <1>1 DEF Compare!Init, None
  <2>5. journaling \in BOOLEAN /\ sawDevice \in BOOLEAN /\ (journaling <=> active # None)
    BY <2>4
  <2>6. /\ x \in Nat /\ plainX \in Nat /\ device \in Nat /\ plainDevice \in Nat /\ alarms \in Nat
        /\ entry.x \in Nat /\ entry.interrupts \in Nat /\ interrupts \in Nat
        /\ entry.interrupts <= interrupts /\ active \in Functions \cup {None}
    BY <2>3, <2>4
  <2>7. QED
    BY <2>1, <2>2, <2>5, <2>6 DEF Typed
<1>3. RollsBack /\ UnderComparison /\ DevicesOnce
  BY <1>1 DEF Compare!Init, RollsBack, UnderComparison, DevicesOnce, None
<1>4. QED
  BY <1>2, <1>3 DEF Inv

-------------------------------------------------------------------------------
(* The steps. *)

LEMMA FrameFacts ==
  ASSUME Typed
  PROVE  /\ Len(frames) \in Nat /\ DOMAIN frames = 1..Len(frames)
         /\ \A n \in 1..Len(frames) : /\ frames[n] \in Calls
                                       /\ frames[n].ops \in Seq(Compare!Instructions)
                                       /\ frames[n].f \in Functions
<1>1. frames \in Seq(Calls)
  BY DEF Typed
<1>2. Len(frames) \in Nat /\ DOMAIN frames = 1..Len(frames)
  BY <1>1, LenProperties
<1>3. \A n \in 1..Len(frames) : frames[n] \in Calls
  BY <1>1, ElementOfSeq
<1>4. QED
  BY <1>2, <1>3 DEF Calls

LEMMA UnwindStep == ASSUME Inv, Compare!Unwind PROVE Inv'
<1> USE DEF Inv
<1>1. PICK n \in 0..(Len(frames) - 1) :
        /\ frames' = SubSeq(frames, 1, n)
        /\ voided' = voided \cup {"unwound"}
        /\ UNCHANGED <<mem, x, active, entry, journal, journaling, sawDevice, interrupts, alarms,
                       device, plainMem, plainX, plainDevice, escaped>>
  BY DEF Compare!Unwind
<1>2. frames' \in Seq(Calls)
  BY <1>1, FrameFacts, SubSeqProperties DEF Typed
<1>3. Typed'
  BY <1>1, <1>2 DEF Typed
<1>4. RollsBack'
  BY <1>1 DEF RollsBack, Before
<1>5. UnderComparison'
  BY <1>1 DEF UnderComparison
<1>6. DevicesOnce'
  BY <1>1 DEF DevicesOnce
<1>7. QED
  BY <1>3, <1>4, <1>5, <1>6

\* A step that leaves the calls and the comparison alone, and spoils likeness.
LEMMA SectorStep == ASSUME Inv, Compare!Sector PROVE Inv'
<1> USE DEF Inv
<1>1. PICK cell \in Cells :
        /\ mem' = [mem EXCEPT ![cell] = 7] /\ plainMem' = [plainMem EXCEPT ![cell] = 7]
        /\ voided' = voided \cup {"sector"} /\ escaped' = escaped \cup {"sector"}
        /\ UNCHANGED <<x, frames, active, entry, journal, journaling, sawDevice, interrupts, alarms,
                       device, plainX, plainDevice>>
  BY DEF Compare!Sector
<1>2. mem' \in Memories /\ plainMem' \in Memories
  BY <1>1 DEF Typed, Memories
<1>3. Typed'
  BY <1>1, <1>2 DEF Typed
<1>4. RollsBack'
  BY <1>1 DEF RollsBack
<1>5. UnderComparison'
  <2>1. SUFFICES ASSUME active # None, voided \cap {"unwound", "recursive"} = {}
                 PROVE  \E n \in 1..Len(frames) : Compared(n)' /\ Quiet(n)' /\ Alike(n)'
    BY <1>1 DEF UnderComparison
  <2>2. PICK n \in 1..Len(frames) : Compared(n) /\ Quiet(n)
    BY <2>1 DEF UnderComparison
  <2>3. Compared(n)' /\ Quiet(n)' /\ Alike(n)'
    BY <1>1, <2>2 DEF Compared, Quiet, Alike
  <2>4. QED
    BY <2>3
<1>6. DevicesOnce'
  BY <1>1 DEF DevicesOnce
<1>7. QED
  BY <1>3, <1>4, <1>5, <1>6

LEMMA InterruptStep == ASSUME Inv, Compare!Interrupt PROVE Inv'
<1> USE DEF Inv
<1>1. PICK cell \in Cells :
        /\ interrupts' = interrupts + 1
        /\ mem' = [mem EXCEPT ![cell] = 5] /\ plainMem' = [plainMem EXCEPT ![cell] = 5]
        /\ journal' = IF journaling
                      THEN Append(journal, [c |-> cell, old |-> mem[cell], new |-> 5]) ELSE journal
        /\ UNCHANGED <<x, frames, active, entry, journaling, sawDevice, alarms, device, plainX,
                       plainDevice, voided, escaped>>
  BY DEF Compare!Interrupt
<1> DEFINE mem2 == [mem EXCEPT ![cell] = 5]
           journal2 == Append(journal, [c |-> cell, old |-> mem[cell], new |-> 5])
<1>2. /\ mem2 \in Memories /\ journal2 \in Seq(Writes)
      /\ Compare!Redo(Before, journal) = mem =>
           Compare!Redo(Compare!Undo(mem2, journal2), journal2) = mem2
  <2>1. mem \in Memories /\ journal \in Seq(Writes) /\ 5 \in Nat
    BY DEF Typed
  <2>2. QED
    BY <2>1, WriteRollsBack DEF Before
<1>3. plainMem' \in Memories
  BY <1>1 DEF Typed, Memories
<1>4. Typed'
  <2>1. mem' \in Memories /\ journal' \in Seq(Writes)
    BY <1>1, <1>2 DEF Typed
  <2>2. interrupts' \in Nat /\ entry.interrupts <= interrupts'
    BY <1>1 DEF Typed
  <2> HIDE DEF mem2, journal2
  <2>3. QED
    BY <1>1, <1>3, <2>1, <2>2 DEF Typed
<1>5. RollsBack'
  <2>1. journaling => Before' = Compare!Undo(mem2, journal2) /\ journal' = journal2 /\ mem' = mem2
    BY <1>1 DEF Before
  <2> HIDE DEF mem2, journal2
  <2>2. QED
    BY <1>1, <1>2, <2>1 DEF RollsBack, Typed
<1>6. UnderComparison'
  <2>1. SUFFICES ASSUME active # None, voided \cap {"unwound", "recursive"} = {}
                 PROVE  \E n \in 1..Len(frames) : Compared(n)' /\ Quiet(n)' /\ Alike(n)'
    BY <1>1 DEF UnderComparison
  <2>2. PICK n \in 1..Len(frames) : Compared(n) /\ Quiet(n)
    BY <2>1 DEF UnderComparison
  <2>3. entry'.interrupts # interrupts'
    BY <1>1 DEF Typed
  <2>4. Compared(n)' /\ Quiet(n)' /\ Alike(n)'
    BY <1>1, <2>2, <2>3 DEF Compared, Quiet, Alike
  <2>5. QED
    BY <2>4
<1>7. DevicesOnce'
  BY <1>1 DEF DevicesOnce
<1>8. QED
  BY <1>4, <1>5, <1>6, <1>7

\* A comparison begins with the memory and registers of now; an inner call leaves the one in
\* progress alone.
LEMMA EnterStep == ASSUME Inv, Compare!Enter PROVE Inv'
<1> USE DEF Inv
<1>1. PICK f \in Functions, site \in Sites, start \in BOOLEAN, abandon \in BOOLEAN :
        /\ frames' = Append(frames, [f |-> f, site |-> site, ops |-> <<>>])
        /\ active' = IF start THEN f ELSE IF abandon THEN None ELSE active
        /\ entry' = IF start THEN [x |-> x, pr |-> site, interrupts |-> interrupts] ELSE entry
        /\ journal' = IF start \/ abandon THEN <<>> ELSE journal
        /\ journaling' = IF start THEN TRUE ELSE IF abandon THEN FALSE ELSE journaling
        /\ sawDevice' = IF start THEN FALSE ELSE sawDevice
        /\ voided' = IF start THEN {} ELSE voided \cup (IF active = f THEN {"recursive"} ELSE {})
        /\ UNCHANGED <<mem, x, interrupts, alarms, device, plainMem, plainX, plainDevice, escaped>>
  <2>1. PICK f \in Functions, site \in Sites :
          /\ frames' = Append(frames, [f |-> f, site |-> site, ops |-> <<>>])
          /\ LET abandon == active # None /\ Len(journal) > JournalLimit
                 idle == active = None \/ abandon
                 lost == IF abandon THEN tooLong \cup {active} ELSE tooLong
                 start == idle /\ f \notin lost IN
             /\ active' = IF start THEN f ELSE IF abandon THEN None ELSE active
             /\ entry' = IF start THEN [x |-> x, pr |-> site, interrupts |-> interrupts] ELSE entry
             /\ journal' = IF start \/ abandon THEN <<>> ELSE journal
             /\ journaling' = IF start THEN TRUE ELSE IF abandon THEN FALSE ELSE journaling
             /\ sawDevice' = IF start THEN FALSE ELSE sawDevice
             /\ voided' = IF start THEN {} ELSE voided \cup (IF active = f THEN {"recursive"} ELSE {})
          /\ UNCHANGED <<mem, x, interrupts, alarms, device, plainMem, plainX, plainDevice, escaped>>
    BY DEF Compare!Enter, None
  <2> DEFINE abandon == active # None /\ Len(journal) > JournalLimit
             start == (active = None \/ abandon)
                      /\ f \notin IF abandon THEN tooLong \cup {active} ELSE tooLong
  <2>2. abandon \in BOOLEAN /\ start \in BOOLEAN
    OBVIOUS
  <2>3. /\ active' = IF start THEN f ELSE IF abandon THEN None ELSE active
        /\ entry' = IF start THEN [x |-> x, pr |-> site, interrupts |-> interrupts] ELSE entry
        /\ journal' = IF start \/ abandon THEN <<>> ELSE journal
        /\ journaling' = IF start THEN TRUE ELSE IF abandon THEN FALSE ELSE journaling
        /\ sawDevice' = IF start THEN FALSE ELSE sawDevice
        /\ voided' = IF start THEN {} ELSE voided \cup (IF active = f THEN {"recursive"} ELSE {})
    BY <2>1
  <2> HIDE DEF abandon, start
  <2>4. QED
    BY <2>1, <2>2, <2>3
<1> DEFINE call == [f |-> f, site |-> site, ops |-> <<>>]
<1>2. call \in Calls /\ call.f = f /\ call.ops = <<>>
  BY DEF Calls
<1> HIDE DEF call
<1>3. /\ frames' \in Seq(Calls) /\ Len(frames) \in Nat /\ Len(frames') = Len(frames) + 1
      /\ \A n \in 1..Len(frames) : frames'[n] = frames[n]
      /\ frames'[Len(frames) + 1] = call
  <2>1. frames \in Seq(Calls) /\ frames' = Append(frames, call)
    BY <1>1 DEF Typed, call
  <2>2. QED
    BY <1>2, <2>1, Appended
<1>4. <<>> \in Seq(Writes) /\ f # None
  <2>1. f # None
    BY GuestMachineAssumption DEF GuestMachineAssumption, None, Compare!None
  <2>2. QED
    BY <2>1
<1>5. Typed'
  <2>1. active' \in Functions \cup {None} /\ (journaling' <=> active' # None)
    <3>1. CASE start
      BY <1>1, <1>4, <3>1
    <3>2. CASE ~start
      BY <1>1, <3>2 DEF Typed
    <3>3. QED
      BY <3>1, <3>2
  <2>2. journal' \in Seq(Writes) /\ journaling' \in BOOLEAN /\ sawDevice' \in BOOLEAN
    BY <1>1, <1>4 DEF Typed
  <2>3. /\ entry'.x \in Nat /\ entry'.interrupts \in Nat /\ interrupts' \in Nat
        /\ entry'.interrupts <= interrupts'
    BY <1>1 DEF Typed
  <2>4. QED
    BY <1>1, <1>3, <2>1, <2>2, <2>3 DEF Typed
<1>6. CASE start
  <2>1. /\ active' = f /\ entry'.x = x /\ journal' = <<>> /\ voided' = {} /\ mem' = mem /\ x' = x
    BY <1>1, <1>6
  <2>2. Before' = mem /\ Compare!Redo(mem, <<>>) = mem
    <3>1. mem \in Memories
      BY DEF Typed
    <3>2. QED
      BY <2>1, <3>1, NothingDone DEF Before
  <2>3. RollsBack'
    BY <1>1, <2>1, <2>2 DEF RollsBack
  <2>4. PICK n \in Nat : n = Len(frames) + 1
    BY <1>3
  <2>5. n \in 1..Len(frames') /\ frames'[n] = call
    BY <1>3, <2>4
  <2>6. Compared(n)' /\ Quiet(n)'
    <3>1. (n + 1)..Len(frames') = {} /\ 1..Len(frames'[n].ops) = {}
      BY <1>2, <1>3, <2>4, <2>5
    <3>2. QED
      BY <1>2, <2>1, <2>5, <3>1 DEF Compared, Quiet
  <2>7. Alike(n)'
    <3>1. SUFFICES ASSUME NEW d \in Nat PROVE Reaches(Compare!ApplyAll(Start(d), frames[n].ops))'
      BY DEF Alike
    <3>2. Start(d)' \in Machines
      BY <1>5, <2>2, <3>1 DEF Typed, Start, Machines
    <3>3. Compare!ApplyAll(Start(d)', <<>>) = Start(d)'
      BY <3>2, NothingDone
    <3>4. /\ Start(d)'.mem = mem' /\ Start(d)'.x = x' /\ Start(d)'.journal = journal'
      BY <2>1, <2>2 DEF Start
    <3>5. QED
      BY <1>2, <2>5, <3>3, <3>4 DEF Reaches
  <2>8. UnderComparison'
    BY <2>5, <2>6, <2>7 DEF UnderComparison
  <2>9. DevicesOnce'
    BY <1>1, <2>1 DEF DevicesOnce
  <2>10. QED
    BY <1>5, <2>3, <2>8, <2>9
<1>7. CASE ~start /\ abandon
  <2>1. active' = None /\ ~journaling' /\ "wide" \in voided' => "wide" \in voided
    BY <1>1, <1>7
  <2>2. RollsBack'
    BY <1>1, <1>7 DEF RollsBack
  <2>3. UnderComparison'
    BY <1>1, <1>7 DEF UnderComparison
  <2>4. DevicesOnce'
    BY <1>1, <1>7 DEF DevicesOnce
  <2>5. QED
    BY <1>5, <2>2, <2>3, <2>4
<1>8. CASE ~start /\ ~abandon
  <2>1. /\ UNCHANGED <<active, entry, journal, journaling, sawDevice, mem, x, interrupts>>
        /\ voided' = voided \cup (IF active = f THEN {"recursive"} ELSE {})
    BY <1>1, <1>8
  <2>2. RollsBack'
    BY <1>1, <2>1 DEF RollsBack, Before
  <2>3. UnderComparison'
    <3>1. SUFFICES ASSUME active # None, voided' \cap {"unwound", "recursive"} = {}
                   PROVE  \E n \in 1..Len(frames') : Compared(n)' /\ Quiet(n)' /\ Alike(n)'
      BY <2>1 DEF UnderComparison
    <3>2. active # f /\ voided' = voided
      BY <2>1, <3>1
    <3>3. PICK n \in 1..Len(frames) : Compared(n) /\ Quiet(n) /\ Alike(n)
      BY <3>1, <3>2 DEF UnderComparison
    <3>4. n \in 1..Len(frames') /\ frames'[n] = frames[n]
      BY <1>3
    <3>5. Compared(n)'
      <4>1. ASSUME NEW k \in (n + 1)..Len(frames') PROVE frames'[k].f # active
        <5>1. CASE k = Len(frames) + 1
          BY <1>2, <1>3, <3>2, <5>1
        <5>2. CASE k # Len(frames) + 1
          <6>1. k \in 1..Len(frames) /\ k \in (n + 1)..Len(frames)
            BY <1>3, <5>2
          <6>2. QED
            BY <1>3, <3>3, <6>1 DEF Compared
        <5>3. QED
          BY <5>1, <5>2
      <4>2. QED
        BY <2>1, <3>3, <3>4, <4>1 DEF Compared
    <3>6. Quiet(n)'
      BY <2>1, <3>2, <3>3, <3>4 DEF Quiet
    <3>7. Alike(n)'
      BY <2>1, <3>2, <3>3, <3>4 DEF Alike, Reaches, Start, Before
    <3>8. QED
      BY <3>4, <3>5, <3>6, <3>7
  <2>4. DevicesOnce'
    BY <1>1, <2>1 DEF DevicesOnce
  <2>5. QED
    BY <1>5, <2>2, <2>3, <2>4
<1>9. QED
  BY <1>6, <1>7, <1>8

\* An instruction is done by the translated code, by the program without comparison and, later,
\* by the interpreter.
LEMMA ExecuteStep == ASSUME Inv, Compare!Execute PROVE Inv'
<1> USE DEF Inv
<1>1. PICK i \in Compare!Instructions, u \in Compare!Instructions :
        /\ u \in {i, [i EXCEPT !.v = IF i.k = "set" THEN 3 - i.v ELSE i.v]}
        /\ frames' = [n \in DOMAIN frames |-> [frames[n] EXCEPT !.ops = Append(@, i)]]
        /\ Compare!Perform(i, u)
        /\ UNCHANGED <<active, entry, journaling, interrupts, alarms>>
  BY DEF Compare!Execute
<1> DEFINE s1 == [mem |-> mem, x |-> x, journal |-> journal, saw |-> sawDevice, device |-> device]
           p1 == [mem |-> plainMem, x |-> plainX, journal |-> <<>>, saw |-> FALSE,
                  device |-> plainDevice]
           s2 == Compare!Apply(s1, u)
           p2 == Compare!Apply(p1, u)
           wide == IF i.k = "device" /\ i.v = 8 THEN {"wide"} ELSE {}
<1>2. /\ mem' = s2.mem /\ x' = s2.x /\ device' = s2.device
      /\ journal' = IF journaling THEN s2.journal ELSE journal
      /\ sawDevice' = IF journaling THEN s2.saw ELSE sawDevice
      /\ plainMem' = p2.mem /\ plainX' = p2.x /\ plainDevice' = p2.device
      /\ voided' = voided \cup wide \cup (IF i # u THEN {"wrong"} ELSE {})
      /\ escaped' = escaped \cup wide
  BY <1>1 DEF Compare!Perform
<1>3. s1 \in Machines /\ p1 \in Machines
  BY DEF Typed, Machines
<1>4. s2 \in Machines /\ p2 \in Machines
  BY <1>3, ApplyTyped
<1>5. /\ s1.mem = mem /\ s1.x = x /\ s1.journal = journal /\ s1.saw = sawDevice /\ s1.device = device
      /\ p1.mem = plainMem /\ p1.x = plainX /\ p1.device = plainDevice
  OBVIOUS
<1>6. u.k = i.k /\ (i.k = "device" => u = i)
  BY <1>1 DEF Compare!Instructions
<1>7. u.k = "device" => s2.saw = (sawDevice \/ u.v # 8)
  BY DEF Compare!Apply
<1>8. u.k # "device" => s2.saw = sawDevice
  BY DEF Compare!Apply, Compare!Instructions
<1>9. /\ Compare!Undo(s2.mem, s2.journal) = Before
      /\ Compare!Redo(Before, journal) = mem =>
           Compare!Redo(Compare!Undo(s2.mem, s2.journal), s2.journal) = s2.mem
  <2> HIDE DEF s1
  <2>1. QED
    BY <1>3, <1>5, ApplyRollsBack DEF Before
<1>10. mem = plainMem /\ x = plainX =>
         /\ s2.mem = p2.mem /\ s2.x = p2.x
         /\ device = plainDevice => s2.device = p2.device
  <2> HIDE DEF s1, p1
  <2>1. QED
    BY <1>3, <1>5, ApplyAlike
<1> HIDE DEF s1, p1, s2, p2
<1>11. /\ Len(frames) \in Nat /\ frames' \in Seq(Calls) /\ Len(frames') = Len(frames)
       /\ \A n \in 1..Len(frames) : /\ frames[n].ops \in Seq(Compare!Instructions)
                                     /\ frames'[n].f = frames[n].f
                                     /\ frames'[n].ops = Append(frames[n].ops, i)
  <2>1. frames' = [n \in 1..Len(frames) |-> [frames[n] EXCEPT !.ops = Append(@, i)]]
    BY <1>1, FrameFacts
  <2>2. ASSUME NEW n \in 1..Len(frames)
        PROVE  /\ frames[n].ops \in Seq(Compare!Instructions)
               /\ [frames[n] EXCEPT !.ops = Append(@, i)] \in Calls
               /\ frames'[n].f = frames[n].f /\ frames'[n].ops = Append(frames[n].ops, i)
    <3>1. frames[n] \in Calls /\ Append(frames[n].ops, i) \in Seq(Compare!Instructions)
      BY FrameFacts, Appended
    <3>2. frames'[n] = [frames[n] EXCEPT !.ops = Append(@, i)]
      BY <2>1
    <3>3. QED
      BY <3>1, <3>2 DEF Calls
  <2>3. frames' \in Seq(Calls) /\ Len(frames') = Len(frames)
    <3>1. frames' \in [1..Len(frames) -> Calls] /\ Len(frames) \in Nat
      BY <2>1, <2>2, FrameFacts
    <3>2. QED
      BY <3>1
  <2>4. QED
    BY <2>2, <2>3, FrameFacts
<1>12. Typed'
  <2>1. /\ s2.mem \in Memories /\ s2.x \in Nat /\ s2.device \in Nat /\ s2.journal \in Seq(Writes)
        /\ s2.saw \in BOOLEAN /\ p2.mem \in Memories /\ p2.x \in Nat /\ p2.device \in Nat
    BY <1>4 DEF Machines
  <2>2. QED
    BY <1>1, <1>2, <1>11, <2>1 DEF Typed
<1>13. RollsBack'
  <2>1. SUFFICES ASSUME "sector" \notin escaped
                 PROVE  /\ mem' = plainMem' /\ x' = plainX'
                        /\ journaling => (Compare!Redo(Before, journal) = mem)'
    BY <1>1, <1>2 DEF RollsBack
  <2>2. mem = plainMem /\ x = plainX /\ (journaling => Compare!Redo(Before, journal) = mem)
    BY <2>1 DEF RollsBack
  <2>3. ASSUME journaling PROVE (Compare!Redo(Before, journal) = mem)'
    BY <1>2, <1>9, <2>2, <2>3 DEF Before
  <2>4. QED
    BY <1>2, <1>10, <2>2, <2>3
<1>14. UnderComparison'
  <2>1. SUFFICES ASSUME active # None, voided' \cap {"unwound", "recursive"} = {}
                 PROVE  \E n \in 1..Len(frames') : Compared(n)' /\ Quiet(n)' /\ Alike(n)'
    BY <1>1 DEF UnderComparison
  <2>2. journaling /\ voided \cap {"unwound", "recursive"} = {}
    BY <1>2, <2>1 DEF Typed
  <2>3. PICK n \in 1..Len(frames) : Compared(n) /\ Quiet(n) /\ Alike(n)
    BY <2>1, <2>2 DEF UnderComparison
  <2>4. n \in 1..Len(frames') /\ frames'[n].f = frames[n].f /\ frames'[n].ops = Append(frames[n].ops, i)
    BY <1>11
  <2>5. Compared(n)'
    <3>1. ASSUME NEW k \in (n + 1)..Len(frames') PROVE frames'[k].f # active
      <4>1. k \in 1..Len(frames) /\ k \in (n + 1)..Len(frames)
        BY <1>11
      <4>2. QED
        BY <1>11, <2>3, <4>1 DEF Compared
    <3>2. QED
      BY <1>1, <2>3, <2>4, <3>1 DEF Compared
  <2>6. /\ Len(frames[n].ops) \in Nat /\ Len(frames'[n].ops) = Len(frames[n].ops) + 1
        /\ \A k \in 1..Len(frames[n].ops) : frames'[n].ops[k] = frames[n].ops[k]
        /\ frames'[n].ops[Len(frames[n].ops) + 1] = i
    BY <1>11, <2>4, Appended
  <2>7. Quiet(n)'
    <3>1. SUFFICES ASSUME ~sawDevice', "wide" \notin voided', NEW k \in 1..Len(frames'[n].ops)
                   PROVE  frames'[n].ops[k].k # "device"
      BY DEF Quiet
    <3>2. i.k # "device" /\ ~sawDevice /\ "wide" \notin voided
      BY <1>2, <1>6, <1>7, <1>8, <2>2, <3>1
    <3>3. CASE k \in 1..Len(frames[n].ops)
      BY <2>3, <2>6, <3>2, <3>3 DEF Quiet
    <3>4. CASE k \notin 1..Len(frames[n].ops)
      <4>1. k = Len(frames[n].ops) + 1
        BY <2>6, <3>4
      <4>2. QED
        BY <2>6, <3>2, <4>1
    <3>5. QED
      BY <3>3, <3>4
  <2>8. Alike(n)'
    <3>1. SUFFICES ASSUME voided' = {}, entry.interrupts = interrupts, NEW d \in Nat
                   PROVE  Reaches(Compare!ApplyAll(Start(d), frames[n].ops))'
      BY <1>1 DEF Alike
    <3>2. voided = {} /\ i = u
      BY <1>2, <3>1
    <3> DEFINE r == Compare!ApplyAll(Start(d), frames[n].ops)
    <3>3. r.mem = mem /\ r.x = x /\ r.journal = journal
      BY <2>3, <3>1, <3>2 DEF Alike, Reaches
    <3>4. Start(d) \in Machines
      BY BeforeTyped
    <3>5. r \in Machines
      BY <1>11, <3>4, RunRollsBack
    <3>6. Compare!ApplyAll(Start(d), frames'[n].ops) = Compare!Apply(r, i)
      BY <1>11, <2>4, <3>4, RunOneMore
    <3>7. Start(d)' = Start(d)
      <4>1. Before' = Before
        BY <1>2, <1>9, <2>2 DEF Before
      <4>2. QED
        BY <1>1, <4>1 DEF Start
    <3> HIDE DEF r
    <3>8. LET r2 == Compare!Apply(r, i) IN r2.mem = s2.mem /\ r2.x = s2.x /\ r2.journal = s2.journal
      BY <1>3, <1>5, <3>2, <3>3, <3>5, ApplyAlike DEF s2
    <3>9. QED
      BY <1>2, <2>2, <3>6, <3>7, <3>8 DEF Reaches
  <2>9. QED
    BY <2>4, <2>5, <2>7, <2>8
<1>15. DevicesOnce'
  <2>1. "wide" \in voided' => "wide" \in escaped'
    BY <1>2 DEF DevicesOnce
  <2>2. ASSUME escaped' = {} PROVE device' = plainDevice'
    <3>1. escaped = {}
      BY <1>2, <2>2
    <3>2. mem = plainMem /\ x = plainX /\ device = plainDevice
      BY <3>1 DEF RollsBack, DevicesOnce
    <3>3. QED
      BY <1>2, <1>10, <3>2
  <2>3. QED
    BY <2>1, <2>2 DEF DevicesOnce
<1>16. QED
  BY <1>12, <1>13, <1>14, <1>15

\* A sequence without its last member.
LEMMA Shortened ==
  ASSUME NEW S, NEW s \in Seq(S), Len(s) \in Nat \ {0}
  PROVE  /\ SubSeq(s, 1, Len(s) - 1) \in Seq(S)
         /\ Len(SubSeq(s, 1, Len(s) - 1)) = Len(s) - 1
         /\ \A n \in 1..(Len(s) - 1) : SubSeq(s, 1, Len(s) - 1)[n] = s[n]
<1>1. PICK last \in Nat : last = Len(s) - 1
  OBVIOUS
<1>2. \A n \in 1..last : s[n] \in S
  BY <1>1, ElementOfSeq
<1>3. /\ SubSeq(s, 1, last) \in Seq(S)
      /\ Len(SubSeq(s, 1, last)) = IF 1 <= last THEN last - 1 + 1 ELSE 0
      /\ \A n \in 1..(last - 1 + 1) : SubSeq(s, 1, last)[n] = s[1 + n - 1]
  <2>1. 1 \in Int /\ last \in Int
    OBVIOUS
  <2>2. QED
    BY <1>2, <2>1, SubSeqProperties
<1>4. Len(SubSeq(s, 1, last)) = last
  BY <1>1, <1>3
<1>5. \A n \in 1..last : SubSeq(s, 1, last)[n] = s[n]
  <2>1. TAKE n \in 1..last
  <2>2. n \in 1..(last - 1 + 1) /\ 1 + n - 1 = n
    BY <2>1, <1>1
  <2>3. SubSeq(s, 1, last)[n] = s[1 + n - 1]
    BY <1>3, <2>2
  <2>4. QED
    BY <2>2, <2>3
<1>6. QED
  BY <1>1, <1>3, <1>4, <1>5

\* The innermost call returns.
LEMMA Returned ==
  ASSUME Typed, frames # <<>>
  PROVE  /\ Len(frames) \in 1..Len(frames) /\ Compare!Last(frames) = frames[Len(frames)]
         /\ Compare!Front(frames) \in Seq(Calls) /\ Len(Compare!Front(frames)) = Len(frames) - 1
         /\ \A n \in 1..(Len(frames) - 1) : Compare!Front(frames)[n] = frames[n]
<1>1. frames \in Seq(Calls) /\ Len(frames) \in Nat \ {0}
  BY EmptySeq, LenProperties DEF Typed
<1>2. Compare!Last(frames) = frames[Len(frames)]
  BY DEF Compare!Last
<1>3. Compare!Front(frames) = SubSeq(frames, 1, Len(frames) - 1)
  BY DEF Compare!Front
<1>4. /\ SubSeq(frames, 1, Len(frames) - 1) \in Seq(Calls)
      /\ Len(SubSeq(frames, 1, Len(frames) - 1)) = Len(frames) - 1
      /\ \A n \in 1..(Len(frames) - 1) : SubSeq(frames, 1, Len(frames) - 1)[n] = frames[n]
  BY <1>1, Shortened
<1>5. QED
  BY <1>1, <1>2, <1>3, <1>4

\* An exit that the comparison takes for its call's is that call's, unless a non-local return or
\* a call of the same function came between.
LEMMA ExitIsTheCalls ==
  ASSUME Inv, frames # <<>>, frames[Len(frames)].f = active,
         voided \cap {"unwound", "recursive"} = {}
  PROVE  Quiet(Len(frames)) /\ Alike(Len(frames))
<1>1. active # None
  BY Returned, FrameFacts, GuestMachineAssumption
     DEF Inv, GuestMachineAssumption, None, Compare!None
<1>2. PICK n \in 1..Len(frames) : Compared(n) /\ Quiet(n) /\ Alike(n)
  BY <1>1 DEF Inv, UnderComparison
<1>3. n = Len(frames)
  <2>1. Len(frames) \in Nat
    BY FrameFacts DEF Inv
  <2>2. Len(frames) \notin (n + 1)..Len(frames)
    BY <1>2 DEF Compared
  <2>3. QED
    BY <2>1, <2>2
<1>4. QED
  BY <1>2, <1>3

\* The interpreter's run is undone and the program's writes are put back.
LEMMA InterpreterLeavesNoTrace ==
  ASSUME Typed, NEW n \in 1..Len(frames)
  PROVE  LET r == Compare!Interpreted(frames[n].ops) IN
         /\ r = Compare!ApplyAll(Start(device), frames[n].ops)
         /\ Compare!PutBack(r) \in Memories /\ r.device \in Nat
         /\ Compare!Redo(Before, journal) = mem => Compare!PutBack(r) = mem
         /\ (\A k \in 1..Len(frames[n].ops) : frames[n].ops[k].k # "device") => r.device = device
<1> DEFINE r == Compare!Interpreted(frames[n].ops)
<1>1. r = Compare!ApplyAll(Start(device), frames[n].ops)
  BY DEF Compare!Interpreted, Start, Before
<1>2. Start(device) \in Machines /\ frames[n].ops \in Seq(Compare!Instructions) /\ Before \in Memories
  BY BeforeTyped, FrameFacts DEF Typed
<1>3. /\ Start(device).mem = Before /\ Start(device).journal = <<>> /\ Start(device).device = device
  BY DEF Start
<1>4. Compare!Undo(Start(device).mem, Start(device).journal) = Before
  BY <1>2, <1>3, NothingDone
<1> HIDE DEF r
<1>5. /\ r \in Machines /\ Compare!Undo(r.mem, r.journal) = Before
      /\ (\A k \in 1..Len(frames[n].ops) : frames[n].ops[k].k # "device") => r.device = device
  BY <1>1, <1>2, <1>3, <1>4, RunRollsBack
<1>6. Compare!PutBack(r) = Compare!Redo(Before, journal)
  BY <1>5 DEF Compare!PutBack
<1>7. Compare!PutBack(r) \in Memories /\ r.device \in Nat
  BY <1>5, <1>6, BeforeTyped DEF Machines
<1>8. /\ r = Compare!ApplyAll(Start(device), frames[n].ops)
      /\ Compare!PutBack(r) \in Memories /\ r.device \in Nat
      /\ Compare!Redo(Before, journal) = mem => Compare!PutBack(r) = mem
      /\ (\A k \in 1..Len(frames[n].ops) : frames[n].ops[k].k # "device") => r.device = device
  BY <1>1, <1>5, <1>6, <1>7
<1>9. QED
  BY <1>8 DEF r

LEMMA ReturnStep == ASSUME Inv, Compare!Return PROVE Inv'
<1> USE DEF Inv
<1> DEFINE L == Len(frames)
           top == frames[L]
<1>1. /\ frames # <<>> /\ frames' = Compare!Front(frames) /\ Compare!Exit(top.f, top.ops)
      /\ escaped' = IF active = top.f /\ voided \cap {"unwound", "recursive"} # {}
                    THEN escaped \cup {"mistaken"} ELSE escaped
      /\ UNCHANGED <<x, entry, sawDevice, interrupts, plainMem, plainX, plainDevice, voided>>
  BY Returned DEF Compare!Return
<1>2. /\ L \in 1..L /\ frames' \in Seq(Calls) /\ Len(frames') = L - 1 /\ L \in Nat
      /\ \A n \in 1..(L - 1) : frames'[n] = frames[n]
      /\ top.f # None
  BY <1>1, Returned, FrameFacts, GuestMachineAssumption
     DEF GuestMachineAssumption, None, Compare!None
<1>3. CASE active # top.f
  <2>1. UNCHANGED <<mem, active, journal, journaling, alarms, device, escaped>>
    BY <1>1, <1>3 DEF Compare!Exit
  <2>2. Typed'
    BY <1>1, <1>2, <2>1 DEF Typed
  <2>3. RollsBack' /\ DevicesOnce'
    BY <1>1, <2>1 DEF RollsBack, Before, DevicesOnce
  <2>4. UnderComparison'
    <3>1. SUFFICES ASSUME active # None, voided \cap {"unwound", "recursive"} = {}
                   PROVE  \E n \in 1..Len(frames') : Compared(n)' /\ Quiet(n)' /\ Alike(n)'
      BY <1>1, <2>1 DEF UnderComparison
    <3>2. PICK n \in 1..L : Compared(n) /\ Quiet(n) /\ Alike(n)
      BY <3>1 DEF UnderComparison
    <3>3. n # L
      BY <1>3, <3>2 DEF Compared
    <3>4. n \in 1..Len(frames') /\ frames'[n] = frames[n]
      BY <1>2, <3>3
    <3>5. Compared(n)'
      <4>1. ASSUME NEW k \in (n + 1)..Len(frames') PROVE frames'[k].f # active
        <5>1. k \in (n + 1)..L /\ k \in 1..(L - 1)
          BY <1>2
        <5>2. QED
          BY <1>2, <3>2, <5>1 DEF Compared
      <4>2. QED
        BY <2>1, <3>2, <3>4, <4>1 DEF Compared
    <3>6. Quiet(n)' /\ Alike(n)'
      BY <1>1, <2>1, <3>2, <3>4 DEF Quiet, Alike, Reaches, Start, Before
    <3>7. QED
      BY <3>4, <3>5, <3>6
  <2>5. QED
    BY <2>2, <2>3, <2>4
<1>4. CASE active = top.f
  <2> DEFINE r == Compare!Interpreted(top.ops)
  <2>1. /\ active' = None /\ journaling' = FALSE /\ journal' = <<>>
        /\ \/ UNCHANGED <<mem, alarms, device>>
           \/ /\ ~sawDevice /\ device' = r.device /\ mem' = Compare!PutBack(r)
              /\ alarms' = alarms + (IF ~r.saw /\ Compare!Disagree(r) THEN 1 ELSE 0)
    BY <1>1, <1>4 DEF Compare!Exit, Compare!NotComparable, None
  <2>2. /\ Compare!PutBack(r) \in Memories /\ r.device \in Nat
        /\ Compare!Redo(Before, journal) = mem => Compare!PutBack(r) = mem
        /\ (\A k \in 1..Len(top.ops) : top.ops[k].k # "device") => r.device = device
    BY <1>2, InterpreterLeavesNoTrace
  <2> HIDE DEF r
  <2>3. Typed'
    <3>1. mem' \in Memories /\ device' \in Nat
      BY <2>1, <2>2 DEF Typed
    <3>2. alarms' \in Nat
      BY <2>1 DEF Typed
    <3>3. /\ active' \in Functions \cup {None} /\ (journaling' <=> active' # None)
          /\ journaling' \in BOOLEAN /\ journal' \in Seq(Writes)
      <4>1. <<>> \in Seq(Writes)
        OBVIOUS
      <4>2. active' = None /\ journaling' = FALSE /\ journal' = <<>>
        BY <2>1
      <4>3. journaling' \in BOOLEAN /\ (journaling' <=> active' # None)
        BY <4>2
      <4>4. QED
        BY <4>1, <4>2, <4>3
    <3>4. QED
      BY <1>1, <1>2, <3>1, <3>2, <3>3 DEF Typed
  <2>4. RollsBack'
    <3>1. SUFFICES ASSUME "sector" \notin escaped PROVE mem' = plainMem /\ x = plainX
      BY <1>1, <2>1 DEF RollsBack
    <3>2. mem = plainMem /\ x = plainX /\ Compare!Redo(Before, journal) = mem
      BY <1>2, <1>4, <3>1 DEF RollsBack, Typed
    <3>3. QED
      BY <2>1, <2>2, <3>2
  <2>5. UnderComparison'
    BY <2>1 DEF UnderComparison
  <2>6. DevicesOnce'
    <3>1. "wide" \in voided' => "wide" \in escaped'
      BY <1>1 DEF DevicesOnce
    <3>2. ASSUME escaped' = {} PROVE device' = plainDevice'
      <4>1. escaped = {} /\ voided \cap {"unwound", "recursive"} = {} /\ "wide" \notin voided
        BY <1>1, <1>4, <3>2 DEF DevicesOnce
      <4>2. Quiet(L)
        BY <1>1, <1>4, <4>1, ExitIsTheCalls
      <4>3. ~sawDevice => r.device = device
        BY <2>2, <4>1, <4>2 DEF Quiet
      <4>4. device = plainDevice
        BY <4>1 DEF DevicesOnce
      <4>5. QED
        BY <1>1, <2>1, <4>3, <4>4
    <3>3. QED
      BY <3>1, <3>2 DEF DevicesOnce
  <2>7. QED
    BY <2>3, <2>4, <2>5, <2>6
<1>5. QED
  BY <1>3, <1>4

\* Every step keeps it.
LEMMA NextInv == Inv /\ [Next]_vars => Inv'
<1> SUFFICES ASSUME Inv, [Next]_vars PROVE Inv'
  OBVIOUS
<1>1. CASE UNCHANGED compare
  BY <1>1 DEF Inv, compare, Typed, RollsBack, Before, UnderComparison, Compared, Quiet, Alike,
              Reaches, Start, DevicesOnce
<1>2. CASE Compare!Next
  BY <1>2, EnterStep, ExecuteStep, InterruptStep, SectorStep, ReturnStep, UnwindStep
     DEF Compare!Next
<1>3. QED
  BY <1>1, <1>2 DEF Next, vars

\* The invariant holds: the journal tells memory at the entry of the call under comparison from
\* memory now, that call is on the stack with the instructions it ran, and the interpreter, which
\* would start there, would come to where the program is (replay.cpp 93-184, dc_memory.cpp).
THEOREM Invariance == Spec => []Inv
<1>1. Init => Inv
  BY InitInv
<1>2. Inv /\ [Next]_vars => Inv'
  BY NextInv
<1>3. QED
  BY <1>1, <1>2, PTL DEF Spec

\* Memory, registers and devices are what they would be with no comparison going on, whatever the
\* guest executes, is interrupted by and returns from (Replay::enter_impl, Replay::exit).
THEOREM ComparingIsUnseen == Spec => []ComparisonUnseen
<1>1. Inv => ComparisonUnseen
  BY DEF Inv, RollsBack, DevicesOnce, ComparisonUnseen, Compare!ComparisonUnseen
<1>2. QED
  BY <1>1, Invariance, PTL

\* A step that raises an alarm ends a comparison in which something happened that excuses it or
\* that the translation did wrong.
LEMMA AlarmStep == ASSUME Inv, Compare!Next, alarms' # alarms PROVE voided # {}
<1> SUFFICES ASSUME voided = {} PROVE FALSE
  OBVIOUS
<1> DEFINE L == Len(frames)
           top == frames[L]
           r == Compare!Interpreted(top.ops)
<1>1. Typed
  BY DEF Inv
<1>2. Compare!Return
  BY DEF Compare!Next, Compare!Enter, Compare!Execute, Compare!Interrupt, Compare!Sector,
         Compare!Unwind
<1>3. frames # <<>> /\ Compare!Exit(top.f, top.ops)
  BY <1>1, <1>2, Returned DEF Compare!Return
<1>4. /\ active = top.f /\ entry.interrupts = interrupts
      /\ alarms' = alarms + (IF ~r.saw /\ Compare!Disagree(r) THEN 1 ELSE 0)
  BY <1>3 DEF Compare!Exit, Compare!NotComparable
<1>5. L \in 1..L
  BY <1>1, <1>3, Returned
<1>6. Alike(L)
  BY <1>3, <1>4, ExitIsTheCalls
<1>7. Reaches(r)
  <2>1. r = Compare!ApplyAll(Start(device), top.ops) /\ device \in Nat
    BY <1>1, <1>5, InterpreterLeavesNoTrace DEF Typed
  <2> HIDE DEF r
  <2>2. QED
    BY <1>4, <1>6, <2>1 DEF Alike
<1> HIDE DEF r
<1>8. ~Compare!Disagree(r)
  BY <1>7 DEF Reaches, Compare!Disagree
<1>9. alarms' = alarms
  BY <1>1, <1>4, <1>8 DEF Typed
<1>10. QED
  BY <1>9

\* An alarm that nothing excuses means that translated code and interpreter really differ
\* (Replay::exit, Replay::compare).
THEOREM AlarmsMeanWrongCode == Spec => AlarmsAreWrong
<1>1. Inv /\ [Next]_vars => [alarms' # alarms => voided # {}]_(Compare!vars)
  <2> SUFFICES ASSUME Inv, [Next]_vars, alarms' # alarms PROVE voided # {}
    OBVIOUS
  <2>1. Compare!Next
    BY DEF Next, vars, compare
  <2>2. QED
    BY <2>1, AlarmStep
<1>2. QED
  BY <1>1, Invariance, PTL DEF Spec, AlarmsAreWrong, Compare!AlarmsAreWrong

-------------------------------------------------------------------------------
(* The memory map. *)

\* A burst that begins at a multiple of its length stays within a bank.
LEMMA AlignedFits ==
  ASSUME NEW d \in Nat \ {0}, NEW n \in 0..(2 * d - 1), NEW l \in Nat \ {0}, n % l = 0, d % l = 0
  PROVE  n + l <= 2 * d /\ (n % d) + l <= d
<1>1. n \in Nat
  OBVIOUS
<1>2. PICK k \in Nat : n = l * k
  BY <1>1, Multiple
<1>3. PICK j \in Nat : d = l * j
  BY Multiple
<1>4. CASE k < j
  <2>1. l * k + l <= l * j
    BY <1>4
  <2>2. n < d
    BY <1>2, <1>3, <2>1
  <2>3. n % d = n
    BY <1>1, <2>2, Divided
  <2>4. QED
    BY <1>2, <1>3, <2>1, <2>3
<1>5. CASE ~(k < j)
  <2>1. l * k >= l * j
    BY <1>5
  <2>2. n >= d /\ n - d < d
    BY <1>2, <1>3, <2>1
  <2>3. n % d = n - d
    BY <1>1, <2>2, Divided
  <2>4. k - j < j
    <3>1. l * k < l * j + l * j
      BY <1>1, <1>2, <1>3
    <3>2. SUFFICES ASSUME k >= j + j PROVE FALSE
      OBVIOUS
    <3>3. l * k >= l * (j + j)
      BY <3>2
    <3>4. QED
      BY <3>1, <3>3
  <2>5. l * (k - j) + l <= l * j
    BY <1>5, <2>4
  <2>6. l * (k - j) = l * k - l * j
    BY <1>5
  <2>7. QED
    BY <1>2, <1>3, <2>3, <2>5, <2>6
<1>6. QED
  BY <1>4, <1>5

LastWord  == 2 * Words - 1
Addresses == [region : Memory!Regions, off : 0..LastWord]

\* The word of host memory that a chip's word is kept in.
HostOf(c) == IF c.m = "ram" THEN c.w ELSE 2 * c.w + c.b

\* Chips and words of host memory are the same, one for one.
LEMMA Hosts ==
  /\ \A c \in Memory!Chips :
       /\ c.m \in {"ram", "vram"} /\ c.b \in {0, 1} /\ c.w \in 0..(Words - 1)
       /\ HostOf(c) \in Nat
       /\ c.m = "ram" => HostOf(c) <= Words - 1
       /\ c.m = "vram" => HostOf(c) <= LastWord
  /\ \A c, d \in Memory!Chips : c.m = d.m /\ HostOf(c) = HostOf(d) => c = d
<1>1. Words \in Nat \ {0}
  BY GuestMachineAssumption DEF GuestMachineAssumption
<1>2. ASSUME NEW c \in Memory!Chips
      PROVE  /\ c.m \in {"ram", "vram"} /\ c.b \in {0, 1} /\ c.w \in 0..(Words - 1)
             /\ c.m = "ram" => c.b = 0
             /\ c = [m |-> c.m, b |-> c.b, w |-> c.w]
  BY DEF Memory!Chips
<1>3. ASSUME NEW c \in Memory!Chips
      PROVE  /\ HostOf(c) \in Nat
             /\ c.m = "ram" => HostOf(c) <= Words - 1
             /\ c.m = "vram" => HostOf(c) <= LastWord
  BY <1>1, <1>2 DEF HostOf, LastWord
<1>4. ASSUME NEW c \in Memory!Chips, NEW d \in Memory!Chips, c.m = d.m, HostOf(c) = HostOf(d)
      PROVE  c = d
  <2>1. c.b = d.b /\ c.w = d.w
    BY <1>1, <1>2, <1>4 DEF HostOf
  <2>2. QED
    BY <1>2, <1>4, <2>1
<1>5. QED
  BY <1>2, <1>3, <1>4

\* An address of memory is resolved to where its chip's word is kept.
LEMMA Resolved ==
  ASSUME NEW r \in Memory!Memory, NEW o \in 0..LastWord
  PROVE  LET p == [region |-> r, off |-> o] IN
         /\ Memory!Chip(p) \in Memory!Chips
         /\ Memory!Resolve(p) = [k |-> "bytes", m |-> Memory!Chip(p).m, o |-> HostOf(Memory!Chip(p))]
<1>1. Words \in Nat \ {0}
  BY GuestMachineAssumption DEF GuestMachineAssumption
<1>2. /\ o \div Words \in {0, 1} /\ o % Words \in 0..(Words - 1)
      /\ o = Words * (o \div Words) + (o % Words)
      /\ (o \div Words) % 2 = o \div Words /\ o % (2 * Words) = o
      /\ o % 2 \in {0, 1} /\ o \div 2 \in 0..(Words - 1) /\ o = 2 * (o \div 2) + (o % 2)
      /\ (o \div 2) % Words = o \div 2
  BY <1>1, Halves DEF LastWord
<1> DEFINE p == [region |-> r, off |-> o]
<1>3. CASE r = "ram"
  <2>1. Memory!Chip(p) = [m |-> "ram", b |-> 0, w |-> o % Words]
    BY <1>3 DEF Memory!Chip
  <2>2. Memory!Resolve(p) = [k |-> "bytes", m |-> "ram", o |-> o % Words]
    BY <1>3 DEF Memory!Resolve
  <2>3. QED
    BY <1>2, <2>1, <2>2 DEF Memory!Chips, HostOf
<1>4. CASE r = "vram64"
  <2>1. Memory!Chip(p) = [m |-> "vram", b |-> o % 2, w |-> o \div 2]
    BY <1>2, <1>4 DEF Memory!Chip
  <2>2. Memory!Resolve(p) = [k |-> "bytes", m |-> "vram", o |-> o]
    BY <1>2, <1>4 DEF Memory!Resolve
  <2>3. HostOf(Memory!Chip(p)) = o
    BY <1>2, <2>1 DEF HostOf
  <2>4. QED
    BY <1>2, <2>1, <2>2, <2>3 DEF Memory!Chips
<1>5. CASE r = "vram32"
  <2>1. Memory!Chip(p) = [m |-> "vram", b |-> o \div Words, w |-> o % Words]
    BY <1>2, <1>5 DEF Memory!Chip
  <2>2. Memory!Resolve(p) = [k |-> "bytes", m |-> "vram", o |-> (o % Words) * 2 + (o \div Words)]
    BY <1>2, <1>5 DEF Memory!Resolve, Memory!VramMap32
  <2>3. HostOf(Memory!Chip(p)) = (o % Words) * 2 + (o \div Words)
    BY <1>2, <2>1 DEF HostOf
  <2>4. QED
    BY <1>2, <2>1, <2>2, <2>3 DEF Memory!Chips
<1>6. QED
  BY <1>3, <1>4, <1>5 DEF Memory!Memory

\* Several words from an aligned address on are several words in host memory.
Aligned(o, n) == n \in Nat \ {0} /\ o % n = 0 /\ Words % n = 0

LEMMA Contiguous ==
  ASSUME NEW p \in Addresses, NEW n, Aligned(p.off, n), NEW i \in 1..n
  PROVE  LET c == Memory!Chip([p EXCEPT !.off = @ + i - 1]) IN
         /\ p.region \in Memory!Memory => c \in Memory!Chips
         /\ p.region \in {"ram", "vram64"} \/ (p.region = "vram32" /\ n = 1) =>
              /\ c.m = Memory!Resolve(p).m /\ Memory!Resolve(p).k = "bytes"
              /\ HostOf(c) = Memory!Resolve(p).o + i - 1
<1>1. Words \in Nat \ {0}
  BY GuestMachineAssumption DEF GuestMachineAssumption
<1>2. p.off \in 0..(2 * Words - 1) /\ p.off \in Nat /\ p = [region |-> p.region, off |-> p.off]
  BY <1>1 DEF Addresses, LastWord
<1>3. p.off + n <= 2 * Words /\ (p.off % Words) + n <= Words
  BY <1>1, <1>2, AlignedFits DEF Aligned
<1>4. PICK o \in 0..LastWord : o = p.off + i - 1
  BY <1>1, <1>2, <1>3 DEF Aligned, LastWord
<1>5. [p EXCEPT !.off = @ + i - 1] = [region |-> p.region, off |-> o]
  BY <1>2, <1>4
<1>6. p.off \in 0..LastWord
  BY <1>2 DEF LastWord
<1> DEFINE c == Memory!Chip([region |-> p.region, off |-> o])
<1>7. p.region \in Memory!Memory =>
        /\ c \in Memory!Chips
        /\ Memory!Resolve([region |-> p.region, off |-> o]) = [k |-> "bytes", m |-> c.m, o |-> HostOf(c)]
  BY Resolved
<1>8. CASE p.region = "ram"
  <2>1. o % Words = (p.off % Words) + i - 1
    <3>1. PICK u \in Nat, v \in Nat : p.off = Words * u + v /\ v = p.off % Words
      BY <1>1, <1>2, Division
    <3>2. PICK l \in 0..(Words - 1) : l = v + i - 1
      BY <1>1, <1>3, <3>1 DEF Aligned
    <3>3. o = Words * u + l /\ o \in Nat
      BY <1>1, <1>4, <3>1, <3>2
    <3>4. o % Words = l
      BY <1>1, <3>2, <3>3, Divided
    <3>5. QED
      BY <3>1, <3>2, <3>4
  <2>2. Memory!Resolve(p) = [k |-> "bytes", m |-> "ram", o |-> p.off % Words]
    BY <1>8 DEF Memory!Resolve
  <2>3. c = [m |-> "ram", b |-> 0, w |-> o % Words]
    BY <1>8 DEF Memory!Chip
  <2>4. QED
    BY <1>5, <1>7, <1>8, <2>1, <2>2, <2>3 DEF HostOf, Memory!Memory
<1>9. CASE p.region = "vram64"
  <2>1. p.off % (2 * Words) = p.off /\ o % (2 * Words) = o
    BY <1>1, <1>2, <1>4, Halves DEF LastWord
  <2>2. Memory!Resolve(p) = [k |-> "bytes", m |-> "vram", o |-> p.off]
    BY <1>9, <2>1 DEF Memory!Resolve
  <2>3. Memory!Resolve([region |-> p.region, off |-> o]) = [k |-> "bytes", m |-> "vram", o |-> o]
    BY <1>9, <2>1 DEF Memory!Resolve
  <2>4. c.m = "vram" /\ HostOf(c) = o
    BY <1>7, <1>9, <2>3 DEF Memory!Memory
  <2>5. QED
    BY <1>4, <1>5, <1>7, <1>9, <2>2, <2>4 DEF Memory!Memory
<1>10. CASE p.region = "vram32" /\ n = 1
  <2>1. o = p.off /\ i = 1
    BY <1>2, <1>4, <1>10
  <2>2. Memory!Resolve(p) = [k |-> "bytes", m |-> c.m, o |-> HostOf(c)]
    BY <1>2, <1>7, <1>10, <2>1 DEF Memory!Memory
  <2>3. HostOf(c) \in Nat
    BY <1>7, <1>10, Hosts DEF Memory!Memory
  <2>4. QED
    BY <1>5, <1>7, <1>10, <2>1, <2>2, <2>3
<1>11. QED
  BY <1>5, <1>7, <1>8, <1>9, <1>10 DEF Memory!Memory

-------------------------------------------------------------------------------
(* The invariant of the memory. *)

Banks    == [{"ram", "vram"} -> [0..(Words - 1) -> Nat] \cup [0..LastWord -> Nat]]
Entry    == [vpn : Memory!Bursts, av : BOOLEAN, ppn : Memory!Bursts, dv : BOOLEAN, big : BOOLEAN]

MemoryTyped ==
  /\ bytes \in Banks /\ bytes["ram"] \in [0..(Words - 1) -> Nat] /\ bytes["vram"] \in [0..LastWord -> Nat]
  /\ sq \in [{0, 1} -> [1..Burst -> Nat]]
  /\ area \in [{0, 1} -> Memory!Regions]
  /\ tlb \in [1..Entries -> Entry]
  /\ mapped \in [1..Entries -> BOOLEAN]
  /\ chips \in [Memory!Chips -> Nat]

\* A word of host memory is the chip's, unless words were torn there.
WordsKept == \A c \in Memory!Chips : c \notin torn => bytes[c.m][HostOf(c)] = chips[c]

\* Both arrays of the UTLB have the valid bit of the mapping.
MappingsValid == \A e \in 1..Entries : tlb[e].dv = mapped[e] /\ tlb[e].av = mapped[e]

MemoryInv == MemoryTyped /\ WordsKept /\ MappingsValid

\* The first of some numbers is one of them.
LEMMA MinIn == ASSUME NEW T \in SUBSET Nat, T # {} PROVE Memory!Min(T) \in T
<1>1. PICK n \in T : \A k \in T : n <= k
  BY LeastNumber
<1>2. QED
  BY <1>1 DEF Memory!Min

\* A number in a range is so far from its beginning.
LEMMA Within ==
  ASSUME NEW l \in Nat, NEW n \in Nat, NEW v \in l..(l + n - 1) PROVE \E i \in 1..n : v = l + i - 1
<1>1. PICK i \in Int : i = v - l + 1
  OBVIOUS
<1>2. i \in 1..n /\ v = l + i - 1
  BY <1>1
<1>3. QED
  BY <1>2

LEMMA Single == ASSUME NEW i \in Int PROVE Memory!Min({i}) = i
  BY DEF Memory!Min

\* An access that is meant for its address keeps every word where it belongs.
LEMMA Delivered ==
  ASSUME MemoryTyped, WordsKept, NEW p \in Addresses, NEW n, Aligned(p.off, n),
         NEW words \in [1..n -> Nat], Memory!Deliver(p, p, words)
  PROVE  /\ bytes' \in Banks /\ bytes'["ram"] \in [0..(Words - 1) -> Nat]
         /\ bytes'["vram"] \in [0..LastWord -> Nat]
         /\ chips' \in [Memory!Chips -> Nat]
         /\ WordsKept'
<1> DEFINE t0 == Memory!Resolve(p)
           at_(i) == Memory!Chip([p EXCEPT !.off = @ + i - 1])
           here(c) == {i \in 1..n : at_(i) = c}
<1>1. n \in Nat \ {0} /\ Len(words) = n /\ DOMAIN words = 1..n
  <2>1. words \in Seq(Nat)
    BY DEF Aligned
  <2>2. QED
    BY <2>1, LenProperties DEF Aligned
<1>2. CASE p.region \notin Memory!Memory
  <2>1. Memory!Resolve(p).k # "bytes"
    BY <1>2 DEF Memory!Resolve, Memory!Memory
  <2>2. UNCHANGED <<bytes, chips, torn>>
    BY <1>2, <2>1 DEF Memory!Deliver, Memory!Store
  <2>3. QED
    BY <2>2 DEF MemoryTyped, WordsKept
<1>3. CASE p.region \in Memory!Memory
  <2>1. /\ p.off \in 0..LastWord /\ p = [region |-> p.region, off |-> p.off]
    BY DEF Addresses
  <2>2. Memory!Chip(p) \in Memory!Chips
        /\ t0 = [k |-> "bytes", m |-> Memory!Chip(p).m, o |-> HostOf(Memory!Chip(p))]
    BY <1>3, <2>1, Resolved
  <2>3. t0.k = "bytes" /\ t0.m \in {"ram", "vram"} /\ t0.o \in Nat
    BY <2>2, Hosts
  <2>4. bytes' = [bytes EXCEPT ![t0.m] =
                    [o \in DOMAIN @ |-> IF o \in t0.o..(t0.o + n - 1) THEN words[o - t0.o + 1] ELSE @[o]]]
    BY <1>1, <2>3 DEF Memory!Deliver, Memory!Poke
  <2>5. \A i \in 1..n : at_(i) \in Memory!Chips
    BY <1>3, Contiguous
  <2>6. chips' = [c \in Memory!Chips |->
                    IF here(c) = {} THEN chips[c] ELSE words[Memory!Min(here(c))]]
    BY <1>1, <1>3 DEF Memory!Deliver, Memory!Store
  <2> HIDE DEF t0, at_
  <2>7. \A m0 \in {"ram", "vram"} :
           /\ bytes'[m0] \in [DOMAIN bytes[m0] -> Nat]
           /\ m0 # t0.m => bytes'[m0] = bytes[m0]
           /\ m0 = t0.m => \A o \in DOMAIN bytes[m0] :
                bytes'[m0][o] = IF o \in t0.o..(t0.o + n - 1) THEN words[o - t0.o + 1] ELSE bytes[m0][o]
    <3>1. \A m0 \in {"ram", "vram"} : bytes[m0] \in [DOMAIN bytes[m0] -> Nat] /\ DOMAIN bytes[m0] \subseteq Nat
      <4>1. bytes["ram"] \in [DOMAIN bytes["ram"] -> Nat] /\ DOMAIN bytes["ram"] \subseteq Nat
        <5>1. PICK d : d = 0..(Words - 1)
          OBVIOUS
        <5>2. d \subseteq Nat
          BY <5>1
        <5>3. bytes["ram"] \in [d -> Nat]
          BY <5>1 DEF MemoryTyped
        <5>4. QED
          BY <5>2, <5>3
      <4>2. bytes["vram"] \in [DOMAIN bytes["vram"] -> Nat] /\ DOMAIN bytes["vram"] \subseteq Nat
        <5>1. PICK d : d = 0..LastWord
          OBVIOUS
        <5>2. d \subseteq Nat
          BY <5>1
        <5>3. bytes["vram"] \in [d -> Nat]
          BY <5>1 DEF MemoryTyped
        <5>4. QED
          BY <5>2, <5>3
      <4>3. QED
        BY <4>1, <4>2
    <3>2. \A o \in Nat : o \in t0.o..(t0.o + n - 1) => words[o - t0.o + 1] \in Nat
      BY <1>1, <2>3
    <3>3. DOMAIN bytes = {"ram", "vram"}
      BY DEF MemoryTyped, Banks
    <3>4. QED
      BY <2>3, <2>4, <3>1, <3>2, <3>3
  <2>8. /\ bytes' \in Banks /\ bytes'["ram"] \in [0..(Words - 1) -> Nat]
        /\ bytes'["vram"] \in [0..LastWord -> Nat]
    <3>1. bytes'["ram"] \in [0..(Words - 1) -> Nat] /\ bytes'["vram"] \in [0..LastWord -> Nat]
      BY <2>7 DEF MemoryTyped
    <3>2. bytes' = [m0 \in {"ram", "vram"} |-> bytes'[m0]]
      BY <2>4 DEF MemoryTyped, Banks
    <3>3. QED
      BY <3>1, <3>2 DEF Banks
  <2>9. \A c \in Memory!Chips : c.m \in {"ram", "vram"} /\ HostOf(c) \in DOMAIN bytes[c.m]
    <3>1. Words \in Nat \ {0}
      BY GuestMachineAssumption DEF GuestMachineAssumption
    <3>2. DOMAIN bytes["ram"] = 0..(Words - 1) /\ DOMAIN bytes["vram"] = 0..LastWord
      BY DEF MemoryTyped
    <3>3. \A c \in Memory!Chips : /\ c.m \in {"ram", "vram"}
                                  /\ c.m = "ram" => HostOf(c) \in 0..(Words - 1)
                                  /\ c.m = "vram" => HostOf(c) \in 0..LastWord
      BY <3>1, Hosts DEF LastWord
    <3>4. ASSUME NEW c \in Memory!Chips PROVE c.m \in {"ram", "vram"} /\ HostOf(c) \in DOMAIN bytes[c.m]
      <4>1. CASE c.m = "ram"
        BY <3>2, <3>3, <4>1
      <4>2. CASE c.m = "vram"
        BY <3>2, <3>3, <4>2
      <4>3. QED
        BY <3>3, <4>1, <4>2
    <3>5. QED
      BY <3>4
  <2>10. chips' \in [Memory!Chips -> Nat]
    <3>1. ASSUME NEW c \in Memory!Chips, here(c) # {} PROVE words[Memory!Min(here(c))] \in Nat
      <4>1. Memory!Min(here(c)) \in here(c)
        <5>1. here(c) \in SUBSET Nat
          BY <1>1
        <5> HIDE DEF here
        <5>2. QED
          BY <3>1, <5>1, MinIn
      <4>2. QED
        BY <4>1
    <3>2. QED
      BY <2>6, <3>1 DEF MemoryTyped
  <2>11. CASE p.region = "vram32" /\ n # 1
    <3> SUFFICES ASSUME NEW c \in Memory!Chips, c \notin torn' PROVE bytes'[c.m][HostOf(c)] = chips'[c]
      BY <2>8, <2>10 DEF WordsKept
    <3> DEFINE first == Memory!VramMap32(p.off % (2 * Words))
               other(i) == Memory!Chip([region |-> "vram64", off |-> first + i - 1])
    <3>1. torn' = torn \cup {at_(i) : i \in 1..n} \cup {other(i) : i \in 1..n}
      BY <1>1, <1>3, <2>11 DEF Memory!Deliver, Memory!Store, at_
    <3>2. t0.m = "vram" /\ t0.o = first
      BY <2>11 DEF Memory!Resolve, t0
    <3> HIDE DEF first
    <3>3. here(c) = {}
      BY <3>1
    <3>4. chips'[c] = bytes[c.m][HostOf(c)]
      BY <2>6, <3>1, <3>3 DEF WordsKept
    <3>5. ASSUME c.m = "vram", HostOf(c) \in t0.o..(t0.o + n - 1) PROVE FALSE
      <4>1. HostOf(c) \in 0..LastWord
        BY <2>9, <3>5 DEF MemoryTyped
      <4> DEFINE place == [region |-> "vram64", off |-> HostOf(c)]
      <4>2. Memory!Resolve(place).o = HostOf(c) /\ Memory!Resolve(place).m = "vram"
        <5>1. Words \in Nat \ {0}
          BY GuestMachineAssumption DEF GuestMachineAssumption
        <5>2. HostOf(c) % (2 * Words) = HostOf(c)
          BY <4>1, <5>1, Halves DEF LastWord
        <5>3. QED
          BY <5>2 DEF Memory!Resolve
      <4>3. Memory!Chip(place) = c
        <5>1. "vram64" \in Memory!Memory
          BY DEF Memory!Memory
        <5>2. /\ Memory!Chip(place) \in Memory!Chips
              /\ Memory!Resolve(place)
                   = [k |-> "bytes", m |-> Memory!Chip(place).m, o |-> HostOf(Memory!Chip(place))]
          BY <4>1, <5>1, Resolved
        <5>3. Memory!Chip(place).m = c.m /\ HostOf(Memory!Chip(place)) = HostOf(c)
          BY <3>5, <4>2, <5>2
        <5>4. QED
          BY <5>2, <5>3, Hosts
      <4>4. PICK i \in 1..n : HostOf(c) = t0.o + i - 1
        BY <1>1, <2>3, <3>5, Within
      <4>5. other(i) = c
        BY <3>2, <4>3, <4>4
      <4>6. QED
        BY <3>1, <4>5
    <3>6. bytes'[c.m][HostOf(c)] = bytes[c.m][HostOf(c)]
      BY <2>7, <2>9, <3>2, <3>5
    <3>7. QED
      BY <3>4, <3>6
  <2>12. CASE ~(p.region = "vram32" /\ n # 1)
    <3> SUFFICES ASSUME NEW c \in Memory!Chips, c \notin torn' PROVE bytes'[c.m][HostOf(c)] = chips'[c]
      BY <2>8, <2>10 DEF WordsKept
    <3>1. torn' = torn
      BY <1>1, <1>3, <2>12 DEF Memory!Deliver, Memory!Store
    <3>2. \A i \in 1..n : at_(i).m = t0.m /\ HostOf(at_(i)) = t0.o + i - 1
      BY <1>3, <2>12, Contiguous DEF at_, t0, Memory!Memory
    <3>3. CASE c.m = t0.m /\ HostOf(c) \in t0.o..(t0.o + n - 1)
      <4>1. PICK i \in 1..n : HostOf(c) = t0.o + i - 1
        BY <1>1, <2>3, <3>3, Within
      <4>2. at_(i) = c
        BY <2>5, <3>2, <3>3, <4>1, Hosts
      <4>3. here(c) = {i}
        BY <1>1, <2>3, <3>2, <4>1, <4>2
      <4>4. chips'[c] = words[i]
        BY <2>6, <4>3, Single
      <4>5. bytes'[c.m][HostOf(c)] = words[HostOf(c) - t0.o + 1]
        BY <2>7, <2>9, <3>3
      <4>6. HostOf(c) - t0.o + 1 = i
        BY <2>3, <4>1
      <4>7. QED
        BY <4>4, <4>5, <4>6
    <3>4. CASE ~(c.m = t0.m /\ HostOf(c) \in t0.o..(t0.o + n - 1))
      <4>1. here(c) = {}
        <5>1. ASSUME NEW i \in 1..n, at_(i) = c PROVE FALSE
          <6>1. c.m = t0.m /\ HostOf(c) = t0.o + i - 1
            BY <3>2, <5>1
          <6>2. t0.o + i - 1 \in t0.o..(t0.o + n - 1)
            BY <1>1, <2>3
          <6>3. QED
            BY <3>4, <6>1, <6>2
        <5>2. QED
          BY <5>1
      <4>2. chips'[c] = chips[c]
        BY <2>6, <4>1
      <4>3. bytes'[c.m][HostOf(c)] = bytes[c.m][HostOf(c)]
        BY <2>3, <2>7, <2>9, <3>4
      <4>4. QED
        BY <3>1, <4>2, <4>3 DEF WordsKept
    <3>5. QED
      BY <3>3, <3>4
  <2>13. QED
    BY <2>8, <2>10, <2>11, <2>12
<1>4. QED
  BY <1>2, <1>3

\* A burst of the page that the store queues are flushed from lies within memory.
LEMMA BurstsFit ==
  /\ \A n \in Memory!Bursts : /\ n \in Nat /\ Burst * n \in 0..LastWord
                              /\ Aligned(Burst * n, Burst)
                              /\ (n - (n % 2)) \in Memory!Bursts /\ (n - (n % 2)) + 1 \in Memory!Bursts
<1>1. Words \in Nat \ {0} /\ Burst \in Nat \ {0} /\ Words % Burst = 0
  BY GuestMachineAssumption DEF GuestMachineAssumption
<1>2. PICK k \in Nat : Words = Burst * k
  BY <1>1, Multiple
<1>3. 2 * Words = Burst * (2 * k)
  BY <1>1, <1>2
<1>4. (2 * Words) \div Burst = 2 * k
  <2>1. 2 * k \in Nat /\ 2 * Words \in Nat /\ 2 * Words = Burst * (2 * k) + 0 /\ 0 \in 0..(Burst - 1)
    BY <1>1, <1>3
  <2>2. QED
    BY <1>1, <2>1, Divided
<1>5. Memory!Bursts = 0..(2 * k - 1)
  BY <1>4 DEF Memory!Bursts
<1>6. ASSUME NEW n \in 0..(2 * k - 1)
      PROVE  /\ n \in Nat /\ Burst * n \in 0..LastWord
             /\ (Burst * n) % Burst = 0
             /\ n - (n % 2) \in 0..(2 * k - 1) /\ (n - (n % 2)) + 1 \in 0..(2 * k - 1)
  <2>1. n \in Nat /\ n + 1 <= 2 * k
    OBVIOUS
  <2>2. Burst * n + Burst <= Burst * (2 * k)
    BY <1>1, <2>1
  <2>3. Burst * n \in Nat
    BY <1>1, <2>1
  <2>4. Burst * n \in 0..LastWord
    BY <1>1, <1>3, <2>2, <2>3 DEF LastWord
  <2>5. (Burst * n) % Burst = 0
    <3>1. Burst * n = Burst * n + 0 /\ 0 \in 0..(Burst - 1)
      BY <1>1, <2>3
    <3>2. QED
      BY <1>1, <2>1, <2>3, <3>1, Divided
  <2>6. n % 2 \in 0..1 /\ n \div 2 \in Nat /\ n = 2 * (n \div 2) + (n % 2)
    BY <2>1, Division
  <2>7. QED
    BY <2>1, <2>4, <2>5, <2>6
<1>7. QED
  BY <1>1, <1>5, <1>6 DEF Aligned

\* The page of a burst, by division and by its members.
LEMMA Pages ==
  ASSUME NEW n \in Nat, NEW v \in Nat, NEW big \in BOOLEAN, NEW l, l = IF big THEN 2 ELSE 1
  PROVE  /\ v \div l = n \div l <=> v \in Memory!Page(n, big)
         /\ Memory!Min(Memory!Page(n, big)) = n - (n % l)
         /\ v \in Memory!Page(n, big) => v - (n - (n % l)) = v % l
<1>1. CASE big
  <2>1. l = 2 /\ Memory!Page(n, big) = {n - (n % 2), n - (n % 2) + 1}
    BY <1>1 DEF Memory!Page
  <2>2. /\ n % 2 \in 0..1 /\ n \div 2 \in Nat /\ n = 2 * (n \div 2) + (n % 2)
        /\ v % 2 \in 0..1 /\ v \div 2 \in Nat /\ v = 2 * (v \div 2) + (v % 2)
    BY Division
  <2>3. Memory!Min({n - (n % 2), n - (n % 2) + 1}) = n - (n % 2)
    <3>1. PICK u \in Int : u = n - (n % 2)
      BY <2>2
    <3>2. Memory!Min({u, u + 1}) = u
      BY DEF Memory!Min
    <3>3. QED
      BY <3>1, <3>2
  <2>4. v \div 2 = n \div 2 <=> v \in {n - (n % 2), n - (n % 2) + 1}
    BY <2>2
  <2>5. v \in {n - (n % 2), n - (n % 2) + 1} => v - (n - (n % 2)) = v % 2
    BY <2>2
  <2>6. QED
    BY <2>1, <2>3, <2>4, <2>5
<1>2. CASE ~big
  <2>1. l = 1 /\ Memory!Page(n, big) = {n}
    BY <1>2 DEF Memory!Page
  <2>2. n % 1 = 0 /\ n \div 1 = n /\ v % 1 = 0 /\ v \div 1 = v
    OBVIOUS
  <2>3. QED
    BY <2>1, <2>2, Single
<1>3. QED
  BY <1>1, <1>2

\* The flush of a store queue goes where the program means it to go.
LEMMA FlushMeant ==
  ASSUME MemoryTyped, MappingsValid, NEW queue \in {0, 1}, NEW va \in Memory!Bursts
  PROVE  /\ Memory!FlushTo(queue, va) = Memory!Intended(queue, va)
         /\ Memory!FlushTo(queue, va) \in Addresses
         /\ Aligned(Memory!FlushTo(queue, va).off, Burst)
<1>1. Burst \in Nat \ {0}
  BY GuestMachineAssumption DEF GuestMachineAssumption
<1>2. va \in Nat
  BY BurstsFit
<1>3. ASSUME NEW e \in 1..Entries
      PROVE  /\ tlb[e].vpn \in Nat /\ tlb[e].ppn \in Nat /\ tlb[e].big \in BOOLEAN
             /\ tlb[e].ppn \in Memory!Bursts
             /\ Memory!PageOf(e) = IF tlb[e].big THEN 2 ELSE 1
  BY BurstsFit DEF MemoryTyped, Entry, Memory!PageOf
<1>4. Memory!Hit(va) = Memory!InForce(va)
  <2>1. ASSUME NEW e \in 1..Entries
        PROVE  Memory!Maps(e, va) <=> mapped[e] /\ va \in Memory!Page(tlb[e].vpn, tlb[e].big)
    <3>1. va \div Memory!PageOf(e) = tlb[e].vpn \div Memory!PageOf(e)
            <=> va \in Memory!Page(tlb[e].vpn, tlb[e].big)
      BY <1>2, <1>3, Pages
    <3>2. tlb[e].dv = mapped[e]
      BY DEF MappingsValid
    <3>3. QED
      BY <3>1, <3>2 DEF Memory!Maps
  <2>2. QED
    BY <2>1 DEF Memory!Hit, Memory!InForce
<1>5. CASE at /\ Memory!Hit(va) # {}
  <2>1. PICK e \in Memory!Hit(va) : e = Memory!Min(Memory!Hit(va))
    <3>1. Memory!Hit(va) \in SUBSET Nat
      <4>1. Entries \in Nat
        BY GuestMachineAssumption DEF GuestMachineAssumption
      <4>2. QED
        BY <4>1 DEF Memory!Hit
    <3>2. QED
      BY <1>5, <3>1, MinIn
  <2>2. e \in 1..Entries /\ va \in Memory!Page(tlb[e].vpn, tlb[e].big)
    BY <1>4, <2>1 DEF Memory!InForce
  <2>3. /\ Memory!Min(Memory!Page(tlb[e].vpn, tlb[e].big)) = tlb[e].vpn - (tlb[e].vpn % Memory!PageOf(e))
        /\ va - (tlb[e].vpn - (tlb[e].vpn % Memory!PageOf(e))) = va % Memory!PageOf(e)
    BY <1>2, <1>3, <2>2, Pages
  <2>4. Memory!Min(Memory!Page(tlb[e].ppn, tlb[e].big)) = Memory!PageBase(e)
    BY <1>2, <1>3, <2>2, Pages DEF Memory!PageBase
  <2>5. Memory!FlushTo(queue, va) = Memory!Physical(e, va)
    BY <1>5, <2>1 DEF Memory!FlushTo
  <2>6. Memory!Intended(queue, va) = Memory!Physical(e, va)
    BY <1>4, <1>5, <2>1, <2>3, <2>4 DEF Memory!Intended, Memory!Physical
  <2>7. Memory!PageBase(e) + (va % Memory!PageOf(e)) \in Memory!Bursts
    <3>1. CASE tlb[e].big
      <4>1. Memory!PageOf(e) = 2 /\ va % 2 \in 0..1
        BY <1>2, <1>3, <2>2, <3>1, Division
      <4>2. QED
        BY <1>3, <2>2, <4>1, BurstsFit DEF Memory!PageBase
    <3>2. CASE ~tlb[e].big
      <4>1. Memory!PageOf(e) = 1 /\ va % 1 = 0 /\ tlb[e].ppn % 1 = 0
        BY <1>2, <1>3, <2>2, <3>2
      <4>2. QED
        BY <1>3, <2>2, <4>1 DEF Memory!PageBase
    <3>3. QED
      BY <3>1, <3>2
  <2>8. QED
    BY <2>5, <2>6, <2>7, BurstsFit DEF Memory!Physical, Addresses, Memory!Regions
<1>6. CASE ~(at /\ Memory!Hit(va) # {})
  <2>1. Memory!FlushTo(queue, va) = [region |-> area[queue], off |-> Burst * va]
    BY <1>6 DEF Memory!FlushTo
  <2>2. Memory!Intended(queue, va) = [region |-> area[queue], off |-> Burst * va]
    BY <1>4, <1>6 DEF Memory!Intended
  <2>3. area[queue] \in Memory!Regions
    BY DEF MemoryTyped
  <2>4. QED
    BY <2>1, <2>2, <2>3, BurstsFit DEF Addresses
<1>7. QED
  BY <1>5, <1>6

LEMMA MemoryInit == Memory!Init => MemoryInv
<1> SUFFICES ASSUME Memory!Init PROVE MemoryInv
  OBVIOUS
<1>1. Words \in Nat \ {0} /\ Burst \in Nat \ {0} /\ LastWord \in Nat
  BY GuestMachineAssumption DEF GuestMachineAssumption, LastWord
<1>2. bytes \in Banks /\ bytes["ram"] \in [0..(Words - 1) -> Nat] /\ bytes["vram"] \in [0..LastWord -> Nat]
  <2>1. bytes = [m0 \in {"ram", "vram"} |->
                   [o \in 0..(IF m0 = "ram" THEN Words - 1 ELSE 2 * Words - 1) |-> 0]]
    BY DEF Memory!Init
  <2>2. bytes["ram"] = [o \in 0..(Words - 1) |-> 0] /\ bytes["vram"] = [o \in 0..LastWord |-> 0]
    BY <2>1 DEF LastWord
  <2>3. bytes["ram"] \in [0..(Words - 1) -> Nat] /\ bytes["vram"] \in [0..LastWord -> Nat]
    BY <2>2
  <2>4. bytes = [m0 \in {"ram", "vram"} |-> bytes[m0]]
    BY <2>1
  <2>5. QED
    BY <2>3, <2>4 DEF Banks
<1>3. sq \in [{0, 1} -> [1..Burst -> Nat]]
  BY <1>1 DEF Memory!Init
<1>4. area \in [{0, 1} -> Memory!Regions]
  BY DEF Memory!Init, Memory!Regions
<1>5. tlb \in [1..Entries -> Entry] /\ mapped \in [1..Entries -> BOOLEAN] /\ MappingsValid
  <2>1. PICK va \in Memory!Bursts, pa \in Memory!Bursts, v \in BOOLEAN, big \in BOOLEAN :
          tlb = [e \in 1..Entries |->
                   [vpn |-> va, av |-> v /\ e = Entries, ppn |-> pa, dv |-> v /\ e = Entries,
                    big |-> big]]
    BY DEF Memory!Init
  <2>2. mapped = [e \in 1..Entries |-> tlb[e].dv]
    BY DEF Memory!Init
  <2>3. ASSUME NEW e \in 1..Entries
        PROVE tlb[e] \in Entry /\ tlb[e].dv \in BOOLEAN /\ tlb[e].dv = mapped[e] /\ tlb[e].av = mapped[e]
    <3>1. (v /\ e = Entries) \in BOOLEAN
      OBVIOUS
    <3>2. tlb[e] = [vpn |-> va, av |-> v /\ e = Entries, ppn |-> pa, dv |-> v /\ e = Entries,
                    big |-> big]
      BY <2>1
    <3>3. tlb[e] \in Entry
      BY <3>1, <3>2 DEF Entry
    <3>4. mapped[e] = tlb[e].dv
      BY <2>2
    <3>5. tlb[e].dv = (v /\ e = Entries) /\ tlb[e].av = (v /\ e = Entries)
      BY <3>2
    <3>6. QED
      BY <3>1, <3>3, <3>4, <3>5
  <2>4. tlb \in [1..Entries -> Entry]
    BY <2>1, <2>3
  <2>5. mapped \in [1..Entries -> BOOLEAN]
    BY <2>2, <2>3
  <2>6. QED
    BY <2>3, <2>4, <2>5 DEF MappingsValid
<1>6. chips \in [Memory!Chips -> Nat]
  BY DEF Memory!Init
<1>7. WordsKept
  <2>1. ASSUME NEW c \in Memory!Chips PROVE bytes[c.m][HostOf(c)] = chips[c]
    <3>1. /\ c.m \in {"ram", "vram"} /\ HostOf(c) \in Nat
          /\ (c.m = "ram" => HostOf(c) <= Words - 1) /\ (c.m = "vram" => HostOf(c) <= LastWord)
      BY Hosts
    <3>2. HostOf(c) \in 0..(IF c.m = "ram" THEN Words - 1 ELSE 2 * Words - 1)
      BY <1>1, <3>1 DEF LastWord
    <3>3. chips[c] = 0
      BY DEF Memory!Init
    <3>4. QED
      BY <3>1, <3>2, <3>3 DEF Memory!Init
  <2>2. QED
    BY <2>1 DEF WordsKept
<1>8. QED
  BY <1>2, <1>3, <1>4, <1>5, <1>6, <1>7 DEF MemoryInv, MemoryTyped

LEMMA WriteStep == ASSUME MemoryInv, Memory!Write PROVE MemoryInv'
<1>1. PICK r \in Memory!Regions, o \in 0..(2 * Words - 1), v \in Values, n \in {1, 2} :
        /\ n = 2 => o % 2 = 0
        /\ Memory!Deliver([region |-> r, off |-> o], [region |-> r, off |-> o], [i \in 1..n |-> v + i - 1])
        /\ UNCHANGED <<sq, area, at, tlb, mapped>>
  BY DEF Memory!Write
<1> DEFINE p == [region |-> r, off |-> o]
           words == [i \in 1..n |-> v + i - 1]
<1>2. Words \in Nat \ {0} /\ Words % 2 = 0 /\ v \in Nat
  BY GuestMachineAssumption DEF GuestMachineAssumption
<1>3. p \in Addresses
  BY DEF Addresses, LastWord
<1>4. Aligned(p.off, n)
  <2>1. o % 1 = 0 /\ Words % 1 = 0
    BY <1>2
  <2>2. QED
    BY <1>1, <1>2, <2>1 DEF Aligned
<1>5. words \in [1..n -> Nat]
  BY <1>2
<1> HIDE DEF p, words
<1>6. Memory!Deliver(p, p, words)
  BY <1>1 DEF p, words
<1>7. /\ bytes' \in Banks /\ bytes'["ram"] \in [0..(Words - 1) -> Nat]
      /\ bytes'["vram"] \in [0..LastWord -> Nat]
      /\ chips' \in [Memory!Chips -> Nat]
      /\ WordsKept'
  BY <1>3, <1>4, <1>5, <1>6, Delivered DEF MemoryInv
<1>8. QED
  BY <1>1, <1>7 DEF MemoryInv, MemoryTyped, MappingsValid

LEMMA FlushStep == ASSUME MemoryInv, Memory!SqFlush PROVE MemoryInv'
<1>1. PICK queue \in {0, 1}, va \in Memory!Bursts :
        /\ Memory!Deliver(Memory!FlushTo(queue, va), Memory!Intended(queue, va), sq[queue])
        /\ UNCHANGED <<sq, area, at, tlb, mapped>>
  BY DEF Memory!SqFlush
<1> DEFINE p == Memory!FlushTo(queue, va)
<1>2. p = Memory!Intended(queue, va) /\ p \in Addresses /\ Aligned(p.off, Burst)
  BY FlushMeant DEF MemoryInv
<1>3. sq[queue] \in [1..Burst -> Nat]
  BY DEF MemoryInv, MemoryTyped
<1> HIDE DEF p
<1>4. Memory!Deliver(p, p, sq[queue])
  BY <1>1, <1>2 DEF p
<1>5. /\ bytes' \in Banks /\ bytes'["ram"] \in [0..(Words - 1) -> Nat]
      /\ bytes'["vram"] \in [0..LastWord -> Nat]
      /\ chips' \in [Memory!Chips -> Nat]
      /\ WordsKept'
  BY <1>2, <1>3, <1>4, Delivered DEF MemoryInv
<1>6. QED
  BY <1>1, <1>5 DEF MemoryInv, MemoryTyped, MappingsValid

LEMMA TlbStep == ASSUME MemoryInv, Memory!WriteTlb PROVE MemoryInv'
<1>1. PICK e \in 1..Entries, n \in Memory!Bursts, v \in BOOLEAN, big \in BOOLEAN, addr \in BOOLEAN :
        /\ tlb' = IF addr THEN Memory!WithAddress(e, n, v) ELSE Memory!WithData(e, n, v, big)
        /\ mapped' = [mapped EXCEPT ![e] = v]
        /\ UNCHANGED <<bytes, sq, area, chips, torn>>
  BY DEF Memory!WriteTlb
<1>2. tlb \in [1..Entries -> Entry] /\ mapped \in [1..Entries -> BOOLEAN]
  BY DEF MemoryInv, MemoryTyped
<1>3. ASSUME NEW d \in 1..Entries
      PROVE  tlb'[d] \in Entry /\ mapped'[d] \in BOOLEAN /\ tlb'[d].dv = mapped'[d] /\ tlb'[d].av = mapped'[d]
  <2>1. CASE d # e
    <3>1. tlb'[d] = tlb[d] /\ mapped'[d] = mapped[d]
      BY <1>1, <1>2, <2>1 DEF Memory!WithAddress, Memory!WithData
    <3>2. QED
      BY <1>2, <3>1 DEF MemoryInv, MappingsValid
  <2>2. CASE d = e
    <3>1. mapped'[d] = v
      BY <1>1, <1>2, <2>2
    <3>2. tlb[d] \in Entry
      BY <1>2
    <3>3. CASE addr
      <4>1. tlb'[d] = [tlb[d] EXCEPT !.vpn = n, !.av = v, !.dv = v]
        BY <1>1, <1>2, <2>2, <3>3 DEF Memory!WithAddress
      <4>2. QED
        BY <3>1, <3>2, <4>1 DEF Entry
    <3>4. CASE ~addr
      <4>1. tlb'[d] = [tlb[d] EXCEPT !.ppn = n, !.dv = v, !.big = big, !.av = v]
        BY <1>1, <1>2, <2>2, <3>4 DEF Memory!WithData
      <4>2. QED
        BY <3>1, <3>2, <4>1 DEF Entry
    <3>5. QED
      BY <3>3, <3>4
  <2>3. QED
    BY <2>1, <2>2
<1>4. tlb' \in [1..Entries -> Entry] /\ mapped' \in [1..Entries -> BOOLEAN]
  <2>1. /\ tlb' = [d \in 1..Entries |-> tlb'[d]] /\ mapped' = [d \in 1..Entries |-> mapped'[d]]
    BY <1>1, <1>2 DEF Memory!WithAddress, Memory!WithData
  <2>2. QED
    BY <1>3, <2>1
<1>5. MappingsValid'
  BY <1>3 DEF MappingsValid
<1>6. QED
  BY <1>1, <1>4, <1>5 DEF MemoryInv, MemoryTyped, WordsKept

LEMMA MmucrStep == ASSUME MemoryInv, Memory!WriteMmucr PROVE MemoryInv'
<1>1. PICK ti \in BOOLEAN :
        /\ tlb' = IF ti THEN [e \in 1..Entries |-> [tlb[e] EXCEPT !.av = FALSE, !.dv = FALSE]] ELSE tlb
        /\ mapped' = IF ti THEN [e \in 1..Entries |-> FALSE] ELSE mapped
        /\ UNCHANGED <<bytes, sq, area, chips, torn>>
  BY DEF Memory!WriteMmucr
<1>2. tlb \in [1..Entries -> Entry] /\ mapped \in [1..Entries -> BOOLEAN]
  BY DEF MemoryInv, MemoryTyped
<1>3. CASE ti
  <2>1. ASSUME NEW e \in 1..Entries
        PROVE  tlb'[e] \in Entry /\ tlb'[e].dv = FALSE /\ tlb'[e].av = FALSE /\ mapped'[e] = FALSE
    <3>1. tlb[e] \in Entry /\ tlb'[e] = [tlb[e] EXCEPT !.av = FALSE, !.dv = FALSE] /\ mapped'[e] = FALSE
      BY <1>1, <1>2, <1>3
    <3>2. QED
      BY <3>1 DEF Entry
  <2>2. tlb' \in [1..Entries -> Entry] /\ mapped' \in [1..Entries -> BOOLEAN]
    BY <1>1, <1>3, <2>1
  <2>3. MappingsValid'
    BY <2>1 DEF MappingsValid
  <2>4. QED
    BY <1>1, <2>2, <2>3 DEF MemoryInv, MemoryTyped, WordsKept
<1>4. CASE ~ti
  BY <1>1, <1>4 DEF MemoryInv, MemoryTyped, WordsKept, MappingsValid
<1>5. QED
  BY <1>3, <1>4

\* Every step keeps it.
LEMMA MemoryNext == MemoryInv /\ [Next]_vars => MemoryInv'
<1> SUFFICES ASSUME MemoryInv, [Next]_vars PROVE MemoryInv'
  OBVIOUS
<1>1. CASE UNCHANGED memory
  BY <1>1 DEF memory, MemoryInv, MemoryTyped, WordsKept, MappingsValid
<1>2. CASE Memory!SqWrite
  <2>1. sq' \in [{0, 1} -> [1..Burst -> Nat]]
    <3>1. PICK queue \in {0, 1}, i \in 1..Burst, v \in Values : sq' = [sq EXCEPT ![queue][i] = v]
      BY <1>2 DEF Memory!SqWrite
    <3>2. v \in Nat
      BY GuestMachineAssumption DEF GuestMachineAssumption
    <3>3. QED
      BY <3>1, <3>2 DEF MemoryInv, MemoryTyped
  <2>2. QED
    BY <1>2, <2>1 DEF Memory!SqWrite, MemoryInv, MemoryTyped, WordsKept, MappingsValid
<1>3. CASE Memory!WriteQacr
  <2>1. area' \in [{0, 1} -> Memory!Regions]
    BY <1>3 DEF Memory!WriteQacr, MemoryInv, MemoryTyped
  <2>2. QED
    BY <1>3, <2>1 DEF Memory!WriteQacr, MemoryInv, MemoryTyped, WordsKept, MappingsValid
<1>4. CASE Memory!Next
  BY <1>2, <1>3, <1>4, WriteStep, FlushStep, MmucrStep, TlbStep DEF Memory!Next
<1>5. QED
  BY <1>1, <1>4 DEF Next, vars

\* A word reads back, at each of its addresses, as what was last stored at any of them, by the
\* program or by the flush of a store queue (DcMemory::resolve, sq_flush, Utlb).
THEOREM MemoryIsOne == Spec => []OneMemory
<1>1. Init => MemoryInv
  BY MemoryInit DEF Init
<1>2. MemoryInv /\ [Next]_vars => MemoryInv'
  BY MemoryNext
<1>3. MemoryInv => OneMemory
  <2> SUFFICES ASSUME MemoryInv PROVE OneMemory
    OBVIOUS
  <2>1. ASSUME NEW r \in Memory!Memory, NEW o \in 0..(2 * Words - 1)
        PROVE  Memory!Chip([region |-> r, off |-> o]) \notin torn =>
                 Memory!Read([region |-> r, off |-> o]) = chips[Memory!Chip([region |-> r, off |-> o])]
    <3> DEFINE p == [region |-> r, off |-> o]
    <3>1. o \in 0..LastWord
      BY DEF LastWord
    <3>2. /\ Memory!Chip(p) \in Memory!Chips
          /\ Memory!Resolve(p) = [k |-> "bytes", m |-> Memory!Chip(p).m, o |-> HostOf(Memory!Chip(p))]
      BY <3>1, Resolved
    <3>3. Memory!Read(p) = bytes[Memory!Chip(p).m][HostOf(Memory!Chip(p))]
      BY <3>2 DEF Memory!Read
    <3>4. QED
      BY <3>2, <3>3 DEF MemoryInv, WordsKept
  <2>2. QED
    BY <2>1 DEF OneMemory, Memory!OneMemory, MemoryInv, MappingsValid
<1>4. QED
  BY <1>1, <1>2, <1>3, PTL DEF Spec
===============================================================================
