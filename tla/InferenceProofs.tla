---------------------------- MODULE InferenceProofs ----------------------------
(***************************************************************************)
(* What the translator infers is true of the run, for any functions, bodies   *)
(* of any length, depth of calls and instructions: the mode an instruction is    *)
(* lowered for, and the constant a register is said to hold.                      *)
(***************************************************************************)
EXTENDS Inference, SequenceTheorems, WellFoundedInduction, TLAPS

(* Induction as a fact about sets: the numbers outside S have a least one. *)

LEMMA LeastNumber ==
  ASSUME NEW T \in SUBSET Nat, T # {} PROVE \E n \in T : \A k \in T : n <= k
<1> DEFINE R == OpToRel(<, Nat)
<1>1. IsWellFoundedOn(R, Nat)
  BY NatLessThanWellFounded
<1>2. \A i, j \in Nat : i < j => <<i, j>> \in R
  BY DEF OpToRel
<1> HIDE DEF R
<1>3. PICK n \in T : \A k \in T : ~(<<k, n>> \in R)
  BY <1>1, WFMin
<1>4. ASSUME NEW k \in T PROVE n <= k
  <2>1. n \in Nat /\ k \in Nat
    OBVIOUS
  <2>2. ~(k < n)
    BY <1>2, <1>3, <2>1
  <2>3. QED
    BY <2>1, <2>2
<1>5. QED
  BY <1>4

LEMMA SetInduction ==
  ASSUME NEW S, 0 \in S, \A n \in Nat : n \in S => n + 1 \in S
  PROVE  Nat \subseteq S
<1> DEFINE T == {n \in Nat : n \notin S}
<1>1. SUFFICES ASSUME T # {} PROVE FALSE
  OBVIOUS
<1>2. PICK n \in T : \A k \in T : n <= k
  BY <1>1, LeastNumber
<1>3. n # 0 /\ n - 1 \in Nat /\ n - 1 < n
  BY <1>2
<1>4. n - 1 \in S
  BY <1>2, <1>3
<1>5. QED
  BY <1>3, <1>4

\* What is begun with v is carried on by L functions, one after the other.
Chains(L, X) == [1..L -> [X -> X]]
Carried(X, v, L, F) ==
  \E g \in [0..L -> X] : g[0] = v /\ \A n \in 1..L : g[n] = F[n][g[n - 1]]

LEMMA Iterates ==
  ASSUME NEW X, NEW v \in X, NEW L \in Nat, NEW F \in Chains(L, X)
  PROVE  Carried(X, v, L, F)
<1> DEFINE Good(g, k) == g[0] = v /\ \A n \in 1..k : g[n] = F[n][g[n - 1]]
           S == {k \in Nat : k <= L => \E g \in [0..k -> X] : Good(g, k)}
<1>1. 0 \in S
  <2> DEFINE g == [n \in 0..0 |-> v]
  <2>1. g \in [0..0 -> X] /\ g[0] = v
    OBVIOUS
  <2>2. Good(g, 0)
    BY <2>1
  <2>3. QED
    BY <2>1, <2>2
<1>2. ASSUME NEW k \in Nat, k \in S PROVE k + 1 \in S
  <2>1. SUFFICES ASSUME k + 1 <= L PROVE \E g \in [0..(k + 1) -> X] : Good(g, k + 1)
    OBVIOUS
  <2>2. PICK g \in [0..k -> X] : Good(g, k)
    BY <1>2, <2>1
  <2> DEFINE h == [n \in 0..(k + 1) |-> IF n = k + 1 THEN F[k + 1][g[k]] ELSE g[n]]
  <2>3. F[k + 1][g[k]] \in X
    <3>1. k + 1 \in 1..L /\ k \in 0..k
      BY <2>1
    <3>2. QED
      BY <3>1 DEF Chains
  <2>4. h \in [0..(k + 1) -> X]
    BY <2>3
  <2>5. h[0] = v
    BY <2>2
  <2>6. ASSUME NEW n \in 1..(k + 1) PROVE h[n] = F[n][h[n - 1]]
    <3>1. CASE n = k + 1
      BY <3>1
    <3>2. CASE n # k + 1
      <4>1. n \in 1..k /\ n - 1 \in 0..k /\ n - 1 # k + 1
        BY <3>2
      <4>2. h[n] = g[n] /\ h[n - 1] = g[n - 1]
        BY <4>1
      <4>3. QED
        BY <2>2, <4>1, <4>2
    <3>3. QED
      BY <3>1, <3>2
  <2>7. QED
    BY <2>4, <2>5, <2>6
<1>3. Nat \subseteq S
  <2> HIDE DEF S
  <2>1. QED
    BY <1>1, <1>2, SetInduction
<1>4. QED
  BY <1>3 DEF Carried

\* A function that is begun and carried on like this stays in X.
Follows(X, v, L, F, h) == h[0] = v /\ \A n \in 1..L : h[n - 1] \in X => h[n] = F[n][h[n - 1]]

LEMMA FollowsWithin ==
  ASSUME NEW X, NEW v \in X, NEW L \in Nat, NEW F \in Chains(L, X), NEW h, Follows(X, v, L, F, h)
  PROVE  \A n \in 0..L : h[n] \in X
<1> DEFINE S == {n \in Nat : n <= L => h[n] \in X}
<1>1. 0 \in S
  BY DEF Follows
<1>2. ASSUME NEW n \in Nat, n \in S PROVE n + 1 \in S
  <2>1. SUFFICES ASSUME n + 1 <= L PROVE h[n + 1] \in X
    OBVIOUS
  <2>2. n + 1 \in 1..L /\ (n + 1) - 1 = n /\ h[n] \in X
    BY <1>2, <2>1
  <2>3. h[n + 1] = F[n + 1][h[n]]
    BY <2>2 DEF Follows
  <2>4. QED
    BY <2>2, <2>3 DEF Chains
<1>3. Nat \subseteq S
  <2> HIDE DEF S
  <2>1. QED
    BY <1>1, <1>2, SetInduction
<1>4. QED
  BY <1>3
-------------------------------------------------------------------------------
(* Modes: 0 and 1, Unknown, and what it was at the entry or the other. *)

Marks == 0..4

\* What was found out about the mode is true of it, or was left to a test.
Fits(u, z) == u \in {z, Unit!Unknown}

\* One effect after the other.
LEMMA EffectsCompose ==
  ASSUME NEW s \in Unit!Bits, NEW t \in Unit!Bits, NEW z \in Unit!Bits, NEW u, NEW e,
         Fits(Unit!Effect(s, u), t), Fits(Unit!Effect(t, e), z)
  PROVE  Fits(Unit!Effect(s, Unit!Effect(u, e)), z)
  BY DEF Fits, Unit!Effect, Unit!Toggle, Unit!Bits, Unit!Unknown, Unit!Entry, Unit!Toggled

LEMMA MergeFits ==
  ASSUME NEW s \in Unit!Bits, NEW z \in Unit!Bits, NEW a, NEW b,
         Fits(Unit!Effect(s, a), z) \/ Fits(Unit!Effect(s, b), z)
  PROVE  Fits(Unit!Effect(s, Unit!Merge(a, b)), z)
  BY DEF Fits, Unit!Merge, Unit!Effect, Unit!Toggle, Unit!Bits, Unit!Unknown, Unit!Entry, Unit!Toggled

LEMMA EffectTyped ==
  ASSUME NEW u \in Marks, NEW e
  PROVE  Unit!Effect(u, e) \in Marks /\ Unit!Toggle(u) \in Marks
  BY DEF Marks, Unit!Effect, Unit!Toggle, Unit!Bits, Unit!Unknown, Unit!Entry, Unit!Toggled

LEMMA TransferTyped ==
  ASSUME NEW i \in Unit!Items, NEW u \in Marks, NEW ss
  PROVE  Unit!Transfer(ss, i, u) \in Marks
<1>1. Unit!Does(ss, i, u) \in Marks
  <2>1. i.v \in {0, 1} /\ {0, 1} \subseteq Marks
    BY DEF Unit!Items, Marks
  <2>2. QED
    BY <2>1, EffectTyped DEF Unit!Does
<1>2. Unit!Unknown \in Marks
  BY DEF Marks, Unit!Unknown
<1>3. QED
  BY <1>1, <1>2 DEF Unit!Transfer, Unit!Merge

\* The mode before an item is that before the last one, transferred over it.
LEMMA ModeBySteps ==
  ASSUME NEW body \in Seq(Unit!Items), NEW m \in Marks, NEW ss
  PROVE  /\ Unit!ModeAt(ss, body, m, 1) = m
         /\ \A n \in 1..Len(body) :
              Unit!ModeAt(ss, body, m, n + 1) = Unit!Transfer(ss, body[n], Unit!ModeAt(ss, body, m, n))
         /\ \A n \in 1..(Len(body) + 1) : Unit!ModeAt(ss, body, m, n) \in Marks
<1> DEFINE L == Len(body)
           F == [n \in 1..L |-> [u \in Marks |-> Unit!Transfer(ss, body[n], u)]]
           D(g) == [k \in 0..L |-> IF k = 0 THEN m ELSE Unit!Transfer(ss, body[k], g[k - 1])]
           after == CHOOSE g : g = D(g)
<1>0. L \in Nat
  BY LenProperties
<1>1. F \in Chains(L, Marks)
  BY TransferTyped, ElementOfSeq DEF Chains
<1>2. PICK g \in [0..L -> Marks] : g[0] = m /\ \A n \in 1..L : g[n] = F[n][g[n - 1]]
  <2> HIDE DEF F, L, D, after
  <2>1. Carried(Marks, m, L, F)
    BY <1>0, <1>1, Iterates
  <2>2. QED
    BY <2>1 DEF Carried
<1>3. ASSUME NEW n \in 1..L PROVE g[n] = Unit!Transfer(ss, body[n], g[n - 1])
  <2>1. n - 1 \in 0..L
    BY <1>0
  <2>2. g[n - 1] \in Marks
    BY <2>1
  <2>3. QED
    BY <1>2, <2>2
<1>4. g = D(g)
  <2>1. \A n \in 0..L : g[n] = D(g)[n]
    BY <1>0, <1>2, <1>3
  <2>2. QED
    BY <2>1
<1>5. after = D(after)
  <2> HIDE DEF D
  <2>1. QED
    BY <1>4
<1>6. ASSUME NEW n PROVE Unit!ModeAt(ss, body, m, n) = after[n - 1]
  BY DEF Unit!ModeAt
<1> HIDE DEF after
<1>7. after[0] = m /\ \A n \in 1..L : after[n] = Unit!Transfer(ss, body[n], after[n - 1])
  <2>1. \A n \in 0..L : after[n] = IF n = 0 THEN m ELSE Unit!Transfer(ss, body[n], after[n - 1])
    BY <1>5, Zenon
  <2>2. 0 \in 0..L /\ \A n \in 1..L : n \in 0..L /\ n # 0
    BY <1>0
  <2>3. QED
    BY <2>1, <2>2
<1>8. Follows(Marks, m, L, F, after)
  BY <1>7 DEF Follows
<1>9. \A n \in 0..L : after[n] \in Marks
  <2> HIDE DEF F, L
  <2>1. QED
    BY <1>0, <1>1, <1>8, FollowsWithin
<1>10. Unit!ModeAt(ss, body, m, 1) = m
  BY <1>6, <1>7
<1>11. ASSUME NEW n \in 1..L
       PROVE  Unit!ModeAt(ss, body, m, n + 1) = Unit!Transfer(ss, body[n], Unit!ModeAt(ss, body, m, n))
  <2>1. (n + 1) - 1 = n
    BY <1>0
  <2>2. QED
    BY <1>6, <1>7, <2>1
<1>12. ASSUME NEW n \in 1..(L + 1) PROVE Unit!ModeAt(ss, body, m, n) \in Marks
  <2>1. n - 1 \in 0..L
    BY <1>0
  <2>2. QED
    BY <1>6, <1>9, <2>1
<1>13. QED
  BY <1>10, <1>11, <1>12

LEMMA ResolveTyped ==
  ASSUME NEW u \in Marks, NEW now \in 0..2
  PROVE  Unit!Resolve(u, now) \in 0..2
  BY DEF Marks, Unit!Resolve, Unit!Effect, Unit!Toggle, Unit!Bits, Unit!Unknown, Unit!Entry, Unit!Toggled

Found == [Unit!Functions -> Unit!Bits \cup {Unit!Unknown, Unit!NotYet}]

LEMMA PushedTyped ==
  ASSUME NEW p \in [1..Count -> Seq(Unit!Items)], NEW ss, NEW e \in Found, NEW f \in Unit!Functions
  PROVE  Unit!Pushed(p, ss, e, f) \in Found
<1> DEFINE all(g) == {Unit!Resolve(site[2], e[f]) : site \in {x \in Unit!Sites(p, ss, f) : x[1] = g}}
                     \cup ({e[g]} \ {Unit!NotYet})
           join(g) == IF all(g) = {} THEN Unit!NotYet
                      ELSE IF Unit!Cardinality(all(g)) = 1 THEN CHOOSE x \in all(g) : TRUE ELSE Unit!Unknown
           joined == [g \in Unit!Functions |-> join(g)]
<1>1. Unit!Pushed(p, ss, e, f) = IF e[f] = Unit!NotYet \/ joined = e THEN e ELSE joined
  BY DEF Unit!Pushed
<1>2. SUFFICES ASSUME e[f] # Unit!NotYet PROVE joined \in Found
  <2> HIDE DEF joined
  <2>1. QED
    BY <1>1
<1>3. e[f] \in 0..2
  BY <1>2 DEF Found, Unit!Bits, Unit!Unknown
<1>4. ASSUME NEW site \in Unit!Sites(p, ss, f) PROVE site[2] \in Marks
  <2>1. PICK n \in DOMAIN p[f] : site = <<p[f][n].g, Unit!ModeAt(ss, p[f], Unit!Entry, n)>>
    BY DEF Unit!Sites
  <2>2. p[f] \in Seq(Unit!Items)
    BY DEF Unit!Functions
  <2>3. n \in 1..(Len(p[f]) + 1)
    BY <2>1, <2>2, LenProperties
  <2>4. Unit!Entry \in Marks
    BY DEF Marks, Unit!Entry
  <2>5. QED
    BY <2>1, <2>2, <2>3, <2>4, ModeBySteps
<1>5. ASSUME NEW g \in Unit!Functions PROVE all(g) \subseteq 0..2
  <2>1. ASSUME NEW site \in Unit!Sites(p, ss, f) PROVE Unit!Resolve(site[2], e[f]) \in 0..2
    BY <1>3, <1>4, ResolveTyped
  <2>2. {e[g]} \ {Unit!NotYet} \subseteq 0..2
    BY DEF Found, Unit!Bits, Unit!Unknown
  <2>3. QED
    BY <2>1, <2>2
<1>6. ASSUME NEW g \in Unit!Functions PROVE join(g) \in 0..2 \cup {Unit!NotYet}
  <2>1. all(g) # {} => (CHOOSE x \in all(g) : TRUE) \in all(g)
    OBVIOUS
  <2> HIDE DEF all
  <2>2. QED
    BY <1>5, <2>1 DEF Unit!Unknown
<1>7. 0..2 \cup {Unit!NotYet} = Unit!Bits \cup {Unit!Unknown, Unit!NotYet}
  BY DEF Unit!Bits, Unit!Unknown
<1> HIDE DEF join
<1>8. QED
  BY <1>6, <1>7 DEF Found

LEMMA RoundBefore == \A n \in 1..32 : n - 1 \in 0..32 /\ n \in 0..32 /\ n # 0
OBVIOUS

\* The entry modes are modes.
LEMMA EntryModesTyped ==
  ASSUME NEW p \in [1..Count -> Seq(Unit!Items)], NEW ss
  PROVE  Unit!EntryModes(p, ss) \in [Unit!Functions -> 0..2]
<1> DEFINE X == [Found -> Found]
           F == [k \in 1..Count |-> [h \in X |-> [e \in Found |-> h[Unit!Pushed(p, ss, e, Count + 1 - k)]]]]
           D(g) == [k \in 0..Count |-> [e \in Found |->
                      IF k = 0 THEN e ELSE g[k - 1][Unit!Pushed(p, ss, e, Count + 1 - k)]]]
           Turns == CHOOSE g : g = D(g)
           G(t) == [n \in 1..32 |-> [h \in X |-> [e \in Found |-> IF t[e] = e THEN e ELSE h[t[e]]]]]
           E(g, t) == [n \in 0..32 |-> [e \in Found |->
                         IF n = 0 \/ t[e] = e THEN e ELSE g[n - 1][t[e]]]]
           Rounds == CHOOSE g : g = E(g, Turns[Count])
           first == [f \in Unit!Functions |-> IF f \in Unit!Called(p, ss) THEN Unit!NotYet ELSE Unit!Unknown]
           joined == Rounds[32][first]
<1>1. Unit!EntryModes(p, ss) = [f \in Unit!Functions |-> IF joined[f] = Unit!NotYet THEN 0 ELSE joined[f]]
  BY DEF Unit!EntryModes, Found
<1>2. Count \in Nat
  BY InferenceAssumption DEF InferenceAssumption
<1> DEFINE same == [e \in Found |-> e]
<1>3. same \in X
  OBVIOUS
<1>4. F \in Chains(Count, X)
  <2>1. ASSUME NEW k \in 1..Count, NEW e \in Found PROVE Unit!Pushed(p, ss, e, Count + 1 - k) \in Found
    <3>1. Count + 1 - k \in Unit!Functions
      BY <1>2 DEF Unit!Functions
    <3>2. QED
      BY <3>1, PushedTyped
  <2>2. QED
    BY <2>1 DEF Chains
<1>5. Turns \in [0..Count -> X]
  <2>1. PICK g \in [0..Count -> X] : g[0] = same /\ \A n \in 1..Count : g[n] = F[n][g[n - 1]]
    <3> HIDE DEF F, X, same, D, Turns
    <3>1. Carried(X, same, Count, F)
      BY <1>2, <1>3, <1>4, Iterates
    <3>2. QED
      BY <3>1 DEF Carried
  <2>2. \A n \in 0..Count : g[n] = D(g)[n]
    <3>1. ASSUME NEW n \in 1..Count PROVE g[n] = D(g)[n]
      <4>1. n - 1 \in 0..Count /\ n \in 0..Count /\ n # 0
        BY <1>2
      <4>2. g[n - 1] \in X
        BY <4>1
      <4>3. g[n] = [e \in Found |-> g[n - 1][Unit!Pushed(p, ss, e, Count + 1 - n)]]
        BY <2>1, <4>2
      <4>4. QED
        BY <4>1, <4>3
    <3>2. g[0] = D(g)[0]
      <4>1. D(g)[0] = same
        BY <1>2
      <4>2. QED
        BY <2>1, <4>1
    <3>3. \A n \in 0..Count : n = 0 \/ n \in 1..Count
      BY <1>2
    <3> HIDE DEF D
    <3>4. QED
      BY <3>1, <3>2, <3>3
  <2>3. g = D(g)
    BY <2>2
  <2>4. Turns = D(Turns)
    <3> HIDE DEF D
    <3>1. QED
      BY <2>3
  <2> HIDE DEF Turns
  <2>5. \A k \in 0..Count : Turns[k] = [e \in Found |->
          IF k = 0 THEN e ELSE Turns[k - 1][Unit!Pushed(p, ss, e, Count + 1 - k)]]
    BY <2>4, Zenon
  <2>6. Follows(X, same, Count, F, Turns)
    <3>1. Turns[0] = same
      <4>1. 0 \in 0..Count
        BY <1>2
      <4>2. Turns[0] = [e \in Found |->
              IF 0 = 0 THEN e ELSE Turns[0 - 1][Unit!Pushed(p, ss, e, Count + 1 - 0)]]
        BY <2>5, <4>1
      <4>3. QED
        BY <4>2, Zenon
    <3>2. ASSUME NEW n \in 1..Count, Turns[n - 1] \in X PROVE Turns[n] = F[n][Turns[n - 1]]
      <4>1. n \in 0..Count /\ n # 0
        BY <1>2
      <4>2. Turns[n] = [e \in Found |-> Turns[n - 1][Unit!Pushed(p, ss, e, Count + 1 - n)]]
        BY <2>5, <4>1
      <4>3. QED
        BY <3>2, <4>2
    <3>3. QED
      BY <3>1, <3>2 DEF Follows
  <2>7. \A n \in 0..Count : Turns[n] \in X
    <3> HIDE DEF F, X, same
    <3>1. QED
      BY <1>2, <1>3, <1>4, <2>6, FollowsWithin
  <2>8. Turns = [k \in 0..Count |-> Turns[k]]
    BY <2>4
  <2>9. QED
    BY <2>7, <2>8
<1> DEFINE T == Turns[Count]
<1>6. T \in [Found -> Found]
  <2> HIDE DEF Turns
  <2>1. QED
    BY <1>2, <1>5
<1>7. Rounds \in [0..32 -> X]
  <2> HIDE DEF Turns
  <2>0. G(T) \in Chains(32, X)
    BY <1>6 DEF Chains
  <2>1. PICK g \in [0..32 -> X] : g[0] = same /\ \A n \in 1..32 : g[n] = G(T)[n][g[n - 1]]
    <3> HIDE DEF G, X, same, E, Rounds
    <3>1. Carried(X, same, 32, G(T))
      BY <1>3, <2>0, Iterates
    <3>2. QED
      BY <3>1 DEF Carried
  <2>2. \A n \in 0..32 : g[n] = E(g, T)[n]
    <3>1. ASSUME NEW n \in 1..32 PROVE g[n] = E(g, T)[n]
      <4>1. n - 1 \in 0..32 /\ n \in 0..32 /\ n # 0
        BY RoundBefore, Zenon
      <4>2. g[n - 1] \in X
        BY <4>1
      <4>3. g[n] = [e \in Found |-> IF T[e] = e THEN e ELSE g[n - 1][T[e]]]
        BY <2>1, <4>2
      <4>4. QED
        BY <4>1, <4>3
    <3>2. g[0] = E(g, T)[0]
      <4> HIDE DEF T
      <4>1. E(g, T)[0] = same
        OBVIOUS
      <4>2. QED
        BY <2>1, <4>1
    <3>3. \A n \in 0..32 : n = 0 \/ n \in 1..32
      OBVIOUS
    <3> HIDE DEF E
    <3>4. QED
      BY <3>1, <3>2, <3>3
  <2>3. g = E(g, T)
    BY <2>2
  <2>4. Rounds = E(Rounds, T)
    <3> HIDE DEF E, T
    <3>1. Rounds = CHOOSE h : h = E(h, T)
      BY DEF T
    <3>2. QED
      BY <2>3, <3>1
  <2> HIDE DEF Rounds
  <2>5. \A n \in 0..32 : Rounds[n] = [e \in Found |-> IF n = 0 \/ T[e] = e THEN e ELSE Rounds[n - 1][T[e]]]
    <3> HIDE DEF T
    <3>1. QED
      BY <2>4, Zenon
  <2>6. Follows(X, same, 32, G(T), Rounds)
    <3> HIDE DEF T
    <3>1. Rounds[0] = same
      <4>1. 0 \in 0..32
        OBVIOUS
      <4>2. Rounds[0] = [e \in Found |-> IF 0 = 0 \/ T[e] = e THEN e ELSE Rounds[0 - 1][T[e]]]
        BY <2>5, <4>1, Zenon
      <4>3. \A e \in Found : (IF 0 = 0 \/ T[e] = e THEN e ELSE Rounds[0 - 1][T[e]]) = e
        BY Zenon
      <4>4. QED
        BY <4>2, <4>3, Zenon
    <3>2. ASSUME NEW n \in 1..32, Rounds[n - 1] \in X PROVE Rounds[n] = G(T)[n][Rounds[n - 1]]
      <4>1. n \in 0..32 /\ n # 0
        BY RoundBefore, Zenon
      <4>2. Rounds[n] = [e \in Found |-> IF n = 0 \/ T[e] = e THEN e ELSE Rounds[n - 1][T[e]]]
        BY <2>5, <4>1, Zenon
      <4>3. \A e \in Found : (n = 0 \/ T[e] = e) <=> T[e] = e
        BY <4>1
      <4>4. Rounds[n] = [e \in Found |-> IF T[e] = e THEN e ELSE Rounds[n - 1][T[e]]]
        <5> HIDE DEF Found
        <5>1. QED
          BY <4>2, <4>3
      <4>5. QED
        BY <3>2, <4>4
    <3>3. QED
      BY <3>1, <3>2 DEF Follows
  <2>7. \A n \in 0..32 : Rounds[n] \in X
    <3> HIDE DEF G, X, same
    <3>1. QED
      BY <1>3, <2>0, <2>6, FollowsWithin
  <2>8. Rounds = [n \in 0..32 |-> Rounds[n]]
    BY <2>4
  <2>9. QED
    BY <2>7, <2>8
<1>8. first \in Found
  BY DEF Found
<1>9. joined \in Found
  <2> HIDE DEF Rounds, first
  <2>1. QED
    BY <1>7, <1>8
<1> HIDE DEF joined
<1>10. \A f \in Unit!Functions : (IF joined[f] = Unit!NotYet THEN 0 ELSE joined[f]) \in 0..2
  BY <1>9 DEF Found, Unit!Bits, Unit!Unknown
<1>11. QED
  BY <1>1, <1>10

-------------------------------------------------------------------------------
(* The run. *)

Frames == [f : Unit!Functions, n : Nat \ {0}, saved : Unit!Bits, indirect : BOOLEAN]

\* The mode before the next item of a frame, from that at its entry; of item n of its body.
BodyOf(fr)    == unit[fr.f]
Before(fr, n) == Unit!ModeAt(sums, BodyOf(fr), Unit!Entry, n)
FitsAt(fr, n, z) == Fits(Unit!Effect(fr.saved, Before(fr, n)), z)

\* Every frame was entered in the mode its function was compiled for, and waits at the call of
\* the one above; what was found out about the mode at that call is true of it, and what was
\* found out about the mode now.
CompiledFor(fr) == modes[fr.f] \in {fr.saved, Unit!Unknown}
WaitsFor(fr, callee) ==
  /\ fr.n >= 2
  /\ BodyOf(fr)[fr.n - 1].k = (IF callee.indirect THEN "icall" ELSE "call")
  /\ BodyOf(fr)[fr.n - 1].g = callee.f
  /\ FitsAt(fr, fr.n - 1, callee.saved)
InStep ==
  /\ \A k \in 1..Len(stack) : CompiledFor(stack[k])
  /\ \A k \in 1..(Len(stack) - 1) : WaitsFor(stack[k], stack[k + 1])
  /\ stack # << >> => FitsAt(Unit!Top, Unit!Top.n, sz)

UnitTypeOK ==
  /\ unit \in [1..Count -> Seq(Unit!Items)]
  /\ modes \in [Unit!Functions -> 0..2]
  /\ stack \in Seq(Frames)
  /\ \A k \in 1..Len(stack) : stack[k].n <= Len(BodyOf(stack[k])) + 1
  /\ sz \in Unit!Bits /\ mismatches \in Nat /\ changedBy \in BOOLEAN

UnitInv == UnitTypeOK /\ (Unit!SummariesSettled /\ mismatches = 0 /\ ~changedBy => InStep)

\* What a frame's body does to the mode is its function's summary, when the body has ended.
LEMMA EndFits ==
  ASSUME UnitTypeOK, Unit!SummariesSettled, NEW fr \in Frames, NEW z \in Unit!Bits,
         FitsAt(fr, Len(BodyOf(fr)) + 1, z),
         NEW after, after = IF Unit!Keeps(BodyOf(fr)) THEN fr.saved ELSE z
  PROVE  Fits(Unit!Effect(fr.saved, sums[fr.f]), after) /\ fr.f \in DOMAIN sums
<1>1. fr.f \in Unit!Functions /\ fr.saved \in Unit!Bits
  BY DEF Frames
<1>2. fr.f \in DOMAIN sums /\ sums[fr.f] \in {Unit!Summary(sums, unit[fr.f]), Unit!Unknown}
  BY <1>1 DEF Unit!SummariesSettled
<1>3. Fits(Unit!Effect(fr.saved, Unit!Summary(sums, unit[fr.f])), after)
  <2>1. CASE Unit!Keeps(BodyOf(fr))
    <3>1. Unit!Summary(sums, unit[fr.f]) = Unit!Entry
      BY <2>1 DEF Unit!Summary, BodyOf
    <3>2. Unit!Effect(fr.saved, Unit!Entry) = fr.saved /\ after = fr.saved
      BY <2>1 DEF Unit!Effect, Unit!Entry, Unit!Toggled, Unit!Bits
    <3>3. QED
      BY <3>1, <3>2 DEF Fits
  <2>2. CASE ~Unit!Keeps(BodyOf(fr))
    BY <2>2 DEF Unit!Summary, BodyOf, FitsAt, Before
  <2>3. QED
    BY <2>1, <2>2
<1>4. Fits(Unit!Effect(fr.saved, Unit!Unknown), after)
  BY DEF Fits, Unit!Effect, Unit!Bits, Unit!Unknown, Unit!Entry, Unit!Toggled
<1>5. QED
  BY <1>2, <1>3, <1>4

\* The mode after an item: what executing it or skipping it leaves fits.
LEMMA StepFits ==
  ASSUME UnitTypeOK, NEW fr \in Frames, NEW n \in 1..Len(BodyOf(fr)), NEW z \in Unit!Bits,
         LET i == BodyOf(fr)[n] IN
           \/ FitsAt(fr, n, z) /\ (i.may \/ i.k = "keep" \/ i.k = "icall")
           \/ Fits(Unit!Effect(fr.saved, Unit!Does(sums, i, Before(fr, n))), z)
  PROVE  FitsAt(fr, n + 1, z)
<1> DEFINE i == BodyOf(fr)[n]
<1>1. fr.f \in 1..Count /\ BodyOf(fr) \in Seq(Unit!Items) /\ fr.saved \in Unit!Bits
  BY DEF Frames, UnitTypeOK, BodyOf, Unit!Functions
<1>2. Unit!Entry \in Marks
  BY DEF Marks, Unit!Entry
<1>3. Before(fr, n + 1) = Unit!Transfer(sums, i, Before(fr, n))
  BY <1>1, <1>2, ModeBySteps DEF Before
<1>4. i \in Unit!Items
  BY <1>1, ElementOfSeq
<1>5. i.k \in {"keep", "icall"} => Unit!Does(sums, i, Before(fr, n)) = Before(fr, n)
  BY DEF Unit!Does
<1>6. CASE i.may
  <2>1. \/ Fits(Unit!Effect(fr.saved, Before(fr, n)), z)
        \/ Fits(Unit!Effect(fr.saved, Unit!Does(sums, i, Before(fr, n))), z)
    BY DEF FitsAt
  <2>2. Fits(Unit!Effect(fr.saved, Unit!Merge(Before(fr, n), Unit!Does(sums, i, Before(fr, n)))), z)
    BY <1>1, <2>1, MergeFits
  <2>3. QED
    BY <1>3, <1>6, <2>2 DEF FitsAt, Unit!Transfer
<1>7. CASE ~i.may
  <2>1. Fits(Unit!Effect(fr.saved, Unit!Does(sums, i, Before(fr, n))), z)
    BY <1>5, <1>7 DEF FitsAt
  <2>2. QED
    BY <1>3, <1>7, <2>1 DEF FitsAt, Unit!Transfer
<1>8. QED
  BY <1>6, <1>7

\* The frames below the top, when the top alone changes.
LEMMA TopFrame ==
  ASSUME UnitTypeOK, stack # << >>
  PROVE  /\ Unit!Top \in Frames /\ Len(stack) \in Nat \ {0} /\ Unit!Top = stack[Len(stack)]
         /\ BodyOf(Unit!Top) = Unit!Body /\ Unit!Body \in Seq(Unit!Items)
         /\ Unit!Top.f \in Unit!Functions /\ Unit!Top.saved \in Unit!Bits /\ Unit!Top.n \in Nat \ {0}
         /\ Unit!Top.n <= Len(Unit!Body) + 1
<1>1. Len(stack) \in Nat \ {0} /\ Unit!Top = stack[Len(stack)]
  BY EmptySeq, LenProperties DEF UnitTypeOK, Unit!Top
<1>2. Len(stack) \in 1..Len(stack)
  BY <1>1
<1>3. Unit!Top \in Frames
  BY <1>1, <1>2, ElementOfSeq DEF UnitTypeOK
<1>4. BodyOf(Unit!Top) = Unit!Body
  BY DEF BodyOf, Unit!Body
<1>5. Unit!Top.f \in Unit!Functions /\ Unit!Top.saved \in Unit!Bits /\ Unit!Top.n \in Nat \ {0}
  BY <1>3 DEF Frames
<1>6. Unit!Body \in Seq(Unit!Items)
  BY <1>5 DEF UnitTypeOK, Unit!Body, Unit!Functions
<1>7. Unit!Top.n <= Len(Unit!Body) + 1
  BY <1>1, <1>2, <1>4 DEF UnitTypeOK
<1>8. QED
  BY <1>1, <1>3, <1>4, <1>5, <1>6, <1>7

\* The stack with the top's next item one further.
LEMMA Advanced ==
  ASSUME UnitTypeOK, stack # << >>, Unit!Top.n <= Len(Unit!Body)
  PROVE  /\ Unit!Advance \in Seq(Frames) /\ Len(Unit!Advance) = Len(stack)
         /\ \A k \in 1..(Len(stack) - 1) : Unit!Advance[k] = stack[k]
         /\ Unit!Advance[Len(stack)] \in Frames
         /\ Unit!Advance[Len(stack)] = [Unit!Top EXCEPT !.n = Unit!Top.n + 1]
         /\ Unit!Advance[Len(stack)].f = Unit!Top.f /\ Unit!Advance[Len(stack)].n = Unit!Top.n + 1
         /\ Unit!Advance[Len(stack)].saved = Unit!Top.saved
<1>1. /\ Unit!Top \in Frames /\ Len(stack) \in Nat \ {0} /\ Unit!Top = stack[Len(stack)]
      /\ Unit!Top.n \in Nat \ {0}
  BY TopFrame
<1> DEFINE next == [Unit!Top EXCEPT !.n = Unit!Top.n + 1]
<1>2. next \in Frames /\ next.f = Unit!Top.f /\ next.n = Unit!Top.n + 1 /\ next.saved = Unit!Top.saved
  BY <1>1 DEF Frames
<1>3. Unit!Advance = [stack EXCEPT ![Len(stack)] = next]
  BY <1>1 DEF Unit!Advance
<1>4. stack \in Seq(Frames) /\ Len(stack) \in 1..Len(stack)
  BY <1>1 DEF UnitTypeOK
<1> HIDE DEF next
<1>5. Unit!Advance \in Seq(Frames) /\ Len(Unit!Advance) = Len(stack)
      /\ \A k \in 1..Len(stack) : Unit!Advance[k] = IF k = Len(stack) THEN next ELSE stack[k]
  BY <1>2, <1>3, <1>4, ExceptSeq
<1>6. Unit!Advance[Len(stack)] = next /\ \A k \in 1..(Len(stack) - 1) : Unit!Advance[k] = stack[k]
  BY <1>1, <1>4, <1>5
<1>7. QED
  BY <1>2, <1>5, <1>6 DEF next

LEMMA UnitInit == ASSUME Unit!Init PROVE UnitInv
<1>1. Count \in Nat \ {0} /\ unit \in [1..Count -> Seq(Unit!Items)]
  BY InferenceAssumption DEF InferenceAssumption, Unit!Init
<1>2. modes \in [Unit!Functions -> 0..2]
  BY <1>1, EntryModesTyped DEF Unit!Init
<1> DEFINE first == Unit!Frame(1, FALSE)
<1>3. sz \in Unit!Bits /\ 1 \in Unit!Functions /\ first \in Frames /\ first.f = 1 /\ first.n = 1 /\ first.saved = sz
  BY <1>1 DEF Unit!Init, Unit!Frame, Frames, Unit!Functions
<1> HIDE DEF first
<1>4. stack = <<first>>
  BY DEF Unit!Init, first
<1>5. stack \in Seq(Frames) /\ Len(stack) = 1 /\ stack[1] = first /\ stack # << >>
  BY <1>3, <1>4
<1>6. unit[1] \in Seq(Unit!Items)
  BY <1>1
<1>7. UnitTypeOK
  <2>1. first.n <= Len(BodyOf(first)) + 1
    BY <1>3, <1>6, LenProperties DEF BodyOf
  <2>2. mismatches \in Nat /\ changedBy \in BOOLEAN
    BY DEF Unit!Init
  <2>3. \A k \in 1..Len(stack) : stack[k] = first
    BY <1>5
  <2>4. QED
    BY <1>1, <1>2, <1>3, <1>5, <2>1, <2>2, <2>3 DEF UnitTypeOK
<1>8. ASSUME mismatches = 0 PROVE InStep
  <2>1. CompiledFor(first)
    <3>1. ~(modes[1] \in Unit!Bits \ {sz})
      BY <1>8 DEF Unit!Init
    <3>2. modes[1] \in 0..2
      BY <1>2, <1>3
    <3>3. QED
      BY <1>3, <3>1, <3>2 DEF CompiledFor, Unit!Bits, Unit!Unknown
  <2>2. FitsAt(first, first.n, sz)
    <3>1. Unit!Entry \in Marks
      BY DEF Marks, Unit!Entry
    <3>2. Before(first, 1) = Unit!Entry
      BY <1>3, <1>6, <3>1, ModeBySteps DEF Before, BodyOf
    <3>3. Unit!Effect(sz, Unit!Entry) = sz
      BY <1>3 DEF Unit!Effect, Unit!Entry, Unit!Toggled, Unit!Bits
    <3>4. QED
      BY <1>3, <3>2, <3>3 DEF FitsAt, Fits
  <2>3. Unit!Top = first
    BY <1>5 DEF Unit!Top
  <2>4. \A k \in 1..Len(stack) : stack[k] = first
    BY <1>5
  <2>5. 1..(Len(stack) - 1) = {}
    BY <1>5
  <2>6. QED
    BY <2>1, <2>2, <2>3, <2>4, <2>5 DEF InStep
<1>9. QED
  BY <1>7, <1>8 DEF UnitInv

\* What a step of the run has to leave.
LEMMA InStepNext ==
  ASSUME UNCHANGED <<unit, sums, modes>>,
         \A k \in 1..Len(stack') : CompiledFor(stack'[k]),
         \A k \in 1..(Len(stack') - 1) : WaitsFor(stack'[k], stack'[k + 1]),
         stack' # << >> => FitsAt(stack'[Len(stack')], stack'[Len(stack')].n, sz')
  PROVE  InStep'
<1>1. \A k \in 1..Len(stack') : CompiledFor(stack[k])'
  BY DEF CompiledFor
<1>2. \A k \in 1..(Len(stack') - 1) : WaitsFor(stack[k], stack[k + 1])'
  BY DEF WaitsFor, BodyOf, FitsAt, Before
<1>3. stack' # << >> => FitsAt(Unit!Top, Unit!Top.n, sz)'
  BY DEF FitsAt, Before, BodyOf, Unit!Top
<1>4. QED
  BY <1>1, <1>2, <1>3 DEF InStep

LEMMA TypeNext ==
  ASSUME UnitTypeOK, UNCHANGED <<unit, sums, modes>>, stack' \in Seq(Frames),
         \A k \in 1..Len(stack') : stack'[k].n <= Len(BodyOf(stack'[k])) + 1,
         sz' \in Unit!Bits, mismatches' \in Nat, changedBy' \in BOOLEAN
  PROVE  UnitTypeOK'
<1>1. \A k \in 1..Len(stack') : (stack[k].n <= Len(BodyOf(stack[k])) + 1)'
  BY DEF BodyOf
<1>2. QED
  BY <1>1 DEF UnitTypeOK

LEMMA InvNext ==
  ASSUME UNCHANGED <<unit, sums, modes>>, UnitTypeOK',
         Unit!SummariesSettled /\ mismatches' = 0 /\ ~changedBy' => InStep'
  PROVE  UnitInv'
<1>1. Unit!SummariesSettled' => Unit!SummariesSettled
  BY DEF Unit!SummariesSettled
<1>2. QED
  BY <1>1 DEF UnitInv

\* The top goes on by an item.
LEMMA AdvanceKeeps ==
  ASSUME UnitInv, stack # << >>, Unit!Top.n <= Len(Unit!Body), stack' = Unit!Advance,
         UNCHANGED <<unit, sums, modes, mismatches, changedBy>>, sz' \in Unit!Bits,
         InStep => FitsAt(Unit!Top, Unit!Top.n + 1, sz')
  PROVE  UnitInv'
<1>0. UnitTypeOK
  BY DEF UnitInv
<1>1. /\ stack' \in Seq(Frames) /\ Len(stack') = Len(stack) /\ Len(stack) \in Nat \ {0}
      /\ \A k \in 1..(Len(stack) - 1) : stack'[k] = stack[k]
      /\ stack'[Len(stack)].f = Unit!Top.f /\ stack'[Len(stack)].n = Unit!Top.n + 1
      /\ stack'[Len(stack)].saved = Unit!Top.saved
      /\ stack'[Len(stack)] = [Unit!Top EXCEPT !.n = Unit!Top.n + 1]
      /\ Unit!Top = stack[Len(stack)] /\ BodyOf(Unit!Top) = Unit!Body /\ Unit!Top \in Frames
      /\ Unit!Top.n \in Nat \ {0}
  BY <1>0, Advanced, TopFrame
<1> DEFINE L == Len(stack)
           next == stack'[L]
<1>2. \A k \in 1..L : k = L \/ k \in 1..(L - 1)
  BY <1>1
<1>3. next.indirect = Unit!Top.indirect
  BY <1>1 DEF Frames
<1>4. UnitTypeOK'
  <2>1. ASSUME NEW k \in 1..Len(stack') PROVE stack'[k].n <= Len(BodyOf(stack'[k])) + 1
    <3>1. CASE k = L
      <4>1. BodyOf(stack'[k]) = Unit!Body /\ stack'[k].n = Unit!Top.n + 1
        BY <1>1, <3>1 DEF BodyOf
      <4>2. Len(Unit!Body) \in Nat
        BY <1>0, TopFrame, LenProperties
      <4>3. QED
        BY <1>1, <3>1, <4>1, <4>2
    <3>2. CASE k \in 1..(L - 1)
      BY <1>0, <1>1, <3>2 DEF UnitTypeOK
    <3>3. QED
      BY <1>1, <1>2, <3>1, <3>2
  <2>2. mismatches' \in Nat /\ changedBy' \in BOOLEAN
    BY <1>0 DEF UnitTypeOK
  <2>3. QED
    BY <1>0, <1>1, <2>1, <2>2, TypeNext
<1>5. ASSUME Unit!SummariesSettled, mismatches' = 0, ~changedBy' PROVE InStep'
  <2>1. InStep
    BY <1>5 DEF UnitInv
  <2>2. ASSUME NEW k \in 1..Len(stack') PROVE CompiledFor(stack'[k])
    <3>1. CompiledFor(stack[k])
      BY <1>1, <2>1 DEF InStep
    <3>2. stack'[k].f = stack[k].f /\ stack'[k].saved = stack[k].saved
      BY <1>1, <1>2
    <3>3. QED
      BY <3>1, <3>2 DEF CompiledFor
  <2>3. ASSUME NEW k \in 1..(Len(stack') - 1) PROVE WaitsFor(stack'[k], stack'[k + 1])
    <3>1. WaitsFor(stack[k], stack[k + 1]) /\ stack'[k] = stack[k]
      BY <1>1, <2>1 DEF InStep
    <3>2. k + 1 \in 1..L
      BY <1>1
    <3>3. /\ stack'[k + 1].f = stack[k + 1].f /\ stack'[k + 1].saved = stack[k + 1].saved
          /\ stack'[k + 1].indirect = stack[k + 1].indirect
      BY <1>1, <1>2, <1>3, <3>2
    <3>4. QED
      BY <3>1, <3>3 DEF WaitsFor
  <2>4. FitsAt(next, next.n, sz')
    BY <1>1, <2>1 DEF FitsAt, Before, BodyOf
  <2>5. QED
    BY <1>1, <2>2, <2>3, <2>4, InStepNext
<1>6. QED
  BY <1>4, <1>5, InvNext

LEMMA ExecuteKeeps == ASSUME UnitInv, Unit!Execute PROVE UnitInv'
<1>1. /\ UNCHANGED <<unit, sums, modes, changedBy>> /\ stack # << >> /\ Unit!Top.n <= Len(Unit!Body)
      /\ UnitTypeOK
  BY DEF Unit!Execute, UnitInv
<1>2. /\ Unit!Top \in Frames /\ Len(stack) \in Nat \ {0} /\ Unit!Top = stack[Len(stack)]
      /\ BodyOf(Unit!Top) = Unit!Body /\ Unit!Body \in Seq(Unit!Items)
      /\ Unit!Top.f \in Unit!Functions /\ Unit!Top.saved \in Unit!Bits /\ Unit!Top.n \in Nat \ {0}
  BY <1>1, TopFrame
<1>3. Unit!Top.n \in 1..Len(Unit!Body)
  BY <1>1, <1>2, LenProperties
<1> DEFINE i == Unit!Body[Unit!Top.n]
           u == Before(Unit!Top, Unit!Top.n)
<1>4. i \in Unit!Items /\ i = BodyOf(Unit!Top)[Unit!Top.n]
  BY <1>2, <1>3, ElementOfSeq
<1>5. sz \in Unit!Bits /\ mismatches \in Nat /\ modes \in [Unit!Functions -> 0..2]
  BY <1>1 DEF UnitTypeOK
<1>6. InStep => Fits(Unit!Effect(Unit!Top.saved, u), sz)
  BY <1>1 DEF InStep, FitsAt
<1> DEFINE Skips == i.may \/ i.k = "keep"
           Sets  == i.k \in {"tog", "set"} /\ sz' = IF i.k = "tog" THEN 1 - sz ELSE i.v
           Calls == /\ i.k \in {"call", "icall"}
                    /\ stack' = Append(Unit!Advance, Unit!Frame(i.g, i.k = "icall"))
                    /\ mismatches' = Unit!Check(i.g, sz)
<1>7. CASE Skips /\ stack' = Unit!Advance /\ UNCHANGED <<sz, mismatches>>
  <2>1. InStep => FitsAt(Unit!Top, Unit!Top.n + 1, sz')
    BY <1>1, <1>2, <1>3, <1>4, <1>5, <1>6, <1>7, StepFits DEF FitsAt
  <2>2. QED
    BY <1>1, <1>5, <1>7, <2>1, AdvanceKeeps
<1>8. CASE Sets /\ stack' = Unit!Advance /\ UNCHANGED mismatches
  <2>1. sz' \in Unit!Bits
    BY <1>4, <1>5, <1>8 DEF Unit!Items, Unit!Bits
  <2>2. InStep => Fits(Unit!Effect(Unit!Top.saved, Unit!Does(sums, i, u)), sz')
    <3>1. CASE i.k = "tog"
      <4>1. Unit!Does(sums, i, u) = Unit!Toggle(u) /\ sz' = 1 - sz
        BY <1>8, <3>1 DEF Unit!Does
      <4>2. QED
        BY <1>2, <1>5, <1>6, <4>1 DEF Fits, Unit!Effect, Unit!Toggle, Unit!Bits, Unit!Unknown,
          Unit!Entry, Unit!Toggled
    <3>2. CASE i.k = "set"
      <4>1. Unit!Does(sums, i, u) = i.v /\ sz' = i.v /\ i.v \in Unit!Bits
        BY <1>8, <2>1, <3>2 DEF Unit!Does
      <4>2. QED
        BY <4>1 DEF Fits, Unit!Effect, Unit!Bits, Unit!Entry, Unit!Toggled
    <3>3. QED
      BY <1>8, <3>1, <3>2
  <2>3. InStep => FitsAt(Unit!Top, Unit!Top.n + 1, sz')
    BY <1>1, <1>2, <1>3, <1>4, <2>1, <2>2, StepFits
  <2>4. QED
    BY <1>1, <1>8, <2>1, <2>3, AdvanceKeeps
<1>9. CASE Calls /\ UNCHANGED sz
  <2> DEFINE fr == Unit!Frame(i.g, i.k = "icall")
             L  == Len(stack)
             at == Unit!Advance[L]
  <2>1. /\ fr \in Frames /\ fr.f = i.g /\ fr.n = 1 /\ fr.saved = sz /\ fr.indirect = (i.k = "icall")
        /\ i.g \in Unit!Functions
    BY <1>4, <1>5, <1>9 DEF Unit!Frame, Frames, Unit!Items
  <2>2. /\ Unit!Advance \in Seq(Frames) /\ Len(Unit!Advance) = L
        /\ \A k \in 1..(L - 1) : Unit!Advance[k] = stack[k]
        /\ at \in Frames /\ at = [Unit!Top EXCEPT !.n = Unit!Top.n + 1]
        /\ at.f = Unit!Top.f /\ at.n = Unit!Top.n + 1 /\ at.saved = Unit!Top.saved
    BY <1>1, Advanced
  <2>3. at.indirect = Unit!Top.indirect
    BY <1>2, <2>2 DEF Frames
  <2> HIDE DEF fr, at
  <2>4. /\ stack' \in Seq(Frames) /\ Len(stack') = L + 1 /\ stack' # << >>
        /\ \A k \in 1..L : stack'[k] = Unit!Advance[k]
        /\ stack'[L + 1] = fr
    BY <1>9, <2>1, <2>2, AppendProperties DEF fr
  <2>5. \A k \in 1..(L + 1) : k = L + 1 \/ k = L \/ k \in 1..(L - 1)
    BY <1>2
  <2>6. /\ \A k \in 1..(L - 1) : stack'[k] = stack[k]
        /\ stack'[L] = at
    BY <1>2, <2>2, <2>4 DEF at
  <2>7. mismatches' \in Nat /\ (mismatches' = 0 => mismatches = 0 /\ modes[i.g] \in {sz, Unit!Unknown})
    <3>1. modes[i.g] \in 0..2
      BY <1>5, <2>1
    <3>2. QED
      BY <1>5, <1>9, <3>1 DEF Unit!Check, Unit!Bits, Unit!Unknown
  <2>8. UnitTypeOK'
    <3>1. ASSUME NEW k \in 1..Len(stack') PROVE stack'[k].n <= Len(BodyOf(stack'[k])) + 1
      <4>1. CASE k = L + 1
        <5>1. unit[i.g] \in Seq(Unit!Items)
          BY <1>1, <2>1 DEF UnitTypeOK, Unit!Functions
        <5>2. BodyOf(stack'[k]) = unit[i.g] /\ stack'[k].n = 1
          BY <2>1, <2>4, <4>1 DEF BodyOf
        <5>3. QED
          BY <5>1, <5>2, LenProperties
      <4>2. CASE k = L
        <5>1. BodyOf(stack'[k]) = Unit!Body /\ stack'[k].n = Unit!Top.n + 1
          BY <1>2, <2>2, <2>6, <4>2 DEF BodyOf, at
        <5>2. QED
          BY <1>3, <5>1, SMTT(20)
      <4>3. CASE k \in 1..(L - 1)
        <5>1. stack'[k] = stack[k] /\ k \in 1..Len(stack)
          BY <1>2, <2>6, <4>3
        <5>2. stack[k].n <= Len(BodyOf(stack[k])) + 1
          BY <1>1, <5>1 DEF UnitTypeOK
        <5>3. QED
          BY <5>1, <5>2
      <4>4. QED
        BY <2>4, <2>5, <4>1, <4>2, <4>3
    <3>2. changedBy' \in BOOLEAN
      BY <1>1 DEF UnitTypeOK
    <3>3. QED
      BY <1>1, <1>5, <1>9, <2>4, <2>7, <3>1, <3>2, TypeNext
  <2>9. ASSUME Unit!SummariesSettled, mismatches' = 0, ~changedBy' PROVE InStep'
    <3>1. InStep
      BY <1>1, <2>7, <2>9 DEF UnitInv
    <3>2. ASSUME NEW k \in 1..Len(stack') PROVE CompiledFor(stack'[k])
      <4>1. CASE k = L + 1
        BY <2>1, <2>4, <2>7, <2>9, <4>1 DEF CompiledFor
      <4>2. CASE k \in 1..L
        <5>1. stack'[k].f = stack[k].f /\ stack'[k].saved = stack[k].saved
          <6>1. CASE k = L
            BY <1>2, <2>2, <2>6, <6>1 DEF at
          <6>2. CASE k \in 1..(L - 1)
            BY <2>6, <6>2
          <6>3. QED
            BY <1>2, <4>2, <6>1, <6>2
        <5>2. CompiledFor(stack[k])
          BY <3>1, <4>2 DEF InStep
        <5>3. QED
          BY <5>1, <5>2 DEF CompiledFor
      <4>3. QED
        BY <1>2, <2>4, <4>1, <4>2
    <3>3. ASSUME NEW k \in 1..(Len(stack') - 1) PROVE WaitsFor(stack'[k], stack'[k + 1])
      <4>1. CASE k = L
        <5>1. /\ stack'[k].f = Unit!Top.f /\ stack'[k].n = Unit!Top.n + 1
              /\ stack'[k].saved = Unit!Top.saved /\ stack'[k + 1] = fr
          BY <1>2, <2>2, <2>4, <2>6, <4>1 DEF at
        <5>2. stack'[k].n >= 2 /\ stack'[k].n - 1 = Unit!Top.n
          BY <1>2, <5>1
        <5>3. BodyOf(stack'[k])[stack'[k].n - 1] = i
          BY <1>4, <5>1, <5>2 DEF BodyOf
        <5>4. FitsAt(stack'[k], stack'[k].n - 1, fr.saved)
          BY <1>6, <2>1, <3>1, <5>1, <5>2 DEF FitsAt, Before, BodyOf
        <5>5. i.k = (IF fr.indirect THEN "icall" ELSE "call") /\ i.g = fr.f
          BY <1>9, <2>1
        <5>6. QED
          BY <5>1, <5>2, <5>3, <5>4, <5>5 DEF WaitsFor
      <4>2. CASE k \in 1..(L - 1)
        <5>1. WaitsFor(stack[k], stack[k + 1]) /\ stack'[k] = stack[k]
          BY <2>6, <3>1, <4>2 DEF InStep
        <5>2. /\ stack'[k + 1].f = stack[k + 1].f /\ stack'[k + 1].saved = stack[k + 1].saved
              /\ stack'[k + 1].indirect = stack[k + 1].indirect
          <6>1. k + 1 = L \/ k + 1 \in 1..(L - 1)
            BY <1>2, <4>2
          <6>2. QED
            BY <1>2, <2>2, <2>3, <2>6, <6>1 DEF at
        <5>3. QED
          BY <5>1, <5>2 DEF WaitsFor
      <4>3. QED
        BY <1>2, <2>4, <4>1, <4>2
    <3>4. FitsAt(fr, fr.n, sz)
      <4>1. Unit!Entry \in Marks
        BY DEF Marks, Unit!Entry
      <4>2. unit[i.g] \in Seq(Unit!Items)
        BY <1>1, <2>1 DEF UnitTypeOK, Unit!Functions
      <4>3. Before(fr, 1) = Unit!Entry
        BY <2>1, <4>1, <4>2, ModeBySteps DEF Before, BodyOf
      <4>4. Unit!Effect(sz, Unit!Entry) = sz
        BY <1>5 DEF Unit!Effect, Unit!Entry, Unit!Toggled, Unit!Bits
      <4>5. QED
        BY <2>1, <4>3, <4>4 DEF FitsAt, Fits
    <3>5. FitsAt(stack'[Len(stack')], stack'[Len(stack')].n, sz')
      BY <1>9, <2>4, <3>4
    <3>6. QED
      BY <1>1, <3>2, <3>3, <3>5, InStepNext
  <2>10. QED
    BY <1>1, <2>8, <2>9, InvNext
<1>10. QED
  BY <1>7, <1>8, <1>9 DEF Unit!Execute

LEMMA ReturnKeeps == ASSUME UnitInv, Unit!Return PROVE UnitInv'
<1>1. /\ UNCHANGED <<unit, sums, modes, mismatches>> /\ stack # << >> /\ Unit!Top.n > Len(Unit!Body)
      /\ sz' = (IF Unit!Keeps(Unit!Body) THEN Unit!Top.saved ELSE sz)
      /\ changedBy' = (changedBy \/ (Unit!Top.indirect /\ sz' # Unit!Top.saved))
      /\ stack' = Unit!Front(stack) /\ UnitTypeOK
  BY DEF Unit!Return, UnitInv
<1>2. /\ Unit!Top \in Frames /\ Len(stack) \in Nat \ {0} /\ Unit!Top = stack[Len(stack)]
      /\ BodyOf(Unit!Top) = Unit!Body /\ Unit!Body \in Seq(Unit!Items)
      /\ Unit!Top.f \in Unit!Functions /\ Unit!Top.saved \in Unit!Bits /\ Unit!Top.n \in Nat \ {0}
      /\ Unit!Top.n <= Len(Unit!Body) + 1
  BY <1>1, TopFrame
<1> DEFINE L == Len(stack)
<1>3. /\ stack' \in Seq(Frames) /\ Len(stack') = L - 1
      /\ \A k \in 1..(L - 1) : stack'[k] = stack[k]
  <2> HIDE DEF L
  <2>1. L \in Nat \ {0} /\ L = Len(stack) /\ stack \in Seq(Frames)
    BY <1>1, <1>2 DEF UnitTypeOK, L
  <2>2. stack' = SubSeq(stack, 1, L - 1)
    BY <1>1, <2>1 DEF Unit!Front
  <2>3. \A k \in 1..(L - 1) : stack[k] \in Frames
    BY <2>1, ElementOfSeq
  <2>4. 1 \in Int /\ L - 1 \in Int /\ (L - 1) - 1 + 1 = L - 1
    BY <2>1
  <2>5. /\ SubSeq(stack, 1, L - 1) \in Seq(Frames)
        /\ Len(SubSeq(stack, 1, L - 1)) = IF 1 <= L - 1 THEN (L - 1) - 1 + 1 ELSE 0
        /\ \A k \in 1..(L - 1) - 1 + 1 : SubSeq(stack, 1, L - 1)[k] = stack[1 + k - 1]
    BY <2>3, <2>4, SubSeqProperties
  <2>6. (IF 1 <= L - 1 THEN (L - 1) - 1 + 1 ELSE 0) = L - 1
    BY <2>1
  <2>7. \A k \in 1..(L - 1) : 1 + k - 1 = k
    OBVIOUS
  <2>8. QED
    BY <2>2, <2>4, <2>5, <2>6, <2>7
<1>4. sz \in Unit!Bits /\ changedBy \in BOOLEAN /\ Unit!Top.indirect \in BOOLEAN
  BY <1>1, <1>2 DEF UnitTypeOK, Frames
<1>5. sz' \in Unit!Bits /\ changedBy' \in BOOLEAN
  BY <1>1, <1>2, <1>4
<1>6. UnitTypeOK'
  <2>1. ASSUME NEW k \in 1..Len(stack') PROVE stack'[k].n <= Len(BodyOf(stack'[k])) + 1
    <3>1. k \in 1..(L - 1)
      BY <1>3
    <3>2. stack'[k] = stack[k]
      BY <1>3, <3>1
    <3>3. k \in 1..Len(stack)
      BY <1>2, <3>1
    <3>4. stack[k].n <= Len(BodyOf(stack[k])) + 1
      BY <1>1, <3>3 DEF UnitTypeOK
    <3>5. QED
      BY <3>2, <3>4
  <2>2. mismatches' \in Nat
    BY <1>1 DEF UnitTypeOK
  <2>3. QED
    BY <1>1, <1>3, <1>5, <2>1, <2>2, TypeNext
<1>7. ASSUME Unit!SummariesSettled, mismatches' = 0, ~changedBy' PROVE InStep'
  <2>1. InStep
    BY <1>1, <1>4, <1>7 DEF UnitInv
  <2>2. ASSUME NEW k \in 1..Len(stack') PROVE CompiledFor(stack'[k])
    BY <1>2, <1>3, <2>1 DEF InStep
  <2>3. ASSUME NEW k \in 1..(Len(stack') - 1) PROVE WaitsFor(stack'[k], stack'[k + 1])
    <3>1. k \in 1..(L - 1) /\ k + 1 \in 1..(L - 1)
      BY <1>2, <1>3
    <3>2. QED
      BY <1>3, <2>1, <3>1 DEF InStep
  <2>4. ASSUME stack' # << >>
        PROVE  FitsAt(stack'[Len(stack')], stack'[Len(stack')].n, sz')
    <3> DEFINE fr == stack[L - 1]
               m  == fr.n - 1
               i  == BodyOf(fr)[m]
    <3>1. L - 1 \in Nat \ {0}
      BY <1>2, <1>3, <2>4, EmptySeq
    <3>2. L - 1 \in 1..(L - 1) /\ L - 1 \in 1..L /\ (L - 1) + 1 = L
      <4>1. L \in Nat \ {0}
        BY <1>2
      <4> HIDE DEF L
      <4>2. QED
        BY <3>1, <4>1
    <3>3. fr \in Frames /\ stack'[Len(stack')] = fr
      BY <1>1, <1>3, <3>2, ElementOfSeq DEF UnitTypeOK
    <3>4. WaitsFor(fr, Unit!Top)
      BY <1>2, <2>1, <3>2 DEF InStep
    <3>5. fr.f \in Unit!Functions /\ fr.saved \in Unit!Bits /\ fr.n \in Nat
      BY <3>3 DEF Frames
    <3>6. BodyOf(fr) \in Seq(Unit!Items)
      BY <1>1, <3>5 DEF UnitTypeOK, BodyOf, Unit!Functions
    <3>7. fr.n <= Len(BodyOf(fr)) + 1
      BY <1>1, <3>2 DEF UnitTypeOK
    <3>8. m \in 1..Len(BodyOf(fr)) /\ m + 1 = fr.n
      BY <3>4, <3>5, <3>6, <3>7, LenProperties DEF WaitsFor
    <3>9. /\ i.k = (IF Unit!Top.indirect THEN "icall" ELSE "call") /\ i.g = Unit!Top.f
          /\ FitsAt(fr, m, Unit!Top.saved)
      BY <3>4 DEF WaitsFor
    <3>10. CASE Unit!Top.indirect
      <4>1. sz' = Unit!Top.saved
        BY <1>1, <1>7, <3>10
      <4>2. FitsAt(fr, m, sz') /\ i.k = "icall"
        BY <3>9, <3>10, <4>1
      <4>3. FitsAt(fr, m + 1, sz')
        BY <1>1, <1>5, <3>3, <3>8, <4>2, StepFits
      <4>4. QED
        BY <3>3, <3>8, <4>3
    <3>11. CASE ~Unit!Top.indirect
      <4>1. Unit!Top.n = Len(Unit!Body) + 1
        BY <1>1, <1>2, LenProperties
      <4>2. FitsAt(Unit!Top, Len(BodyOf(Unit!Top)) + 1, sz)
        BY <1>1, <1>2, <2>1, <4>1 DEF InStep
      <4>3. /\ Fits(Unit!Effect(Unit!Top.saved, sums[Unit!Top.f]), sz')
            /\ Unit!Top.f \in DOMAIN sums
        BY <1>1, <1>2, <1>4, <1>7, <4>2, EndFits
      <4>4. Unit!Does(sums, i, Before(fr, m)) = Unit!Effect(Before(fr, m), sums[Unit!Top.f])
        BY <3>9, <3>11, <4>3 DEF Unit!Does
      <4>5. Fits(Unit!Effect(fr.saved, Before(fr, m)), Unit!Top.saved)
        BY <3>9 DEF FitsAt
      <4>6. Fits(Unit!Effect(fr.saved, Unit!Effect(Before(fr, m), sums[Unit!Top.f])), sz')
        BY <1>2, <1>5, <3>5, <4>3, <4>5, EffectsCompose
      <4>7. FitsAt(fr, m + 1, sz')
        BY <1>1, <1>5, <3>3, <3>8, <4>4, <4>6, StepFits
      <4>8. QED
        BY <3>3, <3>8, <4>7
    <3>12. QED
      BY <3>10, <3>11
  <2>5. QED
    BY <1>1, <2>2, <2>3, <2>4, InStepNext
<1>8. QED
  BY <1>1, <1>6, <1>7, InvNext

LEMMA UnitUntouched == ASSUME UnitInv, UNCHANGED ofUnit PROVE UnitInv'
<1>1. UnitTypeOK'
  BY DEF UnitInv, UnitTypeOK, ofUnit, BodyOf
<1>2. InStep => InStep'
  BY DEF InStep, CompiledFor, WaitsFor, FitsAt, Before, BodyOf, ofUnit, Unit!Top
<1>3. QED
  BY <1>1, <1>2, InvNext DEF UnitInv, ofUnit

LEMMA UnitSafe == ASSUME UnitInv PROVE Unit!LoweredForItsMode
<1>1. SUFFICES ASSUME stack # << >>, Unit!SummariesSettled, mismatches = 0, ~changedBy
      PROVE  Unit!Resolve(Unit!ModeAt(sums, Unit!Body, Unit!Entry, Unit!Top.n), modes[Unit!Top.f])
               \in {sz, Unit!Unknown}
  BY DEF Unit!LoweredForItsMode
<1>2. UnitTypeOK /\ InStep
  BY <1>1 DEF UnitInv
<1>3. /\ Unit!Top \in Frames /\ Len(stack) \in Nat \ {0} /\ Unit!Top = stack[Len(stack)]
      /\ BodyOf(Unit!Top) = Unit!Body /\ Unit!Body \in Seq(Unit!Items)
      /\ Unit!Top.saved \in Unit!Bits /\ Unit!Top.n \in Nat \ {0}
      /\ Unit!Top.n <= Len(Unit!Body) + 1
  BY <1>1, <1>2, TopFrame
<1> DEFINE u == Unit!ModeAt(sums, Unit!Body, Unit!Entry, Unit!Top.n)
<1>4. u \in Marks
  <2>1. Unit!Entry \in Marks
    BY DEF Marks, Unit!Entry
  <2>2. Unit!Top.n \in 1..(Len(Unit!Body) + 1)
    BY <1>3, LenProperties
  <2>3. QED
    BY <1>3, <2>1, <2>2, ModeBySteps
<1>5. Fits(Unit!Effect(Unit!Top.saved, u), sz)
  BY <1>1, <1>2, <1>3 DEF InStep, FitsAt, Before
<1>6. modes[Unit!Top.f] \in {Unit!Top.saved, Unit!Unknown}
  <2>1. Len(stack) \in 1..Len(stack)
    BY <1>3
  <2>2. QED
    BY <1>2, <1>3, <2>1 DEF InStep, CompiledFor
<1> HIDE DEF u
<1>7. Unit!Resolve(u, modes[Unit!Top.f]) \in {sz, Unit!Unknown}
  BY <1>3, <1>4, <1>5, <1>6 DEF Fits, Marks, Unit!Resolve, Unit!Effect, Unit!Toggle, Unit!Bits,
    Unit!Unknown, Unit!Entry, Unit!Toggled
<1>8. QED
  BY <1>7 DEF u

\* An instruction lowered for a mode executes in it, for any functions, bodies and depth of calls,
\* where the summaries came to rest and no check has reported a wrong entry: what emit_unit's
\* summaries and transfer say of a call is what the call does (emit.cpp 621-785, 1700-1737).
THEOREM ModesAreTrue == InferenceSpec => []LoweredForItsMode
<1> DEFINE Inv == part = "unit" => UnitInv
<1>1. InferenceInit => Inv
  BY UnitInit DEF InferenceInit
<1>2. Inv /\ [InferenceNext]_inferred => Inv'
  <2>1. SUFFICES ASSUME Inv, [InferenceNext]_inferred, part' = "unit" PROVE UnitInv'
    OBVIOUS
  <2>2. CASE part = "unit" /\ Unit!Next
    BY <2>1, <2>2, ExecuteKeeps, ReturnKeeps DEF Unit!Next
  <2>3. CASE UNCHANGED <<part, ofUnit>>
    <3>1. UnitInv
      BY <2>1, <2>3
    <3>2. QED
      BY <2>3, <3>1, UnitUntouched
  <2>4. QED
    BY <2>1, <2>2, <2>3 DEF InferenceNext, inferred
<1>3. Inv => LoweredForItsMode
  BY UnitSafe DEF LoweredForItsMode
<1>4. QED
  BY <1>1, <1>2, <1>3, PTL DEF InferenceSpec

===============================================================================
