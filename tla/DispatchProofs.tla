---------------------------- MODULE DispatchProofs ----------------------------
(***************************************************************************)
(* Theorems about the function dispatch, for any tables, any guest memory, *)
(* any cache size and any hidden sets.                                     *)
(***************************************************************************)
EXTENDS Dispatch, FiniteSetTheorems, SequenceTheorems, WellFoundedInduction, TLAPS

(* The least and the greatest of finitely many indices: inclusion of finite *)
(* sets is well-founded, so one of the sets of indices on the other side of *)
(* a member is minimal, and it is empty.                                    *)

LEMMA LeastExists ==
  ASSUME NEW S, S \subseteq Nat, IsFiniteSet(S), S # {}
  PROVE  Min(S) \in S /\ \A k \in S : Min(S) <= k
<1> DEFINE below(n) == {k \in S : k < n}
           T == {below(n) : n \in S}
<1>1. \E X \in T : \A Y \in T : ~(<<Y, X>> \in StrictSubsetOrdering(S))
  <2>1. T # {} /\ T \subseteq FiniteSubsetsOf(S)
    <3>1. \A n \in S : below(n) \in SUBSET S
      OBVIOUS
    <3>2. T # {}
      OBVIOUS
    <3> HIDE DEF below
    <3>3. QED
      BY <3>1, <3>2, FS_FiniteSubsetsOfFinite
  <2>2. IsWellFoundedOn(StrictSubsetOrdering(S), FiniteSubsetsOf(S))
    BY FS_StrictSubsetOrderingWellFounded
  <2> HIDE DEF T
  <2>3. QED
    BY <2>1, <2>2, WFMin
<1>2. PICK n \in S : \A m \in S : ~(<<below(m), below(n)>> \in StrictSubsetOrdering(S))
  BY <1>1
<1>3. ASSUME NEW k \in S, k < n PROVE FALSE
  <2>1. below(k) \in SUBSET S /\ below(n) \in SUBSET S
    OBVIOUS
  <2>2. below(k) \subseteq below(n) /\ k \in below(n) /\ k \notin below(k)
    <3>1. k \in Nat /\ n \in Nat /\ k < n /\ \A j \in S : j \in Nat
      BY <1>3
    <3>2. ~(k < k) /\ \A j \in Nat : j < k => j < n
      BY ONLY <3>1
    <3>3. QED
      BY <3>1, <3>2
  <2>3. <<below(k), below(n)>> \in StrictSubsetOrdering(S)
    BY <2>1, <2>2 DEF StrictSubsetOrdering
  <2>4. QED
    BY <1>2, <2>3
<1>4. \E m \in S : \A k \in S : m <= k
  BY <1>3
<1>5. QED
  BY <1>4 DEF Min

LEMMA GreatestExists ==
  ASSUME NEW S, S \subseteq Nat, IsFiniteSet(S), S # {}
  PROVE  Max(S) \in S /\ \A k \in S : k <= Max(S)
<1> DEFINE above(n) == {k \in S : n < k}
           T == {above(n) : n \in S}
<1>1. \E X \in T : \A Y \in T : ~(<<Y, X>> \in StrictSubsetOrdering(S))
  <2>1. T # {} /\ T \subseteq FiniteSubsetsOf(S)
    <3>1. \A n \in S : above(n) \in SUBSET S
      OBVIOUS
    <3>2. T # {}
      OBVIOUS
    <3> HIDE DEF above
    <3>3. QED
      BY <3>1, <3>2, FS_FiniteSubsetsOfFinite
  <2>2. IsWellFoundedOn(StrictSubsetOrdering(S), FiniteSubsetsOf(S))
    BY FS_StrictSubsetOrderingWellFounded
  <2> HIDE DEF T
  <2>3. QED
    BY <2>1, <2>2, WFMin
<1>2. PICK n \in S : \A m \in S : ~(<<above(m), above(n)>> \in StrictSubsetOrdering(S))
  BY <1>1
<1>3. ASSUME NEW k \in S, n < k PROVE FALSE
  <2>1. above(k) \in SUBSET S /\ above(n) \in SUBSET S
    OBVIOUS
  <2>2. above(k) \subseteq above(n) /\ k \in above(n) /\ k \notin above(k)
    <3>1. k \in Nat /\ n \in Nat /\ n < k /\ \A j \in S : j \in Nat
      BY <1>3
    <3>2. ~(k < k) /\ \A j \in Nat : k < j => n < j
      BY ONLY <3>1
    <3>3. QED
      BY <3>1, <3>2
  <2>3. <<above(k), above(n)>> \in StrictSubsetOrdering(S)
    BY <2>1, <2>2 DEF StrictSubsetOrdering
  <2>4. QED
    BY <1>2, <2>3
<1>4. \E m \in S : \A k \in S : m >= k
  BY <1>3
<1>5. QED
  BY <1>4 DEF Max

-------------------------------------------------------------------------------
USE DispatchAssumption

\* What the searches return is an entry of the table that applies.
LEMMA SearchFinds ==
  ASSUME TypeOK, NEW a \in Addresses, Search(a) # None
  PROVE  /\ Search(a) \in Entries
         /\ Search(a).address = a
         /\ Matches(Search(a))
         /\ ~Interpreted(a)
<1>1. ~Interpreted(a) /\ Hits(a) # {} /\ Search(a) = table[Min(Hits(a))]
  BY DEF Search
<1>2. Hits(a) \subseteq 1..Len(table) /\ Len(table) \in Nat
  BY DEF Hits, TypeOK
<1>3. Hits(a) \subseteq Nat /\ IsFiniteSet(Hits(a))
  <2>1. IsFiniteSet(1..Len(table))
    BY <1>2, FS_Interval
  <2>2. QED
    BY <1>2, <2>1, FS_Subset
<1>4. Min(Hits(a)) \in Hits(a)
  BY <1>1, <1>3, LeastExists
<1>5. QED
  BY <1>1, <1>2, <1>4 DEF Hits, TypeOK

LEMMA FindContainingFinds ==
  ASSUME TypeOK, NEW a \in Addresses, FindContaining(a) # None
  PROVE  /\ FindContaining(a) \in Entries
         /\ FindContaining(a).address <= a /\ a < FindContaining(a).end
         /\ Matches(FindContaining(a))
<1>1. Holders(a) # {} /\ FindContaining(a) = table[Max(Holders(a))]
  BY DEF FindContaining
<1>2. Holders(a) \subseteq 1..Len(table) /\ Len(table) \in Nat
  BY DEF Holders, TypeOK
<1>3. Holders(a) \subseteq Nat /\ IsFiniteSet(Holders(a))
  <2>1. IsFiniteSet(1..Len(table))
    BY <1>2, FS_Interval
  <2>2. QED
    BY <1>2, <2>1, FS_Subset
<1>4. Max(Holders(a)) \in Holders(a)
  BY <1>1, <1>3, GreatestExists
<1>5. QED
  BY <1>1, <1>2, <1>4 DEF Holders, TypeOK

\* Merging a table gives a sequence of entries.
LEMMA MergedType ==
  ASSUME TypeOK, NEW u \in Units, NEW t \in SetToSeqs(ToSet(table) \cup u)
  PROVE  t \in Seq(Entries)
<1> DEFINE S == ToSet(table) \cup u
<1>1. table \in [1..Len(table) -> Entries] /\ Len(table) \in Nat
  BY DEF TypeOK
<1>2. ToSet(table) = {table[i] : i \in 1..Len(table)}
  BY <1>1 DEF ToSet
<1>3. IsFiniteSet(S) /\ S \subseteq Entries
  <2>1. IsFiniteSet(1..Len(table))
    BY <1>1, FS_Interval
  <2>2. table \in Surjection(1..Len(table), ToSet(table))
    BY <1>1, <1>2 DEF Surjection
  <2>3. IsFiniteSet(ToSet(table)) /\ ToSet(table) \subseteq Entries
    BY <1>1, <1>2, <2>1, <2>2, FS_Surjection
  <2>4. IsFiniteSet(u) /\ u \subseteq Entries
    BY DEF Entries
  <2>5. QED
    BY <2>3, <2>4, FS_Union
<1>4. Cardinality(S) \in Nat
  BY <1>3, FS_CardinalityType
<1>5. t \in [1..Cardinality(S) -> S]
  BY DEF SetToSeqs
<1>6. t \in [1..Cardinality(S) -> Entries]
  BY <1>3, <1>5
<1> HIDE DEF S
<1>7. QED
  BY <1>4, <1>6, SeqDef

-------------------------------------------------------------------------------
\* What is cached has no signature, and stands for the address of its slot.
CachedAreUnconditional ==
  \A i \in 0..CacheSize - 1 :
    cache[i] # None => /\ cache[i].entry.signature = None
                       /\ cache[i].entry.address = cache[i].at

IInv == TypeOK /\ CachedAreUnconditional

LEMMA SlotType == \A a \in Addresses : Slot(a) \in 0..CacheSize - 1
<1>1. \A a \in Nat : a % CacheSize \in 0..CacheSize - 1
  OBVIOUS
<1>2. QED
  BY <1>1 DEF Slot

LEMMA FlushedType ==
  /\ Flushed \in [0..CacheSize - 1 -> [at : Addresses, entry : Entries] \cup {None}]
  /\ \A i \in 0..CacheSize - 1 : Flushed[i] = None
  BY DEF Flushed

LEMMA InitInv == Init => IInv
<1> SUFFICES ASSUME Init PROVE IInv
  OBVIOUS
<1>1. TypeOK
  BY FlushedType DEF Init, TypeOK
<1>2. CachedAreUnconditional
  BY FlushedType DEF Init, CachedAreUnconditional
<1>3. QED
  BY <1>1, <1>2 DEF IInv

LEMMA FindInv ==
  ASSUME IInv, NEW a \in Addresses, Find(a)
  PROVE  IInv'
<1> USE DEF IInv
<1>1. CASE Search(a) # None /\ Search(a).signature = None /\
           cache' = [cache EXCEPT ![Slot(a)] = [at |-> a, entry |-> Search(a)]]
  <2> DEFINE c == [at |-> a, entry |-> Search(a)]
  <2>1. Search(a) \in Entries /\ Search(a).address = a
    BY <1>1, SearchFinds
  <2>2. c \in [at : Addresses, entry : Entries]
    BY <2>1
  <2>3. /\ c.entry.signature = None
        /\ c.entry.address = c.at
    BY <1>1, <2>1
  <2>4. cache' = [cache EXCEPT ![Slot(a)] = c]
    BY <1>1
  <2> HIDE DEF c
  <2>5. TypeOK'
    BY <2>2, <2>4 DEF TypeOK, Find
  <2>6. CachedAreUnconditional'
    BY <2>3, <2>4 DEF TypeOK, CachedAreUnconditional
  <2>7. QED
    BY <2>5, <2>6
<1>2. CASE UNCHANGED cache
  BY <1>2 DEF Find, TypeOK, CachedAreUnconditional
<1>3. QED
  BY <1>1, <1>2 DEF Find

LEMMA NextInv == IInv /\ [Next]_vars => IInv'
<1> SUFFICES ASSUME IInv, [Next]_vars PROVE IInv'
  OBVIOUS
<1> USE DEF IInv
<1>1. ASSUME NEW u \in Units, Register(u) PROVE IInv'
  <2>1. table' \in Seq(Entries)
    BY <1>1, MergedType DEF Register
  <2>2. TypeOK' /\ CachedAreUnconditional'
    BY <1>1, <2>1, FlushedType DEF Register, TypeOK, CachedAreUnconditional
  <2>3. QED
    BY <2>2
<1>2. ASSUME NEW a \in Addresses, NEW c \in Code, Load(a, c) PROVE IInv'
  BY <1>2 DEF Load, TypeOK, CachedAreUnconditional
<1>3. ASSUME NEW H \in HideSets, Hide(H) PROVE IInv'
  BY <1>3, FlushedType DEF Hide, TypeOK, CachedAreUnconditional
<1>4. ASSUME NEW a \in Addresses, Find(a) PROVE IInv'
  BY <1>4, FindInv
<1>5. CASE UNCHANGED vars
  BY <1>5 DEF vars, TypeOK, CachedAreUnconditional
<1>6. QED
  BY <1>1, <1>2, <1>3, <1>4, <1>5 DEF Next

THEOREM Invariance == Spec => []IInv
<1>1. QED
  BY InitInv, NextInv, PTL DEF Spec

\* The table, guest memory, the hidden set and the cache are well typed.
THEOREM TypeCorrect == Spec => []TypeOK
<1>1. IInv => TypeOK
  BY DEF IInv
<1>2. QED
  BY <1>1, Invariance, PTL

\* No translation of an overlay that is no longer loaded is entered, by a call or by a
\* resumption (abi.h 22-25): what is cached depends on no signature, and everything
\* else is compared with memory each time.
THEOREM OnlyLoadedCodeRuns == Spec => []RunsLoadedCode
<1>1. IInv => RunsLoadedCode
  <2> SUFFICES ASSUME IInv, NEW a \in Addresses
               PROVE  /\ CallTarget(a) # None => Matches(CallTarget(a))
                      /\ ResumeTarget(a) # None => Matches(ResumeTarget(a))
    BY DEF RunsLoadedCode
  <2> USE DEF IInv
  <2>1. Inside(a) # None => Matches(Inside(a))
    BY FindContainingFinds DEF Inside
  <2>2. FindFunction(a) # None => Matches(FindFunction(a))
    <3>1. CASE Cached(a)
      BY <3>1, SlotType DEF Cached, FindFunction, CachedAreUnconditional, Matches
    <3>2. CASE ~Cached(a)
      BY <3>2, SearchFinds DEF FindFunction
    <3>3. QED
      BY <3>1, <3>2
  <2>3. QED
    BY <2>1, <2>2 DEF CallTarget, ResumeTarget
<1>2. QED
  BY <1>1, Invariance, PTL

-------------------------------------------------------------------------------
(* The cache agrees with the search if no address has entries with a       *)
(* signature and entries without: then what is cached depends on nothing   *)
(* that can change without flushing it.                                    *)

Unmixed ==
  \A e, f \in Entries : e.address = f.address => (e.signature = None <=> f.signature = None)

CachedAreSearched ==
  \A i \in 0..CacheSize - 1 :
    cache[i] # None => cache[i].entry = Search(cache[i].at)

LEMMA CachedType ==
  ASSUME TypeOK, NEW i \in 0..CacheSize - 1, cache[i] # None
  PROVE  cache[i].at \in Addresses /\ cache[i].entry \in Entries
<1>1. cache[i] \in [at : Addresses, entry : Entries]
  BY DEF TypeOK
<1>2. QED
  BY <1>1

\* Where the entries have no signature, the search does not read memory.
LEMMA SearchStable ==
  ASSUME Unmixed, TypeOK, UNCHANGED <<table, hidden>>,
         NEW e \in Entries, e.signature = None
  PROVE  Search(e.address)' = Search(e.address)
<1> DEFINE a == e.address
<1>1. Hits(a)' = Hits(a)
  <2>1. \A n \in 1..Len(table) :
          table[n].address = a => table[n].signature = None
    BY DEF Unmixed, TypeOK
  <2>2. QED
    BY <2>1 DEF Hits, Matches
<1>2. Interpreted(a)' = Interpreted(a)
  BY DEF Interpreted
<1> HIDE DEF a
<1>3. Search(a)' = Search(a)
  BY <1>1, <1>2 DEF Search
<1>4. QED
  BY <1>3 DEF a

LEMMA SearchedInit == Init => CachedAreSearched
  BY FlushedType DEF Init, CachedAreSearched

LEMMA SearchedNext ==
  ASSUME Unmixed
  PROVE  IInv /\ CachedAreSearched /\ [Next]_vars => CachedAreSearched'
<1> SUFFICES ASSUME IInv, CachedAreSearched, [Next]_vars PROVE CachedAreSearched'
  OBVIOUS
<1>1. CASE cache' = Flushed
  BY <1>1, FlushedType DEF CachedAreSearched
<1>2. CASE UNCHANGED <<table, hidden, cache>>
  <2> SUFFICES ASSUME NEW i \in 0..CacheSize - 1, cache[i] # None
               PROVE  Search(cache[i].at)' = Search(cache[i].at)
    BY <1>2 DEF CachedAreSearched
  <2>1. cache[i].entry \in Entries /\ cache[i].entry.signature = None
    BY CachedType DEF IInv, CachedAreUnconditional
  <2>2. cache[i].entry.address = cache[i].at
    BY DEF IInv, CachedAreUnconditional
  <2>3. Search(cache[i].entry.address)' = Search(cache[i].entry.address)
    BY <1>2, <2>1, SearchStable DEF IInv
  <2>4. QED
    BY <1>2, <2>2, <2>3
<1>3. ASSUME NEW a \in Addresses,
             UNCHANGED <<table, memory, hidden>>,
             cache' = [cache EXCEPT ![Slot(a)] = [at |-> a, entry |-> Search(a)]]
      PROVE  CachedAreSearched'
  <2>1. \A b \in Addresses : Search(b)' = Search(b)
    BY <1>3 DEF Search, Hits, Matches, Interpreted
  <2> SUFFICES ASSUME NEW i \in 0..CacheSize - 1, cache'[i] # None
               PROVE  cache'[i].entry = Search(cache[i].at)'
    BY DEF CachedAreSearched
  <2>2. CASE i = Slot(a)
    <3>1. cache'[i].at = a /\ cache'[i].entry = Search(a)
      BY <1>3, <2>2 DEF IInv, TypeOK
    <3>2. QED
      BY <2>1, <3>1
  <2>3. CASE i # Slot(a)
    <3>1. cache'[i] = cache[i]
      BY <1>3, <2>3 DEF IInv, TypeOK
    <3>2. cache[i].at \in Addresses
      BY <3>1, CachedType DEF IInv
    <3>3. QED
      BY <2>1, <3>1, <3>2 DEF CachedAreSearched
  <2>4. QED
    BY <2>2, <2>3
<1>4. QED
  BY <1>1, <1>2, <1>3 DEF Next, vars, Register, Load, Hide, Find

\* find_function answers what the search would, however tables, memory and the hidden
\* set changed since the answer was cached, if no address has both kinds of entries
\* (abi_bare.cpp 39-45).
THEOREM CacheCorrect ==
  ASSUME Unmixed
  PROVE  Spec => []CacheIsCurrent
<1>1. IInv /\ CachedAreSearched => CacheIsCurrent
  BY SlotType DEF CachedAreSearched, CacheIsCurrent, FindFunction, Cached
<1>2. QED
  BY <1>1, Invariance, SearchedInit, SearchedNext, PTL DEF Spec

-------------------------------------------------------------------------------
(* No hidden function is entered if the hidden sets do not nest: a range   *)
(* that starts within another reaches at least as far, so the last range   *)
(* at or below an address holds the address if any range does.             *)

Unnested ==
  \A H \in HideSets : \A r, q \in H : r[1] < q[1] /\ q[1] < r[2] => r[2] <= q[2]

HiddenOK ==
  /\ IsFiniteSet(hidden)
  /\ \A r \in hidden : r \in Nat \X Nat /\ r[1] < r[2]
  /\ \A r, q \in hidden : r[1] < q[1] /\ q[1] < r[2] => r[2] <= q[2]

\* An answer is cached only for an address that is not hidden.
CachedAreVisible ==
  \A i \in 0..CacheSize - 1 : cache[i] # None => ~Interpreted(cache[i].at)

\* Every address in a hidden range is interpreted.
LEMMA RangesHide ==
  ASSUME HiddenOK, NEW r \in hidden, NEW a \in Nat, r[1] <= a, a < r[2]
  PROVE  Interpreted(a)
<1> DEFINE B == {q \in hidden : q[1] <= a}
           starts == {q[1] : q \in B}
           m == Max(starts)
           C == {q \in B : q[1] = m}
           ends == {q[2] : q \in C}
<1>1. IsFiniteSet(B) /\ r \in B /\ \A q \in B : q \in Nat \X Nat
  BY FS_Subset DEF HiddenOK
<1>2. m \in starts /\ \A k \in starts : k <= m
  <2>1. [q \in B |-> q[1]] \in Surjection(B, starts)
    BY DEF Surjection
  <2>2. IsFiniteSet(starts)
    BY <1>1, <2>1, FS_Surjection
  <2>3. starts \subseteq Nat /\ starts # {}
    BY <1>1
  <2>4. QED
    BY <2>2, <2>3, GreatestExists
<1>3. IsFiniteSet(C) /\ C # {} /\ C \subseteq B
  BY <1>1, <1>2, FS_Subset
<1>4. Max(ends) \in ends /\ \A k \in ends : k <= Max(ends)
  <2>1. [q \in C |-> q[2]] \in Surjection(C, ends)
    BY DEF Surjection
  <2>2. IsFiniteSet(ends)
    BY <1>3, <2>1, FS_Surjection
  <2>3. ends \subseteq Nat /\ ends # {}
    BY <1>1, <1>3
  <2>4. QED
    BY <2>2, <2>3, GreatestExists
<1>5. PICK q \in C : q[2] = Max(ends)
  BY <1>4
<1>6. q \in hidden /\ q \in Nat \X Nat /\ q[1] = m /\ q[1] <= a
  BY <1>1, <1>3, <1>5
<1>7. \A p \in hidden : p[1] > a \/ p[1] < q[1] \/ (p[1] = q[1] /\ p[2] <= q[2])
  <2> SUFFICES ASSUME NEW p \in hidden, p[1] <= a
               PROVE  p[1] < q[1] \/ (p[1] = q[1] /\ p[2] <= q[2])
    BY DEF HiddenOK
  <2>1. p \in B /\ p[1] \in Nat
    BY <1>1
  <2>2. p[1] <= m
    BY <1>2, <2>1
  <2>3. p[1] = m => p[2] <= q[2]
    <3> SUFFICES ASSUME p[1] = m PROVE p[2] \in ends
      BY <1>4, <1>5
    <3>1. p \in C
      BY <2>1
    <3>2. QED
      BY <3>1
  <2> HIDE DEF m
  <2>4. QED
    BY <1>6, <2>1, <2>2, <2>3
<1>8. a < q[2]
  <2>1. r[1] <= q[1] /\ (r[1] = q[1] => r[2] <= q[2])
    BY <1>6, <1>7 DEF HiddenOK
  <2>2. r[1] < q[1] => r[2] <= q[2]
    BY <1>6 DEF HiddenOK
  <2>3. QED
    BY <1>6, <2>1, <2>2 DEF HiddenOK
<1> HIDE DEF B, C, m, ends, starts
<1>9. QED
  BY <1>6, <1>7, <1>8 DEF Interpreted

HInv == IInv /\ HiddenOK /\ CachedAreVisible

LEMMA HiddenNext ==
  ASSUME Unnested
  PROVE  HInv /\ [Next]_vars => HInv'
<1> SUFFICES ASSUME HInv, [Next]_vars PROVE HInv'
  OBVIOUS
<1> USE DEF HInv
<1>1. IInv'
  BY NextInv
<1>2. ASSUME NEW H \in HideSets, Hide(H) PROVE HiddenOK'
  <2>1. H \subseteq Nat \X Nat /\ IsFiniteSet(H)
    OBVIOUS
  <2>2. hidden' \subseteq H /\ \A r \in hidden' : r[1] < r[2]
    BY <1>2, <2>1 DEF Hide
  <2>3. IsFiniteSet(hidden')
    BY <2>1, <2>2, FS_Subset
  <2>4. \A r, q \in hidden' : r[1] < q[1] /\ q[1] < r[2] => r[2] <= q[2]
    BY <2>1, <2>2 DEF Unnested
  <2>5. QED
    BY <2>1, <2>2, <2>3, <2>4 DEF HiddenOK
<1>3. ASSUME UNCHANGED hidden PROVE HiddenOK'
  BY <1>3 DEF HiddenOK
<1>4. HiddenOK'
  BY <1>2, <1>3 DEF Next, vars, Register, Load, Find
<1>5. ASSUME cache' = Flushed PROVE CachedAreVisible'
  BY <1>5, FlushedType DEF CachedAreVisible
<1>6. ASSUME UNCHANGED <<hidden, cache>> PROVE CachedAreVisible'
  BY <1>6 DEF CachedAreVisible, Interpreted
<1>7. ASSUME NEW a \in Addresses, UNCHANGED hidden, ~Interpreted(a),
             cache' = [cache EXCEPT ![Slot(a)] = [at |-> a, entry |-> Search(a)]]
      PROVE  CachedAreVisible'
  <2>1. \A i \in 0..CacheSize - 1 :
          \/ cache'[i] = cache[i]
          \/ cache'[i] = [at |-> a, entry |-> Search(a)]
    BY <1>7 DEF IInv, TypeOK
  <2>2. QED
    BY <1>7, <2>1 DEF CachedAreVisible, Interpreted
<1>8. CachedAreVisible'
  BY <1>5, <1>6, <1>7 DEF Next, vars, Register, Load, Hide, Find, Search
<1>9. QED
  BY <1>1, <1>4, <1>8

LEMMA HiddenInit == Init => HInv
<1> SUFFICES ASSUME Init PROVE HInv
  OBVIOUS
<1>1. HiddenOK
  BY FS_EmptySet DEF Init, HiddenOK
<1>2. CachedAreVisible
  BY FlushedType DEF Init, CachedAreVisible
<1>3. QED
  BY <1>1, <1>2, InitInv DEF HInv

\* A hidden function is never entered, neither at its entry nor at a block inside it
\* (abi_bare.cpp 96-98), if the hidden sets do not nest.
THEOREM HiddenStaysHidden ==
  ASSUME Unnested
  PROVE  Spec => []HiddenIsNeverEntered
<1>1. HInv => HiddenIsNeverEntered
  <2> SUFFICES ASSUME HInv, NEW a \in Addresses
               PROVE  \A e \in {CallTarget(a), ResumeTarget(a)} \ {None} :
                        <<e.address, e.end>> \notin hidden
    BY DEF HiddenIsNeverEntered
  <2> USE DEF HInv, IInv
  <2>1. ASSUME NEW e \in Entries, <<e.address, e.end>> \in hidden,
               e.address <= a, a < e.end
        PROVE  Interpreted(a)
    BY <2>1, RangesHide
  <2>2. Inside(a) # None => <<Inside(a).address, Inside(a).end>> \notin hidden
    BY <2>1, FindContainingFinds DEF Inside
  <2>3. ASSUME FindFunction(a) # None
        PROVE  <<FindFunction(a).address, FindFunction(a).end>> \notin hidden
    <3>1. /\ FindFunction(a) \in Entries
          /\ FindFunction(a).address = a
          /\ ~Interpreted(a)
      <4>1. CASE Cached(a)
        BY <4>1, SlotType, CachedType
        DEF Cached, FindFunction, CachedAreUnconditional, CachedAreVisible
      <4>2. CASE ~Cached(a)
        BY <2>3, <4>2, SearchFinds DEF FindFunction
      <4>3. QED
        BY <4>1, <4>2
    <3>2. QED
      BY <2>1, <3>1 DEF HiddenOK
  <2>4. QED
    BY <2>2, <2>3 DEF CallTarget, ResumeTarget
<1>2. QED
  BY <1>1, HiddenInit, HiddenNext, PTL DEF Spec

-------------------------------------------------------------------------------
(* A call takes the first entry at an address that applies, a resumption   *)
(* the last one whose range holds it.  They are the same one if a table has *)
(* one translation per address and code, and none that applies whatever the *)
(* code beside others.                                                       *)

Distinct ==
  \A e, f \in Entries : e.address = f.address /\ e.signature = f.signature => e = f
RangesAhead == \A e \in Entries : e.end # 0 => e.address < e.end

SInv == TypeOK /\ Sorted(table)

LEMMA SortedInit == Init => SInv
<1> SUFFICES ASSUME Init PROVE SInv
  OBVIOUS
<1>1. Len(table) = 0
  BY DEF Init
<1>2. Sorted(table)
  BY <1>1 DEF Sorted
<1>3. QED
  BY <1>2, InitInv DEF IInv, SInv

LEMMA SortedNext == IInv /\ SInv /\ [Next]_vars => SInv'
<1> SUFFICES ASSUME IInv, SInv, [Next]_vars PROVE SInv'
  OBVIOUS
<1>1. TypeOK'
  BY NextInv DEF IInv
<1>2. table' = table \/ Sorted(table')
  BY DEF Next, vars, Register, Load, Hide, Find
<1>3. Sorted(table)'
  BY <1>2 DEF SInv, Sorted
<1>4. QED
  BY <1>1, <1>3 DEF SInv

\* Among entries in order, the last that holds a is at a when one at a holds it.
LEMMA FirstIsLast ==
  ASSUME Unmixed, Distinct, RangesAhead, SInv, NEW a \in Addresses,
         Search(a) # None, Search(a).end # 0
  PROVE  FindContaining(a) = Search(a)
<1>1. Hits(a) # {} /\ Search(a) = table[Min(Hits(a))]
  BY DEF Search
<1>2. /\ Hits(a) \subseteq 1..Len(table) /\ Holders(a) \subseteq 1..Len(table)
      /\ Len(table) \in Nat /\ table \in Seq(Entries)
  BY DEF Hits, Holders, SInv, TypeOK
<1>3. IsFiniteSet(Hits(a)) /\ IsFiniteSet(Holders(a))
  <2>1. IsFiniteSet(1..Len(table))
    BY <1>2, FS_Interval
  <2>2. QED
    BY <1>2, <2>1, FS_Subset
<1>4. PICK i \in 1..Len(table) : i = Min(Hits(a)) /\ i \in Hits(a)
  <2>1. Hits(a) \subseteq Nat
    BY <1>2
  <2>2. Min(Hits(a)) \in Hits(a)
    BY <1>1, <1>3, <2>1, LeastExists
  <2>3. QED
    BY <1>2, <2>2
<1>5. table[i] \in Entries /\ table[i].address = a /\ Matches(table[i]) /\ table[i].end # 0
  BY <1>1, <1>2, <1>4 DEF Hits
<1>6. i \in Holders(a)
  <2>1. \A e \in Entries : e.address = a /\ e.end # 0 => e.address <= a /\ a < e.end
    BY DEF RangesAhead
  <2>2. QED
    BY <1>5, <2>1 DEF Holders
<1>7. PICK j \in 1..Len(table) : j = Max(Holders(a)) /\ j \in Holders(a) /\ i <= j
  <2>1. Holders(a) \subseteq Nat
    BY <1>2
  <2>2. Max(Holders(a)) \in Holders(a) /\ i <= Max(Holders(a))
    BY <1>3, <1>6, <2>1, GreatestExists
  <2>3. QED
    BY <1>2, <2>2
<1>8. table[j] \in Entries /\ table[j].address <= a /\ Matches(table[j])
  BY <1>2, <1>7 DEF Holders
<1>9. table[j].address = a
  <2>1. i < j => table[i].address < table[j].address \/ table[i].address = table[j].address
    BY <1>7 DEF SInv, Sorted
  <2>2. table[j].address \in Nat /\ a \in Nat
    BY <1>8
  <2>3. CASE i = j
    BY <1>5, <2>3
  <2>4. CASE i < j
    <3>1. a <= table[j].address /\ table[j].address <= a
      BY <1>5, <1>8, <2>1, <2>2, <2>4
    <3>2. QED
      BY <2>2, <3>1
  <2>5. QED
    BY <1>7, <2>3, <2>4
<1>10. table[i].signature = table[j].signature
  BY <1>5, <1>8, <1>9 DEF Matches, Unmixed
<1>11. table[i] = table[j]
  BY <1>5, <1>8, <1>9, <1>10 DEF Distinct
<1>12. QED
  BY <1>1, <1>4, <1>6, <1>7, <1>11 DEF FindContaining

\* A task that is resumed at the entry of a function runs what a call there would run, unless the
\* entry has no range to be found by (abi_bare.cpp 247-252), whatever was registered, copied over
\* and hidden before.
THEOREM ResumptionAgrees ==
  ASSUME Unmixed, Distinct, RangesAhead
  PROVE  Spec => []ResumeAgreesWithCall
<1>1. SInv => ResumeAgreesWithCall
  <2>1. SUFFICES ASSUME SInv, NEW a \in Addresses, Search(a) # None, Search(a).end # 0
                 PROVE  ResumeTarget(a) = Search(a)
    BY DEF ResumeAgreesWithCall
  <2>2. ~Interpreted(a)
    BY <2>1 DEF Search
  <2>3. QED
    BY <2>1, <2>2, FirstIsLast DEF ResumeTarget, Inside
<1>2. QED
  BY <1>1, Invariance, SortedInit, SortedNext, PTL DEF Spec
===============================================================================
