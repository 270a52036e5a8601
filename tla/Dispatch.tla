-------------------------------- MODULE Dispatch --------------------------------
(***************************************************************************)
(* Which translation runs for a guest address (runtime/src/sh4/            *)
(* abi_bare.cpp 21-212 and 236-342): the merged function table, the        *)
(* overlay signatures checked against guest memory, the direct-mapped      *)
(* cache in front of the search, and the functions hidden from it.         *)
(*                                                                         *)
(* Addresses are physical.  An overlay signature is abstracted to the code *)
(* it was translated from: it matches while that code is in memory there.  *)
(***************************************************************************)
EXTENDS Integers, Sequences, SequencesExt

CONSTANTS
  Units,      \* the tables registered, each a set of entries
  Addresses,  \* guest addresses
  Code,       \* what the program copies into memory over time
  CacheSize,  \* kFnCacheSize
  HideSets,   \* arguments of set_interpret_functions: sets of <<lo, hi>>
  None        \* no signature, no function, an empty cache slot

Entries == UNION Units

ASSUME DispatchAssumption ==
  /\ Addresses \subseteq Nat /\ CacheSize \in Nat \ {0}
  /\ None \notin Code /\ None \notin Entries
  /\ \A u \in Units : IsFiniteSet(u)
  /\ \A e \in Entries : /\ e.address \in Addresses
                        /\ e.end \in Nat          \* 0: no range
                        /\ e.signature \in Code \cup {None}
  /\ \A H \in HideSets : H \subseteq Nat \X Nat /\ IsFiniteSet(H)

VARIABLES
  table,   \* the merged table, sorted
  memory,  \* the code at each address
  hidden,  \* g_interp_set
  cache    \* g_fn_cache: per slot, the address and the entry, or None

vars == <<table, memory, hidden, cache>>

Slot(a) == a % CacheSize

Flushed == [s \in 0..CacheSize - 1 |-> None]

\* Sorted by address, entries with a signature before those without.
Sorted(t) ==
  \A i, j \in 1..Len(t) :
    i < j => \/ t[i].address < t[j].address
             \/ /\ t[i].address = t[j].address
                /\ t[i].signature = None => t[j].signature = None

Matches(e) == e.signature = None \/ memory[e.address] = e.signature

\* interpreted(): only the last range that starts at or below a is looked at.
Interpreted(a) ==
  \E r \in hidden :
    /\ r[1] <= a /\ a < r[2]
    /\ \A q \in hidden : q[1] > a \/ q[1] < r[1] \/ (q[1] = r[1] /\ q[2] <= r[2])

\* The entries at address a that apply.
Hits(a) == {n \in 1..Len(table) : table[n].address = a /\ Matches(table[n])}

\* The search find_function does when the cache has no answer.
Search(a) ==
  IF Interpreted(a) \/ Hits(a) = {} THEN None ELSE table[Min(Hits(a))]

Cached(a) == cache[Slot(a)] # None /\ cache[Slot(a)].at = a

FindFunction(a) == IF Cached(a) THEN cache[Slot(a)].entry ELSE Search(a)

\* The entries whose range holds a.
Holders(a) == {n \in 1..Len(table) : /\ table[n].end # 0
                                     /\ table[n].address <= a /\ a < table[n].end
                                     /\ Matches(table[n])}

\* Mutant of FindContaining: the first function that holds the address.
FindFirstContaining(a) ==
  IF Holders(a) = {} THEN None ELSE table[Min(Holders(a))]

\* find_containing: the last entry at or below a whose range holds it.
FindContaining(a) ==
  IF Holders(a) = {} THEN None ELSE table[Max(Holders(a))]

\* Mutant of Inside: a block inside a hidden function is still found.
InsideHidden(a) == FindContaining(a)

\* Where call_indirect and resume_at enter translated code; None is the miss handler.
Inside(a) == IF Interpreted(a) THEN None ELSE FindContaining(a)

CallTarget(a)   == IF FindFunction(a) # None THEN FindFunction(a) ELSE Inside(a)
ResumeTarget(a) == Inside(a)

-------------------------------------------------------------------------------
\* register_functions: another table is merged and sorted.  std::sort leaves the order
\* of equal entries open.
Register(u) ==
  /\ ~(u \subseteq ToSet(table))
  /\ \E t \in SetToSeqs(ToSet(table) \cup u) : Sorted(t) /\ table' = t
  /\ cache' = Flushed
  /\ UNCHANGED <<memory, hidden>>

\* The program copies code to an address.
Load(a, c) ==
  /\ memory' = [memory EXCEPT ![a] = c]
  /\ UNCHANGED <<table, hidden, cache>>

\* Mutant of Hide: the cache is not flushed.
HideWithoutFlush(H) ==
  /\ hidden' = {r \in H : r[2] > r[1]}
  /\ UNCHANGED <<table, memory, cache>>

\* set_interpret_functions.
Hide(H) ==
  /\ hidden' = {r \in H : r[2] > r[1]}
  /\ cache' = Flushed
  /\ UNCHANGED <<table, memory>>

\* Mutant of Find: an overlay's entry is cached too.
FindCachesOverlay(a) ==
  /\ cache' = IF ~Cached(a) /\ Search(a) # None
              THEN [cache EXCEPT ![Slot(a)] = [at |-> a, entry |-> Search(a)]]
              ELSE cache
  /\ UNCHANGED <<table, memory, hidden>>

\* find_function: an answer without a signature is cached.
Find(a) ==
  /\ cache' = IF ~Cached(a) /\ Search(a) # None /\ Search(a).signature = None
              THEN [cache EXCEPT ![Slot(a)] = [at |-> a, entry |-> Search(a)]]
              ELSE cache
  /\ UNCHANGED <<table, memory, hidden>>

Init ==
  /\ table = <<>>
  /\ memory \in [Addresses -> Code]
  /\ hidden = {}
  /\ cache = Flushed

Next ==
  \/ \E u \in Units : Register(u)
  \/ \E a \in Addresses, c \in Code : Load(a, c)
  \/ \E H \in HideSets : Hide(H)
  \/ \E a \in Addresses : Find(a)

Spec == Init /\ [][Next]_vars

-------------------------------------------------------------------------------
TypeOK ==
  /\ table \in Seq(Entries)
  /\ memory \in [Addresses -> Code]
  /\ hidden \in SUBSET UNION HideSets
  /\ cache \in [0..CacheSize - 1 -> [at : Addresses, entry : Entries] \cup {None}]

\* find_function answers what the search would, however tables, memory and the hidden
\* set changed since the answer was cached (abi_bare.cpp 39-45, 158-163).
CacheIsCurrent == \A a \in Addresses : FindFunction(a) = Search(a)

\* The code a call enters is the code that is in memory there: no translation of an
\* overlay that is no longer loaded runs (abi.h 22-25).
RunsLoadedCode ==
  \A a \in Addresses :
    \A e \in {CallTarget(a), ResumeTarget(a)} \ {None} : Matches(e)

\* A task that is resumed at the entry of a function runs what a call there would run,
\* unless the entry has no range to be found by (abi_bare.cpp 247-252).
ResumeAgreesWithCall ==
  \A a \in Addresses :
    Search(a) # None /\ Search(a).end # 0 => ResumeTarget(a) = Search(a)

\* A hidden function is never entered, neither at its entry nor at a block inside it
\* (abi_bare.cpp 96-98).
HiddenIsNeverEntered ==
  \A a \in Addresses :
    \A e \in {CallTarget(a), ResumeTarget(a)} \ {None} : <<e.address, e.end>> \notin hidden
===============================================================================
