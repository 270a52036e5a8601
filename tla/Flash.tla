--------------------------------- MODULE Flash ---------------------------------
(***************************************************************************)
(* A block-allocated partition of the console's flash (runtime/src/hle/      *)
(* flash.cpp) and the FLASHROM syscalls on it (hle/bios.cpp 233-280): a      *)
(* header, blocks of a logical id and a payload, and a bitmap in which a     *)
(* cleared bit marks an allocated block.  A payload is its set of one bits:  *)
(* the guest's programming only clears bits, and an erase sets them all.     *)
(***************************************************************************)
EXTENDS Naturals

CONSTANTS
  NumBlocks,  \* user_blocks of the partition
  BlockIds,   \* logical ids in use
  Bits        \* bits of a payload

Physical == 1..NumBlocks
Payloads == SUBSET Bits
NoId     == 0   \* 0xFFFF, the id of an erased block
Erased   == [id |-> NoId, data |-> Bits]

VARIABLES
  header,   \* header_ok
  free,     \* physical blocks whose bitmap bit is set
  block,    \* physical block -> id and payload
  stored    \* history: id -> {the payload written} if not disturbed since, else {}

vars == <<header, free, block, stored>>

\* The blocks before the first free one: those the linear search looks at.
Searched == {p \in Physical : \A q \in 1..p : q \notin free}

\* lookup: the allocated blocks with the id; the highest wins.
Lookup(id) == {p \in Searched : block[p].id = id}
Highest(s) == CHOOSE p \in s : \A q \in s : q <= p
Lowest(s)  == CHOOSE p \in s : \A q \in s : p <= q

\* read_block.
Readable(id) == header /\ Lookup(id) # {}
ReadBlock(id) == block[Highest(Lookup(id))].data

\* write_block: over the id's block, or in the first free one, or nowhere.
WriteBlock(id, data) ==
  /\ header
  /\ IF Lookup(id) \cup free = {}
     THEN UNCHANGED vars
     ELSE LET p == IF Lookup(id) # {} THEN Highest(Lookup(id)) ELSE Lowest(free) IN
          /\ block' = [block EXCEPT ![p] = [id |-> id, data |-> data]]
          /\ free' = free \ {p}
          /\ stored' = [stored EXCEPT ![id] = {data}]
          /\ UNCHANGED header

\* FLASHROM_WRITE over a payload, a bitmap bit or the header (ids are left alone).
Program ==
  /\ \/ \E p \in Physical, keep \in Payloads :
          /\ block' = [block EXCEPT ![p].data = @ \cap keep]
          /\ stored' = [id \in BlockIds |->
                          IF block[p].id = id THEN {} ELSE stored[id]]
          /\ UNCHANGED <<header, free>>
     \/ \E p \in Physical :
          /\ free' = free \ {p}
          /\ UNCHANGED <<header, block, stored>>
     \/ header' = FALSE /\ UNCHANGED <<free, block, stored>>

\* FLASHROM_DELETE of the partition: it is not formatted again.
Delete ==
  /\ header' = FALSE
  /\ free' = Physical
  /\ block' = [p \in Physical |-> Erased]
  /\ stored' = [id \in BlockIds |-> {}]

\* format.
Init ==
  /\ header = TRUE /\ free = Physical
  /\ block = [p \in Physical |-> Erased]
  /\ stored = [id \in BlockIds |-> {}]

Next ==
  \/ \E id \in BlockIds, data \in Payloads : WriteBlock(id, data)
  \/ Program \/ Delete

-------------------------------------------------------------------------------
\* What was written under an id reads back, for every id at once, however the guest
\* programs other blocks or allocates blocks of its own between (flash.cpp 118-175).
BlocksReadBack ==
  \A id \in BlockIds : (header /\ stored[id] # {}) =>
    Readable(id) /\ ReadBlock(id) \in stored[id]
===============================================================================
