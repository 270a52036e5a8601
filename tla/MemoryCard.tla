------------------------------ MODULE MemoryCard ------------------------------
(***************************************************************************)
(* The memory card (runtime/src/maple/maple.cpp 35-252) and its file: loaded *)
(* or created by the launcher, rewritten whole after every block write.  A   *)
(* save truncates the file and then writes it, and the process can stop, or  *)
(* the disk fill up, between the two.                                        *)
(***************************************************************************)
EXTENDS Naturals

CONSTANTS
  Blocks,   \* blocks of the card; the last one is the system block
  Quarters, \* the parts a block is written in: 0..3
  Data      \* contents of a quarter block; "blank" and the "marker" of a formatted system block

Last == CHOOSE b \in Blocks : \A c \in Blocks : c <= b
Blank == [q \in Blocks \X Quarters |-> "blank"]
Formatted == [Blank EXCEPT ![<<Last, 0>>] = "marker"]
Images == [Blocks \X Quarters -> Data]

VARIABLES
  file,    \* the file, [kind, image]
  process, \* "down", "up", "refused", or a save in progress: "opening", "writing"
  boot,    \* the save in progress is the launcher's save_as of a new card
  flash,   \* flash_
  reply    \* to the newest block write: "none", "ok" or "error"

vars == <<file, process, boot, flash, reply>>

Card(image) == [kind |-> "card", image |-> image]
NoCard(kind) == [kind |-> kind, image |-> Blank]  \* "missing", "other", "short": cut off

\* load: exactly a card's size.
Adoptable(f) == f.kind = "card"

\* The launcher attaches the card, makes one if there is nothing, or ends.
Boot(create) ==
  /\ process = "down"
  /\ reply' = "none"
  /\ IF file.kind = "missing"
     THEN /\ process' = IF create THEN "opening" ELSE "refused"
          /\ flash' = Formatted /\ boot' = create
     ELSE /\ process' = IF Adoptable(file) THEN "up" ELSE "refused"
          /\ flash' = file.image
          /\ boot' = FALSE
  /\ UNCHANGED file

\* BlockWrite of a quarter: memory first, then save().
BlockWrite(b, q, d) ==
  /\ process = "up"
  /\ flash' = [flash EXCEPT ![<<b, q>>] = d]
  /\ process' = "opening" /\ boot' = FALSE /\ reply' = "none"
  /\ UNCHANGED file

\* The stream is opened, which truncates the file.
Open ==
  /\ process = "opening"
  /\ file' = NoCard("short")
  /\ process' = "writing"
  /\ UNCHANGED <<boot, flash, reply>>

\* Mutant of SaveFails: a failed save is not reported.
SaveFailsSilently ==
  /\ process \in {"opening", "writing"}
  /\ process' = IF boot THEN "refused" ELSE "up"
  /\ reply' = "ok"
  /\ UNCHANGED <<file, boot, flash>>

\* The file cannot be opened, or not written to the end.
SaveFails ==
  /\ process \in {"opening", "writing"}
  /\ process' = IF boot THEN "refused" ELSE "up"
  /\ reply' = "error"
  /\ UNCHANGED <<file, boot, flash>>

Saved ==
  /\ process = "writing"
  /\ file' = Card(flash)
  /\ process' = "up"
  /\ reply' = IF boot THEN "none" ELSE "ok"
  /\ UNCHANGED <<boot, flash>>

\* The run ends or is killed, at any point.
Stop ==
  /\ process # "down"
  /\ process' = "down"
  /\ reply' = "none"
  /\ UNCHANGED <<file, boot, flash>>

Init ==
  /\ file \in {NoCard("missing"), NoCard("other"), Card(Blank), Card(Formatted)}
  /\ process = "down" /\ boot = FALSE /\ flash = Blank /\ reply = "none"

Next ==
  \/ \E create \in BOOLEAN : Boot(create)
  \/ \E b \in Blocks, q \in Quarters, d \in Data : BlockWrite(b, q, d)
  \/ Open \/ SaveFails \/ Saved \/ Stop

-------------------------------------------------------------------------------
\* A file that is not a card is never adopted, so never written over; a save that was cut
\* short is such a file to the next run (maple.cpp 36-60, maple.h 139-146).
RefusesWhatIsNoCard ==
  [][/\ file.kind = "other" => file' = file
     /\ process = "down" /\ file.kind # "card" => process' # "up"]_vars

\* A block write that is answered with success is in the file, with everything written
\* before it, also what an earlier failed save left in memory only (maple.cpp 228-236).
AnsweredIsSaved == (process = "up" /\ reply = "ok") => file = Card(flash)
===============================================================================
