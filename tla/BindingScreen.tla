----------------------------- MODULE BindingScreen -----------------------------
(***************************************************************************)
(* The screen on which a player binds controls: the window's polling and its   *)
(* capture of an input (render/src/vk/window.cpp), the screen itself             *)
(* (render/src/input_menu.cpp) and the launcher between them                      *)
(* (runtime/boot/boot_main.cpp).  Keys go down, repeat and come up between polls.  *)
(* One key leaves the screen and, when there is none, ends the run.                 *)
(***************************************************************************)
EXTENDS Integers, Sequences, FiniteSets

CONSTANTS
  Rows,       \* the rows that bind a control, 1..n
  MaxEvents,  \* bound: key events between two polls
  HasFile     \* there is a file to keep the bindings in

VARIABLES
  down,       \* the keys that are down
  events,     \* SDL's queue: keys that went down or repeated
  window,     \* Window: [running, quits, capturing, captured, held, bindings]
  menu,       \* InputMenu: [open, awaiting, dirty, row, bindings]
  changed,    \* bindings_dirty
  rearm,      \* rearm_escape
  file,       \* the bindings on disk
  failed,     \* history: the last save failed
  onScreen    \* history: the escape key went down while the screen was open

vars == <<down, events, window, menu, changed, rearm, file, failed, onScreen>>

\* The launcher's fixed keys that matter here; any of them can be bound as well.
Keys == {"escape", "f1", "return", "down", "right"}

DeadZone == 0
Reset    == Cardinality(Rows) + 1
Close    == Reset + 1
RowCount == Close + 1

Nothing   == "nothing"
Cancelled == "cancelled"
Defaults  == [r \in Rows \cup {DeadZone} |-> IF r = DeadZone THEN 1 ELSE Nothing]

--------------------------------------------------------------------------------
(* InputMenu. *)

Opened(m, b) == [m EXCEPT !.open = TRUE, !.awaiting = FALSE, !.dirty = FALSE, !.row = 1,
                          !.bindings = b]

Moved(m) == IF m.awaiting THEN m ELSE [m EXCEPT !.row = (@ + 1) % RowCount]

Adjusted(m) == IF m.awaiting \/ m.row # DeadZone THEN m
               ELSE [m EXCEPT !.bindings[DeadZone] = IF @ = 2 THEN 2 ELSE @ + 1, !.dirty = TRUE]

Activated(m) ==
  CASE m.awaiting -> m
    [] ~m.awaiting /\ m.row = Reset -> [m EXCEPT !.bindings = [Defaults EXCEPT ![DeadZone] =
                                                               m.bindings[DeadZone]], !.dirty = TRUE]
    [] ~m.awaiting /\ m.row \in Rows -> [m EXCEPT !.awaiting = TRUE]
    [] OTHER -> m

Backed(m) == IF m.awaiting THEN [m EXCEPT !.awaiting = FALSE] ELSE [m EXCEPT !.open = FALSE]

\* apply_capture: the control that had this input loses it.
Applied(m, b) ==
  IF ~m.awaiting THEN m
  ELSE IF b = Cancelled THEN [m EXCEPT !.awaiting = FALSE]
  ELSE [m EXCEPT !.awaiting = FALSE, !.dirty = TRUE,
                 !.bindings = [r \in DOMAIN @ |-> IF r = m.row THEN b
                                                  ELSE IF r \in Rows /\ @[r] = b THEN Nothing ELSE @[r]]]

--------------------------------------------------------------------------------
(* Window::poll. *)

\* A capture takes the first key that went down; among the others, the escape key ends the run
\* where that is armed.
Taken == window.capturing /\ events # << >>
Left  == {events[n] : n \in {m \in 1..Len(events) : Taken => m > 1}}

Handled ==
  [window EXCEPT
     !.capturing = @ /\ ~Taken,
     !.captured = IF ~Taken THEN @ ELSE IF events[1] = "escape" THEN Cancelled ELSE events[1],
     !.running = @ /\ ~("escape" \in Left /\ window.quits)]

Polled == [Handled EXCEPT !.held = down]

--------------------------------------------------------------------------------
(* Live, on the window and the screen as they are then: [w, m, changed, rearm, saves]. *)

\* apply_bindings: live at once, saved when the screen closes.
Applying(s) == IF ~s.m.dirty THEN s
               ELSE [s EXCEPT !.m.dirty = FALSE, !.changed = TRUE, !.w.bindings = s.m.bindings]

\* Mutant of Closing: escape ends the run again at once.
ClosingArmed(s) ==
  [s EXCEPT !.m.open = FALSE, !.w.capturing = FALSE, !.w.captured = Nothing, !.w.quits = TRUE,
            !.changed = FALSE, !.saves = s.changed /\ HasFile]

\* close_menu.
Closing(s) ==
  [s EXCEPT !.m.open = FALSE, !.w.capturing = FALSE, !.w.captured = Nothing, !.rearm = TRUE,
            !.changed = FALSE, !.saves = s.changed /\ HasFile]

Opening(s) ==
  [s EXCEPT !.m = Opened(@, s.w.bindings), !.changed = FALSE, !.rearm = FALSE, !.w.quits = FALSE]

\* The arrows and the return key, in the order they are looked at.
Navigated(s, pressed) ==
  LET a == IF "down" \in pressed THEN [s EXCEPT !.m = Moved(@)] ELSE s
      b == IF "right" \in pressed THEN [a EXCEPT !.m = Adjusted(@)] ELSE a
      c == [b EXCEPT !.m = Activated(@)]
  IN IF "return" \notin pressed THEN Applying(b)
     ELSE IF ~b.m.awaiting /\ b.m.row = Close THEN Closing(b)
     ELSE Applying(IF c.m.awaiting
                     THEN [c EXCEPT !.w.capturing = TRUE, !.w.captured = Nothing] ELSE c)

\* pump_menu, once escape is armed again.
Pumped(s, pressed) ==
  LET back == [s EXCEPT !.m = Backed(@)] IN
  IF "f1" \in pressed THEN IF s.m.open THEN Closing(s) ELSE Opening(s)
  ELSE IF ~s.m.open THEN s
  ELSE IF s.w.captured # Nothing
    THEN Applying([s EXCEPT !.m = Applied(@, s.w.captured), !.w.captured = Nothing])
  ELSE IF "escape" \in pressed THEN IF back.m.open THEN back ELSE Closing(back)
  ELSE Navigated(s, pressed)

Rearmed(s) == IF s.rearm /\ "escape" \notin s.w.held
                THEN [s EXCEPT !.rearm = FALSE, !.w.quits = TRUE] ELSE s

--------------------------------------------------------------------------------
(* Steps. *)

Press(k) ==
  /\ k \notin down /\ Len(events) < MaxEvents
  /\ down \subseteq {"escape"} \/ (k = "escape" /\ Cardinality(down) = 1)  \* bound: two at most
  /\ down' = down \cup {k} /\ events' = Append(events, k)
  /\ onScreen' = IF k = "escape" THEN menu.open ELSE onScreen
  /\ UNCHANGED <<window, menu, changed, rearm, file, failed>>

Repeat(k) ==
  /\ k \in down /\ Len(events) < MaxEvents
  /\ events' = Append(events, k)
  /\ UNCHANGED <<down, window, menu, changed, rearm, file, failed, onScreen>>

Release(k) ==
  /\ k \in down
  /\ down' = down \ {k}
  /\ UNCHANGED <<events, window, menu, changed, rearm, file, failed, onScreen>>

\* present: the window is polled, and unless it has been closed the screen is pumped.  A save
\* truncates the file before it writes.
Present ==
  LET s == [w |-> Polled, m |-> menu, changed |-> changed, rearm |-> rearm, saves |-> FALSE]
      t == IF Polled.running THEN Pumped(Rearmed(s), down \ window.held) ELSE s
  IN /\ window.running
     /\ events' = << >>
     /\ window' = t.w /\ menu' = t.m /\ changed' = t.changed /\ rearm' = t.rearm
     /\ IF ~t.saves THEN UNCHANGED <<file, failed>>
        ELSE \/ file' = t.m.bindings /\ failed' = FALSE
             \/ file' = << >> /\ failed' = TRUE
     /\ UNCHANGED <<down, onScreen>>

Init ==
  /\ down = {} /\ events = << >>
  /\ window = [running |-> TRUE, quits |-> TRUE, capturing |-> FALSE, captured |-> Nothing,
               held |-> {}, bindings |-> Defaults]
  /\ menu = [open |-> FALSE, awaiting |-> FALSE, dirty |-> FALSE, row |-> 1, bindings |-> Defaults]
  /\ changed = FALSE /\ rearm = FALSE /\ file = Defaults /\ failed = FALSE /\ onScreen = FALSE

Next == Present \/ \E k \in Keys : Press(k) \/ Repeat(k) \/ Release(k)

Spec == Init /\ [][Next]_vars

--------------------------------------------------------------------------------
(* Properties. *)

\* The escape key ends the run only when it went down with no screen open: a press that cancels
\* a capture or leaves the screen never does, however long it is held and repeats.
QuitIsAPressOfItsOwn == ~window.running => ~onScreen

\* The screen and the window agree on whether an input is awaited, so that the screen is never
\* stuck and no later press is taken for a binding; and one escape does not do two things.
CaptureIsAwaited == menu.open => (menu.awaiting <=> window.capturing)

\* With the screen closed, the file holds the bindings that are in use, unless it could not be
\* written.
SavedAsUsed == HasFile /\ ~menu.open /\ ~failed => file = window.bindings
================================================================================
