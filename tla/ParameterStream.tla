---------------------------- MODULE ParameterStream ----------------------------
(***************************************************************************)
(* The tile accelerator's input, read twice.  dream::pvr::Ta follows the       *)
(* 32-byte chunks as they arrive, to announce the end of each list, and keeps   *)
(* them; when the guest starts a render, dream::render::DisplayList reads the    *)
(* kept stream from its beginning and builds what is drawn.  The two have their   *)
(* own rules for which chunks are the second half of a parameter.  Here the        *)
(* second one reads along, so that its state is always that of a render now.        *)
(***************************************************************************)
EXTENDS Integers, Sequences

CONSTANTS
  Headers,      \* the polygon and sprite headers of this title
  MaxVertices,  \* bound: vertices in a stream
  MaxHeaders    \* bound: headers in a stream

VARIABLES
  ta,      \* Ta's state
  open,    \* Ta's current_list, 7 for none
  ended,   \* the lists whose end Ta has raised, in order
  dl,      \* DisplayList: pending, list, active, sprite, and current: header, first and count
  frame,   \* what is drawn: vertices, the polygons of all lists, modifiers
  closed,  \* history: the lists DisplayList has closed, in order
  serial   \* history: headers so far

vars == <<ta, open, ended, dl, frame, closed, serial>>

NoList == 7
ModifierLists == {1, 3}

\* A parameter control word and the chunk it starts.
Header(type, list, col, tex, off, vol) ==
  [type |-> type, list |-> list, col |-> col, tex |-> tex, off |-> off, vol |-> vol]
Blank == Header("none", 0, 0, FALSE, FALSE, FALSE)

Intensity == 2
Floating  == 1

--------------------------------------------------------------------------------
(* The first reader. *)

TaHeaderIs64(h) == h.col = 2 /\ (h.vol \/ (h.tex /\ h.off))

TaVertexIs64(h) == h.tex /\ (h.col = 1 \/ h.vol)

\* Mutant of AfterHeader: a polygon of an odd list is not a modifier volume.
AfterHeaderPolygons(h, list) ==
  IF TaHeaderIs64(h) THEN (IF TaVertexIs64(h) THEN "plhv64" ELSE "plhv32")
  ELSE (IF TaVertexIs64(h) THEN "plv64" ELSE "plv32")

\* The state after the first half of a header, in the list that is open with it.
AfterHeader(h, list) ==
  CASE h.type = "sprite" -> "plv64"
    [] h.type = "poly" /\ list % 2 = 1 -> "mlv64"
    [] OTHER -> IF TaHeaderIs64(h) THEN (IF TaVertexIs64(h) THEN "plhv64" ELSE "plhv32")
                ELSE (IF TaVertexIs64(h) THEN "plv64" ELSE "plv32")

\* Second halves carry no control word.
SecondHalf == [plhv32 |-> "plv32", plhv64 |-> "plv64", plv64h |-> "plv64", mlv64h |-> "mlv64"]
TaExpectsHalf == ta \in DOMAIN SecondHalf

AfterVertex == CASE ta = "plv64" -> "plv64h" [] ta = "mlv64" -> "mlv64h" [] OTHER -> ta

--------------------------------------------------------------------------------
(* The second reader. *)

DlHeaderIs64(h) == h.col = Intensity /\ (IF h.vol THEN TRUE ELSE h.tex /\ h.off)

DlVertexIs64(h) == IF h.vol THEN h.tex ELSE h.tex /\ h.col = Floating

Polygon(list) == [list |-> list, first |-> dl.first, count |-> dl.count, of |-> dl.serial]

\* end_strip, on what is drawn and on the current polygon.
Strip == IF dl.count >= 3 /\ dl.list < 5
           THEN [frame EXCEPT !.polygons = Append(@, Polygon(dl.list))] ELSE frame
Restarted(d) == [d EXCEPT !.count = 0, !.first = Len(frame.vertices)]

\* handle_header: whatever strip was open ends.
Headed(h) ==
  /\ frame' = Strip
  /\ dl' = IF h.list >= 5 THEN [Restarted(dl) EXCEPT !.active = FALSE]
           ELSE [pending |-> IF h.type = "poly" /\ h.list \notin ModifierLists /\ DlHeaderIs64(h)
                               THEN "header" ELSE "none",
                 list |-> h.list, active |-> h.type = "poly", sprite |-> h.type = "sprite",
                 header |-> h, first |-> Len(frame.vertices), count |-> 0, serial |-> serial']

\* handle_vertex: the vertex joins the current strip, which it may end.
Pushed(eos) ==
  LET with == [frame EXCEPT !.vertices = Append(@, serial)]
      n == dl.count + 1
  IN IF eos THEN /\ frame' = [with EXCEPT !.polygons =
                       IF n >= 3 /\ dl.list < 5
                         THEN Append(@, [Polygon(dl.list) EXCEPT !.count = n]) ELSE @]
                 /\ dl' = [dl EXCEPT !.count = 0, !.first = Len(with.vertices), !.pending = "none"]
     ELSE frame' = with /\ dl' = [dl EXCEPT !.count = n, !.pending = "none"]

\* handle_sprite_vertex: four corners, a polygon of their own.
SpritePushed ==
  LET at == Len(frame.vertices) IN
  /\ frame' = [frame EXCEPT !.vertices = @ \o [i \in 1..4 |-> serial], !.polygons =
                 Append(@, [list |-> dl.list, first |-> at, count |-> 4, of |-> dl.serial])]
  /\ dl' = [dl EXCEPT !.first = at, !.count = 0, !.pending = "none"]

\* handle_modifier_vertex: one whole triangle.
TrianglePushed ==
  /\ frame' = [frame EXCEPT !.modifiers = @ + 1]
  /\ dl' = [dl EXCEPT !.pending = "none"]

\* The first half of a vertex.
DlVertex(eos) ==
  CASE ~dl.active /\ ~dl.sprite -> UNCHANGED <<frame, dl>>
    [] (dl.active \/ dl.sprite) /\ dl.list \in ModifierLists ->
         dl' = [dl EXCEPT !.pending = "triangle"] /\ UNCHANGED frame
    [] dl.sprite /\ dl.list \notin ModifierLists ->
         dl' = [dl EXCEPT !.pending = "sprite"] /\ UNCHANGED frame
    [] OTHER -> IF DlVertexIs64(dl.header)
                  THEN dl' = [dl EXCEPT !.pending = IF eos THEN "last" ELSE "vertex"] /\ UNCHANGED frame
                  ELSE Pushed(eos)

\* The second half of whatever is pending.
DlHalf ==
  CASE dl.pending = "header"   -> dl' = [dl EXCEPT !.pending = "none"] /\ UNCHANGED frame
    [] dl.pending = "sprite"   -> SpritePushed
    [] dl.pending = "triangle" -> TrianglePushed
    [] OTHER                   -> Pushed(dl.pending = "last")

--------------------------------------------------------------------------------
(* The chunks of a stream.  Both readers take each of them. *)

Full == Len(frame.vertices) + frame.modifiers >= MaxVertices

\* A second half: its words are data.
Half ==
  /\ TaExpectsHalf
  /\ ta' = SecondHalf[ta]
  /\ IF dl.pending # "none" THEN DlHalf ELSE UNCHANGED <<dl, frame>>
  /\ UNCHANGED <<open, ended, closed, serial>>

\* A header.  A title names the list that is open, if one is, in every header of it.
Heading(h) ==
  /\ ~TaExpectsHalf /\ serial < MaxHeaders
  /\ h.list < 5 /\ open \in {NoList, h.list}
  /\ serial' = serial + 1
  /\ open' = IF open = NoList THEN h.list ELSE open
  /\ ta' = AfterHeader(h, open')
  /\ IF dl.pending # "none" THEN DlHalf ELSE Headed(h)
  /\ UNCHANGED <<ended, closed>>

Vertex(eos) ==
  /\ ~TaExpectsHalf /\ ~Full
  /\ ta' = AfterVertex
  /\ IF dl.pending # "none" THEN DlHalf ELSE DlVertex(eos)
  /\ UNCHANGED <<open, ended, closed, serial>>

\* The end of the list that is open, or of the one the chunk names.
EndOfList(list) ==
  /\ ~TaExpectsHalf /\ Len(ended) < 2 /\ open \in {NoList, list}
  /\ ended' = Append(ended, list)
  /\ open' = NoList /\ ta' = "ns"
  /\ IF dl.pending # "none" THEN DlHalf /\ UNCHANGED closed
     ELSE /\ frame' = Strip
          /\ dl' = [Restarted(dl) EXCEPT !.sprite = FALSE, !.active = FALSE, !.list = 5]
          /\ closed' = IF dl.list < 5 THEN Append(closed, dl.list) ELSE Append(closed, list)
  /\ UNCHANGED serial

\* A tile clip, an object list or a type that does not exist: 32 bytes and no change.
Other ==
  /\ ~TaExpectsHalf
  /\ IF dl.pending # "none" THEN DlHalf ELSE UNCHANGED <<dl, frame>>
  /\ UNCHANGED <<ta, open, ended, closed, serial>>

Start ==
  /\ ta = "ns" /\ open = NoList /\ ended = << >> /\ closed = << >> /\ serial = 0
  /\ dl = [pending |-> "none", list |-> 5, active |-> FALSE, sprite |-> FALSE,
           header |-> Blank, first |-> 0, count |-> 0, serial |-> 0]
  /\ frame = [vertices |-> << >>, polygons |-> << >>, modifiers |-> 0]

\* TA_LIST_INIT, TA_LIST_CONT or a soft reset: the stream is dropped, whatever it was in.
Reset ==
  /\ ta' = "ns" /\ open' = NoList /\ ended' = << >> /\ closed' = << >> /\ serial' = 0
  /\ dl' = [pending |-> "none", list |-> 5, active |-> FALSE, sprite |-> FALSE,
            header |-> Blank, first |-> 0, count |-> 0, serial |-> 0]
  /\ frame' = [vertices |-> << >>, polygons |-> << >>, modifiers |-> 0]

--------------------------------------------------------------------------------
(* Properties. *)

Init == Start

Next == \/ Half \/ Other \/ Reset
        \/ \E h \in Headers : Heading(h)
        \/ \E eos \in BOOLEAN : Vertex(eos)
        \/ \E h \in Headers : EndOfList(h.list)

Spec == Init /\ [][Next]_vars

\* The two readers never disagree on which chunk is a second half and which is a parameter, on the
\* list that is open, or on the lists that have ended: what was announced as done is what a render
\* draws, though each reader has its own rules for the sizes and its own idea of the list.
ReadersAgree ==
  /\ TaExpectsHalf <=> dl.pending # "none"
  /\ open = NoList <=> dl.list = 5
  /\ open # NoList => dl.list = open
  /\ closed = ended

\* Every polygon is drawn from the vertices that came after its own header and before the next,
\* at least three of them, and no vertex is drawn twice.
PolygonsHaveTheirVertices ==
  LET Of(p) == (p.first + 1)..(p.first + p.count) IN
  /\ \A i \in DOMAIN frame.polygons : LET p == frame.polygons[i] IN
       /\ p.count >= 3
       /\ \A v \in Of(p) : v \in DOMAIN frame.vertices /\ frame.vertices[v] = p.of
       /\ \A j \in 1..(i - 1) : Of(frame.polygons[j]) \cap Of(p) = {}
  /\ dl.active /\ dl.count > 0 =>
       \A v \in (dl.first + 1)..(dl.first + dl.count) : frame.vertices[v] = dl.serial
================================================================================
