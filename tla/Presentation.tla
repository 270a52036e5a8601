----------------------------- MODULE Presentation -----------------------------
(***************************************************************************)
(* From a render to the window: the launcher's Live (runtime/boot/boot_main.cpp) *)
(* and the texture cache it keeps (render/src/vk/texture_cache.cpp).  A render     *)
(* draws into one offscreen image, which may be a frame or a texture; some of       *)
(* them are written into video memory; a vertical blank shows the buffer that the    *)
(* guest displays.  Contents are numbered in the order in which they come about.      *)
(***************************************************************************)
EXTENDS Naturals, FiniteSets

CONSTANTS
  Buffers,        \* the addresses a title displays or renders to: an address is a range of cells
  Textures,       \* the textures it samples: [lo, size]
  BufferSize,     \* cells of a buffer
  MaxTargets,     \* buffers that are remembered, 8 in the code
  MaxSets,        \* textures that can be bound at once, 2048 in the code
  MaxContents,    \* bound: contents there are
  WritesBack      \* --framebuffer-writeback

VARIABLES
  display,    \* FB_R_CTRL and FB_R_SOF1: [on, at]
  target,     \* FB_W_SOF1: [at, texture]
  palette,    \* palette memory
  memory,     \* cell -> the content it is of
  offscreen,  \* the offscreen image: a content, 0 before the first
  held,       \* held_frame while holding_frame, otherwise 0
  targets,    \* targets_
  pixels,     \* what was last decoded from memory: [at, of], of = 0 for nothing
  shown,      \* what the window was last given to show, and as what: [from, of, as]
  described,  \* Live's shown: "none" before have_frame, "renderer" or "memory"
  cache,      \* the cache's palette, and entries: texture -> [of, palette, bound]
  now,        \* history: contents so far
  frames,     \* history: the last frame drawn, and any that failed since
  rendered    \* history: cell -> the render that was last written there

vars == <<display, target, palette, memory, offscreen, held, targets, pixels, shown, described,
          cache, now, frames, rendered>>

Region(at, size) == at..(at + size - 1)
Cells == (UNION {Region(b, BufferSize) : b \in Buffers})
           \cup (UNION {Region(t.lo, t.size) : t \in Textures})
NoEntries == [t \in {} |-> 0]

--------------------------------------------------------------------------------
(* The guest. *)

SetsDisplay(d) == /\ display' = d
                  /\ UNCHANGED <<target, palette, memory, offscreen, held, targets, pixels, shown,
                                 described, cache, now, frames, rendered>>
SetsTarget(t)  == /\ target' = t
                  /\ UNCHANGED <<display, palette, memory, offscreen, held, targets, pixels, shown,
                                 described, cache, now, frames, rendered>>
SetsPalette == /\ palette' = 1 - palette
               /\ UNCHANGED <<display, target, memory, offscreen, held, targets, pixels, shown,
                              described, cache, now, frames, rendered>>
\* A write of its own: the cache is not told.
Draws(at) == /\ now < MaxContents
             /\ now' = now + 1
             /\ memory' = [c \in Cells |-> IF c \in Region(at, BufferSize) THEN now' ELSE memory[c]]
             /\ UNCHANGED <<display, target, palette, offscreen, held, targets, pixels, shown,
                            described, cache, frames, rendered>>

--------------------------------------------------------------------------------
(* The texture cache. *)

\* set_palette: everything is dropped if palette memory has changed.
Repaletted == IF palette = cache.palette THEN cache ELSE [palette |-> palette, entries |-> NoEntries]

BoundIn(c) == {t \in DOMAIN c.entries : c.entries[t].bound}

\* get, for the textures ts: one that is not there is decoded and bound, while there are sets.  B
\* are those that are; a failure is remembered.  One set is the fallback's.
Bindable(c, ts, B) ==
  /\ B \subseteq ts \ DOMAIN c.entries
  /\ Cardinality(BoundIn(c)) + Cardinality(B) + 1 <= MaxSets
  /\ B = ts \ DOMAIN c.entries \/ Cardinality(BoundIn(c)) + Cardinality(B) + 1 = MaxSets

Got(c, ts, B) ==
  [c EXCEPT !.entries = [u \in DOMAIN @ \cup ts |->
     IF u \in DOMAIN @ THEN @[u]
     ELSE [of |-> [x \in Region(u.lo, u.size) |-> memory[x]], palette |-> c.palette,
           bound |-> u \in B]]]

Overlaps(t, begin, end) == t.lo < end /\ begin < t.lo + t.size

\* invalidate_range.
Without(c, begin, end) ==
  [c EXCEPT !.entries = [t \in {u \in DOMAIN @ : ~Overlaps(u, begin, end)} |-> @[t]]]

--------------------------------------------------------------------------------
(* Live::render and write_back. *)

\* Mutant of Held: the frame is held only once the texture has been drawn.
HeldNever == held

\* The last frame is kept across a render to texture.
Held == IF target.texture /\ held = 0 THEN offscreen ELSE held

\* The image goes into memory, and what was decoded from there is dropped.
Encoded(c) ==
  /\ memory' = [x \in Cells |-> IF x \in Region(target.at, BufferSize) THEN now' ELSE memory[x]]
  /\ rendered' = [x \in Cells |-> IF x \in Region(target.at, BufferSize) THEN now' ELSE rendered[x]]
  /\ cache' = Without(c, target.at, target.at + BufferSize)

Remembered(at) == IF at \notin targets /\ Cardinality(targets) < MaxTargets
                    THEN targets \cup {at} ELSE targets

\* A render samples the textures ts, in no order of their own.
Render(ts, B) ==
  LET c == Got(Repaletted, ts, B) IN
  /\ now < MaxContents /\ Bindable(Repaletted, ts, B)
  /\ now' = now + 1
  /\ offscreen' = now'
  /\ held' = IF target.texture THEN Held ELSE 0
  /\ frames' = IF target.texture THEN frames ELSE {now'}
  /\ IF target.texture THEN Encoded(c) /\ UNCHANGED targets
     ELSE /\ targets' = Remembered(target.at)
          /\ IF WritesBack THEN Encoded(c) ELSE cache' = c /\ UNCHANGED <<memory, rendered>>
  /\ UNCHANGED <<display, target, palette, pixels, shown, described>>

\* The device fails, before or after the image has been drawn over; nothing more is done.
RenderFails(ts, B) ==
  /\ now < MaxContents /\ Bindable(Repaletted, ts, B)
  /\ now' = now + 1
  /\ offscreen' \in IF offscreen = 0 THEN {0} ELSE {offscreen, now'}
  /\ held' = Held
  /\ cache' = Got(Repaletted, ts, B)
  /\ frames' = IF target.texture \/ offscreen' = offscreen THEN frames ELSE frames \cup {now'}
  /\ UNCHANGED <<display, target, palette, memory, targets, pixels, shown, described, rendered>>

--------------------------------------------------------------------------------
(* Live::present. *)

FramePixels == IF held # 0 THEN held ELSE offscreen

FromRenderer == display.on /\ display.at \in targets

Source == IF FromRenderer THEN FramePixels ELSE pixels'.of

Present ==
  /\ pixels' = IF display.on /\ ~FromRenderer THEN [at |-> display.at, of |-> memory[display.at]]
               ELSE pixels
  /\ described' = CASE FromRenderer -> "renderer"
                    [] display.on /\ ~FromRenderer -> "memory"
                    [] OTHER -> described
  \* upload takes nothing from an empty buffer.
  /\ shown' = IF described' = "none" \/ Source = 0 THEN shown
              ELSE [from |-> IF FromRenderer THEN "renderer" ELSE "memory",
                    of |-> Source, as |-> described']
  /\ UNCHANGED <<display, target, palette, memory, offscreen, held, targets, cache, now, frames,
                 rendered>>

Init ==
  /\ display = [on |-> FALSE, at |-> CHOOSE b \in Buffers : TRUE]
  /\ target = [at |-> CHOOSE b \in Buffers : TRUE, texture |-> FALSE]
  /\ palette = 0 /\ memory = [c \in Cells |-> 1] /\ offscreen = 0 /\ held = 0 /\ targets = {}
  /\ pixels = [at |-> 0, of |-> 0] /\ shown = [from |-> "none", of |-> 0, as |-> "none"]
  /\ described = "none" /\ cache = [palette |-> 0, entries |-> NoEntries]
  /\ now = 1 /\ frames = {} /\ rendered = [c \in Cells |-> 0]

Next ==
  \/ \E b \in Buffers : Draws(b) \/ \E on \in BOOLEAN : SetsDisplay([on |-> on, at |-> b])
                                  \/ SetsTarget([at |-> b, texture |-> on])
  \/ SetsPalette \/ Present
  \/ \E ts \in SUBSET Textures : \E B \in SUBSET ts : Render(ts, B) \/ RenderFails(ts, B)

Spec == Init /\ [][Next]_vars

--------------------------------------------------------------------------------
(* Properties. *)

\* What the window takes from the renderer is the last frame that was drawn (or one that failed
\* half drawn after it), never a texture that was rendered since, in whatever order renders to
\* texture, failures and vertical blanks come.
WindowKeepsTheLastFrame ==
  FromRenderer => FramePixels \in frames

\* No texture is bound that was decoded before the renderer last wrote to any of its cells, or
\* with another palette than the cache has; and no more are bound than there are sets for.
TexturesFollowTheRenderer ==
  /\ \A t \in DOMAIN cache.entries : LET e == cache.entries[t] IN
       /\ e.palette = cache.palette
       /\ \A x \in DOMAIN e.of : e.of[x] >= rendered[x]
  /\ Cardinality(BoundIn(cache)) + 1 <= MaxSets

\* A vertical blank shows what the registers nominate, or leaves the window as it was.
WindowFollowsTheDisplay ==
  [][shown' # shown => display.on /\ shown'.as = shown'.from
       /\ (shown'.from = "memory" => shown'.of = memory[display.at])]_vars
================================================================================
