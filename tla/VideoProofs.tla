------------------------------ MODULE VideoProofs ------------------------------
(***************************************************************************)
(* Theorems about the picture: the path from a render to the window, the       *)
(* binding screen, the two readers of a parameter stream, and where a picture,   *)
(* a texture or a frame is written and read, for any buffers, textures, rows,     *)
(* headers, shapes, control words, registers, images and bounds that satisfy      *)
(* VideoAssumption.                                                                *)
(***************************************************************************)
EXTENDS Video, Sequences, FiniteSetTheorems, SequenceTheorems, TLAPS

--------------------------------------------------------------------------------
(* From a render to the window. *)

\* A cache whose textures were decoded after what r says was last rendered over them.
Fresh(c, r) ==
  /\ c = [palette |-> c.palette, entries |-> c.entries]
  /\ DOMAIN c.entries \subseteq Textures
  /\ \A t \in DOMAIN c.entries :
       /\ c.entries[t].palette = c.palette
       /\ DOMAIN c.entries[t].of = Live!Region(t.lo, t.size)
       /\ \A x \in Live!Region(t.lo, t.size) : c.entries[t].of[x] \in Nat /\ c.entries[t].of[x] >= r[x]
  /\ Cardinality(Live!BoundIn(c)) + 1 <= MaxSets

LiveType ==
  /\ display \in [on : BOOLEAN, at : Buffers] /\ target \in [at : Buffers, texture : BOOLEAN]
  /\ memory \in [Live!Cells -> Nat] /\ rendered \in [Live!Cells -> Nat]
  /\ now \in Nat \ {0} /\ offscreen \in Nat /\ held \in Nat

\* The frame outlives the renders to texture after it, and what is in memory is at least as new
\* as what was rendered there.
LiveInv ==
  /\ LiveType
  /\ 0 \notin frames
  /\ targets # {} => Live!FramePixels \in frames
  /\ \A x \in Live!Cells : rendered[x] <= memory[x] /\ rendered[x] <= now
  /\ Fresh(cache, rendered)

LEMMA SameCardinality == \A S : Live!Cardinality(S) = Cardinality(S)
BY DEF Live!Cardinality, Cardinality

LEMMA RegionsAreCells ==
  /\ \A b \in Buffers : Live!Region(b, BufferSize) \subseteq Live!Cells
  /\ \A t \in Textures : Live!Region(t.lo, t.size) \subseteq Live!Cells
<1>1. ASSUME NEW b \in Buffers, NEW x \in Live!Region(b, BufferSize) PROVE x \in Live!Cells
  <2>1. x \in UNION {Live!Region(a, BufferSize) : a \in Buffers}
    OBVIOUS
  <2>2. QED
    BY <2>1 DEF Live!Cells
<1>2. ASSUME NEW t \in Textures, NEW x \in Live!Region(t.lo, t.size) PROVE x \in Live!Cells
  <2>1. x \in UNION {Live!Region(u.lo, u.size) : u \in Textures}
    OBVIOUS
  <2>2. QED
    BY <2>1 DEF Live!Cells
<1>3. QED
  BY <1>1, <1>2

LEMMA BoundIsFinite ==
  ASSUME NEW c, DOMAIN c.entries \subseteq Textures
  PROVE  /\ IsFiniteSet(Live!BoundIn(c)) /\ Cardinality(Live!BoundIn(c)) \in Nat
<1>1. IsFiniteSet(Textures)
  BY VideoAssumption DEF VideoAssumption
<1>2. Live!BoundIn(c) \in SUBSET Textures
  BY DEF Live!BoundIn
<1>3. QED
  BY <1>1, <1>2, FS_Subset, FS_CardinalityType

LEMMA RepalettedIsFresh ==
  ASSUME Fresh(cache, rendered)
  PROVE  Fresh(Live!Repaletted, rendered)
<1>1. CASE palette = cache.palette
  BY <1>1 DEF Live!Repaletted
<1>2. CASE palette # cache.palette
  <2>1. Live!Repaletted = [palette |-> palette, entries |-> Live!NoEntries]
    BY <1>2 DEF Live!Repaletted
  <2>2. DOMAIN Live!NoEntries = {}
    BY DEF Live!NoEntries
  <2> DEFINE c == [palette |-> palette, entries |-> Live!NoEntries]
  <2>3. c.entries = Live!NoEntries /\ c = [palette |-> c.palette, entries |-> c.entries]
    OBVIOUS
  <2>4. Live!BoundIn(c) = {}
    BY <2>2, <2>3 DEF Live!BoundIn
  <2> HIDE DEF c
  <2>5. Cardinality(Live!BoundIn(c)) + 1 <= MaxSets
    <3>1. Cardinality(Live!BoundIn(c)) = 0
      BY <2>4, FS_EmptySet
    <3>2. MaxSets \in Nat \ {0}
      BY VideoAssumption DEF VideoAssumption
    <3>3. QED
      BY <3>1, <3>2
  <2>6. Fresh(c, rendered)
    BY <2>2, <2>3, <2>5 DEF Fresh
  <2>7. QED
    BY <2>1, <2>6 DEF c
<1>3. QED
  BY <1>1, <1>2

\* Textures that are sampled are decoded from memory as it is, and bound while there are sets.
LEMMA GotIsFresh ==
  ASSUME LiveType, NEW c, Fresh(c, rendered), \A x \in Live!Cells : rendered[x] <= memory[x],
         NEW ts \in SUBSET Textures, NEW B, Live!Bindable(c, ts, B)
  PROVE  Fresh(Live!Got(c, ts, B), rendered)
<1> DEFINE e == [u \in DOMAIN c.entries \cup ts |->
                   IF u \in DOMAIN c.entries THEN c.entries[u]
                   ELSE [of |-> [x \in Live!Region(u.lo, u.size) |-> memory[x]],
                         palette |-> c.palette, bound |-> u \in B]]
           g == Live!Got(c, ts, B)
<1>1. g = [palette |-> c.palette, entries |-> e]
  BY DEF Fresh, Live!Got
<1>2. g = [palette |-> g.palette, entries |-> g.entries] /\ g.entries = e /\ g.palette = c.palette
  BY <1>1
<1>3. DOMAIN e = DOMAIN c.entries \cup ts /\ DOMAIN e \subseteq Textures
  BY DEF Fresh
<1>4. ASSUME NEW t \in DOMAIN e
      PROVE  /\ e[t].palette = c.palette
             /\ DOMAIN e[t].of = Live!Region(t.lo, t.size)
             /\ \A x \in Live!Region(t.lo, t.size) : e[t].of[x] \in Nat /\ e[t].of[x] >= rendered[x]
  <2>1. CASE t \in DOMAIN c.entries
    <3>1. e[t] = c.entries[t]
      BY <2>1
    <3> HIDE DEF e
    <3>2. QED
      BY <2>1, <3>1 DEF Fresh
  <2>2. CASE t \notin DOMAIN c.entries
    <3>1. /\ e[t].palette = c.palette
          /\ e[t].of = [x \in Live!Region(t.lo, t.size) |-> memory[x]]
      BY <2>2
    <3>2. Live!Region(t.lo, t.size) \subseteq Live!Cells
      BY <1>3, RegionsAreCells
    <3> HIDE DEF e
    <3>3. QED
      BY <3>1, <3>2 DEF LiveType
  <2>3. QED
    BY <2>1, <2>2
<1>5. Live!BoundIn(g) = Live!BoundIn(c) \cup B
  <2>1. ASSUME NEW t \in DOMAIN c.entries PROVE e[t].bound = c.entries[t].bound /\ t \notin B
    BY DEF Live!Bindable
  <2>2. ASSUME NEW t \in ts, t \notin DOMAIN c.entries PROVE e[t].bound = (t \in B)
    BY <2>2
  <2>3. B \subseteq ts
    BY DEF Live!Bindable
  <2> HIDE DEF e, g
  <2>4. QED
    BY <1>2, <1>3, <2>1, <2>2, <2>3 DEF Live!BoundIn
<1>6. Cardinality(Live!BoundIn(g)) + 1 <= MaxSets
  <2>1. IsFiniteSet(Live!BoundIn(c)) /\ Cardinality(Live!BoundIn(c)) \in Nat
    BY BoundIsFinite DEF Fresh
  <2>2. IsFiniteSet(B) /\ Cardinality(B) \in Nat
    <3>1. B \in SUBSET Textures /\ IsFiniteSet(Textures)
      BY VideoAssumption DEF Live!Bindable, VideoAssumption
    <3>2. QED
      BY <3>1, FS_Subset, FS_CardinalityType
  <2>3. Live!BoundIn(c) \cap B = {}
    BY DEF Live!Bindable, Live!BoundIn
  <2>4. Cardinality(Live!BoundIn(c) \cup B) = Cardinality(Live!BoundIn(c)) + Cardinality(B)
    BY <2>1, <2>2, <2>3, FS_Union, FS_EmptySet
  <2>5. Cardinality(Live!BoundIn(c)) + Cardinality(B) + 1 <= MaxSets
    BY SameCardinality DEF Live!Bindable
  <2>6. QED
    BY <1>5, <2>4, <2>5
<1> HIDE DEF e, g
<1>7. Fresh(g, rendered)
  BY <1>2, <1>3, <1>4, <1>6 DEF Fresh
<1>8. QED
  BY <1>7 DEF g

\* What is written into memory has no copy that is older.
LEMMA EncodedIsFresh ==
  ASSUME LiveInv, NEW c, Fresh(c, rendered), Live!Encoded(c), now' = now + 1
  PROVE  /\ Fresh(cache', rendered')
         /\ memory' \in [Live!Cells -> Nat] /\ rendered' \in [Live!Cells -> Nat]
         /\ \A x \in Live!Cells : rendered'[x] <= memory'[x] /\ rendered'[x] <= now'
<1> DEFINE over == Live!Region(target.at, BufferSize)
           w == Live!Without(c, target.at, target.at + BufferSize)
<1>1. /\ memory' = [x \in Live!Cells |-> IF x \in over THEN now' ELSE memory[x]]
      /\ rendered' = [x \in Live!Cells |-> IF x \in over THEN now' ELSE rendered[x]]
      /\ cache' = w
  BY DEF Live!Encoded
<1>2. /\ memory' \in [Live!Cells -> Nat] /\ rendered' \in [Live!Cells -> Nat]
      /\ \A x \in Live!Cells : rendered'[x] <= memory'[x] /\ rendered'[x] <= now'
  BY <1>1 DEF LiveInv, LiveType
<1> DEFINE kept == {u \in DOMAIN c.entries : ~Live!Overlaps(u, target.at, target.at + BufferSize)}
<1>3. /\ w = [palette |-> c.palette, entries |-> [t \in kept |-> c.entries[t]]]
      /\ w = [palette |-> w.palette, entries |-> w.entries]
      /\ w.palette = c.palette /\ w.entries = [t \in kept |-> c.entries[t]]
      /\ DOMAIN w.entries = kept /\ kept \subseteq DOMAIN c.entries
      /\ DOMAIN w.entries \subseteq Textures
  <2>1. w = [palette |-> c.palette, entries |-> [t \in kept |-> c.entries[t]]]
    BY DEF Fresh, Live!Without
  <2> HIDE DEF w
  <2>2. QED
    BY <2>1 DEF Fresh
<1>4. ASSUME NEW t \in kept, NEW x \in Live!Region(t.lo, t.size) PROVE rendered'[x] = rendered[x]
  <2>1. t.lo \in Nat /\ t.size \in Nat /\ target.at \in Nat /\ BufferSize \in Nat /\ x \in Live!Cells
    BY <1>3, RegionsAreCells, VideoAssumption DEF VideoAssumption, LiveInv, LiveType
  <2>2. x \notin over
    BY <2>1 DEF Live!Overlaps, Live!Region
  <2>3. QED
    BY <1>1, <2>1, <2>2
<1>5. Cardinality(Live!BoundIn(w)) + 1 <= MaxSets
  <2>1. IsFiniteSet(Live!BoundIn(c)) /\ Cardinality(Live!BoundIn(c)) \in Nat
    BY BoundIsFinite DEF Fresh
  <2>2. Live!BoundIn(w) \in SUBSET Live!BoundIn(c)
    BY <1>3 DEF Live!BoundIn
  <2>3. Cardinality(Live!BoundIn(w)) \in Nat /\ Cardinality(Live!BoundIn(w)) <= Cardinality(Live!BoundIn(c))
    BY <2>1, <2>2, FS_Subset, FS_CardinalityType
  <2>4. QED
    BY <2>1, <2>3, VideoAssumption DEF Fresh, VideoAssumption
<1> HIDE DEF w, kept
<1>6. ASSUME NEW t \in kept
      PROVE  /\ w.entries[t].palette = w.palette
             /\ DOMAIN w.entries[t].of = Live!Region(t.lo, t.size)
             /\ \A x \in Live!Region(t.lo, t.size) :
                  w.entries[t].of[x] \in Nat /\ w.entries[t].of[x] >= rendered'[x]
  BY <1>3, <1>4 DEF Fresh
<1>7. Fresh(w, rendered')
  BY <1>3, <1>5, <1>6 DEF Fresh
<1>8. QED
  BY <1>1, <1>2, <1>7

LEMMA LiveInit == Live!Init => LiveInv
<1> SUFFICES ASSUME Live!Init PROVE LiveInv
  OBVIOUS
<1>1. LiveType
  <2>1. Buffers # {}
    BY VideoAssumption DEF VideoAssumption
  <2>2. PICK b \in Buffers : b = CHOOSE a \in Buffers : TRUE
    BY <2>1
  <2>3. display = [on |-> FALSE, at |-> b] /\ target = [at |-> b, texture |-> FALSE]
    BY <2>2 DEF Live!Init
  <2>4. /\ memory = [x \in Live!Cells |-> 1] /\ rendered = [x \in Live!Cells |-> 0]
        /\ now = 1 /\ offscreen = 0 /\ held = 0
    BY DEF Live!Init
  <2>5. QED
    BY <2>3, <2>4 DEF LiveType
<1>2. \A x \in Live!Cells : rendered[x] <= memory[x] /\ rendered[x] <= now
  BY DEF Live!Init
<1>3. Fresh(cache, rendered)
  <2>1. cache = [palette |-> 0, entries |-> Live!NoEntries]
    BY DEF Live!Init
  <2>2. /\ cache = [palette |-> cache.palette, entries |-> cache.entries]
        /\ DOMAIN cache.entries = {}
    BY <2>1 DEF Live!NoEntries
  <2>3. Live!BoundIn(cache) = {}
    BY <2>2 DEF Live!BoundIn
  <2>4. Cardinality(Live!BoundIn(cache)) + 1 <= MaxSets
    <3>1. Cardinality(Live!BoundIn(cache)) = 0
      BY <2>3, FS_EmptySet
    <3>2. MaxSets \in Nat \ {0}
      BY VideoAssumption DEF VideoAssumption
    <3>3. QED
      BY <3>1, <3>2
  <2>5. QED
    BY <2>2, <2>4 DEF Fresh
<1>4. 0 \notin frames /\ targets = {}
  BY DEF Live!Init
<1>5. QED
  BY <1>1, <1>2, <1>3, <1>4 DEF LiveInv

\* A step of a part of the state.
LEMMA LiveStays ==
  ASSUME LiveInv, UNCHANGED <<target, memory, offscreen, held, targets, cache, now, frames, rendered>>,
         display' \in [on : BOOLEAN, at : Buffers]
  PROVE  LiveInv'
<1>1. LiveType'
  BY DEF LiveInv, LiveType
<1>2. Fresh(cache, rendered)'
  BY DEF LiveInv, Fresh, Live!BoundIn
<1>3. Live!FramePixels' = Live!FramePixels
  BY DEF Live!FramePixels
<1>4. QED
  BY <1>1, <1>2, <1>3 DEF LiveInv

\* The frame the window takes is kept through a render to texture, and through one that fails.
LEMMA FrameIsKept ==
  ASSUME LiveInv, targets # {}, held' = Live!Held, frames \subseteq frames',
         \/ target.texture
         \/ ~target.texture /\ (offscreen' = offscreen \/ (held = 0 => offscreen' \in frames' \ {0}))
  PROVE  Live!FramePixels' \in frames'
<1>1. Live!FramePixels \in frames /\ Live!FramePixels # 0
  BY DEF LiveInv
<1>2. QED
  BY <1>1 DEF Live!FramePixels, Live!Held

LEMMA RenderKeeps ==
  ASSUME LiveInv, NEW ts \in SUBSET Textures, NEW B \in SUBSET ts, Live!Render(ts, B)
  PROVE  LiveInv'
<1> DEFINE c == Live!Got(Live!Repaletted, ts, B)
<1>1. Fresh(c, rendered)
  <2>1. Live!Bindable(Live!Repaletted, ts, B)
    BY DEF Live!Render
  <2>2. QED
    BY <2>1, RepalettedIsFresh, GotIsFresh DEF LiveInv
<1> HIDE DEF c
<1>2. /\ now' = now + 1 /\ offscreen' = now' /\ display' = display /\ target' = target
      /\ held' = IF target.texture THEN Live!Held ELSE 0
      /\ frames' = IF target.texture THEN frames ELSE {now'}
  BY DEF Live!Render
<1>3. /\ Fresh(cache', rendered')
      /\ memory' \in [Live!Cells -> Nat] /\ rendered' \in [Live!Cells -> Nat]
      /\ \A x \in Live!Cells : rendered'[x] <= memory'[x] /\ rendered'[x] <= now'
  <2>1. CASE Live!Encoded(c)
    BY <1>1, <1>2, <2>1, EncodedIsFresh
  <2>2. CASE cache' = c /\ UNCHANGED <<memory, rendered>>
    <3>1. Fresh(cache', rendered')
      BY <1>1, <2>2
    <3>2. QED
      BY <1>2, <2>2, <3>1 DEF LiveInv, LiveType
  <2>3. Live!Encoded(c) \/ (cache' = c /\ UNCHANGED <<memory, rendered>>)
    BY DEF Live!Render, c
  <2>4. QED
    BY <2>1, <2>2, <2>3
<1>4. LiveType'
  BY <1>2, <1>3 DEF LiveInv, LiveType, Live!Held
<1>5. 0 \notin frames'
  BY <1>2 DEF LiveInv, LiveType
<1>6. targets' # {} => Live!FramePixels' \in frames'
  <2>1. CASE target.texture
    <3>1. targets' = targets
      BY <2>1 DEF Live!Render
    <3>2. targets # {} => Live!FramePixels' \in frames'
      BY <1>2, <2>1, FrameIsKept
    <3>3. QED
      BY <3>1, <3>2
  <2>2. CASE ~target.texture
    BY <1>2, <2>2 DEF Live!FramePixels
  <2>3. QED
    BY <2>1, <2>2
<1>7. QED
  BY <1>3, <1>4, <1>5, <1>6 DEF LiveInv

LEMMA RenderFailsKeeps ==
  ASSUME LiveInv, NEW ts \in SUBSET Textures, NEW B \in SUBSET ts, Live!RenderFails(ts, B)
  PROVE  LiveInv'
<1>1. /\ now' = now + 1 /\ held' = Live!Held /\ cache' = Live!Got(Live!Repaletted, ts, B)
      /\ offscreen' \in IF offscreen = 0 THEN {0} ELSE {offscreen, now'}
      /\ frames' = IF target.texture \/ offscreen' = offscreen THEN frames ELSE frames \cup {now'}
      /\ UNCHANGED <<display, target, palette, memory, targets, pixels, shown, described, rendered>>
  BY DEF Live!RenderFails
<1>2. Fresh(cache', rendered')
  <2>1. Live!Bindable(Live!Repaletted, ts, B)
    BY DEF Live!RenderFails
  <2>2. Fresh(Live!Got(Live!Repaletted, ts, B), rendered)
    BY <2>1, RepalettedIsFresh, GotIsFresh DEF LiveInv
  <2>3. QED
    BY <1>1, <2>2
<1>3. LiveType'
  BY <1>1 DEF LiveInv, LiveType, Live!Held
<1>4. 0 \notin frames' /\ frames \subseteq frames'
  BY <1>1 DEF LiveInv, LiveType
<1>5. targets' # {} => Live!FramePixels' \in frames'
  <2>1. now' # 0 /\ (offscreen' = offscreen \/ target.texture \/ offscreen' \in frames' \ {0})
    BY <1>1 DEF LiveInv, LiveType
  <2>2. target.texture \in BOOLEAN
    BY DEF LiveInv, LiveType
  <2>3. QED
    BY <1>1, <1>4, <2>1, <2>2, FrameIsKept
<1>6. \A x \in Live!Cells : rendered'[x] <= memory'[x] /\ rendered'[x] <= now'
  BY <1>1 DEF LiveInv, LiveType
<1>7. QED
  BY <1>2, <1>3, <1>4, <1>5, <1>6 DEF LiveInv

LEMMA DrawsKeeps == ASSUME LiveInv, NEW b \in Buffers, Live!Draws(b) PROVE LiveInv'
<1>1. /\ now' = now + 1
      /\ memory' = [x \in Live!Cells |-> IF x \in Live!Region(b, BufferSize) THEN now' ELSE memory[x]]
      /\ UNCHANGED <<display, target, palette, offscreen, held, targets, pixels, shown, described,
                     cache, frames, rendered>>
  BY DEF Live!Draws
<1>2. LiveType' /\ \A x \in Live!Cells : rendered'[x] <= memory'[x] /\ rendered'[x] <= now'
  BY <1>1 DEF LiveInv, LiveType
<1>3. Fresh(cache, rendered)'
  BY <1>1 DEF LiveInv, Fresh, Live!BoundIn
<1>4. Live!FramePixels' = Live!FramePixels
  BY <1>1 DEF Live!FramePixels
<1>5. QED
  BY <1>1, <1>2, <1>3, <1>4 DEF LiveInv

LEMMA LiveKeeps == ASSUME LiveInv, Live!Next PROVE LiveInv'
<1>1. ASSUME NEW b \in Buffers, NEW on \in BOOLEAN,
             \/ Live!SetsDisplay([on |-> on, at |-> b]) \/ Live!SetsTarget([at |-> b, texture |-> on])
      PROVE  LiveInv'
  <2>1. CASE Live!SetsDisplay([on |-> on, at |-> b])
    BY <2>1, LiveStays DEF Live!SetsDisplay
  <2>2. CASE Live!SetsTarget([at |-> b, texture |-> on])
    <3>1. /\ target' \in [at : Buffers, texture : BOOLEAN]
          /\ UNCHANGED <<display, palette, memory, offscreen, held, targets, pixels, shown, described,
                         cache, now, frames, rendered>>
      BY <2>2 DEF Live!SetsTarget
    <3>2. LiveType'
      BY <3>1 DEF LiveInv, LiveType
    <3>3. Fresh(cache, rendered)'
      BY <3>1 DEF LiveInv, Fresh, Live!BoundIn
    <3>4. Live!FramePixels' = Live!FramePixels
      BY <3>1 DEF Live!FramePixels
    <3>5. QED
      BY <3>1, <3>2, <3>3, <3>4 DEF LiveInv
  <2>3. QED
    BY <1>1, <2>1, <2>2
<1>2. CASE Live!SetsPalette \/ Live!Present
  BY <1>2, LiveStays DEF Live!SetsPalette, Live!Present, LiveInv, LiveType
<1>3. QED
  BY <1>1, <1>2, DrawsKeeps, RenderKeeps, RenderFailsKeeps DEF Live!Next

LEMMA LiveUntouched == ASSUME LiveInv, UNCHANGED ofLive PROVE LiveInv'
<1>1. UNCHANGED <<display, target, memory, offscreen, held, targets, cache, now, frames, rendered>>
  BY DEF ofLive
<1>2. LiveType'
  BY <1>1 DEF LiveInv, LiveType
<1>3. Fresh(cache, rendered)'
  BY <1>1 DEF LiveInv, Fresh, Live!BoundIn
<1>4. Live!FramePixels' = Live!FramePixels
  BY <1>1 DEF Live!FramePixels
<1>5. QED
  BY <1>1, <1>2, <1>3, <1>4 DEF LiveInv

LEMMA LiveSafe == ASSUME LiveInv PROVE Live!WindowKeepsTheLastFrame /\ Live!TexturesFollowTheRenderer
<1>1. Live!WindowKeepsTheLastFrame
  BY DEF LiveInv, Live!WindowKeepsTheLastFrame, Live!FromRenderer
<1>2. ASSUME NEW t \in DOMAIN cache.entries
      PROVE  /\ cache.entries[t].palette = cache.palette
             /\ \A x \in DOMAIN cache.entries[t].of : cache.entries[t].of[x] >= rendered[x]
  BY <1>2 DEF LiveInv, Fresh
<1>3. Live!Cardinality(Live!BoundIn(cache)) + 1 <= MaxSets
  BY SameCardinality DEF LiveInv, Fresh
<1>4. QED
  BY <1>1, <1>2, <1>3 DEF Live!TexturesFollowTheRenderer

\* Whatever the order of frames, renders to texture, failures and vertical blanks, what the window
\* takes from the renderer is the last frame, and no texture is drawn from a copy older than the
\* last render over it, for any buffers, textures and bounds (boot_main.cpp 157-362,
\* texture_cache.cpp 48-277).
THEOREM ShowsAsRendered == Spec => []ShownAsRendered
<1> DEFINE I == part = "live" => LiveInv
<1>1. Init => I
  BY LiveInit DEF Init
<1>2. I /\ [Next]_vars => I'
  <2> SUFFICES ASSUME I, [Next]_vars, part' = "live" PROVE LiveInv'
    OBVIOUS
  <2>1. part = "live"
    BY DEF Next, vars
  <2>2. CASE Live!Next
    BY <2>1, <2>2, LiveKeeps
  <2>3. CASE UNCHANGED ofLive
    BY <2>1, <2>3, LiveUntouched
  <2>4. QED
    BY <2>1, <2>2, <2>3 DEF Next, vars
<1>3. I => ShownAsRendered
  BY LiveSafe DEF ShownAsRendered
<1> HIDE DEF I
<1>4. QED
  BY <1>1, <1>2, <1>3, PTL DEF Spec

--------------------------------------------------------------------------------
(* The binding screen. *)

Queued == {events[n] : n \in 1..Len(events)}

\* The window and the screen have their fields.
WindowShape(w) ==
  w \in [running : BOOLEAN, quits : BOOLEAN, capturing : BOOLEAN, captured : {w.captured},
         held : {w.held}, bindings : {w.bindings}]
MenuShape(m) ==
  m \in [open : BOOLEAN, awaiting : BOOLEAN, dirty : BOOLEAN, row : {m.row}, bindings : {m.bindings}]
Shape(s) ==
  /\ s \in [w : {s.w}, m : {s.m}, changed : BOOLEAN, rearm : BOOLEAN, saves : BOOLEAN]
  /\ WindowShape(s.w) /\ MenuShape(s.m)

\* Escape ends the run only where no screen is open and it has been let go since one was.
Armed(s) == (s.w.quits <=> ~s.m.open /\ ~s.rearm) /\ (s.rearm => ~s.m.open)

\* What is used is in the file, is about to be, or is known to have changed.
Filed(s) == IF s.saves THEN s.m.bindings = s.w.bindings /\ ~s.changed
            ELSE HasFile /\ ~failed /\ ~s.changed => file = s.w.bindings

\* Between two presentations.
Settled(s) ==
  /\ Shape(s) /\ Armed(s) /\ Filed(s)
  /\ s.w.captured = Screen!Nothing
  /\ s.m.open => (s.m.awaiting <=> s.w.capturing) /\ s.m.bindings = s.w.bindings /\ ~s.m.dirty
  /\ ~s.m.open => ~s.w.capturing /\ ~s.changed

\* Within one, once the window has been polled: a captured input is one that the screen awaits.
Ready(s) ==
  /\ Shape(s) /\ Armed(s) /\ Filed(s) /\ ~s.saves
  /\ IF s.w.captured = Screen!Nothing THEN s.m.open => (s.m.awaiting <=> s.w.capturing)
     ELSE s.m.open /\ s.m.awaiting /\ ~s.w.capturing
  /\ s.m.open => s.m.bindings = s.w.bindings /\ ~s.m.dirty
  /\ ~s.m.open => ~s.w.capturing /\ ~s.changed

\* What pumping the screen leaves alone; it arms nothing.
Untouched(t, s) == t.w.running = s.w.running /\ t.w.held = s.w.held /\ (t.w.quits => s.w.quits)

Now == [w |-> window, m |-> menu, changed |-> changed, rearm |-> rearm, saves |-> FALSE]

\* A press of escape that the screen has seen cannot end the run any more.
ScreenInv ==
  /\ Settled(Now)
  /\ failed \in BOOLEAN /\ onScreen \in BOOLEAN /\ events \in Seq(Screen!Keys)
  /\ down \ window.held \subseteq Queued
  /\ window.quits /\ "escape" \in down \cup Queued => ~onScreen
  /\ ~window.running => window.quits /\ ~onScreen

LEMMA CloseIsNoDeadZone == Screen!Close # Screen!DeadZone
<1>1. Screen!Cardinality(Rows) = Cardinality(Rows)
  BY DEF Screen!Cardinality, Cardinality
<1>2. Cardinality(Rows) \in Nat
  BY VideoAssumption, FS_CardinalityType DEF VideoAssumption
<1>3. QED
  BY <1>1, <1>2 DEF Screen!Close, Screen!Reset, Screen!DeadZone

--------------------------------------------------------------------------------
(* The screen's operations on their own. *)

LEMMA MovedFields ==
  ASSUME NEW m, MenuShape(m)
  PROVE  LET r == Screen!Moved(m) IN
         /\ MenuShape(r)
         /\ r.open = m.open /\ r.awaiting = m.awaiting /\ r.dirty = m.dirty /\ r.bindings = m.bindings
<1>1. CASE m.awaiting
  BY <1>1 DEF Screen!Moved
<1>2. CASE ~m.awaiting
  <2> DEFINE r == [m EXCEPT !.row = (@ + 1) % Screen!RowCount]
  <2>1. /\ MenuShape(r) /\ r.open = m.open /\ r.awaiting = m.awaiting /\ r.dirty = m.dirty
        /\ r.row = (m.row + 1) % Screen!RowCount /\ r.bindings = m.bindings
    BY DEF MenuShape
  <2>2. Screen!Moved(m) = r
    BY <1>2 DEF Screen!Moved
  <2>3. QED
    BY <2>1, <2>2 DEF MenuShape
<1>3. QED
  BY <1>1, <1>2

\* Only the row of the dead zone is adjusted, and nothing else is changed unnoticed.
LEMMA AdjustedFields ==
  ASSUME NEW m, MenuShape(m)
  PROVE  LET r == Screen!Adjusted(m) IN
         /\ MenuShape(r)
         /\ r.open = m.open /\ r.awaiting = m.awaiting /\ r.row = m.row
         /\ m.row # Screen!DeadZone => r = m
         /\ (r.dirty = m.dirty /\ r.bindings = m.bindings) \/ r.dirty
<1>1. CASE m.awaiting \/ m.row # Screen!DeadZone
  BY <1>1 DEF Screen!Adjusted
<1>2. CASE ~m.awaiting /\ m.row = Screen!DeadZone
  <2> DEFINE b == [m.bindings EXCEPT ![Screen!DeadZone] = IF @ = 2 THEN 2 ELSE @ + 1]
             r == [m EXCEPT !.bindings = b, !.dirty = TRUE]
  <2>1. /\ MenuShape(r) /\ r.open = m.open /\ r.awaiting = m.awaiting /\ r.dirty = TRUE
        /\ r.row = m.row /\ r.bindings = b
    BY DEF MenuShape
  <2>2. Screen!Adjusted(m) = r
    BY <1>2 DEF Screen!Adjusted
  <2> HIDE DEF r
  <2>3. QED
    BY <1>2, <2>1, <2>2
<1>3. QED
  BY <1>1, <1>2

LEMMA ActivatedFields ==
  ASSUME NEW m, MenuShape(m)
  PROVE  LET r == Screen!Activated(m) IN
         /\ MenuShape(r) /\ r.open = m.open
         /\ (r.dirty = m.dirty /\ r.bindings = m.bindings) \/ r.dirty
         /\ m.awaiting => r.awaiting
<1> DEFINE b == [Screen!Defaults EXCEPT ![Screen!DeadZone] = m.bindings[Screen!DeadZone]]
           p == [m EXCEPT !.bindings = b, !.dirty = TRUE]
           q == [m EXCEPT !.awaiting = TRUE]
<1>1. /\ MenuShape(p) /\ p.open = m.open /\ p.awaiting = m.awaiting /\ p.dirty = TRUE
      /\ p.row = m.row /\ p.bindings = b
  BY DEF MenuShape
<1>2. /\ MenuShape(q) /\ q.open = m.open /\ q.awaiting = TRUE /\ q.dirty = m.dirty
      /\ q.row = m.row /\ q.bindings = m.bindings
  BY DEF MenuShape
<1>3. Screen!Activated(m) \in {m, p, q}
  BY DEF Screen!Activated
<1> HIDE DEF b, p, q
<1>4. QED
  BY <1>1, <1>2, <1>3

LEMMA BackedFields ==
  ASSUME NEW m, MenuShape(m)
  PROVE  LET r == Screen!Backed(m) IN
         /\ MenuShape(r) /\ r.dirty = m.dirty /\ r.bindings = m.bindings
         /\ ~m.awaiting => ~r.open
<1> DEFINE p == [m EXCEPT !.awaiting = FALSE]
           q == [m EXCEPT !.open = FALSE]
<1>1. /\ MenuShape(p) /\ p.open = m.open /\ p.awaiting = FALSE /\ p.dirty = m.dirty
      /\ p.row = m.row /\ p.bindings = m.bindings
  BY DEF MenuShape
<1>2. /\ MenuShape(q) /\ q.open = FALSE /\ q.awaiting = m.awaiting /\ q.dirty = m.dirty
      /\ q.row = m.row /\ q.bindings = m.bindings
  BY DEF MenuShape
<1>3. Screen!Backed(m) = IF m.awaiting THEN p ELSE q
  BY DEF Screen!Backed
<1> HIDE DEF p, q
<1>4. QED
  BY <1>1, <1>2, <1>3

LEMMA AppliedFields ==
  ASSUME NEW m, NEW b, MenuShape(m)
  PROVE  LET r == Screen!Applied(m, b) IN
         /\ MenuShape(r) /\ r.open = m.open /\ ~r.awaiting
         /\ (r.dirty = m.dirty /\ r.bindings = m.bindings) \/ r.dirty
<1> DEFINE a == [r \in DOMAIN m.bindings |->
                   IF r = m.row THEN b
                   ELSE IF r \in Rows /\ m.bindings[r] = b THEN Screen!Nothing ELSE m.bindings[r]]
           p == [m EXCEPT !.awaiting = FALSE]
           q == [m EXCEPT !.awaiting = FALSE, !.dirty = TRUE, !.bindings = a]
<1>1. /\ MenuShape(p) /\ p.open = m.open /\ p.awaiting = FALSE /\ p.dirty = m.dirty
      /\ p.row = m.row /\ p.bindings = m.bindings
  BY DEF MenuShape
<1>2. /\ MenuShape(q) /\ q.open = m.open /\ q.awaiting = FALSE /\ q.dirty = TRUE
      /\ q.row = m.row /\ q.bindings = a
  BY DEF MenuShape
<1>3. IF m.awaiting THEN Screen!Applied(m, b) \in {p, q} ELSE Screen!Applied(m, b) = m
  BY DEF Screen!Applied
<1> HIDE DEF a, p, q
<1>4. m.awaiting \in BOOLEAN
  BY DEF MenuShape
<1>5. QED
  BY <1>1, <1>2, <1>3, <1>4

--------------------------------------------------------------------------------
(* The screen's operations with the window's. *)

LEMMA ClosingFields ==
  ASSUME NEW s, Shape(s)
  PROVE  LET t == Screen!Closing(s) IN
         /\ Shape(t) /\ Untouched(t, s) /\ t.w.quits = s.w.quits
         /\ ~t.m.open /\ ~t.w.capturing /\ t.w.captured = Screen!Nothing
         /\ t.m.bindings = s.m.bindings /\ t.w.bindings = s.w.bindings
         /\ t.rearm /\ ~t.changed /\ t.saves = (s.changed /\ HasFile)
<1> DEFINE v == [s.w EXCEPT !.capturing = FALSE, !.captured = Screen!Nothing]
           n == [s.m EXCEPT !.open = FALSE]
           saves == s.changed /\ HasFile
           t == Screen!Closing(s)
<1>1. saves \in BOOLEAN
  OBVIOUS
<1>2. t \in [w : {v}, m : {n}, changed : BOOLEAN, rearm : BOOLEAN, saves : BOOLEAN]
  BY <1>1 DEF Shape, Screen!Closing
<1>3. t.w = v /\ t.m = n /\ t.rearm /\ ~t.changed /\ t.saves = saves
  BY <1>1 DEF Shape, Screen!Closing
<1>4. /\ WindowShape(v) /\ v.running = s.w.running /\ v.quits = s.w.quits /\ v.held = s.w.held
      /\ ~v.capturing /\ v.captured = Screen!Nothing /\ v.bindings = s.w.bindings
  BY DEF Shape, WindowShape
<1>5. MenuShape(n) /\ ~n.open /\ n.bindings = s.m.bindings
  BY DEF Shape, MenuShape
<1> HIDE DEF v, n, t
<1>6. Shape(t)
  BY <1>2, <1>3, <1>4, <1>5 DEF Shape
<1>7. QED
  BY <1>3, <1>4, <1>5, <1>6 DEF Untouched, t

LEMMA OpeningFields ==
  ASSUME NEW s, Shape(s)
  PROVE  LET t == Screen!Opening(s) IN
         /\ Shape(t) /\ Untouched(t, s) /\ ~t.w.quits
         /\ t.m.open /\ ~t.m.awaiting /\ ~t.m.dirty /\ t.m.bindings = s.w.bindings
         /\ t.w.capturing = s.w.capturing /\ t.w.captured = s.w.captured
         /\ t.w.bindings = s.w.bindings /\ ~t.rearm /\ ~t.changed /\ t.saves = s.saves
<1> DEFINE v == [s.w EXCEPT !.quits = FALSE]
           n == Screen!Opened(s.m, s.w.bindings)
           t == Screen!Opening(s)
<1>1. t \in [w : {v}, m : {n}, changed : BOOLEAN, rearm : BOOLEAN, saves : BOOLEAN]
  BY DEF Shape, Screen!Opening
<1>2. t.w = v /\ t.m = n /\ ~t.rearm /\ ~t.changed /\ t.saves = s.saves
  BY DEF Shape, Screen!Opening
<1>3. /\ WindowShape(v) /\ v.running = s.w.running /\ ~v.quits /\ v.held = s.w.held
      /\ v.capturing = s.w.capturing /\ v.captured = s.w.captured /\ v.bindings = s.w.bindings
  BY DEF Shape, WindowShape
<1>4. MenuShape(n) /\ n.open /\ ~n.awaiting /\ ~n.dirty /\ n.bindings = s.w.bindings
  BY DEF Shape, MenuShape, Screen!Opened
<1> HIDE DEF v, n, t
<1>5. Shape(t)
  BY <1>1, <1>2, <1>3, <1>4 DEF Shape
<1>6. QED
  BY <1>2, <1>3, <1>4, <1>5 DEF Untouched, t

LEMMA ApplyingFields ==
  ASSUME NEW s, Shape(s), s.m.dirty
  PROVE  LET t == Screen!Applying(s) IN
         /\ Shape(t) /\ Untouched(t, s) /\ t.w.quits = s.w.quits
         /\ t.m.open = s.m.open /\ t.m.awaiting = s.m.awaiting /\ ~t.m.dirty
         /\ t.m.bindings = s.m.bindings /\ t.w.bindings = s.m.bindings
         /\ t.w.capturing = s.w.capturing /\ t.w.captured = s.w.captured
         /\ t.rearm = s.rearm /\ t.changed /\ t.saves = s.saves
<1> DEFINE v == [s.w EXCEPT !.bindings = s.m.bindings]
           n == [s.m EXCEPT !.dirty = FALSE]
           t == Screen!Applying(s)
<1>1. t \in [w : {v}, m : {n}, changed : BOOLEAN, rearm : BOOLEAN, saves : BOOLEAN]
  BY DEF Shape, Screen!Applying
<1>2. t.w = v /\ t.m = n /\ t.rearm = s.rearm /\ t.changed /\ t.saves = s.saves
  BY DEF Shape, Screen!Applying
<1>3. /\ WindowShape(v) /\ v.running = s.w.running /\ v.quits = s.w.quits /\ v.held = s.w.held
      /\ v.capturing = s.w.capturing /\ v.captured = s.w.captured /\ v.bindings = s.m.bindings
  BY DEF Shape, WindowShape
<1>4. MenuShape(n) /\ n.open = s.m.open /\ n.awaiting = s.m.awaiting /\ ~n.dirty
      /\ n.bindings = s.m.bindings
  BY DEF Shape, MenuShape
<1> HIDE DEF v, n, t
<1>5. Shape(t)
  BY <1>1, <1>2, <1>3, <1>4 DEF Shape
<1>6. QED
  BY <1>2, <1>3, <1>4, <1>5 DEF Untouched, t

LEMMA RearmedFields ==
  ASSUME NEW s, Shape(s), s.rearm, "escape" \notin s.w.held
  PROVE  LET t == Screen!Rearmed(s) IN
         /\ Shape(t) /\ t.m = s.m /\ t.w.quits /\ t.w.running = s.w.running /\ t.w.held = s.w.held
         /\ t.w.capturing = s.w.capturing /\ t.w.captured = s.w.captured
         /\ t.w.bindings = s.w.bindings /\ ~t.rearm /\ t.changed = s.changed /\ t.saves = s.saves
<1> DEFINE v == [s.w EXCEPT !.quits = TRUE]
           t == Screen!Rearmed(s)
<1>1. t \in [w : {v}, m : {s.m}, changed : BOOLEAN, rearm : BOOLEAN, saves : BOOLEAN]
  BY DEF Shape, Screen!Rearmed
<1>2. t.w = v /\ t.m = s.m /\ ~t.rearm /\ t.changed = s.changed /\ t.saves = s.saves
  BY DEF Shape, Screen!Rearmed
<1>3. /\ WindowShape(v) /\ v.running = s.w.running /\ v.quits /\ v.held = s.w.held
      /\ v.capturing = s.w.capturing /\ v.captured = s.w.captured /\ v.bindings = s.w.bindings
  BY DEF Shape, WindowShape
<1> HIDE DEF v, t
<1>4. Shape(t)
  BY <1>1, <1>2, <1>3 DEF Shape
<1>5. QED
  BY <1>2, <1>3, <1>4 DEF t

\* A step of the screen alone.
LEMMA ScreenOnly ==
  ASSUME NEW s, Shape(s), NEW n, MenuShape(n)
  PROVE  LET t == [s EXCEPT !.m = n] IN
         /\ Shape(t) /\ t.m = n /\ t.w = s.w
         /\ t.rearm = s.rearm /\ t.changed = s.changed /\ t.saves = s.saves
<1> DEFINE t == [s EXCEPT !.m = n]
<1>1. /\ t \in [w : {s.w}, m : {n}, changed : BOOLEAN, rearm : BOOLEAN, saves : BOOLEAN]
      /\ t.m = n /\ t.w = s.w /\ t.rearm = s.rearm /\ t.changed = s.changed /\ t.saves = s.saves
  BY DEF Shape
<1> HIDE DEF t
<1>2. Shape(t)
  BY <1>1 DEF Shape
<1>3. QED
  BY <1>1, <1>2 DEF t

\* The return key on a row that binds a control.
LEMMA CaptureFields ==
  ASSUME NEW s, Shape(s)
  PROVE  LET t == [s EXCEPT !.w.capturing = TRUE, !.w.captured = Screen!Nothing] IN
         /\ Shape(t) /\ Untouched(t, s) /\ t.w.quits = s.w.quits /\ t.m = s.m
         /\ t.w.capturing /\ t.w.captured = Screen!Nothing /\ t.w.bindings = s.w.bindings
         /\ t.rearm = s.rearm /\ t.changed = s.changed /\ t.saves = s.saves
<1> DEFINE v == [s.w EXCEPT !.capturing = TRUE, !.captured = Screen!Nothing]
           t == [s EXCEPT !.w.capturing = TRUE, !.w.captured = Screen!Nothing]
<1>1. /\ t \in [w : {v}, m : {s.m}, changed : BOOLEAN, rearm : BOOLEAN, saves : BOOLEAN]
      /\ t.w = v /\ t.m = s.m /\ t.rearm = s.rearm /\ t.changed = s.changed /\ t.saves = s.saves
  BY DEF Shape
<1>2. /\ WindowShape(v) /\ v.running = s.w.running /\ v.quits = s.w.quits /\ v.held = s.w.held
      /\ v.capturing /\ v.captured = Screen!Nothing /\ v.bindings = s.w.bindings
  BY DEF Shape, WindowShape
<1> HIDE DEF v, t
<1>3. Shape(t)
  BY <1>1, <1>2 DEF Shape
<1>4. QED
  BY <1>1, <1>2, <1>3 DEF Untouched, t

\* The input that was captured, or that there was none.
LEMMA AppliedCaptureFields ==
  ASSUME NEW s, Shape(s)
  PROVE  LET t == [s EXCEPT !.m = Screen!Applied(@, s.w.captured), !.w.captured = Screen!Nothing] IN
         /\ Shape(t) /\ Untouched(t, s) /\ t.w.quits = s.w.quits
         /\ t.m = Screen!Applied(s.m, s.w.captured)
         /\ t.w.capturing = s.w.capturing /\ t.w.captured = Screen!Nothing
         /\ t.w.bindings = s.w.bindings
         /\ t.rearm = s.rearm /\ t.changed = s.changed /\ t.saves = s.saves
<1> DEFINE v == [s.w EXCEPT !.captured = Screen!Nothing]
           n == Screen!Applied(s.m, s.w.captured)
           t == [s EXCEPT !.m = Screen!Applied(@, s.w.captured), !.w.captured = Screen!Nothing]
<1>1. /\ t \in [w : {v}, m : {n}, changed : BOOLEAN, rearm : BOOLEAN, saves : BOOLEAN]
      /\ t.w = v /\ t.m = n /\ t.rearm = s.rearm /\ t.changed = s.changed /\ t.saves = s.saves
  BY DEF Shape
<1>2. /\ WindowShape(v) /\ v.running = s.w.running /\ v.quits = s.w.quits /\ v.held = s.w.held
      /\ v.capturing = s.w.capturing /\ v.captured = Screen!Nothing /\ v.bindings = s.w.bindings
  BY DEF Shape, WindowShape
<1>3. MenuShape(n)
  BY AppliedFields DEF Shape
<1> HIDE DEF v, t
<1>4. Shape(t)
  BY <1>1, <1>2, <1>3 DEF Shape
<1>5. QED
  BY <1>1, <1>2, <1>4 DEF Untouched, t

--------------------------------------------------------------------------------
(* Pumping the screen. *)

\* While the screen is open and being worked on.
Editing(s) ==
  /\ Shape(s) /\ Filed(s) /\ ~s.saves
  /\ s.m.open /\ ~s.w.quits /\ ~s.rearm /\ s.w.captured = Screen!Nothing
  /\ s.m.awaiting <=> s.w.capturing
  /\ s.m.bindings = s.w.bindings \/ s.m.dirty

LEMMA ClosingSettles ==
  ASSUME NEW s, Shape(s), Filed(s), ~s.saves, ~s.w.quits, s.m.bindings = s.w.bindings
  PROVE  Settled(Screen!Closing(s)) /\ Untouched(Screen!Closing(s), s)
<1> DEFINE t == Screen!Closing(s)
<1>1. /\ Shape(t) /\ Untouched(t, s) /\ t.w.quits = s.w.quits
      /\ ~t.m.open /\ ~t.w.capturing /\ t.w.captured = Screen!Nothing
      /\ t.m.bindings = s.m.bindings /\ t.w.bindings = s.w.bindings
      /\ t.rearm /\ ~t.changed /\ t.saves = (s.changed /\ HasFile)
  BY ClosingFields
<1> HIDE DEF t
<1>2. Armed(t)
  BY <1>1 DEF Armed
<1>3. Filed(t)
  BY <1>1 DEF Filed
<1>4. Settled(t)
  BY <1>1, <1>2, <1>3 DEF Settled
<1>5. QED
  BY <1>1, <1>4 DEF t

LEMMA ApplyingSettles ==
  ASSUME NEW s, Editing(s)
  PROVE  Settled(Screen!Applying(s)) /\ Untouched(Screen!Applying(s), s)
<1>1. CASE ~s.m.dirty
  <2>1. Screen!Applying(s) = s
    BY <1>1 DEF Screen!Applying
  <2>2. QED
    BY <1>1, <2>1 DEF Editing, Settled, Armed, Untouched
<1>2. CASE s.m.dirty
  <2> DEFINE t == Screen!Applying(s)
  <2>1. /\ Shape(t) /\ Untouched(t, s) /\ t.w.quits = s.w.quits
        /\ t.m.open = s.m.open /\ t.m.awaiting = s.m.awaiting /\ ~t.m.dirty
        /\ t.m.bindings = s.m.bindings /\ t.w.bindings = s.m.bindings
        /\ t.w.capturing = s.w.capturing /\ t.w.captured = s.w.captured
        /\ t.rearm = s.rearm /\ t.changed /\ t.saves = s.saves
    BY <1>2, ApplyingFields DEF Editing
  <2> HIDE DEF t
  <2>2. Armed(t)
    BY <2>1 DEF Editing, Armed
  <2>3. Filed(t)
    BY <2>1 DEF Editing, Filed
  <2>4. Settled(t)
    BY <2>1, <2>2, <2>3 DEF Editing, Settled
  <2>5. QED
    BY <2>1, <2>4 DEF t
<1>3. QED
  BY <1>1, <1>2

LEMMA NavigatedSettles ==
  ASSUME NEW s, Editing(s), s.m.bindings = s.w.bindings, NEW pressed, s.w.capturing => pressed = {}
  PROVE  Settled(Screen!Navigated(s, pressed)) /\ Untouched(Screen!Navigated(s, pressed), s)
<1> DEFINE a == IF "down" \in pressed THEN [s EXCEPT !.m = Screen!Moved(@)] ELSE s
           b == IF "right" \in pressed THEN [a EXCEPT !.m = Screen!Adjusted(@)] ELSE a
           c == [b EXCEPT !.m = Screen!Activated(@)]
           d == [c EXCEPT !.w.capturing = TRUE, !.w.captured = Screen!Nothing]
<1>1. Screen!Navigated(s, pressed) =
        IF "return" \notin pressed THEN Screen!Applying(b)
        ELSE IF ~b.m.awaiting /\ b.m.row = Screen!Close THEN Screen!Closing(b)
        ELSE Screen!Applying(IF c.m.awaiting THEN d ELSE c)
  BY DEF Screen!Navigated
<1>2. CASE pressed = {}
  <2>1. Screen!Navigated(s, pressed) = Screen!Applying(s)
    BY <1>1, <1>2
  <2>2. QED
    BY <2>1, ApplyingSettles
<1>3. CASE pressed # {}
  <2>1. ~s.w.capturing /\ ~s.m.awaiting
    BY <1>3 DEF Editing
  <2>2. Editing(a) /\ Untouched(a, s) /\ a.m.bindings = a.w.bindings /\ ~a.m.awaiting
    <3>1. CASE "down" \in pressed
      <4> DEFINE n == Screen!Moved(s.m)
                 t == [s EXCEPT !.m = n]
      <4>1. MenuShape(n) /\ n.open = s.m.open /\ n.awaiting = s.m.awaiting /\ n.dirty = s.m.dirty
            /\ n.bindings = s.m.bindings
        BY MovedFields DEF Editing, Shape
      <4> HIDE DEF n
      <4>2. /\ Shape(t) /\ t.m = n /\ t.w = s.w
            /\ t.rearm = s.rearm /\ t.changed = s.changed /\ t.saves = s.saves
        BY <4>1, ScreenOnly DEF Editing
      <4>3. a = t
        BY <3>1 DEF n
      <4> HIDE DEF a, t
      <4>4. QED
        BY <2>1, <4>1, <4>2, <4>3 DEF Editing, Filed, Untouched
    <3>2. CASE "down" \notin pressed
      BY <2>1, <3>2 DEF Untouched
    <3>3. QED
      BY <3>1, <3>2
  <2> HIDE DEF a
  <2>3. /\ Editing(b) /\ Untouched(b, s) /\ ~b.m.awaiting
        /\ b.m.row = Screen!Close => b.m.bindings = b.w.bindings
    <3>1. CASE "right" \in pressed
      <4> DEFINE n == Screen!Adjusted(a.m)
                 t == [a EXCEPT !.m = n]
      <4>1. /\ MenuShape(n) /\ n.open = a.m.open /\ n.awaiting = a.m.awaiting /\ n.row = a.m.row
            /\ a.m.row # Screen!DeadZone => n = a.m
            /\ (n.dirty = a.m.dirty /\ n.bindings = a.m.bindings) \/ n.dirty
        BY <2>2, AdjustedFields DEF Editing, Shape
      <4> HIDE DEF n
      <4>2. /\ Shape(t) /\ t.m = n /\ t.w = a.w
            /\ t.rearm = a.rearm /\ t.changed = a.changed /\ t.saves = a.saves
        BY <2>2, <4>1, ScreenOnly DEF Editing
      <4>3. b = t
        BY <3>1 DEF n
      <4> HIDE DEF b, t
      <4>4. Editing(b) /\ Untouched(b, s) /\ ~b.m.awaiting
        BY <2>2, <4>1, <4>2, <4>3 DEF Editing, Filed, Untouched
      <4>5. QED
        BY <2>2, <4>1, <4>2, <4>3, <4>4, CloseIsNoDeadZone
    <3>2. CASE "right" \notin pressed
      BY <2>2, <3>2
    <3>3. QED
      BY <3>1, <3>2
  <2> HIDE DEF b
  <2>4. CASE "return" \notin pressed
    <3>1. Screen!Navigated(s, pressed) = Screen!Applying(b)
      BY <1>1, <2>4
    <3>2. QED
      BY <2>3, <3>1, ApplyingSettles DEF Untouched
  <2>5. CASE "return" \in pressed /\ b.m.row = Screen!Close
    <3>1. Screen!Navigated(s, pressed) = Screen!Closing(b)
      BY <1>1, <2>3, <2>5
    <3>2. QED
      BY <2>3, <2>5, <3>1, ClosingSettles DEF Editing, Untouched
  <2>6. CASE "return" \in pressed /\ b.m.row # Screen!Close
    <3> DEFINE n == Screen!Activated(b.m)
    <3>1. /\ MenuShape(n) /\ n.open = b.m.open
          /\ (n.dirty = b.m.dirty /\ n.bindings = b.m.bindings) \/ n.dirty
      BY <2>3, ActivatedFields DEF Editing, Shape
    <3> HIDE DEF n
    <3>2. /\ Shape(c) /\ c.m = n /\ c.w = b.w
          /\ c.rearm = b.rearm /\ c.changed = b.changed /\ c.saves = b.saves
      BY <2>3, <3>1, ScreenOnly DEF Editing, n
    <3>3. CASE ~c.m.awaiting
      <4>1. Editing(c) /\ Untouched(c, s)
        BY <2>3, <3>1, <3>2, <3>3 DEF Editing, Filed, Untouched
      <4>2. Screen!Navigated(s, pressed) = Screen!Applying(c)
        BY <1>1, <2>6, <3>3
      <4>3. QED
        BY <4>1, <4>2, ApplyingSettles DEF Untouched
    <3>4. CASE c.m.awaiting
      <4>1. /\ Shape(d) /\ Untouched(d, c) /\ d.w.quits = c.w.quits /\ d.m = c.m
            /\ d.w.capturing /\ d.w.captured = Screen!Nothing /\ d.w.bindings = c.w.bindings
            /\ d.rearm = c.rearm /\ d.changed = c.changed /\ d.saves = c.saves
        BY <3>2, CaptureFields
      <4>2. Screen!Navigated(s, pressed) = Screen!Applying(d)
        BY <1>1, <2>6, <3>4
      <4> HIDE DEF c, d
      <4>3. Untouched(d, s)
        BY <2>3, <3>2, <4>1 DEF Untouched
      <4>4. Filed(d) /\ ~d.saves
        BY <2>3, <3>1, <3>2, <4>1 DEF Editing, Filed
      <4>5. d.m.bindings = d.w.bindings \/ d.m.dirty
        BY <2>3, <3>1, <3>2, <4>1 DEF Editing
      <4>6. Editing(d)
        BY <2>3, <3>1, <3>2, <3>4, <4>1, <4>4, <4>5 DEF Editing
      <4>7. QED
        BY <4>2, <4>3, <4>6, ApplyingSettles DEF Untouched
    <3>5. QED
      BY <3>3, <3>4
  <2>7. QED
    BY <2>4, <2>5, <2>6
<1>4. QED
  BY <1>2, <1>3

LEMMA PumpedSettles ==
  ASSUME NEW s, Ready(s), NEW pressed, s.w.capturing => pressed = {}
  PROVE  Settled(Screen!Pumped(s, pressed)) /\ Untouched(Screen!Pumped(s, pressed), s)
<1> DEFINE back == [s EXCEPT !.m = Screen!Backed(@)]
           captured == [s EXCEPT !.m = Screen!Applied(@, s.w.captured), !.w.captured = Screen!Nothing]
           t == Screen!Pumped(s, pressed)
<1>1. /\ "f1" \in pressed /\ s.m.open => t = Screen!Closing(s)
      /\ "f1" \in pressed /\ ~s.m.open => t = Screen!Opening(s)
      /\ "f1" \notin pressed /\ ~s.m.open => t = s
      /\ "f1" \notin pressed /\ s.m.open /\ s.w.captured # Screen!Nothing
           => t = Screen!Applying(captured)
      /\ "f1" \notin pressed /\ s.m.open /\ s.w.captured = Screen!Nothing /\ "escape" \in pressed
           => t = IF back.m.open THEN back ELSE Screen!Closing(back)
      /\ "f1" \notin pressed /\ s.m.open /\ s.w.captured = Screen!Nothing /\ "escape" \notin pressed
           => t = Screen!Navigated(s, pressed)
  BY DEF Screen!Pumped
<1> HIDE DEF t
<1>2. s.m.open => ~s.w.quits /\ ~s.rearm
  BY DEF Ready, Armed
<1>3. CASE "f1" \in pressed /\ s.m.open
  <2>1. Shape(s) /\ Filed(s) /\ ~s.saves /\ ~s.w.quits /\ s.m.bindings = s.w.bindings
    BY <1>2, <1>3 DEF Ready
  <2>2. QED
    BY <1>1, <1>3, <2>1, ClosingSettles DEF t
<1>4. CASE "f1" \in pressed /\ ~s.m.open
  <2> DEFINE u == Screen!Opening(s)
  <2>1. /\ Shape(u) /\ Untouched(u, s) /\ ~u.w.quits
        /\ u.m.open /\ ~u.m.awaiting /\ ~u.m.dirty /\ u.m.bindings = s.w.bindings
        /\ u.w.capturing = s.w.capturing /\ u.w.captured = s.w.captured
        /\ u.w.bindings = s.w.bindings /\ ~u.rearm /\ ~u.changed /\ u.saves = s.saves
    BY OpeningFields DEF Ready
  <2>2. t = u
    BY <1>1, <1>4
  <2> HIDE DEF u
  <2>3. Filed(u)
    BY <1>4, <2>1 DEF Ready, Filed
  <2>4. Armed(u)
    BY <2>1 DEF Armed
  <2>5. Settled(u)
    BY <1>4, <2>1, <2>3, <2>4 DEF Ready, Settled
  <2>6. QED
    BY <2>1, <2>2, <2>5 DEF t
<1>5. CASE "f1" \notin pressed /\ ~s.m.open
  <2>1. t = s
    BY <1>1, <1>5
  <2>2. Settled(s)
    BY <1>5 DEF Ready, Settled
  <2>3. QED
    BY <2>1, <2>2 DEF Untouched, t
<1>6. CASE "f1" \notin pressed /\ s.m.open /\ s.w.captured # Screen!Nothing
  <2>1. t = Screen!Applying(captured)
    BY <1>1, <1>6
  <2> DEFINE n == Screen!Applied(s.m, s.w.captured)
  <2>2. /\ Shape(captured) /\ Untouched(captured, s) /\ captured.w.quits = s.w.quits
        /\ captured.m = n
        /\ captured.w.capturing = s.w.capturing /\ captured.w.captured = Screen!Nothing
        /\ captured.w.bindings = s.w.bindings
        /\ captured.rearm = s.rearm /\ captured.changed = s.changed /\ captured.saves = s.saves
    BY AppliedCaptureFields DEF Ready
  <2>3. n.open = s.m.open /\ ~n.awaiting /\ ((n.dirty = s.m.dirty /\ n.bindings = s.m.bindings) \/ n.dirty)
    BY AppliedFields DEF Ready, Shape
  <2> HIDE DEF captured, n
  <2>4. Filed(captured) /\ ~captured.saves
    BY <2>2 DEF Ready, Filed
  <2>5. Editing(captured)
    BY <1>2, <1>6, <2>2, <2>3, <2>4 DEF Ready, Editing
  <2>6. QED
    BY <2>1, <2>2, <2>5, ApplyingSettles DEF Untouched, t
<1>7. CASE "f1" \notin pressed /\ s.m.open /\ s.w.captured = Screen!Nothing /\ "escape" \in pressed
  <2>1. ~s.m.awaiting
    BY <1>7 DEF Ready
  <2> DEFINE n == Screen!Backed(s.m)
  <2>2. MenuShape(n) /\ n.dirty = s.m.dirty /\ n.bindings = s.m.bindings /\ ~n.open
    BY <2>1, BackedFields DEF Ready, Shape
  <2> HIDE DEF n
  <2>3. /\ Shape(back) /\ back.m = n /\ back.w = s.w
        /\ back.rearm = s.rearm /\ back.changed = s.changed /\ back.saves = s.saves
    BY <2>2, ScreenOnly DEF Ready, n
  <2>4. t = Screen!Closing(back)
    BY <1>1, <1>7, <2>2, <2>3
  <2> HIDE DEF back
  <2>5. Filed(back) /\ ~back.saves /\ ~back.w.quits /\ back.m.bindings = back.w.bindings
    BY <1>2, <1>7, <2>2, <2>3 DEF Ready, Filed
  <2>6. QED
    BY <2>3, <2>4, <2>5, ClosingSettles DEF Untouched, t
<1>8. CASE "f1" \notin pressed /\ s.m.open /\ s.w.captured = Screen!Nothing /\ "escape" \notin pressed
  <2>1. Editing(s) /\ s.m.bindings = s.w.bindings
    BY <1>2, <1>8 DEF Ready, Editing
  <2>2. QED
    BY <1>1, <1>8, <2>1, NavigatedSettles DEF t
<1>9. QED
  BY <1>3, <1>4, <1>5, <1>6, <1>7, <1>8

--------------------------------------------------------------------------------
(* Steps of the screen. *)

LEMMA ScreenInit == Screen!Init => ScreenInv
<1> SUFFICES ASSUME Screen!Init PROVE ScreenInv
  OBVIOUS
<1> USE DEF Screen!Init, Now
<1>1. WindowShape(window) /\ MenuShape(menu)
  BY DEF WindowShape, MenuShape
<1>2. Shape(Now)
  BY <1>1 DEF Shape
<1>3. Filed(Now) /\ Armed(Now)
  BY DEF Filed, Armed
<1>4. Settled(Now)
  BY <1>2, <1>3 DEF Settled
<1>5. events \in Seq(Screen!Keys)
  OBVIOUS
<1>6. QED
  BY <1>4, <1>5 DEF ScreenInv

LEMMA SettledAfter ==
  ASSUME NEW t, Settled(t), window' = t.w, menu' = t.m, changed' = t.changed, rearm' = t.rearm,
         IF ~t.saves THEN UNCHANGED <<file, failed>>
         ELSE \/ file' = t.m.bindings /\ failed' = FALSE
              \/ failed' = TRUE
  PROVE  Settled(Now)'
<1>1. Shape(Now)'
  BY DEF Settled, Shape, Now
<1>2. Armed(Now)'
  BY DEF Settled, Armed, Now
<1>3. Filed(Now)'
  BY DEF Settled, Filed, Now
<1>4. QED
  BY <1>1, <1>2, <1>3 DEF Settled, Now

LEMMA SettledStays ==
  ASSUME Settled(Now), UNCHANGED <<window, menu, changed, rearm, file, failed>>
  PROVE  Settled(Now)'
<1>1. Shape(Now)'
  BY DEF Settled, Shape, Now
<1>2. Armed(Now)'
  BY DEF Settled, Armed, Now
<1>3. Filed(Now)'
  BY DEF Settled, Filed, Now
<1>4. QED
  BY <1>1, <1>2, <1>3 DEF Settled, Now

LEMMA QueuedAppends ==
  ASSUME NEW k \in Screen!Keys, events \in Seq(Screen!Keys), events' = Append(events, k)
  PROVE  events' \in Seq(Screen!Keys) /\ Queued' = Queued \cup {k}
<1>1. /\ events' \in Seq(Screen!Keys) /\ Len(events) \in Nat /\ Len(events') = Len(events) + 1
      /\ events'[Len(events) + 1] = k
      /\ \A n \in 1..Len(events) : events'[n] = events[n]
  OBVIOUS
<1>2. ASSUME NEW x \in Queued' PROVE x \in Queued \cup {k}
  <2>1. PICK n \in 1..Len(events') : x = events'[n]
    BY DEF Queued
  <2>2. n = Len(events) + 1 \/ n \in 1..Len(events)
    BY <1>1
  <2>3. QED
    BY <1>1, <2>1, <2>2 DEF Queued
<1>3. ASSUME NEW x \in Queued PROVE x \in Queued'
  <2>1. PICK n \in 1..Len(events) : x = events[n]
    BY DEF Queued
  <2>2. n \in 1..Len(events') /\ events'[n] = x
    BY <1>1, <2>1
  <2>3. QED
    BY <2>2 DEF Queued
<1>4. k \in Queued'
  <2>1. Len(events) + 1 \in 1..Len(events')
    BY <1>1
  <2>2. QED
    BY <1>1, <2>1 DEF Queued
<1>5. QED
  BY <1>1, <1>2, <1>3, <1>4

LEMMA KeysKeepScreen ==
  ASSUME ScreenInv, NEW k \in Screen!Keys, Screen!Press(k) \/ Screen!Repeat(k) \/ Screen!Release(k)
  PROVE  ScreenInv'
<1>1. UNCHANGED <<window, menu, changed, rearm, file, failed>>
  BY DEF Screen!Press, Screen!Repeat, Screen!Release
<1>2. Settled(Now)'
  BY <1>1, SettledStays DEF ScreenInv
<1>3. window.quits => ~menu.open
  BY DEF ScreenInv, Settled, Armed, Now
<1>4. menu.open \in BOOLEAN
  BY DEF ScreenInv, Settled, Shape, MenuShape, Now
<1>5. CASE Screen!Press(k) \/ Screen!Repeat(k)
  <2>1. events' \in Seq(Screen!Keys) /\ Queued' = Queued \cup {k}
    BY <1>5, QueuedAppends DEF ScreenInv, Screen!Press, Screen!Repeat
  <2>2. CASE Screen!Press(k)
    <3>1. down' = down \cup {k} /\ onScreen' = IF k = "escape" THEN menu.open ELSE onScreen
      BY <2>2 DEF Screen!Press
    <3>2. onScreen' \in BOOLEAN /\ down' \ window.held \subseteq Queued'
      BY <1>4, <2>1, <3>1 DEF ScreenInv
    <3>3. /\ window.quits /\ "escape" \in down' \cup Queued' => ~onScreen'
          /\ ~window.running => window.quits /\ ~onScreen'
      BY <1>3, <2>1, <3>1 DEF ScreenInv
    <3>4. QED
      BY <1>1, <1>2, <2>1, <3>2, <3>3 DEF ScreenInv
  <2>3. CASE Screen!Repeat(k)
    <3>1. k \in down /\ down' = down /\ onScreen' = onScreen
      BY <2>3 DEF Screen!Repeat
    <3>2. QED
      BY <1>1, <1>2, <2>1, <3>1 DEF ScreenInv
  <2>4. QED
    BY <1>5, <2>2, <2>3
<1>6. CASE Screen!Release(k)
  <2>1. down' \subseteq down /\ events' = events /\ onScreen' = onScreen
    BY <1>6 DEF Screen!Release
  <2>2. Queued' = Queued
    BY <2>1 DEF Queued
  <2>3. QED
    BY <1>1, <1>2, <2>1, <2>2 DEF ScreenInv
<1>7. QED
  BY <1>5, <1>6

\* Polling takes the first key for a capture; escape among the others ends the run where it is armed.
LEMMA PolledFields ==
  ASSUME ScreenInv
  PROVE  LET v == Screen!Polled IN
         /\ WindowShape(v) /\ v.quits = window.quits /\ v.held = down /\ v.bindings = window.bindings
         /\ v.capturing = (window.capturing /\ ~Screen!Taken)
         /\ Screen!Taken => v.captured # Screen!Nothing
         /\ ~Screen!Taken => v.captured = Screen!Nothing
         /\ window.running /\ ~v.running => window.quits /\ "escape" \in Queued
<1> DEFINE capturing == window.capturing /\ ~Screen!Taken
           captured == IF ~Screen!Taken THEN window.captured
                       ELSE IF events[1] = "escape" THEN Screen!Cancelled ELSE events[1]
           running == window.running /\ ~("escape" \in Screen!Left /\ window.quits)
           h == Screen!Handled
           v == Screen!Polled
<1>1. capturing \in BOOLEAN /\ running \in BOOLEAN
  OBVIOUS
<1>2. WindowShape(window) /\ window.captured = Screen!Nothing
  BY DEF ScreenInv, Settled, Shape, Now
<1>3. h = [window EXCEPT !.capturing = capturing, !.captured = captured, !.running = running]
  BY <1>2 DEF Screen!Handled, WindowShape
<1> HIDE DEF capturing, captured, running, h
<1>4. /\ h \in [running : BOOLEAN, quits : BOOLEAN, capturing : BOOLEAN, captured : {captured},
                held : {window.held}, bindings : {window.bindings}]
      /\ h.running = running /\ h.capturing = capturing /\ h.captured = captured
      /\ h.quits = window.quits /\ h.bindings = window.bindings
  BY <1>1, <1>2, <1>3 DEF WindowShape
<1>5. v = [h EXCEPT !.held = down]
  BY DEF Screen!Polled, h
<1> HIDE DEF v
<1>6. /\ WindowShape(v) /\ v.held = down
      /\ v.running = running /\ v.capturing = capturing /\ v.captured = captured
      /\ v.quits = window.quits /\ v.bindings = window.bindings
  BY <1>4, <1>5 DEF WindowShape
<1>7. Screen!Taken => captured # Screen!Nothing
  <2>1. SUFFICES ASSUME Screen!Taken PROVE captured # Screen!Nothing
    OBVIOUS
  <2>2. events \in Seq(Screen!Keys) /\ events # << >>
    BY <2>1 DEF ScreenInv, Screen!Taken
  <2>3. events[1] \in Screen!Keys
    BY <2>2
  <2>4. QED
    BY <2>1, <2>3 DEF captured, Screen!Keys, Screen!Nothing, Screen!Cancelled
<1>8. window.running /\ ~running => window.quits /\ "escape" \in Queued
  BY DEF running, Screen!Left, Queued
<1>9. QED
  BY <1>2, <1>6, <1>7, <1>8 DEF captured, capturing, v

LEMMA PresentKeepsScreen == ASSUME ScreenInv, Screen!Present PROVE ScreenInv'
<1> DEFINE s == [w |-> Screen!Polled, m |-> menu, changed |-> changed, rearm |-> rearm, saves |-> FALSE]
           r == Screen!Rearmed(s)
           pressed == down \ window.held
           t == IF Screen!Polled.running THEN Screen!Pumped(r, pressed) ELSE s
<1>1. /\ window.running /\ events' = << >> /\ UNCHANGED <<down, onScreen>>
      /\ window' = t.w /\ menu' = t.m /\ changed' = t.changed /\ rearm' = t.rearm
      /\ IF ~t.saves THEN UNCHANGED <<file, failed>>
         ELSE \/ file' = t.m.bindings /\ failed' = FALSE
              \/ file' = << >> /\ failed' = TRUE
  BY DEF Screen!Present
<1> DEFINE v == Screen!Polled
<1>2. /\ WindowShape(v) /\ v.quits = window.quits /\ v.held = down /\ v.bindings = window.bindings
      /\ v.capturing = (window.capturing /\ ~Screen!Taken)
      /\ Screen!Taken => v.captured # Screen!Nothing
      /\ ~Screen!Taken => v.captured = Screen!Nothing
      /\ window.running /\ ~v.running => window.quits /\ "escape" \in Queued
  BY PolledFields
<1>3. /\ MenuShape(menu) /\ changed \in BOOLEAN /\ rearm \in BOOLEAN
      /\ (window.quits <=> ~menu.open /\ ~rearm) /\ (rearm => ~menu.open)
      /\ HasFile /\ ~failed /\ ~changed => file = window.bindings
      /\ menu.open => (menu.awaiting <=> window.capturing) /\ menu.bindings = window.bindings /\ ~menu.dirty
      /\ ~menu.open => ~window.capturing /\ ~changed
  BY DEF ScreenInv, Settled, Shape, Armed, Filed, Now
<1>4. /\ s.w = v /\ s.m = menu /\ s.changed = changed /\ s.rearm = rearm /\ ~s.saves
      /\ s \in [w : {v}, m : {menu}, changed : BOOLEAN, rearm : BOOLEAN, saves : BOOLEAN]
  BY <1>3
<1> HIDE DEF s, v
<1>5. Shape(s)
  BY <1>2, <1>3, <1>4 DEF Shape
<1>6. Filed(s)
  BY <1>2, <1>3, <1>4 DEF Filed
<1>7. Armed(s)
  BY <1>2, <1>3, <1>4 DEF Armed
<1>8. Screen!Taken => window.capturing /\ menu.open
  BY <1>3 DEF Screen!Taken
<1>9. Ready(s)
  BY <1>2, <1>3, <1>4, <1>5, <1>6, <1>7, <1>8 DEF Ready
<1>10. /\ "escape" \in down \cup Queued /\ window.quits => ~onScreen
       /\ failed \in BOOLEAN /\ onScreen \in BOOLEAN /\ down \ window.held \subseteq Queued
  BY DEF ScreenInv
<1>11. Queued' = {} /\ events' \in Seq(Screen!Keys)
  BY <1>1 DEF Queued
<1>12. failed' \in BOOLEAN /\ onScreen' \in BOOLEAN
  BY <1>1, <1>10
<1>13. CASE ~v.running
  <2>1. t = s
    BY <1>13 DEF v
  <2>2. window.quits /\ ~onScreen
    BY <1>1, <1>2, <1>10, <1>13
  <2>3. Settled(s)
    BY <1>2, <1>3, <1>4, <1>8, <1>9, <2>2 DEF Ready, Settled
  <2> HIDE DEF t
  <2>4. Settled(Now)'
    BY <1>1, <2>1, <2>3, SettledAfter
  <2>5. window'.quits /\ window'.held = down
    BY <1>1, <1>2, <1>4, <2>1, <2>2
  <2>6. QED
    BY <1>1, <1>11, <1>12, <2>2, <2>4, <2>5 DEF ScreenInv
<1>14. CASE v.running
  <2>1. /\ Ready(r) /\ r.w.running /\ r.w.held = down /\ r.w.capturing = v.capturing
        /\ r.w.quits => window.quits \/ "escape" \notin down
    <3>1. CASE s.rearm /\ "escape" \notin s.w.held
      <4>1. /\ Shape(r) /\ r.m = s.m /\ r.w.quits /\ r.w.running = s.w.running /\ r.w.held = s.w.held
            /\ r.w.capturing = s.w.capturing /\ r.w.captured = s.w.captured
            /\ r.w.bindings = s.w.bindings /\ ~r.rearm /\ r.changed = s.changed /\ r.saves = s.saves
        BY <1>5, <3>1, RearmedFields
      <4> HIDE DEF r
      <4>2. Filed(r)
        BY <1>4, <1>9, <4>1 DEF Ready, Filed
      <4>3. Armed(r)
        BY <1>9, <3>1, <4>1 DEF Ready, Armed
      <4>4. Ready(r)
        BY <1>9, <4>1, <4>2, <4>3 DEF Ready
      <4>5. QED
        BY <1>2, <1>4, <1>14, <3>1, <4>1, <4>4
    <3>2. CASE ~(s.rearm /\ "escape" \notin s.w.held)
      <4>1. r = s
        BY <3>2 DEF Screen!Rearmed
      <4>2. QED
        BY <1>2, <1>4, <1>9, <1>14, <4>1
    <3>3. QED
      BY <3>1, <3>2
  <2> HIDE DEF r
  <2>2. r.w.capturing => pressed = {}
    <3>1. SUFFICES ASSUME r.w.capturing PROVE pressed = {}
      OBVIOUS
    <3>2. events = << >>
      BY <1>2, <2>1, <3>1 DEF Screen!Taken
    <3>3. Queued = {}
      BY <3>2 DEF Queued
    <3>4. QED
      BY <1>10, <3>3
  <2>3. t = Screen!Pumped(r, pressed)
    BY <1>14 DEF r, v
  <2> HIDE DEF t, pressed
  <2>4. Settled(t) /\ Untouched(t, r)
    BY <2>1, <2>2, <2>3, PumpedSettles
  <2>5. Settled(Now)'
    BY <1>1, <2>4, SettledAfter
  <2>6. window'.running /\ window'.held = down /\ (window'.quits => window.quits \/ "escape" \notin down)
    BY <1>1, <2>1, <2>4 DEF Untouched
  <2>7. QED
    BY <1>1, <1>10, <1>11, <1>12, <2>5, <2>6 DEF ScreenInv
<1>15. QED
  BY <1>2, <1>13, <1>14 DEF WindowShape

LEMMA ScreenUntouched == ASSUME ScreenInv, UNCHANGED ofScreen PROVE ScreenInv'
<1>1. UNCHANGED <<down, events, window, menu, changed, rearm, file, failed, onScreen>>
  BY DEF ofScreen
<1>2. Settled(Now)'
  BY <1>1, SettledStays DEF ScreenInv
<1>3. Queued' = Queued
  BY <1>1 DEF Queued
<1>4. QED
  BY <1>1, <1>2, <1>3 DEF ScreenInv

\* Whatever keys are pressed, held, repeated and let go between the polls, with any number of
\* rows: escape ends the run only where it went down with no screen open, the screen and the window
\* agree on whether an input is awaited, and what is used is what was saved (window.cpp 351-454,
\* input_menu.cpp 12-114, boot_main.cpp 404-522).
THEOREM OnePressDoesOneThing == Spec => []OnePressOneThing
<1> DEFINE I == part = "screen" => ScreenInv
<1>1. Init => I
  BY ScreenInit DEF Init
<1>2. I /\ [Next]_vars => I'
  <2> SUFFICES ASSUME I, [Next]_vars, part' = "screen" PROVE ScreenInv'
    OBVIOUS
  <2>1. part = "screen"
    BY DEF Next, vars
  <2>2. CASE Screen!Next
    BY <2>1, <2>2, KeysKeepScreen, PresentKeepsScreen DEF Screen!Next
  <2>3. CASE UNCHANGED ofScreen
    BY <2>1, <2>3, ScreenUntouched
  <2>4. QED
    BY <2>1, <2>2, <2>3 DEF Next, vars
<1>3. I => OnePressOneThing
  <2>1. SUFFICES ASSUME ScreenInv
                 PROVE  Screen!QuitIsAPressOfItsOwn /\ Screen!CaptureIsAwaited /\ Screen!SavedAsUsed
    BY DEF OnePressOneThing
  <2>2. Screen!QuitIsAPressOfItsOwn
    BY <2>1 DEF ScreenInv, Screen!QuitIsAPressOfItsOwn
  <2>3. Screen!CaptureIsAwaited
    BY <2>1 DEF ScreenInv, Settled, Now, Screen!CaptureIsAwaited
  <2>4. Screen!SavedAsUsed
    BY <2>1 DEF ScreenInv, Settled, Filed, Now, Screen!SavedAsUsed
  <2>5. QED
    BY <2>2, <2>3, <2>4
<1> HIDE DEF I
<1>4. QED
  BY <1>1, <1>2, <1>3, PTL DEF Spec

--------------------------------------------------------------------------------
(* The two readers of a parameter stream. *)

Readers ==
  [pending : {"none", "header", "sprite", "triangle", "vertex", "last"}, list : Nat,
   active : BOOLEAN, sprite : BOOLEAN, header : Headers \cup {Stream!Blank},
   first : Nat, count : Nat, serial : Nat]
Polygons == [list : Nat, first : Nat, count : Nat, of : Nat]
Frames == [vertices : Seq(Nat), polygons : Seq(Polygons), modifiers : Nat]

\* The polygons ps are drawn from vertices of their own among vs, one after the other.
Upto(ps, n) == \A i \in 1..Len(ps) : ps[i].first + ps[i].count <= n
Drawn(vs, ps) ==
  /\ \A i \in 1..Len(ps) :
       /\ ps[i].count >= 3 /\ ps[i].first + ps[i].count <= Len(vs)
       /\ \A v \in (ps[i].first + 1)..(ps[i].first + ps[i].count) : vs[v] = ps[i].of
  /\ \A i \in 1..Len(ps) : \A j \in 1..Len(ps) : j < i => ps[j].first + ps[j].count <= ps[i].first

\* The polygon d is in the middle of, if it is in one, has the last vertices of f.
FrameInv(d, f) ==
  /\ d \in Readers /\ f \in Frames
  /\ Drawn(f.vertices, f.polygons)
  /\ d.first + d.count <= Len(f.vertices)
  /\ d.active => /\ d.first + d.count = Len(f.vertices) /\ Upto(f.polygons, d.first)
                 /\ \A v \in (d.first + 1)..(d.first + d.count) : f.vertices[v] = d.serial
  /\ ~d.active => d.count = 0

\* Ta's state between two parameters, and within one, by what DisplayList is in.
Resting(d) ==
  IF d.sprite THEN "plv64" ELSE IF ~d.active THEN "ns"
  ELSE IF d.list \in Stream!ModifierLists THEN "mlv64"
  ELSE IF Stream!TaVertexIs64(d.header) THEN "plv64" ELSE "plv32"
SameChunk(a, d) ==
  /\ d.pending = "none" => a = Resting(d)
  /\ d.pending = "header" => /\ d.active /\ ~d.sprite /\ d.list \notin Stream!ModifierLists
                             /\ a = IF Stream!TaVertexIs64(d.header) THEN "plhv64" ELSE "plhv32"
  /\ d.pending = "sprite" => d.sprite /\ ~d.active /\ d.list \notin Stream!ModifierLists /\ a = "plv64h"
  /\ d.pending = "triangle" => /\ d.active \/ d.sprite
                               /\ d.list \in Stream!ModifierLists
                               /\ a = IF d.sprite THEN "plv64h" ELSE "mlv64h"
  /\ d.pending \in {"vertex", "last"} => /\ d.active /\ ~d.sprite /\ d.list \notin Stream!ModifierLists
                                         /\ Stream!TaVertexIs64(d.header) /\ a = "plv64h"

\* Between them the readers know as much of the parameter and the list they are in as each needs.
StreamInv ==
  /\ FrameInv(dl, frame) /\ serial \in Nat
  /\ ~(dl.active /\ dl.sprite)
  /\ dl.active \/ dl.sprite => dl.serial = serial /\ dl.header \in Headers
  /\ SameChunk(ta, dl)
  /\ open = Stream!NoList <=> dl.list = 5
  /\ open # Stream!NoList => dl.list = open /\ open < 5
  /\ closed = ended

LEMMA Halves ==
  /\ DOMAIN Stream!SecondHalf = {"plhv32", "plhv64", "plv64h", "mlv64h"}
  /\ Stream!SecondHalf["plhv32"] = "plv32" /\ Stream!SecondHalf["plhv64"] = "plv64"
  /\ Stream!SecondHalf["plv64h"] = "plv64" /\ Stream!SecondHalf["mlv64h"] = "mlv64"
BY DEF Stream!SecondHalf

LEMMA ExpectedAlike ==
  ASSUME StreamInv
  PROVE  Stream!TaExpectsHalf <=> dl.pending # "none"
<1>1. dl.pending \in {"none", "header", "sprite", "triangle", "vertex", "last"}
  BY DEF StreamInv, FrameInv, Readers
<1>2. dl.pending = "none" => ta \in {"plv64", "plv32", "mlv64", "ns"}
  BY DEF StreamInv, SameChunk, Resting
<1>3. dl.pending # "none" => ta \in {"plhv32", "plhv64", "plv64h", "mlv64h"}
  BY <1>1 DEF StreamInv, SameChunk
<1>4. QED
  BY <1>2, <1>3, Halves DEF Stream!TaExpectsHalf

--------------------------------------------------------------------------------
(* What is drawn. *)

\* More vertices change nothing for the polygons there are.
LEMMA DrawnStays ==
  ASSUME NEW vs \in Seq(Nat), NEW ws \in Seq(Nat), NEW ps \in Seq(Polygons), Drawn(vs, ps),
         Len(vs) <= Len(ws), \A v \in 1..Len(vs) : ws[v] = vs[v]
  PROVE  Drawn(ws, ps)
<1>1. Len(vs) \in Nat /\ Len(ws) \in Nat
  OBVIOUS
<1>2. ASSUME NEW i \in 1..Len(ps)
      PROVE  /\ ps[i].count >= 3 /\ ps[i].first + ps[i].count <= Len(ws)
             /\ \A v \in (ps[i].first + 1)..(ps[i].first + ps[i].count) : ws[v] = ps[i].of
  <2>1. ps[i] \in Polygons
    OBVIOUS
  <2>2. ps[i].first \in Nat /\ ps[i].count \in Nat
    BY <2>1 DEF Polygons
  <2>3. ps[i].count >= 3 /\ ps[i].first + ps[i].count <= Len(vs)
    BY DEF Drawn
  <2>4. ASSUME NEW v \in (ps[i].first + 1)..(ps[i].first + ps[i].count) PROVE ws[v] = ps[i].of
    <3>1. vs[v] = ps[i].of
      BY DEF Drawn
    <3>2. v \in 1..Len(vs)
      <4>1. PICK a \in Nat, c \in Nat, n \in Nat :
              a = ps[i].first /\ c = ps[i].count /\ n = Len(vs)
        BY <1>1, <2>2
      <4>2. v \in (a + 1)..(a + c) /\ a + c <= n
        BY <2>3, <4>1
      <4>3. v \in 1..n
        BY <4>2
      <4>4. QED
        BY <4>1, <4>3
    <3>3. QED
      BY <3>1, <3>2
  <2>5. QED
    BY <1>1, <2>2, <2>3, <2>4
<1>3. QED
  BY <1>2 DEF Drawn

\* A polygon of the last vertices is drawn after the others.
LEMMA DrawnAppends ==
  ASSUME NEW vs \in Seq(Nat), NEW ps \in Seq(Polygons), Drawn(vs, ps), NEW p \in Polygons,
         p.count >= 3, p.first + p.count <= Len(vs), Upto(ps, p.first),
         \A v \in (p.first + 1)..(p.first + p.count) : vs[v] = p.of
  PROVE  /\ Append(ps, p) \in Seq(Polygons) /\ Drawn(vs, Append(ps, p))
         /\ Upto(Append(ps, p), p.first + p.count)
<1> DEFINE qs == Append(ps, p)
<1>1. /\ qs \in Seq(Polygons) /\ Len(ps) \in Nat /\ Len(qs) = Len(ps) + 1 /\ qs[Len(ps) + 1] = p
      /\ \A i \in 1..Len(ps) : qs[i] = ps[i]
  OBVIOUS
<1> HIDE DEF qs
<1>2. ASSUME NEW i \in 1..Len(qs) 
      PROVE  \/ i \in 1..Len(ps) /\ qs[i] = ps[i]
             \/ i = Len(ps) + 1 /\ qs[i] = p
  <2>1. PICK n \in Nat : n = Len(ps)
    BY <1>1
  <2>2. i \in 1..n \/ i = n + 1
    BY <1>1, <2>1
  <2>3. CASE i = n + 1
    BY <1>1, <2>1, <2>3
  <2>4. CASE i \in 1..n
    <3>1. i \in 1..Len(ps)
      BY <2>1, <2>4
    <3>2. qs[i] = ps[i]
      BY <1>1, <3>1
    <3>3. QED
      BY <3>1, <3>2
  <2>5. QED
    BY <2>2, <2>3, <2>4
<1>3. ASSUME NEW i \in 1..Len(qs)
      PROVE  /\ qs[i].count >= 3 /\ qs[i].first + qs[i].count <= Len(vs)
             /\ \A v \in (qs[i].first + 1)..(qs[i].first + qs[i].count) : vs[v] = qs[i].of
  <2>1. CASE i \in 1..Len(ps) /\ qs[i] = ps[i]
    BY <2>1 DEF Drawn
  <2>2. CASE qs[i] = p
    BY <2>2
  <2>3. QED
    BY <1>2, <2>1, <2>2
<1>4. ASSUME NEW i \in 1..Len(qs), NEW j \in 1..Len(qs), j < i
      PROVE  qs[j].first + qs[j].count <= qs[i].first
  <2>1. j \in 1..Len(ps) /\ qs[j] = ps[j]
    BY <1>1, <1>4
  <2>2. CASE i \in 1..Len(ps) /\ qs[i] = ps[i]
    BY <1>4, <2>1, <2>2 DEF Drawn
  <2>3. CASE qs[i] = p
    BY <2>1, <2>3 DEF Upto
  <2>4. QED
    BY <1>2, <2>2, <2>3
<1>5. Drawn(vs, qs)
  BY <1>3, <1>4 DEF Drawn
<1>6. ASSUME NEW i \in 1..Len(qs) PROVE qs[i].first + qs[i].count <= p.first + p.count
  <2>1. p.first \in Nat /\ p.count \in Nat
    BY DEF Polygons
  <2>2. qs[i] \in Polygons
    BY <1>1
  <2>3. qs[i].first \in Nat /\ qs[i].count \in Nat
    BY <2>2 DEF Polygons
  <2>4. qs[i] = p \/ qs[i].first + qs[i].count <= p.first
    BY <1>2 DEF Upto
  <2>5. PICK a \in Nat, c \in Nat, n \in Nat, b \in Nat :
          a = qs[i].first /\ c = qs[i].count /\ n = p.first /\ b = p.count
    BY <2>1, <2>3
  <2>6. CASE qs[i] = p
    BY <2>1, <2>6
  <2>7. CASE qs[i].first + qs[i].count <= p.first
    <3>1. a + c <= n
      BY <2>5, <2>7
    <3>2. a + c <= n + b
      BY <3>1
    <3>3. QED
      BY <2>5, <3>2
  <2>8. QED
    BY <2>4, <2>6, <2>7
<1>7. Upto(qs, p.first + p.count)
  BY <1>6 DEF Upto
<1>8. QED
  BY <1>1, <1>5, <1>7 DEF qs

LEMMA FrameTypes ==
  ASSUME NEW d, NEW f, FrameInv(d, f)
  PROVE  /\ f.vertices \in Seq(Nat) /\ f.polygons \in Seq(Polygons) /\ Len(f.vertices) \in Nat
         /\ d.first \in Nat /\ d.count \in Nat /\ d.list \in Nat /\ d.serial \in Nat
         /\ d.active \in BOOLEAN /\ d.sprite \in BOOLEAN
BY DEF FrameInv, Readers, Frames

LEMMA StripKeeps ==
  ASSUME FrameInv(dl, frame)
  PROVE  LET f == Stream!Strip IN
         /\ f \in Frames /\ f.vertices = frame.vertices
         /\ Drawn(f.vertices, f.polygons) /\ Upto(f.polygons, Len(f.vertices))
<1> DEFINE f == Stream!Strip
           p == Stream!Polygon(dl.list)
<1>1. /\ frame.vertices \in Seq(Nat) /\ frame.polygons \in Seq(Polygons) /\ Len(frame.vertices) \in Nat
      /\ dl.first \in Nat /\ dl.count \in Nat /\ dl.list \in Nat /\ dl.serial \in Nat
      /\ dl.active \in BOOLEAN /\ dl.sprite \in BOOLEAN
  BY FrameTypes
<1>2. CASE dl.count >= 3 /\ dl.list < 5
  <2>1. dl.active
    BY <1>1, <1>2 DEF FrameInv
  <2>2. /\ dl.first + dl.count = Len(frame.vertices) /\ Upto(frame.polygons, dl.first)
        /\ \A v \in (dl.first + 1)..(dl.first + dl.count) : frame.vertices[v] = dl.serial
        /\ Drawn(frame.vertices, frame.polygons)
    BY <2>1 DEF FrameInv
  <2>3. p \in Polygons /\ p.first = dl.first /\ p.count = dl.count /\ p.of = dl.serial
    BY <1>1 DEF Stream!Polygon, Polygons
  <2> DEFINE ps == Append(frame.polygons, p)
  <2>4. f = [frame EXCEPT !.polygons = ps]
    BY <1>2 DEF Stream!Strip
  <2> HIDE DEF p
  <2>5. dl.first + dl.count <= Len(frame.vertices)
    BY <1>1, <2>2
  <2>6. /\ ps \in Seq(Polygons) /\ Drawn(frame.vertices, ps)
        /\ Upto(ps, dl.first + dl.count)
    BY <1>1, <1>2, <2>2, <2>3, <2>5, DrawnAppends
  <2> HIDE DEF ps, f
  <2>7. f \in Frames /\ f.vertices = frame.vertices /\ f.polygons = ps
    BY <2>4, <2>6 DEF FrameInv, Frames
  <2>8. QED
    BY <2>2, <2>6, <2>7 DEF f
<1>3. CASE ~(dl.count >= 3 /\ dl.list < 5)
  <2>1. f = frame
    BY <1>3 DEF Stream!Strip
  <2>2. Upto(frame.polygons, Len(frame.vertices))
    BY DEF FrameInv, Drawn, Upto
  <2>3. QED
    BY <2>1, <2>2 DEF FrameInv
<1>4. QED
  BY <1>2, <1>3

LEMMA RestartedFrame ==
  ASSUME NEW d \in Readers, NEW f \in Frames, Drawn(f.vertices, f.polygons),
         Upto(f.polygons, Len(f.vertices)), d.count = 0, d.first = Len(f.vertices)
  PROVE  FrameInv(d, f)
<1>1. Len(f.vertices) \in Nat
  BY DEF Frames
<1>2. d.first + d.count = Len(f.vertices)
  BY <1>1
<1>3. (d.first + 1)..(d.first + d.count) = {}
  BY <1>1
<1>4. d.first + d.count <= Len(f.vertices)
  BY <1>1, <1>2
<1>5. QED
  BY <1>2, <1>3, <1>4 DEF FrameInv

\* What the second half of a parameter and a vertex leave as it is.
SameParameter ==
  /\ dl'.pending = "none" /\ dl'.list = dl.list /\ dl'.active = dl.active /\ dl'.sprite = dl.sprite
  /\ dl'.header = dl.header /\ dl'.serial = dl.serial

LEMMA PushedKeeps ==
  ASSUME FrameInv(dl, frame), dl.active, dl.serial = serial, serial \in Nat,
         NEW eos, Stream!Pushed(eos)
  PROVE  FrameInv(dl', frame') /\ SameParameter
<1> DEFINE vs == Append(frame.vertices, serial)
           n == dl.count + 1
           with == [frame EXCEPT !.vertices = vs]
<1>1. /\ frame.vertices \in Seq(Nat) /\ frame.polygons \in Seq(Polygons) /\ Len(frame.vertices) \in Nat
      /\ dl.first \in Nat /\ dl.count \in Nat /\ dl.list \in Nat /\ dl.serial \in Nat
  BY FrameTypes
<1>2. /\ dl.first + dl.count = Len(frame.vertices) /\ Upto(frame.polygons, dl.first)
      /\ \A v \in (dl.first + 1)..(dl.first + dl.count) : frame.vertices[v] = dl.serial
      /\ Drawn(frame.vertices, frame.polygons)
  BY DEF FrameInv
<1>3. /\ vs \in Seq(Nat) /\ Len(vs) = Len(frame.vertices) + 1
      /\ vs[Len(frame.vertices) + 1] = serial
      /\ \A v \in 1..Len(frame.vertices) : vs[v] = frame.vertices[v]
  BY <1>1
<1> HIDE DEF vs
<1>4. n \in Nat /\ dl.first + n = Len(vs)
  <2>1. PICK a \in Nat, c \in Nat, l \in Nat :
          a = dl.first /\ c = dl.count /\ l = Len(frame.vertices) /\ a + c = l
    BY <1>1, <1>2
  <2>2. a + c = l
    BY <2>1
  <2>3. c + 1 \in Nat /\ a + (c + 1) = l + 1
    BY <2>2
  <2>4. n = c + 1 /\ Len(vs) = l + 1 /\ dl.first = a
    BY <1>3, <2>1
  <2>5. QED
    BY <2>3, <2>4
<1> HIDE DEF n
<1>5. Drawn(vs, frame.polygons)
  <2>1. Len(frame.vertices) <= Len(vs)
    BY <1>1, <1>3
  <2>2. QED
    BY <1>1, <1>2, <1>3, <2>1, DrawnStays
<1>6. ASSUME NEW v \in (dl.first + 1)..(dl.first + n) PROVE vs[v] = dl.serial
  <2>1. PICK a \in Nat, c \in Nat, l \in Nat :
          a = dl.first /\ c = dl.count /\ l = Len(frame.vertices) /\ a + c = l
    BY <1>1, <1>2
  <2>2. v = l + 1 \/ v \in (a + 1)..(a + c)
    <3>1. dl.first = a /\ dl.first + n = l + 1 /\ a + c = l
      BY <1>3, <1>4, <2>1
    <3>2. v \in (a + 1)..(l + 1)
      BY <3>1
    <3>3. QED
      BY <3>1, <3>2
  <2>3. CASE v = l + 1
    BY <1>3, <2>1, <2>3
  <2>4. CASE v \in (a + 1)..(a + c)
    <3>1. v \in 1..l
      BY <2>1, <2>4
    <3>2. vs[v] = frame.vertices[v]
      BY <1>3, <2>1, <3>1
    <3>3. frame.vertices[v] = dl.serial
      BY <1>2, <2>1, <2>4
    <3>4. QED
      BY <3>2, <3>3
  <2>5. QED
    BY <2>2, <2>3, <2>4
<1>7. with \in Frames /\ with.vertices = vs /\ with.polygons = frame.polygons
  BY <1>3 DEF FrameInv, Frames
<1>8. dl \in Readers
  BY DEF FrameInv
<1>9. with = [frame EXCEPT !.vertices = Append(@, serial)]
  BY DEF vs
<1>10. CASE ~eos
  <2>1. frame' = with /\ dl' = [dl EXCEPT !.count = n, !.pending = "none"]
    BY <1>9, <1>10 DEF Stream!Pushed, n
  <2>2. /\ dl' \in Readers /\ SameParameter /\ dl'.count = n /\ dl'.first = dl.first
    BY <1>4, <1>8, <2>1 DEF Readers, SameParameter
  <2>3. dl.first + n <= Len(vs)
    BY <1>1, <1>4
  <2> HIDE DEF with
  <2>4. FrameInv(dl', frame')
    BY <1>2, <1>4, <1>5, <1>6, <1>7, <2>1, <2>2, <2>3 DEF FrameInv, SameParameter
  <2>5. QED
    BY <2>2, <2>4
<1>11. CASE eos
  <2> DEFINE p == [Stream!Polygon(dl.list) EXCEPT !.count = n]
             ps == IF n >= 3 /\ dl.list < 5 THEN Append(frame.polygons, p) ELSE frame.polygons
  <2>1. /\ frame' = [with EXCEPT !.polygons = ps]
        /\ dl' = [dl EXCEPT !.count = 0, !.first = Len(vs), !.pending = "none"]
    BY <1>7, <1>9, <1>11 DEF Stream!Pushed, n
  <2>2. ps \in Seq(Polygons) /\ Drawn(vs, ps) /\ Upto(ps, Len(vs))
    <3>1. CASE n >= 3 /\ dl.list < 5
      <4>1. p \in Polygons /\ p.first = dl.first /\ p.count = n /\ p.of = dl.serial
        BY <1>1, <1>4 DEF Stream!Polygon, Polygons
      <4>2. ps = Append(frame.polygons, p)
        BY <3>1
      <4>3. p.first + p.count <= Len(vs)
        BY <1>1, <1>4, <4>1
      <4>4. Upto(frame.polygons, p.first) /\ p.count >= 3
        BY <1>2, <3>1, <4>1
      <4>5. \A v \in (p.first + 1)..(p.first + p.count) : vs[v] = p.of
        BY <1>6, <4>1
      <4> HIDE DEF p
      <4>6. /\ Append(frame.polygons, p) \in Seq(Polygons) /\ Drawn(vs, Append(frame.polygons, p))
            /\ Upto(Append(frame.polygons, p), p.first + p.count)
        BY <1>1, <1>3, <1>5, <4>1, <4>3, <4>4, <4>5, DrawnAppends
      <4>7. QED
        BY <1>4, <4>1, <4>2, <4>6
    <3>2. CASE ~(n >= 3 /\ dl.list < 5)
      <4>1. ps = frame.polygons
        BY <3>2
      <4>2. Upto(frame.polygons, Len(vs))
        BY <1>5 DEF Drawn, Upto
      <4>3. QED
        BY <1>1, <1>5, <4>1, <4>2
    <3>3. QED
      BY <3>1, <3>2
  <2> HIDE DEF ps, with
  <2>3. frame' \in Frames /\ frame'.vertices = vs /\ frame'.polygons = ps
    BY <1>7, <2>1, <2>2 DEF Frames
  <2>4. Len(vs) \in Nat
    BY <1>3
  <2>5. dl' \in Readers /\ SameParameter /\ dl'.count = 0 /\ dl'.first = Len(vs)
    BY <1>8, <2>1, <2>4 DEF Readers, SameParameter
  <2>6. FrameInv(dl', frame')
    BY <2>2, <2>3, <2>5, RestartedFrame
  <2>7. QED
    BY <2>5, <2>6
<1>12. QED
  BY <1>10, <1>11

LEMMA SpritePushedKeeps ==
  ASSUME FrameInv(dl, frame), ~dl.active, dl.serial = serial, serial \in Nat, Stream!SpritePushed
  PROVE  FrameInv(dl', frame') /\ SameParameter
<1> DEFINE at == Len(frame.vertices)
           four == [i \in 1..4 |-> serial]
           vs == frame.vertices \o four
           p == [list |-> dl.list, first |-> at, count |-> 4, of |-> dl.serial]
           ps == Append(frame.polygons, p)
<1>1. /\ frame.vertices \in Seq(Nat) /\ frame.polygons \in Seq(Polygons) /\ at \in Nat
      /\ dl.list \in Nat /\ dl.serial \in Nat
  BY FrameTypes
<1>2. Drawn(frame.vertices, frame.polygons)
  BY DEF FrameInv
<1>3. four \in Seq(Nat) /\ Len(four) = 4
  BY DEF Seq
<1>4. /\ vs \in Seq(Nat) /\ Len(vs) = at + 4
      /\ \A v \in 1..at : vs[v] = frame.vertices[v]
      /\ \A v \in (at + 1)..(at + 4) : vs[v] = serial
  <2>1. vs \in Seq(Nat) /\ Len(vs) = at + 4
    BY <1>1, <1>3
  <2>2. ASSUME NEW v \in 1..at PROVE vs[v] = frame.vertices[v]
    BY <1>1, <1>3
  <2>3. ASSUME NEW v \in (at + 1)..(at + 4) PROVE vs[v] = serial
    <3>1. v \in Int /\ v > at /\ v <= at + 4
      BY <1>1
    <3>2. vs[v] = four[v - at]
      BY <1>1, <1>3, <3>1, ConcatProperties
    <3>3. v - at \in 1..4
      <4>1. PICK l \in Nat : l = at
        BY <1>1
      <4>2. v > l /\ v <= l + 4
        BY <3>1, <4>1
      <4>3. v - l \in 1..4
        BY <3>1, <4>2
      <4>4. QED
        BY <4>1, <4>3
    <3>4. QED
      BY <3>2, <3>3
  <2>4. QED
    BY <2>1, <2>2, <2>3
<1>5. /\ frame' = [frame EXCEPT !.vertices = vs, !.polygons = ps]
      /\ dl' = [dl EXCEPT !.first = at, !.count = 0, !.pending = "none"]
  BY DEF Stream!SpritePushed
<1>6. Upto(frame.polygons, at)
  BY <1>2 DEF Drawn, Upto
<1>7. p \in Polygons /\ p.first = at /\ p.count = 4 /\ p.of = serial
  BY <1>1 DEF Polygons
<1> HIDE DEF p, four
<1>8. at <= Len(vs)
  BY <1>1, <1>4
<1>9. Drawn(vs, frame.polygons)
  BY <1>1, <1>2, <1>4, <1>8, DrawnStays
<1>10. p.first + p.count <= Len(vs) /\ p.count >= 3
  BY <1>1, <1>4, <1>7
<1>11. \A v \in (p.first + 1)..(p.first + p.count) : vs[v] = p.of
  BY <1>4, <1>7
<1>12. Upto(frame.polygons, p.first)
  BY <1>6, <1>7
<1> HIDE DEF vs
<1>13. ps \in Seq(Polygons) /\ Drawn(vs, ps)
  BY <1>1, <1>4, <1>7, <1>9, <1>10, <1>11, <1>12, DrawnAppends
<1> HIDE DEF ps
<1>14. frame' \in Frames /\ frame'.vertices = vs /\ frame'.polygons = ps
  BY <1>4, <1>5, <1>13 DEF FrameInv, Frames
<1>15. dl \in Readers
  BY DEF FrameInv
<1>16. dl' \in Readers /\ SameParameter /\ dl'.count = 0 /\ dl'.first = at
  BY <1>1, <1>5, <1>15 DEF Readers, SameParameter
<1>17. dl'.first + dl'.count <= Len(vs)
  BY <1>1, <1>8, <1>16
<1>18. FrameInv(dl', frame')
  BY <1>13, <1>14, <1>16, <1>17 DEF FrameInv, SameParameter
<1>19. QED
  BY <1>16, <1>18

\* The second half of whatever was pending ends the parameter.
LEMMA HalfKeeps ==
  ASSUME StreamInv, dl.pending # "none", Stream!DlHalf
  PROVE  FrameInv(dl', frame') /\ SameParameter
<1>1. /\ FrameInv(dl, frame) /\ serial \in Nat /\ SameChunk(ta, dl)
      /\ dl.active \/ dl.sprite => dl.serial = serial
      /\ dl.pending \in {"header", "sprite", "triangle", "vertex", "last"}
  BY DEF StreamInv, FrameInv, Readers
<1>2. dl \in Readers /\ frame \in Frames
  BY <1>1 DEF FrameInv
<1>3. CASE dl.pending = "sprite"
  <2>1. Stream!SpritePushed /\ ~dl.active /\ dl.serial = serial
    BY <1>1, <1>3 DEF Stream!DlHalf, SameChunk
  <2>2. QED
    BY <1>1, <2>1, SpritePushedKeeps
<1>4. CASE dl.pending \in {"vertex", "last"}
  <2>1. Stream!Pushed(dl.pending = "last") /\ dl.active /\ dl.serial = serial
    BY <1>1, <1>4 DEF Stream!DlHalf, SameChunk
  <2>2. QED
    BY <1>1, <2>1, PushedKeeps
<1>5. CASE dl.pending \in {"header", "triangle"}
  <2>1. dl' = [dl EXCEPT !.pending = "none"] /\ frame' \in {frame, [frame EXCEPT !.modifiers = @ + 1]}
    BY <1>5 DEF Stream!DlHalf, Stream!TrianglePushed
  <2>2. /\ dl' \in Readers /\ SameParameter /\ dl'.count = dl.count /\ dl'.first = dl.first
    BY <1>2, <2>1 DEF Readers, SameParameter
  <2>3. frame' \in Frames /\ frame'.vertices = frame.vertices /\ frame'.polygons = frame.polygons
    BY <1>2, <2>1 DEF Frames
  <2>4. FrameInv(dl', frame')
    BY <1>1, <2>2, <2>3 DEF FrameInv, SameParameter
  <2>5. QED
    BY <2>2, <2>4
<1>6. QED
  BY <1>1, <1>3, <1>4, <1>5

--------------------------------------------------------------------------------
(* Steps of the stream. *)

LEMMA StartOfStream ==
  /\ Stream!Start => StreamInv
  /\ Stream!Reset => StreamInv'
<1> DEFINE d == [pending |-> "none", list |-> 5, active |-> FALSE, sprite |-> FALSE,
                 header |-> Stream!Blank, first |-> 0, count |-> 0, serial |-> 0]
           f == [vertices |-> << >>, polygons |-> << >>, modifiers |-> 0]
<1>1. /\ d \in Readers /\ d.pending = "none" /\ d.list = 5 /\ ~d.active /\ ~d.sprite
      /\ d.first = 0 /\ d.count = 0
  BY DEF Readers
<1>2. f \in Frames /\ f.vertices = << >> /\ f.polygons = << >>
  BY DEF Frames
<1> HIDE DEF d, f
<1>3. Len(f.vertices) = 0 /\ Len(f.polygons) = 0
  BY <1>2
<1>4. Drawn(f.vertices, f.polygons) /\ Upto(f.polygons, Len(f.vertices))
  BY <1>3 DEF Drawn, Upto
<1>5. FrameInv(d, f)
  BY <1>1, <1>2, <1>3, <1>4, RestartedFrame
<1>6. SameChunk("ns", d)
  BY <1>1 DEF SameChunk, Resting
<1>7. ASSUME Stream!Start PROVE StreamInv
  <2>1. dl = d /\ frame = f /\ ta = "ns" /\ open = Stream!NoList /\ ended = closed /\ serial = 0
    BY <1>7 DEF Stream!Start, d, f
  <2>2. QED
    BY <1>1, <1>5, <1>6, <2>1 DEF StreamInv
<1>8. ASSUME Stream!Reset PROVE StreamInv'
  <2>1. dl' = d /\ frame' = f /\ ta' = "ns" /\ open' = Stream!NoList /\ ended' = closed' /\ serial' = 0
    BY <1>8 DEF Stream!Reset, d, f
  <2>2. QED
    BY <1>1, <1>5, <1>6, <2>1 DEF StreamInv
<1>9. QED
  BY <1>7, <1>8

LEMMA StreamKeepsHalf == ASSUME StreamInv, Stream!Half PROVE StreamInv'
<1>1. dl.pending # "none"
  BY ExpectedAlike DEF Stream!Half
<1>2. Stream!DlHalf /\ ta' = Stream!SecondHalf[ta] /\ UNCHANGED <<open, ended, closed, serial>>
  BY <1>1 DEF Stream!Half
<1>3. FrameInv(dl', frame') /\ SameParameter
  BY <1>1, <1>2, HalfKeeps
<1>4. dl.pending \in {"header", "sprite", "triangle", "vertex", "last"}
  BY <1>1 DEF StreamInv, FrameInv, Readers
<1>5. ta' = Resting(dl)
  <2>1. SameChunk(ta, dl) /\ ~(dl.active /\ dl.sprite)
    BY DEF StreamInv
  <2>2. CASE dl.pending = "header"
    BY <1>2, <2>1, <2>2, Halves DEF SameChunk, Resting
  <2>3. CASE dl.pending = "sprite"
    BY <1>2, <2>1, <2>3, Halves DEF SameChunk, Resting
  <2>4. CASE dl.pending = "triangle"
    BY <1>2, <2>1, <2>4, Halves DEF SameChunk, Resting
  <2>5. CASE dl.pending \in {"vertex", "last"}
    BY <1>2, <2>1, <2>5, Halves DEF SameChunk, Resting
  <2>6. QED
    BY <1>4, <2>2, <2>3, <2>4, <2>5
<1>6. SameChunk(ta', dl')
  BY <1>3, <1>5 DEF SameChunk, SameParameter, Resting
<1>7. QED
  BY <1>2, <1>3, <1>6 DEF StreamInv, SameParameter

LEMMA ListsOfHeaders ==
  /\ \A h \in Headers : /\ h.type \in {"poly", "sprite"} /\ h.list \in Nat /\ h.col \in Nat
                        /\ h.tex \in BOOLEAN /\ h.off \in BOOLEAN /\ h.vol \in BOOLEAN
  /\ \A l \in Nat : l < 5 => (l % 2 = 1 <=> l \in Stream!ModifierLists)
<1>1. ASSUME NEW l \in Nat, l < 5 PROVE l % 2 = 1 <=> l \in Stream!ModifierLists
  <2>1. l \in {0, 1, 2, 3, 4}
    BY <1>1
  <2>2. 0 % 2 = 0 /\ 1 % 2 = 1 /\ 2 % 2 = 0 /\ 3 % 2 = 1 /\ 4 % 2 = 0
    OBVIOUS
  <2>3. QED
    BY <2>1, <2>2 DEF Stream!ModifierLists
<1>2. QED
  BY <1>1, VideoAssumption DEF VideoAssumption

\* Both readers find the same size for a header, and after it for its vertices.
LEMMA HeadingKeeps == ASSUME StreamInv, NEW h \in Headers, Stream!Heading(h) PROVE StreamInv'
<1>1. dl.pending = "none"
  BY ExpectedAlike DEF Stream!Heading
<1>2. /\ h.list < 5 /\ serial' = serial + 1 /\ open' = h.list /\ UNCHANGED <<ended, closed>>
      /\ ta' = Stream!AfterHeader(h, h.list) /\ Stream!Headed(h)
  BY <1>1 DEF Stream!Heading
<1>3. /\ h.type \in {"poly", "sprite"} /\ h.list \in Nat
      /\ h.tex \in BOOLEAN /\ h.off \in BOOLEAN /\ h.vol \in BOOLEAN
      /\ h.list % 2 = 1 <=> h.list \in Stream!ModifierLists
  BY <1>2, ListsOfHeaders
<1>4. serial \in Nat /\ serial' \in Nat
  BY <1>2 DEF StreamInv
<1> DEFINE f == Stream!Strip
           half == h.type = "poly" /\ h.list \notin Stream!ModifierLists /\ Stream!DlHeaderIs64(h)
           pending == IF half THEN "header" ELSE "none"
           poly == h.type = "poly"
           sprite == h.type = "sprite"
           at == Len(frame.vertices)
<1>5. /\ f \in Frames /\ f.vertices = frame.vertices
      /\ Drawn(f.vertices, f.polygons) /\ Upto(f.polygons, Len(f.vertices))
  BY StripKeeps DEF StreamInv
<1>6. /\ frame' = f
      /\ dl' = [pending |-> pending, list |-> h.list, active |-> poly, sprite |-> sprite,
                header |-> h, first |-> at, count |-> 0, serial |-> serial']
  BY <1>2, <1>3 DEF Stream!Headed
<1>7. poly \in BOOLEAN /\ sprite \in BOOLEAN /\ pending \in {"none", "header"}
  OBVIOUS
<1>8. at \in Nat
  BY <1>5 DEF Frames
<1>9. /\ dl' \in Readers /\ dl'.pending = pending /\ dl'.list = h.list /\ dl'.active = poly
      /\ dl'.sprite = sprite /\ dl'.header = h /\ dl'.first = at /\ dl'.count = 0
      /\ dl'.serial = serial'
  <2> HIDE DEF pending, poly, sprite, at
  <2>1. QED
    BY <1>3, <1>4, <1>6, <1>7, <1>8 DEF Readers
<1> HIDE DEF f
<1>10. FrameInv(dl', frame')
  BY <1>5, <1>6, <1>9, RestartedFrame
<1>11. Stream!DlHeaderIs64(h) <=> Stream!TaHeaderIs64(h)
  BY <1>3 DEF Stream!DlHeaderIs64, Stream!TaHeaderIs64, Stream!Intensity
<1>12. SameChunk(ta', dl')
  <2>1. CASE h.type = "sprite"
    <3>1. ta' = "plv64"
      BY <1>2, <2>1 DEF Stream!AfterHeader
    <3>2. QED
      BY <1>9, <2>1, <3>1 DEF SameChunk, Resting
  <2>2. CASE h.type = "poly" /\ h.list \in Stream!ModifierLists
    <3>1. ta' = "mlv64"
      BY <1>2, <1>3, <2>2 DEF Stream!AfterHeader
    <3>2. QED
      BY <1>9, <2>2, <3>1 DEF SameChunk, Resting
  <2>3. CASE h.type = "poly" /\ h.list \notin Stream!ModifierLists
    <3>1. ta' = IF Stream!TaHeaderIs64(h)
                  THEN (IF Stream!TaVertexIs64(h) THEN "plhv64" ELSE "plhv32")
                  ELSE (IF Stream!TaVertexIs64(h) THEN "plv64" ELSE "plv32")
      BY <1>2, <1>3, <2>3 DEF Stream!AfterHeader
    <3>2. half <=> Stream!TaHeaderIs64(h)
      BY <1>11, <2>3
    <3> HIDE DEF half
    <3>3. QED
      BY <1>9, <2>3, <3>1, <3>2 DEF SameChunk, Resting
  <2>4. QED
    BY <1>3, <2>1, <2>2, <2>3
<1>13. h.list # 5 /\ h.list # Stream!NoList
  BY <1>2, <1>3 DEF Stream!NoList
<1>14. closed = ended
  BY DEF StreamInv
<1>15. QED
  BY <1>2, <1>4, <1>9, <1>10, <1>12, <1>13, <1>14 DEF StreamInv

LEMMA PendingKeeps ==
  ASSUME FrameInv(dl, frame), frame' = frame,
         NEW q \in {"none", "header", "sprite", "triangle", "vertex", "last"},
         dl' = [dl EXCEPT !.pending = q]
  PROVE  /\ FrameInv(dl', frame') /\ dl'.pending = q
         /\ dl'.list = dl.list /\ dl'.active = dl.active /\ dl'.sprite = dl.sprite
         /\ dl'.header = dl.header /\ dl'.serial = dl.serial
<1>1. dl \in Readers
  BY DEF FrameInv
<1>2. /\ dl' \in Readers /\ dl'.pending = q
      /\ dl'.list = dl.list /\ dl'.active = dl.active /\ dl'.sprite = dl.sprite
      /\ dl'.header = dl.header /\ dl'.serial = dl.serial
      /\ dl'.first = dl.first /\ dl'.count = dl.count
  BY <1>1 DEF Readers
<1>3. FrameInv(dl', frame')
  BY <1>2 DEF FrameInv
<1>4. QED
  BY <1>2, <1>3

\* Both readers find the same size for a vertex.
LEMMA VertexKeeps == ASSUME StreamInv, NEW eos \in BOOLEAN, Stream!Vertex(eos) PROVE StreamInv'
<1>1. dl.pending = "none"
  BY ExpectedAlike DEF Stream!Vertex
<1>2. /\ ta' = Stream!AfterVertex /\ Stream!DlVertex(eos) /\ UNCHANGED <<open, ended, closed, serial>>
  BY <1>1 DEF Stream!Vertex
<1>3. /\ FrameInv(dl, frame) /\ serial \in Nat /\ ta = Resting(dl)
      /\ ~(dl.active /\ dl.sprite)
      /\ dl.active \/ dl.sprite => dl.serial = serial /\ dl.header \in Headers
  BY <1>1 DEF StreamInv, SameChunk
<1>4. dl.active \in BOOLEAN /\ dl.sprite \in BOOLEAN
  BY <1>3, FrameTypes
<1>5. SUFFICES /\ FrameInv(dl', frame') /\ SameChunk(ta', dl')
               /\ dl'.list = dl.list /\ dl'.active = dl.active /\ dl'.sprite = dl.sprite
               /\ dl'.header = dl.header /\ dl'.serial = dl.serial
  BY <1>2 DEF StreamInv
<1>6. CASE ~dl.active /\ ~dl.sprite
  <2>1. dl' = dl /\ frame' = frame
    BY <1>2, <1>6 DEF Stream!DlVertex
  <2>2. ta = "ns" /\ ta' = "ns"
    BY <1>2, <1>3, <1>6 DEF Resting, Stream!AfterVertex
  <2>3. QED
    BY <1>1, <1>3, <2>1, <2>2 DEF SameChunk
<1>7. CASE (dl.active \/ dl.sprite) /\ dl.list \in Stream!ModifierLists
  <2>1. dl' = [dl EXCEPT !.pending = "triangle"] /\ frame' = frame
    BY <1>2, <1>7 DEF Stream!DlVertex
  <2>2. ta' = IF dl.sprite THEN "plv64h" ELSE "mlv64h"
    BY <1>2, <1>3, <1>7 DEF Resting, Stream!AfterVertex
  <2>3. /\ FrameInv(dl', frame') /\ dl'.pending = "triangle"
        /\ dl'.list = dl.list /\ dl'.active = dl.active /\ dl'.sprite = dl.sprite
        /\ dl'.header = dl.header /\ dl'.serial = dl.serial
    BY <1>3, <2>1, PendingKeeps
  <2>4. QED
    BY <1>7, <2>2, <2>3 DEF SameChunk
<1>8. CASE dl.sprite /\ dl.list \notin Stream!ModifierLists
  <2>1. dl' = [dl EXCEPT !.pending = "sprite"] /\ frame' = frame
    BY <1>2, <1>8 DEF Stream!DlVertex
  <2>2. ta' = "plv64h"
    BY <1>2, <1>3, <1>8 DEF Resting, Stream!AfterVertex
  <2>3. /\ FrameInv(dl', frame') /\ dl'.pending = "sprite"
        /\ dl'.list = dl.list /\ dl'.active = dl.active /\ dl'.sprite = dl.sprite
        /\ dl'.header = dl.header /\ dl'.serial = dl.serial
    BY <1>3, <2>1, PendingKeeps
  <2>4. ~dl.active
    BY <1>3, <1>8
  <2>5. QED
    BY <1>8, <2>2, <2>3, <2>4 DEF SameChunk
<1>9. CASE dl.active /\ ~dl.sprite /\ dl.list \notin Stream!ModifierLists
  <2>1. IF Stream!DlVertexIs64(dl.header)
          THEN dl' = [dl EXCEPT !.pending = IF eos THEN "last" ELSE "vertex"] /\ frame' = frame
          ELSE Stream!Pushed(eos)
    BY <1>2, <1>9 DEF Stream!DlVertex
  <2>2. dl.header \in Headers
    BY <1>3, <1>9
  <2>3. Stream!DlVertexIs64(dl.header) <=> Stream!TaVertexIs64(dl.header)
    <3>1. PICK h \in Headers : h = dl.header
      BY <2>2
    <3>2. h.vol \in BOOLEAN /\ h.tex \in BOOLEAN
      BY ListsOfHeaders
    <3>3. Stream!DlVertexIs64(h) <=> Stream!TaVertexIs64(h)
      BY <3>2 DEF Stream!DlVertexIs64, Stream!TaVertexIs64, Stream!Floating
    <3>4. QED
      BY <3>1, <3>3
  <2>4. CASE Stream!TaVertexIs64(dl.header)
    <3>1. PICK q \in {"last", "vertex"} : dl' = [dl EXCEPT !.pending = q]
      BY <2>1, <2>3, <2>4
    <3>2. frame' = frame
      BY <2>1, <2>3, <2>4
    <3>3. ta' = "plv64h"
      BY <1>2, <1>3, <1>9, <2>4 DEF Resting, Stream!AfterVertex
    <3>4. /\ FrameInv(dl', frame') /\ dl'.pending = q
          /\ dl'.list = dl.list /\ dl'.active = dl.active /\ dl'.sprite = dl.sprite
          /\ dl'.header = dl.header /\ dl'.serial = dl.serial
      BY <1>3, <3>1, <3>2, PendingKeeps
    <3>5. QED
      BY <1>9, <2>4, <3>3, <3>4 DEF SameChunk
  <2>5. CASE ~Stream!TaVertexIs64(dl.header)
    <3>1. Stream!Pushed(eos)
      BY <2>1, <2>3, <2>5
    <3>2. ta = "plv32" /\ ta' = "plv32"
      BY <1>2, <1>3, <1>9, <2>5 DEF Resting, Stream!AfterVertex
    <3>3. FrameInv(dl', frame') /\ SameParameter
      BY <1>3, <1>9, <3>1, PushedKeeps
    <3>4. QED
      BY <1>9, <2>5, <3>2, <3>3 DEF SameChunk, SameParameter, Resting
  <2>6. QED
    BY <2>4, <2>5
<1>10. QED
  BY <1>3, <1>4, <1>6, <1>7, <1>8, <1>9

LEMMA EndOfListKeeps ==
  ASSUME StreamInv, NEW list \in Nat, Stream!EndOfList(list)
  PROVE  StreamInv'
<1>1. dl.pending = "none"
  BY ExpectedAlike DEF Stream!EndOfList
<1>2. /\ open \in {Stream!NoList, list} /\ ended' = Append(ended, list)
      /\ open' = Stream!NoList /\ ta' = "ns" /\ serial' = serial
      /\ frame' = Stream!Strip
      /\ dl' = [Stream!Restarted(dl) EXCEPT !.sprite = FALSE, !.active = FALSE, !.list = 5]
      /\ closed' = IF dl.list < 5 THEN Append(closed, dl.list) ELSE Append(closed, list)
  BY <1>1 DEF Stream!EndOfList
<1>3. closed' = ended'
  <2>1. CASE open = Stream!NoList
    <3>1. dl.list = 5 /\ ~(dl.list < 5)
      BY <2>1 DEF StreamInv
    <3>2. QED
      BY <1>2, <3>1 DEF StreamInv
  <2>2. CASE open # Stream!NoList
    <3>1. dl.list = list /\ dl.list < 5
      BY <1>2, <2>2 DEF StreamInv
    <3>2. QED
      BY <1>2, <3>1 DEF StreamInv
  <2>3. QED
    BY <2>1, <2>2
<1> DEFINE f == Stream!Strip
           at == Len(frame.vertices)
<1>4. /\ f \in Frames /\ f.vertices = frame.vertices
      /\ Drawn(f.vertices, f.polygons) /\ Upto(f.polygons, Len(f.vertices))
  BY StripKeeps DEF StreamInv
<1>5. at \in Nat
  BY <1>4 DEF Frames
<1>6. dl \in Readers
  BY DEF StreamInv, FrameInv
<1> DEFINE r == Stream!Restarted(dl)
<1>7. r = [dl EXCEPT !.count = 0, !.first = at]
  BY DEF Stream!Restarted
<1> HIDE DEF at, f, r
<1>8. /\ dl' \in Readers /\ dl'.pending = "none" /\ dl'.list = 5 /\ ~dl'.active /\ ~dl'.sprite
      /\ dl'.first = at /\ dl'.count = 0
  <2>1. r \in Readers /\ r.pending = "none" /\ r.first = at /\ r.count = 0
    BY <1>1, <1>5, <1>6, <1>7 DEF Readers
  <2>2. dl' = [r EXCEPT !.sprite = FALSE, !.active = FALSE, !.list = 5]
    BY <1>2 DEF r
  <2>3. QED
    BY <2>1, <2>2 DEF Readers
<1>9. FrameInv(dl', frame')
  BY <1>2, <1>4, <1>8, RestartedFrame DEF at, f
<1>10. SameChunk(ta', dl')
  BY <1>2, <1>8 DEF SameChunk, Resting
<1>11. QED
  BY <1>2, <1>3, <1>8, <1>9, <1>10 DEF StreamInv

LEMMA StreamUntouched ==
  ASSUME StreamInv, UNCHANGED ofStream \/ Stream!Other
  PROVE  StreamInv'
<1>1. UNCHANGED <<ta, open, ended, dl, frame, closed, serial>>
  BY ExpectedAlike DEF ofStream, Stream!Other
<1>2. QED
  BY <1>1 DEF StreamInv

LEMMA StreamKeeps == ASSUME StreamInv, Stream!Next PROVE StreamInv'
<1>1. CASE \E h \in Headers : Stream!EndOfList(h.list)
  <2>1. PICK h \in Headers : Stream!EndOfList(h.list)
    BY <1>1
  <2>2. h.list \in Nat
    BY ListsOfHeaders
  <2>3. QED
    BY <2>1, <2>2, EndOfListKeeps
<1>2. QED
  BY <1>1, StreamKeepsHalf, StreamUntouched, StartOfStream, HeadingKeeps, VertexKeeps DEF Stream!Next

LEMMA StreamSafe ==
  ASSUME StreamInv
  PROVE  Stream!ReadersAgree /\ Stream!PolygonsHaveTheirVertices
<1> DEFINE vs == frame.vertices
           ps == frame.polygons
           Of(p) == (p.first + 1)..(p.first + p.count)
<1>1. Stream!ReadersAgree
  BY ExpectedAlike DEF StreamInv, Stream!ReadersAgree
<1>2. vs \in Seq(Nat) /\ ps \in Seq(Polygons) /\ Drawn(vs, ps)
  BY FrameTypes DEF StreamInv, FrameInv
<1>3. DOMAIN ps = 1..Len(ps) /\ DOMAIN vs = 1..Len(vs) /\ Len(ps) \in Nat /\ Len(vs) \in Nat
  BY <1>2
<1>4. \A i \in 1..Len(ps) : ps[i].first \in Nat /\ ps[i].count \in Nat
  <2>1. \A i \in 1..Len(ps) : ps[i] \in Polygons
    BY <1>2
  <2>2. QED
    BY <2>1 DEF Polygons
<1>5. ASSUME NEW i \in DOMAIN ps
      PROVE  /\ ps[i].count >= 3
             /\ \A v \in Of(ps[i]) : v \in DOMAIN vs /\ vs[v] = ps[i].of
             /\ \A j \in 1..(i - 1) : Of(ps[j]) \cap Of(ps[i]) = {}
  <2>1. i \in 1..Len(ps) /\ ps[i].first \in Nat /\ ps[i].count \in Nat
    BY <1>3, <1>4
  <2>2. ps[i].count >= 3 /\ ps[i].first + ps[i].count <= Len(vs)
    BY <1>2, <2>1 DEF Drawn
  <2>3. ASSUME NEW v \in Of(ps[i]) PROVE v \in DOMAIN vs /\ vs[v] = ps[i].of
    <3>1. vs[v] = ps[i].of
      BY <1>2, <2>1 DEF Drawn
    <3>2. PICK a \in Nat, c \in Nat, n \in Nat : a = ps[i].first /\ c = ps[i].count /\ n = Len(vs)
      BY <1>3, <2>1
    <3>3. v \in (a + 1)..(a + c) /\ a + c <= n
      BY <2>2, <3>2
    <3>4. v \in 1..n
      BY <3>3
    <3>5. QED
      BY <1>3, <3>1, <3>2, <3>4
  <2>4. ASSUME NEW j \in 1..(i - 1), NEW v \in Of(ps[j]), v \in Of(ps[i]) PROVE FALSE
    <3>1. j \in 1..Len(ps) /\ j < i
      BY <1>3, <2>1
    <3>2. ps[j].first + ps[j].count <= ps[i].first /\ ps[j].first \in Nat /\ ps[j].count \in Nat
      BY <1>2, <1>4, <2>1, <3>1 DEF Drawn
    <3>3. PICK a \in Nat, c \in Nat, b \in Nat, d \in Nat :
            a = ps[i].first /\ c = ps[i].count /\ b = ps[j].first /\ d = ps[j].count
      BY <2>1, <3>2
    <3>4. v \in (a + 1)..(a + c) /\ v \in (b + 1)..(b + d) /\ b + d <= a
      BY <2>4, <3>2, <3>3
    <3>5. QED
      BY <3>4
  <2>5. QED
    BY <2>2, <2>3, <2>4
<1>6. dl.active /\ dl.count > 0 => \A v \in Of(dl) : vs[v] = dl.serial
  BY DEF StreamInv, FrameInv
<1>7. QED
  BY <1>1, <1>5, <1>6 DEF Stream!PolygonsHaveTheirVertices

\* The two readers of a stream, each with its own rules for what is the second half of what, never
\* take a chunk differently, and every polygon has its own vertices, whatever headers, vertices and
\* ends of lists a title sends (core.cpp 9-139, display_list.cpp 154-486).
THEOREM StreamIsReadAlike == Spec => []StreamReadTwice
<1> DEFINE I == part = "stream" => StreamInv
<1>1. Init => I
  BY StartOfStream DEF Init, Stream!Init
<1>2. I /\ [Next]_vars => I'
  <2> SUFFICES ASSUME I, [Next]_vars, part' = "stream" PROVE StreamInv'
    OBVIOUS
  <2>1. part = "stream"
    BY DEF Next, vars
  <2>2. CASE Stream!Next
    BY <2>1, <2>2, StreamKeeps
  <2>3. CASE UNCHANGED ofStream
    BY <2>1, <2>3, StreamUntouched
  <2>4. QED
    BY <2>1, <2>2, <2>3 DEF Next, vars
<1>3. I => StreamReadTwice
  BY StreamSafe DEF StreamReadTwice
<1> HIDE DEF I
<1>4. QED
  BY <1>1, <1>2, <1>3, PTL DEF Spec

--------------------------------------------------------------------------------
(* Quotients. *)

\* A quotient and what is left over.
LEMMA Division ==
  ASSUME NEW n \in Nat, NEW d \in Nat \ {0}
  PROVE  n \div d \in Nat /\ n % d \in 0..(d - 1) /\ n = d * (n \div d) + (n % d)
  OBVIOUS

LEMMA Divided ==
  ASSUME NEW n \in Nat, NEW d \in Nat \ {0}, NEW k \in Nat, NEW l \in 0..(d - 1), n = d * k + l
  PROVE  n \div d = k /\ n % d = l
  OBVIOUS

LEMMA Products == ASSUME NEW a \in Nat, NEW b \in Nat PROVE a * b \in Nat /\ a * b = b * a
  OBVIOUS

LEMMA Grow == ASSUME NEW a \in Nat, NEW b \in Nat, NEW c \in Nat, a <= b PROVE a * c <= b * c /\ c * a <= c * b
  OBVIOUS

\* Rows of s places: those of row y end where row y + 1 begins, which is no later than the end.
LEMMA InRow ==
  ASSUME NEW s \in Nat, NEW h \in Nat, NEW y \in Nat, NEW x \in Nat, x < s, y < h
  PROVE  y * s + x + 1 <= h * s /\ y * s + x \in Nat
<1>1. (y + 1) * s <= h * s
  BY Grow
<1>2. (y + 1) * s = y * s + s /\ y * s \in Nat
  OBVIOUS
<1>3. h * s \in Nat
  OBVIOUS
<1> HIDE DEF *
<1>4. QED
  BY <1>1, <1>2, <1>3

--------------------------------------------------------------------------------
(* Frames. *)

LEMMA PackFormatsAre ==
  ASSUME NEW k \in 0..6
  PROVE  /\ Memory!PackFormats[k + 1] = CASE k = 0 -> "rgb555" [] k = 1 -> "rgb565" [] k = 2 -> "argb4444"
                                        [] k = 3 -> "argb1555" [] k = 4 -> "rgb888" [] OTHER -> "argb8888"
  BY DEF Memory!PackFormats

\* The registers that describe the frame written and shown, and the images rendered, as
\* VideoAssumption has them.
RegisterType == [pack : 0..7, stride : Nat, clipX : Nat, clipY : Nat, sizeX : Nat, sizeY : Nat,
                 modulus : Nat, half : BOOLEAN]
ImageType == {i \in [width : Nat \ {0}, height : Nat \ {0}, stride : Nat] :
                i.stride = 0 \/ i.stride >= i.width}

\* The region written has whole rows of pixels, as long as the registers say or as wide as the
\* region; of the display the same is true.
LEMMA RegionIs ==
  ASSUME NEW r \in RegisterType, NEW w \in Nat, NEW h \in Nat, Memory!Describable(r, w, h)
  PROVE  LET t == Memory!Target(r, w, h)
             b == Memory!BytesPerPixel(t.format) IN
         /\ t.width \in Nat \ {0} /\ t.height \in Nat \ {0} /\ t.modulus \in Nat
         /\ b \in {2, 3, 4} /\ (b = 3 <=> r.pack = 4) /\ (b = 2 <=> r.pack <= 3)
         /\ (b = 3 <=> t.format = "rgb888") /\ (b = 4 <=> t.format = "argb8888")
         /\ b = 2 => t.width + t.modulus = (IF 4 * r.stride > t.width THEN 4 * r.stride ELSE t.width)
         /\ b = 4 => t.width + t.modulus = (IF 2 * r.stride > t.width THEN 2 * r.stride ELSE t.width)
<1> DEFINE t == Memory!Target(r, w, h)
           b == Memory!BytesPerPixel(t.format)
           row == (8 * r.stride) \div b
<1>1. /\ r.pack \in 0..6 /\ r.stride \in Nat /\ r.clipX \in Nat /\ r.clipY \in Nat
      /\ (r.clipX # 0 /\ r.clipY # 0) \/ (w # 0 /\ h # 0)
  BY DEF RegisterType, Memory!Describable
<1>2. /\ t.format = Memory!PackFormats[r.pack + 1]
      /\ t.width = (IF r.clipX # 0 /\ r.clipY # 0 THEN r.clipX + 1 ELSE w)
      /\ t.height = (IF r.clipX # 0 /\ r.clipY # 0 THEN r.clipY + 1 ELSE h)
      /\ t.modulus = (IF row > t.width THEN row - t.width ELSE 0)
  BY DEF Memory!Target
<1>3. /\ b \in {2, 3, 4} /\ (b = 3 <=> r.pack = 4) /\ (b = 2 <=> r.pack <= 3)
      /\ (b = 3 <=> t.format = "rgb888") /\ (b = 4 <=> t.format = "argb8888")
  BY <1>1, <1>2, PackFormatsAre DEF Memory!BytesPerPixel
<1>4. t.width \in Nat \ {0} /\ t.height \in Nat \ {0}
  BY <1>1, <1>2
<1> HIDE DEF t, b
<1>5. row \in Nat /\ (b = 2 => row = 4 * r.stride) /\ (b = 4 => row = 2 * r.stride)
  BY <1>1, <1>3
<1>6. t.modulus \in Nat /\ t.width + t.modulus = (IF row > t.width THEN row ELSE t.width)
  BY <1>2, <1>4, <1>5
<1>7. QED
  BY <1>3, <1>4, <1>5, <1>6 DEF t, b

LEMMA DisplayIs ==
  ASSUME NEW r \in RegisterType
  PROVE  LET d == Memory!Displayed(r)
             b == Memory!BytesPerPixel(d.format)
             words == r.sizeX + (IF r.modulus = 0 THEN 1 ELSE r.modulus) IN
         /\ d.width \in Nat /\ d.height \in Nat /\ d.modulus \in Nat
         /\ r.pack <= 3 => b = 2 /\ d.width + d.modulus = 2 * words
         /\ r.pack \in 5..6 => b = 4 /\ d.width + d.modulus = words
<1>1. /\ r.pack \in 0..7 /\ r.sizeX \in Nat /\ r.sizeY \in Nat /\ r.modulus \in Nat
  BY DEF RegisterType
<1> DEFINE words == 2 * (r.sizeX + 1)
           skip  == IF r.modulus = 0 THEN 0 ELSE 2 * (r.modulus - 1)
           f     == IF r.pack > 3 THEN Memory!PackFormats[r.pack + 1] ELSE "rgb565"
           Units(n) == CASE f = "rgb888" -> (2 * n) \div 3 [] f = "argb8888" -> n \div 2 [] OTHER -> n
           lines == r.sizeY + 1
           d == Memory!Displayed(r)
<1>2. /\ d.width = Units(words) /\ d.modulus = Units(skip) /\ d.format = f
      /\ d.height = (IF r.half /\ lines > 240 THEN 240 ELSE lines)
  BY DEF Memory!Displayed
<1>3. words \in Nat /\ skip \in Nat
  BY <1>1
<1>4. /\ words + skip = 2 * (r.sizeX + (IF r.modulus = 0 THEN 1 ELSE r.modulus))
      /\ words \div 2 + skip \div 2 = r.sizeX + (IF r.modulus = 0 THEN 1 ELSE r.modulus)
  BY <1>1
<1>5. /\ r.pack <= 3 => f = "rgb565"
      /\ r.pack \in 5..6 => f = "argb8888"
  BY <1>1, PackFormatsAre
<1> HIDE DEF words, skip, f
<1>6. Units(words) \in Nat /\ Units(skip) \in Nat
  BY <1>3
<1>7. d.height \in Nat
  BY <1>1, <1>2
<1>8. r.pack <= 3 => Units(words) + Units(skip) = words + skip
  BY <1>5
<1>9. r.pack \in 5..6 => Units(words) + Units(skip) = words \div 2 + skip \div 2
  BY <1>5
<1> HIDE DEF d
<1>10. r.pack <= 3 => Memory!BytesPerPixel(f) = 2
  BY <1>5 DEF Memory!BytesPerPixel
<1>11. r.pack \in 5..6 => Memory!BytesPerPixel(f) = 4
  BY <1>5 DEF Memory!BytesPerPixel
<1>12. QED
  BY <1>2, <1>4, <1>6, <1>7, <1>8, <1>9, <1>10, <1>11 DEF d

\* A frame's rows are where the display's are when they are as far apart.
LEMMA FrameIsShown ==
  ASSUME regs \in RegisterType, \A f \in Fields : f \in {<<4, 0>>} \cup ({5, 6} \X (0..7))
  PROVE  Memory!FrameIsWhereItIsShown
<1> DEFINE d == Memory!Displayed(regs)
           t == Memory!Target(regs, d.width, d.height)
           b == Memory!BytesPerPixel(t.format)
           Row(i) == (i.width + i.modulus) * Memory!BytesPerPixel(i.format)
           words == regs.sizeX + (IF regs.modulus = 0 THEN 1 ELSE regs.modulus)
           rowOfDisplay == 4 * words
           rowOfTarget  == IF 8 * regs.stride > t.width * b THEN 8 * regs.stride ELSE t.width * b
<1>1. SUFFICES ASSUME Memory!Describable(regs, d.width, d.height)
               PROVE  /\ t.format # "rgb888" /\ rowOfDisplay = rowOfTarget =>
                           /\ Row(d) = rowOfDisplay
                           /\ \A p \in Memory!Pixels(t) :
                                Memory!PixelAt(d, p[1], p[2]) = Memory!PixelAt(t, p[1], p[2])
                      /\ \A p \in Memory!Pixels(t) :
                           Memory!PixelAt(t, p[1], p[2]) + b <= Memory!Needed(t)
                      /\ Memory!Covered(t) = Memory!Needed(t)
                      /\ \A f \in Fields : \A v \in 0..(Memory!TwoTo(f[1]) - 1) :
                           Memory!Narrowed(f[1], Memory!Widened(f[1], v, f[2])) = v
  BY DEF Memory!FrameIsWhereItIsShown, Memory!Region
<1>2. /\ d.width \in Nat /\ d.height \in Nat /\ d.modulus \in Nat
      /\ regs.pack <= 3 => Memory!BytesPerPixel(d.format) = 2 /\ d.width + d.modulus = 2 * words
      /\ regs.pack \in 5..6 => Memory!BytesPerPixel(d.format) = 4 /\ d.width + d.modulus = words
  BY DisplayIs
<1>3. /\ t.width \in Nat \ {0} /\ t.height \in Nat \ {0} /\ t.modulus \in Nat
      /\ b \in {2, 3, 4} /\ (b = 3 <=> regs.pack = 4) /\ (b = 2 <=> regs.pack <= 3)
      /\ (b = 3 <=> t.format = "rgb888") /\ (b = 4 <=> t.format = "argb8888")
      /\ b = 2 => t.width + t.modulus = (IF 4 * regs.stride > t.width THEN 4 * regs.stride ELSE t.width)
      /\ b = 4 => t.width + t.modulus = (IF 2 * regs.stride > t.width THEN 2 * regs.stride ELSE t.width)
  BY <1>1, <1>2, RegionIs
<1>4. regs.pack \in 0..6 /\ regs.stride \in Nat /\ regs.sizeX \in Nat /\ regs.modulus \in Nat
  BY <1>1 DEF RegisterType, Memory!Describable
<1> HIDE DEF d, t, b
<1>5. words \in Nat
  BY <1>4
<1> HIDE DEF words
<1>6. ASSUME NEW p \in Memory!Pixels(t)
      PROVE  p[1] \in Nat /\ p[2] \in Nat /\ p[1] < t.width /\ p[2] < t.height
  BY <1>3 DEF Memory!Pixels
<1>7. ASSUME t.format # "rgb888", rowOfDisplay = rowOfTarget
      PROVE  /\ Row(d) = rowOfDisplay
             /\ d.width + d.modulus = t.width + t.modulus
             /\ Memory!BytesPerPixel(d.format) = b
  <2>1. CASE b = 2
    <3>1. Memory!BytesPerPixel(d.format) = 2 /\ d.width + d.modulus = 2 * words
      BY <1>2, <1>3, <2>1
    <3>2. rowOfTarget = 2 * (t.width + t.modulus)
      BY <1>3, <1>4, <2>1
    <3>3. QED
      BY <1>2, <1>3, <1>5, <1>7, <2>1, <3>1, <3>2
  <2>2. CASE b = 4
    <3>1. Memory!BytesPerPixel(d.format) = 4 /\ d.width + d.modulus = words
      BY <1>2, <1>3, <1>4, <2>2
    <3>2. rowOfTarget = 4 * (t.width + t.modulus)
      BY <1>3, <1>4, <2>2
    <3>3. QED
      BY <1>2, <1>3, <1>5, <1>7, <2>2, <3>1, <3>2
  <2>3. QED
    BY <1>3, <1>7, <2>1, <2>2
<1>8. ASSUME NEW p \in Memory!Pixels(t), t.format # "rgb888", rowOfDisplay = rowOfTarget
      PROVE  Memory!PixelAt(d, p[1], p[2]) = Memory!PixelAt(t, p[1], p[2])
  BY <1>7, <1>8 DEF Memory!PixelAt, b
<1>9. ASSUME NEW p \in Memory!Pixels(t)
      PROVE  Memory!PixelAt(t, p[1], p[2]) + b <= Memory!Needed(t)
  <2> DEFINE s == t.width + t.modulus
             at == p[2] * s + p[1]
  <2>1. s \in Nat /\ p[1] < s /\ p[1] \in Nat /\ p[2] \in Nat /\ p[2] < t.height /\ t.height \in Nat
    BY <1>3, <1>6
  <2>2. Memory!PixelAt(t, p[1], p[2]) = at * b /\ Memory!Needed(t) = (t.height * s) * b
    BY DEF Memory!PixelAt, Memory!Needed, b
  <2> HIDE DEF s
  <2>3. at + 1 <= t.height * s /\ at \in Nat
    BY <2>1, InRow
  <2>4. t.height * s \in Nat
    BY <2>1, Products
  <2> HIDE DEF at
  <2>5. at * b + b <= (t.height * s) * b
    BY <1>3, <2>3, <2>4
  <2>6. QED
    BY <2>2, <2>5
<1>10. Memory!Covered(t) = Memory!Needed(t)
  <2> DEFINE s == t.width + t.modulus
  <2>1. s \in Nat /\ t.height \in Nat
    BY <1>3
  <2>2. Memory!Covered(t) = s * t.height * b
    BY <1>3 DEF Memory!Covered
  <2>3. Memory!Needed(t) = t.height * s * b
    BY DEF Memory!Needed, b
  <2> HIDE DEF s
  <2>4. QED
    BY <2>1, <2>2, <2>3, Products
<1>11. ASSUME NEW f \in Fields, NEW v \in 0..(Memory!TwoTo(f[1]) - 1)
       PROVE  Memory!Narrowed(f[1], Memory!Widened(f[1], v, f[2])) = v
  <2>1. Memory!TwoTo(2) = 4 /\ Memory!TwoTo(3) = 8 /\ Memory!TwoTo(4) = 16 /\ Memory!TwoTo(5) = 32 /\ Memory!TwoTo(6) = 64
    BY DEF Memory!TwoTo
  <2>2. CASE f = <<4, 0>>
    <3>1. v \in 0..15
      BY <2>1, <2>2
    <3>2. Memory!Widened(f[1], v, f[2]) = 17 * v
      BY <2>2 DEF Memory!Widened
    <3>3. Memory!Narrowed(f[1], 17 * v) = (17 * v) \div 16
      BY <2>1, <2>2 DEF Memory!Narrowed
    <3>4. QED
      BY <3>1, <3>2, <3>3
  <2>3. CASE f[1] = 5 /\ f[2] \in 0..7
    <3>1. v \in 0..31
      BY <2>1, <2>3
    <3>2. Memory!Widened(f[1], v, f[2]) = 8 * v + f[2]
      BY <2>3 DEF Memory!Widened
    <3>3. Memory!Narrowed(f[1], 8 * v + f[2]) = (8 * v + f[2]) \div 8
      BY <2>1, <2>3 DEF Memory!Narrowed
    <3>4. QED
      BY <2>3, <3>1, <3>2, <3>3
  <2>4. CASE f[1] = 6 /\ f[2] \in 0..7
    <3>1. v \in 0..63
      BY <2>1, <2>4
    <3>2. Memory!Widened(f[1], v, f[2]) = 4 * v + f[2] \div 2
      BY <2>4 DEF Memory!Widened
    <3>3. Memory!Narrowed(f[1], 4 * v + f[2] \div 2) = (4 * v + f[2] \div 2) \div 4
      BY <2>1, <2>4 DEF Memory!Narrowed
    <3>4. QED
      BY <2>4, <3>1, <3>2, <3>3
  <2>5. f = <<4, 0>> \/ (f[1] = 5 /\ f[2] \in 0..7) \/ (f[1] = 6 /\ f[2] \in 0..7)
    OBVIOUS
  <2>6. QED
    BY <2>2, <2>3, <2>4, <2>5
<1>12. QED
  BY <1>7, <1>8, <1>9, <1>10, <1>11

\* The row (or the column) of the image that one of the frame is taken from.
LEMMA Scaled ==
  ASSUME NEW y \in Nat, NEW h \in Nat \ {0}, NEW n \in Nat \ {0}, y < h,
         NEW s, s = (IF n = h THEN y ELSE (y * n) \div h)
  PROVE  /\ s \in Nat /\ s < n /\ s <= (y * n) \div h
         /\ (y + 1) * n <= (s + 1) * h + n
<1>1. y * n \in Nat /\ (y + 1) * n = y * n + n /\ y * n + n <= h * n
  <2>1. (y + 1) * n <= h * n
    BY Grow
  <2>2. QED
    BY <2>1
<1>2. s = (y * n) \div h
  <2>1. CASE n = h
    BY <2>1, Divided
  <2>2. QED
    BY <2>1
<1> DEFINE q == y * n
<1>3. q \in Nat /\ s = q \div h
  BY <1>1, <1>2
<1> HIDE DEF q
<1>4. s \in Nat /\ q % h \in 0..(h - 1) /\ q = h * s + (q % h)
  BY <1>3, Division
<1>5. h * s \in Nat /\ (s + 1) * h = h * s + h
  BY <1>4
<1>6. h * s <= q /\ q < h * s + h
  BY <1>4, <1>5
<1>7. s < n
  <2>1. SUFFICES ASSUME n <= s PROVE FALSE
    BY <1>4
  <2>2. h * n <= h * s
    BY <1>4, <2>1, Grow
  <2>3. h * n \in Nat
    OBVIOUS
  <2>4. QED
    BY <1>1, <1>3, <1>5, <1>6, <2>2, <2>3 DEF q
<1>8. QED
  BY <1>1, <1>3, <1>4, <1>5, <1>6, <1>7 DEF q

\* A copy stays within the image.
LEMMA ImageIsCopied ==
  ASSUME regs \in RegisterType, image \in ImageType
  PROVE  Memory!CopiedFromTheImage
<1> DEFINE d == Memory!Displayed(regs)
           t == Memory!Target(regs, d.width, d.height)
           stride == IF image.stride = 0 THEN image.width ELSE image.stride
<1>1. SUFFICES ASSUME Memory!Describable(regs, d.width, d.height), NEW p \in Memory!Pixels(t)
               PROVE  LET s == Memory!SourceAt(t, p[1], p[2]) IN
                      /\ s < stride * image.height /\ s % stride < image.width
                      /\ s \div stride <= (p[2] * image.height) \div t.height
                      /\ (p[2] + 1) * image.height <= (s \div stride + 1) * t.height + image.height
                      /\ image.width = t.width => s % stride = p[1]
  BY DEF Memory!CopiedFromTheImage, Memory!Region
<1>2. d.width \in Nat /\ d.height \in Nat
  BY DisplayIs
<1>3. t.width \in Nat \ {0} /\ t.height \in Nat \ {0}
  BY <1>1, <1>2, RegionIs
<1>4. /\ image.width \in Nat \ {0} /\ image.height \in Nat \ {0}
      /\ stride \in Nat \ {0} /\ image.width <= stride
  BY DEF ImageType
<1>5. p[1] \in Nat /\ p[2] \in Nat /\ p[1] < t.width /\ p[2] < t.height
  BY <1>1, <1>3 DEF Memory!Pixels
<1> HIDE DEF d, t
<1> DEFINE sy == IF image.height = t.height THEN p[2] ELSE (p[2] * image.height) \div t.height
           sx == IF image.width = t.width THEN p[1] ELSE (p[1] * image.width) \div t.width
           s == Memory!SourceAt(t, p[1], p[2])
<1>6. s = sy * stride + sx
  BY DEF Memory!SourceAt
<1> HIDE DEF stride, s
<1>7. /\ sy \in Nat /\ sy < image.height /\ sy <= (p[2] * image.height) \div t.height
      /\ (p[2] + 1) * image.height <= (sy + 1) * t.height + image.height
  <2>1. \E k : k = sy
    OBVIOUS
  <2>2. QED
    BY <1>3, <1>4, <1>5, <2>1, Scaled
<1>8. sx \in Nat /\ sx < image.width /\ (image.width = t.width => sx = p[1])
  BY <1>3, <1>4, <1>5, Scaled
<1> HIDE DEF sx, sy
<1>9. sx \in 0..(stride - 1) /\ s = stride * sy + sx
  BY <1>4, <1>6, <1>7, <1>8, Products
<1>10. s \div stride = sy /\ s % stride = sx
  <2>1. s \in Nat
    BY <1>4, <1>7, <1>9
  <2>2. QED
    BY <1>4, <1>7, <1>9, <2>1, Divided
<1>11. s < stride * image.height
  <2>1. sy * stride + sx + 1 <= image.height * stride /\ sy * stride + sx \in Nat
    BY <1>4, <1>7, <1>8, InRow
  <2>2. image.height * stride = stride * image.height /\ stride * image.height \in Nat
    BY <1>4, Products
  <2>3. QED
    BY <1>6, <2>1, <2>2
<1>12. QED
  BY <1>7, <1>8, <1>10, <1>11 DEF s

--------------------------------------------------------------------------------
(* The picture that the converter writes. *)

\* A texture of the converter, in macroblocks.
Sizes == (Nat \ {0}) \X (Nat \ {0})

\* The pixels of a texture of so many macroblocks that begin a word, the macroblock one is in, its
\* place, and what is there after K macroblocks.
Pairs(sh) == {p \in (0..(16 * sh[1] - 1)) \X (0..(16 * sh[2] - 1)) : p[1] % 2 = 0}
BlockOf(sh, p) == sh[1] * (p[2] \div 16) + (p[1] \div 16)
PlaceOf(sh, b, p) == b + 32 * sh[1] * p[2] + 2 * p[1]
LatestOf(sh, m, K) == 384 * (m + (sh[1] * sh[2]) * ((K - 1 - m) \div (sh[1] * sh[2])))
LumaOf(x, y) == 128 + 128 * (y \div 8) + 64 * (x \div 8) + 8 * (y % 8) + (x % 8)
WordFrom(at, x, y) ==
  <<at + 8 * (y \div 2) + (x \div 2), at + LumaOf(x, y), at + 64 + 8 * (y \div 2) + (x \div 2),
    at + LumaOf(x + 1, y)>>
WordOf(sh, p, K) == WordFrom(LatestOf(sh, BlockOf(sh, p), K), p[1] % 16, p[2] % 16)
SentOf(sh, K) == {p \in Pairs(sh) : BlockOf(sh, p) < K}
PictureOf(sh, b, tx, K) ==
  /\ DOMAIN tx = {PlaceOf(sh, b, p) : p \in SentOf(sh, K)}
  /\ \A p \in SentOf(sh, K) : tx[PlaceOf(sh, b, p)] = WordOf(sh, p, K)

LEMMA Small == ASSUME NEW n \in Nat, NEW d \in Nat, n < d PROVE n % d = n /\ n \div d = 0
  OBVIOUS

LEMMA NextRemainder ==
  ASSUME NEW n \in Nat, NEW d \in Nat \ {0}
  PROVE  (n + 1) % d = IF (n % d) + 1 >= d THEN 0 ELSE (n % d) + 1
<1> DEFINE q == n \div d
           l == n % d
<1>1. q \in Nat /\ l \in 0..(d - 1) /\ n = d * q + l
  BY Division
<1> HIDE DEF q, l
<1>2. d * q \in Nat /\ d * (q + 1) = d * q + d
  BY <1>1
<1>3. CASE l + 1 >= d
  <2>1. n + 1 = d * (q + 1) + 0 /\ q + 1 \in Nat /\ 0 \in 0..(d - 1)
    BY <1>1, <1>2, <1>3
  <2>2. (n + 1) % d = 0
    BY <2>1, Divided
  <2>3. QED
    BY <1>3, <2>2 DEF l
<1>4. CASE ~(l + 1 >= d)
  <2>1. n + 1 = d * q + (l + 1) /\ l + 1 \in 0..(d - 1)
    BY <1>1, <1>2, <1>4
  <2>2. (n + 1) % d = l + 1
    BY <1>1, <2>1, Divided
  <2>3. QED
    BY <1>4, <2>2 DEF l
<1>5. QED
  BY <1>3, <1>4

LEMMA Sixteen ==
  ASSUME NEW n \in Nat, NEW d \in Nat \ {0}, n < 16 * d
  PROVE  /\ n \div 16 \in 0..(d - 1) /\ n % 16 \in 0..15 /\ n = 16 * (n \div 16) + (n % 16)
         /\ n % 2 = 0 => (n % 16) % 2 = 0
  OBVIOUS

LEMMA PairIs ==
  ASSUME NEW sh \in Sizes, NEW p \in Pairs(sh)
  PROVE  /\ p[1] \in Nat /\ p[2] \in Nat /\ p[1] % 2 = 0 /\ p[1] + 1 < 16 * sh[1] /\ p[2] < 16 * sh[2]
         /\ p = <<p[1], p[2]>>
         /\ p[1] \div 16 \in 0..(sh[1] - 1) /\ p[2] \div 16 \in 0..(sh[2] - 1)
         /\ p[1] % 16 \in 0..15 /\ p[2] % 16 \in 0..15 /\ (p[1] % 16) % 2 = 0
         /\ p[1] = 16 * (p[1] \div 16) + (p[1] % 16) /\ p[2] = 16 * (p[2] \div 16) + (p[2] % 16)
<1>1. sh[1] \in Nat \ {0} /\ sh[2] \in Nat \ {0}
  BY DEF Sizes
<1>2. /\ p[1] \in Nat /\ p[2] \in Nat /\ p[1] % 2 = 0 /\ p[1] < 16 * sh[1] /\ p[2] < 16 * sh[2]
      /\ p = <<p[1], p[2]>>
  BY <1>1 DEF Pairs
<1>3. p[1] + 1 < 16 * sh[1]
  BY <1>1, <1>2
<1>4. QED
  BY <1>1, <1>2, <1>3, Sixteen

LEMMA BlockIs ==
  ASSUME NEW sh \in Sizes, NEW p \in Pairs(sh)
  PROVE  /\ BlockOf(sh, p) \in 0..(sh[1] * sh[2] - 1)
         /\ BlockOf(sh, p) % sh[1] = p[1] \div 16
         /\ BlockOf(sh, p) \div sh[1] = p[2] \div 16
         /\ sh[1] * sh[2] \in Nat \ {0}
<1> DEFINE mx == p[1] \div 16
           my == p[2] \div 16
           m == BlockOf(sh, p)
<1>1. sh[1] \in Nat \ {0} /\ sh[2] \in Nat \ {0}
  BY DEF Sizes
<1>2. mx \in 0..(sh[1] - 1) /\ my \in 0..(sh[2] - 1)
  BY PairIs
<1>3. m = sh[1] * my + mx
  BY DEF BlockOf
<1> HIDE DEF mx, my, m
<1>4. sh[1] * my \in Nat /\ my * sh[1] = sh[1] * my
  BY <1>1, <1>2, Products
<1>5. m \in Nat /\ m % sh[1] = mx /\ m \div sh[1] = my
  <2>1. m \in Nat
    BY <1>1, <1>2, <1>3, <1>4
  <2>2. my \in Nat
    BY <1>1, <1>2
  <2>3. QED
    BY <1>1, <1>2, <1>3, <2>1, <2>2, Divided
<1>6. my * sh[1] + mx + 1 <= sh[2] * sh[1]
  BY <1>1, <1>2, InRow
<1>7. sh[1] * sh[2] \in Nat /\ sh[2] * sh[1] = sh[1] * sh[2]
  BY <1>1, Products
<1>8. QED
  BY <1>3, <1>4, <1>5, <1>6, <1>7 DEF m, mx, my

\* Pixels of their own have places of their own.
LEMMA PlaceIs ==
  ASSUME NEW sh \in Sizes, NEW b \in Nat, NEW p \in Pairs(sh)
  PROVE  LET off == PlaceOf(sh, b, p) - b IN
         off \div (32 * sh[1]) = p[2] /\ (off % (32 * sh[1])) \div 2 = p[1]
<1> DEFINE pitch == 32 * sh[1]
           off == PlaceOf(sh, b, p) - b
<1>1. sh[1] \in Nat \ {0} /\ pitch \in Nat \ {0}
  BY DEF Sizes
<1>2. p[1] \in Nat /\ p[2] \in Nat /\ 2 * p[1] \in 0..(pitch - 1)
  BY <1>1, PairIs
<1>3. PlaceOf(sh, b, p) = b + pitch * p[2] + 2 * p[1]
  BY DEF PlaceOf
<1> HIDE DEF pitch
<1>4. pitch * p[2] \in Nat
  BY <1>1, <1>2, Products
<1>5. off \in Nat /\ off = pitch * p[2] + 2 * p[1]
  BY <1>2, <1>3, <1>4
<1> HIDE DEF off
<1>6. off \div pitch = p[2] /\ off % pitch = 2 * p[1]
  BY <1>1, <1>2, <1>5, Divided
<1>7. QED
  BY <1>2, <1>6 DEF off, pitch

LEMMA PlacesDiffer ==
  ASSUME NEW sh \in Sizes, NEW b \in Nat, NEW p \in Pairs(sh), NEW q \in Pairs(sh),
         PlaceOf(sh, b, p) = PlaceOf(sh, b, q)
  PROVE  p = q
<1>1. p[1] = q[1] /\ p[2] = q[2]
  BY PlaceIs
<1>2. QED
  BY <1>1, PairIs

\* What the converter writes for macroblock m, sent as number K.
Sequel(K, n) == [i \in 0..(n - 1) |-> 384 * K + i]

PairsOf(sh, m) == {p \in Pairs(sh) : BlockOf(sh, p) = m}
DrawnAs(sh, b, m, K, tx) ==
  /\ DOMAIN tx = {PlaceOf(sh, b, p) : p \in PairsOf(sh, m)}
  /\ \A p \in PairsOf(sh, m) : tx[PlaceOf(sh, b, p)] = WordFrom(384 * K, p[1] % 16, p[2] % 16)

LEMMA WrittenIs ==
  ASSUME shape \in Sizes, base \in Nat, NEW K \in Nat, NEW m \in 0..(shape[1] * shape[2] - 1)
  PROVE  DrawnAs(shape, base, m, K, Yuv!Written(m, Sequel(K, 384)))
<1> DEFINE mb == Sequel(K, 384)
           new == Yuv!Written(m, mb)
           Block == {p \in Pairs(shape) : BlockOf(shape, p) = m}
           mbx == m % shape[1]
           mby == (m \div shape[1]) % shape[2]
           pitch == 32 * shape[1]
           At(row, x) == base + (16 * mby + row) * pitch + 2 * (16 * mbx + x)
           Word(row, x) == LET c == 8 * (row \div 2) + (x \div 2) IN
                           <<mb[c], mb[Yuv!Luma(x, row)], mb[64 + c], mb[Yuv!Luma(x + 1, row)]>>
           Within == {<<row, 2 * k>> : row \in 0..15, k \in 0..7}
           Ats == {At(p[1], p[2]) : p \in Within}
           Y(a) == ((a - base) \div pitch) - 16 * mby
           X(a) == (((a - base) % pitch) \div 2) - 16 * mbx
<1>1. new = [a \in Ats |-> Word(Y(a), X(a))]
  BY DEF Yuv!Written
<1>2. shape[1] \in Nat \ {0} /\ shape[2] \in Nat \ {0} /\ shape[1] * shape[2] \in Nat
  <2>1. shape[1] \in Nat \ {0} /\ shape[2] \in Nat \ {0}
    BY DEF Sizes
  <2>2. QED
    BY <2>1, Products
<1>3. /\ mbx \in 0..(shape[1] - 1) /\ mby \in 0..(shape[2] - 1)
      /\ m = shape[1] * mby + mbx
  <2> DEFINE q == m \div shape[1]
  <2>1. m \in Nat /\ m < shape[1] * shape[2]
    BY <1>2
  <2>2. q \in Nat /\ mbx \in 0..(shape[1] - 1) /\ m = shape[1] * q + mbx
    BY <1>2, <2>1, Division
  <2> HIDE DEF q, mbx
  <2>3. q < shape[2]
    <3>1. SUFFICES ASSUME shape[2] <= q PROVE FALSE
      BY <1>2, <2>2
    <3>2. shape[1] * shape[2] <= shape[1] * q
      BY <1>2, <2>2, <3>1, Grow
    <3>3. shape[1] * q \in Nat
      BY <1>2, <2>2, Products
    <3>4. QED
      BY <1>2, <2>1, <2>2, <3>2, <3>3
  <2>4. mby = q
    <3>1. q % shape[2] = q
      BY <1>2, <2>2, <2>3, Small
    <3>2. QED
      BY <3>1 DEF q
  <2> HIDE DEF mby
  <2>5. mby \in 0..(shape[2] - 1)
    BY <1>2, <2>2, <2>3, <2>4
  <2>6. m = shape[1] * mby + mbx
    BY <2>2, <2>4
  <2>7. QED
    BY <2>2, <2>5, <2>6
<1>4. ASSUME NEW p \in Block
      PROVE  /\ p[1] \div 16 = mbx /\ p[2] \div 16 = mby
             /\ PlaceOf(shape, base, p) = At(p[2] % 16, p[1] % 16)
  <2>1. p[1] \div 16 = mbx
    BY BlockIs
  <2>2. p[2] \div 16 = mby
    <3>1. m \div shape[1] = p[2] \div 16
      BY BlockIs
    <3>2. p[2] \div 16 \in 0..(shape[2] - 1)
      BY PairIs
    <3>3. QED
      BY <1>2, <3>1, <3>2
  <2>3. p[1] = 16 * mbx + (p[1] % 16) /\ p[2] = 16 * mby + (p[2] % 16) /\ p[2] \in Nat
    BY <2>1, <2>2, PairIs
  <2>4. pitch * p[2] = p[2] * pitch
    BY <1>2, <2>3, Products
  <2> HIDE DEF mbx, mby, pitch
  <2>5. PlaceOf(shape, base, p) = base + pitch * p[2] + 2 * p[1]
    BY DEF PlaceOf, pitch
  <2>6. PlaceOf(shape, base, p) = base + p[2] * pitch + 2 * p[1]
    BY <2>4, <2>5
  <2>7. QED
    BY <2>1, <2>2, <2>3, <2>6
<1>5. ASSUME NEW p \in Block PROVE PlaceOf(shape, base, p) \in Ats
  <2> DEFINE w == <<p[2] % 16, p[1] % 16>>
  <2>1. w \in Within
    <3>1. p[2] % 16 \in 0..15 /\ p[1] % 16 \in 0..15 /\ (p[1] % 16) % 2 = 0
      BY PairIs
    <3>2. \E k \in 0..7 : p[1] % 16 = 2 * k
      <4>1. (p[1] % 16) \div 2 \in 0..7 /\ p[1] % 16 = 2 * ((p[1] % 16) \div 2)
        BY <3>1
      <4>2. QED
        BY <4>1
    <3>3. QED
      BY <3>1, <3>2
  <2>2. PlaceOf(shape, base, p) = At(w[1], w[2])
    BY <1>4
  <2> HIDE DEF w, Within, At
  <2>3. QED
    BY <2>1, <2>2
<1>6. ASSUME NEW a \in Ats PROVE \E p \in Block : a = PlaceOf(shape, base, p)
  <2>1. PICK row \in 0..15, k \in 0..7 : a = At(row, 2 * k)
    OBVIOUS
  <2> DEFINE p == <<16 * mbx + 2 * k, 16 * mby + row>>
  <2>2. p \in Pairs(shape) /\ p[1] \div 16 = mbx /\ p[2] \div 16 = mby
    <3>1. 16 * mbx + 2 * k \in 0..(16 * shape[1] - 1) /\ 16 * mby + row \in 0..(16 * shape[2] - 1)
      BY <1>2, <1>3
    <3>2. mbx \in Nat /\ mby \in Nat
      BY <1>2, <1>3
    <3> HIDE DEF mbx, mby
    <3>3. /\ (16 * mbx + 2 * k) % 2 = 0 /\ (16 * mbx + 2 * k) \div 16 = mbx
          /\ (16 * mby + row) \div 16 = mby
      BY <3>2
    <3>4. QED
      BY <3>1, <3>3 DEF Pairs
  <2>3. BlockOf(shape, p) = m
    BY <1>3, <2>2 DEF BlockOf
  <2>4. p \in Block
    BY <2>2, <2>3
  <2>5. p[2] % 16 = row /\ p[1] % 16 = 2 * k
    <3>1. mbx \in Nat /\ mby \in Nat
      BY <1>2, <1>3
    <3> HIDE DEF mbx, mby
    <3>2. QED
      BY <3>1
  <2>6. a = PlaceOf(shape, base, p)
    BY <1>4, <2>1, <2>4, <2>5
  <2>7. QED
    BY <2>4, <2>6
<1>7. DOMAIN new = {PlaceOf(shape, base, p) : p \in Block}
  <2> HIDE DEF Ats, Block, Word, X, Y, new
  <2>1. DOMAIN new = Ats
    BY <1>1
  <2>2. QED
    BY <1>5, <1>6, <2>1
<1>8. ASSUME NEW p \in Block
      PROVE  new[PlaceOf(shape, base, p)] = WordFrom(384 * K, p[1] % 16, p[2] % 16)
  <2> DEFINE a == PlaceOf(shape, base, p)
             x == p[1] % 16
             y == p[2] % 16
  <2>1. (a - base) \div pitch = p[2] /\ ((a - base) % pitch) \div 2 = p[1]
    BY PlaceIs
  <2>2. x \in 0..14 /\ y \in 0..15 /\ p[1] = 16 * (p[1] \div 16) + x /\ p[2] = 16 * (p[2] \div 16) + y
    BY PairIs
  <2> HIDE DEF x, y
  <2>3. Y(a) = y /\ X(a) = x
    <3>1. p[1] \div 16 = mbx /\ p[2] \div 16 = mby /\ mbx \in Nat /\ mby \in Nat
      BY <1>2, <1>3, <1>4
    <3> HIDE DEF mbx, mby, pitch, a
    <3>2. p[2] - 16 * mby = y /\ p[1] - 16 * mbx = x
      BY <2>2, <3>1
    <3>3. QED
      BY <2>1, <3>2
  <2>4. a \in Ats
    BY <1>5
  <2> HIDE DEF a, X, Y, Ats
  <2>5. new[a] = Word(y, x)
    <3> HIDE DEF Word, new
    <3>1. new[a] = Word(Y(a), X(a))
      BY <1>1, <2>4
    <3>2. QED
      BY <2>3, <3>1
  <2> HIDE DEF new, mbx, mby, pitch
  <2> DEFINE c == 8 * (y \div 2) + (x \div 2)
  <2>6. /\ c \in 0..63 /\ 64 + c \in 0..383
        /\ Yuv!Luma(x, y) = LumaOf(x, y) /\ LumaOf(x, y) \in 0..383
        /\ Yuv!Luma(x + 1, y) = LumaOf(x + 1, y) /\ LumaOf(x + 1, y) \in 0..383
    BY <2>2 DEF Yuv!Luma, LumaOf
  <2>7. Word(y, x) = <<mb[c], mb[LumaOf(x, y)], mb[64 + c], mb[LumaOf(x + 1, y)]>>
    BY <2>6
  <2> HIDE DEF Word
  <2>8. ASSUME NEW i \in 0..383 PROVE mb[i] = 384 * K + i
    BY DEF Sequel
  <2> HIDE DEF mb, c
  <2>9. Word(y, x) = <<384 * K + c, 384 * K + LumaOf(x, y), 384 * K + (64 + c), 384 * K + LumaOf(x + 1, y)>>
    <3>1. mb[c] = 384 * K + c
      BY <2>6, <2>8
    <3>2. mb[64 + c] = 384 * K + (64 + c)
      BY <2>6, <2>8
    <3>3. mb[LumaOf(x, y)] = 384 * K + LumaOf(x, y)
      BY <2>6, <2>8
    <3>4. mb[LumaOf(x + 1, y)] = 384 * K + LumaOf(x + 1, y)
      BY <2>6, <2>8
    <3>5. QED
      BY <2>7, <3>1, <3>2, <3>3, <3>4
  <2>10. /\ 384 * K + c = 384 * K + 8 * (y \div 2) + (x \div 2)
         /\ 384 * K + (64 + c) = 384 * K + 64 + 8 * (y \div 2) + (x \div 2)
    BY <2>2 DEF c
  <2>11. QED
    BY <2>5, <2>9, <2>10 DEF WordFrom, a, x, y
<1>9. QED
  <2> HIDE DEF new
  <2>1. DrawnAs(shape, base, m, K, new)
    BY <1>7, <1>8 DEF DrawnAs, PairsOf
  <2>2. QED
    BY <2>1 DEF new

\* The newest macroblock of a place is the one just sent, or the one it was.
LEMMA LatestIs ==
  ASSUME NEW sh \in Sizes, NEW m \in 0..(sh[1] * sh[2] - 1), NEW K \in Nat, sh[1] * sh[2] \in Nat \ {0}
  PROVE  /\ m = K % (sh[1] * sh[2]) => LatestOf(sh, m, K + 1) = 384 * K
         /\ m < K /\ m # K % (sh[1] * sh[2]) => LatestOf(sh, m, K + 1) = LatestOf(sh, m, K)
<1> DEFINE T == sh[1] * sh[2]
<1>1. T \in Nat \ {0} /\ m \in 0..(T - 1)
  OBVIOUS
<1>2. (K + 1) - 1 - m = K - m /\ K - 1 - m = (K - m) - 1
  BY <1>1
<1>3. /\ LatestOf(sh, m, K + 1) = 384 * (m + T * (((K + 1) - 1 - m) \div T))
      /\ LatestOf(sh, m, K) = 384 * (m + T * ((K - 1 - m) \div T))
  BY DEF LatestOf
<1> HIDE DEF T
<1>4. ASSUME m = K % T PROVE LatestOf(sh, m, K + 1) = 384 * K
  <2> DEFINE q == K \div T
  <2>1. q \in Nat /\ K = T * q + m
    BY <1>1, <1>4, Division
  <2> HIDE DEF q
  <2>2. T * q \in Nat /\ K - m = T * q + 0 /\ 0 \in 0..(T - 1)
    BY <1>1, <2>1, Products
  <2>3. (K - m) \div T = q
    <3>1. K - m \in Nat
      BY <2>2
    <3>2. QED
      BY <1>1, <2>1, <2>2, <3>1, Divided
  <2>4. QED
    BY <1>1, <1>2, <1>3, <2>1, <2>2, <2>3
<1>5. ASSUME m < K, m # K % T PROVE LatestOf(sh, m, K + 1) = LatestOf(sh, m, K)
  <2> DEFINE n == K - m
             q == n \div T
             l == n % T
  <2>1. n \in Nat \ {0}
    BY <1>1, <1>5
  <2>2. q \in Nat /\ l \in 0..(T - 1) /\ n = T * q + l
    BY <1>1, <2>1, Division
  <2> HIDE DEF q, l
  <2>3. T * q \in Nat
    BY <1>1, <2>2, Products
  <2>4. l # 0
    <3>1. SUFFICES ASSUME l = 0 PROVE FALSE
      OBVIOUS
    <3>2. K = T * q + m
      BY <1>1, <2>1, <2>2, <2>3, <3>1
    <3>3. QED
      BY <1>1, <1>5, <2>2, <3>2, Divided
  <2>5. n - 1 = T * q + (l - 1) /\ l - 1 \in 0..(T - 1) /\ n - 1 \in Nat
    BY <1>1, <2>1, <2>2, <2>3, <2>4
  <2> HIDE DEF n
  <2>6. (n - 1) \div T = q
    BY <1>1, <2>2, <2>5, Divided
  <2>7. n \div T = q
    BY DEF q
  <2>8. QED
    BY <1>2, <1>3, <2>6, <2>7 DEF n
<1>6. QED
  BY <1>4, <1>5 DEF T

LEMMA LatestIsNat ==
  ASSUME NEW sh \in Sizes, NEW p \in Pairs(sh), NEW K \in Nat, BlockOf(sh, p) < K
  PROVE  LatestOf(sh, BlockOf(sh, p), K) \in Nat
<1> DEFINE T == sh[1] * sh[2]
           m == BlockOf(sh, p)
           q == (K - 1 - m) \div T
<1>1. T \in Nat \ {0} /\ m \in 0..(T - 1)
  BY BlockIs
<1> HIDE DEF T, m
<1>2. m \in Nat /\ K - 1 - m \in Nat
  BY <1>1 DEF m
<1>3. q \in Nat
  BY <1>1, <1>2, Division
<1> HIDE DEF q
<1>4. T * q \in Nat
  BY <1>1, <1>3, Products
<1>5. LatestOf(sh, m, K) = 384 * (m + T * q)
  BY DEF LatestOf, T, q
<1>6. QED
  BY <1>2, <1>4, <1>5 DEF m

LEMMA PictureGrows ==
  ASSUME shape \in Sizes, base \in Nat, NEW K \in Nat, NEW tx, PictureOf(shape, base, tx, K),
         NEW new, new = Yuv!Written(K % (shape[1] * shape[2]), Sequel(K, 384))
  PROVE  PictureOf(shape, base,
                   [a \in DOMAIN tx \cup DOMAIN new |-> IF a \in DOMAIN new THEN new[a] ELSE tx[a]],
                   K + 1)
<1> DEFINE T == shape[1] * shape[2]
           m == K % T
           tx2 == [a \in DOMAIN tx \cup DOMAIN new |-> IF a \in DOMAIN new THEN new[a] ELSE tx[a]]
           Block == {p \in Pairs(shape) : BlockOf(shape, p) = m}
           Place(p) == PlaceOf(shape, base, p)
<1>1. T \in Nat \ {0}
  <2>1. shape[1] \in Nat \ {0} /\ shape[2] \in Nat \ {0}
    BY DEF Sizes
  <2>2. QED
    BY <2>1
<1>2. m \in 0..(T - 1) /\ m <= K
  BY <1>1
<1>3. /\ DOMAIN new = {Place(p) : p \in Block}
      /\ \A p \in Block : new[Place(p)] = WordFrom(384 * K, p[1] % 16, p[2] % 16)
  <2>1. m \in 0..(shape[1] * shape[2] - 1)
    BY <1>2 DEF T
  <2>2. DrawnAs(shape, base, m, K, new)
    BY <2>1, WrittenIs
  <2>3. QED
    BY <2>2 DEF DrawnAs, PairsOf
<1>4. ASSUME NEW p \in Pairs(shape) PROVE BlockOf(shape, p) \in 0..(T - 1)
  BY BlockIs
<1> HIDE DEF T
<1>5. SentOf(shape, K + 1) = SentOf(shape, K) \cup Block
  <2>1. ASSUME NEW p \in Pairs(shape), BlockOf(shape, p) < K + 1, ~(BlockOf(shape, p) < K)
        PROVE  BlockOf(shape, p) = m
    <3>1. BlockOf(shape, p) = K
      BY <1>4, <2>1
    <3>2. K < T
      BY <1>1, <1>4, <3>1
    <3>3. QED
      BY <1>1, <3>1, <3>2, Small
  <2>2. ASSUME NEW p \in Pairs(shape), BlockOf(shape, p) = m PROVE BlockOf(shape, p) < K + 1
    <3> HIDE DEF m
    <3>1. QED
      BY <1>1, <1>2, <2>2
  <2>3. ASSUME NEW p \in Pairs(shape), BlockOf(shape, p) < K PROVE BlockOf(shape, p) < K + 1
    BY <1>1, <1>4, <2>3
  <2> HIDE DEF m
  <2>4. QED
    BY <2>1, <2>2, <2>3 DEF SentOf
<1>6. /\ DOMAIN tx = {Place(p) : p \in SentOf(shape, K)}
      /\ \A p \in SentOf(shape, K) : tx[Place(p)] = WordOf(shape, p, K)
  BY DEF PictureOf
<1>7. DOMAIN tx2 = {Place(p) : p \in SentOf(shape, K + 1)}
  <2>1. DOMAIN tx2 = DOMAIN tx \cup DOMAIN new
    OBVIOUS
  <2> HIDE DEF tx2, Block, Place
  <2>2. QED
    BY <1>3, <1>5, <1>6, <2>1
<1>8. ASSUME NEW p \in SentOf(shape, K + 1) PROVE tx2[Place(p)] = WordOf(shape, p, K + 1)
  <2>1. p \in Pairs(shape)
    BY DEF SentOf
  <2>2. CASE p \in Block
    <3>1. tx2[Place(p)] = new[Place(p)]
      BY <1>3, <2>2
    <3>2. LatestOf(shape, BlockOf(shape, p), K + 1) = 384 * K
      BY <1>1, <1>4, <2>1, <2>2, LatestIs DEF T
    <3>3. QED
      BY <1>3, <2>2, <3>1, <3>2 DEF WordOf
  <2>3. CASE p \notin Block
    <3>1. p \in SentOf(shape, K) /\ BlockOf(shape, p) < K /\ BlockOf(shape, p) # m
      <4>1. p \in SentOf(shape, K)
        BY <1>5, <2>3
      <4>2. QED
        BY <2>1, <2>3, <4>1 DEF SentOf
    <3>2. Place(p) \notin DOMAIN new
      <4>1. SUFFICES ASSUME NEW q \in Block, Place(p) = Place(q) PROVE FALSE
        BY <1>3
      <4>2. p = q
        BY <2>1, <4>1, PlacesDiffer
      <4>3. QED
        BY <2>3, <4>2
    <3>3. Place(p) \in DOMAIN tx
      BY <1>6, <3>1
    <3>4. tx2[Place(p)] = tx[Place(p)]
      BY <3>2, <3>3
    <3>5. LatestOf(shape, BlockOf(shape, p), K + 1) = LatestOf(shape, BlockOf(shape, p), K)
      BY <1>1, <1>4, <2>1, <3>1, LatestIs DEF T
    <3>6. QED
      BY <1>6, <3>1, <3>4, <3>5 DEF WordOf
  <2>4. QED
    BY <2>2, <2>3
<1>9. QED
  BY <1>7, <1>8 DEF PictureOf

--------------------------------------------------------------------------------
\* K whole macroblocks have arrived, and so much of the next.
YuvAt(K) ==
  /\ sent = 384 * K + fill /\ fill \in 0..383
  /\ index = K % (shape[1] * shape[2])
  /\ bytes = Sequel(K, fill)
  /\ PictureOf(shape, base, texels, K)
YuvInv == shape \in Sizes /\ base \in Nat /\ \E K \in Nat : YuvAt(K)

LEMMA NothingSent ==
  ASSUME NEW sh \in Sizes, NEW b \in Nat
  PROVE  /\ PictureOf(sh, b, Yuv!NoTexels, 0) /\ Yuv!Nothing = Sequel(0, 0)
         /\ 0 % (sh[1] * sh[2]) = 0
<1>1. SentOf(sh, 0) = {}
  <2>1. \A p \in Pairs(sh) : BlockOf(sh, p) \in Nat
    <3>1. ASSUME NEW p \in Pairs(sh) PROVE BlockOf(sh, p) \in Nat
      <4>1. BlockOf(sh, p) \in 0..(sh[1] * sh[2] - 1)
        BY BlockIs
      <4>2. QED
        BY <4>1
    <3>2. QED
      BY <3>1
  <2>2. QED
    BY <2>1 DEF SentOf
<1>2. PictureOf(sh, b, Yuv!NoTexels, 0)
  BY <1>1 DEF PictureOf, Yuv!NoTexels
<1>3. Yuv!Nothing = Sequel(0, 0)
  <2>1. 0..(0 - 1) = {}
    OBVIOUS
  <2>2. QED
    BY <2>1 DEF Yuv!Nothing, Sequel
<1>4. sh[1] \in Nat \ {0} /\ sh[2] \in Nat \ {0}
  BY DEF Sizes
<1>5. sh[1] * sh[2] \in Nat \ {0}
  BY <1>4
<1>6. 0 % (sh[1] * sh[2]) = 0
  BY <1>5, Small
<1>7. QED
  BY <1>2, <1>3, <1>6

LEMMA YuvBegins == ASSUME VideoAssumption, Yuv!Init PROVE YuvInv
<1>1. shape \in Sizes /\ base \in Nat
  BY DEF VideoAssumption, Yuv!Init, Sizes
<1>2. YuvAt(0)
  BY <1>1, NothingSent DEF YuvAt, Yuv!Init
<1>3. QED
  BY <1>1, <1>2 DEF YuvInv

LEMMA YuvRestarts ==
  ASSUME shape' \in Sizes, base' \in Nat, Yuv!Restart PROVE YuvInv'
<1>1. /\ PictureOf(shape', base', Yuv!NoTexels, 0) /\ Yuv!Nothing = Sequel(0, 0)
      /\ 0 % (shape'[1] * shape'[2]) = 0
  BY NothingSent
<1>2. /\ sent' = 0 /\ fill' = 0 /\ index' = 0 /\ bytes' = Sequel(0, 0)
      /\ texels' = Yuv!NoTexels
  BY <1>1 DEF Yuv!Restart
<1>3. YuvAt(0)'
  BY <1>1, <1>2 DEF YuvAt
<1>4. QED
  BY <1>3 DEF YuvInv

LEMMA YuvReceives ==
  ASSUME YuvInv, NEW n \in {1, 8}, Yuv!Words(n) PROVE YuvInv'
<1> DEFINE T == shape[1] * shape[2]
           filled == [i \in 0..(fill + 4 * n - 1) |-> IF i < fill THEN bytes[i] ELSE sent + i - fill]
           done == fill + 4 * n = 384
<1>1. PICK K \in Nat : YuvAt(K)
  BY DEF YuvInv
<1>2. shape \in Sizes /\ base \in Nat /\ shape' = shape /\ base' = base
  BY DEF YuvInv, Yuv!Words
<1>3. /\ fill + 4 * n <= 384 /\ sent' = sent + 4 * n
      /\ bytes' = IF done THEN Yuv!Nothing ELSE filled
      /\ fill' = IF done THEN 0 ELSE fill + 4 * n
      /\ done => /\ texels' = [a \in DOMAIN texels \cup DOMAIN Yuv!Written(index, filled) |->
                                 IF a \in DOMAIN Yuv!Written(index, filled)
                                   THEN Yuv!Written(index, filled)[a] ELSE texels[a]]
                 /\ index' = IF index + 1 >= T THEN 0 ELSE index + 1
      /\ ~done => UNCHANGED <<texels, index>>
  BY DEF Yuv!Words, Yuv!BlockSize, Yuv!Total
<1>4. /\ sent = 384 * K + fill /\ fill \in 0..383 /\ index = K % T /\ bytes = Sequel(K, fill)
      /\ PictureOf(shape, base, texels, K)
  BY <1>1 DEF YuvAt
<1>5. filled = Sequel(K, fill + 4 * n)
  <2> DEFINE last == fill + 4 * n - 1
             Byte(i) == IF i < fill THEN bytes[i] ELSE sent + i - fill
  <2>1. ASSUME NEW i \in 0..last PROVE Byte(i) = 384 * K + i
    <3>1. CASE i < fill
      <4>1. i \in 0..(fill - 1)
        BY <1>4, <2>1, <3>1
      <4>2. bytes[i] = 384 * K + i
        BY <1>4, <4>1 DEF Sequel
      <4>3. QED
        BY <3>1, <4>2
    <3>2. CASE ~(i < fill)
      BY <1>4, <2>1, <3>2
    <3>3. QED
      BY <3>1, <3>2
  <2>2. filled = [i \in 0..last |-> Byte(i)]
    OBVIOUS
  <2>3. last = (fill + 4 * n) - 1
    BY <1>4
  <2> HIDE DEF Byte, last, filled
  <2>4. filled = [i \in 0..last |-> 384 * K + i]
    BY <2>1, <2>2
  <2>5. QED
    BY <2>3, <2>4 DEF Sequel
<1>6. T \in Nat \ {0}
  <2>1. shape[1] \in Nat \ {0} /\ shape[2] \in Nat \ {0}
    BY <1>2 DEF Sizes
  <2>2. QED
    BY <2>1
<1> HIDE DEF filled
<1>7. CASE done
  <2>1. PictureOf(shape, base, texels', K + 1)
    <3> DEFINE new == Yuv!Written(index, filled)
    <3>1. new = Yuv!Written(K % T, Sequel(K, 384))
      BY <1>4, <1>5, <1>7
    <3> HIDE DEF new
    <3>2. texels' = [a \in DOMAIN texels \cup DOMAIN new |-> IF a \in DOMAIN new THEN new[a] ELSE texels[a]]
      BY <1>3, <1>7 DEF new
    <3>3. QED
      BY <1>2, <1>4, <3>1, <3>2, PictureGrows
  <2>2. bytes' = Sequel(K + 1, 0)
    <3>1. 0..(0 - 1) = {}
      OBVIOUS
    <3>2. QED
      BY <1>3, <1>7, <3>1 DEF Yuv!Nothing, Sequel
  <2>3. fill' = 0 /\ sent' = 384 * (K + 1) + fill'
    BY <1>3, <1>4, <1>7
  <2>4. index' = (K + 1) % T
    <3> HIDE DEF T
    <3>1. QED
      BY <1>3, <1>4, <1>6, <1>7, NextRemainder
  <2>5. YuvAt(K + 1)'
    BY <1>2, <2>1, <2>2, <2>3, <2>4 DEF YuvAt
  <2>6. K + 1 \in Nat
    OBVIOUS
  <2>7. QED
    BY <1>2, <2>5, <2>6 DEF YuvInv
<1>8. CASE ~done
  <2>1. bytes' = Sequel(K, fill') /\ fill' \in 0..383 /\ sent' = 384 * K + fill'
    BY <1>3, <1>4, <1>5, <1>8
  <2>2. YuvAt(K)'
    BY <1>2, <1>3, <1>4, <1>8, <2>1 DEF YuvAt
  <2>3. QED
    BY <1>2, <2>2 DEF YuvInv
<1>9. QED
  BY <1>7, <1>8

LEMMA YuvContinues ==
  ASSUME VideoAssumption, YuvInv, [Yuv!Next]_(Yuv!vars) PROVE YuvInv'
<1>1. shape \in Sizes /\ base \in Nat
  BY DEF YuvInv
<1>2. ASSUME NEW b \in Bases, Yuv!WriteBase(b) PROVE YuvInv'
  <2>1. b \in Nat /\ base' = b /\ shape' = shape /\ Yuv!Restart
    BY <1>2 DEF VideoAssumption, Yuv!WriteBase
  <2>2. QED
    BY <1>1, <2>1, YuvRestarts
<1>3. ASSUME NEW s \in Shapes, Yuv!WriteCtrl(s) PROVE YuvInv'
  <2>1. s \in Sizes /\ shape' = s /\ base' = base /\ Yuv!Restart
    BY <1>3 DEF VideoAssumption, Yuv!WriteCtrl, Sizes
  <2>2. QED
    BY <1>1, <2>1, YuvRestarts
<1>4. CASE UNCHANGED Yuv!vars
  BY <1>4 DEF Yuv!vars, YuvInv, YuvAt
<1>5. QED
  BY <1>2, <1>3, <1>4, YuvReceives DEF Yuv!Next

LEMMA YuvShows == ASSUME YuvInv PROVE Yuv!PictureIsWhatWasSent
<1> DEFINE whole == sent \div 384
           T == shape[1] * shape[2]
           Newest(m) == 384 * (m + T * ((whole - 1 - m) \div T))
           Sample(X, Y) ==
             LET at == Newest(shape[1] * (Y \div 16) + (X \div 16))
                 x == X % 16
                 y == Y % 16
             IN [u |-> at + 8 * (y \div 2) + (x \div 2),
                 v |-> at + 64 + 8 * (y \div 2) + (x \div 2),
                 y |-> at + 128 + 128 * (y \div 8) + 64 * (x \div 8) + 8 * (y % 8) + (x % 8)]
           Sent == {p \in (0..(16 * shape[1] - 1)) \X (0..(16 * shape[2] - 1)) :
                      p[1] % 2 = 0 /\ shape[1] * (p[2] \div 16) + (p[1] \div 16) < whole}
           At(p) == base + 32 * shape[1] * p[2] + 2 * p[1]
<1>1. SUFFICES ASSUME fill = 0
               PROVE  /\ DOMAIN texels = {At(p) : p \in Sent}
                      /\ \A p \in Sent : LET l == Sample(p[1], p[2]) IN
                           texels[At(p)] = <<l.u, l.y, l.v, Sample(p[1] + 1, p[2]).y>>
  BY DEF Yuv!PictureIsWhatWasSent, Yuv!BlockSize, Yuv!Total
<1>2. PICK K \in Nat : YuvAt(K)
  BY DEF YuvInv
<1>3. whole = K
  BY <1>1, <1>2 DEF YuvAt
<1>4. shape \in Sizes /\ base \in Nat
  BY DEF YuvInv
<1>5. Sent = SentOf(shape, K) /\ \A p : At(p) = PlaceOf(shape, base, p)
  BY <1>3 DEF SentOf, Pairs, BlockOf, PlaceOf
<1>6. DOMAIN texels = {At(p) : p \in Sent} /\ \A p \in Sent : texels[At(p)] = WordOf(shape, p, K)
  BY <1>2, <1>5 DEF YuvAt, PictureOf
<1> HIDE DEF whole, At
<1>7. ASSUME NEW p \in Sent
      PROVE  LET l == Sample(p[1], p[2]) IN
             WordOf(shape, p, K) = <<l.u, l.y, l.v, Sample(p[1] + 1, p[2]).y>>
  <2> DEFINE at == Newest(shape[1] * (p[2] \div 16) + (p[1] \div 16))
             x == p[1] % 16
             y == p[2] % 16
  <2>1. p \in Pairs(shape)
    BY <1>5 DEF SentOf
  <2>2. /\ p[1] \in Nat /\ p[2] \in Nat /\ p[1] % 2 = 0
        /\ (p[1] + 1) \div 16 = p[1] \div 16 /\ (p[1] + 1) % 16 = (p[1] % 16) + 1
    <3>1. p[1] \in Nat /\ p[2] \in Nat /\ p[1] % 2 = 0
      BY <2>1, <1>4, PairIs
    <3>2. QED
      BY <3>1
  <2> HIDE DEF Sent
  <2>3. at = LatestOf(shape, BlockOf(shape, p), K)
    BY <1>3 DEF LatestOf, BlockOf
  <2>4. shape[1] * (p[2] \div 16) + ((p[1] + 1) \div 16) = shape[1] * (p[2] \div 16) + (p[1] \div 16)
    BY <2>2
  <2> DEFINE l == Sample(p[1], p[2])
             r == Sample(p[1] + 1, p[2])
  <2>5. /\ l.u = at + 8 * (y \div 2) + (x \div 2)
        /\ l.v = at + 64 + 8 * (y \div 2) + (x \div 2)
        /\ l.y = at + 128 + 128 * (y \div 8) + 64 * (x \div 8) + 8 * (y % 8) + (x % 8)
    OBVIOUS
  <2>6. r.y = at + 128 + 128 * (y \div 8) + 64 * ((x + 1) \div 8) + 8 * (y % 8) + ((x + 1) % 8)
    <3> DEFINE at2 == Newest(shape[1] * (p[2] \div 16) + ((p[1] + 1) \div 16))
    <3>1. r.y = at2 + 128 + 128 * (y \div 8) + 64 * (((p[1] + 1) % 16) \div 8) + 8 * (y % 8) + (((p[1] + 1) % 16) % 8)
      OBVIOUS
    <3> HIDE DEF Newest
    <3>2. at2 = at
      BY <2>4
    <3> HIDE DEF r, at, at2
    <3>3. QED
      BY <2>2, <3>1, <3>2
  <2> HIDE DEF l, r, Newest
  <2>7. at \in Nat
    <3>1. BlockOf(shape, p) < K
      BY <1>5 DEF SentOf
    <3> HIDE DEF at
    <3>2. QED
      BY <1>4, <2>1, <2>3, <3>1, LatestIsNat
  <2>8. x \in 0..15 /\ y \in 0..15
    BY <2>2
  <2> HIDE DEF at, x, y
  <2>9. l.y = at + LumaOf(x, y) /\ r.y = at + LumaOf(x + 1, y)
    BY <2>5, <2>6, <2>7, <2>8 DEF LumaOf
  <2>10. WordOf(shape, p, K) = <<l.u, l.y, l.v, r.y>>
    BY <2>3, <2>5, <2>9 DEF WordOf, WordFrom, x, y
  <2>11. QED
    BY <2>10 DEF l, r
<1>8. QED
  BY <1>6, <1>7

--------------------------------------------------------------------------------
(* Textures. *)

Grid(w, h) == (0..(w - 1)) \X (0..(h - 1))

\* A function whose values, over a texture, are all of 0 to M - 1, the last at the last corner.
Covers(f, w, h, M) ==
  /\ \A p \in Grid(w, h) : f[p] \in 0..(M - 1)
  /\ \A v \in 0..(M - 1) : \E p \in Grid(w, h) : f[p] = v
  /\ f[<<w - 1, h - 1>>] = M - 1

LEMMA CoversIs ==
  ASSUME NEW f, NEW w, NEW h, NEW M
  PROVE  Covers(f, w, h, M) <=>
           /\ \A x \in 0..(w - 1), y \in 0..(h - 1) : f[<<x, y>>] \in 0..(M - 1)
           /\ \A v \in 0..(M - 1) : \E x \in 0..(w - 1), y \in 0..(h - 1) : f[<<x, y>>] = v
           /\ f[<<w - 1, h - 1>>] = M - 1
<1> DEFINE X == 0..(w - 1)
           Y == 0..(h - 1)
           V == 0..(M - 1)
<1>1. Grid(w, h) = X \X Y
  BY DEF Grid
<1> HIDE DEF X, Y, V
<1>2. (\A p \in X \X Y : f[p] \in V) <=> (\A x \in X, y \in Y : f[<<x, y>>] \in V)
  OBVIOUS
<1>3. ASSUME NEW v PROVE (\E p \in X \X Y : f[p] = v) <=> (\E x \in X, y \in Y : f[<<x, y>>] = v)
  <2>1. ASSUME NEW p \in X \X Y, f[p] = v PROVE \E x \in X, y \in Y : f[<<x, y>>] = v
    <3>1. p[1] \in X /\ p[2] \in Y /\ p = <<p[1], p[2]>>
      OBVIOUS
    <3>2. QED
      BY <2>1, <3>1
  <2>2. ASSUME NEW x \in X, NEW y \in Y, f[<<x, y>>] = v PROVE \E p \in X \X Y : f[p] = v
    <3>1. <<x, y>> \in X \X Y
      OBVIOUS
    <3>2. QED
      BY <2>2, <3>1
  <2>3. QED
    BY <2>1, <2>2
<1>4. Covers(f, w, h, M) <=>
        /\ \A p \in X \X Y : f[p] \in V
        /\ \A v \in V : \E p \in X \X Y : f[p] = v
        /\ f[<<w - 1, h - 1>>] = M - 1
  BY <1>1 DEF Covers, V
<1>5. Covers(f, w, h, M) <=>
        /\ \A x \in X, y \in Y : f[<<x, y>>] \in V
        /\ \A v \in V : \E x \in X, y \in Y : f[<<x, y>>] = v
        /\ f[<<w - 1, h - 1>>] = M - 1
  BY <1>2, <1>3, <1>4
<1>6. QED
  BY <1>5 DEF X, Y, V

LEMMA UpToTen ==
  ASSUME NEW S, 0 \in S, \A k \in 0..9 : k \in S => k + 1 \in S PROVE \A k \in 0..10 : k \in S
  OBVIOUS

LEMMA Powers ==
  /\ Memory!TwoTo(0) = 1 /\ Memory!TwoTo(1) = 2 /\ Memory!TwoTo(2) = 4 /\ Memory!TwoTo(3) = 8
  /\ Memory!TwoTo(4) = 16 /\ Memory!TwoTo(5) = 32 /\ Memory!TwoTo(6) = 64 /\ Memory!TwoTo(7) = 128
  /\ Memory!TwoTo(8) = 256 /\ Memory!TwoTo(9) = 512 /\ Memory!TwoTo(10) = 1024
  BY DEF Memory!TwoTo

LEMMA PowersDouble ==
  /\ \A k \in 0..10 : Memory!TwoTo(k) \in Nat \ {0}
  /\ \A k \in 0..9 : Memory!TwoTo(k + 1) = 2 * Memory!TwoTo(k)
<1>1. ASSUME NEW k \in 0..10 PROVE Memory!TwoTo(k) \in Nat \ {0}
  <2>1. k \in {0, 1, 2, 3, 4, 5, 6, 7, 8, 9, 10}
    OBVIOUS
  <2>2. QED
    BY <2>1, Powers
<1>2. ASSUME NEW k \in 0..9 PROVE Memory!TwoTo(k + 1) = 2 * Memory!TwoTo(k)
  <2>1. k \in {0, 1, 2, 3, 4, 5, 6, 7, 8, 9}
    OBVIOUS
  <2>2. QED
    BY <2>1, Powers
<1>3. QED
  BY <1>1, <1>2

\* The larger is a multiple of the smaller, and the smaller is smaller.
LEMMA PowersDivide ==
  \A a \in 0..10, k \in 0..10 : k <= a => \E q \in Nat \ {0} : Memory!TwoTo(a) = Memory!TwoTo(k) * q
<1> DEFINE S == {d \in 0..10 : \A k \in 0..10 : k + d <= 10 =>
                   \E q \in Nat \ {0} : Memory!TwoTo(k + d) = Memory!TwoTo(k) * q}
<1>1. 0 \in S
  <2>1. ASSUME NEW k \in 0..10 PROVE Memory!TwoTo(k + 0) = Memory!TwoTo(k) * 1
    <3>1. Memory!TwoTo(k) \in Nat /\ k + 0 = k
      BY PowersDouble
    <3>2. QED
      BY <3>1
  <2>2. QED
    BY <2>1
<1>2. ASSUME NEW d \in 0..9, d \in S PROVE d + 1 \in S
  <2>1. ASSUME NEW k \in 0..10, k + (d + 1) <= 10
        PROVE  \E q \in Nat \ {0} : Memory!TwoTo(k + (d + 1)) = Memory!TwoTo(k) * q
    <3>1. PICK q \in Nat \ {0} : Memory!TwoTo(k + d) = Memory!TwoTo(k) * q
      BY <1>2, <2>1
    <3>2. k + d \in 0..9 /\ (k + d) + 1 = k + (d + 1)
      BY <2>1
    <3>3. Memory!TwoTo(k + (d + 1)) = 2 * (Memory!TwoTo(k) * q)
      BY <3>1, <3>2, PowersDouble
    <3>4. Memory!TwoTo(k) \in Nat
      BY PowersDouble
    <3>5. 2 * (Memory!TwoTo(k) * q) = Memory!TwoTo(k) * (2 * q) /\ 2 * q \in Nat \ {0}
      BY <3>4
    <3>6. QED
      BY <3>3, <3>5
  <2>2. QED
    BY <2>1
<1> HIDE DEF S
<1>3. \A d \in 0..10 : d \in S
  BY <1>1, <1>2, UpToTen
<1>4. ASSUME NEW a \in 0..10, NEW k \in 0..10, k <= a
      PROVE  \E q \in Nat \ {0} : Memory!TwoTo(a) = Memory!TwoTo(k) * q
  <2>1. a - k \in 0..10 /\ k + (a - k) = a /\ k + (a - k) <= 10
    BY <1>4
  <2>2. a - k \in S
    BY <1>3, <2>1
  <2>3. QED
    BY <2>1, <2>2 DEF S
<1>5. QED
  BY <1>4

LEMMA PowersGrow == \A a \in 0..10, k \in 0..10 : Memory!TwoTo(a) < Memory!TwoTo(k) <=> a < k
<1>1. SUFFICES ASSUME NEW a \in 0..10, NEW k \in 0..10 PROVE Memory!TwoTo(a) < Memory!TwoTo(k) <=> a < k
  OBVIOUS
<1>2. a \in {0, 1, 2, 3, 4, 5, 6, 7, 8, 9, 10} /\ k \in {0, 1, 2, 3, 4, 5, 6, 7, 8, 9, 10}
  OBVIOUS
<1>3. QED
  BY <1>2, Powers

--------------------------------------------------------------------------------
\* One more round of bits.
Places2 == Nat \X Nat
Woven(g) == [p \in Places2 |-> (p[2] % 2) + 2 * (p[1] % 2) + 4 * g[<<p[1] \div 2, p[2] \div 2>>]]

LEMMA Weave ==
  ASSUME NEW s \in Nat \ {0}, NEW g, Covers(g, s, s, s * s)
  PROVE  Covers(Woven(g), 2 * s, 2 * s, (2 * s) * (2 * s))
<1> DEFINE M == s * s
<1>1. M \in Nat \ {0} /\ (2 * s) * (2 * s) = 4 * M
  OBVIOUS
<1>2. \A p \in Grid(s, s) : g[p] \in 0..(M - 1)
  BY DEF Covers
<1>3. \A v \in 0..(M - 1) : \E p \in Grid(s, s) : g[p] = v
  BY DEF Covers
<1>4. g[<<s - 1, s - 1>>] = M - 1
  BY DEF Covers
<1> HIDE DEF M
<1>5. ASSUME NEW x \in 0..(2 * s - 1), NEW y \in 0..(2 * s - 1)
      PROVE  /\ Woven(g)[<<x, y>>] = (y % 2) + 2 * (x % 2) + 4 * g[<<x \div 2, y \div 2>>]
             /\ <<x \div 2, y \div 2>> \in Grid(s, s)
  <2>1. x \in Nat /\ y \in Nat /\ x \div 2 \in 0..(s - 1) /\ y \div 2 \in 0..(s - 1)
    OBVIOUS
  <2>2. <<x, y>> \in Places2
    BY <2>1 DEF Places2
  <2>3. QED
    BY <2>1, <2>2 DEF Woven, Grid
<1>6. ASSUME NEW p \in Grid(2 * s, 2 * s) PROVE Woven(g)[p] \in 0..(4 * M - 1)
  <2>1. PICK x \in 0..(2 * s - 1), y \in 0..(2 * s - 1) : p = <<x, y>>
    BY DEF Grid
  <2>2. g[<<x \div 2, y \div 2>>] \in 0..(M - 1)
    BY <1>2, <1>5
  <2>3. x % 2 \in 0..1 /\ y % 2 \in 0..1
    OBVIOUS
  <2>4. QED
    BY <1>1, <1>5, <2>1, <2>2, <2>3
<1>7. ASSUME NEW v \in 0..(4 * M - 1) PROVE \E p \in Grid(2 * s, 2 * s) : Woven(g)[p] = v
  <2>1. v \div 4 \in 0..(M - 1) /\ v = (v % 2) + 2 * ((v \div 2) % 2) + 4 * (v \div 4)
    BY <1>1
  <2>2. PICK q \in Grid(s, s) : g[q] = v \div 4
    BY <1>3, <2>1
  <2>3. PICK X \in 0..(s - 1), Y \in 0..(s - 1) : q = <<X, Y>>
    BY DEF Grid
  <2> DEFINE x == 2 * X + ((v \div 2) % 2)
             y == 2 * Y + (v % 2)
  <2>4. /\ x \in 0..(2 * s - 1) /\ y \in 0..(2 * s - 1) /\ x \div 2 = X /\ y \div 2 = Y
        /\ x % 2 = (v \div 2) % 2 /\ y % 2 = v % 2
    BY <1>1
  <2> HIDE DEF x, y
  <2>5. Woven(g)[<<x, y>>] = v
    BY <1>5, <2>1, <2>2, <2>3, <2>4
  <2>6. <<x, y>> \in Grid(2 * s, 2 * s)
    BY <2>4 DEF Grid
  <2>7. QED
    BY <2>5, <2>6
<1>8. Woven(g)[<<2 * s - 1, 2 * s - 1>>] = 4 * M - 1
  <2>1. /\ 2 * s - 1 \in 0..(2 * s - 1) /\ (2 * s - 1) \div 2 = s - 1 /\ (2 * s - 1) % 2 = 1
    OBVIOUS
  <2>2. Woven(g)[<<2 * s - 1, 2 * s - 1>>] = 1 + 2 * 1 + 4 * (M - 1)
    BY <1>4, <1>5, <2>1
  <2>3. QED
    BY <1>1, <2>2
<1>9. QED
  BY <1>1, <1>6, <1>7, <1>8 DEF Covers

\* The rounds of twiddle_index, which are one another's continuation.
BitsOf ==
  LET Bits[k \in 0..10] ==
        [p \in Nat \X Nat |->
           IF k = 0 THEN 0
           ELSE (p[2] % 2) + 2 * (p[1] % 2) + 4 * Bits[k - 1][<<p[1] \div 2, p[2] \div 2>>]]
  IN Bits

LEMMA BitsAre ==
  /\ BitsOf[0] = [p \in Places2 |-> 0]
  /\ \A k \in 0..9 : BitsOf[k + 1] = Woven(BitsOf[k])
<1> DEFINE Of(f, k) == [p \in Nat \X Nat |->
                          IF k = 0 THEN 0
                          ELSE (p[2] % 2) + 2 * (p[1] % 2) + 4 * f[k - 1][<<p[1] \div 2, p[2] \div 2>>]]
           S == {n \in 0..10 : \E f : f = [k \in 0..n |-> Of(f, k)]}
<1>1. 0 \in S
  <2> DEFINE f == [k \in 0..0 |-> [p \in Nat \X Nat |-> 0]]
  <2>1. \A k \in 0..0 : Of(f, k) = [p \in Nat \X Nat |-> 0]
    OBVIOUS
  <2> HIDE DEF Of
  <2>2. f = [k \in 0..0 |-> Of(f, k)]
    BY <2>1
  <2> HIDE DEF f
  <2>3. \E F : F = [k \in 0..0 |-> Of(F, k)]
    BY <2>2
  <2>4. QED
    BY <2>3
<1>2. ASSUME NEW n \in 0..9, n \in S PROVE n + 1 \in S
  <2>1. PICK f : f = [k \in 0..n |-> Of(f, k)]
    BY <1>2
  <2> DEFINE g == [k \in 0..(n + 1) |-> IF k = n + 1 THEN Of(f, k) ELSE f[k]]
  <2>2. ASSUME NEW k \in 0..(n + 1) PROVE Of(g, k) = Of(f, k)
    <3>1. CASE k = 0
      BY <3>1
    <3>2. CASE k # 0
      <4>1. k - 1 \in 0..(n + 1) /\ k - 1 # n + 1
        BY <3>2
      <4>2. g[k - 1] = f[k - 1]
        BY <4>1
      <4> HIDE DEF g
      <4>3. QED
        BY <4>2
    <3>3. QED
      BY <3>1, <3>2
  <2>3. ASSUME NEW k \in 0..(n + 1) PROVE g[k] = Of(g, k)
    <3>1. CASE k = n + 1
      BY <2>2, <3>1
    <3>2. CASE k # n + 1
      <4>1. k \in 0..n
        BY <3>2
      <4> HIDE DEF Of
      <4>2. f[k] = Of(f, k)
        BY <2>1, <4>1
      <4>3. QED
        BY <2>2, <3>2, <4>2
    <3>3. QED
      BY <3>1, <3>2
  <2>4. g = [k \in 0..(n + 1) |-> Of(g, k)]
    <3> HIDE DEF Of
    <3>1. g = [k \in 0..(n + 1) |-> g[k]]
      OBVIOUS
    <3> HIDE DEF g
    <3>2. QED
      BY <2>3, <3>1
  <2> HIDE DEF g
  <2>5. \E F : F = [k \in 0..(n + 1) |-> Of(F, k)]
    BY <2>4
  <2>6. n + 1 \in 0..10
    OBVIOUS
  <2> HIDE DEF Of
  <2>7. QED
    BY <2>5, <2>6
<1>3. \E f : f = [k \in 0..10 |-> Of(f, k)]
  <2> HIDE DEF Of
  <2>1. \A n \in 0..10 : n \in S
    <3> HIDE DEF S
    <3>1. QED
      BY <1>1, <1>2, UpToTen
  <2>2. QED
    BY <2>1
<1>4. BitsOf = [k \in 0..10 |-> Of(BitsOf, k)]
  BY <1>3 DEF BitsOf
<1>5. ASSUME NEW k \in 0..10 PROVE BitsOf[k] = Of(BitsOf, k)
  <2> HIDE DEF Of
  <2>1. QED
    BY <1>4
<1>6. BitsOf[0] = [p \in Places2 |-> 0]
  <2>1. Of(BitsOf, 0) = [p \in Nat \X Nat |-> 0]
    OBVIOUS
  <2> HIDE DEF Of
  <2>2. BitsOf[0] = Of(BitsOf, 0)
    BY <1>5
  <2>3. QED
    BY <2>1, <2>2 DEF Places2
<1>7. ASSUME NEW k \in 0..9 PROVE BitsOf[k + 1] = Woven(BitsOf[k])
  <2>1. k + 1 \in 0..10 /\ k + 1 # 0 /\ (k + 1) - 1 = k
    OBVIOUS
  <2>2. BitsOf[k + 1] = Of(BitsOf, k + 1)
    BY <1>5, <2>1
  <2>3. Of(BitsOf, k + 1) = Woven(BitsOf[k])
    BY <2>1 DEF Woven, Places2
  <2>4. QED
    BY <2>2, <2>3
<1>8. QED
  BY <1>6, <1>7

LEMMA BitsCover ==
  \A k \in 0..10 : Covers(BitsOf[k], Memory!TwoTo(k), Memory!TwoTo(k), Memory!TwoTo(k) * Memory!TwoTo(k))
<1> DEFINE S == {k \in 0..10 : Covers(BitsOf[k], Memory!TwoTo(k), Memory!TwoTo(k), Memory!TwoTo(k) * Memory!TwoTo(k))}
<1>1. 0 \in S
  <2>1. Grid(1, 1) = {<<0, 0>>} /\ <<0, 0>> \in Places2
    BY DEF Grid, Places2
  <2>2. BitsOf[0][<<0, 0>>] = 0
    BY <2>1, BitsAre
  <2>3. Covers(BitsOf[0], 1, 1, 1)
    BY <2>1, <2>2 DEF Covers
  <2>4. QED
    BY <2>3, Powers
<1>2. ASSUME NEW k \in 0..9, k \in S PROVE k + 1 \in S
  <2>1. Memory!TwoTo(k) \in Nat \ {0} /\ Memory!TwoTo(k + 1) = 2 * Memory!TwoTo(k)
    BY PowersDouble
  <2>2. Covers(BitsOf[k], Memory!TwoTo(k), Memory!TwoTo(k), Memory!TwoTo(k) * Memory!TwoTo(k))
    BY <1>2
  <2>3. BitsOf[k + 1] = Woven(BitsOf[k])
    BY BitsAre
  <2>4. Covers(BitsOf[k + 1], 2 * Memory!TwoTo(k), 2 * Memory!TwoTo(k), (2 * Memory!TwoTo(k)) * (2 * Memory!TwoTo(k)))
    BY <2>1, <2>2, <2>3, Weave
  <2>5. k + 1 \in 0..10
    OBVIOUS
  <2>6. QED
    BY <2>1, <2>4, <2>5
<1> HIDE DEF S
<1>3. \A k \in 0..10 : k \in S
  BY <1>1, <1>2, UpToTen
<1>4. QED
  BY <1>3 DEF S

--------------------------------------------------------------------------------
\* Places in rows of s.
LEMMA RowsOf ==
  ASSUME NEW s \in Nat \ {0}, NEW q \in Nat, NEW n \in 0..(s * q - 1)
  PROVE  n \in Nat /\ n \div s \in 0..(q - 1) /\ n % s \in 0..(s - 1) /\ n = s * (n \div s) + (n % s)
<1> DEFINE d == n \div s
           l == n % s
<1>1. s * q \in Nat /\ n \in Nat /\ n < s * q
  OBVIOUS
<1>2. d \in Nat /\ l \in 0..(s - 1) /\ n = s * d + l
  BY <1>1, Division
<1> HIDE DEF d, l
<1>3. d < q
  <2>1. SUFFICES ASSUME q <= d PROVE FALSE
    BY <1>2
  <2>2. s * q <= s * d /\ s * d \in Nat
    BY <1>2, <2>1, Grow, Products
  <2>3. QED
    BY <1>1, <1>2, <2>2
<1>4. QED
  BY <1>1, <1>2, <1>3 DEF d, l

LEMMA InRows ==
  ASSUME NEW s \in Nat \ {0}, NEW q \in Nat, NEW d \in 0..(q - 1), NEW l \in 0..(s - 1)
  PROVE  s * d + l \in 0..(s * q - 1) /\ (s * d + l) \div s = d /\ (s * d + l) % s = l
<1>1. d * s + l + 1 <= q * s
  BY InRow
<1>2. d * s = s * d /\ q * s = s * q /\ s * d \in Nat /\ s * q \in Nat
  BY Products
<1>3. s * d + l \in 0..(s * q - 1) /\ s * d + l \in Nat
  BY <1>1, <1>2
<1>4. (s * d + l) \div s = d /\ (s * d + l) % s = l
  <2> DEFINE n == s * d + l
  <2>1. n \in Nat /\ n = s * d + l /\ d \in Nat
    BY <1>3
  <2> HIDE DEF n
  <2>2. n \div s = d /\ n % s = l
    BY <2>1, Divided
  <2>3. QED
    BY <2>2 DEF n
<1>5. QED
  BY <1>3, <1>4

\* Squares one below the other, and next to one another.
LEMMA Stacked ==
  ASSUME NEW s \in Nat \ {0}, NEW q \in Nat \ {0}, NEW g, Covers(g, s, s, s * s), NEW f,
         \A x \in 0..(s - 1), y \in 0..(s * q - 1) :
           f[<<x, y>>] = g[<<x, y % s>>] + (s * s) * (y \div s)
  PROVE  Covers(f, s, s * q, (s * s) * q)
<1> DEFINE M == s * s
<1>1. M \in Nat \ {0}
  OBVIOUS
<1>2. /\ \A x \in 0..(s - 1), y \in 0..(s - 1) : g[<<x, y>>] \in 0..(M - 1)
      /\ \A v \in 0..(M - 1) : \E x \in 0..(s - 1), y \in 0..(s - 1) : g[<<x, y>>] = v
      /\ g[<<s - 1, s - 1>>] = M - 1
  BY CoversIs
<1>3. ASSUME NEW x \in 0..(s - 1), NEW y \in 0..(s * q - 1)
      PROVE  f[<<x, y>>] = g[<<x, y % s>>] + M * (y \div s)
  OBVIOUS
<1> HIDE DEF M
<1>4. ASSUME NEW x \in 0..(s - 1), NEW y \in 0..(s * q - 1) PROVE f[<<x, y>>] \in 0..(M * q - 1)
  <2>2. y \div s \in 0..(q - 1) /\ y % s \in 0..(s - 1)
    BY RowsOf
  <2>3. g[<<x, y % s>>] \in 0..(M - 1)
    BY <1>2, <2>2
  <2>4. M * (y \div s) + g[<<x, y % s>>] \in 0..(M * q - 1)
    BY <1>1, <2>2, <2>3, InRows
  <2>5. M * (y \div s) \in Nat
    BY <1>1, <2>2
  <2>6. f[<<x, y>>] = M * (y \div s) + g[<<x, y % s>>]
    BY <1>3, <2>3, <2>5
  <2>7. QED
    BY <2>4, <2>6
<1>5. ASSUME NEW v \in 0..(M * q - 1)
      PROVE  \E x \in 0..(s - 1), y \in 0..(s * q - 1) : f[<<x, y>>] = v
  <2>1. /\ v \div M \in 0..(q - 1) /\ v % M \in 0..(M - 1) /\ v = M * (v \div M) + (v % M)
    BY <1>1, RowsOf
  <2>2. PICK x \in 0..(s - 1), z \in 0..(s - 1) : g[<<x, z>>] = v % M
    BY <1>2, <2>1
  <2> DEFINE y == s * (v \div M) + z
  <2>3. y \in 0..(s * q - 1) /\ y \div s = v \div M /\ y % s = z
    BY <2>1, InRows
  <2> HIDE DEF y
  <2>4. f[<<x, y>>] = (v % M) + M * (v \div M)
    BY <1>3, <2>2, <2>3
  <2>5. M * (v \div M) \in Nat
    <3>1. v \div M \in Nat
      BY <2>1
    <3>2. QED
      BY <1>1, <3>1, Products
  <2>6. f[<<x, y>>] = v
    BY <2>1, <2>4, <2>5
  <2>7. QED
    BY <2>3, <2>6
<1>6. f[<<s - 1, s * q - 1>>] = M * q - 1
  <2>1. q - 1 \in 0..(q - 1) /\ s - 1 \in 0..(s - 1)
    OBVIOUS
  <2>2. s * (q - 1) + (s - 1) = s * q - 1 /\ M * (q - 1) + (M - 1) = M * q - 1
    <3>1. s * (q - 1) = s * q - s /\ s * q \in Nat
      OBVIOUS
    <3>2. M * (q - 1) = M * q - M /\ M * q \in Nat
      BY <1>1
    <3>3. QED
      BY <1>1, <3>1, <3>2
  <2>3. s * q - 1 \in 0..(s * q - 1) /\ (s * q - 1) \div s = q - 1 /\ (s * q - 1) % s = s - 1
    BY <2>1, <2>2, InRows
  <2>4. f[<<s - 1, s * q - 1>>] = (M - 1) + M * (q - 1)
    BY <1>2, <1>3, <2>1, <2>3
  <2>5. M * (q - 1) \in Nat
    BY <1>1
  <2>6. QED
    BY <1>1, <2>2, <2>4, <2>5
<1>7. QED
  <2>1. Covers(f, s, s * q, M * q)
    BY <1>4, <1>5, <1>6, CoversIs
  <2>2. QED
    BY <2>1 DEF M

LEMMA Flipped ==
  ASSUME NEW w, NEW h, NEW M, NEW f, NEW g, Covers(f, w, h, M),
         \A x \in 0..(w - 1), y \in 0..(h - 1) : g[<<y, x>>] = f[<<x, y>>],
         w - 1 \in 0..(w - 1), h - 1 \in 0..(h - 1)
  PROVE  Covers(g, h, w, M)
<1>1. /\ \A x \in 0..(w - 1), y \in 0..(h - 1) : f[<<x, y>>] \in 0..(M - 1)
      /\ \A v \in 0..(M - 1) : \E x \in 0..(w - 1), y \in 0..(h - 1) : f[<<x, y>>] = v
      /\ f[<<w - 1, h - 1>>] = M - 1
  BY CoversIs
<1>2. \A y \in 0..(h - 1), x \in 0..(w - 1) : g[<<y, x>>] \in 0..(M - 1)
  BY <1>1
<1>3. ASSUME NEW v \in 0..(M - 1)
      PROVE  \E y \in 0..(h - 1), x \in 0..(w - 1) : g[<<y, x>>] = v
  <2>1. PICK x \in 0..(w - 1), y \in 0..(h - 1) : f[<<x, y>>] = v
    BY <1>1
  <2>2. QED
    BY <2>1
<1>4. g[<<h - 1, w - 1>>] = M - 1
  BY <1>1
<1>5. QED
  BY <1>2, <1>3, <1>4, CoversIs

TwiddledOver(w, h) == [p \in Grid(w, h) |-> Memory!Twiddle(p[1], p[2], w, h)]

Twisted(k, s, x, y) == BitsOf[k][<<x % s, y % s>>] + s * s * (x \div s + y \div s)

LEMMA TwiddleIs ==
  ASSUME NEW a \in 0..10, NEW b \in 0..10, NEW x, NEW y, NEW k, k = IF a < b THEN a ELSE b,
         NEW s, s = Memory!TwoTo(k)
  PROVE  Memory!Twiddle(x, y, Memory!TwoTo(a), Memory!TwoTo(b)) = Twisted(k, s, x, y)
<1> DEFINE w == Memory!TwoTo(a)
           h == Memory!TwoTo(b)
           both == IF w < h THEN w ELSE h
           rounds == CHOOSE j \in 0..10 : Memory!TwoTo(j) = both
<1>1. both = Memory!TwoTo(k) /\ k \in 0..10
  BY PowersGrow
<1>2. ASSUME NEW j \in 0..10, Memory!TwoTo(j) = Memory!TwoTo(k) PROVE j = k
  <2>1. Memory!TwoTo(k) \in Nat
    BY <1>1, PowersDouble
  <2>2. ~(j < k) /\ ~(k < j)
    BY <1>1, <1>2, <2>1, PowersGrow
  <2>3. QED
    BY <1>1, <2>2
<1>3. rounds = k
  <2> HIDE DEF both
  <2>1. QED
    BY <1>1, <1>2
<1>4. Memory!Twiddle(x, y, w, h) = Twisted(rounds, both, x, y)
  BY DEF Memory!Twiddle, BitsOf, Twisted
<1> HIDE DEF rounds, both
<1>5. QED
  BY <1>1, <1>3, <1>4

LEMMA TwiddleCovers ==
  ASSUME NEW a \in 0..10, NEW b \in 0..10
  PROVE  LET w == Memory!TwoTo(a)
             h == Memory!TwoTo(b) IN Covers(TwiddledOver(w, h), w, h, w * h)
<1> DEFINE w == Memory!TwoTo(a)
           h == Memory!TwoTo(b)
           f == TwiddledOver(w, h)
<1>1. w \in Nat \ {0} /\ h \in Nat \ {0}
  BY PowersDouble
<1>2. ASSUME NEW x \in 0..(w - 1), NEW y \in 0..(h - 1)
      PROVE  f[<<x, y>>] = Memory!Twiddle(x, y, w, h)
  <2> HIDE DEF w, h
  <2>1. <<x, y>> \in Grid(w, h)
    BY DEF Grid
  <2>2. QED
    BY <2>1 DEF TwiddledOver
<1>3. CASE a < b
  <2>1. PICK q \in Nat \ {0} : h = w * q
    BY <1>3, PowersDivide
  <2>2. Covers(BitsOf[a], w, w, w * w)
    BY BitsCover
  <2>3. ASSUME NEW x \in 0..(w - 1), NEW y \in 0..(w * q - 1)
        PROVE  f[<<x, y>>] = BitsOf[a][<<x, y % w>>] + (w * w) * (y \div w)
    <3>1. f[<<x, y>>] = BitsOf[a][<<x % w, y % w>>] + w * w * (x \div w + y \div w)
      <4>1. Memory!Twiddle(x, y, w, h) = BitsOf[a][<<x % w, y % w>>] + w * w * (x \div w + y \div w)
        <5>1. Memory!Twiddle(x, y, Memory!TwoTo(a), Memory!TwoTo(b)) = Twisted(a, Memory!TwoTo(a), x, y)
          BY <1>3, TwiddleIs
        <5>2. QED
          BY <5>1 DEF Twisted
      <4>2. f[<<x, y>>] = Memory!Twiddle(x, y, w, h)
        BY <1>2, <2>1
      <4>3. QED
        BY <4>1, <4>2
    <3>2. x % w = x /\ x \div w = 0
      BY <1>1, Small
    <3>3. y \div w \in Nat
      <4>1. y \div w \in 0..(q - 1)
        BY <1>1, RowsOf
      <4>2. QED
        BY <4>1
    <3> HIDE DEF w, f
    <3>4. QED
      BY <3>1, <3>2, <3>3
  <2> HIDE DEF f, w, h
  <2>4. Covers(f, w, w * q, (w * w) * q)
    BY <1>1, <2>2, <2>3, Stacked
  <2>5. (w * w) * q = w * h
    BY <1>1, <2>1
  <2>6. QED
    BY <2>1, <2>4, <2>5 DEF f, w, h
<1>4. CASE ~(a < b)
  <2>1. PICK q \in Nat \ {0} : w = h * q
    BY <1>4, PowersDivide
  <2> DEFINE g == BitsOf[b]
             gt == [p \in Grid(h, h) |-> g[<<p[2], p[1]>>]]
             ft == [p \in Grid(h, w) |-> f[<<p[2], p[1]>>]]
  <2>2. Covers(g, h, h, h * h)
    BY BitsCover
  <2>3. ASSUME NEW x \in 0..(h - 1), NEW y \in 0..(h - 1) PROVE gt[<<y, x>>] = g[<<x, y>>]
    <3> HIDE DEF g, h
    <3>1. <<y, x>> \in Grid(h, h)
      BY DEF Grid
    <3>2. QED
      BY <3>1
  <2>4. ASSUME NEW x \in 0..(w - 1), NEW y \in 0..(h - 1) PROVE ft[<<y, x>>] = f[<<x, y>>]
    <3> HIDE DEF f, h, w
    <3>1. <<y, x>> \in Grid(h, w)
      BY DEF Grid
    <3>2. QED
      BY <3>1
  <2>5. ASSUME NEW x \in 0..(w - 1), NEW y \in 0..(h - 1)
        PROVE  f[<<x, y>>] = g[<<x % h, y>>] + (h * h) * (x \div h)
    <3>1. f[<<x, y>>] = g[<<x % h, y % h>>] + h * h * (x \div h + y \div h)
      <4>1. Memory!Twiddle(x, y, w, h) = g[<<x % h, y % h>>] + h * h * (x \div h + y \div h)
        <5>1. Memory!Twiddle(x, y, Memory!TwoTo(a), Memory!TwoTo(b)) = Twisted(b, Memory!TwoTo(b), x, y)
          BY <1>4, TwiddleIs
        <5>2. QED
          BY <5>1 DEF Twisted
      <4>2. f[<<x, y>>] = Memory!Twiddle(x, y, w, h)
        BY <1>2
      <4>3. QED
        BY <4>1, <4>2
    <3>2. y % h = y /\ y \div h = 0
      BY <1>1, Small
    <3>3. x \div h \in Nat
      <4>1. x \in 0..(h * q - 1)
        BY <2>1
      <4>2. x \div h \in 0..(q - 1)
        BY <1>1, <4>1, RowsOf
      <4>3. QED
        BY <4>2
    <3> HIDE DEF w, h, f, g
    <3>4. QED
      BY <3>1, <3>2, <3>3
  <2> HIDE DEF f, w, h, g, gt, ft
  <2>6. w - 1 \in 0..(w - 1) /\ h - 1 \in 0..(h - 1)
    BY <1>1
  <2>7. Covers(gt, h, h, h * h)
    BY <2>2, <2>3, <2>6, Flipped
  <2>8. ASSUME NEW x \in 0..(h - 1), NEW y \in 0..(h * q - 1)
        PROVE  ft[<<x, y>>] = gt[<<x, y % h>>] + (h * h) * (y \div h)
    <3>1. ft[<<x, y>>] = g[<<y % h, x>>] + (h * h) * (y \div h)
      BY <2>1, <2>4, <2>5
    <3>2. y % h \in 0..(h - 1)
      BY <1>1, RowsOf
    <3>3. QED
      BY <2>3, <3>1, <3>2
  <2>9. Covers(ft, h, h * q, (h * h) * q)
    BY <1>1, <2>7, <2>8, Stacked
  <2>10. (h * h) * q = w * h
    BY <1>1, <2>1
  <2>11. ASSUME NEW x \in 0..(h - 1), NEW y \in 0..(w - 1) PROVE f[<<y, x>>] = ft[<<x, y>>]
    BY <2>4
  <2>12. Covers(f, w, h, w * h)
    BY <2>1, <2>6, <2>9, <2>10, <2>11, Flipped
  <2>13. QED
    BY <2>12 DEF f, w, h
<1>5. QED
  BY <1>3, <1>4

LEMMA LinearCovers ==
  ASSUME NEW w \in Nat \ {0}, NEW h \in Nat \ {0}, NEW f,
         \A x \in 0..(w - 1), y \in 0..(h - 1) : f[<<x, y>>] = Memory!Linear(x, y, w)
  PROVE  Covers(f, w, h, w * h)
<1>1. ASSUME NEW x \in 0..(w - 1), NEW y \in 0..(h - 1) PROVE f[<<x, y>>] = w * y + x
  <2>1. f[<<x, y>>] = y * w + x
    BY DEF Memory!Linear
  <2>2. y * w = w * y
    BY Products
  <2>3. QED
    BY <2>1, <2>2
<1>2. ASSUME NEW x \in 0..(w - 1), NEW y \in 0..(h - 1) PROVE f[<<x, y>>] \in 0..(w * h - 1)
  BY <1>1, InRows
<1>3. ASSUME NEW v \in 0..(w * h - 1) PROVE \E x \in 0..(w - 1), y \in 0..(h - 1) : f[<<x, y>>] = v
  <2>1. v \div w \in 0..(h - 1) /\ v % w \in 0..(w - 1) /\ v = w * (v \div w) + (v % w)
    BY RowsOf
  <2>2. f[<<v % w, v \div w>>] = v
    BY <1>1, <2>1
  <2>3. QED
    BY <2>1, <2>2
<1>4. f[<<w - 1, h - 1>>] = w * h - 1
  <2>1. w - 1 \in 0..(w - 1) /\ h - 1 \in 0..(h - 1)
    OBVIOUS
  <2>2. w * (h - 1) = w * h - w /\ w * h \in Nat
    OBVIOUS
  <2>3. QED
    BY <1>1, <2>1, <2>2
<1>5. QED
  BY <1>2, <1>3, <1>4, CoversIs

\* Two places that share what is read.
LEMMA HalfOf ==
  ASSUME NEW w, NEW h, NEW M \in Nat \ {0}, NEW f, Covers(f, w, h, 2 * M), NEW g,
         w - 1 \in 0..(w - 1), h - 1 \in 0..(h - 1),
         \A x \in 0..(w - 1), y \in 0..(h - 1) : g[<<x, y>>] = f[<<x, y>>] \div 2
  PROVE  Covers(g, w, h, M)
<1>1. /\ \A x \in 0..(w - 1), y \in 0..(h - 1) : f[<<x, y>>] \in 0..(2 * M - 1)
      /\ \A v \in 0..(2 * M - 1) : \E x \in 0..(w - 1), y \in 0..(h - 1) : f[<<x, y>>] = v
      /\ f[<<w - 1, h - 1>>] = 2 * M - 1
  BY CoversIs
<1>2. ASSUME NEW x \in 0..(w - 1), NEW y \in 0..(h - 1) PROVE g[<<x, y>>] \in 0..(M - 1)
  <2>1. f[<<x, y>>] \in 0..(2 * M - 1) /\ g[<<x, y>>] = f[<<x, y>>] \div 2
    BY <1>1
  <2>2. QED
    BY <2>1
<1>3. ASSUME NEW v \in 0..(M - 1) PROVE \E x \in 0..(w - 1), y \in 0..(h - 1) : g[<<x, y>>] = v
  <2>1. 2 * v \in 0..(2 * M - 1) /\ (2 * v) \div 2 = v
    OBVIOUS
  <2>2. PICK x \in 0..(w - 1), y \in 0..(h - 1) : f[<<x, y>>] = 2 * v
    BY <1>1, <2>1
  <2>3. g[<<x, y>>] = v
    BY <2>1, <2>2
  <2>4. QED
    BY <2>3
<1>4. g[<<w - 1, h - 1>>] = M - 1
  <2>1. (2 * M - 1) \div 2 = M - 1
    OBVIOUS
  <2>2. g[<<w - 1, h - 1>>] = f[<<w - 1, h - 1>>] \div 2
    OBVIOUS
  <2>3. QED
    BY <1>1, <2>1, <2>2
<1>5. QED
  BY <1>2, <1>3, <1>4, CoversIs

LEMMA HalfAcross ==
  ASSUME NEW w \in Nat \ {0}, NEW h \in Nat \ {0}, NEW M, NEW f, Covers(f, w, h, M), NEW g,
         \A x \in 0..(2 * w - 1), y \in 0..(h - 1) : g[<<x, y>>] = f[<<x \div 2, y>>]
  PROVE  Covers(g, 2 * w, h, M)
<1>1. /\ \A x \in 0..(w - 1), y \in 0..(h - 1) : f[<<x, y>>] \in 0..(M - 1)
      /\ \A v \in 0..(M - 1) : \E x \in 0..(w - 1), y \in 0..(h - 1) : f[<<x, y>>] = v
      /\ f[<<w - 1, h - 1>>] = M - 1
  BY CoversIs
<1>2. ASSUME NEW x \in 0..(2 * w - 1), NEW y \in 0..(h - 1) PROVE g[<<x, y>>] \in 0..(M - 1)
  <2>1. x \div 2 \in 0..(w - 1)
    OBVIOUS
  <2>2. QED
    BY <1>1, <2>1
<1>3. ASSUME NEW v \in 0..(M - 1) PROVE \E x \in 0..(2 * w - 1), y \in 0..(h - 1) : g[<<x, y>>] = v
  <2>1. PICK x \in 0..(w - 1), y \in 0..(h - 1) : f[<<x, y>>] = v
    BY <1>1
  <2>2. 2 * x \in 0..(2 * w - 1) /\ (2 * x) \div 2 = x
    OBVIOUS
  <2>3. g[<<2 * x, y>>] = v
    BY <2>1, <2>2
  <2>4. QED
    BY <2>2, <2>3
<1>4. g[<<2 * w - 1, h - 1>>] = M - 1
  <2>1. /\ 2 * w - 1 \in 0..(2 * w - 1) /\ (2 * w - 1) \div 2 = w - 1 /\ h - 1 \in 0..(h - 1)
    OBVIOUS
  <2>2. g[<<2 * w - 1, h - 1>>] = f[<<(2 * w - 1) \div 2, h - 1>>]
    BY <2>1
  <2>3. QED
    BY <1>1, <2>1, <2>2
<1>5. QED
  BY <1>2, <1>3, <1>4, CoversIs

LEMMA HalfDown ==
  ASSUME NEW w \in Nat \ {0}, NEW h \in Nat \ {0}, NEW M, NEW f, Covers(f, w, h, M), NEW g,
         \A x \in 0..(w - 1), y \in 0..(2 * h - 1) : g[<<x, y>>] = f[<<x, y \div 2>>]
  PROVE  Covers(g, w, 2 * h, M)
<1>1. /\ \A x \in 0..(w - 1), y \in 0..(h - 1) : f[<<x, y>>] \in 0..(M - 1)
      /\ \A v \in 0..(M - 1) : \E x \in 0..(w - 1), y \in 0..(h - 1) : f[<<x, y>>] = v
      /\ f[<<w - 1, h - 1>>] = M - 1
  BY CoversIs
<1>2. ASSUME NEW x \in 0..(w - 1), NEW y \in 0..(2 * h - 1) PROVE g[<<x, y>>] \in 0..(M - 1)
  <2>1. y \div 2 \in 0..(h - 1)
    OBVIOUS
  <2>2. QED
    BY <1>1, <2>1
<1>3. ASSUME NEW v \in 0..(M - 1) PROVE \E x \in 0..(w - 1), y \in 0..(2 * h - 1) : g[<<x, y>>] = v
  <2>1. PICK x \in 0..(w - 1), y \in 0..(h - 1) : f[<<x, y>>] = v
    BY <1>1
  <2>2. 2 * y \in 0..(2 * h - 1) /\ (2 * y) \div 2 = y
    OBVIOUS
  <2>3. g[<<x, 2 * y>>] = v
    BY <2>1, <2>2
  <2>4. QED
    BY <2>2, <2>3
<1>4. g[<<w - 1, 2 * h - 1>>] = M - 1
  <2>1. /\ 2 * h - 1 \in 0..(2 * h - 1) /\ (2 * h - 1) \div 2 = h - 1 /\ w - 1 \in 0..(w - 1)
    OBVIOUS
  <2>2. g[<<w - 1, 2 * h - 1>>] = f[<<w - 1, (2 * h - 1) \div 2>>]
    BY <2>1
  <2>3. QED
    BY <1>1, <2>1, <2>2
<1>5. QED
  BY <1>2, <1>3, <1>4, CoversIs

IndexedBy(f, i, w, h) ==
  /\ Covers(f, w, h, w * h)
  /\ \A x \in 0..(w - 1), y \in 0..(h - 1) : f[<<x, y>>] = Memory!Index(i, x, y, w, h)

\* Either order of texels uses every place of the base level.
LEMMA IndexCovers ==
  ASSUME NEW i, NEW a \in 0..10, NEW b \in 0..10, NEW w, NEW h, w = Memory!TwoTo(a), h = Memory!TwoTo(b)
  PROVE  \E f : IndexedBy(f, i, w, h)
<1> DEFINE f == [p \in Grid(w, h) |-> Memory!Index(i, p[1], p[2], w, h)]
<1>1. ASSUME NEW x \in 0..(w - 1), NEW y \in 0..(h - 1) PROVE f[<<x, y>>] = Memory!Index(i, x, y, w, h)
  <2>1. <<x, y>> \in Grid(w, h)
    BY DEF Grid
  <2>2. QED
    BY <2>1
<1>2. CASE i.twiddled
  <2>1. f = TwiddledOver(w, h)
    BY <1>2 DEF TwiddledOver, Memory!Index
  <2> HIDE DEF f
  <2>2. Covers(f, w, h, w * h)
    BY <2>1, TwiddleCovers
  <2>3. IndexedBy(f, i, w, h)
    BY <1>1, <2>2 DEF IndexedBy
  <2>4. QED
    BY <2>3
<1>3. CASE ~i.twiddled
  <2>1. w \in Nat \ {0} /\ h \in Nat \ {0}
    BY PowersDouble
  <2>2. ASSUME NEW x \in 0..(w - 1), NEW y \in 0..(h - 1) PROVE f[<<x, y>>] = Memory!Linear(x, y, w)
    BY <1>1, <1>3 DEF Memory!Index
  <2> HIDE DEF f
  <2>3. Covers(f, w, h, w * h)
    BY <2>1, <2>2, LinearCovers
  <2>4. IndexedBy(f, i, w, h)
    BY <1>1, <2>3 DEF IndexedBy
  <2>5. QED
    BY <2>4
<1>4. QED
  BY <1>2, <1>3

--------------------------------------------------------------------------------
\* The bytes of the base level, with what is before it, and what the texture is taken to have.
Whole(i) == IF i.vq THEN 2048 + Memory!BaseOffset(i) + (i.width * i.height) \div 4
            ELSE Memory!BaseOffset(i) + Memory!Checked(i)

Sides == {8, 16, 32, 64, 128, 256, 512, 1024}
Formats == {"rgb", "yuv", "pal4", "pal8"}

LEMMA SideIs ==
  ASSUME NEW k \in 0..7
  PROVE  /\ Memory!TwoTo(k + 3) \in Sides /\ Memory!TwoTo(k + 3) = 2 * Memory!TwoTo(k + 2)
         /\ k + 3 \in 0..10 /\ k + 2 \in 0..10
<1>1. k \in {0, 1, 2, 3, 4, 5, 6, 7}
  OBVIOUS
<1>2. QED
  BY <1>1, Powers DEF Sides

\* The sums of squares that a chain has.
LEMMA ChainOfCodes ==
  ASSUME NEW i, i.width \in Sides, i.vq
  PROVE  /\ Memory!Levels(i) \in Nat
         /\ Memory!Levels(i) + 1 + (i.width * i.width) \div 4
              <= (i.width * i.width + (i.width * i.width) \div 3 + 3) \div 4
<1>1. \A n : Memory!LevelBytes(i, n) = n \div 4
  BY DEF Memory!LevelBytes
<1>2. QED
  BY <1>1 DEF Memory!Levels, Sides

LEMMA ChainOfNibbles ==
  ASSUME NEW i, i.width \in Sides, ~i.vq, i.format = "pal4"
  PROVE  /\ Memory!Levels(i) \in Nat
         /\ Memory!Levels(i) + 2 + (i.width * i.width) \div 2
              <= (i.width * i.width + (i.width * i.width) \div 3 + 3) \div 2
<1>1. \A n : Memory!LevelBytes(i, n) = n \div 2
  BY DEF Memory!LevelBytes
<1>2. QED
  BY <1>1 DEF Memory!Levels, Sides

LEMMA ChainOfBytes ==
  ASSUME NEW i, i.width \in Sides, ~i.vq, i.format = "pal8"
  PROVE  /\ Memory!Levels(i) \in Nat
         /\ Memory!Levels(i) + 3 + i.width * i.width
              <= i.width * i.width + (i.width * i.width) \div 3 + 3
<1>1. \A n : Memory!LevelBytes(i, n) = n
  BY DEF Memory!LevelBytes
<1>2. QED
  BY <1>1 DEF Memory!Levels, Sides

LEMMA ChainOfHalves ==
  ASSUME NEW i, i.width \in Sides, ~i.vq, i.format \notin Memory!Palettes
  PROVE  /\ Memory!Levels(i) \in Nat
         /\ Memory!Levels(i) + 6 + 2 * (i.width * i.width)
              <= 2 * (i.width * i.width + (i.width * i.width) \div 3 + 3)
         /\ (Memory!Levels(i) + 6 + 2 * (i.width * i.width)) % 8 = 0
<1>1. \A n : Memory!LevelBytes(i, n) = 2 * n
  BY DEF Memory!LevelBytes, Memory!Palettes
<1>2. QED
  BY <1>1 DEF Memory!Levels, Sides

LEMMA Room ==
  ASSUME NEW i, i.width \in Sides, i.height \in Sides, i.format \in Formats,
         i.mipmapped => i.width = i.height
  PROVE  /\ Memory!BaseOffset(i) \in Nat /\ Whole(i) \in Nat /\ Memory!SizeBytes(i) \in Nat
         /\ Whole(i) <= Memory!SizeBytes(i)
         /\ i.mipmapped => (i.vq \/ i.format \in Memory!Palettes \/ Whole(i) % 8 = 0)
<1> DEFINE M == i.width * i.height
<1>1. M \in Nat
  BY DEF Sides
<1>2. /\ i.vq => \A n : Memory!LevelBytes(i, n) = n \div 4
      /\ ~i.vq /\ i.format = "pal4" => \A n : Memory!LevelBytes(i, n) = n \div 2
      /\ ~i.vq /\ i.format = "pal8" => \A n : Memory!LevelBytes(i, n) = n
      /\ ~i.vq /\ i.format \notin Memory!Palettes => \A n : Memory!LevelBytes(i, n) = 2 * n
  BY DEF Memory!LevelBytes, Memory!Palettes
<1>3. i.format \in Memory!Palettes <=> i.format = "pal4" \/ i.format = "pal8"
  BY DEF Memory!Palettes
<1>4. CASE ~i.mipmapped
  <2>1. Memory!BaseOffset(i) = 0
    BY <1>4 DEF Memory!BaseOffset
  <2>2. Memory!SizeBytes(i) = IF i.vq THEN 2048 + M \div 4 ELSE Memory!LevelBytes(i, M)
    BY <1>4 DEF Memory!SizeBytes
  <2>3. Whole(i) = IF i.vq THEN 2048 + 0 + M \div 4 ELSE 0 + (IF i.vq THEN 0 ELSE Memory!LevelBytes(i, M))
    BY <2>1 DEF Whole, Memory!Checked
  <2> HIDE DEF M
  <2>4. QED
    BY <1>1, <1>2, <1>3, <1>4, <2>1, <2>2, <2>3
<1>5. CASE i.mipmapped
  <2> DEFINE T == M + M \div 3 + 3
  <2>1. M = i.width * i.width
    BY <1>5
  <2>2. Memory!SizeBytes(i) = IF i.vq THEN 2048 + T \div 4 ELSE Memory!LevelBytes(i, T)
    BY <1>5 DEF Memory!SizeBytes
  <2>3. Whole(i) = IF i.vq THEN 2048 + Memory!BaseOffset(i) + M \div 4
                   ELSE Memory!BaseOffset(i) + Memory!LevelBytes(i, M)
    BY DEF Whole, Memory!Checked
  <2>4. T = i.width * i.width + (i.width * i.width) \div 3 + 3
    BY <2>1
  <2>5. T \in Nat
    BY <1>1
  <2> HIDE DEF M, T
  <2>6. CASE i.vq
    <3>1. Memory!BaseOffset(i) = Memory!Levels(i) + 1
      BY <1>5, <2>6 DEF Memory!BaseOffset
    <3>2. Memory!Levels(i) \in Nat /\ Memory!Levels(i) + 1 + M \div 4 <= T \div 4
      BY <2>1, <2>4, <2>6, ChainOfCodes
    <3>3. M \div 4 \in Nat /\ T \div 4 \in Nat
      BY <1>1, <2>5
    <3>4. QED
      BY <2>2, <2>3, <2>6, <3>1, <3>2, <3>3
  <2>7. CASE ~i.vq /\ i.format = "pal4"
    <3>1. Memory!BaseOffset(i) = Memory!Levels(i) + 2
      BY <1>5, <2>7 DEF Memory!BaseOffset
    <3>2. Memory!Levels(i) \in Nat /\ Memory!Levels(i) + 2 + M \div 2 <= T \div 2
      BY <2>1, <2>4, <2>7, ChainOfNibbles
    <3>3. M \div 2 \in Nat /\ T \div 2 \in Nat
      BY <1>1, <2>5
    <3>4. QED
      BY <1>2, <1>3, <2>2, <2>3, <2>7, <3>1, <3>2, <3>3
  <2>8. CASE ~i.vq /\ i.format = "pal8"
    <3>1. Memory!BaseOffset(i) = Memory!Levels(i) + 3
      BY <1>5, <2>8 DEF Memory!BaseOffset
    <3>2. Memory!Levels(i) \in Nat /\ Memory!Levels(i) + 3 + M <= T
      BY <2>1, <2>4, <2>8, ChainOfBytes
    <3>3. QED
      BY <1>1, <1>2, <1>3, <2>2, <2>3, <2>5, <2>8, <3>1, <3>2
  <2>9. CASE ~i.vq /\ i.format \notin Memory!Palettes
    <3>1. Memory!BaseOffset(i) = Memory!Levels(i) + 6
      BY <1>3, <1>5, <2>9 DEF Memory!BaseOffset
    <3>2. /\ Memory!Levels(i) \in Nat /\ Memory!Levels(i) + 6 + 2 * M <= 2 * T
          /\ (Memory!Levels(i) + 6 + 2 * M) % 8 = 0
      BY <2>1, <2>4, <2>9, ChainOfHalves
    <3>3. QED
      BY <1>1, <1>2, <1>3, <2>2, <2>3, <2>5, <2>9, <3>1, <3>2
  <2>10. QED
    BY <1>3, <2>6, <2>7, <2>8, <2>9
<1>6. QED
  BY <1>4, <1>5

--------------------------------------------------------------------------------
\* A texture whose reads are of c bytes each, from the start of one of M pieces.
EndsOf(i) == {Memory!Read(i, p[1], p[2])[1] + Memory!Read(i, p[1], p[2])[2] : p \in Memory!Places(i)}
StartsOf(i) == {Memory!Read(i, p[1], p[2])[1] : p \in Memory!Places(i)}
ReadsPieces(i, A, c, M) ==
  /\ \A e \in EndsOf(i) : e \in Nat /\ e <= A + c * M
  /\ A + c * M \in EndsOf(i)
  /\ i.width <= Limit /\ i.height <= Limit => Memory!Cardinality(StartsOf(i)) = M

LEMMA Pieces ==
  ASSUME NEW A \in Nat, NEW c \in Nat \ {0}, NEW M \in Nat \ {0}
  PROVE  Cardinality({A + c * j : j \in 0..(M - 1)}) = M
<1> DEFINE S == 0..(M - 1)
           T == {A + c * j : j \in S}
           f == [j \in S |-> A + c * j]
<1>1. ASSUME NEW j \in S, NEW k \in S, A + c * j = A + c * k PROVE j = k
  <2>1. c * j \in Nat /\ c * k \in Nat
    OBVIOUS
  <2>2. c * j = c * k
    BY <1>1, <2>1
  <2>3. QED
    BY <2>2
<1> HIDE DEF S
<1>2. f \in [S -> T] /\ \A t \in T : \E j \in S : f[j] = t
  OBVIOUS
<1>3. \A j, k \in S : f[j] = f[k] => j = k
  BY <1>1
<1> HIDE DEF f, T
<1>4. f \in Bijection(S, T)
  BY <1>2, <1>3 DEF Bijection, Injection, Surjection, IsInjective
<1>5. ExistsBijection(S, T)
  BY <1>4 DEF ExistsBijection
<1>6. IsFiniteSet(S) /\ Cardinality(S) = M
  BY FS_Interval DEF S
<1>7. QED
  BY <1>5, <1>6, FS_Bijection DEF S, T

LEMMA ReadsAre ==
  ASSUME NEW i, i.width \in Nat \ {0}, i.height \in Nat \ {0},
         NEW A \in Nat, NEW c \in Nat \ {0}, NEW M \in Nat \ {0}, NEW f, Covers(f, i.width, i.height, M),
         \A x \in 0..(i.width - 1), y \in 0..(i.height - 1) : Memory!Read(i, x, y) = <<A + c * f[<<x, y>>], c>>
  PROVE  ReadsPieces(i, A, c, M)
<1> DEFINE w == i.width
           h == i.height
           G == Grid(w, h)
           Start(p) == Memory!Read(i, p[1], p[2])[1]
           End(p) == Memory!Read(i, p[1], p[2])[1] + Memory!Read(i, p[1], p[2])[2]
           corner == <<w - 1, h - 1>>
<1>1. /\ \A p \in G : f[p] \in 0..(M - 1)
      /\ \A v \in 0..(M - 1) : \E p \in G : f[p] = v
      /\ f[corner] = M - 1
  BY DEF Covers
<1>2. w - 1 \in 0..(w - 1) /\ h - 1 \in 0..(h - 1)
  OBVIOUS
<1>3. Memory!Places(i) \subseteq G /\ corner \in Memory!Places(i) /\ corner \in G
  BY <1>2 DEF Memory!Places, Memory!Corners, Grid
<1>4. ASSUME NEW p \in G PROVE Start(p) = A + c * f[p] /\ End(p) = A + c * f[p] + c
  <2>1. p = <<p[1], p[2]>> /\ p[1] \in 0..(w - 1) /\ p[2] \in 0..(h - 1)
    BY DEF Grid
  <2>2. Memory!Read(i, p[1], p[2]) = <<A + c * f[<<p[1], p[2]>>], c>>
    BY <2>1
  <2>3. QED
    BY <2>1, <2>2
<1> HIDE DEF corner, G, w, h
<1>5. ASSUME NEW j \in 0..(M - 1) PROVE A + c * j + c <= A + c * M /\ A + c * j + c \in Nat
  <2>1. c * j + c = c * (j + 1) /\ c * j \in Nat
    OBVIOUS
  <2>2. c * (j + 1) <= c * M
    BY Grow
  <2>3. c * M \in Nat
    OBVIOUS
  <2>4. QED
    BY <2>1, <2>2, <2>3
<1>6. \A e \in EndsOf(i) : e \in Nat /\ e <= A + c * M
  <2>1. ASSUME NEW p \in Memory!Places(i) PROVE End(p) \in Nat /\ End(p) <= A + c * M
    <3>1. p \in G /\ f[p] \in 0..(M - 1)
      BY <1>1, <1>3
    <3> HIDE DEF End, Start
    <3>2. QED
      BY <1>4, <1>5, <3>1
  <2>2. EndsOf(i) = {End(p) : p \in Memory!Places(i)}
    BY DEF EndsOf
  <2> HIDE DEF End
  <2>3. QED
    BY <2>1, <2>2
<1>7. A + c * M \in EndsOf(i)
  <2>1. EndsOf(i) = {End(p) : p \in Memory!Places(i)}
    BY DEF EndsOf
  <2>2. End(corner) = A + c * (M - 1) + c
    BY <1>1, <1>3, <1>4
  <2>3. A + c * (M - 1) + c = A + c * M
    <3>1. c * (M - 1) = c * M - c /\ c * M \in Nat
      OBVIOUS
    <3>2. QED
      BY <3>1
  <2> HIDE DEF End
  <2>4. QED
    BY <1>3, <2>1, <2>2, <2>3
<1>8. ASSUME i.width <= Limit, i.height <= Limit PROVE Memory!Cardinality(StartsOf(i)) = M
  <2>1. Memory!Places(i) = G
    BY <1>8 DEF Memory!Places, G, Grid, w, h
  <2>2. StartsOf(i) = {Start(p) : p \in G}
    BY <2>1 DEF StartsOf
  <2> HIDE DEF Start
  <2>3. StartsOf(i) = {A + c * j : j \in 0..(M - 1)}
    <3>1. ASSUME NEW p \in G PROVE \E j \in 0..(M - 1) : Start(p) = A + c * j
      BY <1>1, <1>4
    <3>2. ASSUME NEW j \in 0..(M - 1) PROVE \E p \in G : Start(p) = A + c * j
      <4>1. PICK p \in G : f[p] = j
        BY <1>1
      <4>2. QED
        BY <1>4, <4>1
    <3>3. QED
      BY <2>2, <3>1, <3>2
  <2>4. Cardinality(StartsOf(i)) = M
    <3> DEFINE T == {A + c * j : j \in 0..(M - 1)}
    <3>1. Cardinality(T) = M
      BY Pieces
    <3>2. StartsOf(i) = T
      BY <2>3
    <3> HIDE DEF T
    <3>3. QED
      BY <3>1, <3>2
  <2>5. QED
    BY <2>4 DEF Memory!Cardinality, Cardinality
<1>9. QED
  BY <1>6, <1>7, <1>8 DEF ReadsPieces


\* For every format there are such pieces, and they are what the level is taken to have.
PiecesOf(i) ==
  \E A \in Nat, c \in Nat \ {0}, M \in Nat \ {0} :
    /\ ReadsPieces(i, A, c, M) /\ Whole(i) = A + c * M
    /\ M * (CASE i.vq -> 4 [] ~i.vq /\ i.format \in {"pal4", "yuv"} -> 2 [] OTHER -> 1) = i.width * i.height

SizedBy(i, a, b) ==
  /\ a \in 0..10 /\ b \in 0..10 /\ a - 1 \in 0..10 /\ b - 1 \in 0..10
  /\ i.width = Memory!TwoTo(a) /\ i.height = Memory!TwoTo(b)
  /\ i.width = 2 * Memory!TwoTo(a - 1) /\ i.height = 2 * Memory!TwoTo(b - 1)
  /\ i.width \in Sides /\ i.height \in Sides /\ i.format \in Formats
  /\ i.mipmapped => i.width = i.height

ShareOf(i) == CASE i.vq -> 4 [] ~i.vq /\ i.format \in {"pal4", "yuv"} -> 2 [] OTHER -> 1

LEMMA PiecesFound ==
  ASSUME NEW i, NEW A \in Nat, NEW c \in Nat \ {0}, NEW M \in Nat \ {0},
         ReadsPieces(i, A, c, M), Whole(i) = A + c * M, M * ShareOf(i) = i.width * i.height
  PROVE  PiecesOf(i)
  BY DEF PiecesOf, ShareOf

LEMMA LevelIsIndexed ==
  ASSUME NEW i, NEW a, NEW b, SizedBy(i, a, b) PROVE \E f : IndexedBy(f, i, i.width, i.height)
  BY IndexCovers DEF SizedBy

LEMMA Halving ==
  ASSUME NEW w \in Nat \ {0}, NEW h \in Nat \ {0}, NEW W, NEW H, W = 2 * w, H = 2 * h
  PROVE  /\ (w * h) \in Nat \ {0} /\ W * H = 4 * (w * h) /\ W * H = 2 * (w * H) /\ (W * H) \div 4 = w * h
         /\ (W * H) \div 2 = w * H /\ (w * H) \in Nat \ {0} /\ W * H \in Nat \ {0}
         /\ W \div 2 = w /\ H \div 2 = h
<1>1. (w * h) \in Nat \ {0} /\ W * H = 4 * (w * h) /\ w * H = 2 * (w * h)
  OBVIOUS
<1> DEFINE m == w * h
           n == W * H
           o == w * H
<1>2. m \in Nat \ {0} /\ n = 4 * m /\ o = 2 * m
  BY <1>1
<1> HIDE DEF m, n, o
<1>3. n \div 4 = m /\ n \div 2 = o /\ n = 2 * o /\ n \in Nat \ {0} /\ o \in Nat \ {0}
  BY <1>2
<1>4. W \div 2 = w /\ H \div 2 = h
  OBVIOUS
<1>5. QED
  BY <1>2, <1>3, <1>4 DEF m, n, o

\* A codebook: a code for each square of four texels.
LEMMA CodesAreRead ==
  ASSUME NEW i, NEW a, NEW b, SizedBy(i, a, b), i.vq PROVE PiecesOf(i)
<1> DEFINE w == Memory!TwoTo(a - 1)
           h == Memory!TwoTo(b - 1)
           A == 2048 + Memory!BaseOffset(i)
           M == w * h
<1>1. /\ a - 1 \in 0..10 /\ b - 1 \in 0..10 /\ i.width = 2 * w /\ i.height = 2 * h
      /\ w \in Nat \ {0} /\ h \in Nat \ {0} /\ i.width \in Nat \ {0} /\ i.height \in Nat \ {0}
  BY PowersDouble DEF SizedBy
<1>2. Memory!BaseOffset(i) \in Nat
  BY Room DEF SizedBy
<1>3. PICK f : /\ Covers(f, w, h, w * h)
               /\ \A x \in 0..(w - 1), y \in 0..(h - 1) : f[<<x, y>>] = Memory!Index(i, x, y, w, h)
  <2>1. \E f : IndexedBy(f, i, w, h)
    BY <1>1, IndexCovers
  <2>2. QED
    BY <2>1 DEF IndexedBy
<1>4. Covers(f, w, h, M) /\ M \in Nat \ {0}
  BY <1>1, <1>3
<1> HIDE DEF w, h, M
<1> DEFINE g == [p \in Grid(w, 2 * h) |-> f[<<p[1], p[2] \div 2>>]]
           k == [p \in Grid(2 * w, 2 * h) |-> g[<<p[1] \div 2, p[2]>>]]
<1>5. ASSUME NEW x \in 0..(w - 1), NEW y \in 0..(2 * h - 1) PROVE g[<<x, y>>] = f[<<x, y \div 2>>]
  <2>1. <<x, y>> \in Grid(w, 2 * h)
    BY DEF Grid
  <2>2. QED
    BY <2>1
<1>6. ASSUME NEW x \in 0..(2 * w - 1), NEW y \in 0..(2 * h - 1) PROVE k[<<x, y>>] = g[<<x \div 2, y>>]
  <2>1. <<x, y>> \in Grid(2 * w, 2 * h)
    BY DEF Grid
  <2> HIDE DEF g
  <2>2. QED
    BY <2>1
<1> HIDE DEF g, k
<1>7. Covers(g, w, 2 * h, M)
  <2>1. w \in Nat \ {0} /\ h \in Nat \ {0}
    BY <1>1
  <2>2. \A x \in 0..(w - 1), y \in 0..(2 * h - 1) : g[<<x, y>>] = f[<<x, y \div 2>>]
    BY <1>5
  <2>3. Covers(f, w, h, M)
    BY <1>4
  <2>4. QED
    BY <2>1, <2>2, <2>3, HalfDown
<1>8. Covers(k, 2 * w, 2 * h, M)
  <2> DEFINE H == 2 * h
  <2>1. H \in Nat \ {0} /\ w \in Nat \ {0}
    BY <1>1
  <2>2. Covers(g, w, H, M) /\ \A x \in 0..(2 * w - 1), y \in 0..(H - 1) : k[<<x, y>>] = g[<<x \div 2, y>>]
    BY <1>6, <1>7
  <2> HIDE DEF H
  <2>3. Covers(k, 2 * w, H, M)
    BY <2>1, <2>2, HalfAcross
  <2>4. QED
    BY <2>3 DEF H
<1>9. /\ M \in Nat \ {0} /\ (i.width * i.height) \div 4 = M /\ i.width * i.height = 4 * M
      /\ i.width \div 2 = w /\ i.height \div 2 = h
  BY <1>1, Halving DEF M
<1>10. ASSUME NEW x \in 0..(i.width - 1), NEW y \in 0..(i.height - 1)
      PROVE  Memory!Read(i, x, y) = <<A + 1 * k[<<x, y>>], 1>>
  <2>1. x \in 0..(2 * w - 1) /\ y \in 0..(2 * h - 1)
    BY <1>1
  <2>2. x \div 2 \in 0..(w - 1) /\ y \div 2 \in 0..(h - 1)
    BY <1>1, <2>1
  <2>3. k[<<x, y>>] = Memory!Index(i, x \div 2, y \div 2, w, h)
    BY <1>3, <1>5, <1>6, <2>1, <2>2
  <2>4. k[<<x, y>>] \in 0..(M - 1)
    BY <1>8, <2>1, CoversIs
  <2>5. Memory!Read(i, x, y) = <<2048 + Memory!BaseOffset(i) + Memory!Index(i, x \div 2, y \div 2, w, h), 1>>
    BY <1>9 DEF Memory!Read
  <2>6. 1 * k[<<x, y>>] = k[<<x, y>>]
    BY <1>9, <2>4
  <2>7. QED
    BY <2>3, <2>5, <2>6
<1>11. ReadsPieces(i, A, 1, M)
  <2>1. Covers(k, i.width, i.height, M)
    BY <1>1, <1>8
  <2>2. A \in Nat /\ M \in Nat \ {0} /\ 1 \in Nat \ {0}
    BY <1>2, <1>9
  <2>3. i.width \in Nat \ {0} /\ i.height \in Nat \ {0}
    BY <1>1
  <2> HIDE DEF A
  <2>4. QED
    BY <1>10, <2>1, <2>2, <2>3, ReadsAre
<1>12. Whole(i) = A + 1 * M /\ A \in Nat
  BY <1>2, <1>9 DEF Whole
<1>13. M * ShareOf(i) = i.width * i.height
  <2>1. ShareOf(i) = 4
    BY DEF ShareOf
  <2>2. QED
    BY <1>9, <2>1
<1> HIDE DEF A
<1>14. QED
  <2>1. M \in Nat \ {0} /\ 1 \in Nat \ {0}
    BY <1>9
  <2>2. QED
    BY <1>11, <1>12, <1>13, <2>1, PiecesFound


\* Formats that read whole places of the level: one byte or two for each.
LEMMA TexelsAreRead ==
  ASSUME NEW i, NEW a, NEW b, SizedBy(i, a, b), ~i.vq, i.format \in {"rgb", "pal8"} PROVE PiecesOf(i)
<1> DEFINE A == Memory!BaseOffset(i)
           c == IF i.format = "rgb" THEN 2 ELSE 1
           M == i.width * i.height
<1>1. i.width \in Nat \ {0} /\ i.height \in Nat \ {0} /\ M \in Nat \ {0} /\ c \in Nat \ {0}
  <2>1. i.width \in Nat \ {0} /\ i.height \in Nat \ {0}
    BY DEF SizedBy, Sides
  <2>2. QED
    BY <2>1
<1>2. A \in Nat
  BY Room DEF SizedBy
<1>3. PICK f : /\ Covers(f, i.width, i.height, M)
               /\ \A x \in 0..(i.width - 1), y \in 0..(i.height - 1) :
                    f[<<x, y>>] = Memory!Index(i, x, y, i.width, i.height)
  BY LevelIsIndexed DEF IndexedBy
<1>4. Whole(i) = A + c * M
  <2>1. Memory!Checked(i) = c * M
    <3> HIDE DEF M
    <3>1. Memory!Checked(i) = Memory!LevelBytes(i, M)
      BY DEF Memory!Checked, M
    <3>2. QED
      BY <1>1, <3>1 DEF Memory!LevelBytes
  <2> HIDE DEF c, M
  <2>2. QED
    BY <2>1 DEF Whole
<1>5. M * ShareOf(i) = i.width * i.height
  <2>1. ShareOf(i) = 1
    BY DEF ShareOf
  <2> HIDE DEF M
  <2>2. M * ShareOf(i) = M
    BY <1>1, <2>1
  <2>3. QED
    BY <2>2 DEF M
<1> HIDE DEF M
<1>6. ASSUME NEW x \in 0..(i.width - 1), NEW y \in 0..(i.height - 1)
      PROVE  Memory!Read(i, x, y) = <<A + c * f[<<x, y>>], c>>
  <2> DEFINE n == Memory!Index(i, x, y, i.width, i.height)
  <2>1. f[<<x, y>>] = n
    BY <1>3
  <2>2. n \in Nat
    <3>1. f[<<x, y>>] \in 0..(M - 1)
      BY <1>3, CoversIs
    <3>2. QED
      BY <1>1, <2>1, <3>1
  <2>3. CASE i.format = "rgb"
    <3>1. Memory!Read(i, x, y) = <<A + 2 * n, 2>>
      BY <2>3 DEF Memory!Read
    <3>2. QED
      BY <2>1, <2>3, <3>1
  <2>4. CASE i.format = "pal8"
    <3>1. Memory!Read(i, x, y) = <<A + n, 1>>
      BY <2>4 DEF Memory!Read
    <3> HIDE DEF n
    <3>2. n = 1 * n /\ c = 1
      BY <2>2, <2>4
    <3>3. QED
      BY <2>1, <3>1, <3>2
  <2>5. QED
    BY <2>3, <2>4
<1> HIDE DEF A, c
<1>7. ReadsPieces(i, A, c, M)
  BY <1>1, <1>2, <1>3, <1>6, ReadsAre
<1>8. QED
  BY <1>1, <1>2, <1>4, <1>5, <1>7, PiecesFound

\* Nibbles, and pixels in pairs: two texels in one piece.
LEMMA NibblesAreRead ==
  ASSUME NEW i, NEW a, NEW b, SizedBy(i, a, b), ~i.vq, i.format = "pal4" PROVE PiecesOf(i)
<1> DEFINE A == Memory!BaseOffset(i)
           w == Memory!TwoTo(a - 1)
           h == Memory!TwoTo(b - 1)
           M == w * i.height
<1>1. /\ i.width \in Nat \ {0} /\ i.height \in Nat \ {0} /\ M \in Nat \ {0}
      /\ i.width * i.height = 2 * M /\ (i.width * i.height) \div 2 = M
  <2>1. i.width = 2 * w /\ i.height = 2 * h /\ w \in Nat \ {0} /\ h \in Nat \ {0}
    BY PowersDouble DEF SizedBy
  <2> HIDE DEF w, h
  <2>2. QED
    BY <2>1, Halving
<1> HIDE DEF M
<1>2. A \in Nat
  BY Room DEF SizedBy
<1>3. PICK f : /\ Covers(f, i.width, i.height, 2 * M)
               /\ \A x \in 0..(i.width - 1), y \in 0..(i.height - 1) :
                    f[<<x, y>>] = Memory!Index(i, x, y, i.width, i.height)
  <2>1. PICK f : IndexedBy(f, i, i.width, i.height)
    BY LevelIsIndexed
  <2>2. Covers(f, i.width, i.height, i.width * i.height)
    BY <2>1 DEF IndexedBy
  <2>3. Covers(f, i.width, i.height, 2 * M)
    BY <1>1, <2>2
  <2>4. QED
    BY <2>1, <2>3 DEF IndexedBy
<1> DEFINE g == [p \in Grid(i.width, i.height) |-> f[p] \div 2]
<1>4. ASSUME NEW x \in 0..(i.width - 1), NEW y \in 0..(i.height - 1) PROVE g[<<x, y>>] = f[<<x, y>>] \div 2
  <2>1. <<x, y>> \in Grid(i.width, i.height)
    BY DEF Grid
  <2>2. QED
    BY <2>1
<1> HIDE DEF g
<1>5. Covers(g, i.width, i.height, M)
  <2>1. i.width - 1 \in 0..(i.width - 1) /\ i.height - 1 \in 0..(i.height - 1)
    BY <1>1
  <2>2. QED
    BY <1>1, <1>3, <1>4, <2>1, HalfOf
<1>6. Whole(i) = A + 1 * M
  <2>1. Memory!Checked(i) = M
    BY <1>1 DEF Memory!Checked, Memory!LevelBytes
  <2>2. 1 * M = M
    BY <1>1
  <2>3. QED
    BY <2>1, <2>2 DEF Whole
<1>7. M * ShareOf(i) = i.width * i.height
  <2>1. ShareOf(i) = 2
    BY DEF ShareOf
  <2>2. QED
    BY <1>1, <2>1
<1>8. ASSUME NEW x \in 0..(i.width - 1), NEW y \in 0..(i.height - 1)
      PROVE  Memory!Read(i, x, y) = <<A + 1 * g[<<x, y>>], 1>>
  <2>1. g[<<x, y>>] = Memory!Index(i, x, y, i.width, i.height) \div 2
    BY <1>3, <1>4
  <2>2. Memory!Read(i, x, y) = <<A + Memory!Index(i, x, y, i.width, i.height) \div 2, 1>>
    BY DEF Memory!Read
  <2>3. 1 * g[<<x, y>>] = g[<<x, y>>]
    <3>1. g[<<x, y>>] \in 0..(M - 1)
      BY <1>5, CoversIs
    <3>2. QED
      BY <1>1, <3>1
  <2>4. QED
    BY <2>1, <2>2, <2>3
<1> HIDE DEF A
<1>9. 1 \in Nat \ {0}
  OBVIOUS
<1>10. ReadsPieces(i, A, 1, M)
  BY <1>1, <1>2, <1>5, <1>8, <1>9, ReadsAre
<1>11. QED
  BY <1>1, <1>2, <1>6, <1>7, <1>9, <1>10, PiecesFound

LEMMA PairsAreRead ==
  ASSUME NEW i, NEW a, NEW b, SizedBy(i, a, b), ~i.vq, i.format = "yuv" PROVE PiecesOf(i)
<1> DEFINE A == Memory!BaseOffset(i)
           w == Memory!TwoTo(a - 1)
           h == Memory!TwoTo(b - 1)
           M == w * i.height
           Piece(x, y) == IF i.twiddled THEN Memory!Twiddle(x \div 2, y, i.width \div 2, i.height)
                          ELSE Memory!Linear(x, y, i.width) \div 2
<1>1. /\ i.width \in Nat \ {0} /\ i.height \in Nat \ {0} /\ M \in Nat \ {0}
      /\ i.width * i.height = 2 * M /\ i.width = 2 * w /\ i.width \div 2 = w /\ w \in Nat \ {0}
  <2>1. i.width = 2 * w /\ i.height = 2 * h /\ w \in Nat \ {0} /\ h \in Nat \ {0}
    BY PowersDouble DEF SizedBy
  <2> HIDE DEF w, h
  <2>2. QED
    BY <2>1, Halving
<1>2. A \in Nat
  BY Room DEF SizedBy
<1>3. \E g : /\ Covers(g, i.width, i.height, M)
             /\ \A x \in 0..(i.width - 1), y \in 0..(i.height - 1) : g[<<x, y>>] = Piece(x, y)
  <2>1. CASE i.twiddled
    <3>1. PICK f : f = TwiddledOver(w, i.height)
      OBVIOUS
    <3>2. Covers(f, w, i.height, M)
      BY <3>1, TwiddleCovers DEF SizedBy
    <3> HIDE DEF w, M
    <3> DEFINE g == [p \in Grid(2 * w, i.height) |-> f[<<p[1] \div 2, p[2]>>]]
    <3>3. ASSUME NEW x \in 0..(2 * w - 1), NEW y \in 0..(i.height - 1)
          PROVE  /\ g[<<x, y>>] = f[<<x \div 2, y>>]
                 /\ f[<<x \div 2, y>>] = Memory!Twiddle(x \div 2, y, w, i.height)
      <4>1. <<x, y>> \in Grid(2 * w, i.height)
        BY DEF Grid
      <4>2. x \div 2 \in 0..(w - 1)
        BY <1>1
      <4>3. <<x \div 2, y>> \in Grid(w, i.height)
        BY <4>2 DEF Grid
      <4>4. QED
        BY <3>1, <4>1, <4>3 DEF TwiddledOver
    <3> HIDE DEF g
    <3>4. Covers(g, 2 * w, i.height, M)
      <4>1. w \in Nat \ {0} /\ i.height \in Nat \ {0}
        BY <1>1
      <4>2. \A x \in 0..(2 * w - 1), y \in 0..(i.height - 1) : g[<<x, y>>] = f[<<x \div 2, y>>]
        BY <3>3
      <4>3. QED
        BY <3>2, <4>1, <4>2, HalfAcross
    <3>5. ASSUME NEW x \in 0..(i.width - 1), NEW y \in 0..(i.height - 1) PROVE g[<<x, y>>] = Piece(x, y)
      BY <1>1, <2>1, <3>3
    <3> HIDE DEF Piece
    <3>6. QED
      BY <1>1, <3>4, <3>5
  <2>2. CASE ~i.twiddled
    <3> DEFINE f == [p \in Grid(i.width, i.height) |-> Memory!Linear(p[1], p[2], i.width)]
               g == [p \in Grid(i.width, i.height) |-> f[p] \div 2]
    <3>1. ASSUME NEW x \in 0..(i.width - 1), NEW y \in 0..(i.height - 1)
          PROVE  f[<<x, y>>] = Memory!Linear(x, y, i.width) /\ g[<<x, y>>] = f[<<x, y>>] \div 2
      <4>1. <<x, y>> \in Grid(i.width, i.height)
        BY DEF Grid
      <4>2. f[<<x, y>>] = Memory!Linear(x, y, i.width)
        BY <4>1
      <4> HIDE DEF f
      <4>3. QED
        BY <4>1, <4>2
    <3> HIDE DEF f, g, M
    <3>2. Covers(f, i.width, i.height, 2 * M)
      <4>1. Covers(f, i.width, i.height, i.width * i.height)
        BY <1>1, <3>1, LinearCovers
      <4>2. QED
        BY <1>1, <4>1
    <3>3. i.width - 1 \in 0..(i.width - 1) /\ i.height - 1 \in 0..(i.height - 1)
      BY <1>1
    <3>4. Covers(g, i.width, i.height, M)
      BY <1>1, <3>1, <3>2, <3>3, HalfOf
    <3>5. ASSUME NEW x \in 0..(i.width - 1), NEW y \in 0..(i.height - 1) PROVE g[<<x, y>>] = Piece(x, y)
      BY <2>2, <3>1
    <3> HIDE DEF Piece
    <3>6. QED
      BY <3>4, <3>5
  <2>3. QED
    BY <2>1, <2>2
<1> HIDE DEF M
<1>4. PICK g : /\ Covers(g, i.width, i.height, M)
               /\ \A x \in 0..(i.width - 1), y \in 0..(i.height - 1) : g[<<x, y>>] = Piece(x, y)
  BY <1>3
<1>5. Whole(i) = A + 4 * M
  <2>1. Memory!Checked(i) = 4 * M
    BY <1>1 DEF Memory!Checked, Memory!LevelBytes
  <2>2. QED
    BY <2>1 DEF Whole
<1>6. M * ShareOf(i) = i.width * i.height
  <2>1. ShareOf(i) = 2
    BY DEF ShareOf
  <2>2. QED
    BY <1>1, <2>1
<1>7. ASSUME NEW x \in 0..(i.width - 1), NEW y \in 0..(i.height - 1)
      PROVE  Memory!Read(i, x, y) = <<A + 4 * g[<<x, y>>], 4>>
  <2>1. Memory!Read(i, x, y) = <<A + 4 * Piece(x, y), 4>>
    BY DEF Memory!Read
  <2> HIDE DEF Piece
  <2>2. QED
    BY <1>4, <2>1
<1> HIDE DEF A
<1>8. 4 \in Nat \ {0}
  OBVIOUS
<1>9. ReadsPieces(i, A, 4, M)
  BY <1>1, <1>2, <1>4, <1>7, <1>8, ReadsAre
<1>10. QED
  BY <1>1, <1>2, <1>5, <1>6, <1>8, <1>9, PiecesFound

--------------------------------------------------------------------------------
(* Any texture, and the theorem. *)

\* A texture control word, as VideoAssumption has it.
ControlType == [format : {"rgb", "yuv", "pal4", "pal8", "reserved"}, vq : BOOLEAN, mip : BOOLEAN,
                linear : BOOLEAN, stride : BOOLEAN, u : 0..7, v : 0..7]

LEMMA TextureIsRead == ASSUME texture \in ControlType PROVE Memory!TextureIsWhereItIsRead
<1> DEFINE i == Memory!Described(texture)
           Ends == {Memory!Read(i, p[1], p[2])[1] + Memory!Read(i, p[1], p[2])[2] : p \in Memory!Places(i)}
           whole == IF i.vq THEN 2048 + Memory!BaseOffset(i) + (i.width * i.height) \div 4
                    ELSE Memory!BaseOffset(i) + Memory!Checked(i)
           share == CASE i.vq -> 4 [] ~i.vq /\ i.format \in {"pal4", "yuv"} -> 2 [] OTHER -> 1
<1>1. SUFFICES ASSUME Memory!Accepted(i)
               PROVE  /\ \A e \in Ends : e <= Memory!SizeBytes(i) /\ e <= whole
                      /\ whole \in Ends
                      /\ i.mipmapped => (i.vq \/ i.format \in Memory!Palettes \/ whole % 8 = 0)
                      /\ i.width <= Limit /\ i.height <= Limit =>
                           Memory!Cardinality({Memory!Read(i, p[1], p[2])[1] : p \in Memory!Places(i)}) * share
                             = i.width * i.height
  BY DEF Memory!TextureIsWhereItIsRead
<1>2. /\ i.format = texture.format /\ i.vq = texture.vq /\ i.mipmapped = texture.mip
      /\ i.width = Memory!TwoTo(texture.u + 3) /\ i.height = Memory!TwoTo(texture.v + 3)
  BY DEF Memory!Described
<1> HIDE DEF i
<1>3. /\ texture.u \in 0..7 /\ texture.v \in 0..7 /\ texture.vq \in BOOLEAN /\ i.format \in Formats
      /\ i.mipmapped => i.width = i.height
  BY <1>1, <1>2 DEF ControlType, Memory!Accepted, Formats
<1>4. PICK a \in Nat, b \in Nat : a = texture.u + 3 /\ b = texture.v + 3
  BY <1>3
<1>5. SizedBy(i, a, b)
  <2>1. a - 1 = texture.u + 2 /\ b - 1 = texture.v + 2
    BY <1>3, <1>4
  <2>2. QED
    BY <1>2, <1>3, <1>4, <2>1, SideIs DEF SizedBy
<1>6. PiecesOf(i)
  <2>1. CASE i.vq
    BY <1>5, <2>1, CodesAreRead
  <2>2. CASE ~i.vq
    <3>1. i.format \in {"rgb", "pal8"} \/ i.format = "pal4" \/ i.format = "yuv"
      BY <1>3 DEF Formats
    <3>2. QED
      BY <1>5, <2>2, <3>1, TexelsAreRead, NibblesAreRead, PairsAreRead
  <2>3. QED
    BY <2>1, <2>2
<1>7. PICK A \in Nat, c \in Nat \ {0}, M \in Nat \ {0} :
        ReadsPieces(i, A, c, M) /\ Whole(i) = A + c * M /\ M * ShareOf(i) = i.width * i.height
  BY <1>6 DEF PiecesOf, ShareOf
<1>8. whole = Whole(i) /\ share = ShareOf(i) /\ Ends = EndsOf(i)
  BY DEF Whole, ShareOf, EndsOf
<1>9. /\ Whole(i) \in Nat /\ Memory!SizeBytes(i) \in Nat /\ Whole(i) <= Memory!SizeBytes(i)
      /\ i.mipmapped => (i.vq \/ i.format \in Memory!Palettes \/ Whole(i) % 8 = 0)
  BY <1>5, Room DEF SizedBy
<1>10. (\A e \in EndsOf(i) : e \in Nat /\ e <= Whole(i)) /\ Whole(i) \in EndsOf(i)
  BY <1>7 DEF ReadsPieces
<1>11. i.width <= Limit /\ i.height <= Limit =>
         Memory!Cardinality({Memory!Read(i, p[1], p[2])[1] : p \in Memory!Places(i)}) * ShareOf(i)
           = i.width * i.height
  BY <1>7 DEF ReadsPieces, StartsOf
<1> HIDE DEF whole, share, Ends
<1>12. \A e \in Ends : e <= Memory!SizeBytes(i) /\ e <= whole
  BY <1>8, <1>9, <1>10
<1>13. QED
  BY <1>8, <1>9, <1>10, <1>11, <1>12

\* What VideoAssumption says of the inputs, and of the converter that it is somewhere in a picture.
FoundInv ==
  /\ part \in {"stream", "yuv", "texture", "buffer", "live", "screen"}
  /\ part = "yuv" => YuvInv
  /\ part = "texture" => texture \in ControlType
  /\ part = "buffer" => regs \in RegisterType /\ image \in ImageType

\* What is put into video memory is found where it was put: after any number of macroblocks the
\* converter's texture is the picture that was sent (yuv_macroblock); every texel or code of a
\* texture is read from a place of its own, and the extent, the mipmaps before it and the space
\* checked agree (decode_texture, size_bytes, mipmap_base_offset); a frame is shown from where it
\* was written, and copied from inside the image (describe_framebuffer, encode_framebuffer); a
\* channel that is widened and narrowed again is as it was.
THEOREM FoundAgain == Spec => []FoundWhereItWasPut
<1>1. VideoAssumption
  BY VideoAssumption
<1>2. Init => FoundInv
  <2>1. SUFFICES ASSUME Init PROVE FoundInv
    OBVIOUS
  <2>2. CASE part = "yuv"
    <3>1. Yuv!Init
      BY <2>1, <2>2 DEF Init
    <3>2. QED
      BY <1>1, <2>2, <3>1, YuvBegins DEF FoundInv
  <2>3. CASE part = "texture"
    <3>1. texture \in ControlType
      BY <1>1, <2>1, <2>3 DEF Init, Memory!InitTexture, VideoAssumption, ControlType
    <3>2. QED
      BY <2>3, <3>1 DEF FoundInv
  <2>4. CASE part = "buffer"
    <3>1. regs \in RegisterType /\ image \in ImageType
      BY <1>1, <2>1, <2>4 DEF Init, Memory!InitFrame, VideoAssumption, RegisterType, ImageType
    <3>2. QED
      BY <2>4, <3>1 DEF FoundInv
  <2>5. CASE part \in {"stream", "live", "screen"}
    BY <2>5 DEF FoundInv
  <2>6. part \in {"stream", "yuv", "texture", "buffer", "live", "screen"}
    BY <2>1 DEF Init
  <2>7. QED
    BY <2>2, <2>3, <2>4, <2>5, <2>6
<1>3. FoundInv /\ [Next]_vars => FoundInv'
  <2>1. SUFFICES ASSUME FoundInv, [Next]_vars PROVE FoundInv'
    OBVIOUS
  <2>2. part' = part /\ UNCHANGED <<texture, regs, image>>
    BY <2>1 DEF Next, vars, ofTexture, ofBuffer
  <2>3. CASE part = "yuv"
    <3>1. [Yuv!Next]_(Yuv!vars)
      BY <2>1, <2>3 DEF Next, vars, ofYuv, Yuv!vars
    <3>2. QED
      BY <1>1, <2>1, <2>2, <2>3, <3>1, YuvContinues DEF FoundInv
  <2>4. CASE part # "yuv"
    BY <2>1, <2>2, <2>4 DEF FoundInv
  <2>5. QED
    BY <2>3, <2>4
<1>4. FoundInv => FoundWhereItWasPut
  <2>1. SUFFICES ASSUME FoundInv PROVE FoundWhereItWasPut
    OBVIOUS
  <2>2. \A f \in Fields : f \in {<<4, 0>>} \cup ({5, 6} \X (0..7))
    BY <1>1 DEF VideoAssumption
  <2>3. part = "yuv" => Yuv!PictureIsWhatWasSent
    BY <2>1, YuvShows DEF FoundInv
  <2>4. part = "texture" => Memory!TextureIsWhereItIsRead
    BY <2>1, TextureIsRead DEF FoundInv
  <2>5. part = "buffer" => Memory!FrameIsWhereItIsShown /\ Memory!CopiedFromTheImage
    BY <2>1, <2>2, FrameIsShown, ImageIsCopied DEF FoundInv
  <2>6. QED
    BY <2>3, <2>4, <2>5 DEF FoundWhereItWasPut
<1>5. QED
  BY <1>2, <1>3, <1>4, PTL DEF Spec

================================================================================
