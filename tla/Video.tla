--------------------------------- MODULE Video ---------------------------------
(***************************************************************************)
(* The picture, in one run: the parameter stream and its two readers, the YUV   *)
(* converter, where textures and frames are in video memory, the path from a      *)
(* render to the window, and the screen on which controls are bound.  The run       *)
(* chooses one of the six; they share no state, and the others have none.            *)
(***************************************************************************)
EXTENDS Naturals, FiniteSets

CONSTANTS
  Headers, MaxVertices, MaxHeaders,                  \* ParameterStream
  Shapes, Bases, Rounds,                             \* YuvConverter
  Controls, Limit, Registers, Images, Fields,        \* VideoMemory
  Buffers, Textures, BufferSize, MaxTargets,         \* Presentation
  MaxSets, MaxContents, WritesBack,
  Rows, MaxEvents, HasFile                           \* BindingScreen

VARIABLES
  part,  \* what this run is about
  ta, open, ended, dl, frame, closed, serial,
  shape, base, bytes, fill, index, texels, sent,
  texture,
  regs, image,
  display, target, palette, memory, offscreen, held, targets, pixels, shown, described, cache, now,
  frames, rendered,
  down, events, window, menu, changed, rearm, file, failed, onScreen

\* Addresses, sizes and fields of a header or a register are numbers; a texture has macroblocks
\* and an image pixels, stored in rows that hold them; channels are as wide as a format's; the
\* fallback texture has a set; there are finitely many rows and textures.
VideoAssumption ==
  /\ Headers \subseteq [type : {"poly", "sprite"}, list : Nat, col : Nat, tex : BOOLEAN,
                        off : BOOLEAN, vol : BOOLEAN]
  /\ Shapes \subseteq (Nat \ {0}) \X (Nat \ {0}) /\ Bases \subseteq Nat /\ Rounds \in Nat
  /\ Controls \subseteq [format : {"rgb", "yuv", "pal4", "pal8", "reserved"}, vq : BOOLEAN,
                         mip : BOOLEAN, linear : BOOLEAN, stride : BOOLEAN, u : 0..7, v : 0..7]
  /\ Registers \subseteq [pack : 0..7, stride : Nat, clipX : Nat, clipY : Nat, sizeX : Nat,
                          sizeY : Nat, modulus : Nat, half : BOOLEAN]
  /\ Images \subseteq {i \in [width : Nat \ {0}, height : Nat \ {0}, stride : Nat] :
                       i.stride = 0 \/ i.stride >= i.width}
  /\ Fields \subseteq {<<4, 0>>} \cup ({5, 6} \X (0..7)) /\ Limit \in Nat
  /\ Buffers \subseteq Nat /\ Buffers # {} /\ BufferSize \in Nat
  /\ Textures \subseteq [lo : Nat, size : Nat] /\ IsFiniteSet(Textures)
  /\ MaxSets \in Nat \ {0} /\ IsFiniteSet(Rows)
ASSUME VideoAssumption

Stream  == INSTANCE ParameterStream
Yuv     == INSTANCE YuvConverter
Memory  == INSTANCE VideoMemory
Live    == INSTANCE Presentation
Screen  == INSTANCE BindingScreen

ofStream == <<ta, open, ended, dl, frame, closed, serial>>
ofYuv == <<shape, base, bytes, fill, index, texels, sent>>
ofTexture == <<texture>>
ofBuffer == <<regs, image>>
ofLive == <<display, target, palette, memory, offscreen, held, targets, pixels, shown, described, cache, now,
  frames, rendered>>
ofScreen == <<down, events, window, menu, changed, rearm, file, failed, onScreen>>
vars == <<part, ofStream, ofYuv, ofTexture, ofBuffer, ofLive, ofScreen>>

\* What this run is not about has no state.
None == "none"
NoStream == /\ ta = None /\ open = None /\ ended = None /\ dl = None /\ frame = None
            /\ closed = None /\ serial = None
NoYuv == /\ shape = None /\ base = None /\ bytes = None /\ fill = None /\ index = None
         /\ texels = None /\ sent = None
NoTexture == texture = None
NoBuffer == regs = None /\ image = None
NoLive == /\ display = None /\ target = None /\ palette = None /\ memory = None /\ offscreen = None
          /\ held = None /\ targets = None /\ pixels = None /\ shown = None /\ described = None
          /\ cache = None /\ now = None /\ frames = None /\ rendered = None
NoScreen == /\ down = None /\ events = None /\ window = None /\ menu = None /\ changed = None
            /\ rearm = None /\ file = None /\ failed = None /\ onScreen = None

Init ==
  \/ part = "stream" /\ Stream!Init /\ NoYuv /\ NoTexture /\ NoBuffer /\ NoLive /\ NoScreen
  \/ part = "yuv" /\ Yuv!Init /\ NoStream /\ NoTexture /\ NoBuffer /\ NoLive /\ NoScreen
  \/ part = "texture" /\ Memory!InitTexture /\ NoStream /\ NoYuv /\ NoBuffer /\ NoLive /\ NoScreen
  \/ part = "buffer" /\ Memory!InitFrame /\ NoStream /\ NoYuv /\ NoTexture /\ NoLive /\ NoScreen
  \/ part = "live" /\ Live!Init /\ NoStream /\ NoYuv /\ NoTexture /\ NoBuffer /\ NoScreen
  \/ part = "screen" /\ Screen!Init /\ NoStream /\ NoYuv /\ NoTexture /\ NoBuffer /\ NoLive

Next ==
  \/ /\ part = "stream" /\ Stream!Next
     /\ UNCHANGED <<part, ofYuv, ofTexture, ofBuffer, ofLive, ofScreen>>
  \/ /\ part = "yuv" /\ Yuv!Next
     /\ UNCHANGED <<part, ofStream, ofTexture, ofBuffer, ofLive, ofScreen>>
  \/ /\ part = "live" /\ Live!Next
     /\ UNCHANGED <<part, ofStream, ofYuv, ofTexture, ofBuffer, ofScreen>>
  \/ /\ part = "screen" /\ Screen!Next
     /\ UNCHANGED <<part, ofStream, ofYuv, ofTexture, ofBuffer, ofLive>>

Spec == Init /\ [][Next]_vars

--------------------------------------------------------------------------------
\* The two readers of a parameter stream take the same chunks for second halves and end the same
\* lists, and every polygon is drawn from its own vertices (core.cpp 9-139, display_list.cpp
\* 154-486).
StreamReadTwice == part = "stream" => Stream!ReadersAgree /\ Stream!PolygonsHaveTheirVertices

\* What is written to a place in video memory is found there by what reads it: the converter's
\* picture, a texture and its extent, a frame and the region that is displayed
\* (core.cpp 217-270, texture.cpp 94-357, framebuffer.cpp 88-296).
FoundWhereItWasPut ==
  /\ part = "yuv" => Yuv!PictureIsWhatWasSent
  /\ part = "texture" => Memory!TextureIsWhereItIsRead
  /\ part = "buffer" => Memory!FrameIsWhereItIsShown /\ Memory!CopiedFromTheImage

\* The window never shows a texture that was rendered on the way, and no texture is drawn from a
\* copy older than the last render over it (boot_main.cpp 157-362, texture_cache.cpp 48-277).
ShownAsRendered == part = "live" => Live!WindowKeepsTheLastFrame /\ Live!TexturesFollowTheRenderer

\* One press does one thing on the binding screen, whatever is held or repeats; the window and the
\* screen agree on whether an input is awaited; and what is used is what was saved
\* (window.cpp 351-454, input_menu.cpp 12-114, boot_main.cpp 404-522).
OnePressOneThing ==
  part = "screen" => Screen!QuitIsAPressOfItsOwn /\ Screen!CaptureIsAwaited /\ Screen!SavedAsUsed

\* A vertical blank shows what the registers nominate, or leaves the window as it was
\* (boot_main.cpp 275-362).
WindowFollowsTheDisplay ==
  [][part = "live" /\ shown' # shown =>
       /\ display.on /\ shown'.as = shown'.from
       /\ shown'.from = "memory" => shown'.of = memory[display.at]]_vars
================================================================================
