----------------------------- MODULE VideoMemory -----------------------------
(***************************************************************************)
(* Where textures and frames are in video memory.  Textures (texture.cpp in    *)
(* render/src): what the control words describe, the order of the texels, where  *)
(* the base level is in a mipmap chain, and how many bytes the texture is taken    *)
(* to have when the renderer writes over some of them.  Frames (framebuffer.cpp):   *)
(* the region that the registers say is displayed, the one they say is written, and  *)
(* the copy of a rendered image into the latter, at another size if need be.          *)
(* Colours are left out, but for one channel of a frame's pixel.                       *)
(***************************************************************************)
EXTENDS Naturals, Sequences, FiniteSets

CONSTANTS
  Controls,   \* texture control and TSP words: [format, vq, mip, linear, stride, u, v]
  Limit,      \* bound: textures up to this width are decoded texel by texel
  Registers,  \* [pack, stride, clipX, clipY, sizeX, sizeY, modulus, half]
  Images,     \* sizes of the rendered image, and the row length it is stored with
  Fields      \* widths of a channel in bits, with the concat field of the display

VARIABLES
  texture,  \* the words a polygon came with
  regs,     \* the PVR registers: FB_W_CTRL, FB_W_LINESTRIDE, FB_X_CLIP, FB_Y_CLIP, FB_R_SIZE, FB_R_CTRL
  image     \* the rendered image

\* 2^k, to 1024, the largest width.
TwoTo(k) == <<1, 2, 4, 8, 16, 32, 64, 128, 256, 512, 1024>>[k + 1]

(* Textures *)

Palettes == {"pal4", "pal8"}

\* describe_texture, as the texture cache calls it: without a stride register.
Described(c) ==
  [format  |-> c.format, vq |-> c.vq, mipmapped |-> c.mip,
   width   |-> TwoTo(c.u + 3), height |-> TwoTo(c.v + 3),
   twiddled |-> ~(~c.vq /\ c.format \notin Palettes /\ (c.linear \/ c.stride))]
Accepted(i) == i.format # "reserved" /\ (i.mipmapped => i.width = i.height)

\* twiddle_index: the bits of y and x in turn, y first, while both dimensions have some left;
\* what the longer one still has then comes above them, in its own order.
Twiddle(x, y, width, height) ==
  LET Bits[k \in 0..10] ==   \* of k rounds
        [p \in Nat \X Nat |->
           IF k = 0 THEN 0
           ELSE (p[2] % 2) + 2 * (p[1] % 2) + 4 * Bits[k - 1][<<p[1] \div 2, p[2] \div 2>>]]
      both   == IF width < height THEN width ELSE height
      rounds == CHOOSE k \in 0..10 : TwoTo(k) = both
  IN Bits[rounds][<<x % both, y % both>>] + both * both * (x \div both + y \div both)

Linear(x, y, width) == y * width + x

\* Bytes that n texels of a level take.
LevelBytes(i, n) ==
  CASE i.vq -> n \div 4
    [] ~i.vq /\ i.format = "pal4" -> n \div 2
    [] ~i.vq /\ i.format = "pal8" -> n
    [] OTHER -> 2 * n

\* The smaller levels of a chain.
Levels(i) ==
  LET Bytes(side) == IF side < i.width THEN LevelBytes(i, side * side) ELSE 0
  IN Bytes(1) + Bytes(2) + Bytes(4) + Bytes(8) + Bytes(16) + Bytes(32) + Bytes(64) + Bytes(128)
     + Bytes(256) + Bytes(512)

\* Mutant of BaseOffset: the padding before the smallest level is not counted.
BaseOffsetUnpadded(i) == IF i.mipmapped THEN Levels(i) ELSE 0

\* mipmap_base_offset: the chain is stored smallest first, after its padding.
BaseOffset(i) ==
  LET padding == CASE i.vq -> 1
                   [] ~i.vq /\ i.format = "pal4" -> 2
                   [] ~i.vq /\ i.format = "pal8" -> 3
                   [] OTHER -> 6
  IN IF i.mipmapped THEN Levels(i) + padding ELSE 0

\* size_bytes: what a write has to be kept clear of.
SizeBytes(i) ==
  LET texels == IF i.mipmapped THEN i.width * i.height + (i.width * i.height) \div 3 + 3
                ELSE i.width * i.height
  IN IF i.vq THEN 2048 + texels \div 4 ELSE LevelBytes(i, texels)

\* decode_texture: the offset and the length of what is read for a texel.
Index(i, x, y, width, height) == IF i.twiddled THEN Twiddle(x, y, width, height) ELSE Linear(x, y, width)
Read(i, x, y) ==
  CASE i.vq ->
         <<2048 + BaseOffset(i) + Index(i, x \div 2, y \div 2, i.width \div 2, i.height \div 2), 1>>
    [] ~i.vq /\ i.format = "pal4" -> <<BaseOffset(i) + Index(i, x, y, i.width, i.height) \div 2, 1>>
    [] ~i.vq /\ i.format = "pal8" -> <<BaseOffset(i) + Index(i, x, y, i.width, i.height), 1>>
    [] ~i.vq /\ i.format = "yuv" ->
         <<BaseOffset(i) + 4 * (IF i.twiddled THEN Twiddle(x \div 2, y, i.width \div 2, i.height)
                                ELSE Linear(x, y, i.width) \div 2), 4>>
    [] OTHER -> <<BaseOffset(i) + 2 * Index(i, x, y, i.width, i.height), 2>>

\* What decode_texture checks against the size of video memory before it reads.
Checked(i) == IF i.vq THEN 0 ELSE LevelBytes(i, i.width * i.height)

InitTexture == texture \in Controls

Corners(i) == {<<x, y>> : x \in {0, i.width - 1}, y \in {0, i.height - 1}}
Places(i) == IF i.width <= Limit /\ i.height <= Limit
               THEN (0..(i.width - 1)) \X (0..(i.height - 1)) ELSE Corners(i)

\* Every byte that is read for a texel is one of those that the texture is taken to have, so that
\* a render over any of them drops the decoded copy, and the base level is read to its very end:
\* no texel is read short of it, and different texels do not share what they are read from.
TextureIsWhereItIsRead ==
  LET i == Described(texture)
      Ends == {Read(i, p[1], p[2])[1] + Read(i, p[1], p[2])[2] : p \in Places(i)}
      whole == IF i.vq THEN 2048 + BaseOffset(i) + (i.width * i.height) \div 4
               ELSE BaseOffset(i) + Checked(i)
      share == CASE i.vq -> 4 [] ~i.vq /\ i.format \in {"pal4", "yuv"} -> 2 [] OTHER -> 1
  IN Accepted(i) =>
       /\ \A e \in Ends : e <= SizeBytes(i) /\ e <= whole
       /\ whole \in Ends
       /\ i.mipmapped => (i.vq \/ i.format \in Palettes \/ whole % 8 = 0)
       /\ i.width <= Limit /\ i.height <= Limit =>
            Cardinality({Read(i, p[1], p[2])[1] : p \in Places(i)}) * share
              = i.width * i.height

(* Frames *)

\* FB_W_CTRL numbers seven formats and FB_R_CTRL four.
PackFormats == <<"rgb555", "rgb565", "argb4444", "argb1555", "rgb888", "argb8888", "argb8888">>
BytesPerPixel(f) ==
  CASE f \in {"rgb555", "rgb565", "argb4444", "argb1555"} -> 2 [] f = "rgb888" -> 3 [] OTHER -> 4

\* describe_write_framebuffer.  The clip sizes the region, the display's size if there is none.
Target(r, width, height) ==
  LET clipped == r.clipX # 0 /\ r.clipY # 0
      w == IF clipped THEN r.clipX + 1 ELSE width
      f == PackFormats[r.pack + 1]
      row == (8 * r.stride) \div BytesPerPixel(f)
  IN [format |-> f, width |-> w, height |-> IF clipped THEN r.clipY + 1 ELSE height,
      modulus |-> IF row > w THEN row - w ELSE 0]

Describable(r, width, height) ==
  r.pack <= 6 /\ ((r.clipX # 0 /\ r.clipY # 0) \/ (width # 0 /\ height # 0))

\* describe_framebuffer: width and row distance are in 16-bit words whatever the format.  The
\* display is taken to be set to the format that is written.
Displayed(r) ==
  LET words == 2 * (r.sizeX + 1)
      skip  == IF r.modulus = 0 THEN 0 ELSE 2 * (r.modulus - 1)
      f     == IF r.pack > 3 THEN PackFormats[r.pack + 1] ELSE "rgb565"
      Units(n) == CASE f = "rgb888" -> (2 * n) \div 3 [] f = "argb8888" -> n \div 2 [] OTHER -> n
      lines == r.sizeY + 1
  IN [format |-> f, width |-> Units(words), modulus |-> Units(skip),
      height |-> IF r.half /\ lines > 240 THEN 240 ELSE lines]

\* Bytes from the start of a region to its pixel (x, y): decode and encode go through the rows
\* the same way.
PixelAt(i, x, y) == (y * (i.width + i.modulus) + x) * BytesPerPixel(i.format)
Needed(i) == i.height * (i.width + i.modulus) * BytesPerPixel(i.format)

\* The bytes write_back and write_texture take the region to have, for the texture cache.
Covered(i) == (i.width + i.modulus) * i.height
              * (CASE i.format = "rgb888" -> 3 [] i.format = "argb8888" -> 4 [] OTHER -> 2)

\* encode_framebuffer: the place in the image that a pixel is taken from.
SourceAt(i, x, y) ==
  LET sy == IF image.height = i.height THEN y ELSE (y * image.height) \div i.height
      sx == IF image.width = i.width THEN x ELSE (x * image.width) \div i.width
  IN sy * (IF image.stride # 0 THEN image.stride ELSE image.width) + sx

\* One channel of a pixel: as decoded from n bits, with the display's concat field below it, and
\* as encoded again.
Widened(n, v, concat) ==
  IF n = 4 THEN 17 * v ELSE IF n = 5 THEN 8 * v + concat ELSE 4 * v + concat \div 2
Narrowed(n, c) == c \div TwoTo(8 - n)

InitFrame == regs \in Registers /\ image \in Images

Region == LET d == Displayed(regs) IN Target(regs, d.width, d.height)
Pixels(i) == (0..(i.width - 1)) \X (0..(i.height - 1))

\* A frame that is written back appears where the display reads it: when the registers give both
\* the same distance from row to row, pixel (x, y) of the one is pixel (x, y) of the other, in any
\* format of whole 16-bit words, at its colour; and the region that the texture cache is told of
\* covers every byte that was written.
FrameIsWhereItIsShown ==
  LET d == Displayed(regs)
      t == Region
      Row(i) == (i.width + i.modulus) * BytesPerPixel(i.format)
      rowOfDisplay == 4 * (regs.sizeX + (IF regs.modulus = 0 THEN 1 ELSE regs.modulus))
      rowOfTarget  == IF 8 * regs.stride > t.width * BytesPerPixel(t.format) THEN 8 * regs.stride
                      ELSE t.width * BytesPerPixel(t.format)
  IN Describable(regs, d.width, d.height) =>
       /\ t.format # "rgb888" /\ rowOfDisplay = rowOfTarget =>
            /\ Row(d) = rowOfDisplay
            /\ \A p \in Pixels(t) : PixelAt(d, p[1], p[2]) = PixelAt(t, p[1], p[2])
       /\ \A p \in Pixels(t) : PixelAt(t, p[1], p[2]) + BytesPerPixel(t.format) <= Needed(t)
       /\ Covered(t) = Needed(t)
       /\ \A f \in Fields : \A v \in 0..(TwoTo(f[1]) - 1) : Narrowed(f[1], Widened(f[1], v, f[2])) = v

\* The image is read within its bounds, each row of the frame from one row of it, in order, and
\* the first and the last row of the frame are of its first and last part.
CopiedFromTheImage ==
  LET d == Displayed(regs)
      t == Region
      stride == IF image.stride = 0 THEN image.width ELSE image.stride
  IN Describable(regs, d.width, d.height) =>
       \A p \in Pixels(t) : LET s == SourceAt(t, p[1], p[2]) IN
         /\ s < stride * image.height /\ s % stride < image.width
         /\ s \div stride <= (p[2] * image.height) \div t.height
         /\ (p[2] + 1) * image.height <= (s \div stride + 1) * t.height + image.height
         /\ image.width = t.width => s % stride = p[1]
==============================================================================
