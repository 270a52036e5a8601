----------------------------- MODULE YuvConverter -----------------------------
(***************************************************************************)
(* The PVR's YUV converter (runtime/src/pvr/core.cpp): a title streams 4:2:0   *)
(* macroblocks of 64 bytes U, 64 bytes V and four 8x8 blocks of Y, and the      *)
(* converter writes 4:2:2 texels, two to a word, into texture memory.  A byte    *)
(* is named by its place in the stream since the texture was programmed.          *)
(***************************************************************************)
EXTENDS Naturals

CONSTANTS
  Shapes,  \* textures the title asks for: <<macroblocks across, macroblocks down>>
  Bases,   \* byte addresses for them
  Rounds   \* bound: macroblocks sent beyond a whole texture

VARIABLES
  shape, base,  \* TA_YUV_TEX_CTRL and TA_YUV_TEX_BASE
  bytes,        \* what yuv_mb_ holds of the current macroblock
  fill,         \* yuv_fill_
  index,        \* yuv_index_, and what TA_YUV_TEX_CNT reads
  texels,       \* the words written since the texture was programmed
  sent          \* history: bytes sent since then

vars == <<shape, base, bytes, fill, index, texels, sent>>

BlockSize == 384
Nothing   == [i \in {} |-> 0]
NoTexels  == [a \in {} |-> << >>]
Total == shape[1] * shape[2]

\* Where the Y sample of a pixel of the macroblock is in it.
Luma(x, row) ==
  128 + 64 * ((IF row >= 8 THEN 2 ELSE 0) + (IF x >= 8 THEN 1 ELSE 0)) + 8 * (row % 8) + (x % 8)

\* The words of macroblock i, for pixels in pairs: chroma is half the resolution both ways.
Written(i, mb) ==
  LET mbx == i % shape[1]
      mby == (i \div shape[1]) % shape[2]
      pitch == 32 * shape[1]
      At(row, x) == base + (16 * mby + row) * pitch + 2 * (16 * mbx + x)
      Word(row, x) == LET c == 8 * (row \div 2) + (x \div 2) IN
                      <<mb[c], mb[Luma(x, row)], mb[64 + c], mb[Luma(x + 1, row)]>>
      Places == {<<row, 2 * k>> : row \in 0..15, k \in 0..7}
  IN [a \in {At(p[1], p[2]) : p \in Places} |->
        LET off == a - base
            row == (off \div pitch) - 16 * mby
            x   == ((off % pitch) \div 2) - 16 * mbx
        IN Word(row, x)]

\* A texture is programmed: a partial macroblock is dropped and the next is the top left one.
Restart ==
  /\ fill' = 0 /\ index' = 0 /\ texels' = NoTexels /\ sent' = 0
  /\ bytes' = Nothing

WriteBase(b) == base' = b /\ Restart /\ UNCHANGED shape
WriteCtrl(s) == shape' = s /\ Restart /\ UNCHANGED base

\* n words arrive, by themselves or in a burst; they end within the macroblock.
Words(n) ==
  LET filled == [i \in 0..(fill + 4 * n - 1) |-> IF i < fill THEN bytes[i] ELSE sent + i - fill]
      done == fill + 4 * n = BlockSize
  IN /\ fill + 4 * n <= BlockSize
     /\ sent + 4 * n <= BlockSize * (Total + Rounds)
     /\ sent' = sent + 4 * n
     /\ bytes' = IF done THEN Nothing ELSE filled
     /\ fill' = IF done THEN 0 ELSE fill + 4 * n
     /\ IF done
          THEN LET new == Written(index, filled) IN
               /\ texels' = [a \in DOMAIN texels \cup DOMAIN new |->
                               IF a \in DOMAIN new THEN new[a] ELSE texels[a]]
               /\ index' = IF index + 1 >= Total THEN 0 ELSE index + 1
          ELSE UNCHANGED <<texels, index>>
     /\ UNCHANGED <<shape, base>>

Init ==
  /\ shape \in Shapes /\ base \in Bases
  /\ bytes = Nothing /\ fill = 0 /\ index = 0 /\ texels = NoTexels /\ sent = 0

Next == \/ \E b \in Bases : WriteBase(b)
        \/ \E s \in Shapes : WriteCtrl(s)
        \/ \E n \in {1, 8} : Words(n)

Spec == Init /\ [][Next]_vars

\* The texture is the picture that was sent: after every whole macroblock, each pixel of those
\* sent so far (the newest, once the stream has wrapped) has the Y of its own place and the U and V
\* of its 2x2 square, and nothing else has been written.
PictureIsWhatWasSent ==
  fill = 0 =>
    LET whole == sent \div BlockSize
        Newest(m) == BlockSize * (m + Total * ((whole - 1 - m) \div Total))
        Sample(X, Y) ==
          LET at == Newest(shape[1] * (Y \div 16) + (X \div 16))
              x == X % 16
              y == Y % 16
          IN [u |-> at + 8 * (y \div 2) + (x \div 2),
              v |-> at + 64 + 8 * (y \div 2) + (x \div 2),
              y |-> at + 128 + 128 * (y \div 8) + 64 * (x \div 8) + 8 * (y % 8) + (x % 8)]
        Sent == {p \in (0..(16 * shape[1] - 1)) \X (0..(16 * shape[2] - 1)) :
                   p[1] % 2 = 0 /\ shape[1] * (p[2] \div 16) + (p[1] \div 16) < whole}
        At(p) == base + 32 * shape[1] * p[2] + 2 * p[1]
    IN /\ DOMAIN texels = {At(p) : p \in Sent}
       /\ \A p \in Sent : LET l == Sample(p[1], p[2]) IN
            texels[At(p)] = <<l.u, l.y, l.v, Sample(p[1] + 1, p[2]).y>>
================================================================================
