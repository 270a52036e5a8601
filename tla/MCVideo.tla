-------------------------------- MODULE MCVideo --------------------------------
EXTENDS Video

\* Polygons of an opaque list and its modifier volumes with every form of header, and sprites.
MCHeaders == [type : {"poly"}, list : 0..1, col : 0..3, tex : BOOLEAN, off : BOOLEAN, vol : BOOLEAN]
             \cup [type : {"sprite"}, list : 0..1, col : {0}, tex : {TRUE}, off : {FALSE}, vol : {FALSE}]

\* One macroblock, two across, and two by two.
MCShapes == {<<1, 1>>, <<2, 1>>, <<2, 2>>}

\* Every kind of texture in every size.
MCControls == [format : {"rgb", "yuv", "pal4", "pal8", "reserved"}, vq : BOOLEAN, mip : BOOLEAN,
               linear : BOOLEAN, stride : BOOLEAN, u : 0..7, v : 0..7]

\* Small frames in every format, packed, padded and clipped, and one of 256 lines that the lower
\* pixel clock cuts to 240.
MCRegisters == [pack : 0..7, stride : 0..3, clipX : {0, 2, 5}, clipY : {0, 2}, sizeX : 0..2,
                sizeY : {0, 3}, modulus : 0..3, half : BOOLEAN]
               \cup [pack : {1, 5}, stride : {0, 2}, clipX : {0}, clipY : {0}, sizeX : {0},
                     sizeY : {255}, modulus : {0, 2}, half : BOOLEAN]
MCImages == {[width |-> 4, height |-> 3, stride |-> 0], [width |-> 6, height |-> 2, stride |-> 8],
             [width |-> 3, height |-> 5, stride |-> 12]}
MCFields == {<<4, 0>>} \cup {<<n, c>> : n \in {5, 6}, c \in 0..7}

\* A texture that begins in one buffer and ends in the next, and one within a buffer.
MCTextures == {[lo |-> 1, size |-> 2], [lo |-> 3, size |-> 1]}
===============================================================================
