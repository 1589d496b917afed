--------------------------------- MODULE Sepia ---------------------------------
(***************************************************************************)
(* The sepia filters of SepiaFilterCAssembly: image_apply_sepia_asm, four  *)
(* pixels at a time, then image_apply_sepia, pixel by pixel, in the order  *)
(* main times them, on one image that from_bmp has read.  The files around *)
(* them are read and written by the code that Rotation models.             *)
(*                                                                         *)
(* The data of an image is its bytes: offset -> byte, three for a pixel,   *)
(* blue, green, red.  Colours are computed in thousandths; where the sum   *)
(* of the rounded products of the code can fall on either side of a        *)
(* boundary, both outcomes are allowed.                                    *)
(***************************************************************************)
EXTENDS Integers, Sequences

CONSTANTS
  Sources,        \* the images: [width, height, data]
  MallocMayFail   \* BOOLEAN: may malloc return NULL?

PixelSize == 3          \* sizeof(struct pixel)
QuadSize == 12          \* bytes of an iteration of the assembly

Byte == 0..255
JUNK == -1              \* a byte nobody has written

pixels_num(image) == image.width * image.height

Offsets(image) == 0..(PixelSize * pixels_num(image) - 1)

ASSUME SourcesAssumption ==
  /\ MallocMayFail \in BOOLEAN
  /\ \A s \in Sources : /\ s.width \in Nat /\ s.height \in Nat
                        /\ s.data \in [Offsets(s) -> Byte]

VARIABLES
  pc,        \* where the program is
  source,    \* the image
  new_asm,   \* the data of the assembly's new image, NULL before and without room
  new_c,     \* the data of the C code's new image
  at,        \* rdi and rsi, less the addresses of the two blocks
  rdx,       \* the iterations left
  row, col

vars == <<pc, source, new_asm, new_c, at, rdx, row, col>>

NULL == [o \in {} |-> JUNK]

Init ==
  /\ pc = "create_asm"
  /\ source \in Sources
  /\ new_asm = NULL /\ new_c = NULL
  /\ at = 0 /\ rdx = 0 /\ row = 0 /\ col = 0

\* The block image_create gets for a copy of the source, uninitialized.
Room == [o \in Offsets(source) |-> JUNK]

\* The bytes of data from offset o on replaced by those of s.
put(data, o, s) ==
  [i \in DOMAIN data |-> IF i \in o..(o + Len(s) - 1) THEN s[i - o + 1] ELSE data[i]]
-----------------------------------------------------------------------------
(* Colours.                                                                *)

RBIAS == 49
GBIAS == -14
BBIAS == -56

\* Thousandths of the tone of a colour.
tone(b, g, r) == 299 * r + 587 * g + 114 * b

saturate_not(n) == n   \* mutant: no saturation

\* cut; packssdw and packuswb.
saturate(n) == IF n < 0 THEN 0 ELSE IF n > 255 THEN 255 ELSE n

\* cvtps2dq rounds to the nearest number; in the middle the float may lie on
\* either side.
Nearest(t) ==
  IF t % 1000 < 500 THEN {t \div 1000}
  ELSE IF t % 1000 > 500 THEN {(t \div 1000) + 1}
  ELSE {t \div 1000, (t \div 1000) + 1}

Lane(t, bias) == {saturate(n) : n \in Nearest(t + 1000 * bias)}

\* What the vector code makes of four tones.
Vector(t, bias) ==
  {<<n1, n2, n3, n4>> : n1 \in Lane(t[1], bias), n2 \in Lane(t[2], bias),
                        n3 \in Lane(t[3], bias), n4 \in Lane(t[4], bias)}

\* The C code cuts, then truncates; a whole number may come out just below.
Truncated(t) ==
  IF t % 1000 = 0 /\ t > 0 /\ t <= 255000 THEN {t \div 1000, (t \div 1000) - 1}
  ELSE {saturate(t \div 1000)}
-----------------------------------------------------------------------------
(* The assembly: twelve bytes, four pixels, an iteration.                  *)

quad_num_up(image) == (pixels_num(image) + 3) \div 4   \* mutant: the leftover is a quad

quad_num(image) == pixels_num(image) \div 4

CreateAsm ==
  /\ pc = "create_asm"
  /\ new_asm' \in {Room} \cup (IF MallocMayFail THEN {NULL} ELSE {})
  /\ at' = 0
  /\ rdx' = quad_num(source)
  /\ pc' = IF new_asm' = NULL /\ pixels_num(source) > 3 THEN "segfault" ELSE "quad"
  /\ UNCHANGED <<source, new_c, row, col>>

Quad == at..(at + QuadSize - 1)

\* Byte k of the twelve, the first is 1.
in(k) == source.data[at + k - 1]

\* The registers, lowest byte first: the fourth pixel, then the first three.
r8_in == <<in(11), in(2), in(5), in(8)>>
r9_in == <<in(10), in(1), in(4), in(7)>>
r10_in == <<in(12), in(3), in(6), in(9)>>

tones == [i \in 1..4 |-> tone(r9_in[i], r8_in[i], r10_in[i])]

pack_red_behind(r8, r9, r10) ==  \* mutant: red of the third and fourth swapped
  <<r9[2], r8[2], r10[2], r9[3], r8[3], r10[3], r9[4], r8[4], r10[1],
    r9[1], r8[1], r10[4]>>

\* The twelve bytes of rax, then eax.
pack(r8, r9, r10) ==
  <<r9[2], r8[2], r10[2], r9[3], r8[3], r10[3], r9[4], r8[4], r10[4],
    r9[1], r8[1], r10[1]>>

AsmQuad ==
  /\ pc = "quad"
  /\ Quad \subseteq Offsets(source)
  /\ \E r8 \in Vector(tones, GBIAS), r9 \in Vector(tones, BBIAS),
        r10 \in Vector(tones, RBIAS) :
       new_asm' = put(new_asm, at, pack(r8, r9, r10))
  /\ at' = at + QuadSize
  /\ rdx' = rdx - 1
  /\ pc' = IF rdx' = 0 THEN "create_c" ELSE "quad"
  /\ UNCHANGED <<source, new_c, row, col>>

\* The loop tests its count at its end: an iteration that does not fit reads
\* and writes behind the blocks, and the count 0 does not come again.
AsmOutside ==
  /\ pc = "quad"
  /\ ~ (Quad \subseteq Offsets(source))
  /\ pc' = "overrun"
  /\ UNCHANGED <<source, new_asm, new_c, at, rdx, row, col>>
-----------------------------------------------------------------------------
(* The C code.                                                             *)

CreateC ==
  /\ pc = "create_c"
  /\ new_c' \in {Room} \cup (IF MallocMayFail THEN {NULL} ELSE {})
  /\ row' = 0 /\ col' = 0
  /\ pc' = IF new_c' = NULL THEN "segfault" ELSE "pixel"
  /\ UNCHANGED <<source, new_asm, at, rdx>>

Index == PixelSize * (source.width * row + col)

pixel_apply_sepia_tone_each(b, g, r) ==  \* mutant: each channel from its own value
  {<<nb, ng, nr>> : nb \in Truncated(1000 * (b + BBIAS)),
                    ng \in Truncated(1000 * (g + GBIAS)),
                    nr \in Truncated(1000 * (r + RBIAS))}

\* What may become of a pixel.
pixel_apply_sepia(b, g, r) ==
  LET t == tone(b, g, r)
  IN  {<<nb, ng, nr>> : nb \in Truncated(t + 1000 * BBIAS),
                        ng \in Truncated(t + 1000 * GBIAS),
                        nr \in Truncated(t + 1000 * RBIAS)}

CPixel ==
  /\ pc = "pixel"
  /\ row < source.height /\ col < source.width
  /\ \E p \in pixel_apply_sepia(source.data[Index], source.data[Index + 1], source.data[Index + 2]) :
       new_c' = put(new_c, Index, p)
  /\ col' = col + 1
  /\ UNCHANGED <<pc, source, new_asm, at, rdx, row>>

CRowDone ==
  /\ pc = "pixel"
  /\ row < source.height /\ col = source.width
  /\ row' = row + 1 /\ col' = 0
  /\ UNCHANGED <<pc, source, new_asm, new_c, at, rdx>>

CDone ==
  /\ pc = "pixel"
  /\ row = source.height
  /\ pc' = "done"
  /\ UNCHANGED <<source, new_asm, new_c, at, rdx, row, col>>
-----------------------------------------------------------------------------
Final == {"done", "overrun", "segfault"}

Stopped == pc \in Final /\ UNCHANGED vars

Next ==
  \/ CreateAsm \/ AsmQuad \/ AsmOutside
  \/ CreateC \/ CPixel \/ CRowDone \/ CDone
  \/ Stopped

Spec == Init /\ [][Next]_vars
-----------------------------------------------------------------------------
(* Properties.                                                             *)

\* Types; the bytes written are bytes, and lie in the blocks.
TypeOK ==
  /\ pc \in Final \cup {"create_asm", "quad", "create_c", "pixel"}
  /\ source \in Sources
  /\ new_asm = NULL \/ new_asm \in [Offsets(source) -> Byte \cup {JUNK}]
  /\ new_c = NULL \/ new_c \in [Offsets(source) -> Byte \cup {JUNK}]
  /\ at \in Nat /\ rdx \in Nat
  /\ row \in 0..source.height /\ col \in 0..source.width

\* Twelve bytes at a time, the assembly stays inside the two blocks of an image of
\* four pixels or more, whatever remains when they are divided by four.  Of less than
\* four pixels, which its loop overruns, nothing is said.
InBounds == pc = "overrun" => pixels_num(source) < 4

\* n is the whole number nearest to the thousandths t, within the bytes.
IsNearest(n, t) ==
  \/ n = 0 /\ t <= 500
  \/ n = 255 /\ t >= 254500
  \/ n \in Byte /\ t - 500 <= 1000 * n /\ 1000 * n <= t + 500

\* Pixel i of data is pixel i of the source, filtered.
IsFiltered(data, i) ==
  LET o == PixelSize * i
      t == tone(source.data[o], source.data[o + 1], source.data[o + 2])
  IN  /\ IsNearest(data[o], t + 1000 * BBIAS)
      /\ IsNearest(data[o + 1], t + 1000 * GBIAS)
      /\ IsNearest(data[o + 2], t + 1000 * RBIAS)

\* The assembly filters each pixel from its own three bytes and into its own
\* place, as far as it has come; it leaves the pixels behind the last four
\* alone.
AsmFilters ==
  new_asm # NULL =>
    /\ \A i \in 0..(pixels_num(source) - 1) :
         IF PixelSize * i < at THEN IsFiltered(new_asm, i)
         ELSE \A k \in 0..2 : new_asm[PixelSize * i + k] = JUNK
    /\ pc \in {"create_c", "pixel", "done"} => at = QuadSize * quad_num(source)

\* The two filters agree up to 1 on every channel of every pixel that the
\* assembly writes.
OutputsAgree ==
  pc = "done" =>
    \A o \in 0..(QuadSize * quad_num(source) - 1) :
      new_asm[o] - new_c[o] \in {-1, 0, 1}
-----------------------------------------------------------------------------
(* What the comments say and the code does not do.                         *)

\* transformator_asm.h: the assembly creates an image copy that the sepia filter
\* is applied to.
AsmCopiesImage ==
  pc \in {"create_c", "pixel", "done"} =>
    \A i \in 0..(pixels_num(source) - 1) : IsFiltered(new_asm, i)
===============================================================================
