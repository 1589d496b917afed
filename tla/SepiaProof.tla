------------------------------ MODULE SepiaProof ------------------------------
(***************************************************************************)
(* Proofs about Sepia, for every set of images: types, the bounds and the  *)
(* result of the assembly, and that the C code comes to the same; and      *)
(* about the program around the two filters, what it has saved at its end. *)
(***************************************************************************)
EXTENDS SepiaProgram, TLAPS

Data == [Offsets(source) -> Byte \cup {JUNK}]

\* While the loop of the assembly runs over an image of four pixels or more,
\* another iteration is due, and those left end with the last whole quad.
Counting ==
  pc = "quad" /\ pixels_num(source) >= 4 =>
    /\ new_asm \in Data
    /\ rdx > 0
    /\ at + QuadSize * rdx = QuadSize * quad_num(source)

IInv == TypeOK /\ Counting /\ InBounds
-----------------------------------------------------------------------------
(* Lemmas.                                                                 *)

\* The number of pixels is a number.
LEMMA SourceType ==
  ASSUME source \in Sources
  PROVE  /\ source.width \in Nat /\ source.height \in Nat
         /\ pixels_num(source) \in Nat
         /\ source.data \in [Offsets(source) -> Byte]
<1>1. source.width \in Nat /\ source.height \in Nat
  BY SourcesAssumption
<1>2. \A m, n \in Nat : m * n \in Nat
  OBVIOUS
<1> QED BY <1>1, <1>2, SourcesAssumption DEF pixels_num

\* The tone of a colour is a whole number of thousandths.
LEMMA ToneType ==
  ASSUME NEW b \in Byte, NEW g \in Byte, NEW r \in Byte
  PROVE  tone(b, g, r) \in Nat
BY DEF tone, Byte

\* Packing saturates: a byte, the one nearest to the value within the bytes.
LEMMA LaneNearest ==
  ASSUME NEW t \in Int, NEW bias \in Int, NEW n \in Lane(t, bias)
  PROVE  n \in Byte /\ IsNearest(n, t + 1000 * bias)
<1> DEFINE u == t + 1000 * bias
<1>1. u \in Int
  OBVIOUS
<1>2. PICK m \in Nearest(u) : n = saturate(m)
  BY DEF Lane
<1>3. m \in Int /\ u - 500 <= 1000 * m /\ 1000 * m <= u + 500
  BY <1>1, <1>2 DEF Nearest
<1>4. n \in Byte /\ IsNearest(n, u)
  BY <1>1, <1>2, <1>3 DEF saturate, IsNearest, Byte
<1> QED BY <1>4

\* The C code's channels are bytes.
LEMMA TruncatedType ==
  ASSUME NEW t \in Int, NEW n \in Truncated(t)
  PROVE  n \in Byte
BY DEF Truncated, saturate, Byte

\* Writing bytes into a block keeps it a block of bytes.
LEMMA PutType ==
  ASSUME NEW data, data = NULL \/ data \in Data,
         NEW o \in Int, NEW s \in Seq(Byte)
  PROVE  /\ put(data, o, s) = NULL \/ put(data, o, s) \in Data
         /\ data \in Data => put(data, o, s) \in Data
<1>1. CASE data = NULL
  <2>1. DOMAIN data = {}
    BY <1>1 DEF NULL
  <2>2. put(data, o, s) = NULL
    BY <2>1 DEF put, NULL
  <2> QED BY <1>1, <2>2
<1>2. CASE data \in Data
  <2>1. ASSUME NEW i \in Offsets(source), i \in o..(o + Len(s) - 1)
        PROVE  s[i - o + 1] \in Byte
    BY <2>1 DEF Offsets
  <2> QED BY <1>2, <2>1 DEF put, Data
<1> QED BY <1>1, <1>2

\* The place of a pixel lies in the image.
LEMMA PixelInside ==
  ASSUME NEW w \in Nat, NEW h \in Nat, NEW y \in Nat, NEW x \in Nat, y < h, x < w
  PROVE  w * y + x \in 0..(w * h - 1)
<1>1. w * h = w * y + w * (h - y)
  OBVIOUS
<1>2. w * (h - y) >= w
  OBVIOUS
<1> QED BY <1>1, <1>2
-----------------------------------------------------------------------------
(* The steps.                                                              *)

LEMMA InitTyped == Init => IInv
<1> SUFFICES ASSUME Init PROVE IInv
  OBVIOUS
<1>1. source.width \in Nat /\ source.height \in Nat
  BY SourceType DEF Init
<1> QED BY <1>1 DEF Init, IInv, TypeOK, Counting, InBounds, Final

\* The bytes of the quad at hand.
LEMMA QuadBytes ==
  ASSUME TypeOK, Quad \subseteq Offsets(source)
  PROVE  \A k \in 1..12 : in(k) \in Byte
<1>1. ASSUME NEW k \in 1..12
      PROVE  at + k - 1 \in Quad
  BY DEF TypeOK, Quad, QuadSize
<1> QED BY <1>1, SourceType DEF TypeOK, in

LEMMA TonesType ==
  ASSUME TypeOK, Quad \subseteq Offsets(source)
  PROVE  \A i \in 1..4 : tones[i] \in Int
<1>1. \A k \in 1..12 : in(k) \in Byte
  BY QuadBytes
<1>2. ASSUME NEW i \in 1..4
      PROVE  r8_in[i] \in Byte /\ r9_in[i] \in Byte /\ r10_in[i] \in Byte
  BY <1>1 DEF r8_in, r9_in, r10_in
<1>3. ASSUME NEW i \in 1..4
      PROVE  tone(r9_in[i], r8_in[i], r10_in[i]) \in Nat
  BY <1>2, ToneType
<1> QED BY <1>3 DEF tones

\* The bytes an iteration writes: twelve, each filtered from a tone.
LEMMA PackType ==
  ASSUME TypeOK, Quad \subseteq Offsets(source),
         NEW r8 \in Vector(tones, GBIAS), NEW r9 \in Vector(tones, BBIAS),
         NEW r10 \in Vector(tones, RBIAS)
  PROVE  /\ pack(r8, r9, r10) \in Seq(Byte)
         /\ Len(pack(r8, r9, r10)) = QuadSize
         /\ \A i \in 1..4 : /\ r8[i] \in Lane(tones[i], GBIAS)
                             /\ r9[i] \in Lane(tones[i], BBIAS)
                             /\ r10[i] \in Lane(tones[i], RBIAS)
<1>1. /\ \A i \in 1..4 : r8[i] \in Lane(tones[i], GBIAS)
      /\ \A i \in 1..4 : r9[i] \in Lane(tones[i], BBIAS)
      /\ \A i \in 1..4 : r10[i] \in Lane(tones[i], RBIAS)
  BY DEF Vector
<1>2. \A i \in 1..4 : r8[i] \in Byte /\ r9[i] \in Byte /\ r10[i] \in Byte
  BY <1>1, TonesType, LaneNearest DEF GBIAS, BBIAS, RBIAS
<1> QED BY <1>1, <1>2 DEF pack, QuadSize

LEMMA CreateAsmTyped ==
  ASSUME IInv, CreateAsm
  PROVE  IInv'
<1>1. /\ source.width \in Nat /\ source.height \in Nat
      /\ pixels_num(source) \in Nat
  BY SourceType DEF IInv, TypeOK
<1>2. Room \in Data
  BY DEF Room, Data
<1>3. TypeOK'
  BY <1>1, <1>2 DEF IInv, TypeOK, CreateAsm, Data, Final, quad_num
<1>4. Counting'
  <2>1. pc' = "quad" /\ pixels_num(source) >= 4 => new_asm' = Room
    BY <1>1 DEF CreateAsm
  <2>2. pixels_num(source) >= 4 => pixels_num(source) \div 4 > 0
    BY <1>1
  <2>3. /\ Data' = Data /\ quad_num(source)' = quad_num(source)
        /\ pixels_num(source)' = pixels_num(source)
    BY DEF CreateAsm, Data, Offsets, quad_num, pixels_num
  <2>4. at' + QuadSize * rdx' = QuadSize * quad_num(source)
    BY <1>1 DEF CreateAsm, quad_num, QuadSize
  <2>5. rdx' = pixels_num(source) \div 4
    BY DEF CreateAsm, quad_num
  <2> QED BY <1>2, <2>1, <2>2, <2>3, <2>4, <2>5 DEF Counting
<1>5. InBounds'
  BY DEF CreateAsm, InBounds
<1> QED BY <1>3, <1>4, <1>5 DEF IInv

LEMMA AsmQuadTyped ==
  ASSUME IInv, AsmQuad
  PROVE  IInv'
<1>1. pixels_num(source) \in Nat
  BY SourceType DEF IInv, TypeOK
<1>2. Quad \subseteq Offsets(source)
  BY DEF AsmQuad
\* An image with room for a quad has four pixels.
<1>3. pixels_num(source) >= 4
  <2>1. at + 11 \in Offsets(source)
    BY <1>2 DEF Quad, QuadSize, IInv, TypeOK
  <2> QED BY <1>1, <2>1 DEF Offsets, PixelSize, IInv, TypeOK
<1>4. /\ new_asm \in Data /\ rdx > 0
      /\ at + QuadSize * rdx = QuadSize * quad_num(source)
  BY <1>3 DEF AsmQuad, IInv, Counting
<1>5. PICK r8 \in Vector(tones, GBIAS), r9 \in Vector(tones, BBIAS),
           r10 \in Vector(tones, RBIAS) :
        new_asm' = put(new_asm, at, pack(r8, r9, r10))
  BY DEF AsmQuad
<1>6. pack(r8, r9, r10) \in Seq(Byte)
  BY <1>2, PackType DEF IInv
<1>7. new_asm' \in Data
  BY <1>4, <1>5, <1>6, PutType DEF IInv, TypeOK
<1>8. at' = at + QuadSize /\ rdx' = rdx - 1 /\ rdx' \in Nat /\ at' \in Nat
  BY <1>4 DEF AsmQuad, IInv, TypeOK, QuadSize
<1>9. TypeOK'
  BY <1>7, <1>8 DEF AsmQuad, IInv, TypeOK, Data, Final
<1>10. Counting'
  <2>1. pc' = "quad" => rdx' > 0
    <3>1. pc' = IF rdx' = 0 THEN "create_c" ELSE "quad"
      BY DEF AsmQuad
    <3>2. rdx' = 0 \/ rdx' > 0
      BY <1>4, <1>8 DEF IInv, TypeOK
    <3>3. rdx' = 0 => pc' # "quad"
      BY <3>1
    <3> QED BY <3>2, <3>3
  <2>2. /\ Data' = Data /\ quad_num(source)' = quad_num(source)
        /\ pixels_num(source)' = pixels_num(source)
    BY DEF AsmQuad, Data, Offsets, quad_num, pixels_num
  <2>3. at' + QuadSize * rdx' = QuadSize * quad_num(source)
    BY <1>4, <1>8 DEF QuadSize, IInv, TypeOK
  <2>4. at' + QuadSize * rdx' = QuadSize * (quad_num(source)')
    BY <2>2, <2>3
  <2>5. new_asm' \in Data'
    BY <1>7, <2>2
  <2> QED BY <2>1, <2>4, <2>5 DEF Counting
<1>11. InBounds'
  BY DEF AsmQuad, InBounds
<1> QED BY <1>9, <1>10, <1>11 DEF IInv

\* The code's last whole quad ends inside the image.
LEMMA AsmOutsideTyped ==
  ASSUME IInv, AsmOutside
  PROVE  IInv'
<1>1. pixels_num(source) \in Nat
  BY SourceType DEF IInv, TypeOK
<1>2. pixels_num(source) < 4
  <2> SUFFICES ASSUME pixels_num(source) >= 4 PROVE FALSE
    BY <1>1
  <2>1. rdx > 0 /\ at + QuadSize * rdx = QuadSize * quad_num(source)
    BY DEF AsmOutside, IInv, Counting
  <2>2. QuadSize * quad_num(source) <= PixelSize * pixels_num(source)
    BY <1>1 DEF QuadSize, PixelSize, quad_num
  <2>3. quad_num(source) \in Nat
    BY <1>1 DEF quad_num
  <2>4. at + QuadSize <= PixelSize * pixels_num(source)
    BY <1>1, <2>1, <2>2, <2>3 DEF QuadSize, PixelSize, IInv, TypeOK
  <2>5. Quad \subseteq Offsets(source)
    BY <1>1, <2>4 DEF Quad, Offsets, QuadSize, PixelSize, IInv, TypeOK
  <2> QED BY <2>5 DEF AsmOutside
<1>3. TypeOK'
  BY DEF AsmOutside, IInv, TypeOK, Final
<1>4. Counting'
  BY DEF AsmOutside, Counting
<1>5. InBounds'
  BY <1>2 DEF AsmOutside, InBounds, pixels_num
<1> QED BY <1>3, <1>4, <1>5 DEF IInv

LEMMA CreateCTyped ==
  ASSUME IInv, CreateC
  PROVE  IInv'
<1>1. source.width \in Nat /\ source.height \in Nat
  BY SourceType DEF IInv, TypeOK
<1>2. Room \in Data
  BY DEF Room, Data
<1>3. TypeOK'
  BY <1>1, <1>2 DEF CreateC, IInv, TypeOK, Data, Final
<1> QED BY <1>3 DEF CreateC, IInv, Counting, InBounds

LEMMA CPixelTyped ==
  ASSUME IInv, CPixel
  PROVE  IInv'
<1>1. /\ source.width \in Nat /\ source.height \in Nat
      /\ source.data \in [Offsets(source) -> Byte]
  BY SourceType DEF IInv, TypeOK
<1>2. row \in Nat /\ col \in Nat /\ row < source.height /\ col < source.width
  BY <1>1 DEF CPixel, IInv, TypeOK
<1>3. source.width * row + col \in 0..(pixels_num(source) - 1)
  BY <1>1, <1>2, PixelInside DEF pixels_num
<1>4. /\ Index \in Offsets(source) /\ Index + 1 \in Offsets(source)
      /\ Index + 2 \in Offsets(source) /\ Index \in Int
  <2> DEFINE i == source.width * row + col
             n == pixels_num(source)
  <2>1. i \in 0..(n - 1) /\ n \in Nat
    BY <1>3, SourceType DEF IInv, TypeOK
  <2> HIDE DEF i, n
  <2>2. 3 * i \in 0..(3 * n - 1) /\ 3 * i + 1 \in 0..(3 * n - 1) /\ 3 * i + 2 \in 0..(3 * n - 1)
    BY <2>1
  <2> QED BY <2>2 DEF i, n, Index, Offsets, PixelSize
<1>5. PICK p \in pixel_apply_sepia(source.data[Index], source.data[Index + 1], source.data[Index + 2]) :
        new_c' = put(new_c, Index, p)
  BY DEF CPixel
<1>6. p \in Seq(Byte)
  <2> DEFINE t == tone(source.data[Index], source.data[Index + 1], source.data[Index + 2])
  <2>1. t \in Int
    BY <1>1, <1>4, ToneType
  <2>2. PICK nb \in Truncated(t + 1000 * BBIAS), ng \in Truncated(t + 1000 * GBIAS),
             nr \in Truncated(t + 1000 * RBIAS) : p = <<nb, ng, nr>>
    BY <1>5 DEF pixel_apply_sepia
  <2> HIDE DEF t
  <2>3. /\ t + 1000 * BBIAS \in Int /\ t + 1000 * GBIAS \in Int
        /\ t + 1000 * RBIAS \in Int
    BY <2>1 DEF BBIAS, GBIAS, RBIAS
  <2>4. nb \in Byte /\ ng \in Byte /\ nr \in Byte
    BY <2>3, TruncatedType
  <2> QED BY <2>2, <2>4
<1>7. new_c' = NULL \/ new_c' \in Data
  BY <1>4, <1>5, <1>6, PutType DEF IInv, TypeOK, Data
<1>8. TypeOK'
  BY <1>1, <1>2, <1>7 DEF CPixel, IInv, TypeOK, Data, Final
<1>9. Counting' /\ InBounds'
  BY DEF CPixel, IInv, Counting, InBounds
<1> QED BY <1>8, <1>9 DEF IInv

LEMMA StepTyped == IInv /\ [Next]_vars => IInv'
<1> SUFFICES ASSUME IInv, [Next]_vars PROVE IInv'
  OBVIOUS
<1>1. CASE CreateAsm
  BY <1>1, CreateAsmTyped
<1>2. CASE AsmQuad
  BY <1>2, AsmQuadTyped
<1>3. CASE AsmOutside
  BY <1>3, AsmOutsideTyped
<1>4. CASE CreateC
  BY <1>4, CreateCTyped
<1>5. CASE CPixel
  BY <1>5, CPixelTyped
<1>6. CASE CRowDone
  <2>1. source.width \in Nat /\ source.height \in Nat
    BY SourceType DEF IInv, TypeOK
  <2> QED BY <1>6, <2>1 DEF CRowDone, IInv, TypeOK, Counting, InBounds, Final
<1>7. CASE CDone
  BY <1>7 DEF CDone, IInv, TypeOK, Counting, InBounds, Final
<1>8. CASE UNCHANGED vars
  <2>1. TypeOK' /\ InBounds'
    BY <1>8 DEF vars, IInv, TypeOK, InBounds, pixels_num
  <2>2. Counting'
    BY <1>8 DEF vars, IInv, Counting, Data, Offsets
  <2> QED BY <2>1, <2>2 DEF IInv
<1> QED BY <1>1, <1>2, <1>3, <1>4, <1>5, <1>6, <1>7, <1>8 DEF Next, Stopped

\* For every set of images, both filters write bytes only, and only into the
\* blocks of their images.
THEOREM Typed == Spec => []TypeOK
<1>1. Spec => []IInv
  BY InitTyped, StepTyped, PTL DEF Spec
<1> QED BY <1>1, PTL DEF IInv

\* The assembly leaves the blocks for no image of four pixels or more,
\* whatever its width and height.
THEOREM Bounds == Spec => []InBounds
<1>1. Spec => []IInv
  BY InitTyped, StepTyped, PTL DEF Spec
<1> QED BY <1>1, PTL DEF IInv
-----------------------------------------------------------------------------
(* What the assembly writes.                                               *)

\* Quads begin where a quad may begin.
Aligned == \E m \in Nat : at = QuadSize * m

FInv == IInv /\ Aligned /\ AsmFilters

\* A pixel before the quad at hand ends before it, one behind begins behind it,
\* and one inside is one of its four.
LEMMA PixelOfQuad ==
  ASSUME NEW m \in Nat, NEW i \in Nat
  PROVE  \/ 3 * i + 2 < 12 * m
         \/ 3 * i >= 12 * m + 12
         \/ 3 * i = 12 * m
         \/ 3 * i = 12 * m + 3
         \/ 3 * i = 12 * m + 6
         \/ 3 * i = 12 * m + 9
OBVIOUS

LEMMA PutReads ==
  ASSUME NEW data \in Data, NEW o \in Int, NEW s \in Seq(Byte), NEW i \in Offsets(source)
  PROVE  put(data, o, s)[i] =
           IF i \in o..(o + Len(s) - 1) THEN s[i - o + 1] ELSE data[i]
BY DEF put, Data

\* The offset of each byte of a pixel.
LEMMA PixelOffsets ==
  ASSUME source \in Sources, NEW i \in 0..(pixels_num(source) - 1)
  PROVE  /\ PixelSize * i \in Offsets(source)
         /\ PixelSize * i + 1 \in Offsets(source)
         /\ PixelSize * i + 2 \in Offsets(source)
BY SourceType DEF Offsets, PixelSize

LEMMA CreateAsmFilters ==
  ASSUME FInv, CreateAsm
  PROVE  Aligned' /\ AsmFilters'
<1>1. at' = 0 /\ source' = source
  BY DEF CreateAsm
<1>2. Aligned'
  BY <1>1 DEF Aligned, QuadSize
<1>3. pc' \notin {"create_c", "pixel", "done"}
  BY DEF CreateAsm
<1>4. ASSUME new_asm' # NULL, NEW i \in 0..(pixels_num(source) - 1)
      PROVE  /\ ~ (PixelSize * i < 0)
             /\ \A k \in 0..2 : new_asm'[PixelSize * i + k] = JUNK
  <2>1. new_asm' = Room
    BY <1>4 DEF CreateAsm
  <2>2. \A k \in 0..2 : PixelSize * i + k \in Offsets(source)
    BY PixelOffsets DEF FInv, IInv, TypeOK, PixelSize
  <2>3. ~ (PixelSize * i < 0)
    BY SourceType DEF PixelSize, FInv, IInv, TypeOK
  <2> QED BY <2>1, <2>2, <2>3 DEF Room
<1>5. pixels_num(source)' = pixels_num(source)
  BY <1>1 DEF pixels_num
<1>6. AsmFilters'
  BY <1>1, <1>3, <1>4, <1>5 DEF AsmFilters
<1> QED BY <1>2, <1>6

LEMMA AsmQuadFilters ==
  ASSUME FInv, AsmQuad
  PROVE  Aligned' /\ AsmFilters'
<1>1. /\ TypeOK /\ source' = source /\ at' = at + QuadSize
      /\ Quad \subseteq Offsets(source)
  BY DEF FInv, IInv, AsmQuad
<1>2. PICK m \in Nat : at = 12 * m
  BY DEF FInv, Aligned, QuadSize
<1>3. Aligned'
  <2>1. m + 1 \in Nat /\ at' = QuadSize * (m + 1)
    BY <1>1, <1>2 DEF QuadSize
  <2> QED BY <2>1 DEF Aligned
<1>4. PICK r8 \in Vector(tones, GBIAS), r9 \in Vector(tones, BBIAS),
           r10 \in Vector(tones, RBIAS) :
        new_asm' = put(new_asm, at, pack(r8, r9, r10))
  BY DEF AsmQuad
<1> DEFINE s == pack(r8, r9, r10)
<1>5. /\ s \in Seq(Byte) /\ Len(s) = 12
      /\ \A i \in 1..4 : /\ r8[i] \in Lane(tones[i], GBIAS)
                          /\ r9[i] \in Lane(tones[i], BBIAS)
                          /\ r10[i] \in Lane(tones[i], RBIAS)
  BY <1>1, PackType DEF QuadSize
<1>6. \A i \in 1..4 : /\ IsNearest(r8[i], tones[i] + 1000 * GBIAS)
                      /\ IsNearest(r9[i], tones[i] + 1000 * BBIAS)
                      /\ IsNearest(r10[i], tones[i] + 1000 * RBIAS)
  <2>1. GBIAS \in Int /\ BBIAS \in Int /\ RBIAS \in Int
    BY DEF GBIAS, BBIAS, RBIAS
  <2>2. \A i \in 1..4 : tones[i] \in Int
    BY <1>1, TonesType
  <2>3. ASSUME NEW i \in 1..4 PROVE IsNearest(r8[i], tones[i] + 1000 * GBIAS)
    <3>1. r8[i] \in Lane(tones[i], GBIAS) /\ tones[i] \in Int
      BY <1>5, <2>2
    <3> QED BY <2>1, <3>1, LaneNearest
  <2>4. ASSUME NEW i \in 1..4 PROVE IsNearest(r9[i], tones[i] + 1000 * BBIAS)
    <3>1. r9[i] \in Lane(tones[i], BBIAS) /\ tones[i] \in Int
      BY <1>5, <2>2
    <3> QED BY <2>1, <3>1, LaneNearest
  <2>5. ASSUME NEW i \in 1..4 PROVE IsNearest(r10[i], tones[i] + 1000 * RBIAS)
    <3>1. r10[i] \in Lane(tones[i], RBIAS) /\ tones[i] \in Int
      BY <1>5, <2>2
    <3> QED BY <2>1, <3>1, LaneNearest
  <2> QED BY <2>3, <2>4, <2>5
<1>7. pixels_num(source) \in Nat /\ pixels_num(source) >= 4
  <2>1. pixels_num(source) \in Nat
    BY <1>1, SourceType DEF TypeOK
  <2>2. at + 11 \in Offsets(source)
    BY <1>1, <1>2 DEF Quad, QuadSize
  <2> QED BY <1>2, <2>1, <2>2 DEF Offsets, PixelSize
<1>8. /\ new_asm \in Data
      /\ rdx > 0 /\ at + QuadSize * rdx = QuadSize * quad_num(source)
  BY <1>7 DEF FInv, IInv, Counting, AsmQuad
<1>9. \A o \in Offsets(source) :
        new_asm'[o] = IF o \in at..(at + 11) THEN s[o - at + 1] ELSE new_asm[o]
  <2> HIDE DEF s
  <2>1. s \in Seq(Byte) /\ at \in Int /\ Len(s) = 12
    BY <1>1, <1>5 DEF TypeOK
  <2>2. new_asm' = put(new_asm, at, s)
    BY <1>4 DEF s
  <2>3. at + Len(s) - 1 = at + 11
    BY <2>1
  <2>4. ASSUME NEW o \in Offsets(source)
        PROVE  put(new_asm, at, s)[o] =
                 IF o \in at..(at + Len(s) - 1) THEN s[o - at + 1] ELSE new_asm[o]
    <3>1. new_asm \in Data
      BY <1>8
    <3> QED BY <3>1 DEF put, Data
  <2> QED BY <2>2, <2>3, <2>4
<1>10. new_asm # NULL
  <2>1. 0 \in Offsets(source)
    BY <1>7 DEF Offsets, PixelSize
  <2> QED BY <1>8, <2>1 DEF NULL, Data
<1>11. ASSUME NEW i \in 0..(pixels_num(source) - 1)
       PROVE  IF PixelSize * i < at + 12 THEN IsFiltered(new_asm', i)
              ELSE \A k \in 0..2 : new_asm'[PixelSize * i + k] = JUNK
  <2> DEFINE o == 3 * i
  <2>1. o \in Offsets(source) /\ o + 1 \in Offsets(source) /\ o + 2 \in Offsets(source)
    BY <1>1, PixelOffsets DEF TypeOK, PixelSize
  <2>2. o \in Nat /\ i \in Nat
    BY <1>7
  <2>3. IF o < at THEN IsFiltered(new_asm, i)
        ELSE new_asm[o] = JUNK /\ new_asm[o + 1] = JUNK /\ new_asm[o + 2] = JUNK
    <3>1. IF PixelSize * i < at THEN IsFiltered(new_asm, i)
          ELSE \A k \in 0..2 : new_asm[PixelSize * i + k] = JUNK
      BY <1>10 DEF FInv, AsmFilters
    <3>2. 0 \in 0..2 /\ 1 \in 0..2 /\ 2 \in 0..2 /\ PixelSize * i + 0 = PixelSize * i
      BY <2>2 DEF PixelSize
    <3> QED BY <3>1, <3>2 DEF PixelSize
  <2>4. CASE o + 2 < at
    <3>1. /\ new_asm'[o] = new_asm[o] /\ new_asm'[o + 1] = new_asm[o + 1]
          /\ new_asm'[o + 2] = new_asm[o + 2]
      BY <1>2, <1>9, <2>1, <2>2, <2>4
    <3>2. o < at /\ o < at + 12
      BY <1>2, <2>2, <2>4
    <3>3. IsFiltered(new_asm', i)
      BY <2>3, <3>1, <3>2 DEF IsFiltered, PixelSize
    <3> QED BY <3>2, <3>3 DEF PixelSize
  <2>5. CASE o >= at + 12
    <3>1. /\ new_asm'[o] = new_asm[o] /\ new_asm'[o + 1] = new_asm[o + 1]
          /\ new_asm'[o + 2] = new_asm[o + 2]
      BY <1>2, <1>9, <2>1, <2>2, <2>5
    <3>2. ~ (o < at) /\ ~ (o < at + 12)
      BY <1>2, <2>2, <2>5
    <3>3. \A k \in 0..2 : new_asm'[o + k] = JUNK
      <4>1. new_asm'[o + 0] = JUNK /\ new_asm'[o + 1] = JUNK /\ new_asm'[o + 2] = JUNK
        BY <2>2, <2>3, <3>1, <3>2
      <4> QED BY <4>1
    <3> QED BY <3>2, <3>3 DEF PixelSize
\* The four pixels of the quad: where their bytes come from and go.
  <2>6. CASE o = at
    <3>1. new_asm'[o] = r9[2] /\ new_asm'[o + 1] = r8[2] /\ new_asm'[o + 2] = r10[2]
      BY <1>2, <1>9, <2>1, <2>2, <2>6 DEF pack
    <3>2. tones[2] = tone(source.data[o], source.data[o + 1], source.data[o + 2])
      BY <1>2, <2>6 DEF tones, r8_in, r9_in, r10_in, in
    <3>3. IsFiltered(new_asm', i)
      BY <1>6, <3>1, <3>2 DEF IsFiltered, PixelSize
    <3> QED BY <1>2, <2>6, <3>3 DEF PixelSize
  <2>7. CASE o = at + 3
    <3>1. new_asm'[o] = r9[3] /\ new_asm'[o + 1] = r8[3] /\ new_asm'[o + 2] = r10[3]
      BY <1>2, <1>9, <2>1, <2>2, <2>7 DEF pack
    <3>2. tones[3] = tone(source.data[o], source.data[o + 1], source.data[o + 2])
      BY <1>2, <2>7 DEF tones, r8_in, r9_in, r10_in, in
    <3>3. IsFiltered(new_asm', i)
      BY <1>6, <3>1, <3>2 DEF IsFiltered, PixelSize
    <3> QED BY <1>2, <2>7, <3>3 DEF PixelSize
  <2>8. CASE o = at + 6
    <3>1. new_asm'[o] = r9[4] /\ new_asm'[o + 1] = r8[4] /\ new_asm'[o + 2] = r10[4]
      BY <1>2, <1>9, <2>1, <2>2, <2>8 DEF pack
    <3>2. tones[4] = tone(source.data[o], source.data[o + 1], source.data[o + 2])
      BY <1>2, <2>8 DEF tones, r8_in, r9_in, r10_in, in
    <3>3. IsFiltered(new_asm', i)
      BY <1>6, <3>1, <3>2 DEF IsFiltered, PixelSize
    <3> QED BY <1>2, <2>8, <3>3 DEF PixelSize
  <2>9. CASE o = at + 9
    <3>1. new_asm'[o] = r9[1] /\ new_asm'[o + 1] = r8[1] /\ new_asm'[o + 2] = r10[1]
      BY <1>2, <1>9, <2>1, <2>2, <2>9 DEF pack
    <3>2. tones[1] = tone(source.data[o], source.data[o + 1], source.data[o + 2])
      BY <1>2, <2>9 DEF tones, r8_in, r9_in, r10_in, in
    <3>3. IsFiltered(new_asm', i)
      BY <1>6, <3>1, <3>2 DEF IsFiltered, PixelSize
    <3> QED BY <1>2, <2>9, <3>3 DEF PixelSize
  <2>10. \/ o + 2 < at \/ o >= at + 12 \/ o = at
         \/ o = at + 3 \/ o = at + 6 \/ o = at + 9
    BY <1>2, <2>2, PixelOfQuad
  <2> QED BY <2>4, <2>5, <2>6, <2>7, <2>8, <2>9, <2>10
<1>12. pc' \in {"create_c", "pixel", "done"} => at' = QuadSize * quad_num(source)
  <2>1. pc' = IF rdx' = 0 THEN "create_c" ELSE "quad"
    BY DEF AsmQuad
  <2>2. rdx' = rdx - 1 /\ rdx \in Nat
    BY <1>1 DEF AsmQuad, TypeOK
  <2>3. rdx' = 0 => rdx = 1
    BY <2>2
  <2>4. rdx = 1 => at' = QuadSize * quad_num(source)
    BY <1>1, <1>8 DEF QuadSize
  <2> QED BY <2>1, <2>3, <2>4
<1>13. AsmFilters'
  <2>1. /\ pixels_num(source)' = pixels_num(source)
        /\ quad_num(source)' = quad_num(source)
        /\ at' = at + 12
    BY <1>1 DEF pixels_num, quad_num, QuadSize
  <2>2. \A i : IsFiltered(new_asm, i)' <=> IsFiltered(new_asm', i)
    BY <1>1 DEF IsFiltered
  <2> QED BY <1>11, <1>12, <2>1, <2>2 DEF AsmFilters
<1> QED BY <1>3, <1>13

LEMMA InitFilters == Init => Aligned /\ AsmFilters
<1> SUFFICES ASSUME Init PROVE Aligned /\ AsmFilters
  OBVIOUS
<1>1. at = QuadSize * 0
  BY DEF Init, QuadSize
<1> QED BY <1>1 DEF Init, Aligned, AsmFilters

\* No step but those of the assembly touches what it has written.
LEMMA StepFilters == FInv /\ [Next]_vars => FInv'
<1> SUFFICES ASSUME FInv, [Next]_vars PROVE FInv'
  OBVIOUS
<1>1. IInv'
  BY StepTyped DEF FInv
<1>2. ASSUME UNCHANGED <<source, new_asm, at>>,
             pc' \in {"create_c", "pixel", "done"} => pc \in {"create_c", "pixel", "done"}
      PROVE  Aligned' /\ AsmFilters'
  <2>1. Aligned'
    BY <1>2 DEF FInv, Aligned
  <2>2. /\ pixels_num(source)' = pixels_num(source)
        /\ quad_num(source)' = quad_num(source)
        /\ at' = at /\ new_asm' = new_asm
        /\ \A i : IsFiltered(new_asm, i)' <=> IsFiltered(new_asm, i)
    BY <1>2 DEF pixels_num, quad_num, IsFiltered
  <2>3. AsmFilters'
    BY <1>2, <2>2 DEF FInv, AsmFilters
  <2> QED BY <2>1, <2>3
<1>3. CASE CreateAsm
  BY <1>1, <1>3, CreateAsmFilters DEF FInv
<1>4. CASE AsmQuad
  BY <1>1, <1>4, AsmQuadFilters DEF FInv
<1>5. CASE AsmOutside
  BY <1>1, <1>2, <1>5 DEF AsmOutside, FInv
<1>6. CASE CreateC
  BY <1>1, <1>2, <1>6 DEF CreateC, FInv
<1>7. CASE CPixel
  BY <1>1, <1>2, <1>7 DEF CPixel, FInv
<1>8. CASE CRowDone
  BY <1>1, <1>2, <1>8 DEF CRowDone, FInv
<1>9. CASE CDone
  BY <1>1, <1>2, <1>9 DEF CDone, FInv
<1>10. CASE UNCHANGED vars
  BY <1>1, <1>2, <1>10 DEF vars, FInv
<1> QED BY <1>3, <1>4, <1>5, <1>6, <1>7, <1>8, <1>9, <1>10 DEF Next, Stopped

\* For every image, the assembly puts the filtered colour of each pixel it has
\* come to into the place of that pixel, to the nearest byte, and touches none
\* of the pixels behind the last whole quad.
THEOREM Filters == Spec => []AsmFilters
<1>1. Init => FInv
  BY InitTyped, InitFilters DEF FInv
<1>2. Spec => []FInv
  BY <1>1, StepFilters, PTL DEF Spec
<1> QED BY <1>2, PTL DEF FInv

-----------------------------------------------------------------------------
(* What the C code writes.                                                 *)

\* n is what is left of the thousandths t when they are cut off, within the
\* bytes; a whole number may have come out just below.
IsCut(n, t) ==
  \/ n = 0 /\ t <= 1000
  \/ n = 255 /\ t >= 255000
  \/ n \in Byte /\ 1000 * n <= t /\ t <= 1000 * n + 1000

\* Pixel i of data is pixel i of the source, filtered by the C code.
IsCutPixel(data, i) ==
  LET o == PixelSize * i
      t == tone(source.data[o], source.data[o + 1], source.data[o + 2])
  IN  /\ IsCut(data[o], t + 1000 * BBIAS)
      /\ IsCut(data[o + 1], t + 1000 * GBIAS)
      /\ IsCut(data[o + 2], t + 1000 * RBIAS)

\* The C code has filtered the pixels before the one it is at; the assembly
\* has had room for its image.
CInv ==
  /\ pc \in {"create_c", "pixel", "done"} /\ pixels_num(source) >= 4 =>
       0 \in DOMAIN new_asm
  /\ pc \in {"pixel", "done"} => DOMAIN new_c = Offsets(source)
  /\ pc = "pixel" =>
       \A i \in 0..(pixels_num(source) - 1) :
         i < source.width * row + col => IsCutPixel(new_c, i)
  /\ pc = "done" => \A i \in 0..(pixels_num(source) - 1) : IsCutPixel(new_c, i)

GInv == FInv /\ CInv

\* Rounded and cut off, the same number differs by 1 at most.
LEMMA NearCut ==
  ASSUME NEW t \in Int, NEW m, NEW n, IsNearest(m, t), IsCut(n, t)
  PROVE  m - n \in {-1, 0, 1}
<1>1. m \in Byte /\ n \in Byte
  BY DEF IsNearest, IsCut, Byte
<1>2. m \in Int /\ 0 <= m /\ m <= 255 /\ n \in Int /\ 0 <= n /\ n <= 255
  BY <1>1 DEF Byte
<1>3. \/ m = 0 /\ t <= 500
      \/ m = 255 /\ t >= 254500
      \/ t - 500 <= 1000 * m /\ 1000 * m <= t + 500
  BY DEF IsNearest
<1>4. \/ n = 0 /\ t <= 1000
      \/ n = 255 /\ t >= 255000
      \/ 1000 * n <= t /\ t <= 1000 * n + 1000
  BY DEF IsCut
<1>5. -1 <= m - n /\ m - n <= 1
  BY <1>2, <1>3, <1>4
<1> QED BY <1>2, <1>5

\* The C code truncates, within the bytes.
LEMMA TruncatedCut ==
  ASSUME NEW t \in Int, NEW n \in Truncated(t)
  PROVE  n \in Byte /\ IsCut(n, t)
<1> DEFINE q == t \div 1000
           r == t % 1000
<1>1. q \in Int /\ r \in 0..999 /\ t = 1000 * q + r
  OBVIOUS
<1>2. \/ r = 0 /\ t > 0 /\ t <= 255000 /\ n \in {q, q - 1}
      \/ n = saturate(q)
  BY DEF Truncated
<1> HIDE DEF q, r
<1>3. CASE r = 0 /\ t > 0 /\ t <= 255000 /\ n \in {q, q - 1}
  <2>1. q \in 1..255
    BY <1>1, <1>3
  <2> QED BY <1>1, <1>3, <2>1 DEF IsCut, Byte
<1>4. CASE n = saturate(q)
  BY <1>1, <1>4 DEF saturate, IsCut, Byte
<1> QED BY <1>2, <1>3, <1>4

\* Where a pixel's bytes are, for two numbers of pixels.
LEMMA SamePixel ==
  ASSUME NEW i \in Nat, NEW j \in Nat
  PROVE  \/ i = j
         \/ 3 * i + 2 < 3 * j
         \/ 3 * i > 3 * j + 2
OBVIOUS

LEMMA PixelCut ==
  ASSUME GInv, CPixel
  PROVE  CInv'
<1>1. /\ TypeOK /\ pc = "pixel" /\ pc' = "pixel" /\ source' = source /\ new_asm' = new_asm
      /\ row' = row /\ col' = col + 1 /\ row < source.height /\ col < source.width
  BY DEF GInv, FInv, IInv, CPixel
<1>2. /\ source.width \in Nat /\ source.height \in Nat /\ pixels_num(source) \in Nat
      /\ source.data \in [Offsets(source) -> Byte] /\ row \in Nat /\ col \in Nat
  BY <1>1, SourceType DEF TypeOK
<1> DEFINE j == source.width * row + col
           n == pixels_num(source)
<1>3. j \in 0..(n - 1) /\ source.width * row \in Nat
  BY <1>1, <1>2, PixelInside DEF pixels_num
<1>4. /\ Index = 3 * j
      /\ 3 * j \in Offsets(source) /\ 3 * j + 1 \in Offsets(source) /\ 3 * j + 2 \in Offsets(source)
  <2>1. source \in Sources
    BY <1>1 DEF TypeOK
  <2> QED BY <1>3, <2>1, PixelOffsets DEF Index, PixelSize
<1> HIDE DEF n
<1>5. j \in Nat /\ n \in Nat
  BY <1>2, <1>3 DEF n
<1> HIDE DEF j
<1> DEFINE t == tone(source.data[3 * j], source.data[3 * j + 1], source.data[3 * j + 2])
<1>6. PICK p \in pixel_apply_sepia(source.data[3 * j], source.data[3 * j + 1],
                                   source.data[3 * j + 2]) :
        new_c' = put(new_c, 3 * j, p)
  BY <1>4 DEF CPixel
<1>7. PICK nb \in Truncated(t + 1000 * BBIAS), ng \in Truncated(t + 1000 * GBIAS),
           nr \in Truncated(t + 1000 * RBIAS) : p = <<nb, ng, nr>>
  BY <1>6 DEF pixel_apply_sepia
<1>8. t \in Int
  BY <1>2, <1>4, ToneType
<1>9. /\ IsCut(nb, t + 1000 * BBIAS) /\ IsCut(ng, t + 1000 * GBIAS)
      /\ IsCut(nr, t + 1000 * RBIAS)
  <2> HIDE DEF t
  <2>1. /\ t + 1000 * BBIAS \in Int /\ t + 1000 * GBIAS \in Int /\ t + 1000 * RBIAS \in Int
    BY <1>8 DEF BBIAS, GBIAS, RBIAS
  <2> QED BY <2>1, TruncatedCut
<1>10. /\ DOMAIN new_c = Offsets(source) /\ DOMAIN new_c' = Offsets(source)
       /\ \A o \in Offsets(source) :
            new_c'[o] = IF o = 3 * j THEN nb ELSE IF o = 3 * j + 1 THEN ng
                        ELSE IF o = 3 * j + 2 THEN nr ELSE new_c[o]
  <2>1. DOMAIN new_c = Offsets(source)
    BY <1>1 DEF GInv, CInv
  <2>2. new_c' = [i \in Offsets(source) |->
                    IF i \in (3 * j)..(3 * j + Len(p) - 1) THEN p[i - 3 * j + 1] ELSE new_c[i]]
    BY <1>6, <2>1 DEF put
  <2>3. Len(p) = 3 /\ p[1] = nb /\ p[2] = ng /\ p[3] = nr
    BY <1>7
  <2>4. ASSUME NEW o \in Offsets(source)
        PROVE  new_c'[o] = IF o = 3 * j THEN nb ELSE IF o = 3 * j + 1 THEN ng
                           ELSE IF o = 3 * j + 2 THEN nr ELSE new_c[o]
    <3>1. o \in Int
      BY <1>2 DEF Offsets, PixelSize
    <3>2. /\ o \in (3 * j)..(3 * j + 3 - 1) <=> o = 3 * j \/ o = 3 * j + 1 \/ o = 3 * j + 2
          /\ o = 3 * j => o - 3 * j + 1 = 1
          /\ o = 3 * j + 1 => o - 3 * j + 1 = 2
          /\ o = 3 * j + 2 => o - 3 * j + 1 = 3
      BY <1>5, <3>1
    <3>3. new_c'[o] = IF o \in (3 * j)..(3 * j + 3 - 1) THEN p[o - 3 * j + 1] ELSE new_c[o]
      BY <2>2, <2>3
    <3>4. 3 * j # 3 * j + 1 /\ 3 * j # 3 * j + 2 /\ 3 * j + 1 # 3 * j + 2
      BY <1>5
    <3> QED BY <2>3, <3>2, <3>3, <3>4
  <2> QED BY <2>1, <2>2, <2>4
<1>11. ASSUME NEW i \in 0..(n - 1), i < j + 1
       PROVE  IsCutPixel(new_c', i)
  <2>1. /\ 3 * i \in Offsets(source) /\ 3 * i + 1 \in Offsets(source)
        /\ 3 * i + 2 \in Offsets(source)
    <3>1. source \in Sources
      BY <1>1 DEF TypeOK
    <3> QED BY <3>1, PixelOffsets DEF PixelSize, n
  <2>2. i \in Nat
    BY <1>5
  <2>3. CASE i = j
    <3>1. new_c'[3 * i] = nb /\ new_c'[3 * i + 1] = ng /\ new_c'[3 * i + 2] = nr
      <4>1. 3 * j # 3 * j + 1 /\ 3 * j # 3 * j + 2 /\ 3 * j + 1 # 3 * j + 2
        BY <1>5
      <4> QED BY <1>10, <2>1, <2>3, <4>1
    <3> QED BY <1>9, <2>3, <3>1 DEF IsCutPixel, PixelSize
  <2>4. CASE i # j
    <3>1. i < j /\ 3 * i + 2 < 3 * j
      BY <1>5, <1>11, <2>2, <2>4
    <3>2. IsCutPixel(new_c, i)
      BY <1>1, <3>1 DEF GInv, CInv, j, n
    <3>3. /\ new_c'[3 * i] = new_c[3 * i] /\ new_c'[3 * i + 1] = new_c[3 * i + 1]
          /\ new_c'[3 * i + 2] = new_c[3 * i + 2]
      BY <1>5, <1>10, <2>1, <2>2, <3>1
    <3> QED BY <3>2, <3>3 DEF IsCutPixel, PixelSize
  <2> QED BY <2>3, <2>4
<1>12. source.width * row + (col + 1) = j + 1
  BY <1>2, <1>3 DEF j
<1>13. /\ pixels_num(source)' = n /\ Offsets(source)' = Offsets(source)
       /\ \A i : IsCutPixel(new_c, i)' <=> IsCutPixel(new_c', i)
  BY <1>1 DEF n, pixels_num, Offsets, IsCutPixel
<1>14. n >= 4 => 0 \in DOMAIN new_asm
  BY <1>1 DEF n, GInv, CInv
<1> QED BY <1>1, <1>10, <1>11, <1>12, <1>13, <1>14 DEF CInv

LEMMA QuadRoom ==
  ASSUME GInv, AsmQuad
  PROVE  CInv'
<1>1. TypeOK /\ Counting /\ pc = "quad" /\ source' = source /\ pc' \in {"quad", "create_c"}
  BY DEF GInv, FInv, IInv, AsmQuad
<1>2. DOMAIN new_asm' = DOMAIN new_asm
  BY DEF AsmQuad, put
<1>3. pixels_num(source) \in Nat
  BY <1>1, SourceType DEF TypeOK
<1>4. pixels_num(source) >= 4 => 0 \in DOMAIN new_asm
  BY <1>1, <1>3 DEF Counting, Data, Offsets, PixelSize
<1>5. pixels_num(source)' = pixels_num(source)
  BY <1>1 DEF pixels_num
<1> QED BY <1>1, <1>2, <1>4, <1>5 DEF CInv

LEMMA RoomForC ==
  ASSUME GInv, CreateC
  PROVE  CInv'
<1>1. /\ TypeOK /\ pc = "create_c" /\ source' = source /\ new_asm' = new_asm
      /\ row' = 0 /\ col' = 0 /\ new_c' \in {Room, NULL}
      /\ pc' = IF new_c' = NULL THEN "segfault" ELSE "pixel"
  BY DEF GInv, FInv, IInv, CreateC
<1>2. source.width \in Nat /\ pixels_num(source) \in Nat
  BY <1>1, SourceType DEF TypeOK
<1>3. /\ pixels_num(source)' = pixels_num(source) /\ Offsets(source)' = Offsets(source)
      /\ source.width * 0 + 0 = 0
  BY <1>1, <1>2 DEF pixels_num, Offsets
<1>4. pc' = "pixel" => DOMAIN new_c' = Offsets(source)
  BY <1>1 DEF Room
<1>5. \A i \in 0..(pixels_num(source) - 1) : ~(i < 0)
  BY <1>2
<1>6. pc' # "done"
  BY <1>1
<1>7. pixels_num(source) >= 4 => 0 \in DOMAIN new_asm
  BY <1>1 DEF GInv, CInv
<1> QED BY <1>1, <1>3, <1>4, <1>5, <1>6, <1>7 DEF CInv

LEMMA RowCut ==
  ASSUME GInv, CRowDone
  PROVE  CInv'
<1>1. /\ TypeOK /\ pc = "pixel" /\ pc' = "pixel" /\ source' = source /\ new_asm' = new_asm
      /\ new_c' = new_c /\ row' = row + 1 /\ col' = 0 /\ col = source.width
  BY DEF GInv, FInv, IInv, CRowDone
<1>2. source.width \in Nat /\ row \in Nat
  BY <1>1, SourceType DEF TypeOK
<1>3. source.width * (row + 1) + 0 = source.width * row + source.width
  BY <1>2
<1>4. /\ pixels_num(source)' = pixels_num(source) /\ Offsets(source)' = Offsets(source)
      /\ \A i : IsCutPixel(new_c, i)' <=> IsCutPixel(new_c, i)
  BY <1>1 DEF pixels_num, Offsets, IsCutPixel
<1> QED BY <1>1, <1>3, <1>4 DEF GInv, CInv

\* The last row is behind the last pixel.
LEMMA AllCut ==
  ASSUME GInv, CDone
  PROVE  CInv'
<1>1. /\ TypeOK /\ pc = "pixel" /\ pc' = "done" /\ source' = source /\ new_asm' = new_asm
      /\ new_c' = new_c /\ row = source.height
  BY DEF GInv, FInv, IInv, CDone
<1>2. source.width \in Nat /\ source.height \in Nat /\ pixels_num(source) \in Nat /\ col \in Nat
  BY <1>1, SourceType DEF TypeOK
<1>3. source.width * row + col = pixels_num(source) + col
  BY <1>1 DEF pixels_num
<1>4. \A i \in 0..(pixels_num(source) - 1) : i < source.width * row + col
  BY <1>2, <1>3
<1>5. /\ pixels_num(source)' = pixels_num(source) /\ Offsets(source)' = Offsets(source)
      /\ \A i : IsCutPixel(new_c, i)' <=> IsCutPixel(new_c, i)
  BY <1>1 DEF pixels_num, Offsets, IsCutPixel
<1> QED BY <1>1, <1>4, <1>5 DEF GInv, CInv

LEMMA StepCut == GInv /\ [Next]_vars => GInv'
<1> SUFFICES ASSUME GInv, [Next]_vars PROVE GInv'
  OBVIOUS
<1>1. FInv'
  BY StepFilters DEF GInv
<1>2. CASE CreateAsm
  <2>1. pc' \notin {"create_c", "pixel", "done"}
    BY <1>2 DEF CreateAsm
  <2> QED BY <1>1, <2>1 DEF GInv, CInv
<1>3. CASE AsmOutside
  <2>1. pc' = "overrun"
    BY <1>3 DEF AsmOutside
  <2> QED BY <1>1, <2>1 DEF GInv, CInv
<1>4. CASE AsmQuad
  BY <1>1, <1>4, QuadRoom DEF GInv
<1>5. CASE CreateC
  BY <1>1, <1>5, RoomForC DEF GInv
<1>6. CASE CPixel
  BY <1>1, <1>6, PixelCut DEF GInv
<1>7. CASE CRowDone
  BY <1>1, <1>7, RowCut DEF GInv
<1>8. CASE CDone
  BY <1>1, <1>8, AllCut DEF GInv
<1>9. CASE UNCHANGED vars
  <2>1. /\ pixels_num(source)' = pixels_num(source) /\ Offsets(source)' = Offsets(source)
        /\ \A i : IsCutPixel(new_c, i)' <=> IsCutPixel(new_c, i)
    BY <1>9 DEF vars, pixels_num, Offsets, IsCutPixel
  <2>2. CInv'
    BY <1>9, <2>1 DEF vars, GInv, CInv
  <2> QED BY <1>1, <2>2 DEF GInv
<1> QED BY <1>2, <1>3, <1>4, <1>5, <1>6, <1>7, <1>8, <1>9 DEF Next, Stopped

\* A byte of the quads belongs to one of their pixels.
LEMMA ByteOfPixel ==
  ASSUME NEW n \in Nat, NEW o \in 0..(12 * (n \div 4) - 1)
  PROVE  \E i \in 0..(n - 1) : \E k \in 0..2 : o = 3 * i + k /\ 3 * i < 12 * (n \div 4)
<1> DEFINE i == o \div 3
           k == o % 3
<1>1. o \in Nat /\ i \in Nat /\ k \in 0..2 /\ o = 3 * i + k
  OBVIOUS
<1> HIDE DEF i, k
<1>2. i < n /\ 3 * i < 12 * (n \div 4)
  BY <1>1
<1> QED BY <1>1, <1>2

LEMMA CutAgrees == GInv => OutputsAgree
<1> SUFFICES ASSUME GInv, pc = "done", NEW o \in 0..(QuadSize * quad_num(source) - 1)
             PROVE  new_asm[o] - new_c[o] \in {-1, 0, 1}
  BY DEF OutputsAgree
<1> DEFINE n == pixels_num(source)
<1>1. TypeOK /\ n \in Nat /\ source.data \in [Offsets(source) -> Byte] /\ source \in Sources
  BY SourceType DEF GInv, FInv, IInv, TypeOK
<1>2. quad_num(source) = n \div 4 /\ QuadSize = 12
  BY DEF quad_num, QuadSize
<1> HIDE DEF n
<1>3. PICK i \in 0..(n - 1), k \in 0..2 : o = 3 * i + k /\ 3 * i < 12 * (n \div 4)
  BY <1>1, <1>2, ByteOfPixel
<1>4. n >= 4
  BY <1>1, <1>3
<1>5. new_asm # NULL
  BY <1>4 DEF GInv, CInv, NULL, n
<1>6. IsFiltered(new_asm, i)
  BY <1>2, <1>3, <1>5 DEF GInv, FInv, AsmFilters, PixelSize, n
<1>7. IsCutPixel(new_c, i)
  BY <1>3 DEF GInv, CInv, n
<1> DEFINE t == tone(source.data[3 * i], source.data[3 * i + 1], source.data[3 * i + 2])
<1>8. t \in Int
  <2>1. /\ 3 * i \in Offsets(source) /\ 3 * i + 1 \in Offsets(source)
        /\ 3 * i + 2 \in Offsets(source)
    BY <1>1, PixelOffsets DEF PixelSize, n
  <2> QED BY <1>1, <2>1, ToneType
<1>9. /\ IsNearest(new_asm[3 * i], t + 1000 * BBIAS)
      /\ IsNearest(new_asm[3 * i + 1], t + 1000 * GBIAS)
      /\ IsNearest(new_asm[3 * i + 2], t + 1000 * RBIAS)
      /\ IsCut(new_c[3 * i], t + 1000 * BBIAS)
      /\ IsCut(new_c[3 * i + 1], t + 1000 * GBIAS)
      /\ IsCut(new_c[3 * i + 2], t + 1000 * RBIAS)
  BY <1>6, <1>7 DEF IsFiltered, IsCutPixel, PixelSize
<1> HIDE DEF t
<1>10. t + 1000 * BBIAS \in Int /\ t + 1000 * GBIAS \in Int /\ t + 1000 * RBIAS \in Int
  BY <1>8 DEF BBIAS, GBIAS, RBIAS
<1>11. /\ new_asm[3 * i] - new_c[3 * i] \in {-1, 0, 1}
       /\ new_asm[3 * i + 1] - new_c[3 * i + 1] \in {-1, 0, 1}
       /\ new_asm[3 * i + 2] - new_c[3 * i + 2] \in {-1, 0, 1}
  BY <1>9, <1>10, NearCut
<1>12. o = 3 * i \/ o = 3 * i + 1 \/ o = 3 * i + 2
  BY <1>1, <1>3
<1> QED BY <1>11, <1>12

\* For every image, the two filters agree up to 1 on every channel of every
\* pixel that the assembly writes: it rounds, and the C code truncates.
THEOREM Agreement == Spec => []OutputsAgree
<1>1. Init => GInv
  <2>1. Init => CInv
    BY DEF Init, CInv
  <2> QED BY <2>1, InitTyped, InitFilters DEF FInv, GInv
<1>2. Spec => []GInv
  BY <1>1, StepCut, PTL DEF Spec
<1> QED BY <1>2, CutAgrees, PTL

-----------------------------------------------------------------------------
(* The program around the two filters.                                     *)

Names == {"asm", "c"}

Files == [cut : {"absent", "header", "pixels", "nowhere"}, picture : Seq(Names)]

\* The types, and how far the program is.
PShape ==
  /\ files \in [Paths -> Files]
  /\ named \in [Names -> Paths]
  /\ device \in [Paths -> Devices]
  /\ time \in [Names -> {"none", "-1", "measured"}]
  /\ pass \in {1, 2, 3} /\ step \in {"read", "filter", "write", "over"}
  /\ step = "over" <=> pass = 3
  /\ pass = 1 => time["asm"] = "none"
  /\ pass # 3 => time["c"] = "none"

\* What the running pass finds, as long as it can be found, and what it has
\* made of it.
Found ==
  /\ pass # 3 /\ files["input"].cut = "nowhere" =>
       files["input"].picture = FoundBy(filter)
  /\ step = "filter" => image = FoundBy(filter)
  /\ step = "write" => image = Append(FoundBy(filter), filter)

\* The picture of the pass p was saved at its path.
SavedBy(p) ==
  time[p] = "measured" /\ device[named[p]] = "all" =>
    files[named[p]] = Whole(Append(FoundBy(p), p))

\* The passes that have returned have saved their pictures, the first one until
\* the second writes to its path.
Saving ==
  /\ pass = 2 => SavedBy("asm")
  /\ pass = 3 => /\ named["c"] # named["asm"] \/ time["c"] = "-1" => SavedBy("asm")
                 /\ SavedBy("c")

Makers(picture) == {picture[i] : i \in DOMAIN picture}

\* Who has made a picture in a file has a time.
Made ==
  \A path \in Paths, p \in Names :
    p \in Makers(files[path].picture) => time[p] = "measured"

BlocksOf(p) == {b \in blocks : b[1] = p}

\* What the pass p leaves in memory when it has returned: at most the image of
\* a file that was cut.
Left(p) == IF time[p] = "-1" THEN {<<p, "input_img">>} ELSE {}

\* The images of the pass p, the n-th, before it, during it and when it has
\* returned.
Held(p, n) ==
  /\ pass < n => BlocksOf(p) = {}
  /\ pass = n /\ step = "read" => BlocksOf(p) = {}
  /\ pass = n /\ step = "filter" => BlocksOf(p) \subseteq {<<p, "input_img">>}
  /\ pass = n /\ step = "write" => BlocksOf(p) \subseteq {<<p, "processed_img">>}
  /\ pass > n => BlocksOf(p) \subseteq Left(p)

PInv ==
  step # "segfault" =>
    PShape /\ Found /\ Saving /\ Made /\ Held("asm", 1) /\ Held("c", 2)

\* The filter of a pass.
LEMMA FilterOf ==
  /\ pass = 1 => filter = "asm"
  /\ pass = 2 => filter = "c"
  /\ PShape /\ pass # 3 => filter \in Names
BY DEF filter, Passes, PShape, Names

\* One more maker.
LEMMA AppendMakers ==
  ASSUME NEW picture \in Seq(Names), NEW p \in Names
  PROVE  /\ Append(picture, p) \in Seq(Names)
         /\ Makers(Append(picture, p)) \subseteq {p} \cup Makers(picture)
<1>1. /\ DOMAIN picture = 1..Len(picture) /\ Len(picture) \in Nat
      /\ DOMAIN Append(picture, p) = 1..(Len(picture) + 1)
      /\ Append(picture, p)[Len(picture) + 1] = p
      /\ \A i \in 1..Len(picture) : Append(picture, p)[i] = picture[i]
  OBVIOUS
<1> QED BY <1>1 DEF Makers

\* What a pass finds is a picture, made by the other pass or by none.
LEMMA FoundType ==
  ASSUME NEW p \in Names, PShape
  PROVE  /\ FoundBy(p) \in Seq(Names)
         /\ Append(FoundBy(p), p) \in Seq(Names)
         /\ p = "asm" => FoundBy(p) = <<>>
         /\ Makers(Append(FoundBy(p), p)) \subseteq
              {p} \cup (IF time["asm"] = "measured" THEN {"asm"} ELSE {})
<1>1. CASE FoundBy(p) = <<>>
  <2>1. Makers(<<>>) = {} /\ <<>> \in Seq(Names)
    BY DEF Makers
  <2> QED BY <1>1, <2>1, AppendMakers
<1>2. CASE p = "c" /\ time["asm"] = "measured" /\ FoundBy(p) = <<"asm">>
  <2>1. Makers(<<"asm">>) \subseteq {"asm"} /\ <<"asm">> \in Seq(Names)
    <3>1. DOMAIN <<"asm">> = 1..1 /\ <<"asm">>[1] = "asm"
      OBVIOUS
    <3> QED BY <3>1 DEF Makers, Names
  <2> HIDE DEF Makers
  <2> QED BY <1>2, <2>1, AppendMakers
<1> QED BY <1>1, <1>2 DEF FoundBy

\* The invariant holds when the program starts: no picture has been filtered.
LEMMA ProgramStart == ProgramInit => PInv
<1> SUFFICES ASSUME ProgramInit PROVE PInv
  OBVIOUS
<1> USE DEF ProgramInit
<1>1. \A path \in Paths : files[path] \in Files /\ files[path].picture = <<>>
  <2> DEFINE Start == {NoFile, Whole(<<>>), File("header", <<>>),
                       File("pixels", <<>>)}
  <2>1. \A f \in Start : f \in Files /\ f.picture = <<>>
    <3>1. <<>> \in Seq(Names)
      OBVIOUS
    <3>2. \A cut \in {"absent", "header", "pixels", "nowhere"} :
            /\ File(cut, <<>>) \in Files
            /\ File(cut, <<>>).picture = <<>>
      BY <3>1 DEF File, Files
    <3> QED BY <3>2 DEF NoFile, Whole
  <2>2. PICK f \in Start : files = [p \in Paths |-> IF p = "input" THEN f ELSE NoFile]
    OBVIOUS
  <2>3. NoFile \in Start
    OBVIOUS
  <2> QED BY <2>1, <2>2, <2>3
<1>2. PShape
  <2>1. files \in [Paths -> Files]
    BY <1>1
  <2> QED BY <2>1 DEF PShape, Names
<1>3. Found
  BY <1>1 DEF Found, FoundBy, filter, Passes, Paths
<1>4. Saving
  BY DEF Saving
<1>5. Made
  BY <1>1 DEF Made, Makers
<1>6. Held("asm", 1) /\ Held("c", 2)
  BY DEF Held, BlocksOf
<1> QED BY <1>2, <1>3, <1>4, <1>5, <1>6 DEF PInv

\* A pass that reads a whole picture holds it, in its block.
LEMMA ReadKeeps == PInv /\ Read => PInv'
<1> SUFFICES ASSUME PInv, Read PROVE PInv'
  OBVIOUS
<1> USE DEF Read
<1>1. PShape /\ Found /\ Saving /\ Made /\ Held("asm", 1) /\ Held("c", 2)
  BY DEF PInv
<1>2. filter' = filter
  BY DEF filter
<1>3. \A p : FoundBy(p)' = FoundBy(p)
  BY DEF FoundBy
<1>4. PShape'
  BY <1>1 DEF PShape
<1>5. Found'
  BY <1>1, <1>2, <1>3 DEF Found, PShape
<1>6. Saving'
  BY <1>1, <1>3 DEF Saving, SavedBy
<1>7. Made'
  BY <1>1 DEF Made
<1>8. Held("asm", 1)' /\ Held("c", 2)'
  BY <1>1, FilterOf DEF Held, BlocksOf, Left, Block, PShape
<1> QED BY <1>4, <1>5, <1>6, <1>7, <1>8 DEF PInv

\* Filtering puts the filter behind the picture, in another block.
LEMMA FilterKeeps == PInv /\ Filter => PInv'
<1> SUFFICES ASSUME PInv, Filter PROVE PInv'
  OBVIOUS
<1> USE DEF Filter
<1>1. PShape /\ Found /\ Saving /\ Made /\ Held("asm", 1) /\ Held("c", 2)
  BY DEF PInv
<1>2. filter' = filter
  BY DEF filter
<1>3. \A p : FoundBy(p)' = FoundBy(p)
  BY DEF FoundBy
<1>4. PShape'
  BY <1>1 DEF PShape
<1>5. Found'
  BY <1>1, <1>2, <1>3 DEF Found
<1>6. Saving'
  BY <1>1, <1>3 DEF Saving, SavedBy
<1>7. Made'
  BY <1>1 DEF Made
<1>8. Held("asm", 1)' /\ Held("c", 2)'
  BY <1>1, FilterOf DEF Held, BlocksOf, Left, Block, PShape
<1> QED BY <1>4, <1>5, <1>6, <1>7, <1>8 DEF PInv

\* A pass that returns: the types, and its number.
LEMMA ReturnShape ==
  ASSUME PShape, NEW ok \in BOOLEAN, Returns(ok), pass # 3,
         UNCHANGED <<named, device>>, files' \in [Paths -> Files]
  PROVE  /\ PShape'
         /\ pass' = pass + 1 /\ step' \in {"read", "over"}
         /\ time'[filter] = IF ok THEN "measured" ELSE "-1"
         /\ pass = 1 => time'["c"] = time["c"]
         /\ pass = 2 => time'["asm"] = time["asm"]
<1>1. pass \in {1, 2} /\ filter \in Names
  BY FilterOf DEF PShape
<1>2. Len(Passes) = 2
  BY DEF Passes
<1>3. time' \in [Names -> {"none", "-1", "measured"}]
  BY <1>1 DEF Returns, PShape
<1> QED BY <1>1, <1>2, <1>3, FilterOf DEF Returns, PShape, Names

\* A pass that cannot read its picture leaves at most the image of a cut file.
LEMMA ReadFailsKeeps == PInv /\ ReadFails => PInv'
<1> SUFFICES ASSUME PInv, ReadFails PROVE PInv'
  OBVIOUS
<1> USE DEF ReadFails
<1>1. PShape /\ Found /\ Saving /\ Made /\ Held("asm", 1) /\ Held("c", 2)
  BY DEF PInv
<1>2. pass # 3 /\ filter \in Names
  BY <1>1, FilterOf DEF PShape
<1>3. /\ PShape'
      /\ pass' = pass + 1 /\ step' \in {"read", "over"}
      /\ time'[filter] = "-1"
      /\ pass = 1 => time'["c"] = time["c"]
      /\ pass = 2 => time'["asm"] = time["asm"]
  <2>1. files' \in [Paths -> Files]
    BY <1>1 DEF PShape
  <2> QED BY <1>1, <1>2, <2>1, ReturnShape
<1>4. Found'
  <2>1. CASE pass = 1
    BY <1>1, <1>3, <2>1, FilterOf DEF Found, FoundBy, filter, Passes
  <2>2. CASE pass = 2
    BY <1>3, <2>2 DEF Found
  <2> QED BY <1>1, <1>2, <2>1, <2>2 DEF PShape
<1>5. Saving'
  <2>1. CASE pass = 1
    BY <1>3, <2>1, FilterOf DEF Saving, SavedBy
  <2>2. CASE pass = 2
    BY <1>1, <1>3, <2>2, FilterOf DEF Saving, SavedBy, FoundBy
  <2> QED BY <1>1, <1>2, <2>1, <2>2 DEF PShape
<1>6. Made'
  <2>1. time[filter] = "none"
    BY <1>1, <1>2, FilterOf DEF PShape
  <2>2. \A p \in Names \ {filter} : time'[p] = time[p]
    BY <1>1, <1>2, <1>3, FilterOf DEF Names, PShape
  <2> QED BY <1>1, <2>1, <2>2 DEF Made
<1>7. Held("asm", 1)' /\ Held("c", 2)'
  <2>1. CASE pass = 1
    BY <1>1, <1>3, <2>1, FilterOf DEF Held, BlocksOf, Left, Block
  <2>2. CASE pass = 2
    BY <1>1, <1>3, <2>2, FilterOf DEF Held, BlocksOf, Left, Block
  <2> QED BY <1>1, <1>2, <2>1, <2>2 DEF PShape
<1> QED BY <1>3, <1>4, <1>5, <1>6, <1>7 DEF PInv

\* What a file can be after a write is a file.
LEMMA RemainsType ==
  ASSUME NEW holds \in Devices, holds # "closed", NEW picture \in Seq(Names)
  PROVE  /\ Remains(holds, picture) \in Files
         /\ Remains(holds, picture).picture \in {<<>>, picture}
         /\ holds = "none" => /\ Remains(holds, picture).picture = <<>>
                              /\ Remains(holds, picture).cut # "nowhere"
         /\ Remains(holds, picture).cut = "nowhere" =>
              Remains(holds, picture).picture = picture
         /\ holds = "all" => Remains(holds, picture) = Whole(picture)
<1>1. <<>> \in Seq(Names)
  OBVIOUS
<1>2. holds \in {"none", "header", "all"}
  BY DEF Devices
<1>3. CASE holds = "none"
  BY <1>1, <1>3 DEF Remains, File, Files
<1>4. CASE holds = "header"
  BY <1>4 DEF Remains, File, Files
<1>5. CASE holds = "all"
  BY <1>5 DEF Remains, File, Whole, Files
<1> QED BY <1>2, <1>3, <1>4, <1>5

\* A pass that writes saves what it has made of what it found, or shows that it
\* has not.
LEMMA WriteKeeps == PInv /\ Write => PInv'
<1> SUFFICES ASSUME PInv, Write PROVE PInv'
  OBVIOUS
<1> DEFINE F == filter
           path == named[F]
           rest == Remains(device[path], image)
<1>1. PShape /\ Found /\ Saving /\ Made /\ Held("asm", 1) /\ Held("c", 2)
  BY DEF PInv, Write
<1>2. /\ pass # 3 /\ F \in Names /\ step = "write"
      /\ image = Append(FoundBy(F), F)
      /\ path \in Paths /\ device[path] \in Devices
      /\ image \in Seq(Names)
  BY <1>1, FilterOf, FoundType DEF PShape, Found, Write
<1>3. PICK ok \in BOOLEAN :
        /\ Returns(ok)
        /\ \/ device[path] = "closed" /\ ~ ok /\ files' = files
           \/ /\ device[path] # "closed"
              /\ files' = [files EXCEPT ![path] = rest]
              /\ ok \/ device[path] = "none"
  BY DEF Write
<1>4. /\ UNCHANGED <<named, device>>
      /\ blocks' = blocks \ {Block("processed_img")}
  BY DEF Write
<1>5. files' \in [Paths -> Files]
  <2>1. CASE device[path] = "closed"
    BY <1>1, <1>3, <2>1 DEF PShape
  <2>2. CASE device[path] # "closed"
    <3>1. rest \in Files
      BY <1>2, <2>2, RemainsType
    <3> QED BY <1>1, <1>3, <2>2, <3>1 DEF PShape
  <2> QED BY <2>1, <2>2
<1>6. /\ PShape'
      /\ pass' = pass + 1 /\ step' \in {"read", "over"}
      /\ time'[F] = IF ok THEN "measured" ELSE "-1"
      /\ pass = 1 => time'["c"] = time["c"]
      /\ pass = 2 => time'["asm"] = time["asm"]
  BY <1>1, <1>2, <1>3, <1>4, <1>5, ReturnShape
\* What is at the paths now.
<1>7. /\ \A q \in Paths \ {path} : files'[q] = files[q]
      /\ device[path] = "closed" => files' = files
      /\ device[path] # "closed" => files'[path] = rest
  BY <1>1, <1>2, <1>3 DEF PShape
<1>8. /\ pass = 1 => F = "asm" /\ FoundBy(F) = <<>>
      /\ pass = 2 => F = "c" /\ FoundBy("c")' = FoundBy("c")
      /\ FoundBy("asm") = <<>> /\ FoundBy("asm")' = <<>>
  BY <1>4, <1>6, FilterOf DEF FoundBy
<1>9. pass \in {1, 2}
  BY <1>1, <1>2 DEF PShape
<1>10. Found'
  <2>1. CASE pass = 2
    BY <1>6, <2>1 DEF Found
  <2>2. CASE pass = 1
    <3>1. F = "asm" /\ filter' = "c" /\ image = <<"asm">>
      <4>1. Append(<<>>, "asm") = <<"asm">>
        OBVIOUS
      <4>2. filter' = "c"
        BY <1>6, <2>2 DEF filter, Passes
      <4>3. image = Append(<<>>, "asm")
        BY <1>2, <1>8, <2>2
      <4> QED BY <1>8, <2>2, <4>1, <4>2, <4>3, Zenon
    <3> SUFFICES ASSUME files'["input"].cut = "nowhere"
                 PROVE  files'["input"].picture = FoundBy("c")'
      BY <1>6, <3>1 DEF Found
    <3>2. CASE files'["input"] = files["input"] /\ (ok => path # "input")
      <4>1. files["input"].picture = <<>>
        BY <1>1, <1>8, <2>2, <3>2 DEF Found
      <4> QED BY <1>4, <1>6, <3>1, <3>2, <4>1 DEF FoundBy
    <3>3. CASE path = "input" /\ device[path] # "closed"
      <4>1. rest.picture = image /\ device[path] # "none"
        <5>1. rest.cut = "nowhere" /\ device[path] \in Devices /\ image \in Seq(Names)
          BY <1>2, <1>7, <3>3
        <5> HIDE DEF path, F
        <5> QED BY <3>3, <5>1, RemainsType
      <4>2. ok
        BY <1>3, <3>3, <4>1
      <4> QED BY <1>4, <1>6, <1>7, <3>1, <3>3, <4>1, <4>2 DEF FoundBy
    <3>4. "input" \in Paths
      BY DEF Paths
    <3> QED BY <1>3, <1>7, <3>2, <3>3, <3>4
  <2> QED BY <1>9, <2>1, <2>2
\* A picture that is saved is whole.
<1>11. ok /\ device[path] = "all" => files'[path] = Whole(image)
  BY <1>2, <1>3, <1>7, RemainsType
<1>12. Saving'
  <2>1. CASE pass = 1
    <3>1. SavedBy("asm")'
      BY <1>2, <1>4, <1>6, <1>8, <1>11, <2>1 DEF SavedBy
    <3> QED BY <1>6, <2>1, <3>1 DEF Saving
  <2>2. CASE pass = 2
    <3>1. SavedBy("c")'
      BY <1>2, <1>4, <1>6, <1>8, <1>11, <2>2 DEF SavedBy
    <3>2. ASSUME named["c"] # named["asm"] \/ time'["c"] = "-1"
          PROVE  SavedBy("asm")'
      <4>1. SavedBy("asm")
        BY <1>1, <2>2 DEF Saving
      <4>2. named["asm"] \in Paths
        BY <1>1 DEF PShape, Names
      <4>3. device[named["asm"]] = "all" => files'[named["asm"]] = files[named["asm"]]
        BY <1>3, <1>6, <1>7, <1>8, <2>2, <3>2, <4>2
      <4> QED BY <1>4, <1>6, <1>8, <2>2, <4>1, <4>3 DEF SavedBy
    <3> QED BY <1>4, <1>6, <2>2, <3>1, <3>2 DEF Saving
  <2> QED BY <1>9, <2>1, <2>2
<1>13. Made'
  <2>1. \A p \in Names \ {F} : time'[p] = time[p]
    BY <1>6, <1>8, <1>9 DEF Names
  <2>2. time[F] = "none"
    BY <1>1, <1>8, <1>9 DEF PShape
  <2> SUFFICES ASSUME NEW q \in Paths, NEW p \in Names,
                      p \in Makers(files'[q].picture)
               PROVE  time'[p] = "measured"
    BY DEF Made, Makers
  <2>3. CASE files'[q] = files[q]
    BY <1>1, <2>1, <2>2, <2>3 DEF Made
  <2>4. CASE q = path /\ device[path] # "closed"
    <3>1. files'[q].picture = image /\ ok
      <4>1. Makers(<<>>) = {}
        BY DEF Makers
      <4>2. files'[q].picture \in {<<>>, image}
            /\ (device[path] = "none" => files'[q].picture = <<>>)
        <5>1. files'[q] = rest /\ device[path] \in Devices /\ image \in Seq(Names)
          BY <1>2, <1>7, <2>4
        <5> HIDE DEF path, F
        <5> QED BY <2>4, <5>1, RemainsType
      <4>3. files'[q].picture = image /\ device[path] # "none"
        BY <4>1, <4>2
      <4> QED BY <1>3, <2>4, <4>3
    <3>2. CASE p = F
      BY <1>6, <3>1, <3>2
    <3>3. CASE p # F
      BY <1>1, <1>2, <2>1, <3>1, <3>3, FoundType
    <3> QED BY <3>2, <3>3
  <2> QED BY <1>7, <2>3, <2>4
<1>14. Held("asm", 1)' /\ Held("c", 2)'
  <2>1. CASE pass = 1
    BY <1>1, <1>2, <1>4, <1>6, <1>8, <2>1 DEF Held, BlocksOf, Left, Block
  <2>2. CASE pass = 2
    BY <1>1, <1>2, <1>4, <1>6, <1>8, <2>2 DEF Held, BlocksOf, Left, Block
  <2> QED BY <1>9, <2>1, <2>2
<1> QED BY <1>6, <1>10, <1>12, <1>13, <1>14 DEF PInv

\* Each step keeps the invariant.
LEMMA ProgramStep == PInv /\ [main]_(program_vars) => PInv'
<1> SUFFICES ASSUME PInv, [main]_(program_vars) PROVE PInv'
  OBVIOUS
<1>1. CASE ReadFails
  BY <1>1, ReadFailsKeeps
<1>2. CASE Read
  BY <1>2, ReadKeeps
<1>3. CASE Filter
  BY <1>3, FilterKeeps
<1>4. CASE NullImage
  BY <1>4 DEF NullImage, Faults, PInv
<1>5. CASE Write
  BY <1>5, WriteKeeps
<1>6. CASE UNCHANGED program_vars
  BY <1>6 DEF program_vars, PInv, PShape, Found, Saving, SavedBy, Made, Held,
              BlocksOf, Left, FoundBy, filter
<1> QED BY <1>1, <1>2, <1>3, <1>4, <1>5, <1>6 DEF main

\* A finished program has saved what it printed times for.
LEMMA ProgramEnd == PInv => OutputsSaved
<1> SUFFICES ASSUME PInv, step = "over" PROVE OutputsSaved
  BY DEF OutputsSaved
<1>1. PShape /\ Saving /\ Made /\ Held("asm", 1) /\ Held("c", 2) /\ pass = 3
  BY DEF PInv, PShape
<1>2. \A p \in {"asm", "c"} :
        time[p] = "measured" /\ device[named[p]] = "all"
          /\ (p = "asm" => named["c"] # named["asm"] \/ time["c"] = "-1")
        => files[named[p]] = Whole(Append(FoundBy(p), p))
  BY <1>1 DEF Saving, SavedBy
<1>3. \A path \in Paths, p \in {"asm", "c"} :
        p \in {files[path].picture[i] : i \in DOMAIN files[path].picture} =>
          time[p] = "measured"
  BY <1>1 DEF Made, Makers, Names
<1>4. \A p \in {"asm", "c"} :
        {b \in blocks : b[1] = p} \subseteq
          IF time[p] = "-1" THEN {<<p, "input_img">>} ELSE {}
  BY <1>1 DEF Held, BlocksOf, Left
<1> QED BY <1>2, <1>3, <1>4 DEF OutputsSaved

\* What main prints about the two passes is what it has saved, on whatever
\* devices, also where the paths are the same (SepiaFilterCAssembly's main.c:41-44
\* and processor.c:14-30).
THEOREM Outputs == ProgramSpec => []OutputsSaved
<1>1. ProgramSpec => []PInv
  BY ProgramStart, ProgramStep, PTL DEF ProgramSpec
<1> QED BY <1>1, ProgramEnd, PTL
===============================================================================
