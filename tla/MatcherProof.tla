----------------------------- MODULE MatcherProof -----------------------------
(***************************************************************************)
(* What image-matcher says of the output of image-transformer, for every   *)
(* input, every file that is expected and every size of its buffer.        *)
(*                                                                         *)
(* The invariant of its loop: the two positions are the same, and either   *)
(* both files have been alike up to there, or both have ended.             *)
(***************************************************************************)
EXTENDS Matcher, RotationProof, FiniteSetTheorems

RowWidth == PixelSize * f1.head.biWidth
RowStride == Stride(f1.head.biWidth)

\* The files have the same byte at an offset, or end before it both.
SameAt(o) ==
  /\ o < f1.size <=> o < f2.size
  /\ o < f1.size => ByteAt(f1, o) = ByteAt(f2, o)

SameHeaders ==
  /\ header_is_correct(f1) /\ header_is_correct(f2)
  /\ f1.head.biWidth = f2.head.biWidth
  /\ f1.head.biHeight = f2.head.biHeight

\* So far there is no difference, and the position is where the counters say.
AlikeSoFar ==
  /\ pos1 = HeaderSize + i_row * RowStride + (RowWidth - sz)
  /\ \A o \in PixelOffsets : o < pos1 => SameAt(o)

\* Both files have ended without a difference.
AlikeToTheEnd ==
  /\ pos1 >= f1.size /\ pos1 >= f2.size
  /\ \A o \in PixelOffsets : SameAt(o)

Compared ==
  /\ pos1 = pos2 /\ pos1 \in Nat
  /\ sz \in 0..RowWidth
  /\ AlikeSoFar \/ AlikeToTheEnd

NotRun == {"TRANSFORMER_FAILED", "BAD_SECOND_INPUT_FILE"}

MInv ==
  /\ stage \in {"transforms", "headers", "rows", "over"}
  /\ expected.size \in Int
  /\ stage # "transforms" => pc \in Final
  /\ stage = "transforms" \/ (stage = "over" /\ status \in NotRun) => expected = NoFile
  /\ stage \in {"headers", "rows"} \/ (stage = "over" /\ status \notin NotRun) => exit = 0
  /\ stage = "rows" => SameHeaders /\ i_row \in 0..f1.head.biHeight
  /\ stage = "rows" /\ f1.head.biHeight > 0 => Compared
  /\ VerdictRight

-----------------------------------------------------------------------------
(* What the transformer has left when it exits with 0.                     *)

LEMMA KeptSize ==
  ASSUME NoWrap, SizesFit, TypeOK, IInv, PInv, exit = 0
  PROVE  /\ RowsWritten(Width) /\ f1 = Kept(out, env.room) /\ env.room \in Nat
         /\ Readable(given)
         /\ out.size \in Int /\ f1.size \in Int /\ f1.size <= out.size
         /\ f1.size >= HeaderSize => f1.head = out.head
<1>1. RowsWritten(Width) /\ f1 = Kept(out, env.room) /\ read_status = "READ_OK"
  BY DEF PInv, Progress, Verdicts, f1
<1>2. env.room \in Nat
  BY RoomsAssumption DEF TypeOK, Environments
<1>3. Readable(given)
  BY <1>1 DEF PInv, ReadVerdict
<1>4. out.size \in Int
  <2>1. Width \in Nat /\ Stride(Height) \in Nat /\ HeaderSize \in Nat
    BY Sizes, BitmapAssumption
  <2>2. Width * Stride(Height) \in Nat
    BY <2>1
  <2> QED
    BY <1>1, <2>1, <2>2 DEF RowsWritten
<1>5. CASE out.size <= env.room
  BY <1>1, <1>2, <1>3, <1>4, <1>5 DEF Kept
<1>6. CASE out.size > env.room /\ env.room < HeaderSize
  <2>1. f1.size = env.room
    BY <1>1, <1>2, <1>4, <1>6 DEF Kept, EmptyFile
  <2> QED
    BY <1>1, <1>2, <1>3, <1>4, <1>6, <2>1, BitmapAssumption
<1>7. CASE out.size > env.room /\ ~(env.room < HeaderSize)
  <2>1. f1.size = env.room /\ f1.head = out.head
    BY <1>1, <1>2, <1>4, <1>7 DEF Kept, RowsWritten
  <2> QED
    BY <1>1, <1>2, <1>3, <1>4, <1>7, <2>1
<1> QED
  BY <1>2, <1>4, <1>5, <1>6, <1>7

\* Its header, as far as the device has kept it.
LEMMA KeptHeader ==
  ASSUME NoWrap, SizesFit, TypeOK, IInv, PInv, exit = 0, f1.size >= HeaderSize
  PROVE  /\ header_is_correct(f1)
         /\ f1.head.biWidth = Height /\ f1.head.biHeight = Width
         /\ f1.head.bOffBits = HeaderSize
<1>1. f1.head = bmp_gen_header(Height, Width) /\ Readable(given)
  BY KeptSize DEF RowsWritten
<1> QED
  BY <1>1, HeaderTrue DEF bmp_gen_header, header_is_correct, PixelSize

\* Its pixels, as far as the device has kept them.
LEMMA KeptPixels ==
  ASSUME NoWrap, SizesFit, TypeOK, IInv, PInv, exit = 0, f1.size >= HeaderSize,
         NEW r \in 0..(Width - 1), NEW c \in 0..(Height - 1), NEW k \in 1..PixelSize,
         HeaderSize + r * Stride(Height) + PixelSize * c + (k - 1) < f1.size
  PROVE  ByteAt(f1, HeaderSize + r * Stride(Height) + PixelSize * c + (k - 1)) =
           FilePixel(given, Height - 1 - c, r)[k]
<1> DEFINE s == Stride(Height)
           i == r * s + PixelSize * c + k
           o == HeaderSize + r * s + PixelSize * c + (k - 1)
<1>1. /\ Width \in Nat /\ Height \in Nat /\ s \in Nat /\ HeaderSize \in Nat
      /\ r \in Nat /\ c \in Nat /\ k \in Nat /\ k >= 1 /\ k <= 3
  BY Sizes, BitmapAssumption DEF PixelSize
<1>2. r * s \in Nat
  BY <1>1
<1>3. /\ o \in Nat /\ o >= HeaderSize /\ o - HeaderSize + 1 = i /\ i \in Nat /\ i >= 1
  BY <1>1, <1>2 DEF PixelSize
<1>4. out.body[i] = FilePixel(given, Height - 1 - c, r)[k]
  BY KeptSize DEF RowsWritten
<1>5. ByteAt(f1, o) = f1.body[i]
  BY <1>1, <1>3 DEF ByteAt
<1>6. f1.body[i] = out.body[i]
  <2> DEFINE m == Width * s
  <2>1. /\ f1 = Kept(out, env.room) /\ env.room \in Nat /\ out.size \in Int
        /\ f1.size \in Int /\ out.body \in Seq(Bytes)
        /\ Len(out.body) = m /\ out.size = HeaderSize + m /\ m \in Nat
        /\ DOMAIN out = {"size", "head", "body"}
    BY KeptSize, <1>1 DEF RowsWritten
  <2> HIDE DEF m
  <2>2. CASE out.size <= env.room
    BY <2>1, <2>2 DEF Kept
  <2>3. CASE out.size > env.room
    <3>1. ~(env.room < HeaderSize)
      <4> SUFFICES ASSUME env.room < HeaderSize PROVE FALSE
        OBVIOUS
      <4>1. f1.size = env.room
        BY <2>1, <2>3 DEF Kept, EmptyFile
      <4> QED
        BY <4>1, <2>1, <1>1
    <3> DEFINE n == env.room - HeaderSize
    <3>2. f1.size = env.room /\ f1.body = SubSeq(out.body, 1, n)
      <4>1. ~(out.size <= env.room)
        BY <2>1, <2>3
      <4>2. f1 = [out EXCEPT !.size = env.room, !.body = SubSeq(out.body, 1, n)]
        BY <2>1, <3>1, <4>1, Zenon DEF Kept
      <4> DEFINE x == SubSeq(out.body, 1, n)
      <4>3. f1 = [out EXCEPT !.size = env.room, !.body = x] /\ "size" \in DOMAIN out /\ "body" \in DOMAIN out
        BY <2>1, <4>2
      <4>4. f1.size = env.room /\ f1.body = x
        <5> HIDE DEF x
        <5> QED
          BY <4>3
      <4> QED
        BY <4>4
    <3>3. n \in Nat /\ n <= Len(out.body) /\ env.room = HeaderSize + n
      <4> DEFINE z == out.size   q == env.room   b == Len(out.body)
      <4>1. /\ z = HeaderSize + m /\ b = m /\ n = q - HeaderSize
            /\ z > q /\ ~(q < HeaderSize)
            /\ m \in Nat /\ q \in Nat /\ HeaderSize \in Nat
        BY <2>1, <2>3, <3>1, <1>1
      <4>2. n \in Nat /\ n <= b /\ q = HeaderSize + n
        <5> HIDE DEF z, q, b, n
        <5> QED
          BY <4>1
      <4> QED
        BY <4>2
    <3>4. i <= n
      <4>1. o < HeaderSize + n
        BY <3>2, <3>3
      <4> HIDE DEF i, o, n
      <4> QED
        BY <4>1, <1>3, <1>1, <3>3
    <3> HIDE DEF n, i
    <3>5. \A j \in 1..n : out.body[j] \in Bytes
      BY <2>1, <3>3, ElementOfSeq
    <3>6. \A j \in 1..(n - 1 + 1) : SubSeq(out.body, 1, n)[j] = out.body[1 + j - 1]
      BY <3>3, <3>5, SubSeqProperties
    <3>7. i \in 1..(n - 1 + 1) /\ 1 + i - 1 = i
      BY <3>3, <3>4, <1>3
    <3>8. SubSeq(out.body, 1, n)[i] = out.body[1 + i - 1]
      BY <3>6, <3>7
    <3> QED
      BY <3>2, <3>7, <3>8
  <2> QED
    BY <2>1, <2>2, <2>3
<1> QED
  BY <1>4, <1>5, <1>6

\* A row of the output is as long as its header says, and so is its stride.
LEMMA RowSizes ==
  ASSUME NoWrap, SizesFit, TypeOK, IInv, PInv, exit = 0, f1.size >= HeaderSize
  PROVE  /\ RowWidth \in Nat /\ RowStride \in Nat
         /\ RowStride = RowWidth + get_padding(f1.head.biWidth)
         /\ get_padding(f1.head.biWidth) \in Nat
         /\ f1.head.biHeight \in Nat
         /\ f1.head.biHeight > 0 => row_size = RowWidth
<1>1. f1.head.biWidth = Height /\ f1.head.biHeight = Width /\ Readable(given)
  BY KeptHeader, KeptSize
<1>2. /\ Width \in Nat /\ Height \in Nat /\ Stride(Height) \in Nat /\ HeaderSize \in Nat
      /\ Word \in Nat
      /\ Stride(Height) = PixelSize * Height + bmp_calc_padding(Height)
      /\ Stride(Height) >= PixelSize * Height
      /\ bmp_calc_padding(Height) = Height % 4
      /\ bmp_calc_padding(Height) \in 0..3
  BY Sizes, RowLength, BitmapAssumption, PaddingFillsRow
<1>3. ASSUME Width > 0 PROVE (Height * 3) % Word = PixelSize * Height
  <2>1. HeaderSize + Width * Stride(Height) < Word
    BY <1>1 DEF IInv, Shape, SizesFit, Width, Height
  <2>2. Width * Stride(Height) >= Stride(Height)
    <3>1. PICK k \in Nat : Width = k + 1
      <4>1. Width - 1 \in Nat
        BY <1>2, <1>3
      <4> QED
        BY <4>1, <1>2
    <3>2. Width * Stride(Height) = k * Stride(Height) + Stride(Height)
      BY <3>1, <1>2
    <3>3. k * Stride(Height) \in Nat
      BY <1>2
    <3> QED
      BY <3>2, <3>3, <1>2
  <2>3. Width * Stride(Height) \in Nat
    BY <1>2
  <2> DEFINE n == PixelSize * Height
  <2>4. n < Word /\ Height * 3 = n /\ n \in Nat
    BY <2>1, <2>2, <2>3, <1>2 DEF PixelSize
  <2> HIDE DEF n
  <2>5. n % Word = n
    BY <2>4, <1>2
  <2> QED
    BY <2>4, <2>5 DEF n
<1> QED
  BY <1>1, <1>2, <1>3 DEF RowWidth, RowStride, get_padding, row_size, PixelSize

-----------------------------------------------------------------------------
(* One chunk.                                                              *)

\* What fread gets: the bytes before the end of the file, at most n.
LEMMA ReadSize ==
  ASSUME NEW f, NEW o \in Nat, NEW n \in Nat, f.size \in Int
  PROVE  LET read == Cardinality(DOMAIN fread(f, o, n))
         IN  /\ read \in 0..n
             /\ DOMAIN fread(f, o, n) = 0..(read - 1)
             /\ read < n => o + read >= f.size
             /\ read > 0 => o + read <= f.size
<1> DEFINE left == f.size - o
           m == IF left < 0 THEN 0 ELSE IF left < n THEN left ELSE n
<1>1. m \in 0..n /\ (m < n => o + m >= f.size) /\ (m > 0 => o + m <= f.size)
  OBVIOUS
<1>2. DOMAIN fread(f, o, n) = {j \in 0..(n - 1) : o + j < f.size}
  BY DEF fread
<1>3. {j \in 0..(n - 1) : o + j < f.size} = 0..(m - 1)
  OBVIOUS
<1> HIDE DEF m
<1>4. m \in Nat /\ m - 1 \in Int
  BY <1>1
<1>5. Cardinality(0..(m - 1)) = m
  BY <1>4, FS_Interval
<1> QED
  BY <1>1, <1>2, <1>3, <1>5

\* The offsets of pixels are in the rows, not in the padding.
LEMMA OffsetsByRow ==
  ASSUME RowWidth \in Nat, RowStride \in Nat, RowStride >= RowWidth, HeaderSize \in Nat,
         f1.head.biHeight \in Nat, NEW i \in Nat,
         NEW o \in PixelOffsets
  PROVE  /\ o \in Nat
         /\ o < HeaderSize + (i + 1) * RowStride => o < HeaderSize + i * RowStride + RowWidth
<1>1. PICK r \in 0..(f1.head.biHeight - 1), k \in 0..(RowWidth - 1) :
        o = HeaderSize + r * RowStride + k
  BY DEF PixelOffsets, RowWidth, RowStride
<1>2. r \in Nat /\ k \in Nat /\ r * RowStride \in Nat /\ i * RowStride \in Nat
  OBVIOUS
<1>3. CASE r <= i
  <2>1. r * RowStride <= i * RowStride
    <3>1. CASE r = i
      BY <3>1, <1>2
    <3>2. CASE r < i
      <4>1. RowStride * r + RowStride <= RowStride * i
        BY <3>2, <1>2, RowsInOrder
      <4>2. RowStride * r = r * RowStride /\ RowStride * i = i * RowStride
        BY <1>2
      <4> QED
        BY <4>1, <4>2, <1>2
    <3> QED
      BY <3>1, <3>2, <1>2, <1>3
  <2> QED
    BY <1>1, <1>2, <2>1
<1>4. CASE r > i
  <2>1. RowStride * i + RowStride <= RowStride * r
    BY <1>2, <1>4, RowsInOrder
  <2>2. RowStride * r = r * RowStride /\ RowStride * i = i * RowStride
        /\ (i + 1) * RowStride = i * RowStride + RowStride
    BY <1>2
  <2> QED
    BY <1>1, <1>2, <2>1, <2>2
<1> QED
  BY <1>2, <1>3, <1>4

\* Two files are the same over a chunk exactly when the buffers are.
LEMMA ChunksSame ==
  ASSUME NEW o \in Nat, NEW n \in Nat, f1.size \in Int, f2.size \in Int
  PROVE  fread(f1, o, n) = fread(f2, o, n) <=> \A k \in 0..(n - 1) : SameAt(o + k)
<1> DEFINE D(f) == {j \in 0..(n - 1) : o + j < f.size}
<1>1. \A f : DOMAIN fread(f, o, n) = D(f) /\ \A k \in D(f) : fread(f, o, n)[k] = ByteAt(f, o + k)
  BY DEF fread
<1>2. ASSUME fread(f1, o, n) = fread(f2, o, n), NEW k \in 0..(n - 1)
      PROVE  SameAt(o + k)
  <2>1. k \in D(f1) <=> k \in D(f2)
    BY <1>1, <1>2
  <2>2. k \in D(f1) => ByteAt(f1, o + k) = ByteAt(f2, o + k)
    BY <1>1, <1>2, <2>1
  <2> QED
    BY <2>1, <2>2 DEF SameAt
<1>3. ASSUME \A k \in 0..(n - 1) : SameAt(o + k)
      PROVE  fread(f1, o, n) = fread(f2, o, n)
  <2>1. D(f1) = D(f2)
    BY <1>3 DEF SameAt
  <2>2. \A k \in D(f1) : ByteAt(f1, o + k) = ByteAt(f2, o + k)
    BY <1>3 DEF SameAt
  <2>3. /\ fread(f1, o, n) = [k \in D(f1) |-> ByteAt(f1, o + k)]
        /\ fread(f2, o, n) = [k \in D(f2) |-> ByteAt(f2, o + k)]
    BY DEF fread
  <2> HIDE DEF D
  <2> QED
    BY <2>1, <2>2, <2>3
<1> QED
  BY <1>2, <1>3

-----------------------------------------------------------------------------
(* The loop over the rows.                                                 *)

\* The numbers of the loop, and what its invariant says of them.
Looping ==
  /\ RowWidth \in Nat /\ RowStride \in Nat
  /\ RowStride = RowWidth + get_padding(f1.head.biWidth)
  /\ get_padding(f1.head.biWidth) \in Nat
  /\ f1.head.biHeight \in Nat /\ i_row \in Nat /\ i_row < f1.head.biHeight
  /\ row_size = RowWidth
  /\ f1.size \in Int /\ f2.size \in Int
  /\ HeaderSize \in Nat /\ CMP_BUFFER_SIZE \in Nat \ {0}
  /\ sz \in Nat /\ sz <= RowWidth
  /\ pos1 \in Nat /\ pos2 = pos1
  /\ AlikeSoFar \/ AlikeToTheEnd

LEMMA InTheLoop ==
  ASSUME NoWrap, SizesFit, TypeOK, IInv, PInv, MInv,
         stage = "rows", i_row < f1.head.biHeight
  PROVE  Looping
<1>1. SameHeaders /\ exit = 0 /\ i_row \in 0..f1.head.biHeight
  BY DEF MInv
<1>2. f1.size >= HeaderSize /\ f1.size \in Int /\ f2.size \in Int
  BY <1>1, KeptSize DEF SameHeaders, header_is_correct, MInv, f2
<1>3. /\ RowWidth \in Nat /\ RowStride \in Nat
      /\ RowStride = RowWidth + get_padding(f1.head.biWidth)
      /\ get_padding(f1.head.biWidth) \in Nat
      /\ f1.head.biHeight \in Nat
      /\ f1.head.biHeight > 0 => row_size = RowWidth
  BY <1>1, <1>2, RowSizes
<1>4. i_row \in Nat /\ f1.head.biHeight > 0
  BY <1>1, <1>3
<1>5. Compared
  BY <1>4 DEF MInv
<1>6. HeaderSize \in Nat /\ CMP_BUFFER_SIZE \in Nat \ {0}
  BY BitmapAssumption, MatcherAssumption
<1> QED
  BY <1>1, <1>2, <1>3, <1>4, <1>5, <1>6 DEF Looping, Compared

\* The chunk the loop reads, and what comes of it.
Chunk == IF CMP_BUFFER_SIZE < sz THEN CMP_BUFFER_SIZE ELSE sz
Result ==
  cmp_chunk(fread(f1, pos1, Chunk), fread(f2, pos2, Chunk),
            Cardinality(DOMAIN fread(f1, pos1, Chunk)),
            Cardinality(DOMAIN fread(f2, pos2, Chunk)))

\* A place in the row under the loop is an offset of a pixel.
LEMMA ChunkInRow ==
  ASSUME Looping, AlikeSoFar, NEW k \in 0..(sz - 1)
  PROVE  pos1 + k \in PixelOffsets
<1> DEFINE n == i_row * RowStride
           p == (RowWidth - sz) + k
<1>1. i_row \in 0..(f1.head.biHeight - 1) /\ n \in Nat
  BY DEF Looping
<1>2. p \in 0..(RowWidth - 1)
  BY DEF Looping
<1>3. pos1 + k = HeaderSize + n + p
  <2> HIDE DEF n
  <2> QED
    BY <1>1 DEF Looping, AlikeSoFar, n
<1> HIDE DEF p
<1> QED
  BY <1>1, <1>2, <1>3 DEF PixelOffsets, RowWidth, RowStride

\* A difference that is reported is one of pixels.
LEMMA DifferenceTrue ==
  ASSUME Looping, sz > 0, Result = "CMP_INT_DIFF"
  PROVE  \E o \in PixelOffsets : ~SameAt(o)
<1> SUFFICES ASSUME \A o \in PixelOffsets : SameAt(o) PROVE FALSE
  OBVIOUS
<1>1. Chunk \in Nat /\ Chunk <= sz /\ pos1 \in Nat /\ sz \in Nat /\ pos2 = pos1
      /\ f1.size \in Int /\ f2.size \in Int
  BY DEF Looping, Chunk
<1>2. ASSUME NEW k \in 0..(Chunk - 1) PROVE SameAt(pos1 + k)
  <2>1. CASE AlikeSoFar
    <3>1. k \in 0..(sz - 1)
      BY <1>1
    <3> QED
      BY <2>1, <3>1, ChunkInRow
  <2>2. CASE AlikeToTheEnd
    <3>1. ~(pos1 + k < f1.size) /\ ~(pos1 + k < f2.size)
      BY <1>1, <2>2 DEF AlikeToTheEnd
    <3> QED
      BY <3>1 DEF SameAt
  <2> QED
    BY <2>1, <2>2 DEF Looping
<1>3. fread(f1, pos1, Chunk) = fread(f2, pos2, Chunk)
  BY <1>1, <1>2, ChunksSame
<1> QED
  BY <1>3 DEF Result, cmp_chunk

\* Without a difference the files are the same over the chunk: as far as both
\* go, and they go equally far.
LEMMA NoDifference ==
  ASSUME Looping, sz > 0, Result # "CMP_INT_DIFF"
  PROVE  LET read == Cardinality(DOMAIN fread(f1, pos1, Chunk))
         IN  /\ read \in 0..Chunk
             /\ Cardinality(DOMAIN fread(f2, pos2, Chunk)) = read
             /\ \A k \in 0..(Chunk - 1) : SameAt(pos1 + k)
             /\ read < Chunk => pos1 + read >= f1.size /\ pos1 + read >= f2.size
             /\ AlikeToTheEnd => read = 0
             /\ Result = IF read = CMP_BUFFER_SIZE THEN "CMP_INT_UNDEF" ELSE "CMP_INT_EQ"
<1> DEFINE read1 == Cardinality(DOMAIN fread(f1, pos1, Chunk))
           read2 == Cardinality(DOMAIN fread(f2, pos2, Chunk))
<1>1. Chunk \in Nat /\ pos1 \in Nat /\ pos2 = pos1 /\ f1.size \in Int /\ f2.size \in Int
  BY DEF Looping, Chunk
<1>2. /\ read1 = read2 /\ fread(f1, pos1, Chunk) = fread(f2, pos2, Chunk)
      /\ Result = IF read1 = CMP_BUFFER_SIZE THEN "CMP_INT_UNDEF" ELSE "CMP_INT_EQ"
  BY DEF Result, cmp_chunk
<1>3. \A k \in 0..(Chunk - 1) : SameAt(pos1 + k)
  BY <1>1, <1>2, ChunksSame
<1>4. /\ read1 \in 0..Chunk /\ (read1 < Chunk => pos1 + read1 >= f1.size)
      /\ (read1 > 0 => pos1 + read1 <= f1.size)
  BY <1>1, ReadSize
<1>5. read2 < Chunk => pos1 + read2 >= f2.size
  BY <1>1, ReadSize
<1> HIDE DEF read1, read2
<1>6. AlikeToTheEnd => read1 = 0
  BY <1>1, <1>4 DEF AlikeToTheEnd
<1> QED
  BY <1>2, <1>3, <1>4, <1>5, <1>6 DEF read1, read2

\* The comparison of two files that stay what they are.
LEMMA FilesStay ==
  ASSUME UNCHANGED <<disk, env, expected>>
  PROVE  /\ f1' = f1 /\ f2' = f2
         /\ RowWidth' = RowWidth /\ RowStride' = RowStride
         /\ PixelOffsets' = PixelOffsets
         /\ \A o : SameAt(o)' <=> SameAt(o)
         /\ SameHeaders' <=> SameHeaders
<1>1. f1' = f1 /\ f2' = f2
  BY DEF f1, f2, output_path
<1>2. RowWidth' = RowWidth /\ RowStride' = RowStride
  BY <1>1 DEF RowWidth, RowStride
<1>3. PixelOffsets' = PixelOffsets
  BY <1>1 DEF PixelOffsets
<1>4. SameHeaders' <=> SameHeaders
  BY <1>1 DEF SameHeaders, header_is_correct
<1>5. \A o : SameAt(o)' <=> SameAt(o)
  BY <1>1 DEF SameAt
<1> QED
  BY <1>1, <1>2, <1>3, <1>4, <1>5

\* The rest of a row without a difference, or the end of both files in it.
LEMMA RowCompared ==
  ASSUME Looping, NEW read \in Nat, NextRow(read), UNCHANGED <<disk, env, expected>>,
         read <= sz, \A k \in 0..(read - 1) : SameAt(pos1 + k),
         read = sz \/ (pos1 + read >= f1.size /\ pos1 + read >= f2.size)
  PROVE  Compared' /\ i_row' \in 0..f1'.head.biHeight
<1> DEFINE n == i_row * RowStride
           pad == get_padding(f1.head.biWidth)
<1>1. /\ i_row' = i_row + 1 /\ sz' = RowWidth
      /\ pos1' = pos1 + read + pad /\ pos2' = pos1'
  BY DEF NextRow, Looping
<1>2. /\ RowWidth \in Nat /\ RowStride \in Nat /\ RowStride = RowWidth + pad /\ pad \in Nat
      /\ HeaderSize \in Nat /\ i_row \in Nat /\ f1.head.biHeight \in Nat
      /\ sz \in Nat /\ sz <= RowWidth /\ pos1 \in Nat
      /\ f1.size \in Int /\ f2.size \in Int
      /\ AlikeSoFar \/ AlikeToTheEnd
  BY DEF Looping
<1>3. n \in Nat /\ (i_row + 1) * RowStride = n + RowStride
  BY <1>2
<1>4. i_row' \in 0..f1'.head.biHeight
  BY <1>1, <1>2, FilesStay DEF Looping
<1> HIDE DEF pad
<1>5. ASSUME NEW o \in PixelOffsets, AlikeSoFar, o < pos1 + read
      PROVE  SameAt(o)
  <2>1. o \in Nat
    BY <1>2, OffsetsByRow
  <2>2. CASE o < pos1
    BY <2>2, <1>5 DEF AlikeSoFar
  <2>3. CASE ~(o < pos1)
    <3>1. o - pos1 \in 0..(read - 1) /\ pos1 + (o - pos1) = o
      BY <2>1, <2>3, <1>2, <1>5
    <3> QED
      BY <3>1
  <2> QED
    BY <2>2, <2>3
<1>6. CASE AlikeSoFar /\ read = sz
  <2>1. pos1 = HeaderSize + n + (RowWidth - sz)
    BY <1>6 DEF AlikeSoFar
  <2>2. pos1' = HeaderSize + (i_row + 1) * RowStride + (RowWidth - RowWidth)
    <3> HIDE DEF n
    <3>1. pos1 + sz + pad = HeaderSize + n + RowStride
      BY <2>1, <1>2, <1>3
    <3>2. HeaderSize + (n + RowStride) + (RowWidth - RowWidth) = HeaderSize + n + RowStride
      BY <1>2, <1>3
    <3> QED
      BY <3>1, <3>2, <1>1, <1>3, <1>6
  <2>3. ASSUME NEW o \in PixelOffsets, o < pos1' PROVE SameAt(o)
    <3>1. o < HeaderSize + (i_row + 1) * RowStride
      <4> HIDE DEF n
      <4> QED
        BY <2>2, <2>3, <1>2, <1>3
    <3>2. o < HeaderSize + n + RowWidth
      BY <3>1, <1>2, OffsetsByRow
    <3>3. o < pos1 + read
      <4> HIDE DEF n
      <4> QED
        BY <2>1, <3>2, <1>2, <1>3, <1>6
    <3> QED
      BY <1>5, <1>6, <3>3
  <2>4. AlikeSoFar'
    BY <1>1, <2>2, <2>3, FilesStay DEF AlikeSoFar
  <2>5. pos1' = pos2' /\ pos1' \in Nat /\ sz' \in 0..RowWidth'
    BY <1>1, <1>2, FilesStay
  <2> QED
    BY <1>4, <2>4, <2>5 DEF Compared
<1>7. CASE AlikeToTheEnd \/ (AlikeSoFar /\ pos1 + read >= f1.size /\ pos1 + read >= f2.size)
  <2>1. pos1' >= f1.size /\ pos1' >= f2.size /\ pos1' \in Nat
    BY <1>1, <1>2, <1>7 DEF AlikeToTheEnd
  <2>2. ASSUME NEW o \in PixelOffsets PROVE SameAt(o)
    <3>1. CASE AlikeToTheEnd
      BY <3>1 DEF AlikeToTheEnd
    <3>2. CASE AlikeSoFar /\ pos1 + read >= f1.size /\ pos1 + read >= f2.size
      <4>1. o \in Nat
        BY <1>2, OffsetsByRow
      <4>2. CASE o < pos1 + read
        BY <1>5, <3>2, <4>2
      <4>3. CASE ~(o < pos1 + read)
        BY <3>2, <4>1, <4>3, <1>2 DEF SameAt
      <4> QED
        BY <4>2, <4>3
    <3> QED
      BY <1>7, <3>1, <3>2
  <2>3. AlikeToTheEnd'
    BY <2>1, <2>2, FilesStay DEF AlikeToTheEnd
  <2>4. pos1' = pos2' /\ pos1' \in Nat /\ sz' \in 0..RowWidth'
    BY <1>1, <1>2, <2>1, FilesStay
  <2> QED
    BY <1>4, <2>3, <2>4 DEF Compared
<1> QED
  BY <1>2, <1>6, <1>7

\* A full buffer without a difference.
LEMMA ChunkCompared ==
  ASSUME Looping, sz > 0, Result = "CMP_INT_UNDEF", UNCHANGED <<disk, env, expected, i_row>>,
         sz' = sz - CMP_BUFFER_SIZE,
         pos1' = pos1 + Cardinality(DOMAIN fread(f1, pos1, Chunk)),
         pos2' = pos2 + Cardinality(DOMAIN fread(f2, pos2, Chunk))
  PROVE  Compared'
<1> DEFINE read == Cardinality(DOMAIN fread(f1, pos1, Chunk))
           n == i_row * RowStride
<1>1. /\ RowWidth \in Nat /\ RowStride \in Nat /\ RowStride >= RowWidth
      /\ HeaderSize \in Nat /\ i_row \in Nat /\ f1.head.biHeight \in Nat
      /\ sz \in Nat /\ sz <= RowWidth /\ pos1 \in Nat /\ pos2 = pos1
      /\ CMP_BUFFER_SIZE \in Nat \ {0}
      /\ AlikeSoFar \/ AlikeToTheEnd
  BY DEF Looping
<1>2. /\ read \in 0..Chunk /\ pos2' = pos1'
      /\ \A k \in 0..(Chunk - 1) : SameAt(pos1 + k)
      /\ AlikeToTheEnd => read = 0
      /\ read = CMP_BUFFER_SIZE
  BY <1>1, NoDifference
<1>3. pos1' = pos1 + read
  OBVIOUS
<1> HIDE DEF read
<1>4. Chunk = read /\ read <= sz /\ read > 0
  BY <1>1, <1>2 DEF Chunk
<1>5. AlikeSoFar /\ pos1 = HeaderSize + n + (RowWidth - sz) /\ n \in Nat
  BY <1>1, <1>2, <1>4 DEF AlikeSoFar
<1> HIDE DEF n
<1>6. pos1' = HeaderSize + n + (RowWidth - sz')
  BY <1>1, <1>2, <1>3, <1>5
<1>7. ASSUME NEW o \in PixelOffsets, o < pos1' PROVE SameAt(o)
  <2>1. o \in Nat
    BY <1>1, OffsetsByRow
  <2>2. CASE o < pos1
    BY <2>2, <1>5 DEF AlikeSoFar
  <2>3. CASE ~(o < pos1)
    <3>1. o - pos1 \in 0..(Chunk - 1) /\ pos1 + (o - pos1) = o
      BY <2>1, <2>3, <1>1, <1>2, <1>3, <1>4, <1>7
    <3> QED
      BY <3>1, <1>2
  <2> QED
    BY <2>2, <2>3
<1>8. AlikeSoFar'
  BY <1>6, <1>7, FilesStay DEF AlikeSoFar, n
<1>9. pos1' = pos2' /\ pos1' \in Nat /\ sz' \in 0..RowWidth'
  BY <1>1, <1>2, <1>3, <1>4, FilesStay
<1> QED
  BY <1>8, <1>9 DEF Compared

-----------------------------------------------------------------------------
(* The steps.                                                              *)

\* All that the proofs of the steps rest on.
Whole == TypeOK /\ IInv /\ PInv /\ MInv

\* What VerdictRight demands of an answer.
Justified(st) ==
  st = "BMP_CMP_EQUALS" <=> SameHeaders /\ \A o \in PixelOffsets : SameAt(o)

LEMMA Answered ==
  ASSUME MInv, stage \in {"headers", "rows"}, NEW st, st \notin NotRun,
         MatcherReturns(st), Justified(st), UNCHANGED <<disk, env, expected, pc, exit>>
  PROVE  MInv'
<1>1. stage' = "over" /\ status' = st /\ exit' = 0 /\ expected' = expected /\ pc' \in Final
  BY DEF MatcherReturns, MInv
<1>2. VerdictRight'
  <2>1. f1' = f1 /\ f2' = f2 /\ PixelOffsets' = PixelOffsets
    BY FilesStay
  <2> QED
    BY <1>1, <2>1 DEF VerdictRight, Justified, SameHeaders, SameAt, header_is_correct
<1> QED
  BY <1>1, <1>2 DEF MInv

LEMMA FinalStays == pc \in Final /\ Next => UNCHANGED vars
  BY DEF Final, Next, Stopped, Step, OpenInput, HeaderFails, ReadHeader, ReadRow,
         ReadRowOutside, ReadDone, RotateCreate, RotateRow, RotateRowOutside, RotateDone,
         OpenOutputFails, OpenOutput, WriteHeader, WriteRow, WriteDone

\* While the transformer runs the comparer waits; then the files stay.
LEMMA TransformerKeepsMInv == MInv /\ Next /\ UNCHANGED matcher_vars => MInv'
<1> SUFFICES ASSUME MInv, Next, UNCHANGED matcher_vars PROVE MInv'
  OBVIOUS
<1>1. UNCHANGED <<stage, expected, status, i_row, sz, pos1, pos2>>
  BY DEF matcher_vars
<1>2. CASE stage = "transforms"
  BY <1>1, <1>2 DEF MInv, VerdictRight
<1>3. CASE stage # "transforms"
  <2>1. UNCHANGED <<disk, env, pc, exit>>
    BY <1>3, FinalStays DEF MInv, vars
  <2>2. /\ f1' = f1 /\ f2' = f2 /\ PixelOffsets' = PixelOffsets
        /\ RowWidth' = RowWidth /\ RowStride' = RowStride
    BY <1>1, <2>1, FilesStay
  <2>3. VerdictRight'
    BY <1>1, <2>2 DEF MInv, VerdictRight, header_is_correct
  <2>4. SameHeaders => SameHeaders'
    BY <1>1, <2>1, FilesStay
  <2>5. Compared => Compared'
    BY <1>1, <2>2 DEF Compared, AlikeSoFar, AlikeToTheEnd, SameAt
  <2> QED
    BY <1>1, <1>3, <2>1, <2>2, <2>3, <2>4, <2>5 DEF MInv
<1> QED
  BY <1>2, <1>3

LEMMA OpeningKeepsMInv ==
  ASSUME NoWrap, SizesFit, Whole, TransformerFails \/ MatcherOpens, UNCHANGED vars
  PROVE  MInv'
<1>1. UNCHANGED <<disk, env, pc, exit, given>>
  BY DEF vars
<1>2. stage = "transforms" /\ expected = NoFile
  BY DEF TransformerFails, MatcherOpens, Whole, MInv
<1>3. NoFile.size \in Int
  BY DEF NoFile
<1>4. CASE TransformerFails
  BY <1>1, <1>2, <1>3, <1>4
     DEF TransformerFails, MatcherReturns, Whole, MInv, VerdictRight, NotRun
<1>5. CASE MatcherOpens
  <2>1. expected'.size \in Int /\ pc \in Final /\ exit = 0
    <3>1. pc \in Final /\ exit = 0 /\ expected' \in Expectations(given)
      BY <1>5 DEF MatcherOpens, Final
    <3>2. given \in Inputs /\ Readable(given)
      BY <3>1, KeptSize DEF Whole, TypeOK
    <3> QED
      BY <3>1, <3>2, ExpectationsAssumption
  <2>2. CASE expected' = NoFile /\ MatcherReturns("BAD_SECOND_INPUT_FILE")
    BY <1>1, <2>1, <2>2 DEF MatcherReturns, MInv, VerdictRight, NotRun
  <2>3. CASE stage' = "headers"
    BY <1>1, <2>1, <2>3 DEF MInv, VerdictRight
  <2> QED
    BY <1>5, <2>2, <2>3 DEF MatcherOpens
<1> QED
  BY <1>4, <1>5

LEMMA HeadersKeepMInv ==
  ASSUME NoWrap, SizesFit, Whole, MatcherRejects \/ MatcherAccepts, UNCHANGED vars
  PROVE  MInv'
<1>1. UNCHANGED <<disk, env, expected, pc, exit>> /\ stage = "headers" /\ exit = 0
  BY DEF vars, MatcherRejects, MatcherAccepts, Whole, MInv
<1>2. CASE MatcherRejects
  <2>1. ~SameHeaders
    BY <1>2 DEF MatcherRejects, SameHeaders
  <2>2. PICK st \in {"BMP_CMP_FILE_ERROR", "BMP_CMP_INVALID_FORMAT",
                     "BMP_CMP_DIMENSIONS_DIFFER"} : MatcherReturns(st)
    BY <1>2 DEF MatcherRejects
  <2>3. Justified(st) /\ st \notin NotRun
    BY <2>1, <2>2 DEF Justified, NotRun
  <2> QED
    BY <1>1, <2>2, <2>3, Answered DEF Whole
<1>3. CASE MatcherAccepts
  <2>1. /\ SameHeaders /\ stage' = "rows" /\ i_row' = 0 /\ sz' = row_size
        /\ pos1' = HeaderSize /\ pos2' = HeaderSize
    BY <1>3 DEF MatcherAccepts, SameHeaders
  <2>2. /\ RowWidth \in Nat /\ RowStride \in Nat /\ f1.head.biHeight \in Nat
        /\ RowStride >= RowWidth
        /\ f1.head.biHeight > 0 => row_size = RowWidth
    <3>1. f1.size >= HeaderSize
      BY <2>1 DEF SameHeaders, header_is_correct
    <3>2. /\ RowWidth \in Nat /\ RowStride \in Nat /\ f1.head.biHeight \in Nat
          /\ RowStride = RowWidth + get_padding(f1.head.biWidth)
          /\ get_padding(f1.head.biWidth) \in Nat
          /\ f1.head.biHeight > 0 => row_size = RowWidth
      BY <1>1, <3>1, RowSizes DEF Whole
    <3> QED
      BY <3>2
  <2>3. HeaderSize \in Nat
    BY BitmapAssumption
  <2>4. ASSUME f1.head.biHeight > 0 PROVE Compared'
    <3>1. pos1' = HeaderSize + i_row' * RowStride + (RowWidth - sz')
      <4>1. 0 * RowStride = 0
        BY <2>2
      <4> QED
        BY <2>1, <2>2, <2>3, <2>4, <4>1
    <3>2. ASSUME NEW o \in PixelOffsets PROVE ~(o < HeaderSize)
      <4>1. PICK r \in 0..(f1.head.biHeight - 1), k \in 0..(RowWidth - 1) :
              o = HeaderSize + r * RowStride + k
        BY DEF PixelOffsets, RowWidth, RowStride
      <4>2. r * RowStride \in Nat /\ k \in Nat
        BY <2>2
      <4> QED
        BY <4>1, <4>2, <2>3
    <3>3. AlikeSoFar'
      BY <1>1, <2>1, <3>1, <3>2, FilesStay DEF AlikeSoFar
    <3>4. pos1' = pos2' /\ pos1' \in Nat /\ sz' \in 0..RowWidth'
      BY <1>1, <2>1, <2>2, <2>3, <2>4, FilesStay
    <3> QED
      BY <3>3, <3>4 DEF Compared
  <2>5. /\ SameHeaders' /\ f1' = f1 /\ i_row' \in 0..f1'.head.biHeight
    BY <1>1, <2>1, <2>2, FilesStay
  <2>6. stage' = "rows" /\ expected' = expected /\ pc' = pc /\ exit' = exit
    BY <1>1, <2>1
  <2> QED
    BY <1>1, <2>4, <2>5, <2>6 DEF Whole, MInv, VerdictRight
<1> QED
  BY <1>2, <1>3

LEMMA LoopKeepsMInv ==
  ASSUME NoWrap, SizesFit, Whole, file_cmp, UNCHANGED vars
  PROVE  MInv'
<1>1. /\ stage = "rows" /\ i_row < f1.head.biHeight /\ exit = 0 /\ SameHeaders
      /\ UNCHANGED <<disk, env, expected, pc, exit>>
  BY DEF file_cmp, vars, Whole, MInv
<1>2. Looping
  BY <1>1, InTheLoop DEF Whole
<1>3. \* it goes on
      ASSUME stage' = stage, status' = status, i_row' \in 0..f1'.head.biHeight, Compared'
      PROVE  MInv'
  BY <1>1, <1>3, FilesStay DEF Whole, MInv, VerdictRight
<1> DEFINE read == Cardinality(DOMAIN fread(f1, pos1, Chunk))
<1>4. \/ sz = 0 /\ NextRow(0)
      \/ sz > 0 /\ Result = "CMP_INT_EQ" /\ NextRow(read)
      \/ sz > 0 /\ Result = "CMP_INT_DIFF" /\ MatcherReturns("BMP_CMP_DIFF")
      \/ /\ sz > 0 /\ Result = "CMP_INT_UNDEF"
         /\ sz' = sz - CMP_BUFFER_SIZE
         /\ pos1' = pos1 + read
         /\ pos2' = pos2 + Cardinality(DOMAIN fread(f2, pos2, Chunk))
         /\ UNCHANGED <<stage, status, i_row>>
  BY DEF file_cmp, Result, Chunk
<1>5. CASE sz = 0 /\ NextRow(0)
  <2>1. \A k \in 0..(0 - 1) : SameAt(pos1 + k)
    OBVIOUS
  <2>2. Compared' /\ i_row' \in 0..f1'.head.biHeight
    BY <1>1, <1>2, <1>5, <2>1, RowCompared
  <2> QED
    BY <1>3, <1>5, <2>2 DEF NextRow
<1>6. CASE sz > 0 /\ Result = "CMP_INT_EQ" /\ NextRow(read)
  <2>1. /\ read \in 0..Chunk
        /\ \A k \in 0..(Chunk - 1) : SameAt(pos1 + k)
        /\ read < Chunk => pos1 + read >= f1.size /\ pos1 + read >= f2.size
        /\ read # CMP_BUFFER_SIZE
    BY <1>2, <1>6, NoDifference
  <2>2. sz \in Nat /\ CMP_BUFFER_SIZE \in Nat
    BY <1>2 DEF Looping
  <2> HIDE DEF read
  <2>3. /\ read \in Nat /\ read <= sz
        /\ read = sz \/ (pos1 + read >= f1.size /\ pos1 + read >= f2.size)
        /\ \A k \in 0..(read - 1) : SameAt(pos1 + k)
    BY <2>1, <2>2 DEF Chunk
  <2>4. Compared' /\ i_row' \in 0..f1'.head.biHeight
    BY <1>1, <1>2, <1>6, <2>3, RowCompared
  <2> QED
    BY <1>3, <1>6, <2>4 DEF NextRow
<1>7. CASE sz > 0 /\ Result = "CMP_INT_DIFF" /\ MatcherReturns("BMP_CMP_DIFF")
  <2>1. Justified("BMP_CMP_DIFF")
    BY <1>2, <1>7, DifferenceTrue DEF Justified
  <2>2. "BMP_CMP_DIFF" \notin NotRun
    BY DEF NotRun
  <2> QED
    BY <1>1, <1>7, <2>1, <2>2, Answered DEF Whole
<1>8. CASE /\ sz > 0 /\ Result = "CMP_INT_UNDEF"
           /\ sz' = sz - CMP_BUFFER_SIZE
           /\ pos1' = pos1 + read
           /\ pos2' = pos2 + Cardinality(DOMAIN fread(f2, pos2, Chunk))
           /\ UNCHANGED <<stage, status, i_row>>
  <2>1. Compared'
    BY <1>1, <1>2, <1>8, ChunkCompared
  <2>2. i_row' \in 0..f1'.head.biHeight
    BY <1>1, <1>8, FilesStay DEF Whole, MInv
  <2> QED
    BY <1>3, <1>8, <2>1, <2>2
<1> QED
  BY <1>4, <1>5, <1>6, <1>7, <1>8

\* After the last row every offset has been compared.
LEMMA AllCompared ==
  ASSUME NoWrap, SizesFit, Whole, stage = "rows", i_row = f1.head.biHeight
  PROVE  SameHeaders /\ \A o \in PixelOffsets : SameAt(o)
<1>1. /\ SameHeaders /\ exit = 0 /\ i_row \in 0..f1.head.biHeight
      /\ f1.head.biHeight > 0 => Compared
  BY DEF Whole, MInv
<1>2. f1.size >= HeaderSize
  BY <1>1 DEF SameHeaders, header_is_correct
<1>3. /\ RowWidth \in Nat /\ RowStride \in Nat /\ f1.head.biHeight \in Nat
      /\ RowStride = RowWidth + get_padding(f1.head.biWidth)
      /\ get_padding(f1.head.biWidth) \in Nat
  BY <1>1, <1>2, RowSizes DEF Whole
<1>4. HeaderSize \in Nat
  BY BitmapAssumption
<1>5. ASSUME NEW o \in PixelOffsets PROVE SameAt(o)
  <2>1. PICK r \in 0..(f1.head.biHeight - 1), k \in 0..(RowWidth - 1) :
          o = HeaderSize + r * RowStride + k
    BY DEF PixelOffsets, RowWidth, RowStride
  <2>2. f1.head.biHeight > 0 /\ Compared
    BY <1>1, <1>3
  <2>3. CASE AlikeToTheEnd
    BY <2>3 DEF AlikeToTheEnd
  <2>4. CASE AlikeSoFar
    <3> DEFINE m == i_row * RowStride
               n == r * RowStride
    <3>1. RowStride * r + RowStride <= RowStride * f1.head.biHeight
      BY <1>3, RowsInOrder
    <3>2. m \in Nat /\ n \in Nat /\ n + RowStride <= m
      <4>1. RowStride * r = n /\ RowStride * f1.head.biHeight = m
        BY <1>3
      <4>2. m \in Nat /\ n \in Nat
        BY <1>3
      <4> HIDE DEF m, n
      <4> QED
        BY <3>1, <4>1, <4>2
    <3>3. o = HeaderSize + n + k /\ pos1 = HeaderSize + m + (RowWidth - sz) /\ sz \in 0..RowWidth
      BY <2>1, <2>2, <2>4 DEF AlikeSoFar, Compared
    <3> HIDE DEF m, n
    <3>4. o < pos1
      BY <3>2, <3>3, <1>3, <1>4
    <3> QED
      BY <2>4, <3>4 DEF AlikeSoFar
  <2> QED
    BY <2>2, <2>3, <2>4 DEF Compared
<1> QED
  BY <1>1, <1>5

LEMMA DoneKeepsMInv ==
  ASSUME NoWrap, SizesFit, Whole, MatcherDone, UNCHANGED vars
  PROVE  MInv'
<1>1. /\ stage = "rows" /\ i_row = f1.head.biHeight /\ MatcherReturns("BMP_CMP_EQUALS")
      /\ UNCHANGED <<disk, env, expected, pc, exit>>
  BY DEF MatcherDone, vars
<1>2. Justified("BMP_CMP_EQUALS")
  BY <1>1, AllCompared DEF Justified
<1>3. "BMP_CMP_EQUALS" \notin NotRun
  BY DEF NotRun
<1> QED
  BY <1>1, <1>2, <1>3, Answered DEF Whole

LEMMA InitMInv == MatcherInit => MInv
<1> SUFFICES ASSUME MatcherInit PROVE MInv
  OBVIOUS
<1>1. NoFile.size \in Int
  BY DEF NoFile
<1> QED
  BY <1>1 DEF MatcherInit, MInv, VerdictRight

LEMMA MatcherNextKeepsMInv ==
  NoWrap /\ SizesFit /\ Whole /\ [MatcherNext]_<<vars, matcher_vars>> => MInv'
<1> SUFFICES ASSUME NoWrap, SizesFit, Whole, [MatcherNext]_<<vars, matcher_vars>>
             PROVE  MInv'
  OBVIOUS
<1>1. CASE Next /\ UNCHANGED matcher_vars
  BY <1>1, TransformerKeepsMInv DEF Whole
<1>2. CASE (TransformerFails \/ MatcherOpens) /\ UNCHANGED vars
  BY <1>2, OpeningKeepsMInv
<1>3. CASE (MatcherRejects \/ MatcherAccepts) /\ UNCHANGED vars
  BY <1>3, HeadersKeepMInv
<1>4. CASE file_cmp /\ UNCHANGED vars
  BY <1>4, LoopKeepsMInv
<1>5. CASE MatcherDone /\ UNCHANGED vars
  BY <1>5, DoneKeepsMInv
<1>6. CASE UNCHANGED <<vars, matcher_vars>>
  <2>1. UNCHANGED matcher_vars /\ UNCHANGED <<disk, env, pc, exit>>
    BY <1>6 DEF vars
  <2>2. UNCHANGED <<stage, expected, status, i_row, sz, pos1, pos2>>
    BY <2>1 DEF matcher_vars
  <2>3. /\ f1' = f1 /\ f2' = f2 /\ PixelOffsets' = PixelOffsets
        /\ RowWidth' = RowWidth /\ RowStride' = RowStride
        /\ SameHeaders' <=> SameHeaders
    BY <2>1, <2>2, FilesStay
  <2>4. VerdictRight'
    BY <2>2, <2>3 DEF Whole, MInv, VerdictRight, header_is_correct
  <2>5. Compared => Compared'
    BY <2>2, <2>3 DEF Compared, AlikeSoFar, AlikeToTheEnd, SameAt
  <2> QED
    BY <2>1, <2>2, <2>3, <2>4, <2>5 DEF Whole, MInv
<1> QED
  BY <1>1, <1>2, <1>3, <1>4, <1>5, <1>6 DEF MatcherNext, bmp_cmp

\* The transformer under test is the transformer.
LEMMA TransformerRuns == MatcherSpec => Spec
<1>1. MatcherInit => Init
  BY DEF MatcherInit
<1>2. [MatcherNext]_<<vars, matcher_vars>> => [Next]_vars
  BY DEF MatcherNext
<1> QED
  BY <1>1, <1>2, PTL DEF MatcherSpec, Spec

LEMMA Always == ASSUME NoWrap, SizesFit PROVE MatcherSpec => []Whole
<1>1. MatcherSpec => [](IInv /\ PInv)
  BY TransformerRuns, PictureInvariance, PTL
<1>2. MatcherSpec => []TypeOK
  BY TransformerRuns, Typed, PTL
<1>3. MatcherInit => MInv
  BY InitMInv
<1>4. TypeOK /\ (IInv /\ PInv) /\ MInv /\ [MatcherNext]_<<vars, matcher_vars>> => MInv'
  BY MatcherNextKeepsMInv DEF Whole
<1>5. MatcherSpec => []MInv
  BY <1>1, <1>2, <1>3, <1>4, PTL DEF MatcherSpec
<1>6. TypeOK /\ (IInv /\ PInv) /\ MInv => Whole
  BY DEF Whole
<1> QED
  BY <1>1, <1>2, <1>5, <1>6, PTL

-----------------------------------------------------------------------------
(* The theorems.                                                           *)

\* image-matcher calls two files equal if and only if they have the same
\* pixels, whatever the size of its buffer (bmp.c:50-79, file_cmp.c:31-52).
THEOREM Matches == ASSUME NoWrap, SizesFit PROVE MatcherSpec => []VerdictRight
<1>1. Whole => VerdictRight
  BY DEF Whole, MInv
<1> QED
  BY <1>1, Always, PTL

\* A file with its pixels right behind the header is whole if and only if it
\* goes beyond the offset of each byte of them.
LEMMA WholeFile ==
  ASSUME NEW f, f.size \in Int, f.head.biWidth \in Nat, f.head.biHeight \in Nat,
         f.head.bOffBits = HeaderSize, f.size >= HeaderSize
  PROVE  Readable(f) <=>
           \A r \in 0..(f.head.biHeight - 1), k \in 0..(PixelSize * f.head.biWidth - 1) :
             HeaderSize + r * Stride(f.head.biWidth) + k < f.size
<1> DEFINE w == f.head.biWidth
           h == f.head.biHeight
           s == Stride(w)
           m == (h - 1) * s
<1>1. /\ w \in Nat /\ h \in Nat /\ s \in Nat /\ HeaderSize \in Nat
      /\ PixelSize * w \in Nat /\ (w > 0 <=> PixelSize * w > 0)
  BY RowLength, BitmapAssumption DEF PixelSize
<1>2. Readable(f) <=> (w > 0 /\ h > 0 => HeaderSize + m + PixelSize * w <= f.size)
  BY DEF Readable
<1>3. ASSUME Readable(f), NEW r \in 0..(h - 1), NEW k \in 0..(PixelSize * w - 1)
      PROVE  HeaderSize + r * s + k < f.size
  <2>1. w > 0 /\ h > 0 /\ r \in Nat /\ r <= h - 1 /\ h - 1 \in Nat
    BY <1>1
  <2>2. r * s <= m /\ r * s \in Nat /\ m \in Nat
    <3>1. CASE r = h - 1
      BY <3>1, <2>1, <1>1
    <3>2. CASE r < h - 1
      <4>1. s * r + s <= s * (h - 1)
        BY <3>2, <2>1, <1>1, RowsInOrder
      <4>2. s * r = r * s /\ s * (h - 1) = m /\ m \in Nat /\ r * s \in Nat
        BY <2>1, <1>1
      <4> QED
        BY <4>1, <4>2, <1>1
    <3> QED
      BY <3>1, <3>2, <2>1
  <2>3. HeaderSize + m + PixelSize * w <= f.size
    BY <1>2, <1>3, <2>1
  <2> DEFINE n == r * s
             p == PixelSize * w
  <2>4. n <= m /\ n \in Nat /\ m \in Nat /\ HeaderSize + m + p <= f.size
        /\ k \in 0..(p - 1) /\ p \in Nat
    BY <2>2, <2>3, <1>1
  <2> HIDE DEF n, m, p
  <2>5. HeaderSize + n + k < f.size
    BY <2>4, <1>1
  <2> QED
    BY <2>5 DEF n
<1>4. ASSUME \A r \in 0..(h - 1), k \in 0..(PixelSize * w - 1) :
               HeaderSize + r * s + k < f.size
      PROVE  Readable(f)
  <2> SUFFICES ASSUME w > 0, h > 0 PROVE HeaderSize + m + PixelSize * w <= f.size
    BY <1>2
  <2>1. h - 1 \in 0..(h - 1) /\ PixelSize * w - 1 \in 0..(PixelSize * w - 1)
    BY <1>1
  <2>2. HeaderSize + m + (PixelSize * w - 1) < f.size
    BY <1>4, <2>1
  <2>3. m \in Nat
    BY <2>1, <1>1
  <2> DEFINE p == PixelSize * w
  <2>4. HeaderSize + m + (p - 1) < f.size /\ p \in Nat
    BY <2>2, <1>1
  <2> HIDE DEF m, p
  <2>5. HeaderSize + m + p <= f.size
    BY <2>3, <2>4, <1>1
  <2> QED
    BY <2>5 DEF p
<1> QED
  BY <1>3, <1>4

\* A byte of a row is one of the three of a pixel.
LEMMA ByteOfPixel ==
  ASSUME NEW w \in Nat, NEW k \in 0..(PixelSize * w - 1)
  PROVE  \E c \in 0..(w - 1), j \in 1..PixelSize : k = PixelSize * c + (j - 1)
<1>1. k \div PixelSize \in 0..(w - 1) /\ 1 + (k % PixelSize) \in 1..PixelSize
      /\ k = PixelSize * (k \div PixelSize) + ((1 + (k % PixelSize)) - 1)
  BY DEF PixelSize
<1> QED
  BY <1>1

LEMMA PixelByte ==
  ASSUME NEW f, f.head.bOffBits = HeaderSize, f.head.biWidth \in Nat,
         NEW r \in Nat, NEW c \in Nat, NEW k \in 1..PixelSize
  PROVE  FilePixel(f, r, c)[k] =
           ByteAt(f, HeaderSize + r * Stride(f.head.biWidth) + PixelSize * c + (k - 1))
<1> DEFINE o == HeaderSize + r * Stride(f.head.biWidth) + PixelSize * c
<1>1. o \in Int
  BY RowLength, BitmapAssumption DEF PixelSize
<1>2. FilePixel(f, r, c) = PixelAt(f, o)
  BY DEF FilePixel
<1> HIDE DEF o
<1>3. PixelAt(f, o)[k] = ByteAt(f, o + (k - 1))
  BY <1>1, PixelBytes
<1> QED
  BY <1>2, <1>3 DEF o

\* Pixels with the same bytes are the same.
LEMMA PixelsEqual ==
  ASSUME NEW f, NEW g, NEW r \in Int, NEW c \in Int, NEW q \in Int, NEW d \in Int,
         \A k \in 1..PixelSize : FilePixel(f, r, c)[k] = FilePixel(g, q, d)[k]
  PROVE  FilePixel(f, r, c) = FilePixel(g, q, d)
<1>1. /\ FilePixel(f, r, c)[1] = FilePixel(g, q, d)[1]
      /\ FilePixel(f, r, c)[2] = FilePixel(g, q, d)[2]
      /\ FilePixel(f, r, c)[3] = FilePixel(g, q, d)[3]
  BY DEF PixelSize
<1> DEFINE o == f.head.bOffBits + r * Stride(f.head.biWidth) + PixelSize * c
           p == g.head.bOffBits + q * Stride(g.head.biWidth) + PixelSize * d
<1>2. FilePixel(f, r, c) = PixelAt(f, o) /\ FilePixel(g, q, d) = PixelAt(g, p)
  BY DEF FilePixel
<1> HIDE DEF o, p
<1> QED
  BY <1>1, <1>2 DEF PixelAt

\* Where the output has its header, and which offsets its pixels.
LEMMA OutputIs ==
  ASSUME NoWrap, SizesFit, Whole, exit = 0, f1.size >= HeaderSize
  PROVE  /\ header_is_correct(f1) /\ f1.head.bOffBits = HeaderSize
         /\ f1.head.biWidth = Height /\ f1.head.biHeight = Width
         /\ Width \in Nat /\ Height \in Nat /\ f1.size \in Int
         /\ PixelOffsets = {HeaderSize + r * Stride(Height) + k :
                              r \in 0..(Width - 1), k \in 0..(PixelSize * Height - 1)}
<1>1. /\ header_is_correct(f1) /\ f1.head.bOffBits = HeaderSize
      /\ f1.head.biWidth = Height /\ f1.head.biHeight = Width
      /\ Width \in Nat /\ Height \in Nat /\ f1.size \in Int
  BY KeptHeader, KeptSize, Sizes DEF Whole
<1>2. PixelOffsets = {HeaderSize + r * Stride(Height) + k :
                        r \in 0..(Width - 1), k \in 0..(PixelSize * Height - 1)}
  BY <1>1 DEF PixelOffsets
<1> QED
  BY <1>1, <1>2

\* What the output has there, as far as it goes: the input turned.
LEMMA OutputBytes ==
  ASSUME NoWrap, SizesFit, Whole, exit = 0, f1.size >= HeaderSize
  PROVE  \A r \in 0..(Width - 1), c \in 0..(Height - 1), k \in 1..PixelSize :
           LET o == HeaderSize + r * Stride(Height) + PixelSize * c + (k - 1)
           IN  /\ o \in PixelOffsets
               /\ o < f1.size => ByteAt(f1, o) = FilePixel(given, Height - 1 - c, r)[k]
<1>1. /\ Width \in Nat /\ Height \in Nat
      /\ PixelOffsets = {HeaderSize + r * Stride(Height) + k :
                           r \in 0..(Width - 1), k \in 0..(PixelSize * Height - 1)}
  BY OutputIs
<1>2. ASSUME NEW r \in 0..(Width - 1), NEW c \in 0..(Height - 1), NEW k \in 1..PixelSize
      PROVE  LET o == HeaderSize + r * Stride(Height) + PixelSize * c + (k - 1)
             IN  /\ o \in PixelOffsets
                 /\ o < f1.size => ByteAt(f1, o) = FilePixel(given, Height - 1 - c, r)[k]
  <2>1. PixelSize * c + (k - 1) \in 0..(PixelSize * Height - 1)
    BY <1>1 DEF PixelSize
  <2>2. r * Stride(Height) \in Nat /\ HeaderSize \in Nat /\ PixelSize * c \in Nat /\ k \in Int
    BY <1>1, RowLength, BitmapAssumption DEF PixelSize
  <2> DEFINE n == r * Stride(Height)
  <2>3. HeaderSize + n + PixelSize * c + (k - 1) = HeaderSize + n + (PixelSize * c + (k - 1))
    <3> HIDE DEF n
    <3> QED
      BY <2>2 DEF n
  <2> QED
    BY <1>1, <2>1, <2>3, KeptPixels DEF Whole
<1> QED
  BY <1>2

\* The pictures of the files are the same exactly when their bytes at the
\* offsets of pixels are, if the expected one is whole.
LEMMA SamePicture ==
  ASSUME NoWrap, SizesFit, Whole, exit = 0, f1.size >= HeaderSize, header_is_correct(f2),
         f2.head.bOffBits = HeaderSize, Readable(f2), SameHeaders
  PROVE  (\A o \in PixelOffsets : SameAt(o)) <=> Readable(f1) /\ IsRotationOf(f2, given)
<1>1. /\ header_is_correct(f1) /\ f1.head.bOffBits = HeaderSize
      /\ f1.head.biWidth = Height /\ f1.head.biHeight = Width
      /\ Width \in Nat /\ Height \in Nat /\ f1.size \in Int
      /\ PixelOffsets = {HeaderSize + r * Stride(Height) + k :
                           r \in 0..(Width - 1), k \in 0..(PixelSize * Height - 1)}
  BY OutputIs
<1>2. \A r \in 0..(Width - 1), c \in 0..(Height - 1), k \in 1..PixelSize :
        LET o == HeaderSize + r * Stride(Height) + PixelSize * c + (k - 1)
        IN  /\ o \in PixelOffsets
            /\ o < f1.size => ByteAt(f1, o) = FilePixel(given, Height - 1 - c, r)[k]
  BY OutputBytes
<1>3. /\ f2.size \in Int /\ f2.size >= HeaderSize /\ f2.head.bOffBits = HeaderSize
      /\ f2.head.biWidth = Height /\ f2.head.biHeight = Width
  BY <1>1 DEF Whole, MInv, f2, header_is_correct, SameHeaders
<1>4. /\ Readable(f1) <=> \A r \in 0..(Width - 1), k \in 0..(PixelSize * Height - 1) :
                            HeaderSize + r * Stride(Height) + k < f1.size
      /\ Readable(f2) <=> \A r \in 0..(Width - 1), k \in 0..(PixelSize * Height - 1) :
                            HeaderSize + r * Stride(Height) + k < f2.size
  <2>1. ASSUME NEW f, f.size \in Int, f.size >= HeaderSize, f.head.bOffBits = HeaderSize,
               f.head.biWidth = Height, f.head.biHeight = Width
        PROVE  Readable(f) <=> \A r \in 0..(Width - 1), k \in 0..(PixelSize * Height - 1) :
                                 HeaderSize + r * Stride(Height) + k < f.size
    BY <2>1, <1>1, WholeFile
  <2> QED
    BY <1>1, <1>3, <2>1
<1>5. \A o \in PixelOffsets : o < f2.size
  BY <1>1, <1>4
<1>6. Readable(f1) <=> \A o \in PixelOffsets : o < f1.size
  BY <1>1, <1>4
<1>7. \A r \in 0..(Width - 1), c \in 0..(Height - 1), k \in 1..PixelSize :
        FilePixel(f2, r, c)[k] =
          ByteAt(f2, HeaderSize + r * Stride(Height) + PixelSize * c + (k - 1))
  <2> SUFFICES ASSUME NEW r \in 0..(Width - 1), NEW c \in 0..(Height - 1), NEW k \in 1..PixelSize
               PROVE  FilePixel(f2, r, c)[k] =
                        ByteAt(f2, HeaderSize + r * Stride(Height) + PixelSize * c + (k - 1))
    OBVIOUS
  <2>1. r \in Nat /\ c \in Nat /\ f2.head.biWidth \in Nat
    BY <1>1, <1>3
  <2> QED
    BY <1>3, <2>1, PixelByte
<1>8. ASSUME \A o \in PixelOffsets : SameAt(o)
      PROVE  Readable(f1) /\ IsRotationOf(f2, given)
  <2>1. Readable(f1)
    BY <1>5, <1>6, <1>8 DEF SameAt
  <2>2. ASSUME NEW r \in 0..(Width - 1), NEW c \in 0..(Height - 1)
        PROVE  FilePixel(f2, r, c) = FilePixel(given, Height - 1 - c, r)
    <3>1. ASSUME NEW k \in 1..PixelSize
          PROVE  FilePixel(f2, r, c)[k] = FilePixel(given, Height - 1 - c, r)[k]
      <4> DEFINE o == HeaderSize + r * Stride(Height) + PixelSize * c + (k - 1)
      <4>1. /\ o \in PixelOffsets
            /\ o < f1.size => ByteAt(f1, o) = FilePixel(given, Height - 1 - c, r)[k]
            /\ FilePixel(f2, r, c)[k] = ByteAt(f2, o)
        BY <1>2, <1>7
      <4> HIDE DEF o
      <4>2. o < f1.size /\ ByteAt(f1, o) = ByteAt(f2, o)
        BY <4>1, <1>8, <1>6, <2>1 DEF SameAt
      <4> QED
        BY <4>1, <4>2
    <3>2. r \in Int /\ c \in Int /\ Height - 1 - c \in Int
      BY <1>1
    <3> QED
      BY <3>1, <3>2, PixelsEqual
  <2> QED
    BY <1>3, <2>1, <2>2 DEF IsRotationOf, Width, Height
<1>9. ASSUME Readable(f1), IsRotationOf(f2, given), NEW o \in PixelOffsets
      PROVE  SameAt(o)
  <2>1. o < f1.size /\ o < f2.size
    BY <1>5, <1>6, <1>9
  <2>2. PICK r \in 0..(Width - 1), i \in 0..(PixelSize * Height - 1) :
          o = HeaderSize + r * Stride(Height) + i
    BY <1>1
  <2>3. PICK c \in 0..(Height - 1), k \in 1..PixelSize : i = PixelSize * c + (k - 1)
    BY <1>1, ByteOfPixel
  <2>4. o = HeaderSize + r * Stride(Height) + PixelSize * c + (k - 1)
    <3> DEFINE n == r * Stride(Height)
    <3>1. n \in Nat /\ HeaderSize \in Nat /\ c \in Nat /\ k \in Nat
      BY <1>1, RowLength, BitmapAssumption DEF PixelSize
    <3>2. o = HeaderSize + n + i
      BY <2>2
    <3> HIDE DEF n
    <3>3. o = HeaderSize + n + PixelSize * c + (k - 1)
      BY <3>1, <3>2, <2>3 DEF PixelSize
    <3> QED
      BY <3>3 DEF n
  <2>5. ByteAt(f1, o) = FilePixel(given, Height - 1 - c, r)[k]
    BY <1>2, <2>1, <2>4
  <2>6. ByteAt(f2, o) = FilePixel(f2, r, c)[k]
    BY <1>7, <2>4
  <2>7. FilePixel(f2, r, c) = FilePixel(given, Height - 1 - c, r)
    BY <1>9 DEF IsRotationOf, Width, Height
  <2> QED
    BY <2>1, <2>5, <2>6, <2>7 DEF SameAt
<1> QED
  BY <1>8, <1>9

\* A test that expects a whole bitmap passes if and only if the transformer has
\* left a whole picture, and the expected one is the input turned, whatever the
\* device has kept and however the buffer divides a row (tester.cmake:24-25).
THEOREM TestsRight == ASSUME NoWrap, SizesFit PROVE MatcherSpec => []TestVerdict
<1>1. ASSUME NoWrap, SizesFit, Whole PROVE TestVerdict
  <2> SUFFICES ASSUME stage = "over", header_is_correct(f2),
                      f2.head.bOffBits = HeaderSize, Readable(f2)
               PROVE  status = "BMP_CMP_EQUALS" <=> Readable(f1) /\ IsRotationOf(f2, given)
    BY DEF TestVerdict
  <2>1. status \notin NotRun
    <3>1. expected # NoFile
      BY BitmapAssumption DEF header_is_correct, f2, NoFile
    <3> QED
      BY <1>1, <3>1 DEF Whole, MInv
  <2>2. exit = 0 /\ VerdictRight
    BY <1>1, <2>1 DEF Whole, MInv
  <2>3. status = "BMP_CMP_EQUALS" <=> SameHeaders /\ \A o \in PixelOffsets : SameAt(o)
    BY <2>1, <2>2 DEF VerdictRight, SameHeaders, SameAt, NotRun
  <2>4. Readable(f1) /\ IsRotationOf(f2, given) => SameHeaders
    <3> SUFFICES ASSUME Readable(f1), IsRotationOf(f2, given) PROVE SameHeaders
      OBVIOUS
    <3>1. f1.size >= HeaderSize /\ f2.head.biWidth = Height /\ f2.head.biHeight = Width
      BY DEF Readable, IsRotationOf, Width, Height
    <3> QED
      BY <1>1, <2>2, <3>1, OutputIs DEF SameHeaders
  <2>5. SameHeaders => f1.size >= HeaderSize
    BY DEF SameHeaders, header_is_correct
  <2> QED
    BY <1>1, <2>2, <2>3, <2>4, <2>5, SamePicture
<1> QED
  BY <1>1, Always, PTL
================================================================================
