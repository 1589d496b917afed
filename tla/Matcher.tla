-------------------------------- MODULE Matcher --------------------------------
(***************************************************************************)
(* A test of ImageRotation/tester: tester.cmake runs image-transformer on  *)
(* an input and, if that exits with 0, image-matcher on the output and on  *)
(* the file that is expected.  The first is Rotation; the second, the main *)
(* and bmp_cmp of tester/src, compares the two files row by row and a row  *)
(* in chunks of CMP_BUFFER_SIZE bytes: a step is one chunk.                *)
(***************************************************************************)
EXTENDS Rotation

CONSTANTS
  CMP_BUFFER_SIZE,
  Expectations(_)   \* the files a test may expect of an input

ASSUME MatcherAssumption == CMP_BUFFER_SIZE \in Nat \ {0}

ASSUME ExpectationsAssumption ==
  \A f \in Inputs : Readable(f) => \A g \in Expectations(f) : g.size \in Int

VARIABLES
  stage,      \* where image-matcher is
  expected,   \* the file it compares the output with
  status,     \* what bmp_cmp returned, or main before it
  i_row,      \* the row under comparison
  sz,         \* the bytes of the row that are left
  pos1, pos2  \* the positions in the output and in the expected file

matcher_vars == <<stage, expected, status, i_row, sz, pos1, pos2>>

f1 == disk[output_path]
f2 == expected

-----------------------------------------------------------------------------

get_padding_usual(width) == (4 - (width % 4)) % 4   \* mutant: as for one byte a pixel

get_padding(width) == width % 4

header_is_correct(f) ==
  /\ f.size >= HeaderSize
  /\ f.head.bfType = BMP_TYPE
  /\ f.head.biBitCount = 24

\* The bytes of f at so many offsets from o on, as far as it has them.
fread(f, o, n) ==
  [k \in {j \in 0..(n - 1) : o + j < f.size} |-> ByteAt(f, o + k)]

cmp_chunk_prefix(buf1, buf2, read1, read2) ==  \* mutant: compares as much as both have
  IF \E k \in DOMAIN buf1 \cap DOMAIN buf2 : buf1[k] # buf2[k] THEN "CMP_INT_DIFF"
  ELSE IF read1 = CMP_BUFFER_SIZE THEN "CMP_INT_UNDEF" ELSE "CMP_INT_EQ"

\* CMP_INT_UNDEF after a full buffer: there may be more.
cmp_chunk(buf1, buf2, read1, read2) ==
  IF read1 # read2 \/ buf1 # buf2 THEN "CMP_INT_DIFF"
  ELSE IF read1 = CMP_BUFFER_SIZE THEN "CMP_INT_UNDEF" ELSE "CMP_INT_EQ"

-----------------------------------------------------------------------------

MatcherInit ==
  /\ Init
  /\ stage = "transforms"
  /\ expected = NoFile
  /\ status = "none"
  /\ i_row = 0 /\ sz = 0 /\ pos1 = 0 /\ pos2 = 0

MatcherReturns(st) ==
  /\ status' = st
  /\ stage' = "over"

\* A transformer that fails or dies fails the test.
TransformerFails ==
  /\ stage = "transforms"
  /\ pc \in Final /\ exit # 0
  /\ MatcherReturns("TRANSFORMER_FAILED")
  /\ UNCHANGED <<expected, i_row, sz, pos1, pos2>>

MatcherOpens ==
  /\ stage = "transforms"
  /\ pc = "done" /\ exit = 0
  /\ expected' \in Expectations(given)
  /\ IF expected' = NoFile
     THEN MatcherReturns("BAD_SECOND_INPUT_FILE")
     ELSE stage' = "headers" /\ UNCHANGED status
  /\ UNCHANGED <<i_row, sz, pos1, pos2>>

MatcherRejects ==
  /\ stage = "headers"
  /\ \/ /\ ~header_is_correct(f1)
        /\ MatcherReturns("BMP_CMP_FILE_ERROR")
     \/ /\ header_is_correct(f1)
        /\ ~header_is_correct(f2)
        /\ MatcherReturns("BMP_CMP_INVALID_FORMAT")
     \/ /\ header_is_correct(f1) /\ header_is_correct(f2)
        /\ \/ f1.head.biWidth # f2.head.biWidth
           \/ f1.head.biHeight # f2.head.biHeight
        /\ MatcherReturns("BMP_CMP_DIMENSIONS_DIFFER")
  /\ UNCHANGED <<expected, i_row, sz, pos1, pos2>>

row_size == (f1.head.biWidth * 3) % Word

\* The pixels are taken from behind the header.
MatcherAccepts ==
  /\ stage = "headers"
  /\ header_is_correct(f1) /\ header_is_correct(f2)
  /\ f1.head.biWidth = f2.head.biWidth
  /\ f1.head.biHeight = f2.head.biHeight
  /\ stage' = "rows"
  /\ i_row' = 0
  /\ sz' = row_size
  /\ pos1' = HeaderSize /\ pos2' = HeaderSize
  /\ UNCHANGED <<expected, status>>

\* A row without a difference: both files seek over its padding, past their
\* ends too.
NextRow(read) ==
  /\ i_row' = i_row + 1
  /\ sz' = row_size
  /\ pos1' = pos1 + read + get_padding(f1.head.biWidth)
  /\ pos2' = pos2 + read + get_padding(f1.head.biWidth)
  /\ UNCHANGED <<stage, status>>

file_cmp ==
  /\ stage = "rows"
  /\ i_row < f1.head.biHeight
  /\ LET chunk_size == IF CMP_BUFFER_SIZE < sz THEN CMP_BUFFER_SIZE ELSE sz
         buffer1 == fread(f1, pos1, chunk_size)
         buffer2 == fread(f2, pos2, chunk_size)
         read1 == Cardinality(DOMAIN buffer1)
         read2 == Cardinality(DOMAIN buffer2)
         result == cmp_chunk(buffer1, buffer2, read1, read2)
     IN  \/ sz = 0 /\ NextRow(0)
         \/ sz > 0 /\ result = "CMP_INT_EQ" /\ NextRow(read1)
         \/ /\ sz > 0 /\ result = "CMP_INT_DIFF"
            /\ MatcherReturns("BMP_CMP_DIFF")
            /\ UNCHANGED <<i_row, sz, pos1, pos2>>
         \/ /\ sz > 0 /\ result = "CMP_INT_UNDEF"
            /\ sz' = sz - CMP_BUFFER_SIZE
            /\ pos1' = pos1 + read1 /\ pos2' = pos2 + read2
            /\ UNCHANGED <<stage, status, i_row>>
  /\ UNCHANGED expected

MatcherDone ==
  /\ stage = "rows"
  /\ i_row = f1.head.biHeight
  /\ MatcherReturns("BMP_CMP_EQUALS")
  /\ UNCHANGED <<expected, i_row, sz, pos1, pos2>>

bmp_cmp == MatcherRejects \/ MatcherAccepts \/ file_cmp \/ MatcherDone

MatcherNext ==
  \/ Next /\ UNCHANGED matcher_vars
  \/ (TransformerFails \/ MatcherOpens \/ bmp_cmp) /\ UNCHANGED vars

MatcherSpec == MatcherInit /\ [][MatcherNext]_<<vars, matcher_vars>>

-----------------------------------------------------------------------------
(* What must hold.                                                         *)

\* The bytes of the pixels, behind the header, by row and place.
PixelOffsets ==
  {HeaderSize + r * Stride(f1.head.biWidth) + k :
     r \in 0..(f1.head.biHeight - 1), k \in 0..(PixelSize * f1.head.biWidth - 1)}

\* image-matcher calls two files equal if and only if they are bitmaps of the
\* same size with the same bytes for pixels and missing the same of them,
\* however the buffer divides a row, and whatever the padding holds
\* (bmp.c:50-79, file_cmp.c:31-52).
VerdictRight ==
  stage = "over" /\ status \notin {"TRANSFORMER_FAILED", "BAD_SECOND_INPUT_FILE"} =>
    (status = "BMP_CMP_EQUALS" <=>
       /\ header_is_correct(f1) /\ header_is_correct(f2)
       /\ f1.head.biWidth = f2.head.biWidth
       /\ f1.head.biHeight = f2.head.biHeight
       /\ \A o \in PixelOffsets :
            /\ o < f1.size <=> o < f2.size
            /\ o < f1.size => ByteAt(f1, o) = ByteAt(f2, o))

\* A test that expects a whole bitmap, its pixels right behind the header,
\* passes if and only if the transformer has left a whole picture and the one
\* expected is the input turned (tester.cmake:24-25).
TestVerdict ==
  stage = "over" /\ header_is_correct(f2) /\ f2.head.bOffBits = HeaderSize /\ Readable(f2) =>
    (status = "BMP_CMP_EQUALS" <=> Readable(f1) /\ IsRotationOf(f2, given))
================================================================================
