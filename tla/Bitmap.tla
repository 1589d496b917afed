-------------------------------- MODULE Bitmap --------------------------------
(***************************************************************************)
(* The pure part of ImageRotation/solution/src: the row padding and the    *)
(* sizes bmp.c computes, the header it writes, and the cell transformator.c *)
(* takes each pixel from.                                                  *)
(*                                                                         *)
(* A pixel is three bytes.  Word is the number of values of uint32_t.      *)
(***************************************************************************)
EXTENDS Integers

CONSTANTS
  HeaderSize,   \* sizeof(struct bmp_header)
  Word          \* number of values of uint32_t

ASSUME BitmapAssumption == HeaderSize \in Nat /\ Word \in Nat \ {0}

BMP_TYPE == 19778   \* "BM"

PixelSize == 3      \* sizeof(struct pixel)

\* Mutant: a full word of padding after a row that needs none.
bmp_calc_padding_full(width) == 4 - ((width * PixelSize) % 4)

bmp_calc_padding(width) == (4 - ((width * PixelSize) % 4)) % 4

bmp_calc_image_size_unpadded(width, height) ==  \* mutant: rows without padding
  (height * (width * PixelSize)) % Word

bmp_calc_image_size(width, height) ==
  (height * (width * PixelSize + bmp_calc_padding(width))) % Word

bmp_calc_file_size(width, height) ==
  (bmp_calc_image_size(width, height) + HeaderSize) % Word

\* The fields of the header that differ from file to file; from_bmp reads
\* bOffBits, biWidth and biHeight, and no other.
bmp_gen_header(width, height) ==
  [bfType      |-> BMP_TYPE,
   bfileSize   |-> bmp_calc_file_size(width, height),
   bOffBits    |-> HeaderSize,
   biWidth     |-> width % Word,
   biHeight    |-> height % Word,
   biBitCount  |-> PixelSize * 8,
   biSizeImage |-> bmp_calc_image_size(width, height)]

\* The number of pixels image_create has malloc make room for: the product
\* of two uint32_t.
image_room(width, height) == (width * height) % Word

\* Where image_rotate writes the pixel of (row, col), and where it takes it
\* from, in images stored row after row.
target_index(width, row, col) == width * row + col

source_index_clockwise(width, height, row, col) ==  \* mutant: the other way round
  width * col + (width - 1 - row)

source_index_late(width, height, row, col) ==  \* mutant: forgets the - 1
  width * (height - col) + row

source_index(width, height, row, col) == width * (height - 1 - col) + row
===============================================================================
