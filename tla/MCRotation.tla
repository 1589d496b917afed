------------------------------ MODULE MCRotation ------------------------------
(***************************************************************************)
(* Files for the runs of Rotation and Matcher: images of a few pixels, cut *)
(* short or not, with the pixels at different offsets.                     *)
(***************************************************************************)
EXTENDS Matcher

MCFile(type, w, h, off, len) ==
  [size |-> HeaderSize + len,
   head |-> [bfType |-> type, bfileSize |-> 0, bOffBits |-> off,
             biWidth |-> w, biHeight |-> h, biBitCount |-> 24, biSizeImage |-> 0],
   body |-> [k \in 1..len |-> k]]

\* Body lengths around the end of the pixels: one byte short, without the last
\* padding, with it, and a byte more.
MCLengths(w, h, off) ==
  LET rows == off - HeaderSize + h * Stride(w)
  IN  {n \in {0, rows - Stride(w) + PixelSize * w - 1,
              rows - Stride(w) + PixelSize * w, rows, rows + 1} : n >= 0}

MCShapes == {<<0, 2>>, <<2, 0>>, <<1, 1>>, <<1, 3>>, <<2, 2>>, <<2, 3>>, <<3, 2>>, <<4, 2>>, <<2, 4>>}

MCInputs ==
  {NoFile, [EmptyFile EXCEPT !.size = HeaderSize - 1]}
  \cup UNION {{MCFile(BMP_TYPE, s[1], s[2], off, n) : n \in MCLengths(s[1], s[2], off)} :
                s \in MCShapes, off \in {1, HeaderSize, HeaderSize + 2}}

\* Images whose number of pixels does not fit into the narrow Word of a run.
MCWide == {MCFile(BMP_TYPE, 2, 2, HeaderSize, 16), MCFile(BMP_TYPE, 3, 3, HeaderSize, 36)}

\* The input turned, written as the transformer does.
MCTurned(f) ==
  LET w == f.head.biHeight
      h == f.head.biWidth
      n == Stride(w)
  IN  [size |-> HeaderSize + h * n,
       head |-> bmp_gen_header(w, h),
       body |-> [k \in 1..(h * n) |->
                   LET r == (k - 1) \div n
                       p == (k - 1) % n
                   IN  IF p >= PixelSize * w THEN 0
                       ELSE FilePixel(f, w - 1 - (p \div PixelSize), r)[1 + (p % PixelSize)]]]

\* With a byte changed at offset o.
MCChanged(f, o) ==
  IF o < HeaderSize \/ o >= f.size THEN f ELSE [f EXCEPT !.body[o - HeaderSize + 1] = -100]

\* The input turned; with a wrong signature, depth or size; cut in the header,
\* where the device of a run is full, in the last pixel and in the padding;
\* with the first and the last byte of pixels and the first of padding changed;
\* with a gap behind the header; or no file.
MCExpectations(f) ==
  LET t == MCTurned(f)
      w == t.head.biWidth
      last == HeaderSize + (t.head.biHeight - 1) * Stride(w) + PixelSize * w - 1
  IN  {t, NoFile,
       [t EXCEPT !.head.bfType = 0],
       [t EXCEPT !.head.biBitCount = 32],
       [t EXCEPT !.head.biWidth = f.head.biWidth, !.head.biHeight = f.head.biHeight],
       Kept(t, HeaderSize - 1), Kept(t, 10), Kept(t, IF last < 0 THEN 0 ELSE last),
       Kept(t, last + 1),
       MCChanged(t, HeaderSize), MCChanged(t, last), MCChanged(t, HeaderSize + PixelSize * w),
       [t EXCEPT !.size = @ + 2, !.head.bOffBits = @ + 2, !.body = <<0, 0>> \o @]}
===============================================================================
