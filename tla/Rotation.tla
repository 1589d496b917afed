------------------------------- MODULE Rotation -------------------------------
(***************************************************************************)
(* image-transformer of ImageRotation/solution: main, process, read_file   *)
(* with from_bmp, image_rotate, write_file with to_bmp.                    *)
(*                                                                         *)
(* A step is one iteration of a loop over rows, or the straight-line code  *)
(* between two loops.  What the program cannot choose is chosen in Init or *)
(* by \E: the input file, whether it can be opened and sought in, whether  *)
(* the two paths name one file, the room on the output device, when stdio  *)
(* flushes, and whether malloc finds memory.                               *)
(*                                                                         *)
(* A file is [size, head, body]: head holds its first HeaderSize bytes and *)
(* means something only if size >= HeaderSize; body is the bytes after it. *)
(* Bytes are numbers: k > 0 the k-th byte of an input's body, 0 a zero     *)
(* byte, k < 0 a byte of a header.                                         *)
(***************************************************************************)
EXTENDS Bitmap, Sequences, FiniteSets

CONSTANTS
  Inputs,         \* the files the user may pass
  Rooms,          \* bytes the output device has room for
  MallocMayFail   \* BOOLEAN: may malloc return NULL?

ASSUME InputsAssumption ==
  \A f \in Inputs : /\ f.size \in Int
                    /\ f.head.bOffBits \in Nat
                    /\ f.head.biWidth \in 0..(Word - 1)
                    /\ f.head.biHeight \in 0..(Word - 1)

ASSUME RoomsAssumption == Rooms \subseteq Nat

VARIABLES
  env,            \* what holds of the run's surroundings, see Environments
  given,          \* the file at input_path when the program starts
  disk,           \* the files now: "in" and "out" -> file
  pc,             \* where the program is
  streams,        \* the FILEs that are open, of "in" and "out"
  pos,            \* position in the input stream
  row,            \* the row under the running loop
  img,            \* input_img, in process
  new_img,        \* processed_img, in process
  mem,            \* the malloc-ed blocks: "img", "new_img" -> index -> pixel
  out,            \* what has been written to the output stream, a file
  read_status, write_status,
  exit            \* the exit status; -1 before the end

vars == <<env, given, disk, pc, streams, pos, row, img, new_img, mem, out,
          read_status, write_status, exit>>

-----------------------------------------------------------------------------
(* Files.                                                                  *)

NoHead == [bfType |-> 0, bfileSize |-> 0, bOffBits |-> 0, biWidth |-> 0,
           biHeight |-> 0, biBitCount |-> 0, biSizeImage |-> 0]

NoFile == [size |-> -1, head |-> NoHead, body |-> <<>>]     \* fopen fails
EmptyFile == [size |-> 0, head |-> NoHead, body |-> <<>>]

\* The byte at an offset below the size of f.
ByteAt(f, o) == IF o < HeaderSize THEN -1 - o ELSE f.body[o - HeaderSize + 1]

PixelAt(f, o) == <<ByteAt(f, o), ByteAt(f, o + 1), ByteAt(f, o + 2)>>

\* What a device with so much room keeps of f.
Kept(f, room) ==
  IF f.size <= room THEN f
  ELSE IF room < HeaderSize THEN [EmptyFile EXCEPT !.size = room]
  ELSE [f EXCEPT !.size = room, !.body = SubSeq(f.body, 1, room - HeaderSize)]

\* The stream after fwrite of so many bytes.
fwritten(f, bytes) ==
  [f EXCEPT !.size = @ + Len(bytes), !.body = @ \o bytes]

-----------------------------------------------------------------------------
(* Memory.                                                                 *)

NULL == "NULL"
Junk == <<-1, -1, -1>>                \* a pixel nobody has written
NoImage == [width |-> 0, height |-> 0, data |-> NULL]

Cells(data) == IF data \in DOMAIN mem THEN DOMAIN mem[data] ELSE {}

\* What malloc may return for an image called name: NULL, or room.
Mallocs(name) == {name} \cup (IF MallocMayFail THEN {NULL} ELSE {})

image_create(width, height, data) ==
  [width |-> width % Word, height |-> height % Word, data |-> data]

Room(image) ==
  [i \in 0..(image_room(image.width, image.height) - 1) |-> Junk]

\* mem with the block of a new image, if it has one.
Allocated(image) ==
  [b \in DOMAIN mem \cup ({image.data} \ {NULL}) |->
     IF b = image.data THEN Room(image) ELSE mem[b]]

image_destroy_nothing(image) == mem   \* mutant: forgets the free

image_destroy(image) == [b \in DOMAIN mem \ {image.data} |-> mem[b]]

-----------------------------------------------------------------------------
(* The surroundings.                                                       *)

Environments ==
  [same     : BOOLEAN,   \* do the two paths name one file?
   seekable : BOOLEAN,   \* does fseek work on the input?
   writable : BOOLEAN,   \* does fopen(output_path, "wb") work?
   room     : Rooms]     \* bytes the device keeps of the output

output_path == IF env.same THEN "in" ELSE "out"

Init ==
  /\ env \in Environments
  /\ given \in Inputs
  /\ disk = [f \in {"in", "out"} |-> IF f = "in" THEN given ELSE NoFile]
  /\ pc = "open_input"
  /\ streams = {}
  /\ pos = 0 /\ row = 0
  /\ img = NoImage /\ new_img = NoImage
  /\ mem = [b \in {} |-> <<>>]
  /\ out = EmptyFile
  /\ read_status = "none" /\ write_status = "none"
  /\ exit = -1

\* Undefined behaviour that the run survives or not: nothing is claimed of
\* the program any more.
Undefined(how) == pc' = how /\ UNCHANGED <<disk, streams, pos, row, img,
                     new_img, mem, out, read_status, write_status, exit>>

-----------------------------------------------------------------------------
(* read_file and from_bmp.                                                 *)

ReadReturns_short_is_fine(st) ==  \* mutant: process goes on after a short read
  /\ read_status' = st
  /\ streams' = streams \ {"in"}
  /\ pc' = IF st \in {"READ_OK", "READ_INVALID_BITS"} THEN "rotate" ELSE "done"
  /\ exit' = IF st \in {"READ_OK", "READ_INVALID_BITS"} THEN exit ELSE 1

\* from_bmp or read_file returns st; after a failure process and main return.
ReadReturns(st) ==
  /\ read_status' = st
  /\ streams' = streams \ {"in"}
  /\ pc' = IF st = "READ_OK" THEN "rotate" ELSE "done"
  /\ exit' = IF st = "READ_OK" THEN exit ELSE 1

OpenInput ==
  /\ pc = "open_input"
  /\ IF disk["in"] = NoFile
     THEN ReadReturns("READ_INVALID_FILE")
     ELSE /\ streams' = streams \cup {"in"}
          /\ pc' = "header"
          /\ UNCHANGED <<read_status, exit>>
  /\ UNCHANGED <<env, given, disk, pos, row, img, new_img, mem, out, write_status>>

HeaderFails ==
  /\ pc = "header"
  /\ \/ disk["in"].size < HeaderSize /\ ReadReturns("READ_INVALID_HEADER")
     \/ /\ disk["in"].size >= HeaderSize
        /\ ~env.seekable
        /\ ReadReturns("READ_INVALID_SIGNATURE")
  /\ UNCHANGED <<env, given, disk, pos, row, img, new_img, mem, out, write_status>>

ReadHeader ==
  /\ pc = "header"
  /\ disk["in"].size >= HeaderSize
  /\ env.seekable
  /\ LET head == disk["in"].head
     IN  /\ pos' = head.bOffBits
         /\ \E data \in Mallocs("img") :
              img' = image_create(head.biWidth, head.biHeight, data)
  /\ mem' = Allocated(img')
  /\ row' = 0
  /\ pc' = "read_row"
  /\ UNCHANGED <<env, given, disk, streams, new_img, out, read_status,
                 write_status, exit>>

\* The pixels a row can get from so many bytes, at most its width.
UpToWidth(bytes) ==
  LET n == bytes \div PixelSize
  IN  IF n < 0 THEN 0 ELSE IF n < img.width THEN n ELSE img.width

\* The whole pixels that are left for a row; and those of which fread stores a
\* byte, the last one perhaps cut.
Available == UpToWidth(disk["in"].size - pos)
Stored == UpToWidth(disk["in"].size - pos + PixelSize - 1)

Targets(n) == {target_index(img.width, row, i) : i \in 0..(n - 1)}
ReadTargets == Targets(Available)

\* A cut pixel ends the reading, and its cell is not looked at again: it is left
\* as it was.
ReadRow ==
  /\ pc = "read_row"
  /\ row < img.height
  /\ Targets(Stored) \subseteq Cells(img.data)
  /\ mem' = IF Available = 0 THEN mem
            ELSE [mem EXCEPT ![img.data] =
                   [i \in DOMAIN @ |->
                      IF i \in ReadTargets
                      THEN PixelAt(disk["in"], pos + PixelSize * (i - img.width * row))
                      ELSE @[i]]]
  /\ IF Available < img.width
     THEN ReadReturns("READ_INVALID_BITS") /\ UNCHANGED <<pos, row>>
     ELSE \* the fseek over the padding succeeds, past the end of file too
          /\ pos' = pos + PixelSize * img.width + bmp_calc_padding(img.width)
          /\ row' = row + 1
          /\ UNCHANGED <<pc, streams, read_status, exit>>
  /\ UNCHANGED <<env, given, disk, img, new_img, out, write_status>>

\* fread to NULL: a fault in the copy, or EFAULT from the kernel; fread past
\* the block: anything.
ReadRowOutside ==
  /\ pc = "read_row"
  /\ row < img.height
  /\ ~ (Targets(Stored) \subseteq Cells(img.data))
  /\ \/ Undefined(IF img.data = NULL THEN "segfault" ELSE "overrun")
     \/ /\ img.data = NULL
        /\ ReadReturns("READ_INVALID_BITS")
        /\ UNCHANGED <<disk, pos, row, img, new_img, mem, out, write_status>>
  /\ UNCHANGED <<env, given>>

ReadDone ==
  /\ pc = "read_row"
  /\ row = img.height
  /\ ReadReturns("READ_OK")
  /\ UNCHANGED <<env, given, disk, pos, row, img, new_img, mem, out, write_status>>

-----------------------------------------------------------------------------
(* image_rotate.                                                           *)

RotateCreate_row_kept ==  \* mutant: the counter of the last loop goes on
  /\ pc = "rotate"
  /\ \E data \in Mallocs("new_img") :
       new_img' = image_create(img.height, img.width, data)
  /\ mem' = Allocated(new_img')
  /\ pc' = "rotate_row"
  /\ UNCHANGED <<env, given, disk, streams, pos, row, img, out, read_status,
                 write_status, exit>>

RotateCreate ==
  /\ pc = "rotate"
  /\ \E data \in Mallocs("new_img") :
       new_img' = image_create(img.height, img.width, data)
  /\ mem' = Allocated(new_img')
  /\ row' = 0
  /\ pc' = "rotate_row"
  /\ UNCHANGED <<env, given, disk, streams, pos, img, out, read_status,
                 write_status, exit>>

SourceOf(col) == source_index(img.width, img.height, row, col)

RotateInside ==
  \A col \in 0..(new_img.width - 1) :
     /\ SourceOf(col) \in Cells(img.data)
     /\ target_index(new_img.width, row, col) \in Cells(new_img.data)

RotateRow ==
  /\ pc = "rotate_row"
  /\ row < new_img.height
  /\ RotateInside
  /\ mem' = IF new_img.width = 0 THEN mem
            ELSE [mem EXCEPT !["new_img"] =
                   [i \in DOMAIN @ |->
                      LET col == i - new_img.width * row
                      IN  IF col \in 0..(new_img.width - 1)
                          THEN mem[img.data][SourceOf(col)]
                          ELSE @[i]]]
  /\ row' = row + 1
  /\ UNCHANGED <<env, given, disk, pc, streams, pos, img, new_img, out,
                 read_status, write_status, exit>>

RotateRowOutside ==
  /\ pc = "rotate_row"
  /\ row < new_img.height
  /\ ~RotateInside
  /\ Undefined(IF new_img.data = NULL THEN "segfault" ELSE "overrun")
  /\ UNCHANGED <<env, given>>

RotateDone_wrong_image ==  \* mutant: destroys the image it is about to write
  /\ pc = "rotate_row"
  /\ row = new_img.height
  /\ mem' = image_destroy(new_img)
  /\ pc' = "open_output"
  /\ UNCHANGED <<env, given, disk, streams, pos, row, img, new_img, out,
                 read_status, write_status, exit>>

\* The loop ends; process destroys the input image.
RotateDone ==
  /\ pc = "rotate_row"
  /\ row = new_img.height
  /\ mem' = image_destroy(img)
  /\ pc' = "open_output"
  /\ UNCHANGED <<env, given, disk, streams, pos, row, img, new_img, out,
                 read_status, write_status, exit>>

-----------------------------------------------------------------------------
(* write_file and to_bmp.                                                  *)

\* write_file returns st; process destroys the rotated image; main returns.
WriteReturns(st) ==
  /\ write_status' = st
  /\ streams' = streams \ {"out"}
  /\ mem' = image_destroy(new_img)
  /\ exit' = IF st = "WRITE_OK" THEN 0 ELSE 1
  /\ pc' = "done"

OpenOutputFails ==
  /\ pc = "open_output"
  /\ ~env.writable
  /\ WriteReturns("WRITE_INVALID_FILE")
  /\ UNCHANGED <<env, given, disk, pos, row, img, new_img, out, read_status>>

OpenOutput ==
  /\ pc = "open_output"
  /\ env.writable
  /\ disk' = [disk EXCEPT ![output_path] = EmptyFile]
  /\ streams' = streams \cup {"out"}
  /\ pc' = "write_header"
  /\ UNCHANGED <<env, given, pos, row, img, new_img, mem, out, read_status,
                 write_status, exit>>

\* The header usually waits in the buffer of the stream; where it goes to
\* the device at once, ferror shows that it did not fit.
WriteHeader ==
  /\ pc = "write_header"
  /\ out' = [size |-> HeaderSize,
             head |-> bmp_gen_header(new_img.width, new_img.height),
             body |-> <<>>]
  /\ \/ /\ pc' = "write_row"
        /\ row' = 0
        /\ UNCHANGED <<disk, streams, mem, write_status, exit>>
     \/ /\ env.room < HeaderSize
        /\ disk' = [disk EXCEPT ![output_path] = Kept(out', env.room)]
        /\ WriteReturns("WRITE_HEADER_FAILED")
        /\ UNCHANGED row
  /\ UNCHANGED <<env, given, pos, img, new_img, read_status>>

RowBytes ==
  [i \in 1..(PixelSize * new_img.width + bmp_calc_padding(new_img.width)) |->
     IF i > PixelSize * new_img.width THEN 0
     ELSE mem[new_img.data]
            [target_index(new_img.width, row, (i - 1) \div PixelSize)]
            [1 + ((i - 1) % PixelSize)]]

WriteSources == {target_index(new_img.width, row, i) : i \in 0..(new_img.width - 1)}

WriteRow ==
  /\ pc = "write_row"
  /\ row < new_img.height
  /\ IF WriteSources \subseteq Cells(new_img.data)
     THEN /\ out' = fwritten(out, RowBytes)
          /\ row' = row + 1
          /\ UNCHANGED <<disk, pc, streams, pos, img, new_img, mem, read_status,
                         write_status, exit>>
     ELSE Undefined("overrun")
  /\ UNCHANGED <<env, given>>

\* to_bmp returns WRITE_OK; fclose sends what the device takes.
WriteDone ==
  /\ pc = "write_row"
  /\ row = new_img.height
  /\ disk' = [disk EXCEPT ![output_path] = Kept(out, env.room)]
  /\ WriteReturns("WRITE_OK")
  /\ UNCHANGED <<env, given, pos, row, img, new_img, out, read_status>>

-----------------------------------------------------------------------------

Final == {"done", "segfault", "overrun"}

Stopped == pc \in Final /\ UNCHANGED vars

Step ==
  \/ OpenInput \/ HeaderFails \/ ReadHeader
  \/ ReadRow \/ ReadRowOutside \/ ReadDone
  \/ RotateCreate \/ RotateRow \/ RotateRowOutside \/ RotateDone
  \/ OpenOutputFails \/ OpenOutput
  \/ WriteHeader \/ WriteRow \/ WriteDone

Next == Step \/ Stopped

Spec == Init /\ [][Next]_vars

-----------------------------------------------------------------------------
(* What a BMP file says, by offsets: rows of a whole number of words.      *)

Stride(width) == 4 * ((PixelSize * width + 3) \div 4)

FilePixel(f, r, c) ==
  PixelAt(f, f.head.bOffBits + r * Stride(f.head.biWidth) + PixelSize * c)

\* f holds every pixel its header announces; the padding of the last row may
\* be missing.
Readable(f) ==
  LET w == f.head.biWidth
      h == f.head.biHeight
  IN  /\ f.size >= HeaderSize
      /\ w > 0 /\ h > 0 =>
           f.head.bOffBits + (h - 1) * Stride(w) + PixelSize * w <= f.size

\* g is f turned by 90 degrees counter-clockwise (rows are stored bottom-up).
IsRotationOf(g, f) ==
  LET w == f.head.biWidth
      h == f.head.biHeight
  IN  /\ g.head.biWidth = h /\ g.head.biHeight = w
      /\ Readable(g)
      /\ \A r \in 0..(w - 1), c \in 0..(h - 1) :
           FilePixel(g, r, c) = FilePixel(f, h - 1 - c, r)

-----------------------------------------------------------------------------
(* Properties.                                                             *)

Statuses == {"READ_OK", "READ_INVALID_FILE", "READ_INVALID_SIGNATURE",
             "READ_INVALID_BITS", "READ_INVALID_HEADER"}

\* Every variable has its type; the blocks of memory are the two images'; no
\* loop runs past the last row.
TypeOK ==
  /\ env \in Environments
  /\ given \in Inputs
  /\ DOMAIN disk = {"in", "out"}
  /\ pc \in Final \cup {"open_input", "header", "read_row", "rotate", "rotate_row",
                       "open_output", "write_header", "write_row"}
  /\ streams \subseteq {"in", "out"}
  /\ pos \in Nat /\ row \in Nat
  /\ pc = "read_row" => row <= img.height
  /\ pc \in {"rotate_row", "write_row"} => row <= new_img.height
  /\ \A i \in {img, new_img} : i.width \in 0..(Word - 1) /\ i.height \in 0..(Word - 1)
  /\ img.data \in {"img", NULL} /\ new_img.data \in {"new_img", NULL}
  /\ DOMAIN mem \subseteq {"img", "new_img"}
  /\ read_status \in Statuses \cup {"none"}
  /\ write_status \in {"none", "WRITE_OK", "WRITE_INVALID_FILE", "WRITE_HEADER_FAILED"}
  /\ exit \in {-1, 0, 1}

\* No pixel is read or written outside its image's block, nor in a block that
\* was freed, as long as the number of pixels fits into uint32_t: a file whose
\* size wraps is overrun, see ImageHasRoom.
InBounds == pc # "overrun"

\* from_bmp accepts exactly the files that hold every pixel their header
\* announces, up to the last padding, wherever the pixels start.
ReadVerdict ==
  read_status # "none" =>
    /\ read_status = "READ_OK" => Readable(given) /\ env.seekable
    /\ read_status # "READ_OK" =>
         ~Readable(given) \/ ~env.seekable \/ (img.data = NULL /\ pc = "done")

\* A run that ends well on a device with room leaves the rotated image in the
\* output file, also when that is the input file, and the sizes in its header,
\* computed apart from the rows, are those of the file.
RotationSaved ==
  exit = 0 /\ out.size <= env.room =>
    LET f == disk[output_path]
    IN  /\ IsRotationOf(f, given)
        /\ f.head.bfileSize = f.size
        /\ f.head.biSizeImage = f.size - f.head.bOffBits

\* While the program runs, the picture is on disk or, rotated, in memory: the
\* input is not truncated before all of it has been read and turned.
InputSafe ==
  pc \notin Final /\ disk["in"] # given =>
    \A r \in 0..(new_img.height - 1), c \in 0..(new_img.width - 1) :
      LET i == target_index(new_img.width, r, c)
      IN  /\ i \in Cells("new_img")
          /\ mem["new_img"][i] = FilePixel(given, new_img.width - 1 - c, r)

\* A file that cannot be read whole leaves the files as they were: the output
\* is not even created.
BadInputChangesNothing ==
  read_status # "READ_OK" => disk["in"] = given /\ disk["out"] = NoFile

\* However the run ends, except after READ_INVALID_BITS, every block has been
\* freed and every stream closed.
Released ==
  pc = "done" /\ read_status # "READ_INVALID_BITS" =>
    DOMAIN mem = {} /\ streams = {}

-----------------------------------------------------------------------------
(* What the repository says and the code does not do.                      *)

\* processor.h: process does the "processing steps (including clean memory)".
MemoryCleaned == pc = "done" => DOMAIN mem = {}

\* io_utils.h: writing returns a status, and WRITE_DATA_FAILED is one of them:
\* WRITE_OK means that the file holds what was written.
StatusTrue == write_status = "WRITE_OK" => disk[output_path] = out

\* image.h: image_create allocates memory for width x height pixels.
ImageHasRoom ==
  \A i \in {img, new_img} :
    i.data \in DOMAIN mem => (i.width * i.height) - 1 \in Cells(i.data) \/ i.width * i.height = 0
===============================================================================
