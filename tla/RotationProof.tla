----------------------------- MODULE RotationProof -----------------------------
(***************************************************************************)
(* What holds of image-transformer for every set of input files, every     *)
(* header size and every width of uint32_t.                                *)
(*                                                                         *)
(* The inductive invariant says, for each part of the program, which       *)
(* images exist, that the block of each is as large as its pixels, and     *)
(* what the files are.  A block is as large as its pixels only if their    *)
(* number does not wrap; the bound is a hypothesis of the theorem.         *)
(*                                                                         *)
(* A second invariant adds where the pixels of the input are.              *)
(***************************************************************************)
EXTENDS Rotation, TLAPS, SequenceTheorems

Reading  == {"open_input", "header", "read_row"}
Rotating == {"rotate", "rotate_row"}
Writing  == {"open_output", "write_header", "write_row"}

\* The images of the files fit into uint32_t.
NoWrap == \A f \in Inputs : f.head.biWidth * f.head.biHeight < Word

\* image is w x h; its block, if malloc gave one, has a cell for every pixel.
Holds(image, name, w, h) ==
  /\ image.width = w
  /\ image.height = h
  /\ image.data \in {name, NULL}
  /\ image.data = name => name \in DOMAIN mem /\ DOMAIN mem[name] = 0..(w * h - 1)

Shape ==
  /\ given \in Inputs
  /\ pc \in Reading \cup Rotating \cup Writing \cup {"done", "segfault"}
  /\ pos \in Nat
  /\ row \in Nat

Images ==
  LET w == given.head.biWidth
      h == given.head.biHeight
  IN  /\ pc \in {"read_row"} \cup Rotating => Holds(img, "img", w, h)
      /\ pc = "read_row" /\ img.data = NULL /\ row > 0 => w = 0
      /\ pc \in Rotating /\ img.data = NULL => w = 0 \/ h = 0
      /\ pc \in {"rotate_row"} \cup Writing => Holds(new_img, "new_img", h, w)
      /\ pc = "rotate_row" /\ new_img.data = NULL /\ row > 0 => h = 0
      /\ pc \in Writing /\ new_img.data = NULL => w = 0 \/ h = 0

\* The blocks and streams that are in use.
Ledger ==
  /\ pc \in {"open_input", "header"} => DOMAIN mem = {}
  /\ pc \in {"read_row", "rotate"} => DOMAIN mem = {img.data} \ {NULL}
  /\ pc = "rotate_row" => DOMAIN mem = {img.data, new_img.data} \ {NULL}
  /\ pc \in Writing => DOMAIN mem = {new_img.data} \ {NULL}
  /\ pc = "open_input" => streams = {}
  /\ pc \in {"header", "read_row"} => streams = {"in"}
  /\ pc \in Rotating \cup {"open_output"} => streams = {}
  /\ pc \in {"write_header", "write_row"} => streams = {"out"}

Files ==
  /\ pc \in Reading \cup Rotating => disk["in"] = given /\ disk["out"] = NoFile
  /\ pc \in Rotating \cup Writing => read_status = "READ_OK"

IInv == Shape /\ Images /\ Ledger /\ Files /\ BadInputChangesNothing /\ Released

-----------------------------------------------------------------------------
(* Arithmetic.                                                             *)

\* The rows bmp.c writes are a whole number of words long, and no word longer
\* than needed; its padding is the remainder that the tester computes.
THEOREM PaddingFillsRow ==
  \A w \in Nat : /\ PixelSize * w + bmp_calc_padding(w) = Stride(w)
                 /\ bmp_calc_padding(w) = w % 4
                 /\ bmp_calc_padding(w) \in 0..3
  BY DEF PixelSize, bmp_calc_padding, Stride

\* A pixel of an image has its cell among the first w * h.
LEMMA IndexInRoom ==
  ASSUME NEW w \in Nat, NEW h \in Nat, NEW r \in 0..(h - 1), NEW c \in 0..(w - 1)
  PROVE  w * r + c \in 0..(w * h - 1)
<1>1. PICK k \in Nat : h = r + 1 + k
  <2>1. h - r - 1 \in Nat
    OBVIOUS
  <2> QED
    BY <2>1
<1>2. w * h = w * r + w + w * k
  BY <1>1
<1>3. w * r \in Nat /\ w * k \in Nat
  OBVIOUS
<1> QED
  BY <1>2, <1>3

\* image_rotate takes every pixel from a cell of its own: none is lost.
THEOREM NoPixelTwice ==
  ASSUME NEW w \in Nat, NEW h \in Nat,
         NEW r \in 0..(w - 1), NEW c \in 0..(h - 1),
         NEW q \in 0..(w - 1), NEW d \in 0..(h - 1),
         source_index(w, h, r, c) = source_index(w, h, q, d)
  PROVE  r = q /\ c = d
<1> DEFINE Apart(x, y) == y \in Nat /\ x \in Nat /\ x < y => w * y >= w * x + w
<1>1. ASSUME NEW x \in Nat, NEW y \in Nat, x < y
      PROVE  w * y >= w * x + w
  <2>1. PICK k \in Nat : y = x + 1 + k
    <3>1. y - x - 1 \in Nat
      BY <1>1
    <3> QED
      BY <3>1
  <2>2. w * y = w * x + w + w * k
    BY <2>1
  <2>3. w * x \in Nat /\ w * k \in Nat
    OBVIOUS
  <2> QED
    BY <2>2, <2>3
<1> DEFINE a == h - 1 - c
           b == h - 1 - d
<1>2. a \in Nat /\ b \in Nat
  OBVIOUS
<1>3. w * a + r = w * b + q
  BY DEF source_index
<1>4. w * a \in Nat /\ w * b \in Nat
  BY <1>2
<1> HIDE DEF a, b
<1>5. ~(a < b)
  BY <1>1, <1>2, <1>3, <1>4
<1>6. ~(b < a)
  BY <1>1, <1>2, <1>3, <1>4
<1>7. a = b
  BY <1>2, <1>5, <1>6
<1> QED
  BY <1>3, <1>4, <1>7 DEF a, b

-----------------------------------------------------------------------------
(* The steps.                                                              *)

LEMMA RotateTargets ==
  ASSUME NEW w \in Nat, NEW h \in Nat, NEW r \in 0..(w - 1), NEW c \in 0..(h - 1)
  PROVE  /\ source_index(w, h, r, c) \in 0..(w * h - 1)
         /\ target_index(h, r, c) \in 0..(h * w - 1)
<1>1. h - 1 - c \in 0..(h - 1)
  OBVIOUS
<1>2. w * (h - 1 - c) + r \in 0..(w * h - 1)
  BY <1>1, IndexInRoom
<1>3. h * r + c \in 0..(h * w - 1)
  BY IndexInRoom
<1> QED
  BY <1>2, <1>3 DEF source_index, target_index

LEMMA InitHolds == Init => IInv
<1> SUFFICES ASSUME Init PROVE IInv
  OBVIOUS
<1>1. Shape
  BY DEF Init, Shape, Reading
<1>2. Images /\ Ledger /\ Files
  BY DEF Init, Images, Ledger, Files, Reading, Rotating, Writing
<1>3. BadInputChangesNothing /\ Released
  BY DEF Init, BadInputChangesNothing, Released
<1> QED
  BY <1>1, <1>2, <1>3 DEF IInv

\* What a call of image_create leaves in memory.
Created(image, name, w, h, data) ==
  /\ image.width = w /\ image.height = h /\ image.data = data
  /\ DOMAIN mem' = DOMAIN mem \cup ({data} \ {NULL})
  /\ data = name => DOMAIN mem'[name] = 0..(w * h - 1)
  /\ \A b \in DOMAIN mem \ {data} : mem'[b] = mem[b]

\* A new image of so many pixels has a cell for each of them.
LEMMA CreateHolds ==
  ASSUME NEW w \in 0..(Word - 1), NEW h \in 0..(Word - 1), w * h < Word,
         NEW name, name # NULL, NEW data \in {name, NULL}, NEW image,
         image = image_create(w, h, data), mem' = Allocated(image)
  PROVE  Created(image, name, w, h, data)
<1>0. Word \in Nat \ {0}
  BY BitmapAssumption
<1>1. image = [width |-> w, height |-> h, data |-> data]
  BY <1>0 DEF image_create
<1>2. image_room(w, h) = w * h
  BY <1>0 DEF image_room
<1>3. DOMAIN Room(image) = 0..(w * h - 1)
  BY <1>1, <1>2 DEF Room
<1>4. mem' = [b \in DOMAIN mem \cup ({data} \ {NULL}) |->
                IF b = data THEN Room(image) ELSE mem[b]]
  BY <1>1 DEF Allocated
<1>5. DOMAIN mem' = DOMAIN mem \cup ({data} \ {NULL})
  BY <1>4
<1>6. ASSUME data = name PROVE DOMAIN mem'[name] = 0..(w * h - 1)
  <2>1. name \in DOMAIN mem'
    BY <1>5, <1>6
  <2>2. mem'[name] = Room(image)
    BY <1>4, <1>6, <2>1
  <2> QED
    BY <1>3, <2>2
<1>7. \A b \in DOMAIN mem \ {data} : mem'[b] = mem[b]
  BY <1>4
<1> QED
  BY <1>1, <1>5, <1>6, <1>7 DEF Created

LEMMA Dimensions ==
  ASSUME Shape, NoWrap
  PROVE  /\ given.head.biWidth \in 0..(Word - 1)
         /\ given.head.biHeight \in 0..(Word - 1)
         /\ given.head.biWidth \in Nat
         /\ given.head.biHeight \in Nat
         /\ given.head.biWidth * given.head.biHeight < Word
         /\ given.size \in Int
         /\ given.head.bOffBits \in Nat
  BY InputsAssumption, BitmapAssumption DEF Shape, NoWrap

LEMMA ReadReturnsHolds ==
  ASSUME IInv, pc \in {"open_input", "header", "read_row"},
         NEW st \in Statuses \ {"READ_OK"}, ReadReturns(st),
         UNCHANGED <<env, given, disk, row, pos>>,
         \/ st = "READ_INVALID_BITS"
         \/ pc \in {"open_input", "header"} /\ mem' = mem
  PROVE  IInv'
<1>1. pc' = "done" /\ read_status' # "READ_OK"
  BY DEF ReadReturns
<1>2. Shape'
  BY <1>1 DEF IInv, Shape
<1>3. Images' /\ Ledger' /\ Files'
  BY <1>1 DEF Images, Ledger, Files, Reading, Rotating, Writing
<1>4. BadInputChangesNothing'
  BY <1>1 DEF IInv, Files, BadInputChangesNothing, Reading
<1>5. Released'
  BY <1>1 DEF IInv, Ledger, Released, ReadReturns
<1> QED
  BY <1>2, <1>3, <1>4, <1>5 DEF IInv

LEMMA OpenInputHolds == IInv /\ OpenInput => IInv'
<1> SUFFICES ASSUME IInv, OpenInput PROVE IInv'
  OBVIOUS
<1>1. CASE disk["in"] = NoFile
  BY <1>1, ReadReturnsHolds DEF OpenInput, Statuses
<1>2. CASE disk["in"] # NoFile
  <2>1. pc' = "header" /\ pc = "open_input"
    BY <1>2 DEF OpenInput
  <2>2. Shape'
    BY <1>2, <2>1 DEF IInv, Shape, OpenInput, Reading
  <2>3. Images'
    BY <2>1 DEF Images, Rotating, Writing
  <2>4. Ledger'
    BY <1>2, <2>1 DEF IInv, Ledger, OpenInput, Rotating, Writing
  <2>5. Files'
    BY <1>2, <2>1 DEF IInv, Files, OpenInput, Reading, Rotating, Writing
  <2>6. BadInputChangesNothing' /\ Released'
    BY <1>2, <2>1 DEF IInv, Files, Reading, OpenInput, BadInputChangesNothing, Released
  <2> QED
    BY <2>2, <2>3, <2>4, <2>5, <2>6 DEF IInv
<1> QED
  BY <1>1, <1>2

LEMMA HeaderFailsHolds == IInv /\ HeaderFails => IInv'
<1> SUFFICES ASSUME IInv, HeaderFails PROVE IInv'
  OBVIOUS
<1>1. PICK st \in {"READ_INVALID_HEADER", "READ_INVALID_SIGNATURE"} : ReadReturns(st)
  BY DEF HeaderFails
<1>2. st \in Statuses \ {"READ_OK"}
  BY DEF Statuses
<1>3. pc = "header" /\ UNCHANGED <<env, given, disk, row, pos>> /\ mem' = mem
  BY DEF HeaderFails
<1> QED
  BY <1>1, <1>2, <1>3, ReadReturnsHolds

LEMMA ReadHeaderHolds == NoWrap /\ IInv /\ ReadHeader => IInv'
<1> SUFFICES ASSUME NoWrap, IInv, ReadHeader PROVE IInv'
  OBVIOUS
<1> DEFINE w == given.head.biWidth
           h == given.head.biHeight
<1>1. pc = "header" /\ pc' = "read_row" /\ row' = 0
  BY DEF ReadHeader
<1>2. disk["in"] = given /\ given' = given
  BY <1>1 DEF IInv, Files, Reading, ReadHeader
<1>3. PICK data \in {"img", NULL} : img' = image_create(w, h, data)
  BY <1>2 DEF ReadHeader, Mallocs
<1>4. mem' = Allocated(img')
  BY DEF ReadHeader
<1>5. /\ w \in 0..(Word - 1) /\ h \in 0..(Word - 1) /\ w * h < Word
      /\ given.head.bOffBits \in Nat
  BY Dimensions DEF IInv
<1>6. "img" # NULL
  BY DEF NULL
<1>7. /\ img'.width = w /\ img'.height = h /\ img'.data = data
      /\ DOMAIN mem' = DOMAIN mem \cup ({data} \ {NULL})
      /\ data = "img" => DOMAIN mem'["img"] = 0..(w * h - 1)
  <2> HIDE DEF w, h
  <2>1. Created(img', "img", w, h, data)
    BY <1>3, <1>4, <1>5, <1>6, CreateHolds
  <2> QED
    BY <2>1 DEF Created
<1>8. DOMAIN mem = {} /\ streams = {"in"}
  BY <1>1 DEF IInv, Ledger
<1>9. Shape'
  BY <1>1, <1>2, <1>5 DEF IInv, Shape, ReadHeader, Reading
<1>10. Images'
  BY <1>1, <1>2, <1>6, <1>7 DEF Images, Holds, Rotating, Writing
<1>11. Ledger'
  BY <1>1, <1>7, <1>8 DEF Ledger, ReadHeader, Rotating, Writing
<1>12. Files'
  BY <1>1 DEF IInv, Files, ReadHeader, Reading, Rotating, Writing
<1>13. BadInputChangesNothing' /\ Released'
  BY <1>1 DEF IInv, ReadHeader, BadInputChangesNothing, Released
<1> QED
  BY <1>9, <1>10, <1>11, <1>12, <1>13 DEF IInv

\* The bounds of a row of input.
LEMMA AvailableBound ==
  ASSUME NoWrap, IInv, pc = "read_row"
  PROVE  /\ Available \in Nat
         /\ Available <= img.width
         /\ Stored \in Nat
         /\ Stored <= img.width
<1>1. disk["in"].size \in Int /\ pos \in Nat /\ img.width \in Nat
  BY Dimensions DEF IInv, Shape, Files, Reading, Images, Holds
<1>2. ASSUME NEW n \in Int
      PROVE  UpToWidth(n) \in Nat /\ UpToWidth(n) <= img.width
  <2>1. n \div PixelSize \in Int
    BY <1>2 DEF PixelSize
  <2> QED
    BY <1>1, <2>1 DEF UpToWidth
<1>3. /\ disk["in"].size - pos \in Int
      /\ disk["in"].size - pos + PixelSize - 1 \in Int
  BY <1>1 DEF PixelSize
<1> QED
  BY <1>2, <1>3 DEF Available, Stored

\* A cut pixel is one more.
LEMMA StoredBound ==
  ASSUME NoWrap, IInv, pc = "read_row"
  PROVE  Available <= Stored
<1>1. disk["in"].size \in Int /\ pos \in Nat /\ img.width \in Nat
  BY Dimensions DEF IInv, Shape, Files, Reading, Images, Holds
<1> DEFINE n == disk["in"].size - pos
<1>2. n \in Int /\ n \div 3 \in Int /\ (n + 2) \div 3 \in Int
  BY <1>1
<1>3. Available = UpToWidth(n) /\ Stored = UpToWidth(n + 2)
  <2>1. n + PixelSize - 1 = n + 2
    BY <1>2 DEF PixelSize
  <2> QED
    BY <2>1 DEF Available, Stored
<1> HIDE DEF n
<1>4. n \div 3 <= (n + 2) \div 3
  BY <1>2
<1> QED
  BY <1>1, <1>2, <1>3, <1>4 DEF UpToWidth, PixelSize

LEMMA ReadInside ==
  ASSUME NoWrap, IInv, pc = "read_row", row < img.height, img.data = "img"
  PROVE  Targets(Stored) \subseteq Cells(img.data)
<1> DEFINE w == given.head.biWidth
           h == given.head.biHeight
<1>1. img.width = w /\ img.height = h /\ w \in Nat /\ h \in Nat /\ row \in Nat
  BY Dimensions DEF IInv, Shape, Images, Holds
<1>2. Cells("img") = 0..(w * h - 1)
  BY DEF IInv, Images, Holds, Cells
<1>3. ASSUME NEW i \in 0..(Stored - 1)
      PROVE  w * row + i \in 0..(w * h - 1)
  <2>1. i \in 0..(w - 1) /\ row \in 0..(h - 1)
    BY <1>1, AvailableBound
  <2> QED
    BY <1>1, <2>1, IndexInRoom
<1> QED
  BY <1>1, <1>2, <1>3 DEF Targets, target_index

LEMMA ReadRowHolds == NoWrap /\ IInv /\ ReadRow => IInv'
<1> SUFFICES ASSUME NoWrap, IInv, ReadRow PROVE IInv'
  OBVIOUS
<1> DEFINE w == given.head.biWidth
           h == given.head.biHeight
<1>1. pc = "read_row" /\ row < img.height /\ UNCHANGED <<env, given, disk, img>>
  BY DEF ReadRow
<1>2. CASE Available < img.width
  <2>1. ReadReturns("READ_INVALID_BITS") /\ UNCHANGED <<pos, row>>
    BY <1>2 DEF ReadRow
  <2> QED
    BY <1>1, <2>1, ReadReturnsHolds DEF Statuses
<1>3. CASE ~(Available < img.width)
  <2>1. Holds(img, "img", w, h) /\ w \in Nat /\ h \in Nat
    BY <1>1, Dimensions DEF IInv, Images
  <2>2. Available = w
    BY <1>1, <1>3, <2>1, AvailableBound DEF Holds
  <2>3. ASSUME img.data = NULL PROVE w = 0
    <3>1. Cells(img.data) = {}
      BY <1>1, <2>3 DEF IInv, Ledger, Cells
    <3>2. Targets(Stored) = {}
      BY <3>1 DEF ReadRow
    <3>3. 0 \notin 0..(Stored - 1)
      BY <3>2 DEF Targets
    <3> QED
      BY <1>1, <2>1, <2>2, <3>3, AvailableBound, StoredBound
  <2>4. DOMAIN mem' = DOMAIN mem
    BY DEF ReadRow
  <2>5. img.data = "img" => DOMAIN mem'["img"] = DOMAIN mem["img"]
    BY <2>1, <2>4 DEF ReadRow, Holds
  <2>6. /\ pc' = "read_row" /\ row' = row + 1 /\ streams' = streams
        /\ read_status' = read_status
        /\ pos' = pos + PixelSize * w + bmp_calc_padding(w)
    BY <1>1, <1>3, <2>1 DEF ReadRow, Holds
  <2>7. pos' \in Nat /\ row' \in Nat
    <3>1. bmp_calc_padding(w) \in 0..3
      BY <2>1, PaddingFillsRow
    <3> QED
      BY <2>1, <2>6, <3>1 DEF IInv, Shape, PixelSize
  <2>8. Shape'
    BY <1>1, <2>6, <2>7 DEF IInv, Shape
  <2>9. Images'
    BY <1>1, <2>1, <2>3, <2>4, <2>5, <2>6 DEF Images, Holds, Rotating, Writing
  <2>10. Ledger'
    BY <1>1, <2>4, <2>6 DEF IInv, Ledger, Rotating, Writing
  <2>11. Files' /\ BadInputChangesNothing' /\ Released'
    BY <1>1, <2>6 DEF IInv, Files, Reading, Rotating, Writing,
                      BadInputChangesNothing, Released
  <2> QED
    BY <2>8, <2>9, <2>10, <2>11 DEF IInv
<1> QED
  BY <1>2, <1>3

LEMMA ReadRowOutsideHolds == NoWrap /\ IInv /\ ReadRowOutside => IInv'
<1> SUFFICES ASSUME NoWrap, IInv, ReadRowOutside PROVE IInv'
  OBVIOUS
<1>1. pc = "read_row" /\ row < img.height /\ UNCHANGED <<env, given, disk>>
  BY DEF ReadRowOutside, Undefined
<1>2. img.data = NULL
  BY <1>1, ReadInside DEF ReadRowOutside, IInv, Images, Holds
<1>3. CASE Undefined("segfault")
  <2>1. pc' = "segfault" /\ UNCHANGED <<disk, pos, row, read_status>>
    BY <1>3 DEF Undefined
  <2>2. Shape'
    BY <1>1, <2>1 DEF IInv, Shape
  <2>3. Images' /\ Ledger' /\ Files'
    BY <2>1 DEF Images, Ledger, Files, Reading, Rotating, Writing
  <2>4. BadInputChangesNothing' /\ Released'
    BY <1>1, <2>1 DEF IInv, BadInputChangesNothing, Released
  <2> QED
    BY <2>2, <2>3, <2>4 DEF IInv
<1>4. CASE ReadReturns("READ_INVALID_BITS") /\ UNCHANGED <<pos, row>>
  BY <1>1, <1>4, ReadReturnsHolds DEF Statuses
<1> QED
  BY <1>2, <1>3, <1>4 DEF ReadRowOutside

LEMMA ReadDoneHolds == NoWrap /\ IInv /\ ReadDone => IInv'
<1> SUFFICES ASSUME NoWrap, IInv, ReadDone PROVE IInv'
  OBVIOUS
<1>1. /\ pc = "read_row" /\ pc' = "rotate" /\ row = img.height
      /\ read_status' = "READ_OK" /\ streams' = streams \ {"in"}
      /\ UNCHANGED <<given, disk, pos, row, img, mem>>
  BY DEF ReadDone, ReadReturns
<1>2. Shape'
  BY <1>1 DEF IInv, Shape, Rotating
<1>3. Images'
  <2>1. given.head.biHeight \in Nat
    BY Dimensions DEF IInv
  <2> QED
    BY <1>1, <2>1 DEF IInv, Images, Holds, Rotating, Writing
<1>4. Ledger'
  BY <1>1 DEF IInv, Ledger, Rotating, Writing
<1>5. Files' /\ BadInputChangesNothing' /\ Released'
  BY <1>1 DEF IInv, Files, Reading, Rotating, Writing, BadInputChangesNothing, Released
<1> QED
  BY <1>2, <1>3, <1>4, <1>5 DEF IInv

LEMMA RotateCreateHolds == NoWrap /\ IInv /\ RotateCreate => IInv'
<1> SUFFICES ASSUME NoWrap, IInv, RotateCreate PROVE IInv'
  OBVIOUS
<1> DEFINE w == given.head.biWidth
           h == given.head.biHeight
<1>1. /\ pc = "rotate" /\ pc' = "rotate_row" /\ row' = 0
      /\ UNCHANGED <<given, disk, streams, pos, img, read_status>>
  BY DEF RotateCreate
<1>2. Holds(img, "img", w, h) /\ DOMAIN mem = {img.data} \ {NULL}
  BY <1>1 DEF IInv, Images, Ledger, Rotating
<1>3. PICK data \in {"new_img", NULL} : new_img' = image_create(h, w, data)
  BY <1>2 DEF RotateCreate, Mallocs, Holds
<1>4. mem' = Allocated(new_img')
  BY DEF RotateCreate
<1>5. /\ w \in 0..(Word - 1) /\ h \in 0..(Word - 1) /\ h * w < Word
      /\ h * w = w * h
  BY Dimensions DEF IInv
<1>6. "new_img" # NULL
  BY DEF NULL
<1>7. Created(new_img', "new_img", h, w, data)
  <2> HIDE DEF w, h
  <2> QED
    BY <1>3, <1>4, <1>5, <1>6, CreateHolds
<1>8. Shape'
  BY <1>1 DEF IInv, Shape, Rotating
<1>9. Images'
  <2>1. Holds(img, "img", w, h)'
    <3>1. "img" # data
      BY <1>3 DEF NULL
    <3>2. img.data = "img" => "img" \in DOMAIN mem' /\ mem'["img"] = mem["img"]
      BY <1>2, <1>7, <3>1 DEF Created, Holds
    <3> QED
      BY <1>1, <1>2, <3>2 DEF Holds
  <2>2. Holds(new_img, "new_img", h, w)'
    BY <1>1, <1>6, <1>7 DEF Created, Holds
  <2> QED
    BY <1>1, <2>1, <2>2 DEF IInv, Images, Rotating, Writing
<1>10. Ledger'
  <2>1. DOMAIN mem' = {img'.data, new_img'.data} \ {NULL}
    BY <1>1, <1>2, <1>7 DEF Created
  <2> QED
    BY <1>1, <2>1 DEF IInv, Ledger, Rotating, Writing
<1>11. Files' /\ BadInputChangesNothing' /\ Released'
  BY <1>1 DEF IInv, Files, Reading, Rotating, Writing, BadInputChangesNothing, Released
<1> QED
  BY <1>8, <1>9, <1>10, <1>11 DEF IInv

\* Both images have their cells: the row is turned inside of them.
LEMMA RowInside ==
  ASSUME NoWrap, IInv, pc = "rotate_row", row < new_img.height, new_img.data # NULL
  PROVE  RotateInside
<1> DEFINE w == given.head.biWidth
           h == given.head.biHeight
<1>1. w \in Nat /\ h \in Nat /\ row \in Nat
  BY Dimensions DEF IInv, Shape
<1>2. Holds(img, "img", w, h) /\ Holds(new_img, "new_img", h, w)
  BY DEF IInv, Images, Rotating
<1>3. ASSUME NEW col \in 0..(new_img.width - 1)
      PROVE  /\ SourceOf(col) \in Cells(img.data)
             /\ target_index(new_img.width, row, col) \in Cells(new_img.data)
  <2>1. col \in 0..(h - 1) /\ row \in 0..(w - 1)
    BY <1>1, <1>2, <1>3 DEF Holds
  <2>2. img.data = "img"
    BY <1>1, <1>2, <2>1 DEF IInv, Images, Holds, Rotating
  <2>3. Cells("img") = 0..(w * h - 1) /\ Cells(new_img.data) = 0..(h * w - 1)
    BY <1>2, <2>2 DEF Cells, Holds
  <2>4. /\ source_index(w, h, row, col) \in 0..(w * h - 1)
        /\ target_index(h, row, col) \in 0..(h * w - 1)
    <3> HIDE DEF w, h
    <3> QED
      BY <1>1, <2>1, RotateTargets
  <2> QED
    BY <1>2, <2>2, <2>3, <2>4 DEF SourceOf, Holds
<1> QED
  BY <1>3 DEF RotateInside

LEMMA RotateRowHolds == NoWrap /\ IInv /\ RotateRow => IInv'
<1> SUFFICES ASSUME NoWrap, IInv, RotateRow PROVE IInv'
  OBVIOUS
<1> DEFINE w == given.head.biWidth
           h == given.head.biHeight
<1>1. /\ pc = "rotate_row" /\ row' = row + 1 /\ row < new_img.height
      /\ UNCHANGED <<given, disk, pc, streams, pos, img, new_img, read_status>>
  BY DEF RotateRow
<1>2. Holds(img, "img", w, h) /\ Holds(new_img, "new_img", h, w)
  BY <1>1 DEF IInv, Images, Rotating
<1>3. w \in Nat /\ h \in Nat /\ row \in Nat
  BY Dimensions DEF IInv, Shape
<1>4. DOMAIN mem' = DOMAIN mem
  BY DEF RotateRow
<1>5. \A b \in DOMAIN mem : DOMAIN mem'[b] = DOMAIN mem[b]
  BY DEF RotateRow
<1>6. new_img.data = NULL => h = 0
  <2> SUFFICES ASSUME new_img.data = NULL, h # 0 PROVE FALSE
    OBVIOUS
  <2>1. 0 \in 0..(new_img.width - 1)
    BY <1>2, <1>3 DEF Holds
  <2>2. target_index(new_img.width, row, 0) \in Cells(NULL)
    BY <2>1 DEF RotateRow, RotateInside
  <2>3. NULL \notin DOMAIN mem
    BY <1>1 DEF IInv, Ledger
  <2> QED
    BY <2>2, <2>3 DEF Cells
<1>7. Shape'
  BY <1>1, <1>3 DEF IInv, Shape
<1>8. Images'
  <2>1. Holds(img, "img", w, h)'
    BY <1>1, <1>2, <1>4, <1>5 DEF Holds
  <2>2. Holds(new_img, "new_img", h, w)'
    BY <1>1, <1>2, <1>4, <1>5 DEF Holds
  <2> QED
    BY <1>1, <1>6, <2>1, <2>2 DEF IInv, Images, Rotating, Writing
<1>9. Ledger'
  BY <1>1, <1>4 DEF IInv, Ledger, Rotating, Writing
<1>10. Files' /\ BadInputChangesNothing' /\ Released'
  BY <1>1 DEF IInv, Files, Reading, Rotating, Writing, BadInputChangesNothing, Released
<1> QED
  BY <1>7, <1>8, <1>9, <1>10 DEF IInv

LEMMA RotateRowOutsideHolds == NoWrap /\ IInv /\ RotateRowOutside => IInv'
<1> SUFFICES ASSUME NoWrap, IInv, RotateRowOutside PROVE IInv'
  OBVIOUS
<1>1. /\ pc = "rotate_row" /\ row < new_img.height
      /\ UNCHANGED <<given, disk, pos, row, read_status>>
  BY DEF RotateRowOutside, Undefined
<1>2. new_img.data = NULL
  BY <1>1, RowInside DEF RotateRowOutside
<1>3. pc' = "segfault"
  BY <1>2 DEF RotateRowOutside, Undefined
<1>4. Shape'
  BY <1>1, <1>3 DEF IInv, Shape
<1>5. Images' /\ Ledger' /\ Files'
  BY <1>3 DEF Images, Ledger, Files, Reading, Rotating, Writing
<1>6. BadInputChangesNothing' /\ Released'
  BY <1>1, <1>3 DEF IInv, BadInputChangesNothing, Released
<1> QED
  BY <1>4, <1>5, <1>6 DEF IInv

LEMMA RotateDoneHolds == NoWrap /\ IInv /\ RotateDone => IInv'
<1> SUFFICES ASSUME NoWrap, IInv, RotateDone PROVE IInv'
  OBVIOUS
<1> DEFINE w == given.head.biWidth
           h == given.head.biHeight
<1>1. /\ pc = "rotate_row" /\ pc' = "open_output" /\ row = new_img.height
      /\ mem' = [b \in DOMAIN mem \ {img.data} |-> mem[b]]
      /\ UNCHANGED <<given, disk, streams, pos, row, img, new_img, read_status>>
  BY DEF RotateDone, image_destroy
<1>2. Holds(img, "img", w, h) /\ Holds(new_img, "new_img", h, w)
  BY <1>1 DEF IInv, Images, Rotating
<1>3. w \in Nat /\ h \in Nat
  BY Dimensions DEF IInv
<1>4. DOMAIN mem' = {new_img.data} \ {NULL}
  BY <1>1, <1>2 DEF IInv, Ledger, Holds, NULL
<1>5. Holds(new_img, "new_img", h, w)'
  <2>1. ASSUME new_img.data = "new_img"
        PROVE  "new_img" \in DOMAIN mem' /\ mem'["new_img"] = mem["new_img"]
    BY <1>1, <1>4, <2>1 DEF NULL
  <2> QED
    BY <1>1, <1>2, <2>1 DEF Holds
<1>6. Shape'
  BY <1>1 DEF IInv, Shape, Writing
<1>7. Images'
  <2>1. new_img.data = NULL => w = 0 \/ h = 0
    BY <1>1, <1>2, <1>3 DEF IInv, Shape, Images, Holds
  <2> QED
    BY <1>1, <1>5, <2>1 DEF Images, Rotating, Writing
<1>8. Ledger'
  BY <1>1, <1>4 DEF IInv, Ledger, Rotating, Writing
<1>9. Files' /\ BadInputChangesNothing' /\ Released'
  BY <1>1 DEF IInv, Files, Reading, Rotating, Writing, BadInputChangesNothing, Released
<1> QED
  BY <1>6, <1>7, <1>8, <1>9 DEF IInv

LEMMA WriteReturnsHolds ==
  ASSUME IInv, pc \in Writing, NEW st, WriteReturns(st),
         UNCHANGED <<given, pos, new_img, read_status>>, row' \in {row, 0}
  PROVE  IInv'
<1>1. pc' = "done" /\ streams' = {} /\ DOMAIN mem' = {}
  BY DEF WriteReturns, IInv, Ledger, image_destroy, Writing
<1>2. Shape'
  BY <1>1 DEF IInv, Shape
<1>3. Images' /\ Ledger' /\ Files'
  BY <1>1 DEF Images, Ledger, Files, Reading, Rotating, Writing
<1>4. BadInputChangesNothing' /\ Released'
  BY <1>1 DEF IInv, Files, BadInputChangesNothing, Released
<1> QED
  BY <1>2, <1>3, <1>4 DEF IInv

\* A step of to_bmp that goes on.
LEMMA WriteGoesOnHolds ==
  ASSUME IInv, pc \in Writing, pc' \in Writing, row' \in Nat,
         UNCHANGED <<given, pos, new_img, mem, read_status>>,
         pc' = "open_output" => streams' = {},
         pc' # "open_output" => streams' = {"out"}
  PROVE  IInv'
<1>1. Shape'
  BY DEF IInv, Shape
<1>2. Images'
  BY DEF IInv, Images, Holds, Rotating, Writing
<1>3. Ledger'
  BY DEF IInv, Ledger, Rotating, Writing
<1>4. Files' /\ BadInputChangesNothing' /\ Released'
  BY DEF IInv, Files, Reading, Rotating, Writing, BadInputChangesNothing, Released
<1> QED
  BY <1>1, <1>2, <1>3, <1>4 DEF IInv

LEMMA WriteInside ==
  ASSUME NoWrap, IInv, pc = "write_row", row < new_img.height
  PROVE  WriteSources \subseteq Cells(new_img.data)
<1> DEFINE w == given.head.biWidth
           h == given.head.biHeight
<1>1. w \in Nat /\ h \in Nat /\ row \in Nat
  BY Dimensions DEF IInv, Shape
<1>2. Holds(new_img, "new_img", h, w)
  BY DEF IInv, Images, Writing
<1>3. ASSUME NEW i \in 0..(new_img.width - 1)
      PROVE  target_index(new_img.width, row, i) \in Cells(new_img.data)
  <2>1. i \in 0..(h - 1) /\ row \in 0..(w - 1)
    BY <1>1, <1>2, <1>3 DEF Holds
  <2>2. new_img.data = "new_img"
    BY <1>1, <1>2, <2>1 DEF IInv, Images, Holds, Writing
  <2>3. Cells(new_img.data) = 0..(h * w - 1)
    BY <1>2, <2>2 DEF Cells, Holds
  <2>4. h * row + i \in 0..(h * w - 1)
    <3> HIDE DEF w, h
    <3> QED
      BY <1>1, <2>1, IndexInRoom
  <2> QED
    BY <1>2, <2>3, <2>4 DEF Holds, target_index
<1> QED
  BY <1>3 DEF WriteSources

LEMMA WriteHolds ==
  ASSUME NoWrap, IInv,
         OpenOutputFails \/ OpenOutput \/ WriteHeader \/ WriteRow \/ WriteDone
  PROVE  IInv'
<1>0. row \in Nat
  BY DEF IInv, Shape
<1>1. CASE OpenOutputFails
  BY <1>1, WriteReturnsHolds DEF OpenOutputFails, Writing
<1>2. CASE OpenOutput
  <2>1. streams = {}
    BY <1>2 DEF OpenOutput, IInv, Ledger
  <2>2. /\ pc \in Writing /\ pc' = "write_header" /\ pc' \in Writing
        /\ row' = row /\ streams' = {"out"}
        /\ UNCHANGED <<given, pos, new_img, mem, read_status>>
    BY <1>2, <2>1 DEF OpenOutput, Writing
  <2> QED
    BY <1>0, <2>2, WriteGoesOnHolds
<1>3. CASE WriteHeader
  <2>1. /\ pc \in Writing /\ streams = {"out"}
        /\ UNCHANGED <<given, pos, new_img, read_status>>
    BY <1>3 DEF WriteHeader, IInv, Ledger, Writing
  <2>2. CASE pc' = "write_row" /\ row' = 0 /\ UNCHANGED <<streams, mem>>
    <3>1. pc' \in Writing /\ streams' = {"out"} /\ row' \in Nat
      BY <2>1, <2>2 DEF Writing
    <3> QED
      BY <2>1, <2>2, <3>1, WriteGoesOnHolds
  <2>3. CASE WriteReturns("WRITE_HEADER_FAILED") /\ UNCHANGED row
    BY <2>1, <2>3, WriteReturnsHolds
  <2> QED
    BY <1>3, <2>2, <2>3 DEF WriteHeader
<1>4. CASE WriteRow
  <2>1. WriteSources \subseteq Cells(new_img.data)
    BY <1>4, WriteInside DEF WriteRow
  <2>2. /\ pc \in Writing /\ pc' = "write_row" /\ pc' \in Writing
        /\ row' = row + 1 /\ streams' = {"out"}
        /\ UNCHANGED <<given, pos, new_img, mem, read_status>>
    BY <1>4, <2>1 DEF WriteRow, IInv, Ledger, Writing
  <2> QED
    BY <1>0, <2>2, WriteGoesOnHolds
<1>5. CASE WriteDone
  BY <1>5, WriteReturnsHolds DEF WriteDone, Writing
<1> QED
  BY <1>1, <1>2, <1>3, <1>4, <1>5

LEMMA StutterHolds == IInv /\ UNCHANGED vars => IInv'
<1> SUFFICES ASSUME IInv, UNCHANGED vars PROVE IInv'
  OBVIOUS
<1>1. Shape' /\ Images' /\ Ledger' /\ Files'
  BY DEF vars, IInv, Shape, Images, Holds, Ledger, Files
<1>2. BadInputChangesNothing' /\ Released'
  BY DEF vars, IInv, BadInputChangesNothing, Released
<1> QED
  BY <1>1, <1>2 DEF IInv

\* Every step keeps the invariant.
LEMMA NextHolds == NoWrap /\ IInv /\ [Next]_vars => IInv'
  BY OpenInputHolds, HeaderFailsHolds, ReadHeaderHolds, ReadRowHolds,
     ReadRowOutsideHolds, ReadDoneHolds, RotateCreateHolds, RotateRowHolds,
     RotateRowOutsideHolds, RotateDoneHolds, WriteHolds, StutterHolds
  DEF Next, Step, Stopped

LEMMA Invariance == ASSUME NoWrap PROVE Spec => []IInv
<1>1. Init => IInv
  BY InitHolds
<1>2. IInv /\ [Next]_vars => IInv'
  BY NextHolds
<1> QED
  BY <1>1, <1>2, PTL DEF Spec

-----------------------------------------------------------------------------
(* The theorems.                                                           *)

\* from_bmp, image_rotate and to_bmp touch no cell outside the blocks of their
\* images, and no freed one, for every file whose image fits into uint32_t.
THEOREM Bounds == ASSUME NoWrap PROVE Spec => []InBounds
<1>1. IInv => InBounds
  BY DEF IInv, Shape, InBounds, Reading, Rotating, Writing
<1> QED
  BY <1>1, Invariance, PTL

\* A file that cannot be read whole changes nothing on disk.
THEOREM NothingSpoiled == ASSUME NoWrap PROVE Spec => []BadInputChangesNothing
<1>1. IInv => BadInputChangesNothing
  BY DEF IInv
<1> QED
  BY <1>1, Invariance, PTL

\* Every path of process but the one after READ_INVALID_BITS frees what it
\* allocated and closes what it opened.
THEOREM AllReleased == ASSUME NoWrap PROVE Spec => []Released
<1>1. IInv => Released
  BY DEF IInv
<1> QED
  BY <1>1, Invariance, PTL

-----------------------------------------------------------------------------
(* The types, whatever wraps around.                                       *)

TInv == TypeOK /\ (pc \in Reading => disk["in"] = given)

\* Images whose sides fit into uint32_t.
Sides(image) == image.width \in 0..(Word - 1) /\ image.height \in 0..(Word - 1)

LEMMA CreateSides ==
  ASSUME NEW w \in Int, NEW h \in Int, NEW data
  PROVE  Sides(image_create(w, h, data)) /\ image_create(w, h, data).data = data
  BY BitmapAssumption DEF Sides, image_create

LEMMA InitTyped == Init => TInv
<1> SUFFICES ASSUME Init PROVE TInv
  OBVIOUS
<1>1. Word \in Nat \ {0} /\ 0 \in 0..(Word - 1)
  BY BitmapAssumption
<1>2. DOMAIN disk = {"in", "out"} /\ disk["in"] = given
  BY DEF Init
<1>3. DOMAIN mem = {}
  BY DEF Init
<1> QED
  BY <1>1, <1>2, <1>3 DEF Init, TInv, TypeOK, NoImage, Statuses

\* The parts of a step that ends read_file or write_file.
LEMMA ReadReturnsTyped ==
  ASSUME TInv, pc \in Reading, NEW st \in Statuses, ReadReturns(st),
         UNCHANGED <<env, given, disk, pos, row, img, new_img, write_status>>,
         DOMAIN mem' = DOMAIN mem
  PROVE  TInv'
<1>1. pc' \in {"rotate", "done"} /\ streams' \subseteq streams /\ read_status' = st
      /\ exit' \in {exit, 1}
  BY DEF ReadReturns
<1> QED
  BY <1>1 DEF TInv, TypeOK, Final, Reading

LEMMA WriteReturnsTyped ==
  ASSUME TInv, pc \in Writing, row' \in {row, 0},
         NEW st \in {"WRITE_OK", "WRITE_INVALID_FILE", "WRITE_HEADER_FAILED"}, WriteReturns(st),
         UNCHANGED <<env, given, pos, img, new_img, read_status>>,
         DOMAIN disk' = DOMAIN disk
  PROVE  TInv'
<1>1. pc' = "done" /\ streams' \subseteq streams /\ write_status' = st /\ exit' \in {0, 1}
      /\ DOMAIN mem' \subseteq DOMAIN mem
  BY DEF WriteReturns, image_destroy
<1>2. row' \in Nat
  BY DEF TInv, TypeOK
<1> QED
  BY <1>1, <1>2 DEF TInv, TypeOK, Final, Reading

LEMMA UndefinedTyped ==
  ASSUME TInv, NEW how \in {"segfault", "overrun"}, Undefined(how), UNCHANGED <<env, given>>
  PROVE  TInv'
<1>1. pc' = how /\ UNCHANGED <<disk, streams, pos, row, img, new_img, mem, read_status,
                               write_status, exit>>
  BY DEF Undefined
<1> QED
  BY <1>1 DEF TInv, TypeOK, Final, Reading

LEMMA ReadingTyped ==
  ASSUME TInv, OpenInput \/ HeaderFails \/ ReadHeader \/ ReadRow \/ ReadRowOutside \/ ReadDone
  PROVE  TInv'
<1>1. CASE OpenInput
  <2>1. CASE disk["in"] = NoFile
    BY <1>1, <2>1, ReadReturnsTyped DEF OpenInput, Reading, Statuses
  <2>2. CASE disk["in"] # NoFile
    <3>1. /\ pc = "open_input" /\ pc' = "header" /\ streams' = streams \cup {"in"}
          /\ UNCHANGED <<env, given, disk, pos, row, img, new_img, mem, read_status,
                         write_status, exit>>
      BY <1>1, <2>2 DEF OpenInput
    <3> QED
      BY <3>1 DEF TInv, TypeOK, Reading
  <2> QED
    BY <2>1, <2>2
<1>2. CASE HeaderFails
  <2>1. PICK st \in Statuses : ReadReturns(st)
    BY <1>2 DEF HeaderFails, Statuses
  <2> QED
    BY <1>2, <2>1, ReadReturnsTyped DEF HeaderFails, Reading
<1>3. CASE ReadHeader
  <2>1. /\ pc = "header" /\ pc' = "read_row" /\ row' = 0
        /\ pos' = given.head.bOffBits /\ mem' = Allocated(img')
        /\ UNCHANGED <<env, given, disk, streams, new_img, read_status, write_status, exit>>
    BY <1>3 DEF ReadHeader, TInv, Reading
  <2>2. PICK data \in {"img", NULL} :
          img' = image_create(given.head.biWidth, given.head.biHeight, data)
    BY <1>3 DEF ReadHeader, TInv, Reading, Mallocs
  <2>3. /\ given.head.bOffBits \in Nat
        /\ given.head.biWidth \in Int /\ given.head.biHeight \in Int
    BY InputsAssumption, BitmapAssumption DEF TInv, TypeOK
  <2>4. Sides(img') /\ img'.data = data /\ img'.height >= 0
    BY <2>2, <2>3, CreateSides, BitmapAssumption DEF Sides
  <2>5. DOMAIN mem' \subseteq {"img", "new_img"}
    BY <2>1, <2>4 DEF Allocated, TInv, TypeOK
  <2> QED
    BY <2>1, <2>3, <2>4, <2>5 DEF TInv, TypeOK, Sides, Reading
<1>4. CASE ReadRow
  <2>1. /\ pc = "read_row" /\ pc \in Reading /\ row < img.height /\ DOMAIN mem' = DOMAIN mem
        /\ UNCHANGED <<env, given, disk, img, new_img, write_status>>
    BY <1>4 DEF ReadRow, Reading
  <2>2. CASE ReadReturns("READ_INVALID_BITS") /\ UNCHANGED <<pos, row>>
    BY <2>1, <2>2, ReadReturnsTyped DEF Statuses
  <2>3. CASE /\ pos' = pos + PixelSize * img.width + bmp_calc_padding(img.width)
             /\ row' = row + 1
             /\ UNCHANGED <<pc, streams, read_status, exit>>
    <3>1. img.width \in Nat /\ img.height \in Nat /\ pos \in Nat /\ row \in Nat
      BY BitmapAssumption DEF TInv, TypeOK
    <3>2. bmp_calc_padding(img.width) \in 0..3
      BY <3>1, PaddingFillsRow
    <3>3. pos' \in Nat /\ row' \in Nat /\ row' <= img'.height
      BY <2>1, <2>3, <3>1, <3>2 DEF PixelSize
    <3> QED
      BY <2>1, <2>3, <3>3 DEF TInv, TypeOK, Reading
  <2> QED
    BY <1>4, <2>2, <2>3 DEF ReadRow
<1>5. CASE ReadRowOutside
  <2>1. pc \in Reading /\ UNCHANGED <<env, given>>
    BY <1>5 DEF ReadRowOutside, Reading
  <2>2. CASE Undefined(IF img.data = NULL THEN "segfault" ELSE "overrun")
    BY <2>1, <2>2, UndefinedTyped
  <2>3. CASE /\ ReadReturns("READ_INVALID_BITS")
             /\ UNCHANGED <<disk, pos, row, img, new_img, mem, out, write_status>>
    BY <2>1, <2>3, ReadReturnsTyped DEF Statuses
  <2> QED
    BY <1>5, <2>2, <2>3 DEF ReadRowOutside
<1>6. CASE ReadDone
  BY <1>6, ReadReturnsTyped DEF ReadDone, Reading, Statuses
<1> QED
  BY <1>1, <1>2, <1>3, <1>4, <1>5, <1>6

LEMMA RotatingTyped ==
  ASSUME TInv, RotateCreate \/ RotateRow \/ RotateRowOutside \/ RotateDone
  PROVE  TInv'
<1>1. CASE RotateCreate
  <2>1. /\ pc' = "rotate_row" /\ row' = 0 /\ mem' = Allocated(new_img')
        /\ UNCHANGED <<env, given, disk, streams, pos, img, read_status, write_status, exit>>
    BY <1>1 DEF RotateCreate
  <2>2. PICK data \in {"new_img", NULL} : new_img' = image_create(img.height, img.width, data)
    BY <1>1 DEF RotateCreate, Mallocs
  <2>3. img.width \in Int /\ img.height \in Int
    BY BitmapAssumption DEF TInv, TypeOK
  <2>4. Sides(new_img') /\ new_img'.data = data /\ new_img'.height >= 0
    BY <2>2, <2>3, CreateSides, BitmapAssumption DEF Sides
  <2>5. DOMAIN mem' \subseteq {"img", "new_img"}
    BY <2>1, <2>4 DEF Allocated, TInv, TypeOK
  <2> QED
    BY <2>1, <2>4, <2>5 DEF TInv, TypeOK, Sides, Reading
<1>2. CASE RotateRow
  <2>1. /\ pc = "rotate_row" /\ row < new_img.height /\ row' = row + 1
        /\ DOMAIN mem' = DOMAIN mem
        /\ UNCHANGED <<env, given, disk, pc, streams, pos, img, new_img, read_status,
                       write_status, exit>>
    BY <1>2 DEF RotateRow
  <2>2. new_img.height \in Nat /\ row \in Nat
    BY BitmapAssumption DEF TInv, TypeOK
  <2>3. row' \in Nat /\ row' <= new_img'.height
    BY <2>1, <2>2
  <2> QED
    BY <2>1, <2>3 DEF TInv, TypeOK, Reading
<1>3. CASE RotateRowOutside
  BY <1>3, UndefinedTyped DEF RotateRowOutside
<1>4. CASE RotateDone
  <2>1. /\ pc' = "open_output" /\ DOMAIN mem' \subseteq DOMAIN mem
        /\ UNCHANGED <<env, given, disk, streams, pos, row, img, new_img, read_status,
                       write_status, exit>>
    BY <1>4 DEF RotateDone, image_destroy
  <2> QED
    BY <2>1 DEF TInv, TypeOK, Reading
<1> QED
  BY <1>1, <1>2, <1>3, <1>4

LEMMA WritingTyped ==
  ASSUME TInv, OpenOutputFails \/ OpenOutput \/ WriteHeader \/ WriteRow \/ WriteDone
  PROVE  TInv'
<1>1. CASE OpenOutputFails
  BY <1>1, WriteReturnsTyped DEF OpenOutputFails, Writing
<1>2. CASE OpenOutput
  <2>1. /\ pc' = "write_header" /\ streams' = streams \cup {"out"} /\ DOMAIN disk' = DOMAIN disk
        /\ UNCHANGED <<env, given, pos, row, img, new_img, mem, read_status, write_status, exit>>
    BY <1>2 DEF OpenOutput
  <2> QED
    BY <2>1 DEF TInv, TypeOK, Reading
<1>3. CASE WriteHeader
  <2>1. pc \in Writing /\ UNCHANGED <<env, given, pos, img, new_img, read_status>>
    BY <1>3 DEF WriteHeader, Writing
  <2>2. CASE pc' = "write_row" /\ row' = 0 /\ UNCHANGED <<disk, streams, mem, write_status, exit>>
    <3>1. 0 <= new_img'.height
      BY <2>1, BitmapAssumption DEF TInv, TypeOK
    <3> QED
      BY <2>1, <2>2, <3>1 DEF TInv, TypeOK, Reading
  <2>3. CASE /\ disk' = [disk EXCEPT ![output_path] = Kept(out', env.room)]
             /\ WriteReturns("WRITE_HEADER_FAILED") /\ row' = row
    BY <2>1, <2>3, WriteReturnsTyped
  <2> QED
    BY <1>3, <2>2, <2>3 DEF WriteHeader
<1>4. CASE WriteRow
  <2>1. CASE /\ row' = row + 1
             /\ UNCHANGED <<disk, pc, streams, pos, img, new_img, mem, read_status,
                            write_status, exit>>
    <3>1. new_img.height \in Nat /\ row \in Nat
      BY BitmapAssumption DEF TInv, TypeOK
    <3>2. pc = "write_row" /\ row' \in Nat /\ row' <= new_img'.height /\ UNCHANGED <<env, given>>
      BY <1>4, <2>1, <3>1 DEF WriteRow
    <3> QED
      BY <2>1, <3>2 DEF TInv, TypeOK, Reading
  <2>2. CASE Undefined("overrun")
    BY <1>4, <2>2, UndefinedTyped DEF WriteRow
  <2> QED
    BY <1>4, <2>1, <2>2 DEF WriteRow
<1>5. CASE WriteDone
  BY <1>5, WriteReturnsTyped DEF WriteDone, Writing
<1> QED
  BY <1>1, <1>2, <1>3, <1>4, <1>5

\* The types hold for files whose image does not fit into uint32_t, too.
THEOREM Typed == Spec => []TypeOK
<1>1. Init => TInv
  BY InitTyped
<1>2. TInv /\ [Next]_vars => TInv'
  <2>1. TInv /\ UNCHANGED vars => TInv'
    BY DEF vars, TInv, TypeOK
  <2> QED
    BY <2>1, ReadingTyped, RotatingTyped, WritingTyped DEF Next, Step, Stopped
<1>3. TInv => TypeOK
  BY DEF TInv
<1> QED
  BY <1>1, <1>2, <1>3, PTL DEF Spec

-----------------------------------------------------------------------------
(* Where the pixels are: from the rows of the input through the two images *)
(* to the rows of the output.  The invariant so far says that no step      *)
(* leaves the blocks of the images; PInv adds what the cells and the       *)
(* output file hold: each loop has brought the rows before its counter to  *)
(* their places.                                                           *)

Width  == given.head.biWidth
Height == given.head.biHeight

\* The sizes in the header of a picture, turned, fit into uint32_t.
SizesFit ==
  \A f \in Inputs : Readable(f) => HeaderSize + f.head.biWidth * Stride(f.head.biHeight) < Word

\* The rows of the input so far lie within the file, and img has their pixels.
RowsRead(n) ==
  /\ given.size >= HeaderSize
  /\ env.seekable
  /\ n > 0 /\ Width > 0 =>
       given.head.bOffBits + (n - 1) * Stride(Width) + PixelSize * Width <= given.size
  /\ \A r \in 0..(n - 1), c \in 0..(Width - 1) :
       mem["img"][Width * r + c] = FilePixel(given, r, c)

\* The first rows of new_img are columns of the input, taken from its last row
\* to its first.
RowsTurned(n) ==
  \A r \in 0..(n - 1), c \in 0..(Height - 1) :
    mem["new_img"][Height * r + c] = FilePixel(given, Height - 1 - c, r)

\* The bytes that the output can get.
Bytes == {ByteAt(given, o) : o \in Int} \cup {0}

\* The stream to the output holds the header and so many rows.
RowsWritten(n) ==
  /\ DOMAIN out = {"size", "head", "body"}
  /\ out.size = HeaderSize + n * Stride(Height)
  /\ out.head = bmp_gen_header(Height, Width)
  /\ out.body \in Seq(Bytes)
  /\ Len(out.body) = n * Stride(Height)
  /\ \A r \in 0..(n - 1), c \in 0..(Height - 1), k \in 1..PixelSize :
       out.body[r * Stride(Height) + PixelSize * c + k] =
         FilePixel(given, Height - 1 - c, r)[k]

Progress ==
  /\ pc = "read_row" => /\ RowsRead(row)
                        /\ row <= Height
                        /\ pos = given.head.bOffBits + row * Stride(Width)
  /\ pc \in Rotating => RowsRead(Height)
  /\ pc = "rotate_row" => RowsTurned(row) /\ row <= Width
  /\ pc \in Writing => RowsTurned(Width)
  /\ pc = "write_row" => RowsWritten(row) /\ row <= Width
  /\ exit = 0 => RowsWritten(Width) /\ disk[output_path] = Kept(out, env.room)

\* Reading has no verdict before it ends, the program none before it is done;
\* the input is as it was until the output is opened.
Verdicts ==
  /\ pc \in Reading => read_status = "none"
  /\ pc # "done" => exit = -1
  /\ DOMAIN disk = {"in", "out"}
  /\ pc = "open_output" => disk["in"] = given
  /\ exit = 0 => read_status = "READ_OK"

PInv == Progress /\ Verdicts /\ ReadVerdict
-----------------------------------------------------------------------------
(* Rows and cells.                                                         *)

LEMMA RowLength ==
  ASSUME NEW w \in Nat
  PROVE  /\ Stride(w) \in Nat
         /\ Stride(w) = PixelSize * w + bmp_calc_padding(w)
         /\ Stride(w) >= PixelSize * w
<1>1. PixelSize * w + bmp_calc_padding(w) = Stride(w) /\ bmp_calc_padding(w) \in 0..3
  BY PaddingFillsRow
<1> QED
  BY <1>1 DEF PixelSize

\* A row lies before the next ones.
LEMMA RowsInOrder ==
  ASSUME NEW s \in Nat, NEW r \in Nat, NEW q \in Nat, r < q
  PROVE  s * r + s <= s * q
<1>1. PICK k \in Nat : q = r + 1 + k
  <2>1. q - r - 1 \in Nat
    OBVIOUS
  <2> QED
    BY <2>1
<1>2. s * q = s * r + s + s * k
  BY <1>1
<1>3. s * r \in Nat /\ s * k \in Nat
  OBVIOUS
<1> QED
  BY <1>2, <1>3

\* What is always so of the sizes of the input.
LEMMA Sizes ==
  ASSUME IInv, NoWrap
  PROVE  /\ Width \in Nat /\ Height \in Nat
         /\ Width < Word /\ Height < Word /\ Word \in Nat
         /\ Stride(Width) \in Nat /\ Stride(Height) \in Nat
         /\ given.size \in Int /\ given.head.bOffBits \in Nat
         /\ row \in Nat /\ pos \in Nat
  BY Dimensions, RowLength, BitmapAssumption DEF IInv, Shape, Width, Height

-----------------------------------------------------------------------------
(* Reading.                                                                *)

\* A verdict that read_file gives of a file which it could not read.
LEMMA Refused ==
  ASSUME IInv, PInv, pc \in Reading, NEW st \in Statuses \ {"READ_OK"}, ReadReturns(st),
         UNCHANGED <<env, given, disk>>,
         ~Readable(given) \/ ~env.seekable \/ img'.data = NULL
  PROVE  PInv'
<1>1. pc' = "done" /\ read_status' = st /\ exit' = 1
  BY DEF ReadReturns
<1>2. Progress'
  BY <1>1 DEF Progress, Rotating, Writing
<1>3. Verdicts'
  BY <1>1 DEF PInv, Verdicts, Reading
<1>4. ReadVerdict'
  <2>1. Readable(given)' <=> Readable(given)
    BY DEF Readable, FilePixel
  <2> QED
    BY <1>1, <2>1 DEF ReadVerdict
<1> QED
  BY <1>2, <1>3, <1>4 DEF PInv

LEMMA OpenInputKeepsPInv == NoWrap /\ IInv /\ PInv /\ OpenInput => PInv'
<1> SUFFICES ASSUME NoWrap, IInv, PInv, OpenInput PROVE PInv'
  OBVIOUS
<1>1. pc = "open_input" /\ pc \in Reading /\ disk["in"] = given
  BY DEF OpenInput, IInv, Files, Reading
<1>2. CASE disk["in"] = NoFile
  <2>1. ~Readable(given)
    <3>1. given.size = -1
      BY <1>1, <1>2 DEF NoFile
    <3> QED
      BY <3>1, BitmapAssumption DEF Readable
  <2>2. ReadReturns("READ_INVALID_FILE") /\ UNCHANGED <<env, given, disk>>
    BY <1>2 DEF OpenInput
  <2> QED
    BY <1>1, <2>1, <2>2, Refused DEF Statuses
<1>3. CASE disk["in"] # NoFile
  <2>1. pc' = "header" /\ UNCHANGED <<env, given, disk, read_status, exit>>
    BY <1>3 DEF OpenInput
  <2> QED
    BY <1>1, <2>1 DEF PInv, Progress, Verdicts, ReadVerdict, Reading, Rotating, Writing
<1> QED
  BY <1>2, <1>3

LEMMA HeaderFailsKeepsPInv == NoWrap /\ IInv /\ PInv /\ HeaderFails => PInv'
<1> SUFFICES ASSUME NoWrap, IInv, PInv, HeaderFails PROVE PInv'
  OBVIOUS
<1>1. pc \in Reading /\ disk["in"] = given /\ UNCHANGED <<env, given, disk>>
  BY DEF HeaderFails, IInv, Files, Reading
<1>2. CASE disk["in"].size < HeaderSize /\ ReadReturns("READ_INVALID_HEADER")
  <2>1. ~Readable(given)
    BY <1>1, <1>2, Sizes, BitmapAssumption DEF Readable
  <2> QED
    BY <1>1, <1>2, <2>1, Refused DEF Statuses
<1>3. CASE ~env.seekable /\ ReadReturns("READ_INVALID_SIGNATURE")
  BY <1>1, <1>3, Refused DEF Statuses
<1> QED
  BY <1>2, <1>3 DEF HeaderFails

LEMMA ReadHeaderKeepsPInv == NoWrap /\ IInv /\ PInv /\ ReadHeader => PInv'
<1> SUFFICES ASSUME NoWrap, IInv, PInv, ReadHeader PROVE PInv'
  OBVIOUS
<1>1. /\ pc = "header" /\ pc' = "read_row" /\ row' = 0 /\ env.seekable
      /\ disk["in"] = given /\ given.size >= HeaderSize
      /\ pos' = given.head.bOffBits
      /\ UNCHANGED <<env, given, disk, read_status, exit>>
  BY DEF ReadHeader, IInv, Files, Reading
<1>2. Width' = Width /\ Height' = Height
  BY <1>1 DEF Width, Height
<1>3. RowsRead(row)'
  BY <1>1, <1>2 DEF RowsRead
<1>4. Stride(Width) \in Nat /\ 0 <= Height /\ given.head.bOffBits \in Nat
  BY Sizes
<1>5. Progress'
  BY <1>1, <1>2, <1>3, <1>4 DEF Progress, Rotating, Writing, PInv, Verdicts
<1>6. Verdicts' /\ ReadVerdict'
  BY <1>1 DEF PInv, Verdicts, ReadVerdict, Reading, Writing
<1> QED
  BY <1>5, <1>6 DEF PInv

\* The row under the loop lies within the input exactly when all its pixels
\* are available; if it does not, the input is not whole.
LEMMA RowAvailable ==
  ASSUME NoWrap, IInv, PInv, pc = "read_row", row < img.height
  PROVE  /\ Available < img.width => ~Readable(given)
         /\ ~(Available < img.width) => pos + PixelSize * Width <= given.size \/ Width = 0
<1>1. /\ img.width = Width /\ img.height = Height /\ disk["in"] = given
      /\ row <= Height /\ pos = given.head.bOffBits + row * Stride(Width)
  BY DEF IInv, Images, Holds, Files, Reading, PInv, Progress, Width, Height
<1> DEFINE left == (given.size - pos) \div PixelSize
<1>2. /\ Width \in Nat /\ Height \in Nat /\ row \in Nat /\ pos \in Nat
      /\ given.size \in Int /\ Stride(Width) \in Nat /\ given.head.bOffBits \in Nat
  BY Sizes
<1>3. Available = IF left < 0 THEN 0 ELSE IF left < Width THEN left ELSE Width
  BY <1>1 DEF Available, UpToWidth
<1>4. left < Width <=> given.size < pos + PixelSize * Width
  BY <1>2 DEF PixelSize
<1>5. ASSUME Available < img.width PROVE ~Readable(given)
  <2>1. Width > 0 /\ given.size < pos + PixelSize * Width
    <3> HIDE DEF left
    <3>1. left \in Int
      BY <1>2 DEF left, PixelSize
    <3> QED
      BY <1>1, <1>2, <1>3, <1>4, <1>5, <3>1
  <2>2. row * Stride(Width) <= (Height - 1) * Stride(Width)
    <3>1. CASE row = Height - 1
      BY <3>1, <1>2
    <3>2. CASE row < Height - 1
      <4>1. Height - 1 \in Nat
        BY <1>1, <1>2
      <4>2. Stride(Width) * row + Stride(Width) <= Stride(Width) * (Height - 1)
        BY <3>2, <4>1, <1>2, RowsInOrder
      <4>3. Stride(Width) * row \in Nat
        BY <1>2
      <4> QED
        BY <4>1, <4>2, <4>3, <1>2
    <3> QED
      BY <3>1, <3>2, <1>1, <1>2
  <2>3. (Height - 1) * Stride(Width) \in Int /\ row * Stride(Width) \in Int /\ Height > 0
    BY <1>1, <1>2
  <2>4. given.size < given.head.bOffBits + (Height - 1) * Stride(Width) + PixelSize * Width
    BY <2>1, <2>2, <2>3, <1>1, <1>2 DEF PixelSize
  <2> QED
    BY <2>1, <2>3, <2>4, <1>2 DEF Readable, Width, Height, PixelSize
<1>6. ASSUME ~(Available < img.width), Width # 0 PROVE pos + PixelSize * Width <= given.size
  <2> HIDE DEF left
  <2>1. left \in Int
    BY <1>2 DEF left, PixelSize
  <2>2. ~(left < Width)
    BY <2>1, <1>1, <1>2, <1>3, <1>6
  <2> QED
    BY <2>2, <1>2, <1>4 DEF PixelSize
<1> QED
  BY <1>5, <1>6

\* A whole row goes where its pixels belong, and disturbs no row before it.
LEMMA RowArrives ==
  ASSUME NoWrap, IInv, PInv, ReadRow, ~(Available < img.width)
  PROVE  RowsRead(row)'
<1>1. /\ pc = "read_row" /\ row < img.height
      /\ img.width = Width /\ img.height = Height /\ disk["in"] = given
      /\ pos = given.head.bOffBits + row * Stride(Width)
      /\ RowsRead(row)
      /\ UNCHANGED <<env, given>>
  BY DEF ReadRow, IInv, Images, Holds, Files, Reading, PInv, Progress, Width, Height
<1>2. /\ Width \in Nat /\ Height \in Nat /\ row \in Nat /\ pos \in Nat
      /\ given.size \in Int /\ Stride(Width) \in Nat /\ given.head.bOffBits \in Nat
  BY Sizes
<1>3. Available = Width
  BY <1>1, AvailableBound, <1>2
<1>4. Width' = Width /\ Height' = Height /\ row' = row + 1
  BY <1>1 DEF Width, Height, ReadRow
<1>5. Width > 0 => given.head.bOffBits + row * Stride(Width) + PixelSize * Width <= given.size
  BY <1>1, <1>2, RowAvailable
<1>6. ASSUME NEW r \in 0..row, NEW c \in 0..(Width - 1)
      PROVE  mem'["img"][Width * r + c] = FilePixel(given, r, c)
  <2>1. ReadTargets = {Width * row + i : i \in 0..(Width - 1)}
    BY <1>1, <1>3 DEF ReadTargets, Targets, target_index
  <2>2. img.data = "img" /\ DOMAIN mem["img"] = 0..(Width * Height - 1) /\ "img" \in DOMAIN mem
    <3>1. Width * row + c \in Cells(img.data)
      <4>1. Stored = Width
        BY <1>1, <1>2, <1>3, AvailableBound, StoredBound
      <4>2. Width * row + c \in Targets(Stored)
        BY <4>1, <1>1 DEF Targets, target_index
      <4> QED
        BY <4>2 DEF ReadRow
    <3>2. img.data \in DOMAIN mem
      BY <3>1 DEF Cells
    <3> QED
      BY <3>2, <1>1 DEF IInv, Ledger, Images, Holds, Width, Height
  <2>3. mem' = [mem EXCEPT !["img"] =
                 [i \in DOMAIN @ |->
                    IF i \in ReadTargets
                    THEN PixelAt(given, pos + PixelSize * (i - Width * row))
                    ELSE @[i]]]
    BY <1>1, <1>2, <1>3, <2>2 DEF ReadRow
  <2>4. r \in 0..(Height - 1) /\ r \in Nat /\ c \in Nat
    BY <1>1, <1>2
  <2>5. Width * r + c \in DOMAIN mem["img"]
    BY <2>2, <2>4, <1>2, IndexInRoom
  <2>6. mem'["img"][Width * r + c] =
          IF Width * r + c \in ReadTargets
          THEN PixelAt(given, pos + PixelSize * ((Width * r + c) - Width * row))
          ELSE mem["img"][Width * r + c]
    BY <2>2, <2>3, <2>5
  <2>7. CASE r = row
    <3>1. Width * r + c \in ReadTargets
      BY <2>1, <2>7
    <3>2. (Width * r + c) - Width * row = c
      <4>1. Width * row \in Nat
        BY <1>2
      <4> QED
        BY <2>4, <2>7, <4>1
    <3>3. FilePixel(given, r, c) = PixelAt(given, pos + PixelSize * c)
      BY <1>1, <2>7 DEF FilePixel, Width
    <3> QED
      BY <2>6, <3>1, <3>2, <3>3
  <2>8. CASE r < row
    <3>1. Width * r + c \notin ReadTargets
      <4> SUFFICES ASSUME NEW i \in 0..(Width - 1), Width * r + c = Width * row + i
                   PROVE  FALSE
        BY <2>1
      <4>1. Width * r + Width <= Width * row
        BY <1>2, <2>4, <2>8, RowsInOrder
      <4>2. Width * r \in Nat /\ Width * row \in Nat
        BY <1>2, <2>4
      <4> QED
        BY <4>1, <4>2, <1>2
    <3>2. mem["img"][Width * r + c] = FilePixel(given, r, c)
      BY <1>1, <1>2, <2>4, <2>8 DEF RowsRead
    <3> QED
      BY <2>6, <3>1, <3>2
  <2> QED
    BY <2>4, <2>7, <2>8, <1>2
<1>7. row' - 1 = row
  BY <1>2, <1>4
<1>8. \A r \in 0..(row' - 1), c \in 0..(Width - 1) :
         mem'["img"][Width * r + c] = FilePixel(given, r, c)
  <2>1. \A r \in 0..row, c \in 0..(Width - 1) :
           mem'["img"][Width * r + c] = FilePixel(given, r, c)
    BY <1>6
  <2> QED
    BY <2>1, <1>7
<1> QED
  BY <1>1, <1>4, <1>5, <1>7, <1>8 DEF RowsRead, FilePixel

LEMMA ReadRowKeepsPInv == NoWrap /\ IInv /\ PInv /\ ReadRow => PInv'
<1> SUFFICES ASSUME NoWrap, IInv, PInv, ReadRow PROVE PInv'
  OBVIOUS
<1>1. /\ pc = "read_row" /\ pc \in Reading /\ row < img.height
      /\ img.width = Width /\ img.height = Height
      /\ pos = given.head.bOffBits + row * Stride(Width)
      /\ UNCHANGED <<env, given, disk>>
  BY DEF ReadRow, IInv, Images, Holds, Reading, PInv, Progress, Width, Height
<1>2. CASE Available < img.width
  BY <1>1, <1>2, RowAvailable, Refused DEF ReadRow, Statuses
<1>3. CASE ~(Available < img.width)
  <2>1. /\ pos' = pos + PixelSize * Width + bmp_calc_padding(Width)
        /\ row' = row + 1 /\ pc' = pc /\ Width' = Width /\ Height' = Height
        /\ UNCHANGED <<read_status, exit>>
    BY <1>1, <1>3 DEF ReadRow, Width, Height
  <2>2. RowsRead(row)'
    BY <1>3, RowArrives
  <2>3. /\ Width \in Nat /\ Height \in Nat /\ row \in Nat
        /\ given.head.bOffBits \in Nat
        /\ Stride(Width) \in Nat
        /\ Stride(Width) = PixelSize * Width + bmp_calc_padding(Width)
    BY Sizes, RowLength
  <2>4. pos' = given.head.bOffBits + row' * Stride(Width)
    <3>1. (row + 1) * Stride(Width) = row * Stride(Width) + Stride(Width)
      BY <2>3
    <3>2. row * Stride(Width) \in Nat /\ bmp_calc_padding(Width) \in Int /\ PixelSize * Width \in Nat
      BY <2>3, PaddingFillsRow DEF PixelSize
    <3> QED
      BY <1>1, <2>1, <2>3, <3>1, <3>2
  <2>5. row' <= Height
    BY <1>1, <2>1, <2>3
  <2>6. Progress'
    BY <1>1, <2>1, <2>2, <2>4, <2>5 DEF Progress, Rotating, Writing, PInv, Verdicts
  <2>7. Verdicts' /\ ReadVerdict'
    BY <1>1, <2>1 DEF PInv, Verdicts, ReadVerdict, Reading, Writing
  <2> QED
    BY <2>6, <2>7 DEF PInv
<1> QED
  BY <1>2, <1>3

\* A fault: nothing is reported any more.
LEMMA Faults ==
  ASSUME PInv, pc \notin {"done"}, pc' \in {"segfault", "overrun"},
         read_status = "none" \/ read_status = "READ_OK",
         UNCHANGED <<env, given, disk, img, read_status, exit>>
  PROVE  PInv'
<1>1. exit = -1
  BY DEF PInv, Verdicts
<1>2. Progress' /\ Verdicts'
  BY <1>1 DEF PInv, Progress, Verdicts, Reading, Rotating, Writing
<1>3. ReadVerdict'
  BY DEF PInv, ReadVerdict, Readable
<1> QED
  BY <1>2, <1>3 DEF PInv

LEMMA ReadRowOutsideKeepsPInv == NoWrap /\ IInv /\ PInv /\ ReadRowOutside => PInv'
<1> SUFFICES ASSUME NoWrap, IInv, PInv, ReadRowOutside PROVE PInv'
  OBVIOUS
<1>1. pc = "read_row" /\ pc \in Reading /\ row < img.height /\ UNCHANGED <<env, given>>
  BY DEF ReadRowOutside, Reading
<1>2. img.data = NULL
  BY <1>1, ReadInside DEF ReadRowOutside, IInv, Images, Holds
<1>3. CASE Undefined("segfault")
  <2>1. /\ pc' = "segfault" /\ read_status = "none"
        /\ UNCHANGED <<disk, img, read_status, exit>>
    BY <1>1, <1>3 DEF Undefined, PInv, Verdicts
  <2> QED
    BY <1>1, <2>1, Faults
<1>4. CASE ReadReturns("READ_INVALID_BITS") /\ UNCHANGED <<disk, img>>
  BY <1>1, <1>2, <1>4, Refused DEF Statuses
<1> QED
  BY <1>2, <1>3, <1>4 DEF ReadRowOutside

LEMMA ReadDoneKeepsPInv == NoWrap /\ IInv /\ PInv /\ ReadDone => PInv'
<1> SUFFICES ASSUME NoWrap, IInv, PInv, ReadDone PROVE PInv'
  OBVIOUS
<1>1. /\ pc = "read_row" /\ row = Height /\ RowsRead(Height)
      /\ pc' = "rotate" /\ read_status' = "READ_OK"
      /\ UNCHANGED <<env, given, disk, mem, exit>>
  BY DEF ReadDone, ReadReturns, IInv, Images, Holds, PInv, Progress, Width, Height
<1>2. Readable(given)
  BY <1>1, Sizes DEF RowsRead, Readable, Width, Height
<1>3. Readable(given)' /\ RowsRead(Height)'
  BY <1>1, <1>2 DEF Readable, RowsRead, Width, Height, FilePixel
<1>4. Progress'
  BY <1>1, <1>3 DEF Progress, Rotating, Writing, PInv, Verdicts
<1>5. Verdicts'
  BY <1>1 DEF PInv, Verdicts, Reading, Writing
<1>6. ReadVerdict'
  BY <1>1, <1>3 DEF ReadVerdict, RowsRead
<1> QED
  BY <1>4, <1>5, <1>6 DEF PInv

-----------------------------------------------------------------------------
(* Turning.                                                                *)

\* A step after the reading takes no verdict back.
LEMMA VerdictStays ==
  ASSUME IInv, PInv, pc \in Rotating \cup Writing,
         UNCHANGED <<env, given, read_status>>
  PROVE  ReadVerdict'
<1>1. read_status = "READ_OK"
  BY DEF IInv, Files
<1> QED
  BY <1>1 DEF PInv, ReadVerdict, Readable

\* What has been read stays in the block of img.
LEMMA ReadStays ==
  ASSUME RowsRead(Height), UNCHANGED <<env, given>>, Width > 0 /\ Height > 0 => mem'["img"] = mem["img"],
         Width \in Nat, Height \in Nat
  PROVE  RowsRead(Height)'
<1>1. Width' = Width /\ Height' = Height
  BY DEF Width, Height
<1>2. \A r \in 0..(Height - 1), c \in 0..(Width - 1) : mem'["img"] = mem["img"]
  OBVIOUS
<1> QED
  BY <1>1, <1>2 DEF RowsRead, FilePixel

\* The pixels of the images are in blocks, if there are any.
LEMMA Blocks ==
  ASSUME NoWrap, IInv, Width > 0, Height > 0
  PROVE  /\ pc \in Rotating =>
              /\ img.data = "img" /\ "img" \in DOMAIN mem
              /\ DOMAIN mem["img"] = 0..(Width * Height - 1)
         /\ pc \in Writing =>
              /\ new_img.data = "new_img" /\ "new_img" \in DOMAIN mem
              /\ DOMAIN mem["new_img"] = 0..(Height * Width - 1)
  BY Sizes DEF IInv, Images, Holds, Width, Height

LEMMA RotateCreateKeepsPInv == NoWrap /\ IInv /\ PInv /\ RotateCreate => PInv'
<1> SUFFICES ASSUME NoWrap, IInv, PInv, RotateCreate PROVE PInv'
  OBVIOUS
<1>1. /\ pc = "rotate" /\ pc \in Rotating /\ pc' = "rotate_row" /\ row' = 0
      /\ RowsRead(Height) /\ mem' = Allocated(new_img')
      /\ UNCHANGED <<env, given, disk, exit, read_status>>
  BY DEF RotateCreate, Rotating, PInv, Progress
<1>2. Width \in Nat /\ Height \in Nat
  BY Sizes
<1>3. new_img'.data \in {"new_img", NULL}
  BY DEF RotateCreate, Mallocs, image_create
<1>4. Width > 0 /\ Height > 0 => mem'["img"] = mem["img"]
  BY <1>1, <1>3, Blocks DEF Allocated, NULL
<1>5. RowsRead(Height)'
  BY <1>1, <1>2, <1>4, ReadStays
<1>6. RowsTurned(row)' /\ row' <= Width'
  BY <1>1, <1>2 DEF RowsTurned, Width
<1>7. Progress'
  BY <1>1, <1>5, <1>6 DEF Progress, Writing, PInv, Verdicts
<1>8. Verdicts'
  BY <1>1 DEF PInv, Verdicts, Reading, Writing
<1> QED
  BY <1>1, <1>7, <1>8, VerdictStays DEF PInv

\* A row of new_img gets its pixels, and the rows before it keep theirs.
LEMMA RowTurns ==
  ASSUME NoWrap, IInv, PInv, RotateRow
  PROVE  RowsTurned(row)'
<1>1. /\ pc = "rotate_row" /\ pc \in Rotating /\ row < new_img.height /\ row' = row + 1
      /\ img.width = Width /\ img.height = Height
      /\ new_img.width = Height /\ new_img.height = Width
      /\ new_img.data \in {"new_img", NULL}
      /\ new_img.data = "new_img" => /\ "new_img" \in DOMAIN mem
                                     /\ DOMAIN mem["new_img"] = 0..(Height * Width - 1)
      /\ RowsRead(Height) /\ RowsTurned(row)
      /\ UNCHANGED given
  BY DEF RotateRow, Rotating, IInv, Images, Holds, PInv, Progress, Width, Height
<1>2. Width \in Nat /\ Height \in Nat /\ row \in Nat
  BY Sizes
<1>3. Width' = Width /\ Height' = Height
  BY <1>1 DEF Width, Height
<1>4. ASSUME NEW r \in 0..row, NEW c \in 0..(Height - 1)
      PROVE  mem'["new_img"][Height * r + c] = FilePixel(given, Height - 1 - c, r)
  <2>1. r \in 0..(Width - 1) /\ r \in Nat /\ c \in Nat /\ Height > 0 /\ Width > 0
    BY <1>1, <1>2
  <2>2. new_img.data = "new_img"
    <3>1. target_index(Height, row, c) \in Cells(new_img.data)
      BY <1>1 DEF RotateRow, RotateInside
    <3>2. new_img.data \in DOMAIN mem
      BY <3>1 DEF Cells
    <3>3. NULL \notin DOMAIN mem
      BY <1>1 DEF IInv, Ledger
    <3> QED
      BY <1>1, <3>2, <3>3
  <2>3. img.data = "img"
    BY <1>1, <2>1, Blocks
  <2> DEFINE col(i) == i - Height * row
  <2>4. mem' = [mem EXCEPT !["new_img"] =
                 [i \in DOMAIN @ |->
                    IF col(i) \in 0..(Height - 1) THEN mem["img"][SourceOf(col(i))] ELSE @[i]]]
    BY <1>1, <1>2, <2>1, <2>3 DEF RotateRow
  <2>5. Height * r + c \in DOMAIN mem["new_img"]
    BY <1>1, <1>2, <2>1, <2>2, IndexInRoom
  <2>6. mem'["new_img"][Height * r + c] =
          IF col(Height * r + c) \in 0..(Height - 1)
          THEN mem["img"][SourceOf(col(Height * r + c))]
          ELSE mem["new_img"][Height * r + c]
    BY <1>1, <2>2, <2>4, <2>5
  <2>7. CASE r = row
    <3>1. Height * row \in Nat
      BY <1>2
    <3>2. col(Height * r + c) = c
      BY <2>1, <2>7, <3>1
    <3>3. mem'["new_img"][Height * r + c] = mem["img"][SourceOf(c)]
      BY <2>6, <3>2
    <3>4. SourceOf(c) = Width * (Height - 1 - c) + row
      BY <1>1 DEF SourceOf, source_index
    <3>5. Height - 1 - c \in 0..(Height - 1) /\ row \in 0..(Width - 1)
      BY <1>1, <1>2
    <3>6. mem["img"][Width * (Height - 1 - c) + row] = FilePixel(given, Height - 1 - c, row)
      BY <1>1, <3>5 DEF RowsRead
    <3> QED
      BY <2>7, <3>3, <3>4, <3>6
  <2>8. CASE r < row
    <3>1. Height * r + Height <= Height * row
      BY <1>2, <2>1, <2>8, RowsInOrder
    <3>2. Height * r \in Nat /\ Height * row \in Nat
      BY <1>2, <2>1
    <3>3. col(Height * r + c) < 0
      BY <3>1, <3>2, <2>1, <1>2
    <3>4. mem'["new_img"][Height * r + c] = mem["new_img"][Height * r + c]
      <4> HIDE DEF col
      <4> QED
        BY <2>6, <3>3
    <3>5. r \in 0..(row - 1)
      BY <1>2, <2>1, <2>8
    <3> QED
      BY <1>1, <3>4, <3>5 DEF RowsTurned
  <2> QED
    BY <2>1, <2>7, <2>8, <1>2
<1>5. 0..(row' - 1) = 0..row
  BY <1>1, <1>2
<1>6. \A r \in 0..(row' - 1), c \in 0..(Height' - 1) :
         mem'["new_img"][Height' * r + c] = FilePixel(given', Height' - 1 - c, r)
  BY <1>1, <1>3, <1>4, <1>5
<1> QED
  BY <1>6 DEF RowsTurned, FilePixel

LEMMA RotateRowKeepsPInv == NoWrap /\ IInv /\ PInv /\ RotateRow => PInv'
<1> SUFFICES ASSUME NoWrap, IInv, PInv, RotateRow PROVE PInv'
  OBVIOUS
<1>1. /\ pc = "rotate_row" /\ pc \in Rotating /\ pc' = pc /\ row' = row + 1
      /\ row < new_img.height /\ new_img.height = Width
      /\ RowsRead(Height)
      /\ UNCHANGED <<env, given, disk, exit, read_status>>
  BY DEF RotateRow, Rotating, PInv, Progress, IInv, Images, Holds, Width
<1>2. Width \in Nat /\ Height \in Nat /\ row \in Nat
  BY Sizes
<1>3. mem'["img"] = mem["img"]
  BY DEF RotateRow
<1>4. RowsRead(Height)'
  BY <1>1, <1>2, <1>3, ReadStays
<1>5. row' <= Width'
  BY <1>1, <1>2 DEF Width
<1>6. Progress'
  BY <1>1, <1>4, <1>5, RowTurns DEF Progress, Writing, PInv, Verdicts
<1>7. Verdicts'
  BY <1>1 DEF PInv, Verdicts, Reading, Writing
<1> QED
  BY <1>1, <1>6, <1>7, VerdictStays DEF PInv

LEMMA RotateRowOutsideKeepsPInv == NoWrap /\ IInv /\ PInv /\ RotateRowOutside => PInv'
<1> SUFFICES ASSUME NoWrap, IInv, PInv, RotateRowOutside PROVE PInv'
  OBVIOUS
<1>1. /\ pc = "rotate_row" /\ pc \in Rotating /\ read_status = "READ_OK"
      /\ pc' \in {"segfault", "overrun"}
      /\ UNCHANGED <<env, given, disk, img, read_status, exit>>
  BY DEF RotateRowOutside, Undefined, Rotating, IInv, Files
<1> QED
  BY <1>1, Faults

LEMMA RotateDoneKeepsPInv == NoWrap /\ IInv /\ PInv /\ RotateDone => PInv'
<1> SUFFICES ASSUME NoWrap, IInv, PInv, RotateDone PROVE PInv'
  OBVIOUS
<1>1. /\ pc = "rotate_row" /\ pc \in Rotating /\ pc' = "open_output" /\ row = new_img.height
      /\ new_img.height = Width /\ img.data \in {"img", NULL}
      /\ mem' = [b \in DOMAIN mem \ {img.data} |-> mem[b]]
      /\ RowsTurned(row)
      /\ disk["in"] = given
      /\ UNCHANGED <<env, given, disk, exit, read_status, new_img>>
  BY DEF RotateDone, image_destroy, Rotating, PInv, Progress, IInv, Images, Holds, Files, Width
<1>2. RowsTurned(Width)'
  <2>1. Width' = Width /\ Height' = Height
    BY <1>1 DEF Width, Height
  <2>2. ASSUME NEW r \in 0..(Width - 1), NEW c \in 0..(Height - 1)
        PROVE  mem'["new_img"][Height * r + c] = FilePixel(given, Height - 1 - c, r)
    <3>1. Width > 0 /\ Height > 0
      BY Sizes
    <3>2. "new_img" \in DOMAIN mem
      BY <1>1, <3>1, Sizes DEF IInv, Images, Holds, Width, Height, Shape
    <3>3. mem'["new_img"] = mem["new_img"]
      BY <1>1, <3>2 DEF NULL
    <3> QED
      BY <1>1, <3>3 DEF RowsTurned
  <2> QED
    BY <1>1, <2>1, <2>2 DEF RowsTurned, FilePixel
<1>3. Progress'
  BY <1>1, <1>2 DEF Progress, Rotating, Writing, PInv, Verdicts
<1>4. Verdicts'
  BY <1>1 DEF PInv, Verdicts, Reading
<1> QED
  BY <1>1, <1>3, <1>4, VerdictStays DEF PInv

-----------------------------------------------------------------------------
(* Writing.                                                                *)

\* A pixel of a file is three of its bytes.
LEMMA PixelBytes ==
  ASSUME NEW f, NEW o \in Int, NEW k \in 1..PixelSize
  PROVE  PixelAt(f, o)[k] = ByteAt(f, o + (k - 1))
<1>1. k = 1 \/ k = 2 \/ k = 3
  BY DEF PixelSize
<1>2. o + 0 = o
  OBVIOUS
<1>3. CASE k = 1
  BY <1>2, <1>3 DEF PixelAt
<1>4. CASE k = 2
  BY <1>4 DEF PixelAt
<1>5. CASE k = 3
  BY <1>5 DEF PixelAt
<1> QED
  BY <1>1, <1>3, <1>4, <1>5

LEMMA InputBytes ==
  ASSUME NoWrap, IInv, NEW r \in Int, NEW c \in Int, NEW k \in 1..PixelSize
  PROVE  FilePixel(given, r, c)[k] \in Bytes
<1>1. /\ given.head.bOffBits \in Nat /\ Stride(given.head.biWidth) \in Nat
  BY Sizes DEF Width
<1> DEFINE o == given.head.bOffBits + r * Stride(given.head.biWidth) + PixelSize * c
<1>2. o \in Int
  BY <1>1 DEF PixelSize
<1>3. o + (k - 1) \in Int
  BY <1>2 DEF PixelSize
<1>4. FilePixel(given, r, c)[k] = ByteAt(given, o + (k - 1))
  <2> HIDE DEF o
  <2>1. FilePixel(given, r, c) = PixelAt(given, o)
    BY DEF FilePixel, o
  <2> QED
    BY <1>2, <2>1, PixelBytes
<1> QED
  BY <1>3, <1>4 DEF Bytes

\* The bytes of a row that to_bmp hands to fwrite.
LEMMA RowLeaves ==
  ASSUME NoWrap, IInv, PInv, pc = "write_row", row < new_img.height
  PROVE  /\ RowBytes \in Seq(Bytes)
         /\ Len(RowBytes) = Stride(Height)
         /\ \A c \in 0..(Height - 1), k \in 1..PixelSize :
              RowBytes[PixelSize * c + k] = FilePixel(given, Height - 1 - c, row)[k]
<1>1. /\ new_img.width = Height /\ new_img.height = Width
      /\ RowsTurned(Width) /\ pc \in Writing
  BY DEF Writing, IInv, Images, Holds, PInv, Progress, Width, Height
<1>2. Width \in Nat /\ Height \in Nat /\ row \in Nat /\ Stride(Height) \in Nat
  BY Sizes
<1>3. Stride(Height) = PixelSize * Height + bmp_calc_padding(Height)
  BY <1>2, RowLength
<1>4. RowBytes = [i \in 1..Stride(Height) |->
                    IF i > PixelSize * Height THEN 0
                    ELSE mem[new_img.data]
                           [target_index(Height, row, (i - 1) \div PixelSize)]
                           [1 + ((i - 1) % PixelSize)]]
  BY <1>1, <1>3 DEF RowBytes
<1>5. ASSUME NEW c \in 0..(Height - 1), NEW k \in 1..PixelSize
      PROVE  /\ PixelSize * c + k \in 1..Stride(Height)
             /\ RowBytes[PixelSize * c + k] = FilePixel(given, Height - 1 - c, row)[k]
  <2> DEFINE i == PixelSize * c + k
  <2>1. c \in Nat /\ k \in 1..3 /\ Height > 0 /\ Width > 0 /\ row \in 0..(Width - 1)
    BY <1>1, <1>2 DEF PixelSize
  <2>2. /\ i \in 1..Stride(Height) /\ ~(i > PixelSize * Height)
        /\ (i - 1) \div PixelSize = c /\ 1 + ((i - 1) % PixelSize) = k
    BY <1>2, <2>1, RowLength DEF PixelSize
  <2>3. new_img.data = "new_img"
    BY <1>1, <2>1, Blocks
  <2>4. mem["new_img"][Height * row + c] = FilePixel(given, Height - 1 - c, row)
    BY <1>1, <2>1 DEF RowsTurned
  <2> HIDE DEF i
  <2>5. RowBytes[i] = mem["new_img"][target_index(Height, row, c)][k]
    BY <1>4, <2>2, <2>3
  <2> QED
    BY <2>2, <2>4, <2>5 DEF target_index, i
<1>6. ASSUME NEW i \in 1..Stride(Height) PROVE RowBytes[i] \in Bytes
  <2>1. CASE i > PixelSize * Height
    BY <1>4, <2>1 DEF Bytes
  <2>2. CASE ~(i > PixelSize * Height)
    <3> DEFINE c == (i - 1) \div PixelSize
               k == 1 + ((i - 1) % PixelSize)
    <3>1. c \in 0..(Height - 1) /\ k \in 1..PixelSize /\ PixelSize * c + k = i
      BY <1>2, <2>2 DEF PixelSize
    <3> HIDE DEF c, k
    <3>2. RowBytes[i] = FilePixel(given, Height - 1 - c, row)[k]
      BY <1>5, <3>1
    <3>3. Height - 1 - c \in Int
      BY <1>2, <3>1
    <3> QED
      BY <1>2, <3>1, <3>2, <3>3, InputBytes
  <2> QED
    BY <2>1, <2>2
<1>7. RowBytes \in [1..Stride(Height) -> Bytes]
  BY <1>4, <1>6
<1>8. RowBytes \in Seq(Bytes) /\ Len(RowBytes) = Stride(Height)
  BY <1>2, <1>7
<1> QED
  BY <1>5, <1>8

\* fwrite puts the row behind the ones that are there.
LEMMA RowAppended ==
  ASSUME NoWrap, IInv, PInv, pc = "write_row", row < new_img.height,
         out' = fwritten(out, RowBytes), row' = row + 1, UNCHANGED given
  PROVE  RowsWritten(row)'
<1> DEFINE s == Stride(Height)
<1>1. RowsWritten(row) /\ out.body \in Seq(Bytes)
  BY DEF PInv, Progress, RowsWritten
<1>2. /\ RowBytes \in Seq(Bytes) /\ Len(RowBytes) = s
      /\ \A c \in 0..(Height - 1), k \in 1..PixelSize :
           RowBytes[PixelSize * c + k] = FilePixel(given, Height - 1 - c, row)[k]
  BY RowLeaves
<1>3. /\ Width \in Nat /\ Height \in Nat /\ row \in Nat /\ s \in Nat
      /\ HeaderSize \in Nat /\ s >= PixelSize * Height
  BY Sizes, RowLength, BitmapAssumption
<1>4. Width' = Width /\ Height' = Height /\ Bytes' = Bytes
  BY DEF Width, Height, Bytes, ByteAt
<1>5. /\ out'.size = out.size + s /\ out'.body = out.body \o RowBytes
      /\ out'.head = out.head /\ DOMAIN out' = DOMAIN out
  <2>1. DOMAIN out = {"size", "head", "body"}
    BY <1>1 DEF RowsWritten
  <2> QED
    BY <1>2 DEF fwritten
<1>6. (row + 1) * s = row * s + s /\ row * s \in Nat
  BY <1>3
<1>7. out.size = HeaderSize + row * s /\ Len(out.body) = row * s
  BY <1>1 DEF RowsWritten
<1> HIDE DEF s
<1>8. /\ out'.body \in Seq(Bytes) /\ Len(out'.body) = row' * s
      /\ \A i \in 1..(row * s) : out'.body[i] = out.body[i]
      /\ \A i \in 1..s : out'.body[row * s + i] = RowBytes[i]
  <2>1. /\ out.body \o RowBytes \in Seq(Bytes)
        /\ Len(out.body \o RowBytes) = row * s + s
        /\ \A i \in 1..(row * s + s) :
             (out.body \o RowBytes)[i] =
               IF i <= row * s THEN out.body[i] ELSE RowBytes[i - row * s]
    <3>1. out.body \in Seq(Bytes) /\ RowBytes \in Seq(Bytes)
      BY <1>1, <1>2
    <3>2. Len(out.body) = row * s /\ Len(RowBytes) = s
      BY <1>2, <1>7
    <3>3. /\ out.body \o RowBytes \in Seq(Bytes)
          /\ Len(out.body \o RowBytes) = Len(out.body) + Len(RowBytes)
          /\ \A i \in 1..(Len(out.body) + Len(RowBytes)) :
               (out.body \o RowBytes)[i] =
                 IF i <= Len(out.body) THEN out.body[i] ELSE RowBytes[i - Len(out.body)]
      BY <3>1, ConcatProperties
    <3> QED BY <3>2, <3>3, Zenon
  <2>2. ASSUME NEW i \in 1..(row * s) PROVE out'.body[i] = out.body[i]
    BY <2>1, <1>3, <1>5, <1>6
  <2>3. ASSUME NEW i \in 1..s PROVE out'.body[row * s + i] = RowBytes[i]
    <3>1. row * s + i \in 1..(row * s + s) /\ ~(row * s + i <= row * s)
          /\ (row * s + i) - row * s = i
      BY <1>3, <1>6
    <3> QED
      BY <2>1, <1>5, <3>1
  <2> QED
    BY <2>1, <2>2, <2>3, <1>5, <1>6
<1>9. out'.size = HeaderSize + row' * s
  BY <1>3, <1>5, <1>6, <1>7
<1>10. ASSUME NEW r \in 0..row, NEW c \in 0..(Height - 1), NEW k \in 1..PixelSize
       PROVE  out'.body[r * s + PixelSize * c + k] = FilePixel(given, Height - 1 - c, r)[k]
  <2>1. r \in Nat /\ c \in Nat /\ r * s \in Nat /\ PixelSize * c + k \in 1..s
    BY <1>3 DEF PixelSize
  <2>2. r * s + PixelSize * c + k = r * s + (PixelSize * c + k)
    BY <2>1 DEF PixelSize
  <2>3. CASE r = row
    BY <1>2, <1>8, <2>1, <2>2, <2>3
  <2>4. CASE r < row
    <3>1. s * r + s <= s * row
      BY <1>3, <2>1, <2>4, RowsInOrder
    <3>2. r * s + (PixelSize * c + k) \in 1..(row * s)
      <4>1. s * r = r * s /\ s * row = row * s
        BY <1>3, <2>1
      <4> QED
        BY <3>1, <4>1, <2>1, <1>3, <1>6
    <3>3. r \in 0..(row - 1)
      BY <1>3, <2>1, <2>4
    <3>4. out.body[r * s + PixelSize * c + k] = FilePixel(given, Height - 1 - c, r)[k]
      BY <1>1, <3>3 DEF RowsWritten, s
    <3> QED
      BY <1>8, <2>2, <3>2, <3>4
  <2> QED
    BY <2>1, <2>3, <2>4, <1>3
<1>11. 0..(row' - 1) = 0..row
  BY <1>3
<1>12. \A r \in 0..(row' - 1), c \in 0..(Height - 1), k \in 1..PixelSize :
          out'.body[r * s + PixelSize * c + k] = FilePixel(given, Height - 1 - c, r)[k]
  BY <1>10, <1>11
<1>13. \A r, c : FilePixel(given, r, c)' = FilePixel(given, r, c)
  BY DEF FilePixel, ByteAt
<1>14. s' = s
  BY <1>4 DEF s
<1>15. /\ DOMAIN out' = {"size", "head", "body"}
       /\ out'.head = bmp_gen_header(Height, Width)
  BY <1>1, <1>5 DEF RowsWritten
<1> QED
  BY <1>4, <1>8, <1>9, <1>12, <1>13, <1>15 DEF RowsWritten, s

\* A step of to_bmp that goes on, but for what it puts into the stream.
LEMMA WriteGoesOnKeepsPInv ==
  ASSUME NoWrap, IInv, PInv, pc \in Writing, pc' \in {"write_header", "write_row"},
         pc' = "write_row" => RowsWritten(row)' /\ row' <= Width',
         DOMAIN disk' = {"in", "out"},
         UNCHANGED <<env, given, mem, exit, read_status>>
  PROVE  PInv'
<1>1. exit = -1 /\ RowsTurned(Width)
  BY DEF PInv, Progress, Verdicts, Writing
<1>2. RowsTurned(Width)'
  BY <1>1 DEF RowsTurned, Width, Height, FilePixel
<1>3. Progress'
  BY <1>1, <1>2 DEF Progress, Rotating, Writing
<1>4. Verdicts'
  BY <1>1 DEF Verdicts, Reading
<1> QED
  BY <1>3, <1>4, VerdictStays DEF PInv

\* The end of write_file.
LEMMA WriteReturnsKeepsPInv ==
  ASSUME NoWrap, IInv, PInv, pc \in Writing, NEW st, WriteReturns(st),
         DOMAIN disk' = {"in", "out"},
         UNCHANGED <<env, given, read_status>>,
         st = "WRITE_OK" => RowsWritten(Width)' /\ disk'[output_path] = Kept(out', env.room)
  PROVE  PInv'
<1>1. pc' = "done" /\ exit' = IF st = "WRITE_OK" THEN 0 ELSE 1
  BY DEF WriteReturns
<1>2. exit' = 0 => disk'[output_path'] = Kept(out', env'.room)
  BY <1>1 DEF output_path
<1>3. Progress'
  BY <1>1, <1>2 DEF Progress, Rotating, Writing
<1>4. Verdicts'
  BY <1>1 DEF Verdicts, Reading, IInv, Files
<1> QED
  BY <1>3, <1>4, VerdictStays DEF PInv

LEMMA WriteKeepsPInv ==
  ASSUME NoWrap, IInv, PInv,
         OpenOutputFails \/ OpenOutput \/ WriteHeader \/ WriteRow \/ WriteDone
  PROVE  PInv'
<1>1. DOMAIN disk = {"in", "out"}
  BY DEF PInv, Verdicts
<1>2. Width \in Nat /\ Height \in Nat /\ row \in Nat /\ Stride(Height) \in Nat
      /\ HeaderSize \in Nat
  BY Sizes, BitmapAssumption
<1>3. CASE OpenOutputFails
  <2>1. pc \in Writing /\ WriteReturns("WRITE_INVALID_FILE")
        /\ UNCHANGED <<env, given, disk, read_status>>
    BY <1>3 DEF OpenOutputFails, Writing
  <2> QED
    BY <1>1, <2>1, WriteReturnsKeepsPInv
<1>4. CASE OpenOutput
  BY <1>1, <1>4, WriteGoesOnKeepsPInv DEF OpenOutput, Writing
<1>5. CASE WriteHeader
  <2>1. pc \in Writing /\ new_img.width = Height /\ new_img.height = Width
        /\ UNCHANGED <<env, given, read_status>>
    BY <1>5 DEF WriteHeader, Writing, IInv, Images, Holds, Width, Height
  <2>2. CASE pc' = "write_row" /\ row' = 0 /\ UNCHANGED <<disk, mem, exit>>
    <3>1. Width' = Width /\ Height' = Height
      BY <2>1 DEF Width, Height
    <3>2. out' = [size |-> HeaderSize, head |-> bmp_gen_header(Height, Width), body |-> <<>>]
      BY <1>5, <2>1 DEF WriteHeader
    <3>3. 0 * Stride(Height) = 0 /\ HeaderSize + 0 = HeaderSize
      BY <1>2
    <3>4. <<>> \in Seq(Bytes') /\ Len(<<>>) = 0
      BY EmptySeq
    <3>5. \A r \in 0..(0 - 1) : FALSE
      OBVIOUS
    <3>6. RowsWritten(row)'
      BY <2>2, <3>1, <3>2, <3>3, <3>4, <3>5 DEF RowsWritten
    <3> QED
      BY <1>1, <1>2, <2>1, <2>2, <3>1, <3>6, WriteGoesOnKeepsPInv
  <2>3. CASE /\ disk' = [disk EXCEPT ![output_path] = Kept(out', env.room)]
             /\ WriteReturns("WRITE_HEADER_FAILED")
    BY <1>1, <2>1, <2>3, WriteReturnsKeepsPInv
  <2> QED
    BY <1>5, <2>2, <2>3 DEF WriteHeader
<1>6. CASE WriteRow
  <2>1. pc = "write_row" /\ pc \in Writing /\ row < new_img.height /\ new_img.height = Width
        /\ UNCHANGED <<env, given>>
    BY <1>6 DEF WriteRow, Writing, IInv, Images, Holds, Width
  <2>2. WriteSources \subseteq Cells(new_img.data)
    BY <2>1, WriteInside
  <2>3. /\ out' = fwritten(out, RowBytes) /\ row' = row + 1
        /\ UNCHANGED <<disk, pc, mem, exit, read_status>>
    BY <1>6, <2>2 DEF WriteRow
  <2>4. RowsWritten(row)'
    BY <2>1, <2>3, RowAppended
  <2>5. row' <= Width'
    BY <1>2, <2>1, <2>3 DEF Width
  <2> QED
    BY <1>1, <2>1, <2>3, <2>4, <2>5, WriteGoesOnKeepsPInv
<1>7. CASE WriteDone
  <2>1. /\ pc = "write_row" /\ pc \in Writing /\ row = Width
        /\ disk' = [disk EXCEPT ![output_path] = Kept(out, env.room)]
        /\ WriteReturns("WRITE_OK")
        /\ UNCHANGED <<env, given, out, read_status>>
    BY <1>7 DEF WriteDone, Writing, IInv, Images, Holds, Width
  <2>2. RowsWritten(Width)
    BY <2>1 DEF PInv, Progress
  <2>3. RowsWritten(Width)'
    BY <2>1, <2>2 DEF RowsWritten, Width, Height, Bytes, FilePixel, ByteAt
  <2>4. output_path \in DOMAIN disk
    BY <1>1 DEF output_path
  <2>5. disk'[output_path] = Kept(out', env.room) /\ DOMAIN disk' = {"in", "out"}
    BY <1>1, <2>1, <2>4
  <2> QED
    BY <2>1, <2>3, <2>5, WriteReturnsKeepsPInv
<1> QED
  BY <1>3, <1>4, <1>5, <1>6, <1>7

-----------------------------------------------------------------------------
(* Always.                                                                 *)

LEMMA InitPInv == NoWrap /\ Init => PInv
<1> SUFFICES ASSUME Init PROVE PInv
  OBVIOUS
<1>1. Progress
  BY DEF Init, Progress, Rotating, Writing
<1>2. Verdicts
  BY DEF Init, Verdicts, Reading, Writing
<1>3. ReadVerdict
  BY DEF Init, ReadVerdict
<1> QED
  BY <1>1, <1>2, <1>3 DEF PInv

LEMMA StutterKeepsPInv == PInv /\ UNCHANGED vars => PInv'
<1> SUFFICES ASSUME PInv, UNCHANGED vars PROVE PInv'
  OBVIOUS
<1>1. UNCHANGED <<env, given, disk, pc, pos, row, img, new_img, mem, out, read_status, exit>>
  BY DEF vars
<1>2. Width' = Width /\ Height' = Height
  BY <1>1 DEF Width, Height
<1>3. Progress'
  BY <1>1, <1>2 DEF PInv, Progress, RowsRead, RowsTurned, RowsWritten, FilePixel, Bytes,
                    ByteAt, output_path
<1>4. Verdicts' /\ ReadVerdict'
  BY <1>1 DEF PInv, Verdicts, ReadVerdict, Readable
<1> QED
  BY <1>3, <1>4 DEF PInv

LEMMA NextKeepsPInv == NoWrap /\ IInv /\ PInv /\ [Next]_vars => PInv'
  BY OpenInputKeepsPInv, HeaderFailsKeepsPInv, ReadHeaderKeepsPInv, ReadRowKeepsPInv,
     ReadRowOutsideKeepsPInv, ReadDoneKeepsPInv, RotateCreateKeepsPInv,
     RotateRowKeepsPInv, RotateRowOutsideKeepsPInv, RotateDoneKeepsPInv,
     WriteKeepsPInv, StutterKeepsPInv
  DEF Next, Step, Stopped

LEMMA PictureInvariance == ASSUME NoWrap PROVE Spec => [](IInv /\ PInv)
<1>1. Init => IInv /\ PInv
  BY InitHolds, InitPInv
<1>2. (IInv /\ PInv) /\ [Next]_vars => (IInv /\ PInv)'
  BY NextHolds, NextKeepsPInv
<1> QED
  BY <1>1, <1>2, PTL DEF Spec

-----------------------------------------------------------------------------
(* The theorems.                                                           *)

\* from_bmp accepts exactly the files that hold every pixel their header
\* announces, for every file whose image fits into uint32_t.
THEOREM Verdict == ASSUME NoWrap PROVE Spec => []ReadVerdict
<1>1. IInv /\ PInv => ReadVerdict
  BY DEF PInv
<1> QED
  BY <1>1, PictureInvariance, PTL

\* The input is in no danger before all of it, turned, is in memory, also when
\* the output goes to the same file.
THEOREM PictureKept == ASSUME NoWrap PROVE Spec => []InputSafe
<1>1. ASSUME IInv, PInv PROVE InputSafe
  <2> SUFFICES ASSUME pc \notin Final, disk["in"] # given,
                      NEW r \in 0..(new_img.height - 1), NEW c \in 0..(new_img.width - 1)
               PROVE  LET i == target_index(new_img.width, r, c)
                      IN  /\ i \in Cells("new_img")
                          /\ mem["new_img"][i] = FilePixel(given, new_img.width - 1 - c, r)
    BY DEF InputSafe
  <2>1. pc \in Writing
    BY <1>1 DEF IInv, Shape, Files, Final, Reading, Rotating, Writing
  <2>2. new_img.width = Height /\ new_img.height = Width /\ RowsTurned(Width)
    BY <1>1, <2>1 DEF IInv, Images, Holds, PInv, Progress, Width, Height
  <2>3. Width \in Nat /\ Height \in Nat /\ Width > 0 /\ Height > 0
    BY <1>1, <2>2, Sizes
  <2>4. Cells("new_img") = 0..(Height * Width - 1)
    BY <1>1, <2>1, <2>3, Blocks DEF Cells
  <2>5. Height * r + c \in 0..(Height * Width - 1)
    BY <2>2, <2>3, IndexInRoom
  <2>6. mem["new_img"][Height * r + c] = FilePixel(given, Height - 1 - c, r)
    BY <2>2 DEF RowsTurned
  <2> QED
    BY <2>2, <2>4, <2>5, <2>6 DEF target_index
<1> QED
  BY <1>1, PictureInvariance, PTL

\* Files with the same bytes at two places have the same pixel there.
LEMMA SamePixel ==
  ASSUME NEW f, NEW g, NEW o \in Int, NEW p \in Int,
         \A k \in 1..PixelSize : PixelAt(f, o)[k] = PixelAt(g, p)[k]
  PROVE  PixelAt(f, o) = PixelAt(g, p)
<1>1. /\ PixelAt(f, o)[1] = PixelAt(g, p)[1]
      /\ PixelAt(f, o)[2] = PixelAt(g, p)[2]
      /\ PixelAt(f, o)[3] = PixelAt(g, p)[3]
  BY DEF PixelSize
<1> QED
  BY <1>1 DEF PixelAt

\* The header that to_bmp writes tells the size of the picture and of the file.
LEMMA HeaderTrue ==
  ASSUME NoWrap, SizesFit, IInv, Readable(given)
  PROVE  LET head == bmp_gen_header(Height, Width)
         IN  /\ head.biWidth = Height /\ head.biHeight = Width
             /\ head.bOffBits = HeaderSize
             /\ head.biSizeImage = Width * Stride(Height)
             /\ head.bfileSize = HeaderSize + Width * Stride(Height)
<1> DEFINE n == Width * Stride(Height)
<1>1. /\ Width \in Nat /\ Height \in Nat /\ Width < Word /\ Height < Word
      /\ Word \in Nat /\ Stride(Height) \in Nat /\ HeaderSize \in Nat
      /\ Stride(Height) = Height * PixelSize + bmp_calc_padding(Height)
  BY Sizes, RowLength, BitmapAssumption DEF PixelSize
<1>2. HeaderSize + n < Word
  BY DEF IInv, Shape, SizesFit, Width, Height
<1>3. n \in Nat
  BY <1>1
<1>4. bmp_calc_image_size(Height, Width) = n % Word
  BY <1>1 DEF bmp_calc_image_size
<1> HIDE DEF n
<1>5. n % Word = n /\ (n + HeaderSize) % Word = HeaderSize + n
  BY <1>1, <1>2, <1>3
<1>6. Height % Word = Height /\ Width % Word = Width
  BY <1>1
<1> QED
  BY <1>4, <1>5, <1>6 DEF bmp_gen_header, bmp_calc_file_size, n

\* When all rows have been written, the stream holds the picture, turned.
LEMMA Turned ==
  ASSUME NoWrap, SizesFit, IInv, Readable(given), RowsWritten(Width)
  PROVE  /\ IsRotationOf(out, given)
         /\ out.head.bfileSize = out.size
         /\ out.head.biSizeImage = out.size - out.head.bOffBits
<1> DEFINE s == Stride(Height)
<1>1. /\ Width \in Nat /\ Height \in Nat /\ s \in Nat /\ s >= PixelSize * Height
      /\ HeaderSize \in Nat
  BY Sizes, RowLength, BitmapAssumption
<1>2. /\ out.head.biWidth = Height /\ out.head.biHeight = Width
      /\ out.head.bOffBits = HeaderSize
      /\ out.head.biSizeImage = Width * s
      /\ out.head.bfileSize = HeaderSize + Width * s
      /\ out.size = HeaderSize + Width * s
  BY HeaderTrue DEF RowsWritten
<1>3. Width * s \in Nat
  BY <1>1
<1>4. Readable(out)
  <2>1. out.size >= HeaderSize
    BY <1>1, <1>2, <1>3
  <2>2. Width > 0 => (Width - 1) * s + s = Width * s /\ (Width - 1) * s \in Nat
    BY <1>1
  <2>3. Width > 0 => HeaderSize + (Width - 1) * s + PixelSize * Height <= out.size
    <3> DEFINE m == (Width - 1) * s
               n == Width * s
    <3>1. Width > 0 => m + s = n /\ m \in Nat
      BY <2>2
    <3>2. out.size = HeaderSize + n /\ PixelSize * Height \in Nat
      BY <1>1, <1>2 DEF PixelSize
    <3> HIDE DEF m, n
    <3>3. Width > 0 => HeaderSize + m + PixelSize * Height <= out.size
      BY <3>1, <3>2, <1>1
    <3> QED
      BY <3>3 DEF m
  <2> QED
    BY <2>1, <2>3, <1>2 DEF Readable
<1>5. ASSUME NEW r \in 0..(Width - 1), NEW c \in 0..(Height - 1)
      PROVE  FilePixel(out, r, c) = FilePixel(given, Height - 1 - c, r)
  <2> DEFINE o == HeaderSize + r * s + PixelSize * c
             p == given.head.bOffBits + (Height - 1 - c) * Stride(given.head.biWidth) + PixelSize * r
  <2>1. FilePixel(out, r, c) = PixelAt(out, o)
    BY <1>2 DEF FilePixel
  <2>2. FilePixel(given, Height - 1 - c, r) = PixelAt(given, p)
    BY DEF FilePixel
  <2>3. r * s \in Nat /\ r \in Nat /\ c \in Nat
    BY <1>1
  <2>4. o \in Nat /\ o >= HeaderSize
    BY <1>1, <2>3 DEF PixelSize
  <2>5. p \in Int
    BY <1>1, Sizes DEF PixelSize, Width
  <2>6. ASSUME NEW k \in 1..PixelSize PROVE PixelAt(out, o)[k] = PixelAt(given, p)[k]
    <3>1. k \in Int /\ k >= 1
      BY DEF PixelSize
    <3>2. ~(o + (k - 1) < HeaderSize) /\ (o + (k - 1)) - HeaderSize + 1 = r * s + PixelSize * c + k
      BY <3>1, <1>1, <2>3, <2>4 DEF PixelSize
    <3>3. PixelAt(out, o)[k] = ByteAt(out, o + (k - 1))
      BY <2>4, PixelBytes
    <3>4. ByteAt(out, o + (k - 1)) = out.body[r * s + PixelSize * c + k]
      BY <3>2 DEF ByteAt
    <3>5. out.body[r * s + PixelSize * c + k] = FilePixel(given, Height - 1 - c, r)[k]
      BY DEF RowsWritten
    <3> QED
      BY <3>3, <3>4, <3>5, <2>2
  <2> HIDE DEF o, p
  <2>7. PixelAt(out, o) = PixelAt(given, p)
    BY <2>4, <2>5, <2>6, SamePixel
  <2> QED
    BY <2>1, <2>2, <2>7
<1>6. IsRotationOf(out, given)
  BY <1>2, <1>4, <1>5 DEF IsRotationOf, Width, Height
<1>7. out.head.biSizeImage = out.size - out.head.bOffBits
  <2> DEFINE n == Width * s
  <2>1. n \in Nat /\ out.size = HeaderSize + n /\ out.head.biSizeImage = n
    BY <1>2, <1>3
  <2> HIDE DEF n
  <2> QED
    BY <1>1, <1>2, <2>1
<1> QED
  BY <1>2, <1>6, <1>7

\* A run that ends well on a device with room leaves the picture turned, with
\* a true header, whatever the picture, also where its input was.
THEOREM Saved == ASSUME NoWrap, SizesFit PROVE Spec => []RotationSaved
<1>1. ASSUME IInv, PInv PROVE RotationSaved
  <2> SUFFICES ASSUME exit = 0, out.size <= env.room
               PROVE  LET f == disk[output_path]
                      IN  /\ IsRotationOf(f, given)
                          /\ f.head.bfileSize = f.size
                          /\ f.head.biSizeImage = f.size - f.head.bOffBits
    BY DEF RotationSaved
  <2>1. RowsWritten(Width) /\ disk[output_path] = out
    BY <1>1 DEF PInv, Progress, Kept
  <2>2. Readable(given)
    <3>1. read_status = "READ_OK"
      BY <1>1 DEF PInv, Verdicts
    <3> QED
      BY <3>1, <1>1 DEF PInv, ReadVerdict
  <2> QED
    BY <1>1, <2>1, <2>2, Turned
<1> QED
  BY <1>1, PictureInvariance, PTL
===============================================================================
