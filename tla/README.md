# TLA+ models of se-itmo-c

Five small programs, each written in C, in NASM assembly or in both, share this
repository.  They do not call each other; two of them share code by copying (the
sepia filter reads and writes its files with the sources of the image rotation,
and the dictionary's `lib.asm` is a descendant of `lib.inc`).  This directory
models the state-changing core of all five, checks it with TLC on small instances
and proves the properties that matter most with TLAPS for every instance.

Contents: [the system](#the-system), [the models](#the-models),
[the runs](#the-runs), [bounds](#bounds), [fairness](#fairness),
[the proofs](#the-proofs), [what the code does that a comment denies](#where-code-and-comments-differ),
[what is not modelled](#what-is-not-modelled), [the plan](#the-plan).

## The system

### Memory allocator (`MemoryAllocator/src`)

State: a singly linked list of block headers (`next`, `capacity`, `is_free`) that
lies inside the regions obtained from `mmap`; one constant, `HEAP_START`, is the
address `heap_init` asks the kernel for and the address every `_malloc` starts
its search from.  Operations: `heap_init`, `_malloc` (search with merging; split
the block found; otherwise `grow_heap` and search once more), `_free` (mark, then
merge with the successors).  Actors: the client, which calls in any order; the
kernel, which decides where a region goes when the address asked for is taken,
or refuses; the rest of the process, which maps and unmaps pages of its own
between two calls and so decides whether the heap can grow in place.

Hard: sequences of splits, merges and growths that nobody wrote a test for;
regions that are not adjacent, or come to lie before the first one; `size_t`
arithmetic near `SIZE_MAX`; the end of the search loop.
Correct when: blocks tile the regions without overlap; the taken blocks are
exactly the client's and large enough; nothing the client holds is touched;
the list reaches every block and ends; the heap grows only when it has to, and
growing is enough; calls return; the client sees nothing but a heap.

`main.c` and `tests.c` are a client: five tests, one after the other, each of which
initialises a heap, allocates, checks, frees blocks picked at random and unmaps what
the heap began with.  State: the address space that one test leaves to the next, the
addresses handed out.  Hard: what stays mapped; a block freed twice, or absorbed by
the merge of an earlier call; a kernel that refuses.  Correct when: with memory to be
had, all five pass.

### Allocator unit tests (`MemoryAllocator/tester`, `MemoryAllocator/page_routines`)

Nine programs, a function of `mem.c` each: a test lays out blocks in a buffer,
replaces `map_pages` by a stub that counts and checks its calls, calls the function
and asserts what it returns and what it has made of the headers.  They cannot be
linked with `mem.c` as it stands: the functions are `static` there,
`BLOCK_MIN_CAPACITY` is private to it, and it has a `map_pages` of its own.  Correct
when: the assertions hold of the functions, with the stub in the place of `map_pages`.

### Image rotation (`ImageRotation/solution`)

`main` checks its arguments and calls `process`: `read_file` opens the input and
`from_bmp` reads header and rows; `image_rotate` makes a second image;
`write_file` opens the output and `to_bmp` writes header and rows.  State: two
files (or one, under two paths), two stdio streams, two heap blocks.  The
surroundings choose: the file, whether it can be opened and sought in, whether
`malloc` finds memory, the room on the output device, and when stdio flushes.

Hard: padding of rows; the index arithmetic of a rotation that is not square;
files cut short at any place; the output path naming the input; errors that
appear only when a buffer is flushed; `uint32_t` products; which image is freed
when.  Correct when: exactly the whole files are accepted; what is saved is the
rotation of what was read; a run that fails early changes nothing; no access
leaves its block; blocks and streams are released.

### Image comparer (`ImageRotation/tester`)

A test of the image rotation (`tester.cmake`) runs the program on an input and, if
it exits with 0, the comparer on its output and on the file expected: signature and
bit depth, width and height, then the pixels row by row, behind the header and without
the padding, a row in chunks of a buffer.  State: the position in each file, the row,
the bytes of it that are left.  Hard: the last chunk of a row; a file that ends before
the other; a padding formula that differs in form from the program's.
Correct when: equal are exactly the files with the same pixels, and a test passes
exactly when the program has turned the picture.

### Sepia filter (`SepiaFilterCAssembly/solution`)

`main` reads one image, times the assembly filter and then the C filter on it,
and saves both: two passes of `process` over paths that may be the same, the second
whatever became of the first.  The assembly works on four pixels (twelve bytes) an iteration:
it deals the bytes into three registers, computes in single precision, converts
with rounding to nearest, packs with saturation and collects the twelve bytes.
Hard: the order of the lanes, saturation on both sides, the remainder of four, a
loop that tests its count at its end, two kinds of rounding.
Correct when: each pixel is filtered from its own bytes into its own place, the
two outputs agree up to rounding, nothing behind the blocks is touched, and each pass
saves the picture it read, filtered once, or says that it did not.

### Dictionary (`DictionaryAssembly/src`)

Reads a line of stdin into a buffer of fixed size, looks it up in a linked list
that the macro `colon` lays out at assembly time, and prints the value or an
error.  State: the registers that survive an iteration, the buffer, the list.
Hard: the boundary of the buffer, the end of stdin inside every loop, a register
(`rdi`) that one function moves and another takes to be unmoved.
Correct when: the line is read as it stands or refused, the search stays inside
line and keys, what is printed is a value of the dictionary.

### Input/output library (`IOLibAssembly/lib.inc`)

Functions for strings, numbers and words, called by the programs that `test.py`
assembles.  Hard: registers as wide as numbers are, with no overflow check; the
number without a negation; boundaries of the buffers; the state (stdin, buffer,
`r13`) that one call of `read_word` leaves to the next.
Correct when: numbers are printed and parsed as numbers, copies are complete or
refused, words are what stdin holds.

### The rest

The library's tests, scripts, build files and debug output; see
[what is not modelled](#what-is-not-modelled).

## The models

| module | models | checked by | proved in |
|---|---|---|---|
| `HeapSpec` | what a heap promises a client (abstract) | through `Mem` | through `MemProof` |
| `Mem` | `mem.c`, `mem_internals.h`, `util.h` | `MCMem` | `MemProof`, `SearchProof` |
| `MemTests` | `tester/*.c`, `page_routines_test.c`, `unix.c` on the functions of `Mem` | `MCMemTests` | `TestsProof` |
| `TestProgram` | `tests.c` and `main.c` as the client of `Mem` | `MCMemTests` | `TestsProof` |
| `Bitmap` | the pure arithmetic of `bmp.c`, `image.c`, `transformator.c` | through `Rotation` | `RotationProof` |
| `Rotation` | `main.c`, `processor.c`, `io_utils.c`, `bmp.c`, `image.c`, `transformator.c` | `MCRotation` | `RotationProof` |
| `Matcher` | `tester.cmake` and the comparer's `main.c`, `bmp.c`, `file_cmp.c`, after `Rotation` | `MCRotation` | `MatcherProof` |
| `Dictionary` | `main.asm`, `dict.asm`, `colon.inc`, `words.inc`, `lib.asm` as far as it is called | `MCDictionary` | `DictionaryProof` |
| `IOLib` | `lib.inc` and a client | `MCIOLib` | `IOLibProof` |
| `Sepia` | `transformator.c`, `transformator_asm.c`, `transformator_asm_impl.asm` | `MCSepia` | `SepiaProof` |
| `SepiaProgram` | the sepia filter's `main.c`, `processor.c`, and its readers and writers by their outcomes | `MCSepia` | `SepiaProof` |

Conventions.  All programs are sequential.  A step is one iteration of a loop,
or the straight-line code between two loops; `pc` names the loop.  Definitions
carry the names of the source wherever TLA+ allows it.  An operator marked
`mutant` is a plausible bug in the definition that follows it.  It is part of no
specification; put in place of that definition it must break a property, which
shows that the property depends on the code.  Undefined behaviour (an access
outside a block) ends a behaviour in a state of its own, `overrun`, `segfault`
or `fault`; the properties say when such states can be reached.

### Mem

`hdr` maps the address of each block header in memory to its three fields;
`regions` and `foreign` are the ranges mapped by the heap and by the rest of the
process; `heap` is what `heap_init` returned; `live` is what the client holds,
with the size it asked for; `pc`, `cur`, `query`, `grown` are the position of the
running call.

| action | code |
|---|---|
| `heap_init` | `heap_init`, with `alloc_region` and `block_init` |
| `_malloc` | the call: the search starts at `HEAP_START` |
| `FindMerge`, `FindNext` | one iteration of the inner and of the outer loop of `find_good_or_last` |
| `FindGood` | the block found is split if too big, marked and returned |
| `FindFails` | end of the list: grow, or after growing give up |
| `grow_heap`, `GrowFails` | `grow_heap` with `alloc_region`, the link and the merge |
| `_free`, `FreeMerge`, `FreeReturn` | `_free` up to its loop, an iteration, the end |
| `OthersMap`, `OthersUnmap` | the rest of the process |

`alloc_region` asks for an exact address first (`MAP_FIXED_NOREPLACE`) and lets
the kernel choose otherwise; `Placements` is the set of answers.  Where `mmap`
fails twice, `GrowFails`.  `size_t` sums wrap at `SizeModulus`.

`HeapSpec` knows an arena of bytes and the ranges granted from it: the arena
grows, a range inside it that meets no other is granted, a range is released.
`Mem!Implements` maps the arena to the union of the regions and the ranges to the
contents of the client's blocks.

### MemTests and TestProgram

Both extend `Mem` and run its actions; neither has an allocator of its own.

A unit test is a record: the function it calls and its argument, the list of blocks it
lays out, its stub, and what it asserts: the result, the number of calls of
`map_pages`, the headers afterwards.  `TestSearch`, `TestLoops`, `FindReturns`, `Takes`
and `Misses` are the search by the steps of `Mem`; `TestMerge`, `TestSplit` and
`TestFree` call one function; `TestRegion` and `Grows_by_stub` are `alloc_region` and
`grow_heap` with the stub where `Mem` asks the kernel.  `SearchTests` adds to the
tests of the repository the searches of every list of six blocks.

The program keeps the number of the test and where it is in it (`stage`), the
addresses it was given (`addrs`) and the tests that returned false (`failed`).
`TestInit` .. `heap_destroy` follow a test; `TestFrees` picks any block, as `rand()`
may.  The heap that a failed test leaves behind, and the region that `heap_destroy`
does not know of, stay mapped for the next test.

### Bitmap and Rotation

A file is its size, the fields of its header and the bytes behind it; the k-th
byte of an input's body is the number k, so that the output shows where each of
its bytes comes from.  `env` holds what the surroundings decide once, `mem` the
blocks, `out` what has been written to the stream and `disk` what is in the files:
only `fclose` (or a failed unbuffered header) moves bytes from the one to the
other, cut at the room of the device.  `OpenInput` .. `WriteDone` follow the calls
of `process`; `ReadRow`, `RotateRow`, `WriteRow` are one row each.  A row that is
not inside its block goes to `overrun`, one at `NULL` to `segfault` (or, for
`fread`, to an error of the kernel).

### Matcher

Composes `Rotation` with the comparer: when the program has exited with 0,
`MatcherOpens` takes the file that was expected, one of `Expectations` of the input;
`MatcherRejects` and `MatcherAccepts` are the headers, `file_cmp` one chunk of
`CMP_BUFFER_SIZE` bytes of both files, `NextRow` the seek over the padding.

### Dictionary

`Skip`, `LineChar`, `LineOverflows`, `LineEnds` are the loops of `read_line`;
`EqualsNext` is an iteration of `string_equals`, `EqualsDiffers` its failure with
the step of `find_word` to the next pair, `Found` and `NotFound` the ends.  `rdi`
is carried from comparison to comparison, as in the code.  The list is laid out by
`pair`: key, terminator, value, terminator; the last word defined is the first
searched.

### IOLib

The client's call puts arguments into registers and memory; then the loops run.
`call` remembers the arguments for the properties.  `read_word` may be called
again and again on the rest of stdin.  `rcx` stands for `r13` and for the distance
`rbx` has gone, which are the same number.

### Sepia

An image is its bytes.  Colours are computed in thousandths and exactly; where
the sum of the rounded products of the code can fall on either side of a boundary,
both outcomes are allowed: the nearest number and, in the middle between two
numbers, either; for the truncation of the C code a whole number may come out one
below.  All 2^24 colours were compared with these sets of outcomes.

`SepiaProgram` is the program around the filters: a picture is the sequence of filters
that made it, a file is whole or cut in the header or in the pixels, and `argv` may
name one path for several files.  A step is a read, a filter or a write of one pass;
`NullImage` is the fault at a block that `malloc` refused.  What the filters compute
is in `Sepia`, how rows are read and written in `Rotation`.

## The runs

Passing runs; every action and every disjunct of every next-state relation fires
in one of them.

**mem_safety** (`MCMem`, 330 000 states): every interleaving of calls, growths and
foreign mappings.

- `BlocksApart`, `RegionsTiled`: no two blocks share a byte; together they cover
  the regions exactly, after every split, merge and growth, also when a region had
  to go elsewhere.
- `LiveIntact`, `LiveStable`: the taken blocks are the client's, large enough; no
  step moves, resizes, frees or writes a header into one of them.
- `ListComplete`: the list from `HEAP_START` visits every block and ends.
- `NoNeedlessGrowth`: when the heap is about to grow, no stretch of free memory
  inside a region would have done, however it was fragmented before: the search's
  merges were complete.  Free memory across two regions side by side is merged only
  when the list goes from one to the other, and the property says nothing of it.
- `GrowsAtARegionEnd`, `GrowthSuffices`: the address asked for is a page boundary
  at the end of a region, which the code assumes without a test; the search
  after a growth finds its block, unless the size wrapped.
- `CallReturns`: a call ends.
- `Implements`: the whole is a `HeapSpec`.

**mem_tests** (`MCMemTests`, 15 000 states): the allocator with the sizes it has in
the code; a behaviour is one unit test, one search, or one run of the test program.

- `AssertionsHold`: every unit test passes but those that need memory from
  `platform_map_pages` (`PlatformTests`), and those fail; see
  [below](#where-code-and-comments-differ).
- `FirstFit`: a search answers with the first stretch of adjoining free blocks that has
  room, or with the last block, whatever it merged before it came there: computed
  from the list as it was before the search.
- `TestsPass`: the five tests pass, in their order, on what the tests before left
  mapped, whichever blocks they free.  The hypothesis names what they need: no page of
  another mapping in the heap's way (test 4 demands a block of exactly its size, which
  it gets only if the heap grows in place) and a kernel that does not refuse (each
  test reads the capacity of the heap before it looks whether there is one).

**rotation** (`MCRotation`, 50 000 states): whole, truncated and padded files of nine
shapes with the pixels at three offsets, every combination of surroundings, and then
the comparer on the output and on each of thirteen files that a test may expect: the
picture turned; another signature, depth or size; cut in the header, in the last pixel
or in the padding; a byte of pixels or of padding changed; pixels behind a gap; none.

- `InBounds`: nothing outside a block, nothing freed, is touched, as long as the number
  of pixels fits into `uint32_t`; what happens when it does not is `rotation_wide`'s
  matter.
- `ReadVerdict`: accepted are exactly the files that hold every pixel their header
  announces; the padding of the last row may be missing.
- `RotationSaved`: a run that ends well with room on the device
  leaves a readable file whose pixels are the input's, turned, and whose header
  tells its size; also when it has overwritten its input.
- `InputSafe`: in every state the picture is on disk or, turned, in memory.
- `BadInputChangesNothing`: after a failed read both files are as they were.
- `Released`: every way through the program but one frees and closes everything.
- `VerdictRight`: equal are exactly two bitmaps of one size whose pixels, taken from
  behind the header, are the same bytes, or missing in both; however the buffer
  divides the rows.
- `TestVerdict`: against a whole picture with its pixels right behind the header, a
  test passes exactly when the program has left a whole picture and the one expected
  is the input turned.

**dictionary** (`MCDictionary`): every stdin of up to five characters, the words of
`words.inc` and a dictionary whose keys overlap.

- `LineRead`: what is searched for is the first line behind the blanks; it is
  refused exactly when it does not fit with its terminator.
- `CursorsInside`: the comparison passes the terminator of neither string, although
  it may start in the middle of the line.
- `AnswerFromDictionary`, `KeyFound`: what is printed is the value of a pair whose
  key the line ends with; a key with a first character of its own is found.
- `Halts`.

**iolib** (`MCIOLib`, 56 000 states): every pattern of an 8-bit register, every
string of up to four characters over `-`, `0`, `7`, `a`, every stdin of up to five.

- `PrintedText`: the decimal notation with its sign, for -128 too; a string whole.
- `ParsedValue`: the number of the leading digits modulo the register, its length, 0
  without digits; a sign without digits is excepted, where the code and its comment
  disagree.
- `CopyVerdict`, `EqualsVerdict`: counted; copied whole or refused; equal or not, prefixes
  included.
- `WordRead`: call after call, the next word of stdin by the separators that the
  code knows, terminated, and nothing of stdin lost behind it.

**sepia** (`MCSepia`, 87 000 states): images of up to nine pixels; or the program
with every choice of paths, devices and input file.

- `InBounds`: an image of four pixels or more is not left, whatever remains modulo four;
  of smaller ones, which the code does leave, nothing is said.
- `AsmFilters`: pixel by pixel the nearest byte, in its own place, as far as the
  loop has come; the last pixels are left alone.
- `OutputsAgree`: the two filters differ by at most 1 where the assembly writes.
- `OutputsSaved`: a pass with a time has saved the picture it found, filtered once
  more, unless the second pass wrote over it; a pass without a time has saved none;
  only the images of cut files stay in memory.

Runs that must find a violation, each of one sentence of the repository:
**mem_usable**, **rotation_full**, **rotation_wide**, **dictionary_find**,
**iolib_newline**, **sepia_leftover**; see
[below](#where-code-and-comments-differ).

## Bounds

- *Mem.* Pages of 8 bytes, regions of at least 16, headers of 2, contents of at
  least 4, addresses up to 56, `HEAP_START` at 24.  There is room for two regions
  and a foreign page, before, next to and apart from the first region, so a growth
  can extend, jump over, go below, or fail.  The queries are 1 (below the minimum),
  8 (leaves exactly the smallest second block), 15 (fits a region only if the header is
  counted) and 125 (wraps when rounded to pages with `SizeModulus` 128).  Nothing
  else depends on the sizes; the proofs lift them.
- *MemTests, TestProgram.* The sizes of the code; addresses up to 24 pages, which hold
  the test program's heap, its growth of three times that, and as much elsewhere.  A
  foreign page may lie at `HEAP_START` or right behind the first heap.  Searches for a
  byte less and a byte more than one, two and four adjoining blocks hold.
- *Rotation.* Shapes with a zero side, 1x1, and rows with paddings 0, 1, 2 and 3, in
  both orientations; lengths one byte short of the last pixel, without the last
  padding, exact, and longer; room 0, 10 (the header of 6 and some pixels) and
  enough; `Word` 128, so that nothing wraps, but 4 in `rotation_wide`.  The comparer's buffer
  has 4 bytes: rows of 0, 3, 6, 9 and 12 bytes end in no chunk, a short one after
  none, one or two full ones, and a full one.
- *Dictionary.* A buffer of 4 bytes and five characters of stdin: blanks, a line
  that fits, exactly fits, does not fit, and what follows it; NUL within stdin up
  to four characters.
- *IOLib.* `Word` 256: the exhaustive set of patterns, and numbers of four digits,
  which overflow.  Buffers of 1 and 3 bytes.
- *Sepia.* Two whole quads and leftovers of 0 to 3 pixels; nine colours that reach
  both ends of saturation and the middle between two numbers.

## Fairness

Weak fairness of the program's own steps, and nothing else: `Allocator` in `Mem` for
`CallReturns`, `Step` in `Dictionary` for `Halts`.  The loops of the other programs
are bounded by counters that every step moves.  The code justifies it: nothing in
it waits for another actor, a sequential program that can take a step takes it,
and `mmap`, `fread`, `fwrite` and `malloc` return.  The client, the kernel's choices
and the rest of the process have no fairness.  stdin is finite and its end answers
every further read; a terminal that never answers is left out.

## The proofs

TLAPS checks every proof to its last leaf; the constants have only the assumptions
the modules name.  Each argument is an inductive invariant: the property alone
says too little about the steps that lead to it.

**MemProof** (any page size, header size, minimal capacity, address space, client
and kernel).  `IInv` adds to the types, `RegionsTiled` and `LiveIntact` that the
headers are `WellFormed`: capacities of at least the minimum, blocks disjoint, and
the list `Linked` (no two blocks have the same successor, none leads back to
`HEAP_START`); and where `cur` may be.  `Linked` is needed for the merge: only
because no other header points to the absorbed block does dropping it leave no
dangling link.  The lemmas say of `merge_with_next`, `split`, `block_init` and the
marking what they do to a well-formed map and to the bytes it occupies; each
action then follows from one or two of them.

- `Typed`, `Apartness`, `Tiling`, `Ownership`: the invariants, always.
- `Stability`: `LiveStable`, from `IInv` in the old and the new state.
- `Refinement`: every step of `Mem` is a step of `HeapSpec` or stutters:
  `FindGood` grants, `_free` releases, `heap_init` and `grow_heap` extend; merges,
  splits and moves change neither the arena nor what is owned.

**SearchProof** (the same constants) goes on from `IInv` with `SInv`.  `Threaded`: the
list reaches every block, one block ends it, it follows the addresses inside a
region, and it ends where a region does.  That it reaches every block is said of
sets, a set that holds `HEAP_START` and the successors of its members holds every
block, and needs no induction along the list.  `Searching`: the blocks the search
has left behind are a set closed under `next` up to `cur`, and none of them is good
or can be merged; so at the end of the list no stretch of free memory inside a region is good, and
`Rewarded`: once the heap has grown, the good block is still ahead.
`PagesAssumption`, that `REGION_MIN_SIZE` and the number of values of `size_t` are whole
pages, is what `mem_internals.h:8` (8192 bytes) gives where a page has 4096 or 8192
bytes; machines with larger pages are left out.

- `Completeness`, `NeededGrowth`, `AlignedGrowth`, `SufficientGrowth`: `ListComplete`,
  `NoNeedlessGrowth`, `GrowsAtARegionEnd`, `GrowthSuffices`.
- `Progress`: every iteration of the loops makes the number of blocks plus the number
  of blocks ahead of the search smaller, and a call grows the heap at most once.
  `CallReturns` follows from it with fairness, which only TLC checks.

**TestsProof** is about the tests of the allocator.

- `Fitting`: `FirstFit` for `SearchSpec`, the unit test of `find_good_or_last` on any
  list of blocks of any sizes at any addresses, not only on those that `SearchTests`
  enumerates.  `Reached` compares the headers with the list as it was laid out: the
  search stands at the head of a stretch, has merged it up to some block, no stretch
  before it has room, and the rest is untouched.  The query is at least
  `BLOCK_MIN_CAPACITY`, as `try_memalloc_existing` sees to.
- `ProgramPasses`: `TestsPass` for `ProgramSpec`, the test program in any address space,
  whichever blocks test 3 frees.  `ProgramInv` says what the heap is at each stage
  of each test, block by block, and that between two tests only the region is left that
  the fourth test had its heap grow by.  The hypothesis `Ample` relates the sizes:
  what the tests ask for fits into the first heap where they rely on it, and does not
  where they want it to grow, and no size wraps; the 8192 bytes of a region, the
  header of 17 and the 24 bytes of a smallest block satisfy it.  `TestsPass` itself
  names what else they need, as said [above](#the-runs).
- `UnitTestsPass`: `AssertionsHold` for `UnitSpec`, any one unit test.  First what the
  sizes make of each test (`EveryTest`): the tests of one function have assertions that
  follow from the list they lay out (`Passing`); those in `PlatformTests`, and no other,
  ask for memory that they do not get (`RegionWrong`).  To that end the blocks of a test
  are put in the order of their addresses (`Orderly`), and it is said of each list which
  block the search ends at (`Leads`), which are merged and where a block is cut
  (`CutAt`).  Then the steps: `UnitInv` follows the one call of a test through
  `_free` (`Freeing`), `grow_heap` (`Extending`) and `memalloc`, whose search
  (`Seeking`, the `Reached` of `Fitting`), growth (`Lacking`) and search again
  (`Retrying`) are steps of their own.  The hypothesis `Handy` is what the tests
  were written for: two headers and a smallest block of 10 bytes or more fit into 128
  bytes, a header into a page, 1024 bytes into a region, and a region with two pages
  more does not wrap.  The 17, 24, 4096 and 8192 bytes of the code satisfy it.

**RotationProof** (any files, header size, device, environment).  `IInv` says which
blocks and streams exist at each `pc` (`Ledger`), that a block has a cell for every
pixel of its image (`Images`), and what is on disk (`Files`).  A block is that large
only if the number of pixels does not wrap; `NoWrap`, that every input's does not,
is the hypothesis of `Bounds`, `NothingSpoiled` and `AllReleased`, and
`rotation_wide` shows that it is needed; `Typed` does without it.  `PaddingFillsRow`:
the rows `bmp.c` writes are the least whole number of words, and the tester's
`width % 4` is the same number.  `NoPixelTwice`: the rotation uses no pixel twice.

`PInv` adds what the rows have come to: `img` holds the pixels of the
rows read, `img2` those of the rows turned, the stream those of the rows written,
each where it belongs, and what a status that has been returned says of the file.

- `Verdict`, `PictureKept`: `ReadVerdict` and `InputSafe`, under `NoWrap`.
- `Saved`: `RotationSaved`, under `NoWrap` and `SizesFit`: the size of the turned
  picture must fit into the `uint32_t` of its header, which the code computes modulo
  2^32.

**MatcherProof** (any buffer, any file expected).  `MInv`: the rows before `i_row`, and
of this one the bytes before the last `sz`, are equal in both files; what a verdict
already given justifies.  `Whole` joins it with the invariants of the transformer,
which the comparer does not disturb.  The hypotheses are those of `Saved`.

- `Matches`: `VerdictRight`, however the buffer divides the rows.
- `TestsRight`: `TestVerdict`; from `PInv`, what the transformer has left, and
  `Matches`.

**DictionaryProof** (any buffer size, dictionary, stdin).  While the line is read, the
pointer is where the counter says and a byte is left for the terminator; in the
search `rdi <= count` and the terminator lies at `count`, which an unequal or
non-final character keeps.  `LInv` adds what has been taken of stdin and what is left
(`RestLeft`), that the buffer holds the line from its first character on, that the
characters compared are the end of the part of the line passed (`Matching`), and
that a key that nothing shadows is still ahead with `rdi` at the start (`Aimed`).

- `BufferKept`, `SearchInside`: the types, and the search inside line and keys.
- `LineHeldWhole`, `Answers`, `Finds`: `LineRead`, `AnswerFromDictionary`, `KeyFound`.
- `Progress`: each iteration uses up stdin, the buffer, the pairs or the line.  `Halts`
  follows from it with fairness, which only TLC checks.

**IOLibProof** (any width of a register, strings, buffers, stdin).  `IInv` says what
each loop has done: counted a prefix, copied a prefix, found a prefix equal, kept
room for the terminator.  `WInv` adds what `read_word` has taken of stdin.  `NInv`
adds, for the digits, that those printed and those of the rest of the number are its
notation, and that those parsed denote what the register holds, modulo its width.

Notations and words are recursive functions and `CHOOSE`s.  That such a function
exists, or what it is of a longer prefix, would be an induction over the number or the
string.  It is replaced by the least element of the set of counterexamples
(`Least`, from the well-foundedness of the naturals, needs no operator as a
parameter).

- `Invariant`, `Typed` (nothing outside the buffer is written), `CopyRight`,
  `EqualsRight`.
- `Words`: `WordRead`; `Prints`: `PrintedText`; `Parses`: `ParsedValue`.

**SepiaProof** (any image).  `Counting`: the iterations left end with the last whole
four pixels.  `Typed`, `Bounds`, and `Filters`, which follows each of the twelve bytes
of an iteration through dealing, tones, rounding, saturation and packing.
`Agreement`: `OutputsAgree`, from `Filters` and the same of the C filter: one rounds
and the other truncates the same sum, and saturation does not part them further.
`Outputs`: `OutputsSaved` of the program (`ProgramSpec`), from what is in each file and
in each image at each stage of the two passes, for any choice of paths and devices.

Only model-checked: the liveness properties `CallReturns` and `Halts`, which are out of
the prover's reach (their safety part, that no loop runs without end, is `Progress`).
Every other property of a passing run is stated by a theorem.

## Where code and comments differ

Each with a run:

- **mem_usable** - `_malloc` starts at `HEAP_START` (`mem.c:230`) although
  `heap_init` may have obtained the heap elsewhere; README.md:52 of the allocator
  gives the heap by the reference to its first block.
- **rotation_full** - no result of `fwrite` for pixels, nor of `fclose`, is looked
  at (`bmp.c:126`); `io_utils.h:25` has a status for it.
- **rotation_wide** - `image_create` multiplies in `uint32_t` (`image.c:9`);
  `image.h:15` promises memory for width x height pixels.
- **dictionary_find** - `find_word` does not restore `rdi` (`dict.asm:19`), so a
  line that is no key may be found, and a key may be missed; `dict.asm:8-11`.
- **iolib_newline** - `'\n'` is two characters in NASM (`lib.inc:177`); a line feed
  does not end a word, against `lib.inc:144`.
- **sepia_leftover** - the last one to three pixels are never written
  (`transformator_asm.c:9`); `transformator_asm.h:10` speaks of a filtered copy.

Seen while modelling, without a run:

- The dictionary's `main` puts its exit status into `rax`; `exit` takes `rdi`, which
  holds the last descriptor printed to.  The process exits with 1 after success and
  2 after failure (`main.asm:49`, `56`, `62`); `Found` and `Fails` say so.
- `from_bmp` never compares the signature; `READ_INVALID_SIGNATURE` is returned for
  a failed `fseek` only (action `HeaderFails`).
- After a short read `process` returns before the image is destroyed
  (`processor.c:14-17`), while `processor.h:24` lists cleaning memory among the steps;
  `Released` leaves this path out.
- `platform_map_pages` leaves out `MAP_ANONYMOUS` (`unix.c:8`) and passes -1 for a file,
  which `mmap` refuses: no unit test that maps real memory can pass (`PlatformTests`).
  The unit tests cannot be linked with this `mem.c` at all, see above.
- The break of test 5 (`tests.c:165`) lacks `MAP_ANONYMOUS`, too, and maps nothing; it
  would have zeroed the heap's first header.  The test passes because it asserts no
  more than that a block apart from the first one was taken, which it is when the
  heap grows.
- The tests of the allocator read `heap->capacity` before they compare `heap` with
  NULL (`tests.c:32-34`): a heap that the kernel refuses is a fault, not a failed test
  (`TestInitFails`).
- Test 4 fails when the page behind its heap is taken: the new region is larger than
  what it asks for then, by less than a second block (`tests.c:142`).
- The comparer takes the pixels from behind the header whatever `bOffBits` says, and
  calls two files equal that are cut at the same place.
- The sepia program exits with 0 whatever failed.  With one path for the input and the
  assembly's output, the C filter works on the filtered picture (`FoundBy`).
- `read_word` never clears `r13` (`lib.inc:182`); it relies on the client for a 0.
- `print_newline` of `lib.inc` writes a backslash, for the reason above.
- `parse_int` of `-` without digits behind it answers 0 with the length 1, where
  `lib.inc:249` and `lib.inc:254-255` have `rdx = 0` for a number that could not be
  read; `ParsedValue` excepts this case.
- `read_word` into a buffer of size 0 writes its terminator, or the word, behind it: the
  count is compared after its first increment (`lib.inc:182-184`), and `.end` compares
  nothing.  `Sizes` leaves 0 out for it, and `string_copy` refuses a string then.
- The comment at `transformator_asm_impl.asm:102` has the red lanes in another order than
  line 96 and the code, which deals all three colours alike.
- The assembly filter runs behind the blocks of an image of less than four pixels
  (`AsmOutside`; `InBounds` excepts these images).

## What is not modelled

- Debug output (`mem_debug.c`, `util.c`) prints and changes nothing.
- Of the page routines, the log of the calls, `unmap_pages`, whose result no test looks
  at, and the Windows variant.
- The comparer's `image.h` and `dimensions.h`, whose functions nothing calls or
  defines; the wording of its messages.
- The time that the sepia program measures, and the bits of single-precision numbers.
- System calls of the library that fail or write less than they were given.
- `argc`, usage messages, `test.py`, shell scripts, Makefiles, CMake but for the two
  commands of `tester.cmake`.
- Concurrent callers: none of the programs starts a thread or installs a handler.

## The plan

Done: `HeapSpec`, `Mem`, `MemProof`, then `Bitmap`, `Rotation`, `RotationProof`,
then `Dictionary`, `IOLib`, `Sepia` and their proofs, in this order, by what is
hardest to test; then the clients and tests around them: `MemTests`, `TestProgram`,
`Matcher`, `SepiaProgram`.

The proofs followed in the order of the properties they settle: `MemProof`,
`RotationProof`, `DictionaryProof`, `IOLibProof`, `SepiaProof`; then `SearchProof`,
the pictures and `MatcherProof`, what the words, numbers, lines and outputs are, and
last `TestsProof`.

To come: a client of `read_word` that does not clear `r13`
(`lib.inc:182`), the one hazard without a property.
