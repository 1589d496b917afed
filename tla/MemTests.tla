------------------------------- MODULE MemTests -------------------------------
(***************************************************************************)
(* The allocator's unit tests, MemoryAllocator/tester: each lays out a few *)
(* blocks, replaces map_pages by a stub, calls one function of mem.c and   *)
(* asserts what it returned and what the headers have become.              *)
(*                                                                         *)
(* A unit test is a record of these things; the function under test runs   *)
(* by the steps of Mem, with alloc_region calling the stub where Mem asks  *)
(* the kernel.  The functions are static in mem.c and take their heap by a *)
(* parameter: the tests' buffers lie at HEAP_START here.                   *)
(***************************************************************************)
EXTENDS Mem, Sequences

VARIABLES
  unit,      \* the test that runs
  phase,     \* "ready", "running" or "over"
  result,    \* what the function under test has returned
  calls,     \* test_mmap_counter, the calls of map_pages
  stub_ok    \* have the assertions in the stub held?

unit_vars == <<unit, phase, result, calls, stub_ok>>

-----------------------------------------------------------------------------
(* Layouts.  A layout is the list of the blocks in the order they are      *)
(* linked: where each starts in the buffer, its size, is it free?          *)

Free(at, size) == [at |-> HEAP_START + at, size |-> size, is_free |-> TRUE]
Dirty(at, size) == [at |-> HEAP_START + at, size |-> size, is_free |-> FALSE]

\* The headers that block_init, the links and the marks of a test leave.
Laid(list) ==
  [a \in {list[i].at : i \in DOMAIN list} |->
     LET i == CHOOSE k \in DOMAIN list : list[k].at = a
     IN  [next     |-> IF i < Len(list) THEN list[i + 1].at ELSE NULL,
          capacity |-> list[i].size - HeaderSize,
          is_free  |-> list[i].is_free]]

\* n blocks of one size, some of them dirty, some with a gap behind them.
Spread(n, size, dirty, gaps) ==
  [i \in 1..n |->
     LET at == size * (i - 1 + Cardinality({g \in gaps : g < i}))
     IN  IF i \in dirty THEN Dirty(at, size) ELSE Free(at, size)]

Row(n, size, dirty) == Spread(n, size, dirty, {})

\* Eight blocks of 1024 / 8 of which the second and the seventh are dirty,
\* and what a search for more than one of them makes of it.
TwoDirty == Row(8, 128, {2, 7})
TwoDirtyMerged ==
  <<Free(0, 128), Dirty(128, 128), Free(256, 512), Dirty(768, 128), Free(896, 128)>>

\* The same with the last block dirty instead of the seventh.
LastDirty == Row(8, 128, {2, 8})
LastDirtyMerged ==
  <<Free(0, 128), Dirty(128, 128), Free(256, 640), Dirty(896, 128)>>
LastDirtySplit ==
  <<Free(0, 128), Dirty(128, 128), Dirty(256, 512 + HeaderSize),
    Free(768 + HeaderSize, 128 - HeaderSize), Dirty(896, 128)>>

-----------------------------------------------------------------------------
(* Stubs.  A stub answers the call with PAGE_FIXED and the one with        *)
(* PAGE_ANYWHERE, and asserts the address and the length it is asked for.  *)

FAILURE == -1        \* MAP_PAGES_FAILURE
Unasked == -2        \* the stub does not look, or the test does not count

Stub(fixed, anywhere, addr, length) ==
  [fixed |-> fixed, anywhere |-> anywhere, addr |-> addr, length |-> length]

NoStub == Stub(FAILURE, FAILURE, Unasked, Unasked)

mmap_failed(at, length) == Stub(FAILURE, FAILURE, HEAP_START + at, length)

\* The buffer another stub answers with, and the stub of memalloc.c.
mmap_buffer == HEAP_START + 40000
mmap_fixed_failed(at) ==
  Stub(FAILURE, mmap_buffer, HEAP_START + at, RegionMinSize)

\* platform_map_pages of unix.c leaves out MAP_ANONYMOUS, which mmap does not
\* take with a file descriptor of -1.
mmap(flags, addr) == IF "MAP_ANONYMOUS" \in flags THEN addr ELSE FAILURE

platform_map_pages(addr, location) ==
  mmap({"MAP_PRIVATE"} \cup (IF location = "PAGE_FIXED" THEN {"MAP_FIXED_NOREPLACE"} ELSE {}),
       addr)

optimistic_case_stub ==
  Stub(platform_map_pages(HEAP_START, "PAGE_FIXED"),
       platform_map_pages(HEAP_START, "PAGE_ANYWHERE"), HEAP_START, Unasked)

\* Away from HEAP_START.
map_fixed_failed_stub ==
  Stub(FAILURE, platform_map_pages(mmap_buffer, "PAGE_ANYWHERE"), HEAP_START, Unasked)

query_is_min_region_size_stub ==
  [optimistic_case_stub EXCEPT !.length = RegionMinSize + PageSize]

-----------------------------------------------------------------------------
(* A test: the function it calls with an argument on a list, the stub, the *)
(* type and block, pointer or verdict it expects to be returned, the calls *)
(* of map_pages it expects and the headers it asserts.                     *)

Test(does, arg, list, stub, expects, counts, after) ==
  [does |-> does, arg |-> arg, list |-> list, given |-> Laid(list), stub |-> stub,
   expects |-> expects, counts |-> counts, after |-> after]

Found(at) == <<"BSR_FOUND_GOOD_BLOCK", HEAP_START + at>>
NotFound(at) == <<"BSR_REACHED_END_NOT_FOUND", HEAP_START + at>>
Pointer(p) == <<"pointer", p>>
Verdict(b) == <<"bool", IF b THEN 1 ELSE 0>>
Void == <<"void", NULL>>

Finds(q, list, expects, after) ==
  Test("find_good_or_last", q, list, NoStub, expects, Unasked, Laid(after))

single_block_is_good == Finds(512, <<Free(0, 1024)>>, Found(0), <<Free(0, 1024)>>)
single_block_is_dirty == Finds(512, <<Dirty(0, 1024)>>, NotFound(0), <<Dirty(0, 1024)>>)
single_block_is_small == Finds(512, <<Free(0, 256)>>, NotFound(0), <<Free(0, 256)>>)
multiple_blocks_fail == Finds(512, TwoDirty, NotFound(896), TwoDirtyMerged)
multiple_blocks_success == Finds(512, LastDirty, Found(256), LastDirtyMerged)

Merges(list, expects, after) ==
  Test("try_merge_with_next", 0, list, NoStub, Verdict(expects), Unasked, Laid(after))

merge_next_is_null == Merges(<<Free(0, 512)>>, FALSE, <<Free(0, 512)>>)
merge_next_is_not_continuous ==
  LET l == <<Free(0, 128), Free(384, 128)>> IN Merges(l, FALSE, l)
merge_block_is_dirty ==
  LET l == <<Dirty(0, 256), Free(256, 256)>> IN Merges(l, FALSE, l)
merge_next_block_is_dirty ==
  LET l == <<Free(0, 256), Dirty(256, 256)>> IN Merges(l, FALSE, l)
both_blocks_are_dirty ==
  LET l == <<Dirty(0, 256), Dirty(256, 256)>> IN Merges(l, FALSE, l)
\* The block behind the next one has no header: 0x1488.
merge_success ==
  [Merges(<<Free(0, 256), Free(256, 128)>>, TRUE, <<Free(0, 384)>>)
     EXCEPT !.given[HEAP_START + 256].next = 5256, !.after[HEAP_START].next = 5256]

Splits(q, list, expects, after) ==
  Test("split_if_too_big", q, list, NoStub, Verdict(expects), Unasked, Laid(after))

SMALL_BLOCK_SIZE == BlockMinCapacity + HeaderSize \div 2

not_free ==
  Splits(512 - SMALL_BLOCK_SIZE - HeaderSize, <<Dirty(0, 512)>>, FALSE, <<Dirty(0, 512)>>)
not_big_enough == Splits(512 - SMALL_BLOCK_SIZE, <<Free(0, 512)>>, FALSE, <<Free(0, 512)>>)
not_big_enough_for_min_capacity ==
  Splits(512 - SMALL_BLOCK_SIZE - HeaderSize, <<Free(0, 512)>>, FALSE, <<Free(0, 512)>>)
split_success ==
  LET first == HeaderSize + BlockMinCapacity
  IN  Splits(BlockMinCapacity, <<Free(0, 512)>>, TRUE,
             <<Free(0, first), Free(first, 512 - first)>>)

Frees(list, after) == Test("_free", HEAP_START, list, NoStub, Void, Unasked, Laid(after))

free_null == [Frees(<<>>, <<>>) EXCEPT !.arg = NULL]
free_next_is_null == Frees(<<Dirty(0, 512)>>, <<Free(0, 512)>>)
free_next_is_not_continuous ==
  Frees(<<Dirty(0, 128), Free(384, 128)>>, <<Free(0, 128), Free(384, 128)>>)
free_next_block_is_dirty ==
  Frees(<<Dirty(0, 256), Dirty(256, 256)>>, <<Free(0, 256), Dirty(256, 256)>>)
free_merge == Frees(<<Dirty(0, 256), Free(256, 128)>>, <<Free(0, 384)>>)

Existing(q, list, expects, after) ==
  Test("try_memalloc_existing", q, list, NoStub, expects, Unasked, Laid(after))

try_memalloc_fail == Existing(512, TwoDirty, NotFound(896), TwoDirtyMerged)
try_memalloc_split == Existing(512, LastDirty, Found(256), LastDirtySplit)

Grows(list, stub, pointer, counts, after) ==
  Test("grow_heap", BlockMinCapacity, list, stub, Pointer(pointer), counts, Laid(after))

grow_mmap_failed ==
  Grows(<<Free(0, 1024)>>, mmap_failed(1024, RegionMinSize), NULL, 2, <<Free(0, 1024)>>)
grow_mmap_fixed_failed ==
  Grows(<<Free(0, 512)>>,
        Stub(FAILURE, HEAP_START + 1024, HEAP_START + 512, RegionMinSize),
        HEAP_START + 1024, 2, <<Free(0, 512), Free(1024, RegionMinSize)>>)
mmap_success ==
  Stub(HEAP_START + 1024, FAILURE, HEAP_START + 1024, RegionMinSize)
mmap_success_last_dirty ==
  Grows(<<Dirty(0, 1024)>>, mmap_success, HEAP_START + 1024, 1,
        <<Dirty(0, 1024), Free(1024, RegionMinSize)>>)
mmap_success_last_free ==
  Grows(<<Free(0, 1024)>>, mmap_success, HEAP_START, 1, <<Free(0, 1024 + RegionMinSize)>>)

Allocs(q, list, stub, pointer, counts, after) ==
  Test("memalloc", q, list, stub, Pointer(pointer), counts, Laid(after))

memalloc_existing_big_query ==
  Allocs(512, LastDirty, NoStub, HEAP_START + 256, Unasked, LastDirtySplit)
memalloc_existing_small_query ==
  LET taken == HeaderSize + BlockMinCapacity
  IN  Allocs(10, Row(7, 128, {1, 7}), NoStub, HEAP_START + 128, Unasked,
             <<Dirty(0, 128), Dirty(128, taken), Free(128 + taken, 640 - taken),
               Dirty(768, 128)>>)
grow_heap_fail_big_query ==
  Allocs(RegionMinSize, TwoDirty, mmap_failed(1024, RegionMinSize + PageSize), NULL, 2,
         TwoDirtyMerged)
grow_heap_fail_small_query ==
  Allocs(10, <<Dirty(0, 1024)>>, mmap_failed(1024, RegionMinSize), NULL, 2,
         <<Dirty(0, 1024)>>)
\* The region in mmap_buffer once a block of size was taken from its start.
BufferSplit(size) ==
  LET at == mmap_buffer - HEAP_START
  IN  <<Dirty(at, size), Free(at + size, RegionMinSize - size)>>
grow_heap_success_big_query ==
  Allocs(512, TwoDirty, mmap_fixed_failed(1024), mmap_buffer, 2,
         TwoDirtyMerged \o BufferSplit(HeaderSize + 512))
grow_heap_success_small_query ==
  Allocs(10, <<Dirty(0, 1024)>>, mmap_fixed_failed(1024), mmap_buffer, 2,
         <<Dirty(0, 1024)>> \o BufferSplit(HeaderSize + BlockMinCapacity))

Regions(q, stub, expects, counts, after) ==
  Test("alloc_region", q, <<>>, stub, expects, counts, Laid(after))

\* alloc_region returns a region: its address, its size, does it extend?
Region(at, size, extends) == <<"region", HEAP_START + at, size, extends>>
REGION_INVALID == <<"region", NULL, 0, FALSE>>
Ignored == <<"ignored", NULL>>       \* the test asserts nothing of the result

optimistic_case ==
  Regions(0, optimistic_case_stub, Region(0, RegionMinSize, TRUE), 1, <<Free(0, RegionMinSize)>>)
map_fixed_failed ==
  LET at == mmap_buffer - HEAP_START
  IN  Regions(0, map_fixed_failed_stub, Region(at, RegionMinSize, FALSE), 2,
              <<Free(at, RegionMinSize)>>)
pessimistic_case == Regions(0, NoStub, REGION_INVALID, 2, <<>>)
query_is_zero ==
  Regions(0, Stub(FAILURE, FAILURE, Unasked, RegionMinSize), Ignored, Unasked, <<>>)
query_is_small ==
  Regions(42, Stub(FAILURE, FAILURE, Unasked, RegionMinSize), Ignored, Unasked, <<>>)
query_is_min_region_size ==
  LET size == RegionMinSize + PageSize
  IN  Regions(RegionMinSize, query_is_min_region_size_stub, Region(0, size, TRUE), Unasked,
              <<Free(0, size)>>)

corner_cases ==
  {0, 10, 24, 24 + HeaderSize, RegionMinSize - HeaderSize, RegionMinSize}

heap_init_length(q) == region_actual_size(q + HeaderSize)
heap_init_fail(q) ==
  Test("heap_init", q, <<>>, mmap_failed(0, heap_init_length(q)), Pointer(NULL), 2, Laid(<<>>))
heap_init_success(q) ==
  Test("heap_init", q, <<>>, [optimistic_case_stub EXCEPT !.length = heap_init_length(q)],
       Pointer(optimistic_case_stub.fixed), 1, Laid(<<>>))

\* The tests whose stub has platform_map_pages grant what it is asked for.
PlatformTests ==
  {optimistic_case, map_fixed_failed, query_is_min_region_size}
  \cup {heap_init_success(q) : q \in corner_cases}

UnitTests ==
  PlatformTests \cup
  {single_block_is_good, single_block_is_dirty, single_block_is_small,
   multiple_blocks_fail, multiple_blocks_success,
   merge_next_is_null, merge_next_is_not_continuous, merge_block_is_dirty,
   merge_next_block_is_dirty, both_blocks_are_dirty, merge_success,
   not_free, not_big_enough, not_big_enough_for_min_capacity, split_success,
   free_null, free_next_is_null, free_next_is_not_continuous,
   free_next_block_is_dirty, free_merge,
   try_memalloc_fail, try_memalloc_split,
   grow_mmap_failed, grow_mmap_fixed_failed, mmap_success_last_dirty,
   mmap_success_last_free,
   memalloc_existing_big_query, memalloc_existing_small_query,
   grow_heap_fail_big_query, grow_heap_fail_small_query,
   grow_heap_success_big_query, grow_heap_success_small_query,
   pessimistic_case, query_is_zero, query_is_small}
  \cup {heap_init_fail(q) : q \in corner_cases}

\* The searches for q bytes through six blocks, dirty and apart in every way.
SearchTests(qs) ==
  {Finds(q, Spread(6, 128, dirty, gaps), Ignored, <<>>) :
     q \in qs, dirty \in SUBSET (1..6), gaps \in SUBSET {2, 4}}

-----------------------------------------------------------------------------
(* A test runs.                                                            *)

UnitInit(u) ==
  /\ unit = u
  /\ phase = "ready"
  /\ result = Void
  /\ calls = 0
  /\ stub_ok = TRUE
  /\ hdr = u.given
  /\ live = LET dirty == {a \in DOMAIN hdr : ~hdr[a].is_free}
            IN  [a \in dirty |-> hdr[a].capacity]
  /\ heap = HEAP_START
  /\ regions = [a \in {} |-> NULL]
  /\ foreign = {}
  /\ pc = "idle"
  /\ cur = NULL
  /\ query = 0
  /\ grown = FALSE

Over(r) == phase' = "over" /\ result' = r /\ UNCHANGED unit

Runs == phase' = "running" /\ UNCHANGED <<unit, result>>

Stubless == UNCHANGED <<calls, stub_ok>>

\* The two functions without a loop.
TestMerge ==
  /\ phase = "ready"
  /\ unit.does = "try_merge_with_next"
  /\ hdr' = try_merge_with_next(hdr, HEAP_START)
  /\ Over(Verdict(mergeable(hdr, HEAP_START)))
  /\ Stubless
  /\ UNCHANGED <<regions, foreign, heap, live, pc, cur, query, grown>>

TestSplit ==
  /\ phase = "ready"
  /\ unit.does = "split_if_too_big"
  /\ hdr' = split_if_too_big(hdr, HEAP_START, unit.arg)
  /\ Over(Verdict(block_splittable(hdr, HEAP_START, unit.arg)))
  /\ Stubless
  /\ UNCHANGED <<regions, foreign, heap, live, pc, cur, query, grown>>

TestFree ==
  /\ phase = "ready"
  /\ unit.does = "_free"
  /\ IF unit.arg = NULL
     THEN Over(Void) /\ UNCHANGED vars
     ELSE Runs /\ _free(unit.arg)
  /\ Stubless

TestFreeEnds ==
  /\ phase = "running"
  /\ FreeReturn
  /\ Over(Void)
  /\ Stubless

\* The searches start like _malloc does.
Searches == {"find_good_or_last", "try_memalloc_existing", "memalloc"}

TestSearch ==
  /\ phase = "ready"
  /\ unit.does \in Searches
  /\ _malloc(unit.arg)
  /\ Runs
  /\ Stubless

TestLoops ==
  /\ phase = "running"
  /\ FindMerge \/ FindNext \/ FreeMerge
  /\ UNCHANGED unit_vars

\* find_good_or_last reports the block its loop has come to.
FindReturns ==
  /\ phase = "running"
  /\ unit.does = "find_good_or_last"
  /\ pc = "find"
  /\ ~mergeable(hdr, cur)
  /\ verdict(hdr, cur, wanted) # "continue"
  /\ Over(<<verdict(hdr, cur, wanted), cur>>)
  /\ Return
  /\ Stubless
  /\ UNCHANGED <<hdr, regions, foreign, heap, live>>

\* The other two take the block, or fail without a further attempt.
Takes ==
  /\ phase = "running"
  /\ unit.does # "find_good_or_last"
  /\ FindGood
  /\ Over(IF unit.does = "memalloc" THEN Pointer(cur)
          ELSE <<"BSR_FOUND_GOOD_BLOCK", cur>>)
  /\ Stubless

Misses ==
  /\ phase = "running"
  /\ unit.does # "find_good_or_last"
  /\ IF unit.does = "memalloc"
     THEN FindFails /\ (IF pc' = "grow" THEN UNCHANGED <<unit, phase, result>>
                        ELSE Over(Pointer(NULL)))
     ELSE /\ pc = "find"
          /\ ~mergeable(hdr, cur)
          /\ verdict(hdr, cur, wanted) \in {"BSR_REACHED_END_NOT_FOUND", "BSR_CORRUPTED"}
          /\ Over(<<verdict(hdr, cur, wanted), cur>>)
          /\ Return
          /\ UNCHANGED <<hdr, regions, foreign, heap, live>>
  /\ Stubless

\* alloc_region calls the stub with PAGE_FIXED, and if that fails without.
answer == IF unit.stub.fixed # FAILURE THEN unit.stub.fixed ELSE unit.stub.anywhere

Asks(addr, length) ==
  /\ calls' = calls + (IF unit.stub.fixed # FAILURE THEN 1 ELSE 2)
  /\ stub_ok' = /\ stub_ok
                /\ unit.stub.addr \in {addr, Unasked}
                /\ unit.stub.length \in {length, Unasked}

TestRegion ==
  LET size == region_actual_size(size_from_capacity(unit.arg))
  IN  /\ phase = "ready"
      /\ unit.does \in {"alloc_region", "heap_init"}
      /\ Asks(HEAP_START, size)
      /\ IF answer = FAILURE
         THEN /\ hdr' = hdr
              /\ Over(IF unit.does = "heap_init" THEN Pointer(NULL) ELSE REGION_INVALID)
         ELSE /\ hdr' = block_init(hdr, answer, size, NULL)
              /\ Over(IF unit.does = "heap_init" THEN Pointer(answer)
                      ELSE <<"region", answer, size, answer = HEAP_START>>)
      /\ UNCHANGED <<regions, foreign, heap, live, pc, cur, query, grown>>

TestGrow ==
  /\ phase = "ready"
  /\ unit.does = "grow_heap"
  /\ pc' = "grow"
  /\ cur' = HEAP_START
  /\ query' = unit.arg
  /\ Runs
  /\ Stubless
  /\ UNCHANGED <<hdr, regions, foreign, heap, live, grown>>

\* grow_heap returns the last block if the region extends it and it is free;
\* memalloc tries again from the start.
Grows_by_stub ==
  LET last == block_after(hdr, cur)
  IN  /\ phase = "running"
      /\ pc = "grow"
      /\ Asks(last, grow_size)
      /\ IF answer = FAILURE
         THEN hdr' = hdr /\ Over(Pointer(NULL)) /\ Return
         ELSE /\ hdr' = linked(answer)
              /\ IF unit.does = "grow_heap"
                 THEN /\ Over(Pointer(IF answer = last /\ hdr[cur].is_free THEN cur ELSE answer))
                      /\ Return
                 ELSE /\ pc' = "find" /\ cur' = HEAP_START /\ grown' = TRUE
                      /\ UNCHANGED <<query, unit, phase, result>>
      /\ UNCHANGED <<regions, foreign, heap, live>>

UnitNext ==
  \/ TestMerge \/ TestSplit \/ TestFree \/ TestFreeEnds \/ TestSearch \/ TestLoops
  \/ FindReturns \/ Takes \/ Misses \/ TestRegion \/ TestGrow \/ Grows_by_stub

-----------------------------------------------------------------------------
(* What must hold.                                                         *)

\* A unit test passes if the stub was asked for what it asserts, as often as
\* the test asserts, and the function has returned and left behind what the
\* test asserts.
Passes ==
  /\ stub_ok
  /\ unit.counts \in {calls, Unasked}
  /\ unit.expects \in {result, Ignored}
  /\ \A a \in DOMAIN unit.after : a \in DOMAIN hdr /\ hdr[a] = unit.after[a]

\* The functions of mem.c do what the unit tests assert, but for the tests whose
\* stub relies on platform_map_pages: those cannot pass (unix.c:8).
AssertionsHold == phase = "over" => (Passes <=> unit \notin PlatformTests)

\* find_good_or_last by what the list was before it: the first stretch of
\* adjoining free blocks that together have room for the query, by its first
\* block; with none, the last such stretch or the last block, if it is dirty.
Heads(list) ==
  {i \in DOMAIN list :
     ~(i > 1 /\ list[i].is_free /\ list[i - 1].is_free
         /\ list[i].at = list[i - 1].at + list[i - 1].size)}

Stretch(list, i) ==
  LET ends == {j \in DOMAIN list : j > i /\ j \in Heads(list)}
      next == IF ends = {} THEN Len(list) ELSE (CHOOSE j \in ends : \A k \in ends : j <= k) - 1
  IN  list[next].at + list[next].size - list[i].at

Roomy(list, q) ==
  {i \in Heads(list) : list[i].is_free /\ Stretch(list, i) >= q + HeaderSize}

\* README.md:78, "we go over the blocks until we find a good one": the search
\* answers with the first that would do, whatever it merges on its way.
FirstFit ==
  phase = "over" /\ unit.does = "find_good_or_last" =>
    LET list == unit.list
        good == Roomy(list, unit.arg)
    IN  IF good # {}
        THEN result = Found(list[CHOOSE i \in good : \A k \in good : i <= k].at - HEAP_START)
        ELSE result = NotFound(list[CHOOSE i \in Heads(list) :
                                      \A k \in Heads(list) : k <= i].at - HEAP_START)
================================================================================
