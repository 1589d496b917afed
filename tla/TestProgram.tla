------------------------------ MODULE TestProgram ------------------------------
(***************************************************************************)
(* The allocator's test program, MemoryAllocator/src/tests.c and main.c: a *)
(* client that runs five tests one after the other on one address space.   *)
(* A test initialises a heap, allocates, checks, frees and destroys the    *)
(* heap; one that fails returns at once and leaves its heap behind.        *)
(*                                                                         *)
(* The steps inside a call are those of Mem.                               *)
(***************************************************************************)
EXTENDS Mem, Sequences

VARIABLES
  test,      \* the number of the test that runs
  stage,     \* where it is
  real,      \* real_heap_size
  addrs,     \* malloc_addrs, as the headers of the blocks
  freed,     \* the calls of _free that have returned
  failed,    \* the tests that returned false
  refused    \* has the kernel refused memory?

program_vars == <<test, stage, real, addrs, freed, failed, refused>>

-----------------------------------------------------------------------------
(* The tests: what each allocates, does it demand that a block has the     *)
(* capacity asked for, how many blocks it frees, does it put a break       *)
(* behind the heap and demand a block apart from the heap's first one?     *)

init_heap_size == 10000

test_simple_malloc ==
  [sizes |-> <<real \div 4>>, exact |-> TRUE, frees |-> 1, break |-> FALSE]

test_malloc_one_free ==
  [sizes |-> [i \in 1..5 |-> (real * i) \div 50], exact |-> TRUE, frees |-> 1, break |-> FALSE]

test_malloc_two_free ==
  [sizes |-> [i \in 1..6 |-> (real * i) \div 50], exact |-> TRUE, frees |-> 2, break |-> FALSE]

test_malloc_new_region_extended ==
  [sizes |-> <<real * 2>>, exact |-> TRUE, frees |-> 1, break |-> FALSE]

test_malloc_new_region_not_extended ==
  [sizes |-> <<real * 2>>, exact |-> FALSE, frees |-> 1, break |-> TRUE]

tests ==
  <<test_simple_malloc, test_malloc_one_free, test_malloc_two_free,
    test_malloc_new_region_extended, test_malloc_new_region_not_extended>>

-----------------------------------------------------------------------------

ProgramInit ==
  /\ Init
  /\ test = 1
  /\ stage = "init"
  /\ real = 0
  /\ addrs = <<>>
  /\ freed = 0
  /\ failed = {}
  /\ refused = FALSE

\* run_tests goes on to the next test whatever this one returned.
NextTest(passed) ==
  /\ test' = test + 1
  /\ stage' = IF test = Len(tests) THEN "over" ELSE "init"
  /\ real' = 0
  /\ addrs' = <<>>
  /\ freed' = 0
  /\ failed' = IF passed THEN failed ELSE failed \cup {test}

TestInit ==
  /\ stage = "init"
  /\ heap_init(init_heap_size)
  /\ real' = hdr'[heap'].capacity
  /\ stage' = IF tests[test].break THEN "break" ELSE "malloc"
  /\ UNCHANGED <<test, addrs, freed, failed, refused>>

\* The capacity is read before the pointer is compared with NULL.
TestInitFails ==
  /\ stage = "init"
  /\ pc = "idle"
  /\ pc' = "fault"
  /\ refused' = TRUE
  /\ UNCHANGED <<hdr, regions, foreign, heap, live, cur, query, grown>>
  /\ UNCHANGED <<test, stage, real, addrs, freed, failed>>

\* mmap without MAP_ANONYMOUS does not take a file descriptor of -1.
break_mapped == "MAP_ANONYMOUS" \in {"MAP_PRIVATE", "MAP_FIXED"}

break_size == RegionMinSize * 5

\* A mapping over the heap would leave zeros where its headers were.
TestBreak ==
  /\ stage = "break"
  /\ stage' = "malloc"
  /\ hdr' = IF break_mapped
            THEN [a \in DOMAIN hdr |->
                    IF a \in heap..(heap + break_size - 1)
                    THEN [next |-> NULL, capacity |-> 0, is_free |-> FALSE]
                    ELSE hdr[a]]
            ELSE hdr
  /\ UNCHANGED <<regions, foreign, heap, live, pc, cur, query, grown>>
  /\ UNCHANGED <<test, real, addrs, freed, failed, refused>>

TestMalloc ==
  /\ stage = "malloc"
  /\ _malloc(tests[test].sizes[Len(addrs) + 1])
  /\ stage' = "call"
  /\ UNCHANGED <<test, real, addrs, freed, failed, refused>>

InMalloc ==
  /\ stage = "call"
  /\ FindMerge \/ FindNext \/ grow_heap
  /\ UNCHANGED program_vars

MallocReturns ==
  /\ stage = "call"
  /\ FindGood
  /\ addrs' = Append(addrs, cur)
  /\ stage' = "check"
  /\ UNCHANGED <<test, real, freed, failed, refused>>

\* NULL makes the test return false.
MallocFails ==
  /\ stage = "call"
  /\ FindFails
  /\ stage' = IF pc' = "idle" THEN "failed" ELSE stage
  /\ UNCHANGED <<test, real, addrs, freed, failed, refused>>

MallocRefused ==
  /\ stage = "call"
  /\ GrowFails
  /\ stage' = "failed"
  /\ refused' = TRUE
  /\ UNCHANGED <<test, real, addrs, freed, failed>>

block == addrs[Len(addrs)]

\* What a test demands of the block just allocated.
AsDemanded ==
  /\ tests[test].exact => hdr[block].capacity = tests[test].sizes[Len(addrs)]
  /\ tests[test].break => hdr[heap].is_free /\ ~hdr[block].is_free

TestCheck ==
  /\ stage = "check"
  /\ stage' = IF ~AsDemanded THEN "failed"
              ELSE IF Len(addrs) < Len(tests[test].sizes) THEN "malloc" ELSE "free"
  /\ UNCHANGED <<test, real, addrs, freed, failed, refused>>
  /\ UNCHANGED vars

\* A test that fails leaves its heap behind.
TestFails ==
  /\ stage = "failed"
  /\ heap' = NULL
  /\ NextTest(FALSE)
  /\ UNCHANGED <<hdr, regions, foreign, live, pc, cur, query, grown, refused>>

\* rand() may pick a block that was freed before.
TestFrees ==
  /\ stage = "free"
  /\ pc = "idle"
  /\ \E r \in DOMAIN addrs :
       LET a == addrs[r]
       IN  /\ pc' = IF a \in DOMAIN hdr THEN "free" ELSE "fault"
           /\ hdr' = [x \in DOMAIN hdr |->
                        IF x = a THEN [hdr[x] EXCEPT !.is_free = TRUE] ELSE hdr[x]]
           /\ live' = [x \in DOMAIN live \ {a} |-> live[x]]
           /\ cur' = a
  /\ UNCHANGED <<regions, foreign, heap, query, grown>>
  /\ UNCHANGED program_vars

InFree ==
  /\ stage = "free"
  /\ FreeMerge
  /\ UNCHANGED program_vars

\* A freed block is free.
TestFreed ==
  /\ stage = "free"
  /\ FreeReturn
  /\ freed' = freed + 1
  /\ stage' = IF freed + 1 = tests[test].frees THEN "destroy" ELSE stage
  /\ UNCHANGED <<test, real, addrs, failed, refused>>

unmapped_all(sz) == DOMAIN regions  \* mutant: the regions the heap grew by, too

\* munmap of as many bytes as the first region had: no other region ends there.
unmapped(sz) == {r \in DOMAIN regions : r = heap /\ regions[r] <= size_from_capacity(sz)}

heap_destroy ==
  LET gone == unmapped(real)
      kept == {a \in DOMAIN hdr : \A r \in gone : a \notin r..(r + regions[r] - 1)}
  IN  /\ stage = "destroy"
      /\ regions' = [r \in DOMAIN regions \ gone |-> regions[r]]
      /\ hdr' = [a \in kept |-> hdr[a]]
      /\ live' = [a \in DOMAIN live \cap kept |-> live[a]]
      /\ heap' = NULL
      /\ NextTest(TRUE)
      /\ UNCHANGED <<foreign, pc, cur, query, grown, refused>>

run_tests ==
  \/ TestInit \/ TestInitFails \/ TestBreak \/ TestMalloc \/ InMalloc \/ MallocReturns
  \/ MallocFails \/ MallocRefused \/ TestCheck \/ TestFails \/ TestFrees \/ InFree
  \/ TestFreed \/ heap_destroy

ProgramSpec == ProgramInit /\ [][run_tests]_<<vars, program_vars>>

-----------------------------------------------------------------------------
(* What must hold.                                                         *)

\* tests.c:196: with memory to be had and the addresses from HEAP_START on
\* left to the heap, every test passes, in the order in which they run, on what
\* the tests before have left mapped, and whichever block rand() has a test free
\* twice: the merges of the first call absorb none that it may pick again.
TestsPass == foreign = {} /\ ~refused => pc # "fault" /\ failed = {}
================================================================================
