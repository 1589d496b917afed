---------------------------------- MODULE Mem ----------------------------------
(***************************************************************************)
(* The memory allocator of MemoryAllocator/src/mem.c: heap_init, _malloc   *)
(* and _free over a singly linked list of block headers that lies inside   *)
(* the regions obtained from mmap.                                         *)
(*                                                                         *)
(* The allocator runs in one thread.  A step is one iteration of one of    *)
(* its loops, or the straight-line code between two of them; the kernel    *)
(* (which range mmap grants, or none) and the rest of the process (pages   *)
(* it maps and unmaps between two calls) are the other actors.             *)
(***************************************************************************)
EXTENDS Integers, FiniteSets

CONSTANTS
  PageSize,          \* getpagesize()
  RegionMinSize,     \* REGION_MIN_SIZE
  HeaderSize,        \* offsetof(struct block_header, contents)
  BlockMinCapacity,  \* BLOCK_MIN_CAPACITY
  HEAP_START,        \* the address heap_init asks for and _malloc starts from
  SizeModulus,       \* number of values of size_t
  AddrLimit,         \* first address past the address space
  InitialSizes,      \* the sizes a client gives to heap_init
  Queries,           \* the sizes a client gives to _malloc
  OtherPages         \* the pages the rest of the process may map and unmap

NULL == 0

ASSUME SizesAssumption ==
  /\ PageSize \in Nat \ {0}
  /\ HeaderSize \in Nat \ {0}
  /\ BlockMinCapacity \in Nat \ {0}
  /\ RegionMinSize \in Nat
  /\ RegionMinSize >= HeaderSize + BlockMinCapacity
  /\ SizeModulus \in Nat \ {0}

\* REGION_MIN_SIZE is two pages of 4096 bytes, and a size_t counts whole pages.
ASSUME PagesAssumption ==
  /\ RegionMinSize % PageSize = 0
  /\ SizeModulus % PageSize = 0

ASSUME AddressesAssumption ==
  /\ AddrLimit \in Nat
  /\ HEAP_START \in Nat \ {0}
  /\ OtherPages \subseteq Nat

ASSUME ClientAssumption ==
  /\ InitialSizes \subseteq 0..(SizeModulus - 1)
  /\ Queries \subseteq 0..(SizeModulus - 1)

VARIABLES
  hdr,      \* the block headers in memory: address -> [next, capacity, is_free]
  regions,  \* the mapped regions of the heap: start -> size
  foreign,  \* the pages mapped by the rest of the process
  heap,     \* what heap_init returned; NULL before
  live,     \* what the client holds: header address -> the size it asked for
  pc,       \* where the allocator is
  cur,      \* the block under the running loop
  query,    \* the argument of the running _malloc
  grown     \* has the running _malloc grown the heap?

vars == <<hdr, regions, foreign, heap, live, pc, cur, query, grown>>

-----------------------------------------------------------------------------
(* Sizes.  size_t arithmetic on what the client passed wraps around.       *)

size_max(x, y) == IF x >= y THEN x ELSE y

size_from_capacity(cap) == (cap + HeaderSize) % SizeModulus

pages_count(mem) == mem \div PageSize + (IF mem % PageSize > 0 THEN 1 ELSE 0)

round_pages(mem) == (PageSize * pages_count(mem)) % SizeModulus

region_actual_size(size) == size_max(round_pages(size), RegionMinSize)

-----------------------------------------------------------------------------
(* Headers.  h is a map of headers, a the address of one of them.          *)

block_after(h, a) == a + HeaderSize + h[a].capacity

block_init_headerless(h, a, size, next) ==  \* mutant: the size as the capacity
  [x \in DOMAIN h \cup {a} |->
     IF x = a THEN [next |-> next, capacity |-> size, is_free |-> TRUE] ELSE h[x]]

block_init(h, a, size, next) ==
  [x \in DOMAIN h \cup {a} |->
     IF x = a
     THEN [next |-> next, capacity |-> size - HeaderSize, is_free |-> TRUE]
     ELSE h[x]]

blocks_continuous(h, fst, snd) == snd = block_after(h, fst)

mergeable_with_taken(h, a) ==  \* mutant: does not ask whether the next is free
  LET n == h[a].next
  IN  n # NULL /\ h[a].is_free /\ blocks_continuous(h, a, n)

mergeable(h, a) ==
  LET n == h[a].next
  IN  /\ n # NULL
      /\ h[a].is_free
      /\ h[n].is_free
      /\ blocks_continuous(h, a, n)

merge_with_next_headerless(h, a) ==  \* mutant: forgets the absorbed header
  LET n == h[a].next
  IN  [x \in DOMAIN h \ {n} |->
         IF x = a
         THEN [h[a] EXCEPT !.next = h[n].next, !.capacity = @ + h[n].capacity]
         ELSE h[x]]

\* The header of the absorbed block becomes part of the contents.
merge_with_next(h, a) ==
  LET n == h[a].next
  IN  [x \in DOMAIN h \ {n} |->
         IF x = a
         THEN [next     |-> h[n].next,
               capacity |-> h[a].capacity + HeaderSize + h[n].capacity,
               is_free  |-> h[a].is_free]
         ELSE h[x]]

try_merge_with_next(h, a) == IF mergeable(h, a) THEN merge_with_next(h, a) ELSE h

block_splittable_headerless(h, a, q) ==  \* mutant: no room for the second header
  h[a].is_free /\ q < h[a].capacity

block_splittable(h, a, q) ==
  h[a].is_free /\ q + HeaderSize + BlockMinCapacity <= h[a].capacity

split_not_shrunk(h, a, q) ==  \* mutant: the first block keeps its capacity
  LET second == a + HeaderSize + q
  IN  [block_init(h, second, h[a].capacity - q, h[a].next)
         EXCEPT ![a].next = second]

split_unlinked(h, a, q) ==  \* mutant: the second block is not linked
  [block_init(h, a + HeaderSize + q, h[a].capacity - q, h[a].next)
     EXCEPT ![a].capacity = q]

split(h, a, q) ==
  LET second == a + HeaderSize + q
  IN  [block_init(h, second, h[a].capacity - q, h[a].next)
         EXCEPT ![a].capacity = q, ![a].next = second]

split_if_too_big(h, a, q) == IF block_splittable(h, a, q) THEN split(h, a, q) ELSE h

is_good_strict(h, a, q) == h[a].is_free /\ h[a].capacity > q  \* mutant: > for >=

is_good_taken(h, a, q) == h[a].capacity >= q  \* mutant: takes a taken block

is_good(h, a, q) == h[a].is_free /\ h[a].capacity >= q

\* What one iteration of find_good_or_last decides, its merges done.
verdict(h, a, q) ==
  CASE h[a].next = a                           -> "BSR_CORRUPTED"
    [] h[a].next # a /\ is_good(h, a, q)       -> "BSR_FOUND_GOOD_BLOCK"
    [] h[a].next = NULL /\ ~is_good(h, a, q)   -> "BSR_REACHED_END_NOT_FOUND"
    [] OTHER                                   -> "continue"

-----------------------------------------------------------------------------
(* The kernel.  mmap grants page-aligned ranges that nothing else uses.    *)

Apart(a, m, b, n) == a + m <= b \/ b + n <= a

Fits(a, size) ==
  /\ a # NULL
  /\ a % PageSize = 0
  /\ a + size <= AddrLimit
  /\ \A r \in DOMAIN regions : Apart(a, size, r, regions[r])
  /\ \A f \in foreign : Apart(a, size, f, PageSize)

\* Where alloc_region may place a region: at the address asked for if the
\* first mmap can grant it, wherever the kernel likes if only the second one can.
Placements(addr, size) ==
  {a \in 0..AddrLimit : Fits(a, size) /\ (Fits(addr, size) => a = addr)}

map_region(a, size) ==
  regions' = [r \in DOMAIN regions \cup {a} |-> IF r = a THEN size ELSE regions[r]]

-----------------------------------------------------------------------------
(* The operations.                                                         *)

Init ==
  /\ hdr = [a \in {} |-> NULL]
  /\ regions = [a \in {} |-> NULL]
  /\ foreign \in SUBSET OtherPages
  /\ heap = NULL
  /\ live = [a \in {} |-> NULL]
  /\ pc = "idle"
  /\ cur = NULL
  /\ query = 0
  /\ grown = FALSE

\* The locals of a call end with it.
Return == pc' = "idle" /\ cur' = NULL /\ query' = 0 /\ grown' = FALSE

heap_init(initial) ==
  LET size == region_actual_size(size_from_capacity(initial))
  IN  /\ pc = "idle"
      /\ heap = NULL
      /\ \E a \in Placements(HEAP_START, size) :
           /\ map_region(a, size)
           /\ hdr' = block_init(hdr, a, size, NULL)
           /\ heap' = a
      /\ UNCHANGED <<foreign, live, pc, cur, query, grown>>

\* _malloc starts at HEAP_START wherever heap_init put the heap; with no
\* header there, what it reads is undefined.
_malloc(q) ==
  /\ pc = "idle"
  /\ heap # NULL
  /\ pc' = IF HEAP_START \in DOMAIN hdr THEN "find" ELSE "fault"
  /\ cur' = HEAP_START
  /\ query' = q
  /\ grown' = FALSE
  /\ UNCHANGED <<hdr, regions, foreign, heap, live>>

wanted_as_asked == query  \* mutant: no minimum

\* try_memalloc_existing looks for no less than BLOCK_MIN_CAPACITY.
wanted == size_max(query, BlockMinCapacity)

FindMerge ==
  /\ pc = "find"
  /\ mergeable(hdr, cur)
  /\ hdr' = merge_with_next(hdr, cur)
  /\ UNCHANGED <<regions, foreign, heap, live, pc, cur, query, grown>>

FindNext_stays ==  \* mutant: the loop does not advance
  /\ pc = "find"
  /\ ~mergeable(hdr, cur)
  /\ verdict(hdr, cur, wanted) = "continue"
  /\ UNCHANGED vars

FindNext ==
  /\ pc = "find"
  /\ ~mergeable(hdr, cur)
  /\ verdict(hdr, cur, wanted) = "continue"
  /\ cur' = hdr[cur].next
  /\ UNCHANGED <<hdr, regions, foreign, heap, live, pc, query, grown>>

FindGood ==
  /\ pc = "find"
  /\ ~mergeable(hdr, cur)
  /\ verdict(hdr, cur, wanted) = "BSR_FOUND_GOOD_BLOCK"
  /\ hdr' = [split_if_too_big(hdr, cur, wanted) EXCEPT ![cur].is_free = FALSE]
  /\ live' = [a \in DOMAIN live \cup {cur} |-> IF a = cur THEN query ELSE live[a]]
  /\ Return
  /\ UNCHANGED <<regions, foreign, heap>>

\* The first failed search leads to grow_heap; after the second one _malloc
\* returns NULL: the client holds nothing more.  So does a list that find_good_or_last takes for corrupted.
FindFails ==
  /\ pc = "find"
  /\ ~mergeable(hdr, cur)
  /\ verdict(hdr, cur, wanted) \in {"BSR_REACHED_END_NOT_FOUND", "BSR_CORRUPTED"}
  /\ IF verdict(hdr, cur, wanted) = "BSR_REACHED_END_NOT_FOUND" /\ ~grown
     THEN pc' = "grow" /\ UNCHANGED <<cur, query, grown>>
     ELSE Return
  /\ UNCHANGED <<hdr, regions, foreign, heap, live>>

grow_size_headerless == region_actual_size(query)  \* mutant: no room for a header

\* The region of the running _malloc, sized by the query as the client gave it.
grow_size == region_actual_size(size_from_capacity(query))

\* The headers once a region at a follows the last block.
linked(a) ==
  LET h == [block_init(hdr, a, grow_size, NULL) EXCEPT ![cur].next = a]
  IN  IF a = block_after(hdr, cur) /\ hdr[cur].is_free
      THEN try_merge_with_next(h, cur)
      ELSE h

grow_heap ==
  /\ pc = "grow"
  /\ \E a \in Placements(block_after(hdr, cur), grow_size) :
       /\ map_region(a, grow_size)
       /\ hdr' = linked(a)
  /\ pc' = "find"
  /\ cur' = HEAP_START
  /\ grown' = TRUE
  /\ UNCHANGED <<foreign, heap, live, query>>

GrowFails ==
  /\ pc = "grow"
  /\ Return
  /\ UNCHANGED <<hdr, regions, foreign, heap, live>>

\* The client frees what it holds; _free(NULL) returns at once.
_free(a) ==
  /\ pc = "idle"
  /\ a \in DOMAIN live
  /\ hdr' = [hdr EXCEPT ![a].is_free = TRUE]
  /\ live' = [x \in DOMAIN live \ {a} |-> live[x]]
  /\ pc' = "free"
  /\ cur' = a
  /\ UNCHANGED <<regions, foreign, heap, query, grown>>

FreeMerge ==
  /\ pc = "free"
  /\ mergeable(hdr, cur)
  /\ hdr' = merge_with_next(hdr, cur)
  /\ UNCHANGED <<regions, foreign, heap, live, pc, cur, query, grown>>

FreeReturn ==
  /\ pc = "free"
  /\ ~mergeable(hdr, cur)
  /\ Return
  /\ UNCHANGED <<hdr, regions, foreign, heap, live>>

\* The rest of the process maps or unmaps a page between two calls.
OthersMap(f) ==
  /\ pc = "idle"
  /\ f \notin foreign
  /\ \A r \in DOMAIN regions : Apart(f, PageSize, r, regions[r])
  /\ foreign' = foreign \cup {f}
  /\ UNCHANGED <<hdr, regions, heap, live, pc, cur, query, grown>>

OthersUnmap(f) ==
  /\ pc = "idle"
  /\ f \in foreign
  /\ foreign' = foreign \ {f}
  /\ UNCHANGED <<hdr, regions, heap, live, pc, cur, query, grown>>

Find == FindMerge \/ FindNext \/ FindGood \/ FindFails

Allocator == Find \/ grow_heap \/ GrowFails \/ FreeMerge \/ FreeReturn

Client ==
  \/ \E s \in InitialSizes : heap_init(s)
  \/ \E q \in Queries : _malloc(q)
  \/ \E a \in DOMAIN live : _free(a)

Others == \E f \in OtherPages : OthersMap(f) \/ OthersUnmap(f)

Next == Allocator \/ Client \/ Others

Spec == Init /\ [][Next]_vars

\* A call that has begun runs: nothing in mem.c blocks or waits.
FairSpec == Spec /\ WF_vars(Allocator)

-----------------------------------------------------------------------------
(* What must hold.                                                         *)

BlockSize(a) == HeaderSize + hdr[a].capacity

Header == [next : Nat, capacity : Nat, is_free : BOOLEAN]

\* The types of the variables; no capacity is ever negative (mem.c:97, the
\* subtraction of block_init on a size_t).
TypeOK ==
  /\ hdr \in [DOMAIN hdr -> Header]
  /\ DOMAIN hdr \subseteq Nat \ {NULL}
  /\ regions \in [DOMAIN regions -> Nat]
  /\ DOMAIN regions \subseteq Nat \ {NULL}
  /\ foreign \subseteq OtherPages
  /\ heap \in Nat
  /\ live \in [DOMAIN live -> 0..(SizeModulus - 1)]
  /\ pc \in {"idle", "find", "grow", "free", "fault"}
  /\ cur \in Nat
  /\ query \in 0..(SizeModulus - 1)
  /\ grown \in BOOLEAN

\* No two blocks share a byte, whatever was split, merged and linked before.
BlocksApart ==
  \A a, b \in DOMAIN hdr : a # b => Apart(a, BlockSize(a), b, BlockSize(b))

\* The blocks fill the regions: no byte of a region is lost by a merge, a
\* split or a region that could not be mapped at the end of the heap, and no
\* block reaches past the memory that is mapped (README.md:33).
Arena == UNION {r..(r + regions[r] - 1) : r \in DOMAIN regions}

Occupied(h) == UNION {a..(block_after(h, a) - 1) : a \in DOMAIN h}

RegionsTiled == Arena = Occupied(hdr)

\* The blocks marked taken are the ones the client holds, each with room for
\* what was asked: no block is handed out twice, none is lost.
LiveIntact ==
  /\ DOMAIN live = {a \in DOMAIN hdr : ~hdr[a].is_free}
  /\ \A a \in DOMAIN live : hdr[a].capacity >= size_max(live[a], BlockMinCapacity)

\* The list that starts at HEAP_START visits every block and ends: a block
\* that no search can reach would be lost for good.
ListComplete ==
  HEAP_START \in DOMAIN hdr =>
    /\ \A a \in DOMAIN hdr : hdr[a].next \in DOMAIN hdr \cup {NULL}
    /\ \E a \in DOMAIN hdr : hdr[a].next = NULL
    /\ \A S \in SUBSET DOMAIN hdr :
         HEAP_START \in S /\ (\A a \in S : hdr[a].next \in S \cup {NULL}) => S = DOMAIN hdr

\* The heap grows only when no region has free memory that would do: every stretch
\* of a region long enough for the block wanted meets a block that is taken, so that
\* the merges of the search have undone every fragmentation inside a region.  Two
\* regions side by side are merged when the list goes from one to the other only;
\* of stretches across them nothing is said.
NoNeedlessGrowth ==
  pc = "grow" =>
    \A r \in DOMAIN regions :
      \A x \in r..(r + regions[r] - (HeaderSize + wanted)) :
        \E a \in DOMAIN live : ~Apart(x, HeaderSize + wanted, a, BlockSize(a))

\* The address grow_heap asks mmap for is one MAP_FIXED_NOREPLACE can grant: a
\* page boundary, and the end of a region.
GrowsAtARegionEnd ==
  pc = "grow" =>
    /\ block_after(hdr, cur) % PageSize = 0
    /\ \E r \in DOMAIN regions : block_after(hdr, cur) = r + regions[r]

\* Once the heap has grown the search finds its block: _malloc gives up after
\* growing only when the size of the region wrapped around (mem.c:51, 26).
GrowthSuffices ==
  [][ pc = "find" /\ grown /\ pc' = "idle" /\ live' = live
        => query + HeaderSize > SizeModulus - PageSize ]_vars

\* What the client holds is never moved, resized or written over with a
\* header, and stays marked taken until the client frees it.
LiveStable ==
  [][ \A a \in DOMAIN live :
        /\ a \in DOMAIN hdr'
        /\ hdr'[a].capacity = hdr[a].capacity
        /\ a \in DOMAIN live' => live'[a] = live[a] /\ ~hdr'[a].is_free
        /\ \A x \in DOMAIN hdr' : x <= a \/ x >= block_after(hdr, a) ]_vars

\* A call returns: the search ends after every merge, in every list that
\* splits, merges and growths leave behind.
CallReturns == pc \notin {"idle", "fault"} ~> pc = "idle"

\* README.md:52: "the heap is given by the reference to the header of the
\* first block".  A heap that heap_init returned can be allocated from.
HeapUsable == pc # "fault"

-----------------------------------------------------------------------------
(* The allocator as its client sees it: an arena and the ranges it holds.  *)

Owned ==
  [p \in {a + HeaderSize : a \in DOMAIN live} |->
     [len |-> hdr[p - HeaderSize].capacity, asked |-> live[p - HeaderSize]]]

Abs == INSTANCE HeapSpec WITH Requests <- Queries, arena <- Arena, owned <- Owned

\* Every behaviour of the allocator is one that HeapSpec allows.
Implements == Abs!Spec
================================================================================
