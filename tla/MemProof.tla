-------------------------------- MODULE MemProof --------------------------------
(***************************************************************************)
(* Proofs about the allocator for every page size, header size, smallest   *)
(* capacity, address space and client.  The lemmas of the first part are   *)
(* about the operators on headers; the second part shows that every step   *)
(* keeps the inductive invariant IInv; the third part draws the theorems.  *)
(***************************************************************************)
EXTENDS Mem, TLAPS

(* The inductive invariant: the headers are well formed, they tile the     *)
(* regions, the taken ones are the client's, and cur is a header.          *)

Headers(h) ==
  /\ h \in [DOMAIN h -> Header]
  /\ DOMAIN h \subseteq Nat \ {NULL}
  /\ \A a \in DOMAIN h : h[a].capacity >= BlockMinCapacity

Disjoint(h) ==
  \A a, b \in DOMAIN h :
    a # b => Apart(a, HeaderSize + h[a].capacity, b, HeaderSize + h[b].capacity)

\* The list never leaves the headers, never forks back and never returns to
\* its first block: so a merge absorbs a block that no other header points to.
Linked(h) ==
  /\ \A a \in DOMAIN h : h[a].next \in DOMAIN h \cup {NULL}
  /\ \A a, b \in DOMAIN h : a # b /\ h[a].next = h[b].next => h[a].next = NULL
  /\ \A a \in DOMAIN h : h[a].next # HEAP_START

WellFormed(h) == Headers(h) /\ Disjoint(h) /\ Linked(h)

Position ==
  /\ pc \in {"find", "grow", "free"} => cur \in DOMAIN hdr
  /\ pc \in {"find", "grow"} => HEAP_START \in DOMAIN hdr /\ query \in Queries
  /\ pc = "grow" => hdr[cur].next = NULL
  /\ heap = NULL => hdr = [a \in {} |-> NULL]

IInv ==
  /\ TypeOK
  /\ WellFormed(hdr)
  /\ RegionsTiled
  /\ \A r \in DOMAIN regions : regions[r] > 0
  /\ LiveIntact
  /\ Position

-----------------------------------------------------------------------------
(* Lemmas about sizes and headers.                                         *)

\* A region holds a header and the smallest contents, whatever size_t did.
LEMMA RegionSize ==
  ASSUME NEW size \in Nat
  PROVE  /\ region_actual_size(size) \in Nat
         /\ region_actual_size(size) >= HeaderSize + BlockMinCapacity
<1>1. pages_count(size) \in Int
  BY SizesAssumption DEF pages_count
<1>2. PageSize * pages_count(size) \in Int
  BY <1>1, SizesAssumption
<1>3. round_pages(size) \in Nat
  BY <1>2, SizesAssumption DEF round_pages
<1>4. QED
  BY <1>3, SizesAssumption DEF region_actual_size, size_max

\* The sizes asked of alloc_region are natural numbers.
LEMMA WrappedSize ==
  ASSUME NEW q \in Nat
  PROVE  size_from_capacity(q) \in Nat
BY SizesAssumption DEF size_from_capacity

\* g is h with the free block after the free block a absorbed into a.
Merged(h, a, g) ==
  /\ g = [x \in DOMAIN g |-> g[x]]
  /\ h[a].next \in DOMAIN h
  /\ h[a].next # a
  /\ h[a].next # HEAP_START
  /\ h[a].next = a + HeaderSize + h[a].capacity
  /\ h[a].is_free
  /\ h[h[a].next].is_free
  /\ DOMAIN g = DOMAIN h \ {h[a].next}
  /\ \A x \in DOMAIN g : x # a => g[x] = h[x]
  /\ g[a] = [next |-> h[h[a].next].next,
             capacity |-> h[a].capacity + HeaderSize + h[h[a].next].capacity,
             is_free |-> h[a].is_free]

\* That is what merge_with_next makes of two blocks that can be merged.
LEMMA MergeShape ==
  ASSUME NEW h, WellFormed(h), NEW a \in DOMAIN h, mergeable(h, a)
  PROVE  Merged(h, a, merge_with_next(h, a))
<1>1. h[a].next \in DOMAIN h /\ h[a].next # HEAP_START /\ h[a].is_free /\ h[h[a].next].is_free
  BY DEF WellFormed, Linked, mergeable
<1>2. h[a].next = a + HeaderSize + h[a].capacity
  BY DEF mergeable, blocks_continuous, block_after
<1>3. h[a].next # a
  BY <1>2, SizesAssumption DEF WellFormed, Headers, Header
<1>4. QED
  BY <1>1, <1>2, <1>3 DEF merge_with_next, Merged

\* Merging keeps the headers well formed.
LEMMA MergeWellFormed ==
  ASSUME NEW h, WellFormed(h), NEW a \in DOMAIN h, NEW g, Merged(h, a, g)
  PROVE  WellFormed(g)
<1> DEFINE n == h[a].next
<1>0. /\ n \in DOMAIN h /\ n # a /\ n # HEAP_START
      /\ n = a + HeaderSize + h[a].capacity
      /\ DOMAIN g = DOMAIN h \ {n}
      /\ \A x \in DOMAIN g : x # a => g[x] = h[x]
      /\ g[a] = [next |-> h[n].next,
                 capacity |-> h[a].capacity + HeaderSize + h[n].capacity,
                 is_free |-> h[a].is_free]
  BY DEF Merged
<1>h. /\ \A x \in DOMAIN h : /\ x \in Nat \ {NULL}
                             /\ h[x].next \in Nat
                             /\ h[x].capacity \in Nat
                             /\ h[x].is_free \in BOOLEAN
                             /\ h[x].capacity >= BlockMinCapacity
  BY DEF WellFormed, Headers, Header
<1>1. Headers(g)
  <2>1. \A x \in DOMAIN g : g[x] \in Header
    <3>1. g[a] \in Header
      BY <1>0, <1>h, SizesAssumption DEF Header
    <3>2. QED
      BY <3>1, <1>0 DEF WellFormed, Headers
  <2>2. g \in [DOMAIN g -> Header]
    BY <2>1 DEF Merged
  <2>3. \A x \in DOMAIN g : g[x].capacity >= BlockMinCapacity
    BY <1>0, <1>h, SizesAssumption
  <2>4. QED
    BY <2>2, <2>3, <1>0, <1>h DEF Headers
<1>2. Disjoint(g)
  <2> HIDE DEF n
  <2>1. \A x, y \in DOMAIN h :
          x # y => Apart(x, HeaderSize + h[x].capacity, y, HeaderSize + h[y].capacity)
    BY DEF WellFormed, Disjoint
  <2>2. g[a].capacity = h[a].capacity + HeaderSize + h[n].capacity
    BY <1>0
  <2>3. ASSUME NEW y \in DOMAIN g, y # a
        PROVE  Apart(a, HeaderSize + g[a].capacity, y, HeaderSize + g[y].capacity)
    <3>1. /\ Apart(a, HeaderSize + h[a].capacity, y, HeaderSize + h[y].capacity)
          /\ Apart(n, HeaderSize + h[n].capacity, y, HeaderSize + h[y].capacity)
          /\ g[y] = h[y]
          /\ y \in DOMAIN h
      BY <2>1, <2>3, <1>0
    <3>2. QED
      BY <3>1, <2>2, <1>0, <1>h, SizesAssumption DEF Apart
  <2>4. QED
    BY <2>1, <2>3, <1>0 DEF Disjoint, Apart
<1>3. Linked(g)
  <2> HIDE DEF n
  <2>1. h[a].next = n
    BY DEF n
  <2>2. n # NULL
    BY <1>0, <1>h
  <2>3. /\ \A x \in DOMAIN h : h[x].next \in DOMAIN h \cup {NULL}
        /\ \A x, y \in DOMAIN h : x # y /\ h[x].next = h[y].next => h[x].next = NULL
        /\ \A x \in DOMAIN h : h[x].next # HEAP_START
    BY DEF WellFormed, Linked
  <2>4. h[n].next # n
    BY <2>1, <2>2, <2>3, <1>0
  <2>5. \A x \in DOMAIN g : g[x].next = IF x = a THEN h[n].next ELSE h[x].next
    BY <1>0
  <2>6. \A x \in DOMAIN g : g[x].next # n
    BY <2>1, <2>2, <2>3, <2>4, <2>5, <1>0
  <2>7. QED
    BY <2>3, <2>5, <2>6, <1>0 DEF Linked
<1>4. QED
  BY <1>1, <1>2, <1>3 DEF WellFormed

\* A byte is occupied when it lies in a block.
LEMMA OccupiedBytes ==
  ASSUME NEW h, WellFormed(h), NEW x \in Int
  PROVE  x \in Occupied(h) <=> \E a \in DOMAIN h : a <= x /\ x < a + HeaderSize + h[a].capacity
<1>1. \A a \in DOMAIN h : a \in Nat /\ h[a].capacity \in Nat
  BY DEF WellFormed, Headers, Header
<1>2. QED
  BY <1>1, SizesAssumption DEF Occupied, block_after

\* Occupied bytes are addresses.
LEMMA OccupiedInt ==
  ASSUME NEW h
  PROVE  Occupied(h) \subseteq Int
BY DEF Occupied

\* The merged block covers what the two blocks covered.
LEMMA MergeOccupied ==
  ASSUME NEW h, WellFormed(h), NEW a \in DOMAIN h, NEW g, Merged(h, a, g)
  PROVE  Occupied(g) = Occupied(h)
<1> DEFINE n == h[a].next
<1>0. /\ n \in DOMAIN h /\ n # a
      /\ n = a + HeaderSize + h[a].capacity
      /\ DOMAIN g = DOMAIN h \ {n}
      /\ \A x \in DOMAIN g : x # a => g[x].capacity = h[x].capacity
      /\ g[a].capacity = h[a].capacity + HeaderSize + h[n].capacity
  BY DEF Merged
<1>1. \A y \in DOMAIN h : y \in Nat /\ h[y].capacity \in Nat
  BY DEF WellFormed, Headers, Header
<1>2. WellFormed(g)
  BY MergeWellFormed
<1> HIDE DEF n
<1>3. ASSUME NEW x \in Int
      PROVE  x \in Occupied(g) <=> x \in Occupied(h)
  <2>1. x \in Occupied(h) <=> \E y \in DOMAIN h : y <= x /\ x < y + HeaderSize + h[y].capacity
    BY OccupiedBytes
  <2>2. x \in Occupied(g) <=> \E y \in DOMAIN g : y <= x /\ x < y + HeaderSize + g[y].capacity
    BY <1>2, OccupiedBytes
  <2>3. ASSUME NEW y \in DOMAIN g, y <= x, x < y + HeaderSize + g[y].capacity
        PROVE  \E z \in DOMAIN h : z <= x /\ x < z + HeaderSize + h[z].capacity
    <3>1. CASE y # a
      BY <3>1, <2>3, <1>0
    <3>2. CASE y = a /\ x < n
      BY <3>2, <2>3, <1>0, <1>1, SizesAssumption
    <3>3. CASE y = a /\ x >= n
      BY <3>3, <2>3, <1>0, <1>1, SizesAssumption
    <3>4. QED
      BY <3>1, <3>2, <3>3, <1>0, <1>1
  <2>4. ASSUME NEW y \in DOMAIN h, y <= x, x < y + HeaderSize + h[y].capacity
        PROVE  \E z \in DOMAIN g : z <= x /\ x < z + HeaderSize + g[z].capacity
    <3>1. CASE y # a /\ y # n
      BY <3>1, <2>4, <1>0
    <3>2. CASE y = a \/ y = n
      <4>1. a <= x /\ x < a + HeaderSize + g[a].capacity
        BY <3>2, <2>4, <1>0, <1>1, SizesAssumption
      <4>2. QED
        BY <4>1, <1>0
    <3>3. QED
      BY <3>1, <3>2
  <2>5. QED
    BY <2>1, <2>2, <2>3, <2>4
<1>4. QED
  BY <1>3, OccupiedInt

-----------------------------------------------------------------------------
(* Lemmas about splitting.                                                 *)

\* g is h with the block a cut after q bytes of contents.
Divided(h, a, q, g) ==
  /\ g = [x \in DOMAIN g |-> g[x]]
  /\ a + HeaderSize + q \notin DOMAIN h
  /\ DOMAIN g = DOMAIN h \cup {a + HeaderSize + q}
  /\ \A x \in DOMAIN h : x # a => g[x] = h[x]
  /\ g[a] = [next |-> a + HeaderSize + q, capacity |-> q, is_free |-> h[a].is_free]
  /\ g[a + HeaderSize + q] =
       [next |-> h[a].next, capacity |-> h[a].capacity - q - HeaderSize, is_free |-> TRUE]
  /\ h[a].capacity - q - HeaderSize >= BlockMinCapacity

\* That is what split makes of a block that can be split.
LEMMA SplitShape ==
  ASSUME NEW h, WellFormed(h), NEW a \in DOMAIN h, NEW q \in Nat, block_splittable(h, a, q)
  PROVE  Divided(h, a, q, split(h, a, q))
<1> DEFINE second == a + HeaderSize + q
<1>1. \A x \in DOMAIN h : x \in Nat /\ h[x].capacity \in Nat /\ h[x].capacity >= BlockMinCapacity
  BY DEF WellFormed, Headers, Header
<1>2. q + HeaderSize + BlockMinCapacity <= h[a].capacity
  BY DEF block_splittable
<1>3. second \notin DOMAIN h
  <2>1. SUFFICES ASSUME second \in DOMAIN h PROVE FALSE
    OBVIOUS
  <2>2. second # a
    BY <1>1, SizesAssumption
  <2>3. Apart(a, HeaderSize + h[a].capacity, second, HeaderSize + h[second].capacity)
    BY <2>1, <2>2 DEF WellFormed, Disjoint
  <2>4. QED
    BY <2>1, <2>3, <1>1, <1>2, SizesAssumption DEF Apart
<1>4. second # a
  BY <1>3
<1>5. h[a] = [next |-> h[a].next, capacity |-> h[a].capacity, is_free |-> h[a].is_free]
  BY DEF WellFormed, Headers, Header
<1> DEFINE f == block_init(h, second, h[a].capacity - q, h[a].next)
           g == split(h, a, q)
<1>6. /\ f = [x \in DOMAIN f |-> f[x]]
      /\ DOMAIN f = DOMAIN h \cup {second}
      /\ \A x \in DOMAIN h : f[x] = h[x]
      /\ f[second] = [next |-> h[a].next, capacity |-> h[a].capacity - q - HeaderSize, is_free |-> TRUE]
  BY <1>3 DEF block_init
<1>7. /\ g = [x \in DOMAIN g |-> g[x]]
      /\ DOMAIN g = DOMAIN f
      /\ \A x \in DOMAIN f : x # a => g[x] = f[x]
      /\ g[a] = [next |-> second, capacity |-> q, is_free |-> h[a].is_free]
  <2>1. g = [f EXCEPT ![a].capacity = q, ![a].next = second]
    BY DEF split
  <2>2. f[a] = [next |-> h[a].next, capacity |-> h[a].capacity, is_free |-> h[a].is_free]
    BY <1>5, <1>6
  <2>3. a \in DOMAIN f
    BY <1>6
  <2> HIDE DEF f, g
  <2>4. QED
    BY <2>1, <2>2, <2>3, <1>6
<1>8. h[a].capacity - q - HeaderSize >= BlockMinCapacity
  BY <1>1, <1>2, SizesAssumption
<1>9. QED
  BY <1>3, <1>4, <1>6, <1>7, <1>8 DEF Divided

\* Splitting keeps the headers well formed.
LEMMA SplitWellFormed ==
  ASSUME NEW h, WellFormed(h), HEAP_START \in DOMAIN h,
         NEW a \in DOMAIN h, NEW q \in Nat, q >= BlockMinCapacity,
         NEW g, Divided(h, a, q, g)
  PROVE  WellFormed(g)
<1> DEFINE second == a + HeaderSize + q
<1>0. /\ second \notin DOMAIN h /\ DOMAIN g = DOMAIN h \cup {second}
      /\ \A x \in DOMAIN h : x # a => g[x] = h[x]
      /\ g[a] = [next |-> second, capacity |-> q, is_free |-> h[a].is_free]
      /\ g[second] = [next |-> h[a].next, capacity |-> h[a].capacity - q - HeaderSize, is_free |-> TRUE]
      /\ h[a].capacity - q - HeaderSize >= BlockMinCapacity
  BY DEF Divided
<1>1. \A x \in DOMAIN h : /\ x \in Nat \ {NULL}
                          /\ h[x].next \in Nat
                          /\ h[x].capacity \in Nat
                          /\ h[x].is_free \in BOOLEAN
                          /\ h[x].capacity >= BlockMinCapacity
  BY DEF WellFormed, Headers, Header
<1>2. second \in Nat \ {NULL}
  BY <1>1, SizesAssumption DEF NULL
<1>3. g[second].capacity \in Nat /\ g[second].capacity >= BlockMinCapacity
  BY <1>0, <1>1, SizesAssumption
<1>4. Headers(g)
  <2>1. \A x \in DOMAIN g : g[x] \in Header
    <3>1. g[a] \in Header /\ g[second] \in Header
      BY <1>0, <1>1, <1>2, <1>3 DEF Header
    <3>2. \A x \in DOMAIN h : h[x] \in Header
      BY DEF WellFormed, Headers
    <3> HIDE DEF second
    <3>3. QED
      BY <3>1, <3>2, <1>0
  <2>2. g \in [DOMAIN g -> Header]
    BY <2>1 DEF Divided
  <2> HIDE DEF second
  <2>3. \A x \in DOMAIN g : g[x].capacity >= BlockMinCapacity
    BY <1>0, <1>1, <1>3
  <2>4. QED
    BY <2>2, <2>3, <1>0, <1>1, <1>2 DEF Headers
<1>5. Disjoint(g)
  <2>1. \A x, y \in DOMAIN h :
          x # y => Apart(x, HeaderSize + h[x].capacity, y, HeaderSize + h[y].capacity)
    BY DEF WellFormed, Disjoint
  <2>2. second = a + HeaderSize + q
    OBVIOUS
  <2>3. g[a].capacity = q /\ g[second].capacity = h[a].capacity - q - HeaderSize
    BY <1>0
  <2> HIDE DEF second
  <2>4. ASSUME NEW y \in DOMAIN h, y # a
        PROVE  /\ Apart(a, HeaderSize + q, y, HeaderSize + h[y].capacity)
               /\ Apart(second, h[a].capacity - q, y, HeaderSize + h[y].capacity)
    <3>1. Apart(a, HeaderSize + h[a].capacity, y, HeaderSize + h[y].capacity)
      BY <2>1, <2>4
    <3>2. QED
      BY <3>1, <2>2, <1>0, <1>1, SizesAssumption DEF Apart
  <2>5. ASSUME NEW x \in DOMAIN g, NEW y \in DOMAIN g, x < y
        PROVE  Apart(x, HeaderSize + g[x].capacity, y, HeaderSize + g[y].capacity)
    <3>1. x \in Nat /\ y \in Nat
      BY <1>0, <1>1, <1>2
    <3>2. CASE x = a /\ y = second
      BY <3>2, <2>2, <2>3, <1>1, SizesAssumption DEF Apart
    <3>3. CASE x \in DOMAIN h \ {a} /\ y \in DOMAIN h \ {a}
      BY <3>3, <2>1, <2>5, <3>1, <1>0
    <3>4. CASE x \in {a, second} /\ y \in DOMAIN h \ {a}
      BY <3>4, <2>3, <2>4, <1>0, <1>1, <1>2, SizesAssumption DEF Apart
    <3>5. CASE y \in {a, second} /\ x \in DOMAIN h \ {a}
      BY <3>5, <2>3, <2>4, <1>0, <1>1, <1>2, SizesAssumption DEF Apart
    <3>6. CASE x = second /\ y = a
      BY <3>6, <2>2, <2>5, <1>1, SizesAssumption
    <3>7. QED
      BY <3>2, <3>3, <3>4, <3>5, <3>6, <2>5, <3>1, <1>0
  <2>6. \A x \in DOMAIN g : x \in Nat /\ g[x].capacity \in Nat
    BY <1>4 DEF Headers, Header
  <2>7. QED
    BY <2>5, <2>6, SizesAssumption DEF Disjoint, Apart
<1>6. Linked(g)
  <2>1. /\ \A x \in DOMAIN h : h[x].next \in DOMAIN h \cup {NULL}
        /\ \A x, y \in DOMAIN h : x # y /\ h[x].next = h[y].next => h[x].next = NULL
        /\ \A x \in DOMAIN h : h[x].next # HEAP_START
    BY DEF WellFormed, Linked
  <2> HIDE DEF second
  <2>2. \A x \in DOMAIN g : g[x].next = IF x = a THEN second
                                       ELSE IF x = second THEN h[a].next ELSE h[x].next
    BY <1>0
  <2>3. second # HEAP_START /\ second # NULL /\ second # a
    BY <1>0, <1>2
  <2>4. QED
    BY <2>1, <2>2, <2>3, <1>0 DEF Linked
<1>7. QED
  BY <1>4, <1>5, <1>6 DEF WellFormed

\* The two parts cover what the block covered.
LEMMA SplitOccupied ==
  ASSUME NEW h, WellFormed(h), HEAP_START \in DOMAIN h,
         NEW a \in DOMAIN h, NEW q \in Nat, q >= BlockMinCapacity,
         NEW g, Divided(h, a, q, g)
  PROVE  Occupied(g) = Occupied(h)
<1> DEFINE second == a + HeaderSize + q
<1>0. /\ second \notin DOMAIN h /\ DOMAIN g = DOMAIN h \cup {second}
      /\ \A x \in DOMAIN h : x # a => g[x].capacity = h[x].capacity
      /\ g[a].capacity = q
      /\ g[second].capacity = h[a].capacity - q - HeaderSize
      /\ h[a].capacity - q - HeaderSize >= BlockMinCapacity
  BY DEF Divided
<1>1. \A y \in DOMAIN h : y \in Nat /\ h[y].capacity \in Nat
  BY DEF WellFormed, Headers, Header
<1>2. WellFormed(g)
  BY SplitWellFormed
<1>3. second = a + HeaderSize + q
  OBVIOUS
<1> HIDE DEF second
<1>4. ASSUME NEW x \in Int
      PROVE  x \in Occupied(g) <=> x \in Occupied(h)
  <2>1. x \in Occupied(h) <=> \E y \in DOMAIN h : y <= x /\ x < y + HeaderSize + h[y].capacity
    BY OccupiedBytes
  <2>2. x \in Occupied(g) <=> \E y \in DOMAIN g : y <= x /\ x < y + HeaderSize + g[y].capacity
    BY <1>2, OccupiedBytes
  <2>3. ASSUME NEW y \in DOMAIN g, y <= x, x < y + HeaderSize + g[y].capacity
        PROVE  \E z \in DOMAIN h : z <= x /\ x < z + HeaderSize + h[z].capacity
    <3>1. CASE y # a /\ y # second
      BY <3>1, <2>3, <1>0
    <3>2. CASE y = a \/ y = second
      <4>1. a <= x /\ x < a + HeaderSize + h[a].capacity
        BY <3>2, <2>3, <1>0, <1>1, <1>3, SizesAssumption
      <4>2. QED
        BY <4>1
    <3>3. QED
      BY <3>1, <3>2
  <2>4. ASSUME NEW y \in DOMAIN h, y <= x, x < y + HeaderSize + h[y].capacity
        PROVE  \E z \in DOMAIN g : z <= x /\ x < z + HeaderSize + g[z].capacity
    <3>1. CASE y # a
      BY <3>1, <2>4, <1>0
    <3>2. CASE y = a /\ x < second
      BY <3>2, <2>4, <1>0, <1>1, <1>3, SizesAssumption
    <3>3. CASE y = a /\ x >= second
      <4>1. second <= x /\ x < second + HeaderSize + g[second].capacity
        BY <3>3, <2>4, <1>0, <1>1, <1>3, SizesAssumption
      <4>2. QED
        BY <4>1, <1>0
    <3>4. QED
      BY <3>1, <3>2, <3>3, <1>1, <1>3, SizesAssumption
  <2>5. QED
    BY <2>1, <2>2, <2>3, <2>4
<1>5. QED
  BY <1>4, OccupiedInt

-----------------------------------------------------------------------------
(* Lemmas about new blocks and about marking a block.                      *)

\* g is h with a free block of size bytes at b, linked behind the block a.
Extended(h, a, b, size, g) ==
  /\ g = [x \in DOMAIN g |-> g[x]]
  /\ DOMAIN g = DOMAIN h \cup {b}
  /\ \A x \in DOMAIN h : x # a => g[x] = h[x]
  /\ g[a] = [next |-> b, capacity |-> h[a].capacity, is_free |-> h[a].is_free]
  /\ g[b] = [next |-> NULL, capacity |-> size - HeaderSize, is_free |-> TRUE]

\* That is what a new block and a link to it make.
LEMMA LinkShape ==
  ASSUME NEW h, WellFormed(h), NEW a \in DOMAIN h, NEW b, b \notin DOMAIN h, NEW size
  PROVE  Extended(h, a, b, size, [block_init(h, b, size, NULL) EXCEPT ![a].next = b])
<1> DEFINE f == block_init(h, b, size, NULL)
           g == [f EXCEPT ![a].next = b]
<1>1. /\ f = [x \in DOMAIN f |-> f[x]]
      /\ DOMAIN f = DOMAIN h \cup {b}
      /\ \A x \in DOMAIN h : f[x] = h[x]
      /\ f[b] = [next |-> NULL, capacity |-> size - HeaderSize, is_free |-> TRUE]
  BY DEF block_init
<1>2. h[a] \in Header
  BY DEF WellFormed, Headers
<1>3. g = [f EXCEPT ![a].next = b]
  OBVIOUS
<1> HIDE DEF f, g
<1>4. f[a] = [next |-> h[a].next, capacity |-> h[a].capacity, is_free |-> h[a].is_free]
  BY <1>1, <1>2 DEF Header
<1>5. g[a] = [next |-> b, capacity |-> h[a].capacity, is_free |-> h[a].is_free]
  BY <1>1, <1>3, <1>4
<1>6. Extended(h, a, b, size, g)
  BY <1>1, <1>3, <1>5 DEF Extended
<1>7. QED
  BY <1>6 DEF f, g

\* A block at the end of the list, away from all others, keeps the headers
\* well formed.
LEMMA ExtendWellFormed ==
  ASSUME NEW h, WellFormed(h), HEAP_START \in DOMAIN h,
         NEW a \in DOMAIN h, h[a].next = NULL,
         NEW b \in Nat \ {NULL}, b \notin DOMAIN h,
         NEW size \in Nat, size >= HeaderSize + BlockMinCapacity,
         \A x \in DOMAIN h : Apart(b, size, x, HeaderSize + h[x].capacity),
         NEW g, Extended(h, a, b, size, g)
  PROVE  WellFormed(g)
<1>0. /\ DOMAIN g = DOMAIN h \cup {b} /\ a # b
      /\ \A x \in DOMAIN h : x # a => g[x] = h[x]
      /\ g[a] = [next |-> b, capacity |-> h[a].capacity, is_free |-> h[a].is_free]
      /\ g[b] = [next |-> NULL, capacity |-> size - HeaderSize, is_free |-> TRUE]
  BY DEF Extended
<1>1. \A x \in DOMAIN h : /\ x \in Nat \ {NULL}
                          /\ h[x] \in Header
                          /\ h[x].next \in Nat
                          /\ h[x].capacity \in Nat
                          /\ h[x].is_free \in BOOLEAN
                          /\ h[x].capacity >= BlockMinCapacity
  BY DEF WellFormed, Headers, Header
<1>2. \A x \in DOMAIN h : g[x].capacity = h[x].capacity
  BY <1>0
<1>3. size - HeaderSize \in Nat /\ size - HeaderSize >= BlockMinCapacity
  BY SizesAssumption
<1>4. Headers(g)
  <2>1. g[a] \in Header /\ g[b] \in Header
    BY <1>0, <1>1, <1>3 DEF Header, NULL
  <2>2. g \in [DOMAIN g -> Header]
    BY <2>1, <1>0, <1>1 DEF Extended
  <2>3. \A x \in DOMAIN g : g[x].capacity >= BlockMinCapacity
    BY <1>0, <1>1, <1>2, <1>3
  <2>4. QED
    BY <2>2, <2>3, <1>0, <1>1 DEF Headers
<1>5. Disjoint(g)
  <2>1. \A x, y \in DOMAIN h :
          x # y => Apart(x, HeaderSize + h[x].capacity, y, HeaderSize + h[y].capacity)
    BY DEF WellFormed, Disjoint
  <2>2. HeaderSize + g[b].capacity = size
    BY <1>0, SizesAssumption
  <2>3. ASSUME NEW x \in DOMAIN h
        PROVE  /\ Apart(b, HeaderSize + g[b].capacity, x, HeaderSize + g[x].capacity)
               /\ Apart(x, HeaderSize + g[x].capacity, b, HeaderSize + g[b].capacity)
    BY <2>2, <1>2 DEF Apart
  <2>4. QED
    BY <2>1, <2>3, <1>0, <1>2 DEF Disjoint
<1>6. Linked(g)
  <2>1. /\ \A x \in DOMAIN h : h[x].next \in DOMAIN h \cup {NULL}
        /\ \A x, y \in DOMAIN h : x # y /\ h[x].next = h[y].next => h[x].next = NULL
        /\ \A x \in DOMAIN h : h[x].next # HEAP_START
    BY DEF WellFormed, Linked
  <2>2. \A x \in DOMAIN g : g[x].next = IF x = a THEN b
                                       ELSE IF x = b THEN NULL ELSE h[x].next
    BY <1>0
  <2>3. NULL # HEAP_START
    BY AddressesAssumption DEF NULL
  <2>4. QED
    BY <2>1, <2>2, <2>3, <1>0 DEF Linked
<1>7. QED
  BY <1>4, <1>5, <1>6 DEF WellFormed

\* The new block covers its region.
LEMMA ExtendOccupied ==
  ASSUME NEW h, WellFormed(h), NEW a \in DOMAIN h,
         NEW b \in Nat, b \notin DOMAIN h, NEW size \in Nat,
         NEW g, Extended(h, a, b, size, g)
  PROVE  Occupied(g) = Occupied(h) \cup (b..(b + size - 1))
<1>1. /\ DOMAIN g = DOMAIN h \cup {b}
      /\ \A x \in DOMAIN h : g[x].capacity = h[x].capacity
      /\ g[b].capacity = size - HeaderSize
  BY DEF Extended
<1>2. block_after(g, b) = b + size
  BY <1>1, SizesAssumption DEF block_after
<1>3. \A x \in DOMAIN h : block_after(g, x) = block_after(h, x)
  BY <1>1 DEF block_after
<1>4. QED
  BY <1>1, <1>2, <1>3 DEF Occupied

\* Marking a block free or taken changes neither list nor layout.
LEMMA Marking ==
  ASSUME NEW h, WellFormed(h), NEW a \in DOMAIN h, NEW free \in BOOLEAN
  PROVE  /\ WellFormed([h EXCEPT ![a].is_free = free])
         /\ Occupied([h EXCEPT ![a].is_free = free]) = Occupied(h)
<1> DEFINE g == [h EXCEPT ![a].is_free = free]
<1>1. \A x \in DOMAIN h : /\ x \in Nat \ {NULL}
                          /\ h[x] \in Header
                          /\ h[x].capacity >= BlockMinCapacity
  BY DEF WellFormed, Headers
<1>2. /\ g \in [DOMAIN h -> Header]
      /\ DOMAIN g = DOMAIN h
      /\ \A x \in DOMAIN h : g[x].next = h[x].next /\ g[x].capacity = h[x].capacity
  BY <1>1 DEF WellFormed, Headers, Header
<1> HIDE DEF g
<1>3. Headers(g)
  BY <1>1, <1>2 DEF Headers
<1>4. Disjoint(g) /\ Linked(g)
  BY <1>2 DEF WellFormed, Disjoint, Linked
<1>5. Occupied(g) = Occupied(h)
  BY <1>2 DEF Occupied, block_after
<1>6. QED
  BY <1>3, <1>4, <1>5 DEF WellFormed, g

-----------------------------------------------------------------------------
(* The inductive invariant holds initially and every step keeps it.        *)

LEMMA InitIInv == Init => IInv
<1> SUFFICES ASSUME Init PROVE IInv
  OBVIOUS
<1>1. /\ DOMAIN hdr = {} /\ DOMAIN regions = {} /\ DOMAIN live = {}
      /\ hdr = [a \in {} |-> NULL]
      /\ pc = "idle"
  BY DEF Init
<1>2. TypeOK
  <2>1. /\ hdr \in [DOMAIN hdr -> Header]
        /\ regions \in [DOMAIN regions -> Nat]
        /\ live \in [DOMAIN live -> 0..(SizeModulus - 1)]
    BY <1>1 DEF Init
  <2>2. 0 \in 0..(SizeModulus - 1)
    BY SizesAssumption
  <2>3. QED
    BY <1>1, <2>1, <2>2 DEF Init, TypeOK, NULL
<1>3. WellFormed(hdr)
  BY <1>1, <1>2 DEF WellFormed, Headers, Disjoint, Linked, TypeOK
<1>4. RegionsTiled
  BY <1>1 DEF RegionsTiled, Arena, Occupied
<1>5. LiveIntact /\ Position
  BY <1>1 DEF LiveIntact, Position
<1>6. QED
  BY <1>1, <1>2, <1>3, <1>4, <1>5 DEF IInv

\* The types that hdr has follow from its being well formed.
LEMMA HeaderTypes ==
  ASSUME NEW h, WellFormed(h)
  PROVE  /\ h \in [DOMAIN h -> Header]
         /\ DOMAIN h \subseteq Nat \ {NULL}
BY DEF WellFormed, Headers

\* A merge at cur, by the search or by _free.
LEMMA MergeKeepsIInv ==
  ASSUME IInv, pc \in {"find", "free"}, mergeable(hdr, cur),
         hdr' = merge_with_next(hdr, cur),
         UNCHANGED <<regions, foreign, heap, live, pc, cur, query, grown>>
  PROVE  IInv'
<1>1. /\ WellFormed(hdr) /\ cur \in DOMAIN hdr
  BY DEF IInv, Position
<1>2. Merged(hdr, cur, hdr')
  BY <1>1, MergeShape
<1>3. WellFormed(hdr')
  BY <1>1, <1>2, MergeWellFormed
<1>4. Occupied(hdr') = Occupied(hdr)
  BY <1>1, <1>2, MergeOccupied
<1> DEFINE n == hdr[cur].next
<1>5. /\ hdr[cur].is_free /\ hdr[n].is_free /\ n # cur /\ n \in DOMAIN hdr /\ n # HEAP_START
      /\ DOMAIN hdr' = DOMAIN hdr \ {n}
      /\ \A x \in DOMAIN hdr' : x # cur => hdr'[x] = hdr[x]
      /\ hdr'[cur].is_free
  BY <1>2 DEF Merged
<1> HIDE DEF n
<1>6. TypeOK'
  BY <1>3, HeaderTypes DEF IInv, TypeOK
<1>7. RegionsTiled'
  BY <1>4 DEF IInv, RegionsTiled, Arena
<1>8. LiveIntact'
  BY <1>5 DEF IInv, LiveIntact
<1>9. Position'
  BY <1>1, <1>5 DEF IInv, Position
<1>10. QED
  BY <1>3, <1>6, <1>7, <1>8, <1>9 DEF IInv

\* What the verdicts of find_good_or_last say of the block.
LEMMA Verdicts ==
  ASSUME NEW h, NEW a, a # NULL, NEW q
  PROVE  /\ verdict(h, a, q) = "continue" => h[a].next # NULL
         /\ verdict(h, a, q) = "BSR_FOUND_GOOD_BLOCK" => is_good(h, a, q)
         /\ verdict(h, a, q) = "BSR_REACHED_END_NOT_FOUND" => h[a].next = NULL
<1>1. CASE h[a].next = a
  BY <1>1 DEF verdict
<1>2. CASE h[a].next # a /\ is_good(h, a, q)
  BY <1>2 DEF verdict
<1>3. CASE h[a].next = NULL /\ ~is_good(h, a, q)
  BY <1>3 DEF verdict
<1>4. CASE h[a].next # NULL /\ h[a].next # a /\ ~is_good(h, a, q)
  BY <1>4 DEF verdict
<1>5. QED
  BY <1>1, <1>2, <1>3, <1>4

LEMMA FindNextKeepsIInv == IInv /\ FindNext => IInv'
<1> SUFFICES ASSUME IInv, FindNext PROVE IInv'
  OBVIOUS
<1>1. cur \in DOMAIN hdr /\ cur # NULL /\ WellFormed(hdr)
  BY DEF IInv, Position, FindNext, WellFormed, Headers
<1>2. hdr[cur].next # NULL
  BY <1>1, Verdicts DEF FindNext
<1>3. cur' \in DOMAIN hdr /\ cur' \in Nat
  BY <1>1, <1>2 DEF FindNext, WellFormed, Linked, Headers
<1>4. TypeOK' /\ Position'
  BY <1>3 DEF IInv, FindNext, TypeOK, Position
<1>5. RegionsTiled' /\ LiveIntact'
  BY DEF IInv, FindNext, RegionsTiled, Arena, LiveIntact
<1>6. QED
  BY <1>1, <1>4, <1>5 DEF IInv, FindNext

LEMMA FindFailsKeepsIInv == IInv /\ FindFails => IInv'
<1> SUFFICES ASSUME IInv, FindFails PROVE IInv'
  OBVIOUS
<1>1. cur \in DOMAIN hdr /\ cur # NULL /\ WellFormed(hdr)
  BY DEF IInv, Position, FindFails, WellFormed, Headers
<1>2. CASE pc' = "grow" /\ UNCHANGED <<cur, query, grown>> /\ hdr[cur].next = NULL
  BY <1>1, <1>2 DEF IInv, FindFails, TypeOK, Position, RegionsTiled, Arena, LiveIntact
<1>3. CASE Return
  <2>1. 0 \in 0..(SizeModulus - 1)
    BY SizesAssumption
  <2>2. TypeOK'
    BY <2>1, <1>3 DEF IInv, FindFails, Return, TypeOK, NULL
  <2>3. QED
    BY <2>2, <1>1, <1>3
       DEF IInv, FindFails, Return, Position, RegionsTiled, Arena, LiveIntact
<1>4. QED
  <2>1. verdict(hdr, cur, wanted) = "BSR_REACHED_END_NOT_FOUND" => hdr[cur].next = NULL
    BY <1>1, Verdicts
  <2>2. QED
    BY <1>2, <1>3, <2>1 DEF FindFails

\* What the search asks of a block is a natural number, at least the smallest
\* capacity and at least what the client asked.
LEMMA Wanted ==
  ASSUME TypeOK
  PROVE  wanted \in Nat /\ wanted >= BlockMinCapacity /\ wanted >= query
         /\ wanted = size_max(query, BlockMinCapacity)
BY SizesAssumption DEF TypeOK, wanted, size_max

LEMMA FindGoodKeepsIInv == IInv /\ FindGood => IInv'
<1> SUFFICES ASSUME IInv, FindGood PROVE IInv'
  OBVIOUS
<1> DEFINE g == split_if_too_big(hdr, cur, wanted)
<1>1. /\ WellFormed(hdr) /\ cur \in DOMAIN hdr /\ cur # NULL /\ HEAP_START \in DOMAIN hdr
      /\ TypeOK /\ pc = "find"
  BY DEF IInv, Position, FindGood, WellFormed, Headers
<1>2. wanted \in Nat /\ wanted >= BlockMinCapacity /\ wanted = size_max(query, BlockMinCapacity)
  BY <1>1, Wanted
<1>3. hdr[cur].is_free /\ hdr[cur].capacity >= wanted
  BY <1>1, Verdicts DEF FindGood, is_good
<1>4. /\ WellFormed(g)
      /\ Occupied(g) = Occupied(hdr)
      /\ DOMAIN hdr \subseteq DOMAIN g
      /\ \A x \in DOMAIN hdr : x # cur => g[x] = hdr[x]
      /\ \A x \in DOMAIN g \ DOMAIN hdr : g[x].is_free
      /\ g[cur].capacity >= wanted
  <2>1. CASE block_splittable(hdr, cur, wanted)
    <3>1. g = split(hdr, cur, wanted)
      BY <2>1 DEF split_if_too_big
    <3>2. Divided(hdr, cur, wanted, g)
      BY <2>1, <3>1, <1>1, <1>2, SplitShape
    <3>3. WellFormed(g) /\ Occupied(g) = Occupied(hdr)
      BY <3>2, <1>1, <1>2, SplitWellFormed, SplitOccupied
    <3> HIDE DEF g
    <3>4. QED
      BY <3>2, <3>3, <1>2 DEF Divided
  <2>2. CASE ~block_splittable(hdr, cur, wanted)
    BY <2>2, <1>1, <1>3 DEF split_if_too_big
  <2>3. QED
    BY <2>1, <2>2
<1>5. hdr' = [g EXCEPT ![cur].is_free = FALSE]
  BY DEF FindGood
<1> HIDE DEF g
<1>6. WellFormed(hdr') /\ Occupied(hdr') = Occupied(hdr)
  BY <1>1, <1>4, <1>5, Marking
<1>7. /\ DOMAIN hdr' = DOMAIN g
      /\ \A x \in DOMAIN g : x # cur => hdr'[x] = g[x]
      /\ ~hdr'[cur].is_free
      /\ hdr'[cur].capacity >= wanted
  <2>1. g[cur] \in Header
    BY <1>1, <1>4, HeaderTypes
  <2>2. g \in [DOMAIN g -> Header]
    BY <1>4, HeaderTypes
  <2>3. QED
    BY <2>1, <2>2, <1>1, <1>4, <1>5 DEF Header
<1>8. live' = [a \in DOMAIN live \cup {cur} |-> IF a = cur THEN query ELSE live[a]]
  BY DEF FindGood
<1>9. TypeOK'
  <2>1. 0 \in 0..(SizeModulus - 1)
    BY SizesAssumption
  <2>2. live' \in [DOMAIN live' -> 0..(SizeModulus - 1)]
    BY <1>1, <1>8 DEF TypeOK
  <2>3. hdr' \in [DOMAIN hdr' -> Header] /\ DOMAIN hdr' \subseteq Nat \ {NULL}
    BY <1>6, HeaderTypes
  <2>4. QED
    BY <2>1, <2>2, <2>3, <1>1 DEF FindGood, Return, TypeOK, NULL
<1>10. RegionsTiled'
  BY <1>6 DEF IInv, FindGood, RegionsTiled, Arena
<1>11. LiveIntact'
  <2>1. /\ DOMAIN live = {a \in DOMAIN hdr : ~hdr[a].is_free}
        /\ \A a \in DOMAIN live : hdr[a].capacity >= size_max(live[a], BlockMinCapacity)
    BY DEF IInv, LiveIntact
  <2>2. DOMAIN live' = {a \in DOMAIN hdr' : ~hdr'[a].is_free}
    BY <2>1, <1>1, <1>4, <1>7, <1>8
  <2>3. \A a \in DOMAIN live' : hdr'[a].capacity >= size_max(live'[a], BlockMinCapacity)
    BY <2>1, <1>1, <1>2, <1>3, <1>4, <1>7, <1>8
  <2>4. QED
    BY <2>2, <2>3 DEF LiveIntact
<1>12. Position'
  BY <1>1 DEF IInv, Position, FindGood, Return
<1>13. QED
  BY <1>6, <1>9, <1>10, <1>11, <1>12 DEF IInv, FindGood

\* What mmap grants lies apart from every block.
LEMMA PlacementApart ==
  ASSUME IInv, NEW size \in Nat, size > 0, NEW addr, NEW a \in Placements(addr, size)
  PROVE  /\ a \in Nat \ {NULL}
         /\ a \notin DOMAIN hdr
         /\ a \notin DOMAIN regions
         /\ \A b \in DOMAIN hdr : Apart(a, size, b, HeaderSize + hdr[b].capacity)
<1>1. /\ a \in Nat \ {NULL}
      /\ \A r \in DOMAIN regions : Apart(a, size, r, regions[r])
  BY AddressesAssumption DEF Placements, Fits
<1>2. /\ \A r \in DOMAIN regions : r \in Nat /\ regions[r] \in Nat /\ regions[r] > 0
      /\ \A b \in DOMAIN hdr : b \in Nat /\ hdr[b].capacity \in Nat
      /\ WellFormed(hdr)
  BY DEF IInv, TypeOK, WellFormed, Headers, Header
<1>3. ASSUME NEW b \in DOMAIN hdr
      PROVE  Apart(a, size, b, HeaderSize + hdr[b].capacity)
  <2>1. SUFFICES ASSUME a + size > b, b + HeaderSize + hdr[b].capacity > a PROVE FALSE
    BY <1>1, <1>2, SizesAssumption DEF Apart
  <2>2. PICK x \in Nat : /\ a <= x /\ x < a + size
                         /\ b <= x /\ x < b + HeaderSize + hdr[b].capacity
    <3>1. CASE a <= b
      BY <3>1, <2>1, <1>1, <1>2, SizesAssumption
    <3>2. CASE b < a
      BY <3>2, <2>1, <1>1, <1>2, SizesAssumption
    <3>3. QED
      BY <3>1, <3>2, <1>1, <1>2
  <2>3. x \in Arena
    BY <2>2, <1>2, OccupiedBytes DEF IInv, RegionsTiled
  <2>4. PICK r \in DOMAIN regions : r <= x /\ x < r + regions[r]
    BY <2>3, <1>2 DEF Arena
  <2>5. QED
    BY <2>2, <2>4, <1>1, <1>2 DEF Apart
<1>4. a \notin DOMAIN regions
  BY <1>1, <1>2 DEF Apart
<1>5. a \notin DOMAIN hdr
  BY <1>1, <1>2, <1>3, SizesAssumption DEF Apart
<1>6. QED
  BY <1>1, <1>3, <1>4, <1>5

\* Mapping a region adds its bytes to the arena.
LEMMA MapRegion ==
  ASSUME IInv, NEW size \in Nat, size > 0, NEW addr, NEW a \in Placements(addr, size), map_region(a, size)
  PROVE  /\ regions' \in [DOMAIN regions' -> Nat]
         /\ DOMAIN regions' \subseteq Nat \ {NULL}
         /\ \A r \in DOMAIN regions' : regions'[r] > 0
         /\ Arena' = Arena \cup (a..(a + size - 1))
<1>1. a \in Nat \ {NULL} /\ a \notin DOMAIN regions
  BY PlacementApart
<1>2. regions' = [r \in DOMAIN regions \cup {a} |-> IF r = a THEN size ELSE regions[r]]
  BY DEF map_region
<1>3. /\ regions \in [DOMAIN regions -> Nat]
      /\ DOMAIN regions \subseteq Nat \ {NULL}
      /\ \A r \in DOMAIN regions : regions[r] > 0
  BY DEF IInv, TypeOK
<1>4. Arena' = Arena \cup (a..(a + size - 1))
  <2>1. /\ DOMAIN regions' = DOMAIN regions \cup {a} /\ regions'[a] = size
        /\ \A r \in DOMAIN regions : regions'[r] = regions[r]
    BY <1>1, <1>2
  <2>2. Arena' = UNION {r..(r + regions'[r] - 1) : r \in DOMAIN regions'}
    BY DEF Arena
  <2> QED
    BY <2>1, <2>2, Zenon DEF Arena
<1>5. QED
  BY <1>1, <1>2, <1>3, <1>4

LEMMA HeapInitKeepsIInv ==
  ASSUME IInv, NEW initial \in InitialSizes, heap_init(initial)
  PROVE  IInv'
<1> DEFINE size == region_actual_size(size_from_capacity(initial))
<1>1. initial \in Nat
  BY ClientAssumption, SizesAssumption
<1>2. size \in Nat /\ size >= HeaderSize + BlockMinCapacity /\ size > 0
  BY <1>1, WrappedSize, RegionSize, SizesAssumption
<1> HIDE DEF size
<1>3. PICK a \in Placements(HEAP_START, size) :
        /\ map_region(a, size)
        /\ hdr' = block_init(hdr, a, size, NULL)
        /\ heap' = a
  BY DEF heap_init, size
<1>4. /\ heap = NULL /\ pc = "idle" /\ DOMAIN hdr = {} /\ DOMAIN live = {}
      /\ UNCHANGED <<foreign, live, pc, cur, query, grown>>
  BY DEF heap_init, IInv, Position, LiveIntact
<1>5. a \in Nat \ {NULL}
  BY <1>2, PlacementApart
<1>6. hdr' = [x \in {a} |-> [next |-> NULL, capacity |-> size - HeaderSize, is_free |-> TRUE]]
  BY <1>3, <1>4 DEF block_init
<1>7. size - HeaderSize \in Nat /\ size - HeaderSize >= BlockMinCapacity
  BY <1>2, SizesAssumption
<1>8. WellFormed(hdr')
  <2>1. Headers(hdr')
    BY <1>5, <1>6, <1>7 DEF Headers, Header, NULL
  <2>2. Disjoint(hdr') /\ Linked(hdr')
    BY <1>6, AddressesAssumption DEF Disjoint, Linked, NULL
  <2>3. QED
    BY <2>1, <2>2 DEF WellFormed
<1>9. RegionsTiled'
  <2>1. Occupied(hdr) = {}
    BY <1>4 DEF Occupied
  <2>2. Arena' = a..(a + size - 1)
    BY <2>1, <1>2, <1>3, MapRegion DEF IInv, RegionsTiled
  <2>3. Occupied(hdr') = a..(a + size - 1)
    <3>1. DOMAIN hdr' = {a}
      BY <1>6
    <3>2. hdr'[a].capacity = size - HeaderSize
      BY <1>6
    <3>3. \A x \in Int : x \in Occupied(hdr') <=> a <= x /\ x < a + HeaderSize + hdr'[a].capacity
      BY <3>1, <1>8, OccupiedBytes
    <3>4. a + HeaderSize + hdr'[a].capacity = a + size
      BY <3>2, <1>2, <1>5, SizesAssumption
    <3>5. \A x \in Int : x \in Occupied(hdr') <=> x \in a..(a + size - 1)
      BY <3>3, <3>4, <1>2, <1>5
    <3>6. Occupied(hdr') \subseteq Int /\ a..(a + size - 1) \subseteq Int
      BY <1>2, <1>5, OccupiedInt
    <3>7. QED
      BY <3>5, <3>6, Zenon
  <2>4. QED
    BY <2>2, <2>3 DEF RegionsTiled
<1>10. TypeOK' /\ \A r \in DOMAIN regions' : regions'[r] > 0
  <2>1. /\ regions' \in [DOMAIN regions' -> Nat]
        /\ DOMAIN regions' \subseteq Nat \ {NULL}
        /\ \A r \in DOMAIN regions' : regions'[r] > 0
    BY <1>2, <1>3, MapRegion
  <2>2. hdr' \in [DOMAIN hdr' -> Header] /\ DOMAIN hdr' \subseteq Nat \ {NULL}
    BY <1>8, HeaderTypes
  <2>3. QED
    BY <2>1, <2>2, <1>3, <1>4, <1>5 DEF IInv, TypeOK
<1>11. LiveIntact' /\ Position'
  BY <1>3, <1>4, <1>5, <1>6 DEF LiveIntact, Position
<1>12. QED
  BY <1>8, <1>9, <1>10, <1>11 DEF IInv

LEMMA GrowHeapKeepsIInv == IInv /\ grow_heap => IInv'
<1> SUFFICES ASSUME IInv, grow_heap PROVE IInv'
  OBVIOUS
<1> DEFINE size == grow_size
<1>1. /\ WellFormed(hdr) /\ cur \in DOMAIN hdr /\ HEAP_START \in DOMAIN hdr
      /\ hdr[cur].next = NULL /\ TypeOK
  BY DEF IInv, Position, grow_heap
<1>2. size \in Nat /\ size >= HeaderSize + BlockMinCapacity /\ size > 0
  <2>1. query \in Nat
    BY <1>1, SizesAssumption DEF TypeOK
  <2>2. QED
    BY <2>1, WrappedSize, RegionSize, SizesAssumption DEF grow_size
<1> HIDE DEF size
<1>3. PICK a \in Placements(block_after(hdr, cur), size) : map_region(a, size) /\ hdr' = linked(a)
  BY DEF grow_heap, size
<1>4. /\ a \in Nat \ {NULL}
      /\ a \notin DOMAIN hdr
      /\ \A b \in DOMAIN hdr : Apart(a, size, b, HeaderSize + hdr[b].capacity)
  BY <1>2, PlacementApart
<1> DEFINE h == [block_init(hdr, a, size, NULL) EXCEPT ![cur].next = a]
<1>5. Extended(hdr, cur, a, size, h)
  BY <1>1, <1>4, LinkShape
<1>6. hdr' = IF a = block_after(hdr, cur) /\ hdr[cur].is_free THEN try_merge_with_next(h, cur) ELSE h
  BY <1>3 DEF linked, size
<1> HIDE DEF h
<1>7. WellFormed(h)
  BY <1>1, <1>2, <1>4, <1>5, ExtendWellFormed
<1>8. Occupied(h) = Occupied(hdr) \cup (a..(a + size - 1))
  BY <1>1, <1>2, <1>4, <1>5, ExtendOccupied
<1>9. /\ cur \in DOMAIN h /\ h[cur].next = a /\ h[cur].is_free = hdr[cur].is_free
      /\ DOMAIN h = DOMAIN hdr \cup {a}
      /\ \A x \in DOMAIN hdr : h[x].is_free = hdr[x].is_free /\ h[x].capacity = hdr[x].capacity
      /\ h[a].is_free
  BY <1>1, <1>5 DEF Extended
<1>10. \/ hdr' = h
       \/ mergeable(h, cur) /\ hdr' = merge_with_next(h, cur)
  BY <1>6 DEF try_merge_with_next
<1>11. /\ WellFormed(hdr')
       /\ Occupied(hdr') = Occupied(h)
       /\ DOMAIN hdr \subseteq DOMAIN hdr' /\ DOMAIN hdr' \subseteq DOMAIN h
       /\ \A x \in DOMAIN hdr' : /\ hdr'[x].is_free = h[x].is_free
                                 /\ ~h[x].is_free => hdr'[x].capacity = h[x].capacity
  <2>1. CASE hdr' = h
    BY <2>1, <1>7, <1>9
  <2>2. CASE mergeable(h, cur) /\ hdr' = merge_with_next(h, cur)
    <3>1. Merged(h, cur, hdr')
      BY <2>2, <1>7, <1>9, MergeShape
    <3>2. WellFormed(hdr') /\ Occupied(hdr') = Occupied(h)
      BY <3>1, <1>7, <1>9, MergeWellFormed, MergeOccupied
    <3>3. /\ DOMAIN hdr' = DOMAIN h \ {a}
          /\ \A x \in DOMAIN hdr' : x # cur => hdr'[x] = h[x]
          /\ hdr'[cur].is_free = h[cur].is_free
          /\ h[cur].is_free
      BY <3>1, <1>9 DEF Merged
    <3>4. DOMAIN hdr' = DOMAIN hdr
      BY <3>3, <1>4, <1>9
    <3>5. QED
      BY <3>2, <3>3, <3>4, <1>9
  <2>3. QED
    BY <1>10, <2>1, <2>2
<1>12. TypeOK' /\ \A r \in DOMAIN regions' : regions'[r] > 0
  <2>1. /\ regions' \in [DOMAIN regions' -> Nat]
        /\ DOMAIN regions' \subseteq Nat \ {NULL}
        /\ \A r \in DOMAIN regions' : regions'[r] > 0
    BY <1>2, <1>3, MapRegion
  <2>2. hdr' \in [DOMAIN hdr' -> Header] /\ DOMAIN hdr' \subseteq Nat \ {NULL}
    BY <1>11, HeaderTypes
  <2>3. QED
    BY <2>1, <2>2, <1>1, AddressesAssumption DEF grow_heap, TypeOK
<1>13. RegionsTiled'
  BY <1>2, <1>3, <1>8, <1>11, MapRegion DEF IInv, RegionsTiled
<1>14. LiveIntact'
  <2>1. /\ DOMAIN live = {x \in DOMAIN hdr : ~hdr[x].is_free}
        /\ \A x \in DOMAIN live : hdr[x].capacity >= size_max(live[x], BlockMinCapacity)
        /\ live' = live
    BY DEF IInv, LiveIntact, grow_heap
  <2>2. DOMAIN live' = {x \in DOMAIN hdr' : ~hdr'[x].is_free}
    BY <2>1, <1>9, <1>11
  <2>3. \A x \in DOMAIN live' : hdr'[x].capacity = hdr[x].capacity
    BY <2>1, <1>9, <1>11
  <2>4. QED
    BY <2>1, <2>2, <2>3 DEF LiveIntact
<1>15. Position'
  BY <1>1, <1>11 DEF IInv, Position, grow_heap
<1>16. QED
  BY <1>11, <1>12, <1>13, <1>14, <1>15 DEF IInv

LEMMA FreeKeepsIInv ==
  ASSUME IInv, NEW a \in DOMAIN live, _free(a)
  PROVE  IInv'
<1>1. /\ WellFormed(hdr) /\ TypeOK /\ a \in DOMAIN hdr
      /\ DOMAIN live = {x \in DOMAIN hdr : ~hdr[x].is_free}
      /\ \A x \in DOMAIN live : hdr[x].capacity >= size_max(live[x], BlockMinCapacity)
  BY DEF IInv, LiveIntact
<1>2. /\ hdr' = [hdr EXCEPT ![a].is_free = TRUE]
      /\ live' = [x \in DOMAIN live \ {a} |-> live[x]]
  BY DEF _free
<1>3. WellFormed(hdr') /\ Occupied(hdr') = Occupied(hdr)
  BY <1>1, <1>2, Marking
<1>4. /\ DOMAIN hdr' = DOMAIN hdr
      /\ \A x \in DOMAIN hdr : x # a => hdr'[x] = hdr[x]
      /\ hdr'[a].is_free
  <2>1. hdr \in [DOMAIN hdr -> Header]
    BY <1>1, HeaderTypes
  <2>2. hdr[a] \in Header
    BY <2>1, <1>1
  <2>3. QED
    BY <2>1, <2>2, <1>1, <1>2 DEF Header
<1>5. TypeOK'
  <2>1. hdr' \in [DOMAIN hdr' -> Header] /\ DOMAIN hdr' \subseteq Nat \ {NULL}
    BY <1>3, HeaderTypes
  <2>2. live' \in [DOMAIN live' -> 0..(SizeModulus - 1)]
    BY <1>1, <1>2 DEF TypeOK
  <2>3. a \in Nat
    BY <1>1, HeaderTypes
  <2>4. QED
    BY <2>1, <2>2, <2>3, <1>1 DEF _free, TypeOK
<1>6. RegionsTiled'
  BY <1>3 DEF IInv, RegionsTiled, Arena, _free
<1>7. LiveIntact'
  BY <1>1, <1>2, <1>4 DEF LiveIntact
<1>8. Position'
  BY <1>1, <1>4 DEF IInv, Position, _free
<1>9. QED
  BY <1>3, <1>5, <1>6, <1>7, <1>8 DEF IInv, _free

LEMMA MallocKeepsIInv ==
  ASSUME IInv, NEW q \in Queries, _malloc(q)
  PROVE  IInv'
<1>1. q \in 0..(SizeModulus - 1) /\ HEAP_START \in Nat
  BY ClientAssumption, AddressesAssumption
<1>2. TypeOK'
  BY <1>1 DEF IInv, TypeOK, _malloc
<1>3. Position'
  BY DEF IInv, Position, _malloc
<1>4. QED
  BY <1>2, <1>3 DEF IInv, _malloc, RegionsTiled, Arena, LiveIntact

\* The steps that only end a call.
LEMMA ReturnKeepsIInv == IInv /\ (GrowFails \/ FreeReturn) => IInv'
<1> SUFFICES ASSUME IInv, GrowFails \/ FreeReturn PROVE IInv'
  OBVIOUS
<1>1. Return /\ UNCHANGED <<hdr, regions, foreign, heap, live>> /\ pc \in {"grow", "free"}
  BY DEF GrowFails, FreeReturn
<1>2. 0 \in 0..(SizeModulus - 1)
  BY SizesAssumption
<1>3. TypeOK'
  BY <1>1, <1>2 DEF IInv, TypeOK, Return, NULL
<1>4. Position'
  BY <1>1 DEF IInv, Position, Return
<1>5. QED
  BY <1>1, <1>3, <1>4 DEF IInv, RegionsTiled, Arena, LiveIntact

LEMMA OthersKeepIInv == IInv /\ Others => IInv'
<1> SUFFICES ASSUME IInv, NEW f \in OtherPages, OthersMap(f) \/ OthersUnmap(f) PROVE IInv'
  BY DEF Others
<1>1. /\ UNCHANGED <<hdr, regions, heap, live, pc, cur, query, grown>>
      /\ foreign' \in {foreign \cup {f}, foreign \ {f}}
  BY DEF OthersMap, OthersUnmap
<1>2. TypeOK'
  BY <1>1 DEF IInv, TypeOK
<1>3. QED
  BY <1>1, <1>2 DEF IInv, RegionsTiled, Arena, LiveIntact, Position

LEMMA StepKeepsIInv == IInv /\ [Next]_vars => IInv'
<1> SUFFICES ASSUME IInv, [Next]_vars PROVE IInv'
  OBVIOUS
<1>1. CASE FindMerge \/ FreeMerge
  BY <1>1, MergeKeepsIInv DEF FindMerge, FreeMerge
<1>2. CASE FindNext
  BY <1>2, FindNextKeepsIInv
<1>3. CASE FindGood
  BY <1>3, FindGoodKeepsIInv
<1>4. CASE FindFails
  BY <1>4, FindFailsKeepsIInv
<1>5. CASE grow_heap
  BY <1>5, GrowHeapKeepsIInv
<1>6. CASE GrowFails \/ FreeReturn
  BY <1>6, ReturnKeepsIInv
<1>7. ASSUME NEW s \in InitialSizes, heap_init(s) PROVE IInv'
  BY <1>7, HeapInitKeepsIInv
<1>8. ASSUME NEW q \in Queries, _malloc(q) PROVE IInv'
  BY <1>8, MallocKeepsIInv
<1>9. ASSUME NEW a \in DOMAIN live, _free(a) PROVE IInv'
  BY <1>9, FreeKeepsIInv
<1>10. CASE Others
  BY <1>10, OthersKeepIInv
<1>11. CASE UNCHANGED vars
  BY <1>11 DEF vars, IInv, TypeOK, RegionsTiled, Arena, LiveIntact, Position
<1>12. QED
  BY <1>1, <1>2, <1>3, <1>4, <1>5, <1>6, <1>7, <1>8, <1>9, <1>10, <1>11
     DEF Next, Allocator, Find, Client

LEMMA Inductive == Spec => []IInv
<1>1. Init => IInv
  BY InitIInv
<1>2. IInv /\ [Next]_vars => IInv'
  BY StepKeepsIInv
<1>3. QED
  BY <1>1, <1>2, PTL DEF Spec

-----------------------------------------------------------------------------
(* The theorems.                                                           *)

\* Type correctness of the allocator: no capacity ever wraps below zero, and
\* cur is an address.
THEOREM Typed == Spec => []TypeOK
<1>1. IInv => TypeOK
  BY DEF IInv
<1>2. QED
  BY <1>1, Inductive, PTL

\* However blocks are split, merged and linked (mem.c:92-129, 193-209), no two
\* of them share a byte.
THEOREM Apartness == Spec => []BlocksApart
<1>1. IInv => BlocksApart
  BY DEF IInv, WellFormed, Disjoint, BlocksApart, BlockSize
<1>2. QED
  BY <1>1, Inductive, PTL

\* The blocks fill the regions of the heap exactly (README.md:33).
THEOREM Tiling == Spec => []RegionsTiled
<1>1. IInv => RegionsTiled
  BY DEF IInv
<1>2. QED
  BY <1>1, Inductive, PTL

\* The taken blocks are exactly those the client holds, each large enough.
THEOREM Ownership == Spec => []LiveIntact
<1>1. IInv => LiveIntact
  BY DEF IInv
<1>2. QED
  BY <1>1, Inductive, PTL

-----------------------------------------------------------------------------
(* What a step does to the blocks that the client holds.                   *)

\* The block a keeps its place and its capacity in this step.
Stays(a) == a \in DOMAIN hdr' /\ hdr'[a].capacity = hdr[a].capacity

LEMMA MergeStays ==
  ASSUME IInv, pc \in {"find", "free"}, mergeable(hdr, cur),
         hdr' = merge_with_next(hdr, cur), NEW a \in DOMAIN live
  PROVE  Stays(a)
<1>1. WellFormed(hdr) /\ cur \in DOMAIN hdr /\ a \in DOMAIN hdr /\ ~hdr[a].is_free
  BY DEF IInv, Position, LiveIntact
<1>2. Merged(hdr, cur, hdr')
  BY <1>1, MergeShape
<1>3. QED
  BY <1>1, <1>2 DEF Merged, Stays

LEMMA FindGoodStays ==
  ASSUME IInv, FindGood, NEW a \in DOMAIN live
  PROVE  Stays(a) /\ a # cur
<1> DEFINE g == split_if_too_big(hdr, cur, wanted)
<1>1. /\ WellFormed(hdr) /\ cur \in DOMAIN hdr /\ cur # NULL /\ TypeOK
      /\ a \in DOMAIN hdr /\ ~hdr[a].is_free
  BY DEF IInv, Position, LiveIntact, FindGood, WellFormed, Headers
<1>2. wanted \in Nat
  BY <1>1, Wanted
<1>3. a # cur
  BY <1>1, Verdicts DEF FindGood, is_good
<1>4. a \in DOMAIN g /\ g[a] = hdr[a]
  <2>1. CASE block_splittable(hdr, cur, wanted)
    <3>1. g = split(hdr, cur, wanted)
      BY <2>1 DEF split_if_too_big
    <3>2. Divided(hdr, cur, wanted, g)
      BY <2>1, <3>1, <1>1, <1>2, SplitShape
    <3> HIDE DEF g
    <3>3. QED
      BY <3>2, <1>1, <1>3 DEF Divided
  <2>2. CASE ~block_splittable(hdr, cur, wanted)
    BY <2>2, <1>1 DEF split_if_too_big
  <2>3. QED
    BY <2>1, <2>2
<1>5. hdr' = [g EXCEPT ![cur].is_free = FALSE]
  BY DEF FindGood
<1> HIDE DEF g
<1>6. QED
  BY <1>3, <1>4, <1>5 DEF Stays

LEMMA GrowHeapStays ==
  ASSUME IInv, grow_heap, NEW b \in DOMAIN live
  PROVE  Stays(b)
<1>1. /\ cur \in DOMAIN hdr /\ b \in DOMAIN hdr /\ ~hdr[b].is_free /\ TypeOK
  BY DEF IInv, Position, LiveIntact, grow_heap
<1>2. grow_size \in Nat /\ grow_size > 0
  BY <1>1, WrappedSize, RegionSize, SizesAssumption DEF TypeOK, grow_size
<1>3. PICK a \in Placements(block_after(hdr, cur), grow_size) : hdr' = linked(a)
  BY DEF grow_heap
<1>4. a \notin DOMAIN hdr
  BY <1>2, PlacementApart
<1> DEFINE h == [block_init(hdr, a, grow_size, NULL) EXCEPT ![cur].next = a]
<1>5. b \in DOMAIN h /\ h[b].capacity = hdr[b].capacity /\ b # a
  <2>1. /\ DOMAIN block_init(hdr, a, grow_size, NULL) = DOMAIN hdr \cup {a}
        /\ \A x \in DOMAIN hdr : block_init(hdr, a, grow_size, NULL)[x] = hdr[x]
    BY <1>4 DEF block_init
  <2>2. CASE b = cur
    <3>1. hdr[b] \in Header
      BY <1>1 DEF TypeOK
    <3>2. h[b] = [hdr[b] EXCEPT !.next = a]
      BY <2>1, <2>2, <1>1
    <3>3. h[b].capacity = hdr[b].capacity
      BY <3>1, <3>2 DEF Header
    <3>4. QED
      BY <3>3, <2>1, <1>1, <1>4
  <2>3. CASE b # cur
    BY <2>1, <2>3, <1>1, <1>4
  <2>4. QED
    BY <2>2, <2>3
<1>6. cur \in DOMAIN h /\ h[cur].next = a
  <2>1. /\ DOMAIN block_init(hdr, a, grow_size, NULL) = DOMAIN hdr \cup {a}
        /\ block_init(hdr, a, grow_size, NULL)[cur] = hdr[cur]
    BY <1>1, <1>4 DEF block_init
  <2>2. hdr[cur] \in Header
    BY <1>1 DEF TypeOK
  <2>3. h[cur] = [hdr[cur] EXCEPT !.next = a]
    BY <2>1, <1>1
  <2>4. QED
    BY <2>1, <2>2, <2>3, <1>1 DEF Header
<1>7. hdr' = IF a = block_after(hdr, cur) /\ hdr[cur].is_free THEN try_merge_with_next(h, cur) ELSE h
  BY <1>3 DEF linked
<1> HIDE DEF h
<1>8. CASE hdr' = h
  BY <1>5, <1>8 DEF Stays
<1>9. CASE hdr[cur].is_free /\ hdr' = merge_with_next(h, cur)
  <2>1. b # cur
    BY <1>1, <1>9
  <2>2. DOMAIN hdr' = DOMAIN h \ {a} /\ \A x \in DOMAIN hdr' : x # cur => hdr'[x] = h[x]
    BY <1>6, <1>9 DEF merge_with_next
  <2>3. QED
    BY <2>1, <2>2, <1>5 DEF Stays
<1>10. QED
  BY <1>7, <1>8, <1>9 DEF try_merge_with_next

\* No step moves or resizes a block that the client holds.
LEMMA LiveStays ==
  ASSUME IInv, [Next]_vars, NEW a \in DOMAIN live
  PROVE  Stays(a) /\ (a \in DOMAIN live' => live'[a] = live[a])
<1>1. a \in DOMAIN hdr /\ hdr \in [DOMAIN hdr -> Header]
  BY DEF IInv, LiveIntact, TypeOK
<1>2. CASE FindMerge \/ FreeMerge
  BY <1>2, MergeStays DEF FindMerge, FreeMerge
<1>3. CASE FindGood
  BY <1>3, FindGoodStays DEF FindGood
<1>4. CASE grow_heap
  BY <1>4, GrowHeapStays DEF grow_heap
<1>5. ASSUME NEW b \in DOMAIN live, _free(b) PROVE Stays(a) /\ (a \in DOMAIN live' => live'[a] = live[a])
  <2>1. hdr' = [hdr EXCEPT ![b].is_free = TRUE] /\ live' = [x \in DOMAIN live \ {b} |-> live[x]]
    BY <1>5 DEF _free
  <2>2. hdr[a] \in Header
    BY <1>1
  <2>3. QED
    BY <2>1, <2>2, <1>1 DEF Stays, Header
<1>6. ASSUME NEW s \in InitialSizes, heap_init(s) PROVE Stays(a) /\ (a \in DOMAIN live' => live'[a] = live[a])
  <2>1. DOMAIN hdr = {}
    BY <1>6 DEF heap_init, IInv, Position
  <2>2. QED
    BY <2>1, <1>1
<1>7. CASE UNCHANGED <<hdr, live>>
  BY <1>1, <1>7 DEF Stays
<1>8. QED
  BY <1>2, <1>3, <1>4, <1>5, <1>6, <1>7
     DEF Next, Allocator, Find, Client, Others, vars, FindNext, FindFails, GrowFails,
         FreeReturn, _malloc, OthersMap, OthersUnmap

\* What the client holds is never moved, resized or written over with a header.
THEOREM Stability == Spec => LiveStable
<1> DEFINE Step == \A a \in DOMAIN live :
        /\ a \in DOMAIN hdr'
        /\ hdr'[a].capacity = hdr[a].capacity
        /\ a \in DOMAIN live' => live'[a] = live[a] /\ ~hdr'[a].is_free
        /\ \A x \in DOMAIN hdr' : x <= a \/ x >= block_after(hdr, a)
<1>1. IInv /\ IInv' /\ [Next]_vars => Step
  <2> SUFFICES ASSUME IInv, IInv', [Next]_vars, NEW a \in DOMAIN live
               PROVE  /\ a \in DOMAIN hdr'
                      /\ hdr'[a].capacity = hdr[a].capacity
                      /\ a \in DOMAIN live' => live'[a] = live[a] /\ ~hdr'[a].is_free
                      /\ \A x \in DOMAIN hdr' : x <= a \/ x >= block_after(hdr, a)
    OBVIOUS
  <2>1. Stays(a) /\ (a \in DOMAIN live' => live'[a] = live[a])
    BY LiveStays
  <2>2. a \in DOMAIN live' => ~hdr'[a].is_free
    BY DEF IInv, LiveIntact
  <2>3. ASSUME NEW x \in DOMAIN hdr' PROVE x <= a \/ x >= block_after(hdr, a)
    <3>1. /\ x \in Nat /\ hdr'[x].capacity \in Nat
          /\ a \in Nat /\ hdr'[a].capacity \in Nat
      BY <2>1 DEF IInv, WellFormed, Headers, Header, Stays
    <3>2. x # a => Apart(x, HeaderSize + hdr'[x].capacity, a, HeaderSize + hdr'[a].capacity)
      BY <2>1 DEF IInv, WellFormed, Disjoint, Stays
    <3>3. QED
      BY <2>1, <3>1, <3>2, SizesAssumption DEF Apart, block_after, Stays
  <2>4. QED
    BY <2>1, <2>2, <2>3 DEF Stays
<1>2. QED
  BY <1>1, Inductive, PTL DEF Spec, LiveStable

-----------------------------------------------------------------------------
(* The allocator implements HeapSpec.                                      *)

LEMMA OwnedShape ==
  ASSUME IInv
  PROVE  /\ DOMAIN Owned = {a + HeaderSize : a \in DOMAIN live}
         /\ \A a \in DOMAIN live :
              Owned[a + HeaderSize] = [len |-> hdr[a].capacity, asked |-> live[a]]
<1>1. \A a \in DOMAIN live : a \in Nat /\ (a + HeaderSize) - HeaderSize = a
  BY SizesAssumption DEF IInv, LiveIntact, TypeOK
<1>2. QED
  BY <1>1 DEF Owned

\* A step that leaves live alone leaves the ranges granted as they are.
LEMMA OwnedStays ==
  ASSUME IInv, [Next]_vars, UNCHANGED live
  PROVE  Owned' = Owned
<1>1. \A a \in DOMAIN live : hdr'[a].capacity = hdr[a].capacity
  BY LiveStays DEF Stays
<1>2. \A a \in DOMAIN live : (a + HeaderSize) - HeaderSize = a
  BY SizesAssumption DEF IInv, LiveIntact, TypeOK
<1>3. \A p \in {a + HeaderSize : a \in DOMAIN live} :
        hdr'[p - HeaderSize].capacity = hdr[p - HeaderSize].capacity
  BY <1>1, <1>2
<1>4. QED
  BY <1>3 DEF Owned

\* A new region makes the arena larger.
LEMMA MapExtends ==
  ASSUME IInv, NEW size \in Nat, size > 0, NEW addr, NEW a \in Placements(addr, size), map_region(a, size)
  PROVE  Arena \subseteq Arena' /\ Arena # Arena'
<1>1. a \in Nat /\ Arena' = Arena \cup (a..(a + size - 1))
  BY PlacementApart, MapRegion
<1>2. a \in Arena'
  BY <1>1
<1>3. a \notin Arena
  <2>1. \A r \in DOMAIN regions : Apart(a, size, r, regions[r]) /\ r \in Nat /\ regions[r] \in Nat
    BY DEF Placements, Fits, IInv, TypeOK
  <2>2. QED
    BY <1>1, <2>1 DEF Arena, Apart
<1>4. QED
  BY <1>1, <1>2, <1>3

\* FindGood grants the contents of the block it has found.
LEMMA FindGoodGrants == IInv /\ IInv' /\ FindGood => Abs!Grant
<1> SUFFICES ASSUME IInv, IInv', FindGood PROVE Abs!Grant
  OBVIOUS
<1> DEFINE p == cur + HeaderSize
<1>1. /\ cur \in DOMAIN hdr /\ query \in Queries /\ TypeOK
      /\ regions' = regions
      /\ live' = [a \in DOMAIN live \cup {cur} |-> IF a = cur THEN query ELSE live[a]]
  BY DEF IInv, Position, FindGood
<1>2. \A a \in DOMAIN live : hdr'[a].capacity = hdr[a].capacity /\ a # cur
  BY FindGoodStays DEF Stays
<1>3. cur \notin DOMAIN live
  BY <1>2
<1>4. DOMAIN live' = {a \in DOMAIN hdr' : ~hdr'[a].is_free}
  BY DEF IInv, LiveIntact
<1>5. \A a \in DOMAIN hdr' : a \in Nat /\ hdr'[a].capacity \in Nat
  BY DEF IInv, WellFormed, Headers, Header
<1>6. /\ DOMAIN Owned = {a + HeaderSize : a \in DOMAIN live}
      /\ \A a \in DOMAIN live :
           Owned[a + HeaderSize] = [len |-> hdr[a].capacity, asked |-> live[a]]
  BY OwnedShape
<1>7. /\ DOMAIN Owned' = {a + HeaderSize : a \in DOMAIN live'}
      /\ \A a \in DOMAIN live' :
           Owned'[a + HeaderSize] = [len |-> hdr'[a].capacity, asked |-> live'[a]]
  <2>1. \A a \in DOMAIN live' : (a + HeaderSize) - HeaderSize = a
    BY <1>4, <1>5, SizesAssumption
  <2>2. QED
    BY <2>1 DEF Owned
<1>8. p \notin DOMAIN Owned /\ DOMAIN Owned' = DOMAIN Owned \cup {p}
  BY <1>1, <1>3, <1>4, <1>5, <1>6, <1>7, SizesAssumption
<1>9. \A q \in DOMAIN Owned : Owned'[q] = Owned[q]
  <2>1. ASSUME NEW a \in DOMAIN live
        PROVE  Owned'[a + HeaderSize] = Owned[a + HeaderSize]
    <3>1. a \in DOMAIN live' /\ live'[a] = live[a] /\ hdr'[a].capacity = hdr[a].capacity
      BY <1>1, <1>2
    <3>2. QED
      BY <3>1, <1>6, <1>7
  <2>2. QED
    BY <2>1, <1>6
<1>10. Owned'[p] = [len |-> hdr'[cur].capacity, asked |-> query]
  BY <1>1, <1>7
<1>11. hdr'[cur].capacity >= query
  <2>1. hdr'[cur].capacity >= size_max(query, BlockMinCapacity)
    BY <1>1 DEF IInv, LiveIntact
  <2>2. QED
    BY <2>1, <1>1, <1>4, <1>5, SizesAssumption DEF size_max, TypeOK
<1>12. Arena' = Arena
  BY <1>1 DEF Arena
<1>13. Abs!Bytes(p, hdr'[cur].capacity) \subseteq Arena
  <2>1. cur \in DOMAIN hdr'
    BY <1>1, <1>4
  <2>2. ASSUME NEW x \in p..(p + hdr'[cur].capacity - 1)
        PROVE  x \in Occupied(hdr')
    <3>1. x \in Int /\ cur <= x /\ x < cur + HeaderSize + hdr'[cur].capacity
      BY <2>1, <1>5, SizesAssumption
    <3>2. QED
      BY <2>1, <3>1, OccupiedBytes DEF IInv
  <2>3. Occupied(hdr') = Arena
    BY <1>12 DEF IInv, RegionsTiled
  <2>4. QED
    BY <2>2, <2>3 DEF Abs!Bytes
<1>14. ASSUME NEW a \in DOMAIN live
       PROVE  Abs!Bytes(p, hdr'[cur].capacity) \cap Abs!Bytes(a + HeaderSize, hdr[a].capacity) = {}
  <2>1. a \in DOMAIN hdr' /\ cur \in DOMAIN hdr' /\ a # cur
    BY <1>1, <1>2, <1>4
  <2>2. Apart(a, HeaderSize + hdr'[a].capacity, cur, HeaderSize + hdr'[cur].capacity)
    BY <2>1 DEF IInv, WellFormed, Disjoint
  <2>3. /\ a \in Nat /\ hdr'[a].capacity \in Nat /\ hdr[a].capacity = hdr'[a].capacity
        /\ cur \in Nat /\ hdr'[cur].capacity \in Nat
    BY <2>1, <1>2, <1>5
  <2>4. SUFFICES ASSUME NEW x \in p..(p + hdr'[cur].capacity - 1),
                        x \in (a + HeaderSize)..(a + HeaderSize + hdr'[a].capacity - 1)
                 PROVE  FALSE
    BY <2>3 DEF Abs!Bytes
  <2>5. QED
    BY <2>2, <2>3, <2>4, SizesAssumption DEF Apart
<1>15. \A q \in DOMAIN Owned : Abs!Bytes(p, Owned'[p].len) \cap Abs!Bytes(q, Owned[q].len) = {}
  <2>1. Owned'[p].len = hdr'[cur].capacity
    BY <1>10
  <2>2. ASSUME NEW q \in DOMAIN Owned
        PROVE  Abs!Bytes(p, Owned'[p].len) \cap Abs!Bytes(q, Owned[q].len) = {}
    <3>1. PICK a \in DOMAIN live : q = a + HeaderSize
      BY <1>6
    <3>2. Owned[a + HeaderSize] = [len |-> hdr[a].capacity, asked |-> live[a]]
      BY <1>6
    <3>3. Owned[q].len = hdr[a].capacity
      BY <3>1, <3>2
    <3>4. QED
      BY <3>1, <3>3, <2>1, <1>14, Zenon
  <2>3. QED
    BY <2>2
<1>16. QED
  BY <1>1, <1>8, <1>9, <1>10, <1>11, <1>12, <1>13, <1>15 DEF Abs!Grant, Abs!Keeps

\* _free gives a range back.
LEMMA FreeReleases ==
  ASSUME IInv, IInv', NEW a \in DOMAIN live, _free(a)
  PROVE  Abs!Release
<1>1. /\ regions' = regions
      /\ live' = [x \in DOMAIN live \ {a} |-> live[x]]
      /\ \A x \in DOMAIN live : x \in Nat
  BY DEF _free, IInv, LiveIntact, TypeOK
<1>2. \A x \in DOMAIN live : hdr'[x].capacity = hdr[x].capacity
  <2>1. [Next]_vars
    BY DEF Next, Client
  <2>2. QED
    BY <2>1, LiveStays DEF Stays
<1>3. /\ DOMAIN Owned = {x + HeaderSize : x \in DOMAIN live}
      /\ \A x \in DOMAIN live :
           Owned[x + HeaderSize] = [len |-> hdr[x].capacity, asked |-> live[x]]
  BY OwnedShape
<1>4. /\ DOMAIN Owned' = {x + HeaderSize : x \in DOMAIN live'}
      /\ \A x \in DOMAIN live' :
           Owned'[x + HeaderSize] = [len |-> hdr'[x].capacity, asked |-> live'[x]]
  <2>1. \A x \in DOMAIN live' : (x + HeaderSize) - HeaderSize = x
    BY <1>1, SizesAssumption
  <2>2. QED
    BY <2>1 DEF Owned
<1>5. DOMAIN Owned' = DOMAIN Owned \ {a + HeaderSize} /\ a + HeaderSize \in DOMAIN Owned
  BY <1>1, <1>3, <1>4, SizesAssumption
<1>6. \A q \in DOMAIN Owned' : Owned'[q] = Owned[q]
  <2>1. ASSUME NEW x \in DOMAIN live'
        PROVE  Owned'[x + HeaderSize] = Owned[x + HeaderSize]
    <3>1. x \in DOMAIN live /\ live'[x] = live[x] /\ hdr'[x].capacity = hdr[x].capacity
      BY <1>1, <1>2
    <3>2. QED
      BY <3>1, <1>3, <1>4
  <2>2. QED
    BY <2>1, <1>4
<1>7. Arena' = Arena
  BY <1>1 DEF Arena
<1>8. QED
  BY <1>5, <1>6, <1>7 DEF Abs!Release, Abs!Keeps

LEMMA StepImplements ==
  ASSUME IInv, IInv', [Next]_vars
  PROVE  Abs!Next \/ UNCHANGED <<Arena, Owned>>
<1>1. CASE FindGood
  BY <1>1, FindGoodGrants DEF Abs!Next
<1>2. ASSUME NEW a \in DOMAIN live, _free(a) PROVE Abs!Release
  BY <1>2, FreeReleases
<1>3. CASE UNCHANGED <<live, regions>>
  BY <1>3, OwnedStays DEF Arena
<1>4. CASE grow_heap
  <2>1. grow_size \in Nat /\ grow_size > 0
    BY WrappedSize, RegionSize, SizesAssumption DEF IInv, TypeOK, grow_size
  <2>2. Arena \subseteq Arena' /\ Arena # Arena'
    BY <2>1, <1>4, MapExtends DEF grow_heap
  <2>3. QED
    BY <2>2, <1>4, OwnedStays DEF grow_heap, Abs!Extend, Abs!Next
<1>5. ASSUME NEW s \in InitialSizes, heap_init(s) PROVE Abs!Extend
  <2> DEFINE size == region_actual_size(size_from_capacity(s))
  <2>1. size \in Nat /\ size > 0
    BY ClientAssumption, WrappedSize, RegionSize, SizesAssumption
  <2>2. \E a \in Placements(HEAP_START, size) : map_region(a, size)
    BY <1>5 DEF heap_init
  <2> HIDE DEF size
  <2>3. Arena \subseteq Arena' /\ Arena # Arena'
    BY <2>1, <2>2, MapExtends
  <2>4. QED
    BY <2>3, <1>5, OwnedStays DEF heap_init, Abs!Extend
<1>6. QED
  BY <1>1, <1>2, <1>3, <1>4, <1>5
     DEF Next, Allocator, Find, Client, Others, vars, FindMerge, FindNext, FindFails, GrowFails,
         FreeMerge, FreeReturn, _malloc, OthersMap, OthersUnmap, Abs!Next

\* The allocator implements HeapSpec: it only ever hands out ranges of its own
\* memory that nobody holds, and takes back only what the client gives back.
THEOREM Refinement == Spec => Implements
<1>1. Init => Abs!Init
  BY DEF Init, Abs!Init, Arena, Owned
<1>2. IInv /\ IInv' /\ [Next]_vars => [Abs!Next]_<<Arena, Owned>>
  BY StepImplements
<1>3. QED
  BY <1>1, <1>2, Inductive, PTL DEF Spec, Implements, Abs!Spec
================================================================================
