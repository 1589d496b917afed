------------------------------ MODULE SearchProof ------------------------------
(***************************************************************************)
(* Proofs about the search of the allocator, for every value of its        *)
(* constants: the list reaches every block, a heap grows only when no free *)
(* memory would do and then at the end of a region, and once it has grown  *)
(* the search succeeds.  They rest on the invariant IInv of MemProof.      *)
(*                                                                         *)
(* And that no call goes on without end: a measure that every iteration of *)
(* its loops makes smaller.                                                *)
(***************************************************************************)
EXTENDS MemProof, FiniteSetTheorems

(* What the list is like between any two steps.                            *)

\* Every block is reached from HEAP_START, and one block ends the list.
Complete(h) ==
  /\ \E a \in DOMAIN h : h[a].next = NULL
  /\ \A S \in SUBSET DOMAIN h :
       HEAP_START \in S /\ (\A a \in S : h[a].next \in S \cup {NULL}) => S = DOMAIN h

\* Inside a region, where no start in R lies, the order of the list is that
\* of the addresses.
InOrder(h, R) ==
  \A b, c \in DOMAIN h : c = b + HeaderSize + h[b].capacity /\ c \notin R => h[b].next = c

\* The list ends where one of the regions does.
EndsAt(h, E) == \A b \in DOMAIN h : h[b].next = NULL => b + HeaderSize + h[b].capacity \in E

OneEnd(h) == \A a, b \in DOMAIN h : h[a].next = NULL /\ h[b].next = NULL => a = b

Threaded(h, R, E) ==
  /\ OneEnd(h)
  /\ HEAP_START \in DOMAIN h => Complete(h)
  /\ InOrder(h, R)
  /\ EndsAt(h, E)

RegionEnds == {r + regions[r] : r \in DOMAIN regions}

RegionsApart == \A r, s \in DOMAIN regions : r # s => Apart(r, regions[r], s, regions[s])

Pages(x) == \E k \in Nat : x = PageSize * k

RegionsPaged == \A r \in DOMAIN regions : Pages(r) /\ Pages(regions[r])

(* What the search has found out.                                          *)

\* A block that the search leaves behind.
Fruitless(b) == ~is_good(hdr, b, wanted) /\ ~mergeable(hdr, b)

\* V are the blocks before cur.
Passed(V) ==
  /\ cur \notin V
  /\ HEAP_START \in V \cup {cur}
  /\ \A b \in V : hdr[b].next \in V \cup {cur}
  /\ \A b \in V : Fruitless(b)

Searching == pc = "find" => \E V \in SUBSET DOMAIN hdr : Passed(V)

Searched == pc = "grow" => \A b \in DOMAIN hdr : Fruitless(b)

\* The size of the region of the running call did not wrap around.
Unwrapped == query + HeaderSize <= SizeModulus - PageSize

Rewarded == pc = "find" /\ grown /\ Unwrapped => \E b \in DOMAIN hdr : is_good(hdr, b, wanted)

SInv ==
  /\ Threaded(hdr, DOMAIN regions, RegionEnds)
  /\ RegionsApart
  /\ RegionsPaged
  /\ Searching
  /\ Searched
  /\ Rewarded

-----------------------------------------------------------------------------
(* Lemmas about the list.                                                  *)

\* No block is found twice: were the successor of a in V, or a itself, the
\* list would return to V and never end.
LEMMA NoReturn ==
  ASSUME NEW h, Complete(h), NEW V \in SUBSET DOMAIN h, NEW a \in DOMAIN h,
         HEAP_START \in V \cup {a}, \A b \in V : h[b].next \in V \cup {a},
         NULL \notin DOMAIN h, h[a].next # NULL
  PROVE  h[a].next \notin V \cup {a}
<1>1. SUFFICES ASSUME h[a].next \in V \cup {a} PROVE FALSE
  OBVIOUS
<1>2. V \cup {a} = DOMAIN h
  BY <1>1 DEF Complete
<1>3. PICK e \in DOMAIN h : h[e].next = NULL
  BY DEF Complete
<1>4. e \in V
  BY <1>2, <1>3
<1>5. NULL \in V \cup {a}
  BY <1>3, <1>4
<1>6. QED
  BY <1>2, <1>5

\* When the list ends at a, V and a are all the blocks.
LEMMA AllVisited ==
  ASSUME NEW h, Complete(h), NEW V \in SUBSET DOMAIN h, NEW a \in DOMAIN h,
         HEAP_START \in V \cup {a}, \A b \in V : h[b].next \in V \cup {a},
         h[a].next = NULL
  PROVE  V \cup {a} = DOMAIN h
BY DEF Complete

\* Merging keeps the list complete, in order and ending at a region's end.
LEMMA MergeThreaded ==
  ASSUME NEW h, WellFormed(h), NEW a \in DOMAIN h, NEW g, Merged(h, a, g),
         NEW R, NEW E, Threaded(h, R, E)
  PROVE  Threaded(g, R, E)
<1> DEFINE n == h[a].next
<1>0. /\ n \in DOMAIN h /\ n # a /\ n # HEAP_START
      /\ n = a + HeaderSize + h[a].capacity
      /\ DOMAIN g = DOMAIN h \ {n}
      /\ \A x \in DOMAIN g : x # a => g[x] = h[x]
      /\ g[a].next = h[n].next
      /\ g[a].capacity = h[a].capacity + HeaderSize + h[n].capacity
      /\ a \in DOMAIN g
  BY DEF Merged
<1>1. \A x \in DOMAIN h : x \in Nat \ {NULL} /\ h[x].capacity \in Nat
  BY DEF WellFormed, Headers, Header
<1>2. h[a].next = n
  OBVIOUS
<1> HIDE DEF n
<1>3. g[a].next = h[n].next /\ a + HeaderSize + g[a].capacity = n + HeaderSize + h[n].capacity
  BY <1>0, <1>1, SizesAssumption
<1>4. HEAP_START \in DOMAIN g => Complete(g)
  <2>1. SUFFICES ASSUME HEAP_START \in DOMAIN g PROVE Complete(g)
    OBVIOUS
  <2>2. Complete(h)
    BY <2>1, <1>0 DEF Threaded
  <2>3. \E x \in DOMAIN g : g[x].next = NULL
    <3>1. PICK e \in DOMAIN h : h[e].next = NULL
      BY <2>2 DEF Complete
    <3>2. CASE e = n
      BY <3>1, <3>2, <1>0
    <3>3. CASE e # n
      <4>1. e # a
        BY <3>1, <1>0, <1>1, <1>2
      <4>2. QED
        BY <3>1, <3>3, <4>1, <1>0
    <3>4. QED
      BY <3>2, <3>3
  <2>4. ASSUME NEW S \in SUBSET DOMAIN g, HEAP_START \in S,
               \A x \in S : g[x].next \in S \cup {NULL}
        PROVE  S = DOMAIN g
    <3>1. CASE a \in S
      <4> DEFINE T == S \cup {n}
      <4>1. \A x \in T : h[x].next \in T \cup {NULL}
        BY <2>4, <3>1, <1>0, <1>2
      <4>2. T \in SUBSET DOMAIN h /\ HEAP_START \in T
        BY <2>4, <1>0
      <4>3. T = DOMAIN h
        BY <4>1, <4>2, <2>2 DEF Complete
      <4>4. QED
        BY <4>3, <2>4, <1>0
    <3>2. CASE a \notin S
      <4>1. \A x \in S : h[x].next \in S \cup {NULL}
        BY <2>4, <3>2, <1>0
      <4>2. S = DOMAIN h
        BY <4>1, <2>2, <2>4, <1>0 DEF Complete
      <4>3. QED
        BY <4>2, <3>2
    <3>3. QED
      BY <3>1, <3>2
  <2>5. QED
    BY <2>3, <2>4 DEF Complete
<1>5. InOrder(g, R)
  BY <1>0, <1>3 DEF Threaded, InOrder
<1>6. EndsAt(g, E) /\ OneEnd(g)
  BY <1>0, <1>1, <1>2, <1>3 DEF Threaded, EndsAt, OneEnd
<1>7. QED
  BY <1>4, <1>5, <1>6 DEF Threaded

\* So does splitting.
LEMMA SplitThreaded ==
  ASSUME NEW h, WellFormed(h), NEW a \in DOMAIN h, NEW q \in Nat, NEW g, Divided(h, a, q, g),
         NEW R, NEW E, HEAP_START \in DOMAIN h, Threaded(h, R, E)
  PROVE  Threaded(g, R, E)
<1> DEFINE second == a + HeaderSize + q
<1>0. /\ second \notin DOMAIN h /\ DOMAIN g = DOMAIN h \cup {second}
      /\ \A x \in DOMAIN h : x # a => g[x] = h[x]
      /\ g[a].next = second /\ g[a].capacity = q
      /\ g[second].next = h[a].next
      /\ g[second].capacity = h[a].capacity - q - HeaderSize
  BY DEF Divided
<1>1. \A x \in DOMAIN h : x \in Nat \ {NULL} /\ h[x].capacity \in Nat
  BY DEF WellFormed, Headers, Header
<1>2. second = a + HeaderSize + q /\ second # NULL
  BY <1>1, SizesAssumption DEF NULL
<1> HIDE DEF second
<1>3. second + HeaderSize + g[second].capacity = a + HeaderSize + h[a].capacity
  BY <1>0, <1>1, <1>2, SizesAssumption
<1>4. a + HeaderSize + g[a].capacity = second
  BY <1>0, <1>2
<1>5. Complete(g)
  <2>1. Complete(h)
    BY DEF Threaded
  <2>2. \E x \in DOMAIN g : g[x].next = NULL
    <3>1. PICK e \in DOMAIN h : h[e].next = NULL
      BY <2>1 DEF Complete
    <3>2. CASE e = a
      BY <3>1, <3>2, <1>0
    <3>3. CASE e # a
      BY <3>1, <3>3, <1>0
    <3>4. QED
      BY <3>2, <3>3
  <2>3. ASSUME NEW S \in SUBSET DOMAIN g, HEAP_START \in S,
               \A x \in S : g[x].next \in S \cup {NULL}
        PROVE  S = DOMAIN g
    <3> DEFINE T == S \ {second}
    <3>1. T \in SUBSET DOMAIN h /\ HEAP_START \in T
      BY <2>3, <1>0
    <3>2. \A x \in T : x # a => h[x].next \in T \cup {NULL}
      <4>1. \A x \in T : x # a => h[x].next \in S \cup {NULL}
        BY <2>3, <3>1, <1>0
      <4>2. \A x \in DOMAIN h : h[x].next # second
        BY <1>0, <1>2 DEF WellFormed, Linked
      <4>3. QED
        BY <4>1, <4>2, <3>1
    <3>3. a \in T => second \in S /\ h[a].next \in T \cup {NULL}
      <4>1. a \in T => second \in S
        BY <2>3, <1>0, <1>2
      <4>2. h[a].next # second
        BY <1>0, <1>2 DEF WellFormed, Linked
      <4>3. QED
        BY <4>1, <4>2, <2>3, <1>0
    <3>4. T = DOMAIN h
      BY <3>1, <3>2, <3>3, <2>1 DEF Complete
    <3>5. QED
      BY <3>3, <3>4, <2>3, <1>0
  <2>4. QED
    BY <2>2, <2>3 DEF Complete
<1>6. InOrder(g, R)
  <2>1. SUFFICES ASSUME NEW b \in DOMAIN g, NEW c \in DOMAIN g,
                        c = b + HeaderSize + g[b].capacity, c \notin R
                 PROVE  g[b].next = c
    BY DEF InOrder
  <2>2. CASE b = a
    BY <2>1, <2>2, <1>0, <1>4
  <2>3. CASE b = second
    <3>1. c = a + HeaderSize + h[a].capacity
      BY <2>1, <2>3, <1>3
    <3>2. c # second
      <4>1. h[a].capacity - q - HeaderSize >= BlockMinCapacity
        BY DEF Divided
      <4>2. QED
        BY <4>1, <3>1, <1>1, <1>2, SizesAssumption
    <3>3. QED
      BY <2>1, <2>3, <3>1, <3>2, <1>0 DEF Threaded, InOrder
  <2>4. CASE b # a /\ b # second
    <3>1. b \in DOMAIN h /\ g[b] = h[b]
      BY <2>4, <1>0
    <3>2. CASE c # second
      BY <3>1, <3>2, <2>1, <1>0 DEF Threaded, InOrder
    <3>3. CASE c = second
      <4>1. Apart(b, HeaderSize + h[b].capacity, a, HeaderSize + h[a].capacity)
        BY <3>1, <2>4 DEF WellFormed, Disjoint
      <4>2. h[a].capacity - q - HeaderSize >= BlockMinCapacity
        BY DEF Divided
      <4>3. second = b + HeaderSize + h[b].capacity
        BY <2>1, <3>1, <3>3
      <4>4. FALSE
        BY <4>1, <4>2, <4>3, <3>1, <1>1, <1>2, SizesAssumption DEF Apart
      <4>5. QED
        BY <4>4
    <3>4. QED
      BY <3>2, <3>3
  <2>5. QED
    BY <2>2, <2>3, <2>4
<1>7. EndsAt(g, E) /\ OneEnd(g)
  BY <1>0, <1>2, <1>3 DEF Threaded, EndsAt, OneEnd
<1>8. QED
  BY <1>5, <1>6, <1>7 DEF Threaded

\* So does a region behind the last block, if no block of another region
\* starts where it ends.
LEMMA ExtendThreaded ==
  ASSUME NEW h, WellFormed(h), HEAP_START \in DOMAIN h,
         NEW a \in DOMAIN h, h[a].next = NULL,
         NEW b \in Nat \ {NULL}, b \notin DOMAIN h, NEW size \in Nat,
         NEW g, Extended(h, a, b, size, g),
         NEW R, NEW E, Threaded(h, R, E),
         b + size \in DOMAIN h => b + size \in R, size > 0
  PROVE  Threaded(g, R \cup {b}, {b + size})
<1>0. /\ DOMAIN g = DOMAIN h \cup {b} /\ a # b
      /\ \A x \in DOMAIN h : x # a => g[x] = h[x]
      /\ g[a].next = b /\ g[a].capacity = h[a].capacity
      /\ g[b].next = NULL /\ g[b].capacity = size - HeaderSize
  BY DEF Extended
<1>1. \A x \in DOMAIN h : x \in Nat \ {NULL} /\ h[x].capacity \in Nat
  BY DEF WellFormed, Headers, Header
<1>2. b + HeaderSize + g[b].capacity = b + size
  BY <1>0, SizesAssumption
<1>3. Complete(h)
  BY DEF Threaded
<1>4. Complete(g)
  <2>1. ASSUME NEW S \in SUBSET DOMAIN g, HEAP_START \in S,
               \A x \in S : g[x].next \in S \cup {NULL}
        PROVE  S = DOMAIN g
    <3> DEFINE T == S \ {b}
    <3>1. T \in SUBSET DOMAIN h /\ HEAP_START \in T
      BY <2>1, <1>0
    <3>2. \A x \in DOMAIN h : h[x].next # b
      BY DEF WellFormed, Linked
    <3>3. \A x \in T : h[x].next \in T \cup {NULL}
      BY <3>1, <3>2, <2>1, <1>0
    <3>4. T = DOMAIN h
      BY <3>1, <3>3, <1>3 DEF Complete
    <3>5. b \in S
      BY <3>4, <2>1, <1>0
    <3>6. QED
      BY <3>4, <3>5, <2>1, <1>0
  <2>2. QED
    BY <2>1, <1>0 DEF Complete
<1>5. InOrder(g, R \cup {b})
  <2>1. SUFFICES ASSUME NEW x \in DOMAIN g, NEW c \in DOMAIN g,
                        c = x + HeaderSize + g[x].capacity, c \notin R \cup {b}
                 PROVE  g[x].next = c
    BY DEF InOrder
  <2>2. c \in DOMAIN h
    BY <2>1, <1>0
  <2>3. x # b
    BY <2>1, <2>2, <1>2
  <2>4. x \in DOMAIN h /\ g[x].capacity = h[x].capacity
    BY <2>3, <1>0
  <2>5. h[x].next = c
    BY <2>1, <2>2, <2>4 DEF Threaded, InOrder
  <2>6. x # a
    BY <2>5, <2>2, <1>1
  <2>7. QED
    BY <2>4, <2>5, <2>6, <1>0
<1>6. EndsAt(g, {b + size}) /\ OneEnd(g)
  <2>1. \A x \in DOMAIN h : h[x].next = NULL => x = a
    BY DEF Threaded, OneEnd
  <2>2. QED
    BY <1>0, <1>2, <2>1 DEF EndsAt, OneEnd
<1>7. QED
  BY <1>4, <1>5, <1>6 DEF Threaded

\* Marking a block free or taken changes nothing of this.
LEMMA MarkingThreaded ==
  ASSUME NEW h, WellFormed(h), NEW a \in DOMAIN h, NEW free \in BOOLEAN,
         NEW R, NEW E, Threaded(h, R, E)
  PROVE  Threaded([h EXCEPT ![a].is_free = free], R, E)
<1> DEFINE g == [h EXCEPT ![a].is_free = free]
<1>1. \A x \in DOMAIN h : h[x] \in Header
  BY DEF WellFormed, Headers
<1>2. /\ DOMAIN g = DOMAIN h
      /\ \A x \in DOMAIN h : g[x].next = h[x].next /\ g[x].capacity = h[x].capacity
  BY <1>1 DEF Header
<1> HIDE DEF g
<1>3. HEAP_START \in DOMAIN g => Complete(g)
  BY <1>2 DEF Threaded, Complete
<1>4. OneEnd(g) /\ InOrder(g, R) /\ EndsAt(g, E)
  BY <1>2 DEF Threaded, OneEnd, InOrder, EndsAt
<1>5. QED
  BY <1>3, <1>4 DEF Threaded, g

-----------------------------------------------------------------------------
(* Lemmas about sizes in pages.                                            *)

\* A number of bytes is as many whole pages as it holds, and the rest.
LEMMA WholePages ==
  ASSUME NEW x \in Nat
  PROVE  /\ x \div PageSize \in Nat
         /\ x % PageSize \in 0..(PageSize - 1)
         /\ x % PageSize = x - PageSize * (x \div PageSize)
         /\ PageSize * (x \div PageSize) \in Nat
<1>1. PageSize \in Nat /\ PageSize > 0
  BY SizesAssumption
<1>2. x % PageSize = x - PageSize * (x \div PageSize)
  BY <1>1
<1>3. x \div PageSize \in Nat /\ x % PageSize \in 0..(PageSize - 1)
  BY <1>1
<1>4. PageSize * (x \div PageSize) \in Nat
  BY <1>1, <1>3
<1>5. QED
  BY <1>2, <1>3, <1>4

\* Whole pages are what leaves no rest.
LEMMA NoRest ==
  ASSUME NEW x \in Nat
  PROVE  x % PageSize = 0 <=> Pages(x)
<1> DEFINE k == x \div PageSize
<1>1. /\ k \in Nat /\ PageSize * k \in Nat
      /\ x % PageSize \in 0..(PageSize - 1) /\ x % PageSize = x - PageSize * k
  BY WholePages
<1>2. PageSize \in Nat /\ PageSize > 0
  BY SizesAssumption
<1> HIDE DEF k
<1>3. x % PageSize = 0 => Pages(x)
  <2>1. PageSize * k \in Nat
    BY <1>1, <1>2
  <2>2. x % PageSize = 0 => x = PageSize * k
    BY <1>1, <2>1
  <2>3. QED
    BY <1>1, <2>2 DEF Pages
<1>4. ASSUME Pages(x) PROVE x % PageSize = 0
  <2>1. PICK m \in Nat : x = PageSize * m
    BY <1>4 DEF Pages
  <2>2. PageSize * (m - k) = x % PageSize
    <3>1. PageSize * (m - k) = PageSize * m - PageSize * k
      BY <1>1, <1>2, <2>1
    <3>2. QED
      BY <3>1, <1>1, <2>1
  <2>3. CASE m - k >= 1
    <3>1. PageSize * (m - k) >= PageSize
      BY <2>3, <2>1, <1>1, <1>2
    <3>2. QED
      BY <3>1, <2>2, <1>1, <1>2
  <2>4. CASE m - k <= -1
    <3>1. PageSize * (m - k) <= -PageSize
      BY <2>4, <2>1, <1>1, <1>2
    <3>2. QED
      BY <3>1, <2>2, <1>1, <1>2
  <2>5. CASE m = k
    BY <2>5, <2>2, <1>1, <1>2
  <2>6. QED
    BY <2>3, <2>4, <2>5, <2>1, <1>1
<1>5. QED
  BY <1>3, <1>4

\* The sum of whole pages is whole pages.
LEMMA SumOfPages ==
  ASSUME NEW x, NEW y, Pages(x), Pages(y)
  PROVE  Pages(x + y)
<1>1. PICK k \in Nat : x = PageSize * k
  BY DEF Pages
<1>2. PICK m \in Nat : y = PageSize * m
  BY DEF Pages
<1>3. PageSize * (k + m) = PageSize * k + PageSize * m
  BY SizesAssumption
<1>4. k + m \in Nat
  OBVIOUS
<1>5. x + y = PageSize * (k + m)
  BY <1>1, <1>2, <1>3
<1>6. QED
  BY <1>4, <1>5 DEF Pages

\* A region is whole pages, even if its size wrapped around.
LEMMA RegionPages ==
  ASSUME NEW size \in Nat
  PROVE  Pages(region_actual_size(size))
<1> DEFINE k == pages_count(size)
           M == SizeModulus
           d == (PageSize * k) \div M
<1>1. PageSize \in Nat /\ PageSize > 0 /\ M \in Nat /\ M > 0
  BY SizesAssumption
<1>2. k \in Nat
  BY WholePages DEF pages_count
<1>3. PICK j \in Nat : M = PageSize * j
  BY <1>1, PagesAssumption, NoRest DEF Pages
<1> HIDE DEF k, M
<1>4. PageSize * k \in Nat
  BY <1>1, <1>2
<1>5. d \in Nat /\ (PageSize * k) % M \in Nat /\ (PageSize * k) % M = PageSize * k - M * d
  BY <1>1, <1>4
<1> HIDE DEF d
<1>6. (PageSize * k) % M = PageSize * (k - j * d)
  <2>1. M * d = PageSize * (j * d)
    BY <1>1, <1>3, <1>5
  <2>2. j * d \in Nat
    BY <1>3, <1>5
  <2>3. PageSize * (k - j * d) = PageSize * k - PageSize * (j * d)
    BY <2>2, <1>1, <1>2
  <2>4. M * d \in Nat
    BY <1>1, <1>5
  <2>5. QED
    BY <2>1, <2>3, <2>4, <1>4, <1>5
<1>7. k - j * d \in Nat
  <2>1. j * d \in Nat
    BY <1>3, <1>5
  <2>2. CASE k - j * d <= -1
    <3>1. PageSize * (k - j * d) <= -PageSize
      BY <2>1, <2>2, <1>1, <1>2
    <3>2. QED
      BY <3>1, <1>1, <1>5, <1>6
  <2>3. QED
    BY <2>1, <2>2, <1>2
<1>8. Pages(round_pages(size))
  BY <1>6, <1>7 DEF round_pages, Pages, k, M
<1>9. Pages(RegionMinSize)
  BY SizesAssumption, PagesAssumption, NoRest
<1>10. QED
  BY <1>8, <1>9 DEF region_actual_size, size_max

\* A size that rounding up does not wrap around is rounded up by less than a page.
LEMMA RegionOf ==
  ASSUME NEW s \in Nat, s <= SizeModulus - PageSize
  PROVE  /\ region_actual_size(s) >= s /\ region_actual_size(s) >= RegionMinSize
         /\ region_actual_size(s) < s + PageSize \/ region_actual_size(s) = RegionMinSize
<1> DEFINE k == pages_count(s)
           M == SizeModulus
<1>1. PageSize \in Nat /\ PageSize > 0 /\ M \in Nat /\ M > 0
  BY SizesAssumption
<1>2. s \in Nat /\ s <= M - PageSize
  OBVIOUS
<1>4. k \in Nat /\ PageSize * k >= s /\ PageSize * k < s + PageSize
  <2> DEFINE d == s \div PageSize
  <2>1. /\ d \in Nat /\ PageSize * d \in Nat
        /\ s % PageSize \in 0..(PageSize - 1) /\ s % PageSize = s - PageSize * d
    BY <1>2, WholePages
  <2>2. k = d + (IF s % PageSize > 0 THEN 1 ELSE 0)
    BY DEF pages_count
  <2> HIDE DEF d, k
  <2>3. PageSize * (d + 1) = PageSize * d + PageSize
    BY <2>1, <1>1
  <2>4. CASE s % PageSize > 0
    <3>1. k = d + 1
      BY <2>2, <2>4
    <3>2. PageSize * k = PageSize * d + PageSize
      BY <3>1, <2>3
    <3>3. PageSize * d < s /\ s < PageSize * d + PageSize
      BY <2>1, <2>4, <1>1, <1>2
    <3>4. k \in Nat
      BY <3>1, <2>1
    <3> DEFINE e == PageSize * d
    <3>5. e \in Nat
      BY <2>1
    <3> HIDE DEF e
    <3>6. e + PageSize >= s /\ e + PageSize < s + PageSize
      BY <3>3, <3>5, <1>1, <1>2 DEF e
    <3>7. QED
      BY <3>2, <3>4, <3>6 DEF e
  <2>5. CASE s % PageSize = 0
    BY <2>1, <2>2, <2>3, <2>5, <1>1, <1>2
  <2>6. QED
    BY <2>1, <2>4, <2>5
<1> HIDE DEF k, M
<1>5. PageSize * k \in Nat /\ PageSize * k < M
  BY <1>1, <1>2, <1>4
<1>6. (PageSize * k) % M = PageSize * k
  BY <1>1, <1>5
<1>7. round_pages(s) = PageSize * k
  BY <1>6 DEF round_pages, k, M
<1>8. round_pages(s) \in Nat /\ round_pages(s) >= s /\ round_pages(s) < s + PageSize
  BY <1>4, <1>5, <1>7
<1>9. QED
  BY <1>8, SizesAssumption DEF region_actual_size, size_max

\* A region that did not wrap around has room for the block asked for.
LEMMA RegionRoom ==
  ASSUME TypeOK, Unwrapped
  PROVE  grow_size >= HeaderSize + wanted
<1> DEFINE s == query + HeaderSize
<1>1. query \in Nat /\ s \in Nat /\ s <= SizeModulus - PageSize /\ s < SizeModulus
  BY SizesAssumption DEF Unwrapped, TypeOK
<1>2. size_from_capacity(query) = s
  BY <1>1, SizesAssumption DEF size_from_capacity
<1>3. grow_size >= s /\ grow_size >= RegionMinSize
  <2> HIDE DEF s
  <2> QED BY <1>1, <1>2, RegionOf DEF grow_size
<1>4. grow_size \in Nat
  BY <1>1, WrappedSize, RegionSize DEF grow_size
<1>5. QED
  BY <1>1, <1>3, <1>4, SizesAssumption DEF wanted, size_max

-----------------------------------------------------------------------------
(* Every step keeps SInv.                                                  *)

LEMMA InitSInv == Init => SInv
<1> SUFFICES ASSUME Init PROVE SInv
  OBVIOUS
<1>1. DOMAIN hdr = {} /\ DOMAIN regions = {} /\ pc = "idle"
  BY DEF Init
<1>2. QED
  BY <1>1
     DEF SInv, Threaded, OneEnd, InOrder, EndsAt, RegionsApart, RegionsPaged,
         Searching, Searched, Rewarded

\* What a step leaves alone that changes neither list, regions nor search.
LEMMA SInvStays ==
  ASSUME SInv, UNCHANGED <<hdr, regions>>, pc' \in {"idle", "free", "fault"}
  PROVE  SInv'
BY DEF SInv, Threaded, OneEnd, InOrder, EndsAt, Complete, RegionEnds, RegionsApart, RegionsPaged,
       Searching, Searched, Rewarded

\* Outside a search only the list and the regions matter.
LEMMA SInvIdle ==
  ASSUME Threaded(hdr', DOMAIN regions, RegionEnds), SInv, UNCHANGED regions,
         pc' \in {"idle", "free", "fault"}
  PROVE  SInv'
<1>1. DOMAIN regions' = DOMAIN regions /\ RegionEnds' = RegionEnds
  BY DEF RegionEnds
<1>2. RegionsApart' /\ RegionsPaged'
  BY DEF SInv, RegionsApart, RegionsPaged
<1>3. Searching' /\ Searched' /\ Rewarded'
  BY DEF Searching, Searched, Rewarded
<1>4. QED
  BY <1>1, <1>2, <1>3 DEF SInv

\* The blocks before cur, while the search runs.
LEMMA Visited ==
  ASSUME IInv, SInv, pc = "find"
  PROVE  /\ Complete(hdr) /\ WellFormed(hdr) /\ cur \in DOMAIN hdr /\ NULL \notin DOMAIN hdr
         /\ \E V \in SUBSET DOMAIN hdr : Passed(V)
<1>1. WellFormed(hdr) /\ cur \in DOMAIN hdr /\ HEAP_START \in DOMAIN hdr
  BY DEF IInv, Position
<1>2. QED
  BY <1>1 DEF SInv, Threaded, Searching, WellFormed, Headers

\* A merge at cur leaves what is before cur as it was.
LEMMA FindMergeKeepsSInv == IInv /\ SInv /\ FindMerge => SInv'
<1> SUFFICES ASSUME IInv, SInv, FindMerge PROVE SInv'
  OBVIOUS
<1>1. /\ pc = "find" /\ mergeable(hdr, cur) /\ hdr' = merge_with_next(hdr, cur)
      /\ UNCHANGED <<regions, foreign, heap, live, pc, cur, query, grown>>
  BY DEF FindMerge
<1>2. Complete(hdr) /\ WellFormed(hdr) /\ cur \in DOMAIN hdr /\ NULL \notin DOMAIN hdr
  BY <1>1, Visited
<1>3. PICK V \in SUBSET DOMAIN hdr : Passed(V)
  BY <1>1, Visited
<1>4. Merged(hdr, cur, hdr')
  BY <1>1, <1>2, MergeShape
<1> DEFINE n == hdr[cur].next
<1>5. /\ n \in DOMAIN hdr /\ n # NULL /\ n # cur
      /\ DOMAIN hdr' = DOMAIN hdr \ {n}
      /\ \A x \in DOMAIN hdr' : x # cur => hdr'[x] = hdr[x]
      /\ hdr'[cur].is_free /\ hdr[cur].is_free
      /\ hdr'[cur].capacity = hdr[cur].capacity + HeaderSize + hdr[n].capacity
  BY <1>2, <1>4 DEF Merged
<1>6. n \notin V \cup {cur}
  BY <1>2, <1>3, <1>5, NoReturn DEF Passed
<1> HIDE DEF n
<1>7. Threaded(hdr', DOMAIN regions, RegionEnds)
  BY <1>2, <1>4, MergeThreaded DEF SInv
<1>8. DOMAIN regions' = DOMAIN regions /\ RegionEnds' = RegionEnds /\ RegionsApart' /\ RegionsPaged'
  BY <1>1 DEF RegionEnds, SInv, RegionsApart, RegionsPaged
<1>9. wanted' = wanted
  BY <1>1 DEF wanted
<1>10. Searching'
  <2>1. V \in SUBSET DOMAIN hdr'
    BY <1>5, <1>6
  <2>2. \A b \in V : b # cur /\ hdr'[b] = hdr[b]
    BY <2>1, <1>3, <1>5 DEF Passed
  <2>3. ASSUME NEW b \in V
        PROVE  ~is_good(hdr', b, wanted) /\ ~mergeable(hdr', b)
    <3>1. ~is_good(hdr, b, wanted) /\ ~mergeable(hdr, b) /\ hdr[b].next \in V \cup {cur}
      BY <1>3 DEF Passed, Fruitless
    <3>2. hdr'[b] = hdr[b]
      BY <2>2
    <3>3. hdr'[hdr[b].next].is_free <=> hdr[hdr[b].next].is_free
      BY <3>1, <2>2, <1>5
    <3>4. ~is_good(hdr', b, wanted)
      BY <3>1, <3>2 DEF is_good
    <3>5. ~mergeable(hdr', b)
      BY <3>1, <3>2, <3>3 DEF mergeable, blocks_continuous, block_after
    <3>6. QED
      BY <3>4, <3>5
  <2>4. \A b \in V : Fruitless(b)'
    BY <2>3, <1>9 DEF Fruitless
  <2>5. cur' = cur /\ \A b \in V : hdr'[b].next \in V \cup {cur}
    BY <2>2, <1>1, <1>3 DEF Passed
  <2>6. Passed(V)'
    BY <2>4, <2>5, <1>3 DEF Passed
  <2>7. QED
    BY <2>1, <2>6 DEF Searching
<1>11. Searched'
  BY <1>1 DEF Searched
<1>12. Rewarded'
  <2>1. SUFFICES ASSUME grown, Unwrapped PROVE \E b \in DOMAIN hdr' : is_good(hdr', b, wanted)
    BY <1>1, <1>9 DEF Rewarded, Unwrapped
  <2>2. PICK b \in DOMAIN hdr : is_good(hdr, b, wanted)
    BY <2>1, <1>1 DEF SInv, Rewarded
  <2>3. CASE b \notin {cur, n}
    BY <2>2, <2>3, <1>5 DEF is_good
  <2>4. CASE b \in {cur, n}
    <3>1. hdr[cur].capacity \in Nat /\ hdr[n].capacity \in Nat
      BY <1>2, <1>5 DEF WellFormed, Headers, Header
    <3>2. wanted \in Nat
      BY Wanted DEF IInv
    <3>3. hdr'[cur].capacity >= wanted
      BY <2>2, <2>4, <3>1, <3>2, <1>5, SizesAssumption DEF is_good
    <3>4. cur \in DOMAIN hdr'
      BY <1>2, <1>5
    <3>5. QED
      BY <3>3, <3>4, <1>5 DEF is_good
  <2>5. QED
    BY <2>3, <2>4
<1>13. QED
  BY <1>7, <1>8, <1>10, <1>11, <1>12 DEF SInv

\* When the search goes on from cur, cur is among the blocks passed.
LEMMA FindNextKeepsSInv == IInv /\ SInv /\ FindNext => SInv'
<1> SUFFICES ASSUME IInv, SInv, FindNext PROVE SInv'
  OBVIOUS
<1>1. /\ pc = "find" /\ ~mergeable(hdr, cur) /\ cur' = hdr[cur].next
      /\ verdict(hdr, cur, wanted) = "continue"
      /\ UNCHANGED <<hdr, regions, foreign, heap, live, pc, query, grown>>
  BY DEF FindNext
<1>2. Complete(hdr) /\ WellFormed(hdr) /\ cur \in DOMAIN hdr /\ NULL \notin DOMAIN hdr
  BY <1>1, Visited
<1>3. PICK V \in SUBSET DOMAIN hdr : Passed(V)
  BY <1>1, Visited
<1>4. hdr[cur].next # NULL /\ ~is_good(hdr, cur, wanted)
  BY <1>1, <1>2, Verdicts DEF verdict
<1>w. PICK W \in SUBSET DOMAIN hdr : W = V \cup {cur}
  BY <1>2
<1>5. cur' \notin W
  BY <1>1, <1>2, <1>3, <1>4, <1>w, NoReturn DEF Passed
<1>6. \A b \in W : hdr[b].next \in W \cup {cur'}
  BY <1>1, <1>3, <1>w DEF Passed
<1>7. \A b \in W : ~is_good(hdr, b, wanted) /\ ~mergeable(hdr, b)
  BY <1>1, <1>3, <1>4, <1>w DEF Passed, Fruitless
<1>8. HEAP_START \in W
  BY <1>3, <1>w DEF Passed
<1>9. hdr' = hdr /\ wanted' = wanted
  BY <1>1 DEF wanted
<1>10. Passed(W)'
  BY <1>5, <1>6, <1>7, <1>8, <1>9 DEF Passed, Fruitless
<1>11. Searching'
  BY <1>8, <1>9, <1>10 DEF Searching
<1>12. Searched' /\ Rewarded'
  BY <1>1, <1>9 DEF SInv, Searched, Rewarded, Unwrapped
<1>13. Threaded(hdr, DOMAIN regions, RegionEnds)' /\ RegionsApart' /\ RegionsPaged'
  BY <1>1 DEF SInv, RegionEnds, RegionsApart, RegionsPaged
<1>14. QED
  BY <1>11, <1>12, <1>13 DEF SInv

\* At the end of the list the search has visited every block.
LEMMA SearchEnds ==
  ASSUME IInv, SInv, FindFails
  PROVE  /\ hdr[cur].next = NULL
         /\ \A b \in DOMAIN hdr : Fruitless(b)
         /\ verdict(hdr, cur, wanted) = "BSR_REACHED_END_NOT_FOUND"
<1>1. /\ pc = "find" /\ ~mergeable(hdr, cur)
      /\ verdict(hdr, cur, wanted) \in {"BSR_REACHED_END_NOT_FOUND", "BSR_CORRUPTED"}
  BY DEF FindFails
<1>2. Complete(hdr) /\ WellFormed(hdr) /\ cur \in DOMAIN hdr /\ NULL \notin DOMAIN hdr
  BY <1>1, Visited
<1>3. PICK V \in SUBSET DOMAIN hdr : Passed(V)
  BY <1>1, Visited
<1>4. hdr[cur].next # cur
  <2>1. CASE hdr[cur].next = NULL
    BY <2>1, <1>2
  <2>2. CASE hdr[cur].next # NULL
    BY <2>2, <1>2, <1>3, NoReturn DEF Passed
  <2>3. QED
    BY <2>1, <2>2
<1>5. hdr[cur].next = NULL /\ ~is_good(hdr, cur, wanted)
  <2>1. CASE is_good(hdr, cur, wanted)
    BY <2>1, <1>1, <1>4 DEF verdict
  <2>2. CASE hdr[cur].next # NULL /\ ~is_good(hdr, cur, wanted)
    BY <2>2, <1>1, <1>4 DEF verdict
  <2>3. QED
    BY <2>1, <2>2
<1>6. V \cup {cur} = DOMAIN hdr
  BY <1>2, <1>3, <1>5, AllVisited DEF Passed
<1>7. \A b \in DOMAIN hdr : Fruitless(b)
  BY <1>1, <1>3, <1>5, <1>6 DEF Passed, Fruitless
<1>8. verdict(hdr, cur, wanted) = "BSR_REACHED_END_NOT_FOUND"
  BY <1>4, <1>5 DEF verdict
<1>9. QED
  BY <1>5, <1>7, <1>8

LEMMA FindFailsKeepsSInv == IInv /\ SInv /\ FindFails => SInv'
<1> SUFFICES ASSUME IInv, SInv, FindFails PROVE SInv'
  OBVIOUS
<1>1. UNCHANGED <<hdr, regions, foreign, heap, live>>
  BY DEF FindFails
<1>2. CASE pc' = "grow" /\ UNCHANGED <<cur, query, grown>>
  <2>1. hdr' = hdr /\ wanted' = wanted
    BY <1>1, <1>2 DEF wanted
  <2>2. Searched'
    BY <2>1, SearchEnds DEF Searched, Fruitless
  <2>3. Searching' /\ Rewarded'
    BY <1>2 DEF Searching, Rewarded
  <2>4. Threaded(hdr, DOMAIN regions, RegionEnds)' /\ RegionsApart' /\ RegionsPaged'
    BY <1>1 DEF SInv, RegionEnds, RegionsApart, RegionsPaged
  <2>5. QED
    BY <2>2, <2>3, <2>4 DEF SInv
<1>3. CASE Return
  BY <1>1, <1>3, SInvStays DEF Return
<1>4. QED
  BY <1>2, <1>3 DEF FindFails

LEMMA FindGoodKeepsSInv == IInv /\ SInv /\ FindGood => SInv'
<1> SUFFICES ASSUME IInv, SInv, FindGood PROVE SInv'
  OBVIOUS
<1> DEFINE g == split_if_too_big(hdr, cur, wanted)
<1>1. /\ WellFormed(hdr) /\ cur \in DOMAIN hdr /\ HEAP_START \in DOMAIN hdr /\ TypeOK
      /\ Threaded(hdr, DOMAIN regions, RegionEnds)
  BY DEF IInv, SInv, Position, FindGood
<1>2. wanted \in Nat /\ wanted >= BlockMinCapacity
  BY <1>1, Wanted
<1>3. WellFormed(g) /\ Threaded(g, DOMAIN regions, RegionEnds) /\ cur \in DOMAIN g
  <2>1. CASE block_splittable(hdr, cur, wanted)
    <3>1. g = split(hdr, cur, wanted)
      BY <2>1 DEF split_if_too_big
    <3>2. Divided(hdr, cur, wanted, g)
      BY <2>1, <3>1, <1>1, <1>2, SplitShape
    <3> HIDE DEF g
    <3>3. cur \in DOMAIN g
      BY <3>2, <1>1 DEF Divided
    <3>4. WellFormed(g)
      BY <3>2, <1>1, <1>2, SplitWellFormed
    <3>5. Threaded(g, DOMAIN regions, RegionEnds)
      BY <3>2, <1>1, <1>2, SplitThreaded
    <3>6. QED
      BY <3>3, <3>4, <3>5
  <2>2. CASE ~block_splittable(hdr, cur, wanted)
    BY <2>2, <1>1 DEF split_if_too_big
  <2>3. QED
    BY <2>1, <2>2
<1>4. hdr' = [g EXCEPT ![cur].is_free = FALSE] /\ Return /\ regions' = regions
  BY DEF FindGood
<1> HIDE DEF g
<1>5. Threaded(hdr', DOMAIN regions, RegionEnds)
  BY <1>3, <1>4, MarkingThreaded
<1>6. QED
  BY <1>4, <1>5, SInvIdle DEF Return

\* Where a new region ends no block starts but the first of another region.
LEMMA RegionBehind ==
  ASSUME IInv, NEW size \in Nat, size > 0, NEW addr, NEW a \in Placements(addr, size),
         a + size \in DOMAIN hdr
  PROVE  a + size \in DOMAIN regions
<1>1. a \in Nat /\ \A r \in DOMAIN regions : Apart(a, size, r, regions[r])
  BY PlacementApart DEF Placements, Fits
<1>2. \A r \in DOMAIN regions : r \in Nat /\ regions[r] \in Nat
  BY DEF IInv, TypeOK
<1>3. a + size \in Occupied(hdr)
  <2>1. hdr[a + size].capacity \in Nat /\ a + size \in Int /\ WellFormed(hdr)
    BY <1>1 DEF IInv, WellFormed, Headers, Header
  <2>2. a + size < a + size + HeaderSize + hdr[a + size].capacity
    BY <2>1, <1>1, SizesAssumption
  <2>3. QED
    BY <2>1, <2>2, OccupiedBytes
<1>4. PICK r \in DOMAIN regions : r <= a + size /\ a + size < r + regions[r]
  BY <1>1, <1>2, <1>3 DEF IInv, RegionsTiled, Arena
<1>5. r = a + size
  BY <1>1, <1>2, <1>4 DEF Apart
<1>6. QED
  BY <1>5

\* A new region of whole pages lies apart from the others.
LEMMA MapsApart ==
  ASSUME IInv, RegionsApart, RegionsPaged, NEW size \in Nat, size > 0, Pages(size),
         NEW addr, NEW a \in Placements(addr, size), map_region(a, size)
  PROVE  /\ RegionsApart' /\ RegionsPaged'
         /\ DOMAIN regions' = DOMAIN regions \cup {a}
         /\ RegionEnds' = RegionEnds \cup {a + size}
<1>1. /\ a \in Nat /\ a \notin DOMAIN regions
      /\ \A r \in DOMAIN regions : Apart(a, size, r, regions[r])
      /\ Pages(a)
  BY PlacementApart, NoRest DEF Placements, Fits
<1>2. /\ DOMAIN regions' = DOMAIN regions \cup {a}
      /\ regions'[a] = size
      /\ \A r \in DOMAIN regions : regions'[r] = regions[r]
  BY <1>1 DEF map_region
<1>3. RegionsApart'
  <2>1. \A r \in DOMAIN regions : Apart(r, regions[r], a, size)
    BY <1>1 DEF Apart
  <2>2. QED
    BY <2>1, <1>1, <1>2 DEF RegionsApart
<1>4. RegionsPaged'
  BY <1>1, <1>2 DEF RegionsPaged
<1>5. RegionEnds' = RegionEnds \cup {a + size}
  BY <1>2 DEF RegionEnds
<1>6. QED
  BY <1>2, <1>3, <1>4, <1>5

\* A new search has passed no block.
LEMMA SearchStarts ==
  ASSUME cur' = HEAP_START
  PROVE  Searching'
<1>1. Passed({})'
  BY DEF Passed
<1>2. QED
  BY <1>1 DEF Searching

LEMMA GrowHeapKeepsSInv == IInv /\ SInv /\ grow_heap => SInv'
<1> SUFFICES ASSUME IInv, SInv, grow_heap PROVE SInv'
  OBVIOUS
<1> DEFINE size == grow_size
<1>1. /\ WellFormed(hdr) /\ cur \in DOMAIN hdr /\ HEAP_START \in DOMAIN hdr
      /\ hdr[cur].next = NULL /\ TypeOK /\ query \in Nat
      /\ Threaded(hdr, DOMAIN regions, RegionEnds) /\ RegionsApart /\ RegionsPaged
  BY SizesAssumption DEF IInv, SInv, Position, grow_heap, TypeOK
<1>2. /\ size \in Nat /\ size >= HeaderSize + BlockMinCapacity /\ size > 0
      /\ Pages(size)
  BY <1>1, WrappedSize, RegionSize, RegionPages, SizesAssumption DEF grow_size
<1>3. PICK a \in Placements(block_after(hdr, cur), size) : map_region(a, size) /\ hdr' = linked(a)
  BY DEF grow_heap
<1> DEFINE h == [block_init(hdr, a, size, NULL) EXCEPT ![cur].next = a]
<1>4. hdr' = h \/ (mergeable(h, cur) /\ hdr' = merge_with_next(h, cur))
  BY <1>3 DEF linked, try_merge_with_next
<1>r. Unwrapped => size >= HeaderSize + wanted
  BY <1>1, RegionRoom
<1> HIDE DEF size
<1>5. /\ a \in Nat \ {NULL}
      /\ a \notin DOMAIN hdr
      /\ \A b \in DOMAIN hdr : Apart(a, size, b, HeaderSize + hdr[b].capacity)
  BY <1>2, PlacementApart
<1>6. Extended(hdr, cur, a, size, h)
  BY <1>1, <1>5, LinkShape
<1> HIDE DEF h
<1>7. WellFormed(h)
  BY <1>1, <1>2, <1>5, <1>6, ExtendWellFormed
<1>8. a + size \in DOMAIN hdr => a + size \in DOMAIN regions
  BY <1>2, RegionBehind
<1>9. Threaded(h, DOMAIN regions \cup {a}, {a + size})
  BY <1>1, <1>2, <1>5, <1>6, <1>8, ExtendThreaded
<1>10. cur \in DOMAIN h
  BY <1>1, <1>6 DEF Extended
<1>11. Threaded(hdr', DOMAIN regions \cup {a}, {a + size})
  <2>1. CASE hdr' = h
    BY <2>1, <1>9
  <2>2. CASE mergeable(h, cur) /\ hdr' = merge_with_next(h, cur)
    <3>1. Merged(h, cur, hdr')
      BY <2>2, <1>7, <1>10, MergeShape
    <3>2. QED
      BY <3>1, <1>7, <1>9, <1>10, MergeThreaded
  <2>3. QED
    BY <1>4, <2>1, <2>2
<1>12. /\ RegionsApart' /\ RegionsPaged'
       /\ DOMAIN regions' = DOMAIN regions \cup {a}
       /\ RegionEnds' = RegionEnds \cup {a + size}
  BY <1>1, <1>2, <1>3, MapsApart
<1>13. Threaded(hdr, DOMAIN regions, RegionEnds)'
  BY <1>11, <1>12 DEF Threaded, EndsAt
<1>14. Searching' /\ Searched'
  BY SearchStarts DEF grow_heap, Searched
<1>15. Rewarded'
  <2>1. wanted' = wanted /\ (Unwrapped' <=> Unwrapped)
    BY DEF grow_heap, wanted, Unwrapped
  <2>2. wanted \in Nat
    BY <1>1, Wanted
  <2>3. SUFFICES ASSUME Unwrapped PROVE \E b \in DOMAIN hdr' : is_good(hdr', b, wanted)
    BY <2>1 DEF Rewarded
  <2>4. a \in DOMAIN h /\ h[a].is_free /\ h[a].capacity = size - HeaderSize /\ h[cur].next = a
    BY <1>6 DEF Extended
  <2>5. h[a].capacity >= wanted
    BY <2>2, <2>3, <2>4, <1>r, <1>2, SizesAssumption
  <2>6. CASE hdr' = h
    BY <2>4, <2>5, <2>6 DEF is_good
  <2>7. CASE mergeable(h, cur) /\ hdr' = merge_with_next(h, cur)
    <3>1. Merged(h, cur, hdr')
      BY <2>7, <1>7, <1>10, MergeShape
    <3>2. /\ cur \in DOMAIN hdr' /\ hdr'[cur].is_free
          /\ hdr'[cur].capacity = h[cur].capacity + HeaderSize + h[a].capacity
      BY <3>1, <2>4, <1>10 DEF Merged
    <3>3. h[cur].capacity \in Nat /\ h[a].capacity \in Nat
      BY <2>4, <1>7, <1>10 DEF WellFormed, Headers, Header
    <3>4. hdr'[cur].capacity >= wanted
      BY <3>2, <3>3, <2>2, <2>5, SizesAssumption
    <3>5. QED
      BY <3>2, <3>4 DEF is_good
  <2>8. QED
    BY <1>4, <2>6, <2>7
<1>16. QED
  BY <1>12, <1>13, <1>14, <1>15 DEF SInv

LEMMA HeapInitKeepsSInv ==
  ASSUME IInv, SInv, NEW initial \in InitialSizes, heap_init(initial)
  PROVE  SInv'
<1> DEFINE size == region_actual_size(size_from_capacity(initial))
<1>1. initial \in Nat
  BY ClientAssumption, SizesAssumption
<1>2. size \in Nat /\ size > 0 /\ Pages(size)
  BY <1>1, WrappedSize, RegionSize, RegionPages, SizesAssumption
<1> HIDE DEF size
<1>3. PICK a \in Placements(HEAP_START, size) :
        map_region(a, size) /\ hdr' = block_init(hdr, a, size, NULL)
  BY DEF heap_init, size
<1>4. pc' = "idle" /\ DOMAIN hdr = {}
  BY DEF heap_init, IInv, Position
<1>5. a \in Nat \ {NULL}
  BY <1>2, PlacementApart
<1>6. /\ DOMAIN hdr' = {a}
      /\ hdr'[a].next = NULL /\ hdr'[a].capacity = size - HeaderSize
  BY <1>3, <1>4 DEF block_init
<1>7. a + HeaderSize + hdr'[a].capacity = a + size
  BY <1>2, <1>5, <1>6, SizesAssumption
<1>8. /\ RegionsApart' /\ RegionsPaged'
      /\ a + size \in RegionEnds'
  <2>1. RegionsApart /\ RegionsPaged
    BY DEF SInv
  <2>2. RegionEnds' = RegionEnds \cup {a + size}
    BY <2>1, <1>2, <1>3, MapsApart
  <2>3. RegionsApart' /\ RegionsPaged'
    BY <2>1, <1>2, <1>3, MapsApart
  <2>4. QED
    BY <2>2, <2>3
<1>9. Threaded(hdr, DOMAIN regions, RegionEnds)'
  <2>1. HEAP_START \in DOMAIN hdr' => Complete(hdr')
    BY <1>6 DEF Complete
  <2>2. OneEnd(hdr') /\ EndsAt(hdr', RegionEnds')
    BY <1>6, <1>7, <1>8 DEF OneEnd, EndsAt
  <2>3. InOrder(hdr', DOMAIN regions')
    BY <1>2, <1>5, <1>6, <1>7 DEF InOrder
  <2>4. QED
    BY <2>1, <2>2, <2>3 DEF Threaded
<1>10. QED
  BY <1>4, <1>8, <1>9 DEF SInv, Searching, Searched, Rewarded

LEMMA FreeKeepsSInv ==
  ASSUME IInv, SInv, NEW a \in DOMAIN live, _free(a)
  PROVE  SInv'
<1>1. WellFormed(hdr) /\ a \in DOMAIN hdr
  BY DEF IInv, LiveIntact
<1>2. hdr' = [hdr EXCEPT ![a].is_free = TRUE] /\ pc' = "free" /\ regions' = regions
  BY DEF _free
<1>3. Threaded(hdr', DOMAIN regions, RegionEnds)
  BY <1>1, <1>2, MarkingThreaded DEF SInv
<1>4. QED
  BY <1>2, <1>3, SInvIdle

LEMMA FreeMergeKeepsSInv == IInv /\ SInv /\ FreeMerge => SInv'
<1> SUFFICES ASSUME IInv, SInv, FreeMerge PROVE SInv'
  OBVIOUS
<1>1. /\ WellFormed(hdr) /\ cur \in DOMAIN hdr /\ mergeable(hdr, cur)
      /\ hdr' = merge_with_next(hdr, cur) /\ pc' = "free" /\ regions' = regions
  BY DEF IInv, Position, FreeMerge
<1>2. Merged(hdr, cur, hdr')
  BY <1>1, MergeShape
<1>3. Threaded(hdr', DOMAIN regions, RegionEnds)
  BY <1>1, <1>2, MergeThreaded DEF SInv
<1>4. QED
  BY <1>1, <1>3, SInvIdle

LEMMA MallocKeepsSInv ==
  ASSUME SInv, NEW q \in Queries, _malloc(q)
  PROVE  SInv'
<1>1. UNCHANGED <<hdr, regions>> /\ pc' \in {"find", "fault"} /\ cur' = HEAP_START /\ ~grown'
  BY DEF _malloc
<1>2. Searching' /\ Searched' /\ Rewarded'
  BY <1>1, SearchStarts DEF Searched, Rewarded
<1>3. Threaded(hdr, DOMAIN regions, RegionEnds)' /\ RegionsApart' /\ RegionsPaged'
  BY <1>1 DEF SInv, RegionEnds, RegionsApart, RegionsPaged
<1>4. QED
  BY <1>2, <1>3 DEF SInv

LEMMA OthersKeepSInv == SInv /\ Others => SInv'
<1> SUFFICES ASSUME SInv, NEW f \in OtherPages, OthersMap(f) \/ OthersUnmap(f) PROVE SInv'
  BY DEF Others
<1>1. UNCHANGED <<hdr, regions>> /\ pc' = "idle"
  BY DEF OthersMap, OthersUnmap
<1>2. QED
  BY <1>1, SInvStays

LEMMA StepKeepsSInv == IInv /\ SInv /\ [Next]_vars => SInv'
<1> SUFFICES ASSUME IInv, SInv, [Next]_vars PROVE SInv'
  OBVIOUS
<1>1. CASE FindMerge
  BY <1>1, FindMergeKeepsSInv
<1>2. CASE FreeMerge
  BY <1>2, FreeMergeKeepsSInv
<1>3. CASE FindNext
  BY <1>3, FindNextKeepsSInv
<1>4. CASE FindGood
  BY <1>4, FindGoodKeepsSInv
<1>5. CASE FindFails
  BY <1>5, FindFailsKeepsSInv
<1>6. CASE grow_heap
  BY <1>6, GrowHeapKeepsSInv
<1>7. CASE GrowFails \/ FreeReturn
  BY <1>7, SInvStays DEF GrowFails, FreeReturn, Return
<1>8. ASSUME NEW s \in InitialSizes, heap_init(s) PROVE SInv'
  BY <1>8, HeapInitKeepsSInv
<1>9. ASSUME NEW q \in Queries, _malloc(q) PROVE SInv'
  BY <1>9, MallocKeepsSInv
<1>10. ASSUME NEW a \in DOMAIN live, _free(a) PROVE SInv'
  BY <1>10, FreeKeepsSInv
<1>11. CASE Others
  BY <1>11, OthersKeepSInv
<1>12. CASE UNCHANGED vars
  <2>1. wanted' = wanted
    BY <1>12 DEF vars, wanted
  <2>2. Searching' /\ Searched' /\ Rewarded'
    BY <2>1, <1>12
       DEF vars, SInv, Searching, Searched, Rewarded, Passed, Fruitless, Unwrapped
  <2>3. Threaded(hdr, DOMAIN regions, RegionEnds)' /\ RegionsApart' /\ RegionsPaged'
    BY <1>12 DEF vars, SInv, RegionEnds, RegionsApart, RegionsPaged
  <2>4. QED
    BY <2>2, <2>3 DEF SInv
<1>13. QED
  BY <1>1, <1>2, <1>3, <1>4, <1>5, <1>6, <1>7, <1>8, <1>9, <1>10, <1>11, <1>12
     DEF Next, Allocator, Find, Client

LEMMA SearchInductive == Spec => [](IInv /\ SInv)
<1>1. Init => SInv
  BY InitSInv
<1>2. IInv /\ SInv /\ [Next]_vars => SInv'
  BY StepKeepsSInv
<1>3. QED
  BY <1>1, <1>2, Inductive, PTL DEF Spec

-----------------------------------------------------------------------------
(* The theorems.                                                           *)

\* The list from HEAP_START visits every block and ends, whatever was split,
\* merged and linked (mem.c:92-129, 193-209): no block is lost for good.
THEOREM Completeness == Spec => []ListComplete
<1>1. IInv /\ SInv => ListComplete
  BY DEF IInv, WellFormed, Linked, SInv, Threaded, Complete, ListComplete
<1>2. QED
  BY <1>1, SearchInductive, PTL

\* A heap grows only when no region has free memory that would do: every stretch
\* of it that the block wanted would fit meets one that the client holds.
THEOREM NeededGrowth == Spec => []NoNeedlessGrowth
<1>1. IInv /\ SInv => NoNeedlessGrowth
  <2> DEFINE size == HeaderSize + wanted
  <2> SUFFICES ASSUME IInv, SInv, pc = "grow", NEW r \in DOMAIN regions,
                      NEW x \in r..(r + regions[r] - size),
                      \A a \in DOMAIN live : Apart(x, size, a, BlockSize(a))
               PROVE  FALSE
    BY DEF NoNeedlessGrowth
  <2>2. /\ r \in Nat /\ regions[r] \in Nat
        /\ \A s \in DOMAIN regions : s \in Nat /\ regions[s] \in Nat /\ regions[s] > 0
        /\ \A b \in DOMAIN hdr : b \in Nat \ {NULL} /\ hdr[b].capacity \in Nat
        /\ WellFormed(hdr)
    BY DEF IInv, TypeOK, WellFormed, Headers, Header
  <2>3. wanted \in Nat /\ size \in Nat /\ size > 0 /\ size = HeaderSize + wanted
    BY Wanted, SizesAssumption DEF IInv
  <2> HIDE DEF size
  <2>4. x \in Nat /\ r <= x /\ x + size <= r + regions[r]
    BY <2>2, <2>3
  <2>5. ASSUME NEW y \in Nat, x <= y, y < x + size
        PROVE  \E b \in DOMAIN hdr : /\ b <= y /\ y < b + HeaderSize + hdr[b].capacity
                                     /\ hdr[b].is_free
    <3>1. y \in Arena
      BY <2>2, <2>3, <2>4, <2>5 DEF Arena
    <3>2. PICK b \in DOMAIN hdr : b <= y /\ y < b + HeaderSize + hdr[b].capacity
      BY <3>1, <2>2, OccupiedBytes DEF IInv, RegionsTiled
    <3>3. b \notin DOMAIN live
      <4>1. SUFFICES ASSUME b \in DOMAIN live PROVE FALSE
        OBVIOUS
      <4>2. Apart(x, size, b, HeaderSize + hdr[b].capacity)
        BY <4>1 DEF BlockSize
      <4>3. QED
        BY <4>2, <3>2, <2>2, <2>3, <2>4, <2>5, SizesAssumption DEF Apart
    <3>4. hdr[b].is_free
      BY <3>3 DEF IInv, LiveIntact
    <3>5. QED
      BY <3>2, <3>4
  <2>6. PICK b \in DOMAIN hdr : b <= x /\ x < b + HeaderSize + hdr[b].capacity /\ hdr[b].is_free
    BY <2>3, <2>4, <2>5
  <2> DEFINE y == b + HeaderSize + hdr[b].capacity
  <2>7. ~is_good(hdr, b, wanted) /\ ~mergeable(hdr, b)
    BY DEF SInv, Searched, Fruitless
  <2>8. hdr[b].capacity < wanted
    BY <2>6, <2>7, <2>2, <2>3 DEF is_good
  <2>9. y \in Nat /\ x <= y /\ y < x + size
    BY <2>2, <2>3, <2>4, <2>6, <2>8, SizesAssumption
  <2>10. PICK c \in DOMAIN hdr : c <= y /\ y < c + HeaderSize + hdr[c].capacity /\ hdr[c].is_free
    BY <2>5, <2>9
  <2>11. c = y
    <3>1. c # b
      BY <2>9, <2>10
    <3>2. Apart(b, HeaderSize + hdr[b].capacity, c, HeaderSize + hdr[c].capacity)
      BY <3>1, <2>2 DEF WellFormed, Disjoint
    <3>3. QED
      BY <3>2, <2>2, <2>4, <2>6, <2>9, <2>10, SizesAssumption DEF Apart
  <2>12. c \notin DOMAIN regions
    <3>1. c > r /\ c < r + regions[r]
      BY <2>2, <2>3, <2>4, <2>6, <2>9, <2>11
    <3>2. c \in DOMAIN regions => Apart(r, regions[r], c, regions[c])
      BY <3>1, <2>2 DEF SInv, RegionsApart
    <3>3. QED
      BY <3>1, <3>2, <2>2 DEF Apart
  <2>13. hdr[b].next = c
    BY <2>11, <2>12 DEF SInv, Threaded, InOrder
  <2>14. mergeable(hdr, b)
    BY <2>2, <2>6, <2>10, <2>11, <2>13 DEF mergeable, blocks_continuous, block_after
  <2>15. QED
    BY <2>7, <2>14
<1>2. QED
  BY <1>1, SearchInductive, PTL

\* grow_heap asks mmap for the pages behind a region (mem.c:130): on a page
\* boundary, and where MAP_FIXED_NOREPLACE need not meet the heap itself.
THEOREM AlignedGrowth == Spec => []GrowsAtARegionEnd
<1>1. IInv /\ SInv => GrowsAtARegionEnd
  <2> SUFFICES ASSUME IInv, SInv, pc = "grow"
               PROVE  /\ block_after(hdr, cur) % PageSize = 0
                      /\ \E r \in DOMAIN regions : block_after(hdr, cur) = r + regions[r]
    BY DEF GrowsAtARegionEnd
  <2>2. cur \in DOMAIN hdr /\ hdr[cur].next = NULL
    BY DEF IInv, Position
  <2>3. PICK r \in DOMAIN regions : block_after(hdr, cur) = r + regions[r]
    BY <2>2 DEF SInv, Threaded, EndsAt, RegionEnds, block_after
  <2>4. r + regions[r] \in Nat /\ Pages(r + regions[r])
    BY SumOfPages DEF IInv, TypeOK, SInv, RegionsPaged
  <2>5. QED
    BY <2>3, <2>4, NoRest
<1>2. QED
  BY <1>1, SearchInductive, PTL

\* _malloc fails after the heap has grown only if the size of the region
\* wrapped around (mem.c:26, 38, 51).
THEOREM SufficientGrowth == Spec => GrowthSuffices
<1> DEFINE Step == pc = "find" /\ grown /\ pc' = "idle" /\ live' = live
                     => query + HeaderSize > SizeModulus - PageSize
<1>1. IInv /\ SInv /\ [Next]_vars => Step
  <2> SUFFICES ASSUME IInv, SInv, [Next]_vars, pc = "find", grown, pc' = "idle", live' = live,
                      Unwrapped
               PROVE  FALSE
    BY SizesAssumption DEF IInv, TypeOK, Unwrapped
  <2>2. PICK b \in DOMAIN hdr : is_good(hdr, b, wanted)
    BY DEF SInv, Rewarded
  <2>3. CASE FindFails
    BY <2>2, <2>3, SearchEnds DEF Fruitless
  <2>4. CASE FindGood
    <3>1. cur \in DOMAIN hdr /\ cur # NULL
      BY DEF IInv, Position, WellFormed, Headers
    <3>2. hdr[cur].is_free
      BY <2>4, <3>1, Verdicts DEF FindGood, is_good
    <3>3. cur \notin DOMAIN live
      BY <3>2 DEF IInv, LiveIntact
    <3>4. cur \in DOMAIN live'
      BY <2>4 DEF FindGood
    <3>5. QED
      BY <3>3, <3>4
  <2>5. QED
    BY <2>3, <2>4
       DEF Next, Allocator, Find, Client, Others, vars, FindMerge, FindNext, grow_heap, GrowFails,
           FreeMerge, FreeReturn, heap_init, _malloc, _free, OthersMap, OthersUnmap
<1>2. QED
  BY <1>1, SearchInductive, PTL DEF Spec, GrowthSuffices

-----------------------------------------------------------------------------
(* That a call comes to an end.                                            *)

\* S leads nowhere else.
Closed(h, S) == \A b \in S : h[b].next \in S \cup {NULL}

\* The blocks that the list reaches from a.
From(h, a) == {b \in DOMAIN h : \A S \in SUBSET DOMAIN h : a \in S /\ Closed(h, S) => b \in S}

\* What bounds the steps the running loop still takes: each merge takes a block
\* out of the list, and each step of the search leaves one behind.
StepsLeft == Cardinality(DOMAIN hdr) + Cardinality(From(hdr, cur))

\* A step of a call: the loops advance, and the heap grows at most once.
Advances ==
  /\ pc \in {"find", "free"} /\ pc' = pc =>
       /\ StepsLeft' \in Nat /\ StepsLeft \in Nat /\ StepsLeft' < StepsLeft
       /\ grown' = grown
  /\ pc = "find" /\ pc' = "grow" => ~grown
  /\ pc = "grow" => pc' = "idle" \/ (pc' = "find" /\ grown')
  /\ pc \in {"find", "free"} => pc' \in {pc, "idle", "grow"}

\* From is the least closed set that holds a.
LEMMA FromShape ==
  ASSUME NEW h, Closed(h, DOMAIN h), NEW a \in DOMAIN h
  PROVE  /\ a \in From(h, a) /\ From(h, a) \in SUBSET DOMAIN h /\ Closed(h, From(h, a))
         /\ \A S \in SUBSET DOMAIN h : a \in S /\ Closed(h, S) => From(h, a) \subseteq S
<1>1. a \in From(h, a) /\ From(h, a) \in SUBSET DOMAIN h
  BY DEF From
<1>2. \A S \in SUBSET DOMAIN h : a \in S /\ Closed(h, S) => From(h, a) \subseteq S
  BY DEF From
<1>3. Closed(h, From(h, a))
  <2> SUFFICES ASSUME NEW b \in From(h, a), h[b].next # NULL
               PROVE  h[b].next \in From(h, a)
    BY DEF Closed
  <2>1. b \in DOMAIN h /\ h[b].next \in DOMAIN h
    BY <1>1 DEF Closed
  <2>2. ASSUME NEW S \in SUBSET DOMAIN h, a \in S, Closed(h, S)
        PROVE  h[b].next \in S
    BY <1>2, <2>2 DEF Closed
  <2> QED BY <2>1, <2>2 DEF From
<1> QED BY <1>1, <1>2, <1>3

\* The search leaves a behind: were a reached again from its successor, the
\* list would never end.
LEMMA FromNext ==
  ASSUME NEW h, Complete(h), Closed(h, DOMAIN h), NULL \notin DOMAIN h,
         NEW V \in SUBSET DOMAIN h, NEW a \in DOMAIN h, a \notin V,
         HEAP_START \in V \cup {a}, \A b \in V : h[b].next \in V \cup {a},
         h[a].next # NULL
  PROVE  From(h, h[a].next) \subseteq From(h, a) \ {a}
<1> DEFINE n == h[a].next   T == From(h, n)
<1>1. n \in DOMAIN h
  BY DEF Closed
<1>2. /\ n \in T /\ T \in SUBSET DOMAIN h /\ Closed(h, T)
      /\ \A S \in SUBSET DOMAIN h : n \in S /\ Closed(h, S) => T \subseteq S
  BY <1>1, FromShape
<1>3. T \subseteq From(h, a)
  <2>1. a \in From(h, a) /\ Closed(h, From(h, a)) /\ From(h, a) \in SUBSET DOMAIN h
    BY FromShape
  <2>2. n \in From(h, a)
    BY <2>1 DEF Closed
  <2> QED BY <1>2, <2>1, <2>2
<1> HIDE DEF T
<1>4. ASSUME a \in T PROVE FALSE
  \* Each block that n reaches would reach a.
  <2> DEFINE R == {x \in T : a \in From(h, x)}
  <2>1. n \in R
    BY <1>2, <1>4 DEF T
  <2>2. \A x \in R : h[x].next \in R
    <3> TAKE x \in R
    <3>1. x \in DOMAIN h /\ a \in From(h, x)
      BY <1>2
    <3>2. CASE x = a
      BY <2>1, <3>2
    <3>3. CASE x # a
      <4>1. h[x].next # NULL
        <5> SUFFICES ASSUME h[x].next = NULL PROVE FALSE
          OBVIOUS
        <5>1. Closed(h, {x}) /\ {x} \in SUBSET DOMAIN h
          BY <3>1 DEF Closed
        <5>2. From(h, x) \subseteq {x}
          BY <3>1, <5>1, FromShape
        <5> QED BY <3>1, <3>3, <5>2
      <4> DEFINE m == h[x].next
      <4>2. m \in T /\ m \in DOMAIN h
        BY <1>2, <4>1 DEF Closed
      <4>3. m \in From(h, m) /\ Closed(h, From(h, m)) /\ From(h, m) \in SUBSET DOMAIN h
        BY <4>2, FromShape
      <4>4. Closed(h, From(h, m) \cup {x}) /\ From(h, m) \cup {x} \in SUBSET DOMAIN h
        BY <3>1, <4>3 DEF Closed
      <4>5. From(h, x) \subseteq From(h, m) \cup {x}
        BY <3>1, <4>4, FromShape
      <4> QED BY <3>1, <3>3, <4>2, <4>5
    <3> QED BY <3>2, <3>3
  <2>3. Closed(h, R) /\ R \in SUBSET DOMAIN h
    BY <1>2, <2>2 DEF Closed
  <2>4. T = R
    BY <1>2, <2>1, <2>3
  <2>5. \A x \in T : h[x].next \in T
    BY <2>2, <2>4
  <2>6. T \cup V = DOMAIN h
    <3>1. HEAP_START \in T \cup V /\ T \cup V \in SUBSET DOMAIN h
      BY <1>2, <1>4
    <3>2. \A b \in T \cup V : h[b].next \in T \cup V
      BY <1>4, <2>5
    <3> QED BY <3>1, <3>2 DEF Complete
  <2>7. \A b \in DOMAIN h : h[b].next \in DOMAIN h
    BY <2>5, <2>6
  <2> QED BY <2>7 DEF Complete
<1> QED BY <1>3, <1>4 DEF T

\* A merge puts nothing new behind a.
LEMMA FromMerged ==
  ASSUME NEW h, WellFormed(h), NEW a \in DOMAIN h, NEW g, Merged(h, a, g)
  PROVE  /\ From(g, a) \subseteq From(h, a)
         /\ h[a].next \in DOMAIN h /\ DOMAIN g = DOMAIN h \ {h[a].next} /\ a \in DOMAIN g
<1> DEFINE n == h[a].next   S == From(h, a) \ {n}
<1>1. /\ n \in DOMAIN h /\ n # a /\ DOMAIN g = DOMAIN h \ {n} /\ n # NULL
      /\ \A x \in DOMAIN g : x # a => g[x] = h[x]
      /\ g[a].next = h[n].next
  BY DEF Merged, WellFormed, Headers
<1>2. /\ Closed(h, DOMAIN h)
      /\ \A x, y \in DOMAIN h : x # y /\ h[x].next = h[y].next => h[x].next = NULL
  BY DEF WellFormed, Linked, Closed
<1>3. a \in From(h, a) /\ Closed(h, From(h, a)) /\ From(h, a) \in SUBSET DOMAIN h
  BY <1>2, FromShape
<1> HIDE DEF n
<1>4. h[a].next = n
  BY DEF n
<1>5. n \in From(h, a)
  BY <1>1, <1>3, <1>4 DEF Closed
<1>6. h[n].next # n
  BY <1>1, <1>2, <1>4
<1>7. \A b \in S : g[b].next \in S \cup {NULL}
  <2> TAKE b \in S
  <2>1. CASE b = a
    BY <1>1, <1>3, <1>5, <1>6, <2>1 DEF Closed
  <2>2. CASE b # a
    <3>1. b \in DOMAIN h /\ b \in DOMAIN g /\ g[b] = h[b]
      BY <1>1, <1>3, <2>2
    <3>2. h[b].next # n
      BY <1>1, <1>2, <1>4, <2>2, <3>1
    <3> QED BY <1>3, <3>1, <3>2 DEF Closed
  <2> QED BY <2>1, <2>2
<1>8. a \in S /\ S \in SUBSET DOMAIN g
  BY <1>1, <1>3
<1> HIDE DEF S
<1>9. From(g, a) \subseteq S
  BY <1>7, <1>8 DEF From, Closed
<1> QED BY <1>1, <1>4, <1>8, <1>9 DEF S

\* Fewer blocks in the list, or fewer behind: fewer steps.
LEMMA FewerSteps ==
  ASSUME NEW D, IsFiniteSet(D), NEW C \in SUBSET D, NEW F \in SUBSET D, NEW G \in SUBSET C,
         G \subseteq F, C # D \/ G # F
  PROVE  /\ Cardinality(D) + Cardinality(F) \in Nat
         /\ Cardinality(C) + Cardinality(G) \in Nat
         /\ Cardinality(C) + Cardinality(G) < Cardinality(D) + Cardinality(F)
<1>1. IsFiniteSet(F) /\ IsFiniteSet(C) /\ IsFiniteSet(G)
  BY FS_Subset
<1>2. /\ Cardinality(D) \in Nat /\ Cardinality(C) \in Nat
      /\ Cardinality(F) \in Nat /\ Cardinality(G) \in Nat
  BY <1>1, FS_CardinalityType
<1>3. /\ Cardinality(C) <= Cardinality(D) /\ Cardinality(G) <= Cardinality(F)
      /\ Cardinality(D) = Cardinality(C) => D = C
      /\ Cardinality(F) = Cardinality(G) => F = G
  BY <1>1, FS_Subset
<1> QED BY <1>2, <1>3

Finite == IsFiniteSet(DOMAIN hdr)

\* The list has an end, so it is finite: a step brings at most one header.
LEMMA FiniteStays ==
  ASSUME IInv, Finite, [Next]_vars
  PROVE  Finite'
<1>1. SUFFICES \E x : DOMAIN hdr' \subseteq DOMAIN hdr \cup {x}
  <2> SUFFICES ASSUME NEW x, DOMAIN hdr' \subseteq DOMAIN hdr \cup {x} PROVE Finite'
    OBVIOUS
  <2>1. IsFiniteSet(DOMAIN hdr \cup {x})
    BY FS_AddElement DEF Finite
  <2> QED BY <2>1, FS_Subset DEF Finite
<1>2. CASE UNCHANGED hdr
  BY <1>2
<1>3. CASE FindMerge \/ FreeMerge
  BY <1>3 DEF FindMerge, FreeMerge, merge_with_next
<1>4. CASE FindGood
  <2>1. DOMAIN hdr' = DOMAIN split_if_too_big(hdr, cur, wanted)
    BY <1>4 DEF FindGood
  <2>2. \E x : DOMAIN split_if_too_big(hdr, cur, wanted) \subseteq DOMAIN hdr \cup {x}
    <3>1. DOMAIN split(hdr, cur, wanted) = DOMAIN hdr \cup {cur + HeaderSize + wanted}
      BY DEF split, block_init
    <3> QED BY <3>1 DEF split_if_too_big
  <2> QED BY <2>1, <2>2
<1>5. CASE grow_heap
  <2>1. PICK a : hdr' = linked(a)
    BY <1>5 DEF grow_heap
  <2> DEFINE g == [block_init(hdr, a, grow_size, NULL) EXCEPT ![cur].next = a]
  <2>2. DOMAIN g = DOMAIN hdr \cup {a}
    BY DEF block_init
  <2>3. DOMAIN linked(a) \subseteq DOMAIN g
    <3>1. linked(a) = g \/ linked(a) = merge_with_next(g, cur)
      BY DEF linked, try_merge_with_next
    <3> HIDE DEF g
    <3> QED BY <3>1 DEF merge_with_next
  <2> QED BY <2>1, <2>2, <2>3
<1>6. CASE \E s \in InitialSizes : heap_init(s)
  <2>1. PICK a, z : hdr' = block_init(hdr, a, z, NULL)
    BY <1>6 DEF heap_init
  <2> QED BY <2>1 DEF block_init
<1>7. CASE \E a \in DOMAIN live : _free(a)
  BY <1>7 DEF _free
<1>8. CASE FindNext \/ FindFails \/ GrowFails \/ FreeReturn \/ (\E q \in Queries : _malloc(q)) \/ Others
  <2>1. UNCHANGED hdr
    BY <1>8 DEF FindNext, FindFails, GrowFails, FreeReturn, _malloc, Others, OthersMap, OthersUnmap
  <2> QED BY <1>2, <2>1
<1> QED BY <1>2, <1>3, <1>4, <1>5, <1>6, <1>7, <1>8 DEF Next, Allocator, Find, Client, vars

\* A merge, in the search or after _free, takes a block out of the list.
LEMMA MergeAdvances ==
  ASSUME IInv, Finite, FindMerge \/ FreeMerge
  PROVE  Advances
<1>1. /\ pc \in {"find", "free"} /\ mergeable(hdr, cur) /\ hdr' = merge_with_next(hdr, cur)
      /\ pc' = pc /\ cur' = cur /\ grown' = grown
  BY DEF FindMerge, FreeMerge
<1>2. WellFormed(hdr) /\ cur \in DOMAIN hdr
  BY <1>1 DEF IInv, Position
<1>3. Merged(hdr, cur, hdr')
  BY <1>1, <1>2, MergeShape
<1>4. /\ From(hdr', cur) \subseteq From(hdr, cur) /\ hdr[cur].next \in DOMAIN hdr
      /\ DOMAIN hdr' = DOMAIN hdr \ {hdr[cur].next}
  BY <1>2, <1>3, FromMerged
<1>5. From(hdr', cur) \in SUBSET DOMAIN hdr' /\ From(hdr, cur) \in SUBSET DOMAIN hdr
  BY DEF From
<1>6. From(hdr, cur)' = From(hdr', cur)
  BY <1>1 DEF From, Closed
<1>7. StepsLeft \in Nat /\ StepsLeft' \in Nat /\ StepsLeft' < StepsLeft
  BY <1>4, <1>5, <1>6, FewerSteps DEF StepsLeft, Finite
<1> QED BY <1>1, <1>7 DEF Advances

\* A step of the search leaves a block behind.
LEMMA NextAdvances ==
  ASSUME IInv, SInv, Finite, FindNext
  PROVE  Advances
<1>1. /\ pc = "find" /\ ~mergeable(hdr, cur) /\ cur' = hdr[cur].next
      /\ verdict(hdr, cur, wanted) = "continue" /\ hdr' = hdr
      /\ pc' = pc /\ grown' = grown
  BY DEF FindNext
<1>2. Complete(hdr) /\ WellFormed(hdr) /\ cur \in DOMAIN hdr /\ NULL \notin DOMAIN hdr
  BY <1>1, Visited
<1>3. PICK V \in SUBSET DOMAIN hdr : Passed(V)
  BY <1>1, Visited
<1>4. hdr[cur].next # NULL
  BY <1>1, <1>2, Verdicts DEF verdict
<1>5. Closed(hdr, DOMAIN hdr)
  BY <1>2 DEF WellFormed, Linked, Closed
<1>6. From(hdr, cur') \subseteq From(hdr, cur) \ {cur} /\ cur \in From(hdr, cur)
  BY <1>1, <1>2, <1>3, <1>4, <1>5, FromNext, FromShape DEF Passed
<1>7. From(hdr, cur)' = From(hdr, cur')
  BY <1>1 DEF From, Closed
<1>8. From(hdr, cur') \in SUBSET DOMAIN hdr /\ From(hdr, cur) \in SUBSET DOMAIN hdr
  BY DEF From
<1>9. StepsLeft \in Nat /\ StepsLeft' \in Nat /\ StepsLeft' < StepsLeft
  BY <1>1, <1>6, <1>7, <1>8, FewerSteps DEF StepsLeft, Finite
<1> QED BY <1>1, <1>9 DEF Advances

\* Every step of a running call advances.
LEMMA StepAdvances == IInv /\ SInv /\ Finite /\ [Next]_vars => [Advances]_vars
<1> SUFFICES ASSUME IInv, SInv, Finite, Next PROVE Advances
  OBVIOUS
<1>1. CASE FindMerge \/ FreeMerge
  BY <1>1, MergeAdvances
<1>2. CASE FindNext
  BY <1>2, NextAdvances
<1>3. CASE FindGood \/ FreeReturn \/ GrowFails
  BY <1>3 DEF FindGood, FreeReturn, GrowFails, Return, Advances
<1>4. CASE FindFails
  <2>1. pc = "find" /\ ((pc' = "grow" /\ ~grown) \/ Return)
    BY <1>4 DEF FindFails
  <2> QED BY <2>1 DEF Return, Advances
<1>5. CASE grow_heap
  BY <1>5 DEF grow_heap, Advances
<1>6. CASE Client \/ Others
  <2>1. pc = "idle"
    BY <1>6 DEF Client, heap_init, _malloc, _free, Others, OthersMap, OthersUnmap
  <2> QED BY <2>1 DEF Advances
<1> QED BY <1>1, <1>2, <1>3, <1>4, <1>5, <1>6 DEF Next, Allocator, Find

\* No loop of mem.c runs without end (find_good_or_last, mem.c:151-171, and _free,
\* mem.c:242-248): whatever was split, merged and grown before, each iteration makes
\* a natural number smaller, and a call grows the heap at most once.  That a call
\* returns needs no more than that it goes on.
THEOREM Progress == Spec => [][Advances]_vars
<1>1. Init => Finite
  BY FS_EmptySet DEF Init, Finite
<1>2. IInv /\ Finite /\ [Next]_vars => Finite'
  BY FiniteStays
<1>3. Spec => [](IInv /\ SInv)
  BY SearchInductive
<1> QED BY <1>1, <1>2, <1>3, StepAdvances, PTL DEF Spec
================================================================================
