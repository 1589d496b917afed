------------------------------- MODULE TestsProof -------------------------------
(***************************************************************************)
(* What the allocator's tests promise, for every value of its constants:   *)
(* what the search answers on any list, where the unit tests of it have    *)
(* five; that the test program passes; and that the unit tests do.         *)
(***************************************************************************)
EXTENDS SearchProof, MemTests, TestProgram, SequenceTheorems

-----------------------------------------------------------------------------
(* What the search answers, on every list the unit tests could lay out.    *)

\* The lists: each block with a header, none at the address of another, the
\* first one where the search starts.
Layouts ==
  {l \in Seq([at : Nat \ {NULL}, size : Nat, is_free : BOOLEAN]) :
     /\ Len(l) > 0 /\ l[1].at = HEAP_START
     /\ \A i \in DOMAIN l : l[i].size >= HeaderSize
     /\ \A i, j \in DOMAIN l : i # j => l[i].at # l[j].at}

\* A unit test of find_good_or_last on one of them; try_memalloc_existing asks
\* for no less than BLOCK_MIN_CAPACITY.
SearchSpec ==
  /\ \E l \in Layouts, q \in Nat :
       q >= BlockMinCapacity /\ UnitInit(Finds(q, l, Ignored, <<>>))
  /\ [][UnitNext]_<<vars, unit_vars>>

\* The address behind which the list goes on after its block e.
Behind(l, e) == IF e < Len(l) THEN l[e + 1].at ELSE NULL

\* The header of the block c of a list that has absorbed those up to e.
Gathered(l, c, e) ==
  [next     |-> Behind(l, e),
   capacity |-> l[e].at + l[e].size - l[c].at - HeaderSize,
   is_free  |-> l[c].is_free]

Stands(l, c, e) == l[c].at \in DOMAIN hdr /\ hdr[l[c].at] = Gathered(l, c, e)

\* The block c heads a stretch, and those up to e belong to it.
OneStretch(l, c, e) ==
  /\ c \in Heads(l) /\ e \in c..Len(l)
  /\ \A k \in (c + 1)..e : k \notin Heads(l)

\* The stretch ends with the block e.
Ends(l, c, e) == OneStretch(l, c, e) /\ (e < Len(l) => e + 1 \in Heads(l))

\* A search for q bytes has come to the block c of the list and has merged those up
\* to e with it; the blocks behind are as they were, and each of the stretches before c
\* is one block without room.
Reached(l, q, c, e) ==
  /\ OneStretch(l, c, e)
  /\ cur = l[c].at
  /\ Stands(l, c, e)
  /\ \A j \in (e + 1)..Len(l) : Stands(l, j, j)
  /\ \A i \in Heads(l) : i < c =>
       /\ i \notin Roomy(l, q)
       /\ \A j \in DOMAIN l : Ends(l, i, j) => Stands(l, i, j)

FitInv ==
  /\ unit.does = "find_good_or_last" /\ unit.list \in Layouts
  /\ unit.arg \in Nat /\ unit.arg >= BlockMinCapacity
  /\ phase \in {"ready", "running", "over"}
  /\ phase = "ready" => hdr = Laid(unit.list)
  /\ phase = "running" =>
       /\ pc = "find" /\ query = unit.arg
       /\ \E c, e \in DOMAIN unit.list : Reached(unit.list, unit.arg, c, e)
  /\ FirstFit

\* A layout by its blocks.
LEMMA LayoutShape ==
  ASSUME NEW l \in Layouts
  PROVE  /\ Len(l) \in Nat \ {0} /\ DOMAIN l = 1..Len(l) /\ l[1].at = HEAP_START
         /\ \A i \in 1..Len(l) : /\ l[i].at \in Nat \ {NULL} /\ l[i].size \in Nat
                                 /\ l[i].is_free \in BOOLEAN
                                 /\ l[i].size >= HeaderSize
         /\ \A i, j \in 1..Len(l) : i # j => l[i].at # l[j].at
<1> DEFINE S == [at : Nat \ {NULL}, size : Nat, is_free : BOOLEAN]
<1>1. l \in Seq(S) /\ Len(l) > 0
  BY DEF Layouts
<1>2. DOMAIN l = 1..Len(l) /\ Len(l) \in Nat \ {0} /\ \A i \in 1..Len(l) : l[i] \in S
  <2> HIDE DEF S
  <2> QED BY <1>1
<1> QED BY <1>2 DEF Layouts

\* The headers of a layout.
LEMMA LaidBlock ==
  ASSUME NEW l \in Layouts
  PROVE  /\ DOMAIN Laid(l) = {l[k].at : k \in 1..Len(l)}
         /\ \A i \in 1..Len(l) : Laid(l)[l[i].at] = Gathered(l, i, i)
<1>1. DOMAIN l = 1..Len(l) /\ \A i, j \in 1..Len(l) : l[j].at = l[i].at => j = i
  BY LayoutShape
<1>2. DOMAIN Laid(l) = {l[k].at : k \in DOMAIN l}
  BY DEF Laid
<1>3. ASSUME NEW i \in 1..Len(l)
      PROVE  Laid(l)[l[i].at] = Gathered(l, i, i)
  <2>1. (CHOOSE k \in DOMAIN l : l[k].at = l[i].at) = i
    BY <1>1, <1>3
  <2>2. l[i].at \in {l[k].at : k \in DOMAIN l}
    BY <1>1, <1>3
  <2>3. Laid(l)[l[i].at] =
          [next |-> Behind(l, i), capacity |-> l[i].size - HeaderSize, is_free |-> l[i].is_free]
    BY <2>1, <2>2, Zenon DEF Laid, Behind
  <2> DEFINE x == l[i].at   s == l[i].size
  <2>4. x \in Nat /\ s \in Nat /\ HeaderSize \in Nat
    BY <1>3, LayoutShape, SizesAssumption
  <2>5. x + s - x - HeaderSize = s - HeaderSize
    <3> HIDE DEF x, s
    <3> QED BY <2>4
  <2> QED BY <2>3, <2>5 DEF Gathered
<1> QED BY <1>1, <1>2, <1>3

\* A block heads a stretch unless it adjoins a free one and is free itself.
LEMMA HeadShape ==
  ASSUME NEW l \in Layouts
  PROVE  /\ Heads(l) \subseteq 1..Len(l) /\ 1 \in Heads(l)
         /\ \A i \in 1..Len(l) : i > 1 =>
              (i \notin Heads(l) <=> /\ l[i].is_free /\ l[i - 1].is_free
                                     /\ l[i].at = l[i - 1].at + l[i - 1].size)
BY LayoutShape DEF Heads

\* The blocks of a stretch are free if its first one is, and only one that is
\* free has others behind it.
LEMMA OneState ==
  ASSUME NEW l \in Layouts, NEW c, NEW e, OneStretch(l, c, e)
  PROVE  /\ c \in 1..Len(l) /\ e \in 1..Len(l) /\ c <= e
         /\ l[e].is_free <=> l[c].is_free
<1>1. /\ Len(l) \in Nat /\ Heads(l) \subseteq 1..Len(l)
      /\ c \in Heads(l) /\ e \in c..Len(l) /\ \A k \in (c + 1)..e : k \notin Heads(l)
  BY LayoutShape, HeadShape DEF OneStretch
<1>2. CASE e = c
  BY <1>1, <1>2
<1>3. CASE e > c
  <2>1. e \in (c + 1)..e /\ e \in 1..Len(l) /\ c + 1 \in (c + 1)..e /\ c + 1 \in 1..Len(l)
    BY <1>1, <1>3
  <2>2. l[e].is_free /\ l[c + 1 - 1].is_free
    BY <1>1, <1>3, <2>1, HeadShape
  <2> QED BY <1>1, <2>1, <2>2
<1> QED BY <1>1, <1>2, <1>3

\* A stretch has one end.
LEMMA EndsOnce ==
  ASSUME NEW l \in Layouts, NEW c, NEW e, NEW j, Ends(l, c, e), Ends(l, c, j)
  PROVE  j = e
<1>1. ASSUME NEW x, NEW y, Ends(l, c, x), Ends(l, c, y), x < y PROVE FALSE
  <2>1. /\ x \in 1..Len(l) /\ y \in 1..Len(l) /\ c \in 1..Len(l) /\ c <= x /\ Len(l) \in Nat
    BY <1>1, OneState, LayoutShape DEF Ends
  <2>2. x < Len(l) /\ x + 1 \in (c + 1)..y
    BY <1>1, <2>1
  <2> QED BY <1>1, <2>2 DEF Ends, OneStretch
<1>2. e \in Int /\ j \in Int
  BY OneState, LayoutShape DEF Ends
<1>3. e < j \/ j < e \/ j = e
  BY <1>2
<1> QED BY <1>1, <1>3

\* The bytes of a stretch.
LEMMA StretchIs ==
  ASSUME NEW l \in Layouts, NEW c, NEW e, Ends(l, c, e)
  PROVE  Stretch(l, c) = l[e].at + l[e].size - l[c].at
<1> DEFINE ends == {j \in DOMAIN l : j > c /\ j \in Heads(l)}
<1>1. /\ c \in 1..Len(l) /\ Len(l) \in Nat /\ e \in 1..Len(l) /\ DOMAIN l = 1..Len(l)
      /\ \A k \in (c + 1)..e : k \notin Heads(l)
      /\ e < Len(l) => e + 1 \in Heads(l)
      /\ e >= c
  BY LayoutShape, OneState DEF Ends, OneStretch
<1>2. \A j \in ends : j \in Nat /\ j > e
  BY <1>1
<1>3. CASE e < Len(l)
  <2>1. e + 1 \in ends /\ \A k \in ends : e + 1 <= k
    BY <1>1, <1>2, <1>3
  <2> HIDE DEF ends
  <2>2. (CHOOSE j \in ends : \A k \in ends : j <= k) = e + 1
    BY <1>1, <1>2, <2>1
  <2>3. ends # {} /\ (e + 1) - 1 = e
    BY <1>1, <2>1
  <2> USE DEF ends
  <2> QED BY <2>2, <2>3 DEF Stretch
<1>4. CASE e = Len(l)
  <2>1. ends = {}
    BY <1>1, <1>2, <1>4
  <2> QED BY <1>4, <2>1 DEF Stretch
<1> QED BY <1>1, <1>3, <1>4

\* The least and the greatest of a set.
LEMMA LeastIs ==
  ASSUME NEW S \in SUBSET Int, NEW c \in S
  PROVE  /\ (\A k \in S : c <= k) => (CHOOSE i \in S : \A k \in S : i <= k) = c
         /\ (\A k \in S : k <= c) => (CHOOSE i \in S : \A k \in S : k <= i) = c
<1>1. ASSUME \A k \in S : c <= k
      PROVE  (CHOOSE i \in S : \A k \in S : i <= k) = c
  <2> DEFINE w == CHOOSE i \in S : \A k \in S : i <= k
  <2>1. w \in S /\ \A k \in S : w <= k
    BY <1>1, Zenon
  <2> HIDE DEF w
  <2>2. w = c
    BY <1>1, <2>1
  <2> QED BY <2>2 DEF w
<1>2. ASSUME \A k \in S : k <= c
      PROVE  (CHOOSE i \in S : \A k \in S : k <= i) = c
  <2> DEFINE w == CHOOSE i \in S : \A k \in S : k <= i
  <2>1. w \in S /\ \A k \in S : k <= w
    BY <1>2, Zenon
  <2> HIDE DEF w
  <2>2. w = c
    BY <1>2, <2>1
  <2> QED BY <2>2 DEF w
<1> QED BY <1>1, <1>2

\* A search starts at the first block of a list that is all there.
LEMMA ReachedFirst ==
  ASSUME NEW l \in Layouts, NEW q, cur' = HEAP_START, \A j \in 1..Len(l) : Stands(l, j, j)'
  PROVE  1 \in DOMAIN l /\ Reached(l, q, 1, 1)'
<1>1. /\ 1 \in 1..Len(l) /\ Len(l) \in Nat /\ l[1].at = HEAP_START /\ DOMAIN l = 1..Len(l)
      /\ 1 \in Heads(l) /\ Heads(l) \subseteq 1..Len(l)
  BY LayoutShape, HeadShape
<1>2. OneStretch(l, 1, 1)
  BY <1>1 DEF OneStretch
<1> QED BY <1>1, <1>2 DEF Reached

\* The block the search has come to.
LEMMA ReachedHere ==
  ASSUME NEW l \in Layouts, NEW q, NEW c, NEW e, Reached(l, q, c, e)
  PROVE  /\ c \in 1..Len(l) /\ e \in 1..Len(l) /\ c <= e /\ (l[e].is_free <=> l[c].is_free)
         /\ cur = l[c].at /\ cur \in DOMAIN hdr /\ cur \in Nat \ {NULL}
         /\ hdr[cur].next = Behind(l, e)
         /\ hdr[cur].is_free = l[c].is_free
         /\ hdr[cur].capacity \in Int
         /\ hdr[cur].capacity = l[e].at + l[e].size - l[c].at - HeaderSize
         /\ block_after(hdr, cur) = l[e].at + l[e].size
<1>1. /\ c \in 1..Len(l) /\ e \in 1..Len(l) /\ c <= e /\ (l[e].is_free <=> l[c].is_free)
  BY OneState DEF Reached
<1>2. cur = l[c].at /\ cur \in DOMAIN hdr /\ hdr[cur] = Gathered(l, c, e)
  BY DEF Reached, Stands
<1> DEFINE x == l[c].at   y == l[e].at   z == l[e].size
<1>3. x \in Nat \ {NULL} /\ y \in Nat /\ z \in Nat /\ HeaderSize \in Nat
  BY <1>1, LayoutShape, SizesAssumption
<1>4. /\ x + HeaderSize + (y + z - x - HeaderSize) = y + z
      /\ y + z - x - HeaderSize \in Int
  <2> HIDE DEF x, y, z
  <2> QED BY <1>3
<1>5. /\ hdr[cur].next = Behind(l, e) /\ hdr[cur].is_free = l[c].is_free
      /\ hdr[cur].capacity = y + z - x - HeaderSize
  BY <1>2 DEF Gathered
<1>6. block_after(hdr, cur) = x + HeaderSize + (y + z - x - HeaderSize)
  BY <1>2, <1>5 DEF block_after
<1> QED BY <1>1, <1>2, <1>3, <1>4, <1>5, <1>6

\* A merge takes the next block of the list into the stretch.
LEMMA ReachedMerge ==
  ASSUME NEW l \in Layouts, NEW q, NEW c, NEW e, Reached(l, q, c, e), FindMerge
  PROVE  e + 1 \in DOMAIN l /\ Reached(l, q, c, e + 1)'
<1> DEFINE n == e + 1
<1>1. mergeable(hdr, cur) /\ hdr' = merge_with_next(hdr, cur) /\ cur' = cur
  BY DEF FindMerge
<1>2. /\ Len(l) \in Nat /\ DOMAIN l = 1..Len(l) /\ Heads(l) \subseteq 1..Len(l)
      /\ \A i \in 1..Len(l) : l[i].at \in Nat \ {NULL} /\ l[i].size \in Nat
      /\ \A i, j \in 1..Len(l) : i # j => l[i].at # l[j].at
  BY LayoutShape, HeadShape
<1>3. /\ c \in 1..Len(l) /\ e \in 1..Len(l) /\ c <= e /\ (l[e].is_free <=> l[c].is_free)
      /\ cur = l[c].at /\ cur \in DOMAIN hdr /\ hdr[cur].next = Behind(l, e)
      /\ hdr[cur].is_free = l[c].is_free
      /\ block_after(hdr, cur) = l[e].at + l[e].size
      /\ hdr[cur].capacity = l[e].at + l[e].size - l[c].at - HeaderSize
  BY ReachedHere
<1>4. e < Len(l) /\ hdr[cur].next = l[n].at /\ n \in 1..Len(l) /\ n \in (e + 1)..Len(l) /\ n \in Nat
  BY <1>1, <1>2, <1>3 DEF mergeable, Behind
<1>5. l[n].at \in DOMAIN hdr /\ hdr[l[n].at] = Gathered(l, n, n)
  BY <1>4 DEF Reached, Stands
<1>6. /\ hdr[l[n].at].next = Behind(l, n) /\ hdr[l[n].at].is_free = l[n].is_free
      /\ hdr[l[n].at].capacity = l[n].at + l[n].size - l[n].at - HeaderSize
  BY <1>5 DEF Gathered
<1>7. l[c].is_free /\ l[n].is_free /\ l[n].at = l[e].at + l[e].size
  BY <1>1, <1>3, <1>4, <1>6 DEF mergeable, blocks_continuous
<1>8. n \notin Heads(l)
  <2>1. n > 1 /\ n - 1 = e
    BY <1>3, <1>4
  <2> QED BY <1>3, <1>4, <1>7, <2>1, HeadShape
<1>9. OneStretch(l, c, n)
  <2>1. \A k \in (c + 1)..n : k = n \/ k \in (c + 1)..e
    BY <1>3
  <2>2. n \in c..Len(l)
    BY <1>3, <1>4
  <2> QED BY <1>8, <2>1, <2>2 DEF Reached, OneStretch
<1> HIDE DEF n
<1>10. /\ DOMAIN hdr' = DOMAIN hdr \ {l[n].at}
       /\ \A x \in DOMAIN hdr \ {cur, l[n].at} : x \in DOMAIN hdr' /\ hdr'[x] = hdr[x]
       /\ cur \in DOMAIN hdr'
       /\ hdr'[cur] = [next     |-> hdr[l[n].at].next,
                       capacity |-> hdr[cur].capacity + HeaderSize + hdr[l[n].at].capacity,
                       is_free  |-> hdr[cur].is_free]
  <2>1. c # n
    BY <1>3 DEF n
  <2>2. cur # l[n].at
    BY <1>2, <1>3, <1>4, <2>1
  <2> QED BY <1>1, <1>3, <1>4, <1>5, <2>2 DEF merge_with_next
<1>11. Stands(l, c, n)'
  <2> DEFINE x == l[c].at   y == l[e].at   z == l[e].size   w == l[n].size   k == l[n].at
  <2>1. x \in Nat /\ y \in Nat /\ z \in Nat /\ w \in Nat /\ HeaderSize \in Nat /\ k = y + z
    BY <1>2, <1>3, <1>4, <1>7, SizesAssumption
  <2>2. (y + z - x - HeaderSize) + HeaderSize + (k + w - k - HeaderSize) = k + w - x - HeaderSize
    <3> HIDE DEF x, y, z, w, k
    <3> QED BY <2>1
  <2>3. hdr'[cur].capacity = k + w - x - HeaderSize
    BY <1>3, <1>6, <1>10, <2>2
  <2>4. hdr'[cur] = Gathered(l, c, n)
    BY <1>3, <1>6, <1>10, <2>3 DEF Gathered
  <2> QED BY <1>3, <1>10, <2>4 DEF Stands
<1>12. \A i \in 1..Len(l), j \in 1..Len(l) : i # c /\ i # n /\ Stands(l, i, j) => Stands(l, i, j)'
  <2> TAKE i \in 1..Len(l), j \in 1..Len(l)
  <2> HAVE i # c /\ i # n /\ Stands(l, i, j)
  <2>1. l[i].at # cur /\ l[i].at # l[n].at
    BY <1>2, <1>3, <1>4
  <2>2. l[i].at \in DOMAIN hdr /\ hdr[l[i].at] = Gathered(l, i, j)
    BY DEF Stands
  <2>3. l[i].at \in DOMAIN hdr' /\ hdr'[l[i].at] = hdr[l[i].at]
    BY <1>10, <2>1, <2>2
  <2>4. l[i].at \in DOMAIN hdr' /\ hdr'[l[i].at] = Gathered(l, i, j)
    BY <2>2, <2>3
  <2> QED BY <2>4 DEF Stands
<1>13. \A j \in (n + 1)..Len(l) : Stands(l, j, j)'
  <2> TAKE j \in (n + 1)..Len(l)
  <2>1. j \in (e + 1)..Len(l) /\ j \in 1..Len(l) /\ j # c /\ j # n
    BY <1>2, <1>3 DEF n
  <2> QED BY <1>12, <2>1 DEF Reached
<1>14. ASSUME NEW i \in Heads(l), i < c
       PROVE  /\ i \notin Roomy(l, q)
              /\ \A j \in DOMAIN l : Ends(l, i, j) => Stands(l, i, j)'
  <2>1. i \in 1..Len(l) /\ i # c /\ i # n
    BY <1>2, <1>3, <1>14 DEF n
  <2> QED BY <1>2, <1>12, <1>14, <2>1 DEF Reached
<1>15. cur' = l[c].at
  BY <1>1, <1>3
<1>16. Reached(l, q, c, n)'
  BY <1>9, <1>11, <1>13, <1>14, <1>15 DEF Reached
<1> QED BY <1>2, <1>4, <1>16 DEF n

\* A stretch whose merges are done ends where that of the list does.
LEMMA ReachedEnd ==
  ASSUME NEW l \in Layouts, NEW q \in Nat, NEW c, NEW e, Reached(l, q, c, e), ~mergeable(hdr, cur),
         wanted = q
  PROVE  /\ Ends(l, c, e)
         /\ hdr[cur].next # cur
         /\ hdr[cur].next = NULL <=> e = Len(l)
         /\ c \in Roomy(l, q) <=> is_good(hdr, cur, wanted)
<1>1. /\ Len(l) \in Nat /\ DOMAIN l = 1..Len(l)
      /\ \A i \in 1..Len(l) : l[i].at \in Nat \ {NULL} /\ l[i].size \in Nat
      /\ \A i, j \in 1..Len(l) : i # j => l[i].at # l[j].at
  BY LayoutShape
<1>2. /\ c \in 1..Len(l) /\ e \in 1..Len(l) /\ c <= e /\ (l[e].is_free <=> l[c].is_free)
      /\ cur = l[c].at /\ hdr[cur].next = Behind(l, e) /\ hdr[cur].is_free = l[c].is_free
      /\ block_after(hdr, cur) = l[e].at + l[e].size
      /\ hdr[cur].capacity = l[e].at + l[e].size - l[c].at - HeaderSize
  BY ReachedHere
<1>3. e < Len(l) => e + 1 \in Heads(l)
  <2> SUFFICES ASSUME e < Len(l), e + 1 \notin Heads(l) PROVE FALSE
    OBVIOUS
  <2>1. e + 1 \in 1..Len(l) /\ e + 1 \in (e + 1)..Len(l) /\ e + 1 > 1 /\ (e + 1) - 1 = e
    BY <1>1, <1>2
  <2>2. l[e + 1].is_free /\ l[e].is_free /\ l[e + 1].at = l[e].at + l[e].size
    BY <2>1, HeadShape
  <2>3. hdr[cur].next = l[e + 1].at /\ l[e + 1].at # NULL
    BY <1>1, <1>2, <2>1 DEF Behind
  <2>4. hdr[l[e + 1].at] = Gathered(l, e + 1, e + 1)
    BY <2>1 DEF Reached, Stands
  <2>5. hdr[l[e + 1].at].is_free = l[e + 1].is_free
    BY <2>4 DEF Gathered
  <2> QED BY <1>2, <2>2, <2>3, <2>5 DEF mergeable, blocks_continuous
<1>4. Ends(l, c, e)
  BY <1>3 DEF Ends, Reached
<1>5. hdr[cur].next # cur /\ (hdr[cur].next = NULL <=> e = Len(l))
  <2>0. /\ Len(l) \in Nat /\ c \in Nat /\ e \in Nat /\ 1 <= e /\ e <= Len(l) /\ c <= e
        /\ cur = l[c].at /\ cur # NULL
    BY <1>1, <1>2
  <2>1. CASE e = Len(l)
    <3>1. hdr[cur].next = NULL
      BY <1>2, <2>0, <2>1 DEF Behind
    <3> QED BY <2>0, <2>1, <3>1
  <2>2. CASE e < Len(l)
    <3>1. e + 1 \in 1..Len(l) /\ e + 1 # c /\ e # Len(l)
      BY <2>0, <2>2
    <3>2. hdr[cur].next = l[e + 1].at
      BY <1>2, <2>2 DEF Behind
    <3>3. l[e + 1].at # NULL /\ l[e + 1].at # l[c].at
      BY <1>1, <1>2, <3>1
    <3> QED BY <2>0, <3>1, <3>2, <3>3
  <2>3. e = Len(l) \/ e < Len(l)
    BY <2>0
  <2> QED BY <2>1, <2>2, <2>3
<1>6. Stretch(l, c) = l[e].at + l[e].size - l[c].at
  BY <1>4, StretchIs
<1>7. c \in Roomy(l, q) <=> l[c].is_free /\ Stretch(l, c) >= q + HeaderSize
  BY DEF Roomy, Reached, OneStretch
<1>8. is_good(hdr, cur, wanted) <=> l[c].is_free /\ Stretch(l, c) >= q + HeaderSize
  <2>1. is_good(hdr, cur, wanted) <=>
          l[c].is_free /\ l[e].at + l[e].size - l[c].at - HeaderSize >= q
    BY <1>2 DEF is_good
  <2> DEFINE x == l[c].at   y == l[e].at   z == l[e].size
  <2>2. x \in Nat /\ y \in Nat /\ z \in Nat /\ HeaderSize \in Nat
    BY <1>1, <1>2, SizesAssumption
  <2>3. y + z - x - HeaderSize >= q <=> y + z - x >= q + HeaderSize
    <3> HIDE DEF x, y, z
    <3> QED BY <2>2
  <2> QED BY <1>6, <2>1, <2>3
<1> QED BY <1>4, <1>5, <1>7, <1>8

\* The next block heads the next stretch, and the one left had no room.
LEMMA ReachedNext ==
  ASSUME NEW l \in Layouts, NEW q \in Nat, NEW c, NEW e, Reached(l, q, c, e), wanted = q, FindNext
  PROVE  e + 1 \in DOMAIN l /\ Reached(l, q, e + 1, e + 1)'
<1>1. cur' = hdr[cur].next /\ ~mergeable(hdr, cur) /\ hdr' = hdr /\ verdict(hdr, cur, wanted) = "continue"
  BY DEF FindNext
<1>2. /\ Len(l) \in Nat /\ DOMAIN l = 1..Len(l) /\ Heads(l) \subseteq 1..Len(l)
      /\ c \in 1..Len(l) /\ e \in 1..Len(l) /\ c <= e /\ hdr[cur].next = Behind(l, e)
  BY LayoutShape, HeadShape, ReachedHere
<1>3. /\ Ends(l, c, e) /\ hdr[cur].next # cur
      /\ hdr[cur].next = NULL <=> e = Len(l)
      /\ c \in Roomy(l, q) <=> is_good(hdr, cur, wanted)
  BY <1>1, ReachedEnd
<1>4. hdr[cur].next # NULL /\ c \notin Roomy(l, q)
  BY <1>1, <1>3 DEF verdict
<1>5. e < Len(l) /\ cur' = l[e + 1].at /\ e + 1 \in Heads(l) /\ e + 1 \in (e + 1)..Len(l)
  <2>1. e < Len(l)
    <3>1. e # Len(l)
      BY <1>3, <1>4
    <3>2. e \in Int /\ e <= Len(l) /\ Len(l) \in Int
      BY <1>2
    <3> QED BY <3>1, <3>2
  <2>2. e + 1 \in Heads(l)
    BY <1>3, <2>1 DEF Ends
  <2> QED BY <1>1, <1>2, <2>1, <2>2 DEF Behind
<1>6. ASSUME NEW i \in Heads(l), i < e + 1
      PROVE  i \notin Roomy(l, q) /\ \A j \in DOMAIN l : Ends(l, i, j) => Stands(l, i, j)
  <2>1. CASE i < c
    BY <1>6, <2>1 DEF Reached
  <2>2. CASE i >= c
    <3>1. i = c
      <4>1. \A k \in (c + 1)..e : k \notin Heads(l)
        BY <1>3 DEF Ends, OneStretch
      <4>2. i \in 1..Len(l) /\ i \notin (c + 1)..e
        BY <1>2, <1>6, <4>1
      <4> QED BY <1>2, <1>6, <2>2, <4>2
    <3>2. ASSUME NEW j \in DOMAIN l, Ends(l, c, j) PROVE j = e
      BY <1>3, <3>2, EndsOnce
    <3> QED BY <1>4, <3>1, <3>2 DEF Reached
  <2> QED BY <1>2, <2>1, <2>2
<1>7. OneStretch(l, e + 1, e + 1)
  BY <1>2, <1>5 DEF OneStretch
<1>8. Stands(l, e + 1, e + 1) /\ \A j \in (e + 1 + 1)..Len(l) : Stands(l, j, j)
  <2>1. \A j \in (e + 1 + 1)..Len(l) : j \in (e + 1)..Len(l)
    BY <1>2
  <2> QED BY <1>5, <2>1 DEF Reached
<1>9. \A i, j \in Int : Stands(l, i, j)' <=> Stands(l, i, j)
  BY <1>1 DEF Stands
<1>10. Reached(l, q, e + 1, e + 1)'
  <2>1. Stands(l, e + 1, e + 1)' /\ \A j \in (e + 1 + 1)..Len(l) : Stands(l, j, j)'
    BY <1>2, <1>8, <1>9
  <2>2. \A i \in Heads(l) : i < e + 1 =>
          /\ i \notin Roomy(l, q)
          /\ \A j \in DOMAIN l : Ends(l, i, j) => Stands(l, i, j)'
    BY <1>2, <1>6, <1>9
  <2> QED BY <1>5, <1>7, <2>1, <2>2 DEF Reached
<1> QED BY <1>2, <1>5, <1>10

\* The search ends at the first stretch that has room, or at the last one.
LEMMA ReachedAnswer ==
  ASSUME NEW l \in Layouts, NEW q \in Nat, NEW c, NEW e, Reached(l, q, c, e), wanted = q,
         ~mergeable(hdr, cur), verdict(hdr, cur, wanted) # "continue"
  PROVE  /\ Ends(l, c, e)
         /\ \/ /\ verdict(hdr, cur, wanted) = "BSR_FOUND_GOOD_BLOCK"
               /\ c \in Roomy(l, q) /\ \A k \in Roomy(l, q) : c <= k
            \/ /\ verdict(hdr, cur, wanted) = "BSR_REACHED_END_NOT_FOUND"
               /\ Roomy(l, q) = {} /\ \A k \in Heads(l) : k <= c
               /\ e = Len(l)
<1>1. /\ Ends(l, c, e) /\ hdr[cur].next # cur
      /\ hdr[cur].next = NULL <=> e = Len(l)
      /\ c \in Roomy(l, q) <=> is_good(hdr, cur, wanted)
  BY ReachedEnd
<1>2. /\ Len(l) \in Nat /\ Heads(l) \subseteq 1..Len(l) /\ c \in 1..Len(l) /\ e \in 1..Len(l)
      /\ Roomy(l, q) \subseteq Heads(l)
  BY LayoutShape, HeadShape, ReachedHere DEF Roomy
<1>3. \A i \in Heads(l) : i < c => i \notin Roomy(l, q)
  BY DEF Reached
<1>4. CASE is_good(hdr, cur, wanted)
  <2>1. verdict(hdr, cur, wanted) = "BSR_FOUND_GOOD_BLOCK"
    BY <1>1, <1>4 DEF verdict
  <2> QED BY <1>1, <1>2, <1>3, <1>4, <2>1
<1>5. CASE ~is_good(hdr, cur, wanted)
  <2>1. verdict(hdr, cur, wanted) = "BSR_REACHED_END_NOT_FOUND" /\ e = Len(l)
    BY <1>1, <1>5 DEF verdict
  <2>2. \A k \in Heads(l) : k <= c
    BY <1>1, <1>2, <2>1 DEF Ends, OneStretch
  <2>3. Roomy(l, q) = {}
    BY <1>1, <1>2, <1>3, <1>5, <2>2
  <2> QED BY <1>1, <2>1, <2>2, <2>3
<1> QED BY <1>4, <1>5

\* The search starts.
LEMMA SearchStartsFit == FitInv /\ TestSearch => FitInv'
<1> SUFFICES ASSUME FitInv, TestSearch PROVE FitInv'
  OBVIOUS
<1> PICK l : l = unit.list
  OBVIOUS
<1>1. /\ l \in Layouts /\ hdr' = Laid(l) /\ cur' = HEAP_START /\ unit' = unit
      /\ query' = unit.arg /\ phase' = "running"
      /\ pc' = IF HEAP_START \in DOMAIN hdr THEN "find" ELSE "fault"
      /\ hdr = Laid(l)
  BY DEF FitInv, TestSearch, _malloc, Runs
<1>2. 1 \in 1..Len(l) /\ l[1].at = HEAP_START
  BY <1>1, LayoutShape
<1>3. \A j \in 1..Len(l) : Stands(l, j, j)'
  <2> TAKE j \in 1..Len(l)
  <2>1. l[j].at \in DOMAIN Laid(l) /\ Laid(l)[l[j].at] = Gathered(l, j, j)
    BY <1>1, LaidBlock
  <2> QED BY <1>1, <2>1 DEF Stands
<1>4. 1 \in DOMAIN l /\ Reached(l, unit.arg, 1, 1)'
  BY <1>1, <1>3, ReachedFirst
<1>5. HEAP_START \in DOMAIN hdr
  <2>1. l[1].at \in {l[k].at : k \in 1..Len(l)}
    BY <1>2
  <2> QED BY <1>1, <1>2, <2>1, LaidBlock
<1> QED BY <1>1, <1>4, <1>5 DEF FitInv, FirstFit

\* The blocks the search has come to, of a query that find_good_or_last takes as it is.
LEMMA Reaching ==
  ASSUME FitInv, phase = "running"
  PROVE  /\ unit.list \in Layouts /\ unit.arg \in Nat /\ wanted = unit.arg /\ pc = "find"
         /\ \E c, e \in DOMAIN unit.list : Reached(unit.list, unit.arg, c, e)
BY SizesAssumption DEF FitInv, wanted, size_max

LEMMA LoopFits ==
  ASSUME FitInv, phase = "running", FindMerge \/ FindNext, UNCHANGED unit_vars
  PROVE  FitInv'
<1> PICK l, q : l = unit.list /\ q = unit.arg
  OBVIOUS
<1>1. /\ l \in Layouts /\ q \in Nat /\ wanted = q /\ pc = "find"
      /\ \E c, e \in DOMAIN l : Reached(l, q, c, e)
  BY Reaching
<1>2. \E c, e \in DOMAIN l : Reached(l, q, c, e)'
  <2>1. PICK c, e \in DOMAIN l : Reached(l, q, c, e)
    BY <1>1
  <2> QED BY <1>1, <2>1, ReachedMerge, ReachedNext
<1>3. unit' = unit /\ phase' = "running" /\ pc' = "find" /\ query' = query
  BY <1>1 DEF FindMerge, FindNext, unit_vars
<1> QED BY <1>1, <1>2, <1>3 DEF FitInv, FirstFit

\* The search answers with the first stretch that has room, or with the last.
LEMMA ReturnFits == FitInv /\ FindReturns => FitInv'
<1> SUFFICES ASSUME FitInv, FindReturns PROVE FitInv'
  OBVIOUS
<1> PICK l, q : l = unit.list /\ q = unit.arg
  OBVIOUS
<1>1. /\ unit' = unit /\ phase = "running" /\ phase' = "over"
      /\ ~ mergeable(hdr, cur) /\ verdict(hdr, cur, wanted) # "continue"
      /\ result' = <<verdict(hdr, cur, wanted), cur>>
  BY DEF FindReturns, Over
<1>2. l \in Layouts /\ q \in Nat /\ wanted = q /\ \E c, e \in DOMAIN l : Reached(l, q, c, e)
  BY <1>1, Reaching
<1>3. PICK c, e \in DOMAIN l : Reached(l, q, c, e)
  BY <1>2
<1>4. /\ Heads(l) \in SUBSET Int /\ Roomy(l, q) \in SUBSET Int
      /\ c \in Heads(l) /\ cur = l[c].at /\ l[c].at \in Nat /\ HEAP_START \in Nat
  <2>1. Heads(l) \subseteq 1..Len(l) /\ Len(l) \in Nat /\ Roomy(l, q) \subseteq Heads(l)
    BY <1>2, LayoutShape, HeadShape DEF Roomy
  <2>2. c \in Heads(l) /\ cur = l[c].at
    BY <1>3 DEF Reached, OneStretch
  <2> QED BY <1>2, <2>1, <2>2, LayoutShape, AddressesAssumption
<1>5. HEAP_START + (l[c].at - HEAP_START) = l[c].at
  BY <1>4
<1> DEFINE good == Roomy(l, q)
           Answer == IF good # {}
                     THEN Found(l[CHOOSE i \in good : \A k \in good : i <= k].at - HEAP_START)
                     ELSE NotFound(l[CHOOSE i \in Heads(l) :
                                       \A k \in Heads(l) : k <= i].at - HEAP_START)
<1>6. result' = Answer
  <2>1. CASE verdict(hdr, cur, wanted) = "BSR_FOUND_GOOD_BLOCK"
    <3>1. c \in good /\ \A k \in good : c <= k
      BY <1>1, <1>2, <1>3, <2>1, ReachedAnswer
    <3>2. (CHOOSE i \in good : \A k \in good : i <= k) = c
      <4> HIDE DEF good
      <4>1. good \in SUBSET Int
        BY <1>4 DEF good
      <4> QED BY <3>1, <4>1, LeastIs
    <3>3. Answer = Found(l[c].at - HEAP_START)
      BY <3>1, <3>2, Zenon
    <3> QED BY <1>1, <1>4, <1>5, <2>1, <3>3 DEF Found
  <2>2. CASE verdict(hdr, cur, wanted) # "BSR_FOUND_GOOD_BLOCK"
    <3>1. /\ good = {} /\ \A k \in Heads(l) : k <= c
          /\ verdict(hdr, cur, wanted) = "BSR_REACHED_END_NOT_FOUND"
      BY <1>1, <1>2, <1>3, <2>2, ReachedAnswer
    <3>2. (CHOOSE i \in Heads(l) : \A k \in Heads(l) : k <= i) = c
      BY <1>4, <3>1, LeastIs
    <3>3. Answer = NotFound(l[c].at - HEAP_START)
      BY <3>1, <3>2, Zenon
    <3> QED BY <1>1, <1>4, <1>5, <3>1, <3>3 DEF NotFound
  <2> QED BY <2>1, <2>2
<1>7. FirstFit'
  BY <1>1, <1>6, Zenon DEF FirstFit
<1> QED BY <1>1, <1>2, <1>7 DEF FitInv

\* The invariant of a search, step by step.
LEMMA StepFits == FitInv /\ [UnitNext]_<<vars, unit_vars>> => FitInv'
<1> SUFFICES ASSUME FitInv, [UnitNext]_<<vars, unit_vars>> PROVE FitInv'
  OBVIOUS
<1>1. /\ unit.does = "find_good_or_last"
      /\ phase = "running" => pc = "find"
  BY DEF FitInv
<1>2. CASE TestSearch
  BY <1>2, SearchStartsFit
<1>3. CASE TestLoops
  <2>1. phase = "running" /\ UNCHANGED unit_vars /\ (FindMerge \/ FindNext)
    BY <1>1, <1>3 DEF TestLoops, FreeMerge
  <2> QED BY <2>1, LoopFits
<1>4. CASE FindReturns
  BY <1>4, ReturnFits
<1>5. CASE UNCHANGED <<vars, unit_vars>>
  BY <1>5 DEF FitInv, FirstFit, Reached, Stands, vars, unit_vars
<1>6. ~ (TestMerge \/ TestSplit \/ TestFree \/ TestFreeEnds \/ Takes \/ Misses
           \/ TestRegion \/ TestGrow \/ Grows_by_stub)
  BY <1>1 DEF TestMerge, TestSplit, TestFree, TestFreeEnds, FreeReturn, Takes, Misses,
              TestRegion, TestGrow, Grows_by_stub
<1> QED BY <1>2, <1>3, <1>4, <1>5, <1>6 DEF UnitNext

\* README.md:78, "we go over the blocks until we find a good one": on any list of
\* blocks, find_good_or_last (mem.c:151-176) answers with the first stretch of
\* adjoining free blocks that has room, although it merges as it goes.
THEOREM Fitting == SearchSpec => []FirstFit
<1>1. (\E l \in Layouts, q \in Nat :
         q >= BlockMinCapacity /\ UnitInit(Finds(q, l, Ignored, <<>>))) => FitInv
  <2> SUFFICES ASSUME NEW l \in Layouts, NEW q \in Nat, q >= BlockMinCapacity,
                      UnitInit(Finds(q, l, Ignored, <<>>))
               PROVE  FitInv
    OBVIOUS
  <2>1. /\ unit.does = "find_good_or_last" /\ unit.arg = q /\ unit.list = l
        /\ phase = "ready" /\ hdr = Laid(l)
    BY DEF UnitInit, Finds, Test
  <2> QED BY <2>1 DEF FitInv, FirstFit
<1>2. SearchSpec => []FitInv
  BY <1>1, StepFits, PTL DEF SearchSpec
<1>3. FitInv => FirstFit
  BY DEF FitInv
<1> QED BY <1>2, <1>3, PTL

-----------------------------------------------------------------------------
(* The test program: what it has made of the heap, wherever it is.         *)

\* The sizes of the region of a test and of the one its heap grows by when it
\* asks for twice what its first block can hold.
FirstSize == region_actual_size(size_from_capacity(init_heap_size))
Room == FirstSize - HeaderSize
SecondSize == region_actual_size(size_from_capacity(Room * 2))

\* The sizes for which the tests were written: HEAP_START is the start of a
\* page, a fiftieth of the heap is room for a small block, size_t holds the sizes
\* and the address space both regions.
Ample ==
  /\ HEAP_START % PageSize = 0
  /\ 50 * (HeaderSize + BlockMinCapacity) <= init_heap_size
  /\ 3 * (init_heap_size + HeaderSize + RegionMinSize + PageSize) <= SizeModulus
  /\ HEAP_START + FirstSize + SecondSize <= AddrLimit

OneRegion == DOMAIN regions = {HEAP_START} /\ regions[HEAP_START] = FirstSize

TwoRegions ==
  /\ DOMAIN regions = {HEAP_START, HEAP_START + FirstSize}
  /\ regions[HEAP_START] = FirstSize
  /\ regions[HEAP_START + FirstSize] = SecondSize

\* Between two tests no header is left, of the regions only the one that the
\* fourth test had its heap grow by.
Vacant ==
  /\ pc = "idle" /\ heap = NULL
  /\ DOMAIN hdr = {}
  /\ addrs = <<>> /\ freed = 0
  /\ test <= 4 => DOMAIN regions = {}
  /\ test = 5 => /\ DOMAIN regions = {HEAP_START + FirstSize}
                 /\ regions[HEAP_START + FirstSize] = SecondSize

\* The heap is one free block.
OneFree(capacity) ==
  /\ DOMAIN hdr = {HEAP_START}
  /\ hdr[HEAP_START].next = NULL
  /\ hdr[HEAP_START].is_free
  /\ hdr[HEAP_START].capacity = capacity

\* The blocks the running test was given.
Given == {addrs[i] : i \in DOMAIN addrs}

\* By how much n of the first three tests' allocations move the free rest of the
\* region, at most.
Step == HeaderSize + (IF test = 1 THEN Room \div 4 ELSE (Room * 6) \div 50)
Moved(n) == n * Step

\* The blocks given so far, all taken, and the free rest of the region.
Rowed(tail) ==
  /\ DOMAIN hdr = Given \cup {tail}
  /\ tail \notin Given
  /\ HEAP_START \in DOMAIN hdr
  /\ hdr[tail].next = NULL
  /\ hdr[tail].is_free
  /\ hdr[tail].capacity = HEAP_START + FirstSize - HeaderSize - tail
  /\ tail <= HEAP_START + Moved(Len(addrs))
  /\ \A a \in Given : ~hdr[a].is_free /\ hdr[a].next \notin {NULL, a}

\* Every header lies in the region that heap_destroy unmaps.
Within == DOMAIN hdr \subseteq HEAP_START..(HEAP_START + FirstSize - 1)

\* The first call of _free: its merge can absorb the rest and nothing else.
FreesOne ==
  /\ cur \in Given
  /\ \A a \in Given : a # cur => ~hdr[a].is_free
  /\ \/ DOMAIN hdr = Given /\ hdr[cur].next = NULL
     \/ \E tail \in DOMAIN hdr : /\ DOMAIN hdr = Given \cup {tail}
                                 /\ tail \notin Given
                                 /\ hdr[tail].next = NULL
                                 /\ hdr[cur].next # cur

\* The first three tests allocate a row of blocks and free one or two of them.
InARow ==
  /\ OneRegion /\ Within
  /\ CASE stage = "malloc" ->
            /\ pc = "idle" /\ freed = 0
            /\ Len(addrs) < Len(tests[test].sizes)
            /\ \E tail \in DOMAIN hdr : Rowed(tail)
       [] stage = "call" ->
            /\ pc = "find" /\ freed = 0
            /\ Len(addrs) < Len(tests[test].sizes)
            /\ \E tail \in DOMAIN hdr : Rowed(tail)
            /\ cur \in DOMAIN hdr
            /\ query = tests[test].sizes[Len(addrs) + 1]
       [] stage = "check" ->
            /\ pc = "idle" /\ freed = 0
            /\ Len(addrs) \in 1..Len(tests[test].sizes)
            /\ \E tail \in DOMAIN hdr : Rowed(tail)
            /\ hdr[block].capacity = tests[test].sizes[Len(addrs)]
       [] stage = "free" ->
            /\ freed < tests[test].frees
            /\ \/ freed = 0 /\ pc = "idle" /\ \E tail \in DOMAIN hdr : Rowed(tail)
               \/ freed = 0 /\ pc = "free" /\ FreesOne
               \/ freed = 1 /\ pc = "idle" /\ Given \subseteq DOMAIN hdr
               \/ freed = 1 /\ pc = "free" /\ cur \in DOMAIN hdr
       [] stage = "destroy" -> pc = "idle"
       [] OTHER -> FALSE

\* The heap's one block, cut in two.
Cut ==
  /\ DOMAIN hdr = {HEAP_START, hdr[HEAP_START].next}
  /\ hdr[HEAP_START].next # NULL
  /\ hdr[hdr[HEAP_START].next].is_free
  /\ hdr[hdr[HEAP_START].next].next = NULL
  /\ hdr[HEAP_START].next = block_after(hdr, HEAP_START)

\* The fourth test has its heap grow by a region that adjoins it, and gets a
\* block that lies in both.
Extends ==
  CASE stage = "malloc" ->
         pc = "idle" /\ freed = 0 /\ addrs = <<>> /\ OneRegion /\ OneFree(Room)
    [] stage = "call" ->
         /\ freed = 0 /\ addrs = <<>> /\ query = Room * 2 /\ cur = HEAP_START
         /\ \/ pc \in {"find", "grow"} /\ ~grown /\ OneRegion /\ OneFree(Room)
            \/ pc = "find" /\ grown /\ TwoRegions /\ OneFree(Room + SecondSize)
    [] stage = "check" ->
         /\ pc = "idle" /\ freed = 0 /\ addrs = <<HEAP_START>> /\ TwoRegions /\ Cut
         /\ hdr[HEAP_START].capacity = Room * 2
    [] stage = "free" ->
         /\ freed = 0 /\ addrs = <<HEAP_START>> /\ TwoRegions
         /\ \/ pc = "idle" /\ Cut
            \/ /\ pc = "free" /\ cur = HEAP_START /\ hdr[HEAP_START].is_free
               /\ Cut \/ (DOMAIN hdr = {HEAP_START} /\ hdr[HEAP_START].next = NULL)
    [] stage = "destroy" -> pc = "idle" /\ TwoRegions /\ DOMAIN hdr = {HEAP_START}
    [] OTHER -> FALSE

\* The heap, grown by a region that the one of the fourth test keeps apart.
Grown(a) ==
  /\ a # HEAP_START /\ a # HEAP_START + FirstSize
  /\ Apart(a, SecondSize, HEAP_START, FirstSize)
  /\ DOMAIN hdr = {HEAP_START, a}
  /\ hdr[HEAP_START] = [next |-> a, capacity |-> Room, is_free |-> TRUE]
  /\ hdr[a] = [next |-> NULL, capacity |-> SecondSize - HeaderSize, is_free |-> TRUE]
  /\ cur \in {HEAP_START, a}

\* The fifth test gets a block of a region that does not adjoin its heap.
Elsewhere ==
  CASE stage \in {"break", "malloc"} ->
         pc = "idle" /\ freed = 0 /\ addrs = <<>> /\ TwoRegions /\ OneFree(Room)
    [] stage = "call" ->
         /\ freed = 0 /\ addrs = <<>> /\ query = Room * 2
         /\ \/ /\ pc \in {"find", "grow"} /\ ~grown /\ cur = HEAP_START
               /\ TwoRegions /\ OneFree(Room)
            \/ pc = "find" /\ grown /\ \E a \in DOMAIN hdr : Grown(a)
    [] stage = "check" ->
         /\ pc = "idle" /\ freed = 0 /\ Len(addrs) = 1 /\ addrs[1] \in DOMAIN hdr
         /\ HEAP_START \in DOMAIN hdr /\ hdr[HEAP_START].is_free
         /\ ~hdr[addrs[1]].is_free
    [] stage = "free" ->
         /\ freed = 0 /\ Len(addrs) = 1
         /\ \/ pc = "idle" /\ addrs[1] \in DOMAIN hdr
            \/ pc = "free" /\ cur \in DOMAIN hdr
    [] stage = "destroy" -> pc = "idle"
    [] OTHER -> FALSE

ProgramInv ==
  /\ test \in 1..6
  /\ failed = {} /\ pc # "fault"
  /\ addrs \in Seq(Nat)
  /\ stage # "over" => WellFormed(hdr)
  /\ stage = "init" => test <= 5 /\ Vacant
  /\ stage # "init" /\ test <= 5 => heap = HEAP_START /\ real = Room
  /\ stage # "init" /\ test <= 3 => InARow
  /\ stage # "init" /\ test = 4 => Extends
  /\ stage # "init" /\ test = 5 => Elsewhere
  /\ test = 6 => stage = "over"

\* As long as there is memory to be had.
PInv == foreign = {} /\ ~refused => ProgramInv

-----------------------------------------------------------------------------
(* Lemmas about the sizes of the test program.                             *)

\* The two regions are as large as the tests need, and wrap around nowhere.
LEMMA Sizes ==
  ASSUME Ample
  PROVE  /\ FirstSize \in Nat /\ Room \in Nat /\ SecondSize \in Nat
         /\ FirstSize = Room + HeaderSize
         /\ 50 * (HeaderSize + BlockMinCapacity) <= Room
         /\ SecondSize >= Room * 2 + HeaderSize
         /\ SecondSize >= HeaderSize + BlockMinCapacity
         /\ size_from_capacity(Room) = FirstSize
         /\ HEAP_START % PageSize = 0 /\ (HEAP_START + FirstSize) % PageSize = 0
         /\ HEAP_START + FirstSize + SecondSize <= AddrLimit
<1> DEFINE i == init_heap_size
           M == i + HeaderSize + RegionMinSize + PageSize
<1>1. i \in Nat /\ HeaderSize \in Nat /\ HeaderSize > 0 /\ RegionMinSize \in Nat
      /\ PageSize \in Nat /\ PageSize > 0
      /\ BlockMinCapacity \in Nat /\ SizeModulus \in Nat /\ 3 * M <= SizeModulus
      /\ 50 * (HeaderSize + BlockMinCapacity) <= i
  BY SizesAssumption DEF Ample, init_heap_size
<1> HIDE DEF i
<1>2. size_from_capacity(i) = i + HeaderSize
  BY <1>1 DEF size_from_capacity
<1>3. FirstSize \in Nat /\ SecondSize \in Nat /\ SecondSize >= HeaderSize + BlockMinCapacity
  <2>1. FirstSize = region_actual_size(i + HeaderSize) /\ i + HeaderSize \in Nat
    BY <1>1, <1>2 DEF FirstSize, i
  <2>2. FirstSize \in Nat
    BY <2>1, RegionSize
  <2>3. size_from_capacity(Room * 2) \in Nat
    BY <2>2, <1>1 DEF Room, size_from_capacity
  <2> QED BY <2>2, <2>3, RegionSize DEF SecondSize
<1>4. FirstSize >= i + HeaderSize /\ FirstSize <= M
  <2>1. i + HeaderSize \in Nat /\ i + HeaderSize <= SizeModulus - PageSize
    BY <1>1
  <2>2. FirstSize = region_actual_size(i + HeaderSize)
    BY <1>2 DEF FirstSize, i
  <2>3. /\ FirstSize >= i + HeaderSize
        /\ FirstSize < i + HeaderSize + PageSize \/ FirstSize = RegionMinSize
    BY <2>1, <2>2, RegionOf
  <2> QED BY <2>3, <1>1, <1>3
<1>5. Room \in Nat /\ FirstSize = Room + HeaderSize /\ Room >= i
  BY <1>1, <1>3, <1>4 DEF Room
<1>6. size_from_capacity(Room) = FirstSize /\ size_from_capacity(Room * 2) = Room * 2 + HeaderSize
  <2>1. FirstSize < SizeModulus /\ Room * 2 + HeaderSize < SizeModulus
    BY <1>1, <1>3, <1>4, <1>5
  <2> QED BY <2>1, <1>1, <1>3, <1>5 DEF size_from_capacity
<1>7. SecondSize >= Room * 2 + HeaderSize
  <2>1. Room * 2 + HeaderSize \in Nat /\ Room * 2 + HeaderSize <= SizeModulus - PageSize
    BY <1>1, <1>3, <1>4, <1>5
  <2>2. SecondSize = region_actual_size(Room * 2 + HeaderSize)
    BY <1>6 DEF SecondSize
  <2> QED BY <2>1, <2>2, RegionOf
<1>8. HEAP_START % PageSize = 0 /\ (HEAP_START + FirstSize) % PageSize = 0
  <2>1. Pages(HEAP_START)
    BY AddressesAssumption, NoRest DEF Ample
  <2>2. Pages(FirstSize)
    BY RegionPages, WrappedSize DEF FirstSize, init_heap_size
  <2>3. HEAP_START + FirstSize \in Nat
    BY <1>3, AddressesAssumption
  <2> QED BY <2>1, <2>2, <2>3, SumOfPages, NoRest DEF Ample
<1> QED BY <1>1, <1>3, <1>5, <1>6, <1>7, <1>8 DEF Ample

\* At most six allocations, each of one step.
LEMMA FewTimes ==
  ASSUME NEW s \in Nat, NEW k \in 0..5
  PROVE  k * s \in Nat /\ (k + 1) * s = k * s + s /\ k * s <= 5 * s /\ 0 * s = 0
<1>1. k = 0 \/ k = 1 \/ k = 2 \/ k = 3 \/ k = 4 \/ k = 5
  OBVIOUS
<1>2. k * s \in Nat /\ (k + 1) * s = k * s + s
  OBVIOUS
<1>3. 0 * s = 0 /\ 1 * s = s
  OBVIOUS
<1> QED BY <1>1, <1>2, <1>3

LEMMA FewFit ==
  ASSUME NEW room \in Nat, NEW h \in Nat, NEW b \in Nat, 50 * (h + b) <= room,
         NEW m \in Nat, 50 * m <= room * 6, NEW q \in Nat, q <= m,
         NEW x \in Nat, 50 * x <= 250 * h + room * 30
  PROVE  x + q + h + b <= room
OBVIOUS

\* The next allocation of one of the first three tests fits into the region, and
\* moves the rest of it by one step at most.
LEMMA RowFits ==
  ASSUME Ample, real = Room, test \in 1..3, NEW k \in Nat, k < Len(tests[test].sizes),
         NEW q, q = tests[test].sizes[k + 1]
  PROVE  /\ q \in Nat /\ q >= BlockMinCapacity
         /\ Step \in Nat /\ Moved(k) \in Nat
         /\ q + HeaderSize <= Step
         /\ Moved(k + 1) = Moved(k) + Step
         /\ Moved(k) + q + HeaderSize + BlockMinCapacity <= Room
<1>1. /\ Room \in Nat /\ HeaderSize \in Nat /\ BlockMinCapacity \in Nat
      /\ 50 * (HeaderSize + BlockMinCapacity) <= Room /\ HeaderSize > 0
  BY Sizes, SizesAssumption
<1>2. CASE test = 1
  <2>1. tests[test] = test_simple_malloc
    BY <1>2 DEF tests
  <2>2. k = 0 /\ q = Room \div 4
    BY <2>1 DEF test_simple_malloc
  <2>3. Step = HeaderSize + Room \div 4
    BY <1>2 DEF Step
  <2>4. Room \div 4 \in Nat /\ 4 * (Room \div 4) <= Room /\ 4 * (Room \div 4) > Room - 4
    BY <1>1
  <2> DEFINE d == Room \div 4
  <2> HIDE DEF d
  <2>5. Moved(k) = 0 /\ Moved(k + 1) = Step
    BY <2>2, <2>3, <2>4, <1>1 DEF Moved
  <2> QED BY <1>1, <2>2, <2>3, <2>4, <2>5
<1>3. CASE test \in {2, 3}
  <2>1. k \in 0..5 /\ q = (Room * (k + 1)) \div 50
    <3>1. CASE test = 2
      <4>1. tests[test] = test_malloc_one_free
        BY <3>1 DEF tests
      <4>2. Len(tests[test].sizes) = 5 /\ \A i \in 1..5 : tests[test].sizes[i] = (Room * i) \div 50
        BY <4>1 DEF test_malloc_one_free
      <4> QED BY <4>2
    <3>2. CASE test = 3
      <4>1. tests[test] = test_malloc_two_free
        BY <3>2 DEF tests
      <4>2. Len(tests[test].sizes) = 6 /\ \A i \in 1..6 : tests[test].sizes[i] = (Room * i) \div 50
        BY <4>1 DEF test_malloc_two_free
      <4> QED BY <4>2
    <3> QED BY <3>1, <3>2, <1>3
  <2> DEFINE m == (Room * 6) \div 50
  <2>2. Step = HeaderSize + m
    BY <1>3 DEF Step
  <2>3. m \in Nat /\ 50 * m <= Room * 6
    BY <1>1
  <2>4. q \in Nat /\ q <= m /\ q >= BlockMinCapacity
    <3>1. Room * (k + 1) \in Nat /\ Room * (k + 1) <= Room * 6 /\ Room * (k + 1) >= Room
      <4>1. k = 0 \/ k = 1 \/ k = 2 \/ k = 3 \/ k = 4 \/ k = 5
        BY <2>1
      <4> QED BY <4>1, <1>1
    <3> DEFINE x == Room * (k + 1)
    <3>2. x \in Nat /\ x <= Room * 6 /\ x >= Room /\ q = x \div 50
      BY <3>1, <2>1
    <3> HIDE DEF x
    <3> QED BY <3>2, <1>1
  <2> HIDE DEF m
  <2>5. Step \in Nat /\ 50 * Step <= 50 * HeaderSize + Room * 6
    BY <2>2, <2>3, <1>1
  <2>6. /\ Moved(k) \in Nat /\ Moved(k + 1) = Moved(k) + Step
        /\ 50 * Moved(k) <= 250 * HeaderSize + Room * 30
    <3>1. /\ k * Step \in Nat /\ (k + 1) * Step = k * Step + Step
          /\ k * Step <= 5 * Step
      BY <2>1, <2>5, FewTimes
    <3>2. Moved(k) = k * Step /\ Moved(k + 1) = (k + 1) * Step
      BY DEF Moved
    <3>3. ASSUME NEW x \in Nat, NEW y \in Nat, x <= 5 * y, 50 * y <= 50 * HeaderSize + Room * 6
          PROVE  50 * x <= 250 * HeaderSize + Room * 30
      BY <3>3, <1>1
    <3> QED BY <3>1, <3>2, <3>3, <2>5, Zenon
  <2>7. q + HeaderSize <= Step
    <3>1. q \in Nat /\ m \in Nat /\ q <= m /\ HeaderSize \in Nat
      BY <1>1, <2>3, <2>4
    <3>2. q + HeaderSize <= HeaderSize + m
      BY <3>1
    <3> QED BY <2>2, <3>2, Zenon
  <2>8. Moved(k) + q + HeaderSize + BlockMinCapacity <= Room
    BY <1>1, <2>3, <2>4, <2>6, FewFit
  <2> QED BY <2>4, <2>5, <2>6, <2>7, <2>8
<1> QED BY <1>2, <1>3

-----------------------------------------------------------------------------
(* Every step of the test program keeps its invariant.                     *)

\* What the five tests ask for.
Facts ==
  /\ test \in 1..5 => /\ tests[test].break <=> test = 5
                      /\ tests[test].exact <=> test # 5
                      /\ tests[test].frees \in {1, 2}
                      /\ test \in {4, 5} => tests[test].frees = 1
                      /\ Len(tests[test].sizes) \in Nat \ {0}
                      /\ test \in {4, 5} => /\ Len(tests[test].sizes) = 1
                                            /\ tests[test].sizes[1] = real * 2
  /\ Len(tests) = 5

LEMMA TestFacts == Facts
<1>1. ASSUME test = 1
      PROVE  tests[test].frees = 1 /\ tests[test].exact /\ ~tests[test].break
             /\ Len(tests[test].sizes) = 1
  BY <1>1 DEF tests, test_simple_malloc
<1>2. ASSUME test = 2
      PROVE  tests[test].frees = 1 /\ tests[test].exact /\ ~tests[test].break
             /\ Len(tests[test].sizes) = 5
  <2>1. tests[test] = test_malloc_one_free
    BY <1>2 DEF tests
  <2> QED BY <2>1 DEF test_malloc_one_free
<1>3. ASSUME test = 3
      PROVE  tests[test].frees = 2 /\ tests[test].exact /\ ~tests[test].break
             /\ Len(tests[test].sizes) = 6
  <2>1. tests[test] = test_malloc_two_free
    BY <1>3 DEF tests
  <2> QED BY <2>1 DEF test_malloc_two_free
<1>4. ASSUME test = 4
      PROVE  tests[test].frees = 1 /\ tests[test].exact /\ ~tests[test].break
             /\ Len(tests[test].sizes) = 1 /\ tests[test].sizes[1] = real * 2
  BY <1>4 DEF tests, test_malloc_new_region_extended
<1>5. ASSUME test = 5
      PROVE  tests[test].frees = 1 /\ ~tests[test].exact /\ tests[test].break
             /\ Len(tests[test].sizes) = 1 /\ tests[test].sizes[1] = real * 2
  BY <1>5 DEF tests, test_malloc_new_region_not_extended
<1>6. Len(tests) = 5
  BY DEF tests
<1>7. test \in 1..5 => test = 1 \/ test = 2 \/ test = 3 \/ test = 4 \/ test = 5
  OBVIOUS
<1> QED
  BY <1>1, <1>2, <1>3, <1>4, <1>5, <1>6, <1>7 DEF Facts

LEMMA TestFactsNext == Facts'
BY TestFacts, PTL

\* A header where there was none is well formed.
LEMMA OneHeader ==
  ASSUME NEW h, DOMAIN h = {HEAP_START}, h = [x \in DOMAIN h |-> h[x]],
         NEW c \in Nat, c >= BlockMinCapacity,
         h[HEAP_START] = [next |-> NULL, capacity |-> c, is_free |-> TRUE]
  PROVE  WellFormed(h)
<1>1. HEAP_START \in Nat \ {NULL}
  BY AddressesAssumption DEF NULL
<1>2. Headers(h)
  <2>1. h[HEAP_START] \in Header /\ h[HEAP_START].capacity = c
    BY DEF Header, NULL
  <2>2. h \in [DOMAIN h -> Header]
    BY <2>1
  <2> QED BY <1>1, <2>1, <2>2 DEF Headers
<1> QED BY <1>1, <1>2 DEF WellFormed, Disjoint, Linked

\* A mapping leaves the regions there are as they are.
LEMMA RegionAdded ==
  ASSUME NEW a, NEW size, map_region(a, size), a \notin DOMAIN regions
  PROVE  /\ DOMAIN regions' = DOMAIN regions \cup {a}
         /\ regions'[a] = size
         /\ \A r \in DOMAIN regions : regions'[r] = regions[r]
BY DEF map_region

LEMMA InitKeeps ==
  ASSUME Ample, foreign = {}, ProgramInv, TestInit
  PROVE  ProgramInv'
<1>1. /\ test \in 1..5 /\ Vacant /\ failed = {} /\ pc = "idle" /\ pc' = pc
      /\ test' = test /\ addrs' = addrs /\ freed' = freed /\ failed' = failed
      /\ addrs = <<>> /\ freed = 0
  BY DEF ProgramInv, TestInit, Vacant, heap_init
<1>2. PICK a \in Placements(HEAP_START, FirstSize) :
        /\ map_region(a, FirstSize)
        /\ hdr' = block_init(hdr, a, FirstSize, NULL)
        /\ heap' = a
  BY DEF TestInit, heap_init, FirstSize
<1>3. /\ FirstSize \in Nat /\ SecondSize \in Nat /\ SecondSize > 0 /\ FirstSize > 0
      /\ HEAP_START \in Nat \ {NULL} /\ AddrLimit \in Nat
      /\ HEAP_START + FirstSize + SecondSize <= AddrLimit
      /\ Room \in Nat /\ FirstSize = Room + HeaderSize /\ Room >= BlockMinCapacity
  BY Sizes, SizesAssumption, AddressesAssumption DEF NULL
<1>4. a = HEAP_START /\ HEAP_START \notin DOMAIN regions
  <2>1. DOMAIN regions = {} \/ DOMAIN regions = {HEAP_START + FirstSize}
    BY <1>1 DEF Vacant
  <2>2. Fits(HEAP_START, FirstSize)
    BY <2>1, <1>3, Sizes DEF Fits, Apart
  <2>3. a = HEAP_START
    BY <2>2, <1>2 DEF Placements
  <2> QED BY <2>1, <2>3, <1>3
<1>5. /\ DOMAIN hdr' = {HEAP_START} /\ hdr' = [x \in DOMAIN hdr' |-> hdr'[x]]
      /\ hdr'[HEAP_START] = [next |-> NULL, capacity |-> Room, is_free |-> TRUE]
  <2>1. DOMAIN hdr = {}
    BY <1>1 DEF Vacant
  <2> QED BY <2>1, <1>2, <1>4 DEF block_init, Room
<1>6. WellFormed(hdr')
  BY <1>3, <1>5, OneHeader
<1>7. OneFree(Room)' /\ heap' = HEAP_START /\ real' = Room
  BY <1>2, <1>4, <1>5 DEF OneFree, TestInit
<1>8. stage' = IF test = 5 THEN "break" ELSE "malloc"
  BY <1>1, TestFacts DEF TestInit, Facts
<1>9. (test <= 4 => OneRegion') /\ (test = 5 => TwoRegions')
  <2>1. /\ DOMAIN regions' = DOMAIN regions \cup {HEAP_START}
        /\ regions'[HEAP_START] = FirstSize
        /\ \A r \in DOMAIN regions : regions'[r] = regions[r]
    BY <1>2, <1>4, RegionAdded
  <2> QED BY <2>1, <1>1 DEF Vacant, OneRegion, TwoRegions
<1>10. test <= 3 => InARow'
  <2> SUFFICES ASSUME test <= 3 PROVE InARow'
    OBVIOUS
  <2>1. Given' = {} /\ Len(addrs') = 0
    BY <1>1 DEF Given
  <2>2. (Len(tests[test].sizes) \in Nat \ {0})'
    BY TestFactsNext, <1>1 DEF Facts
  <2>3. Moved(Len(addrs))' = 0
    <3>1. Room \div 4 \in Nat /\ (Room * 6) \div 50 \in Nat
      BY <1>3
    <3>2. Step' \in Nat
      BY <3>1, SizesAssumption DEF Step
    <3>3. Moved(Len(addrs))' = 0 * Step'
      BY <2>1 DEF Moved
    <3>4. 0 * Step' = 0
      <4>1. 0 \in 0..5
        OBVIOUS
      <4>2. ASSUME NEW s \in Nat PROVE 0 * s = 0
        BY <4>1, FewTimes
      <4> QED BY <3>2, <4>2
    <3> QED BY <3>3, <3>4
  <2>4. Rowed(HEAP_START)'
    <3>1. Room = HEAP_START + FirstSize - HeaderSize - HEAP_START
      BY <1>3, SizesAssumption
    <3>2. HEAP_START <= HEAP_START + Moved(Len(addrs))'
      BY <2>3, <1>3
    <3>3. Given' \cup {HEAP_START} = {HEAP_START}
      BY <2>1
    <3> QED BY <2>1, <3>1, <3>2, <3>3, <1>5 DEF Rowed
  <2>5. Within'
    BY <1>3, <1>5 DEF Within
  <2> QED BY <2>1, <2>2, <2>4, <2>5, <1>1, <1>5, <1>8, <1>9 DEF InARow
<1>11. test = 4 => Extends'
  BY <1>1, <1>7, <1>8, <1>9 DEF Extends
<1>12. test = 5 => Elsewhere'
  BY <1>1, <1>7, <1>8, <1>9 DEF Elsewhere
<1>13. addrs' \in Seq(Nat)
  BY <1>1
<1> QED BY <1>1, <1>6, <1>7, <1>8, <1>10, <1>11, <1>12, <1>13 DEF ProgramInv

\* Nothing in the shape of the heap depends on where the call is.
LEMMA BreakKeeps ==
  ASSUME Ample, foreign = {}, ProgramInv, TestBreak
  PROVE  ProgramInv'
<1>1. ~break_mapped
  BY DEF break_mapped
<1>2. UNCHANGED <<hdr, regions, foreign, heap, live, pc, cur, query, grown>>
      /\ UNCHANGED <<test, real, addrs, freed, failed, refused>>
      /\ stage = "break" /\ stage' = "malloc"
  BY <1>1 DEF TestBreak
<1>3. test = 5
  BY <1>2 DEF ProgramInv, InARow, Extends
<1>4. Elsewhere
  BY <1>2, <1>3 DEF ProgramInv
<1>5. Elsewhere'
  BY <1>2, <1>4 DEF Elsewhere, TwoRegions, OneFree
<1> QED BY <1>2, <1>3, <1>5 DEF ProgramInv

LEMMA MallocKeeps ==
  ASSUME Ample, foreign = {}, ProgramInv, TestMalloc
  PROVE  ProgramInv'
<1>1. /\ UNCHANGED <<hdr, regions, foreign, heap, live>>
      /\ UNCHANGED <<test, real, addrs, freed, failed, refused>>
      /\ stage = "malloc" /\ stage' = "call"
      /\ pc = "idle" /\ pc' = IF HEAP_START \in DOMAIN hdr THEN "find" ELSE "fault"
      /\ cur' = HEAP_START /\ query' = tests[test].sizes[Len(addrs) + 1] /\ ~grown'
  BY DEF TestMalloc, _malloc
<1>2. tests' = tests /\ Given' = Given
  BY <1>1 DEF tests, test_simple_malloc, test_malloc_one_free, test_malloc_two_free,
              test_malloc_new_region_extended, test_malloc_new_region_not_extended, Given
<1>3. test \in 1..5
  BY <1>1 DEF ProgramInv
<1>4. test <= 3 => pc' = "find" /\ InARow'
  <2> SUFFICES ASSUME test <= 3 PROVE pc' = "find" /\ InARow'
    OBVIOUS
  <2>1. /\ OneRegion /\ Within /\ freed = 0 /\ Len(addrs) < Len(tests[test].sizes)
        /\ \E tail \in DOMAIN hdr : Rowed(tail)
    BY <1>1 DEF ProgramInv, InARow
  <2>2. PICK tail \in DOMAIN hdr : Rowed(tail)
    BY <2>1
  <2>3. HEAP_START \in DOMAIN hdr
    BY <2>2 DEF Rowed
  <2>4. Rowed(tail)' /\ tail \in DOMAIN hdr'
    BY <1>1, <1>2, <2>2 DEF Rowed, Moved, Step
  <2>5. OneRegion' /\ Within'
    BY <1>1, <2>1 DEF OneRegion, Within
  <2> QED BY <1>1, <1>2, <2>1, <2>3, <2>4, <2>5 DEF InARow
<1>5. test = 4 => pc' = "find" /\ Extends'
  <2> SUFFICES ASSUME test = 4 PROVE pc' = "find" /\ Extends'
    OBVIOUS
  <2>1. freed = 0 /\ addrs = <<>> /\ OneRegion /\ OneFree(Room)
    BY <1>1 DEF ProgramInv, Extends
  <2>2. query' = Room * 2
    BY <1>1, <2>1, TestFacts DEF ProgramInv, Facts
  <2> QED BY <1>1, <2>1, <2>2 DEF Extends, OneRegion, OneFree
<1>6. test = 5 => pc' = "find" /\ Elsewhere'
  <2> SUFFICES ASSUME test = 5 PROVE pc' = "find" /\ Elsewhere'
    OBVIOUS
  <2>1. freed = 0 /\ addrs = <<>> /\ TwoRegions /\ OneFree(Room)
    BY <1>1 DEF ProgramInv, Elsewhere
  <2>2. query' = Room * 2
    BY <1>1, <2>1, TestFacts DEF ProgramInv, Facts
  <2> QED BY <1>1, <2>1, <2>2 DEF Elsewhere, TwoRegions, OneFree
<1>7. pc' # "fault"
  BY <1>3, <1>4, <1>5, <1>6
<1> QED BY <1>1, <1>3, <1>4, <1>5, <1>6, <1>7 DEF ProgramInv

\* What the search makes of the block it takes: all of it is taken if it is not
\* to be cut, and otherwise a free rest is left.
LEMMA TakesBlock ==
  ASSUME WellFormed(hdr), HEAP_START \in DOMAIN hdr, cur \in DOMAIN hdr, query \in Nat, FindGood
  PROVE  /\ WellFormed(hdr') /\ hdr[cur].is_free /\ hdr[cur].capacity >= wanted
         /\ \A x \in DOMAIN hdr : x # cur => x \in DOMAIN hdr' /\ hdr'[x] = hdr[x]
         /\ ~block_splittable(hdr, cur, wanted) =>
              /\ DOMAIN hdr' = DOMAIN hdr
              /\ hdr'[cur] = [next |-> hdr[cur].next, capacity |-> hdr[cur].capacity,
                              is_free |-> FALSE]
         /\ block_splittable(hdr, cur, wanted) =>
              LET second == cur + HeaderSize + wanted
              IN  /\ second \notin DOMAIN hdr
                  /\ DOMAIN hdr' = DOMAIN hdr \cup {second}
                  /\ hdr'[cur] = [next |-> second, capacity |-> wanted, is_free |-> FALSE]
                  /\ hdr'[second] = [next |-> hdr[cur].next,
                                     capacity |-> hdr[cur].capacity - wanted - HeaderSize,
                                     is_free |-> TRUE]
<1> DEFINE g == split_if_too_big(hdr, cur, wanted)
           second == cur + HeaderSize + wanted
<1>1. wanted \in Nat /\ wanted >= BlockMinCapacity
  BY SizesAssumption DEF wanted, size_max
<1>2. cur \in Nat \ {NULL} /\ hdr[cur] \in Header
  BY DEF WellFormed, Headers
<1>3. hdr[cur].is_free /\ hdr[cur].capacity >= wanted
  BY <1>2, Verdicts DEF FindGood, is_good
<1>4. /\ WellFormed(g) /\ cur \in DOMAIN g
      /\ \A x \in DOMAIN hdr : x # cur => x \in DOMAIN g /\ g[x] = hdr[x]
      /\ ~block_splittable(hdr, cur, wanted) => g = hdr
      /\ block_splittable(hdr, cur, wanted) =>
           /\ second \notin DOMAIN hdr
           /\ DOMAIN g = DOMAIN hdr \cup {second}
           /\ g[cur] = [next |-> second, capacity |-> wanted, is_free |-> TRUE]
           /\ g[second] = [next |-> hdr[cur].next,
                           capacity |-> hdr[cur].capacity - wanted - HeaderSize,
                           is_free |-> TRUE]
  <2>1. CASE block_splittable(hdr, cur, wanted)
    <3>1. g = split(hdr, cur, wanted)
      BY <2>1 DEF split_if_too_big
    <3>2. Divided(hdr, cur, wanted, g)
      BY <2>1, <3>1, <1>1, SplitShape
    <3> HIDE DEF g
    <3>3. WellFormed(g)
      BY <3>2, <1>1, SplitWellFormed
    <3>4. hdr[cur].is_free = TRUE
      BY <1>2, <1>3 DEF Header
    <3> QED BY <2>1, <3>2, <3>3, <3>4 DEF Divided
  <2>2. CASE ~block_splittable(hdr, cur, wanted)
    BY <2>2 DEF split_if_too_big
  <2> QED BY <2>1, <2>2
<1>5. hdr' = [g EXCEPT ![cur].is_free = FALSE]
  BY DEF FindGood
<1> HIDE DEF g
<1>6. g \in [DOMAIN g -> Header]
  BY <1>4 DEF WellFormed, Headers
<1>7. /\ DOMAIN hdr' = DOMAIN g
      /\ \A x \in DOMAIN g : x # cur => hdr'[x] = g[x]
      /\ hdr'[cur] = [next |-> g[cur].next, capacity |-> g[cur].capacity, is_free |-> FALSE]
  <2>1. g[cur] = [next |-> g[cur].next, capacity |-> g[cur].capacity, is_free |-> g[cur].is_free]
    BY <1>4, <1>6 DEF Header
  <2>2. hdr'[cur] = [g[cur] EXCEPT !.is_free = FALSE]
    BY <1>4, <1>5, <1>6
  <2>3. hdr'[cur] = [next |-> g[cur].next, capacity |-> g[cur].capacity, is_free |-> FALSE]
    BY <2>1, <2>2
  <2> QED BY <1>5, <1>6, <2>3
<1>8. WellFormed(hdr')
  BY <1>4, <1>5, Marking
<1>9. \A x \in DOMAIN hdr : x # cur => x \in DOMAIN hdr' /\ hdr'[x] = hdr[x]
  BY <1>4, <1>7
<1>10. ASSUME ~block_splittable(hdr, cur, wanted)
       PROVE  /\ DOMAIN hdr' = DOMAIN hdr
              /\ hdr'[cur] = [next |-> hdr[cur].next, capacity |-> hdr[cur].capacity,
                              is_free |-> FALSE]
  BY <1>4, <1>7, <1>10
<1>11. ASSUME block_splittable(hdr, cur, wanted)
       PROVE  /\ second \notin DOMAIN hdr
              /\ DOMAIN hdr' = DOMAIN hdr \cup {second}
              /\ hdr'[cur] = [next |-> second, capacity |-> wanted, is_free |-> FALSE]
              /\ hdr'[second] = [next |-> hdr[cur].next,
                                 capacity |-> hdr[cur].capacity - wanted - HeaderSize,
                                 is_free |-> TRUE]
  <2> HIDE DEF second
  <2>1. /\ second \notin DOMAIN hdr
        /\ DOMAIN g = DOMAIN hdr \cup {second}
        /\ g[cur] = [next |-> second, capacity |-> wanted, is_free |-> TRUE]
        /\ g[second] = [next |-> hdr[cur].next,
                        capacity |-> hdr[cur].capacity - wanted - HeaderSize,
                        is_free |-> TRUE]
    BY <1>4, <1>11
  <2>2. second # cur /\ second \in DOMAIN g
    BY <2>1
  <2>3. hdr'[second] = g[second]
    BY <2>2, <1>7
  <2>4. hdr'[cur] = [next |-> second, capacity |-> wanted, is_free |-> FALSE]
    BY <2>1, <1>7
  <2> QED BY <2>1, <2>3, <2>4, <1>7
<1> QED BY <1>3, <1>8, <1>9, <1>10, <1>11

LEMMA SameTests == real' = real => tests' = tests
BY DEF tests, test_simple_malloc, test_malloc_one_free, test_malloc_two_free,
       test_malloc_new_region_extended, test_malloc_new_region_not_extended

\* The block behind the heap's first block, as long as it is as it was.
LEMMA FirstBlock ==
  ASSUME Ample, ProgramInv, stage = "call", OneFree(Room)
  PROVE  /\ HEAP_START \in Nat \ {NULL} /\ Room \in Nat /\ Room > 0
         /\ HEAP_START + FirstSize \in Nat \ {NULL} /\ HEAP_START + FirstSize # HEAP_START
         /\ hdr[HEAP_START] = [next |-> NULL, capacity |-> Room, is_free |-> TRUE]
         /\ block_after(hdr, HEAP_START) = HEAP_START + FirstSize
         /\ block_after(hdr, HEAP_START) = HEAP_START + HeaderSize + Room
<1>1. HEAP_START \in Nat \ {NULL}
  BY AddressesAssumption DEF NULL
<1>2. Room \in Nat /\ FirstSize = Room + HeaderSize /\ Room > 0 /\ HeaderSize \in Nat \ {0}
  BY Sizes, SizesAssumption
<1>3. hdr[HEAP_START] = [next |-> NULL, capacity |-> Room, is_free |-> TRUE]
  <2>1. hdr[HEAP_START] \in Header
    BY DEF ProgramInv, WellFormed, Headers, OneFree
  <2> QED BY <2>1 DEF Header, OneFree
<1>4. block_after(hdr, HEAP_START) = HEAP_START + HeaderSize + Room
  BY <1>3 DEF block_after
<1> QED BY <1>1, <1>2, <1>3, <1>4 DEF NULL

\* The growth of the fourth test: the new region adjoins the heap, whose one
\* block absorbs it.
LEMMA GrowsInPlace ==
  ASSUME Ample, foreign = {}, ProgramInv, stage = "call", grow_heap,
         query = Room * 2, cur = HEAP_START, OneRegion, OneFree(Room)
  PROVE  WellFormed(hdr') /\ TwoRegions' /\ OneFree(Room + SecondSize)'
<1> DEFINE b == HEAP_START + FirstSize
           h == [block_init(hdr, b, SecondSize, NULL) EXCEPT ![HEAP_START].next = b]
<1>1. /\ HEAP_START \in Nat \ {NULL} /\ Room \in Nat /\ b \in Nat \ {NULL} /\ b # HEAP_START
      /\ hdr[HEAP_START] = [next |-> NULL, capacity |-> Room, is_free |-> TRUE]
      /\ block_after(hdr, HEAP_START) = b /\ b = HEAP_START + HeaderSize + Room
  BY FirstBlock
<1>2. /\ FirstSize \in Nat /\ SecondSize \in Nat /\ SecondSize >= HeaderSize + BlockMinCapacity
      /\ b % PageSize = 0 /\ b + SecondSize <= AddrLimit /\ AddrLimit \in Nat
      /\ HeaderSize \in Nat /\ BlockMinCapacity \in Nat
  BY Sizes, AddressesAssumption, SizesAssumption
<1>3. grow_size = SecondSize
  BY DEF grow_size, SecondSize
<1>4. PICK a \in Placements(b, SecondSize) : map_region(a, SecondSize) /\ hdr' = linked(a)
  BY <1>1, <1>3 DEF grow_heap
<1>5. a = b /\ b \notin DOMAIN regions
  <2>1. Fits(b, SecondSize)
    BY <1>1, <1>2 DEF Fits, Apart, OneRegion
  <2>2. a = b
    BY <2>1, <1>4 DEF Placements
  <2> QED BY <2>2, <1>1 DEF OneRegion
<1>6. TwoRegions'
  <2>1. /\ DOMAIN regions' = DOMAIN regions \cup {b}
        /\ regions'[b] = SecondSize
        /\ \A r \in DOMAIN regions : regions'[r] = regions[r]
    BY <1>4, <1>5, RegionAdded
  <2> QED BY <2>1 DEF OneRegion, TwoRegions
<1>7. DOMAIN hdr = {HEAP_START} /\ WellFormed(hdr)
  BY DEF OneFree, ProgramInv
<1>8. Extended(hdr, HEAP_START, b, SecondSize, h)
  <2>1. b \notin DOMAIN hdr
    BY <1>1, <1>7
  <2> HIDE DEF b
  <2> QED BY <1>7, <2>1, LinkShape
<1>9. hdr' = try_merge_with_next(h, HEAP_START)
  BY <1>1, <1>3, <1>4, <1>5 DEF linked
<1> HIDE DEF h
<1>10. /\ DOMAIN h = {HEAP_START, b}
       /\ h[HEAP_START] = [next |-> b, capacity |-> Room, is_free |-> TRUE]
       /\ h[b] = [next |-> NULL, capacity |-> SecondSize - HeaderSize, is_free |-> TRUE]
  BY <1>1, <1>7, <1>8 DEF Extended
<1>11. mergeable(h, HEAP_START)
  BY <1>1, <1>10 DEF mergeable, blocks_continuous, block_after
<1>12. hdr' = merge_with_next(h, HEAP_START)
  BY <1>9, <1>11 DEF try_merge_with_next
<1>13. /\ DOMAIN hdr' = {HEAP_START} /\ hdr' = [x \in DOMAIN hdr' |-> hdr'[x]]
       /\ hdr'[HEAP_START] = [next |-> NULL,
                              capacity |-> Room + HeaderSize + (SecondSize - HeaderSize),
                              is_free |-> TRUE]
  <2> HIDE DEF b
  <2>1. h[HEAP_START].next = b /\ h[b].next = NULL /\ h[HEAP_START].capacity = Room
        /\ h[b].capacity = SecondSize - HeaderSize /\ h[HEAP_START].is_free = TRUE
    BY <1>10
  <2>2. hdr' = [x \in DOMAIN h \ {b} |->
                  IF x = HEAP_START
                  THEN [next |-> NULL,
                        capacity |-> Room + HeaderSize + (SecondSize - HeaderSize),
                        is_free |-> TRUE]
                  ELSE h[x]]
    BY <2>1, <1>12 DEF merge_with_next
  <2>3. DOMAIN h \ {b} = {HEAP_START}
    BY <1>1, <1>10
  <2> QED BY <2>2, <2>3
<1>14. Room + HeaderSize + (SecondSize - HeaderSize) = Room + SecondSize
  BY <1>1, <1>2
<1>15. Room + SecondSize \in Nat /\ Room + SecondSize >= BlockMinCapacity
  BY <1>1, <1>2
<1>16. WellFormed(hdr')
  BY <1>13, <1>14, <1>15, OneHeader
<1>17. OneFree(Room + SecondSize)'
  BY <1>13, <1>14 DEF OneFree
<1> QED BY <1>6, <1>16, <1>17

\* The growth of the fifth test: the region of the fourth one lies in the way.
LEMMA GrowsElsewhere ==
  ASSUME Ample, ProgramInv, stage = "call", grow_heap,
         query = Room * 2, cur = HEAP_START, TwoRegions, OneFree(Room)
  PROVE  WellFormed(hdr') /\ \E a \in DOMAIN hdr' : Grown(a)'
<1> DEFINE b == HEAP_START + FirstSize
<1>1. /\ HEAP_START \in Nat \ {NULL} /\ Room \in Nat /\ b \in Nat \ {NULL} /\ b # HEAP_START
      /\ hdr[HEAP_START] = [next |-> NULL, capacity |-> Room, is_free |-> TRUE]
      /\ block_after(hdr, HEAP_START) = b /\ b = HEAP_START + HeaderSize + Room
  BY FirstBlock
<1>2. /\ FirstSize \in Nat /\ SecondSize \in Nat /\ SecondSize >= HeaderSize + BlockMinCapacity
      /\ HeaderSize \in Nat \ {0} /\ BlockMinCapacity \in Nat /\ FirstSize = Room + HeaderSize
  BY Sizes, SizesAssumption
<1>3. grow_size = SecondSize
  BY DEF grow_size, SecondSize
<1>4. PICK a \in Placements(b, SecondSize) : hdr' = linked(a)
  BY <1>1, <1>3 DEF grow_heap
<1>5. /\ a \in Nat \ {NULL}
      /\ Apart(a, SecondSize, HEAP_START, FirstSize)
      /\ Apart(a, SecondSize, b, SecondSize)
  BY AddressesAssumption, <1>4 DEF Placements, Fits, TwoRegions
<1>6. a # HEAP_START /\ a # b
  BY <1>1, <1>2, <1>5 DEF Apart
<1>7. DOMAIN hdr = {HEAP_START} /\ WellFormed(hdr)
  BY DEF OneFree, ProgramInv
<1>8. hdr' = [block_init(hdr, a, SecondSize, NULL) EXCEPT ![HEAP_START].next = a]
  BY <1>1, <1>3, <1>4, <1>6 DEF linked
<1>9. Extended(hdr, HEAP_START, a, SecondSize, hdr')
  BY <1>6, <1>7, <1>8, LinkShape
<1>10. WellFormed(hdr')
  <2>1. \A x \in DOMAIN hdr : Apart(a, SecondSize, x, HeaderSize + hdr[x].capacity)
    <3>1. HeaderSize + Room = FirstSize
      BY <1>1, <1>2
    <3> QED BY <3>1, <1>1, <1>5, <1>7
  <2>2. HEAP_START \in DOMAIN hdr /\ hdr[HEAP_START].next = NULL /\ a \notin DOMAIN hdr
    BY <1>1, <1>6, <1>7
  <2> QED BY <2>1, <2>2, <1>2, <1>5, <1>7, <1>9, ExtendWellFormed
<1>11. /\ DOMAIN hdr' = {HEAP_START, a}
       /\ hdr'[HEAP_START] = [next |-> a, capacity |-> Room, is_free |-> TRUE]
       /\ hdr'[a] = [next |-> NULL, capacity |-> SecondSize - HeaderSize, is_free |-> TRUE]
  BY <1>1, <1>7, <1>9 DEF Extended
<1>12. cur' = HEAP_START
  BY DEF grow_heap
<1>13. Grown(a)'
  BY <1>5, <1>6, <1>11, <1>12 DEF Grown
<1> QED BY <1>10, <1>11, <1>13

\* In the row of the first three tests a search passes the blocks that are taken
\* and ends at the free rest of the region, which has room.
LEMMA RowSearch ==
  ASSUME Ample, ProgramInv, stage = "call", test <= 3, NEW tail \in DOMAIN hdr, Rowed(tail)
  PROVE  /\ pc = "find" /\ cur \in DOMAIN hdr /\ tail \in Nat \ {NULL}
         /\ ~mergeable(hdr, cur)
         /\ cur = tail => verdict(hdr, cur, wanted) = "BSR_FOUND_GOOD_BLOCK"
         /\ cur # tail => verdict(hdr, cur, wanted) = "continue" /\ hdr[cur].next \in DOMAIN hdr
         /\ wanted = query /\ query \in Nat
         /\ block_splittable(hdr, tail, query)
         /\ tail + HeaderSize + query <= HEAP_START + Moved(Len(addrs) + 1)
<1> DEFINE k == Len(addrs)
<1>1. /\ pc = "find" /\ cur \in DOMAIN hdr /\ k < Len(tests[test].sizes) /\ k \in Nat
      /\ query = tests[test].sizes[k + 1] /\ real = Room /\ test \in 1..3 /\ WellFormed(hdr)
  BY DEF ProgramInv, InARow
<1>2. /\ query \in Nat /\ query >= BlockMinCapacity
      /\ Step \in Nat /\ Moved(k) \in Nat /\ query + HeaderSize <= Step
      /\ Moved(k + 1) = Moved(k) + Step
      /\ Moved(k) + query + HeaderSize + BlockMinCapacity <= Room
  <2> HIDE DEF k
  <2> QED BY <1>1, RowFits
<1>3. wanted = query
  BY <1>2, SizesAssumption DEF wanted, size_max
<1>4. /\ DOMAIN hdr = Given \cup {tail} /\ hdr[tail].next = NULL /\ hdr[tail].is_free
      /\ hdr[tail].capacity = HEAP_START + FirstSize - HeaderSize - tail
      /\ tail <= HEAP_START + Moved(k)
      /\ \A a \in Given : ~hdr[a].is_free /\ hdr[a].next \notin {NULL, a}
  BY DEF Rowed
<1>5. tail \in Nat \ {NULL} /\ HEAP_START \in Nat /\ HeaderSize \in Nat /\ BlockMinCapacity \in Nat
      /\ FirstSize = Room + HeaderSize /\ Room \in Nat
  BY <1>1, Sizes, SizesAssumption, AddressesAssumption DEF WellFormed, Headers
<1>6. block_splittable(hdr, tail, query) /\ hdr[tail].capacity >= query
      /\ tail + HeaderSize + query <= HEAP_START + Moved(k + 1)
  <2> DEFINE m == Moved(k)
             n == Moved(k + 1)
             c == HEAP_START + FirstSize - HeaderSize - tail
  <2>1. /\ m \in Nat /\ n = m + Step /\ n \in Nat /\ tail <= HEAP_START + m
        /\ m + query + HeaderSize + BlockMinCapacity <= Room
    BY <1>2, <1>4
  <2>2. /\ tail \in Nat /\ HEAP_START \in Nat /\ HeaderSize \in Nat /\ BlockMinCapacity \in Nat
        /\ FirstSize = Room + HeaderSize /\ Room \in Nat
    BY <1>5
  <2>3. query \in Nat /\ Step \in Nat /\ query + HeaderSize <= Step
    BY <1>2
  <2> HIDE DEF m, n
  <2>4. c \in Int /\ query + HeaderSize + BlockMinCapacity <= c /\ query <= c
    BY <2>1, <2>2, <2>3
  <2>5. tail + HeaderSize + query <= HEAP_START + n
    BY <2>1, <2>2, <2>3
  <2>6. hdr[tail].capacity = c
    BY <1>4
  <2> HIDE DEF c
  <2>7. block_splittable(hdr, tail, query)
    BY <1>4, <2>4, <2>6 DEF block_splittable
  <2>8. hdr[tail].capacity >= query
    BY <2>4, <2>6
  <2> QED BY <2>5, <2>7, <2>8 DEF n
<1>7. CASE cur = tail
  <2>1. ~mergeable(hdr, cur)
    BY <1>4, <1>7 DEF mergeable
  <2>2. verdict(hdr, cur, wanted) = "BSR_FOUND_GOOD_BLOCK"
    BY <1>3, <1>4, <1>5, <1>6, <1>7 DEF verdict, is_good
  <2> QED BY <2>1, <2>2, <1>1, <1>2, <1>3, <1>5, <1>6, <1>7
<1>8. CASE cur # tail
  <2>1. cur \in Given
    BY <1>1, <1>4, <1>8
  <2>2. ~mergeable(hdr, cur)
    BY <2>1, <1>4 DEF mergeable
  <2>3. verdict(hdr, cur, wanted) = "continue"
    BY <2>1, <1>4 DEF verdict, is_good
  <2>4. hdr[cur].next \in DOMAIN hdr
    BY <2>1, <1>1, <1>4 DEF WellFormed, Linked
  <2> QED BY <2>2, <2>3, <2>4, <1>1, <1>2, <1>3, <1>5, <1>6, <1>8
<1> QED BY <1>7, <1>8

\* With one block too small the search ends there, and has the heap grow.
LEMMA OneSearch ==
  ASSUME Ample, ProgramInv, cur = HEAP_START, query = Room * 2,
         NEW c \in Nat, OneFree(c)
  PROVE  /\ wanted = Room * 2 /\ query \in Nat
         /\ ~mergeable(hdr, cur)
         /\ c < Room * 2 => verdict(hdr, cur, wanted) = "BSR_REACHED_END_NOT_FOUND"
         /\ c >= Room * 2 => verdict(hdr, cur, wanted) = "BSR_FOUND_GOOD_BLOCK"
<1>1. HEAP_START \in Nat \ {NULL} /\ Room \in Nat /\ BlockMinCapacity \in Nat
      /\ Room >= BlockMinCapacity
  BY Sizes, SizesAssumption, AddressesAssumption DEF NULL
<1>2. wanted = Room * 2 /\ query \in Nat
  BY <1>1 DEF wanted, size_max
<1>3. ~mergeable(hdr, cur)
  BY DEF OneFree, mergeable
<1>4. hdr[cur].next = NULL /\ hdr[cur].is_free /\ hdr[cur].capacity = c /\ cur # NULL
  BY <1>1 DEF OneFree
<1>5. is_good(hdr, cur, wanted) <=> c >= Room * 2
  BY <1>2, <1>4 DEF is_good
<1>6. c < Room * 2 <=> ~(c >= Room * 2)
  BY <1>1
<1> QED BY <1>2, <1>3, <1>4, <1>5, <1>6 DEF verdict

\* With a region apart the search passes the first block and takes the second.
LEMMA ApartSearch ==
  ASSUME Ample, ProgramInv, stage = "call", query = Room * 2, NEW a \in DOMAIN hdr, Grown(a)
  PROVE  /\ wanted = Room * 2 /\ query \in Nat
         /\ ~mergeable(hdr, cur)
         /\ cur = HEAP_START => verdict(hdr, cur, wanted) = "continue"
         /\ cur = a => verdict(hdr, cur, wanted) = "BSR_FOUND_GOOD_BLOCK"
<1>1. /\ HEAP_START \in Nat \ {NULL} /\ Room \in Nat /\ Room > 0 /\ BlockMinCapacity \in Nat
      /\ Room >= BlockMinCapacity /\ SecondSize \in Nat /\ SecondSize >= Room * 2 + HeaderSize
      /\ HeaderSize \in Nat /\ FirstSize = Room + HeaderSize
  BY Sizes, SizesAssumption, AddressesAssumption DEF NULL
<1>2. wanted = Room * 2 /\ query \in Nat
  BY <1>1 DEF wanted, size_max
<1>3. /\ a # HEAP_START /\ a # HEAP_START + FirstSize /\ a # NULL
      /\ hdr[HEAP_START].next = a /\ hdr[HEAP_START].capacity = Room
      /\ hdr[a].next = NULL /\ hdr[a].is_free /\ hdr[a].capacity = SecondSize - HeaderSize
      /\ cur \in {HEAP_START, a}
  BY DEF Grown, ProgramInv, WellFormed, Headers
<1>4. CASE cur = HEAP_START
  <2>1. ~mergeable(hdr, cur)
    BY <1>1, <1>3, <1>4 DEF mergeable, blocks_continuous, block_after
  <2>2. ~is_good(hdr, cur, wanted)
    BY <1>1, <1>2, <1>3, <1>4 DEF is_good
  <2>3. verdict(hdr, cur, wanted) = "continue"
    BY <2>2, <1>3, <1>4 DEF verdict
  <2> QED BY <2>1, <2>3, <1>2, <1>3, <1>4
<1>5. CASE cur = a
  <2>1. ~mergeable(hdr, cur)
    BY <1>3, <1>5 DEF mergeable
  <2>2. is_good(hdr, cur, wanted)
    <3>1. SecondSize - HeaderSize >= Room * 2
      BY <1>1
    <3> QED BY <3>1, <1>2, <1>3, <1>5 DEF is_good
  <2>3. verdict(hdr, cur, wanted) = "BSR_FOUND_GOOD_BLOCK"
    BY <2>2, <1>3, <1>5 DEF verdict
  <2> QED BY <2>1, <2>3, <1>2, <1>3, <1>5
<1> QED BY <1>3, <1>4, <1>5

\* A state of a call inside _malloc.
LEMMA InCall ==
  ASSUME Ample, ProgramInv, stage = "call"
  PROVE  /\ test \in 1..5 /\ freed = 0 /\ heap = HEAP_START /\ real = Room /\ failed = {}
         /\ WellFormed(hdr) /\ addrs \in Seq(Nat)
         /\ test <= 3 => /\ OneRegion /\ Within /\ Len(addrs) < Len(tests[test].sizes)
                         /\ query = tests[test].sizes[Len(addrs) + 1]
                         /\ \E tail \in DOMAIN hdr : Rowed(tail)
         /\ test = 4 => /\ addrs = <<>> /\ query = Room * 2 /\ cur = HEAP_START
                        /\ \/ pc \in {"find", "grow"} /\ ~grown /\ OneRegion /\ OneFree(Room)
                           \/ pc = "find" /\ grown /\ TwoRegions /\ OneFree(Room + SecondSize)
         /\ test = 5 => /\ addrs = <<>> /\ query = Room * 2
                        /\ \/ /\ pc \in {"find", "grow"} /\ ~grown /\ cur = HEAP_START
                              /\ TwoRegions /\ OneFree(Room)
                           \/ pc = "find" /\ grown /\ \E a \in DOMAIN hdr : Grown(a)
BY DEF ProgramInv, InARow, Extends, Elsewhere

LEMMA InMallocKeeps ==
  ASSUME Ample, foreign = {}, ProgramInv, InMalloc
  PROVE  ProgramInv'
<1>1. /\ stage = "call" /\ stage' = stage /\ test' = test /\ real' = real /\ addrs' = addrs
      /\ freed' = freed /\ failed' = failed /\ heap' = heap
      /\ FindMerge \/ FindNext \/ grow_heap
      /\ query' = query /\ pc' # "fault"
  BY DEF InMalloc, program_vars, FindMerge, FindNext, grow_heap
<1>2. tests' = tests /\ Given' = Given
  BY <1>1, SameTests DEF Given
<1>3. CASE test <= 3
  <2>1. PICK tail \in DOMAIN hdr : Rowed(tail)
    BY <1>1, <1>3, InCall
  <2>2. FindNext /\ cur # tail /\ pc = "find" /\ cur' \in DOMAIN hdr
    BY <1>1, <1>3, <2>1, RowSearch DEF FindMerge, FindNext, grow_heap
  <2>3. hdr' = hdr /\ regions' = regions /\ pc' = "find"
    BY <2>2 DEF FindNext
  <2>4. Rowed(tail)' /\ OneRegion' /\ Within'
    BY <1>1, <1>2, <1>3, <2>1, <2>3, InCall DEF Rowed, Moved, Step, OneRegion, Within
  <2>5. InARow'
    BY <1>1, <1>2, <1>3, <2>2, <2>3, <2>4, InCall DEF InARow
  <2> QED BY <1>1, <1>3, <2>3, <2>5, InCall DEF ProgramInv
<1>4. CASE test = 4
  <2>1. CASE ~grown
    <3>1. OneRegion /\ OneFree(Room) /\ cur = HEAP_START /\ query = Room * 2 /\ addrs = <<>>
      BY <1>1, <1>4, <2>1, InCall
    <3>2. Room \in Nat /\ Room < Room * 2
      BY Sizes, SizesAssumption
    <3>3. grow_heap
      BY <1>1, <3>1, <3>2, OneSearch DEF FindMerge, FindNext
    <3>4. WellFormed(hdr') /\ TwoRegions' /\ OneFree(Room + SecondSize)'
      BY <1>1, <3>1, <3>3, GrowsInPlace
    <3>5. Extends'
      BY <1>1, <1>4, <3>1, <3>3, <3>4, InCall DEF Extends, grow_heap
    <3> QED BY <1>1, <1>4, <3>4, <3>5, InCall DEF ProgramInv
  <2>2. CASE grown
    <3>1. OneFree(Room + SecondSize) /\ pc = "find" /\ cur = HEAP_START /\ query = Room * 2
      BY <1>1, <1>4, <2>2, InCall
    <3>2. Room + SecondSize \in Nat /\ Room + SecondSize >= Room * 2
      BY Sizes, SizesAssumption
    <3>3. FALSE
      BY <1>1, <3>1, <3>2, OneSearch DEF FindMerge, FindNext, grow_heap
    <3> QED BY <3>3
  <2> QED BY <2>1, <2>2
<1>5. CASE test = 5
  <2>1. CASE OneFree(Room) /\ TwoRegions /\ ~grown /\ cur = HEAP_START
    <3>1. query = Room * 2 /\ addrs = <<>>
      BY <1>1, <1>5, InCall
    <3>2. Room \in Nat /\ Room < Room * 2
      BY Sizes, SizesAssumption
    <3>3. grow_heap
      BY <1>1, <2>1, <3>1, <3>2, OneSearch DEF FindMerge, FindNext
    <3>4. WellFormed(hdr') /\ \E a \in DOMAIN hdr' : Grown(a)'
      BY <1>1, <2>1, <3>1, <3>3, GrowsElsewhere
    <3>5. Elsewhere'
      BY <1>1, <1>5, <3>1, <3>3, <3>4, InCall DEF Elsewhere, grow_heap
    <3> QED BY <1>1, <1>5, <3>4, <3>5, InCall DEF ProgramInv
  <2>2. ASSUME NEW a \in DOMAIN hdr, Grown(a), pc = "find", grown
        PROVE  ProgramInv'
    <3>1. query = Room * 2 /\ addrs = <<>>
      BY <1>1, <1>5, InCall
    <3>2. cur \in {HEAP_START, a}
      BY <2>2 DEF Grown
    <3>3. FindNext /\ cur = HEAP_START
      BY <1>1, <2>2, <3>1, <3>2, ApartSearch DEF FindMerge, FindNext, grow_heap
    <3>4. hdr' = hdr /\ pc' = "find" /\ grown' = grown /\ cur' = a
      BY <2>2, <3>3 DEF FindNext, Grown
    <3>5. Grown(a)'
      BY <2>2, <3>4 DEF Grown
    <3>6. Elsewhere'
      BY <1>1, <1>5, <2>2, <3>1, <3>4, <3>5, InCall DEF Elsewhere
    <3> QED BY <1>1, <1>5, <3>4, <3>6, InCall DEF ProgramInv
  <2> QED BY <1>1, <1>5, <2>1, <2>2, InCall
<1>6. test \in 1..5
  BY <1>1, InCall
<1> QED BY <1>3, <1>4, <1>5, <1>6

LEMMA MallocFailsKeeps ==
  ASSUME Ample, foreign = {}, ProgramInv, MallocFails
  PROVE  ProgramInv'
<1>1. /\ stage = "call" /\ test' = test /\ real' = real /\ addrs' = addrs
      /\ freed' = freed /\ failed' = failed /\ heap' = heap /\ FindFails
      /\ stage' = IF pc' = "idle" THEN "failed" ELSE stage
      /\ hdr' = hdr /\ regions' = regions /\ pc = "find" /\ ~mergeable(hdr, cur)
      /\ verdict(hdr, cur, wanted) \in {"BSR_REACHED_END_NOT_FOUND", "BSR_CORRUPTED"}
  BY DEF MallocFails, FindFails
<1>2. ~(test <= 3)
  <2> SUFFICES ASSUME test <= 3 PROVE FALSE
    OBVIOUS
  <2>1. PICK tail \in DOMAIN hdr : Rowed(tail)
    BY <1>1, InCall
  <2> QED BY <1>1, <2>1, RowSearch
<1>3. query = Room * 2 /\ addrs = <<>> /\ test \in {4, 5}
  BY <1>1, <1>2, InCall
<1>4. Room \in Nat /\ Room + SecondSize \in Nat /\ Room + SecondSize >= Room * 2
  BY Sizes, SizesAssumption
<1>5. ~grown /\ cur = HEAP_START /\ OneFree(Room)
      /\ (test = 4 => OneRegion) /\ (test = 5 => TwoRegions)
  <2>1. ~(cur = HEAP_START /\ OneFree(Room + SecondSize))
    BY <1>1, <1>3, <1>4, OneSearch
  <2>2. ASSUME NEW a \in DOMAIN hdr, Grown(a) PROVE FALSE
    <3>1. cur \in {HEAP_START, a}
      BY <2>2 DEF Grown
    <3> QED BY <1>1, <1>3, <2>2, <3>1, ApartSearch
  <2> QED BY <1>1, <1>3, <2>1, <2>2, InCall
<1>6. verdict(hdr, cur, wanted) = "BSR_REACHED_END_NOT_FOUND"
  <2>1. hdr[cur].next = NULL /\ cur # NULL
    BY <1>1, <1>5, FirstBlock DEF OneFree
  <2> QED BY <1>1, <2>1 DEF verdict
<1>7. pc' = "grow" /\ cur' = cur /\ query' = query /\ grown' = grown /\ stage' = "call"
  BY <1>1, <1>5, <1>6 DEF FindFails
<1>8. OneFree(Room)' /\ (test = 4 => OneRegion') /\ (test = 5 => TwoRegions')
  BY <1>1, <1>5 DEF OneFree, OneRegion, TwoRegions
<1>9. (test = 4 => Extends') /\ (test = 5 => Elsewhere')
  BY <1>1, <1>3, <1>5, <1>7, <1>8, InCall DEF Extends, Elsewhere
<1> QED BY <1>1, <1>3, <1>7, <1>9, InCall DEF ProgramInv

\* The first three tests: the rest of the region is cut, and what was cut off it
\* is the new rest.
LEMMA RowReturns ==
  ASSUME Ample, foreign = {}, ProgramInv, MallocReturns, test <= 3
  PROVE  ProgramInv'
<1> DEFINE k == Len(addrs)
<1> PICK second : second = cur + HeaderSize + query
  OBVIOUS
<1>1. /\ stage = "call" /\ stage' = "check" /\ test' = test /\ real' = real
      /\ freed' = freed /\ failed' = failed /\ heap' = heap /\ regions' = regions
      /\ FindGood /\ addrs' = Append(addrs, cur) /\ pc' = "idle"
      /\ ~mergeable(hdr, cur) /\ verdict(hdr, cur, wanted) = "BSR_FOUND_GOOD_BLOCK"
  BY DEF MallocReturns, FindGood, Return
<1>2. /\ addrs \in Seq(Nat) /\ k \in Nat /\ k < Len(tests[test].sizes) /\ WellFormed(hdr)
      /\ query = tests[test].sizes[k + 1] /\ OneRegion /\ Within /\ test \in 1..3 /\ freed = 0
      /\ real = Room /\ failed = {} /\ heap = HEAP_START
  BY <1>1, InCall
<1>3. PICK tail \in DOMAIN hdr : Rowed(tail)
  BY <1>1, InCall
<1>4. cur = tail
  BY <1>1, <1>3, RowSearch
<1>5. /\ cur \in Nat \ {NULL} /\ cur \in DOMAIN hdr /\ wanted = query /\ query \in Nat
      /\ block_splittable(hdr, cur, wanted)
      /\ second <= HEAP_START + Moved(k + 1)
  BY <1>1, <1>3, <1>4, RowSearch
<1>6. /\ DOMAIN hdr = Given \cup {cur} /\ cur \notin Given /\ HEAP_START \in DOMAIN hdr
      /\ hdr[cur].next = NULL
      /\ hdr[cur].capacity = HEAP_START + FirstSize - HeaderSize - cur
      /\ \A a \in Given : ~hdr[a].is_free /\ hdr[a].next \notin {NULL, a}
  BY <1>3, <1>4 DEF Rowed
<1>7. /\ WellFormed(hdr')
      /\ \A x \in DOMAIN hdr : x # cur => x \in DOMAIN hdr' /\ hdr'[x] = hdr[x]
      /\ second \notin DOMAIN hdr
      /\ DOMAIN hdr' = DOMAIN hdr \cup {second}
      /\ hdr'[cur] = [next |-> second, capacity |-> query, is_free |-> FALSE]
      /\ hdr'[second] = [next |-> NULL,
                         capacity |-> hdr[cur].capacity - query - HeaderSize,
                         is_free |-> TRUE]
  BY <1>1, <1>2, <1>5, <1>6, TakesBlock
<1>8. /\ HEAP_START \in Nat \ {NULL} /\ FirstSize \in Nat /\ HeaderSize \in Nat \ {0}
      /\ BlockMinCapacity \in Nat /\ query + HeaderSize + BlockMinCapacity <= hdr[cur].capacity
      /\ hdr[cur].capacity \in Nat
  BY <1>2, <1>5, Sizes, SizesAssumption, AddressesAssumption
     DEF block_splittable, NULL, WellFormed, Headers, Header
<1>9. /\ second \in Nat \ {NULL} /\ second # cur
      /\ second \in HEAP_START..(HEAP_START + FirstSize - 1)
      /\ hdr[cur].capacity - query - HeaderSize = HEAP_START + FirstSize - HeaderSize - second
  <2>1. cur \in HEAP_START..(HEAP_START + FirstSize - 1)
    BY <1>2, <1>5 DEF Within
  <2> DEFINE c == hdr[cur].capacity
  <2>2. /\ c \in Nat /\ query + HeaderSize + BlockMinCapacity <= c
        /\ c = HEAP_START + FirstSize - HeaderSize - cur
    BY <1>6, <1>8
  <2>3. cur \in Nat /\ query \in Nat
    BY <1>5
  <2> HIDE DEF c
  <2>4. second \in Nat /\ second > cur /\ second > 0
    BY <2>3, <1>8
  <2>5. second \in HEAP_START..(HEAP_START + FirstSize - 1)
    BY <2>1, <2>2, <2>3, <2>4, <1>8
  <2>6. c - query - HeaderSize = HEAP_START + FirstSize - HeaderSize - second
    BY <2>2, <2>3, <2>4, <1>8
  <2> QED BY <2>3, <2>4, <2>5, <2>6 DEF NULL, c
<1>10. Len(addrs') = k + 1 /\ addrs' \in Seq(Nat) /\ addrs'[k + 1] = cur
       /\ \A i \in 1..k : addrs'[i] = addrs[i]
  BY <1>1, <1>2, <1>5
<1>11. Given' = Given \cup {cur}
  <2>1. DOMAIN addrs = 1..k /\ DOMAIN addrs' = 1..(k + 1)
    BY <1>2, <1>10
  <2>2. 1..(k + 1) = 1..k \cup {k + 1}
    BY <1>2
  <2>3. {addrs'[i] : i \in 1..(k + 1)} = {addrs[i] : i \in 1..k} \cup {cur}
    <3>1. k \in Nat
      BY <1>2
    <3> HIDE DEF k
    <3>2. k + 1 \in 1..(k + 1) /\ \A i \in 1..k : i \in 1..(k + 1)
      BY <3>1
    <3>3. \A i \in 1..(k + 1) : i = k + 1 \/ i \in 1..k
      BY <3>1
    <3> QED BY <3>2, <3>3, <1>10
  <2> QED BY <2>1, <2>3 DEF Given
<1>12. Moved(Len(addrs))' = Moved(k + 1)
  BY <1>1, <1>10 DEF Moved, Step
<1>13. Rowed(second)'
  <2>1. DOMAIN hdr' = Given' \cup {second} /\ second \notin Given'
    BY <1>6, <1>7, <1>9, <1>11
  <2>2. HEAP_START \in DOMAIN hdr'
    BY <1>6, <1>7
  <2>3. /\ hdr'[second].next = NULL /\ hdr'[second].is_free
        /\ hdr'[second].capacity = HEAP_START + FirstSize - HeaderSize - second
    BY <1>7, <1>9
  <2>4. second <= HEAP_START + Moved(Len(addrs))'
    BY <1>5, <1>12
  <2>5. \A a \in Given' : ~hdr'[a].is_free /\ hdr'[a].next \notin {NULL, a}
    BY <1>6, <1>7, <1>9, <1>11
  <2> QED BY <2>1, <2>2, <2>3, <2>4, <2>5 DEF Rowed
<1>14. Within' /\ OneRegion'
  BY <1>1, <1>2, <1>7, <1>9 DEF Within, OneRegion
<1>15. second \in DOMAIN hdr'
  BY <1>7
<1>16. hdr'[block'].capacity = tests'[test'].sizes[Len(addrs')] /\ tests' = tests
  <2>1. tests' = tests
    BY <1>1, SameTests
  <2>2. block' = cur
    BY <1>10 DEF block
  <2>3. hdr'[block'].capacity = query
    BY <2>2, <1>7
  <2>4. query = tests[test].sizes[Len(addrs')]
    BY <1>2, <1>10
  <2> QED BY <2>1, <2>3, <2>4, <1>1
<1>17. InARow'
  BY <1>1, <1>2, <1>10, <1>13, <1>14, <1>15, <1>16 DEF InARow
<1> QED BY <1>1, <1>2, <1>7, <1>10, <1>17 DEF ProgramInv

\* The fourth test: the grown block is cut after what was asked for.
LEMMA ExtendedReturns ==
  ASSUME Ample, foreign = {}, ProgramInv, MallocReturns, test = 4
  PROVE  ProgramInv'
<1> DEFINE second == HEAP_START + HeaderSize + Room * 2
<1>1. /\ stage = "call" /\ stage' = "check" /\ test' = test /\ real' = real
      /\ freed' = freed /\ failed' = failed /\ heap' = heap /\ regions' = regions
      /\ FindGood /\ addrs' = Append(addrs, cur) /\ pc' = "idle" /\ pc = "find"
      /\ verdict(hdr, cur, wanted) = "BSR_FOUND_GOOD_BLOCK"
  BY DEF MallocReturns, FindGood, Return
<1>2. /\ addrs = <<>> /\ query = Room * 2 /\ cur = HEAP_START /\ WellFormed(hdr)
      /\ freed = 0 /\ real = Room /\ failed = {} /\ heap = HEAP_START
  BY <1>1, InCall
<1>3. /\ Room \in Nat /\ SecondSize \in Nat /\ HeaderSize \in Nat \ {0} /\ BlockMinCapacity \in Nat
      /\ SecondSize >= Room * 2 + HeaderSize /\ Room >= HeaderSize + BlockMinCapacity
      /\ HEAP_START \in Nat \ {NULL}
  BY Sizes, SizesAssumption, AddressesAssumption DEF NULL
<1>4. OneFree(Room + SecondSize) /\ TwoRegions
  <2>1. ~OneFree(Room)
    BY <1>1, <1>2, <1>3, OneSearch
  <2> QED BY <2>1, <1>1, InCall
<1>5. wanted = Room * 2
  BY <1>2, <1>3, <1>4, OneSearch
<1>6. block_splittable(hdr, cur, wanted) /\ cur \in DOMAIN hdr
  <2>1. Room * 2 + HeaderSize + BlockMinCapacity <= Room + SecondSize
    BY <1>3
  <2> QED BY <2>1, <1>2, <1>4, <1>5 DEF block_splittable, OneFree
<1>7. /\ WellFormed(hdr')
      /\ DOMAIN hdr' = DOMAIN hdr \cup {second}
      /\ hdr'[HEAP_START] = [next |-> second, capacity |-> Room * 2, is_free |-> FALSE]
      /\ hdr'[second] = [next |-> hdr[cur].next,
                         capacity |-> hdr[cur].capacity - wanted - HeaderSize,
                         is_free |-> TRUE]
  BY <1>1, <1>2, <1>3, <1>5, <1>6, TakesBlock
<1>8. second # NULL /\ second \in Nat
  BY <1>3 DEF NULL
<1>9. DOMAIN hdr' = {HEAP_START, second} /\ hdr'[second].next = NULL
  BY <1>2, <1>4, <1>7 DEF OneFree
<1>10. block_after(hdr', HEAP_START) = second
  BY <1>7 DEF block_after
<1> HIDE DEF second
<1>11. Cut'
  <2>1. hdr'[HEAP_START].next = second /\ hdr'[second].is_free
    BY <1>7
  <2> QED BY <2>1, <1>8, <1>9, <1>10 DEF Cut
<1>12. addrs' = <<HEAP_START>> /\ addrs' \in Seq(Nat)
  BY <1>1, <1>2, <1>3
<1>13. TwoRegions'
  BY <1>1, <1>4 DEF TwoRegions
<1>14. hdr'[HEAP_START].capacity = Room * 2
  BY <1>7
<1>15. Extends'
  BY <1>1, <1>2, <1>11, <1>12, <1>13, <1>14 DEF Extends
<1> QED BY <1>1, <1>2, <1>7, <1>12, <1>15 DEF ProgramInv

\* The fifth test: the first block stays free, whether the other one is cut or not.
LEMMA ApartReturns ==
  ASSUME Ample, foreign = {}, ProgramInv, MallocReturns, test = 5
  PROVE  ProgramInv'
<1>1. /\ stage = "call" /\ stage' = "check" /\ test' = test /\ real' = real
      /\ freed' = freed /\ failed' = failed /\ heap' = heap /\ regions' = regions
      /\ FindGood /\ addrs' = Append(addrs, cur) /\ pc' = "idle" /\ pc = "find"
      /\ verdict(hdr, cur, wanted) = "BSR_FOUND_GOOD_BLOCK"
  BY DEF MallocReturns, FindGood, Return
<1>2. /\ addrs = <<>> /\ query = Room * 2 /\ WellFormed(hdr)
      /\ freed = 0 /\ real = Room /\ failed = {} /\ heap = HEAP_START
  BY <1>1, InCall
<1>3. Room \in Nat /\ Room < Room * 2
  BY Sizes, SizesAssumption
<1>4. PICK a \in DOMAIN hdr : Grown(a)
  <2>1. ~(cur = HEAP_START /\ OneFree(Room))
    BY <1>1, <1>2, <1>3, OneSearch
  <2> QED BY <2>1, <1>1, InCall
<1>5. cur = a /\ a # HEAP_START /\ HEAP_START \in DOMAIN hdr /\ a \in Nat
      /\ hdr[HEAP_START].is_free
  <2>1. cur \in {HEAP_START, a} /\ a # HEAP_START /\ HEAP_START \in DOMAIN hdr
        /\ hdr[HEAP_START].is_free
    BY <1>4 DEF Grown
  <2>2. cur # HEAP_START
    BY <1>1, <1>2, <1>4, ApartSearch
  <2> QED BY <2>1, <2>2, <1>2 DEF WellFormed, Headers
<1>6. query \in Nat
  BY <1>2, <1>3
<1>7. /\ WellFormed(hdr') /\ cur \in DOMAIN hdr' /\ ~hdr'[cur].is_free
      /\ HEAP_START \in DOMAIN hdr' /\ hdr'[HEAP_START] = hdr[HEAP_START]
  BY <1>1, <1>2, <1>5, <1>6, TakesBlock
<1>8. Len(addrs') = 1 /\ addrs'[1] = cur /\ addrs' \in Seq(Nat)
  BY <1>1, <1>2, <1>5
<1>9. Elsewhere'
  BY <1>1, <1>2, <1>5, <1>7, <1>8 DEF Elsewhere
<1> QED BY <1>1, <1>2, <1>7, <1>8, <1>9 DEF ProgramInv

LEMMA CheckKeeps ==
  ASSUME Ample, foreign = {}, ProgramInv, TestCheck
  PROVE  ProgramInv'
<1>1. /\ stage = "check"
      /\ stage' = IF ~AsDemanded THEN "failed"
                  ELSE IF Len(addrs) < Len(tests[test].sizes) THEN "malloc" ELSE "free"
      /\ UNCHANGED <<test, real, addrs, freed, failed, refused>> /\ UNCHANGED vars
  BY DEF TestCheck
<1>2. tests' = tests /\ Given' = Given
  BY <1>1, SameTests DEF Given
<1>3. test \in 1..5 /\ heap = HEAP_START /\ real = Room
  BY <1>1 DEF ProgramInv
<1>4. CASE test <= 3
  <2>1. /\ OneRegion /\ Within /\ pc = "idle" /\ freed = 0
        /\ Len(addrs) \in 1..Len(tests[test].sizes)
        /\ hdr[block].capacity = tests[test].sizes[Len(addrs)]
    BY <1>1, <1>4 DEF ProgramInv, InARow
  <2>2. PICK tail \in DOMAIN hdr : Rowed(tail)
    BY <1>1, <1>4 DEF ProgramInv, InARow
  <2>3. Rowed(tail)' /\ OneRegion' /\ Within'
    BY <1>1, <1>2, <2>1, <2>2 DEF vars, Rowed, Moved, Step, OneRegion, Within
  <2>4. AsDemanded
    BY <1>3, <1>4, <2>1, TestFacts DEF AsDemanded, Facts
  <2>5. 0 < tests[test].frees
    BY <1>3, TestFacts DEF Facts
  <2>6. InARow'
    BY <1>1, <1>2, <1>3, <2>1, <2>3, <2>4, <2>5 DEF vars, InARow
  <2> QED BY <1>1, <1>4, <2>4, <2>6 DEF vars, ProgramInv
<1>5. CASE test = 4
  <2>1. /\ pc = "idle" /\ freed = 0 /\ addrs = <<HEAP_START>> /\ TwoRegions /\ Cut
        /\ hdr[HEAP_START].capacity = Room * 2
    BY <1>1, <1>5 DEF ProgramInv, Extends
  <2>2. Len(addrs) = 1 /\ block = HEAP_START
    BY <2>1 DEF block
  <2>3. AsDemanded /\ stage' = "free"
    <3>1. ~tests[test].break /\ Len(tests[test].sizes) = 1 /\ tests[test].sizes[1] = real * 2
      BY <1>3, <1>5, TestFacts DEF Facts
    <3>2. AsDemanded
      BY <3>1, <1>3, <2>1, <2>2 DEF AsDemanded
    <3> QED BY <3>1, <3>2, <1>1, <2>2
  <2>4. TwoRegions' /\ Cut'
    BY <1>1, <2>1 DEF vars, TwoRegions, Cut, block_after
  <2>5. Extends'
    BY <1>1, <2>1, <2>3, <2>4 DEF vars, Extends
  <2> QED BY <1>1, <1>5, <2>3, <2>5 DEF vars, ProgramInv
<1>6. CASE test = 5
  <2>1. /\ pc = "idle" /\ freed = 0 /\ Len(addrs) = 1 /\ addrs[1] \in DOMAIN hdr
        /\ hdr[HEAP_START].is_free /\ ~hdr[addrs[1]].is_free
    BY <1>1, <1>6 DEF ProgramInv, Elsewhere
  <2>2. block = addrs[1]
    BY <2>1 DEF block
  <2>3. AsDemanded /\ stage' = "free"
    <3>1. ~tests[test].exact /\ Len(tests[test].sizes) = 1
      BY <1>3, <1>6, TestFacts DEF Facts
    <3>2. AsDemanded
      BY <3>1, <1>3, <2>1, <2>2 DEF AsDemanded
    <3> QED BY <3>1, <3>2, <1>1, <2>1
  <2>4. Elsewhere'
    BY <1>1, <2>1, <2>3 DEF vars, Elsewhere
  <2> QED BY <1>1, <1>6, <2>3, <2>4 DEF vars, ProgramInv
<1> QED BY <1>3, <1>4, <1>5, <1>6

\* The first step of _free: the block is one of those the test was given.
LEMMA FreesKeeps ==
  ASSUME Ample, foreign = {}, ProgramInv, TestFrees
  PROVE  ProgramInv'
<1>1. /\ stage = "free" /\ pc = "idle" /\ UNCHANGED <<regions, foreign, heap, query, grown>>
      /\ UNCHANGED program_vars
  BY DEF TestFrees
<1>2. UNCHANGED <<test, stage, real, addrs, freed, failed, refused>>
  BY <1>1 DEF program_vars
<1>3. PICK r \in DOMAIN addrs :
        /\ pc' = IF addrs[r] \in DOMAIN hdr THEN "free" ELSE "fault"
        /\ hdr' = [x \in DOMAIN hdr |->
                     IF x = addrs[r] THEN [hdr[x] EXCEPT !.is_free = TRUE] ELSE hdr[x]]
        /\ cur' = addrs[r]
  BY DEF TestFrees
<1> PICK a : a = addrs[r]
  OBVIOUS
<1>4. a \in Given
  BY DEF Given
<1>5. test \in 1..5 /\ WellFormed(hdr) /\ failed = {} /\ addrs \in Seq(Nat)
      /\ heap = HEAP_START /\ real = Room
  BY <1>1 DEF ProgramInv
<1>6. tests' = tests /\ Given' = Given
  BY <1>2, SameTests DEF Given
<1>7. ASSUME a \in DOMAIN hdr
      PROVE  /\ pc' = "free" /\ cur' = a /\ WellFormed(hdr') /\ DOMAIN hdr' = DOMAIN hdr
             /\ \A x \in DOMAIN hdr : x # a => hdr'[x] = hdr[x]
             /\ hdr'[a].is_free /\ hdr'[a].next = hdr[a].next
             /\ hdr'[a].capacity = hdr[a].capacity
  <2>1. hdr \in [DOMAIN hdr -> Header]
    BY <1>5 DEF WellFormed, Headers
  <2>2. hdr' = [hdr EXCEPT ![a].is_free = TRUE]
    BY <1>3, <1>7, <2>1
  <2>3. WellFormed(hdr')
    BY <1>5, <1>7, <2>2, Marking
  <2>4. hdr'[a] = [hdr[a] EXCEPT !.is_free = TRUE]
    BY <1>7, <2>1, <2>2
  <2>5. hdr[a] = [next |-> hdr[a].next, capacity |-> hdr[a].capacity, is_free |-> hdr[a].is_free]
    BY <1>7, <2>1 DEF Header
  <2> QED BY <1>3, <1>7, <2>3, <2>4, <2>5
<1>8. CASE test <= 3
  <2>1. OneRegion /\ Within /\ freed < tests[test].frees
    BY <1>1, <1>5, <1>8 DEF ProgramInv, InARow
  <2>2. CASE freed = 0 /\ \E tail \in DOMAIN hdr : Rowed(tail)
    <3>1. PICK tail \in DOMAIN hdr : Rowed(tail)
      BY <2>2
    <3>2. /\ DOMAIN hdr = Given \cup {tail} /\ tail \notin Given /\ hdr[tail].next = NULL
          /\ \A b \in Given : ~hdr[b].is_free /\ hdr[b].next # b
      BY <3>1 DEF Rowed
    <3>3. FreesOne'
      BY <1>4, <1>6, <1>7, <3>2 DEF FreesOne
    <3>4. OneRegion' /\ Within'
      BY <1>1, <1>4, <1>7, <2>1, <3>2 DEF OneRegion, Within
    <3>5. InARow' /\ pc' # "fault"
      BY <1>1, <1>2, <1>4, <1>6, <1>7, <2>1, <2>2, <3>2, <3>3, <3>4 DEF InARow
    <3> QED BY <1>1, <1>2, <1>4, <1>5, <1>7, <1>8, <3>2, <3>5 DEF ProgramInv
  <2>3. CASE freed = 1 /\ Given \subseteq DOMAIN hdr
    <3>1. OneRegion' /\ Within' /\ cur' \in DOMAIN hdr'
      BY <1>1, <1>4, <1>7, <2>1, <2>3 DEF OneRegion, Within
    <3>2. InARow' /\ pc' # "fault"
      BY <1>1, <1>2, <1>4, <1>6, <1>7, <2>1, <2>3, <3>1 DEF InARow
    <3> QED BY <1>1, <1>2, <1>4, <1>5, <1>7, <1>8, <2>3, <3>2 DEF ProgramInv
  <2> QED BY <1>1, <1>5, <1>8, <2>2, <2>3 DEF ProgramInv, InARow
<1>9. CASE test = 4
  <2>1. freed = 0 /\ addrs = <<HEAP_START>> /\ TwoRegions /\ Cut
    BY <1>1, <1>9 DEF ProgramInv, Extends
  <2>2. a = HEAP_START /\ a \in DOMAIN hdr
    BY <1>4, <2>1 DEF Given, Cut
  <2>3. hdr[HEAP_START].next # HEAP_START
    BY <1>5, <2>2 DEF WellFormed, Linked
  <2>4. Cut'
    BY <1>7, <2>1, <2>2, <2>3 DEF Cut, block_after
  <2>5. TwoRegions'
    BY <1>1, <2>1 DEF TwoRegions
  <2>6. Extends'
    BY <1>1, <1>2, <1>7, <2>1, <2>2, <2>4, <2>5 DEF Extends
  <2> QED BY <1>1, <1>2, <1>5, <1>7, <1>9, <2>2, <2>6 DEF ProgramInv
<1>10. CASE test = 5
  <2>1. freed = 0 /\ Len(addrs) = 1 /\ addrs[1] \in DOMAIN hdr
    BY <1>1, <1>10 DEF ProgramInv, Elsewhere
  <2>2. a = addrs[1]
    <3>1. DOMAIN addrs = 1..1
      BY <1>5, <2>1
    <3> QED BY <3>1, <1>4
  <2>3. Elsewhere'
    BY <1>1, <1>2, <1>7, <2>1, <2>2 DEF Elsewhere
  <2> QED BY <1>1, <1>2, <1>5, <1>7, <1>10, <2>1, <2>2, <2>3 DEF ProgramInv
<1> QED BY <1>5, <1>8, <1>9, <1>10

LEMMA InFreeKeeps ==
  ASSUME Ample, foreign = {}, ProgramInv, InFree
  PROVE  ProgramInv'
<1>1. /\ stage = "free" /\ pc = "free" /\ mergeable(hdr, cur) /\ hdr' = merge_with_next(hdr, cur)
      /\ UNCHANGED <<regions, heap, pc, cur>> /\ UNCHANGED program_vars
  BY DEF InFree, FreeMerge
<1>2. UNCHANGED <<test, stage, real, addrs, freed, failed, refused>>
  BY <1>1 DEF program_vars
<1>3. test \in 1..5 /\ WellFormed(hdr) /\ failed = {} /\ addrs \in Seq(Nat)
      /\ heap = HEAP_START /\ real = Room
  BY <1>1 DEF ProgramInv
<1>4. tests' = tests /\ Given' = Given
  BY <1>2, SameTests DEF Given
<1> PICK n : n = hdr[cur].next
  OBVIOUS
<1>5. ASSUME cur \in DOMAIN hdr
      PROVE  /\ n \in DOMAIN hdr /\ n # cur /\ hdr[n].is_free /\ hdr[cur].is_free
             /\ DOMAIN hdr' = DOMAIN hdr \ {n} /\ WellFormed(hdr')
             /\ \A x \in DOMAIN hdr' : x # cur => hdr'[x] = hdr[x]
             /\ hdr'[cur].next = hdr[n].next /\ hdr'[cur].is_free
  <2>1. Merged(hdr, cur, hdr')
    BY <1>1, <1>3, <1>5, MergeShape
  <2>2. WellFormed(hdr')
    BY <1>3, <1>5, <2>1, MergeWellFormed
  <2> QED BY <1>5, <2>1, <2>2 DEF Merged
<1>6. CASE test <= 3
  <2>1. OneRegion /\ Within /\ freed < tests[test].frees
    BY <1>1, <1>3, <1>6 DEF ProgramInv, InARow
  <2>2. cur \in DOMAIN hdr
    BY <1>1, <1>3, <1>6 DEF ProgramInv, InARow, FreesOne
  <2>3. OneRegion' /\ Within'
    BY <1>1, <1>5, <2>1, <2>2 DEF OneRegion, Within
  <2>4. CASE freed = 0 /\ FreesOne
    <3>1. /\ cur \in Given /\ \A a \in Given : a # cur => ~hdr[a].is_free
          /\ hdr[cur].next # NULL
      BY <1>1, <2>4 DEF FreesOne, mergeable
    <3>2. PICK tail \in DOMAIN hdr : DOMAIN hdr = Given \cup {tail} /\ tail \notin Given
                                     /\ hdr[tail].next = NULL
      BY <2>4, <3>1 DEF FreesOne
    <3>3. n = tail
      BY <1>5, <2>2, <3>1, <3>2
    <3>4. DOMAIN hdr' = Given /\ hdr'[cur].next = NULL
      BY <1>5, <2>2, <3>2, <3>3
    <3>5. FreesOne'
      BY <1>1, <1>4, <1>5, <2>2, <3>1, <3>4 DEF FreesOne
    <3>6. InARow'
      BY <1>1, <1>2, <1>4, <2>1, <2>3, <2>4, <3>5 DEF InARow
    <3> QED BY <1>1, <1>2, <1>3, <1>5, <1>6, <2>2, <3>6 DEF ProgramInv
  <2>5. CASE freed = 1
    <3>1. cur \in DOMAIN hdr'
      BY <1>5, <2>2
    <3>2. InARow'
      BY <1>1, <1>2, <1>4, <2>1, <2>3, <2>5, <3>1 DEF InARow
    <3> QED BY <1>1, <1>2, <1>3, <1>5, <1>6, <2>2, <3>2 DEF ProgramInv
  <2> QED BY <1>1, <1>3, <1>6, <2>4, <2>5 DEF ProgramInv, InARow
<1>7. CASE test = 4
  <2>1. /\ freed = 0 /\ addrs = <<HEAP_START>> /\ TwoRegions /\ cur = HEAP_START
        /\ hdr[HEAP_START].is_free
        /\ \/ Cut
           \/ DOMAIN hdr = {HEAP_START} /\ hdr[HEAP_START].next = NULL
    BY <1>1, <1>7 DEF ProgramInv, Extends
  <2>2. hdr[HEAP_START].next # NULL
    BY <1>1, <2>1 DEF mergeable
  <2>3. Cut /\ cur \in DOMAIN hdr
    BY <2>1, <2>2 DEF Cut
  <2>4. DOMAIN hdr' = {HEAP_START} /\ hdr'[HEAP_START].next = NULL
    BY <1>5, <2>1, <2>3 DEF Cut
  <2>5. TwoRegions' /\ hdr'[HEAP_START].is_free
    BY <1>1, <1>5, <2>1, <2>3 DEF TwoRegions
  <2>6. Extends'
    BY <1>1, <1>2, <2>1, <2>4, <2>5 DEF Extends
  <2> QED BY <1>1, <1>2, <1>3, <1>5, <1>7, <2>3, <2>6 DEF ProgramInv
<1>8. CASE test = 5
  <2>1. freed = 0 /\ Len(addrs) = 1 /\ cur \in DOMAIN hdr
    BY <1>1, <1>8 DEF ProgramInv, Elsewhere
  <2>2. cur \in DOMAIN hdr'
    BY <1>5, <2>1
  <2>3. Elsewhere'
    BY <1>1, <1>2, <2>1, <2>2 DEF Elsewhere
  <2> QED BY <1>1, <1>2, <1>3, <1>5, <1>8, <2>1, <2>3 DEF ProgramInv
<1> QED BY <1>3, <1>6, <1>7, <1>8

LEMMA FreedKeeps ==
  ASSUME Ample, foreign = {}, ProgramInv, TestFreed
  PROVE  ProgramInv'
<1>1. /\ stage = "free" /\ pc = "free" /\ ~mergeable(hdr, cur) /\ pc' = "idle"
      /\ UNCHANGED <<hdr, regions, heap>>
      /\ UNCHANGED <<test, real, addrs, failed, refused>>
      /\ freed' = freed + 1
      /\ stage' = IF freed + 1 = tests[test].frees THEN "destroy" ELSE stage
  BY DEF TestFreed, FreeReturn, Return
<1>2. test \in 1..5 /\ WellFormed(hdr) /\ failed = {} /\ addrs \in Seq(Nat)
      /\ heap = HEAP_START /\ real = Room
  BY <1>1 DEF ProgramInv
<1>3. tests' = tests /\ Given' = Given
  BY <1>1, SameTests DEF Given
<1>4. /\ tests[test].frees \in {1, 2} /\ (test \in {4, 5} => tests[test].frees = 1)
  BY <1>2, TestFacts DEF Facts
<1>5. CASE test <= 3
  <2>1. /\ OneRegion /\ Within /\ freed < tests[test].frees
        /\ \/ freed = 0 /\ FreesOne
           \/ freed = 1
    BY <1>1, <1>2, <1>5 DEF ProgramInv, InARow
  <2>2. freed \in {0, 1} /\ (freed = 0 => Given \subseteq DOMAIN hdr)
    <3>1. FreesOne => Given \subseteq DOMAIN hdr
      BY DEF FreesOne
    <3> QED BY <2>1, <3>1
  <2>3. OneRegion' /\ Within'
    BY <1>1, <2>1 DEF OneRegion, Within
  <2>4. CASE freed + 1 = tests[test].frees
    <3>1. InARow'
      BY <1>1, <2>3, <2>4 DEF InARow
    <3> QED BY <1>1, <1>2, <1>5, <2>4, <3>1 DEF ProgramInv
  <2>5. CASE freed + 1 # tests[test].frees
    <3>1. freed = 0 /\ tests[test].frees = 2
      BY <1>4, <2>1, <2>2, <2>5
    <3>2. InARow'
      BY <1>1, <1>3, <2>1, <2>2, <2>3, <2>5, <3>1 DEF InARow
    <3> QED BY <1>1, <1>2, <1>5, <2>5, <3>2 DEF ProgramInv
  <2> QED BY <2>4, <2>5
<1>6. CASE test = 4
  <2>1. /\ freed = 0 /\ TwoRegions /\ cur = HEAP_START /\ hdr[HEAP_START].is_free
        /\ \/ Cut
           \/ DOMAIN hdr = {HEAP_START} /\ hdr[HEAP_START].next = NULL
    BY <1>1, <1>6 DEF ProgramInv, Extends
  <2>2. ~Cut
    BY <1>1, <2>1 DEF Cut, mergeable, blocks_continuous
  <2>3. stage' = "destroy"
    BY <1>1, <1>4, <1>6, <2>1
  <2>4. Extends'
    BY <1>1, <1>6, <2>1, <2>2, <2>3 DEF Extends, TwoRegions
  <2> QED BY <1>1, <1>2, <1>6, <2>3, <2>4 DEF ProgramInv
<1>7. CASE test = 5
  <2>1. freed = 0
    BY <1>1, <1>7 DEF ProgramInv, Elsewhere
  <2>2. stage' = "destroy"
    BY <1>1, <1>4, <1>7, <2>1
  <2>3. Elsewhere'
    BY <1>1, <2>2 DEF Elsewhere
  <2> QED BY <1>1, <1>2, <1>7, <2>2, <2>3 DEF ProgramInv
<1> QED BY <1>2, <1>5, <1>6, <1>7

\* munmap takes back the first region with every header in it, and leaves the
\* one that the heap grew by.
LEMMA DestroyKeeps ==
  ASSUME Ample, foreign = {}, ProgramInv, heap_destroy
  PROVE  ProgramInv'
<1> DEFINE gone == unmapped(real)
           kept == {a \in DOMAIN hdr : \A r \in gone : a \notin r..(r + regions[r] - 1)}
<1>1. /\ stage = "destroy" /\ pc' = pc /\ heap' = NULL
      /\ regions' = [r \in DOMAIN regions \ gone |-> regions[r]]
      /\ hdr' = [a \in kept |-> hdr[a]]
      /\ test' = test + 1 /\ stage' = (IF test = Len(tests) THEN "over" ELSE "init")
      /\ addrs' = <<>> /\ freed' = 0 /\ failed' = failed
  BY DEF heap_destroy, NextTest
<1>2. test \in 1..5 /\ failed = {} /\ pc = "idle" /\ heap = HEAP_START /\ real = Room
  BY <1>1 DEF ProgramInv, InARow, Extends, Elsewhere
<1>3. stage' = IF test = 5 THEN "over" ELSE "init"
  BY <1>1, TestFacts DEF Facts
<1>4. addrs' \in Seq(Nat)
  BY <1>1
<1>5. /\ HEAP_START \in Nat \ {NULL} /\ FirstSize \in Nat /\ FirstSize > 0
      /\ size_from_capacity(Room) = FirstSize
  BY Sizes, SizesAssumption, AddressesAssumption DEF NULL
<1>6. ASSUME HEAP_START \in DOMAIN regions, regions[HEAP_START] = FirstSize, Within
      PROVE  gone = {HEAP_START} /\ DOMAIN hdr' = {} /\ WellFormed(hdr')
  <2>1. gone = {HEAP_START}
    BY <1>2, <1>5, <1>6 DEF unmapped
  <2>2. kept = {}
    <3> HIDE DEF gone
    <3> QED BY <2>1, <1>6 DEF Within
  <2>3. DOMAIN hdr' = {} /\ hdr' = [a \in {} |-> hdr[a]]
    BY <2>2, <1>1
  <2>4. WellFormed(hdr')
    BY <2>3 DEF WellFormed, Headers, Disjoint, Linked
  <2> QED BY <2>1, <2>3, <2>4
<1>7. CASE test <= 3
  <2>1. OneRegion /\ Within
    BY <1>1, <1>2, <1>7 DEF ProgramInv, InARow
  <2>2. gone = {HEAP_START} /\ DOMAIN hdr' = {} /\ WellFormed(hdr')
    BY <1>6, <2>1 DEF OneRegion
  <2>3. DOMAIN regions' = {}
    BY <1>1, <2>1, <2>2 DEF OneRegion
  <2>4. Vacant'
    BY <1>1, <1>2, <1>7, <2>2, <2>3 DEF Vacant
  <2> QED BY <1>1, <1>2, <1>3, <1>4, <1>7, <2>2, <2>4 DEF ProgramInv
<1>8. CASE test = 4
  <2>1. TwoRegions /\ DOMAIN hdr = {HEAP_START}
    BY <1>1, <1>8 DEF ProgramInv, Extends
  <2>2. Within
    BY <2>1, <1>5 DEF Within
  <2>3. gone = {HEAP_START} /\ DOMAIN hdr' = {} /\ WellFormed(hdr')
    BY <1>6, <2>1, <2>2 DEF TwoRegions
  <2>4. HEAP_START + FirstSize # HEAP_START
    BY <1>5
  <2>5. DOMAIN regions' = {HEAP_START + FirstSize}
        /\ regions'[HEAP_START + FirstSize] = SecondSize
    BY <1>1, <2>1, <2>3, <2>4 DEF TwoRegions
  <2>6. Vacant'
    BY <1>1, <1>2, <1>8, <2>3, <2>5 DEF Vacant
  <2> QED BY <1>1, <1>2, <1>3, <1>4, <1>8, <2>3, <2>6 DEF ProgramInv
<1>9. CASE test = 5
  BY <1>1, <1>2, <1>3, <1>4, <1>9 DEF ProgramInv
<1> QED BY <1>2, <1>7, <1>8, <1>9

\* As long as the kernel refuses nothing no step leaves the invariant.
LEMMA StepKeepsPInv ==
  ASSUME Ample, PInv, [run_tests]_<<vars, program_vars>>
  PROVE  PInv'
<1> SUFFICES ASSUME foreign' = {}, ~refused' PROVE ProgramInv'
  BY DEF PInv
<1>1. CASE UNCHANGED <<vars, program_vars>>
  <2>1. ProgramInv
    BY <1>1 DEF PInv, vars, program_vars
  <2>2. tests' = tests /\ Given' = Given
    BY <1>1, SameTests DEF program_vars, Given
  <2>3. /\ InARow => InARow'
        /\ Extends => Extends'
        /\ Elsewhere => Elsewhere'
        /\ Vacant => Vacant'
    BY <1>1, <2>2
       DEF vars, program_vars, InARow, Extends, Elsewhere, Vacant, OneRegion, TwoRegions, Within,
           Rowed, Moved, Step, FreesOne, OneFree, Cut, Grown, block, block_after
  <2> QED BY <1>1, <2>1, <2>3 DEF ProgramInv, vars, program_vars
<1>2. CASE run_tests
  <2>1. ~TestInitFails /\ ~MallocRefused
    BY Zenon DEF TestInitFails, MallocRefused
  <2>2. foreign = {} /\ ~refused
    <3>1. TestInit \/ TestBreak \/ TestMalloc => foreign' = foreign /\ refused' = refused
      BY DEF TestInit, TestBreak, TestMalloc, heap_init, _malloc
    <3>2. InMalloc \/ MallocReturns \/ MallocFails => foreign' = foreign /\ refused' = refused
      BY DEF InMalloc, MallocReturns, MallocFails, FindMerge, FindNext, FindGood, FindFails,
             grow_heap, program_vars
    <3>3. TestCheck \/ TestFails \/ TestFrees => foreign' = foreign /\ refused' = refused
      BY DEF TestCheck, TestFails, TestFrees, vars, program_vars
    <3>4. InFree \/ TestFreed \/ heap_destroy => foreign' = foreign /\ refused' = refused
      BY DEF InFree, TestFreed, heap_destroy, FreeMerge, FreeReturn, program_vars
    <3>5. foreign' = foreign /\ refused' = refused
      BY <1>2, <2>1, <3>1, <3>2, <3>3, <3>4 DEF run_tests
    <3> QED BY <3>5, Zenon
  <2>3. ProgramInv
    BY <2>2 DEF PInv
  <2>4. ~TestFails
    <3>1. stage # "failed"
      BY <2>3 DEF ProgramInv, InARow, Extends, Elsewhere
    <3> QED BY <3>1 DEF TestFails
  <2>5. MallocReturns => ProgramInv'
    <3>1. MallocReturns => test \in 1..5
      BY <2>3, InCall DEF MallocReturns
    <3> QED BY <3>1, <2>2, <2>3, RowReturns, ExtendedReturns, ApartReturns
  <2> QED
    BY <1>2, <2>1, <2>2, <2>3, <2>4, <2>5, InitKeeps, BreakKeeps, MallocKeeps, InMallocKeeps,
       MallocFailsKeeps, CheckKeeps, FreesKeeps, InFreeKeeps, FreedKeeps, DestroyKeeps
       DEF run_tests
<1> QED BY <1>1, <1>2

\* tests.c:196, run_tests: for every page, header and block size for which the
\* tests were written, the five of them pass one after the other, whichever block
\* rand() has a test free: no call reads where no header is, and what each test
\* demands of its blocks is what the allocator did.
THEOREM ProgramPasses ==
  ASSUME Ample
  PROVE  ProgramSpec => []TestsPass
<1>1. ProgramInit => PInv
  <2> SUFFICES ASSUME ProgramInit PROVE ProgramInv
    BY DEF PInv
  <2>1. /\ test = 1 /\ stage = "init" /\ addrs = <<>> /\ freed = 0 /\ failed = {}
        /\ pc = "idle" /\ heap = NULL /\ DOMAIN hdr = {} /\ DOMAIN regions = {}
        /\ hdr = [a \in {} |-> NULL]
    BY DEF ProgramInit, Init
  <2>2. WellFormed(hdr)
    BY <2>1 DEF WellFormed, Headers, Disjoint, Linked
  <2>3. Vacant
    BY <2>1 DEF Vacant
  <2> QED BY <2>1, <2>2, <2>3 DEF ProgramInv
<1>2. PInv /\ [run_tests]_<<vars, program_vars>> => PInv'
  BY StepKeepsPInv
<1>3. PInv => TestsPass
  BY DEF PInv, ProgramInv, TestsPass
<1> QED BY <1>1, <1>2, <1>3, PTL DEF ProgramSpec

-----------------------------------------------------------------------------
(* The unit tests: what the sizes they were written for make of each.      *)

\* One unit test, of its own in an address space.
UnitSpec == (\E u \in UnitTests : UnitInit(u)) /\ [][UnitNext]_<<vars, unit_vars>>

\* The sizes for which the unit tests were written: two headers and the smallest block
\* fit into 128 bytes, no block is asked for that is larger than a region.
Handy ==
  /\ BlockMinCapacity \in 10..(128 - 2 * HeaderSize)
  /\ HeaderSize <= PageSize
  /\ RegionMinSize >= 1024
  /\ RegionMinSize + 2 * PageSize <= SizeModulus

\* Every block of a list is as it was laid out.
Stand(l) == \A i \in 1..Len(l) : Stands(l, i, i)

LEMMA HandySizes ==
  ASSUME Handy
  PROVE  /\ HeaderSize \in Nat /\ HeaderSize >= 1 /\ BlockMinCapacity \in Nat
         /\ BlockMinCapacity >= 10 /\ 2 * HeaderSize + BlockMinCapacity <= 128
         /\ RegionMinSize \in Nat /\ RegionMinSize >= 1024 /\ PageSize \in Nat /\ PageSize >= 1
         /\ HEAP_START \in Nat \ {NULL} /\ HEAP_START >= 1
         /\ \A q \in 0..RegionMinSize : size_from_capacity(q) = q + HeaderSize
<1>1. /\ HeaderSize \in Nat /\ HeaderSize >= 1 /\ BlockMinCapacity \in Nat
      /\ BlockMinCapacity >= 10 /\ 2 * HeaderSize + BlockMinCapacity <= 128
      /\ RegionMinSize \in Nat /\ RegionMinSize >= 1024 /\ PageSize \in Nat /\ PageSize >= 1
      /\ SizeModulus \in Nat /\ HeaderSize <= PageSize
      /\ RegionMinSize + 2 * PageSize <= SizeModulus
  BY SizesAssumption DEF Handy
<1>2. HEAP_START \in Nat \ {NULL} /\ HEAP_START >= 1
  BY AddressesAssumption DEF NULL
<1>3. ASSUME NEW q \in 0..RegionMinSize PROVE size_from_capacity(q) = q + HeaderSize
  <2>1. q + HeaderSize \in 0..(SizeModulus - 1)
    BY <1>1
  <2> QED BY <1>1, <2>1 DEF size_from_capacity
<1> QED BY <1>1, <1>2, <1>3

\* The regions that the tests allocate.
LEMMA HandyRegions ==
  ASSUME Handy
  PROVE  /\ \A q \in 0..RegionMinSize : region_actual_size(q) = RegionMinSize
         /\ region_actual_size(RegionMinSize + HeaderSize) = RegionMinSize + PageSize
<1> DEFINE R == RegionMinSize
<1>1. /\ HeaderSize \in Nat /\ HeaderSize >= 1 /\ R \in Nat /\ PageSize \in Nat /\ PageSize >= 1
      /\ SizeModulus \in Nat /\ HeaderSize <= PageSize /\ R + 2 * PageSize <= SizeModulus
  BY SizesAssumption DEF Handy
<1>2. PICK k \in Nat : R = PageSize * k
  BY <1>1, NoRest, PagesAssumption DEF Pages
<1>3. \A n \in Nat : PageSize * n >= PageSize * k /\ PageSize * n < PageSize * k + PageSize => n = k
  <2> TAKE n \in Nat
  <2>1. CASE n < k
    <3>1. PageSize * n + PageSize <= PageSize * k
      <4>1. k >= n + 1 /\ PageSize * (n + 1) = PageSize * n + PageSize
        BY <1>1, <2>1
      <4>2. PICK d \in Nat : k = n + 1 + d
        BY <4>1, <1>2
      <4>3. PageSize * k = PageSize * (n + 1) + PageSize * d /\ PageSize * d >= 0
        BY <1>1, <4>2
      <4> QED BY <1>1, <4>1, <4>3
    <3> QED BY <1>1, <3>1
  <2>2. CASE n > k
    <3>1. PICK d \in Nat : n = k + 1 + d
      BY <2>2, <1>2
    <3>2. PageSize * n = PageSize * k + PageSize + PageSize * d /\ PageSize * d >= 0
      BY <1>1, <3>1
    <3> QED BY <1>1, <3>2
  <2> QED BY <2>1, <2>2
<1>4. ASSUME NEW q \in 0..R PROVE region_actual_size(q) = R
  <2>1. q \in Nat /\ q <= SizeModulus - PageSize
    BY <1>1
  <2>2. /\ region_actual_size(q) >= R
        /\ region_actual_size(q) < q + PageSize \/ region_actual_size(q) = R
    BY <2>1, RegionOf
  <2>3. PICK n \in Nat : region_actual_size(q) = PageSize * n
    BY <2>1, RegionPages DEF Pages
  <2>4. CASE region_actual_size(q) < q + PageSize
    <3>1. PageSize * n >= PageSize * k /\ PageSize * n < PageSize * k + PageSize
      BY <1>1, <1>2, <2>2, <2>3, <2>4
    <3> QED BY <1>2, <1>3, <2>3, <3>1
  <2> QED BY <2>2, <2>4
<1>5. region_actual_size(R + HeaderSize) = R + PageSize
  <2> DEFINE q == R + HeaderSize
  <2>1. q \in Nat /\ q <= SizeModulus - PageSize /\ q > R
    BY <1>1
  <2>2. /\ region_actual_size(q) >= q
        /\ region_actual_size(q) < q + PageSize \/ region_actual_size(q) = R
    BY <2>1, RegionOf
  <2>3. PICK n \in Nat : region_actual_size(q) = PageSize * n
    BY <2>1, RegionPages DEF Pages
  <2>4. n # 0
    BY <1>1, <2>1, <2>2, <2>3
  <2>5. n - 1 \in Nat /\ PageSize * (n - 1) = PageSize * n - PageSize
    BY <1>1, <2>4
  <2>6. PageSize * n > R /\ PageSize * n < R + PageSize + PageSize
    BY <1>1, <2>1, <2>2, <2>3
  <2>7. n # k
    BY <1>2, <2>6
  <2>8. PageSize * n >= PageSize * k + PageSize
    <3> DEFINE x == PageSize * n   y == PageSize * k
    <3>1. x \in Nat /\ y \in Nat /\ x > y
      BY <1>1, <1>2, <2>6
    <3>2. ~(x >= y /\ x < y + PageSize)
      BY <1>3, <2>7
    <3> HIDE DEF x, y
    <3>3. x >= y + PageSize
      BY <1>1, <3>1, <3>2
    <3> QED BY <3>3 DEF x, y
  <2>9. n - 1 = k
    <3> DEFINE x == PageSize * n   y == PageSize * k
    <3>1. x \in Nat /\ y \in Nat /\ x >= y + PageSize /\ x < y + PageSize + PageSize
      BY <1>1, <1>2, <2>6, <2>8
    <3> HIDE DEF x, y
    <3>2. x - PageSize >= y /\ x - PageSize < y + PageSize
      BY <3>1, <1>1
    <3> USE DEF x, y
    <3>3. PageSize * (n - 1) >= PageSize * k /\ PageSize * (n - 1) < PageSize * k + PageSize
      BY <2>5, <3>2
    <3> QED BY <1>3, <2>5, <3>3
  <2>10. PageSize * n = PageSize * k + PageSize
    BY <1>1, <2>5, <2>9
  <2> QED BY <1>2, <2>3, <2>10
<1> QED BY <1>4, <1>5

-----------------------------------------------------------------------------
(* The lists of the unit tests.                                            *)

Blocks == [at : Nat, size : Nat, is_free : BOOLEAN]

\* The blocks of a list lie behind one another.
Orderly(l) ==
  /\ l \in Layouts
  /\ \A i, j \in 1..Len(l) : i < j => l[i].at + l[i].size <= l[j].at

LEMMA BlockIs ==
  ASSUME NEW x \in Blocks
  PROVE  /\ x.at \in Nat /\ x.size \in Nat /\ x.is_free \in BOOLEAN
         /\ x = [at |-> x.at, size |-> x.size, is_free |-> x.is_free]
BY DEF Blocks

\* Blocks behind one another, the first of them at HEAP_START, are a layout.
LEMMA BehindOneAnother ==
  ASSUME NEW n \in Nat \ {0}, NEW l, l \in [1..n -> Blocks], l[1].at = HEAP_START,
         \A i \in 1..n : l[i].size >= HeaderSize,
         \A i, j \in 1..n : i < j => l[i].at + l[i].size <= l[j].at
  PROVE  Orderly(l) /\ Len(l) = n /\ DOMAIN l = 1..n
<1>1. \A i \in 1..n : /\ l[i].at \in Nat /\ l[i].size \in Nat /\ l[i].is_free \in BOOLEAN
                      /\ l[i] = [at |-> l[i].at, size |-> l[i].size, is_free |-> l[i].is_free]
  BY BlockIs
<1>2. \A i, j \in 1..n : i < j => l[i].at < l[j].at
  <2> TAKE i, j \in 1..n
  <2> HAVE i < j
  <2>1. l[i].at + l[i].size <= l[j].at /\ l[i].size >= 1
    BY SizesAssumption, <1>1
  <2> QED BY <1>1, <2>1
<1>3. \A i, j \in 1..n : i # j => l[i].at # l[j].at
  <2> TAKE i, j \in 1..n
  <2>1. i < j \/ j < i \/ i = j
    OBVIOUS
  <2>2. l[i].at \in Nat /\ l[j].at \in Nat
    BY <1>1
  <2> QED BY <1>2, <2>1, <2>2
<1>4. \A i \in 1..n : l[i].at \in Nat \ {NULL}
  <2> TAKE i \in 1..n
  <2>1. i = 1 \/ (1 < i /\ 1 \in 1..n)
    OBVIOUS
  <2>2. l[i].at \in Nat /\ l[i].at >= HEAP_START
    BY <1>1, <1>2, <2>1
  <2>3. HEAP_START \in Nat /\ HEAP_START > 0
    BY AddressesAssumption DEF NULL
  <2> QED BY <2>2, <2>3 DEF NULL
<1> DEFINE T == [at : Nat \ {NULL}, size : Nat, is_free : BOOLEAN]
<1>5. \A i \in 1..n : l[i] \in T
  <2> TAKE i \in 1..n
  <2>1. /\ l[i].at \in Nat \ {NULL} /\ l[i].size \in Nat /\ l[i].is_free \in BOOLEAN
        /\ l[i] = [at |-> l[i].at, size |-> l[i].size, is_free |-> l[i].is_free]
    BY <1>1, <1>4
  <2> QED BY <2>1
<1>6. l \in Seq(T) /\ Len(l) = n /\ DOMAIN l = 1..n
  <2> HIDE DEF T
  <2>1. l \in [1..n -> T] /\ n \in Nat
    BY <1>5
  <2> QED BY <2>1
<1>7. l \in Layouts
  BY <1>3, <1>6 DEF Layouts
<1> QED BY <1>6, <1>7 DEF Orderly

\* A list by its blocks.
LEMMA OrderlyIs ==
  ASSUME NEW l, Orderly(l)
  PROVE  /\ l \in Layouts /\ Len(l) \in Nat \ {0} /\ DOMAIN l = 1..Len(l) /\ l[1].at = HEAP_START
         /\ l \in [1..Len(l) -> Blocks]
         /\ \A i \in 1..Len(l) : /\ l[i] \in Blocks /\ l[i].at \in Nat /\ l[i].size \in Nat
                                 /\ l[i].size >= HeaderSize
         /\ \A i, j \in 1..Len(l) : i < j => l[i].at + l[i].size <= l[j].at
<1> DEFINE S == [at : Nat \ {NULL}, size : Nat, is_free : BOOLEAN]
<1>1. l \in Layouts /\ l \in Seq(S)
  BY DEF Orderly, Layouts
<1>2. \A x \in S : x \in Blocks
  BY DEF Blocks
<1>3. l \in [1..Len(l) -> Blocks] /\ \A i \in 1..Len(l) : l[i] \in Blocks
  <2> HIDE DEF S
  <2> QED BY <1>1, <1>2
<1> QED BY <1>1, <1>3, LayoutShape DEF Orderly

\* The block g of a list split for q bytes, and taken.
CutAt(l, g, q) ==
  [j \in 1..(Len(l) + 1) |->
     IF j < g THEN l[j]
     ELSE IF j = g THEN [at |-> l[g].at, size |-> HeaderSize + q, is_free |-> FALSE]
     ELSE IF j = g + 1
     THEN [at |-> l[g].at + (HeaderSize + q), size |-> l[g].size - (HeaderSize + q),
           is_free |-> TRUE]
     ELSE l[j - 1]]

LEMMA CutAtOrderly ==
  ASSUME NEW l, Orderly(l), NEW g \in 1..Len(l), NEW q \in Nat, q + 2 * HeaderSize <= l[g].size
  PROVE  /\ Orderly(CutAt(l, g, q)) /\ Len(CutAt(l, g, q)) = Len(l) + 1
         /\ DOMAIN CutAt(l, g, q) = 1..(Len(l) + 1)
<1> DEFINE m == CutAt(l, g, q)   n == Len(l)   x == l[g].at   s == l[g].size   b == HeaderSize + q
<1>1. /\ n \in Nat \ {0} /\ l[1].at = HEAP_START
      /\ \A i \in 1..n : /\ l[i] \in Blocks /\ l[i].at \in Nat /\ l[i].size \in Nat
                         /\ l[i].size >= HeaderSize
      /\ \A i, j \in 1..n : i < j => l[i].at + l[i].size <= l[j].at
  BY OrderlyIs
<1>2. /\ g \in 1..n /\ x \in Nat /\ s \in Nat /\ b \in Nat /\ HeaderSize \in Nat
      /\ b + HeaderSize <= s /\ b >= HeaderSize
  <2>1. g \in 1..n /\ x \in Nat /\ s \in Nat /\ HeaderSize \in Nat
    BY <1>1, SizesAssumption
  <2> HIDE DEF x
  <2> QED BY <2>1
<1>3. /\ m = [j \in 1..(n + 1) |-> m[j]]
      /\ \A j \in 1..(n + 1) : /\ j < g => m[j] = l[j]
                               /\ j > g + 1 => m[j] = l[j - 1]
      /\ m[g] = [at |-> x, size |-> b, is_free |-> FALSE]
      /\ m[g + 1] = [at |-> x + b, size |-> s - b, is_free |-> TRUE]
  BY <1>1 DEF CutAt
<1> HIDE DEF m, n, x, s, b
<1>4. /\ m[g].at = x /\ m[g].size = b /\ m[g + 1].at = x + b /\ m[g + 1].size = s - b
      /\ s - b \in Nat /\ s - b >= HeaderSize /\ m[g] \in Blocks /\ m[g + 1] \in Blocks
  <2>1. x + b \in Nat /\ s - b \in Nat /\ s - b >= HeaderSize
    BY <1>2
  <2>2. m[g].at = x /\ m[g].size = b /\ m[g + 1].at = x + b /\ m[g + 1].size = s - b
    BY <1>3
  <2>3. /\ [at |-> x, size |-> b, is_free |-> FALSE] \in Blocks
        /\ [at |-> x + b, size |-> s - b, is_free |-> TRUE] \in Blocks
    BY <1>2, <2>1 DEF Blocks
  <2>4. m[g] \in Blocks /\ m[g + 1] \in Blocks
    BY <1>3, <2>3
  <2> QED BY <2>1, <2>2, <2>3, <2>4
<1>5. \A j \in 1..(n + 1) : \/ j < g /\ j \in 1..n
                            \/ j = g
                            \/ j = g + 1
                            \/ j > g + 1 /\ j - 1 \in 1..n /\ g < j - 1
  <2>1. n \in Nat /\ g \in 1..n
    BY <1>1, <1>2
  <2> QED BY <2>1
<1>6. \A j \in 1..(n + 1) : m[j] \in Blocks /\ m[j].size >= HeaderSize
  BY <1>1, <1>2, <1>3, <1>4, <1>5
\* Before the block, from it on, behind it.
<1>7. \A j \in 1..(n + 1) : /\ j < g => m[j].at + m[j].size <= x
                            /\ j = g \/ j = g + 1 => x <= m[j].at /\ m[j].at + m[j].size <= x + s
                            /\ j > g + 1 => x + s <= m[j].at
  <2> TAKE j \in 1..(n + 1)
  <2>1. CASE j < g
    <3>1. m[j] = l[j] /\ j \in 1..n
      BY <1>3, <1>5, <2>1
    <3>2. l[j].at + l[j].size <= l[g].at
      BY <1>1, <1>2, <2>1, <3>1
    <3>3. g \in Nat /\ j \in Nat
      BY <1>2
    <3> QED BY <2>1, <3>1, <3>2, <3>3 DEF x
  <2>2. CASE j = g
    <3>1. m[j].at = x /\ m[j].size = b
      BY <1>4, <2>2
    <3>2. g \in Nat /\ j \in Nat
      BY <1>2
    <3> QED BY <1>2, <2>2, <3>1, <3>2
  <2>3. CASE j = g + 1
    BY <1>2, <1>4, <2>3
  <2>4. CASE j > g + 1
    <3>1. g \in Nat /\ j \in Nat
      BY <1>2
    <3>2. m[j] = l[j - 1]
      BY <1>3, <2>4
    <3>3. j - 1 \in 1..n /\ g < j - 1
      BY <1>5, <2>4, <3>1
    <3>4. l[g].at + l[g].size <= l[j - 1].at
      BY <1>1, <1>2, <3>3
    <3> QED BY <2>4, <3>1, <3>2, <3>4 DEF x, s
  <2> QED BY <1>2, <1>5, <2>1, <2>2, <2>3, <2>4
<1>8. ASSUME NEW i \in 1..(n + 1), NEW j \in 1..(n + 1), i < j
      PROVE  m[i].at + m[i].size <= m[j].at
  <2>1. /\ m[i].at \in Nat /\ m[i].size \in Nat /\ m[j].at \in Nat /\ i \in Nat /\ j \in Nat
        /\ g \in Nat /\ n \in Nat
    <3>1. m[i] \in Blocks /\ m[j] \in Blocks
      BY <1>6
    <3>2. n \in Nat /\ g \in 1..n
      BY <1>1, <1>2
    <3> QED BY <3>1, <3>2, BlockIs
  <2>2. CASE j < g
    <3>1. i < g /\ i \in 1..n /\ j \in 1..n
      BY <1>8, <2>1, <2>2, <1>2
    <3> QED BY <1>1, <1>3, <1>8, <2>2, <3>1
  <2>3. CASE i > g + 1
    <3>1. j > g + 1 /\ i - 1 \in 1..n /\ j - 1 \in 1..n /\ i - 1 < j - 1
      BY <1>8, <2>1, <2>3, <1>2
    <3> QED BY <1>1, <1>3, <2>3, <3>1
  <2>4. CASE i = g /\ j = g + 1
    BY <1>2, <1>4, <2>4
  <2>5. CASE i < g /\ j >= g
    <3>1. m[i].at + m[i].size <= x
      BY <1>7, <2>5
    <3>2. x <= m[j].at
      <4>1. x + s <= m[j].at => x <= m[j].at
        BY <1>2, <2>1
      <4>2. j = g \/ j = g + 1 \/ j > g + 1
        BY <2>1, <2>5
      <4>3. (j = g => m[j].at = x) /\ (j = g + 1 => m[j].at = x + b) /\ x <= x + b
        BY <1>2, <1>4
      <4>4. j > g + 1 => x + s <= m[j].at
        BY <1>7
      <4>5. x <= x
        BY <1>2
      <4> QED BY <4>1, <4>2, <4>3, <4>4, <4>5
    <3> QED BY <1>2, <2>1, <3>1, <3>2
  <2>6. CASE (i = g \/ i = g + 1) /\ j > g + 1
    <3>1. m[i].at + m[i].size <= x + s /\ x + s <= m[j].at
      BY <1>7, <2>6
    <3>2. x + s \in Nat
      BY <1>2
    <3> QED
      <4> DEFINE a == m[i].at   w == m[i].size   e == x + s   o == m[j].at
      <4>1. a + w <= e /\ e <= o
        BY <3>1
      <4>2. a \in Nat /\ w \in Nat /\ e \in Nat /\ o \in Nat
        BY <2>1, <3>2
      <4> HIDE DEF a, w, e, o
      <4>3. a + w <= o
        BY <4>1, <4>2
      <4> QED BY <4>3 DEF a, w, o
  <2>7. \/ j < g \/ i > g + 1 \/ (i = g /\ j = g + 1) \/ (i < g /\ j >= g)
        \/ ((i = g \/ i = g + 1) /\ j > g + 1)
    BY <1>8, <2>1
  <2> QED BY <2>2, <2>3, <2>4, <2>5, <2>6, <2>7
<1>9. m[1].at = HEAP_START
  <2>1. (1 < g /\ 1 \in 1..(n + 1)) \/ 1 = g
    BY <1>1, <1>2
  <2> QED BY <1>1, <1>3, <1>4, <2>1 DEF x
<1>10. m \in [1..(n + 1) -> Blocks] /\ n + 1 \in Nat \ {0}
  BY <1>1, <1>3, <1>6
<1>11. Orderly(m) /\ Len(m) = n + 1
  BY <1>6, <1>8, <1>9, <1>10, BehindOneAnother
<1>12. DOMAIN m = 1..(n + 1)
  BY <1>3
<1> QED BY <1>11, <1>12 DEF m, n

LEMMA BeyondBoth ==
  ASSUME NEW a \in Nat, NEW b \in Nat, NEW c \in Nat, NEW d \in Nat, NEW e \in Nat,
         a + b <= c, c + d <= e
  PROVE  a + b <= e
OBVIOUS

\* A list with a block behind its last one.
LEMMA LongerOrderly ==
  ASSUME NEW l, Orderly(l), NEW x \in Blocks, x.size >= HeaderSize,
         l[Len(l)].at + l[Len(l)].size <= x.at
  PROVE  /\ Orderly(Append(l, x)) /\ Len(Append(l, x)) = Len(l) + 1
         /\ \A i \in 1..Len(l) : Append(l, x)[i] = l[i]
         /\ Append(l, x)[Len(l) + 1] = x
<1> DEFINE m == Append(l, x)   n == Len(l)
<1>1. /\ n \in Nat \ {0} /\ l[1].at = HEAP_START /\ l \in Seq(Blocks)
      /\ \A i \in 1..n : /\ l[i] \in Blocks /\ l[i].at \in Nat /\ l[i].size \in Nat
                         /\ l[i].size >= HeaderSize
      /\ \A i, j \in 1..n : i < j => l[i].at + l[i].size <= l[j].at
  BY OrderlyIs
<1>2. /\ m \in [1..(n + 1) -> Blocks] /\ \A i \in 1..n : m[i] = l[i]
      /\ m[n + 1] = x
  <2>1. m \in Seq(Blocks) /\ Len(m) = n + 1
    BY <1>1
  <2>2. \A i \in 1..n : m[i] = l[i]
    BY <1>1
  <2>3. m[n + 1] = x
    BY <1>1
  <2> HIDE DEF m, n
  <2>4. m \in [1..(n + 1) -> Blocks]
    BY <2>1
  <2> QED BY <2>2, <2>3, <2>4
<1>3. x.at \in Nat /\ l[n].at + l[n].size <= x.at /\ n \in 1..n
  BY <1>1, BlockIs
<1> HIDE DEF m, n
<1>4. \A i \in 1..(n + 1) : i \in 1..n \/ i = n + 1
  BY <1>1
<1>5. \A i \in 1..(n + 1) : m[i].size >= HeaderSize
  BY <1>1, <1>2, <1>4
<1>6. ASSUME NEW i \in 1..(n + 1), NEW j \in 1..(n + 1), i < j
      PROVE  m[i].at + m[i].size <= m[j].at
  <2>1. i \in 1..n
    BY <1>1, <1>6
  <2>2. CASE j \in 1..n
    BY <1>1, <1>2, <1>6, <2>1, <2>2
  <2>3. CASE j = n + 1
    <3>1. n \in 1..n /\ (i = n \/ i < n)
      BY <1>1, <2>1
    <3>2. l[i].at \in Nat /\ l[i].size \in Nat /\ l[n].at \in Nat /\ l[n].size \in Nat
      BY <1>1, <2>1, <3>1
    <3>3. CASE i = n
      BY <1>2, <1>3, <2>1, <2>3, <3>3
    <3>4. CASE i < n
      <4>1. l[i].at + l[i].size <= l[n].at
        BY <1>1, <2>1, <3>1, <3>4
      <4>2. l[i].at + l[i].size <= x.at
        <5>1. l[n].at + l[n].size <= x.at /\ x.at \in Nat
          BY <1>3
        <5> QED BY <3>2, <4>1, <5>1, BeyondBoth
      <4> QED BY <1>2, <2>1, <2>3, <4>2
    <3> QED BY <3>1, <3>3, <3>4
  <2> QED BY <1>4, <2>2, <2>3
<1>7. m[1].at = HEAP_START /\ n + 1 \in Nat \ {0}
  BY <1>1, <1>2
<1> QED BY <1>2, <1>5, <1>6, <1>7, BehindOneAnother DEF m, n

\* What the search makes of seven blocks of which the first and the last are dirty.
SevenMerged == <<Dirty(0, 128), Free(128, 640), Dirty(768, 128)>>

LEMMA FreeOrDirty ==
  ASSUME NEW a \in Nat, NEW s \in Nat
  PROVE  Free(a, s) \in Blocks /\ Dirty(a, s) \in Blocks
BY AddressesAssumption DEF Blocks, Free, Dirty

\* Lists of one and of two blocks.
LEMMA OneBlock ==
  ASSUME NEW x \in Blocks, x.at = HEAP_START, x.size >= HeaderSize
  PROVE  Orderly(<<x>>) /\ Len(<<x>>) = 1
<1> DEFINE l == <<x>>
<1>1. l \in [1..1 -> Blocks] /\ l[1] = x
  OBVIOUS
<1>2. \A i, j \in 1..1 : l[i].size >= HeaderSize /\ ~(i < j)
  BY <1>1
<1> HIDE DEF l
<1>3. Orderly(l) /\ Len(l) = 1
  <2>1. 1 \in Nat \ {0} /\ l[1].at = HEAP_START /\ \A i \in 1..1 : l[i].size >= HeaderSize
    BY <1>1
  <2> QED BY <1>1, <1>2, <2>1, BehindOneAnother
<1> QED BY <1>3 DEF l

LEMMA TwoBlocks ==
  ASSUME NEW x \in Blocks, x.at = HEAP_START, x.size >= HeaderSize,
         NEW y \in Blocks, x.at + x.size <= y.at, y.size >= HeaderSize
  PROVE  Orderly(<<x, y>>) /\ Len(<<x, y>>) = 2
<1> DEFINE l == <<x, y>>
<1>1. l = [i \in 1..2 |-> l[i]] /\ l[1] = x /\ l[2] = y /\ 2 \in Nat \ {0}
  OBVIOUS
<1> HIDE DEF l
<1>2. \A i \in 1..2 : i = 1 \/ i = 2
  OBVIOUS
<1>3. \A i \in 1..2 : l[i] \in Blocks /\ l[i].size >= HeaderSize
  BY <1>1, <1>2
<1>4. \A i, j \in 1..2 : i < j => l[i].at + l[i].size <= l[j].at
  BY <1>1, <1>2
<1>5. l \in [1..2 -> Blocks]
  BY <1>1, <1>3
<1>6. Orderly(l) /\ Len(l) = 2
  BY <1>1, <1>3, <1>4, <1>5, BehindOneAnother
<1> QED BY <1>6 DEF l

\* The lists that the searches leave.
LEMMA TwoDirtyMergedIs ==
  ASSUME Handy
  PROVE  /\ Orderly(TwoDirtyMerged) /\ Len(TwoDirtyMerged) = 5
         /\ TwoDirtyMerged[1] = Free(0, 128)
         /\ TwoDirtyMerged[2] = Dirty(128, 128)
         /\ TwoDirtyMerged[3] = Free(256, 512)
         /\ TwoDirtyMerged[4] = Dirty(768, 128)
         /\ TwoDirtyMerged[5] = Free(896, 128)
<1> DEFINE l == TwoDirtyMerged
<1>1. HEAP_START \in Nat /\ HeaderSize \in Nat /\ HeaderSize <= 128 /\ HEAP_START + 0 = HEAP_START
  BY HandySizes
<1>2. /\ l = [i \in 1..5 |-> l[i]]
      /\ l[1] = Free(0, 128)
      /\ l[2] = Dirty(128, 128)
      /\ l[3] = Free(256, 512)
      /\ l[4] = Dirty(768, 128)
      /\ l[5] = Free(896, 128)
  BY DEF TwoDirtyMerged
<1> HIDE DEF l
<1>3. \A i \in 1..5 : i = 1 \/ i = 2 \/ i = 3 \/ i = 4 \/ i = 5
  OBVIOUS
<1>4. \A i \in 1..5 : l[i] \in Blocks
  BY <1>2, <1>3, FreeOrDirty
<1>5. \A i \in 1..5 : l[i].size >= HeaderSize
  BY <1>1, <1>2, <1>3 DEF Free, Dirty
<1>6. \A i, j \in 1..5 : i < j => l[i].at + l[i].size <= l[j].at
  BY <1>1, <1>2, <1>3 DEF Free, Dirty
<1>7. l \in [1..5 -> Blocks] /\ l[1].at = HEAP_START
  BY <1>1, <1>2, <1>4 DEF Free, Dirty
<1>8. Orderly(l) /\ Len(l) = 5
  <2>1. 5 \in Nat \ {0}
    OBVIOUS
  <2> QED BY <1>5, <1>6, <1>7, <2>1, BehindOneAnother
<1> QED BY <1>2, <1>8 DEF l

LEMMA LastDirtyMergedIs ==
  ASSUME Handy
  PROVE  /\ Orderly(LastDirtyMerged) /\ Len(LastDirtyMerged) = 4
         /\ LastDirtyMerged[1] = Free(0, 128)
         /\ LastDirtyMerged[2] = Dirty(128, 128)
         /\ LastDirtyMerged[3] = Free(256, 640)
         /\ LastDirtyMerged[4] = Dirty(896, 128)
<1> DEFINE l == LastDirtyMerged
<1>1. HEAP_START \in Nat /\ HeaderSize \in Nat /\ HeaderSize <= 128 /\ HEAP_START + 0 = HEAP_START
  BY HandySizes
<1>2. /\ l = [i \in 1..4 |-> l[i]]
      /\ l[1] = Free(0, 128)
      /\ l[2] = Dirty(128, 128)
      /\ l[3] = Free(256, 640)
      /\ l[4] = Dirty(896, 128)
  BY DEF LastDirtyMerged
<1> HIDE DEF l
<1>3. \A i \in 1..4 : i = 1 \/ i = 2 \/ i = 3 \/ i = 4
  OBVIOUS
<1>4. \A i \in 1..4 : l[i] \in Blocks
  BY <1>2, <1>3, FreeOrDirty
<1>5. \A i \in 1..4 : l[i].size >= HeaderSize
  BY <1>1, <1>2, <1>3 DEF Free, Dirty
<1>6. \A i, j \in 1..4 : i < j => l[i].at + l[i].size <= l[j].at
  BY <1>1, <1>2, <1>3 DEF Free, Dirty
<1>7. l \in [1..4 -> Blocks] /\ l[1].at = HEAP_START
  BY <1>1, <1>2, <1>4 DEF Free, Dirty
<1>8. Orderly(l) /\ Len(l) = 4
  <2>1. 4 \in Nat \ {0}
    OBVIOUS
  <2> QED BY <1>5, <1>6, <1>7, <2>1, BehindOneAnother
<1> QED BY <1>2, <1>8 DEF l

LEMMA SevenMergedIs ==
  ASSUME Handy
  PROVE  /\ Orderly(SevenMerged) /\ Len(SevenMerged) = 3
         /\ SevenMerged[1] = Dirty(0, 128)
         /\ SevenMerged[2] = Free(128, 640)
         /\ SevenMerged[3] = Dirty(768, 128)
<1> DEFINE l == SevenMerged
<1>1. HEAP_START \in Nat /\ HeaderSize \in Nat /\ HeaderSize <= 128 /\ HEAP_START + 0 = HEAP_START
  BY HandySizes
<1>2. /\ l = [i \in 1..3 |-> l[i]]
      /\ l[1] = Dirty(0, 128)
      /\ l[2] = Free(128, 640)
      /\ l[3] = Dirty(768, 128)
  BY DEF SevenMerged
<1> HIDE DEF l
<1>3. \A i \in 1..3 : i = 1 \/ i = 2 \/ i = 3
  OBVIOUS
<1>4. \A i \in 1..3 : l[i] \in Blocks
  BY <1>2, <1>3, FreeOrDirty
<1>5. \A i \in 1..3 : l[i].size >= HeaderSize
  BY <1>1, <1>2, <1>3 DEF Free, Dirty
<1>6. \A i, j \in 1..3 : i < j => l[i].at + l[i].size <= l[j].at
  BY <1>1, <1>2, <1>3 DEF Free, Dirty
<1>7. l \in [1..3 -> Blocks] /\ l[1].at = HEAP_START
  BY <1>1, <1>2, <1>4 DEF Free, Dirty
<1>8. Orderly(l) /\ Len(l) = 3
  <2>1. 3 \in Nat \ {0}
    OBVIOUS
  <2> QED BY <1>5, <1>6, <1>7, <2>1, BehindOneAnother
<1> QED BY <1>2, <1>8 DEF l


\* A row of blocks of 128 bytes.
LEMMA RowIs ==
  ASSUME Handy, NEW n \in Nat \ {0}, NEW d
  PROVE  /\ Orderly(Row(n, 128, d)) /\ Len(Row(n, 128, d)) = n
         /\ \A i \in 1..n : /\ Row(n, 128, d)[i].at = HEAP_START + 128 * (i - 1)
                            /\ Row(n, 128, d)[i].size = 128
                            /\ Row(n, 128, d)[i].is_free <=> i \notin d
<1> DEFINE l == Row(n, 128, d)
<1>1. HEAP_START \in Nat /\ HeaderSize \in Nat /\ HeaderSize <= 128
  BY HandySizes
<1>2. \A i \in 1..n : i - 1 + Cardinality({g \in {} : g < i}) = i - 1
  <2> TAKE i \in 1..n
  <2>1. {g \in {} : g < i} = {}
    OBVIOUS
  <2> QED BY <2>1, FS_EmptySet
<1>3. l = [i \in 1..n |-> IF i \in d THEN Dirty(128 * (i - 1), 128) ELSE Free(128 * (i - 1), 128)]
  BY <1>2 DEF Row, Spread
<1> HIDE DEF l
<1>4. \A i \in 1..n : /\ l[i] \in Blocks
                      /\ l[i].at = HEAP_START + 128 * (i - 1) /\ l[i].size = 128
                      /\ l[i].is_free <=> i \notin d
  <2> TAKE i \in 1..n
  <2>1. 128 * (i - 1) \in Nat
    OBVIOUS
  <2> QED BY <1>3, <2>1, FreeOrDirty DEF Free, Dirty
<1>5. \A i, j \in 1..n : i < j => l[i].at + l[i].size <= l[j].at
  BY <1>1, <1>4
<1>6. l \in [1..n -> Blocks] /\ l[1].at = HEAP_START
  BY <1>1, <1>3, <1>4
<1>7. \A i \in 1..n : l[i].size >= HeaderSize
  BY <1>1, <1>4
<1> QED BY <1>4, <1>5, <1>6, <1>7, BehindOneAnother DEF l

\* What the tests take of them.
LEMMA LastDirtyCut ==
  ASSUME Handy
  PROVE  CutAt(LastDirtyMerged, 3, 512) = LastDirtySplit
<1> DEFINE l == LastDirtyMerged   m == CutAt(l, 3, 512)   s == LastDirtySplit
<1>1. HEAP_START \in Nat /\ HeaderSize \in Nat
  BY HandySizes
<1>2. /\ Len(l) = 4 /\ l[1] = Free(0, 128) /\ l[2] = Dirty(128, 128) /\ l[3] = Free(256, 640)
      /\ l[4] = Dirty(896, 128)
  BY LastDirtyMergedIs
<1>3. /\ s = [i \in 1..5 |-> s[i]] /\ s[1] = Free(0, 128) /\ s[2] = Dirty(128, 128)
      /\ s[3] = Dirty(256, 512 + HeaderSize) /\ s[4] = Free(768 + HeaderSize, 128 - HeaderSize)
      /\ s[5] = Dirty(896, 128)
  BY DEF LastDirtySplit
<1> HIDE DEF l, s
<1>4. /\ m = [i \in 1..5 |-> m[i]] /\ m[1] = l[1] /\ m[2] = l[2] /\ m[5] = l[4]
      /\ m[3] = [at |-> l[3].at, size |-> HeaderSize + 512, is_free |-> FALSE]
      /\ m[4] = [at |-> l[3].at + (HeaderSize + 512), size |-> l[3].size - (HeaderSize + 512),
                 is_free |-> TRUE]
  BY <1>2 DEF CutAt
<1> HIDE DEF m
<1>5. m[3] = s[3] /\ m[4] = s[4]
  <2>1. /\ HEAP_START + 256 + (HeaderSize + 512) = HEAP_START + (768 + HeaderSize)
        /\ 640 - (HeaderSize + 512) = 128 - HeaderSize /\ HeaderSize + 512 = 512 + HeaderSize
    BY <1>1
  <2>2. l[3].at = HEAP_START + 256 /\ l[3].size = 640
    BY <1>2 DEF Free
  <2>3. /\ s[3] = [at |-> HEAP_START + 256, size |-> 512 + HeaderSize, is_free |-> FALSE]
        /\ s[4] = [at |-> HEAP_START + (768 + HeaderSize), size |-> 128 - HeaderSize,
                   is_free |-> TRUE]
    BY <1>3 DEF Free, Dirty
  <2> QED BY <1>4, <2>1, <2>2, <2>3
<1>6. \A i \in 1..5 : m[i] = s[i]
  BY <1>2, <1>3, <1>4, <1>5
<1>7. m = s
  BY <1>3, <1>4, <1>6
<1> QED BY <1>7 DEF l, m, s

LEMMA SevenCut ==
  ASSUME Handy
  PROVE  LET taken == HeaderSize + BlockMinCapacity
         IN  CutAt(SevenMerged, 2, BlockMinCapacity) =
               <<Dirty(0, 128), Dirty(128, taken), Free(128 + taken, 640 - taken),
                 Dirty(768, 128)>>
<1> DEFINE taken == HeaderSize + BlockMinCapacity
           l == SevenMerged   m == CutAt(l, 2, BlockMinCapacity)
           s == <<Dirty(0, 128), Dirty(128, taken), Free(128 + taken, 640 - taken),
                  Dirty(768, 128)>>
<1>1. HEAP_START \in Nat /\ taken \in Nat
  BY HandySizes
<1>2. Len(l) = 3 /\ l[1] = Dirty(0, 128) /\ l[2] = Free(128, 640) /\ l[3] = Dirty(768, 128)
  BY SevenMergedIs
<1>3. /\ s = [i \in 1..4 |-> s[i]] /\ s[1] = Dirty(0, 128) /\ s[2] = Dirty(128, taken)
      /\ s[3] = Free(128 + taken, 640 - taken) /\ s[4] = Dirty(768, 128)
  OBVIOUS
<1> HIDE DEF l, s
<1>4. /\ m = [i \in 1..4 |-> m[i]] /\ m[1] = l[1] /\ m[4] = l[3]
      /\ m[2] = [at |-> l[2].at, size |-> taken, is_free |-> FALSE]
      /\ m[3] = [at |-> l[2].at + taken, size |-> l[2].size - taken, is_free |-> TRUE]
  BY <1>2 DEF CutAt
<1> HIDE DEF m, taken
<1>5. m[2] = s[2] /\ m[3] = s[3]
  <2>1. HEAP_START + 128 + taken = HEAP_START + (128 + taken)
    BY <1>1
  <2>2. l[2].at = HEAP_START + 128 /\ l[2].size = 640
    BY <1>2 DEF Free
  <2>3. /\ s[2] = [at |-> HEAP_START + 128, size |-> taken, is_free |-> FALSE]
        /\ s[3] = [at |-> HEAP_START + (128 + taken), size |-> 640 - taken, is_free |-> TRUE]
    BY <1>3 DEF Free, Dirty
  <2> QED BY <1>4, <2>1, <2>2, <2>3
<1>6. \A i \in 1..4 : m[i] = s[i]
  BY <1>2, <1>3, <1>4, <1>5
<1>7. m = s
  BY <1>3, <1>4, <1>6
<1> QED BY <1>7 DEF l, m, s, taken

\* The list t is l with two elements behind it.
EndsWith(t, l, y, z) ==
  /\ t = [i \in 1..(Len(l) + 2) |-> t[i]]
  /\ \A i \in 1..Len(l) : t[i] = l[i]
  /\ t[Len(l) + 1] = y /\ t[Len(l) + 2] = z

LEMMA TwoMore ==
  ASSUME NEW S, NEW l \in Seq(S), NEW y \in S, NEW z \in S
  PROVE  EndsWith(l \o <<y, z>>, l, y, z)
<1> DEFINE e == <<y, z>>   t == l \o e   n == Len(l)
<1>1. e \in Seq(S) /\ Len(e) = 2 /\ e[1] = y /\ e[2] = z
  OBVIOUS
<1>2. n \in Nat
  OBVIOUS
<1> HIDE DEF e
<1>3. /\ t \in Seq(S) /\ Len(t) = n + Len(e)
      /\ \A i \in 1..(n + Len(e)) : t[i] = IF i <= n THEN l[i] ELSE e[i - n]
  BY <1>1, ConcatProperties
<1> HIDE DEF t, n
<1>4. t \in Seq(S) /\ Len(t) = n + 2
  BY <1>1, <1>3
<1>5. ASSUME NEW i \in 1..(n + 2) PROVE t[i] = IF i <= n THEN l[i] ELSE e[i - n]
  BY <1>1, <1>3
<1>6. t = [i \in 1..(n + 2) |-> t[i]]
  BY <1>2, <1>4
<1>7. \A i \in 1..n : t[i] = l[i]
  BY <1>2, <1>5
<1>8. t[n + 1] = y
  <2> DEFINE i == n + 1
  <2>1. i \in 1..(n + 2) /\ ~(i <= n) /\ i - n = 1
    BY <1>2
  <2> HIDE DEF i
  <2>2. t[i] = e[i - n]
    BY <1>5, <2>1
  <2>3. t[i] = y
    BY <1>1, <2>1, <2>2
  <2> QED BY <2>3 DEF i
<1>9. t[n + 2] = z
  <2> DEFINE i == n + 2
  <2>1. i \in 1..(n + 2) /\ ~(i <= n) /\ i - n = 2
    BY <1>2
  <2> HIDE DEF i
  <2>2. t[i] = e[i - n]
    BY <1>5, <2>1
  <2>3. t[i] = z
    BY <1>1, <2>1, <2>2
  <2> QED BY <2>3 DEF i
<1> QED BY <1>6, <1>7, <1>8, <1>9 DEF t, e, n, EndsWith

\* The region that the stub of memalloc.c answers with.
Buffer == Free(40000, RegionMinSize)

\* The first q bytes of it are taken, in a list that it was linked to.
BufferTaken(l, q) ==
  CutAt(Append(l, Buffer), Len(l) + 1, q) = l \o BufferSplit(HeaderSize + q)

LEMMA BufferCut ==
  ASSUME Handy, NEW l, Orderly(l), NEW q \in Nat
  PROVE  BufferTaken(l, q)
<1> DEFINE x == Buffer   n == Len(l)   k == Append(l, x)
           m == CutAt(k, n + 1, q)   s == BufferSplit(HeaderSize + q)   t == l \o s
<1>1. /\ n \in Nat \ {0} /\ l \in Seq(Blocks) /\ HEAP_START \in Nat /\ HeaderSize \in Nat
      /\ RegionMinSize \in Nat
  <2>1. l \in [1..Len(l) -> Blocks] /\ Len(l) \in Nat \ {0}
    BY OrderlyIs
  <2>2. l \in Seq(Blocks)
    BY <2>1
  <2> QED BY <2>1, <2>2, HandySizes
<1>2. x \in Blocks /\ x.at = HEAP_START + 40000 /\ x.size = RegionMinSize
  <2>1. 40000 \in Nat
    OBVIOUS
  <2>2. x \in Blocks
    BY <1>1, <2>1, FreeOrDirty DEF Buffer
  <2> QED BY <2>2 DEF Free, Buffer
<1> DEFINE y == [at |-> x.at, size |-> HeaderSize + q, is_free |-> FALSE]
           z == [at |-> x.at + (HeaderSize + q), size |-> x.size - (HeaderSize + q),
                 is_free |-> TRUE]
<1> HIDE DEF x
<1>3. s = <<y, z>>
  <2>1. mmap_buffer - HEAP_START = 40000
    BY <1>1 DEF mmap_buffer
  <2>2. s = <<Dirty(40000, HeaderSize + q),
              Free(40000 + (HeaderSize + q), RegionMinSize - (HeaderSize + q))>>
    BY <2>1 DEF BufferSplit
  <2>3. HEAP_START + 40000 + (HeaderSize + q) = HEAP_START + (40000 + (HeaderSize + q))
    BY <1>1
  <2>4. y = Dirty(40000, HeaderSize + q)
    BY <1>2 DEF Dirty
  <2>5. z = Free(40000 + (HeaderSize + q), RegionMinSize - (HeaderSize + q))
    <3>1. x.at + (HeaderSize + q) = HEAP_START + (40000 + (HeaderSize + q))
      BY <1>2, <2>3
    <3>2. x.size - (HeaderSize + q) = RegionMinSize - (HeaderSize + q)
      BY <1>2
    <3>3. ASSUME NEW a, NEW b, a = HEAP_START + (40000 + (HeaderSize + q)),
                 b = RegionMinSize - (HeaderSize + q)
          PROVE  [at |-> a, size |-> b, is_free |-> TRUE]
                   = Free(40000 + (HeaderSize + q), RegionMinSize - (HeaderSize + q))
      BY <3>3 DEF Free
    <3> QED BY <3>1, <3>2, <3>3
  <2> QED BY <2>2, <2>4, <2>5
<1>4. Len(k) = n + 1 /\ k[n + 1] = x /\ \A i \in 1..n : k[i] = l[i]
  BY <1>1, <1>2
<1> HIDE DEF k
<1>5. /\ m = [i \in 1..(n + 2) |-> m[i]] /\ \A i \in 1..n : m[i] = l[i]
      /\ m[n + 1] = y /\ m[n + 2] = z
  <2>1. n + 1 + 1 = n + 2 /\ \A i \in 1..n : i \in 1..(n + 2) /\ i < n + 1
    BY <1>1
  <2>2. n + 1 \in 1..(n + 2) /\ n + 2 \in 1..(n + 2) /\ ~(n + 1 < n + 1) /\ n + 2 # n + 1
        /\ ~(n + 2 < n + 1) /\ n + 1 # n + 2
    BY <1>1
  <2> HIDE DEF n
  <2> QED BY <1>4, <2>1, <2>2 DEF CutAt
<1>6. /\ t = [i \in 1..(n + 2) |-> t[i]] /\ \A i \in 1..n : t[i] = l[i]
      /\ t[n + 1] = y /\ t[n + 2] = z
  <2> DEFINE S == Blocks \cup {y, z}
  <2>1. y \in S /\ z \in S
    OBVIOUS
  <2>2. l \in Seq(S)
    <3> HIDE DEF y, z
    <3> QED BY <1>1
  <2>3. t = l \o <<y, z>>
    BY <1>3
  <2> HIDE DEF S, y, z, t
  <2>4. EndsWith(l \o <<y, z>>, l, y, z)
    BY <2>1, <2>2, TwoMore
  <2>5. EndsWith(t, l, y, z)
    BY <2>3, <2>4
  <2> QED BY <2>5 DEF EndsWith
<1> HIDE DEF m, t, n, y, z
<1>7. \A i \in 1..(n + 2) : i \in 1..n \/ i = n + 1 \/ i = n + 2
  BY <1>1
<1>8. \A i \in 1..(n + 2) : m[i] = t[i]
  BY <1>5, <1>6, <1>7
<1>9. m = t
  BY <1>5, <1>6, <1>8
<1> QED BY <1>9 DEF m, t, n, k, s, x, BufferTaken

\* The last block of the list l in its stretch j, where the stretches start at s.
Joined(l, s, j) == IF j < Len(s) THEN s[j + 1] - 1 ELSE Len(l)

\* The list m has a block for each of the stretches of l, which start at s.
Joins(l, m, s) ==
  /\ s \in Seq(Nat) /\ Len(s) = Len(m)
  /\ Heads(l) = {s[j] : j \in 1..Len(s)}
  /\ \A i, j \in 1..Len(s) : i < j => s[i] < s[j]
  /\ \A j \in 1..Len(s) :
       /\ m[j].at = l[s[j]].at /\ m[j].is_free = l[s[j]].is_free
       /\ m[j].at + m[j].size = l[Joined(l, s, j)].at + l[Joined(l, s, j)].size

LEMMA JoinedEnds ==
  ASSUME NEW l \in Layouts, NEW m \in Layouts, NEW s, Joins(l, m, s), NEW j \in 1..Len(s)
  PROVE  /\ Ends(l, s[j], Joined(l, s, j))
         /\ s[j] \in 1..Len(l) /\ Joined(l, s, j) \in 1..Len(l) /\ s[j] <= Joined(l, s, j)
         /\ Gathered(m, j, j) = Gathered(l, s[j], Joined(l, s, j))
<1> DEFINE n == Len(l)   k == Len(s)   e == Joined(l, s, j)
<1>1. /\ n \in Nat /\ k \in Nat /\ j \in Nat /\ 1 <= j /\ j <= k /\ k = Len(m)
      /\ \A i \in 1..k : s[i] \in Heads(l) /\ s[i] \in 1..n
      /\ \A i \in Heads(l) : \E h \in 1..k : i = s[h]
  BY LayoutShape, HeadShape DEF Joins
<1>2. \A h \in 1..k : h > j => s[j] < s[h] /\ j + 1 \in 1..k /\ s[j + 1] <= s[h]
  <2> TAKE h \in 1..k
  <2> HAVE h > j
  <2>1. j + 1 \in 1..k /\ (h = j + 1 \/ j + 1 < h)
    BY <1>1
  <2>2. s[j] < s[h] /\ (j + 1 < h => s[j + 1] < s[h])
    BY <2>1 DEF Joins
  <2>3. s[j + 1] \in Int /\ s[h] \in Int
    BY <1>1, <2>1
  <2> QED BY <2>1, <2>2, <2>3
<1>3. \A h \in 1..k : h <= j => s[h] <= s[j]
  <2> TAKE h \in 1..k
  <2> HAVE h <= j
  <2>1. h = j \/ h < j
    BY <1>1
  <2>2. h < j => s[h] < s[j]
    BY DEF Joins
  <2>3. s[h] \in Int /\ s[j] \in Int
    BY <1>1
  <2> QED BY <2>1, <2>2, <2>3
<1>4. /\ e \in 1..n /\ s[j] <= e
      /\ \A h \in 1..k : h > j => e < s[h]
      /\ e < n => e + 1 \in Heads(l)
      /\ Behind(m, j) = Behind(l, e)
  <2>1. CASE j < k
    <3>1. j + 1 \in 1..k /\ j + 1 > j
      BY <1>1, <2>1
    <3>2. s[j] < s[j + 1] /\ s[j + 1] \in 1..n /\ s[j] \in 1..n /\ s[j + 1] \in Heads(l)
      BY <1>1, <1>2, <3>1
    <3>3. e = s[j + 1] - 1
      BY <2>1 DEF Joined
    <3>4. e \in 1..n /\ s[j] <= e /\ e < n /\ e + 1 = s[j + 1]
      BY <1>1, <3>2, <3>3
    <3>5. \A h \in 1..k : h > j => e < s[h]
      BY <1>1, <1>2, <3>2, <3>3
    <3>6. m[j + 1].at = l[s[j + 1]].at
      BY <3>1 DEF Joins
    <3> QED BY <1>1, <2>1, <3>2, <3>4, <3>5, <3>6 DEF Behind
  <2>2. CASE j >= k
    <3>1. j = k
      BY <1>1, <2>2
    <3>2. e = n /\ ~(j < Len(m))
      BY <1>1, <3>1 DEF Joined
    <3> QED BY <1>1, <3>1, <3>2 DEF Behind
  <2> QED BY <1>1, <2>1, <2>2
<1> HIDE DEF e
<1>5. \A h \in (s[j] + 1)..e : h \notin Heads(l)
  <2> SUFFICES ASSUME NEW i \in 1..k, s[i] \in (s[j] + 1)..e PROVE FALSE
    BY <1>1
  <2>1. i <= j \/ i > j
    BY <1>1
  <2>2. s[i] \in Int /\ s[j] \in Int /\ e \in Int
    BY <1>1, <1>4
  <2> QED BY <1>3, <1>4, <2>1, <2>2
<1>6. e \in s[j]..n
  BY <1>1, <1>4
<1>7. Ends(l, s[j], e)
  BY <1>1, <1>4, <1>5, <1>6 DEF Ends, OneStretch
<1>8. Gathered(m, j, j) = Gathered(l, s[j], e)
  <2>1. /\ m[j].at = l[s[j]].at /\ m[j].is_free = l[s[j]].is_free
        /\ m[j].at + m[j].size = l[e].at + l[e].size
    BY DEF Joins, e
  <2> DEFINE a == m[j].at   b == m[j].size   x == l[s[j]].at   y == l[e].at   z == l[e].size
  <2>2. a = x /\ a + b = y + z /\ a \in Nat /\ b \in Nat /\ y \in Nat /\ z \in Nat
    <3>1. j \in 1..Len(m)
      BY <1>1
    <3>2. a \in Nat /\ b \in Nat /\ y \in Nat /\ z \in Nat
      BY <1>4, <3>1, LayoutShape
    <3> QED BY <2>1, <3>2
  <2> HIDE DEF a, b, x, y, z
  <2>3. a + b - a - HeaderSize = y + z - x - HeaderSize
    BY <2>2, SizesAssumption
  <2> USE DEF a, b, x, y, z
  <2> QED BY <1>4, <2>1, <2>3, Zenon DEF Gathered
<1> QED BY <1>1, <1>4, <1>7, <1>8 DEF e

\* Has the block j of a list room for q bytes?
HasRoom(m, j, q) == m[j].is_free /\ m[j].size >= q + HeaderSize

\* The search for q bytes makes m of l, and the first block with room is g; with none
\* g is 0.  The blocks behind g are not merged.
Leads(l, q, m, g) ==
  /\ l \in Layouts /\ m \in Layouts
  /\ \E s \in Seq(Nat) :
       /\ Joins(l, m, s)
       /\ g = 0 \/ \A j \in 1..Len(m) : j > g => s[j] = Joined(l, s, j)
  /\ \A j \in 1..Len(m) : j < g \/ g = 0 => ~HasRoom(m, j, q)
  /\ g # 0 => g \in 1..Len(m) /\ HasRoom(m, g, q)

\* What the headers are where the search ends, and which block it has come to.
LEMMA Leading ==
  ASSUME NEW l, NEW m, NEW g, NEW q \in Nat, Leads(l, q, m, g),
         NEW c, NEW e, Reached(l, q, c, e), wanted = q,
         ~mergeable(hdr, cur), verdict(hdr, cur, wanted) # "continue"
  PROVE  /\ Stand(m)
         /\ g = 0 => /\ verdict(hdr, cur, wanted) = "BSR_REACHED_END_NOT_FOUND"
                     /\ cur = m[Len(m)].at
         /\ g # 0 => /\ verdict(hdr, cur, wanted) = "BSR_FOUND_GOOD_BLOCK"
                     /\ cur = m[g].at
<1>1. PICK s \in Seq(Nat) :
        /\ Joins(l, m, s)
        /\ g = 0 \/ \A j \in 1..Len(m) : j > g => s[j] = Joined(l, s, j)
  BY DEF Leads
<1> DEFINE k == Len(m)
<1>2. /\ l \in Layouts /\ m \in Layouts /\ k \in Nat \ {0} /\ Len(s) = k /\ Len(l) \in Nat
      /\ \A j \in 1..k : m[j].at = l[s[j]].at
      /\ \A i, j \in 1..k : i < j => s[i] < s[j]
      /\ Heads(l) = {s[j] : j \in 1..k}
  BY <1>1, LayoutShape DEF Leads, Joins
<1>3. \A j \in 1..k : /\ Ends(l, s[j], Joined(l, s, j))
                      /\ s[j] \in 1..Len(l) /\ Joined(l, s, j) \in 1..Len(l)
                      /\ s[j] <= Joined(l, s, j)
                      /\ Gathered(m, j, j) = Gathered(l, s[j], Joined(l, s, j))
  BY <1>1, <1>2, JoinedEnds
<1>4. \A j \in 1..k : s[j] \in Roomy(l, q) <=> HasRoom(m, j, q)
  <2> TAKE j \in 1..k
  <2> DEFINE f == Joined(l, s, j)
  <2>1. Stretch(l, s[j]) = l[f].at + l[f].size - l[s[j]].at
    BY <1>2, <1>3, StretchIs
  <2>2. /\ m[j].at = l[s[j]].at /\ m[j].is_free = l[s[j]].is_free
        /\ m[j].at + m[j].size = l[f].at + l[f].size
    BY <1>1, <1>2 DEF Joins
  <2> HIDE DEF f
  <2> DEFINE a == m[j].at   b == m[j].size
  <2>3. a \in Nat /\ b \in Nat
    BY <1>2, LayoutShape
  <2>4. Stretch(l, s[j]) = a + b - a
    <3> DEFINE x == l[s[j]].at   y == l[f].at   z == l[f].size
    <3>1. a = x /\ a + b = y + z /\ Stretch(l, s[j]) = y + z - x
      BY <2>1, <2>2
    <3>2. y \in Nat /\ z \in Nat
      <4>1. f \in 1..Len(l)
        BY <1>3 DEF f
      <4> QED BY <1>2, <4>1, LayoutShape
    <3> HIDE DEF a, b, x, y, z
    <3> QED BY <2>3, <3>1, <3>2
  <2>5. a + b - a = b
    <3> HIDE DEF a, b
    <3> QED BY <2>3
  <2>6. s[j] \in Heads(l)
    BY <1>2
  <2> QED BY <2>2, <2>4, <2>5, <2>6 DEF Roomy, HasRoom
<1>5. /\ Ends(l, c, e)
      /\ \/ /\ verdict(hdr, cur, wanted) = "BSR_FOUND_GOOD_BLOCK"
            /\ c \in Roomy(l, q) /\ \A i \in Roomy(l, q) : c <= i
         \/ /\ verdict(hdr, cur, wanted) = "BSR_REACHED_END_NOT_FOUND"
            /\ Roomy(l, q) = {} /\ \A i \in Heads(l) : i <= c
            /\ e = Len(l)
  BY <1>2, ReachedAnswer
<1>6. c \in Heads(l) /\ cur = l[c].at
  BY DEF Reached, OneStretch
<1>7. PICK h \in 1..k : c = s[h]
  BY <1>2, <1>6
<1>8. e = Joined(l, s, h) /\ cur = m[h].at
  BY <1>2, <1>3, <1>5, <1>6, <1>7, EndsOnce
<1>9. \A j \in 1..k : s[j] <= c => j <= h
  <2> TAKE j \in 1..k
  <2>1. j \in Int /\ h \in Int /\ s[j] \in Int /\ s[h] \in Int
    BY <1>2, <1>3
  <2>2. h < j => s[h] < s[j]
    BY <1>2
  <2> QED BY <1>7, <2>1, <2>2
<1>10. \A j \in 1..k : s[j] = c => j = h
  <2> TAKE j \in 1..k
  <2> HAVE s[j] = c
  <2>1. j \in Int /\ h \in Int /\ s[j] \in Int
    BY <1>2, <1>3
  <2>2. j < h => s[j] < s[h]
    BY <1>2
  <2> QED BY <1>7, <1>9, <2>1, <2>2
<1>11. g = 0 => h = k /\ verdict(hdr, cur, wanted) = "BSR_REACHED_END_NOT_FOUND"
  <2> HAVE g = 0
  <2>1. Roomy(l, q) = {}
    <3>1. \A j \in 1..k : ~HasRoom(m, j, q)
      BY <1>2 DEF Leads
    <3>2. \A i \in Roomy(l, q) : i \in Heads(l)
      BY DEF Roomy
    <3> QED BY <1>2, <1>4, <3>1, <3>2
  <2>2. k \in 1..k /\ s[k] \in Heads(l)
    BY <1>2
  <2>3. s[k] <= c
    BY <1>5, <2>1, <2>2
  <2> QED BY <1>2, <1>5, <1>9, <2>1, <2>2, <2>3
<1>12. g # 0 => h = g /\ verdict(hdr, cur, wanted) = "BSR_FOUND_GOOD_BLOCK"
  <2> HAVE g # 0
  <2>1. /\ g \in 1..k /\ HasRoom(m, g, q)
        /\ \A j \in 1..k : j < g => ~HasRoom(m, j, q)
    BY <1>2 DEF Leads
  <2>2. s[g] \in Roomy(l, q)
    BY <1>4, <2>1
  <2>3. c \in Roomy(l, q) /\ c <= s[g] /\ verdict(hdr, cur, wanted) = "BSR_FOUND_GOOD_BLOCK"
    BY <1>5, <2>2
  <2>4. HasRoom(m, h, q)
    BY <1>4, <1>7, <2>3
  <2>5. ~(h < g)
    BY <2>1, <2>4
  <2>6. ~(g < h)
    <3>1. g < h => s[g] < s[h]
      BY <1>2, <2>1
    <3> QED BY <1>3, <1>7, <2>1, <2>3, <3>1
  <2> QED BY <1>2, <2>1, <2>3, <2>5, <2>6
<1>13. \A j \in 1..k : Stands(l, s[j], Joined(l, s, j))
  <2> TAKE j \in 1..k
  <2>1. CASE s[j] < c
    <3>1. s[j] \in Heads(l) /\ Joined(l, s, j) \in DOMAIN l /\ Ends(l, s[j], Joined(l, s, j))
      BY <1>2, <1>3, LayoutShape
    <3> QED BY <2>1, <3>1 DEF Reached
  <2>2. CASE s[j] = c
    BY <1>8, <1>10, <2>2 DEF Reached
  <2>3. CASE s[j] > c
    <3>1. g # 0
      <4>1. s[j] \in Heads(l)
        BY <1>2
      <4>2. ~(\A i \in Heads(l) : i <= c)
        BY <1>3, <1>7, <2>3, <4>1
      <4>3. verdict(hdr, cur, wanted) = "BSR_FOUND_GOOD_BLOCK"
        BY <1>5, <4>2
      <4> QED BY <1>11, <4>3
    <3>2. j > g
      <4>1. h = g
        BY <1>12, <3>1
      <4>2. j \in Int /\ h \in Int /\ s[j] \in Int /\ c \in Int
        BY <1>2, <1>3, <1>7
      <4>3. j < h => s[j] < s[h]
        BY <1>2
      <4>4. j # h
        BY <1>7, <2>3, <4>2
      <4> QED BY <1>7, <2>3, <4>1, <4>2, <4>3, <4>4
    <3>3. s[j] = Joined(l, s, j)
      BY <1>1, <3>1, <3>2
    <3>4. s[j] \in (e + 1)..Len(l)
      <4>1. s[j] \in 1..Len(l) /\ c \in 1..Len(l) /\ e \in 1..Len(l) /\ s[j] \in Heads(l)
        BY <1>2, <1>3, <1>7, <1>8
      <4>2. s[j] \notin (c + 1)..e
        BY <1>5, <4>1 DEF Ends, OneStretch
      <4> QED BY <1>2, <2>3, <4>1, <4>2
    <3> QED BY <3>3, <3>4 DEF Reached
  <2>4. s[j] \in Int /\ c \in Int
    BY <1>3, <1>7
  <2> QED BY <2>1, <2>2, <2>3, <2>4
<1>14. Stand(m)
  <2> SUFFICES ASSUME NEW j \in 1..k PROVE Stands(m, j, j)
    BY DEF Stand
  <2>1. l[s[j]].at \in DOMAIN hdr /\ hdr[l[s[j]].at] = Gathered(l, s[j], Joined(l, s, j))
    BY <1>13 DEF Stands
  <2> QED BY <1>2, <1>3, <2>1 DEF Stands
<1> QED BY <1>8, <1>11, <1>12, <1>14

\* A list of which no block can take up the next is its own.
LEMMA NothingJoins ==
  ASSUME NEW l \in Layouts,
         \A i \in 1..Len(l) : i > 1 =>
           ~(l[i].is_free /\ l[i - 1].is_free /\ l[i].at = l[i - 1].at + l[i - 1].size)
  PROVE  \E s \in Seq(Nat) : Joins(l, l, s) /\ \A j \in 1..Len(l) : s[j] = Joined(l, s, j)
<1> DEFINE s == [j \in 1..Len(l) |-> j]
<1>1. Len(l) \in Nat \ {0} /\ 1 \in Heads(l) /\ Heads(l) \subseteq 1..Len(l)
  BY LayoutShape, HeadShape
<1>2. s \in Seq(Nat) /\ Len(s) = Len(l) /\ \A j \in 1..Len(l) : s[j] = j
  BY <1>1
<1>3. \A i \in 1..Len(l) : i \in Heads(l)
  <2> TAKE i \in 1..Len(l)
  <2>1. i = 1 \/ i > 1
    BY <1>1
  <2> QED BY <1>1, <2>1, HeadShape
<1> HIDE DEF s
<1>4. Heads(l) = {s[j] : j \in 1..Len(s)}
  BY <1>1, <1>2, <1>3
<1>5. \A j \in 1..Len(l) : j = Joined(l, s, j)
  <2> TAKE j \in 1..Len(l)
  <2>1. CASE j < Len(s)
    <3>1. j + 1 \in 1..Len(l) /\ j + 1 - 1 = j
      BY <1>1, <1>2, <2>1
    <3> QED BY <1>2, <2>1, <3>1 DEF Joined
  <2>2. CASE j >= Len(s)
    <3>1. j = Len(l) /\ ~(j < Len(s))
      BY <1>1, <1>2, <2>2
    <3> QED BY <3>1 DEF Joined
  <2>3. j < Len(s) \/ j >= Len(s)
    BY <1>1, <1>2
  <2> QED BY <2>1, <2>2, <2>3
<1>6. \A i, j \in 1..Len(s) : i < j => s[i] < s[j]
  BY <1>2
<1>7. \A j \in 1..Len(s) :
        /\ l[j].at = l[s[j]].at /\ l[j].is_free = l[s[j]].is_free
        /\ l[j].at + l[j].size = l[Joined(l, s, j)].at + l[Joined(l, s, j)].size
  BY <1>2, <1>5
<1>8. Joins(l, l, s)
  BY <1>2, <1>4, <1>6, <1>7 DEF Joins
<1> QED BY <1>2, <1>5, <1>8

\* The stretches of a row start at the first block, at a dirty one and behind it.
LEMMA RowHeads ==
  ASSUME Handy, NEW n \in Nat \ {0}, NEW d
  PROVE  Heads(Row(n, 128, d)) = {i \in 1..n : i = 1 \/ i \in d \/ i - 1 \in d}
<1> DEFINE l == Row(n, 128, d)
<1>1. /\ l \in Layouts /\ Len(l) = n
      /\ \A i \in 1..n : /\ l[i].at = HEAP_START + 128 * (i - 1)
                         /\ l[i].size = 128
                         /\ l[i].is_free <=> i \notin d
  BY RowIs DEF Orderly
<1> HIDE DEF l
<1>2. Heads(l) \subseteq 1..n /\ 1 \in Heads(l)
  BY <1>1, HeadShape
<1>3. ASSUME NEW i \in 1..n, i > 1 PROVE i \in Heads(l) <=> i \in d \/ i - 1 \in d
  <2>1. i - 1 \in 1..n
    BY <1>3
  <2>2. /\ l[i].is_free <=> i \notin d
        /\ l[i - 1].is_free <=> i - 1 \notin d
    BY <1>1, <2>1
  <2>3. l[i].at = l[i - 1].at + l[i - 1].size
    <3>1. l[i].at = HEAP_START + 128 * (i - 1) /\ l[i - 1].at = HEAP_START + 128 * (i - 1 - 1)
      BY <1>1, <2>1
    <3>2. HEAP_START + 128 * (i - 1) = HEAP_START + 128 * (i - 1 - 1) + 128
      BY HandySizes
    <3> QED BY <1>1, <2>1, <3>1, <3>2
  <2>4. i \notin Heads(l) <=> /\ l[i].is_free /\ l[i - 1].is_free
                              /\ l[i].at = l[i - 1].at + l[i - 1].size
    <3>1. l \in Layouts /\ i \in 1..Len(l) /\ i > 1
      BY <1>1, <1>3
    <3> QED BY <3>1, HeadShape
  <2> QED BY <2>2, <2>3, <2>4
<1>4. \A i \in 1..n : i = 1 \/ i > 1
  BY <1>1
<1>5. \A i \in 1..n : i \in Heads(l) <=> i = 1 \/ i \in d \/ i - 1 \in d
  BY <1>2, <1>3, <1>4
<1> QED BY <1>2, <1>5 DEF l

\* What a search makes of a row whose stretches start at s.
LEMMA RowJoins ==
  ASSUME Handy, NEW n \in Nat \ {0}, NEW d, NEW m, Orderly(m),
         NEW s \in Seq(Nat), Len(s) = Len(m), \A i, j \in 1..Len(s) : i < j => s[i] < s[j],
         {s[j] : j \in 1..Len(s)} = {i \in 1..n : i = 1 \/ i \in d \/ i - 1 \in d},
         \A j \in 1..Len(s) :
           /\ m[j].at = HEAP_START + 128 * (s[j] - 1)
           /\ m[j].is_free <=> s[j] \notin d
           /\ m[j].at + m[j].size =
                HEAP_START + 128 * (IF j < Len(s) THEN s[j + 1] - 1 ELSE n)
  PROVE  Joins(Row(n, 128, d), m, s)
<1> DEFINE l == Row(n, 128, d)
<1>1. /\ l \in Layouts /\ Len(l) = n
      /\ \A i \in 1..n : /\ l[i].at = HEAP_START + 128 * (i - 1)
                         /\ l[i].size = 128 /\ l[i].is_free \in BOOLEAN
                         /\ l[i].is_free <=> i \notin d
  <2>1. Orderly(l)
    BY RowIs
  <2>2. l \in Layouts
    BY <2>1 DEF Orderly
  <2> QED BY <2>2, RowIs, LayoutShape
<1> HIDE DEF l
<1>2. Heads(l) = {s[j] : j \in 1..Len(s)}
  BY RowHeads DEF l
<1>3. Len(s) \in Nat \ {0} /\ HEAP_START \in Nat /\ \A j \in 1..Len(s) : s[j] \in 1..n
  <2>1. Len(s) \in Nat \ {0}
    BY OrderlyIs
  <2>2. HEAP_START \in Nat
    BY HandySizes
  <2>3. \A j \in 1..Len(s) : s[j] \in {i \in 1..n : i = 1 \/ i \in d \/ i - 1 \in d}
    OBVIOUS
  <2> QED BY <2>1, <2>2, <2>3
<1>4. ASSUME NEW j \in 1..Len(s)
      PROVE  /\ m[j].at = l[s[j]].at /\ m[j].is_free = l[s[j]].is_free
             /\ m[j].at + m[j].size = l[Joined(l, s, j)].at + l[Joined(l, s, j)].size
  <2>1. m[j].at = l[s[j]].at
    BY <1>1, <1>3
  <2>2. m[j].is_free = l[s[j]].is_free
    <3>1. m[j].is_free \in BOOLEAN /\ l[s[j]].is_free \in BOOLEAN
      BY <1>1, <1>3, LayoutShape DEF Orderly
    <3>2. m[j].is_free <=> l[s[j]].is_free
      BY <1>1, <1>3
    <3> QED BY <3>1, <3>2, Zenon
  <2> DEFINE f == Joined(l, s, j)
  <2>3. f \in 1..n /\ f = IF j < Len(s) THEN s[j + 1] - 1 ELSE n
    <3>1. CASE j < Len(s)
      <4>1. j + 1 \in 1..Len(s)
        BY <1>3, <3>1
      <4>2. s[j] < s[j + 1] /\ s[j + 1] \in 1..n /\ s[j] \in 1..n
        <5>1. j < j + 1
          BY <1>3
        <5> QED BY <1>3, <4>1, <5>1
      <4>3. s[j + 1] - 1 \in 1..n
        <5> DEFINE x == s[j]   y == s[j + 1]
        <5>1. x < y /\ y \in 1..n /\ x \in 1..n
          BY <4>2
        <5> HIDE DEF x, y
        <5>2. y - 1 \in 1..n
          BY <5>1
        <5> QED BY <5>2 DEF y
      <4> QED BY <3>1, <4>3 DEF Joined
    <3>2. CASE ~(j < Len(s))
      BY <1>1, <3>2 DEF Joined
    <3> QED BY <3>1, <3>2
  <2> HIDE DEF f
  <2>4. m[j].at + m[j].size = HEAP_START + 128 * f
    BY <2>3
  <2>5. l[f].at = HEAP_START + 128 * (f - 1) /\ l[f].size = 128 /\ f \in Int
    <3>1. f \in 1..n
      BY <2>3
    <3>2. f \in Int
      BY <3>1
    <3> QED BY <1>1, <3>1, <3>2
  <2>6. HEAP_START + 128 * (f - 1) + 128 = HEAP_START + 128 * f
    BY <1>3, <2>5
  <2>7. m[j].at + m[j].size = l[f].at + l[f].size
    BY <2>4, <2>5, <2>6
  <2> QED BY <2>1, <2>2, <2>7 DEF f
<1>5. Joins(l, m, s)
  BY <1>2, <1>4 DEF Joins
<1> QED BY <1>5 DEF l

\* What the searches of the unit tests make of their lists.
LEMMA TwoDirtyLeads ==
  ASSUME Handy, NEW q \in Nat, q >= 512
  PROVE  Leads(TwoDirty, q, TwoDirtyMerged, 0)
<1> DEFINE l == TwoDirty   m == TwoDirtyMerged   s == <<1, 2, 3, 7, 8>>
<1>1. /\ Orderly(m) /\ Len(m) = 5
      /\ m[1] = Free(0, 128)
      /\ m[2] = Dirty(128, 128)
      /\ m[3] = Free(256, 512)
      /\ m[4] = Dirty(768, 128)
      /\ m[5] = Free(896, 128)
  BY TwoDirtyMergedIs
<1>2. /\ s \in Seq(Nat) /\ Len(s) = 5
      /\ s[1] = 1 /\ s[2] = 2 /\ s[3] = 3 /\ s[4] = 7 /\ s[5] = 8
  OBVIOUS
<1>3. HeaderSize \in Nat /\ HeaderSize >= 1 /\ 2 * HeaderSize + BlockMinCapacity <= 128
      /\ HEAP_START \in Nat /\ BlockMinCapacity \in Nat
  BY HandySizes
<1> HIDE DEF m, s
<1>4. \A j \in 1..5 : j = 1 \/ j = 2 \/ j = 3 \/ j = 4 \/ j = 5
  OBVIOUS
<1>5. PICK n \in Nat \ {0} : n = 8
  OBVIOUS
<1>6. PICK d : d = {2, 7}
  OBVIOUS
<1>7. l = Row(n, 128, d)
  BY <1>5, <1>6 DEF TwoDirty
<1> HIDE DEF l
<1>8. \A i, j \in 1..Len(s) : i < j => s[i] < s[j]
  BY <1>2, <1>4
<1>9. {s[j] : j \in 1..Len(s)} = {i \in 1..n : i = 1 \/ i \in d \/ i - 1 \in d}
  <2>1. {s[j] : j \in 1..Len(s)} = {1, 2, 3, 7, 8}
    BY <1>2, <1>4
  <2>2. {i \in 1..8 : i = 1 \/ i \in {2, 7} \/ i - 1 \in {2, 7}} = {1, 2, 3, 7, 8}
    OBVIOUS
  <2>3. {i \in 1..n : i = 1 \/ i \in d \/ i - 1 \in d} = {i \in 1..8 : i = 1 \/ i \in {2, 7} \/ i - 1 \in {2, 7}}
    BY <1>5, <1>6
  <2> QED BY <2>1, <2>2, <2>3
<1>10. \A j \in 1..Len(s) :
        /\ m[j].at = HEAP_START + 128 * (s[j] - 1)
        /\ m[j].is_free <=> s[j] \notin d
        /\ m[j].at + m[j].size = HEAP_START + 128 * (IF j < Len(s) THEN s[j + 1] - 1 ELSE n)
  BY <1>1, <1>2, <1>3, <1>4, <1>5, <1>6 DEF Free, Dirty
<1>11. Joins(l, m, s)
  <2>1. Orderly(m) /\ s \in Seq(Nat) /\ Len(s) = Len(m)
    BY <1>1, <1>2
  <2>2. Joins(Row(n, 128, d), m, s)
    BY <1>8, <1>9, <1>10, <2>1, RowJoins
  <2> QED BY <1>7, <2>2
<1>12. l \in Layouts /\ m \in Layouts /\ Len(l) = n
  <2>1. Orderly(Row(n, 128, d)) /\ Len(Row(n, 128, d)) = n
    BY RowIs
  <2> QED BY <1>1, <1>7, <2>1 DEF Orderly
<1>13. \A j \in 1..Len(m) : ~HasRoom(m, j, q)
  BY <1>1, <1>3, <1>4 DEF HasRoom, Free, Dirty
<1>14. Leads(l, q, m, 0)
  BY <1>2, <1>11, <1>12, <1>13 DEF Leads
<1> QED BY <1>14 DEF l, m

LEMMA LastDirtyLeads ==
  ASSUME Handy
  PROVE  Leads(LastDirty, 512, LastDirtyMerged, 3)
<1> DEFINE l == LastDirty   m == LastDirtyMerged   s == <<1, 2, 3, 8>>
<1>1. /\ Orderly(m) /\ Len(m) = 4
      /\ m[1] = Free(0, 128)
      /\ m[2] = Dirty(128, 128)
      /\ m[3] = Free(256, 640)
      /\ m[4] = Dirty(896, 128)
  BY LastDirtyMergedIs
<1>2. /\ s \in Seq(Nat) /\ Len(s) = 4
      /\ s[1] = 1 /\ s[2] = 2 /\ s[3] = 3 /\ s[4] = 8
  OBVIOUS
<1>3. HeaderSize \in Nat /\ HeaderSize >= 1 /\ 2 * HeaderSize + BlockMinCapacity <= 128
      /\ HEAP_START \in Nat /\ BlockMinCapacity \in Nat
  BY HandySizes
<1> HIDE DEF m, s
<1>4. \A j \in 1..4 : j = 1 \/ j = 2 \/ j = 3 \/ j = 4
  OBVIOUS
<1>5. PICK n \in Nat \ {0} : n = 8
  OBVIOUS
<1>6. PICK d : d = {2, 8}
  OBVIOUS
<1>7. l = Row(n, 128, d)
  BY <1>5, <1>6 DEF LastDirty
<1> HIDE DEF l
<1>8. \A i, j \in 1..Len(s) : i < j => s[i] < s[j]
  BY <1>2, <1>4
<1>9. {s[j] : j \in 1..Len(s)} = {i \in 1..n : i = 1 \/ i \in d \/ i - 1 \in d}
  <2>1. {s[j] : j \in 1..Len(s)} = {1, 2, 3, 8}
    BY <1>2, <1>4
  <2>2. {i \in 1..8 : i = 1 \/ i \in {2, 8} \/ i - 1 \in {2, 8}} = {1, 2, 3, 8}
    OBVIOUS
  <2>3. {i \in 1..n : i = 1 \/ i \in d \/ i - 1 \in d} = {i \in 1..8 : i = 1 \/ i \in {2, 8} \/ i - 1 \in {2, 8}}
    BY <1>5, <1>6
  <2> QED BY <2>1, <2>2, <2>3
<1>10. \A j \in 1..Len(s) :
        /\ m[j].at = HEAP_START + 128 * (s[j] - 1)
        /\ m[j].is_free <=> s[j] \notin d
        /\ m[j].at + m[j].size = HEAP_START + 128 * (IF j < Len(s) THEN s[j + 1] - 1 ELSE n)
  BY <1>1, <1>2, <1>3, <1>4, <1>5, <1>6 DEF Free, Dirty
<1>11. Joins(l, m, s)
  <2>1. Orderly(m) /\ s \in Seq(Nat) /\ Len(s) = Len(m)
    BY <1>1, <1>2
  <2>2. Joins(Row(n, 128, d), m, s)
    BY <1>8, <1>9, <1>10, <2>1, RowJoins
  <2> QED BY <1>7, <2>2
<1>12. l \in Layouts /\ m \in Layouts /\ Len(l) = n
  <2>1. Orderly(Row(n, 128, d)) /\ Len(Row(n, 128, d)) = n
    BY RowIs
  <2> QED BY <1>1, <1>7, <2>1 DEF Orderly
<1>13. \A j \in 1..Len(m) : j > 3 => s[j] = Joined(l, s, j)
  BY <1>1, <1>2, <1>4, <1>5, <1>12 DEF Joined
<1>14. /\ \A j \in 1..Len(m) : j < 3 => ~HasRoom(m, j, 512)
       /\ 3 \in 1..Len(m) /\ HasRoom(m, 3, 512)
  BY <1>1, <1>3, <1>4 DEF HasRoom, Free, Dirty
<1>15. Leads(l, 512, m, 3)
  BY <1>2, <1>11, <1>12, <1>13, <1>14 DEF Leads
<1> QED BY <1>15 DEF l, m

LEMMA SevenLeads ==
  ASSUME Handy
  PROVE  Leads(Row(7, 128, {1, 7}), BlockMinCapacity, SevenMerged, 2)
<1> DEFINE l == Row(7, 128, {1, 7})   m == SevenMerged   s == <<1, 2, 7>>
<1>1. /\ Orderly(m) /\ Len(m) = 3
      /\ m[1] = Dirty(0, 128)
      /\ m[2] = Free(128, 640)
      /\ m[3] = Dirty(768, 128)
  BY SevenMergedIs
<1>2. /\ s \in Seq(Nat) /\ Len(s) = 3
      /\ s[1] = 1 /\ s[2] = 2 /\ s[3] = 7
  OBVIOUS
<1>3. HeaderSize \in Nat /\ HeaderSize >= 1 /\ 2 * HeaderSize + BlockMinCapacity <= 128
      /\ HEAP_START \in Nat /\ BlockMinCapacity \in Nat
  BY HandySizes
<1> HIDE DEF m, s
<1>4. \A j \in 1..3 : j = 1 \/ j = 2 \/ j = 3
  OBVIOUS
<1>5. PICK n \in Nat \ {0} : n = 7
  OBVIOUS
<1>6. PICK d : d = {1, 7}
  OBVIOUS
<1>7. l = Row(n, 128, d)
  BY <1>5, <1>6
<1> HIDE DEF l
<1>8. \A i, j \in 1..Len(s) : i < j => s[i] < s[j]
  BY <1>2, <1>4
<1>9. {s[j] : j \in 1..Len(s)} = {i \in 1..n : i = 1 \/ i \in d \/ i - 1 \in d}
  <2>1. {s[j] : j \in 1..Len(s)} = {1, 2, 7}
    BY <1>2, <1>4
  <2>2. {i \in 1..7 : i = 1 \/ i \in {1, 7} \/ i - 1 \in {1, 7}} = {1, 2, 7}
    OBVIOUS
  <2>3. {i \in 1..n : i = 1 \/ i \in d \/ i - 1 \in d} = {i \in 1..7 : i = 1 \/ i \in {1, 7} \/ i - 1 \in {1, 7}}
    BY <1>5, <1>6
  <2> QED BY <2>1, <2>2, <2>3
<1>10. \A j \in 1..Len(s) :
        /\ m[j].at = HEAP_START + 128 * (s[j] - 1)
        /\ m[j].is_free <=> s[j] \notin d
        /\ m[j].at + m[j].size = HEAP_START + 128 * (IF j < Len(s) THEN s[j + 1] - 1 ELSE n)
  BY <1>1, <1>2, <1>3, <1>4, <1>5, <1>6 DEF Free, Dirty
<1>11. Joins(l, m, s)
  <2>1. Orderly(m) /\ s \in Seq(Nat) /\ Len(s) = Len(m)
    BY <1>1, <1>2
  <2>2. Joins(Row(n, 128, d), m, s)
    BY <1>8, <1>9, <1>10, <2>1, RowJoins
  <2> QED BY <1>7, <2>2
<1>12. l \in Layouts /\ m \in Layouts /\ Len(l) = n
  <2>1. Orderly(Row(n, 128, d)) /\ Len(Row(n, 128, d)) = n
    BY RowIs
  <2> QED BY <1>1, <1>7, <2>1 DEF Orderly
<1>13. \A j \in 1..Len(m) : j > 2 => s[j] = Joined(l, s, j)
  BY <1>1, <1>2, <1>4, <1>5, <1>12 DEF Joined
<1>14. /\ \A j \in 1..Len(m) : j < 2 => ~HasRoom(m, j, BlockMinCapacity)
       /\ 2 \in 1..Len(m) /\ HasRoom(m, 2, BlockMinCapacity)
  BY <1>1, <1>3, <1>4 DEF HasRoom, Free, Dirty
<1>15. Leads(l, BlockMinCapacity, m, 2)
  BY <1>2, <1>11, <1>12, <1>13, <1>14 DEF Leads
<1> QED BY <1>15 DEF l, m

\* The block a is free and n follows it.
FreeBlock(h, a, n, c) ==
  a \in DOMAIN h /\ h[a] = [next |-> n, capacity |-> c, is_free |-> TRUE]

\* g is h with such a block cut after q bytes of contents: second is the rest of it.
Cleft(h, a, q, n, c, second, g) ==
  /\ g = [x \in DOMAIN g |-> g[x]]
  /\ DOMAIN g = DOMAIN h \cup {second}
  /\ \A x \in DOMAIN h : x # a /\ x # second => g[x] = h[x]
  /\ g[a] = [next |-> second, capacity |-> q, is_free |-> TRUE]
  /\ g[second] = [next |-> n, capacity |-> c - q - HeaderSize, is_free |-> TRUE]

LEMMA SplitFields ==
  ASSUME NEW h, NEW a, NEW q, NEW n, NEW c, FreeBlock(h, a, n, c),
         NEW second, second = a + HeaderSize + q, second # a
  PROVE  Cleft(h, a, q, n, c, second, split(h, a, q))
<1> DEFINE f == block_init(h, second, h[a].capacity - q, h[a].next)
           g == split(h, a, q)
<1>1. a \in DOMAIN h /\ h[a].next = n /\ h[a].capacity = c /\ h[a].is_free
      /\ h[a] = [next |-> n, capacity |-> c, is_free |-> TRUE]
  BY DEF FreeBlock
<1>2. /\ f = [x \in DOMAIN f |-> f[x]]
      /\ DOMAIN f = DOMAIN h \cup {second}
      /\ \A x \in DOMAIN h : x # second => f[x] = h[x]
      /\ f[second] = [next |-> n, capacity |-> c - q - HeaderSize, is_free |-> TRUE]
  BY <1>1 DEF block_init
<1>3. f[a] = [next |-> n, capacity |-> c, is_free |-> TRUE] /\ a \in DOMAIN f /\ a # second
  BY <1>1, <1>2
<1> DEFINE e == [f EXCEPT ![a].capacity = q]   r == f[a]   t == e[a]
<1>4. g = [e EXCEPT ![a].next = second]
  BY DEF split
<1> HIDE DEF f, g
<1>5. /\ e = [x \in DOMAIN e |-> e[x]] /\ DOMAIN e = DOMAIN f
      /\ \A x \in DOMAIN f : x # a => e[x] = f[x]
  BY <1>2
<1>6. t = [next |-> n, capacity |-> q, is_free |-> TRUE]
  <2>1. t = [r EXCEPT !.capacity = q]
    BY <1>2, <1>3
  <2>2. r = [next |-> n, capacity |-> c, is_free |-> TRUE]
    BY <1>3
  <2> HIDE DEF r, t
  <2> QED BY <2>1, <2>2
<1> HIDE DEF e
<1>7. /\ g = [x \in DOMAIN g |-> g[x]] /\ DOMAIN g = DOMAIN f
      /\ \A x \in DOMAIN f : x # a => g[x] = f[x]
  BY <1>4, <1>5
<1>8. g[a] = [next |-> second, capacity |-> q, is_free |-> TRUE]
  <2>1. g[a] = [t EXCEPT !.next = second]
    BY <1>3, <1>4, <1>5
  <2> HIDE DEF t
  <2> QED BY <1>6, <2>1
<1>9. /\ DOMAIN g = DOMAIN h \cup {second}
      /\ \A x \in DOMAIN h : x # a /\ x # second => g[x] = h[x]
      /\ g[second] = [next |-> n, capacity |-> c - q - HeaderSize, is_free |-> TRUE]
  BY <1>2, <1>3, <1>7
<1> QED BY <1>7, <1>8, <1>9 DEF g, Cleft

\* The search takes what it needs of a block and leaves the rest as a free one.
LEMMA TakingCuts ==
  ASSUME NEW m, Orderly(m), Stand(m), NEW g \in 1..Len(m), m[g].is_free, cur = m[g].at,
         NEW q \in Nat, wanted = q, q + 2 * HeaderSize + BlockMinCapacity <= m[g].size, FindGood
  PROVE  Stand(CutAt(m, g, q))'
<1> DEFINE l == CutAt(m, g, q)   k == Len(m)   x == m[g].at   s == m[g].size
           second == x + HeaderSize + q
<1>1. /\ k \in Nat \ {0} /\ x \in Nat /\ s \in Nat /\ HeaderSize \in Nat \ {0}
      /\ BlockMinCapacity \in Nat
  BY OrderlyIs, SizesAssumption
<1>2. /\ Orderly(l) /\ Len(l) = k + 1
      /\ \A i, j \in 1..(k + 1) : i # j => l[i].at # l[j].at
  <2>1. q + 2 * HeaderSize <= s
    <3> HIDE DEF s
    <3> QED BY <1>1 DEF s
  <2>2. Orderly(l) /\ Len(l) = k + 1
    BY <2>1, CutAtOrderly
  <2> HIDE DEF l
  <2>3. l \in Layouts
    BY <2>2 DEF Orderly
  <2> QED BY <2>2, <2>3, LayoutShape
<1>3. /\ \A j \in 1..(k + 1) : j < g => l[j] = m[j]
      /\ \A j \in 1..(k + 1) : j > g + 1 => l[j] = m[j - 1]
      /\ l[g] = [at |-> x, size |-> HeaderSize + q, is_free |-> FALSE]
      /\ l[g + 1] = [at |-> x + (HeaderSize + q), size |-> s - (HeaderSize + q), is_free |-> TRUE]
      /\ g \in 1..(k + 1) /\ g + 1 \in 1..(k + 1)
  <2>1. /\ g \in 1..(k + 1) /\ g + 1 \in 1..(k + 1) /\ ~(g < g) /\ ~(g + 1 < g) /\ g + 1 # g
        /\ \A j \in 1..(k + 1) : j > g + 1 => ~(j < g) /\ j # g /\ j # g + 1
    BY <1>1
  <2> HIDE DEF k, x, s
  <2> QED BY <2>1 DEF CutAt, k, x, s
<1> HIDE DEF l
<1>4. /\ cur \in DOMAIN hdr
      /\ hdr[cur] = [next |-> Behind(m, g), capacity |-> s - HeaderSize, is_free |-> TRUE]
  <2>1. m[g].at \in DOMAIN hdr /\ hdr[m[g].at] = Gathered(m, g, g)
    BY DEF Stand, Stands
  <2>2. x + s - x - HeaderSize = s - HeaderSize
    <3> HIDE DEF x, s
    <3> QED BY <1>1
  <2>3. m[g].is_free = TRUE
    <3>1. m[g] \in Blocks
      BY OrderlyIs
    <3> QED BY <3>1 DEF Blocks
  <2> QED BY <2>1, <2>2, <2>3 DEF Gathered
<1> DEFINE G == split(hdr, cur, wanted)
<1>5. cur + HeaderSize + q # cur /\ cur + HeaderSize + q = second
      /\ second = x + (HeaderSize + q)
      /\ s - HeaderSize - q - HeaderSize = s - (HeaderSize + q) - HeaderSize
  <2> HIDE DEF x, s
  <2> QED BY <1>1 DEF x
<1>6. /\ G = [y \in DOMAIN G |-> G[y]]
      /\ DOMAIN G = DOMAIN hdr \cup {second}
      /\ \A y \in DOMAIN hdr : y # cur /\ y # second => G[y] = hdr[y]
      /\ G[cur] = [next |-> second, capacity |-> q, is_free |-> TRUE]
      /\ G[second] = [next |-> Behind(m, g), capacity |-> s - HeaderSize - q - HeaderSize,
                      is_free |-> TRUE]
  <2> DEFINE n == Behind(m, g)   c == s - HeaderSize
  <2>1. hdr[cur] = [next |-> n, capacity |-> c, is_free |-> TRUE] /\ cur \in DOMAIN hdr
    BY <1>4
  <2>2. c - q - HeaderSize = s - HeaderSize - q - HeaderSize
    OBVIOUS
  <2> HIDE DEF c, n, s
  <2>3. second = cur + HeaderSize + q /\ second # cur
    BY <1>5
  <2> HIDE DEF second
  <2>4. G = split(hdr, cur, q)
    OBVIOUS
  <2> HIDE DEF G
  <2>5. FreeBlock(hdr, cur, n, c)
    BY <2>1 DEF FreeBlock
  <2>6. Cleft(hdr, cur, q, n, c, second, G)
    BY <2>3, <2>4, <2>5, SplitFields
  <2> QED BY <2>2, <2>6 DEF n, Cleft
<1>7. block_splittable(hdr, cur, wanted)
  <2>1. q + HeaderSize + BlockMinCapacity <= s - HeaderSize
    <3> HIDE DEF s
    <3> QED BY <1>1 DEF s
  <2> QED BY <1>4, <2>1 DEF block_splittable
<1>8. hdr' = [G EXCEPT ![cur].is_free = FALSE]
  BY <1>7 DEF FindGood, split_if_too_big
<1> HIDE DEF G, second
<1>9. /\ DOMAIN hdr' = DOMAIN hdr \cup {second}
      /\ \A y \in DOMAIN hdr : y # cur /\ y # second => hdr'[y] = hdr[y]
      /\ hdr'[cur] = [next |-> second, capacity |-> q, is_free |-> FALSE]
      /\ hdr'[second] = [next |-> Behind(m, g), capacity |-> s - HeaderSize - q - HeaderSize,
                         is_free |-> TRUE]
  <2>1. cur \in DOMAIN G /\ cur # second
    BY <1>4, <1>5, <1>6
  <2>2. DOMAIN hdr' = DOMAIN G /\ \A y \in DOMAIN G : y # cur => hdr'[y] = G[y]
    BY <1>6, <1>8, <2>1
  <2>3. hdr'[cur] = [next |-> second, capacity |-> q, is_free |-> FALSE]
    <3> DEFINE r == G[cur]
    <3>1. hdr'[cur] = [r EXCEPT !.is_free = FALSE]
      BY <1>6, <1>8, <2>1
    <3>2. r = [next |-> second, capacity |-> q, is_free |-> TRUE]
      BY <1>6
    <3> HIDE DEF r
    <3> QED BY <3>1, <3>2
  <2> QED BY <1>4, <1>6, <2>1, <2>2, <2>3
<1>10. Behind(l, g) = second /\ Behind(l, g + 1) = Behind(m, g)
  <2>1. Behind(l, g) = second
    <3>1. g < Len(l)
      BY <1>1, <1>2
    <3> QED BY <1>3, <1>5, <3>1 DEF Behind
  <2>2. CASE g < k
    <3>1. g + 1 < Len(l) /\ g + 1 + 1 \in 1..(k + 1) /\ g + 1 + 1 > g + 1 /\ g + 1 + 1 - 1 = g + 1
      BY <1>1, <1>2, <2>2
    <3>2. l[g + 1 + 1] = m[g + 1]
      BY <1>3, <3>1
    <3> QED BY <2>1, <2>2, <3>1, <3>2 DEF Behind
  <2>3. CASE g = k
    <3>1. ~(g + 1 < Len(l)) /\ ~(g < k)
      BY <1>1, <1>2, <2>3
    <3> QED BY <2>1, <3>1 DEF Behind
  <2>4. g < k \/ g = k
    BY <1>1
  <2> QED BY <2>2, <2>3, <2>4
<1>11. Stands(l, g, g)'
  <2> DEFINE z == HeaderSize + q
  <2>1. l[g].at = x /\ l[g].size = z /\ l[g].is_free = FALSE
    BY <1>3
  <2>2. x + z - x - HeaderSize = q
    <3> HIDE DEF x
    <3> QED BY <1>1
  <2>3. Gathered(l, g, g) = [next |-> second, capacity |-> q, is_free |-> FALSE]
    BY <1>10, <2>1, <2>2 DEF Gathered
  <2> QED BY <1>4, <1>9, <2>1, <2>3 DEF Stands
<1>12. Stands(l, g + 1, g + 1)'
  <2> DEFINE z == s - (HeaderSize + q)
  <2>1. l[g + 1].at = second /\ l[g + 1].size = z /\ l[g + 1].is_free = TRUE
    BY <1>3, <1>5
  <2>2. second + z - second - HeaderSize = s - HeaderSize - q - HeaderSize
    <3> HIDE DEF x, s
    <3> QED BY <1>1 DEF second
  <2>3. Gathered(l, g + 1, g + 1)
          = [next |-> Behind(m, g), capacity |-> s - HeaderSize - q - HeaderSize, is_free |-> TRUE]
    BY <1>10, <2>1, <2>2 DEF Gathered
  <2> QED BY <1>9, <2>1, <2>3 DEF Stands
<1>13. ASSUME NEW i \in 1..(k + 1), i # g, i # g + 1
       PROVE  Stands(l, i, i)'
  <2>1. l[i].at # cur /\ l[i].at # second
    <3>1. l[g].at = cur /\ l[g + 1].at = second
      BY <1>3, <1>5
    <3> QED BY <1>2, <1>3, <1>13, <3>1
  <2>2. PICK j \in 1..k : l[i] = m[j] /\ Behind(l, i) = Behind(m, j)
    <3>1. CASE i < g
      <4>1. i \in 1..k /\ l[i] = m[i] /\ i < Len(l) /\ i < k /\ i + 1 \in 1..(k + 1)
        BY <1>1, <1>2, <1>3, <3>1
      <4>2. l[i + 1].at = m[i + 1].at
        <5>1. CASE i + 1 < g
          BY <1>3, <4>1, <5>1
        <5>2. CASE i + 1 = g
          BY <1>3, <5>2
        <5> QED BY <1>1, <3>1, <5>1, <5>2
      <4> QED BY <4>1, <4>2 DEF Behind
    <3>2. CASE i > g + 1
      <4>1. i - 1 \in 1..k /\ l[i] = m[i - 1]
        BY <1>1, <1>3, <3>2
      <4>2. Behind(l, i) = Behind(m, i - 1)
        <5>1. CASE i < k + 1
          <6>1. /\ i < Len(l) /\ i - 1 < k /\ i + 1 \in 1..(k + 1) /\ i + 1 > g + 1
                /\ i + 1 - 1 = i /\ i - 1 + 1 = i
            BY <1>1, <1>2, <3>2, <5>1
          <6>2. l[i + 1] = m[i]
            BY <1>3, <6>1
          <6> QED BY <6>1, <6>2 DEF Behind
        <5>2. CASE i = k + 1
          <6>1. ~(i < Len(l)) /\ ~(i - 1 < k)
            BY <1>1, <1>2, <5>2
          <6> QED BY <6>1 DEF Behind
        <5> QED BY <1>1, <5>1, <5>2
      <4> QED BY <4>1, <4>2
    <3>3. i < g \/ i > g + 1
      <4>1. i \in Int /\ g \in Int /\ i # g /\ i # g + 1
        BY <1>1, <1>13
      <4> QED BY <4>1
    <3> QED BY <3>1, <3>2, <3>3
  <2>3. m[j].at \in DOMAIN hdr /\ hdr[m[j].at] = Gathered(m, j, j)
    BY DEF Stand, Stands
  <2>4. Gathered(l, i, i) = Gathered(m, j, j)
    BY <2>2 DEF Gathered
  <2>5. l[i].at \in DOMAIN hdr' /\ hdr'[l[i].at] = Gathered(l, i, i)
    BY <1>9, <2>1, <2>2, <2>3, <2>4
  <2> QED BY <2>5 DEF Stands
<1>14. \A i \in 1..Len(l) : Stands(l, i, i)'
  BY <1>2, <1>11, <1>12, <1>13
<1> QED BY <1>14 DEF Stand, l

\* A list of which no block can take up the next is what the search makes of it.
LEMMA StandingLeads ==
  ASSUME NEW l \in Layouts, NEW q,
         \A i \in 1..Len(l) : i > 1 =>
           ~(l[i].is_free /\ l[i - 1].is_free /\ l[i].at = l[i - 1].at + l[i - 1].size)
  PROVE  /\ (\A j \in 1..Len(l) : ~HasRoom(l, j, q)) => Leads(l, q, l, 0)
         /\ \A g \in 1..Len(l) :
              HasRoom(l, g, q) /\ (\A j \in 1..Len(l) : j < g => ~HasRoom(l, j, q))
                => Leads(l, q, l, g)
<1>1. PICK s \in Seq(Nat) : Joins(l, l, s) /\ \A j \in 1..Len(l) : s[j] = Joined(l, s, j)
  BY NothingJoins
<1>2. Len(l) \in Nat
  BY LayoutShape
<1>3. (\A j \in 1..Len(l) : ~HasRoom(l, j, q)) => Leads(l, q, l, 0)
  BY <1>1 DEF Leads
<1>4. ASSUME NEW g \in 1..Len(l), HasRoom(l, g, q),
             \A j \in 1..Len(l) : j < g => ~HasRoom(l, j, q)
      PROVE  Leads(l, q, l, g)
  <2>1. g # 0
    BY <1>2
  <2> QED BY <1>1, <1>4, <2>1 DEF Leads
<1> QED BY <1>3, <1>4

\* A list of one block.
LEMMA SingleLeads ==
  ASSUME NEW x \in Blocks, x.at = HEAP_START, x.size >= HeaderSize, NEW q
  PROVE  /\ ~HasRoom(<<x>>, 1, q) => Leads(<<x>>, q, <<x>>, 0)
         /\ HasRoom(<<x>>, 1, q) => Leads(<<x>>, q, <<x>>, 1)
<1> DEFINE l == <<x>>
<1>1. l \in Layouts /\ Len(l) = 1
  BY OneBlock DEF Orderly
<1> HIDE DEF l
<1>2. \A j \in 1..Len(l) : j = 1 /\ ~(j > 1)
  BY <1>1
<1>3. /\ (\A j \in 1..Len(l) : ~HasRoom(l, j, q)) => Leads(l, q, l, 0)
      /\ \A g \in 1..Len(l) :
           HasRoom(l, g, q) /\ (\A j \in 1..Len(l) : j < g => ~HasRoom(l, j, q))
             => Leads(l, q, l, g)
  BY <1>1, <1>2, StandingLeads
<1>4. ~HasRoom(l, 1, q) => Leads(l, q, l, 0)
  BY <1>2, <1>3
<1>5. HasRoom(l, 1, q) => Leads(l, q, l, 1)
  <2>1. 1 \in 1..Len(l) /\ \A j \in 1..Len(l) : ~(j < 1)
    BY <1>1
  <2> QED BY <1>3, <2>1
<1> QED BY <1>4, <1>5 DEF l

\* A list without room, with a region behind it that has room and does not adjoin.
LEMMA RegrownLeads ==
  ASSUME NEW m, Orderly(m), NEW q \in Nat, \A i \in 1..Len(m) : ~HasRoom(m, i, q),
         \A i \in 1..Len(m) : i > 1 =>
           ~(m[i].is_free /\ m[i - 1].is_free /\ m[i].at = m[i - 1].at + m[i - 1].size),
         NEW x \in Blocks, x.is_free, x.size >= q + HeaderSize,
         m[Len(m)].at + m[Len(m)].size < x.at
  PROVE  /\ Orderly(Append(m, x))
         /\ Leads(Append(m, x), q, Append(m, x), Len(m) + 1)
<1> DEFINE l == Append(m, x)   n == Len(m)
<1>1. n \in Nat \ {0} /\ m[n].at \in Nat /\ m[n].size \in Nat /\ x.at \in Nat /\ x.size \in Nat
  BY OrderlyIs, BlockIs
<1>2. x.size >= HeaderSize /\ m[n].at + m[n].size <= x.at /\ m[n].at + m[n].size # x.at
  BY <1>1, SizesAssumption
<1>3. /\ Orderly(l) /\ Len(l) = n + 1
      /\ \A i \in 1..n : l[i] = m[i]
      /\ l[n + 1] = x
  BY <1>2, LongerOrderly
<1> HIDE DEF l
<1>4. l \in Layouts
  BY <1>3 DEF Orderly
<1>5. \A i \in 1..n : ~HasRoom(l, i, q)
  BY <1>3 DEF HasRoom
<1>6. HasRoom(l, n + 1, q)
  BY <1>3 DEF HasRoom
<1>7. ASSUME NEW i \in 1..Len(l), i > 1
      PROVE  ~(l[i].is_free /\ l[i - 1].is_free /\ l[i].at = l[i - 1].at + l[i - 1].size)
  <2>1. CASE i = n + 1
    <3>1. n \in 1..n /\ i - 1 = n
      BY <1>1, <2>1
    <3> QED BY <1>2, <1>3, <2>1, <3>1
  <2>2. CASE i \in 1..n
    <3>1. i - 1 \in 1..n
      BY <1>1, <1>7, <2>2
    <3> QED BY <1>3, <1>7, <2>2, <3>1
  <2>3. i = n + 1 \/ i \in 1..n
    BY <1>1, <1>3
  <2> QED BY <2>1, <2>2, <2>3
<1>8. n + 1 \in 1..Len(l) /\ \A j \in 1..Len(l) : j < n + 1 => j \in 1..n
  BY <1>1, <1>3
<1>9. \A g \in 1..Len(l) :
        HasRoom(l, g, q) /\ (\A j \in 1..Len(l) : j < g => ~HasRoom(l, j, q)) => Leads(l, q, l, g)
  BY <1>4, <1>7, StandingLeads
<1>10. Leads(l, q, l, n + 1)
  BY <1>5, <1>6, <1>8, <1>9
<1> QED BY <1>3, <1>10 DEF l

-----------------------------------------------------------------------------
(* What the unit tests lay out and what they assert of it.                 *)

\* The headers h are as a test asserts them.
Agrees(h, after) == \A a \in DOMAIN after : a \in DOMAIN h /\ h[a] = after[a]

\* The header of a free or a dirty block.
HeadOf(x, next) ==
  [next |-> next, capacity |-> x.size - HeaderSize, is_free |-> x.is_free]

LEMMA OneLaid ==
  ASSUME NEW x \in Blocks, x.at = HEAP_START, x.size >= HeaderSize
  PROVE  /\ DOMAIN Laid(<<x>>) = {HEAP_START}
         /\ Laid(<<x>>)[HEAP_START] = HeadOf(x, NULL)
<1> DEFINE l == <<x>>
<1>1. Orderly(l) /\ Len(l) = 1
  BY OneBlock
<1>2. l[1] = x /\ l \in Layouts
  BY <1>1 DEF Orderly
<1> HIDE DEF l
<1>3. DOMAIN Laid(l) = {l[k].at : k \in 1..1} /\ Laid(l)[l[1].at] = Gathered(l, 1, 1)
  <2>1. /\ DOMAIN Laid(l) = {l[k].at : k \in 1..Len(l)}
        /\ \A i \in 1..Len(l) : Laid(l)[l[i].at] = Gathered(l, i, i)
    BY <1>2, LaidBlock
  <2>2. 1 \in 1..1
    OBVIOUS
  <2> QED BY <1>1, <2>1, <2>2
<1>4. Gathered(l, 1, 1) = HeadOf(x, NULL)
  <2> DEFINE a == x.at   s == x.size
  <2>1. a \in Nat /\ s \in Nat /\ HeaderSize \in Nat
    BY BlockIs, SizesAssumption
  <2>2. a + s - a - HeaderSize = s - HeaderSize
    <3> HIDE DEF a, s
    <3> QED BY <2>1
  <2> QED BY <1>1, <1>2, <2>2 DEF Gathered, Behind, HeadOf
<1>5. {l[k].at : k \in 1..1} = {HEAP_START}
  BY <1>2
<1> QED BY <1>2, <1>3, <1>4, <1>5 DEF l

LEMMA PairLaid ==
  ASSUME NEW x \in Blocks, x.at = HEAP_START, x.size >= HeaderSize,
         NEW y \in Blocks, x.at + x.size <= y.at, y.size >= HeaderSize
  PROVE  /\ DOMAIN Laid(<<x, y>>) = {HEAP_START, y.at}
         /\ Laid(<<x, y>>)[HEAP_START] = HeadOf(x, y.at)
         /\ Laid(<<x, y>>)[y.at] = HeadOf(y, NULL)
         /\ y.at \in Nat \ {NULL} /\ y.at # HEAP_START
         /\ mergeable(Laid(<<x, y>>), HEAP_START)
              <=> x.is_free /\ y.is_free /\ y.at = HEAP_START + x.size
<1> DEFINE l == <<x, y>>
<1>1. Orderly(l) /\ Len(l) = 2
  BY TwoBlocks
<1>2. l[1] = x /\ l[2] = y /\ l \in Layouts
  BY <1>1 DEF Orderly
<1> HIDE DEF l
<1>3. /\ DOMAIN Laid(l) = {l[k].at : k \in 1..2}
      /\ Laid(l)[l[1].at] = Gathered(l, 1, 1) /\ Laid(l)[l[2].at] = Gathered(l, 2, 2)
  <2>1. /\ DOMAIN Laid(l) = {l[k].at : k \in 1..Len(l)}
        /\ \A i \in 1..Len(l) : Laid(l)[l[i].at] = Gathered(l, i, i)
    BY <1>2, LaidBlock
  <2>2. 1 \in 1..2 /\ 2 \in 1..2
    OBVIOUS
  <2> QED BY <1>1, <2>1, <2>2
<1> DEFINE a == x.at   s == x.size   b == y.at   t == y.size
<1>4. /\ a \in Nat /\ s \in Nat /\ b \in Nat /\ t \in Nat /\ HeaderSize \in Nat \ {0}
      /\ a # 0 /\ s >= HeaderSize /\ a + s <= b /\ a = HEAP_START
  BY BlockIs, SizesAssumption, AddressesAssumption DEF NULL
<1>5. /\ a + s - a - HeaderSize = s - HeaderSize /\ b + t - b - HeaderSize = t - HeaderSize
      /\ b # a /\ b # 0 /\ a + HeaderSize + (s - HeaderSize) = a + s
  <2> HIDE DEF a, b, s, t
  <2> QED BY <1>4
<1>6. Gathered(l, 1, 1) = HeadOf(x, y.at) /\ Gathered(l, 2, 2) = HeadOf(y, NULL)
  BY <1>1, <1>2, <1>5 DEF Gathered, Behind, HeadOf
<1>7. {l[k].at : k \in 1..2} = {HEAP_START, y.at}
  <2>1. \A k \in 1..2 : k = 1 \/ k = 2
    OBVIOUS
  <2>2. 1 \in 1..2 /\ 2 \in 1..2
    OBVIOUS
  <2> QED BY <1>2, <2>1, <2>2
<1> DEFINE h == Laid(l)
<1>8. h[HEAP_START] = HeadOf(x, b) /\ h[b] = HeadOf(y, NULL)
  BY <1>2, <1>3, <1>6
<1>9. mergeable(h, HEAP_START) <=> x.is_free /\ y.is_free /\ b = HEAP_START + s
  <2> HIDE DEF h
  <2>1. /\ h[HEAP_START].next = b /\ h[HEAP_START].is_free = x.is_free
        /\ h[HEAP_START].capacity = s - HeaderSize /\ h[b].is_free = y.is_free
    BY <1>8 DEF HeadOf
  <2> HIDE DEF a, b, s, t
  <2> QED BY <1>4, <1>5, <2>1 DEF mergeable, blocks_continuous, block_after, NULL
<1> QED BY <1>3, <1>4, <1>5, <1>7, <1>8, <1>9 DEF l, NULL

\* Two free blocks that adjoin, merged.
LEMMA MergeFields ==
  ASSUME NEW h, NEW a, NEW n, NEW c, NEW k, NEW d,
         FreeBlock(h, a, n, c), FreeBlock(h, n, k, d), n # NULL, n = a + HeaderSize + c, n # a
  PROVE  /\ mergeable(h, a)
         /\ FreeBlock(merge_with_next(h, a), a, k, c + HeaderSize + d)
<1>1. /\ a \in DOMAIN h /\ h[a].next = n /\ h[a].capacity = c /\ h[a].is_free = TRUE
      /\ h[n].next = k /\ h[n].capacity = d /\ h[n].is_free = TRUE
  BY DEF FreeBlock
<1>2. mergeable(h, a)
  BY <1>1 DEF mergeable, blocks_continuous, block_after
<1>3. /\ a \in DOMAIN merge_with_next(h, a)
      /\ merge_with_next(h, a)[a] = [next |-> k, capacity |-> c + HeaderSize + d, is_free |-> TRUE]
  BY <1>1 DEF merge_with_next
<1> QED BY <1>2, <1>3 DEF FreeBlock

MergeTests ==
  {merge_next_is_null, merge_next_is_not_continuous, merge_block_is_dirty,
   merge_next_block_is_dirty, both_blocks_are_dirty, merge_success}

\* A test of try_merge_with_next that passes.
MergeRight(u) ==
  /\ u.does = "try_merge_with_next" /\ u.counts = Unasked
  /\ u.expects = Verdict(mergeable(u.given, HEAP_START))
  /\ Agrees(try_merge_with_next(u.given, HEAP_START), u.after)

LEMMA Unmerged ==
  ASSUME NEW l, ~mergeable(Laid(l), HEAP_START)
  PROVE  MergeRight(Merges(l, FALSE, l))
<1> DEFINE u == Merges(l, FALSE, l)
<1>1. /\ u.does = "try_merge_with_next" /\ u.counts = Unasked /\ u.expects = Verdict(FALSE)
      /\ u.given = Laid(l) /\ u.after = Laid(l)
  BY DEF Merges, Test
<1> HIDE DEF u
<1>2. try_merge_with_next(u.given, HEAP_START) = u.given
  BY <1>1 DEF try_merge_with_next
<1>3. u.expects = Verdict(mergeable(u.given, HEAP_START))
  BY <1>1 DEF Verdict
<1>4. Agrees(u.given, u.after)
  BY <1>1 DEF Agrees
<1> QED BY <1>1, <1>2, <1>3, <1>4 DEF MergeRight, u

\* A block of its own and one of a pair that does not adjoin or is taken.
LEMMA AloneUnmerged ==
  ASSUME NEW x \in Blocks, x.at = HEAP_START, x.size >= HeaderSize
  PROVE  MergeRight(Merges(<<x>>, FALSE, <<x>>))
<1> DEFINE h == Laid(<<x>>)
<1>1. h[HEAP_START] = HeadOf(x, NULL)
  BY OneLaid
<1> HIDE DEF h
<1>2. ~mergeable(h, HEAP_START)
  BY <1>1 DEF mergeable, HeadOf
<1> QED BY <1>2, Unmerged DEF h

LEMMA PairUnmerged ==
  ASSUME NEW x \in Blocks, x.at = HEAP_START, x.size >= HeaderSize,
         NEW y \in Blocks, x.at + x.size <= y.at, y.size >= HeaderSize,
         ~(x.is_free /\ y.is_free /\ y.at = HEAP_START + x.size)
  PROVE  MergeRight(Merges(<<x, y>>, FALSE, <<x, y>>))
BY PairLaid, Unmerged

\* What holds of each of the blocks that the tests lay out one or two of.
Laying ==
  \A a \in {0, 256, 384, 1024}, s \in {128, 256, 384, 512, 1024} :
    /\ Free(a, s) \in Blocks /\ Dirty(a, s) \in Blocks
    /\ Free(a, s).at = HEAP_START + a /\ Dirty(a, s).at = HEAP_START + a
    /\ Free(a, s).size = s /\ Dirty(a, s).size = s
    /\ Free(a, s).is_free = TRUE /\ Dirty(a, s).is_free = FALSE
    /\ s >= HeaderSize
    /\ a = 0 => HEAP_START + a = HEAP_START

LEMMA TestBlocks == Handy => Laying
<1> SUFFICES ASSUME Handy, NEW a \in {0, 256, 384, 1024}, NEW s \in {128, 256, 384, 512, 1024}
             PROVE  /\ Free(a, s) \in Blocks /\ Dirty(a, s) \in Blocks
                    /\ Free(a, s).at = HEAP_START + a /\ Dirty(a, s).at = HEAP_START + a
                    /\ Free(a, s).size = s /\ Dirty(a, s).size = s
                    /\ Free(a, s).is_free = TRUE /\ Dirty(a, s).is_free = FALSE
                    /\ s >= HeaderSize
                    /\ a = 0 => HEAP_START + a = HEAP_START
  BY DEF Laying
<1>1. HeaderSize \in Nat /\ HeaderSize <= 128 /\ HEAP_START \in Nat
  BY HandySizes
<1>2. s >= HeaderSize /\ (a = 0 => HEAP_START + a = HEAP_START) /\ a \in Nat /\ s \in Nat
  BY <1>1
<1>3. Free(a, s) \in Blocks /\ Dirty(a, s) \in Blocks
  BY <1>2, FreeOrDirty
<1> QED BY <1>2, <1>3 DEF Free, Dirty

\* A header that gets another block behind it.
LEMMA Relinked ==
  ASSUME NEW n, NEW c, NEW f, NEW k, NEW r, r = [next |-> n, capacity |-> c, is_free |-> f]
  PROVE  [r EXCEPT !.next = k] = [next |-> k, capacity |-> c, is_free |-> f]
OBVIOUS

LEMMA MergeSuccess == ASSUME Handy PROVE MergeRight(merge_success)
<1>1. PICK k : k = 5256
  OBVIOUS
<1> DEFINE x == Free(0, 256)   y == Free(256, 128)   z == Free(0, 384)
           h == Laid(<<x, y>>)   f == Laid(<<z>>)   at == HEAP_START + 256
           g == [h EXCEPT ![at].next = k]   o == [f EXCEPT ![HEAP_START].next = k]
           t == Merges(<<x, y>>, TRUE, <<z>>)   u == merge_success
           c == 256 - HeaderSize   d == 128 - HeaderSize   w == merge_with_next(g, HEAP_START)
<1>2. /\ x \in Blocks /\ x.at = HEAP_START /\ x.size = 256 /\ x.is_free = TRUE /\ x.size >= HeaderSize
      /\ y \in Blocks /\ y.at = at /\ y.size = 128 /\ y.is_free = TRUE /\ y.size >= HeaderSize
      /\ z \in Blocks /\ z.at = HEAP_START /\ z.size = 384 /\ z.is_free = TRUE /\ z.size >= HeaderSize
  BY TestBlocks DEF Laying
<1>3. HEAP_START \in Nat \ {NULL} /\ HeaderSize \in Nat
  BY HandySizes
<1> HIDE DEF x, y, z
<1>4. /\ DOMAIN h = {HEAP_START, at} /\ h[HEAP_START] = HeadOf(x, at) /\ h[at] = HeadOf(y, NULL)
      /\ at \in Nat \ {NULL} /\ at # HEAP_START
  <2>1. x.at + x.size <= y.at
    BY <1>2, <1>3
  <2> QED BY <1>2, <2>1, PairLaid
<1>5. DOMAIN f = {HEAP_START} /\ f[HEAP_START] = HeadOf(z, NULL)
  BY <1>2, OneLaid
<1>6. /\ u.does = "try_merge_with_next" /\ u.counts = Unasked /\ u.expects = Verdict(TRUE)
      /\ u.given = g /\ u.after = o
  <2>1. /\ t.does = "try_merge_with_next" /\ t.counts = Unasked /\ t.expects = Verdict(TRUE)
        /\ t.given = h /\ t.after = f
        /\ DOMAIN t = {"does", "arg", "list", "given", "stub", "expects", "counts", "after"}
    <3> HIDE DEF h, f
    <3> QED BY DEF Merges, Test, h, f
  <2>2. u = [t EXCEPT !.given[at].next = k, !.after[HEAP_START].next = k]
    BY <1>1 DEF merge_success, x, y, z
  <2> HIDE DEF t, u, h, f, at
  <2>3. /\ u.does = t.does /\ u.counts = t.counts /\ u.expects = t.expects
        /\ u.given = [t.given EXCEPT ![at].next = k]
        /\ u.after = [t.after EXCEPT ![HEAP_START].next = k]
    BY <2>1, <2>2
  <2> QED BY <2>1, <2>3
<1> HIDE DEF h, f, t, u
<1>7. FreeBlock(g, HEAP_START, at, c)
  <2>1. HEAP_START \in DOMAIN g /\ g[HEAP_START] = h[HEAP_START]
    BY <1>4
  <2> HIDE DEF g, at
  <2>2. g[HEAP_START] = [next |-> at, capacity |-> 256 - HeaderSize, is_free |-> TRUE]
    BY <1>2, <1>4, <2>1 DEF HeadOf
  <2> QED BY <2>1, <2>2 DEF FreeBlock
<1>8. FreeBlock(g, at, k, d)
  <2> DEFINE r == h[at]
  <2>1. at \in DOMAIN g /\ g[at] = [r EXCEPT !.next = k]
    BY <1>4
  <2>2. r = [next |-> NULL, capacity |-> d, is_free |-> TRUE]
    <3>1. y.size = 128 /\ y.is_free = TRUE /\ r = HeadOf(y, NULL)
      BY <1>2, <1>4
    <3> QED BY <3>1 DEF HeadOf
  <2> HIDE DEF r, g, d
  <2>3. g[at] = [next |-> k, capacity |-> d, is_free |-> TRUE]
    BY <2>1, <2>2, Relinked
  <2> HIDE DEF at
  <2> QED BY <2>1, <2>3 DEF FreeBlock
<1>9. /\ DOMAIN o = {HEAP_START}
      /\ o[HEAP_START] = [next |-> k, capacity |-> c + HeaderSize + d, is_free |-> TRUE]
  <2> DEFINE r == f[HEAP_START]
  <2>1. DOMAIN o = {HEAP_START} /\ o[HEAP_START] = [r EXCEPT !.next = k]
    BY <1>5
  <2>2. r = [next |-> NULL, capacity |-> 384 - HeaderSize, is_free |-> TRUE]
    <3>1. z.size = 384 /\ z.is_free = TRUE /\ r = HeadOf(z, NULL)
      BY <1>2, <1>5
    <3> QED BY <3>1 DEF HeadOf
  <2>3. 384 - HeaderSize = c + HeaderSize + d
    BY <1>3
  <2> HIDE DEF r, o, c, d
  <2>4. r = [next |-> NULL, capacity |-> c + HeaderSize + d, is_free |-> TRUE]
    BY <2>2, <2>3
  <2> QED BY <2>1, <2>4, Relinked
<1>10. at # NULL /\ at = HEAP_START + HeaderSize + c /\ at # HEAP_START
  BY <1>3, <1>4
<1> HIDE DEF g, o, at, c, d
<1>11. mergeable(g, HEAP_START) /\ FreeBlock(w, HEAP_START, k, c + HeaderSize + d)
  BY <1>7, <1>8, <1>10, MergeFields
<1> HIDE DEF w
<1>12. Agrees(w, o)
  <2>1. HEAP_START \in DOMAIN w /\ w[HEAP_START] = o[HEAP_START]
    BY <1>9, <1>11 DEF FreeBlock
  <2> QED BY <1>9, <2>1 DEF Agrees
<1>13. try_merge_with_next(u.given, HEAP_START) = w
  BY <1>6, <1>11 DEF try_merge_with_next, w
<1>14. u.expects = Verdict(mergeable(u.given, HEAP_START))
  BY <1>6, <1>11 DEF Verdict
<1> QED BY <1>6, <1>12, <1>13, <1>14 DEF MergeRight, u

LEMMA MergesPass ==
  ASSUME Handy, NEW u \in MergeTests
  PROVE  MergeRight(u)
<1>1. Laying
  BY TestBlocks
<1>2. /\ HEAP_START \in Nat
      /\ HEAP_START + 128 <= HEAP_START + 384 /\ HEAP_START + 256 <= HEAP_START + 256
      /\ HEAP_START + 384 # HEAP_START + 128
  BY HandySizes
<1>3. MergeRight(merge_next_is_null)
  <2> DEFINE x == Free(0, 512)
  <2>1. x \in Blocks /\ x.at = HEAP_START /\ x.size >= HeaderSize
    BY <1>1 DEF Laying
  <2> HIDE DEF x
  <2>2. MergeRight(Merges(<<x>>, FALSE, <<x>>))
    BY <2>1, AloneUnmerged
  <2> QED BY <2>2 DEF x, merge_next_is_null
<1>4. MergeRight(merge_next_is_not_continuous)
  <2> DEFINE x == Free(0, 128)   y == Free(384, 128)
  <2>1. /\ x \in Blocks /\ x.at = HEAP_START /\ x.size >= HeaderSize
        /\ y \in Blocks /\ x.at + x.size <= y.at /\ y.size >= HeaderSize
        /\ ~(x.is_free /\ y.is_free /\ y.at = HEAP_START + x.size)
    BY <1>1, <1>2 DEF Laying
  <2> HIDE DEF x, y
  <2>2. MergeRight(Merges(<<x, y>>, FALSE, <<x, y>>))
    BY <2>1, PairUnmerged
  <2> QED BY <2>2 DEF x, y, merge_next_is_not_continuous
<1>5. MergeRight(merge_block_is_dirty)
  <2> DEFINE x == Dirty(0, 256)   y == Free(256, 256)
  <2>1. /\ x \in Blocks /\ x.at = HEAP_START /\ x.size >= HeaderSize
        /\ y \in Blocks /\ x.at + x.size <= y.at /\ y.size >= HeaderSize
        /\ ~(x.is_free /\ y.is_free /\ y.at = HEAP_START + x.size)
    BY <1>1, <1>2 DEF Laying
  <2> HIDE DEF x, y
  <2>2. MergeRight(Merges(<<x, y>>, FALSE, <<x, y>>))
    BY <2>1, PairUnmerged
  <2> QED BY <2>2 DEF x, y, merge_block_is_dirty
<1>6. MergeRight(merge_next_block_is_dirty)
  <2> DEFINE x == Free(0, 256)   y == Dirty(256, 256)
  <2>1. /\ x \in Blocks /\ x.at = HEAP_START /\ x.size >= HeaderSize
        /\ y \in Blocks /\ x.at + x.size <= y.at /\ y.size >= HeaderSize
        /\ ~(x.is_free /\ y.is_free /\ y.at = HEAP_START + x.size)
    BY <1>1, <1>2 DEF Laying
  <2> HIDE DEF x, y
  <2>2. MergeRight(Merges(<<x, y>>, FALSE, <<x, y>>))
    BY <2>1, PairUnmerged
  <2> QED BY <2>2 DEF x, y, merge_next_block_is_dirty
<1>7. MergeRight(both_blocks_are_dirty)
  <2> DEFINE x == Dirty(0, 256)   y == Dirty(256, 256)
  <2>1. /\ x \in Blocks /\ x.at = HEAP_START /\ x.size >= HeaderSize
        /\ y \in Blocks /\ x.at + x.size <= y.at /\ y.size >= HeaderSize
        /\ ~(x.is_free /\ y.is_free /\ y.at = HEAP_START + x.size)
    BY <1>1, <1>2 DEF Laying
  <2> HIDE DEF x, y
  <2>2. MergeRight(Merges(<<x, y>>, FALSE, <<x, y>>))
    BY <2>1, PairUnmerged
  <2> QED BY <2>2 DEF x, y, both_blocks_are_dirty
<1> QED BY <1>3, <1>4, <1>5, <1>6, <1>7, MergeSuccess DEF MergeTests

SplitTests == {not_free, not_big_enough, not_big_enough_for_min_capacity, split_success}

\* A test of split_if_too_big that passes.
SplitRight(u) ==
  /\ u.does = "split_if_too_big" /\ u.counts = Unasked
  /\ u.expects = Verdict(block_splittable(u.given, HEAP_START, u.arg))
  /\ Agrees(split_if_too_big(u.given, HEAP_START, u.arg), u.after)

LEMMA Unsplit ==
  ASSUME NEW l, NEW q, ~block_splittable(Laid(l), HEAP_START, q)
  PROVE  SplitRight(Splits(q, l, FALSE, l))
<1> DEFINE u == Splits(q, l, FALSE, l)
<1>1. /\ u.does = "split_if_too_big" /\ u.counts = Unasked /\ u.expects = Verdict(FALSE)
      /\ u.given = Laid(l) /\ u.after = Laid(l) /\ u.arg = q
  BY DEF Splits, Test
<1> HIDE DEF u
<1>2. split_if_too_big(u.given, HEAP_START, u.arg) = u.given
  BY <1>1 DEF split_if_too_big
<1>3. u.expects = Verdict(block_splittable(u.given, HEAP_START, u.arg))
  BY <1>1 DEF Verdict
<1>4. Agrees(u.given, u.after)
  BY <1>1 DEF Agrees
<1> QED BY <1>1, <1>2, <1>3, <1>4 DEF SplitRight, u

\* A block that is taken or has no room for q bytes and another block.
LEMMA AloneUnsplit ==
  ASSUME NEW x \in Blocks, x.at = HEAP_START, x.size >= HeaderSize, NEW q \in Int,
         ~x.is_free \/ q + 2 * HeaderSize + BlockMinCapacity > x.size
  PROVE  SplitRight(Splits(q, <<x>>, FALSE, <<x>>))
<1> DEFINE h == Laid(<<x>>)   s == x.size
<1>1. h[HEAP_START] = HeadOf(x, NULL)
  BY OneLaid
<1>2. h[HEAP_START].capacity = s - HeaderSize /\ h[HEAP_START].is_free = x.is_free
  <2> HIDE DEF h
  <2> QED BY <1>1 DEF HeadOf
<1> HIDE DEF h
<1>3. s \in Nat /\ HeaderSize \in Nat /\ BlockMinCapacity \in Nat
  BY BlockIs, SizesAssumption
<1>4. x.is_free => ~(q + HeaderSize + BlockMinCapacity <= s - HeaderSize)
  <2>1. x.is_free => q + 2 * HeaderSize + BlockMinCapacity > s
    OBVIOUS
  <2> HIDE DEF s
  <2> QED BY <1>3, <2>1
<1>5. ~block_splittable(h, HEAP_START, q)
  BY <1>2, <1>4 DEF block_splittable
<1> QED BY <1>5, Unsplit DEF h

LEMMA SplitSuccess == ASSUME Handy PROVE SplitRight(split_success)
<1> DEFINE q == BlockMinCapacity   n == HeaderSize + BlockMinCapacity
           x == Free(0, 512)   y == Free(0, n)   z == Free(n, 512 - n)
           h == Laid(<<x>>)   o == Laid(<<y, z>>)   second == HEAP_START + HeaderSize + q
           u == split_success   g == split(h, HEAP_START, q)   c == 512 - HeaderSize
<1>1. /\ HEAP_START \in Nat \ {NULL} /\ HeaderSize \in Nat /\ HeaderSize >= 1 /\ q \in Nat
      /\ 2 * HeaderSize + q <= 128
  BY HandySizes
<1>2. /\ x \in Blocks /\ x.at = HEAP_START /\ x.size = 512 /\ x.is_free = TRUE /\ x.size >= HeaderSize
  BY TestBlocks DEF Laying
<1>3. /\ y \in Blocks /\ y.at = HEAP_START /\ y.size = n /\ y.is_free = TRUE /\ y.size >= HeaderSize
      /\ z \in Blocks /\ z.at = second /\ z.size = 512 - n /\ z.is_free = TRUE
      /\ z.size >= HeaderSize /\ y.at + y.size = z.at
  <2>1. /\ n \in Nat /\ 512 - n \in Nat /\ 512 - n >= HeaderSize /\ n >= HeaderSize
        /\ HEAP_START + 0 = HEAP_START /\ HEAP_START + n = second
    BY <1>1
  <2>2. 0 \in Nat /\ y \in Blocks /\ z \in Blocks
    BY <2>1, FreeOrDirty
  <2>3. /\ y.at = HEAP_START + 0 /\ y.size = n /\ y.is_free = TRUE
        /\ z.at = HEAP_START + n /\ z.size = 512 - n /\ z.is_free = TRUE
    BY DEF Free
  <2> HIDE DEF y, z, n, second
  <2> QED BY <2>1, <2>2, <2>3
<1> HIDE DEF x, y, z
<1>4. DOMAIN h = {HEAP_START} /\ h[HEAP_START] = HeadOf(x, NULL)
  BY <1>2, OneLaid
<1>5. DOMAIN o = {HEAP_START, second} /\ o[HEAP_START] = HeadOf(y, second) /\ o[second] = HeadOf(z, NULL)
  <2>1. y.at + y.size <= z.at
    <3>1. y.at \in Nat /\ y.size \in Nat
      BY <1>3, BlockIs
    <3> QED BY <1>3, <3>1
  <2>2. /\ y \in Blocks /\ y.at = HEAP_START /\ y.size >= HeaderSize
        /\ z \in Blocks /\ z.size >= HeaderSize /\ z.at = second
    BY <1>3
  <2> HIDE DEF second, n
  <2> QED BY <2>1, <2>2, PairLaid
<1>6. /\ u.does = "split_if_too_big" /\ u.counts = Unasked /\ u.expects = Verdict(TRUE)
      /\ u.given = h /\ u.after = o /\ u.arg = q
  <2>1. u = Splits(q, <<x>>, TRUE, <<y, z>>)
    BY DEF split_success, x, y, z
  <2> HIDE DEF u, h, o
  <2> QED BY <2>1 DEF Splits, Test, h, o
<1> HIDE DEF h, o, u
<1>7. FreeBlock(h, HEAP_START, NULL, c)
  <2>1. x.size = 512 /\ x.is_free = TRUE /\ HEAP_START \in DOMAIN h /\ h[HEAP_START] = HeadOf(x, NULL)
    BY <1>2, <1>4
  <2>2. h[HEAP_START] = [next |-> NULL, capacity |-> c, is_free |-> TRUE]
    BY <2>1 DEF HeadOf
  <2> HIDE DEF c
  <2> QED BY <2>1, <2>2 DEF FreeBlock
<1>8. second # HEAP_START /\ q + HeaderSize + BlockMinCapacity <= c
  BY <1>1
<1>9. block_splittable(h, HEAP_START, q)
  <2>1. h[HEAP_START].is_free /\ h[HEAP_START].capacity = c
    <3> HIDE DEF c
    <3> QED BY <1>7 DEF FreeBlock
  <2> HIDE DEF c, q
  <2> QED BY <1>8, <2>1 DEF block_splittable
<1>10. Cleft(h, HEAP_START, q, NULL, c, second, g)
  <2> HIDE DEF c
  <2> QED BY <1>7, <1>8, SplitFields
<1>11. Agrees(g, o)
  <2> HIDE DEF g
  <2>1. /\ DOMAIN g = {HEAP_START, second}
        /\ g[HEAP_START] = [next |-> second, capacity |-> q, is_free |-> TRUE]
        /\ g[second] = [next |-> NULL, capacity |-> c - q - HeaderSize, is_free |-> TRUE]
    BY <1>4, <1>10 DEF Cleft
  <2>2. n - HeaderSize = q /\ 512 - n - HeaderSize = c - q - HeaderSize
    BY <1>1
  <2>3. o[HEAP_START] = g[HEAP_START]
    <3>1. y.size = n /\ y.is_free = TRUE
      BY <1>3
    <3> HIDE DEF n, c, second, q
    <3>2. HeadOf(y, second) = [next |-> second, capacity |-> q, is_free |-> TRUE]
      BY <2>2, <3>1 DEF HeadOf
    <3> QED BY <1>5, <2>1, <3>2
  <2>4. o[second] = g[second]
    <3>1. z.size = 512 - n /\ z.is_free = TRUE
      BY <1>3
    <3>2. 512 - n - HeaderSize = c - q - HeaderSize
      BY <2>2
    <3> HIDE DEF n, c, second, q
    <3>3. HeadOf(z, NULL) = [next |-> NULL, capacity |-> c - q - HeaderSize, is_free |-> TRUE]
      BY <3>1, <3>2 DEF HeadOf
    <3> QED BY <1>5, <2>1, <3>3
  <2> QED BY <1>5, <2>1, <2>3, <2>4 DEF Agrees
<1> HIDE DEF g
<1>12. split_if_too_big(u.given, HEAP_START, u.arg) = g
  BY <1>6, <1>9 DEF split_if_too_big, g
<1>13. u.expects = Verdict(block_splittable(u.given, HEAP_START, u.arg))
  BY <1>6, <1>9 DEF Verdict
<1> QED BY <1>6, <1>11, <1>12, <1>13 DEF SplitRight, u

LEMMA SplitsPass ==
  ASSUME Handy, NEW u \in SplitTests
  PROVE  SplitRight(u)
<1>1. /\ HeaderSize \in Nat /\ HeaderSize >= 1 /\ BlockMinCapacity \in Nat
      /\ HeaderSize \div 2 \in Nat /\ HeaderSize \div 2 < HeaderSize
  <2>1. HeaderSize \in Nat /\ HeaderSize >= 1 /\ BlockMinCapacity \in Nat
    BY HandySizes
  <2> QED BY <2>1
<1> DEFINE x == Free(0, 512)   y == Dirty(0, 512)   half == HeaderSize \div 2
           q == 512 - SMALL_BLOCK_SIZE   p == 512 - SMALL_BLOCK_SIZE - HeaderSize
<1>2. /\ x \in Blocks /\ x.at = HEAP_START /\ x.size >= HeaderSize /\ x.size = 512
      /\ y \in Blocks /\ y.at = HEAP_START /\ y.size >= HeaderSize /\ ~y.is_free
  BY TestBlocks DEF Laying
<1>3. /\ q \in Int /\ p \in Int
      /\ q + 2 * HeaderSize + BlockMinCapacity > 512
      /\ p + 2 * HeaderSize + BlockMinCapacity > 512
  <2>1. q = 512 - (BlockMinCapacity + half) /\ p = 512 - (BlockMinCapacity + half) - HeaderSize
    BY DEF SMALL_BLOCK_SIZE
  <2> HIDE DEF q, p, half
  <2>2. half \in Nat /\ half < HeaderSize
    BY <1>1 DEF half
  <2> QED BY <1>1, <2>1, <2>2
<1> HIDE DEF x, y, q, p
<1>4. SplitRight(Splits(p, <<y>>, FALSE, <<y>>))
  BY <1>2, <1>3, AloneUnsplit
<1>5. SplitRight(Splits(q, <<x>>, FALSE, <<x>>))
  BY <1>2, <1>3, AloneUnsplit
<1>6. SplitRight(Splits(p, <<x>>, FALSE, <<x>>))
  BY <1>2, <1>3, AloneUnsplit
<1>7. SplitRight(not_free)
  BY <1>4 DEF not_free, y, p
<1>8. SplitRight(not_big_enough)
  BY <1>5 DEF not_big_enough, x, q
<1>9. SplitRight(not_big_enough_for_min_capacity)
  BY <1>6 DEF not_big_enough_for_min_capacity, x, p
<1> QED BY <1>7, <1>8, <1>9, SplitSuccess DEF SplitTests

FreeTests ==
  {free_null, free_next_is_null, free_next_is_not_continuous, free_next_block_is_dirty,
   free_merge}

\* The headers once the first block of a test is free.
Opened(h) == [h EXCEPT ![HEAP_START].is_free = TRUE]
Freed(u) == Opened(u.given)

\* A test of _free that passes: it merges once at most.
FreeRight(u) ==
  /\ u.does = "_free" /\ u.counts = Unasked /\ u.expects = Void
  /\ \/ u.arg = NULL /\ Agrees(u.given, u.after)
     \/ /\ u.arg = HEAP_START
        /\ ~mergeable(Freed(u), HEAP_START) /\ Agrees(Freed(u), u.after)
     \/ /\ u.arg = HEAP_START
        /\ mergeable(Freed(u), HEAP_START)
        /\ ~mergeable(merge_with_next(Freed(u), HEAP_START), HEAP_START)
        /\ Agrees(merge_with_next(Freed(u), HEAP_START), u.after)

LEMMA FreeFields ==
  ASSUME NEW l, NEW m
  PROVE  LET u == Frees(l, m)
         IN  /\ u.does = "_free" /\ u.counts = Unasked /\ u.expects = Void
             /\ u.arg = HEAP_START /\ u.given = Laid(l) /\ u.after = Laid(m)
             /\ DOMAIN u = {"does", "arg", "list", "given", "stub", "expects", "counts", "after"}
BY DEF Frees, Test

LEMMA FreeNull == FreeRight(free_null)
<1> DEFINE e == <<>>   t == Frees(e, e)   u == free_null
<1>1. /\ t.does = "_free" /\ t.counts = Unasked /\ t.expects = Void /\ t.after = Laid(e)
      /\ DOMAIN t = {"does", "arg", "list", "given", "stub", "expects", "counts", "after"}
  BY FreeFields
<1>2. u = [t EXCEPT !.arg = NULL]
  BY DEF free_null
<1> HIDE DEF t, u
<1>3. /\ u.does = t.does /\ u.counts = t.counts /\ u.expects = t.expects /\ u.after = t.after
      /\ u.arg = NULL
  BY <1>1, <1>2
<1>4. DOMAIN Laid(e) = {}
  BY DEF Laid
<1> HIDE DEF e
<1>5. Agrees(u.given, u.after)
  BY <1>1, <1>3, <1>4 DEF Agrees
<1> QED BY <1>1, <1>3, <1>5 DEF FreeRight, u

\* The block z is x, freed.
Emptied(x, z) == z.size = x.size /\ z.is_free = TRUE

\* The first block freed.
LEMMA FreedIs ==
  ASSUME NEW h, NEW n, NEW x, NEW z, Emptied(x, z),
         HEAP_START \in DOMAIN h, h[HEAP_START] = HeadOf(x, n)
  PROVE  /\ DOMAIN Opened(h) = DOMAIN h /\ Opened(h)[HEAP_START] = HeadOf(z, n)
         /\ \A a \in DOMAIN h : a # HEAP_START => Opened(h)[a] = h[a]
<1> DEFINE g == Opened(h)   r == h[HEAP_START]   c == x.size - HeaderSize
<1>1. /\ DOMAIN g = DOMAIN h /\ g[HEAP_START] = [r EXCEPT !.is_free = TRUE]
      /\ \A a \in DOMAIN h : a # HEAP_START => g[a] = h[a]
  BY DEF Opened
<1>2. r = [next |-> n, capacity |-> c, is_free |-> x.is_free]
  BY DEF HeadOf
<1>3. HeadOf(z, n) = [next |-> n, capacity |-> c, is_free |-> TRUE]
  BY DEF HeadOf, Emptied
<1> HIDE DEF r, c, g
<1>4. g[HEAP_START] = HeadOf(z, n)
  BY <1>1, <1>2, <1>3
<1> QED BY <1>1, <1>4 DEF g

\* A block of its own, and one whose neighbour is taken or apart.
LEMMA FreedAlone ==
  ASSUME NEW x \in Blocks, x.at = HEAP_START, x.size >= HeaderSize,
         NEW z \in Blocks, z.at = HEAP_START, z.size = x.size, z.is_free = TRUE
  PROVE  FreeRight(Frees(<<x>>, <<z>>))
<1> DEFINE u == Frees(<<x>>, <<z>>)   h == Laid(<<x>>)   o == Laid(<<z>>)   g == Freed(u)
<1>1. /\ u.does = "_free" /\ u.counts = Unasked /\ u.expects = Void
      /\ u.arg = HEAP_START /\ u.given = h /\ u.after = o
  BY FreeFields
<1>2. /\ DOMAIN h = {HEAP_START} /\ h[HEAP_START] = HeadOf(x, NULL)
      /\ DOMAIN o = {HEAP_START} /\ o[HEAP_START] = HeadOf(z, NULL)
  BY OneLaid
<1> HIDE DEF u, h, o
<1>3. g = Opened(h)
  BY <1>1 DEF Freed
<1> HIDE DEF g
<1>4. DOMAIN g = DOMAIN h /\ g[HEAP_START] = HeadOf(z, NULL)
  <2>1. HEAP_START \in DOMAIN h
    BY <1>2
  <2>2. Emptied(x, z)
    BY DEF Emptied
  <2> QED BY <1>2, <1>3, <2>1, <2>2, FreedIs
<1>5. ~mergeable(g, HEAP_START)
  BY <1>4 DEF mergeable, HeadOf
<1>6. Agrees(g, o)
  BY <1>2, <1>4 DEF Agrees
<1> QED BY <1>1, <1>5, <1>6 DEF FreeRight, u, g

LEMMA FreedPair ==
  ASSUME NEW x \in Blocks, x.at = HEAP_START, x.size >= HeaderSize,
         NEW z \in Blocks, z.at = HEAP_START, z.size = x.size, z.is_free = TRUE,
         NEW y \in Blocks, HEAP_START + x.size <= y.at, y.size >= HeaderSize,
         ~y.is_free \/ y.at # HEAP_START + x.size
  PROVE  FreeRight(Frees(<<x, y>>, <<z, y>>))
<1> DEFINE u == Frees(<<x, y>>, <<z, y>>)   h == Laid(<<x, y>>)   o == Laid(<<z, y>>)
           g == Freed(u)   b == y.at
<1>1. /\ u.does = "_free" /\ u.counts = Unasked /\ u.expects = Void
      /\ u.arg = HEAP_START /\ u.given = h /\ u.after = o
  BY FreeFields
<1>2. /\ DOMAIN h = {HEAP_START, b} /\ h[HEAP_START] = HeadOf(x, b) /\ h[b] = HeadOf(y, NULL)
      /\ b # HEAP_START
  BY PairLaid
<1>3. /\ DOMAIN o = {HEAP_START, b} /\ o[HEAP_START] = HeadOf(z, b) /\ o[b] = HeadOf(y, NULL)
      /\ ~mergeable(o, HEAP_START)
  BY PairLaid
<1> HIDE DEF u, h, o, b
<1>4. g = Opened(h)
  BY <1>1 DEF Freed
<1> HIDE DEF g
<1>5. /\ DOMAIN g = DOMAIN h /\ g[HEAP_START] = HeadOf(z, b)
      /\ \A a \in DOMAIN h : a # HEAP_START => g[a] = h[a]
  <2>1. HEAP_START \in DOMAIN h
    BY <1>2
  <2>2. Emptied(x, z)
    BY DEF Emptied
  <2> QED BY <1>2, <1>4, <2>1, <2>2, FreedIs
<1>6. g[b] = HeadOf(y, NULL)
  BY <1>2, <1>5
<1>7. g[HEAP_START] = o[HEAP_START] /\ g[b] = o[b] /\ o[HEAP_START].next = b
  BY <1>3, <1>5, <1>6 DEF HeadOf
<1>8. ~mergeable(g, HEAP_START)
  BY <1>3, <1>7 DEF mergeable, blocks_continuous, block_after
<1>9. Agrees(g, o)
  BY <1>2, <1>3, <1>5, <1>7 DEF Agrees
<1> QED BY <1>1, <1>8, <1>9 DEF FreeRight, u, g

LEMMA FreeMerges == ASSUME Handy PROVE FreeRight(free_merge)
<1> DEFINE x == Dirty(0, 256)   w == Free(0, 256)   y == Free(256, 128)   z == Free(0, 384)
           h == Laid(<<x, y>>)   o == Laid(<<z>>)   at == HEAP_START + 256
           u == free_merge   g == Freed(u)   m == merge_with_next(g, HEAP_START)
           c == 256 - HeaderSize   d == 128 - HeaderSize
<1>1. /\ x \in Blocks /\ x.at = HEAP_START /\ x.size = 256 /\ x.size >= HeaderSize
      /\ w \in Blocks /\ w.size = 256 /\ w.is_free = TRUE
      /\ y \in Blocks /\ y.at = at /\ y.size = 128 /\ y.is_free = TRUE /\ y.size >= HeaderSize
      /\ z \in Blocks /\ z.at = HEAP_START /\ z.size = 384 /\ z.is_free = TRUE /\ z.size >= HeaderSize
  BY TestBlocks DEF Laying
<1>2. HEAP_START \in Nat \ {NULL} /\ HeaderSize \in Nat
  BY HandySizes
<1>3. /\ u.does = "_free" /\ u.counts = Unasked /\ u.expects = Void
      /\ u.arg = HEAP_START /\ u.given = h /\ u.after = o
  BY FreeFields DEF free_merge
<1> HIDE DEF x, w, y, z
<1>4. /\ DOMAIN h = {HEAP_START, at} /\ h[HEAP_START] = HeadOf(x, at) /\ h[at] = HeadOf(y, NULL)
      /\ at \in Nat \ {NULL} /\ at # HEAP_START
  <2>1. x.at + x.size <= y.at
    BY <1>1, <1>2
  <2> QED BY <1>1, <2>1, PairLaid
<1>5. DOMAIN o = {HEAP_START} /\ o[HEAP_START] = HeadOf(z, NULL)
  BY <1>1, OneLaid
<1>6. at = HEAP_START + HeaderSize + c /\ c + HeaderSize + d = 384 - HeaderSize
  BY <1>2
<1> HIDE DEF h, o, u, at
<1>7. g = Opened(h)
  BY <1>3 DEF Freed
<1> HIDE DEF g
<1>8. /\ DOMAIN g = DOMAIN h /\ g[HEAP_START] = HeadOf(w, at)
      /\ \A a \in DOMAIN h : a # HEAP_START => g[a] = h[a]
  <2>1. HEAP_START \in DOMAIN h
    BY <1>4
  <2>2. Emptied(x, w)
    BY <1>1 DEF Emptied
  <2> QED BY <1>1, <1>4, <1>7, <2>1, <2>2, FreedIs
<1>9. FreeBlock(g, HEAP_START, at, c) /\ FreeBlock(g, at, NULL, d)
  <2>1. HEAP_START \in DOMAIN g /\ at \in DOMAIN g /\ g[at] = HeadOf(y, NULL)
    BY <1>4, <1>8
  <2>2. /\ HeadOf(w, at) = [next |-> at, capacity |-> c, is_free |-> TRUE]
        /\ HeadOf(y, NULL) = [next |-> NULL, capacity |-> d, is_free |-> TRUE]
    BY <1>1 DEF HeadOf
  <2> QED BY <1>8, <2>1, <2>2 DEF FreeBlock
<1> HIDE DEF c, d
<1>10. mergeable(g, HEAP_START) /\ FreeBlock(m, HEAP_START, NULL, c + HeaderSize + d)
  BY <1>4, <1>6, <1>9, MergeFields
<1> HIDE DEF m
<1>11. ~mergeable(m, HEAP_START)
  BY <1>10 DEF mergeable, FreeBlock
<1>12. Agrees(m, o)
  <2>1. z.size = 384 /\ z.is_free = TRUE /\ c + HeaderSize + d = 384 - HeaderSize
    BY <1>1, <1>6
  <2>2. HeadOf(z, NULL) = [next |-> NULL, capacity |-> c + HeaderSize + d, is_free |-> TRUE]
    BY <2>1 DEF HeadOf
  <2>3. HEAP_START \in DOMAIN m /\ m[HEAP_START] = o[HEAP_START]
    BY <1>5, <1>10, <2>2 DEF FreeBlock
  <2> QED BY <1>5, <2>3 DEF Agrees
<1> QED BY <1>3, <1>10, <1>11, <1>12 DEF FreeRight, u, g, m

LEMMA FreesPass ==
  ASSUME Handy, NEW u \in FreeTests
  PROVE  FreeRight(u)
<1>1. Laying
  BY TestBlocks
<1>2. /\ HEAP_START \in Nat
      /\ HEAP_START + 128 <= HEAP_START + 384 /\ HEAP_START + 256 <= HEAP_START + 256
      /\ HEAP_START + 384 # HEAP_START + 128
  BY HandySizes
<1>3. FreeRight(free_next_is_null)
  <2> DEFINE x == Dirty(0, 512)   z == Free(0, 512)
  <2>1. /\ x \in Blocks /\ x.at = HEAP_START /\ x.size >= HeaderSize
        /\ z \in Blocks /\ z.at = HEAP_START /\ z.size = x.size /\ z.is_free = TRUE
    BY <1>1 DEF Laying
  <2> HIDE DEF x, z
  <2>2. FreeRight(Frees(<<x>>, <<z>>))
    BY <2>1, FreedAlone
  <2> QED BY <2>2 DEF x, z, free_next_is_null
<1>4. FreeRight(free_next_is_not_continuous)
  <2> DEFINE x == Dirty(0, 128)   z == Free(0, 128)   y == Free(384, 128)
  <2>1. /\ x \in Blocks /\ x.at = HEAP_START /\ x.size >= HeaderSize
        /\ z \in Blocks /\ z.at = HEAP_START /\ z.size = x.size /\ z.is_free = TRUE
        /\ y \in Blocks /\ HEAP_START + x.size <= y.at /\ y.size >= HeaderSize
        /\ y.at # HEAP_START + x.size
    BY <1>1, <1>2 DEF Laying
  <2> HIDE DEF x, y, z
  <2>2. FreeRight(Frees(<<x, y>>, <<z, y>>))
    BY <2>1, FreedPair
  <2> QED BY <2>2 DEF x, y, z, free_next_is_not_continuous
<1>5. FreeRight(free_next_block_is_dirty)
  <2> DEFINE x == Dirty(0, 256)   z == Free(0, 256)   y == Dirty(256, 256)
  <2>1. /\ x \in Blocks /\ x.at = HEAP_START /\ x.size >= HeaderSize
        /\ z \in Blocks /\ z.at = HEAP_START /\ z.size = x.size /\ z.is_free = TRUE
        /\ y \in Blocks /\ HEAP_START + x.size <= y.at /\ y.size >= HeaderSize
        /\ ~y.is_free
    BY <1>1, <1>2 DEF Laying
  <2> HIDE DEF x, y, z
  <2>2. FreeRight(Frees(<<x, y>>, <<z, y>>))
    BY <2>1, FreedPair
  <2> QED BY <2>2 DEF x, y, z, free_next_block_is_dirty
<1> QED BY <1>3, <1>4, <1>5, FreeNull, FreeMerges DEF FreeTests

-----------------------------------------------------------------------------
(* A region behind the last block.                                         *)

\* The headers h carry the blocks of a list.
Carries(h, l) ==
  \A i \in 1..Len(l) : l[i].at \in DOMAIN h /\ h[l[i].at] = Gathered(l, i, i)

\* h with a free block at a, linked behind the one at last.
Followed(h, last, a, size) == [block_init(h, a, size, NULL) EXCEPT ![last].next = a]

LEMMA Linking ==
  ASSUME NEW m, Orderly(m), NEW h, Carries(h, m),
         NEW x \in Blocks, x.is_free, x.size >= HeaderSize,
         m[Len(m)].at + m[Len(m)].size <= x.at
  PROVE  Carries(Followed(h, m[Len(m)].at, x.at, x.size), Append(m, x))
<1> DEFINE l == Append(m, x)   n == Len(m)   b == x.at   s == x.size   last == m[n].at
           f == block_init(h, b, s, NULL)   e == Followed(h, last, b, s)
<1>1. /\ n \in Nat \ {0} /\ b \in Nat /\ s \in Nat /\ HeaderSize \in Nat
      /\ x.is_free = TRUE
  BY OrderlyIs, BlockIs, SizesAssumption
<1>2. /\ Orderly(l) /\ Len(l) = n + 1
      /\ \A i \in 1..n : l[i] = m[i]
      /\ l[n + 1] = x
  BY LongerOrderly
<1> HIDE DEF l
<1>3. \A i, j \in 1..(n + 1) : i # j => l[i].at # l[j].at
  <2>1. l \in Layouts
    BY <1>2 DEF Orderly
  <2> QED BY <1>2, <2>1, LayoutShape
<1>4. n \in 1..(n + 1) /\ n + 1 \in 1..(n + 1) /\ n # n + 1 /\ n \in 1..n
      /\ \A i \in 1..n : i \in 1..(n + 1) /\ i # n + 1
  BY <1>1
<1>5. /\ \A i \in 1..n : m[i].at # b
      /\ \A i \in 1..n : i # n => m[i].at # last
  BY <1>2, <1>3, <1>4
<1>6. \A i \in 1..n : m[i].at \in DOMAIN h /\ h[m[i].at] = Gathered(m, i, i)
  BY DEF Carries
<1>7. /\ f = [y \in DOMAIN f |-> f[y]] /\ DOMAIN f = DOMAIN h \cup {b}
      /\ \A y \in DOMAIN h : y # b => f[y] = h[y]
      /\ f[b] = [next |-> NULL, capacity |-> s - HeaderSize, is_free |-> TRUE]
  <2> HIDE DEF b, s
  <2> QED BY DEF block_init
<1> HIDE DEF f
<1>8. e = [f EXCEPT ![last].next = b]
  BY DEF Followed, f
<1> DEFINE r == f[last]
<1>9. last \in DOMAIN f /\ last # b /\ r = Gathered(m, n, n)
  BY <1>4, <1>5, <1>6, <1>7
<1>10. /\ DOMAIN e = DOMAIN f
       /\ \A y \in DOMAIN f : y # last => e[y] = f[y]
       /\ e[last] = [r EXCEPT !.next = b]
  <2> HIDE DEF e, b, last
  <2> QED BY <1>7, <1>8, <1>9
<1> HIDE DEF e
\* The last block goes on at the region.
<1>11. e[last] = Gathered(l, n, n)
  <2> DEFINE c == m[n].at + m[n].size - m[n].at - HeaderSize
  <2>1. Gathered(m, n, n) = [next |-> NULL, capacity |-> c, is_free |-> m[n].is_free]
    <3>1. ~(n < Len(m))
      BY <1>1
    <3> QED BY <3>1 DEF Gathered, Behind
  <2>2. Gathered(l, n, n) = [next |-> b, capacity |-> c, is_free |-> m[n].is_free]
    <3>1. n < Len(l) /\ l[n] = m[n] /\ l[n + 1].at = b
      BY <1>1, <1>2, <1>4
    <3> QED BY <3>1 DEF Gathered, Behind
  <2> HIDE DEF c, r, b
  <2> QED BY <1>9, <1>10, <2>1, <2>2
<1>12. e[b] = Gathered(l, n + 1, n + 1)
  <2>1. e[b] = f[b]
    BY <1>7, <1>9, <1>10
  <2>2. ~(n + 1 < Len(l))
    BY <1>1, <1>2
  <2>3. b + s - b - HeaderSize = s - HeaderSize
    <3> HIDE DEF b, s
    <3> QED BY <1>1
  <2>4. Gathered(l, n + 1, n + 1)
          = [next |-> NULL, capacity |-> s - HeaderSize, is_free |-> TRUE]
    BY <1>1, <1>2, <2>2, <2>3 DEF Gathered, Behind
  <2> QED BY <1>7, <2>1, <2>4
<1>13. ASSUME NEW i \in 1..n, i # n PROVE e[l[i].at] = Gathered(l, i, i) /\ l[i].at \in DOMAIN e
  <2>1. /\ m[i].at \in DOMAIN f /\ m[i].at # last /\ f[m[i].at] = Gathered(m, i, i)
        /\ l[i] = m[i]
    BY <1>2, <1>5, <1>6, <1>7, <1>13
  <2>2. i < Len(m) /\ i < Len(l) /\ i + 1 \in 1..n
    BY <1>1, <1>2, <1>13
  <2>3. Gathered(l, i, i) = Gathered(m, i, i)
    BY <1>2, <2>1, <2>2 DEF Gathered, Behind
  <2> QED BY <1>10, <2>1, <2>3
<1>14. \A i \in 1..(n + 1) : i = n \/ i = n + 1 \/ (i \in 1..n /\ i # n)
  BY <1>1
<1>15. \A i \in 1..(n + 1) : l[i].at \in DOMAIN e /\ e[l[i].at] = Gathered(l, i, i)
  <2> TAKE i \in 1..(n + 1)
  <2>1. CASE i = n
    BY <1>2, <1>4, <1>9, <1>10, <1>11, <2>1
  <2>2. CASE i = n + 1
    BY <1>2, <1>7, <1>10, <1>12, <2>2
  <2> QED BY <1>13, <1>14, <2>1, <2>2
<1> QED BY <1>2, <1>15 DEF Carries, l, e

\* Headers that carry a list are as laid out.
LEMMA CarriesLaid ==
  ASSUME NEW h, NEW l \in Layouts, Carries(h, l)
  PROVE  Agrees(h, Laid(l))
<1>1. /\ DOMAIN Laid(l) = {l[k].at : k \in 1..Len(l)}
      /\ \A i \in 1..Len(l) : Laid(l)[l[i].at] = Gathered(l, i, i)
  BY LaidBlock
<1>2. ASSUME NEW a \in DOMAIN Laid(l) PROVE a \in DOMAIN h /\ h[a] = Laid(l)[a]
  <2>1. PICK k \in 1..Len(l) : a = l[k].at
    BY <1>1
  <2> QED BY <1>1, <2>1 DEF Carries
<1> QED BY <1>2 DEF Agrees

LEMMA LaidCarries ==
  ASSUME NEW l \in Layouts
  PROVE  Carries(Laid(l), l)
<1>1. /\ DOMAIN Laid(l) = {l[k].at : k \in 1..Len(l)}
      /\ \A i \in 1..Len(l) : Laid(l)[l[i].at] = Gathered(l, i, i)
  BY LaidBlock
<1> QED BY <1>1 DEF Carries

LEMMA StandCarries == ASSUME NEW l PROVE Stand(l) <=> Carries(hdr, l)
BY DEF Stand, Stands, Carries

LEMMA StandCarriesNext == ASSUME NEW l PROVE Stand(l)' <=> Carries(hdr', l)
BY DEF Stand, Stands, Carries

GrowTests ==
  {grow_mmap_failed, grow_mmap_fixed_failed, mmap_success_last_dirty, mmap_success_last_free}

\* What the stub of a test answers, and in how many calls.
Answers(s) == IF s.fixed # FAILURE THEN s.fixed ELSE s.anywhere
Attempts(s) == IF s.fixed # FAILURE THEN 1 ELSE 2

\* The headers once a region at a of the least size follows the block at last.
Lengthened(h, last, a) ==
  LET f == Followed(h, last, a, RegionMinSize)
  IN  IF a = block_after(h, last) /\ h[last].is_free THEN try_merge_with_next(f, last) ELSE f

\* A test of grow_heap that passes.
GrowRight(u) ==
  LET last == block_after(u.given, HEAP_START)
      a == Answers(u.stub)
  IN  /\ u.does = "grow_heap" /\ u.arg = BlockMinCapacity
      /\ u.counts = Attempts(u.stub)
      /\ u.stub.addr = last /\ u.stub.length = RegionMinSize
      /\ \/ a = FAILURE /\ u.expects = Pointer(NULL) /\ Agrees(u.given, u.after)
         \/ /\ a # FAILURE
            /\ u.expects = Pointer(IF a = last /\ u.given[HEAP_START].is_free
                                   THEN HEAP_START ELSE a)
            /\ Agrees(Lengthened(u.given, HEAP_START, a), u.after)

LEMMA GrowFields ==
  ASSUME NEW l, NEW s, NEW p, NEW c, NEW m
  PROVE  LET u == Grows(l, s, p, c, m)
         IN  /\ u.does = "grow_heap" /\ u.arg = BlockMinCapacity
             /\ u.stub = s /\ u.expects = Pointer(p) /\ u.counts = c
             /\ u.given = Laid(l) /\ u.after = Laid(m)
BY DEF Grows, Test

\* Where a list of one block ends.
LEMMA AloneEnds ==
  ASSUME NEW x \in Blocks, x.at = HEAP_START, x.size >= HeaderSize
  PROVE  /\ block_after(Laid(<<x>>), HEAP_START) = HEAP_START + x.size
         /\ HEAP_START \in DOMAIN Laid(<<x>>)
         /\ Laid(<<x>>)[HEAP_START].is_free = x.is_free
<1> DEFINE h == Laid(<<x>>)   s == x.size
<1>1. HEAP_START \in DOMAIN h /\ h[HEAP_START] = HeadOf(x, NULL)
  BY OneLaid
<1> HIDE DEF h
<1>2. h[HEAP_START].capacity = s - HeaderSize /\ h[HEAP_START].is_free = x.is_free
  BY <1>1 DEF HeadOf
<1>3. HEAP_START + HeaderSize + (s - HeaderSize) = HEAP_START + s
  <2>1. HEAP_START \in Nat /\ HeaderSize \in Nat /\ s \in Nat
    BY BlockIs, SizesAssumption, AddressesAssumption
  <2> HIDE DEF s
  <2> QED BY <2>1
<1> QED BY <1>1, <1>2, <1>3 DEF block_after, h

\* No region, or one that does not become part of the block.
LEMMA GrowNothing ==
  ASSUME NEW x \in Blocks, x.at = HEAP_START, x.size >= HeaderSize,
         NEW s, Answers(s) = FAILURE, NEW c, c = Attempts(s),
         s.addr = HEAP_START + x.size, s.length = RegionMinSize
  PROVE  GrowRight(Grows(<<x>>, s, NULL, c, <<x>>))
<1> DEFINE u == Grows(<<x>>, s, NULL, c, <<x>>)
<1>1. /\ u.does = "grow_heap" /\ u.arg = BlockMinCapacity
      /\ u.stub = s /\ u.expects = Pointer(NULL) /\ u.counts = c
      /\ u.given = Laid(<<x>>) /\ u.after = Laid(<<x>>)
  BY GrowFields
<1> HIDE DEF u
<1>2. u.stub.addr = block_after(u.given, HEAP_START)
  BY <1>1, AloneEnds
<1>3. Agrees(u.given, u.after)
  BY <1>1 DEF Agrees
<1> QED BY <1>1, <1>2, <1>3 DEF GrowRight, u

LEMMA GrowApart ==
  ASSUME NEW x \in Blocks, x.at = HEAP_START, x.size >= HeaderSize,
         NEW y \in Blocks, y.is_free, y.size = RegionMinSize, HEAP_START + x.size <= y.at,
         ~(x.is_free /\ y.at = HEAP_START + x.size),
         NEW s, Answers(s) = y.at, NEW c, c = Attempts(s),
         s.addr = HEAP_START + x.size, s.length = RegionMinSize
  PROVE  GrowRight(Grows(<<x>>, s, y.at, c, <<x, y>>))
<1> DEFINE l == <<x>>   m == <<x, y>>   u == Grows(l, s, y.at, c, m)   h == Laid(l)
<1>1. /\ u.does = "grow_heap" /\ u.arg = BlockMinCapacity
      /\ u.stub = s /\ u.expects = Pointer(y.at) /\ u.counts = c
      /\ u.given = h /\ u.after = Laid(m)
  BY GrowFields
<1>2. /\ RegionMinSize \in Nat /\ RegionMinSize >= HeaderSize
      /\ y.at \in Nat /\ y.at # FAILURE
  <2>1. y.at \in Nat
    BY BlockIs
  <2> QED BY <2>1, SizesAssumption DEF FAILURE
<1>3. Orderly(l) /\ Len(l) = 1 /\ l[1] = x /\ m = Append(l, y)
  BY OneBlock
<1>4. Orderly(m)
  BY <1>2, TwoBlocks
<1> HIDE DEF l, m, u
<1>5. block_after(h, HEAP_START) = HEAP_START + x.size /\ h[HEAP_START].is_free = x.is_free
  BY AloneEnds DEF l
<1>6. Carries(h, l)
  BY <1>3, LaidCarries DEF Orderly
<1> HIDE DEF h
<1>7. Carries(Followed(h, HEAP_START, y.at, RegionMinSize), m)
  <2>1. l[Len(l)].at = HEAP_START /\ l[Len(l)].at + l[Len(l)].size <= y.at
    BY <1>3
  <2>2. y.size >= HeaderSize
    BY <1>2
  <2>3. Carries(Followed(h, l[Len(l)].at, y.at, y.size), Append(l, y))
    BY <1>3, <1>6, <2>1, <2>2, Linking
  <2> QED BY <1>3, <2>1, <2>3
<1>8. ~(y.at = block_after(h, HEAP_START) /\ h[HEAP_START].is_free)
  BY <1>5
<1>9. Agrees(Lengthened(h, HEAP_START, y.at), Laid(m))
  <2>1. Lengthened(h, HEAP_START, y.at) = Followed(h, HEAP_START, y.at, RegionMinSize)
    BY <1>8 DEF Lengthened
  <2> QED BY <1>4, <1>7, <2>1, CarriesLaid DEF Orderly
<1>10. u.expects = Pointer(IF y.at = block_after(h, HEAP_START) /\ h[HEAP_START].is_free
                           THEN HEAP_START ELSE y.at)
  BY <1>1, <1>8
<1> QED BY <1>1, <1>2, <1>5, <1>9, <1>10 DEF GrowRight, u, l, m

\* A region that becomes part of the block in front of it.
LEMMA GrowMerged ==
  ASSUME NEW x \in Blocks, x.at = HEAP_START, x.size >= HeaderSize, x.is_free,
         NEW z \in Blocks, z.at = HEAP_START, z.is_free, z.size = x.size + RegionMinSize,
         NEW s, Answers(s) = HEAP_START + x.size, NEW c, c = Attempts(s),
         s.addr = HEAP_START + x.size, s.length = RegionMinSize
  PROVE  GrowRight(Grows(<<x>>, s, HEAP_START, c, <<z>>))
<1> DEFINE u == Grows(<<x>>, s, HEAP_START, c, <<z>>)   h == Laid(<<x>>)   o == Laid(<<z>>)
           b == HEAP_START + x.size   k == x.size - HeaderSize   d == RegionMinSize - HeaderSize
           f == Followed(h, HEAP_START, b, RegionMinSize)   w == merge_with_next(f, HEAP_START)
<1>1. /\ u.does = "grow_heap" /\ u.arg = BlockMinCapacity
      /\ u.stub = s /\ u.expects = Pointer(HEAP_START) /\ u.counts = c
      /\ u.given = h /\ u.after = o
  BY GrowFields
<1>2. /\ HEAP_START \in Nat \ {0} /\ HeaderSize \in Nat \ {0} /\ RegionMinSize \in Nat
      /\ x.size \in Nat /\ x.is_free = TRUE /\ z.is_free = TRUE
  BY BlockIs, SizesAssumption, AddressesAssumption
<1>3. /\ b # FAILURE /\ b # NULL /\ b # HEAP_START /\ b = HEAP_START + HeaderSize + k
      /\ k + HeaderSize + d = z.size - HeaderSize /\ z.size >= HeaderSize
  <2> DEFINE t == x.size
  <2>1. t \in Nat /\ t >= HeaderSize /\ z.size = t + RegionMinSize
    BY <1>2
  <2> HIDE DEF t
  <2>2. /\ HEAP_START + t # -1 /\ HEAP_START + t # 0 /\ HEAP_START + t # HEAP_START
        /\ HEAP_START + t = HEAP_START + HeaderSize + (t - HeaderSize)
        /\ t - HeaderSize + HeaderSize + (RegionMinSize - HeaderSize) = t + RegionMinSize - HeaderSize
        /\ t + RegionMinSize >= HeaderSize
    BY <1>2, <2>1
  <2>3. b = HEAP_START + t /\ k = t - HeaderSize /\ FAILURE = -1 /\ NULL = 0
    BY DEF t, FAILURE, NULL
  <2>4. d = RegionMinSize - HeaderSize
    OBVIOUS
  <2> HIDE DEF b, k, d
  <2>5. b # FAILURE /\ b # NULL /\ b # HEAP_START /\ b = HEAP_START + HeaderSize + k
    BY <2>2, <2>3
  <2>6. k + HeaderSize + d = t + RegionMinSize - HeaderSize
    BY <2>2, <2>3, <2>4
  <2>7. k + HeaderSize + d = z.size - HeaderSize /\ z.size >= HeaderSize
    BY <1>2, <2>1, <2>2, <2>6
  <2> QED BY <2>5, <2>7
<1>4. DOMAIN h = {HEAP_START} /\ h[HEAP_START] = HeadOf(x, NULL)
  BY OneLaid
<1>5. DOMAIN o = {HEAP_START} /\ o[HEAP_START] = HeadOf(z, NULL)
  BY <1>3, OneLaid
<1>6. block_after(h, HEAP_START) = b /\ h[HEAP_START].is_free = TRUE
  BY <1>2, AloneEnds
<1> HIDE DEF u, h, o
<1> DEFINE g == block_init(h, b, RegionMinSize, NULL)
<1>7. /\ g = [y \in DOMAIN g |-> g[y]] /\ DOMAIN g = {HEAP_START, b}
      /\ g[HEAP_START] = HeadOf(x, NULL)
      /\ g[b] = [next |-> NULL, capacity |-> d, is_free |-> TRUE]
  <2> HIDE DEF b
  <2> QED BY <1>3, <1>4 DEF block_init
<1>8. f = [g EXCEPT ![HEAP_START].next = b]
  BY DEF Followed
<1> HIDE DEF g, f
<1>9. FreeBlock(f, HEAP_START, b, k) /\ FreeBlock(f, b, NULL, d)
  <2> DEFINE r == g[HEAP_START]
  <2> HIDE DEF b
  <2>1. /\ DOMAIN f = {HEAP_START, b} /\ f[b] = g[b]
        /\ f[HEAP_START] = [r EXCEPT !.next = b]
    BY <1>3, <1>7, <1>8
  <2>2. r = [next |-> NULL, capacity |-> k, is_free |-> TRUE]
    BY <1>2, <1>7 DEF HeadOf
  <2> HIDE DEF r, k, d
  <2>3. f[HEAP_START] = [next |-> b, capacity |-> k, is_free |-> TRUE]
    BY <2>1, <2>2
  <2> QED BY <1>7, <2>1, <2>3 DEF FreeBlock
<1>10. mergeable(f, HEAP_START) /\ FreeBlock(w, HEAP_START, NULL, k + HeaderSize + d)
  <2> HIDE DEF b, k, d
  <2> QED BY <1>3, <1>9, MergeFields
<1> HIDE DEF w
<1>11. Agrees(w, o)
  <2>1. HeadOf(z, NULL) = [next |-> NULL, capacity |-> k + HeaderSize + d, is_free |-> TRUE]
    <3> HIDE DEF k, d
    <3> QED BY <1>2, <1>3 DEF HeadOf
  <2>2. HEAP_START \in DOMAIN w /\ w[HEAP_START] = o[HEAP_START]
    BY <1>5, <1>10, <2>1 DEF FreeBlock
  <2> QED BY <1>5, <2>2 DEF Agrees
<1>12. Lengthened(h, HEAP_START, b) = w
  <2> HIDE DEF b
  <2> QED BY <1>6, <1>10 DEF Lengthened, try_merge_with_next, f, w
<1>13. u.expects = Pointer(IF b = block_after(h, HEAP_START) /\ h[HEAP_START].is_free
                           THEN HEAP_START ELSE b)
  BY <1>1, <1>6
<1> HIDE DEF b
<1>14. Answers(u.stub) = b /\ u.stub.addr = b /\ u.stub.length = RegionMinSize /\ c = Attempts(u.stub)
  BY <1>1 DEF b
<1> QED BY <1>1, <1>3, <1>6, <1>11, <1>12, <1>13, <1>14 DEF GrowRight, u

LEMMA StubIs ==
  ASSUME NEW f, NEW a, NEW p, NEW n
  PROVE  LET s == Stub(f, a, p, n)
         IN  /\ s.addr = p /\ s.length = n
             /\ f # FAILURE => Answers(s) = f /\ Attempts(s) = 1
             /\ f = FAILURE => Answers(s) = a /\ Attempts(s) = 2
BY DEF Stub, Answers, Attempts

LEMMA GrowsPass ==
  ASSUME Handy, NEW u \in GrowTests
  PROVE  GrowRight(u)
<1> DEFINE R == RegionMinSize   b == HEAP_START + 1024   x == Free(0, 1024)
           s == mmap_success   y == Free(1024, R)
<1>1. /\ HEAP_START \in Nat /\ HeaderSize \in Nat /\ HeaderSize <= 128 /\ R \in Nat /\ R >= 1024
      /\ b # FAILURE /\ HEAP_START + 512 <= b /\ b # HEAP_START + 512
      /\ HEAP_START + 0 = HEAP_START
  BY HandySizes DEF FAILURE
<1>2. /\ x \in Blocks /\ x.at = HEAP_START /\ x.size = 1024 /\ x.size >= HeaderSize
      /\ x.is_free = TRUE
  BY TestBlocks DEF Laying
<1>3. y \in Blocks /\ y.at = b /\ y.size = R /\ y.is_free = TRUE
  <2>1. 1024 \in Nat
    OBVIOUS
  <2>2. y \in Blocks
    BY <1>1, <2>1, FreeOrDirty
  <2> HIDE DEF b
  <2> QED BY <2>2 DEF Free, b
<1>4. s.addr = b /\ s.length = R /\ Answers(s) = b /\ Attempts(s) = 1
  <2>1. s = Stub(b, FAILURE, b, R)
    BY DEF mmap_success
  <2> HIDE DEF s, b
  <2> QED BY <1>1, <2>1, StubIs
<1>5. GrowRight(grow_mmap_failed)
  <2> DEFINE q == mmap_failed(1024, R)
  <2>1. q.addr = b /\ q.length = R /\ Answers(q) = FAILURE /\ Attempts(q) = 2
    <3>1. q = Stub(FAILURE, FAILURE, b, R)
      BY DEF mmap_failed
    <3> HIDE DEF q, b
    <3> QED BY <3>1, StubIs
  <2>2. q.addr = HEAP_START + x.size
    BY <1>2, <2>1
  <2> HIDE DEF x, q
  <2>3. GrowRight(Grows(<<x>>, q, NULL, Attempts(q), <<x>>))
    BY <1>2, <2>1, <2>2, GrowNothing
  <2> QED BY <2>1, <2>3 DEF grow_mmap_failed, x, q
<1>6. GrowRight(grow_mmap_fixed_failed)
  <2> DEFINE w == Free(0, 512)   q == Stub(FAILURE, HEAP_START + 1024, HEAP_START + 512, R)
  <2>1. q.addr = HEAP_START + 512 /\ q.length = R /\ Answers(q) = b /\ Attempts(q) = 2
    <3> DEFINE t == HEAP_START + 512
    <3>1. q = Stub(FAILURE, b, t, R)
      OBVIOUS
    <3> HIDE DEF q, b, t
    <3>2. q.addr = t /\ q.length = R /\ Answers(q) = b /\ Attempts(q) = 2
      BY <3>1, StubIs
    <3> QED BY <3>2 DEF t
  <2>2. w \in Blocks /\ w.at = HEAP_START /\ w.size = 512 /\ w.size >= HeaderSize
    BY TestBlocks DEF Laying
  <2>3. /\ HEAP_START + w.size <= y.at /\ y.at # HEAP_START + w.size
        /\ q.addr = HEAP_START + w.size
    BY <1>1, <1>3, <2>1, <2>2
  <2> HIDE DEF w, q, y, b
  <2>4. GrowRight(Grows(<<w>>, q, y.at, Attempts(q), <<w, y>>))
    BY <1>3, <2>1, <2>2, <2>3, GrowApart
  <2> QED BY <1>3, <2>1, <2>4 DEF grow_mmap_fixed_failed, w, q, y, b
<1>7. GrowRight(mmap_success_last_dirty)
  <2> DEFINE w == Dirty(0, 1024)
  <2>1. w \in Blocks /\ w.at = HEAP_START /\ w.size = 1024 /\ w.size >= HeaderSize /\ ~w.is_free
    BY TestBlocks DEF Laying
  <2>2. HEAP_START + w.size <= y.at /\ s.addr = HEAP_START + w.size
    BY <1>1, <1>3, <1>4, <2>1
  <2> HIDE DEF w, s, y, b
  <2>3. GrowRight(Grows(<<w>>, s, y.at, Attempts(s), <<w, y>>))
    BY <1>3, <1>4, <2>1, <2>2, GrowApart
  <2> QED BY <1>3, <1>4, <2>3 DEF mmap_success_last_dirty, w, s, y, b
<1>8. GrowRight(mmap_success_last_free)
  <2> DEFINE z == Free(0, 1024 + R)
  <2>1. z \in Blocks /\ z.at = HEAP_START /\ z.size = 1024 + R /\ z.is_free = TRUE
    <3>1. 0 \in Nat /\ 1024 + R \in Nat
      BY <1>1
    <3>2. z \in Blocks
      BY <3>1, FreeOrDirty
    <3>3. z.at = HEAP_START + 0 /\ z.size = 1024 + R /\ z.is_free = TRUE
      BY DEF Free
    <3> QED BY <1>1, <3>2, <3>3
  <2>2. z.size = x.size + R /\ Answers(s) = HEAP_START + x.size /\ s.addr = HEAP_START + x.size
    BY <1>2, <1>4, <2>1
  <2> HIDE DEF x, z, s, b
  <2>3. GrowRight(Grows(<<x>>, s, HEAP_START, Attempts(s), <<z>>))
    BY <1>2, <1>4, <2>1, <2>2, GrowMerged
  <2> QED BY <1>4, <2>3 DEF mmap_success_last_free, x, z, s
<1> QED BY <1>5, <1>6, <1>7, <1>8 DEF GrowTests

-----------------------------------------------------------------------------
(* The tests of alloc_region and heap_init.                                *)

RegionTests ==
  {pessimistic_case, query_is_zero, query_is_small} \cup {heap_init_fail(q) : q \in corner_cases}

\* What they return when no pages are mapped.
Nothing(u) == IF u.does = "heap_init" THEN Pointer(NULL) ELSE REGION_INVALID

\* No pages are mapped for any of these tests.
Denied(u) ==
  /\ u.does \in {"alloc_region", "heap_init"}
  /\ u.stub.fixed = FAILURE /\ u.stub.anywhere = FAILURE

\* A test that passes, and one that cannot.
RegionRight(u) ==
  /\ Denied(u)
  /\ u.expects \in {Nothing(u), Ignored} /\ u.counts \in {2, Unasked}
  /\ u.stub.addr \in {HEAP_START, Unasked}
  /\ u.stub.length \in {region_actual_size(size_from_capacity(u.arg)), Unasked}
  /\ DOMAIN u.after = {}

RegionWrong(u) == Denied(u) /\ u.expects \notin {Nothing(u), Ignored}

LEMMA EmptyLaid == DOMAIN Laid(<<>>) = {}
BY DEF Laid

LEMMA RegionFields ==
  ASSUME NEW q, NEW s, NEW e, NEW c, NEW l
  PROVE  LET u == Regions(q, s, e, c, l)
         IN  /\ u.does = "alloc_region" /\ u.arg = q /\ u.stub = s /\ u.expects = e
             /\ u.counts = c /\ u.after = Laid(l)
BY DEF Regions, Test

\* map_pages of unix.c fails wherever it is asked to map.
LEMMA NoPages ==
  /\ \A a, l : platform_map_pages(a, l) = FAILURE
  /\ optimistic_case_stub.fixed = FAILURE /\ optimistic_case_stub.anywhere = FAILURE
  /\ map_fixed_failed_stub.fixed = FAILURE /\ map_fixed_failed_stub.anywhere = FAILURE
  /\ \A n : /\ [optimistic_case_stub EXCEPT !.length = n].fixed = FAILURE
            /\ [optimistic_case_stub EXCEPT !.length = n].anywhere = FAILURE
<1>1. \A a, l : platform_map_pages(a, l) = FAILURE
  <2> TAKE a, l
  <2> DEFINE flags == {"MAP_PRIVATE"} \cup
                        (IF l = "PAGE_FIXED" THEN {"MAP_FIXED_NOREPLACE"} ELSE {})
  <2>1. "MAP_ANONYMOUS" \notin flags
    OBVIOUS
  <2> QED BY <2>1 DEF platform_map_pages, mmap
<1> DEFINE o == optimistic_case_stub   f == FAILURE
<1>2. o = [fixed |-> f, anywhere |-> f, addr |-> HEAP_START, length |-> Unasked]
  <2> HIDE DEF f
  <2> QED BY <1>1 DEF optimistic_case_stub, Stub, f
<1>3. map_fixed_failed_stub.fixed = FAILURE /\ map_fixed_failed_stub.anywhere = FAILURE
  BY <1>1 DEF map_fixed_failed_stub, Stub
<1> HIDE DEF o, f
<1>4. /\ o.fixed = f /\ o.anywhere = f
      /\ \A n : [o EXCEPT !.length = n].fixed = f /\ [o EXCEPT !.length = n].anywhere = f
  BY <1>2
<1> QED BY <1>1, <1>3, <1>4 DEF o, f

LEMMA RegionsPass ==
  ASSUME Handy, NEW u \in RegionTests
  PROVE  RegionRight(u)
<1> DEFINE R == RegionMinSize   f == FAILURE
<1>1. /\ HeaderSize \in Nat /\ HeaderSize <= 128 /\ R \in Nat /\ R >= 1024
      /\ \A q \in 0..R : size_from_capacity(q) = q + HeaderSize
  BY HandySizes
<1>2. \A q \in 0..R : region_actual_size(q) = R
  BY HandyRegions
<1>3. /\ region_actual_size(size_from_capacity(0)) = R
      /\ region_actual_size(size_from_capacity(42)) = R
  <2>1. PICK z : z = 0
    OBVIOUS
  <2>2. PICK t : t = 42
    OBVIOUS
  <2>3. z \in 0..R /\ z + HeaderSize \in 0..R
    BY <1>1, <2>1
  <2>4. t \in 0..R /\ t + HeaderSize \in 0..R
    BY <1>1, <2>2
  <2>5. size_from_capacity(z) = z + HeaderSize /\ size_from_capacity(t) = t + HeaderSize
    BY <1>1, <2>3, <2>4
  <2>6. /\ region_actual_size(size_from_capacity(z)) = R
        /\ region_actual_size(size_from_capacity(t)) = R
    BY <1>2, <2>3, <2>4, <2>5
  <2> QED BY <2>1, <2>2, <2>6
<1>4. RegionRight(pessimistic_case)
  <2> DEFINE v == pessimistic_case
  <2>1. /\ v.does = "alloc_region" /\ v.arg = 0 /\ v.stub = NoStub /\ v.expects = REGION_INVALID
        /\ v.counts = 2 /\ v.after = Laid(<<>>)
    BY RegionFields DEF pessimistic_case
  <2> HIDE DEF v
  <2>2. /\ NoStub.fixed = f /\ NoStub.anywhere = f /\ NoStub.addr = Unasked /\ NoStub.length = Unasked
    BY DEF NoStub, Stub
  <2>3. Nothing(v) = REGION_INVALID
    BY <2>1 DEF Nothing
  <2> QED BY <2>1, <2>2, <2>3, EmptyLaid DEF RegionRight, Denied, v
<1>5. RegionRight(query_is_zero) /\ RegionRight(query_is_small)
  <2> DEFINE v == query_is_zero   w == query_is_small   s == Stub(FAILURE, FAILURE, Unasked, R)
  <2>1. /\ v.does = "alloc_region" /\ v.arg = 0 /\ v.stub = s /\ v.expects = Ignored
        /\ v.counts = Unasked /\ v.after = Laid(<<>>)
    BY RegionFields DEF query_is_zero
  <2>2. /\ w.does = "alloc_region" /\ w.arg = 42 /\ w.stub = s /\ w.expects = Ignored
        /\ w.counts = Unasked /\ w.after = Laid(<<>>)
    BY RegionFields DEF query_is_small
  <2>3. s.fixed = f /\ s.anywhere = f /\ s.addr = Unasked /\ s.length = R
    BY DEF Stub
  <2> HIDE DEF v, w, s
  <2>4. RegionRight(v)
    BY <1>3, <2>1, <2>3, EmptyLaid DEF RegionRight, Denied
  <2>5. RegionRight(w)
    BY <1>3, <2>2, <2>3, EmptyLaid DEF RegionRight, Denied
  <2> QED BY <2>4, <2>5 DEF v, w
<1>6. ASSUME NEW q \in corner_cases PROVE RegionRight(heap_init_fail(q))
  <2> DEFINE v == heap_init_fail(q)   n == heap_init_length(q)   s == mmap_failed(0, n)
  <2>1. /\ v.does = "heap_init" /\ v.arg = q /\ v.stub = s /\ v.expects = Pointer(NULL)
        /\ v.counts = 2 /\ v.after = Laid(<<>>)
    <3> HIDE DEF s
    <3> QED BY DEF heap_init_fail, Test, s
  <2>2. s.fixed = f /\ s.anywhere = f /\ s.addr = HEAP_START /\ s.length = n
    <3>1. HEAP_START + 0 = HEAP_START
      BY HandySizes
    <3> HIDE DEF n
    <3> QED BY <3>1 DEF mmap_failed, Stub
  <2>3. n = region_actual_size(size_from_capacity(q))
    <3>1. HeaderSize + 24 <= R /\ 0 <= R - HeaderSize /\ R - HeaderSize <= R /\ R - HeaderSize \in Nat
      BY <1>1
    <3>2. q \in 0..R
      BY <1>1, <3>1 DEF corner_cases
    <3> QED BY <1>1, <3>2 DEF heap_init_length
  <2>4. Nothing(v) = Pointer(NULL)
    BY <2>1 DEF Nothing
  <2> HIDE DEF v, s, n
  <2> QED BY <2>1, <2>2, <2>3, <2>4, EmptyLaid DEF RegionRight, Denied, v
<1> QED BY <1>4, <1>5, <1>6 DEF RegionTests

LEMMA RegionsFail ==
  ASSUME Handy, NEW u \in PlatformTests
  PROVE  RegionWrong(u)
<1> DEFINE f == FAILURE
<1>1. HEAP_START \in Nat \ {0} /\ NULL = 0
  BY HandySizes DEF NULL
<1>2. ASSUME NEW v, v.does = "alloc_region", NEW p, p # NULL, NEW n, NEW x,
             v.expects = <<"region", p, n, x>>,
             v.stub.fixed = f, v.stub.anywhere = f
      PROVE  RegionWrong(v)
  <2>1. v.expects[1] = "region" /\ v.expects[2] = p
    BY <1>2
  <2>2. REGION_INVALID[2] = NULL /\ Ignored[1] = "ignored"
    BY DEF REGION_INVALID, Ignored
  <2>3. v.expects # REGION_INVALID /\ v.expects # Ignored
    BY <1>2, <2>1, <2>2
  <2>4. Nothing(v) = REGION_INVALID
    BY <1>2 DEF Nothing
  <2> QED BY <1>2, <2>3, <2>4 DEF RegionWrong, Denied
<1>3. RegionWrong(optimistic_case)
  <2> DEFINE v == optimistic_case   p == HEAP_START + 0
  <2> DEFINE e == Region(0, RegionMinSize, TRUE)
  <2>1. /\ v.does = "alloc_region" /\ v.stub = optimistic_case_stub
        /\ v.expects = e
    BY Zenon DEF optimistic_case, Regions, Test
  <2>2. v.expects = <<"region", p, RegionMinSize, TRUE>> /\ p # NULL
    BY <1>1, <2>1 DEF Region
  <2>3. v.stub.fixed = f /\ v.stub.anywhere = f
    BY <2>1, NoPages
  <2> HIDE DEF v, p, f
  <2> QED BY <1>2, <2>1, <2>2, <2>3 DEF v
<1>4. RegionWrong(map_fixed_failed)
  <2> DEFINE v == map_fixed_failed   at == mmap_buffer - HEAP_START   p == HEAP_START + at
  <2> DEFINE e == Region(at, RegionMinSize, FALSE)
  <2>1. /\ v.does = "alloc_region" /\ v.stub = map_fixed_failed_stub
        /\ v.expects = e
    BY Zenon DEF map_fixed_failed, Regions, Test
  <2>2. v.expects = <<"region", p, RegionMinSize, FALSE>> /\ p # NULL
    <3>1. p # NULL
      BY <1>1 DEF mmap_buffer
    <3> QED BY <2>1, <3>1 DEF Region
  <2>3. v.stub.fixed = f /\ v.stub.anywhere = f
    BY <2>1, NoPages
  <2> HIDE DEF v, p, f
  <2> QED BY <1>2, <2>1, <2>2, <2>3 DEF v
<1>5. RegionWrong(query_is_min_region_size)
  <2> DEFINE v == query_is_min_region_size   p == HEAP_START + 0   n == RegionMinSize + PageSize
  <2> DEFINE e == Region(0, n, TRUE)
  <2>1. /\ v.does = "alloc_region" /\ v.stub = query_is_min_region_size_stub
        /\ v.expects = e
    BY Zenon DEF query_is_min_region_size, Regions, Test
  <2>2. v.expects = <<"region", p, n, TRUE>> /\ p # NULL
    BY <1>1, <2>1 DEF Region
  <2>3. v.stub.fixed = f /\ v.stub.anywhere = f
    BY <2>1, NoPages DEF query_is_min_region_size_stub
  <2> HIDE DEF v, p, f, n
  <2> QED BY <1>2, <2>1, <2>2, <2>3 DEF v
<1>6. ASSUME NEW q \in corner_cases PROVE RegionWrong(heap_init_success(q))
  <2> DEFINE v == heap_init_success(q)   n == heap_init_length(q)
             s == [optimistic_case_stub EXCEPT !.length = n]
  <2>1. /\ v.does = "heap_init" /\ v.stub = s /\ v.expects = Pointer(optimistic_case_stub.fixed)
    <3> HIDE DEF s
    <3> QED BY DEF heap_init_success, Test, s
  <2>2. s.fixed = f /\ s.anywhere = f /\ optimistic_case_stub.fixed = f
    BY NoPages
  <2>3. v.expects[1] = "pointer" /\ v.expects[2] = f
    BY <2>1, <2>2 DEF Pointer
  <2>4. Pointer(NULL)[2] = NULL /\ Ignored[1] = "ignored" /\ f # NULL
    BY DEF Pointer, Ignored, NULL, FAILURE
  <2> HIDE DEF v, s, f
  <2>5. v.expects # Pointer(NULL) /\ v.expects # Ignored
    BY <2>3, <2>4
  <2>6. Nothing(v) = Pointer(NULL)
    BY <2>1 DEF Nothing
  <2> QED BY <2>1, <2>2, <2>5, <2>6 DEF RegionWrong, Denied, v, f
<1> QED BY <1>3, <1>4, <1>5, <1>6 DEF PlatformTests

-----------------------------------------------------------------------------
(* The tests that search: find_good_or_last, try_memalloc_existing, memalloc. *)

FindTests ==
  {single_block_is_good, single_block_is_dirty, single_block_is_small,
   multiple_blocks_fail, multiple_blocks_success}
ExistingTests == {try_memalloc_fail, try_memalloc_split}
AllocTests ==
  {memalloc_existing_big_query, memalloc_existing_small_query,
   grow_heap_fail_big_query, grow_heap_fail_small_query,
   grow_heap_success_big_query, grow_heap_success_small_query}

\* How much a test looks for.
Sought(u) == size_max(u.arg, BlockMinCapacity)

\* A test looks for a block, and the search makes m of its list and finds the block g.
Seeks(u, m, g) ==
  /\ u.does \in Searches /\ u.given = Laid(u.list)
  /\ Sought(u) \in Nat
  /\ Orderly(m) /\ Leads(u.list, Sought(u), m, g)

EndOf(m) == m[Len(m)].at + m[Len(m)].size

FindRight(u, m, g) ==
  /\ u.does = "find_good_or_last" /\ u.counts = Unasked /\ u.after = Laid(m)
  /\ u.expects = IF g = 0 THEN <<"BSR_REACHED_END_NOT_FOUND", m[Len(m)].at>>
                 ELSE <<"BSR_FOUND_GOOD_BLOCK", m[g].at>>

\* The block that was found has room for what is taken and for another block.
TakeRight(u, m, g) ==
  /\ u.does # "find_good_or_last" /\ u.counts = Unasked
  /\ g # 0 /\ Sought(u) + 2 * HeaderSize + BlockMinCapacity <= m[g].size
  /\ u.after = Laid(CutAt(m, g, Sought(u)))
  /\ u.expects = IF u.does = "memalloc" THEN Pointer(m[g].at)
                 ELSE <<"BSR_FOUND_GOOD_BLOCK", m[g].at>>

MissRight(u, m, g) ==
  /\ u.does = "try_memalloc_existing" /\ u.counts = Unasked
  /\ g = 0 /\ u.after = Laid(m)
  /\ u.expects = <<"BSR_REACHED_END_NOT_FOUND", m[Len(m)].at>>

\* memalloc asks for a region at the end of the list, and is not given it there.
Asking(u, m) ==
  /\ u.does = "memalloc" /\ u.counts = 2
  /\ u.stub.fixed = FAILURE /\ u.stub.addr = EndOf(m)
  /\ u.stub.length = region_actual_size(size_from_capacity(u.arg))

StarveRight(u, m) ==
  /\ Asking(u, m)
  /\ u.stub.anywhere = FAILURE /\ u.expects = Pointer(NULL) /\ u.after = Laid(m)

RegrowRight(u, m) ==
  /\ Asking(u, m)
  /\ u.stub.anywhere = mmap_buffer /\ u.stub.length = RegionMinSize
  /\ EndOf(m) < Buffer.at /\ Buffer.at = mmap_buffer
  /\ u.expects = Pointer(mmap_buffer)
  /\ Orderly(Append(m, Buffer))
  /\ Leads(Append(m, Buffer), Sought(u), Append(m, Buffer), Len(m) + 1)
  /\ Sought(u) + 2 * HeaderSize + BlockMinCapacity <= RegionMinSize
  /\ u.after = Laid(CutAt(Append(m, Buffer), Len(m) + 1, Sought(u)))

\* A test of the search that passes.
SeekRight(u, m, g) ==
  /\ Seeks(u, m, g)
  /\ \/ FindRight(u, m, g)
     \/ TakeRight(u, m, g)
     \/ MissRight(u, m, g)
     \/ g = 0 /\ (StarveRight(u, m) \/ RegrowRight(u, m))

\* What the tests ask for, and what they look for.
LEMMA Asked ==
  ASSUME Handy
  PROVE  /\ size_max(512, BlockMinCapacity) = 512
         /\ size_max(10, BlockMinCapacity) = BlockMinCapacity
         /\ size_max(RegionMinSize, BlockMinCapacity) = RegionMinSize
         /\ region_actual_size(size_from_capacity(512)) = RegionMinSize
         /\ region_actual_size(size_from_capacity(10)) = RegionMinSize
         /\ region_actual_size(size_from_capacity(RegionMinSize)) = RegionMinSize + PageSize
<1> DEFINE R == RegionMinSize
<1>1. /\ HeaderSize \in Nat /\ R \in Nat /\ R >= 1024 /\ HeaderSize <= 128
      /\ BlockMinCapacity \in Nat /\ BlockMinCapacity >= 10 /\ BlockMinCapacity <= 128
      /\ \A q \in 0..R : size_from_capacity(q) = q + HeaderSize
  BY HandySizes
<1>2. /\ size_max(512, BlockMinCapacity) = 512
      /\ size_max(10, BlockMinCapacity) = BlockMinCapacity
      /\ size_max(R, BlockMinCapacity) = R
  BY <1>1 DEF size_max
<1>3. PICK s : s = 512
  OBVIOUS
<1>4. PICK t : t = 10
  OBVIOUS
<1>5. s \in 0..R /\ s + HeaderSize \in 0..R
  BY <1>1, <1>3
<1>6. t \in 0..R /\ t + HeaderSize \in 0..R
  BY <1>1, <1>4
<1>7. R \in 0..R
  BY <1>1
<1>8. /\ size_from_capacity(s) = s + HeaderSize /\ size_from_capacity(t) = t + HeaderSize
      /\ size_from_capacity(R) = R + HeaderSize
  BY <1>1, <1>5, <1>6, <1>7
<1>9. /\ region_actual_size(size_from_capacity(s)) = R
      /\ region_actual_size(size_from_capacity(t)) = R
      /\ region_actual_size(size_from_capacity(R)) = R + PageSize
  BY <1>5, <1>6, <1>8, HandyRegions
<1> QED BY <1>2, <1>3, <1>4, <1>9

\* A search for 512 bytes, by what it makes of the list.
LEMMA FindsOf ==
  ASSUME Handy, NEW l, NEW m, Orderly(m), NEW g, Leads(l, 512, m, g),
         NEW a, a = IF g = 0 THEN <<"BSR_REACHED_END_NOT_FOUND", m[Len(m)].at>>
                    ELSE <<"BSR_FOUND_GOOD_BLOCK", m[g].at>>
  PROVE  SeekRight(Finds(512, l, a, m), m, g)
<1>1. PICK q : q = 512
  OBVIOUS
<1> DEFINE u == Finds(q, l, a, m)
<1>2. /\ u.does = "find_good_or_last" /\ u.arg = q /\ u.list = l /\ u.given = Laid(l)
      /\ u.counts = Unasked /\ u.after = Laid(m) /\ u.expects = a
  BY DEF Finds, Test
<1> HIDE DEF u
<1>3. Sought(u) = q /\ q \in Nat /\ Leads(l, q, m, g)
  BY <1>1, <1>2, Asked DEF Sought
<1>4. Seeks(u, m, g)
  BY <1>2, <1>3 DEF Seeks, Searches
<1>5. FindRight(u, m, g)
  BY <1>2 DEF FindRight
<1> QED BY <1>1, <1>4, <1>5 DEF SeekRight, u

LEMMA FindsPass ==
  ASSUME Handy, NEW u \in FindTests
  PROVE  \E m, g : SeekRight(u, m, g)
<1>1. PICK q : q = 512
  OBVIOUS
<1> DEFINE r == <<"BSR_FOUND_GOOD_BLOCK", HEAP_START>>
           e == <<"BSR_REACHED_END_NOT_FOUND", HEAP_START>>
<1>2. q \in Nat /\ HeaderSize \in Nat /\ HeaderSize <= 128 /\ HEAP_START \in Nat
      /\ q = 512 /\ HEAP_START + 0 = HEAP_START
  BY <1>1, HandySizes
<1>3. Found(0) = r /\ NotFound(0) = e
  BY <1>2 DEF Found, NotFound
<1>4. SeekRight(single_block_is_good, <<Free(0, 1024)>>, 1)
  <2> DEFINE x == Free(0, 1024)
  <2>1. x \in Blocks /\ x.at = HEAP_START /\ x.size >= HeaderSize /\ x.size = 1024 /\ x.is_free
    BY TestBlocks DEF Laying
  <2> HIDE DEF x
  <2>2. Orderly(<<x>>) /\ Len(<<x>>) = 1 /\ <<x>>[1] = x
    BY <2>1, OneBlock
  <2>3. HasRoom(<<x>>, 1, q)
    BY <1>2, <2>1, <2>2 DEF HasRoom
  <2>4. Leads(<<x>>, 512, <<x>>, 1)
    BY <1>1, <2>1, <2>3, SingleLeads
  <2>5. r = IF 1 = 0 THEN <<"BSR_REACHED_END_NOT_FOUND", <<x>>[Len(<<x>>)].at>>
            ELSE <<"BSR_FOUND_GOOD_BLOCK", <<x>>[1].at>>
    BY <2>1, <2>2
  <2> HIDE DEF r
  <2>6. SeekRight(Finds(512, <<x>>, r, <<x>>), <<x>>, 1)
    BY <2>2, <2>4, <2>5, FindsOf
  <2> QED BY <1>3, <2>6 DEF single_block_is_good, x
<1>5. /\ SeekRight(single_block_is_dirty, <<Dirty(0, 1024)>>, 0)
      /\ SeekRight(single_block_is_small, <<Free(0, 256)>>, 0)
  <2>1. ASSUME NEW x \in Blocks, x.at = HEAP_START, x.size >= HeaderSize,
               ~x.is_free \/ x.size = 256
        PROVE  SeekRight(Finds(512, <<x>>, e, <<x>>), <<x>>, 0)
    <3>1. Orderly(<<x>>) /\ Len(<<x>>) = 1 /\ <<x>>[1] = x
      BY <2>1, OneBlock
    <3>2. ~HasRoom(<<x>>, 1, q)
      BY <1>2, <2>1, <3>1 DEF HasRoom
    <3>3. Leads(<<x>>, 512, <<x>>, 0)
      BY <1>1, <2>1, <3>2, SingleLeads
    <3>4. e = IF 0 = 0 THEN <<"BSR_REACHED_END_NOT_FOUND", <<x>>[Len(<<x>>)].at>>
              ELSE <<"BSR_FOUND_GOOD_BLOCK", <<x>>[0].at>>
      BY <2>1, <3>1
    <3> HIDE DEF e
    <3> QED BY <3>1, <3>3, <3>4, FindsOf
  <2> DEFINE x == Dirty(0, 1024)   y == Free(0, 256)
  <2>2. /\ x \in Blocks /\ x.at = HEAP_START /\ x.size >= HeaderSize /\ ~x.is_free
        /\ y \in Blocks /\ y.at = HEAP_START /\ y.size >= HeaderSize /\ y.size = 256
    BY TestBlocks DEF Laying
  <2> HIDE DEF x, y, e
  <2>3. /\ SeekRight(Finds(512, <<x>>, e, <<x>>), <<x>>, 0)
        /\ SeekRight(Finds(512, <<y>>, e, <<y>>), <<y>>, 0)
    BY <2>1, <2>2
  <2> QED BY <1>3, <2>3 DEF single_block_is_dirty, single_block_is_small, x, y
<1>6. SeekRight(multiple_blocks_fail, TwoDirtyMerged, 0)
  <2> DEFINE m == TwoDirtyMerged
  <2>1. Orderly(m) /\ Len(m) = 5 /\ m[5].at = HEAP_START + 896
    BY TwoDirtyMergedIs DEF Free
  <2>2. Leads(TwoDirty, 512, m, 0)
    BY <1>1, <1>2, TwoDirtyLeads
  <2>3. NotFound(896) = IF 0 = 0 THEN <<"BSR_REACHED_END_NOT_FOUND", m[Len(m)].at>>
                        ELSE <<"BSR_FOUND_GOOD_BLOCK", m[0].at>>
    BY <2>1 DEF NotFound
  <2> DEFINE l == TwoDirty   a == NotFound(896)
  <2> HIDE DEF m, l, a
  <2>4. SeekRight(Finds(512, l, a, m), m, 0)
    <3>1. Orderly(m) /\ Leads(l, 512, m, 0)
      BY <2>1, <2>2 DEF l
    <3>2. a = IF 0 = 0 THEN <<"BSR_REACHED_END_NOT_FOUND", m[Len(m)].at>>
              ELSE <<"BSR_FOUND_GOOD_BLOCK", m[0].at>>
      BY <2>3 DEF a
    <3> QED BY <3>1, <3>2, FindsOf
  <2> QED BY <2>4 DEF multiple_blocks_fail, m, l, a
<1>7. SeekRight(multiple_blocks_success, LastDirtyMerged, 3)
  <2> DEFINE m == LastDirtyMerged
  <2>1. Orderly(m) /\ m[3].at = HEAP_START + 256
    BY LastDirtyMergedIs DEF Free
  <2>2. Leads(LastDirty, 512, m, 3)
    BY LastDirtyLeads
  <2>3. Found(256) = IF 3 = 0 THEN <<"BSR_REACHED_END_NOT_FOUND", m[Len(m)].at>>
                     ELSE <<"BSR_FOUND_GOOD_BLOCK", m[3].at>>
    BY <2>1 DEF Found
  <2> HIDE DEF m
  <2>4. SeekRight(Finds(512, LastDirty, Found(256), m), m, 3)
    BY <2>1, <2>2, <2>3, FindsOf
  <2> QED BY <2>4 DEF multiple_blocks_success, m
<1> QED BY <1>4, <1>5, <1>6, <1>7 DEF FindTests

LEMMA ExistingPass ==
  ASSUME Handy, NEW u \in ExistingTests
  PROVE  \E m, g : SeekRight(u, m, g)
<1>1. PICK q : q = 512
  OBVIOUS
<1>2. q \in Nat /\ HeaderSize \in Nat /\ q = 512 /\ q + 2 * HeaderSize + BlockMinCapacity <= 640
  BY <1>1, HandySizes
<1>3. SeekRight(try_memalloc_fail, TwoDirtyMerged, 0)
  <2> DEFINE m == TwoDirtyMerged   l == TwoDirty   a == NotFound(896)
             t == Existing(q, l, a, m)
  <2>1. Orderly(m) /\ Len(m) = 5 /\ m[5].at = HEAP_START + 896
    BY TwoDirtyMergedIs DEF Free
  <2>2. Leads(l, q, m, 0)
    BY <1>1, <1>2, TwoDirtyLeads
  <2>3. a = <<"BSR_REACHED_END_NOT_FOUND", m[Len(m)].at>>
    BY <2>1 DEF NotFound
  <2> HIDE DEF m, l, a
  <2>4. /\ t.does = "try_memalloc_existing" /\ t.arg = q /\ t.list = l /\ t.given = Laid(l)
        /\ t.counts = Unasked /\ t.after = Laid(m) /\ t.expects = a
    BY DEF Existing, Test
  <2> HIDE DEF t
  <2>5. Sought(t) = q /\ q \in Nat
    BY <1>1, <2>4, Asked DEF Sought
  <2>6. Seeks(t, m, 0)
    BY <2>1, <2>2, <2>4, <2>5 DEF Seeks, Searches
  <2>7. MissRight(t, m, 0)
    BY <2>3, <2>4 DEF MissRight
  <2>8. SeekRight(t, m, 0)
    BY <2>6, <2>7 DEF SeekRight
  <2> QED BY <1>1, <2>8 DEF try_memalloc_fail, t, m, l, a
<1>4. SeekRight(try_memalloc_split, LastDirtyMerged, 3)
  <2> DEFINE m == LastDirtyMerged   l == LastDirty   a == Found(256)   s == LastDirtySplit
             t == Existing(q, l, a, s)
  <2>1. Orderly(m) /\ m[3].at = HEAP_START + 256 /\ m[3].size = 640
    BY LastDirtyMergedIs DEF Free
  <2>2. Leads(l, q, m, 3)
    BY <1>1, LastDirtyLeads
  <2>3. a = <<"BSR_FOUND_GOOD_BLOCK", m[3].at>>
    BY <2>1 DEF Found
  <2>4. CutAt(m, 3, q) = s
    BY <1>1, LastDirtyCut
  <2> HIDE DEF m, l, a, s
  <2>5. /\ t.does = "try_memalloc_existing" /\ t.arg = q /\ t.list = l /\ t.given = Laid(l)
        /\ t.counts = Unasked /\ t.after = Laid(s) /\ t.expects = a
    BY DEF Existing, Test
  <2> HIDE DEF t
  <2>6. Sought(t) = q /\ q \in Nat
    BY <1>1, <2>5, Asked DEF Sought
  <2>7. Seeks(t, m, 3)
    BY <2>1, <2>2, <2>5, <2>6 DEF Seeks, Searches
  <2>8. TakeRight(t, m, 3)
    BY <1>2, <2>1, <2>3, <2>4, <2>5, <2>6 DEF TakeRight
  <2>9. SeekRight(t, m, 3)
    BY <2>7, <2>8 DEF SeekRight
  <2> QED BY <1>1, <2>9 DEF try_memalloc_split, t, m, l, a, s
<1> QED BY <1>3, <1>4 DEF ExistingTests

\* A list in which no free block adjoins another.
Lonely(m) ==
  \A i \in 1..Len(m) : i > 1 =>
    ~(m[i].is_free /\ m[i - 1].is_free /\ m[i].at = m[i - 1].at + m[i - 1].size)

\* memalloc of q bytes on a list without room, when the stub does not give a region.
LEMMA Starves ==
  ASSUME Handy, NEW l, NEW m, Orderly(m), NEW q,
         Leads(l, size_max(q, BlockMinCapacity), m, 0), size_max(q, BlockMinCapacity) \in Nat,
         EndOf(m) = HEAP_START + 1024,
         NEW r, r = region_actual_size(size_from_capacity(q))
  PROVE  SeekRight(Allocs(q, l, mmap_failed(1024, r), NULL, 2, m), m, 0)
<1> DEFINE u == Allocs(q, l, mmap_failed(1024, r), NULL, 2, m)
           s == mmap_failed(1024, r)
<1>1. /\ u.does = "memalloc" /\ u.arg = q /\ u.list = l /\ u.given = Laid(l)
      /\ u.counts = 2 /\ u.after = Laid(m) /\ u.expects = Pointer(NULL) /\ u.stub = s
  BY DEF Allocs, Test
<1>2. s.fixed = FAILURE /\ s.anywhere = FAILURE /\ s.addr = HEAP_START + 1024 /\ s.length = r
  BY DEF mmap_failed, Stub
<1> HIDE DEF u, s
<1>3. Seeks(u, m, 0)
  BY <1>1 DEF Seeks, Searches, Sought
<1>4. StarveRight(u, m)
  BY <1>1, <1>2 DEF StarveRight, Asking
<1>5. SeekRight(u, m, 0)
  BY <1>3, <1>4 DEF SeekRight
<1> QED BY <1>5 DEF u

\* And when the stub gives one in mmap_buffer.
LEMMA Regrows ==
  ASSUME Handy, NEW l, NEW m, Orderly(m), Lonely(m), NEW q, NEW c \in Nat,
         c = size_max(q, BlockMinCapacity), Leads(l, c, m, 0), c <= 512,
         EndOf(m) = HEAP_START + 1024,
         RegionMinSize = region_actual_size(size_from_capacity(q))
  PROVE  SeekRight(Allocs(q, l, mmap_fixed_failed(1024), mmap_buffer, 2,
                          m \o BufferSplit(HeaderSize + c)), m, 0)
<1> DEFINE u == Allocs(q, l, mmap_fixed_failed(1024), mmap_buffer, 2,
                       m \o BufferSplit(HeaderSize + c))
           s == mmap_fixed_failed(1024)   n == Append(m, Buffer)
<1>1. /\ u.does = "memalloc" /\ u.arg = q /\ u.list = l /\ u.given = Laid(l)
      /\ u.counts = 2 /\ u.after = Laid(m \o BufferSplit(HeaderSize + c))
      /\ u.expects = Pointer(mmap_buffer) /\ u.stub = s
  BY DEF Allocs, Test
<1>2. /\ s.fixed = FAILURE /\ s.anywhere = mmap_buffer /\ s.addr = HEAP_START + 1024
      /\ s.length = RegionMinSize
  BY DEF mmap_fixed_failed, Stub
<1> HIDE DEF u, s
<1>3. Sought(u) = c
  BY <1>1 DEF Sought
<1>4. Seeks(u, m, 0)
  BY <1>1, <1>3 DEF Seeks, Searches
<1>5. Asking(u, m)
  BY <1>1, <1>2 DEF Asking
<1>6. /\ HeaderSize \in Nat /\ RegionMinSize \in Nat /\ HEAP_START \in Nat
      /\ c + 2 * HeaderSize + BlockMinCapacity <= RegionMinSize
      /\ RegionMinSize >= c + HeaderSize
  BY HandySizes
<1>7. /\ Buffer \in Blocks /\ Buffer.is_free /\ Buffer.size = RegionMinSize
      /\ Buffer.at = mmap_buffer /\ EndOf(m) < Buffer.at
  <2>1. PICK k \in Nat : k = 40000
    OBVIOUS
  <2>2. Free(k, RegionMinSize) \in Blocks
    BY <1>6, FreeOrDirty
  <2>3. /\ Buffer = Free(k, RegionMinSize) /\ Buffer.at = HEAP_START + k /\ Buffer.is_free
        /\ Buffer.size = RegionMinSize
    BY <2>1 DEF Buffer, Free
  <2>4. mmap_buffer = HEAP_START + k
    BY <2>1 DEF mmap_buffer
  <2>5. HEAP_START + 1024 < HEAP_START + k
    BY <1>6, <2>1
  <2> QED BY <2>2, <2>3, <2>4, <2>5
<1>8. \A i \in 1..Len(m) : ~HasRoom(m, i, c)
  BY DEF Leads
<1>9. Orderly(n) /\ Leads(n, c, n, Len(m) + 1)
  <2> DEFINE x == Buffer
  <2>1. x \in Blocks /\ x.is_free /\ x.size >= c + HeaderSize /\ m[Len(m)].at + m[Len(m)].size < x.at
    BY <1>6, <1>7 DEF EndOf
  <2> HIDE DEF x
  <2>2. Orderly(Append(m, x)) /\ Leads(Append(m, x), c, Append(m, x), Len(m) + 1)
    BY <1>8, <2>1, RegrownLeads DEF Lonely
  <2> QED BY <2>2 DEF x
<1>10. CutAt(n, Len(m) + 1, c) = m \o BufferSplit(HeaderSize + c)
  <2>1. BufferTaken(m, c)
    BY BufferCut
  <2> QED BY <2>1 DEF BufferTaken
<1> HIDE DEF n
<1>11. RegrowRight(u, m)
  <2>1. /\ u.stub.anywhere = mmap_buffer /\ u.stub.length = RegionMinSize
        /\ EndOf(m) < Buffer.at /\ Buffer.at = mmap_buffer
        /\ Sought(u) + 2 * HeaderSize + BlockMinCapacity <= RegionMinSize
    BY <1>1, <1>2, <1>3, <1>6, <1>7
  <2>2. /\ Orderly(n) /\ Leads(n, Sought(u), n, Len(m) + 1)
        /\ u.after = Laid(CutAt(n, Len(m) + 1, Sought(u)))
    BY <1>1, <1>3, <1>9, <1>10
  <2> QED BY <1>1, <1>5, <2>1, <2>2, Zenon DEF RegrowRight, n
<1>12. SeekRight(u, m, 0)
  BY <1>4, <1>11 DEF SeekRight
<1> QED BY <1>12 DEF u

LEMMA AllocsPass ==
  ASSUME Handy, NEW u \in AllocTests
  PROVE  \E m, g : SeekRight(u, m, g)
<1>1. PICK q : q = 512
  OBVIOUS
<1>2. PICK w : w = 10
  OBVIOUS
<1>3. /\ q \in Nat /\ HeaderSize \in Nat /\ BlockMinCapacity \in Nat /\ HEAP_START \in Nat
      /\ q + 2 * HeaderSize + BlockMinCapacity <= 640
      /\ BlockMinCapacity + 2 * HeaderSize + BlockMinCapacity <= 640
      /\ RegionMinSize \in Nat /\ RegionMinSize >= 512 /\ BlockMinCapacity <= 512
  BY <1>1, HandySizes
<1>4. SeekRight(memalloc_existing_big_query, LastDirtyMerged, 3)
  <2> DEFINE m == LastDirtyMerged   l == LastDirty   a == HEAP_START + 256   s == LastDirtySplit
             t == Allocs(q, l, NoStub, a, Unasked, s)
  <2>1. Orderly(m) /\ m[3].at = a /\ m[3].size = 640
    BY LastDirtyMergedIs DEF Free
  <2>2. Leads(l, q, m, 3)
    BY <1>1, LastDirtyLeads
  <2>3. CutAt(m, 3, q) = s
    BY <1>1, LastDirtyCut
  <2> HIDE DEF m, l, a, s
  <2>4. /\ t.does = "memalloc" /\ t.arg = q /\ t.list = l /\ t.given = Laid(l)
        /\ t.counts = Unasked /\ t.after = Laid(s) /\ t.expects = Pointer(a)
    BY DEF Allocs, Test
  <2> HIDE DEF t
  <2>5. Sought(t) = q /\ q \in Nat
    BY <1>1, <1>3, <2>4, Asked DEF Sought
  <2>6. Seeks(t, m, 3)
    BY <2>1, <2>2, <2>4, <2>5 DEF Seeks, Searches
  <2>7. TakeRight(t, m, 3)
    BY <1>3, <2>1, <2>3, <2>4, <2>5 DEF TakeRight
  <2>8. SeekRight(t, m, 3)
    BY <2>6, <2>7 DEF SeekRight
  <2> QED BY <1>1, <2>8 DEF memalloc_existing_big_query, t, m, l, a, s
<1>5. SeekRight(memalloc_existing_small_query, SevenMerged, 2)
  <2> DEFINE m == SevenMerged   l == Row(7, 128, {1, 7})   a == HEAP_START + 128
             taken == HeaderSize + BlockMinCapacity
             s == <<Dirty(0, 128), Dirty(128, taken), Free(128 + taken, 640 - taken),
                    Dirty(768, 128)>>
             c == BlockMinCapacity
             t == Allocs(w, l, NoStub, a, Unasked, s)
  <2>1. Orderly(m) /\ m[2].at = a /\ m[2].size = 640
    BY SevenMergedIs DEF Free
  <2>2. Leads(l, c, m, 2)
    BY SevenLeads
  <2>3. CutAt(m, 2, c) = s
    BY SevenCut
  <2> HIDE DEF m, l, a, s
  <2>4. /\ t.does = "memalloc" /\ t.arg = w /\ t.list = l /\ t.given = Laid(l)
        /\ t.counts = Unasked /\ t.after = Laid(s) /\ t.expects = Pointer(a)
    BY DEF Allocs, Test
  <2> HIDE DEF t
  <2>5. Sought(t) = c /\ c \in Nat
    BY <1>2, <1>3, <2>4, Asked DEF Sought
  <2>6. Seeks(t, m, 2)
    BY <2>1, <2>2, <2>4, <2>5 DEF Seeks, Searches
  <2>7. TakeRight(t, m, 2)
    BY <1>3, <2>1, <2>3, <2>4, <2>5 DEF TakeRight
  <2>8. SeekRight(t, m, 2)
    BY <2>6, <2>7 DEF SeekRight
  <2> QED BY <1>2, <2>8 DEF memalloc_existing_small_query, t, m, l, a, s
<1>6. /\ Orderly(TwoDirtyMerged) /\ Lonely(TwoDirtyMerged)
      /\ EndOf(TwoDirtyMerged) = HEAP_START + 1024
  <2> DEFINE m == TwoDirtyMerged
  <2>1. /\ Orderly(m) /\ Len(m) = 5 /\ m[1] = Free(0, 128) /\ m[2] = Dirty(128, 128)
        /\ m[3] = Free(256, 512) /\ m[4] = Dirty(768, 128) /\ m[5] = Free(896, 128)
    BY TwoDirtyMergedIs
  <2> HIDE DEF m
  <2>2. ~m[2].is_free /\ ~m[4].is_free
    BY <2>1 DEF Dirty
  <2>3. \A i \in 1..5 : i > 1 => i = 2 \/ i - 1 = 2 \/ i = 4 \/ i - 1 = 4
    OBVIOUS
  <2>4. Lonely(m)
    BY <2>1, <2>2, <2>3 DEF Lonely
  <2>5. m[5].at = HEAP_START + 896 /\ m[5].size = 128
    BY <2>1 DEF Free
  <2>6. EndOf(m) = HEAP_START + 1024
    BY <1>3, <2>1, <2>5 DEF EndOf
  <2> QED BY <2>1, <2>4, <2>6 DEF m
<1> DEFINE x == Dirty(0, 1024)   o == <<x>>
<1>7. /\ Orderly(o) /\ Lonely(o) /\ EndOf(o) = HEAP_START + 1024
      /\ Leads(o, BlockMinCapacity, o, 0)
  <2>1. x \in Blocks /\ x.at = HEAP_START /\ x.size >= HeaderSize /\ x.size = 1024 /\ ~x.is_free
    BY TestBlocks DEF Laying, Dirty
  <2> HIDE DEF x
  <2>2. Orderly(o) /\ Len(o) = 1 /\ o[1] = x
    BY <2>1, OneBlock
  <2>3. ~HasRoom(o, 1, BlockMinCapacity)
    BY <2>1, <2>2 DEF HasRoom
  <2>4. Leads(o, BlockMinCapacity, o, 0)
    BY <2>1, <2>3, SingleLeads
  <2> HIDE DEF o
  <2>5. Lonely(o)
    BY <2>2 DEF Lonely
  <2>6. EndOf(o) = HEAP_START + 1024
    BY <2>1, <2>2 DEF EndOf
  <2> QED BY <2>2, <2>4, <2>5, <2>6
<1>8. SeekRight(grow_heap_fail_big_query, TwoDirtyMerged, 0)
  <2> DEFINE m == TwoDirtyMerged   l == TwoDirty   k == RegionMinSize   r == k + PageSize
  <2>1. size_max(k, BlockMinCapacity) = k /\ region_actual_size(size_from_capacity(k)) = r
    BY Asked
  <2>2. Leads(l, k, m, 0)
    BY <1>3, TwoDirtyLeads
  <2> HIDE DEF m, l, k, r
  <2>3. SeekRight(Allocs(k, l, mmap_failed(1024, r), NULL, 2, m), m, 0)
    BY <1>3, <1>6, <2>1, <2>2, Starves DEF m, k
  <2> QED BY <2>3 DEF grow_heap_fail_big_query, m, l, k, r
<1>9. SeekRight(grow_heap_fail_small_query, o, 0)
  <2>1. size_max(w, BlockMinCapacity) = BlockMinCapacity
        /\ region_actual_size(size_from_capacity(w)) = RegionMinSize
    BY <1>2, Asked
  <2> HIDE DEF o
  <2>2. SeekRight(Allocs(w, o, mmap_failed(1024, RegionMinSize), NULL, 2, o), o, 0)
    BY <1>3, <1>7, <2>1, Starves
  <2> QED BY <1>2, <2>2 DEF grow_heap_fail_small_query, o
<1>10. SeekRight(grow_heap_success_big_query, TwoDirtyMerged, 0)
  <2> DEFINE m == TwoDirtyMerged   l == TwoDirty
  <2>1. size_max(q, BlockMinCapacity) = q
        /\ region_actual_size(size_from_capacity(q)) = RegionMinSize
    BY <1>1, Asked
  <2>2. Leads(l, q, m, 0) /\ q <= 512
    BY <1>1, <1>3, TwoDirtyLeads
  <2> HIDE DEF m, l
  <2>3. SeekRight(Allocs(q, l, mmap_fixed_failed(1024), mmap_buffer, 2,
                         m \o BufferSplit(HeaderSize + q)), m, 0)
    BY <1>3, <1>6, <2>1, <2>2, Regrows DEF m
  <2> QED BY <1>1, <2>3 DEF grow_heap_success_big_query, m, l
<1>11. SeekRight(grow_heap_success_small_query, o, 0)
  <2> DEFINE c == BlockMinCapacity
  <2>1. c = size_max(w, BlockMinCapacity)
        /\ RegionMinSize = region_actual_size(size_from_capacity(w))
    BY <1>2, Asked
  <2> HIDE DEF o
  <2>2. Leads(o, c, o, 0) /\ c <= 512 /\ c \in Nat
    BY <1>3, <1>7
  <2> HIDE DEF c
  <2>3. SeekRight(Allocs(w, o, mmap_fixed_failed(1024), mmap_buffer, 2,
                         o \o BufferSplit(HeaderSize + c)), o, 0)
    BY <1>7, <2>1, <2>2, Regrows
  <2> QED BY <1>2, <2>3 DEF grow_heap_success_small_query, o, c
<1> QED BY <1>4, <1>5, <1>8, <1>9, <1>10, <1>11 DEF AllocTests

-----------------------------------------------------------------------------
(* The unit tests, one by one: those that pass and those that cannot.      *)

Passing(u) ==
  \/ MergeRight(u)
  \/ SplitRight(u)
  \/ FreeRight(u)
  \/ GrowRight(u)
  \/ RegionRight(u)
  \/ \E m, g : SeekRight(u, m, g)

\* Which of them it is, by the function it calls.
LEMMA PassingDoes ==
  ASSUME NEW u, Passing(u)
  PROVE  /\ u.does = "try_merge_with_next" => MergeRight(u)
         /\ u.does = "split_if_too_big" => SplitRight(u)
         /\ u.does = "_free" => FreeRight(u)
         /\ u.does = "grow_heap" => GrowRight(u)
         /\ u.does \in {"alloc_region", "heap_init"} => RegionRight(u)
         /\ u.does \in Searches => \E m, g : SeekRight(u, m, g)
<1>1. MergeRight(u) => u.does = "try_merge_with_next"
  BY DEF MergeRight
<1>2. SplitRight(u) => u.does = "split_if_too_big"
  BY DEF SplitRight
<1>3. FreeRight(u) => u.does = "_free"
  BY DEF FreeRight
<1>4. GrowRight(u) => u.does = "grow_heap"
  BY DEF GrowRight
<1>5. RegionRight(u) => u.does \in {"alloc_region", "heap_init"}
  BY DEF RegionRight, Denied
<1>6. (\E m, g : SeekRight(u, m, g)) => u.does \in Searches
  BY DEF SeekRight, Seeks
<1>7. u.does = "try_merge_with_next" => MergeRight(u)
  BY <1>2, <1>3, <1>4, <1>5, <1>6 DEF Passing, Searches
<1>8. u.does = "split_if_too_big" => SplitRight(u)
  BY <1>1, <1>3, <1>4, <1>5, <1>6 DEF Passing, Searches
<1>9. u.does = "_free" => FreeRight(u)
  BY <1>1, <1>2, <1>4, <1>5, <1>6 DEF Passing, Searches
<1>10. u.does = "grow_heap" => GrowRight(u)
  BY <1>1, <1>2, <1>3, <1>5, <1>6 DEF Passing, Searches
<1>11. u.does \in {"alloc_region", "heap_init"} => RegionRight(u)
  BY <1>1, <1>2, <1>3, <1>4, <1>6 DEF Passing, Searches
<1>12. u.does \in Searches => \E m, g : SeekRight(u, m, g)
  BY <1>1, <1>2, <1>3, <1>4, <1>5 DEF Passing, Searches
<1> QED BY <1>7, <1>8, <1>9, <1>10, <1>11, <1>12

\* A test passes or cannot pass, as PlatformTests has it.
LEMMA EveryTest ==
  ASSUME Handy, NEW u \in UnitTests
  PROVE  \/ Passing(u) /\ u \notin PlatformTests
         \/ RegionWrong(u) /\ u \in PlatformTests
<1>1. CASE u \in PlatformTests
  BY <1>1, RegionsFail
<1>2. CASE u \notin PlatformTests
  <2>1. \/ u \in MergeTests \/ u \in SplitTests \/ u \in FreeTests \/ u \in FindTests
        \/ u \in ExistingTests \/ u \in AllocTests \/ u \in GrowTests \/ u \in RegionTests
    BY <1>2, Zenon DEF UnitTests, MergeTests, SplitTests, FreeTests, FindTests, ExistingTests, AllocTests,
            GrowTests, RegionTests
  <2>2. Passing(u)
    BY <2>1, MergesPass, SplitsPass, FreesPass, FindsPass, ExistingPass, AllocsPass,
       GrowsPass, RegionsPass DEF Passing
  <2> QED BY <1>2, <2>2
<1> QED BY <1>1, <1>2

-----------------------------------------------------------------------------
(* A unit test, wherever it is.                                            *)

\* _free has freed the block and may merge it with the next one.
Freeing ==
  /\ FreeRight(unit) /\ pc = "free" /\ cur = HEAP_START
  /\ \/ ~mergeable(hdr, cur) /\ Agrees(hdr, unit.after)
     \/ /\ mergeable(hdr, cur)
        /\ ~mergeable(merge_with_next(hdr, cur), cur)
        /\ Agrees(merge_with_next(hdr, cur), unit.after)

\* grow_heap is about to ask for its region.
Extending ==
  /\ GrowRight(unit) /\ pc = "grow" /\ cur = HEAP_START
  /\ hdr = unit.given /\ query = unit.arg /\ calls = 0

\* The search goes through the list of the test, for the first time.
Seeking ==
  /\ pc = "find" /\ ~grown /\ query = unit.arg /\ calls = 0
  /\ \E m, g : SeekRight(unit, m, g)
  /\ \E c, e \in DOMAIN unit.list : Reached(unit.list, Sought(unit), c, e)

\* memalloc has found nothing and is about to ask for a region.
Lacking ==
  /\ pc = "grow" /\ query = unit.arg /\ calls = 0
  /\ \E m : /\ Seeks(unit, m, 0) /\ (StarveRight(unit, m) \/ RegrowRight(unit, m))
            /\ Stand(m) /\ cur = m[Len(m)].at

\* It goes through the list again, with the region in mmap_buffer behind it.
Retrying ==
  /\ pc = "find" /\ grown /\ query = unit.arg /\ calls = 2
  /\ \E m : /\ Seeks(unit, m, 0) /\ RegrowRight(unit, m)
            /\ \E c, e \in DOMAIN Append(m, Buffer) :
                 Reached(Append(m, Buffer), Sought(unit), c, e)

UnitInv ==
  /\ \/ Passing(unit) /\ unit \notin PlatformTests
     \/ RegionWrong(unit) /\ unit \in PlatformTests
  /\ phase \in {"ready", "running", "over"}
  /\ phase = "ready" => hdr = unit.given /\ calls = 0 /\ stub_ok
  /\ phase = "running" =>
       /\ Passing(unit) /\ stub_ok
       /\ Freeing \/ Extending \/ Seeking \/ Lacking \/ Retrying
  /\ AssertionsHold

\* A test that has ended as it asserts, and one that goes on.
LEMMA Concluded ==
  ASSUME UnitInv, unit' = unit, phase' = "over", Passing(unit), unit \notin PlatformTests,
         stub_ok', unit.counts \in {calls', Unasked}, unit.expects \in {result', Ignored},
         Agrees(hdr', unit.after)
  PROVE  UnitInv'
<1>1. Passes'
  BY DEF Passes, Agrees
<1>2. AssertionsHold'
  BY <1>1 DEF AssertionsHold
<1> QED BY <1>2 DEF UnitInv

LEMMA Continued ==
  ASSUME UnitInv, unit' = unit, phase' = "running", Passing(unit), unit \notin PlatformTests,
         stub_ok', Freeing' \/ Extending' \/ Seeking' \/ Lacking' \/ Retrying'
  PROVE  UnitInv'
<1>1. AssertionsHold'
  BY DEF AssertionsHold
<1> QED BY <1>1 DEF UnitInv

\* What a test that calls anything but alloc_region and heap_init is.
LEMMA Counting ==
  ASSUME UnitInv, unit.does \notin {"alloc_region", "heap_init"} \/ phase = "running"
  PROVE  Passing(unit) /\ unit \notin PlatformTests
<1>1. CASE unit.does \notin {"alloc_region", "heap_init"}
  BY <1>1 DEF UnitInv, RegionWrong, Denied
<1>2. CASE phase = "running"
  <2>1. Passing(unit)
    BY <1>2 DEF UnitInv
  <2>2. unit.does \in {"alloc_region", "heap_init"} => RegionRight(unit)
    BY <2>1, PassingDoes
  <2>3. ~RegionWrong(unit)
    BY <2>2 DEF RegionWrong, RegionRight, Denied
  <2> QED BY <2>1, <2>3 DEF UnitInv
<1> QED BY <1>1, <1>2

LEMMA MergeStep == UnitInv /\ TestMerge => UnitInv'
<1> SUFFICES ASSUME UnitInv, TestMerge PROVE UnitInv'
  OBVIOUS
<1>1. /\ phase = "ready" /\ unit.does = "try_merge_with_next"
      /\ hdr' = try_merge_with_next(hdr, HEAP_START)
      /\ unit' = unit /\ phase' = "over" /\ result' = Verdict(mergeable(hdr, HEAP_START))
      /\ stub_ok' = stub_ok
  BY DEF TestMerge, Over, Stubless
<1>2. Passing(unit) /\ unit \notin PlatformTests
  BY <1>1, Counting
<1>3. MergeRight(unit)
  BY <1>1, <1>2, PassingDoes
<1>4. hdr = unit.given /\ stub_ok
  BY <1>1 DEF UnitInv
<1>5. /\ unit.counts \in {calls', Unasked} /\ unit.expects \in {result', Ignored}
      /\ Agrees(hdr', unit.after)
  BY <1>1, <1>3, <1>4 DEF MergeRight
<1> QED BY <1>1, <1>2, <1>4, <1>5, Concluded

LEMMA SplitStep == UnitInv /\ TestSplit => UnitInv'
<1> SUFFICES ASSUME UnitInv, TestSplit PROVE UnitInv'
  OBVIOUS
<1>1. /\ phase = "ready" /\ unit.does = "split_if_too_big"
      /\ hdr' = split_if_too_big(hdr, HEAP_START, unit.arg)
      /\ unit' = unit /\ phase' = "over"
      /\ result' = Verdict(block_splittable(hdr, HEAP_START, unit.arg))
      /\ stub_ok' = stub_ok
  BY DEF TestSplit, Over, Stubless
<1>2. Passing(unit) /\ unit \notin PlatformTests
  BY <1>1, Counting
<1>3. SplitRight(unit)
  BY <1>1, <1>2, PassingDoes
<1>4. hdr = unit.given /\ stub_ok
  BY <1>1 DEF UnitInv
<1>5. /\ unit.counts \in {calls', Unasked} /\ unit.expects \in {result', Ignored}
      /\ Agrees(hdr', unit.after)
  BY <1>1, <1>3, <1>4 DEF SplitRight
<1> QED BY <1>1, <1>2, <1>4, <1>5, Concluded

LEMMA FreeStep == UnitInv /\ TestFree => UnitInv'
<1> SUFFICES ASSUME UnitInv, TestFree PROVE UnitInv'
  OBVIOUS
<1>1. phase = "ready" /\ unit.does = "_free" /\ stub_ok' = stub_ok /\ unit' = unit
  BY DEF TestFree, Over, Runs, Stubless
<1>2. Passing(unit) /\ unit \notin PlatformTests
  BY <1>1, Counting
<1>3. FreeRight(unit)
  BY <1>1, <1>2, PassingDoes
<1>4. hdr = unit.given /\ stub_ok
  BY <1>1 DEF UnitInv
<1>5. HEAP_START # NULL
  BY AddressesAssumption DEF NULL
<1>6. CASE unit.arg = NULL
  <2>1. phase' = "over" /\ result' = Void /\ hdr' = hdr
    BY <1>6 DEF TestFree, Over, vars
  <2>2. Agrees(unit.given, unit.after) /\ unit.counts = Unasked /\ unit.expects = Void
    BY <1>3, <1>5, <1>6 DEF FreeRight
  <2>3. Agrees(hdr', unit.after)
    BY <1>4, <2>1, <2>2
  <2> QED BY <1>1, <1>2, <1>4, <2>1, <2>2, <2>3, Concluded
<1>7. CASE unit.arg # NULL
  <2>1. unit.arg = HEAP_START
    BY <1>3, <1>7 DEF FreeRight
  <2>2. /\ phase' = "running" /\ hdr' = [hdr EXCEPT ![unit.arg].is_free = TRUE]
        /\ pc' = "free" /\ cur' = unit.arg
    BY <1>7 DEF TestFree, Runs, _free
  <2>3. hdr' = Freed(unit)
    BY <1>4, <2>1, <2>2 DEF Freed, Opened
  <2>4. \/ ~mergeable(hdr', HEAP_START) /\ Agrees(hdr', unit.after)
        \/ /\ mergeable(hdr', HEAP_START)
           /\ ~mergeable(merge_with_next(hdr', HEAP_START), HEAP_START)
           /\ Agrees(merge_with_next(hdr', HEAP_START), unit.after)
    BY <1>3, <1>7, <2>3 DEF FreeRight
  <2>5. Freeing'
    BY <1>1, <1>3, <2>1, <2>2, <2>4 DEF Freeing
  <2> QED BY <1>1, <1>2, <1>4, <2>2, <2>5, Continued
<1> QED BY <1>6, <1>7

LEMMA FreeMergeStep ==
  ASSUME UnitInv, phase = "running", FreeMerge, UNCHANGED unit_vars
  PROVE  UnitInv'
<1>1. Passing(unit) /\ unit \notin PlatformTests /\ stub_ok
  BY Counting DEF UnitInv
<1>2. /\ unit' = unit /\ phase' = "running" /\ stub_ok' = stub_ok
      /\ pc = "free" /\ mergeable(hdr, cur) /\ hdr' = merge_with_next(hdr, cur)
      /\ pc' = pc /\ cur' = cur
  BY DEF FreeMerge, unit_vars
<1>3. Freeing
  BY <1>2 DEF UnitInv, Extending, Seeking, Lacking, Retrying
<1>4. ~mergeable(hdr', cur) /\ Agrees(hdr', unit.after)
  BY <1>2, <1>3 DEF Freeing
<1>5. Freeing'
  BY <1>2, <1>3, <1>4 DEF Freeing
<1> QED BY <1>1, <1>2, <1>5, Continued

LEMMA FreeEndsStep == UnitInv /\ TestFreeEnds => UnitInv'
<1> SUFFICES ASSUME UnitInv, TestFreeEnds PROVE UnitInv'
  OBVIOUS
<1>1. /\ phase = "running" /\ pc = "free" /\ ~mergeable(hdr, cur) /\ hdr' = hdr
      /\ unit' = unit /\ phase' = "over" /\ result' = Void /\ stub_ok' = stub_ok
  BY DEF TestFreeEnds, FreeReturn, Over, Stubless
<1>2. Passing(unit) /\ unit \notin PlatformTests /\ stub_ok
  BY <1>1, Counting DEF UnitInv
<1>3. Freeing
  BY <1>1 DEF UnitInv, Extending, Seeking, Lacking, Retrying
<1>4. Agrees(hdr', unit.after)
  BY <1>1, <1>3 DEF Freeing
<1>5. unit.counts = Unasked /\ unit.expects = Void
  BY <1>3 DEF Freeing, FreeRight
<1> QED BY <1>1, <1>2, <1>4, <1>5, Concluded

LEMMA RegionStep == UnitInv /\ TestRegion => UnitInv'
<1> SUFFICES ASSUME UnitInv, TestRegion PROVE UnitInv'
  OBVIOUS
<1> DEFINE size == region_actual_size(size_from_capacity(unit.arg))
<1>1. phase = "ready" /\ unit.does \in {"alloc_region", "heap_init"} /\ Asks(HEAP_START, size)
  BY DEF TestRegion
<1>2. hdr = unit.given /\ calls = 0 /\ stub_ok
  BY <1>1 DEF UnitInv
<1>3. RegionRight(unit) \/ RegionWrong(unit)
  BY <1>1, PassingDoes DEF UnitInv
<1>4. unit.stub.fixed = FAILURE /\ answer = FAILURE
  BY <1>3 DEF RegionRight, RegionWrong, Denied, answer
<1>5. /\ unit' = unit /\ phase' = "over" /\ result' = Nothing(unit)
      /\ calls' = 2
  <2>1. phase' = "over" /\ unit' = unit /\ result' = Nothing(unit)
    BY <1>1, <1>4 DEF TestRegion, Over, Nothing
  <2>2. calls' = 0 + 2
    BY <1>1, <1>2, <1>4 DEF Asks
  <2> QED BY <2>1, <2>2
<1>6. CASE unit \notin PlatformTests
  <2>1. Passing(unit) /\ RegionRight(unit)
    BY <1>1, <1>6, PassingDoes DEF UnitInv
  <2>2. /\ unit.expects \in {result', Ignored} /\ unit.counts \in {calls', Unasked}
        /\ DOMAIN unit.after = {}
    BY <1>5, <2>1 DEF RegionRight
  <2>3. stub_ok'
    BY <1>1, <1>2, <2>1 DEF Asks, RegionRight
  <2>4. Agrees(hdr', unit.after)
    BY <2>2 DEF Agrees
  <2> QED BY <1>5, <1>6, <2>1, <2>2, <2>3, <2>4, Concluded
<1>7. CASE unit \in PlatformTests
  <2>1. RegionWrong(unit)
    BY <1>7 DEF UnitInv
  <2>2. unit.expects \notin {result', Ignored}
    BY <1>5, <2>1 DEF RegionWrong
  <2>3. ~Passes'
    BY <1>5, <2>2 DEF Passes
  <2>4. AssertionsHold'
    BY <1>5, <1>7, <2>3 DEF AssertionsHold
  <2> QED BY <1>5, <1>7, <2>1, <2>4 DEF UnitInv
<1> QED BY <1>6, <1>7

\* A search takes what it looks for to be no less than BLOCK_MIN_CAPACITY.
LEMMA Wanting ==
  ASSUME NEW m, NEW g, Seeks(unit, m, g), query = unit.arg
  PROVE  /\ wanted = Sought(unit) /\ Sought(unit) \in Nat
         /\ unit.list \in Layouts /\ m \in Layouts /\ unit.given = Laid(unit.list)
<1>1. Leads(unit.list, Sought(unit), m, g)
  BY DEF Seeks
<1> QED BY <1>1 DEF Seeks, wanted, Sought, Leads

LEMMA SearchStep == UnitInv /\ TestSearch => UnitInv'
<1> SUFFICES ASSUME UnitInv, TestSearch PROVE UnitInv'
  OBVIOUS
<1>1. /\ phase = "ready" /\ unit.does \in Searches
      /\ hdr' = hdr /\ cur' = HEAP_START /\ query' = unit.arg /\ grown' = FALSE
      /\ pc' = IF HEAP_START \in DOMAIN hdr THEN "find" ELSE "fault"
      /\ unit' = unit /\ phase' = "running" /\ calls' = calls /\ stub_ok' = stub_ok
  BY DEF TestSearch, _malloc, Runs, Stubless
<1>2. Passing(unit) /\ unit \notin PlatformTests
  BY <1>1, Counting DEF Searches
<1>3. PICK m, g : SeekRight(unit, m, g)
  BY <1>1, <1>2, PassingDoes
<1>4. hdr = unit.given /\ calls = 0 /\ stub_ok
  BY <1>1 DEF UnitInv
<1> PICK l, q : l = unit.list /\ q = Sought(unit)
  OBVIOUS
<1>5. l \in Layouts /\ hdr = Laid(l)
  <2>1. Seeks(unit, m, g)
    BY <1>3 DEF SeekRight
  <2> QED BY <1>4, <2>1 DEF Seeks, Leads
<1>6. \A j \in 1..Len(l) : Stands(l, j, j)'
  <2> TAKE j \in 1..Len(l)
  <2>1. l[j].at \in DOMAIN Laid(l) /\ Laid(l)[l[j].at] = Gathered(l, j, j)
    BY <1>5, LaidBlock
  <2> QED BY <1>1, <1>5, <2>1 DEF Stands
<1>7. 1 \in DOMAIN l /\ Reached(l, q, 1, 1)'
  BY <1>1, <1>5, <1>6, ReachedFirst
<1>8. pc' = "find"
  <2>1. 1 \in 1..Len(l) /\ l[1].at = HEAP_START
    BY <1>5, LayoutShape
  <2>2. l[1].at \in {l[k].at : k \in 1..Len(l)}
    BY <2>1
  <2>3. HEAP_START \in DOMAIN hdr
    BY <1>5, <2>1, <2>2, LaidBlock
  <2> QED BY <1>1, <2>3
<1>9. Seeking'
  <2>1. l = unit'.list /\ q = Sought(unit') /\ SeekRight(unit', m, g)
    BY <1>1, <1>3
  <2> QED BY <1>1, <1>4, <1>7, <1>8, <2>1 DEF Seeking
<1> QED BY <1>1, <1>2, <1>4, <1>9, Continued

\* One turn of the loop.
LEMMA LoopReaches ==
  ASSUME NEW l \in Layouts, NEW q \in Nat, wanted = q, FindMerge \/ FindNext,
         \E c, e \in DOMAIN l : Reached(l, q, c, e)
  PROVE  \E c, e \in DOMAIN l : Reached(l, q, c, e)'
<1>1. PICK c, e \in DOMAIN l : Reached(l, q, c, e)
  OBVIOUS
<1> QED BY <1>1, ReachedMerge, ReachedNext

LEMMA LoopStep ==
  ASSUME UnitInv, phase = "running", FindMerge \/ FindNext, UNCHANGED unit_vars
  PROVE  UnitInv'
<1>1. Passing(unit) /\ unit \notin PlatformTests /\ stub_ok
  BY Counting DEF UnitInv
<1>2. /\ unit' = unit /\ phase' = "running" /\ stub_ok' = stub_ok /\ calls' = calls
      /\ pc = "find" /\ pc' = "find" /\ query' = query /\ grown' = grown
  BY DEF FindMerge, FindNext, unit_vars
<1> PICK u, q : u = unit /\ q = Sought(u)
  OBVIOUS
<1>3. Seeking \/ Retrying
  BY <1>2 DEF UnitInv, Freeing, Extending, Lacking
<1>4. CASE Seeking
  <2>1. PICK m, g : SeekRight(u, m, g)
    BY <1>4 DEF Seeking
  <2>2. query = u.arg /\ Seeks(u, m, g)
    BY <1>4, <2>1 DEF Seeking, SeekRight
  <2>3. wanted = q /\ q \in Nat /\ u.list \in Layouts
    BY <2>2, Wanting
  <2>4. \E c, e \in DOMAIN u.list : Reached(u.list, q, c, e)
    BY <1>4 DEF Seeking
  <2> PICK l : l = u.list
    OBVIOUS
  <2>5. \E c, e \in DOMAIN l : Reached(l, q, c, e)'
    BY <2>3, <2>4, LoopReaches
  <2>6. Seeking'
    <3>1. l = unit'.list /\ q = Sought(unit') /\ SeekRight(unit', m, g)
      BY <1>2, <2>1
    <3> QED BY <1>2, <1>4, <2>5, <3>1 DEF Seeking
  <2> QED BY <1>1, <1>2, <2>6, Continued
<1>5. CASE Retrying
  <2>1. PICK m : /\ Seeks(u, m, 0) /\ RegrowRight(u, m)
                 /\ \E c, e \in DOMAIN Append(m, Buffer) : Reached(Append(m, Buffer), q, c, e)
    BY <1>5 DEF Retrying
  <2>2. wanted = q /\ q \in Nat
    BY <1>5, <2>1, Wanting DEF Retrying
  <2> PICK l : l = Append(m, Buffer)
    OBVIOUS
  <2>3. l \in Layouts
    BY <2>1 DEF RegrowRight, Orderly
  <2>4. \E c, e \in DOMAIN l : Reached(l, q, c, e)'
    BY <2>1, <2>2, <2>3, LoopReaches
  <2>5. Retrying'
    <3>1. q = Sought(unit') /\ Seeks(unit', m, 0) /\ RegrowRight(unit', m)
      BY <1>2, <2>1
    <3> QED BY <1>2, <1>5, <2>4, <3>1 DEF Retrying
  <2> QED BY <1>1, <1>2, <2>5, Continued
<1> QED BY <1>3, <1>4, <1>5

\* Where the first search ends.
LEMMA SeekEnds ==
  ASSUME Seeking, NEW m, NEW g, SeekRight(unit, m, g),
         ~mergeable(hdr, cur), verdict(hdr, cur, wanted) # "continue"
  PROVE  /\ Stand(m)
         /\ g = 0 => /\ verdict(hdr, cur, wanted) = "BSR_REACHED_END_NOT_FOUND"
                     /\ cur = m[Len(m)].at
         /\ g # 0 => /\ verdict(hdr, cur, wanted) = "BSR_FOUND_GOOD_BLOCK"
                     /\ cur = m[g].at
<1>1. Seeks(unit, m, g) /\ query = unit.arg
  BY DEF Seeking, SeekRight
<1> PICK l, q : l = unit.list /\ q = Sought(unit)
  OBVIOUS
<1>2. wanted = q /\ q \in Nat /\ Leads(l, q, m, g)
  BY <1>1, Wanting DEF Seeks
<1>3. PICK c, e \in DOMAIN l : Reached(l, q, c, e)
  BY DEF Seeking
<1> QED BY <1>2, <1>3, Leading

\* A search of a list in which there is nothing to merge.
LEMMA LeadingTo ==
  ASSUME NEW l, NEW q \in Nat, NEW g, g # 0, Leads(l, q, l, g),
         NEW c, NEW e, Reached(l, q, c, e), wanted = q,
         ~mergeable(hdr, cur), verdict(hdr, cur, wanted) # "continue"
  PROVE  Stand(l) /\ verdict(hdr, cur, wanted) = "BSR_FOUND_GOOD_BLOCK" /\ cur = l[g].at
BY Leading

\* And the second.
LEMMA RetryEnds ==
  ASSUME Retrying, NEW m, Seeks(unit, m, 0), RegrowRight(unit, m),
         \E c, e \in DOMAIN Append(m, Buffer) : Reached(Append(m, Buffer), Sought(unit), c, e),
         ~mergeable(hdr, cur), verdict(hdr, cur, wanted) # "continue"
  PROVE  /\ Stand(Append(m, Buffer))
         /\ verdict(hdr, cur, wanted) = "BSR_FOUND_GOOD_BLOCK"
         /\ cur = Append(m, Buffer)[Len(m) + 1].at
<1> PICK l, q : l = Append(m, Buffer) /\ q = Sought(unit)
  OBVIOUS
<1>1. wanted = q /\ q \in Nat
  BY Wanting DEF Retrying
<1>2. Leads(l, q, l, Len(m) + 1) /\ Len(m) \in Nat
  <2>1. m \in Layouts
    BY DEF Seeks, Orderly
  <2> QED BY <2>1, LayoutShape DEF RegrowRight
<1>3. PICK c, e \in DOMAIN l : Reached(l, q, c, e)
  OBVIOUS
<1> PICK g : g = Len(m) + 1
  OBVIOUS
<1>4. g # 0 /\ Leads(l, q, l, g)
  BY <1>2
<1>5. Stand(l) /\ verdict(hdr, cur, wanted) = "BSR_FOUND_GOOD_BLOCK" /\ cur = l[g].at
  BY <1>1, <1>3, <1>4, LeadingTo
<1> QED BY <1>5

\* Headers that stand as a test asserts.
LEMMA StandingAgrees ==
  ASSUME NEW m, Orderly(m)
  PROVE  /\ Stand(m) => Agrees(hdr, Laid(m))
         /\ Stand(m)' => Agrees(hdr', Laid(m))
<1>1. m \in Layouts
  BY DEF Orderly
<1> QED BY <1>1, StandCarries, StandCarriesNext, CarriesLaid

LEMMA FindReturnsStep == UnitInv /\ FindReturns => UnitInv'
<1> SUFFICES ASSUME UnitInv, FindReturns PROVE UnitInv'
  OBVIOUS
<1>1. /\ phase = "running" /\ unit.does = "find_good_or_last" /\ pc = "find"
      /\ ~mergeable(hdr, cur) /\ verdict(hdr, cur, wanted) # "continue"
      /\ unit' = unit /\ phase' = "over" /\ hdr' = hdr /\ stub_ok' = stub_ok
      /\ result' = <<verdict(hdr, cur, wanted), cur>>
  BY DEF FindReturns, Over, Stubless
<1>2. Passing(unit) /\ unit \notin PlatformTests /\ stub_ok
  BY <1>1, Counting DEF UnitInv
<1>3. Seeking
  <2>1. Seeking \/ Retrying
    BY <1>1 DEF UnitInv, Freeing, Extending, Lacking
  <2> QED BY <1>1, <2>1 DEF Retrying, RegrowRight, Asking
<1>4. PICK m, g : SeekRight(unit, m, g)
  BY <1>3 DEF Seeking
<1>5. FindRight(unit, m, g) /\ Orderly(m)
  BY <1>1, <1>4 DEF SeekRight, Seeks, TakeRight, MissRight, StarveRight, RegrowRight, Asking
<1>6. /\ Stand(m)
      /\ g = 0 => /\ verdict(hdr, cur, wanted) = "BSR_REACHED_END_NOT_FOUND"
                  /\ cur = m[Len(m)].at
      /\ g # 0 => /\ verdict(hdr, cur, wanted) = "BSR_FOUND_GOOD_BLOCK"
                  /\ cur = m[g].at
  BY <1>1, <1>3, <1>4, SeekEnds
<1>7. unit.expects = result' /\ unit.counts = Unasked /\ unit.after = Laid(m)
  BY <1>1, <1>5, <1>6 DEF FindRight
<1>8. Agrees(hdr', unit.after)
  BY <1>1, <1>5, <1>6, <1>7, StandingAgrees
<1> QED BY <1>1, <1>2, <1>7, <1>8, Concluded

LEMMA TakesStep == UnitInv /\ Takes => UnitInv'
<1> SUFFICES ASSUME UnitInv, Takes PROVE UnitInv'
  OBVIOUS
<1>1. /\ phase = "running" /\ unit.does # "find_good_or_last" /\ pc = "find" /\ FindGood
      /\ ~mergeable(hdr, cur) /\ verdict(hdr, cur, wanted) = "BSR_FOUND_GOOD_BLOCK"
      /\ unit' = unit /\ phase' = "over" /\ stub_ok' = stub_ok /\ calls' = calls
      /\ result' = IF unit.does = "memalloc" THEN Pointer(cur)
                   ELSE <<"BSR_FOUND_GOOD_BLOCK", cur>>
  BY DEF Takes, FindGood, Over, Stubless
<1>2. Passing(unit) /\ unit \notin PlatformTests /\ stub_ok
  BY <1>1, Counting DEF UnitInv
<1>3. Seeking \/ Retrying
  BY <1>1 DEF UnitInv, Freeing, Extending, Lacking
<1> PICK q : q = Sought(unit)
  OBVIOUS
<1>4. CASE Seeking
  <2>1. PICK m, g : SeekRight(unit, m, g)
    BY <1>4 DEF Seeking
  <2>2. /\ Stand(m)
        /\ g = 0 => verdict(hdr, cur, wanted) = "BSR_REACHED_END_NOT_FOUND"
        /\ g # 0 => cur = m[g].at
    BY <1>1, <1>4, <2>1, SeekEnds
  <2>3. g # 0 /\ cur = m[g].at
    BY <1>1, <2>2
  <2>4. TakeRight(unit, m, g) /\ Seeks(unit, m, g)
    BY <1>1, <2>1, <2>3 DEF SeekRight, FindRight, MissRight
  <2>5. wanted = q /\ q \in Nat
    BY <1>4, <2>4, Wanting DEF Seeking
  <2>6. Orderly(m) /\ g \in 1..Len(m) /\ m[g].is_free
    BY <2>3, <2>4 DEF Seeks, Leads, HasRoom
  <2>7. q + 2 * HeaderSize + BlockMinCapacity <= m[g].size
    BY <2>4 DEF TakeRight
  <2>8. Stand(CutAt(m, g, q))'
    BY <1>1, <2>2, <2>3, <2>5, <2>6, <2>7, TakingCuts
  <2>9. Orderly(CutAt(m, g, q))
    <3>1. q + 2 * HeaderSize <= m[g].size
      <4> DEFINE s == m[g].size
      <4>1. s \in Nat /\ HeaderSize \in Nat /\ BlockMinCapacity \in Nat
        BY <2>6, OrderlyIs, SizesAssumption
      <4> HIDE DEF s
      <4> QED BY <2>5, <2>7, <4>1 DEF s
    <3> QED BY <2>5, <2>6, <3>1, CutAtOrderly
  <2>10. Agrees(hdr', unit.after)
    BY <2>4, <2>8, <2>9, StandingAgrees DEF TakeRight
  <2>11. unit.counts = Unasked /\ unit.expects = result'
    BY <1>1, <2>3, <2>4 DEF TakeRight
  <2> QED BY <1>1, <1>2, <2>10, <2>11, Concluded
<1>5. CASE Retrying
  <2>1. PICK m : /\ Seeks(unit, m, 0) /\ RegrowRight(unit, m)
                 /\ \E c, e \in DOMAIN Append(m, Buffer) :
                      Reached(Append(m, Buffer), Sought(unit), c, e)
    BY <1>5 DEF Retrying
  <2> PICK l, g : l = Append(m, Buffer) /\ g = Len(m) + 1
    OBVIOUS
  <2>2. Stand(l) /\ cur = l[g].at
    BY <1>1, <1>5, <2>1, RetryEnds
  <2>3. wanted = q /\ q \in Nat
    BY <1>5, <2>1, Wanting DEF Retrying
  <2>4. /\ Orderly(l) /\ Len(m) \in Nat /\ l[g] = Buffer
    <3>1. Orderly(m) /\ Orderly(l)
      BY <2>1 DEF Seeks, RegrowRight
    <3>2. m \in [1..Len(m) -> Blocks] /\ Len(m) \in Nat
      BY <3>1, OrderlyIs
    <3>3. l = Append(m, Buffer) /\ m \in Seq(Blocks)
      BY <3>2
    <3> QED BY <3>1, <3>2, <3>3
  <2>5. g \in 1..Len(l) /\ l[g].is_free
    <3>1. Leads(l, q, l, g) /\ g # 0
      BY <2>1, <2>4 DEF RegrowRight
    <3> QED BY <3>1 DEF Leads, HasRoom
  <2>6. Buffer.size = RegionMinSize /\ Buffer.at = mmap_buffer
    BY <2>1 DEF Buffer, Free, RegrowRight
  <2>7. q + 2 * HeaderSize + BlockMinCapacity <= l[g].size
    BY <2>1, <2>4, <2>6 DEF RegrowRight
  <2>8. Stand(CutAt(l, g, q))'
    BY <1>1, <2>2, <2>3, <2>4, <2>5, <2>7, TakingCuts
  <2>9. Orderly(CutAt(l, g, q))
    <3>1. q + 2 * HeaderSize <= l[g].size
      <4> DEFINE s == l[g].size
      <4>1. s \in Nat /\ HeaderSize \in Nat /\ BlockMinCapacity \in Nat
        BY <2>4, <2>5, OrderlyIs, SizesAssumption
      <4> HIDE DEF s
      <4> QED BY <2>3, <2>7, <4>1 DEF s
    <3> QED BY <2>3, <2>4, <2>5, <3>1, CutAtOrderly
  <2>10. unit.after = Laid(CutAt(l, g, q)) /\ unit.expects = Pointer(mmap_buffer)
         /\ unit.does = "memalloc" /\ unit.counts = 2
    BY <2>1 DEF RegrowRight, Asking
  <2>11. Agrees(hdr', unit.after)
    BY <2>8, <2>9, <2>10, StandingAgrees
  <2>12. result' = Pointer(mmap_buffer) /\ calls' = 2
    BY <1>1, <1>5, <2>2, <2>4, <2>6, <2>10 DEF Retrying
  <2> QED BY <1>1, <1>2, <2>10, <2>11, <2>12, Concluded
<1> QED BY <1>3, <1>4, <1>5

LEMMA MissesStep == UnitInv /\ Misses => UnitInv'
<1> SUFFICES ASSUME UnitInv, Misses PROVE UnitInv'
  OBVIOUS
<1>1. /\ phase = "running" /\ unit.does # "find_good_or_last" /\ pc = "find"
      /\ ~mergeable(hdr, cur)
      /\ verdict(hdr, cur, wanted) \in {"BSR_REACHED_END_NOT_FOUND", "BSR_CORRUPTED"}
      /\ unit' = unit /\ hdr' = hdr /\ stub_ok' = stub_ok /\ calls' = calls
  BY DEF Misses, FindFails, Over, Stubless
<1>2. Passing(unit) /\ unit \notin PlatformTests /\ stub_ok
  BY <1>1, Counting DEF UnitInv
<1>3. verdict(hdr, cur, wanted) # "continue" /\ verdict(hdr, cur, wanted) # "BSR_FOUND_GOOD_BLOCK"
  BY <1>1
<1>4. Seeking
  <2>1. Seeking \/ Retrying
    BY <1>1 DEF UnitInv, Freeing, Extending, Lacking
  <2>2. ASSUME Retrying PROVE FALSE
    <3>1. PICK m : /\ Seeks(unit, m, 0) /\ RegrowRight(unit, m)
                   /\ \E c, e \in DOMAIN Append(m, Buffer) :
                        Reached(Append(m, Buffer), Sought(unit), c, e)
      BY <2>2 DEF Retrying
    <3> QED BY <1>1, <1>3, <2>2, <3>1, RetryEnds
  <2> QED BY <2>1, <2>2
<1>5. PICK m, g : SeekRight(unit, m, g)
  BY <1>4 DEF Seeking
<1>6. /\ Stand(m) /\ g = 0
      /\ verdict(hdr, cur, wanted) = "BSR_REACHED_END_NOT_FOUND" /\ cur = m[Len(m)].at
  BY <1>1, <1>3, <1>4, <1>5, SeekEnds
<1>7. Seeks(unit, m, 0) /\ Orderly(m)
  BY <1>5, <1>6 DEF SeekRight, Seeks
<1>8. CASE unit.does = "memalloc"
  <2>1. StarveRight(unit, m) \/ RegrowRight(unit, m)
    BY <1>5, <1>6, <1>8 DEF SeekRight, FindRight, TakeRight, MissRight
  <2>2. /\ pc' = "grow" /\ cur' = cur /\ query' = query /\ phase' = phase
    BY <1>4, <1>6, <1>8 DEF Misses, FindFails, Seeking
  <2>3. Lacking'
    <3>1. /\ Seeks(unit', m, 0) /\ (StarveRight(unit', m) \/ RegrowRight(unit', m))
          /\ cur' = m[Len(m)].at
      BY <1>1, <1>6, <1>7, <2>1, <2>2
    <3>2. Stand(m)'
      BY <1>1, <1>6 DEF Stand, Stands
    <3> QED BY <1>1, <1>4, <2>2, <3>1, <3>2 DEF Lacking, Seeking
  <2> QED BY <1>1, <1>2, <2>2, <2>3, Continued
<1>9. CASE unit.does # "memalloc"
  <2>1. MissRight(unit, m, 0)
    BY <1>1, <1>5, <1>6, <1>9 DEF SeekRight, FindRight, TakeRight, StarveRight, RegrowRight, Asking
  <2>2. phase' = "over" /\ result' = <<verdict(hdr, cur, wanted), cur>>
    BY <1>9 DEF Misses, Over
  <2>3. unit.expects = result' /\ unit.counts = Unasked /\ unit.after = Laid(m)
    BY <1>6, <2>1, <2>2 DEF MissRight
  <2>4. Agrees(hdr', unit.after)
    BY <1>1, <1>6, <1>7, <2>3, StandingAgrees
  <2> QED BY <1>1, <1>2, <2>2, <2>3, <2>4, Concluded
<1> QED BY <1>8, <1>9

LEMMA GrowStep == UnitInv /\ TestGrow => UnitInv'
<1> SUFFICES ASSUME UnitInv, TestGrow PROVE UnitInv'
  OBVIOUS
<1>1. /\ phase = "ready" /\ unit.does = "grow_heap"
      /\ pc' = "grow" /\ cur' = HEAP_START /\ query' = unit.arg /\ hdr' = hdr
      /\ unit' = unit /\ phase' = "running" /\ calls' = calls /\ stub_ok' = stub_ok
  BY DEF TestGrow, Runs, Stubless
<1>2. Passing(unit) /\ unit \notin PlatformTests
  BY <1>1, Counting
<1>3. GrowRight(unit)
  BY <1>1, <1>2, PassingDoes
<1>4. hdr = unit.given /\ calls = 0 /\ stub_ok
  BY <1>1 DEF UnitInv
<1>5. Extending'
  BY <1>1, <1>3, <1>4 DEF Extending
<1> QED BY <1>1, <1>2, <1>4, <1>5, Continued

\* grow_heap extends the last block or links a region behind it.
LEMMA ExtendingStep ==
  ASSUME Handy, UnitInv, Grows_by_stub, Extending
  PROVE  UnitInv'
<1> DEFINE last == block_after(hdr, cur)
<1>1. /\ phase = "running" /\ unit' = unit
      /\ Asks(last, grow_size)
  BY DEF Grows_by_stub, Over
<1>2. Passing(unit) /\ unit \notin PlatformTests /\ stub_ok
  BY <1>1, Counting DEF UnitInv
<1>3. /\ GrowRight(unit) /\ pc = "grow" /\ cur = HEAP_START /\ hdr = unit.given
      /\ query = unit.arg /\ calls = 0 /\ unit.arg = BlockMinCapacity
      /\ unit.does = "grow_heap"
  BY DEF Extending, GrowRight
<1>4. grow_size = RegionMinSize
  <2>1. /\ BlockMinCapacity \in 0..RegionMinSize
        /\ BlockMinCapacity + HeaderSize \in 0..RegionMinSize
    BY HandySizes
  <2>2. size_from_capacity(BlockMinCapacity) = BlockMinCapacity + HeaderSize
    BY <2>1, HandySizes
  <2> QED BY <1>3, <2>1, <2>2, HandyRegions DEF grow_size
<1>5. answer = Answers(unit.stub)
  BY DEF answer, Answers
<1>6. /\ unit.counts = Attempts(unit.stub) /\ unit.stub.addr = last
      /\ unit.stub.length = RegionMinSize
  BY <1>3 DEF GrowRight
<1>7. calls' = unit.counts
  <2>1. calls' = 0 + Attempts(unit.stub)
    BY <1>1, <1>3 DEF Asks, Attempts
  <2>2. Attempts(unit.stub) \in Nat
    BY DEF Attempts
  <2> QED BY <1>6, <2>1, <2>2
<1>8. stub_ok'
  BY <1>1, <1>2, <1>4, <1>6 DEF Asks
<1>9. CASE answer = FAILURE
  <2>1. hdr' = hdr /\ phase' = "over" /\ result' = Pointer(NULL)
    BY <1>9 DEF Grows_by_stub, Over
  <2>2. unit.expects = Pointer(NULL) /\ Agrees(unit.given, unit.after)
    BY <1>3, <1>5, <1>9 DEF GrowRight
  <2>3. Agrees(hdr', unit.after)
    BY <1>3, <2>1, <2>2
  <2> QED BY <1>1, <1>2, <1>7, <1>8, <2>1, <2>2, <2>3, Concluded
<1>10. CASE answer # FAILURE
  <2>1. /\ hdr' = linked(answer) /\ phase' = "over"
        /\ result' = Pointer(IF answer = last /\ hdr[cur].is_free THEN cur ELSE answer)
    BY <1>3, <1>10 DEF Grows_by_stub, Over
  <2>2. /\ unit.expects = Pointer(IF answer = last /\ hdr[cur].is_free THEN cur ELSE answer)
        /\ Agrees(Lengthened(hdr, cur, answer), unit.after)
    BY <1>3, <1>5, <1>10 DEF GrowRight
  <2>3. linked(answer) = Lengthened(hdr, cur, answer)
    BY <1>4, Zenon DEF linked, Lengthened, Followed
  <2>4. unit.expects = result' /\ Agrees(hdr', unit.after)
    BY <2>1, <2>2, <2>3
  <2> QED BY <1>1, <1>2, <1>7, <1>8, <2>1, <2>4, Concluded
<1> QED BY <1>9, <1>10

\* memalloc is not given a region, or links the one in mmap_buffer behind the last block.
LEMMA LackingStep ==
  ASSUME Handy, UnitInv, Grows_by_stub, Lacking
  PROVE  UnitInv'
<1> DEFINE last == block_after(hdr, cur)
<1>1. /\ phase = "running" /\ unit' = unit
      /\ Asks(last, grow_size)
  BY DEF Grows_by_stub, Over
<1>2. Passing(unit) /\ unit \notin PlatformTests /\ stub_ok
  BY <1>1, Counting DEF UnitInv
<1>3. PICK m : /\ Seeks(unit, m, 0) /\ (StarveRight(unit, m) \/ RegrowRight(unit, m))
               /\ Stand(m) /\ cur = m[Len(m)].at
  BY DEF Lacking
<1>4. Asking(unit, m) /\ query = unit.arg /\ calls = 0
  BY <1>3 DEF StarveRight, RegrowRight, Lacking
<1>5. /\ unit.does = "memalloc" /\ unit.counts = 2 /\ unit.stub.fixed = FAILURE
      /\ unit.stub.addr = EndOf(m) /\ unit.stub.length = grow_size
  BY <1>4 DEF Asking, grow_size
<1>6. Orderly(m) /\ Len(m) \in Nat \ {0} /\ m[Len(m)].at \in Nat /\ m[Len(m)].size \in Nat
      /\ HeaderSize \in Nat /\ Carries(hdr, m)
  <2>1. Orderly(m)
    BY <1>3 DEF Seeks
  <2> QED BY <1>3, <2>1, OrderlyIs, SizesAssumption, StandCarries
<1>7. last = EndOf(m)
  <2> DEFINE n == Len(m)   x == m[n].at   s == m[n].size
  <2>1. cur \in DOMAIN hdr /\ hdr[cur] = Gathered(m, n, n) /\ cur = x
    BY <1>3, <1>6 DEF Carries
  <2>2. hdr[cur].capacity = x + s - x - HeaderSize
    BY <2>1 DEF Gathered
  <2>3. last = x + HeaderSize + (x + s - x - HeaderSize)
    BY <2>1, <2>2 DEF block_after
  <2>4. x + HeaderSize + (x + s - x - HeaderSize) = x + s
    <3> HIDE DEF x, s
    <3> QED BY <1>6 DEF x, s
  <2> QED BY <2>3, <2>4 DEF EndOf
<1>8. answer = unit.stub.anywhere
  BY <1>5 DEF answer
<1>9. calls' = 2
  <2>1. calls' = 0 + 2
    BY <1>1, <1>4, <1>5 DEF Asks
  <2> QED BY <2>1
<1>10. stub_ok'
  BY <1>1, <1>2, <1>5, <1>7 DEF Asks
<1>11. CASE StarveRight(unit, m)
  <2>1. answer = FAILURE /\ unit.expects = Pointer(NULL) /\ unit.after = Laid(m)
    BY <1>8, <1>11 DEF StarveRight
  <2>2. hdr' = hdr /\ phase' = "over" /\ result' = Pointer(NULL)
    BY <2>1 DEF Grows_by_stub, Over
  <2>3. Agrees(hdr', unit.after)
    BY <1>3, <1>6, <2>1, <2>2, StandingAgrees
  <2> QED BY <1>1, <1>2, <1>5, <1>9, <1>10, <2>1, <2>2, <2>3, Concluded
<1>12. CASE RegrowRight(unit, m)
  <2>1. /\ answer = mmap_buffer /\ unit.stub.length = RegionMinSize
        /\ EndOf(m) < Buffer.at /\ Buffer.at = mmap_buffer
    BY <1>8, <1>12 DEF RegrowRight
  <2>2. mmap_buffer \in Nat /\ answer # FAILURE
    <3>1. HEAP_START \in Nat /\ mmap_buffer = HEAP_START + 40000
      BY AddressesAssumption DEF mmap_buffer
    <3>2. mmap_buffer \in Nat
      BY <3>1
    <3> QED BY <2>1, <3>2 DEF FAILURE
  <2>3. /\ hdr' = linked(answer) /\ phase' = "running"
        /\ pc' = "find" /\ cur' = HEAP_START /\ grown' = TRUE /\ query' = query
    BY <1>1, <1>5, <2>2 DEF Grows_by_stub
  <2> PICK l : l = Append(m, Buffer)
    OBVIOUS
  <2>4. /\ Buffer \in Blocks /\ Buffer.is_free /\ Buffer.size = RegionMinSize
        /\ RegionMinSize >= HeaderSize
    <3>1. PICK k \in Nat : k = 40000
      OBVIOUS
    <3>2. Free(k, RegionMinSize) \in Blocks
      BY HandySizes, FreeOrDirty
    <3> QED BY <3>1, <3>2, HandySizes DEF Buffer, Free
  <2>5. hdr' = Followed(hdr, m[Len(m)].at, Buffer.at, Buffer.size)
    <3>1. answer # last /\ grow_size = RegionMinSize
      BY <1>5, <1>6, <1>7, <2>1, <2>2
    <3>2. hdr' = [block_init(hdr, answer, grow_size, NULL) EXCEPT ![cur].next = answer]
      BY <2>3, <3>1 DEF linked
    <3> QED BY <1>3, <2>1, <2>4, <3>1, <3>2 DEF Followed
  <2>6. Carries(hdr', l)
    <3>1. m[Len(m)].at + m[Len(m)].size <= Buffer.at
      BY <1>6, <2>1, <2>2 DEF EndOf
    <3> DEFINE x == Buffer   h == hdr'
    <3>2. /\ x \in Blocks /\ x.is_free /\ x.size >= HeaderSize
          /\ m[Len(m)].at + m[Len(m)].size <= x.at
          /\ h = Followed(hdr, m[Len(m)].at, x.at, x.size) /\ l = Append(m, x)
      BY <2>4, <2>5, <3>1
    <3> HIDE DEF x, h
    <3>3. Carries(Followed(hdr, m[Len(m)].at, x.at, x.size), Append(m, x))
      BY <1>6, <3>2, Linking
    <3>4. Carries(h, l)
      BY <3>2, <3>3
    <3> QED BY <3>4 DEF h
  <2>7. Stand(l)'
    BY <2>6, StandCarriesNext
  <2>8. l \in Layouts
    BY <1>12 DEF RegrowRight, Orderly
  <2> PICK q : q = Sought(unit)
    OBVIOUS
  <2>9. 1 \in DOMAIN l /\ Reached(l, q, 1, 1)'
    <3>1. \A j \in 1..Len(l) : Stands(l, j, j)'
      BY <2>7 DEF Stand
    <3> QED BY <2>3, <2>8, <3>1, ReachedFirst
  <2>10. Retrying'
    <3>1. /\ Seeks(unit', m, 0) /\ RegrowRight(unit', m) /\ q = Sought(unit')
          /\ query' = unit'.arg
      BY <1>1, <1>3, <1>4, <1>12, <2>3
    <3> QED BY <1>9, <2>3, <2>9, <3>1 DEF Retrying
  <2> QED BY <1>1, <1>2, <1>10, <2>3, <2>10, Continued
<1> QED BY <1>3, <1>11, <1>12

\* The invariant of a unit test, step by step.
LEMMA StepKeepsUnitInv ==
  ASSUME Handy
  PROVE  UnitInv /\ [UnitNext]_<<vars, unit_vars>> => UnitInv'
<1> SUFFICES ASSUME UnitInv, [UnitNext]_<<vars, unit_vars>> PROVE UnitInv'
  OBVIOUS
<1>1. CASE TestMerge
  BY <1>1, MergeStep
<1>2. CASE TestSplit
  BY <1>2, SplitStep
<1>3. CASE TestFree
  BY <1>3, FreeStep
<1>4. CASE TestFreeEnds
  BY <1>4, FreeEndsStep
<1>5. CASE TestSearch
  BY <1>5, SearchStep
<1>6. CASE TestLoops
  <2>1. phase = "running" /\ UNCHANGED unit_vars /\ ((FindMerge \/ FindNext) \/ FreeMerge)
    BY <1>6 DEF TestLoops
  <2> QED BY <2>1, LoopStep, FreeMergeStep
<1>7. CASE FindReturns
  BY <1>7, FindReturnsStep
<1>8. CASE Takes
  BY <1>8, TakesStep
<1>9. CASE Misses
  BY <1>9, MissesStep
<1>10. CASE TestRegion
  BY <1>10, RegionStep
<1>11. CASE TestGrow
  BY <1>11, GrowStep
<1>12. CASE Grows_by_stub
  <2>1. phase = "running" /\ pc = "grow"
    BY <1>12 DEF Grows_by_stub
  <2>2. Extending \/ Lacking
    BY <2>1 DEF UnitInv, Freeing, Seeking, Retrying
  <2> QED BY <1>12, <2>2, ExtendingStep, LackingStep
<1>13. CASE UNCHANGED <<vars, unit_vars>>
  <2>1. UNCHANGED <<hdr, pc, cur, query, grown, unit, phase, result, calls, stub_ok>>
    BY <1>13 DEF vars, unit_vars
  <2>2. Passes' <=> Passes
    BY <2>1 DEF Passes
  <2>3. AssertionsHold' <=> AssertionsHold
    BY <2>1, <2>2 DEF AssertionsHold
  <2>4. /\ Freeing' <=> Freeing
        /\ Extending' <=> Extending
        /\ Seeking' <=> Seeking
        /\ Lacking' <=> Lacking
        /\ Retrying' <=> Retrying
    <3>1. \A l, c, e : Stands(l, c, e)' <=> Stands(l, c, e)
      BY <2>1 DEF Stands
    <3>2. \A l, q, c, e : Reached(l, q, c, e)' <=> Reached(l, q, c, e)
      BY <2>1, <3>1 DEF Reached
    <3>3. \A l : Stand(l)' <=> Stand(l)
      BY <3>1 DEF Stand
    <3>4. (Freeing' <=> Freeing) /\ (Extending' <=> Extending)
      BY <2>1 DEF Freeing, Extending
    <3>5. Seeking' <=> Seeking
      BY <2>1, <3>2 DEF Seeking
    <3>6. Lacking' <=> Lacking
      BY <2>1, <3>3 DEF Lacking
    <3>7. Retrying' <=> Retrying
      BY <2>1, <3>2 DEF Retrying
    <3> QED BY <3>4, <3>5, <3>6, <3>7
  <2> QED BY <2>1, <2>3, <2>4 DEF UnitInv
<1> QED BY <1>1, <1>2, <1>3, <1>4, <1>5, <1>6, <1>7, <1>8, <1>9, <1>10, <1>11, <1>12,
           <1>13 DEF UnitNext

\* AssertionsHold: on the sizes that the tests of MemoryAllocator/tester were written for,
\* every assertion of every one of them holds of mem.c, but for those whose stub relies
\* on platform_map_pages (unix.c:8), which has no memory for them.
THEOREM UnitTestsPass ==
  ASSUME Handy
  PROVE  UnitSpec => []AssertionsHold
<1>1. (\E u \in UnitTests : UnitInit(u)) => UnitInv
  <2> SUFFICES ASSUME NEW u \in UnitTests, UnitInit(u) PROVE UnitInv
    OBVIOUS
  <2>1. unit = u /\ phase = "ready" /\ calls = 0 /\ stub_ok /\ hdr = u.given
    BY DEF UnitInit
  <2>2. \/ Passing(unit) /\ unit \notin PlatformTests
        \/ RegionWrong(unit) /\ unit \in PlatformTests
    BY <2>1, EveryTest
  <2> QED BY <2>1, <2>2 DEF UnitInv, AssertionsHold
<1>2. UnitInv /\ [UnitNext]_<<vars, unit_vars>> => UnitInv'
  BY StepKeepsUnitInv
<1>3. UnitInv => AssertionsHold
  BY DEF UnitInv
<1> QED BY <1>1, <1>2, <1>3, PTL DEF UnitSpec
================================================================================
