---------------------------- MODULE DictionaryProof ----------------------------
(***************************************************************************)
(* What holds of the dictionary program for every buffer size, every       *)
(* dictionary and every stdin.                                             *)
(***************************************************************************)
EXTENDS Dictionary, SequenceTheorems, WellFoundedInduction, TLAPS

\* The invariant: while the line is read, the pointer is where the counter
\* says, and a byte is left for the terminator; the search starts below the
\* terminator and never gets past it.
IInv ==
  /\ TypeOK
  /\ CursorsInside
  /\ stdin \in Seq(Nat)
  /\ pc \in {"skip", "line"} => top = count /\ count < BufSize
  /\ pc = "equals" => count < BufSize

\* A dictionary has a last pair, and its pairs have keys.
LEMMA Pairs ==
  ASSUME NEW d \in Dictionaries
  PROVE  /\ Len(d) \in Nat \ {0} /\ DOMAIN d = 1..Len(d)
         /\ \A i \in DOMAIN d : d[i].key \in Text /\ d[i].value \in Text
<1> DEFINE P == [key : Text, value : Text]
<1>1. d # <<>> /\ d \in Seq(P)
  BY DictionaryAssumption
<1> HIDE DEF P
<1>2. Len(d) \in Nat /\ DOMAIN d = 1..Len(d) /\ Len(d) # 0
  BY <1>1
<1>3. ASSUME NEW i \in DOMAIN d PROVE d[i] \in P
  BY <1>1, <1>2
<1> QED
  BY <1>2, <1>3 DEF P

\* What is where in two sequences put together.
LEMMA Joined ==
  ASSUME NEW a \in Seq(Nat), NEW b \in Seq(Nat)
  PROVE  /\ a \o b \in Seq(Nat) /\ Len(a \o b) = Len(a) + Len(b)
         /\ \A i \in 1..Len(a) : (a \o b)[i] = a[i]
         /\ \A i \in 1..Len(b) : (a \o b)[Len(a) + i] = b[i]
<1>1. /\ a \o b \in Seq(Nat) /\ Len(a \o b) = Len(a) + Len(b)
      /\ \A i \in 1..(Len(a) + Len(b)) :
           (a \o b)[i] = IF i <= Len(a) THEN a[i] ELSE b[i - Len(a)]
  BY ConcatProperties
<1>2. Len(a) \in Nat /\ Len(b) \in Nat
  OBVIOUS
<1>3. ASSUME NEW i \in 1..Len(b) PROVE (a \o b)[Len(a) + i] = b[i]
  <2>1. Len(a) + i \in 1..(Len(a) + Len(b)) /\ ~(Len(a) + i <= Len(a)) /\ Len(a) + i - Len(a) = i
    BY <1>2
  <2> QED
    BY <1>1, <2>1
<1>4. ASSUME NEW i \in 1..Len(a) PROVE (a \o b)[i] = a[i]
  BY <1>1, <1>2
<1> QED
  BY <1>1, <1>3, <1>4

\* A pair is its key and its value, each before its terminator.
LEMMA PairBytes ==
  ASSUME dict \in Dictionaries, NEW e \in DOMAIN dict
  PROVE  /\ dict[e].key \in Text /\ dict[e].value \in Text
         /\ pair(e) \in Seq(Nat)
         /\ Len(pair(e)) = Len(dict[e].key) + Len(dict[e].value) + 2
         /\ \A i \in 1..Len(dict[e].key) : pair(e)[i] = dict[e].key[i]
         /\ pair(e)[Len(dict[e].key) + 1] = NUL
         /\ \A i \in 1..Len(dict[e].value) :
              pair(e)[Len(dict[e].key) + 1 + i] = dict[e].value[i]
         /\ pair(e)[Len(dict[e].key) + Len(dict[e].value) + 2] = NUL
<1> DEFINE k == dict[e].key
           v == dict[e].value
           z == <<NUL>>
<1>1. k \in Text /\ v \in Text
  BY Pairs
<1>2. k \in Seq(Nat) /\ v \in Seq(Nat) /\ z \in Seq(Nat) /\ Len(z) = 1 /\ z[1] = NUL
  BY <1>1 DEF Text, NUL
<1>3. pair(e) = ((k \o z) \o v) \o z
  BY Zenon DEF pair, k, v, z
<1> HIDE DEF k, v, z
<1> DEFINE a == k \o z
           b == a \o v
           p == b \o z
<1>4. /\ a \in Seq(Nat) /\ Len(a) = Len(k) + Len(z)
      /\ (\A i \in 1..Len(k) : a[i] = k[i]) /\ \A i \in 1..Len(z) : a[Len(k) + i] = z[i]
  BY <1>2, Joined
<1> HIDE DEF a
<1>5. /\ b \in Seq(Nat) /\ Len(b) = Len(a) + Len(v)
      /\ (\A i \in 1..Len(a) : b[i] = a[i]) /\ \A i \in 1..Len(v) : b[Len(a) + i] = v[i]
  BY <1>2, <1>4, Joined
<1> HIDE DEF b
<1>6. /\ p \in Seq(Nat) /\ Len(p) = Len(b) + Len(z)
      /\ (\A i \in 1..Len(b) : p[i] = b[i]) /\ \A i \in 1..Len(z) : p[Len(b) + i] = z[i]
  BY <1>2, <1>5, Joined
<1>7. pair(e) = p
  BY <1>3 DEF a, b
<1> HIDE DEF p
<1>8. /\ Len(k) \in Nat /\ Len(v) \in Nat /\ Len(a) = Len(k) + 1
      /\ Len(b) = Len(k) + 1 + Len(v) /\ Len(p) = Len(k) + Len(v) + 2
  <2>1. Len(k) \in Nat /\ Len(v) \in Nat /\ Len(z) = 1
    BY <1>2
  <2>2. Len(a) = Len(k) + 1 /\ Len(b) = Len(a) + Len(v) /\ Len(p) = Len(b) + 1
    BY <2>1, <1>4, <1>5, <1>6
  <2> QED
    BY <2>1, <2>2
<1>9. \A i \in 1..Len(k) : p[i] = k[i]
  BY <1>4, <1>5, <1>6, <1>8
<1>10. \A i \in 1..Len(v) : p[Len(k) + 1 + i] = v[i]
  <2> TAKE i \in 1..Len(v)
  <2>1. Len(k) + 1 + i \in 1..Len(b) /\ Len(a) + i = Len(k) + 1 + i
    BY <1>8
  <2> QED
    BY <1>5, <1>6, <2>1
<1>11. p[Len(k) + 1] = NUL
  <2>1. a[Len(k) + 1] = NUL
    BY <1>2, <1>4
  <2>2. Len(k) + 1 \in 1..Len(a) /\ Len(k) + 1 \in 1..Len(b)
    BY <1>8
  <2> QED
    BY <1>5, <1>6, <2>1, <2>2
<1>12. p[Len(k) + Len(v) + 2] = NUL
  <2>1. p[Len(b) + 1] = NUL /\ Len(b) + 1 = Len(k) + Len(v) + 2
    BY <1>2, <1>6, <1>8
  <2> QED
    BY <2>1
<1> QED
  BY <1>1, <1>6, <1>7, <1>8, <1>9, <1>10, <1>11, <1>12 DEF k, v

\* The key of a pair ends at its terminator.
LEMMA KeyEnds ==
  ASSUME dict \in Dictionaries, entry \in DOMAIN dict
  PROVE  /\ Len(dict[entry].key) \in Nat
         /\ pair(entry)[Len(dict[entry].key) + 1] = NUL
<1>1. dict[entry].key \in Text /\ pair(entry)[Len(dict[entry].key) + 1] = NUL
  BY PairBytes
<1>2. Len(dict[entry].key) \in Nat
  BY <1>1 DEF Text
<1> QED
  BY <1>1, <1>2

LEMMA ReadChar ==
  ASSUME stdin \in Seq(Nat), read_char
  PROVE  char' \in Nat /\ stdin' \in Seq(Nat)
<1>1. CASE stdin = <<>>
  BY <1>1 DEF read_char, NUL
<1>2. CASE stdin # <<>>
  BY <1>2 DEF read_char
<1> QED
  BY <1>1, <1>2

LEMMA InitHolds == Init => IInv
<1> SUFFICES ASSUME Init PROVE IInv
  OBVIOUS
<1>1. BufSize \in Nat \ {0} /\ Inputs \subseteq Seq(Nat)
  BY DictionaryAssumption
<1>2. Len(dict) \in Nat
  BY Pairs DEF Init
<1>3. TypeOK
  BY <1>1, <1>2 DEF Init, TypeOK, NUL
<1> QED
  BY <1>1, <1>3 DEF Init, IInv, CursorsInside

\* The steps of read_line.
LEMMA LineHolds ==
  ASSUME IInv, Skip \/ LineChar \/ LineOverflows \/ LineEnds
  PROVE  IInv'
<1>1. BufSize \in Nat \ {0}
  BY DictionaryAssumption
<1>2. TypeOK /\ stdin \in Seq(Nat) /\ count \in Nat
  BY <1>1 DEF IInv, TypeOK
<1>3. CASE Skip
  <2>1. char' \in Nat /\ stdin' \in Seq(Nat)
    BY <1>2, <1>3, ReadChar DEF Skip
  <2>2. pc = "skip" /\ pc' \in {"skip", "line"}
    BY <1>3 DEF Skip
  <2>3. TypeOK'
    BY <1>2, <1>3, <2>1, <2>2 DEF TypeOK, Skip
  <2> QED
    BY <1>3, <2>1, <2>2, <2>3 DEF IInv, CursorsInside, Skip
<1>4. CASE LineChar
  <2>1. char' \in Nat /\ stdin' \in Seq(Nat)
    BY <1>2, <1>4, ReadChar DEF LineChar
  <2>2. /\ pc = "line" /\ pc' = "line" /\ count' = count + 1 /\ top' = top + 1
        /\ top = count /\ count + 1 < BufSize
    BY <1>1, <1>2, <1>4 DEF LineChar, IInv
  <2>3. DOMAIN buf' = 0..(BufSize - 1) /\ \A i \in DOMAIN buf' : buf'[i] \in Nat
    BY <1>1, <1>2, <1>4, <2>2 DEF LineChar, stored, TypeOK
  <2>4. TypeOK'
    BY <1>1, <1>2, <1>4, <2>1, <2>2, <2>3 DEF TypeOK, LineChar
  <2> QED
    BY <1>1, <1>2, <2>1, <2>2, <2>4 DEF IInv, CursorsInside
<1>5. CASE LineOverflows
  <2>1. pc' = "exited" /\ count' \in 0..BufSize /\ rax' = 1 /\ status' = 2
    <3>1. Fails("buffer overflow")
      BY <1>5 DEF LineOverflows
    <3>2. pc' = "exited" /\ rax' = 1 /\ status' = 2
      BY <3>1 DEF Fails, exit
    <3>3. count' = BufSize
      BY <1>5 DEF LineOverflows
    <3>4. count' \in 0..BufSize
      BY <1>1, <3>3
    <3> QED
      BY <3>2, <3>4
  <2>2. TypeOK'
    BY <1>2, <1>5, <2>1 DEF TypeOK, LineOverflows
  <2> QED
    BY <1>2, <1>5, <2>1, <2>2 DEF IInv, CursorsInside, LineOverflows
<1>6. CASE LineEnds
  <2>1. /\ pc = "line" /\ pc' = "equals" /\ top = count /\ count < BufSize
        /\ count' = count /\ rdi' = 0 /\ rsi' = 0 /\ stdin' = stdin
    BY <1>6 DEF LineEnds, IInv
  <2>2. /\ DOMAIN buf' = 0..(BufSize - 1) /\ \A i \in DOMAIN buf' : buf'[i] \in Nat
        /\ buf'[count] = NUL
    BY <1>1, <1>2, <1>6, <2>1 DEF LineEnds, stored, TypeOK, NUL
  <2>3. entry' = Len(dict) /\ dict' = dict /\ dict \in Dictionaries
    BY <1>2, <1>6 DEF LineEnds, dict_pointer, TypeOK
  <2>4. entry' \in DOMAIN dict' /\ entry' \in 0..Len(dict')
    BY <2>3, Pairs
  <2>5. Len(dict[entry'].key) \in Nat
    BY <2>3, <2>4, Pairs DEF Text
  <2>6. TypeOK'
    BY <1>2, <1>6, <2>1, <2>2, <2>4 DEF TypeOK, LineEnds
  <2>7. CursorsInside'
    BY <1>2, <2>1, <2>2, <2>3, <2>4, <2>5 DEF CursorsInside
  <2> QED
    BY <1>2, <2>1, <2>6, <2>7 DEF IInv
<1> QED
  BY <1>3, <1>4, <1>5, <1>6

\* The steps of find_word and what main does with its answer.
LEMMA SearchHolds ==
  ASSUME IInv, EqualsNext \/ EqualsDiffers \/ Found \/ NotFound
  PROVE  IInv'
<1>1. BufSize \in Nat \ {0}
  BY DictionaryAssumption
<1>2. TypeOK /\ stdin \in Seq(Nat) /\ count \in Nat /\ pc = "equals"
  <2>1. pc = "equals"
    BY DEF EqualsNext, EqualsDiffers, Found, NotFound
  <2> QED
    BY <1>1, <2>1 DEF IInv, TypeOK
<1>3. /\ dict \in Dictionaries /\ entry \in DOMAIN dict /\ count < BufSize
      /\ rdi \in Nat /\ rsi \in Nat /\ rdi <= count /\ buf[count] = NUL
      /\ rsi <= Len(dict[entry].key)
  BY <1>2 DEF IInv, TypeOK, CursorsInside
<1>4. Len(dict) \in Nat \ {0} /\ DOMAIN dict = 1..Len(dict)
  BY <1>3, Pairs
<1>5. CASE EqualsNext
  <2>1. /\ rdi' = rdi + 1 /\ rsi' = rsi + 1 /\ buf[rdi] # NUL /\ buf[rdi] = key_char
        /\ UNCHANGED <<dict, given, pc, stdin, char, count, top, buf, entry, rax, status>>
    BY <1>5 DEF EqualsNext
  <2>2. rdi < count
    BY <1>2, <1>3, <2>1
  <2>3. rsi < Len(dict[entry].key)
    BY <1>3, <2>1, KeyEnds DEF key_char
  <2>4. TypeOK'
    BY <1>2, <1>3, <2>1 DEF TypeOK
  <2>5. CursorsInside'
    BY <1>2, <1>3, <2>1, <2>2, <2>3, KeyEnds DEF CursorsInside
  <2> QED
    BY <1>2, <1>3, <2>1, <2>4, <2>5 DEF IInv
<1>6. CASE EqualsDiffers
  <2>1. /\ entry' = entry - 1 /\ entry - 1 # 0 /\ rsi' = 0
        /\ UNCHANGED <<dict, given, pc, stdin, char, count, top, buf, rdi, rax, status>>
    BY <1>6 DEF EqualsDiffers, next
  <2>2. entry' \in DOMAIN dict /\ entry' \in 0..Len(dict)
    BY <1>3, <1>4, <2>1
  <2>3. Len(dict[entry'].key) \in Nat
    BY <1>3, <2>2, Pairs DEF Text
  <2>4. TypeOK'
    BY <1>2, <2>1, <2>2 DEF TypeOK
  <2>5. CursorsInside'
    BY <1>3, <2>1, <2>2, <2>3 DEF CursorsInside
  <2> QED
    BY <1>2, <1>3, <2>1, <2>4, <2>5 DEF IInv
<1>7. CASE Found \/ NotFound
  <2>1. /\ pc' = "exited" /\ entry' \in {entry, 0}
        /\ rax' \in {0, 1} /\ status' \in {1, 2}
        /\ UNCHANGED <<dict, given, stdin, char, count, top, buf, rdi, rsi>>
    BY <1>7 DEF Found, NotFound, Fails, exit
  <2>2. TypeOK'
    BY <1>2, <1>4, <2>1 DEF TypeOK
  <2> QED
    BY <1>2, <2>1, <2>2 DEF IInv, CursorsInside
<1> QED
  BY <1>5, <1>6, <1>7

LEMMA Invariance == Spec => []IInv
<1>1. Init => IInv
  BY InitHolds
<1>2. IInv /\ [Next]_vars => IInv'
  <2> SUFFICES ASSUME IInv, [Next]_vars PROVE IInv'
    OBVIOUS
  <2>1. CASE Step
    BY <2>1, LineHolds, SearchHolds DEF Step
  <2>2. CASE UNCHANGED vars
    BY <2>2 DEF vars, IInv, TypeOK, CursorsInside
  <2> QED
    BY <2>1, <2>2 DEF Next, Stopped
<1> QED
  BY <1>1, <1>2, PTL DEF Spec

\* read_line writes inside the buffer only, and the registers keep their
\* ranges, whatever stdin holds.
THEOREM BufferKept == Spec => []TypeOK
<1>1. IInv => TypeOK
  BY DEF IInv
<1> QED
  BY <1>1, Invariance, PTL

\* find_word compares no character behind the end of the line or of a key.
THEOREM SearchInside == Spec => []CursorsInside
<1>1. IInv => CursorsInside
  BY DEF IInv
<1> QED
  BY <1>1, Invariance, PTL

-----------------------------------------------------------------------------
(* The line.  What has been read of stdin is known by what is left of it.  *)

Consumed == Len(given) - Len(stdin)

\* The line begins at f: up to there are blanks, the buffer holds it so far,
\* and the character after that, if there is one, is in char.
LineFrom(f) ==
  /\ f \in 1..(Len(given) + 1)
  /\ \A j \in 1..(f - 1) : given[j] \in Blank
  /\ f <= Len(given) => given[f] \notin Blank
  /\ \A i \in 0..(count - 1) : buf[i] = given[f + i] /\ given[f + i] \notin {LF, NUL}
  /\ \/ f + count = Consumed /\ char = given[f + count] /\ Consumed <= Len(given)
     \/ f + count = Len(given) + 1 /\ char = NUL /\ stdin = <<>>

\* The buffer holds the line.
LineHeld ==
  /\ Len(Line(given)) = count
  /\ \A i \in 1..count : Line(given)[i] = buf[i - 1] /\ Line(given)[i] # NUL

\* The characters of the key that have been compared are the last of the line
\* that have been.
Matching ==
  /\ rsi <= rdi
  /\ \A i \in 1..rsi : dict[entry].key[i] = Line(given)[rdi - rsi + i]

\* The key of pair i is the line, and none before it in the list moves rdi.
Target(i) ==
  dict[i].key # <<>> /\ dict[i].key = Line(given) /\ ~Shadowed(i)

\* The search does not pass a target, and reaches it from its start.
Aimed ==
  \A i \in DOMAIN dict :
    Target(i) => entry >= i /\ rdi = rsi /\ (entry > i => rdi = 0)

\* What is left of stdin is the end of it.
RestLeft ==
  /\ given \in Seq(Nat) /\ stdin \in Seq(Nat)
  /\ Len(stdin) <= Len(given)
  /\ \A j \in 1..Len(stdin) : stdin[j] = given[Consumed + j]

LInv ==
  /\ RestLeft
  /\ pc = "skip" => count = 0 /\ \A j \in 1..Consumed : given[j] \in Blank
  /\ pc = "line" => \E f \in 1..(Len(given) + 1) : LineFrom(f)
  /\ pc = "equals" => LineHeld /\ Matching /\ Aimed
  /\ pc # "exited" => stdout = <<>> /\ stderr = "none"
  /\ stderr = "buffer overflow" => ~LineFits
  /\ AnswerFromDictionary
  /\ KeyFound

SInv == IInv /\ LInv

-----------------------------------------------------------------------------
(* Lines and strings.                                                      *)

\* A set of naturals has a least element.
LEMMA Least ==
  ASSUME NEW T \in SUBSET Nat, T # {}
  PROVE  \E m \in T : \A n \in T : m <= n
<1> DEFINE R == OpToRel(<, Nat)
<1>1. IsWellFoundedOn(R, Nat)
  BY NatLessThanWellFounded
<1>2. ASSUME NEW n \in Nat, NEW m \in Nat, n < m PROVE <<n, m>> \in R
  BY <1>2 DEF R, OpToRel
<1> HIDE DEF R
<1>3. PICK m \in T : \A n \in T : <<n, m>> \notin R
  BY <1>1, WFMin
<1>4. m \in Nat
  OBVIOUS
<1>5. ASSUME NEW n \in T PROVE m <= n
  <2>1. n \in Nat /\ ~(n < m)
    BY <1>2, <1>3, <1>4
  <2> QED
    BY <1>4, <2>1
<1> QED
  BY <1>5

\* q is where the line of s that begins at f ends.
EndsAt(s, f, q) ==
  /\ q \in f..(Len(s) + 1)
  /\ q = Len(s) + 1 \/ s[q] \in {LF, NUL}
  /\ \A k \in f..(q - 1) : s[k] \notin {LF, NUL}

\* A line ends somewhere, and at one place only.
LEMMA LineHasEnd ==
  ASSUME NEW s \in Seq(Nat), NEW f \in 1..(Len(s) + 1)
  PROVE  EndsAt(s, f, LineEndsAt(s, f)) /\ \A q : EndsAt(s, f, q) => q = LineEndsAt(s, f)
<1> DEFINE T == {j \in f..(Len(s) + 1) : j = Len(s) + 1 \/ s[j] \in {LF, NUL}}
<1>1. Len(s) + 1 \in T /\ T \in SUBSET Nat
  OBVIOUS
<1>2. PICK m \in T : \A n \in T : m <= n
  BY <1>1, Least
<1>3. EndsAt(s, f, m)
  <2>1. ASSUME NEW k \in f..(m - 1), s[k] \in {LF, NUL} PROVE FALSE
    <3>1. k \in T /\ k < m
      BY <2>1
    <3>2. k \in Int /\ m \in Int
      OBVIOUS
    <3> QED
      BY <1>2, <3>1, <3>2
  <2>2. m \in f..(Len(s) + 1) /\ (m = Len(s) + 1 \/ s[m] \in {LF, NUL})
    OBVIOUS
  <2> QED
    BY <2>1, <2>2 DEF EndsAt
<1>4. ASSUME NEW q, NEW p, EndsAt(s, f, q), EndsAt(s, f, p) PROVE q = p
  <2>1. q \in Int /\ p \in Int /\ f \in Int
    BY <1>4 DEF EndsAt
  <2>2. ~(q < p)
    BY <1>4, <2>1 DEF EndsAt
  <2>3. ~(p < q)
    BY <1>4, <2>1 DEF EndsAt
  <2> QED
    BY <2>1, <2>2, <2>3
<1>5. LineEndsAt(s, f) = CHOOSE q \in f..(Len(s) + 1) : EndsAt(s, f, q)
  BY DEF LineEndsAt, EndsAt
<1>6. m \in f..(Len(s) + 1)
  BY <1>3 DEF EndsAt
<1>7. EndsAt(s, f, LineEndsAt(s, f))
  BY <1>3, <1>5, <1>6
<1> QED
  BY <1>4, <1>7

\* The line that begins behind the first blanks.
LEMMA LineIs ==
  ASSUME NEW s \in Seq(Nat), NEW f \in 1..Len(s),
         \A j \in 1..(f - 1) : s[j] \in Blank, s[f] \notin Blank
  PROVE  Line(s) = SubSeq(s, f, LineEndsAt(s, f) - 1)
<1>1. f \in LineStarts(s) /\ \A j \in LineStarts(s) : f <= j
  BY DEF LineStarts
<1>2. ASSUME NEW i \in LineStarts(s), \A j \in LineStarts(s) : i <= j PROVE i = f
  BY <1>1, <1>2 DEF LineStarts
<1>3. f = CHOOSE i \in LineStarts(s) : \A j \in LineStarts(s) : i <= j
  BY <1>1, <1>2
<1> QED
  BY <1>1, <1>3 DEF Line

\* Its characters, and when it is longer than what has been read of it.
LEMMA LineOf ==
  ASSUME NEW s \in Seq(Nat), NEW f \in 1..Len(s),
         \A j \in 1..(f - 1) : s[j] \in Blank, s[f] \notin Blank,
         NEW q \in f..(Len(s) + 1), \A k \in f..(q - 1) : s[k] \notin {LF, NUL}
  PROVE  /\ Line(s) \in Seq(Nat)
         /\ Len(Line(s)) >= q - f
         /\ q <= Len(s) /\ s[q] \notin {LF, NUL} => Len(Line(s)) > q - f
         /\ q = Len(s) + 1 \/ s[q] \in {LF, NUL} => Len(Line(s)) = q - f
         /\ \A i \in 1..(q - f) : Line(s)[i] = s[f + i - 1]
<1> DEFINE e == LineEndsAt(s, f)
<1>1. EndsAt(s, f, e) /\ \A p : EndsAt(s, f, p) => p = e
  BY LineHasEnd
<1>2. Line(s) = SubSeq(s, f, e - 1)
  BY LineIs
<1> HIDE DEF e
<1>3. e \in f..(Len(s) + 1) /\ f \in Int /\ f >= 1 /\ q \in Int /\ Len(s) \in Nat
  BY <1>1 DEF EndsAt
<1>4. \A i \in f..(e - 1) : s[i] \in Nat
  BY <1>3
<1>5. /\ Line(s) \in Seq(Nat) /\ Len(Line(s)) = e - f
      /\ \A i \in 1..(e - f) : Line(s)[i] = s[f + i - 1]
  <2>1. /\ SubSeq(s, f, e - 1) \in Seq(Nat)
        /\ Len(SubSeq(s, f, e - 1)) = IF f <= e - 1 THEN (e - 1) - f + 1 ELSE 0
        /\ \A i \in 1..((e - 1) - f + 1) : SubSeq(s, f, e - 1)[i] = s[f + i - 1]
    BY <1>3, <1>4, SubSeqProperties
  <2> QED
    BY <1>2, <1>3, <2>1
<1>6. q <= e
  <2> SUFFICES ASSUME e < q PROVE FALSE
    BY <1>3
  <2> QED
    BY <1>1, <1>3 DEF EndsAt
<1>7. q <= Len(s) /\ s[q] \notin {LF, NUL} => q < e
  BY <1>1, <1>3, <1>6 DEF EndsAt
<1>8. q = Len(s) + 1 \/ s[q] \in {LF, NUL} => q = e
  BY <1>1, <1>3 DEF EndsAt
<1>9. \A i \in 1..(q - f) : Line(s)[i] = s[f + i - 1]
  <2> TAKE i \in 1..(q - f)
  <2>1. i \in 1..(e - f)
    BY <1>3, <1>6
  <2> QED
    BY <1>5, <2>1
<1>10. /\ e - f >= q - f
       /\ q < e => e - f > q - f
  BY <1>3, <1>6
<1> DEFINE n == Len(Line(s))
<1>11. n = e - f /\ Line(s) \in Seq(Nat)
  BY <1>5
<1>12. /\ n >= q - f
       /\ q <= Len(s) /\ s[q] \notin {LF, NUL} => n > q - f
       /\ q = Len(s) + 1 \/ s[q] \in {LF, NUL} => n = q - f
  <2> HIDE DEF n
  <2> QED
    BY <1>7, <1>8, <1>10, <1>11
<1> QED
  BY <1>9, <1>11, <1>12

LEMMA LineNone ==
  ASSUME NEW s \in Seq(Nat), \A j \in 1..Len(s) : s[j] \in Blank
  PROVE  Line(s) = <<>>
  BY DEF Line, LineStarts

LEMMA LineIsText == ASSUME NEW s \in Seq(Nat) PROVE Line(s) \in Seq(Nat)
<1>1. CASE \A j \in 1..Len(s) : s[j] \in Blank
  BY <1>1, LineNone, EmptySeq
<1>2. CASE \E j \in 1..Len(s) : s[j] \notin Blank
  <2> DEFINE T == {j \in 1..Len(s) : s[j] \notin Blank}
  <2>1. T \in SUBSET Nat /\ T # {}
    BY <1>2
  <2>2. PICK f \in T : \A n \in T : f <= n
    BY <2>1, Least
  <2>3. f \in 1..Len(s) /\ s[f] \notin Blank /\ Len(s) \in Nat
    OBVIOUS
  <2>4. \A j \in 1..(f - 1) : s[j] \in Blank
    <3> TAKE j \in 1..(f - 1)
    <3>1. j \in 1..Len(s) /\ ~(f <= j)
      BY <2>3
    <3> QED
      BY <2>2, <3>1
  <2>5. f \in f..(Len(s) + 1) /\ \A k \in f..(f - 1) : s[k] \notin {LF, NUL}
    BY <2>3
  <2> QED
    BY <2>3, <2>4, <2>5, LineOf
<1> QED
  BY <1>1, <1>2

\* A text before a terminator is what is read from its offset.
LEMMA StringAt ==
  ASSUME NEW s \in Seq(Nat), NEW o \in Nat, NEW t \in Text,
         o + Len(t) + 1 <= Len(s),
         \A i \in 1..Len(t) : s[o + i] = t[i],
         s[o + Len(t) + 1] = NUL
  PROVE  string_from(s, o) = t
<1> DEFINE n == o + Len(t) + 1
           E(i) == s[i] = NUL /\ \A j \in (o + 1)..(i - 1) : s[j] # NUL
           end == CHOOSE i \in (o + 1)..Len(s) : E(i)
<1>1. /\ t \in Seq(Nat) /\ Len(t) \in Nat
      /\ \A i \in 1..Len(t) : t[i] \in Nat \ {NUL}
  BY DEF Text
<1>2. n \in (o + 1)..Len(s) /\ E(n)
  <2>1. n \in (o + 1)..Len(s) /\ s[n] = NUL
    BY <1>1
  <2>2. ASSUME NEW j \in (o + 1)..(n - 1) PROVE s[j] # NUL
    <3>1. j - o \in 1..Len(t) /\ o + (j - o) = j
      BY <1>1
    <3> QED
      BY <1>1, <3>1
  <2> QED
    BY <2>1, <2>2
<1>3. ASSUME NEW i \in (o + 1)..Len(s), E(i) PROVE i = n
  <2>1. i \in Int /\ n \in Int
    BY <1>1
  <2>2. ~(i < n)
    <3>1. i < n => i \in (o + 1)..(n - 1)
      BY <2>1
    <3> QED
      BY <1>2, <1>3, <3>1
  <2>3. ~(n < i)
    <3>1. n < i => n \in (o + 1)..(i - 1)
      BY <1>2, <2>1
    <3> QED
      BY <1>2, <1>3, <3>1
  <2> HIDE DEF n
  <2> QED
    BY <2>1, <2>2, <2>3
<1> HIDE DEF E
<1>4. end = n
  <2> HIDE DEF n
  <2>1. \A i \in (o + 1)..Len(s) : E(i) <=> i = n
    BY <1>2, <1>3
  <2> QED
    BY <1>2, <2>1
<1>5. string_from(s, o) = SubSeq(s, o + 1, end - 1)
  BY DEF string_from, end, E
<1>6. string_from(s, o) = SubSeq(s, o + 1, o + Len(t))
  <2> HIDE DEF end
  <2>1. end - 1 = o + Len(t)
    BY <1>1, <1>4
  <2> QED
    BY <1>5, <2>1
<1>7. \A i \in (o + 1)..(o + Len(t)) : s[i] \in Nat
  <2> TAKE i \in (o + 1)..(o + Len(t))
  <2>1. i \in 1..Len(s)
    BY <1>1
  <2> QED
    BY <2>1, ElementOfSeq
<1>8. /\ SubSeq(s, o + 1, o + Len(t)) \in Seq(Nat)
      /\ Len(SubSeq(s, o + 1, o + Len(t))) = Len(t)
      /\ \A i \in 1..Len(t) : SubSeq(s, o + 1, o + Len(t))[i] = s[o + i]
  <2> DEFINE u == SubSeq(s, o + 1, o + Len(t))
  <2>1. /\ u \in Seq(Nat)
        /\ Len(u) = IF o + 1 <= o + Len(t) THEN (o + Len(t)) - (o + 1) + 1 ELSE 0
        /\ \A i \in 1..((o + Len(t)) - (o + 1) + 1) : u[i] = s[(o + 1) + i - 1]
    BY <1>1, <1>7, SubSeqProperties
  <2> HIDE DEF u
  <2>2. Len(u) = Len(t) /\ \A i \in 1..Len(t) : u[i] = s[o + i]
    BY <1>1, <2>1
  <2> QED
    BY <2>1, <2>2 DEF u
<1> DEFINE u == SubSeq(s, o + 1, o + Len(t))
<1>9. /\ u \in Seq(Nat) /\ t \in Seq(Nat) /\ Len(u) = Len(t)
      /\ \A i \in 1..Len(u) : u[i] = t[i]
  BY <1>1, <1>8
<1> HIDE DEF u
<1>10. u = t
  BY <1>9, SeqEqual
<1> QED
  BY <1>6, <1>10 DEF u

\* A sequence that ends another one is its suffix.
LEMMA SuffixBy ==
  ASSUME NEW s \in Seq(Nat), NEW t \in Seq(Nat), Len(s) <= Len(t),
         \A i \in 1..Len(s) : s[i] = t[Len(t) - Len(s) + i]
  PROVE  IsSuffix(s, t)
<1> DEFINE n == Len(s)
           a == Reverse(s)
           b == Reverse(t)
<1>1. /\ a \in Seq(Nat) /\ Len(a) = n /\ \A i \in 1..n : a[i] = s[n - i + 1]
      /\ b \in Seq(Nat) /\ Len(b) = Len(t) /\ \A i \in 1..Len(t) : b[i] = t[Len(t) - i + 1]
      /\ n \in Nat /\ Len(t) \in Nat /\ n <= Len(t)
  <2>1. ASSUME NEW u \in Seq(Nat)
        PROVE  /\ Reverse(u) \in Seq(Nat) /\ Len(Reverse(u)) = Len(u)
               /\ \A i \in 1..Len(u) : Reverse(u)[i] = u[Len(u) - i + 1]
    BY DEF Reverse
  <2>2. n \in Nat /\ Len(t) \in Nat /\ n <= Len(t)
    OBVIOUS
  <2> QED
    BY <2>1, <2>2
<1>2. \A i \in 1..n : a[i] = b[i]
  <2> TAKE i \in 1..n
  <2>1. n - i + 1 \in 1..n /\ Len(t) - n + (n - i + 1) = Len(t) - i + 1
    BY <1>1
  <2>2. a[i] = s[n - i + 1]
    BY <1>1
  <2>3. b[i] = t[Len(t) - i + 1]
    <3>1. i \in 1..Len(t)
      BY <1>1
    <3> QED
      BY <1>1, <3>1
  <2>4. s[n - i + 1] = t[Len(t) - n + (n - i + 1)]
    BY <2>1
  <2> QED
    BY <2>1, <2>2, <2>3, <2>4, Zenon
<1> HIDE DEF a, b, n
<1>3. /\ SubSeq(a, 1, n) \in Seq(Nat) /\ SubSeq(b, 1, n) \in Seq(Nat)
      /\ Len(SubSeq(a, 1, n)) = n /\ Len(SubSeq(b, 1, n)) = n
      /\ \A i \in 1..n : SubSeq(a, 1, n)[i] = a[i] /\ SubSeq(b, 1, n)[i] = b[i]
  <2>1. ASSUME NEW u \in Seq(Nat), n <= Len(u)
        PROVE  /\ SubSeq(u, 1, n) \in Seq(Nat) /\ Len(SubSeq(u, 1, n)) = n
               /\ \A i \in 1..n : SubSeq(u, 1, n)[i] = u[i]
    <3>1. \A i \in 1..n : u[i] \in Nat
      <4>1. Len(u) \in Nat
        OBVIOUS
      <4>2. \A i \in 1..n : i \in 1..Len(u)
        BY <1>1, <2>1, <4>1
      <4> QED
        BY <4>2, ElementOfSeq
    <3>2. /\ SubSeq(u, 1, n) \in Seq(Nat)
          /\ Len(SubSeq(u, 1, n)) = IF 1 <= n THEN n - 1 + 1 ELSE 0
          /\ \A i \in 1..(n - 1 + 1) : SubSeq(u, 1, n)[i] = u[1 + i - 1]
      BY <1>1, <3>1, SubSeqProperties
    <3> QED
      BY <1>1, <3>2
  <2>2. /\ SubSeq(a, 1, n) \in Seq(Nat) /\ Len(SubSeq(a, 1, n)) = n
        /\ \A i \in 1..n : SubSeq(a, 1, n)[i] = a[i]
    <3>1. n <= Len(a)
      BY <1>1
    <3> QED
      BY <1>1, <2>1, <3>1
  <2>3. /\ SubSeq(b, 1, n) \in Seq(Nat) /\ Len(SubSeq(b, 1, n)) = n
        /\ \A i \in 1..n : SubSeq(b, 1, n)[i] = b[i]
    <3>1. n <= Len(b)
      BY <1>1
    <3> QED
      BY <1>1, <2>1, <3>1
  <2> QED
    BY <2>2, <2>3
<1>4. SubSeq(a, 1, n) = SubSeq(b, 1, n)
  <2> DEFINE x == SubSeq(a, 1, n)
             y == SubSeq(b, 1, n)
  <2>1. /\ x \in Seq(Nat) /\ y \in Seq(Nat) /\ Len(x) = Len(y)
        /\ \A i \in 1..Len(x) : x[i] = y[i]
    BY <1>2, <1>3
  <2> HIDE DEF x, y
  <2>2. x = y
    BY <2>1, SeqEqual
  <2> QED
    BY <2>2 DEF x, y
<1>5. IsPrefix(a, b)
  BY <1>1, <1>4 DEF IsPrefix
<1> QED
  BY <1>5 DEF IsSuffix, a, b

-----------------------------------------------------------------------------
(* Reading the line.                                                       *)

LEMMA CharRead ==
  ASSUME RestLeft, read_char, given' = given
  PROVE  /\ RestLeft' /\ Consumed \in 0..Len(given)
         /\ stdin = <<>> => /\ char' = NUL /\ stdin' = <<>>
                            /\ Consumed = Len(given) /\ Consumed' = Consumed
         /\ stdin # <<>> => /\ Consumed' = Consumed + 1 /\ Consumed' <= Len(given)
                            /\ char' = given[Consumed']
<1>1. /\ given \in Seq(Nat) /\ stdin \in Seq(Nat) /\ Len(stdin) \in Nat /\ Len(given) \in Nat
      /\ Len(stdin) <= Len(given)
  BY DEF RestLeft
<1>2. CASE stdin = <<>>
  <2>1. char' = NUL /\ stdin' = <<>> /\ Len(stdin) = 0
    BY <1>2 DEF read_char
  <2> QED
    BY <1>1, <1>2, <2>1 DEF RestLeft, Consumed
<1>3. CASE stdin # <<>>
  <2>1. /\ char' = stdin[1] /\ stdin' = Tail(stdin) /\ Len(stdin) >= 1
        /\ stdin' \in Seq(Nat) /\ Len(stdin') = Len(stdin) - 1
        /\ \A j \in 1..Len(stdin') : stdin'[j] = stdin[j + 1]
    BY <1>1, <1>3, HeadTailProperties DEF read_char
  <2>2. Consumed' = Consumed + 1 /\ Consumed' <= Len(given) /\ Consumed \in 0..Len(given)
    BY <1>1, <2>1 DEF Consumed
  <2>3. char' = given[Consumed + 1]
    BY <1>1, <2>1 DEF RestLeft
  <2>4. \A j \in 1..Len(stdin') : stdin'[j] = given[Consumed' + j]
    <3> TAKE j \in 1..Len(stdin')
    <3>1. j + 1 \in 1..Len(stdin) /\ Consumed + (j + 1) = Consumed' + j
      BY <1>1, <2>1, <2>2
    <3> QED
      BY <2>1, <3>1 DEF RestLeft
  <2> QED
    BY <1>1, <1>3, <2>1, <2>2, <2>3, <2>4 DEF RestLeft
<1> QED
  BY <1>2, <1>3

\* What is said of the answer needs one.
LEMMA NoAnswerYet ==
  ASSUME LInv, pc # "exited", pc' # "exited",
         UNCHANGED <<dict, given, stdout, stderr>>
  PROVE  /\ stdout' = <<>> /\ stderr' = "none"
         /\ AnswerFromDictionary' /\ KeyFound'
  BY DEF LInv, AnswerFromDictionary, KeyFound

LEMMA SkipKeepsLInv == ASSUME SInv, Skip PROVE LInv'
<1>1. /\ pc = "skip" /\ read_char
      /\ pc' = IF char' \in Blank THEN "skip" ELSE "line"
      /\ UNCHANGED <<dict, given, count, stdout, stderr>>
  BY DEF Skip
<1>2. RestLeft /\ count = 0 /\ \A j \in 1..Consumed : given[j] \in Blank
  BY <1>1 DEF SInv, LInv
<1>3. /\ RestLeft' /\ Consumed \in 0..Len(given)
      /\ stdin = <<>> => /\ char' = NUL /\ stdin' = <<>>
                         /\ Consumed = Len(given) /\ Consumed' = Consumed
      /\ stdin # <<>> => /\ Consumed' = Consumed + 1 /\ Consumed' <= Len(given)
                         /\ char' = given[Consumed']
  BY <1>1, <1>2, CharRead
<1>4. NUL \notin Blank
  BY DEF NUL, Blank, SPACE, TAB, LF
<1>5. CASE pc' = "skip"
  <2>1. \A j \in 1..Consumed' : given[j] \in Blank
    BY <1>1, <1>2, <1>3, <1>4, <1>5
  <2> QED
    BY <1>1, <1>2, <1>3, <1>5, <2>1, NoAnswerYet DEF SInv, LInv
<1>6. CASE pc' = "line"
  <2>1. PICK f \in 1..(Len(given) + 1) : f = Consumed + 1
    BY <1>3
  <2>2. LineFrom(f)'
    <3>1. f' = f
      OBVIOUS
    <3>2. /\ \A j \in 1..(f - 1) : given[j] \in Blank
          /\ f <= Len(given) => given[f] \notin Blank
          /\ \/ f = Consumed' /\ char' = given[f] /\ Consumed' <= Len(given)
             \/ f = Len(given) + 1 /\ char' = NUL /\ stdin' = <<>>
      BY <1>1, <1>2, <1>3, <1>6, <2>1
    <3> QED
      BY <1>1, <1>2, <2>1, <3>2 DEF LineFrom
  <2> QED
    BY <1>1, <1>3, <1>6, <2>2, NoAnswerYet DEF SInv, LInv
<1> QED
  BY <1>1, <1>5, <1>6

LEMMA CharKeepsLInv == ASSUME SInv, LineChar PROVE LInv'
<1>1. /\ pc = "line" /\ pc' = "line" /\ read_char /\ char \notin {LF, NUL}
      /\ count + 1 # BufSize /\ count' = count + 1 /\ buf' = stored(top, char)
      /\ UNCHANGED <<dict, given, stdout, stderr>>
  BY DEF LineChar
<1>2. /\ RestLeft /\ top = count /\ count \in Nat /\ count < BufSize /\ BufSize \in Nat
      /\ DOMAIN buf = 0..(BufSize - 1)
  BY <1>1, DictionaryAssumption DEF SInv, LInv, IInv, TypeOK
<1>3. PICK f \in 1..(Len(given) + 1) : LineFrom(f)
  BY <1>1 DEF SInv, LInv
<1>4. /\ RestLeft' /\ Consumed \in 0..Len(given)
      /\ stdin = <<>> => /\ char' = NUL /\ stdin' = <<>>
                         /\ Consumed = Len(given) /\ Consumed' = Consumed
      /\ stdin # <<>> => /\ Consumed' = Consumed + 1 /\ Consumed' <= Len(given)
                         /\ char' = given[Consumed']
  BY <1>1, <1>2, CharRead
<1>5. f + count = Consumed /\ char = given[f + count] /\ Len(given) \in Nat
  BY <1>1, <1>2, <1>3 DEF LineFrom, RestLeft
<1>6. \A i \in 0..count : buf'[i] = given[f + i] /\ given[f + i] \notin {LF, NUL}
  <2> TAKE i \in 0..count
  <2>1. CASE i = count
    BY <1>1, <1>2, <1>5, <2>1 DEF stored
  <2>2. CASE i < count
    <3>1. i \in 0..(count - 1) /\ i \in DOMAIN buf /\ i # top
      BY <1>2, <2>2
    <3>2. buf'[i] = buf[i]
      BY <1>1, <3>1 DEF stored
    <3> QED
      BY <1>3, <3>1, <3>2 DEF LineFrom
  <2> QED
    BY <1>2, <2>1, <2>2
<1>7. \/ f + (count + 1) = Consumed' /\ char' = given[f + (count + 1)] /\ Consumed' <= Len(given)
      \/ f + (count + 1) = Len(given) + 1 /\ char' = NUL /\ stdin' = <<>>
  BY <1>2, <1>4, <1>5
<1>8. LineFrom(f)'
  BY <1>1, <1>2, <1>3, <1>6, <1>7 DEF LineFrom
<1> QED
  BY <1>1, <1>4, <1>8, NoAnswerYet DEF SInv, LInv

\* What the loop knows of the line.
LEMMA LineSoFar ==
  ASSUME SInv, pc = "line"
  PROVE  /\ Len(Line(given)) \in Nat
         /\ char \notin {LF, NUL} => Len(Line(given)) > count
         /\ char \in {LF, NUL} => Len(Line(given)) = count
         /\ \A i \in 1..count : i <= Len(Line(given)) =>
              Line(given)[i] = buf[i - 1] /\ Line(given)[i] # NUL
<1>1. given \in Seq(Nat) /\ Len(given) \in Nat /\ count \in Nat
  BY DEF SInv, LInv, RestLeft, IInv, TypeOK
<1>2. PICK f \in 1..(Len(given) + 1) : LineFrom(f)
  BY DEF SInv, LInv
<1>3. CASE f = Len(given) + 1
  <2>1. count = 0 /\ char = NUL
    BY <1>1, <1>2, <1>3 DEF LineFrom, Consumed, SInv, LInv, RestLeft
  <2>2. \A j \in 1..Len(given) : given[j] \in Blank
    BY <1>1, <1>2, <1>3 DEF LineFrom
  <2>3. Line(given) = <<>>
    BY <1>1, <2>2, LineNone
  <2> QED
    BY <2>1, <2>3
<1>4. CASE f <= Len(given)
  <2> DEFINE q == f + count
  <2>1. /\ f \in 1..Len(given) /\ q \in f..(Len(given) + 1)
        /\ \A j \in 1..(f - 1) : given[j] \in Blank
        /\ given[f] \notin Blank
    BY <1>1, <1>2, <1>4 DEF LineFrom
  <2>2. \A k \in f..(q - 1) : given[k] \notin {LF, NUL}
    <3> TAKE k \in f..(q - 1)
    <3>1. k - f \in 0..(count - 1) /\ f + (k - f) = k
      BY <1>1
    <3> QED
      BY <1>2, <3>1 DEF LineFrom
  <2>3. /\ Line(given) \in Seq(Nat)
        /\ Len(Line(given)) >= q - f
        /\ q <= Len(given) /\ given[q] \notin {LF, NUL} => Len(Line(given)) > q - f
        /\ q = Len(given) + 1 \/ given[q] \in {LF, NUL} => Len(Line(given)) = q - f
        /\ \A i \in 1..(q - f) : Line(given)[i] = given[f + i - 1]
    BY <1>1, <2>1, <2>2, LineOf
  <2>4. \/ q <= Len(given) /\ char = given[q]
        \/ q = Len(given) + 1 /\ char = NUL
    BY <1>1, <1>2 DEF LineFrom
  <2>5. q - f = count
    BY <1>1
  <2>6. \A i \in 1..count : Line(given)[i] = buf[i - 1] /\ Line(given)[i] # NUL
    <3> TAKE i \in 1..count
    <3>1. i - 1 \in 0..(count - 1) /\ f + (i - 1) = f + i - 1
      BY <1>1
    <3> QED
      BY <1>2, <2>3, <2>5, <3>1 DEF LineFrom
  <2> HIDE DEF q
  <2> QED
    BY <2>3, <2>4, <2>5, <2>6
<1> QED
  BY <1>1, <1>3, <1>4

LEMMA OverflowKeepsLInv == ASSUME SInv, LineOverflows PROVE LInv'
<1>1. /\ pc = "line" /\ char \notin {LF, NUL}
      /\ pc' = "exited" /\ stderr' = "buffer overflow"
      /\ UNCHANGED <<dict, given, stdin, stdout>>
  BY DEF LineOverflows, Fails, exit
<1>2. RestLeft /\ stdout = <<>>
  BY <1>1 DEF SInv, LInv
<1>3. ~LineFits
  <2>1. Len(Line(given)) > count /\ Len(Line(given)) \in Nat
    BY <1>1, LineSoFar
  <2>2. BufSize \in Nat /\ count \in Nat
    BY DictionaryAssumption DEF SInv, IInv, TypeOK
  <2>3. count + 1 = BufSize
    BY DEF LineOverflows
  <2> QED
    BY <2>1, <2>2, <2>3 DEF LineFits
<1>4. stdout' = <<>> /\ ~LineFits'
  BY <1>1, <1>2, <1>3 DEF LineFits
<1>5. RestLeft'
  BY <1>1, <1>2 DEF RestLeft, Consumed
<1> QED
  BY <1>1, <1>4, <1>5 DEF LInv, AnswerFromDictionary, KeyFound

LEMMA EndKeepsLInv == ASSUME SInv, LineEnds PROVE LInv'
<1>1. /\ pc = "line" /\ char \in {LF, NUL} /\ buf' = stored(top, NUL)
      /\ entry' = Len(dict) /\ rdi' = 0 /\ rsi' = 0 /\ pc' = "equals"
      /\ UNCHANGED <<dict, given, stdin, count, stdout, stderr>>
  BY DEF LineEnds, dict_pointer
<1>2. /\ RestLeft /\ count \in Nat /\ top = count /\ count < BufSize
      /\ DOMAIN buf = 0..(BufSize - 1) /\ dict \in Dictionaries
      /\ BufSize \in Nat
  BY <1>1, DictionaryAssumption DEF SInv, LInv, IInv, TypeOK
<1>3. RestLeft'
  BY <1>1, <1>2 DEF RestLeft, Consumed
<1>4. /\ Len(Line(given)) = count
      /\ \A i \in 1..count : Line(given)[i] = buf[i - 1] /\ Line(given)[i] # NUL
  BY <1>1, <1>2, LineSoFar
<1>5. \A i \in 1..count : buf'[i - 1] = buf[i - 1]
  <2> TAKE i \in 1..count
  <2>1. i - 1 \in DOMAIN buf /\ i - 1 # top
    BY <1>2
  <2> QED
    BY <1>1, <2>1 DEF stored
<1>6. LineHeld'
  BY <1>1, <1>4, <1>5 DEF LineHeld
<1>7. Matching'
  BY <1>1 DEF Matching
<1>8. Aimed'
  <2>1. DOMAIN dict = 1..Len(dict) /\ Len(dict) \in Nat
    BY <1>2, Pairs
  <2> QED
    BY <1>1, <2>1 DEF Aimed, Target, Shadowed
<1> QED
  BY <1>1, <1>3, <1>6, <1>7, <1>8, NoAnswerYet DEF SInv, LInv

-----------------------------------------------------------------------------
(* The search.                                                             *)

\* The facts of the comparison.
Comparing ==
  /\ pc = "equals" /\ dict \in Dictionaries /\ entry \in DOMAIN dict
  /\ DOMAIN dict = 1..Len(dict) /\ Len(dict) \in Nat
  /\ rdi \in Nat /\ rsi \in Nat /\ rdi <= count /\ count \in Nat
  /\ rsi <= Len(dict[entry].key)
  /\ buf[count] = NUL /\ Len(Line(given)) = count
  /\ \A i \in 1..count : Line(given)[i] = buf[i - 1] /\ Line(given)[i] # NUL
  /\ Matching /\ Aimed

LEMMA InTheSearch == ASSUME SInv, pc = "equals" PROVE Comparing
<1>1. /\ dict \in Dictionaries /\ entry \in DOMAIN dict
      /\ rdi \in Nat /\ rsi \in Nat /\ rdi <= count /\ count \in Nat
      /\ rsi <= Len(dict[entry].key) /\ buf[count] = NUL
  BY DEF SInv, IInv, TypeOK, CursorsInside
<1>2. LineHeld /\ Matching /\ Aimed
  BY DEF SInv, LInv
<1>3. DOMAIN dict = 1..Len(dict) /\ Len(dict) \in Nat
  BY <1>1, Pairs
<1> QED
  BY <1>1, <1>2, <1>3 DEF Comparing, LineHeld

\* A byte of a key, or its terminator.
LEMMA KeyChar ==
  ASSUME Comparing
  PROVE  /\ Len(dict[entry].key) \in Nat
         /\ key_char = NUL <=> rsi = Len(dict[entry].key)
         /\ rsi < Len(dict[entry].key) => key_char = dict[entry].key[rsi + 1]
<1> DEFINE k == dict[entry].key
<1>1. k \in Text /\ (\A i \in 1..Len(k) : pair(entry)[i] = k[i]) /\ pair(entry)[Len(k) + 1] = NUL
  BY PairBytes DEF Comparing
<1>2. Len(k) \in Nat /\ \A i \in 1..Len(k) : k[i] # NUL
  BY <1>1 DEF Text
<1>3. rsi \in Nat /\ rsi <= Len(k)
  BY DEF Comparing
<1> HIDE DEF k
<1>4. CASE rsi = Len(k)
  BY <1>1, <1>2, <1>4 DEF key_char, k
<1>5. CASE rsi < Len(k)
  <2>1. rsi + 1 \in 1..Len(k)
    BY <1>2, <1>3, <1>5
  <2> QED
    BY <1>1, <1>2, <1>3, <1>5, <2>1 DEF key_char, k
<1> QED
  BY <1>2, <1>3, <1>4, <1>5 DEF k

\* The character of the line, or its terminator.
LEMMA LineChars ==
  ASSUME Comparing
  PROVE  /\ buf[rdi] = NUL <=> rdi = count
         /\ rdi < count => buf[rdi] = Line(given)[rdi + 1]
<1>1. CASE rdi = count
  BY <1>1 DEF Comparing
<1>2. CASE rdi < count
  <2>1. rdi + 1 \in 1..count /\ (rdi + 1) - 1 = rdi
    BY <1>2 DEF Comparing
  <2> QED
    BY <1>2, <2>1 DEF Comparing
<1> QED
  BY <1>1, <1>2 DEF Comparing

\* Before its target the search stops at the first character of every key.
LEMMA BeforeTarget ==
  ASSUME Comparing, NEW i \in DOMAIN dict, Target(i), entry > i
  PROVE  rdi = 0 /\ rsi = 0 /\ buf[rdi] # key_char
<1>1. rdi = 0 /\ rsi = 0 /\ i \in Nat
  BY DEF Comparing, Aimed
<1>2. dict[i].key = Line(given) /\ dict[i].key # <<>> /\ dict[i].key \in Text
  BY Pairs DEF Target, Comparing
<1>3. Len(dict[i].key) \in Nat \ {0} /\ Head(dict[i].key) = dict[i].key[1]
  BY <1>2 DEF Text
<1>4. rdi < count /\ buf[rdi] = dict[i].key[1] /\ buf[rdi] # NUL
  BY <1>1, <1>2, <1>3, LineChars DEF Comparing
<1>5. ASSUME buf[rdi] = key_char PROVE FALSE
  <2>1. Len(dict[entry].key) \in Nat /\ Len(dict[entry].key) > 0
        /\ key_char = dict[entry].key[1]
    BY <1>1, <1>4, <1>5, KeyChar
  <2>2. dict[entry].key \in Text
    BY Pairs DEF Comparing
  <2>3. dict[entry].key # <<>> /\ Head(dict[entry].key) = dict[entry].key[1]
    BY <2>1, <2>2 DEF Text
  <2>4. entry \in (i + 1)..Len(dict)
    BY <1>1 DEF Comparing
  <2>5. Shadowed(i)
    BY <1>3, <1>4, <1>5, <2>1, <2>3, <2>4 DEF Shadowed
  <2> QED
    BY <2>5 DEF Target
<1> QED
  BY <1>1, <1>5

\* At its target nothing differs.
LEMMA AtTarget ==
  ASSUME Comparing, Target(entry)
  PROVE  rdi = rsi /\ buf[rdi] = key_char
<1>1. rdi = rsi /\ dict[entry].key = Line(given)
  BY DEF Comparing, Aimed, Target
<1>2. CASE rdi = count
  BY <1>1, <1>2, KeyChar, LineChars DEF Comparing
<1>3. CASE rdi < count
  BY <1>1, <1>3, KeyChar, LineChars DEF Comparing
<1> QED
  BY <1>1, <1>2, <1>3 DEF Comparing

\* The search has not passed a target, so the pair at hand is one or comes before.
LEMMA TargetAhead ==
  ASSUME Comparing, NEW i \in DOMAIN dict, Target(i)
  PROVE  i \in Nat /\ entry \in Nat /\ (entry = i \/ entry > i)
  BY DEF Comparing, Aimed

LEMMA NextKeepsLInv == ASSUME SInv, EqualsNext PROVE LInv'
<1>1. /\ pc = "equals" /\ pc' = "equals" /\ buf[rdi] = key_char /\ buf[rdi] # NUL
      /\ rdi' = rdi + 1 /\ rsi' = rsi + 1
      /\ UNCHANGED <<dict, given, stdin, count, buf, entry, stdout, stderr>>
  BY DEF EqualsNext
<1>2. Comparing /\ RestLeft /\ LineHeld
  BY <1>1, InTheSearch DEF SInv, LInv
<1>3. /\ rdi < count /\ rsi < Len(dict[entry].key)
      /\ dict[entry].key[rsi + 1] = Line(given)[rdi + 1]
      /\ rdi \in Nat /\ rsi \in Nat
  BY <1>1, <1>2, KeyChar, LineChars DEF Comparing
<1>4. Matching'
  <2>1. rsi' <= rdi' /\ rdi' - rsi' = rdi - rsi
    BY <1>1, <1>2, <1>3 DEF Comparing, Matching
  <2>2. ASSUME NEW i \in 1..(rsi + 1)
        PROVE  dict[entry].key[i] = Line(given)[rdi - rsi + i]
    <3>1. CASE i = rsi + 1
      <4>1. rdi - rsi + i = rdi + 1
        BY <1>3, <3>1
      <4> QED
        BY <1>3, <3>1, <4>1
    <3>2. CASE i \in 1..rsi
      BY <1>2, <3>2 DEF Comparing, Matching
    <3> QED
      BY <1>3, <3>1, <3>2
  <2> QED
    BY <1>1, <2>1, <2>2 DEF Matching
<1>5. Aimed'
  <2>1. ASSUME NEW i \in DOMAIN dict, Target(i)
        PROVE  entry >= i /\ rdi + 1 = rsi + 1 /\ ~(entry > i)
    <3>1. ~(entry > i)
      BY <1>1, <1>2, <2>1, BeforeTarget
    <3> QED
      BY <1>2, <2>1, <3>1, TargetAhead DEF Comparing, Aimed
  <2> QED
    BY <1>1, <2>1 DEF Aimed, Target, Shadowed
<1>6. RestLeft' /\ LineHeld'
  BY <1>1, <1>2 DEF RestLeft, Consumed, LineHeld
<1> QED
  BY <1>1, <1>4, <1>5, <1>6, NoAnswerYet DEF SInv, LInv

LEMMA DiffersKeepsLInv == ASSUME SInv, EqualsDiffers PROVE LInv'
<1>1. /\ pc = "equals" /\ pc' = "equals" /\ buf[rdi] # key_char
      /\ entry' = entry - 1 /\ rsi' = 0
      /\ UNCHANGED <<dict, given, stdin, count, buf, rdi, stdout, stderr>>
  BY DEF EqualsDiffers, next
<1>2. Comparing /\ RestLeft /\ LineHeld
  BY <1>1, InTheSearch DEF SInv, LInv
<1>3. Matching'
  BY <1>1, <1>2 DEF Matching, Comparing
<1>4. Aimed'
  <2>1. ASSUME NEW i \in DOMAIN dict, Target(i)
        PROVE  entry - 1 >= i /\ rdi = 0
    <3>1. entry # i
      BY <1>1, <1>2, <2>1, AtTarget
    <3>2. entry > i /\ i \in Nat /\ entry \in Nat
      BY <1>2, <2>1, <3>1, TargetAhead
    <3> QED
      BY <1>2, <2>1, <3>2, BeforeTarget
  <2> QED
    BY <1>1, <2>1 DEF Aimed, Target, Shadowed
<1>5. RestLeft' /\ LineHeld'
  BY <1>1, <1>2 DEF RestLeft, Consumed, LineHeld
<1> QED
  BY <1>1, <1>3, <1>4, <1>5, NoAnswerYet DEF SInv, LInv

LEMMA FoundKeepsLInv == ASSUME SInv, Found PROVE LInv'
<1> DEFINE k == dict[entry].key
           v == dict[entry].value
<1>1. /\ pc = "equals" /\ pc' = "exited" /\ buf[rdi] = key_char /\ buf[rdi] = NUL
      /\ stdout' = Append(string_from(pair(entry), string_length(pair(entry), 0) + 1), LF)
      /\ UNCHANGED <<dict, given, stdin, stderr>>
  BY DEF Found, exit
<1>2. Comparing /\ RestLeft /\ stderr = "none"
  BY <1>1, InTheSearch DEF SInv, LInv
<1>3. rdi = count /\ rsi = Len(k) /\ Len(k) \in Nat
  BY <1>1, <1>2, KeyChar, LineChars
<1>4. /\ k \in Text /\ v \in Text /\ pair(entry) \in Seq(Nat)
      /\ Len(pair(entry)) = Len(k) + Len(v) + 2
      /\ \A i \in 1..Len(k) : pair(entry)[i] = k[i]
      /\ pair(entry)[Len(k) + 1] = NUL
      /\ \A i \in 1..Len(v) : pair(entry)[Len(k) + 1 + i] = v[i]
      /\ pair(entry)[Len(k) + Len(v) + 2] = NUL
  BY <1>2, PairBytes DEF Comparing
<1>5. stdout' = Append(v, LF)
  <2> HIDE DEF k, v
  <2>1. Len(v) \in Nat
    BY <1>4 DEF Text
  <2>2. string_from(pair(entry), 0) = k
    <3>1. /\ 0 + Len(k) + 1 <= Len(pair(entry))
          /\ \A i \in 1..Len(k) : pair(entry)[0 + i] = k[i]
          /\ pair(entry)[0 + Len(k) + 1] = NUL
      BY <1>3, <1>4, <2>1
    <3> QED
      BY <1>4, <3>1, StringAt
  <2>3. string_from(pair(entry), Len(k) + 1) = v
    <3>1. /\ Len(k) + 1 \in Nat
          /\ (Len(k) + 1) + Len(v) + 1 <= Len(pair(entry))
          /\ \A i \in 1..Len(v) : pair(entry)[(Len(k) + 1) + i] = v[i]
          /\ pair(entry)[(Len(k) + 1) + Len(v) + 1] = NUL
      <4>1. (Len(k) + 1) + Len(v) + 1 = Len(k) + Len(v) + 2
        BY <1>3, <2>1
      <4> QED
        BY <1>3, <1>4, <2>1, <4>1
    <3> QED
      BY <1>4, <3>1, StringAt
  <2> QED
    BY <1>1, <2>2, <2>3 DEF string_length
<1>6. IsSuffix(k, Line(given))
  <2>1. \A i \in 1..Len(k) : k[i] = Line(given)[Len(Line(given)) - Len(k) + i]
    BY <1>2, <1>3 DEF Comparing, Matching
  <2>2. Len(k) <= Len(Line(given))
    BY <1>2, <1>3 DEF Comparing, Matching
  <2>3. k \in Seq(Nat) /\ Line(given) \in Seq(Nat)
    BY <1>2, <1>4, LineIsText DEF RestLeft, Text
  <2> HIDE DEF k
  <2> QED
    BY <2>1, <2>2, <2>3, SuffixBy
<1>7. AnswerFromDictionary'
  <2>1. entry \in DOMAIN dict
    BY <1>2 DEF Comparing
  <2>2. \E i \in DOMAIN dict : stdout' = Append(dict[i].value, LF) /\ IsSuffix(dict[i].key, Line(given))
    BY <1>5, <1>6, <2>1
  <2> QED
    BY <1>1, <2>2 DEF AnswerFromDictionary
<1>8. KeyFound'
  <2>1. ASSUME NEW i \in DOMAIN dict, Target(i) PROVE entry = i
    BY <1>1, <1>2, <2>1, TargetAhead, BeforeTarget
  <2> QED
    BY <1>1, <1>5, <2>1 DEF KeyFound, Target, Shadowed, LineFits
<1>9. RestLeft'
  BY <1>1, <1>2 DEF RestLeft, Consumed
<1> QED
  BY <1>1, <1>2, <1>7, <1>8, <1>9 DEF LInv

LEMMA NotFoundKeepsLInv == ASSUME SInv, NotFound PROVE LInv'
<1>1. /\ pc = "equals" /\ pc' = "exited" /\ buf[rdi] # key_char
      /\ stderr' = "key not found"
      /\ UNCHANGED <<dict, given, stdin, stdout>>
  BY DEF NotFound, next, Fails, exit
<1>2. Comparing /\ RestLeft /\ stdout = <<>>
  BY <1>1, InTheSearch DEF SInv, LInv
<1>3. ASSUME NEW i \in DOMAIN dict, Target(i) PROVE FALSE
  <2>1. entry = i
    <3>1. i \in Nat /\ entry \in Nat /\ (entry = i \/ entry > i)
      BY <1>2, <1>3, TargetAhead
    <3>2. i \in 1..Len(dict) /\ Len(dict) \in Nat
      BY <1>2 DEF Comparing
    <3>3. entry - 1 = 0
      BY DEF NotFound, next
    <3> QED
      BY <3>1, <3>2, <3>3
  <2> QED
    BY <1>1, <1>2, <1>3, <2>1, AtTarget
<1>4. KeyFound' /\ AnswerFromDictionary'
  BY <1>1, <1>2, <1>3 DEF KeyFound, AnswerFromDictionary, Target, Shadowed, LineFits
<1>5. RestLeft'
  BY <1>1, <1>2 DEF RestLeft, Consumed
<1> QED
  BY <1>1, <1>4, <1>5 DEF LInv

LEMMA InitLInv == Init => LInv
<1> SUFFICES ASSUME Init PROVE LInv
  OBVIOUS
<1>1. given \in Seq(Nat) /\ stdin = given
  BY DictionaryAssumption DEF Init
<1>2. RestLeft /\ Consumed = 0
  BY <1>1 DEF RestLeft, Consumed
<1> QED
  BY <1>2 DEF Init, LInv, AnswerFromDictionary, KeyFound

LEMMA Always == Spec => []SInv
<1>1. Init => LInv
  BY InitLInv
<1>2. IInv /\ LInv /\ [Next]_vars => LInv'
  <2> SUFFICES ASSUME SInv, [Next]_vars PROVE LInv'
    BY DEF SInv
  <2>1. CASE Skip \/ LineChar \/ LineOverflows \/ LineEnds
    BY <2>1, SkipKeepsLInv, CharKeepsLInv, OverflowKeepsLInv, EndKeepsLInv
  <2>2. CASE EqualsNext \/ EqualsDiffers \/ Found \/ NotFound
    BY <2>2, NextKeepsLInv, DiffersKeepsLInv, FoundKeepsLInv, NotFoundKeepsLInv
  <2>3. CASE UNCHANGED vars
    <3>1. /\ RestLeft' = RestLeft /\ Consumed' = Consumed /\ LineHeld' = LineHeld
          /\ Matching' = Matching /\ LineFits' = LineFits
      BY <2>3 DEF vars, RestLeft, Consumed, LineHeld, Matching, LineFits
    <3>2. \A f : LineFrom(f)' = LineFrom(f)
      BY <2>3 DEF vars, LineFrom, Consumed
    <3>3. Aimed' = Aimed
      BY <2>3 DEF vars, Aimed, Target, Shadowed
    <3>4. AnswerFromDictionary' = AnswerFromDictionary /\ KeyFound' = KeyFound
      BY <2>3 DEF vars, AnswerFromDictionary, KeyFound, LineFits, Shadowed
    <3> QED
      BY <2>3, <3>1, <3>2, <3>3, <3>4 DEF vars, SInv, LInv
  <2> QED
    BY <2>1, <2>2, <2>3 DEF Next, Step, Stopped
<1>3. Spec => []LInv
  BY <1>1, <1>2, Invariance, PTL DEF Spec
<1> QED
  BY <1>3, Invariance, PTL DEF SInv

-----------------------------------------------------------------------------
(* What the program answers.                                               *)

\* The search compares the first line of stdin that is not blank, whole and
\* terminated; a line is refused only if it does not fit (lib.asm, read_line).
THEOREM LineHeldWhole == Spec => []LineRead
<1>1. SInv => LineRead
  <2> SUFFICES ASSUME SInv PROVE LineRead
    OBVIOUS
  <2>1. stderr = "buffer overflow" => ~LineFits
    BY DEF SInv, LInv
  <2>2. ASSUME pc = "equals"
        PROVE  /\ LineFits
               /\ \A i \in DOMAIN Line(given) : buf[i - 1] = Line(given)[i]
               /\ buf[Len(Line(given))] = NUL
    <3>1. Comparing /\ count < BufSize /\ Line(given) \in Seq(Nat)
      BY <2>2, InTheSearch, LineIsText DEF SInv, IInv, LInv, RestLeft
    <3>2. DOMAIN Line(given) = 1..count
      BY <3>1 DEF Comparing
    <3> QED
      BY <3>1, <3>2 DEF Comparing, LineFits
  <2> QED
    BY <2>1, <2>2 DEF LineRead
<1> QED
  BY <1>1, Always, PTL

\* What main prints is the value of a pair whose key ends the line.
THEOREM Answers == Spec => []AnswerFromDictionary
<1>1. SInv => AnswerFromDictionary
  BY DEF SInv, LInv
<1> QED
  BY <1>1, Always, PTL

\* find_word finds a key that shares its first character with no key before it.
THEOREM Finds == Spec => []KeyFound
<1>1. SInv => KeyFound
  BY DEF SInv, LInv
<1> QED
  BY <1>1, Always, PTL

-----------------------------------------------------------------------------
(* That the program comes to an end.                                       *)

\* A step of a loop uses up stdin, room in the buffer, or pairs and then what is
\* left of the line; and no loop comes back to one before it.
Advances ==
  /\ pc = "skip" => \/ pc' = "line"
                    \/ pc' = pc /\ Len(stdin') < Len(stdin)
  /\ pc = "line" => \/ pc' \in {"equals", "exited"}
                    \/ pc' = pc /\ count < count' /\ count' < BufSize
  /\ pc = "equals" =>
       \/ pc' = "exited"
       \/ pc' = pc /\ entry' < entry /\ entry' \in DOMAIN dict
       \/ pc' = pc /\ entry' = entry /\ rdi < rdi' /\ rdi' <= count
  /\ pc # "exited"

LEMMA StepAdvances == ASSUME IInv, IInv', Next PROVE [Advances]_vars
<1>1. CASE Skip
  <2>1. pc = "skip" /\ pc' = IF char' \in Blank THEN "skip" ELSE "line"
    BY <1>1 DEF Skip
  <2>2. CASE stdin = <<>>
    <3>1. char' = NUL /\ NUL \notin Blank
      BY <1>1, <2>2 DEF Skip, read_char, NUL, Blank, SPACE, TAB, LF
    <3> QED BY <2>1, <3>1 DEF Advances
  <2>3. CASE stdin # <<>>
    <3>1. stdin' = Tail(stdin) /\ stdin \in Seq(Nat)
      BY <1>1, <2>3 DEF Skip, read_char, IInv
    <3>2. Len(stdin') < Len(stdin)
      BY <2>3, <3>1
    <3> QED BY <2>1, <3>2 DEF Advances
  <2> QED BY <2>2, <2>3
<1>2. CASE LineChar
  <2>1. pc = "line" /\ pc' = pc /\ count' = count + 1 /\ count \in Nat /\ count' < BufSize
    BY <1>2 DEF LineChar, IInv, TypeOK
  <2> QED BY <2>1 DEF Advances
<1>3. CASE LineOverflows \/ LineEnds
  BY <1>3 DEF LineOverflows, LineEnds, Fails, exit, Advances
<1>4. CASE EqualsNext
  <2>1. pc = "equals" /\ pc' = pc /\ entry' = entry /\ rdi' = rdi + 1 /\ count' = count
    BY <1>4 DEF EqualsNext
  <2>2. rdi \in Nat /\ rdi' <= count
    BY <2>1 DEF IInv, TypeOK, CursorsInside
  <2> QED BY <2>1, <2>2 DEF Advances
<1>5. CASE EqualsDiffers
  <2>1. pc = "equals" /\ pc' = pc /\ entry' = entry - 1 /\ dict' = dict
    BY <1>5 DEF EqualsDiffers, next
  <2>2. entry \in Nat /\ entry' \in DOMAIN dict
    BY <2>1, Pairs DEF IInv, TypeOK, CursorsInside
  <2> QED BY <2>1, <2>2 DEF Advances
<1>6. CASE Found \/ NotFound
  BY <1>6 DEF Found, NotFound, Fails, exit, Advances
<1>7. CASE Stopped
  BY <1>7 DEF Stopped
<1> QED
  BY <1>1, <1>2, <1>3, <1>4, <1>5, <1>6, <1>7 DEF Next, Step

\* The program goes through read_line and find_word once, and no loop of them
\* runs without end, although rdi is not set back and stdin may be anything: that
\* it exits (Halts) needs no more than that it goes on.
THEOREM Progress == Spec => [][Advances]_vars
<1>1. IInv /\ IInv' /\ [Next]_vars => [Advances]_vars
  BY StepAdvances
<1> QED
  BY <1>1, Invariance, PTL DEF Spec
===============================================================================
