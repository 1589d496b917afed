------------------------------ MODULE IOLibProof ------------------------------
(***************************************************************************)
(* Proofs about IOLib, for every width of a register, every string, every  *)
(* size of a buffer and every stdin: the library's writes stay inside the  *)
(* client's buffer, string_copy and string_equals answer right, read_word  *)
(* finds the words of stdin, and numbers are printed and parsed.           *)
(***************************************************************************)
EXTENDS IOLib, SequenceTheorems, WellFoundedInduction, TLAPS

String == Seq(Nat \ {NUL})

\* The types, and which call each loop belongs to.
Shape ==
  /\ pc \in {"idle", "print", "parse", "length", "copy", "equals", "skip",
             "word", "returned", "exited"}
  /\ call.s \in String /\ call.t \in String
  /\ size \in Nat
  /\ buf \in [0..(size - 1) -> Nat]
  /\ stdin \in Seq(Nat)
  /\ rax \in Nat /\ rcx \in Nat /\ rdx \in Nat
  /\ negative \in BOOLEAN
  /\ pc = "idle" => call.f = "none"
  /\ pc = "print" => call.f \in {"print_uint", "print_int"}
  /\ pc = "parse" => call.f \in {"parse_uint", "parse_int"}

\* string_length and what begins with it: what has been counted, what has been
\* copied.
Copying ==
  /\ pc = "length" =>
       /\ call.f \in {"string_length", "print_string", "string_copy"}
       /\ rax <= Len(call.s)
       /\ call.f = "string_copy" => \A i \in DOMAIN buf : buf[i] = JUNK
  /\ pc = "copy" =>
       /\ call.f = "string_copy"
       /\ rax = Len(call.s) /\ Len(call.s) < size /\ rcx <= Len(call.s)
       /\ \A i \in 1..rcx : buf[i - 1] = call.s[i]

\* string_equals: the strings agree so far.
Comparing ==
  pc = "equals" =>
    /\ call.f = "string_equals" /\ rax = 0
    /\ rcx <= Len(call.s) /\ rcx <= Len(call.t)
    /\ \A i \in 1..rcx : call.s[i] = call.t[i]

\* read_word: there is room for the terminator.
Reading ==
  /\ pc \in {"skip", "word"} => call.f = "read_word" /\ rcx < size
  /\ HasReturned("read_word") => size > 0

IInv == Shape /\ Copying /\ Comparing /\ Reading /\ CopyVerdict /\ EqualsVerdict
-----------------------------------------------------------------------------
(* Lemmas.                                                                 *)

\* A string has its terminator behind its last character, and only there.
LEMMA ByteNUL ==
  ASSUME NEW s \in String, NEW i \in Nat, i <= Len(s)
  PROVE  /\ byte(s, i) \in Nat
         /\ byte(s, i) = NUL <=> i = Len(s)
         /\ i < Len(s) => byte(s, i) = s[i + 1]
<1>1. CASE i < Len(s)
  <2>1. i + 1 \in 1..Len(s)
    BY <1>1 DEF String
  <2>2. s[i + 1] \in Nat \ {NUL}
    BY <2>1 DEF String
  <2> QED BY <1>1, <2>2 DEF byte, String
<1>2. CASE i = Len(s)
  BY <1>2 DEF byte, NUL, String
<1> QED BY <1>1, <1>2 DEF String

\* Two strings of one length that agree everywhere are one.
LEMMA StringsEqual ==
  ASSUME NEW s \in String, NEW t \in String, Len(s) = Len(t),
         \A i \in 1..Len(s) : s[i] = t[i]
  PROVE  s = t
BY SeqEqual DEF String

\* A store inside the buffer keeps its bounds and changes one byte.
LEMMA StoredType ==
  ASSUME size \in Nat, buf \in [0..(size - 1) -> Nat],
         NEW i \in Nat, i < size, NEW c \in Nat
  PROVE  /\ stored(i, c) \in [0..(size - 1) -> Nat]
         /\ stored(i, c)[i] = c
         /\ \A j \in 0..(size - 1) : j # i => stored(i, c)[j] = buf[j]
<1>1. DOMAIN buf \cup {i} = 0..(size - 1)
  OBVIOUS
<1> QED BY <1>1 DEF stored

\* The empty string.
LEMMA EmptyString == <<>> \in String
BY DEF String

LEMMA InitInv == Init => IInv
<1> SUFFICES ASSUME Init PROVE IInv
  OBVIOUS
<1>1. buf \in [0..(size - 1) -> Nat] /\ size \in Nat
  BY DEF Init
<1>2. pc = "idle" /\ call.f = "none" /\ call.s \in String /\ call.t \in String
  BY EmptyString DEF Init
<1>3. Shape
  <2>1. stdin \in Seq(Nat) /\ rax \in Nat /\ rcx \in Nat /\ rdx \in Nat
    BY DEF Init
  <2>2. negative \in BOOLEAN
    BY DEF Init
  <2> QED BY <1>1, <1>2, <2>1, <2>2 DEF Shape
<1>4. Copying /\ Comparing /\ Reading /\ CopyVerdict /\ EqualsVerdict
  BY <1>2 DEF Copying, Comparing, Reading, CopyVerdict, EqualsVerdict, HasReturned
<1> QED BY <1>3, <1>4 DEF IInv
-----------------------------------------------------------------------------
(* The calls.                                                              *)

\* Nothing but types is claimed of the state.
Quiet == pc \notin {"length", "copy", "equals", "skip", "word"}
         /\ ~HasReturned("string_length") /\ ~HasReturned("string_copy")
         /\ ~HasReturned("string_equals") /\ ~HasReturned("read_word")

LEMMA QuietInv == Shape /\ Quiet => IInv
BY DEF Quiet, IInv, Copying, Comparing, Reading, CopyVerdict, EqualsVerdict

\* The functions without a loop.
LEMMA StraightCall ==
  ASSUME IInv, NEW c, NEW in \in Seq(Nat),
         print_char(c) \/ exit(c) \/ print_newline \/ reads_char(in)
  PROVE  IInv'
<1>1. /\ pc' \in {"returned", "exited"}
      /\ call'.f \in {"print_char", "exit", "print_newline", "read_char"}
      /\ call'.s = <<>> /\ call'.t = <<>>
  BY DEF print_char, exit, print_newline, reads_char, Calls
<1>2. /\ size' = size /\ buf' = buf /\ negative' = negative
      /\ rcx' = rcx /\ rdx' = rdx
  BY DEF print_char, exit, print_newline, reads_char, memory, registers
<1>3. rax' \in Nat /\ stdin' \in Seq(Nat)
  <2>1. CASE reads_char(in) /\ in = <<>>
    BY <2>1 DEF reads_char, byte, NUL
  <2>2. CASE reads_char(in) /\ in # <<>>
    <3>1. Len(in) \in Nat /\ 0 < Len(in) /\ in[1] \in Nat
      BY <2>2
    <3>2. Tail(in) \in Seq(Nat)
      BY <2>2, HeadTailProperties
    <3>3. byte(in, 0) = in[1]
      BY <3>1 DEF byte
    <3> QED BY <2>2, <3>1, <3>2, <3>3 DEF reads_char
  <2>3. CASE print_char(c) \/ exit(c) \/ print_newline
    BY <2>3 DEF print_char, exit, print_newline, registers, input, IInv, Shape
  <2> QED BY <2>1, <2>2, <2>3
<1>4. Shape'
  BY <1>1, <1>2, <1>3, EmptyString DEF IInv, Shape
<1>5. Quiet'
  BY <1>1 DEF Quiet, HasReturned
<1>6. (Shape /\ Quiet => IInv)'
  BY QuietInv, PTL
<1> QED BY <1>4, <1>5, <1>6

LEMMA LengthCalls ==
  ASSUME IInv, NEW s \in Texts, string_length(s) \/ print_string(s)
  PROVE  IInv'
<1>1. /\ pc' = "length" /\ call'.f \in {"string_length", "print_string"}
      /\ call'.s = s /\ call'.t = <<>>
  BY DEF string_length, print_string, Calls
<1>2. s \in String /\ call'.t \in String /\ Len(s) \in Nat
  BY <1>1, LibAssumption, EmptyString DEF String
<1>3. /\ size' = size /\ buf' = buf /\ stdin' = stdin /\ negative' = negative
      /\ rax' = 0 /\ rcx' = rcx /\ rdx' = rdx
  BY DEF string_length, print_string, memory, input
<1>4. Shape'
  BY <1>1, <1>2, <1>3 DEF IInv, Shape
<1>5. Copying'
  BY <1>1, <1>2, <1>3 DEF Copying
<1>6. Comparing' /\ Reading' /\ CopyVerdict' /\ EqualsVerdict'
  BY <1>1 DEF Comparing, Reading, CopyVerdict, EqualsVerdict, HasReturned
<1> QED BY <1>4, <1>5, <1>6 DEF IInv

LEMMA PrintCalls ==
  ASSUME IInv, NEW n \in 0..(Word - 1), print_uint(n) \/ print_int(n)
  PROVE  IInv'
<1>2. /\ pc' = "print" => call'.f \in {"print_uint", "print_int"}
      /\ pc' = "print"
  BY DEF print_uint, print_int, Calls
<1>3. call'.s \in String /\ call'.t \in String
  BY EmptyString DEF print_uint, print_int, Calls
<1>4. rax' \in Nat /\ rcx' = rcx /\ rdx' = rdx
  BY LibAssumption DEF IInv, Shape, print_uint, print_int, neg, is_negative
<1>5. /\ size' = size /\ buf' = buf /\ stdin' = stdin /\ negative' = negative
  BY DEF print_uint, print_int, memory, input
<1>6. Shape'
  BY <1>2, <1>3, <1>4, <1>5 DEF IInv, Shape
<1>7. Quiet'
  BY <1>2 DEF Quiet, HasReturned
<1>8. (Shape /\ Quiet => IInv)'
  BY QuietInv, PTL
<1> QED BY <1>6, <1>7, <1>8

LEMMA ParseCalls ==
  ASSUME IInv, NEW s \in Texts, parse_uint(s) \/ parse_int(s)
  PROVE  IInv'
<1>1. pc' = "parse" /\ call'.f \in {"parse_uint", "parse_int"}
  BY DEF parse_uint, parse_int, Calls
<1>2. call'.s \in String /\ call'.t \in String
  <2>1. call'.s = s /\ call'.t = <<>>
    BY DEF parse_uint, parse_int, Calls
  <2>2. s \in String
    BY LibAssumption DEF String
  <2> QED BY <2>1, <2>2, EmptyString
<1>3. rax' = 0 /\ rcx' = 0 /\ rdx' = rdx
  BY DEF parse_uint, parse_int
<1>4. negative' \in BOOLEAN
  BY DEF IInv, Shape, parse_uint, parse_int
<1>5. size' = size /\ buf' = buf /\ stdin' = stdin
  BY DEF parse_uint, parse_int, memory, input
<1>6. Shape'
  BY <1>1, <1>2, <1>3, <1>4, <1>5 DEF IInv, Shape
<1>7. Quiet'
  BY <1>1 DEF Quiet, HasReturned
<1>8. (Shape /\ Quiet => IInv)'
  BY QuietInv, PTL
<1> QED BY <1>6, <1>7, <1>8

\* A buffer of the client.
LEMMA BufferType ==
  ASSUME NEW sz \in Sizes \cup {0}, TakesBuffer(sz)
  PROVE  /\ size' = sz /\ size' \in Nat
         /\ buf' \in [0..(size' - 1) -> Nat]
         /\ \A i \in DOMAIN buf' : buf'[i] = JUNK
BY LibAssumption DEF TakesBuffer, JUNK

LEMMA CopyCall ==
  ASSUME IInv, NEW s \in Texts, NEW sz \in Sizes \cup {0}, string_copy(s, sz)
  PROVE  IInv'
<1>1. pc' = "length" /\ call'.f = "string_copy" /\ call'.s = s /\ call'.t = <<>>
  BY DEF string_copy, Calls
<1>2. s \in String /\ call'.t \in String /\ Len(s) \in Nat
  BY <1>1, LibAssumption, EmptyString DEF String
<1>3. /\ size' \in Nat /\ buf' \in [0..(size' - 1) -> Nat]
      /\ \A i \in DOMAIN buf' : buf'[i] = JUNK
  BY BufferType DEF string_copy
<1>4. rax' = 0 /\ rcx' = rcx /\ rdx' = rdx /\ stdin' = stdin /\ negative' = negative
  BY DEF string_copy, input
<1>5. Shape'
  BY <1>1, <1>2, <1>3, <1>4 DEF IInv, Shape
<1>6. Copying'
  <2>1. rax' <= Len(call'.s)
    BY <1>1, <1>2, <1>4
  <2>2. pc' # "copy"
    BY <1>1
  <2> QED BY <1>1, <1>3, <2>1, <2>2 DEF Copying
<1>7. Comparing' /\ Reading' /\ CopyVerdict' /\ EqualsVerdict'
  BY <1>1 DEF Comparing, Reading, CopyVerdict, EqualsVerdict, HasReturned
<1> QED BY <1>5, <1>6, <1>7 DEF IInv

LEMMA EqualsCall ==
  ASSUME IInv, NEW p \in Pairs, string_equals(p[1], p[2])
  PROVE  IInv'
<1>1. /\ pc' = "equals" /\ call'.f = "string_equals"
      /\ call'.s = p[1] /\ call'.t = p[2]
  BY DEF string_equals, Calls
<1>2. call'.s \in String /\ call'.t \in String
  BY <1>1, LibAssumption DEF String
<1>3. /\ rax' = 0 /\ rcx' = 0 /\ rdx' = rdx /\ stdin' = stdin /\ negative' = negative
      /\ size' = size /\ buf' = buf
  BY DEF string_equals, input, memory
<1>4. Shape'
  BY <1>1, <1>2, <1>3 DEF IInv, Shape
<1>5. Comparing'
  BY <1>1, <1>2, <1>3 DEF Comparing, String
<1>6. Copying' /\ Reading' /\ CopyVerdict' /\ EqualsVerdict'
  BY <1>1 DEF Copying, Reading, CopyVerdict, EqualsVerdict, HasReturned
<1> QED BY <1>4, <1>5, <1>6 DEF IInv

LEMMA ReadCall ==
  ASSUME IInv, NEW in \in Inputs, NEW sz \in Sizes, read_word(in, sz)
  PROVE  IInv'
<1>1. /\ pc' = "skip" /\ call'.f = "read_word" /\ call'.s = <<>> /\ call'.t = <<>>
  BY DEF read_word, Calls
<1>2. size' \in Nat /\ size' > 0 /\ buf' \in [0..(size' - 1) -> Nat]
  BY BufferType, LibAssumption DEF read_word
<1>3. /\ stdin' \in Seq(Nat)
      /\ rcx' = 0 /\ rax' = rax /\ rdx' = rdx /\ negative' = negative
  BY LibAssumption DEF read_word
<1>4. Shape'
  BY <1>1, <1>2, <1>3, EmptyString DEF IInv, Shape
<1>5. Reading'
  BY <1>1, <1>2, <1>3 DEF Reading, HasReturned
<1>6. Copying' /\ Comparing' /\ CopyVerdict' /\ EqualsVerdict'
  BY <1>1 DEF Copying, Comparing, CopyVerdict, EqualsVerdict, HasReturned
<1> QED BY <1>4, <1>5, <1>6 DEF IInv

LEMMA NextWordCall ==
  ASSUME IInv, read_next_word
  PROVE  IInv'
<1>1. /\ pc' = "skip" /\ call' = call /\ call.f = "read_word"
      /\ size' = size /\ buf' = buf /\ stdin' = stdin
      /\ rcx' = 0 /\ rax' = rax /\ rdx' = rdx /\ negative' = negative
  BY DEF read_next_word, memory
<1>2. size > 0
  BY DEF read_next_word, IInv, Reading, HasReturned
<1>3. Shape'
  BY <1>1 DEF IInv, Shape
<1>4. Reading'
  BY <1>1, <1>2 DEF Reading, HasReturned
<1>5. Copying' /\ Comparing' /\ CopyVerdict' /\ EqualsVerdict'
  BY <1>1 DEF Copying, Comparing, CopyVerdict, EqualsVerdict, HasReturned
<1> QED BY <1>3, <1>4, <1>5 DEF IInv
-----------------------------------------------------------------------------
(* The loops.                                                              *)

LEMMA PrintDigitInv ==
  ASSUME IInv, PrintDigit
  PROVE  IInv'
<1>1. /\ pc' \in {"print", "returned"} /\ call' = call
      /\ call.f \in {"print_uint", "print_int"}
  BY DEF PrintDigit, IInv, Shape
<1>2. rax' \in Nat
  BY DEF PrintDigit, IInv, Shape
<1>3. /\ size' = size /\ buf' = buf /\ stdin' = stdin
      /\ rcx' = rcx /\ rdx' = rdx /\ negative' = negative
  BY DEF PrintDigit, memory, input
<1>4. Shape'
  BY <1>1, <1>2, <1>3 DEF IInv, Shape
<1>5. Quiet'
  BY <1>1 DEF Quiet, HasReturned
<1>6. (Shape /\ Quiet => IInv)'
  BY QuietInv, PTL
<1> QED BY <1>4, <1>5, <1>6

LEMMA ParseInv ==
  ASSUME IInv, ParseDigit \/ ParseEnd
  PROVE  IInv'
<1>1. /\ pc' \in {"parse", "returned"} /\ call' = call
      /\ call.f \in {"parse_uint", "parse_int"}
  BY DEF ParseDigit, ParseEnd, IInv, Shape
<1>2. rax' \in Nat /\ rcx' \in Nat /\ rdx' \in Nat
  <2>1. CASE ParseDigit
    <3>1. parsed \in Nat /\ parsed - ZERO \in Nat
      BY <2>1 DEF ParseDigit, Digits, ZERO
    <3>2. rax' = accumulate(rax, parsed) /\ rcx' = rcx + 1 /\ rdx' = rdx
      BY <2>1 DEF ParseDigit
    <3>3. (rax * 10) % Word \in Nat
      BY LibAssumption DEF IInv, Shape
    <3>4. accumulate(rax, parsed) \in Nat
      BY <3>1, <3>3, LibAssumption DEF accumulate
    <3> QED BY <3>2, <3>4 DEF IInv, Shape
  <2>2. CASE ParseEnd
    BY <2>2, LibAssumption DEF ParseEnd, neg, IInv, Shape
  <2> QED BY <2>1, <2>2
<1>3. size' = size /\ buf' = buf /\ stdin' = stdin /\ negative' = negative
  BY DEF ParseDigit, ParseEnd, memory, input
<1>4. Shape'
  BY <1>1, <1>2, <1>3 DEF IInv, Shape
<1>5. Quiet'
  BY <1>1 DEF Quiet, HasReturned
<1>6. (Shape /\ Quiet => IInv)'
  BY QuietInv, PTL
<1> QED BY <1>4, <1>5, <1>6

LEMMA LengthInv ==
  ASSUME IInv, LengthNext \/ LengthReturns \/ LengthPrinted \/ LengthEnd
  PROVE  IInv'
<1>1. /\ pc = "length" /\ rax <= Len(call.s)
      /\ call.f \in {"string_length", "print_string", "string_copy"}
      /\ call.f = "string_copy" => \A i \in DOMAIN buf : buf[i] = JUNK
      /\ rax \in Nat /\ call.s \in String /\ size \in Nat
  BY DEF LengthNext, LengthReturns, LengthPrinted, LengthEnd, IInv, Shape, Copying
<1>2. byte(call.s, rax) = NUL <=> rax = Len(call.s)
  BY <1>1, ByteNUL
<1>3. Len(call.s) \in Nat
  BY <1>1 DEF String
<1>4. /\ call' = call /\ size' = size /\ buf' = buf /\ stdin' = stdin
      /\ negative' = negative
  BY DEF LengthNext, LengthReturns, LengthPrinted, LengthEnd, memory, input, registers
<1>5. CASE LengthNext
  <2>1. pc' = "length" /\ rax' = rax + 1 /\ rax < Len(call.s) /\ rcx' = rcx /\ rdx' = rdx
    BY <1>1, <1>2, <1>3, <1>5 DEF LengthNext
  <2>2. Shape'
    BY <1>1, <1>4, <2>1 DEF IInv, Shape
  <2>3. Copying'
    BY <1>1, <1>3, <1>4, <2>1 DEF Copying
  <2>4. Comparing' /\ Reading' /\ CopyVerdict' /\ EqualsVerdict'
    BY <2>1 DEF Comparing, Reading, CopyVerdict, EqualsVerdict, HasReturned
  <2> QED BY <2>2, <2>3, <2>4 DEF IInv
<1>6. CASE LengthReturns \/ LengthPrinted
  <2>1. /\ pc' = "returned" /\ rax' = rax /\ rcx' = rcx /\ rax = Len(call.s)
        /\ call.f \in {"string_length", "print_string"}
    BY <1>2, <1>6 DEF LengthReturns, LengthPrinted, registers
  <2>2. rdx' \in Nat
    BY <1>1, <1>6 DEF LengthReturns, LengthPrinted, registers, IInv, Shape
  <2>3. Shape'
    BY <1>1, <1>4, <2>1, <2>2 DEF IInv, Shape
  <2>4. CopyVerdict'
    BY <1>4, <2>1 DEF CopyVerdict, HasReturned
  <2>5. Copying' /\ Comparing' /\ Reading' /\ EqualsVerdict'
    BY <1>4, <2>1 DEF Copying, Comparing, Reading, EqualsVerdict, HasReturned
  <2> QED BY <2>3, <2>4, <2>5 DEF IInv
<1>7. CASE LengthEnd /\ too_long(rax)
  <2>1. /\ pc' = "returned" /\ rax' = 0 /\ rcx' = rcx /\ rdx' = rdx
        /\ rax = Len(call.s) /\ ~ (Len(call.s) < size) /\ call.f = "string_copy"
    BY <1>1, <1>2, <1>3, <1>7 DEF LengthEnd, too_long
  <2>2. Shape'
    BY <1>1, <1>4, <2>1 DEF IInv, Shape
  <2>3. CopyVerdict'
    BY <1>1, <1>4, <2>1 DEF CopyVerdict, HasReturned
  <2>4. Copying' /\ Comparing' /\ Reading' /\ EqualsVerdict'
    BY <1>4, <2>1 DEF Copying, Comparing, Reading, EqualsVerdict, HasReturned
  <2> QED BY <2>2, <2>3, <2>4 DEF IInv
<1>8. CASE LengthEnd /\ ~too_long(rax)
  <2>1. /\ pc' = "copy" /\ rcx' = 0 /\ rax' = rax /\ rdx' = rdx
        /\ rax = Len(call.s) /\ Len(call.s) < size /\ call.f = "string_copy"
    BY <1>1, <1>2, <1>3, <1>8 DEF LengthEnd, too_long
  <2>2. Shape'
    BY <1>1, <1>4, <2>1 DEF IInv, Shape
  <2>3. Copying'
    BY <1>1, <1>3, <1>4, <2>1 DEF Copying
  <2>4. Comparing' /\ Reading' /\ CopyVerdict' /\ EqualsVerdict'
    BY <2>1 DEF Comparing, Reading, CopyVerdict, EqualsVerdict, HasReturned
  <2> QED BY <2>2, <2>3, <2>4 DEF IInv
<1> QED BY <1>5, <1>6, <1>7, <1>8

LEMMA CopyByteInv ==
  ASSUME IInv, CopyByte
  PROVE  IInv'
<1>1. /\ pc = "copy" /\ call.f = "string_copy"
      /\ rax = Len(call.s) /\ Len(call.s) < size /\ rcx <= Len(call.s)
      /\ \A i \in 1..rcx : buf[i - 1] = call.s[i]
      /\ rcx \in Nat /\ call.s \in String /\ size \in Nat
      /\ buf \in [0..(size - 1) -> Nat]
  BY DEF CopyByte, IInv, Shape, Copying
<1>2. Len(call.s) \in Nat
  BY <1>1 DEF String
<1>3. /\ byte(call.s, rcx) \in Nat
      /\ byte(call.s, rcx) = NUL <=> rcx = Len(call.s)
      /\ rcx < Len(call.s) => byte(call.s, rcx) = call.s[rcx + 1]
  BY <1>1, ByteNUL
<1>4. /\ call' = call /\ size' = size /\ stdin' = stdin
      /\ rax' = rax /\ rdx' = rdx /\ negative' = negative
      /\ buf' = stored(rcx, byte(call.s, rcx))
  BY DEF CopyByte, input
<1>5. /\ buf' \in [0..(size - 1) -> Nat]
      /\ buf'[rcx] = byte(call.s, rcx)
      /\ \A j \in 0..(size - 1) : j # rcx => buf'[j] = buf[j]
  <2>1. rcx < size
    BY <1>1, <1>2
  <2>2. /\ size \in Nat /\ rcx \in Nat /\ buf \in [0..(size - 1) -> Nat]
        /\ byte(call.s, rcx) \in Nat
    BY <1>1, <1>3
  <2> DEFINE b == byte(call.s, rcx)
  <2>3. buf' = stored(rcx, b) /\ b \in Nat
    BY <1>4, <2>2
  <2> HIDE DEF b
  <2>4. /\ stored(rcx, b) \in [0..(size - 1) -> Nat]
        /\ stored(rcx, b)[rcx] = b
        /\ \A j \in 0..(size - 1) : j # rcx => stored(rcx, b)[j] = buf[j]
    BY <2>1, <2>2, <2>3, StoredType
  <2> QED BY <2>3, <2>4 DEF b
<1>6. \A i \in 1..rcx : buf'[i - 1] = call.s[i]
  <2>1. ASSUME NEW i \in 1..rcx PROVE buf'[i - 1] = buf[i - 1]
    <3>1. i - 1 \in 0..(size - 1) /\ i - 1 # rcx
      BY <1>1, <1>2
    <3> QED BY <1>5, <3>1
  <2> QED BY <1>1, <2>1
<1>7. CASE byte(call.s, rcx) = NUL
  <2>1. pc' = "returned" /\ rcx' = rcx /\ rcx = Len(call.s)
    BY <1>3, <1>7 DEF CopyByte
  <2>2. Shape'
    BY <1>1, <1>4, <1>5, <2>1 DEF IInv, Shape
  <2>3. Holds(call.s)'
    <3>1. DOMAIN call.s = 1..Len(call.s)
      BY <1>1 DEF String
    <3> QED BY <1>4, <1>5, <1>6, <1>7, <2>1, <3>1 DEF Holds
  <2>4. CopyVerdict'
    BY <1>1, <1>4, <2>3 DEF CopyVerdict
  <2>5. Copying' /\ Comparing' /\ Reading' /\ EqualsVerdict'
    BY <1>1, <1>4, <2>1 DEF Copying, Comparing, Reading, EqualsVerdict, HasReturned
  <2> QED BY <2>2, <2>4, <2>5 DEF IInv
<1>8. CASE byte(call.s, rcx) # NUL
  <2>1. pc' = "copy" /\ rcx' = rcx + 1 /\ rcx < Len(call.s)
    BY <1>1, <1>2, <1>3, <1>8 DEF CopyByte
  <2>2. Shape'
    BY <1>1, <1>4, <1>5, <2>1, SMTT(30) DEF IInv, Shape
  <2>3. \A i \in 1..(rcx + 1) : buf'[i - 1] = call.s[i]
    <3>1. buf'[(rcx + 1) - 1] = call.s[rcx + 1]
      BY <1>1, <1>3, <1>5, <2>1
    <3>2. \A i \in 1..(rcx + 1) : i \in 1..rcx \/ i = rcx + 1
      BY <1>1
    <3> QED BY <1>6, <3>1, <3>2
  <2>4. Copying'
    <3>1. rcx + 1 <= Len(call.s)
      BY <1>1, <1>2, <2>1
    <3> QED BY <1>1, <1>4, <2>1, <2>3, <3>1 DEF Copying
  <2>5. Comparing' /\ Reading' /\ CopyVerdict' /\ EqualsVerdict'
    BY <2>1 DEF Comparing, Reading, CopyVerdict, EqualsVerdict, HasReturned
  <2> QED BY <2>2, <2>4, <2>5 DEF IInv
<1> QED BY <1>7, <1>8

LEMMA EqualsByteInv ==
  ASSUME IInv, EqualsByte
  PROVE  IInv'
<1>1. /\ pc = "equals" /\ call.f = "string_equals" /\ rax = 0
      /\ rcx <= Len(call.s) /\ rcx <= Len(call.t)
      /\ \A i \in 1..rcx : call.s[i] = call.t[i]
      /\ rcx \in Nat /\ call.s \in String /\ call.t \in String
  BY DEF EqualsByte, IInv, Shape, Comparing
<1>2. Len(call.s) \in Nat /\ Len(call.t) \in Nat
  BY <1>1 DEF String
<1>3. /\ byte(call.s, rcx) = NUL <=> rcx = Len(call.s)
      /\ rcx < Len(call.s) => byte(call.s, rcx) = call.s[rcx + 1]
  BY <1>1, ByteNUL
<1>4. /\ byte(call.t, rcx) = NUL <=> rcx = Len(call.t)
      /\ rcx < Len(call.t) => byte(call.t, rcx) = call.t[rcx + 1]
  BY <1>1, ByteNUL
<1>5. /\ call' = call /\ size' = size /\ buf' = buf /\ stdin' = stdin
      /\ rdx' = rdx /\ negative' = negative
  BY DEF EqualsByte, memory, input
<1>6. ASSUME pc' = "returned", rcx' = rcx,
             rax' = IF call.s = call.t THEN 1 ELSE 0
      PROVE  IInv'
  <2>1. Shape'
    BY <1>1, <1>5, <1>6 DEF IInv, Shape
  <2>2. EqualsVerdict'
    BY <1>5, <1>6 DEF EqualsVerdict
  <2>3. Copying' /\ Comparing' /\ Reading' /\ CopyVerdict'
    BY <1>1, <1>5, <1>6 DEF Copying, Comparing, Reading, CopyVerdict, HasReturned
  <2> QED BY <2>1, <2>2, <2>3 DEF IInv
<1>7. CASE byte(call.s, rcx) # byte(call.t, rcx)
  <2>1. pc' = "returned" /\ rcx' = rcx /\ rax' = 0
    BY <1>1, <1>7 DEF EqualsByte
  <2>2. call.s # call.t
    BY <1>7
  <2> QED BY <1>6, <2>1, <2>2
<1>8. CASE byte(call.s, rcx) = byte(call.t, rcx) /\ byte(call.s, rcx) = NUL
  <2>1. pc' = "returned" /\ rcx' = rcx /\ rax' = 1
    BY <1>8 DEF EqualsByte, both_end
  <2>2. rcx = Len(call.s) /\ rcx = Len(call.t)
    BY <1>3, <1>4, <1>8
  <2>3. call.s = call.t
    BY <1>1, <2>2, StringsEqual
  <2> QED BY <1>6, <2>1, <2>3
<1>9. CASE byte(call.s, rcx) = byte(call.t, rcx) /\ byte(call.s, rcx) # NUL
  <2>1. pc' = "equals" /\ rcx' = rcx + 1 /\ rax' = 0
    BY <1>1, <1>9 DEF EqualsByte, both_end
  <2>2. rcx < Len(call.s) /\ rcx < Len(call.t)
    BY <1>1, <1>2, <1>3, <1>4, <1>9
  <2>3. Shape'
    BY <1>1, <1>5, <2>1 DEF IInv, Shape
  <2>4. \A i \in 1..(rcx + 1) : call.s[i] = call.t[i]
    <3>1. call.s[rcx + 1] = call.t[rcx + 1]
      BY <1>3, <1>4, <1>9, <2>2
    <3>2. \A i \in 1..(rcx + 1) : i \in 1..rcx \/ i = rcx + 1
      BY <1>1
    <3> QED BY <1>1, <3>1, <3>2
  <2>5. Comparing'
    <3>1. rcx + 1 <= Len(call.s) /\ rcx + 1 <= Len(call.t)
      BY <1>1, <1>2, <2>2
    <3> QED BY <1>1, <1>5, <2>1, <2>4, <3>1 DEF Comparing
  <2>6. Copying' /\ Reading' /\ CopyVerdict' /\ EqualsVerdict'
    BY <2>1 DEF Copying, Reading, CopyVerdict, EqualsVerdict, HasReturned
  <2> QED BY <2>3, <2>5, <2>6 DEF IInv
<1> QED BY <1>7, <1>8, <1>9

\* A character of stdin, or 0.
LEMMA ReadCharType ==
  ASSUME stdin \in Seq(Nat), read_char
  PROVE  rax' \in Nat /\ stdin' \in Seq(Nat)
<1>1. CASE stdin = <<>>
  BY <1>1 DEF read_char, NUL
<1>2. CASE stdin # <<>>
  <2>1. Head(stdin) \in Nat /\ Tail(stdin) \in Seq(Nat)
    BY <1>2, HeadTailProperties
  <2> QED BY <1>2, <2>1 DEF read_char
<1> QED BY <1>1, <1>2

LEMMA ReadInv ==
  ASSUME IInv, Skip \/ WordChar \/ WordOverflows \/ WordDone
  PROVE  IInv'
<1>1. /\ pc \in {"skip", "word"} /\ call.f = "read_word" /\ rcx < size
      /\ rcx \in Nat /\ rax \in Nat /\ rdx \in Nat /\ size \in Nat
      /\ buf \in [0..(size - 1) -> Nat] /\ stdin \in Seq(Nat)
  BY DEF Skip, WordChar, WordOverflows, WordDone, IInv, Shape, Reading
<1>2. call' = call /\ size' = size /\ negative' = negative
  BY DEF Skip, WordChar, WordOverflows, WordDone, memory
<1>3. \A c \in Nat : stored(rcx, c) \in [0..(size - 1) -> Nat]
  BY <1>1, StoredType
<1>4. ASSUME /\ pc' \in {"skip", "word", "returned"}
             /\ pc' # "returned" => rcx' < size
             /\ rcx' \in Nat /\ rax' \in Nat /\ rdx' \in Nat
             /\ buf' \in [0..(size - 1) -> Nat] /\ stdin' \in Seq(Nat)
      PROVE  IInv'
  <2>1. Shape'
    BY <1>1, <1>2, <1>4 DEF IInv, Shape
  <2>2. Reading'
    BY <1>1, <1>2, <1>4 DEF Reading, HasReturned
  <2>3. Copying' /\ Comparing' /\ CopyVerdict' /\ EqualsVerdict'
    BY <1>1, <1>2, <1>4 DEF Copying, Comparing, CopyVerdict, EqualsVerdict, HasReturned
  <2> QED BY <2>1, <2>2, <2>3 DEF IInv
<1>5. CASE Skip
  <2>1. pc' \in {"skip", "word"} /\ rcx' = rcx /\ rdx' = rdx /\ buf' = buf
    BY <1>5 DEF Skip, memory
  <2>2. rax' \in Nat /\ stdin' \in Seq(Nat)
    BY <1>1, <1>5, ReadCharType DEF Skip
  <2> QED BY <1>1, <1>4, <2>1, <2>2
<1>6. CASE WordChar
  <2>1. pc' = "word" /\ rcx' = rcx + 1 /\ rdx' = rdx /\ buf' = stored(rcx, rax)
    BY <1>6 DEF WordChar
  <2>2. rax' \in Nat /\ stdin' \in Seq(Nat)
    BY <1>1, <1>6, ReadCharType DEF WordChar
  <2>3. rcx + 1 < size
    BY <1>1, <1>6 DEF WordChar, word_full
  <2>4. buf' \in [0..(size - 1) -> Nat]
    BY <1>1, <1>3, <2>1
  <2>5. rcx' \in Nat /\ rcx' < size
    BY <1>1, <2>1, <2>3
  <2> QED BY <1>1, <1>4, <2>1, <2>2, <2>4, <2>5
<1>7. CASE WordOverflows
  <2>1. /\ pc' = "returned" /\ rax' = 0 /\ rcx' = rcx + 1 /\ rdx' = rdx
        /\ buf' = buf /\ stdin' = stdin
    BY <1>7 DEF WordOverflows, memory, input
  <2> QED BY <1>1, <1>4, <2>1
<1>8. CASE WordDone
  <2>1. /\ pc' = "returned" /\ rax' = BUF /\ rcx' = rcx /\ rdx' = rcx
        /\ buf' = stored(rcx, NUL) /\ stdin' = stdin
    BY <1>8 DEF WordDone, input
  <2>2. buf' \in [0..(size - 1) -> Nat] /\ rax' \in Nat
    BY <1>3, <2>1 DEF NUL, BUF
  <2> QED BY <1>1, <1>4, <2>1, <2>2
<1> QED BY <1>5, <1>6, <1>7, <1>8
-----------------------------------------------------------------------------
(* Steps and theorems.                                                     *)

LEMMA NextInv ==
  ASSUME IInv, Next
  PROVE  IInv'
<1>1. CASE Call
  <2>1. CASE \E n \in 0..(Word - 1) : print_uint(n) \/ print_int(n)
    BY <2>1, PrintCalls
  <2>2. CASE print_newline \/ \E c \in Characters : print_char(c) \/ exit(c)
    <3>1. <<>> \in Seq(Nat)
      OBVIOUS
    <3> QED BY <2>2, <3>1, StraightCall
  <2>3. CASE \E s \in Texts : parse_uint(s) \/ parse_int(s)
    BY <2>3, ParseCalls
  <2>4. CASE \E s \in Texts, sz \in Sizes \cup {0} : string_copy(s, sz)
    BY <2>4, CopyCall
  <2>5. CASE \E p \in Pairs : string_equals(p[1], p[2])
    BY <2>5, EqualsCall
  <2>6. CASE \E in \in Inputs, sz \in Sizes : read_word(in, sz)
    BY <2>6, ReadCall
  <2>7. CASE read_next_word
    BY <2>7, NextWordCall
  <2>8. CASE \E s \in Texts : string_length(s) \/ print_string(s)
    BY <2>8, LengthCalls
  <2>9. CASE \E in \in Inputs : reads_char(in)
    <3>1. Inputs \subseteq Seq(Nat)
      BY LibAssumption
    <3> QED BY <2>9, <3>1, StraightCall
  <2> QED BY <1>1, <2>1, <2>2, <2>3, <2>4, <2>5, <2>6, <2>7, <2>8, <2>9 DEF Call
<1>2. CASE Step
  BY <1>2, PrintDigitInv, ParseInv, LengthInv, CopyByteInv, EqualsByteInv, ReadInv DEF Step
<1>3. CASE UNCHANGED vars
  BY <1>3 DEF vars, memory, input, output, registers, IInv, Shape, Copying, Comparing,
              Reading, CopyVerdict, EqualsVerdict, HasReturned, Holds
<1> QED BY <1>1, <1>2, <1>3 DEF Next, Returned

LEMMA StutterInv == IInv /\ UNCHANGED vars => IInv'
BY DEF vars, memory, input, output, registers, IInv, Shape, Copying, Comparing,
       Reading, CopyVerdict, EqualsVerdict, HasReturned, Holds

\* The inductive invariant: what each loop has done so far.
THEOREM Invariant == Spec => []IInv
<1>1. IInv /\ [Next]_vars => IInv'
  BY NextInv, StutterInv
<1> QED BY InitInv, <1>1, PTL DEF Spec

\* For every string, every stdin and every size of the client's buffer, no
\* loop of string_copy or read_word writes behind the buffer.
THEOREM Typed == Spec => []TypeOK
<1>1. IInv => TypeOK
  BY DEF IInv, Shape, TypeOK
<1> QED BY Invariant, <1>1, PTL

\* For every string and buffer, string_length counts it and string_copy copies the string and its
\* terminator, or touches nothing and returns 0: exactly when both do not fit.
THEOREM CopyRight == Spec => []CopyVerdict
<1>1. IInv => CopyVerdict
  BY DEF IInv
<1> QED BY Invariant, <1>1, PTL

\* For every pair of strings, string_equals returns 1 if they are equal, else 0.
THEOREM EqualsRight == Spec => []EqualsVerdict
<1>1. IInv => EqualsVerdict
  BY DEF IInv
<1> QED BY Invariant, <1>1, PTL

-----------------------------------------------------------------------------
(* read_word.                                                              *)

\* How much of what stdin held when read_word was called has been read.
Consumed == Len(before) - Len(stdin)

\* What is left of stdin is the end of it.
RestLeft ==
  /\ before \in Seq(Nat)
  /\ stdin \in Seq(Nat) /\ Len(stdin) <= Len(before)
  /\ \A j \in 1..Len(stdin) : stdin[j] = before[Consumed + j]

\* s begins with a blanks, and no more.
BlankTo(s, a) ==
  /\ a \in 0..Len(s)
  /\ \A i \in 1..a : s[i] \in Blank
  /\ a < Len(s) => s[a + 1] \notin Blank

\* The word behind the first a characters of s goes on to character b at least.
WordTo(s, a, b) ==
  /\ b \in a..Len(s)
  /\ \A i \in (a + 1)..b : s[i] \notin WordEnds

\* It ends there.
WordEndsAt(s, a, b) ==
  /\ WordTo(s, a, b)
  /\ b < Len(s) => s[b + 1] \in WordEnds

\* The character in rax is the one behind the first n, 0 if there is none.
LastRead(n) ==
  \/ n < Len(before) /\ Consumed = n + 1 /\ rax = before[n + 1]
  \/ n = Len(before) /\ Consumed = n /\ rax = NUL

\* Behind the first a characters, rcx have been stored.
StoredFrom(a) ==
  /\ BlankTo(before, a)
  /\ WordTo(before, a, a + rcx)
  /\ LastRead(a + rcx)
  /\ \A i \in 1..rcx : buf[i - 1] = before[a + i]

\* What read_word has skipped and what it has stored.
WInv ==
  /\ before \in Seq(Nat)
  /\ pc \in {"skip", "word"} => RestLeft
  /\ pc = "skip" => rcx = 0 /\ \A j \in 1..Consumed : before[j] \in Blank
  /\ pc = "word" => \E a \in 0..Len(before) : StoredFrom(a)
  /\ WordRead

\* A set of numbers has a least one.
LEMMA Least ==
  ASSUME NEW T \in SUBSET Nat, T # {}
  PROVE  \E m \in T : \A n \in T : m <= n
<1> DEFINE R == OpToRel(<, Nat)
<1>1. IsWellFoundedOn(R, Nat)
  BY NatLessThanWellFounded
<1>2. ASSUME NEW n \in Nat, NEW m \in Nat, n < m PROVE <<n, m>> \in R
  BY <1>2 DEF R, OpToRel
<1> HIDE DEF R
<1>3. PICK m \in T : \A n \in T : <<n, m>> \notin R
  BY <1>1, WFMin
<1>4. m \in Nat
  OBVIOUS
<1>5. ASSUME NEW n \in T PROVE m <= n
  <2>1. n \in Nat /\ ~(n < m)
    BY <1>2, <1>3, <1>4
  <2> QED BY <1>4, <2>1
<1> QED BY <1>5

\* The blanks s begins with are as many as are found.
LEMMA BlanksAre ==
  ASSUME NEW s \in Seq(Nat), NEW a, BlankTo(s, a)
  PROVE  BlanksOf(s) = a
<1> DEFINE P(n) == /\ \A i \in 1..n : s[i] \in Blank
                   /\ n < Len(s) => s[n + 1] \notin Blank
<1>1. a \in 0..Len(s) /\ P(a) /\ Len(s) \in Nat
  BY DEF BlankTo
<1>2. ASSUME NEW n \in 0..Len(s), P(n) PROVE n = a
  <2>1. ~(n < a)
    <3> SUFFICES ASSUME n < a PROVE FALSE
      OBVIOUS
    <3>1. n + 1 \in 1..a /\ n < Len(s)
      BY <1>1
    <3> QED BY <1>1, <1>2, <3>1
  <2>2. ~(a < n)
    <3> SUFFICES ASSUME a < n PROVE FALSE
      OBVIOUS
    <3>1. a + 1 \in 1..n /\ a < Len(s)
      BY <1>1
    <3> QED BY <1>1, <1>2, <3>1
  <2> QED BY <1>1, <2>1, <2>2
<1>3. BlanksOf(s) = CHOOSE n \in 0..Len(s) : P(n)
  BY DEF BlanksOf
<1> HIDE DEF P
<1> QED BY <1>1, <1>2, <1>3

\* The word of s is what is found between its blanks and its end.
LEMMA WordIs ==
  ASSUME NEW s \in Seq(Nat), NEW a, NEW b, BlankTo(s, a), WordEndsAt(s, a, b)
  PROVE  BlanksOf(s) = a /\ WordOf(s) = SubSeq(s, a + 1, b)
<1> DEFINE P(n) == /\ \A i \in (a + 1)..n : s[i] \notin WordEnds
                   /\ n < Len(s) => s[n + 1] \in WordEnds
<1>1. a \in 0..Len(s) /\ b \in a..Len(s) /\ P(b) /\ Len(s) \in Nat
  BY DEF BlankTo, WordEndsAt, WordTo
<1>2. ASSUME NEW n \in a..Len(s), P(n) PROVE n = b
  <2>1. ~(n < b)
    <3> SUFFICES ASSUME n < b PROVE FALSE
      OBVIOUS
    <3>1. n + 1 \in (a + 1)..b /\ n < Len(s)
      BY <1>1
    <3> QED BY <1>1, <1>2, <3>1
  <2>2. ~(b < n)
    <3> SUFFICES ASSUME b < n PROVE FALSE
      OBVIOUS
    <3>1. b + 1 \in (a + 1)..n /\ b < Len(s)
      BY <1>1
    <3> QED BY <1>1, <1>2, <3>1
  <2> QED BY <1>1, <2>1, <2>2
<1>3. BlanksOf(s) = a
  BY BlanksAre
<1>4. WordOf(s) = SubSeq(s, a + 1, CHOOSE n \in a..Len(s) : P(n))
  BY <1>3 DEF WordOf
<1> HIDE DEF P
<1>5. (CHOOSE n \in a..Len(s) : P(n)) = b
  BY <1>1, <1>2
<1> QED BY <1>3, <1>4, <1>5

\* A word that goes on ends somewhere.
LEMMA WordHasEnd ==
  ASSUME NEW s \in Seq(Nat), NEW a \in Nat, NEW b, WordTo(s, a, b)
  PROVE  \E e \in b..Len(s) : WordEndsAt(s, a, e)
<1> DEFINE T == {n \in b..Len(s) : n < Len(s) => s[n + 1] \in WordEnds}
<1>1. b \in a..Len(s) /\ Len(s) \in Nat /\ b \in Nat
  BY DEF WordTo
<1>2. T \in SUBSET Nat /\ Len(s) \in T
  BY <1>1
<1>3. PICK e \in T : \A n \in T : e <= n
  BY <1>2, Least
<1>4. e \in b..Len(s) /\ e \in Nat /\ (e < Len(s) => s[e + 1] \in WordEnds)
  BY <1>1
<1>5. ASSUME NEW i \in (a + 1)..e PROVE s[i] \notin WordEnds
  <2>1. CASE i \in (a + 1)..b
    BY <2>1 DEF WordTo
  <2>2. CASE i > b
    <3>1. i - 1 \in b..Len(s) /\ i - 1 < Len(s) /\ i - 1 + 1 = i /\ ~(e <= i - 1)
      BY <1>1, <1>4, <2>2
    <3>2. i - 1 \notin T
      BY <1>3, <3>1
    <3> QED BY <3>1, <3>2
  <2> QED BY <1>1, <1>4, <2>1, <2>2
<1>6. WordEndsAt(s, a, e)
  BY <1>1, <1>4, <1>5 DEF WordEndsAt, WordTo
<1> QED BY <1>4, <1>6

SInv == IInv /\ WInv

\* The next character of stdin, or 0.
LEMMA CharRead ==
  ASSUME RestLeft, read_char, before' = before
  PROVE  /\ RestLeft' /\ Consumed \in 0..Len(before)
         /\ stdin = <<>> => rax' = NUL /\ Consumed = Len(before) /\ Consumed' = Consumed
         /\ stdin # <<>> => /\ Consumed' = Consumed + 1 /\ Consumed' <= Len(before)
                            /\ rax' = before[Consumed']
<1>1. /\ before \in Seq(Nat) /\ stdin \in Seq(Nat) /\ Len(stdin) \in Nat
      /\ Len(before) \in Nat /\ Len(stdin) <= Len(before)
  BY DEF RestLeft
<1>2. CASE stdin = <<>>
  <2>1. rax' = NUL /\ stdin' = <<>> /\ Len(stdin) = 0
    BY <1>2 DEF read_char
  <2> QED BY <1>1, <1>2, <2>1 DEF RestLeft, Consumed
<1>3. CASE stdin # <<>>
  <2>1. /\ rax' = stdin[1] /\ stdin' = Tail(stdin) /\ Len(stdin) >= 1
        /\ stdin' \in Seq(Nat) /\ Len(stdin') = Len(stdin) - 1
        /\ \A j \in 1..Len(stdin') : stdin'[j] = stdin[j + 1]
    BY <1>1, <1>3, HeadTailProperties DEF read_char
  <2>2. Consumed' = Consumed + 1 /\ Consumed' <= Len(before) /\ Consumed \in 0..Len(before)
    BY <1>1, <2>1 DEF Consumed
  <2>3. rax' = before[Consumed + 1]
    BY <1>1, <2>1 DEF RestLeft
  <2>4. \A j \in 1..Len(stdin') : stdin'[j] = before[Consumed' + j]
    <3> TAKE j \in 1..Len(stdin')
    <3>1. j + 1 \in 1..Len(stdin) /\ Consumed + (j + 1) = Consumed' + j
      BY <1>1, <2>1, <2>2
    <3> QED BY <2>1, <3>1 DEF RestLeft
  <2> QED BY <1>1, <1>3, <2>1, <2>2, <2>3, <2>4 DEF RestLeft
<1> QED BY <1>2, <1>3

LEMMA SkipRead ==
  ASSUME SInv, Skip
  PROVE  WInv'
<1>1. /\ pc = "skip" /\ RestLeft /\ rcx = 0 /\ before \in Seq(Nat) /\ Len(before) \in Nat
      /\ \A j \in 1..Consumed : before[j] \in Blank
  BY DEF SInv, WInv, Skip
<1>2. /\ read_char /\ before' = before /\ rcx' = rcx /\ buf' = buf
      /\ pc' = IF rax' \in Blank THEN "skip" ELSE "word"
  BY DEF Skip, memory
<1>3. /\ RestLeft' /\ Consumed \in 0..Len(before)
      /\ stdin = <<>> => rax' = NUL /\ Consumed = Len(before) /\ Consumed' = Consumed
      /\ stdin # <<>> => /\ Consumed' = Consumed + 1 /\ Consumed' <= Len(before)
                         /\ rax' = before[Consumed']
  BY <1>1, <1>2, CharRead
<1>4. WordRead'
  BY <1>2 DEF WordRead, HasReturned
<1>5. CASE rax' \in Blank
  <2>1. stdin # <<>>
    BY <1>3, <1>5 DEF Blank, NUL, SPACE, TAB
  <2>2. \A j \in 1..Consumed' : before[j] \in Blank
    BY <1>1, <1>3, <1>5, <2>1
  <2>3. pc' = "skip"
    BY <1>2, <1>5
  <2> QED BY <1>1, <1>2, <1>3, <1>4, <2>2, <2>3 DEF WInv
<1>6. CASE rax' \notin Blank
  <2>1. BlankTo(before, Consumed)
    BY <1>1, <1>3, <1>6 DEF BlankTo
  <2>2. WordTo(before, Consumed, Consumed)
    BY <1>1, <1>3 DEF WordTo
  <2> DEFINE a == Consumed
             c == Consumed'
  <2>3. \/ a < Len(before) /\ c = a + 1 /\ rax' = before[a + 1]
        \/ a = Len(before) /\ c = a /\ rax' = NUL
    BY <1>1, <1>3
  <2>4. PICK b \in 0..Len(before) : b = a
    BY <1>3
  <2>5. LastRead(b)'
    BY <1>2, <2>3, <2>4 DEF LastRead
  <2>6. b + rcx' = b /\ 1..rcx' = {} /\ b \in Nat
    BY <1>1, <1>2
  <2>7. StoredFrom(b)'
    BY <1>2, <2>1, <2>2, <2>4, <2>5, <2>6 DEF StoredFrom
  <2>8. pc' = "word"
    BY <1>2, <1>6
  <2> QED BY <1>1, <1>2, <1>3, <1>4, <2>7, <2>8 DEF WInv
<1> QED BY <1>5, <1>6

\* read_word is in its word: what is known there.
LEMMA InWord ==
  ASSUME SInv, pc = "word"
  PROVE  /\ RestLeft /\ before \in Seq(Nat) /\ Len(before) \in Nat
         /\ rcx \in Nat /\ rax \in Nat /\ size \in Nat /\ rcx < size
         /\ buf \in [0..(size - 1) -> Nat]
         /\ \E a \in 0..Len(before) : StoredFrom(a)
BY DEF SInv, WInv, IInv, Shape, Reading

\* A character of the word is one more of it.
LEMMA WordLonger ==
  ASSUME SInv, pc = "word", rax \notin WordEnds, NEW a \in 0..Len(before), StoredFrom(a)
  PROVE  /\ a + rcx < Len(before) /\ Consumed = a + rcx + 1 /\ rax = before[a + rcx + 1]
         /\ WordTo(before, a, a + rcx + 1)
<1>1. /\ Len(before) \in Nat /\ rcx \in Nat /\ WordTo(before, a, a + rcx) /\ LastRead(a + rcx)
  BY InWord DEF StoredFrom
<1>2. rax # NUL
  BY DEF WordEnds
<1>3. a + rcx < Len(before) /\ Consumed = a + rcx + 1 /\ rax = before[a + rcx + 1]
  BY <1>1, <1>2 DEF LastRead
<1>4. \A i \in (a + 1)..(a + rcx + 1) : i \in (a + 1)..(a + rcx) \/ i = a + rcx + 1
  BY <1>1
<1>5. WordTo(before, a, a + rcx + 1)
  BY <1>1, <1>3, <1>4 DEF WordTo
<1> QED BY <1>3, <1>5

LEMMA CharStored ==
  ASSUME SInv, WordChar
  PROVE  WInv'
<1>1. /\ pc = "word" /\ rax \notin WordEnds /\ read_char /\ before' = before
      /\ rcx' = rcx + 1 /\ pc' = "word" /\ buf' = stored(rcx, rax)
  BY DEF WordChar
<1>2. /\ RestLeft /\ before \in Seq(Nat) /\ Len(before) \in Nat
      /\ rcx \in Nat /\ rax \in Nat /\ size \in Nat /\ rcx < size
      /\ buf \in [0..(size - 1) -> Nat]
  BY <1>1, InWord
<1>3. PICK a \in 0..Len(before) : StoredFrom(a)
  BY <1>1, InWord
<1>4. /\ a + rcx < Len(before) /\ Consumed = a + rcx + 1 /\ rax = before[a + rcx + 1]
      /\ WordTo(before, a, a + rcx + 1)
  BY <1>1, <1>3, WordLonger
<1>5. /\ RestLeft'
      /\ stdin = <<>> => rax' = NUL /\ Consumed = Len(before) /\ Consumed' = Consumed
      /\ stdin # <<>> => /\ Consumed' = Consumed + 1 /\ Consumed' <= Len(before)
                         /\ rax' = before[Consumed']
  BY <1>1, <1>2, CharRead
<1>6. LastRead(a + rcx)'
  <2> DEFINE c == Consumed'
  <2>1. \/ a + rcx + 1 < Len(before) /\ c = a + rcx + 2 /\ rax' = before[a + rcx + 2]
        \/ a + rcx + 1 = Len(before) /\ c = a + rcx + 1 /\ rax' = NUL
    BY <1>2, <1>4, <1>5
  <2>2. a + (rcx + 1) = a + rcx + 1 /\ a + (rcx + 1) + 1 = a + rcx + 2
    BY <1>2
  <2> HIDE DEF c
  <2>3. \/ a + (rcx + 1) < Len(before) /\ c = a + (rcx + 1) + 1
           /\ rax' = before[a + (rcx + 1) + 1]
        \/ a + (rcx + 1) = Len(before) /\ c = a + (rcx + 1) /\ rax' = NUL
    BY <2>1, <2>2
  <2> QED BY <1>1, <2>3 DEF LastRead, c
<1>7. \A i \in 1..(rcx + 1) : buf'[i - 1] = before[a + i]
  <2>0. /\ buf'[rcx] = rax
        /\ \A j \in 0..(size - 1) : j # rcx => buf'[j] = buf[j]
    <3>1. /\ stored(rcx, rax)[rcx] = rax
          /\ \A j \in 0..(size - 1) : j # rcx => stored(rcx, rax)[j] = buf[j]
      BY <1>2, StoredType
    <3> QED BY <1>1, <3>1
  <2> TAKE i \in 1..(rcx + 1)
  <2>1. CASE i = rcx + 1
    <3>1. i - 1 = rcx /\ a + i = a + rcx + 1
      BY <1>2, <2>1
    <3> QED BY <1>4, <2>0, <3>1
  <2>2. CASE i # rcx + 1
    <3>1. i \in 1..rcx /\ i - 1 \in 0..(size - 1) /\ i - 1 # rcx
      BY <1>2, <2>2
    <3> QED BY <1>3, <2>0, <3>1 DEF StoredFrom
  <2> QED BY <2>1, <2>2
<1>8. a + (rcx + 1) = a + rcx + 1
  BY <1>2
<1>9. StoredFrom(a)'
  BY <1>1, <1>3, <1>4, <1>6, <1>7, <1>8 DEF StoredFrom
<1>10. WordRead'
  BY <1>1 DEF WordRead, HasReturned
<1> QED BY <1>1, <1>2, <1>5, <1>9, <1>10 DEF WInv

\* The word is as long as the buffer at least.
LEMMA OverflowRead ==
  ASSUME SInv, WordOverflows
  PROVE  WInv'
<1>1. /\ pc = "word" /\ rax \notin WordEnds /\ rcx + 1 = size /\ rax' = 0
      /\ pc' = "returned" /\ before' = before /\ size' = size
  BY DEF WordOverflows, word_full, memory, input
<1>2. /\ before \in Seq(Nat) /\ Len(before) \in Nat /\ rcx \in Nat /\ size \in Nat
  BY <1>1, InWord
<1>3. PICK a \in 0..Len(before) : StoredFrom(a)
  BY <1>1, InWord
<1>4. WordTo(before, a, a + rcx + 1) /\ BlankTo(before, a)
  BY <1>1, <1>3, WordLonger DEF StoredFrom
<1>5. PICK e \in (a + rcx + 1)..Len(before) : WordEndsAt(before, a, e)
  BY <1>2, <1>4, WordHasEnd
<1>6. WordOf(before) = SubSeq(before, a + 1, e)
  BY <1>2, <1>4, <1>5, WordIs
<1>7. Len(SubSeq(before, a + 1, e)) = e - a
  BY <1>2, SubSeqProperties
<1>8. ~(Len(WordOf(before)) < size)
  BY <1>1, <1>2, <1>6, <1>7
<1>9. WordRead'
  BY <1>1, <1>8 DEF WordRead
<1> QED BY <1>1, <1>2, <1>9 DEF WInv

LEMMA DoneRead ==
  ASSUME SInv, WordDone
  PROVE  WInv'
<1>1. /\ pc = "word" /\ rax \in WordEnds /\ buf' = stored(rcx, NUL)
      /\ rcx' = rcx /\ rdx' = rcx
      /\ rax' = BUF /\ pc' = "returned" /\ before' = before /\ stdin' = stdin
      /\ size' = size
  BY DEF WordDone, input
<1>2. /\ RestLeft /\ before \in Seq(Nat) /\ Len(before) \in Nat
      /\ rcx \in Nat /\ rax \in Nat /\ size \in Nat /\ rcx < size
      /\ buf \in [0..(size - 1) -> Nat]
  BY <1>1, InWord
<1>3. PICK a \in 0..Len(before) : StoredFrom(a)
  BY <1>1, InWord
<1>4. /\ BlankTo(before, a) /\ WordTo(before, a, a + rcx) /\ LastRead(a + rcx)
      /\ \A i \in 1..rcx : buf[i - 1] = before[a + i]
  BY <1>3 DEF StoredFrom
<1>5. WordEndsAt(before, a, a + rcx)
  BY <1>1, <1>2, <1>4 DEF WordEndsAt, LastRead
<1> DEFINE w == SubSeq(before, a + 1, a + rcx)
<1>6. BlanksOf(before) = a /\ WordOf(before) = w
  BY <1>2, <1>4, <1>5, WordIs
<1>7. a + rcx <= Len(before)
  BY <1>2, <1>4 DEF WordTo
<1>8. /\ w \in Seq(Nat) /\ Len(w) = rcx
      /\ \A i \in 1..rcx : w[i] = before[a + i]
  <2>1. a + 1 \in 1..(Len(before) + 1) /\ a + rcx \in a..Len(before)
    BY <1>2, <1>7
  <2>2. \A i \in (a + 1)..(a + rcx) : i \in 1..Len(before)
    BY <1>2, <1>7
  <2>3. \A i \in (a + 1)..(a + rcx) : before[i] \in Nat
    BY <1>2, <2>2
  <2>4. /\ w \in Seq(Nat)
        /\ Len(w) = IF a + 1 <= a + rcx THEN (a + rcx) - (a + 1) + 1 ELSE 0
        /\ \A i \in 1..((a + rcx) - (a + 1) + 1) : w[i] = before[(a + 1) + i - 1]
    BY <1>2, <2>1, <2>3, SubSeqProperties
  <2> HIDE DEF w
  <2>5. Len(w) = rcx /\ (a + rcx) - (a + 1) + 1 = rcx
    BY <1>2, <2>4
  <2>6. \A i \in 1..rcx : (a + 1) + i - 1 = a + i
    BY <1>2
  <2> QED BY <2>4, <2>5, <2>6
<1>8a. w' = w
  BY <1>1
<1> HIDE DEF w
<1>9. Holds(w)'
  <2>0. /\ buf'[rcx] = NUL
        /\ \A j \in 0..(size - 1) : j # rcx => buf'[j] = buf[j]
    <3>1. NUL \in Nat
      BY DEF NUL
    <3>2. buf' = stored(rcx, NUL)
      BY <1>1
    <3> QED BY <1>2, <3>1, <3>2 DEF stored
  <2>1. \A i \in DOMAIN w : buf'[i - 1] = w[i]
    <3> TAKE i \in DOMAIN w
    <3>1. i \in 1..rcx /\ i - 1 \in 0..(size - 1) /\ i - 1 # rcx
      <4>1. DOMAIN w = 1..rcx
        BY <1>8
      <4> QED BY <1>2, <4>1
    <3>2. buf'[i - 1] = buf[i - 1]
      BY <2>0, <3>1
    <3> QED BY <1>4, <1>8, <3>1, <3>2
  <2>2. buf'[Len(w)] = NUL
    BY <1>8, <2>0
  <2> QED BY <1>8a, <2>1, <2>2 DEF Holds
<1>10. stdin = SubSeq(before, a + rcx + 2, Len(before))
  <2> DEFINE r == SubSeq(before, a + rcx + 2, Len(before))
  <2>1. /\ stdin \in Seq(Nat) /\ Len(stdin) \in Nat /\ Len(stdin) = Len(before) - Consumed
        /\ \A j \in 1..Len(stdin) : stdin[j] = before[Consumed + j]
    BY <1>2 DEF RestLeft, Consumed
  <2>2. CASE a + rcx < Len(before)
    <3>1. Consumed = a + rcx + 1
      BY <1>2, <1>4, <2>2 DEF LastRead
    <3>2. \A i \in (a + rcx + 2)..Len(before) : before[i] \in Nat
      BY <1>2
    <3>3. /\ r \in Seq(Nat)
          /\ Len(r) = IF a + rcx + 2 <= Len(before) THEN Len(before) - (a + rcx + 2) + 1 ELSE 0
          /\ \A i \in 1..(Len(before) - (a + rcx + 2) + 1) : r[i] = before[(a + rcx + 2) + i - 1]
      <4>1. a + rcx + 2 \in 1..(Len(before) + 1) /\ Len(before) \in (a + rcx + 1)..Len(before)
        BY <1>2, <2>2
      <4> QED BY <1>2, <3>2, <4>1, SubSeqProperties
    <3> HIDE DEF r
    <3>4. Len(r) = Len(stdin) /\ Len(before) - (a + rcx + 2) + 1 = Len(stdin)
      <4>1. a \in Nat /\ rcx \in Nat /\ Len(before) \in Nat
        BY <1>2
      <4>2. Len(stdin) = Len(before) - (a + rcx + 1)
        BY <2>1, <3>1
      <4>3. Len(r) = IF a + rcx + 2 <= Len(before) THEN Len(before) - (a + rcx + 2) + 1 ELSE 0
        BY <3>3
      <4> QED BY <2>2, <4>1, <4>2, <4>3
    <3>5. \A i \in 1..Len(stdin) : (a + rcx + 2) + i - 1 = Consumed + i
      BY <1>2, <3>1
    <3>6. \A i \in 1..Len(stdin) : r[i] = stdin[i]
      BY <2>1, <3>3, <3>4, <3>5
    <3>7. r = stdin
      BY <2>1, <3>3, <3>4, <3>6, SeqEqual
    <3> QED BY <3>7 DEF r
  <2>3. CASE a + rcx = Len(before)
    <3>1. Len(stdin) = 0
      BY <1>2, <1>4, <2>1, <2>3 DEF LastRead
    <3>2. \A i \in (a + rcx + 2)..Len(before) : before[i] \in Nat
      BY <1>2
    <3>3. r \in Seq(Nat) /\ Len(r) = 0
      BY <1>2, <2>3, <3>2, SubSeqProperties
    <3>4. r = <<>> /\ stdin = <<>>
      BY <2>1, <3>1, <3>3, EmptySeq
    <3> QED BY <3>4 DEF r
  <2> QED BY <1>2, <1>7, <2>2, <2>3
<1>11. (a + Len(w) + 1) + 1 = a + rcx + 2 /\ Len(w) < size
  <2>1. a \in Nat
    BY <1>2
  <2> QED BY <1>2, <1>8, <2>1
<1>12. WordRead'
  BY <1>1, <1>6, <1>8, <1>9, <1>10, <1>11, <1>8a DEF WordRead
<1> QED BY <1>1, <1>2, <1>12 DEF WInv

\* What the calls and the other functions leave for read_word.
LEMMA CallRead ==
  ASSUME SInv, Call
  PROVE  WInv'
<1>1. CASE \E in \in Inputs, sz \in Sizes : read_word(in, sz)
  <2>1. PICK in \in Inputs : before' = in /\ stdin' = in /\ rcx' = 0 /\ pc' = "skip"
    BY <1>1 DEF read_word, Calls
  <2>2. in \in Seq(Nat) /\ Len(in) \in Nat
    BY LibAssumption
  <2>3. Consumed' = 0
    BY <2>1, <2>2 DEF Consumed
  <2>4. RestLeft'
    BY <2>1, <2>2, <2>3 DEF RestLeft
  <2> QED BY <2>1, <2>2, <2>3, <2>4 DEF WInv, WordRead, HasReturned
<1>2. CASE read_next_word
  <2>1. before' = stdin /\ stdin' = stdin /\ rcx' = 0 /\ pc' = "skip"
    BY <1>2 DEF read_next_word
  <2>2. stdin \in Seq(Nat) /\ Len(stdin) \in Nat
    BY DEF SInv, IInv, Shape
  <2>3. Consumed' = 0
    BY <2>1, <2>2 DEF Consumed
  <2>4. RestLeft'
    BY <2>1, <2>2, <2>3 DEF RestLeft
  <2> QED BY <2>1, <2>2, <2>3, <2>4 DEF WInv, WordRead, HasReturned
<1>3. CASE \E in \in Inputs : reads_char(in)
  <2>1. before' \in Seq(Nat) /\ pc' = "returned" /\ call'.f = "read_char"
    BY <1>3, LibAssumption DEF reads_char, Calls
  <2> QED BY <2>1 DEF WInv, WordRead, HasReturned
<1>4. ASSUME /\ before' = before /\ pc' \notin {"skip", "word"} /\ call'.f # "read_word"
      PROVE  WInv'
  BY <1>4 DEF SInv, WInv, WordRead, HasReturned
<1>5. CASE \E n \in 0..(Word - 1) : print_uint(n) \/ print_int(n)
  BY <1>4, <1>5 DEF print_uint, print_int, Calls, input
<1>6. CASE print_newline \/ \E c \in Characters : print_char(c) \/ exit(c)
  BY <1>4, <1>6 DEF print_char, print_newline, exit, Calls, input
<1>7. CASE \E s \in Texts : string_length(s) \/ print_string(s)
  BY <1>4, <1>7 DEF string_length, print_string, Calls, input
<1>8. CASE \E s \in Texts : parse_uint(s) \/ parse_int(s)
  BY <1>4, <1>8 DEF parse_uint, parse_int, Calls, input
<1>9. CASE \E s \in Texts, sz \in Sizes \cup {0} : string_copy(s, sz)
  BY <1>4, <1>9 DEF string_copy, Calls, input
<1>10. CASE \E p \in Pairs : string_equals(p[1], p[2])
  BY <1>4, <1>10 DEF string_equals, Calls, input
<1> QED BY <1>1, <1>2, <1>3, <1>5, <1>6, <1>7, <1>8, <1>9, <1>10 DEF Call

LEMMA OtherRead ==
  ASSUME SInv, \/ PrintDigit \/ ParseDigit \/ ParseEnd \/ LengthNext \/ LengthReturns
               \/ LengthPrinted \/ LengthEnd \/ CopyByte \/ EqualsByte
  PROVE  WInv'
<1>1. /\ pc' \notin {"skip", "word"} /\ before' = before /\ call' = call
  BY DEF PrintDigit, ParseDigit, ParseEnd, LengthNext, LengthReturns, LengthPrinted,
         LengthEnd, CopyByte, EqualsByte, input
<1>2. call.f # "read_word"
  BY DEF SInv, IInv, Shape, Copying, Comparing, PrintDigit, ParseDigit, ParseEnd, LengthNext,
         LengthReturns, LengthPrinted, LengthEnd, CopyByte, EqualsByte
<1> QED BY <1>1, <1>2 DEF SInv, WInv, WordRead, HasReturned

LEMMA NextRead ==
  ASSUME SInv, [Next]_vars
  PROVE  WInv'
<1>1. CASE Call
  BY <1>1, CallRead
<1>2. CASE Step
  BY <1>2, SkipRead, CharStored, OverflowRead, DoneRead, OtherRead DEF Step
<1>3. CASE UNCHANGED vars
  BY <1>3 DEF SInv, WInv, WordRead, HasReturned, Holds, RestLeft, Consumed, StoredFrom,
              LastRead, vars, memory, input, registers
<1> QED BY <1>1, <1>2, <1>3 DEF Next, Returned

\* The inductive invariant with the words of stdin.
LEMMA Always == Spec => []SInv
<1>1. Init => SInv
  <2>1. Init => WInv
    BY DEF Init, WInv, WordRead, HasReturned
  <2> QED BY <2>1, InitInv DEF SInv
<1>2. SInv /\ [Next]_vars => SInv'
  <2>1. SInv /\ [Next]_vars => IInv'
    BY NextInv, StutterInv DEF SInv
  <2> QED BY <2>1, NextRead DEF SInv
<1> QED BY <1>1, <1>2, PTL DEF Spec

\* For every stdin and every size of the buffer, each call of read_word
\* returns the next word, whole and terminated, and takes from stdin its
\* blanks, it and the character behind it; it returns 0 exactly when the word
\* and its terminator do not fit.
THEOREM Words == Spec => []WordRead
<1>1. SInv => WordRead
  BY DEF SInv, WInv
<1> QED BY Always, <1>1, PTL

-----------------------------------------------------------------------------
(* Numbers.                                                                *)

\* g counts the digits ds on from x: behind each digit, the number so far.
Counts(x, ds, g) ==
  /\ g \in [0..Len(ds) -> Int]
  /\ g[0] = x
  /\ \A i \in 1..Len(ds) : g[i] = 10 * g[i - 1] + (ds[i] - ZERO)

\* Digits can be counted: the least number of digits that cannot would be one
\* more than some that can.
LEMMA CanCount ==
  ASSUME NEW ds \in Seq(Nat), NEW x \in Int
  PROVE  \E g : Counts(x, ds, g)
<1> DEFINE C(k, g) == /\ g \in [0..k -> Int] /\ g[0] = x
                      /\ \A i \in 1..k : g[i] = 10 * g[i - 1] + (ds[i] - ZERO)
           T == {k \in 0..Len(ds) : ~\E g : C(k, g)}
<1>1. Len(ds) \in Nat /\ \A i \in 1..Len(ds) : ds[i] \in Nat
  OBVIOUS
<1>2. T = {}
  <2> SUFFICES ASSUME T # {} PROVE FALSE
    OBVIOUS
  <2>1. T \in SUBSET Nat
    BY <1>1
  <2>2. PICK m \in T : \A n \in T : m <= n
    BY <2>1, Least
  <2>3. m \in 0..Len(ds) /\ ~\E g : C(m, g)
    OBVIOUS
  <2>4. m # 0
    <3>1. C(0, [i \in 0..0 |-> x])
      OBVIOUS
    <3> QED BY <2>3, <3>1
  <2>5. m - 1 \in 0..Len(ds) /\ ~(m <= m - 1) /\ m \in 1..Len(ds)
    BY <1>1, <2>3, <2>4
  <2>6. PICK g : C(m - 1, g)
    BY <2>2, <2>5
  <2> DEFINE h == [i \in 0..m |-> IF i = m THEN 10 * g[m - 1] + (ds[m] - ZERO) ELSE g[i]]
  <2>7. g[m - 1] \in Int /\ ds[m] \in Nat /\ 10 * g[m - 1] + (ds[m] - ZERO) \in Int
    <3>1. g[m - 1] \in Int /\ m \in Int
      BY <2>5, <2>6
    <3>2. ds[m] \in Nat
      BY <1>1, <2>5
    <3> DEFINE u == g[m - 1]   v == ds[m]
    <3>3. u \in Int /\ v \in Nat
      BY <3>1, <3>2
    <3>4. 10 * u + (v - ZERO) \in Int
      <4> HIDE DEF u, v
      <4> QED BY <3>3 DEF ZERO
    <3> QED BY <3>1, <3>2, <3>4
  <2>8. h \in [0..m -> Int] /\ h[0] = x
    <3>1. m \in Nat \ {0} /\ g \in [0..(m - 1) -> Int] /\ g[0] = x
      BY <1>1, <2>5, <2>6
    <3>2. ASSUME NEW i \in 0..m PROVE (IF i = m THEN 10 * g[m - 1] + (ds[m] - ZERO) ELSE g[i]) \in Int
      BY <2>7, <3>1
    <3> HIDE DEF C, T
    <3> QED BY <3>1, <3>2
  <2>9. ASSUME NEW i \in 1..m PROVE h[i] = 10 * h[i - 1] + (ds[i] - ZERO)
    <3>1. i - 1 \in 0..m /\ i - 1 # m /\ i \in 0..m /\ h[i - 1] = g[i - 1]
      BY <2>5
    <3>2. CASE i = m
      BY <3>1, <3>2
    <3>3. CASE i # m
      <4>1. i \in 1..(m - 1) /\ h[i] = g[i]
        BY <2>5, <3>1, <3>3
      <4> QED BY <2>6, <3>1, <4>1
    <3> QED BY <3>2, <3>3
  <2>10. C(m, h)
    BY <2>8, <2>9
  <2> QED BY <2>3, <2>10
<1>3. Len(ds) \in 0..Len(ds)
  BY <1>1
<1> QED BY <1>2, <1>3 DEF Counts

\* There is one way to count.
LEMMA CountsOnce ==
  ASSUME NEW ds \in Seq(Nat), NEW es \in Seq(Nat), NEW k \in Nat,
         k <= Len(ds), k <= Len(es), \A i \in 1..k : ds[i] = es[i],
         NEW x, NEW g, NEW h, Counts(x, ds, g), Counts(x, es, h)
  PROVE  g[k] = h[k]
<1> DEFINE T == {i \in 0..k : g[i] # h[i]}
<1> SUFFICES ASSUME T # {} PROVE FALSE
  OBVIOUS
<1>1. PICK m \in T : \A n \in T : m <= n
  <2>1. T \in SUBSET Nat
    OBVIOUS
  <2> QED BY <2>1, Least
<1>2. m \in 0..k /\ g[m] # h[m]
  OBVIOUS
<1>3. m # 0
  BY <1>2 DEF Counts
<1>4. m \in 1..k /\ m - 1 \in 0..k /\ ~(m <= m - 1)
  BY <1>2, <1>3
<1>5. g[m - 1] = h[m - 1]
  BY <1>1, <1>4
<1>6. m \in 1..Len(ds) /\ m \in 1..Len(es) /\ ds[m] = es[m]
  BY <1>4
<1> QED BY <1>2, <1>5, <1>6 DEF Counts

\* The number digits denote is what counting them from 0 leads to.
LEMMA NumberCounts ==
  ASSUME NEW ds \in Seq(Nat), NEW g, Counts(0, ds, g)
  PROVE  Number(ds) = g[Len(ds)]
<1> DEFINE P(h) ==
      h = [i \in 0..Len(ds) |-> IF i = 0 THEN 0 ELSE 10 * h[i - 1] + (ds[i] - ZERO)]
<1>1. Number(ds) = (CHOOSE h : P(h))[Len(ds)]
  BY DEF Number
<1>2. Len(ds) \in Nat /\ \A i \in 1..Len(ds) : ds[i] \in Nat
  OBVIOUS
<1>3. P(g)
  <2>1. /\ g \in [0..Len(ds) -> Int] /\ g[0] = 0
        /\ \A i \in 1..Len(ds) : g[i] = 10 * g[i - 1] + (ds[i] - ZERO)
    BY DEF Counts
  <2>2. \A i \in 0..Len(ds) : g[i] = IF i = 0 THEN 0 ELSE 10 * g[i - 1] + (ds[i] - ZERO)
    BY <1>2, <2>1
  <2> QED BY <2>1, <2>2
<1> HIDE DEF P
<1>4. PICK h : P(h) /\ Number(ds) = h[Len(ds)]
  BY <1>1, <1>3
<1> DEFINE T == {i \in 0..Len(ds) : g[i] # h[i]}
<1>5. T = {}
  <2> SUFFICES ASSUME T # {} PROVE FALSE
    OBVIOUS
  <2>1. PICK m \in T : \A n \in T : m <= n
    <3>1. T \in SUBSET Nat
      BY <1>2
    <3> QED BY <3>1, Least
  <2>2. m \in 0..Len(ds) /\ g[m] # h[m]
    OBVIOUS
  <2>3. h[m] = IF m = 0 THEN 0 ELSE 10 * h[m - 1] + (ds[m] - ZERO)
    <3> USE DEF P
    <3> QED BY <1>4, <2>2
  <2>4. m # 0
    BY <2>2, <2>3 DEF Counts
  <2>5. m \in 1..Len(ds) /\ m - 1 \in 0..Len(ds) /\ ~(m <= m - 1)
    BY <1>2, <2>2, <2>4
  <2>6. g[m - 1] = h[m - 1]
    BY <2>1, <2>5
  <2> QED BY <2>2, <2>3, <2>4, <2>5, <2>6 DEF Counts
<1> QED BY <1>2, <1>4, <1>5

\* The digits s begins with are as many as are found.
LEMMA DigitsAre ==
  ASSUME NEW s \in Seq(Nat), NEW k \in 0..Len(s), \A i \in 1..k : s[i] \in Digits,
         k < Len(s) => s[k + 1] \notin Digits
  PROVE  DigitsOf(s) = SubSeq(s, 1, k)
<1> DEFINE P(n) == /\ \A i \in 1..n : s[i] \in Digits
                   /\ n < Len(s) => s[n + 1] \notin Digits
<1>1. P(k) /\ Len(s) \in Nat
  OBVIOUS
<1>2. ASSUME NEW n \in 0..Len(s), P(n) PROVE n = k
  <2>1. ~(n < k)
    <3> SUFFICES ASSUME n < k PROVE FALSE
      OBVIOUS
    <3>1. n + 1 \in 1..k /\ n < Len(s)
      BY <1>1
    <3> QED BY <1>1, <1>2, <3>1
  <2>2. ~(k < n)
    <3> SUFFICES ASSUME k < n PROVE FALSE
      OBVIOUS
    <3>1. k + 1 \in 1..n /\ k < Len(s)
      BY <1>1
    <3> QED BY <1>1, <1>2, <3>1
  <2> QED BY <1>1, <2>1, <2>2
<1>3. DigitsOf(s) = SubSeq(s, 1, CHOOSE n \in 0..Len(s) : P(n))
  BY DEF DigitsOf
<1> HIDE DEF P
<1>4. (CHOOSE n \in 0..Len(s) : P(n)) = k
  BY <1>1, <1>2
<1> QED BY <1>3, <1>4

\* Quotient and remainder, and that they are the only ones.
LEMMA Division ==
  ASSUME NEW w \in Nat, w > 0, NEW n \in Int
  PROVE  n \div w \in Int /\ n % w \in 0..(w - 1) /\ n = w * (n \div w) + (n % w)
OBVIOUS

LEMMA Remainder ==
  ASSUME NEW w \in Nat, w > 0, NEW n \in Int, NEW q \in Int, NEW r \in 0..(w - 1),
         n = w * q + r
  PROVE  n % w = r
<1>1. /\ n \div w \in Int /\ n % w \in 0..(w - 1)
      /\ w * q + r = w * (n \div w) + (n % w)
  BY Division
<1> DEFINE p == n \div w
           s == n % w
<1> HIDE DEF p, s
<1>2. p \in Int /\ s \in 0..(w - 1) /\ w * q + r = w * p + s
  BY <1>1 DEF p, s
<1>3. s = r
  <2>1. w * (q - p) = s - r
    BY <1>2
  <2>2. CASE q > p
    <3>1. w * (q - p) >= w
      BY <1>2, <2>2
    <3> QED BY <1>2, <2>1, <3>1
  <2>3. CASE q < p
    <3>1. w * (p - q) >= w /\ w * (p - q) = r - s
      BY <1>2, <2>3
    <3> QED BY <1>2, <3>1
  <2>4. CASE q = p
    BY <1>2, <2>4
  <2> QED BY <1>2, <2>2, <2>3, <2>4
<1> QED BY <1>3 DEF s

\* One more digit, counted in a register.
LEMMA Accumulated ==
  ASSUME NEW n \in Int, NEW c \in Digits
  PROVE  accumulate(n % Word, c) = (10 * n + (c - ZERO)) % Word
<1>1. Word \in Nat /\ Word > 0
  BY LibAssumption
<1>2. c - ZERO \in Int
  BY DEF Digits, ZERO
<1> DEFINE r == n % Word
           q == n \div Word
           s == (r * 10) % Word
           p == (r * 10) \div Word
           d == c - ZERO
           t == (s + d) % Word
           u == (s + d) \div Word
<1>3. q \in Int /\ r \in 0..(Word - 1) /\ n = Word * q + r
  BY <1>1, Division
<1> HIDE DEF r, q
<1>4. p \in Int /\ s \in 0..(Word - 1) /\ r * 10 = Word * p + s
  <2>1. r * 10 \in Int
    BY <1>1, <1>3
  <2> QED BY <1>1, <2>1, Division
<1> HIDE DEF s, p
<1>5. u \in Int /\ t \in 0..(Word - 1) /\ s + d = Word * u + t
  <2>1. s + d \in Int
    BY <1>1, <1>2, <1>4
  <2> QED BY <1>1, <2>1, Division
<1> HIDE DEF t, u
<1>6. d \in Int
  BY <1>2
<1> HIDE DEF d
<1>7. 10 * n + d = Word * (10 * q + p + u) + t
  <2>1. 10 * n = 10 * (Word * q) + r * 10
    BY <1>1, <1>3
  <2>2. 10 * n + d = 10 * (Word * q) + Word * p + (Word * u + t)
    BY <1>1, <1>3, <1>4, <1>5, <1>6, <2>1
  <2> QED BY <1>1, <1>3, <1>4, <1>5, <2>2
<1>8. 10 * n + d \in Int /\ 10 * q + p + u \in Int
  BY <1>3, <1>4, <1>5, <1>6
<1>9. (10 * n + d) % Word = t
  BY <1>1, <1>5, <1>7, <1>8, Remainder
<1>10. accumulate(n % Word, c) = t
  BY DEF accumulate, r, s, d, t
<1> QED BY <1>9, <1>10 DEF d

\* A number and its negation cancel.
LEMMA Negated ==
  ASSUME NEW n \in Int
  PROVE  (neg(n % Word) + n) % Word = 0
<1>1. Word \in Nat /\ Word > 0
  BY LibAssumption
<1> DEFINE r == n % Word
           q == n \div Word
<1>2. q \in Int /\ r \in 0..(Word - 1) /\ n = Word * q + r
  BY <1>1, Division
<1>3. neg(n % Word) = (Word - r) % Word
  BY DEF neg
<1> HIDE DEF r, q
<1>4. CASE r = 0
  <2>1. (Word - r) % Word = 0
    BY <1>1, <1>4, Remainder
  <2>2. 0 + n = Word * q + 0 /\ 0 + n \in Int /\ 0 \in 0..(Word - 1)
    BY <1>1, <1>2, <1>4
  <2> QED BY <1>1, <1>2, <1>3, <2>1, <2>2, Remainder
<1>5. CASE r # 0
  <2>1. Word - r \in 0..(Word - 1) /\ Word - r \in Int /\ Word - r = Word * 0 + (Word - r)
    BY <1>1, <1>2, <1>5
  <2>2. (Word - r) % Word = Word - r
    BY <1>1, <2>1, Remainder
  <2>3. (Word - r) + n = Word * (q + 1) + 0 /\ (Word - r) + n \in Int /\ 0 \in 0..(Word - 1)
    BY <1>1, <1>2
  <2>4. q + 1 \in Int
    BY <1>2
  <2> QED BY <1>1, <1>3, <2>2, <2>3, <2>4, Remainder
<1> QED BY <1>4, <1>5

\* The string behind its sign.
Unsigned == IF negative THEN Tail(call.s) ELSE call.s

\* Is a negative number printed?
Below == call.f = "print_int" /\ is_negative(call.n)

Magnitude == IF Below THEN neg(call.n) ELSE call.n

\* parse_uint has counted the digits before rcx, modulo the width of a register.
Parsing ==
  pc = "parse" =>
    /\ negative <=> call.f = "parse_int" /\ byte(call.s, 0) = MINUS
    /\ rcx <= Len(Unsigned)
    /\ \A i \in 1..rcx : Unsigned[i] \in Digits
    /\ \A g : Counts(0, Unsigned, g) => rax = g[rcx] % Word

\* What is left to be printed, followed by the digits on the stack, is the
\* number.
Printing ==
  pc = "print" =>
    /\ call.n \in 0..(Word - 1)
    /\ stdout = IF Below THEN <<MINUS>> ELSE <<>>
    /\ digits \in Seq(Digits)
    /\ digits # <<>> => rax > 0
    /\ \A g : Counts(rax, digits, g) => g[Len(digits)] = Magnitude

\* Numbers and strings, read and printed.
NInv ==
  /\ pc = "idle" => ~negative /\ digits = <<>> /\ stdout = <<>>
  /\ Parsing
  /\ Printing
  /\ PrintedText
  /\ ParsedValue

TInv == IInv /\ NInv

\* The character parse_uint looks at is the one at rcx of what is behind the sign.
LEMMA ParsedChar ==
  ASSUME TInv, pc = "parse"
  PROVE  /\ Unsigned \in String /\ rcx \in Nat /\ rcx <= Len(Unsigned)
         /\ parsed = byte(Unsigned, rcx)
         /\ negative => Unsigned = Tail(call.s)
         /\ ~negative => Unsigned = call.s
<1>1. /\ call.s \in String /\ rcx \in Nat /\ rcx <= Len(Unsigned)
      /\ negative <=> call.f = "parse_int" /\ byte(call.s, 0) = MINUS
  BY DEF TInv, NInv, IInv, Shape, Parsing
<1>2. CASE ~negative
  BY <1>1, <1>2 DEF Unsigned, parsed
<1>3. CASE negative
  <2>1. Len(call.s) \in Nat /\ 0 < Len(call.s)
    BY <1>1, <1>3 DEF byte, MINUS, NUL, String
  <2>2. /\ Tail(call.s) \in String /\ Len(Tail(call.s)) = Len(call.s) - 1
        /\ \A i \in 1..(Len(call.s) - 1) : Tail(call.s)[i] = call.s[i + 1]
    BY <1>1, <2>1, HeadTailProperties DEF String
  <2>3. CASE rcx + 1 < Len(call.s)
    <3>1. rcx + 1 \in 1..(Len(call.s) - 1) /\ rcx < Len(Tail(call.s))
      BY <1>1, <2>1, <2>2, <2>3
    <3> QED BY <1>1, <1>3, <2>2, <2>3, <3>1 DEF Unsigned, parsed, byte
  <2>4. CASE ~(rcx + 1 < Len(call.s))
    <3>1. ~(rcx < Len(Tail(call.s)))
      BY <1>1, <2>1, <2>2, <2>4
    <3> QED BY <1>1, <1>3, <2>2, <2>4, <3>1 DEF Unsigned, parsed, byte
  <2> QED BY <2>3, <2>4
<1> QED BY <1>2, <1>3

LEMMA DigitParsed ==
  ASSUME TInv, ParseDigit
  PROVE  NInv'
<1>1. /\ pc = "parse" /\ parsed \in Digits /\ rax' = accumulate(rax, parsed)
      /\ rcx' = rcx + 1 /\ pc' = "parse" /\ call' = call /\ negative' = negative
  BY DEF ParseDigit
<1>2. /\ Unsigned \in String /\ rcx \in Nat /\ rcx <= Len(Unsigned)
      /\ parsed = byte(Unsigned, rcx)
  BY <1>1, ParsedChar
<1>3. Unsigned' = Unsigned
  BY <1>1 DEF Unsigned
<1>4. Len(Unsigned) \in Nat /\ rcx < Len(Unsigned) /\ parsed = Unsigned[rcx + 1]
  <2>1. parsed # NUL
    BY <1>1 DEF Digits, ZERO, NUL
  <2> QED BY <1>2, <2>1, ByteNUL DEF String
<1>5. /\ negative <=> call.f = "parse_int" /\ byte(call.s, 0) = MINUS
      /\ \A i \in 1..rcx : Unsigned[i] \in Digits
      /\ \A g : Counts(0, Unsigned, g) => rax = g[rcx] % Word
  BY <1>1 DEF TInv, NInv, Parsing
<1>6. \A i \in 1..(rcx + 1) : Unsigned[i] \in Digits
  <2>1. \A i \in 1..(rcx + 1) : i \in 1..rcx \/ i = rcx + 1
    BY <1>2
  <2> QED BY <1>1, <1>4, <1>5, <2>1
<1>7. ASSUME NEW g, Counts(0, Unsigned, g) PROVE rax' = g[rcx + 1] % Word
  <2>1. rcx \in 0..Len(Unsigned) /\ rcx + 1 \in 1..Len(Unsigned) /\ (rcx + 1) - 1 = rcx
    BY <1>2, <1>4
  <2>2. g[rcx] \in Int /\ g[rcx + 1] = 10 * g[rcx] + (parsed - ZERO)
    BY <1>4, <1>7, <2>1 DEF Counts
  <2>3. rax = g[rcx] % Word
    BY <1>5, <1>7
  <2> QED BY <1>1, <2>2, <2>3, Accumulated
<1>8. Parsing'
  <2>1. rcx + 1 <= Len(Unsigned)
    BY <1>2, <1>4
  <2> QED BY <1>1, <1>3, <1>5, <1>6, <1>7, <2>1 DEF Parsing, Counts
<1> QED BY <1>1, <1>8 DEF NInv, Printing, PrintedText, ParsedValue, HasReturned

\* What parse_uint leaves in its registers.
LEMMA ParsedNumber ==
  ASSUME TInv, pc = "parse", parsed \notin Digits
  PROVE  /\ DigitsOf(Unsigned) \in Seq(Nat) /\ Len(DigitsOf(Unsigned)) = rcx
         /\ Number(DigitsOf(Unsigned)) \in Int
         /\ rax = Number(DigitsOf(Unsigned)) % Word
<1> DEFINE ds == SubSeq(Unsigned, 1, rcx)
<1>1. /\ Unsigned \in String /\ rcx \in Nat /\ rcx <= Len(Unsigned)
      /\ parsed = byte(Unsigned, rcx)
  BY ParsedChar
<1>2. Unsigned \in Seq(Nat) /\ Len(Unsigned) \in Nat
  BY <1>1 DEF String
<1>3. /\ \A i \in 1..rcx : Unsigned[i] \in Digits
      /\ \A g : Counts(0, Unsigned, g) => rax = g[rcx] % Word
  BY DEF TInv, NInv, Parsing
<1>4. rcx < Len(Unsigned) => Unsigned[rcx + 1] \notin Digits
  BY <1>1, ByteNUL
<1>5. DigitsOf(Unsigned) = ds
  BY <1>1, <1>2, <1>3, <1>4, DigitsAre
<1>6. /\ ds \in Seq(Nat) /\ Len(ds) = rcx
      /\ \A i \in 1..rcx : ds[i] = Unsigned[i]
  <2>1. \A i \in 1..rcx : Unsigned[i] \in Nat
    BY <1>1, <1>2
  <2>2. 1 \in 1..(Len(Unsigned) + 1) /\ rcx \in 0..Len(Unsigned)
    BY <1>1, <1>2
  <2>3. /\ ds \in Seq(Nat)
        /\ Len(ds) = IF 1 <= rcx THEN rcx - 1 + 1 ELSE 0
        /\ \A i \in 1..(rcx - 1 + 1) : ds[i] = Unsigned[1 + i - 1]
    BY <1>2, <2>1, <2>2, SubSeqProperties
  <2> HIDE DEF ds
  <2>4. Len(ds) = rcx /\ rcx - 1 + 1 = rcx /\ \A i \in 1..rcx : 1 + i - 1 = i
    BY <1>1, <2>3
  <2> QED BY <2>3, <2>4
<1> HIDE DEF ds
<1>7. PICK g : Counts(0, ds, g)
  BY <1>6, CanCount
<1>8. PICK h : Counts(0, Unsigned, h)
  BY <1>2, CanCount
<1>9. g[rcx] = h[rcx]
  <2>1. rcx \in Nat /\ rcx <= Len(ds) /\ rcx <= Len(Unsigned)
    BY <1>1, <1>6
  <2>2. ds \in Seq(Nat) /\ Unsigned \in Seq(Nat) /\ \A i \in 1..rcx : ds[i] = Unsigned[i]
    BY <1>2, <1>6
  <2>3. ASSUME NEW d \in Seq(Nat), NEW u \in Seq(Nat), NEW k \in Nat,
               k <= Len(d), k <= Len(u), \A i \in 1..k : d[i] = u[i],
               Counts(0, d, g), Counts(0, u, h)
        PROVE  g[k] = h[k]
    BY <2>3, CountsOnce
  <2> QED BY <1>7, <1>8, <2>1, <2>2, <2>3
<1>10. Number(ds) = g[rcx]
  BY <1>6, <1>7, NumberCounts
<1>11. g[rcx] \in Int
  <2>1. rcx \in 0..Len(ds)
    BY <1>1, <1>6
  <2> QED BY <1>7, <2>1 DEF Counts
<1> QED BY <1>3, <1>5, <1>6, <1>8, <1>9, <1>10, <1>11

LEMMA ParseReturns ==
  ASSUME TInv, ParseEnd
  PROVE  NInv'
<1>1. /\ pc = "parse" /\ parsed \notin Digits /\ pc' = "returned" /\ call' = call
      /\ rax' = IF negative THEN neg(rax) ELSE rax
      /\ rdx' = IF negative THEN rcx + 1 ELSE rcx
  BY DEF ParseEnd
<1>2. /\ Len(DigitsOf(Unsigned)) = rcx /\ Number(DigitsOf(Unsigned)) \in Int
      /\ rax = Number(DigitsOf(Unsigned)) % Word
  BY <1>1, ParsedNumber
<1>3. /\ negative => Unsigned = Tail(call.s)
      /\ ~negative => Unsigned = call.s
  BY <1>1, ParsedChar
<1>4. /\ negative <=> call.f = "parse_int" /\ byte(call.s, 0) = MINUS
      /\ call.f \in {"parse_uint", "parse_int"}
  BY <1>1 DEF TInv, IInv, Shape, NInv, Parsing
<1>5. CASE negative
  <2>1. (neg(rax) + Number(DigitsOf(Unsigned))) % Word = 0
    BY <1>2, Negated
  <2>2. ParsedValue'
    BY <1>1, <1>2, <1>3, <1>4, <1>5, <2>1 DEF ParsedValue, HasReturned, byte
  <2> QED BY <1>1, <1>4, <2>2 DEF NInv, Parsing, Printing, PrintedText, HasReturned
<1>6. CASE ~negative
  <2>1. ParsedValue'
    BY <1>1, <1>2, <1>3, <1>4, <1>6 DEF ParsedValue, HasReturned, byte
  <2> QED BY <1>1, <1>4, <2>1 DEF NInv, Parsing, Printing, PrintedText, HasReturned
<1> QED BY <1>5, <1>6

\* The least digit of x in front of the digits ds.
WithDigit(x, ds) == <<ZERO + (x % 10)>> \o ds

\* A digit pushed in front stands for what the division took from the number.
LEMMA Pushed ==
  ASSUME NEW x \in Nat, NEW ds \in Seq(Digits)
  PROVE  LET es == WithDigit(x, ds) IN
         /\ es \in Seq(Digits) /\ Len(es) = Len(ds) + 1 /\ es[1] = ZERO + (x % 10)
         /\ \A g : Counts(x \div 10, es, g) =>
              \E h : Counts(x, ds, h) /\ h[Len(ds)] = g[Len(es)]
<1> DEFINE es == WithDigit(x, ds)
<1>1. ZERO + (x % 10) \in Digits
  BY DEF Digits, ZERO
<1> DEFINE f == <<ZERO + (x % 10)>>
<1>2. f \in Seq(Digits) /\ Len(f) = 1 /\ f[1] = ZERO + (x % 10) /\ Len(ds) \in Nat
  BY <1>1
<1>3. /\ es \in Seq(Digits) /\ Len(es) = Len(f) + Len(ds)
      /\ \A i \in 1..(Len(f) + Len(ds)) : es[i] = IF i <= Len(f) THEN f[i] ELSE ds[i - Len(f)]
  BY <1>2, ConcatProperties DEF WithDigit
<1> HIDE DEF f, es
<1>4. Len(es) = Len(ds) + 1 /\ es[1] = ZERO + (x % 10)
  BY <1>2, <1>3
<1>5. \A i \in 1..Len(ds) : es[i + 1] = ds[i]
  <2> TAKE i \in 1..Len(ds)
  <2>1. i + 1 \in 1..(Len(f) + Len(ds)) /\ ~(i + 1 <= Len(f)) /\ i + 1 - Len(f) = i
    BY <1>2
  <2> QED BY <1>3, <2>1
<1>6. ASSUME NEW g, Counts(x \div 10, es, g)
      PROVE  \E h : Counts(x, ds, h) /\ h[Len(ds)] = g[Len(es)]
  <2>1. /\ g \in [0..(Len(ds) + 1) -> Int] /\ g[0] = x \div 10
        /\ \A i \in 1..(Len(ds) + 1) : g[i] = 10 * g[i - 1] + (es[i] - ZERO)
    BY <1>4, <1>6 DEF Counts
  <2> DEFINE h == [i \in 0..Len(ds) |-> g[i + 1]]
  <2>2. h \in [0..Len(ds) -> Int]
    BY <1>2, <2>1
  <2>3. h[0] = x
    <3>1. g[1] = 10 * (x \div 10) + ((ZERO + (x % 10)) - ZERO)
      <4>1. 1 \in 1..(Len(ds) + 1) /\ 1 - 1 = 0
        BY <1>2
      <4>2. g[1] = 10 * g[1 - 1] + (es[1] - ZERO)
        BY <2>1, <4>1
      <4> QED BY <1>4, <2>1, <4>1, <4>2
    <3>2. x = 10 * (x \div 10) + (x % 10)
      BY Division
    <3>3. (ZERO + (x % 10)) - ZERO = x % 10
      BY DEF ZERO
    <3>4. h[0] = g[1]
      BY <1>2
    <3> QED BY <3>1, <3>2, <3>3, <3>4
  <2>4. ASSUME NEW i \in 1..Len(ds) PROVE h[i] = 10 * h[i - 1] + (ds[i] - ZERO)
    <3>1. /\ i + 1 \in 1..(Len(ds) + 1) /\ (i + 1) - 1 = i /\ i \in 0..Len(ds)
          /\ i - 1 \in 0..Len(ds) /\ (i - 1) + 1 = i
      BY <1>2
    <3>2. h[i] = g[i + 1] /\ h[i - 1] = g[i]
      BY <3>1
    <3>3. g[i + 1] = 10 * g[i] + (es[i + 1] - ZERO)
      BY <2>1, <3>1
    <3> HIDE DEF h
    <3> QED BY <1>5, <3>2, <3>3
  <2>5. h[Len(ds)] = g[Len(es)]
    BY <1>2, <1>4
  <2> HIDE DEF h
  <2>6. Counts(x, ds, h)
    BY <2>2, <2>3, <2>4 DEF Counts
  <2> QED BY <2>5, <2>6
<1> QED BY <1>3, <1>4, <1>6 DEF es

\* Digits are numbers.
LEMMA DigitsNumbers ==
  ASSUME NEW ds \in Seq(Digits)
  PROVE  ds \in Seq(Nat) /\ ds \in Seq(Int)
<1>1. Digits \subseteq Nat /\ Digits \subseteq Int
  BY DEF Digits, ZERO
<1> QED BY <1>1, SeqMonotonic

\* Digits without a superfluous zero that count up to n are its notation.
LEMMA IsDecimal ==
  ASSUME NEW ds \in Seq(Digits), ds # <<>>, Len(ds) > 1 => ds[1] # ZERO,
         NEW n, \A g : Counts(0, ds, g) => g[Len(ds)] = n
  PROVE  Decimal(ds, n)
<1>1. ds \in Seq(Nat) /\ Len(ds) \in Nat /\ \A i \in 1..Len(ds) : ds[i] \in Digits
  BY DigitsNumbers
<1>2. DigitsOf(ds) = SubSeq(ds, 1, Len(ds))
  BY <1>1, DigitsAre
<1>3. SubSeq(ds, 1, Len(ds)) = ds
  BY <1>1
<1>4. Number(ds) = n
  <2>1. PICK g : Counts(0, ds, g)
    BY <1>1, CanCount
  <2> QED BY <1>1, <2>1, NumberCounts
<1>5. Head(ds) = ds[1]
  OBVIOUS
<1> QED BY <1>2, <1>3, <1>4, <1>5 DEF Decimal

LEMMA DigitPrinted ==
  ASSUME TInv, PrintDigit
  PROVE  NInv'
<1>1. /\ pc = "print" /\ digits' = <<ZERO + (rax % 10)>> \o digits /\ rax' = rax \div 10
      /\ IF rax' = 0 THEN stdout' = stdout \o digits' /\ pc' = "returned"
         ELSE stdout' = stdout /\ pc' = "print"
      /\ call' = call
  BY DEF PrintDigit, push_digit
<1>2. /\ call.n \in 0..(Word - 1)
      /\ stdout = IF Below THEN <<MINUS>> ELSE <<>>
      /\ digits \in Seq(Digits)
      /\ digits # <<>> => rax > 0
      /\ \A g : Counts(rax, digits, g) => g[Len(digits)] = Magnitude
      /\ rax \in Nat
      /\ call.f \in {"print_uint", "print_int"}
  BY <1>1 DEF TInv, NInv, Printing, IInv, Shape
<1> DEFINE es == digits'
           y == rax'
<1>3. /\ es \in Seq(Digits) /\ Len(es) = Len(digits) + 1 /\ es[1] = ZERO + (rax % 10)
      /\ \A g : Counts(y, es, g) =>
           \E h : Counts(rax, digits, h) /\ h[Len(digits)] = g[Len(es)]
  <2>1. es = WithDigit(rax, digits) /\ y = rax \div 10
    BY <1>1 DEF WithDigit
  <2> HIDE DEF es, y
  <2>2. rax \in Nat /\ digits \in Seq(Digits)
    BY <1>2
  <2> DEFINE ds == WithDigit(rax, digits)
  <2>3. /\ ds \in Seq(Digits) /\ Len(ds) = Len(digits) + 1 /\ ds[1] = ZERO + (rax % 10)
        /\ \A g : Counts(rax \div 10, ds, g) =>
             \E h : Counts(rax, digits, h) /\ h[Len(digits)] = g[Len(ds)]
    BY <2>2, Pushed
  <2> QED BY <2>1, <2>3
<1>4. \A g : Counts(y, es, g) => g[Len(es)] = Magnitude
  BY <1>2, <1>3
<1>5. Len(digits) \in Nat /\ Len(es) > 0
  BY <1>2, <1>3
<1>6. Below' = Below /\ Magnitude' = Magnitude
  BY <1>1 DEF Below, Magnitude
<1>7. CASE rax' # 0
  <2>1. rax' > 0
    BY <1>1, <1>2, <1>7
  <2>2. Printing'
    BY <1>1, <1>2, <1>3, <1>4, <1>6, <1>7, <2>1 DEF Printing, Counts
  <2> QED BY <1>1, <1>7, <2>2 DEF NInv, Parsing, PrintedText, ParsedValue, HasReturned
<1>8. CASE rax' = 0
  <2>1. Len(es) > 1 => es[1] # ZERO
    <3>1. Len(es) > 1 => digits # <<>>
      BY <1>2, <1>3
    <3>2. rax > 0 /\ rax \div 10 = 0 => rax % 10 # 0
      BY <1>2
    <3>3. rax % 10 # 0 => ZERO + (rax % 10) # ZERO
      BY <1>2 DEF ZERO
    <3> QED BY <1>1, <1>2, <1>3, <1>8, <3>1, <3>2, <3>3
  <2>2. es # <<>>
    BY <1>5
  <2>3. \A g : Counts(0, es, g) => g[Len(es)] = Magnitude
    BY <1>4, <1>8
  <2> HIDE DEF es
  <2>4. Decimal(es, Magnitude)
    BY <1>3, <2>1, <2>2, <2>3, IsDecimal
  <2>5. stdout' = stdout \o es /\ pc' = "returned"
    BY <1>1, <1>8 DEF es
  <2>6. es \in Seq(Int)
    BY <1>3, DigitsNumbers
  <2>7. CASE Below
    <3>1. stdout' = <<MINUS>> \o es /\ <<MINUS>> \in Seq(Int)
      BY <1>2, <2>5, <2>7 DEF MINUS
    <3>2. Head(stdout') = MINUS /\ Tail(stdout') = es
      BY <2>6, <3>1
    <3>3. /\ call.f = "print_int" /\ Magnitude = neg(call.n) /\ is_negative(call.n)
      BY <2>7 DEF Below, Magnitude
    <3>4. Signed(call.n) < 0 /\ -Signed(call.n) = neg(call.n)
      <4>1. Word \in Nat /\ Word > 10 /\ call.n \in Nat /\ call.n < Word /\ call.n > 0
        BY <1>2, <3>3, LibAssumption DEF is_negative
      <4>2. Word - call.n \in 0..(Word - 1) /\ Word - call.n = Word * 0 + (Word - call.n)
        BY <4>1
      <4>3. neg(call.n) = Word - call.n
        BY <4>1, <4>2, Remainder DEF neg
      <4>4. Signed(call.n) = call.n - Word
        BY <3>3 DEF Signed
      <4> QED BY <4>1, <4>3, <4>4
    <3>5. PrintedText'
      BY <1>1, <2>4, <2>5, <3>2, <3>3, <3>4 DEF PrintedText, HasReturned
    <3> QED BY <1>1, <2>5, <3>3, <3>5 DEF NInv, Parsing, Printing, ParsedValue, HasReturned
  <2>8. CASE ~Below
    <3>1. stdout' = es
      BY <1>2, <2>5, <2>6, <2>8
    <3>2. Magnitude = call.n
      BY <2>8 DEF Magnitude
    <3>3. call.f = "print_int" => Signed(call.n) = call.n /\ ~(call.n < 0)
      BY <1>2, <2>8 DEF Below, Signed
    <3>4. PrintedText'
      BY <1>1, <1>2, <2>4, <2>5, <3>1, <3>2, <3>3 DEF PrintedText, HasReturned
    <3> QED BY <1>1, <1>2, <2>5, <3>4 DEF NInv, Parsing, Printing, ParsedValue, HasReturned
  <2> QED BY <2>7, <2>8
<1> QED BY <1>7, <1>8

\* print_string writes the string.
LEMMA StringPrinted ==
  ASSUME TInv, LengthPrinted
  PROVE  NInv'
<1>1. /\ pc = "length" /\ call.f = "print_string" /\ byte(call.s, rax) = NUL
      /\ stdout' = [i \in 1..rax |-> byte(call.s, i - 1)] /\ pc' = "returned" /\ call' = call
  BY DEF LengthPrinted
<1>2. call.s \in String /\ rax \in Nat /\ rax <= Len(call.s) /\ Len(call.s) \in Nat
  BY <1>1 DEF TInv, IInv, Shape, Copying, String
<1>3. rax = Len(call.s)
  BY <1>1, <1>2, ByteNUL
<1>4. ASSUME NEW i \in 1..rax PROVE byte(call.s, i - 1) = call.s[i]
  <2>1. i - 1 \in Nat /\ i - 1 < Len(call.s) /\ (i - 1) + 1 = i /\ i - 1 <= Len(call.s)
    BY <1>2, <1>3
  <2> QED BY <1>2, <2>1, ByteNUL
<1>5. call.s = [i \in 1..Len(call.s) |-> call.s[i]]
  BY <1>2 DEF String
<1>6. stdout' = call.s
  BY <1>1, <1>3, <1>4, <1>5
<1>7. PrintedText'
  BY <1>1, <1>6 DEF PrintedText, HasReturned
<1> QED BY <1>1, <1>7 DEF NInv, Parsing, Printing, ParsedValue, HasReturned

\* The calls of the functions that parse and print.
LEMMA ParseCalled ==
  ASSUME TInv, pc = "idle", NEW s \in Texts, parse_uint(s) \/ parse_int(s)
  PROVE  NInv'
<1>1. /\ pc' = "parse" /\ call'.s = s /\ rax' = 0 /\ rcx' = 0
      /\ negative' <=> call'.f = "parse_int" /\ byte(call'.s, 0) = MINUS
  <2>1. ~negative
    BY DEF TInv, NInv
  <2>2. CASE parse_uint(s)
    BY <2>1, <2>2 DEF parse_uint, Calls
  <2>3. CASE parse_int(s)
    BY <2>3 DEF parse_int, Calls
  <2> QED BY <2>2, <2>3
<1>2. s \in String /\ Len(s) \in Nat
  BY LibAssumption DEF String
<1>3. Unsigned' \in Seq(Nat)
  <2>1. CASE negative'
    <3>1. s # <<>>
      BY <1>1, <2>1 DEF byte, MINUS, NUL
    <3>2. s \in Seq(Nat)
      BY <1>2 DEF String
    <3> QED BY <1>1, <2>1, <3>1, <3>2, HeadTailProperties DEF Unsigned
  <2>2. CASE ~negative'
    BY <1>1, <1>2, <2>2 DEF Unsigned, String
  <2> QED BY <2>1, <2>2
<1> DEFINE u == Unsigned'
<1>4. u \in Seq(Nat) /\ Len(u) \in Nat
  BY <1>3
<1>5. \A g : Counts(0, u, g) => 0 = g[0] % Word
  <2>1. 0 % Word = 0
    BY LibAssumption
  <2> QED BY <2>1 DEF Counts
<1>6. Parsing'
  BY <1>1, <1>4, <1>5 DEF Parsing, Counts
<1> QED BY <1>1, <1>6 DEF NInv, Printing, PrintedText, ParsedValue, HasReturned

LEMMA PrintCalled ==
  ASSUME TInv, pc = "idle", NEW n \in 0..(Word - 1), print_uint(n) \/ print_int(n)
  PROVE  NInv'
<1>1. digits = <<>> /\ stdout = <<>>
  BY DEF TInv, NInv
<1>2. pc' = "print" /\ call'.n = n /\ digits' = <<>>
  BY <1>1 DEF print_uint, print_int, Calls, output
<1>3. rax' = Magnitude' /\ stdout' = IF Below' THEN <<MINUS>> ELSE <<>>
  BY <1>1 DEF print_uint, print_int, Calls, output, Magnitude, Below
<1>4. <<>> \in Seq(Digits) /\ Len(<<>>) = 0
  OBVIOUS
<1>5. \A x, g : Counts(x, <<>>, g) => g[0] = x
  BY DEF Counts
<1>6. Printing'
  BY <1>2, <1>3, <1>4, <1>5 DEF Printing, Counts
<1> QED BY <1>2, <1>6 DEF NInv, Parsing, PrintedText, ParsedValue, HasReturned

LEMMA OtherCalled ==
  ASSUME TInv, Call
  PROVE  NInv'
<1>1. CASE pc = "idle" /\ \E n \in 0..(Word - 1) : print_uint(n) \/ print_int(n)
  BY <1>1, PrintCalled
<1>2. CASE pc = "idle" /\ \E s \in Texts : parse_uint(s) \/ parse_int(s)
  BY <1>2, ParseCalled
<1>3. ASSUME /\ pc' \notin {"idle", "parse", "print"}
             /\ pc' = "returned" =>
                  call'.f \notin {"print_string", "print_uint", "print_int",
                                  "parse_uint", "parse_int"}
      PROVE  NInv'
  BY <1>3 DEF NInv, Parsing, Printing, PrintedText, ParsedValue, HasReturned
<1>4. CASE \E c \in Characters : print_char(c) \/ exit(c)
  BY <1>3, <1>4 DEF print_char, exit, Calls
<1>5. CASE print_newline
  BY <1>3, <1>5 DEF print_newline, Calls
<1>6. CASE \E s \in Texts : string_length(s) \/ print_string(s)
  BY <1>3, <1>6 DEF string_length, print_string, Calls
<1>7. CASE \E s \in Texts, sz \in Sizes \cup {0} : string_copy(s, sz)
  BY <1>3, <1>7 DEF string_copy, Calls
<1>8. CASE \E p \in Pairs : string_equals(p[1], p[2])
  BY <1>3, <1>8 DEF string_equals, Calls
<1>9. CASE \E in \in Inputs, sz \in Sizes : read_word(in, sz)
  BY <1>3, <1>9 DEF read_word, Calls
<1>10. CASE \E in \in Inputs : reads_char(in)
  BY <1>3, <1>10 DEF reads_char, Calls
<1>11. CASE read_next_word
  BY <1>3, <1>11 DEF read_next_word
<1> QED BY <1>1, <1>2, <1>4, <1>5, <1>6, <1>7, <1>8, <1>9, <1>10, <1>11 DEF Call

\* The other functions neither parse nor print.
LEMMA OtherStep ==
  ASSUME TInv, \/ LengthNext \/ LengthReturns \/ LengthEnd \/ CopyByte \/ EqualsByte
               \/ Skip \/ WordChar \/ WordOverflows \/ WordDone
  PROVE  NInv'
<1>1. pc' \notin {"idle", "parse", "print"} /\ call' = call
  BY DEF LengthNext, LengthReturns, LengthEnd, CopyByte, EqualsByte,
         Skip, WordChar, WordOverflows, WordDone
<1>2. pc' = "returned" => call.f \notin {"print_string", "print_uint", "print_int",
                                         "parse_uint", "parse_int"}
  BY DEF LengthNext, LengthReturns, LengthEnd, CopyByte, EqualsByte, Skip, WordChar,
         WordOverflows, WordDone, TInv, IInv, Shape, Copying, Comparing, Reading
<1> QED BY <1>1, <1>2 DEF NInv, Parsing, Printing, PrintedText, ParsedValue, HasReturned

LEMMA NextNumbers ==
  ASSUME TInv, [Next]_vars
  PROVE  NInv'
<1>1. CASE Call
  BY <1>1, OtherCalled
<1>2. CASE Step
  BY <1>2, DigitPrinted, DigitParsed, ParseReturns, StringPrinted, OtherStep DEF Step
<1>3. CASE UNCHANGED vars
  <2>1. /\ pc' = pc /\ call' = call /\ digits' = digits /\ stdout' = stdout
        /\ rax' = rax /\ rcx' = rcx /\ rdx' = rdx /\ negative' = negative
    BY <1>3 DEF vars, output, registers
  <2>2. Unsigned' = Unsigned /\ Below' = Below /\ Magnitude' = Magnitude
    BY <2>1 DEF Unsigned, Below, Magnitude
  <2>3. Parsing' /\ Printing'
    BY <2>1, <2>2 DEF TInv, NInv, Parsing, Printing, Counts
  <2>4. PrintedText' /\ ParsedValue'
    BY <2>1 DEF TInv, NInv, PrintedText, ParsedValue, HasReturned
  <2> QED BY <2>1, <2>3, <2>4 DEF TInv, NInv
<1> QED BY <1>1, <1>2, <1>3 DEF Next, Returned

\* The inductive invariant with the numbers.
LEMMA Numbers == Spec => []TInv
<1>1. Init => TInv
  <2>1. Init => NInv
    BY DEF Init, NInv, Parsing, Printing, PrintedText, ParsedValue, HasReturned
  <2> QED BY <2>1, InitInv DEF TInv
<1>2. TInv /\ [Next]_vars => TInv'
  <2>1. TInv /\ [Next]_vars => IInv'
    BY NextInv, StutterInv DEF TInv
  <2> QED BY <2>1, NextNumbers DEF TInv
<1> QED BY <1>1, <1>2, PTL DEF Spec

\* For every width of a register and every pattern in it, print_uint and
\* print_int write its decimal notation, the pattern without a negation
\* included; print_string writes every string, without its terminator.
THEOREM Prints == Spec => []PrintedText
<1>1. TInv => PrintedText
  BY DEF TInv, NInv
<1> QED BY Numbers, <1>1, PTL

\* For every string, parse_uint and parse_int return the number its leading
\* digits denote, modulo the width of a register, and how long it is; nothing
\* is said of a sign without digits.
THEOREM Parses == Spec => []ParsedValue
<1>1. TInv => ParsedValue
  BY DEF TInv, NInv
<1> QED BY Numbers, <1>1, PTL
===============================================================================
