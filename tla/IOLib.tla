--------------------------------- MODULE IOLib ---------------------------------
(***************************************************************************)
(* The input/output library of IOLibAssembly/lib.inc and a client of it,   *)
(* which calls one of its functions, read_word again and again.            *)
(*                                                                         *)
(* A step is one iteration of a loop of the library, or the code before or *)
(* after it.  Numbers are the patterns of a register, 0..Word-1, negative  *)
(* from Word \div 2 on.  Characters are their codes; a text is a sequence  *)
(* of them without its terminator.  A register that holds no result when a *)
(* function returns is not followed.                                       *)
(***************************************************************************)
EXTENDS Integers, Sequences

CONSTANTS
  Word,       \* number of values of a register
  Texts,      \* the strings the client passes
  Pairs,      \* the pairs of strings it compares
  Sizes,      \* the sizes of its buffer; string_copy has none, too
  Inputs      \* what stdin may hold

NUL == 0
TAB == 9
LF == 10
SPACE == 32
MINUS == 45
ZERO == 48
BACKSLASH == 92

Digits == ZERO..(ZERO + 9)

\* A byte that can be printed, and one that cannot.
Characters == {ZERO, 255}

JUNK == 202       \* what the buffer holds at first
BUF == 1          \* the address of the buffer: not 0

ASSUME LibAssumption ==
  /\ Word \in Nat /\ Word > 10 /\ Word % 2 = 0
  /\ Sizes \subseteq Nat \ {0}
  /\ Texts \subseteq Seq(Nat \ {NUL})
  /\ Pairs \subseteq Texts \X Texts
  /\ Inputs \subseteq Seq(Nat)

VARIABLES
  pc,       \* "idle", "returned", "exited", or the loop that runs
  call,     \* the call that runs or has returned: [f, n, s, t]
  size,     \* the size of the client's buffer
  buf,      \* the bytes of that buffer, and any other byte written
  before,   \* what was left of stdin when read_word was called
  stdin,    \* what is left of it
  stdout,
  digits,   \* the digits print_uint has pushed
  rax, rcx, rdx,
  negative  \* r12 in parse_int

memory == <<size, buf>>
input == <<before, stdin>>
output == <<stdout, digits>>
registers == <<rax, rcx, rdx, negative>>
vars == <<pc, call, memory, input, output, registers>>

Init ==
  /\ pc = "idle"
  /\ call = [f |-> "none", n |-> 0, s |-> <<>>, t |-> <<>>]
  /\ size = 0 /\ buf = <<>>
  /\ before = <<>> /\ stdin = <<>>
  /\ stdout = <<>> /\ digits = <<>>
  /\ rax = 0 /\ rcx = 0 /\ rdx = 0 /\ negative = FALSE

neg(n) == (Word - n) % Word

is_negative(n) == n >= Word \div 2

\* The byte at offset i of a terminated string.
byte(s, i) == IF i < Len(s) THEN s[i + 1] ELSE NUL

\* The memory after c is stored at offset i of the buffer.
stored(i, c) == [j \in DOMAIN buf \cup {i} |-> IF j = i THEN c ELSE buf[j]]

\* The client calls f; the code before the loop of f leaves it at loop.
Calls(f, n, s, t, loop) ==
  /\ call' = [f |-> f, n |-> n, s |-> s, t |-> t]
  /\ pc' = loop

\* A buffer of the client, not cleared.
TakesBuffer(sz) == size' = sz /\ buf' = [j \in 0..(sz - 1) |-> JUNK]
-----------------------------------------------------------------------------
(* print_uint, print_int, print_char, print_newline, exit.                 *)

print_uint(n) ==
  /\ Calls("print_uint", n, <<>>, <<>>, "print")
  /\ rax' = n
  /\ UNCHANGED <<memory, input, output, rcx, rdx, negative>>

print_int(n) ==
  /\ Calls("print_int", n, <<>>, <<>>, "print")
  /\ rax' = IF is_negative(n) THEN neg(n) ELSE n
  /\ stdout' = IF is_negative(n) THEN <<MINUS>> ELSE <<>>
  /\ UNCHANGED <<memory, input, digits, rcx, rdx, negative>>

push_digit_behind(n) == Append(digits, ZERO + (n % 10))  \* mutant: least digit first

\* The stack grows downwards: the digit pushed last is printed first.
push_digit(n) == <<ZERO + (n % 10)>> \o digits

PrintDigit ==
  /\ pc = "print"
  /\ digits' = push_digit(rax)
  /\ rax' = rax \div 10
  /\ IF rax' = 0
     THEN stdout' = stdout \o digits' /\ pc' = "returned"
     ELSE UNCHANGED <<stdout, pc>>
  /\ UNCHANGED <<call, memory, input, rcx, rdx, negative>>

print_char(c) ==
  /\ Calls("print_char", c, <<>>, <<>>, "returned")
  /\ stdout' = <<c>>
  /\ UNCHANGED <<memory, input, digits, registers>>

\* In NASM '\n' is two characters, the backslash first; one byte is written.
print_newline ==
  /\ Calls("print_newline", 0, <<>>, <<>>, "returned")
  /\ stdout' = <<BACKSLASH>>
  /\ UNCHANGED <<memory, input, digits, registers>>

exit(code) ==
  /\ Calls("exit", code, <<>>, <<>>, "exited")
  /\ UNCHANGED <<memory, input, output, registers>>
-----------------------------------------------------------------------------
(* parse_uint, parse_int.                                                  *)

parse_uint(s) ==
  /\ Calls("parse_uint", 0, s, <<>>, "parse")
  /\ rax' = 0 /\ rcx' = 0
  /\ UNCHANGED <<memory, input, output, rdx, negative>>

\* A sign is skipped before parse_uint is called.
parse_int(s) ==
  /\ Calls("parse_int", 0, s, <<>>, "parse")
  /\ negative' = (byte(s, 0) = MINUS)
  /\ rax' = 0 /\ rcx' = 0
  /\ UNCHANGED <<memory, input, output, rdx>>

\* The character at rdi + rcx; rdi is behind the sign.
parsed == byte(call.s, IF negative THEN rcx + 1 ELSE rcx)

\* mul and add keep the low half.
accumulate(n, c) == (((n * 10) % Word) + (c - ZERO)) % Word

ParseDigit ==
  /\ pc = "parse"
  /\ parsed \in Digits
  /\ rax' = accumulate(rax, parsed)
  /\ rcx' = rcx + 1
  /\ UNCHANGED <<pc, call, memory, input, output, rdx, negative>>

ParseEnd_sign_not_counted ==  \* mutant: rdx as parse_uint left it
  /\ pc = "parse"
  /\ parsed \notin Digits
  /\ rax' = IF negative THEN neg(rax) ELSE rax
  /\ rdx' = rcx
  /\ pc' = "returned"
  /\ UNCHANGED <<call, memory, input, output, rcx, negative>>

\* neg and the sign that counts come after parse_uint has returned.
ParseEnd ==
  /\ pc = "parse"
  /\ parsed \notin Digits
  /\ rax' = IF negative THEN neg(rax) ELSE rax
  /\ rdx' = IF negative THEN rcx + 1 ELSE rcx
  /\ pc' = "returned"
  /\ UNCHANGED <<call, memory, input, output, rcx, negative>>
-----------------------------------------------------------------------------
(* string_length, print_string and string_copy, which begin with it, and   *)
(* string_equals.                                                          *)

string_length(s) ==
  /\ Calls("string_length", 0, s, <<>>, "length")
  /\ rax' = 0
  /\ UNCHANGED <<memory, input, output, rcx, rdx, negative>>

print_string(s) ==
  /\ Calls("print_string", 0, s, <<>>, "length")
  /\ rax' = 0
  /\ UNCHANGED <<memory, input, output, rcx, rdx, negative>>

string_copy(s, sz) ==
  /\ Calls("string_copy", 0, s, <<>>, "length")
  /\ TakesBuffer(sz)
  /\ rax' = 0
  /\ UNCHANGED <<input, output, rcx, rdx, negative>>

LengthNext ==
  /\ pc = "length"
  /\ byte(call.s, rax) # NUL
  /\ rax' = rax + 1
  /\ UNCHANGED <<pc, call, memory, input, output, rcx, rdx, negative>>

LengthReturns ==
  /\ pc = "length"
  /\ call.f = "string_length"
  /\ byte(call.s, rax) = NUL
  /\ pc' = "returned"
  /\ UNCHANGED <<call, memory, input, output, registers>>

\* One write of so many bytes; rax is how many were written.
LengthPrinted ==
  /\ pc = "length"
  /\ call.f = "print_string"
  /\ byte(call.s, rax) = NUL
  /\ rdx' = rax
  /\ stdout' = [i \in 1..rax |-> byte(call.s, i - 1)]
  /\ pc' = "returned"
  /\ UNCHANGED <<call, memory, input, digits, rax, rcx, negative>>

too_long(len) == len >= size

LengthEnd ==
  /\ pc = "length"
  /\ call.f = "string_copy"
  /\ byte(call.s, rax) = NUL
  /\ IF too_long(rax)
     THEN rax' = 0 /\ pc' = "returned" /\ UNCHANGED rcx
     ELSE rcx' = 0 /\ pc' = "copy" /\ UNCHANGED rax
  /\ UNCHANGED <<call, memory, input, output, rdx, negative>>

CopyByte_but_NUL ==  \* mutant: the terminator is not copied
  /\ pc = "copy"
  /\ IF byte(call.s, rcx) = NUL
     THEN pc' = "returned" /\ UNCHANGED <<buf, rcx>>
     ELSE buf' = stored(rcx, byte(call.s, rcx)) /\ rcx' = rcx + 1 /\ UNCHANGED pc
  /\ UNCHANGED <<call, size, input, output, rax, rdx, negative>>

CopyByte ==
  /\ pc = "copy"
  /\ buf' = stored(rcx, byte(call.s, rcx))
  /\ IF byte(call.s, rcx) = NUL
     THEN pc' = "returned" /\ UNCHANGED rcx
     ELSE rcx' = rcx + 1 /\ UNCHANGED pc
  /\ UNCHANGED <<call, size, input, output, rax, rdx, negative>>

string_equals(s, t) ==
  /\ Calls("string_equals", 0, s, t, "equals")
  /\ rax' = 0 /\ rcx' = 0
  /\ UNCHANGED <<memory, input, output, rdx, negative>>

both_end_prefix(c) == c = NUL \/ byte(call.s, rcx + 1) = NUL  \* mutant: a prefix will do

\* Do both strings end with c, the character both have at rcx?
both_end(c) == c = NUL

EqualsByte ==
  /\ pc = "equals"
  /\ LET c == byte(call.s, rcx)
     IN  \/ /\ c # byte(call.t, rcx)
            /\ pc' = "returned" /\ UNCHANGED <<rax, rcx>>
         \/ /\ c = byte(call.t, rcx) /\ both_end(c)
            /\ rax' = 1 /\ pc' = "returned" /\ UNCHANGED rcx
         \/ /\ c = byte(call.t, rcx) /\ ~both_end(c)
            /\ rcx' = rcx + 1 /\ UNCHANGED <<pc, rax>>
  /\ UNCHANGED <<call, memory, input, output, rdx, negative>>
-----------------------------------------------------------------------------
(* read_word.  rcx stands for r13, the count of characters, and for rbx    *)
(* less the address of the buffer, which is the same number.  r13 is not   *)
(* cleared: the client has 0 there.                                        *)

\* al becomes the next character of stdin, 0 at its end.
read_char ==
  /\ rax' = IF stdin = <<>> THEN NUL ELSE Head(stdin)
  /\ stdin' = IF stdin = <<>> THEN <<>> ELSE Tail(stdin)

\* The client reads one character.
reads_char(in) ==
  /\ Calls("read_char", 0, <<>>, <<>>, "returned")
  /\ before' = in
  /\ rax' = byte(in, 0)
  /\ stdin' = IF in = <<>> THEN <<>> ELSE Tail(in)
  /\ UNCHANGED <<memory, output, rcx, rdx, negative>>

\* The characters skipped.  A line feed is compared with the two characters of
\* '\n', which al never equals.
Blank == {SPACE, TAB}

\* The characters that end a word.
WordEnds == {SPACE, NUL}

read_word(in, sz) ==
  /\ Calls("read_word", 0, <<>>, <<>>, "skip")
  /\ TakesBuffer(sz)
  /\ before' = in /\ stdin' = in
  /\ rcx' = 0
  /\ UNCHANGED <<output, rax, rdx, negative>>

read_next_word_counting_on ==  \* mutant: r13 is not restored between two calls
  /\ pc = "returned" /\ call.f = "read_word"
  /\ pc' = "skip"
  /\ before' = stdin
  /\ UNCHANGED <<call, memory, stdin, output, registers>>

\* The client reads another word into the same buffer.
read_next_word ==
  /\ pc = "returned" /\ call.f = "read_word"
  /\ pc' = "skip"
  /\ before' = stdin
  /\ rcx' = 0
  /\ UNCHANGED <<call, memory, stdin, output, rax, rdx, negative>>

Skip ==
  /\ pc = "skip"
  /\ read_char
  /\ pc' = IF rax' \in Blank THEN "skip" ELSE "word"
  /\ UNCHANGED <<call, memory, before, output, rcx, rdx, negative>>

word_full_late(count) == count > size  \* mutant: one character more fits

word_full(count) == count = size

WordChar ==
  /\ pc = "word"
  /\ rax \notin WordEnds
  /\ ~word_full(rcx + 1)
  /\ buf' = stored(rcx, rax)
  /\ read_char
  /\ rcx' = rcx + 1
  /\ UNCHANGED <<pc, call, size, before, output, rdx, negative>>

WordOverflows ==
  /\ pc = "word"
  /\ rax \notin WordEnds
  /\ word_full(rcx + 1)
  /\ rax' = 0 /\ rcx' = rcx + 1
  /\ pc' = "returned"
  /\ UNCHANGED <<call, memory, input, output, rdx, negative>>

WordDone ==
  /\ pc = "word"
  /\ rax \in WordEnds
  /\ buf' = stored(rcx, NUL)
  /\ rdx' = rcx /\ rax' = BUF
  /\ pc' = "returned"
  /\ UNCHANGED <<call, size, input, output, rcx, negative>>
-----------------------------------------------------------------------------
Call ==
  \/ /\ pc = "idle"
     /\ \/ \E n \in 0..(Word - 1) : print_uint(n) \/ print_int(n)
        \/ \E c \in Characters : print_char(c) \/ exit(c)
        \/ print_newline
        \/ \E s \in Texts : string_length(s) \/ print_string(s)
        \/ \E s \in Texts : parse_uint(s) \/ parse_int(s)
        \/ \E s \in Texts, sz \in Sizes \cup {0} : string_copy(s, sz)
        \/ \E p \in Pairs : string_equals(p[1], p[2])
        \/ \E in \in Inputs, sz \in Sizes : read_word(in, sz)
        \/ \E in \in Inputs : reads_char(in)
  \/ read_next_word

Step ==
  \/ PrintDigit
  \/ ParseDigit \/ ParseEnd
  \/ LengthNext \/ LengthReturns \/ LengthPrinted \/ LengthEnd \/ CopyByte \/ EqualsByte
  \/ Skip \/ WordChar \/ WordOverflows \/ WordDone

Returned == pc \in {"returned", "exited"} /\ UNCHANGED vars

Next == Call \/ Step \/ Returned

Spec == Init /\ [][Next]_vars
-----------------------------------------------------------------------------
(* References.                                                             *)

\* The digits s begins with.
DigitsOf(s) ==
  LET n == CHOOSE n \in 0..Len(s) :
             /\ \A i \in 1..n : s[i] \in Digits
             /\ n < Len(s) => s[n + 1] \notin Digits
  IN  SubSeq(s, 1, n)

\* The number that digits ds denote.
Number(ds) ==
  LET upto[i \in 0..Len(ds)] ==
        IF i = 0 THEN 0 ELSE 10 * upto[i - 1] + (ds[i] - ZERO)
  IN  upto[Len(ds)]

\* Is ds the decimal notation of n?
Decimal(ds, n) ==
  /\ ds # <<>>
  /\ DigitsOf(ds) = ds
  /\ Len(ds) > 1 => Head(ds) # ZERO
  /\ Number(ds) = n

\* The value of the pattern n read as a signed number.
Signed(n) == IF is_negative(n) THEN n - Word ELSE n

\* The word s begins with behind its blanks, and what is left behind the
\* character that ended it, by the separators the code knows.
BlanksOf(s) ==
  CHOOSE n \in 0..Len(s) :
    /\ \A i \in 1..n : s[i] \in Blank
    /\ n < Len(s) => s[n + 1] \notin Blank

WordOf(s) ==
  LET from == BlanksOf(s)
      to == CHOOSE n \in from..Len(s) :
              /\ \A i \in (from + 1)..n : s[i] \notin WordEnds
              /\ n < Len(s) => s[n + 1] \in WordEnds
  IN  SubSeq(s, from + 1, to)

HasReturned(f) == pc = "returned" /\ call.f = f

\* The buffer holds s and its terminator.
Holds(s) == /\ \A i \in DOMAIN s : buf[i - 1] = s[i]
            /\ buf[Len(s)] = NUL
-----------------------------------------------------------------------------
(* Properties.                                                             *)

\* Types and bounds.  Nothing behind the client's buffer is written, whatever
\* the lengths of the strings and of the words of stdin.
TypeOK ==
  /\ pc \in {"idle", "print", "parse", "length", "copy", "equals", "skip",
             "word", "returned", "exited"}
  /\ DOMAIN buf = 0..(size - 1)
  /\ \A i \in DOMAIN buf : buf[i] \in Nat
  /\ rax \in Nat /\ rcx \in Nat /\ rdx \in Nat
  /\ negative \in BOOLEAN

\* What is printed is the decimal notation of the number, with its sign and no
\* leading zero, for every pattern of a register, the one without a negation
\* included; a string is printed whole, without its terminator.
PrintedText ==
  /\ HasReturned("print_string") => stdout = call.s
  /\ HasReturned("print_uint") => Decimal(stdout, call.n)
  /\ HasReturned("print_int") =>
       LET n == Signed(call.n)
       IN  IF n < 0 THEN Head(stdout) = MINUS /\ Decimal(Tail(stdout), -n)
           ELSE Decimal(stdout, n)

\* What is parsed is the number the leading digits denote, modulo the width of
\* the register, and its length: the sign counts, what follows does not.  The
\* length is 0 when there is no number; nothing is said of a sign without digits,
\* where lib.inc:249 and 255 want 0, too, and the code counts the sign.
ParsedValue ==
  /\ HasReturned("parse_uint") =>
       LET ds == DigitsOf(call.s)
       IN  rdx = Len(ds) /\ rax = Number(ds) % Word
  /\ HasReturned("parse_int") =>
       IF byte(call.s, 0) = MINUS
       THEN LET ds == DigitsOf(Tail(call.s))
            IN  ds # <<>> => rdx = Len(ds) + 1 /\ (rax + Number(ds)) % Word = 0
       ELSE LET ds == DigitsOf(call.s)
            IN  rdx = Len(ds) /\ rax = Number(ds) % Word

\* string_length counts the characters before the terminator, and string_copy
\* copies them and the terminator, or leaves the buffer alone and returns 0:
\* exactly when both do not fit.
CopyVerdict ==
  /\ HasReturned("string_length") => rax = Len(call.s)
  /\ HasReturned("string_copy") =>
       IF Len(call.s) < size
       THEN rax = Len(call.s) /\ Holds(call.s)
       ELSE rax = 0 /\ \A i \in DOMAIN buf : buf[i] = JUNK

\* string_equals tells equal strings from others, prefixes included.
EqualsVerdict ==
  HasReturned("string_equals") => rax = (IF call.s = call.t THEN 1 ELSE 0)

\* Every call of read_word returns the next word of stdin, terminated, and its
\* length, and takes the character that ended it and no other; or it returns 0,
\* exactly when the word and its terminator do not fit.
WordRead ==
  HasReturned("read_word") =>
    LET w == WordOf(before)
        taken == BlanksOf(before) + Len(w) + 1
    IN  IF Len(w) < size
        THEN rax = BUF /\ rdx = Len(w) /\ Holds(w)
             /\ stdin = SubSeq(before, taken + 1, Len(before))
        ELSE rax = 0
-----------------------------------------------------------------------------
(* What the comments say and the code does not do.                         *)

\* lib.inc: a word ends at white space, a line feed included.
NoBlankInWord ==
  HasReturned("read_word") /\ rax = BUF =>
    \A i \in 0..(rdx - 1) : buf[i] \notin {SPACE, TAB, LF}
===============================================================================
