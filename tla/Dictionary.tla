------------------------------ MODULE Dictionary ------------------------------
(***************************************************************************)
(* The dictionary program of DictionaryAssembly/src: main.asm with         *)
(* read_line, find_word, string_equals and the printing functions of       *)
(* lib.asm, over the list that the macro of colon.inc lays out.            *)
(*                                                                         *)
(* A step is one iteration of a loop, or the code between two loops.       *)
(* Characters are their codes.  Registers that outlive an iteration are    *)
(* variables.                                                              *)
(***************************************************************************)
EXTENDS Integers, Sequences, SequencesExt

CONSTANTS
  BufSize,        \* buf_size
  Dictionaries,   \* what words.inc may define: sequences of [key, value]
  Inputs          \* what stdin may hold

NUL == 0
TAB == 9
LF == 10
SPACE == 32

Text == Seq(Nat \ {NUL})

ASSUME DictionaryAssumption ==
  /\ BufSize \in Nat \ {0}
  /\ Inputs \subseteq Seq(Nat)
  /\ \A d \in Dictionaries : d # <<>> /\ d \in Seq([key : Text, value : Text])

VARIABLES
  dict,     \* the words the program was assembled with, in the order of words.inc
  given,    \* all of stdin
  pc,       \* where the program is
  stdin,    \* what is left of stdin
  char,     \* al in read_line
  count,    \* r13 in read_line: the characters of the line so far
  top,      \* rbx in read_line: where the next one goes, from buf_addr
  buf,      \* the bytes that have been written from buf_addr on
  entry,    \* rbx in find_word: the pair under the loop; 0 is the end
  rdi,      \* where string_equals is in the line, from buf_addr
  rsi,      \* where it is in the key
  stdout, stderr,
  rax,      \* the status main puts into rax before it calls exit
  status    \* the status the process exits with; -1 before

vars == <<dict, given, pc, stdin, char, count, top, buf, entry, rdi, rsi,
          stdout, stderr, rax, status>>

-----------------------------------------------------------------------------
(* The list.  A pair is its link, the key and the value, each with its     *)
(* terminator; dict_pointer is the last pair of words.inc.                 *)

next(e) == e - 1

dict_pointer == Len(dict)

\* The bytes after the link of pair e.
pair(e) == dict[e].key \o <<NUL>> \o dict[e].value \o <<NUL>>

\* The characters of s from offset o, counted from 0, to the terminator.
string_from(s, o) ==
  LET end == CHOOSE i \in (o + 1)..Len(s) :
               s[i] = NUL /\ \A j \in (o + 1)..(i - 1) : s[j] # NUL
  IN  SubSeq(s, o + 1, end - 1)

string_length(s, o) == Len(string_from(s, o))

-----------------------------------------------------------------------------

Init ==
  /\ dict \in Dictionaries
  /\ given \in Inputs
  /\ stdin = given
  /\ pc = "skip"
  /\ char = NUL
  /\ count = 0 /\ top = 0
  /\ buf = [i \in 0..(BufSize - 1) |-> NUL]   \* .bss
  /\ entry = 0 /\ rdi = 0 /\ rsi = 0
  /\ stdout = <<>> /\ stderr = "none"
  /\ rax = -1 /\ status = -1

\* The byte c stored at buf_addr + i, wherever that is.
stored(i, c) == [j \in DOMAIN buf \cup {i} |-> IF j = i THEN c ELSE buf[j]]

\* char' and stdin' after read_char: at the end of stdin it returns 0.
read_char ==
  /\ char' = IF stdin = <<>> THEN NUL ELSE Head(stdin)
  /\ stdin' = IF stdin = <<>> THEN <<>> ELSE Tail(stdin)

\* exit ends the process with what rdi holds.
exit(in_rdi) == status' = in_rdi /\ pc' = "exited"

\* print_error_string leaves the descriptor it wrote to in rdi.
Fails(message) ==
  /\ stderr' = message
  /\ rax' = 1
  /\ exit(2)

-----------------------------------------------------------------------------
(* read_line.                                                              *)

Blank == {SPACE, TAB, LF}

\* .start_loop: blanks before the line are dropped.
Skip ==
  /\ pc = "skip"
  /\ read_char
  /\ pc' = IF char' \in Blank THEN "skip" ELSE "line"
  /\ UNCHANGED <<dict, given, count, top, buf, entry, rdi, rsi, stdout, stderr,
                 rax, status>>

LineChar_late_check ==  \* mutant: the line may fill the buffer
  /\ pc = "line"
  /\ char \notin {LF, NUL}
  /\ count + 1 # BufSize + 1
  /\ count' = count + 1
  /\ buf' = stored(top, char)
  /\ top' = top + 1
  /\ read_char
  /\ UNCHANGED <<dict, given, pc, entry, rdi, rsi, stdout, stderr, rax, status>>

LineChar_in_place ==  \* mutant: the pointer does not move
  /\ pc = "line"
  /\ char \notin {LF, NUL}
  /\ count + 1 # BufSize
  /\ count' = count + 1
  /\ buf' = stored(top, char)
  /\ read_char
  /\ UNCHANGED <<dict, given, pc, top, entry, rdi, rsi, stdout, stderr, rax,
                 status>>

\* .loop: one more character of the line.
LineChar ==
  /\ pc = "line"
  /\ char \notin {LF, NUL}
  /\ count + 1 # BufSize
  /\ count' = count + 1
  /\ buf' = stored(top, char)
  /\ top' = top + 1
  /\ read_char
  /\ UNCHANGED <<dict, given, pc, entry, rdi, rsi, stdout, stderr, rax, status>>

\* .buf_ovflow, in read_line and then in main.
LineOverflows ==
  /\ pc = "line"
  /\ char \notin {LF, NUL}
  /\ count + 1 = BufSize
  /\ count' = count + 1
  /\ Fails("buffer overflow")
  /\ UNCHANGED <<dict, given, stdin, char, top, buf, entry, rdi, rsi, stdout>>

\* .end: the terminator; main calls find_word.
LineEnds ==
  /\ pc = "line"
  /\ char \in {LF, NUL}
  /\ buf' = stored(top, NUL)
  /\ entry' = dict_pointer
  /\ rdi' = 0 /\ rsi' = 0
  /\ pc' = "equals"
  /\ UNCHANGED <<dict, given, stdin, char, count, top, stdout, stderr, rax, status>>

-----------------------------------------------------------------------------
(* find_word and string_equals.                                            *)

key_char == pair(entry)[rsi + 1]

EqualsNext_past_end ==  \* mutant: the terminator is a character like any other
  /\ pc = "equals"
  /\ buf[rdi] = key_char
  /\ rdi' = rdi + 1
  /\ rsi' = rsi + 1
  /\ UNCHANGED <<dict, given, pc, stdin, char, count, top, buf, entry, stdout,
                 stderr, rax, status>>

\* Two characters are the same: on to the next ones.
EqualsNext ==
  /\ pc = "equals"
  /\ buf[rdi] = key_char
  /\ buf[rdi] # NUL
  /\ rdi' = rdi + 1
  /\ rsi' = rsi + 1
  /\ UNCHANGED <<dict, given, pc, stdin, char, count, top, buf, entry, stdout,
                 stderr, rax, status>>

EqualsDiffers_stays ==  \* mutant: the list is not advanced
  /\ pc = "equals"
  /\ buf[rdi] # key_char
  /\ next(entry) # 0
  /\ rsi' = 0
  /\ UNCHANGED <<dict, given, pc, stdin, char, count, top, buf, entry, rdi,
                 stdout, stderr, rax, status>>

EqualsDiffers_skips ==  \* mutant: every second pair is left out
  /\ pc = "equals"
  /\ buf[rdi] # key_char
  /\ next(entry) # 0
  /\ entry' = IF next(next(entry)) # 0 THEN next(next(entry)) ELSE next(entry)
  /\ rsi' = 0
  /\ UNCHANGED <<dict, given, pc, stdin, char, count, top, buf, rdi, stdout,
                 stderr, rax, status>>

\* Two characters differ: on to the next pair.  string_equals has moved rdi,
\* and find_word does not move it back.
EqualsDiffers ==
  /\ pc = "equals"
  /\ buf[rdi] # key_char
  /\ next(entry) # 0
  /\ entry' = next(entry)
  /\ rsi' = 0
  /\ UNCHANGED <<dict, given, pc, stdin, char, count, top, buf, rdi, stdout,
                 stderr, rax, status>>

Found_at_terminator ==  \* mutant: the value is taken to begin with the terminator
  /\ pc = "equals"
  /\ buf[rdi] = key_char
  /\ buf[rdi] = NUL
  /\ LET len == string_length(pair(entry), 0)
     IN  stdout' = Append(string_from(pair(entry), len), LF)
  /\ rax' = 0
  /\ exit(1)
  /\ UNCHANGED <<dict, given, stdin, char, count, top, buf, entry, rdi, rsi, stderr>>

\* Both strings end: main prints what follows the key.  print_newline ends
\* with descriptor 1 in rdi.
Found ==
  /\ pc = "equals"
  /\ buf[rdi] = key_char
  /\ buf[rdi] = NUL
  /\ LET len == string_length(pair(entry), 0)
     IN  stdout' = Append(string_from(pair(entry), len + 1), LF)
  /\ rax' = 0
  /\ exit(1)
  /\ UNCHANGED <<dict, given, stdin, char, count, top, buf, entry, rdi, rsi, stderr>>

NotFound ==
  /\ pc = "equals"
  /\ buf[rdi] # key_char
  /\ next(entry) = 0
  /\ entry' = 0
  /\ Fails("key not found")
  /\ UNCHANGED <<dict, given, stdin, char, count, top, buf, rdi, rsi, stdout>>

-----------------------------------------------------------------------------

Stopped == pc = "exited" /\ UNCHANGED vars

Step ==
  \/ Skip \/ LineChar \/ LineOverflows \/ LineEnds
  \/ EqualsNext \/ EqualsDiffers \/ Found \/ NotFound

Next == Step \/ Stopped

Spec == Init /\ [][Next]_vars

\* The process runs until it exits, and stdin is finite.
FairSpec == Spec /\ WF_vars(Step)
-----------------------------------------------------------------------------
(* The line, from what stdin holds.                                        *)

LineStarts(s) == {i \in 1..Len(s) : s[i] \notin Blank}

LineEndsAt(s, i) ==
  CHOOSE j \in i..(Len(s) + 1) :
    /\ j = Len(s) + 1 \/ s[j] \in {LF, NUL}
    /\ \A k \in i..(j - 1) : s[k] \notin {LF, NUL}

\* The first line of s that is not blank, without the blanks before it.
Line(s) ==
  IF LineStarts(s) = {} THEN <<>>
  ELSE LET i == CHOOSE i \in LineStarts(s) : \A j \in LineStarts(s) : i <= j
       IN  SubSeq(s, i, LineEndsAt(s, i) - 1)

LineFits == Len(Line(given)) < BufSize

\* Does the list hold another pair before pair i whose key begins as key i does?
Shadowed(i) ==
  \E j \in (i + 1)..Len(dict) :
    dict[j].key # <<>> /\ Head(dict[j].key) = Head(dict[i].key)

-----------------------------------------------------------------------------
(* Properties.                                                             *)

\* Types and bounds.  No byte outside the buffer is written, whatever stdin holds.
TypeOK ==
  /\ dict \in Dictionaries /\ given \in Inputs
  /\ pc \in {"skip", "line", "equals", "exited"}
  /\ DOMAIN buf = 0..(BufSize - 1)
  /\ \A i \in DOMAIN buf : buf[i] \in Nat
  /\ char \in Nat
  /\ count \in 0..BufSize /\ top \in 0..(BufSize - 1)
  /\ entry \in 0..Len(dict)
  /\ rdi \in Nat /\ rsi \in Nat
  /\ rax \in {-1, 0, 1} /\ status \in {-1, 1, 2}

\* The search compares the line, terminated, and nothing else of stdin; a line
\* is refused exactly when it and its terminator do not fit.
LineRead ==
  LET line == Line(given)
  IN  /\ pc = "equals" => /\ LineFits
                          /\ \A i \in DOMAIN line : buf[i - 1] = line[i]
                          /\ buf[Len(line)] = NUL
      /\ stderr = "buffer overflow" => ~LineFits

\* string_equals runs past the end of neither string, although rdi is never
\* set back between two keys: the line ends at the terminator behind it.
CursorsInside ==
  pc = "equals" => /\ entry \in DOMAIN dict
                   /\ rdi <= count /\ buf[count] = NUL
                   /\ rsi <= Len(dict[entry].key)

\* What is printed is the value of a pair, whole, and the line ends with the
\* key of that pair.
AnswerFromDictionary ==
  stdout # <<>> =>
    \E i \in DOMAIN dict :
      stdout = Append(dict[i].value, LF) /\ IsSuffix(dict[i].key, Line(given))

\* A key that no key before it in the list shares its first character with is
\* found, and it is its own value that is printed.
KeyFound ==
  pc = "exited" /\ LineFits =>
    \A i \in DOMAIN dict :
      dict[i].key # <<>> /\ dict[i].key = Line(given) /\ ~Shadowed(i) =>
        stdout = Append(dict[i].value, LF)

\* The program exits, whatever stdin holds.
Halts == <>(pc = "exited")

-----------------------------------------------------------------------------
(* What the comments say and the code does not do.                         *)

\* dict.asm: find_word returns the pair if the string is in the dictionary and
\* 0 otherwise.
FindsIffInDict ==
  pc = "exited" /\ LineFits =>
    (stdout # <<>> <=> \E i \in DOMAIN dict : dict[i].key = Line(given))
===============================================================================
