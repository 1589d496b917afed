----------------------------- MODULE MCDictionary -----------------------------
(***************************************************************************)
(* Small dictionaries and every short stdin for the runs of Dictionary.    *)
(* The keys keep of "first user", "second user" and "third user" what      *)
(* matters to find_word: the first character and a common rest.            *)
(***************************************************************************)
EXTENDS Dictionary

MCUser(c) == [key |-> <<c, 117>>, value |-> <<98, c>>]    \* "cu", "bc"

MCWords == <<MCUser(116), MCUser(115), MCUser(102)>>      \* words.inc

\* Two keys that begin alike, and one that is the end of another.
MCOverlapping == <<[key |-> <<102>>, value |-> <<>>],
                   [key |-> <<117>>, value |-> <<98>>], MCUser(102)>>

MCDictionaries == {MCWords, MCOverlapping}

MCOnlyWords == {MCWords}

MCChars == {NUL, LF, SPACE, 102, 115, 117}

\* Every stdin of up to four characters, the longer ones without NUL.
MCInputs ==
  UNION {[1..n -> MCChars \cup {TAB}] : n \in 0..4} \cup [1..5 -> MCChars \ {NUL}]
===============================================================================
