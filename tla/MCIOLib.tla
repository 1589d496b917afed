------------------------------- MODULE MCIOLib -------------------------------
(***************************************************************************)
(* Short strings and every short stdin for the runs of IOLib.              *)
(***************************************************************************)
EXTENDS IOLib

MCUpTo(n, S) == UNION {[1..k -> S] : k \in 0..n}

\* '-', '0', '7', 'a': signs in and out of place, leading zeros, numbers with
\* one digit more than a register holds.
MCTexts == MCUpTo(4, {MINUS, ZERO, ZERO + 7, 97})

MCShort == MCUpTo(2, {MINUS, ZERO, 97})
MCPairs == MCShort \X MCShort

MCInputs == MCUpTo(5, {NUL, SPACE, TAB, LF, 97})
===============================================================================
