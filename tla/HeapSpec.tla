-------------------------------- MODULE HeapSpec --------------------------------
(***************************************************************************)
(* What a heap promises its client: the ranges it grants lie in memory it  *)
(* has obtained, are as long as asked, never overlap, and stay as they are *)
(* until the client gives them back.  Mem.tla implements it.               *)
(***************************************************************************)
EXTENDS Integers

CONSTANT Requests  \* the sizes a client may ask for

VARIABLES
  arena,  \* the bytes obtained from the kernel
  owned   \* the ranges granted: start -> [len, asked]

Bytes(p, len) == p..(p + len - 1)

\* owned' keeps the ranges of owned that start in S as they were.
Keeps(S) ==
  /\ S \subseteq DOMAIN owned'
  /\ \A p \in S : owned'[p] = owned[p]

Init == arena = {} /\ DOMAIN owned = {}

\* The heap obtains more memory.
Extend == arena \subseteq arena' /\ arena # arena' /\ UNCHANGED owned

\* The heap grants a range of its arena that meets no range granted before.
Grant ==
  /\ UNCHANGED arena
  /\ Keeps(DOMAIN owned)
  /\ \E p \in DOMAIN owned' \ DOMAIN owned :
       /\ DOMAIN owned' = DOMAIN owned \cup {p}
       /\ owned'[p].asked \in Requests
       /\ owned'[p].len >= owned'[p].asked
       /\ Bytes(p, owned'[p].len) \subseteq arena
       /\ \A r \in DOMAIN owned :
            Bytes(p, owned'[p].len) \cap Bytes(r, owned[r].len) = {}

\* The client gives a range back.
Release ==
  /\ UNCHANGED arena
  /\ \E p \in DOMAIN owned : DOMAIN owned' = DOMAIN owned \ {p}
  /\ Keeps(DOMAIN owned')

Next == Extend \/ Grant \/ Release

Spec == Init /\ [][Next]_<<arena, owned>>
================================================================================
