--------------------------------- MODULE MCMem ----------------------------------
(***************************************************************************)
(* A small heap for TLC: pages of 8 bytes, regions of at least two pages,  *)
(* headers of 2 bytes, contents of at least 4, and addresses below AddrLimit.*)
(* The heap starts at the third page, so that a region may come to lie     *)
(* before it, next to it, or past a page of the rest of the process.       *)
(***************************************************************************)
EXTENDS Mem

\* 1 is below the smallest capacity, 8 leaves exactly the smallest second
\* block in a region of 16, 15 fits a region only if the header is counted,
\* 125 wraps when rounded to pages.
MCQueries == {1, 8, 15, 125}

MCOtherPages == {24, 40}
================================================================================
