------------------------------- MODULE MCMemTests -------------------------------
(***************************************************************************)
(* The allocator with the sizes it has in the code, under its unit tests,  *)
(* searches of every small list, and the test program.  A behaviour is one *)
(* test, or one run of the program.                                        *)
(***************************************************************************)
EXTENDS MemTests, TestProgram

\* A byte more or less than what one, two and four blocks of 128 have room for.
MCSearches == SearchTests({111, 112, 239, 240, 495, 496})

\* A page at HEAP_START, and the page behind the heap of the test program.
MCOtherPages == {4096, 16384}

MCInit ==
  \/ /\ \E u \in UnitTests \cup MCSearches : UnitInit(u)
     /\ test = 0
     /\ stage = "over"
     /\ real = 0
     /\ addrs = <<>>
     /\ freed = 0
     /\ failed = {}
     /\ refused = FALSE
  \/ /\ ProgramInit
     /\ unit = free_null
     /\ phase = "none"
     /\ result = Void
     /\ calls = 0
     /\ stub_ok = TRUE

MCNext ==
  \/ UnitNext /\ UNCHANGED program_vars
  \/ run_tests /\ UNCHANGED unit_vars

MCSpec == MCInit /\ [][MCNext]_<<vars, unit_vars, program_vars>>
================================================================================
