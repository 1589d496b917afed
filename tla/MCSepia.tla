-------------------------------- MODULE MCSepia --------------------------------
(***************************************************************************)
(* Small images for the runs of Sepia, or a run of the program around the  *)
(* two filters: a behaviour is one or the other.                           *)
(***************************************************************************)
EXTENDS SepiaProgram

\* Colours <<b, g, r>>: no two alike in a channel's place; black, white and
\* the primaries, whose channels saturate; the second has a whole tone, the
\* third one in the middle.
MCColours == <<<<0, 0, 0>>, <<100, 100, 100>>, <<100, 60, 120>>,
               <<255, 255, 255>>, <<255, 0, 0>>, <<0, 255, 0>>, <<0, 0, 255>>,
               <<10, 90, 170>>, <<201, 33, 77>>>>

\* The image of the colours in turn, beginning with colour k.
MCImage(w, h, k) ==
  [width |-> w, height |-> h,
   data |-> [o \in 0..(3 * w * h - 1) |->
               MCColours[1 + ((k + (o \div 3)) % Len(MCColours))][1 + (o % 3)]]]

\* At most nine pixels: two whole quads and the leftovers of all sizes.
MCSources ==
  {MCImage(w, h, k) : w \in 0..3, h \in 0..3, k \in 0..8}
    \cup {MCImage(5, 1, k) : k \in 0..8} \cup {MCImage(1, 7, k) : k \in 0..8}

MCInit ==
  \/ /\ Init
     /\ files = [p \in {} |-> ""] /\ named = files /\ device = files
     /\ pass = 0 /\ step = "none" /\ image = <<>> /\ blocks = {} /\ time = files
  \/ /\ ProgramInit
     /\ source \in {MCImage(0, 0, 0)}
     /\ pc = "done"
     /\ new_asm = NULL /\ new_c = NULL
     /\ at = 0 /\ rdx = 0 /\ row = 0 /\ col = 0

MCNext ==
  \/ Next /\ UNCHANGED program_vars
  \/ main /\ UNCHANGED vars

MCSpec == MCInit /\ [][MCNext]_<<vars, program_vars>>
===============================================================================
