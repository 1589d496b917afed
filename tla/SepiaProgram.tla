------------------------------ MODULE SepiaProgram ------------------------------
(***************************************************************************)
(* main of SepiaFilterCAssembly: two passes of process over the same input *)
(* path, first with the assembly, then with the C code, each a read, a     *)
(* filter and a write, whatever became of the pass before.                 *)
(*                                                                         *)
(* A picture is the sequence of filters that made it from the one the user *)
(* has: what a filter computes is the subject of Sepia, and how the rows   *)
(* are read and written, by the same code, that of Rotation.  A file is    *)
(* whole, or cut in the header or in the pixels, or there is none.         *)
(***************************************************************************)
EXTENDS Sepia

Paths == {"input", "output_asm", "output_c"}

Passes == <<"asm", "c">>

VARIABLES
  files,      \* path -> file
  named,      \* pass -> the path that argv names for its output
  device,     \* path -> can it be opened to write, and how much does it hold?
  pass,       \* the number of the pass
  step,       \* what it does next; "over" and "segfault" at the end
  image,      \* the picture in memory
  blocks,     \* the malloc-ed images: <<pass, "input_img" or "processed_img">>
  time        \* pass -> "-1" or "measured", what main prints

program_vars == <<files, named, device, pass, step, image, blocks, time>>

-----------------------------------------------------------------------------

File(cut, picture) == [cut |-> cut, picture |-> picture]
NoFile == File("absent", <<>>)
Whole(picture) == File("nowhere", picture)

Devices == {"closed", "none", "header", "all"}

ProgramInit ==
  /\ files \in {[p \in Paths |-> IF p = "input" THEN f ELSE NoFile] :
                  f \in {NoFile, Whole(<<>>), File("header", <<>>), File("pixels", <<>>)}}
  /\ named \in [{"asm", "c"} -> Paths]
  /\ device \in [Paths -> Devices]
  /\ pass = 1
  /\ step = "read"
  /\ image = <<>>
  /\ blocks = {}
  /\ time = [p \in {"asm", "c"} |-> "none"]

filter_swapped == <<"c", "asm">>[pass]   \* mutant: the C code first

\* The filter of the running pass.
filter == Passes[pass]

Block(name) == <<filter, name>>

\* process returns, and get_bmp_transform_time.
Returns(ok) ==
  /\ time' = [time EXCEPT ![filter] = IF ok THEN "measured" ELSE "-1"]
  /\ pass' = pass + 1
  /\ step' = IF pass = Len(Passes) THEN "over" ELSE "read"
  /\ image' = <<>>

Faults == step' = "segfault" /\ UNCHANGED <<files, pass, image, blocks, time>>

\* No file, no header, or pixels that are missing once the image has its
\* block: process returns before it destroys the image.
ReadFails ==
  /\ step = "read"
  /\ \/ files["input"].cut \in {"absent", "header"} /\ UNCHANGED blocks
     \/ files["input"].cut = "pixels" /\ blocks' = blocks \cup {Block("input_img")}
     \* fread to NULL may fail as well as fault.
     \/ files["input"].cut \in {"pixels", "nowhere"} /\ MallocMayFail /\ UNCHANGED blocks
  /\ Returns(FALSE)
  /\ UNCHANGED <<files, named, device>>

Read ==
  /\ step = "read"
  /\ files["input"].cut = "nowhere"
  /\ image' = files["input"].picture
  /\ blocks' = blocks \cup {Block("input_img")}
  /\ step' = "filter"
  /\ UNCHANGED <<files, named, device, pass, time>>

Filter ==
  /\ step = "filter"
  /\ image' = Append(image, filter)
  /\ blocks' = (blocks \cup {Block("processed_img")}) \ {Block("input_img")}
  /\ step' = "write"
  /\ UNCHANGED <<files, named, device, pass, time>>

\* A NULL that nobody looks at.
NullImage ==
  /\ MallocMayFail
  /\ \/ step = "read" /\ files["input"].cut \in {"pixels", "nowhere"}
     \/ step = "filter"
  /\ Faults
  /\ UNCHANGED <<named, device>>

\* What remains of a file on a device that does not hold all of it.
Remains(holds, picture) ==
  CASE holds = "none"   -> File("header", <<>>)
    [] holds = "header" -> File("pixels", picture)
    [] holds = "all"    -> Whole(picture)

\* Only a header that went to the device at once shows that there was no room.
Write ==
  LET path == named[filter]
  IN  /\ step = "write"
      /\ \/ /\ device[path] = "closed"
            /\ Returns(FALSE)
            /\ UNCHANGED files
         \/ /\ device[path] # "closed"
            /\ files' = [files EXCEPT ![path] = Remains(device[path], image)]
            /\ \/ Returns(TRUE)
               \/ device[path] = "none" /\ Returns(FALSE)
      /\ blocks' = blocks \ {Block("processed_img")}
      /\ UNCHANGED <<named, device>>

main == ReadFails \/ Read \/ Filter \/ NullImage \/ Write

ProgramSpec == ProgramInit /\ [][main]_program_vars

-----------------------------------------------------------------------------
(* What must hold.                                                         *)

\* What a pass finds at the input path when it has come to its end: the
\* user's picture, and for the second one that of the first if that was saved
\* there.
FoundBy(p) ==
  IF p = "c" /\ named["asm"] = "input" /\ time["asm"] = "measured" THEN <<"asm">> ELSE <<>>

\* A pass that main prints a time for, on a device with room, has saved the
\* picture it found, once more filtered, and no pass without a time has saved
\* a picture, whatever paths are the same: the first output lasts unless the
\* second pass writes there.  At the end only the images of cut files are left
\* in memory (main.c:41-44, processor.c:14-30).
OutputsSaved ==
  step = "over" =>
    /\ \A p \in {"asm", "c"} :
         time[p] = "measured" /\ device[named[p]] = "all"
           /\ (p = "asm" => named["c"] # named["asm"] \/ time["c"] = "-1")
         => files[named[p]] = Whole(Append(FoundBy(p), p))
    /\ \A path \in Paths, p \in {"asm", "c"} :
         p \in {files[path].picture[i] : i \in DOMAIN files[path].picture} =>
           time[p] = "measured"
    /\ \A p \in {"asm", "c"} :
         {b \in blocks : b[1] = p} \subseteq
           IF time[p] = "-1" THEN {<<p, "input_img">>} ELSE {}
================================================================================
