-------------------------------- MODULE Files --------------------------------
(***************************************************************************)
(* What a file holds after write() calls, for the models that follow what  *)
(* an operation leaves in a file.  A file is a sequence of units; offsets  *)
(* count from 0.  The kernel is external.                                  *)
(***************************************************************************)
EXTENDS Integers, Sequences

(* write() of units at an offset; a hole before it reads as hole.          *)
WriteAt(file, at, units, hole) ==
  [i \in 1 .. (IF at + Len(units) > Len(file) THEN at + Len(units) ELSE Len(file)) |->
     IF at < i /\ i <= at + Len(units) THEN units[i - at]
     ELSE IF i <= Len(file) THEN file[i] ELSE hole]

(* The unit at an offset; past the end of the file there is only hole.     *)
UnitAt(file, at, hole) == IF at < Len(file) THEN file[at + 1] ELSE hole
=============================================================================
