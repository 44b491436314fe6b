------------------------------ MODULE Containers ------------------------------
(***************************************************************************)
(* What the editors of files in files share: the directory that pack reads *)
(* and unpack fills, the image that was written, and the data an editor    *)
(* keeps.  The other state is that of FsWalk: the image asked for (vol),   *)
(* the command, what was printed (out) and the place a loop has come to    *)
(* (at).  A file is a sequence of units; numbers are modulo Word.          *)
(***************************************************************************)
EXTENDS FsWalk

CONSTANTS Word      \* 2^32

ASSUME WordAssumption == Word \in Nat /\ Word % 2 = 0 /\ Word > 0

VARIABLES stage,   \* what the command does next
          dir,     \* [cfg, files]: the configuration in the directory, and its other files
          loaded,  \* the private data
          packed   \* [head, entries, units]: the image

containerVars == <<stage, dir, loaded, packed>>
readerVars == <<image, dirs, used, error, img>>

Containers == {"fdt", "dtimg", "bootimg"}
Stages == {"", "start", "unpack", "entry", "pack", "section", "end"}

NoFiles == [f \in {} |-> <<>>]
NoDirectory == [cfg |-> <<>>, files |-> NoFiles]
NoImage == [head |-> <<>>, entries |-> <<>>, units |-> <<>>]
IsFiles(f) == \A name \in DOMAIN f : f[name] \in Seq(Nat)
IsImage(i) == DOMAIN i = {"head", "entries", "units"} /\ i.units \in Seq(Nat)

ContainersTypeOK ==
  /\ stage \in Stages /\ (pc = "run" /\ vol.fs \in Containers => stage # "")
  /\ DOMAIN dir = {"cfg", "files"} /\ IsFiles(dir.files)
  /\ IsImage(packed)

ContainersInit ==
  /\ stage = IF vol.fs \in Containers THEN "start" ELSE ""
  /\ dir = IF vol.fs \in Containers THEN vol.dir ELSE NoDirectory
  /\ packed = IF vol.fs \in Containers THEN vol.image ELSE NoImage
  /\ loaded = <<>>

(* read() or dd of count units at an offset: less at the end of a file.    *)
ReadUnits(units, offset, count) == SubSeq(units, offset + 1, Lesser(offset + count, Len(units)))

(* A file that cannot be opened is one of vol.locked.                      *)
With(files, name, units) == [n \in {name} |-> units] @@ files
Locked(name) == name \in vol.locked

(* The command goes on in a stage, or ends.                                *)
Begins(fs, names) == pc = "detect" /\ vol.fs = fs /\ cmd.name \in names
In(fs, s) == pc = "run" /\ vol.fs = fs /\ stage = s
Stage(s) == pc' = "run" /\ stage' = s /\ UNCHANGED ret
Stops(result) == Done(result) /\ UNCHANGED stage
=============================================================================
