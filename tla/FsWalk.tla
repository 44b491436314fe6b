-------------------------------- MODULE FsWalk --------------------------------
(***************************************************************************)
(* What the file system readers of fs/ share: the image they read, blocks  *)
(* of it that cannot be read, the directories being walked, what a command *)
(* printed or made, and the blocks chosen for an android sparse image.     *)
(*                                                                         *)
(* A block is a record with what it holds; only the blocks that hold       *)
(* something are in vol.block.  Files are sequences of units, BlkUnits to  *)
(* a block.  A read that fails is a block of bad.                          *)
(***************************************************************************)
EXTENDS Files, SequencesExt, FiniteSetsExt, Functions

CONSTANTS Volumes,     \* the images, by number
          Commands,    \* of each kind of file system, the commands asked for
          BlkUnits,    \* units in a block
          WrapBlocks   \* blocks in 4 GiB: offsets computed in 32 bits wrap there

ASSUME FsAssumption == BlkUnits \in Nat \ {0} /\ WrapBlocks \in Nat \ {0}

VARIABLES volume,  \* the image
          bad,     \* blocks that cannot be read
          cmd,     \* the command
          pc,      \* "detect", "run" or "done"
          dirs,    \* directories being walked: entries still to come, and depth
          at,      \* the inode, allocation group or block a scan has come to
          out,     \* what was printed, or made in the output directory
          used,    \* blocks given to android_sparse_add_chunk
          error,   \* input->error
          img,     \* the sparse image: the block whose data each block got
          ret      \* the result

image == <<volume, bad, cmd>>
vars == <<image, pc, dirs, at, out, used, error, img, ret>>

Hole == 0
InputFd == 3        \* the descriptor of the image
vol == Volumes[volume]
FsTypeOK ==
  /\ volume \in DOMAIN Volumes /\ bad \subseteq 0 .. vol.blocks - 1 /\ cmd \in Commands[vol.fs]
  /\ pc \in {"detect", "run", "done"}
  /\ at \in Nat /\ error \in BOOLEAN /\ ret \in {0, -1, InputFd}
  /\ \A i \in DOMAIN dirs : dirs[i].depth \in Nat
  /\ used \subseteq 0 .. vol.total_blocks - 1 /\ DOMAIN img \subseteq 0 .. vol.blocks - 1

FsInit(blocks) ==
  /\ volume \in DOMAIN Volumes /\ cmd \in Commands[vol.fs]
  /\ bad \in {{}} \cup {{b} : b \in blocks \cap 0 .. vol.blocks - 1}
  /\ pc = "detect" /\ dirs = <<>> /\ at = 0 /\ out = <<>>
  /\ used = {} /\ error = FALSE /\ img = <<>> /\ ret = 0

Empty == [kind |-> "data", u |-> [i \in 1 .. BlkUnits |-> Hole]]
Holds(b) == IF b \in DOMAIN vol.block THEN vol.block[b] ELSE Empty
Units(b) == IF Holds(b).kind = "data" THEN Holds(b).u ELSE Empty.u
Readable(b) == b < vol.blocks /\ b \notin bad
Least(S) == CHOOSE x \in S : \A y \in S : x <= y
Lesser(a, b) == IF a < b THEN a ELSE b

Done(result) == pc' = "done" /\ ret' = result
Running(name) == pc = "run" /\ cmd.name = name

(* read() of count units from block b on: it stops at a block that cannot  *)
(* be read, and dd with it.                                                *)
DdBlocks(b, count) ==
  LET n == (count + BlkUnits - 1) \div BlkUnits
      hit == {i \in 0 .. n - 1 : b + i \in bad}
      good == IF hit = {} THEN count ELSE Least(hit) * BlkUnits
  IN [u \in 1 .. good |-> Units(b + ((u - 1) \div BlkUnits))[((u - 1) % BlkUnits) + 1]]

(* The walk of a directory: enter one, take its next entry, leave it.      *)
Frame(ents, depth) == [ents |-> ents, depth |-> depth]
Top == Last(dirs)
Walking == dirs # <<>> /\ Top.ents # <<>>
Entry == Head(Top.ents)
Rest == [dirs EXCEPT ![Len(dirs)].ents = Tail(@)]
Skip == dirs' = Rest /\ UNCHANGED <<out, pc, ret>>
Enter(ents) == dirs' = Append(Rest, Frame(ents, Top.depth + 1))

(* What a reader does with the directory it was asked for, with one that   *)
(* an entry names, and after any other entry.                              *)
Starts(d) == IF d.ok THEN dirs' = <<Frame(d.ents, 0)>> /\ UNCHANGED <<pc, ret>>
                     ELSE Done(-1) /\ UNCHANGED dirs
Descends(d) == IF d.ok THEN Enter(d.ents) /\ UNCHANGED <<pc, ret>> ELSE Done(-1) /\ UNCHANGED dirs
Goes(ok) == IF ok THEN dirs' = Rest /\ UNCHANGED <<pc, ret>> ELSE Done(-1) /\ UNCHANGED dirs
Line(depth, d, size, data) ==
  [depth |-> depth, name |-> d.name, ino |-> d.ino, is |-> d.is, size |-> size, data |-> data]
Made(d, size, data) == Line(Top.depth, d, size, data)

(* A row of a table that a command prints.                                 *)
Logged(is, name, ino, size) == Line(0, [is |-> is, name |-> name, ino |-> ino], size, <<>>)
WithData(line, data) == [line EXCEPT !.data = data]

DirEnds ==
  /\ pc = "run" /\ dirs # <<>> /\ Top.ents = <<>>
  /\ dirs' = Front(dirs)
  /\ IF Len(dirs) = 1 THEN Done(0) ELSE UNCHANGED <<pc, ret>>
  /\ UNCHANGED <<image, at, out, used, error, img>>

(* A write_cb of the readers copies a run of blocks from an offset and of  *)
(* a length computed in 32 bits, and does not look at the result of dd.    *)
WriteChunks(blocks) ==
  LET Start(b) == CHOOSE s \in 0 .. b :
                    /\ s .. b \subseteq blocks /\ (s = 0 \/ s - 1 \notin blocks)
      End(b) == CHOOSE e \in b .. vol.blocks - 1 :
                    /\ b .. e \subseteq blocks /\ (e = vol.blocks - 1 \/ e + 1 \notin blocks)
      From(b) == (Start(b) % WrapBlocks) + b - Start(b)
      Copied(b) == /\ b - Start(b) < (End(b) - Start(b) + 1) % WrapBlocks
                   /\ bad \cap From(Start(b)) .. From(b) = {}
  IN [b \in {x \in blocks : Copied(x)} |-> From(b)]
=============================================================================
