--------------------------------- MODULE Xfs ---------------------------------
(***************************************************************************)
(* fs/xfs.c: the headers and B+trees of the allocation groups, which are   *)
(* loaded when the image is detected; the sparse image, which has what     *)
(* their free space trees leave; a structure, an inode, and the scan for   *)
(* the magic numbers of structures.                                        *)
(***************************************************************************)
EXTENDS FsWalk

CONSTANTS InoCell,      \* 2^32: the inode numbers that have one cell
          StartBlocks   \* 2^48: the start blocks of an extent that are read whole

Xfs == vol.fs = "xfs"
AGs == 0 .. vol.ag_count - 1

-----------------------------------------------------------------------------
(* An allocation group starts with a block of four sectors, good those     *)
(* that have their magic.  Its offset is computed in 32 bits, but not that *)
(* of its trees.                                                           *)
Sectors == <<"sblock", "agf", "agi", "agfl">>
HeadBlock(ag) == (ag * vol.ag_blocks) % WrapBlocks
GoodSectors(ag) ==
  IF Readable(HeadBlock(ag)) /\ Holds(HeadBlock(ag)).kind = "ag" THEN Holds(HeadBlock(ag)).good ELSE {}
root(ag) == Holds(HeadBlock(ag)).root         \* the trees it has, and where they are
agf_freeblks(ag) == Holds(HeadBlock(ag)).freeblks
TreeBlock(ag, tree) == ag * vol.ag_blocks + root(ag)[tree]
xfs_alloc_read_bt(ag, tree) ==
  /\ Readable(TreeBlock(ag, tree))
  /\ Holds(TreeBlock(ag, tree)).kind = "bt" /\ Holds(TreeBlock(ag, tree)).tree = tree

(* A wrong magic after the first sector ends the loading without an error. *)
Loads(ag) == /\ GoodSectors(ag) = Range(Sectors)
             /\ \A tree \in DOMAIN root(ag) : xfs_alloc_read_bt(ag, tree)
Reached == {ag \in AGs : \A g \in 0 .. ag - 1 : Loads(g)}
Loaded == {ag \in Reached : Loads(ag)}
xfs_load_ags ==
  \A ag \in Reached \ Loaded : "sblock" \in GoodSectors(ag) /\ GoodSectors(ag) # Range(Sectors)

XfsDetect ==
  /\ Xfs /\ pc = "detect"
  /\ IF "sblock" \in GoodSectors(0) /\ xfs_load_ags THEN pc' = "run" /\ UNCHANGED ret ELSE Done(-1)
  /\ UNCHANGED <<image, dirs, at, out, used, error, img>>

-----------------------------------------------------------------------------
(* xfs_do_sparse: at is the allocation group.  used has the free blocks    *)
(* until the bitmask is inverted.  The root of a tree of several levels    *)
(* has the first record of each child where the records would be.          *)
HasMap(ag) == ag \in Loaded /\ "bnobt" \in DOMAIN root(ag)
Records(ag) == Holds(TreeBlock(ag, "bnobt")).recs
FreeOfMutant(ag) ==     \* mutant: the records of every group are taken for those of the first
  UNION {r.startblock .. r.startblock + r.blockcount - 1 : r \in Range(Records(ag))}
FreeOf(ag) ==
  UNION {LET b == ag * vol.ag_blocks + r.startblock IN b .. b + r.blockcount - 1 : r \in Range(Records(ag))}
freeblks(ag) == FoldLeft(LAMBDA n, r : n + r.blockcount, 0, Records(ag))
RefusesAg(ag) == \/ FreeOf(ag) \ 0 .. vol.total_blocks - 1 # {}
                 \/ freeblks(ag) # agf_freeblks(ag)

XfsSparseAg ==
  /\ Xfs /\ Running("sparse") /\ at \in AGs
  /\ at' = at + 1
  /\ CASE ~HasMap(at)               -> UNCHANGED <<used, pc, ret>>
       [] HasMap(at) /\ RefusesAg(at)  -> Done(-1) /\ UNCHANGED used
       [] HasMap(at) /\ ~RefusesAg(at) -> used' = used \cup FreeOf(at) /\ UNCHANGED <<pc, ret>>
  /\ UNCHANGED <<image, dirs, out, error, img>>

XfsSparseEnds ==
  /\ Xfs /\ Running("sparse") /\ at = vol.ag_count
  /\ used' = (0 .. vol.total_blocks - 1) \ used
  /\ img' = WriteChunks(used')
  /\ Done(0)
  /\ UNCHANGED <<image, dirs, at, out, error>>

-----------------------------------------------------------------------------
(* The structures in the sectors of a block.  An inode has two of them.    *)
Known == Sectors \o <<"bnobt", "cntbt", "inobt", "dinode", "log">>
InodeOf(h, i) == h.inode[((i - 1) * vol.inodes_per_block) \div Len(Sectors) + 1]
InodeStarts(i) == ((i - 1) * vol.inodes_per_block) % Len(Sectors) = 0
Structures(b) ==
  LET h == Holds(b)
  IN CASE h.kind = "ag"  -> [i \in DOMAIN Sectors |-> IF Sectors[i] \in h.good THEN Sectors[i] ELSE ""]
       [] h.kind = "bt"  -> <<h.tree>>
       [] h.kind = "log" -> h.sectors
       [] h.kind = "xfs_inodes" ->
            [i \in DOMAIN Sectors |-> IF InodeStarts(i) /\ InodeOf(h, i).di_ino # 0 THEN "dinode" ELSE ""]
       [] OTHER -> <<>>

(* How they are shown.  A directory in an inode has the number of entries, *)
(* how many need a wide inode number, and the parent; and of each entry    *)
(* the length of the name, the name, the type and the inode number.        *)
print_xfs_agfl(points) ==
  LET them == SelectSeq([i \in DOMAIN points |-> i], LAMBDA i : points[i] # -1)
  IN [k \in DOMAIN them |-> Logged("point", them[k] - 1, 0, points[them[k]])]
print_btree_block(recs) == [i \in DOMAIN recs |-> WithData(Logged("rec", i - 1, 0, 0), <<recs[i]>>)]
print_xfs_dir2_sf(c) ==
  LET wide == c[2] > 0
      width == IF wide THEN 2 ELSE 1
      InoAt(i) == IF wide THEN c[i] * InoCell + c[i + 1] ELSE c[i]
      From[i, k \in Nat] ==
        IF k = c[1] THEN <<>>
        ELSE LET type == i + 1 + c[i]
             IN <<Logged(c[type], SubSeq(c, i + 1, type - 1), InoAt(type + 1), 0)>> \o From[type + 1 + width, k + 1]
  IN From[3 + width, 0]

(* Only the first extent is shown, and where there is none zeros are.      *)
NoExtent == [state |-> 0, startoff |-> 0, startblock |-> 0, blockcount |-> 0]
xfs_bmbt_rec_print(fork) ==
  LET r == IF fork = <<>> THEN NoExtent ELSE fork[1]
  IN <<WithData(Logged("extent", r.startoff, 0, r.blockcount), <<r.startblock % StartBlocks, r.state>>)>>
print_xfs_dinode(n) ==
  <<Logged("dinode", n.mode, n.di_ino, 0)>>
  \o (CASE n.format = "extents" /\ n.mode \in {"reg", "dir", "lnk"} -> xfs_bmbt_rec_print(n.fork)
        [] n.format = "local" /\ n.mode = "dir" -> print_xfs_dir2_sf(n.fork)
        [] OTHER -> <<Logged("dump", 0, 0, 0)>>)
xfs_structure_print(s, h, i) ==
  CASE s = "agfl"   -> print_xfs_agfl(h.agfl)
    [] s \in {"bnobt", "cntbt", "inobt"} -> print_btree_block(h.recs)
    [] s = "dinode" -> print_xfs_dinode(InodeOf(h, i))
    [] OTHER -> <<>>

(* xfs_do_block: a structure as the one that its magic says, or as one     *)
(* that is named, which it has to be.                                      *)
StructureAt(b, i) == IF i \in DOMAIN Structures(b) THEN Structures(b)[i] ELSE ""
XfsBlock ==
  /\ Xfs /\ Running("block")
  /\ LET s == StructureAt(cmd.arg, cmd.sector + 1)
     IN IF cmd.sector >= Len(Sectors) \/ ~Readable(cmd.arg) THEN Done(-1) /\ UNCHANGED out
        ELSE IF cmd.as = "" THEN out' = <<Logged("dump", cmd.sector, 0, cmd.arg)>> /\ Done(0)
        ELSE IF s = "" \/ cmd.as \notin {"auto", s} THEN Done(-1) /\ UNCHANGED out
        ELSE out' = <<Logged(s, cmd.sector, 0, cmd.arg)>> \o xfs_structure_print(s, Holds(cmd.arg), cmd.sector + 1)
             /\ Done(0)
  /\ UNCHANGED <<image, dirs, at, used, error, img>>

-----------------------------------------------------------------------------
(* xfs_do_ag_cmd: a sector is there once all before it were good.          *)
Trees == {"bnobt", "cntbt", "inobt"}
Place(ag, name) ==
  LET before == {Sectors[i] : i \in 1 .. CHOOSE i \in 1 .. 4 : Sectors[i] = name}
  IN IF name \in Trees
       THEN IF ag \in Loaded /\ name \in DOMAIN root(ag) THEN {TreeBlock(ag, name)} ELSE {}
     ELSE IF ag \in Reached /\ before \subseteq GoodSectors(ag) THEN {HeadBlock(ag)} ELSE {}
XfsAg ==
  /\ Xfs /\ pc = "run" /\ cmd.name \in Range(Sectors) \cup Trees
  /\ IF cmd.arg \in AGs /\ Place(cmd.arg, cmd.name) # {}
       THEN /\ LET b == Least(Place(cmd.arg, cmd.name))
               IN out' = <<Logged(cmd.name, cmd.arg, 0, b)>> \o xfs_structure_print(cmd.name, Holds(b), 1)
            /\ Done(0)
       ELSE Done(-1) /\ UNCHANGED out
  /\ UNCHANGED <<image, dirs, at, used, error, img>>

(* An inode is looked for where its number says, as if the groups had a    *)
(* power of two of blocks.                                                 *)
InodeBlock(ino) == (ino \div vol.inodes_per_block) % WrapBlocks
xfs_alloc_read_inode(ino) ==
  LET b == InodeBlock(ino)
  IN /\ ino >= vol.sb_rootino /\ Readable(b) /\ Holds(b).kind = "xfs_inodes"
     /\ Holds(b).inode[(ino % vol.inodes_per_block) + 1].di_ino = ino
XfsInode ==
  /\ Xfs /\ Running("inode")
  /\ IF xfs_alloc_read_inode(cmd.arg)
       THEN /\ LET b == InodeBlock(cmd.arg)
               IN out' = <<Logged("inode", 0, cmd.arg, b)>>
                         \o print_xfs_dinode(Holds(b).inode[(cmd.arg % vol.inodes_per_block) + 1])
            /\ Done(0)
       ELSE Done(-1) /\ UNCHANGED out
  /\ UNCHANGED <<image, dirs, at, used, error, img>>

(* xfs_do_magic: the structures in each block.  Consecutive blocks that    *)
(* start with a log header are kept for a line of their own, printed when  *)
(* another structure is met.                                               *)
NextLog(x, b) == x.start + x.count = b
ScanSector(b, x, i) ==
  LET s == Structures(b)[i]
      stops == [x EXCEPT !.stop = x.stop \/ x.count > 0, !.found = Append(@, <<s, i - 1>>)]
  IN CASE s = ""                      -> x
       [] s = "log" /\ x.count = 0    -> [x EXCEPT !.start = b, !.count = 1]
       [] s = "log" /\ x.count > 0 /\ i # 1 -> x
       [] s = "log" /\ x.count > 0 /\ i = 1 /\ NextLog(x, b) -> [x EXCEPT !.count = @ + 1]
       [] OTHER -> stops
Report(y, b) ==
  LET Of(s) == SelectSeq(y.found, LAMBDA f : f[1] = s)
      there == SelectSeq(Known, LAMBDA s : Of(s) # <<>>)
      lines == [i \in DOMAIN there |->
                  Line(0, [is |-> there[i], name |-> b, ino |-> Len(Of(there[i]))], Last(Of(there[i]))[2], <<>>)]
      log == Line(0, [is |-> "logs", name |-> y.start, ino |-> y.count], 0, <<>>)
  IN IF y.stop THEN [y EXCEPT !.start = 0, !.count = 0, !.stop = FALSE, !.lines = Append(@, log) \o lines]
               ELSE [y EXCEPT !.lines = @ \o lines]
ScanBlock(x, b) ==
  Report(FoldLeft(LAMBDA z, i : ScanSector(b, z, i), [x EXCEPT !.found = <<>>], [i \in DOMAIN Structures(b) |-> i]), b)
XfsMagic ==
  /\ Xfs /\ Running("magic")
  /\ LET lost == {b \in 0 .. vol.total_blocks - 1 : ~Readable(b)}
         count == IF lost = {} THEN vol.total_blocks ELSE Least(lost)
     IN /\ out' = FoldLeft(ScanBlock, [start |-> 0, count |-> 0, stop |-> FALSE, found |-> <<>>, lines |-> <<>>],
                           SelectSeq([i \in 1 .. count |-> i - 1], LAMBDA b : Structures(b) # <<>>)).lines
        /\ Done(IF lost = {} THEN 0 ELSE -1)
  /\ UNCHANGED <<image, dirs, at, used, error, img>>

XfsNext == XfsDetect \/ XfsSparseAg \/ XfsSparseEnds \/ XfsBlock \/ XfsAg \/ XfsInode \/ XfsMagic
=============================================================================
