-------------------------------- MODULE F2fs --------------------------------
(***************************************************************************)
(* fs/f2fs.c: the reader of f2fs.  A node (an inode, or a block of block   *)
(* addresses or node numbers) is found through the node address table,     *)
(* which is read whole when the image is detected.                         *)
(***************************************************************************)
EXTENDS FsWalk

CONSTANT InlineUnits      \* inline data an inode has room for

F2fs == vol.fs = "f2fs"

-----------------------------------------------------------------------------
(* The node address table, by nid from 0 on; its second copy follows.      *)
NatBlocks == vol.nat_blkaddr .. vol.nat_blkaddr + vol.nat_blocks - 1
nat == FlattenSeq([i \in 1 .. vol.nat_blocks |-> Holds(vol.nat_blkaddr + i - 1).nat])

(* The first entry of the inode, be it of one of its other nodes.          *)
f2fs_get_inode_block(ino) ==
  LET them == {i \in DOMAIN nat : nat[i].ino = ino}
  IN IF them = {} THEN {} ELSE {nat[Least(them)].block_addr}
f2fs_get_nat_entry(nid) == IF nid < Len(nat) THEN {nat[nid + 1].block_addr} ELSE {}

NoNode == [is |-> "none"]
OtherNode == [is |-> "other", size |-> 0, inline |-> FALSE, data |-> <<>>, i_addr |-> <<>>, i_nid |-> <<>>]
InodeIn(h) == IF h.kind = "inode" THEN h.inode ELSE OtherNode
NodeAt(b) == IF \A x \in b : ~Readable(x) THEN NoNode ELSE InodeIn(Holds(Least(b)))
f2fs_alloc_read_inode(ino) == NodeAt(f2fs_get_inode_block(ino))

(* f2fs_inode_blocks_read: addresses in the inode, in direct blocks, and   *)
(* below indirect ones.  A zero is passed over.                            *)
NonZero(a) == SelectSeq(a, LAMBDA x : x # 0)
Blocks(list) == [ok |-> TRUE, list |-> list]
NoBlockList == [ok |-> FALSE, list |-> <<>>]
JoinLists(parts) ==
  IF \E i \in DOMAIN parts : ~parts[i].ok THEN NoBlockList
  ELSE Blocks(FlattenSeq([i \in DOMAIN parts |-> parts[i].list]))

(* The kind of node that each i_nid is: direct, indirect, double indirect. *)
LevelMutant(i) == IF i <= 3 THEN 1 ELSE IF i = 4 THEN 2 ELSE 3   \* mutant: three direct ones
Level(i) == IF i <= 2 THEN 1 ELSE IF i <= 4 THEN 2 ELSE 3
f2fs_inode_blocks_read(n) ==
  LET Numbers(b) == IF Holds(b).kind = "node" THEN NonZero(Holds(b).e) ELSE <<>>
      Below[l \in 0 .. 3, x \in Nat] ==
        IF l = 0 THEN Blocks(<<x>>)
        ELSE IF \A b \in f2fs_get_nat_entry(x) : ~Readable(b) THEN NoBlockList
        ELSE LET e == Numbers(Least(f2fs_get_nat_entry(x)))
             IN JoinLists([i \in DOMAIN e |-> Below[l - 1, e[i]]])
      nodes == SelectSeq([i \in DOMAIN n.i_nid |-> <<Level(i), n.i_nid[i]>>], LAMBDA p : p[2] # 0)
  IN JoinLists(<<Blocks(NonZero(n.i_addr))>> \o [i \in DOMAIN nodes |-> Below[nodes[i][1], nodes[i][2]]])

-----------------------------------------------------------------------------
(* foreach_dirent: the entries of a directory, block after block; a block  *)
(* that cannot be read is an error in its place.                           *)
Unreadable == <<[ino |-> 0, name |-> 0, is |-> "bad", hash |-> 1]>>
F2fsEntries(list) ==
  FlattenSeq([i \in DOMAIN list |->
    IF ~Readable(list[i]) THEN Unreadable
    ELSE IF Holds(list[i]).kind = "dir" THEN Holds(list[i]).e ELSE <<>>])
EntriesOf(x) == IF x.ok /\ x.list # <<>> THEN [ok |-> TRUE, ents |-> F2fsEntries(x.list)]
                                         ELSE [ok |-> FALSE, ents |-> <<>>]
IsFlatDir(n) == n.is = "dir" /\ n.size > 0 /\ NonZero(n.i_nid) = <<>>
EntriesIn(n) == EntriesOf(IF IsFlatDir(n) THEN f2fs_inode_blocks_read(n) ELSE NoBlockList)
foreach_dirent(ino) == EntriesIn(f2fs_alloc_read_inode(ino))

IsPassed == Entry.hash = 0 \/ Entry.is = "slot"
F2fsEntry(name) == F2fs /\ Running(name) /\ Walking /\ ~IsPassed

F2fsNoData == [ok |-> FALSE, data |-> <<>>]
Inline(n) == IF n.size > InlineUnits THEN F2fsNoData ELSE [ok |-> TRUE, data |-> SubSeq(n.data, 1, n.size)]
f2fs_print_file(n) ==
  CASE n.is = "none" -> F2fsNoData
    [] n.is = "lnk"  -> [ok |-> n.inline, data |-> IF n.inline THEN n.data ELSE <<>>]
    [] OTHER         -> [ok |-> TRUE, data |-> <<>>]
f2fs_unpack_symlink(n) ==
  IF n.is = "none" \/ n.size = 0 \/ ~n.inline THEN F2fsNoData ELSE Inline(n)

(* unpack_reg_file writes the blocks one after the other, up to the size,  *)
(* and stops at one that cannot be read.                                   *)
UpTo(size, data) == SubSeq(data, 1, Lesser(size, Len(data)))
CopyList(size, list) ==
  LET lost == {i \in DOMAIN list : ~Readable(list[i])}
  IN [ok   |-> lost = {},
      data |-> UpTo(size, FlattenSeq([i \in 1 .. Least(lost \cup {Len(list) + 1}) - 1 |-> Units(list[i])]))]
CopyFile(size, x) == IF x.ok THEN CopyList(size, UpTo((size + BlkUnits - 1) \div BlkUnits, x.list)) ELSE F2fsNoData
f2fs_unpack_blocks(n) == CopyFile(n.size, f2fs_inode_blocks_read(n))
f2fs_unpack_reg_file(n) ==
  IF n.size = 0 THEN [ok |-> TRUE, data |-> <<>>] ELSE IF n.inline THEN Inline(n) ELSE f2fs_unpack_blocks(n)

-----------------------------------------------------------------------------
(* Steps                                                                   *)
f2fs_detect ==
  /\ 0 \notin bad /\ vol.magic /\ vol.sblock_csum
  /\ Readable(vol.cp_blkaddr)
  /\ \A b \in NatBlocks : Readable(b)

F2fsDetect ==
  /\ F2fs /\ pc = "detect"
  /\ IF f2fs_detect THEN pc' = "run" /\ UNCHANGED ret ELSE Done(-1)
  /\ UNCHANGED <<image, dirs, at, out, used, error, img>>

F2fsRoot ==
  /\ F2fs /\ pc = "run" /\ cmd.name \in {"list", "unpack"} /\ dirs = <<>>
  /\ Starts(foreach_dirent(vol.root_ino))
  /\ UNCHANGED <<image, at, out, used, error, img>>

F2fsPassEntry ==
  /\ F2fs /\ Walking /\ IsPassed
  /\ Skip
  /\ UNCHANGED <<image, at, used, error, img>>

(* A directory is printed, or made, and then walked.                       *)
F2fsListDir ==
  /\ F2fsEntry("list") /\ Entry.is = "dir"
  /\ out' = Append(out, Made(Entry, 0, <<>>))
  /\ Descends(foreach_dirent(Entry.ino))
  /\ UNCHANGED <<image, at, used, error, img>>

F2fsPrints(n, f) == /\ out' = Append(out, Made(Entry, IF n.is = "reg" THEN n.size ELSE 0, f.data))
                    /\ Goes(f.ok)
F2fsListFile ==
  /\ F2fsEntry("list") /\ Entry.is \in {"reg", "lnk", "other"}
  /\ \E n \in {IF Entry.is = "other" THEN OtherNode ELSE f2fs_alloc_read_inode(Entry.ino)} :
       F2fsPrints(n, f2fs_print_file(n))
  /\ UNCHANGED <<image, at, used, error, img>>

F2fsUnpackDir ==
  /\ F2fsEntry("unpack") /\ Entry.is = "dir"
  /\ IF f2fs_alloc_read_inode(Entry.ino).is = "none" THEN UNCHANGED out
     ELSE out' = Append(out, Made(Entry, 0, <<>>))
  /\ Descends(foreach_dirent(Entry.ino))
  /\ UNCHANGED <<image, at, used, error, img>>

F2fsMakes(n, f) ==
  /\ out' = IF f.ok \/ (Entry.is = "reg" /\ n.is # "none")
              THEN Append(out, Made(Entry, Len(f.data), f.data)) ELSE out
  /\ Goes(f.ok)
F2fsUnpackFile ==
  /\ F2fsEntry("unpack") /\ Entry.is \in {"reg", "lnk"}
  /\ \E n \in {f2fs_alloc_read_inode(Entry.ino)} :
       F2fsMakes(n, IF n.is = "none" THEN F2fsNoData
                    ELSE IF Entry.is = "reg" THEN f2fs_unpack_reg_file(n) ELSE f2fs_unpack_symlink(n))
  /\ UNCHANGED <<image, at, used, error, img>>

(* A device, pipe or socket ends unpack.                                   *)
F2fsRefuses ==
  /\ \/ F2fsEntry("list") /\ Entry.is = "bad"
     \/ F2fsEntry("unpack") /\ Entry.is \in {"bad", "other"}
  /\ Done(-1)
  /\ UNCHANGED <<image, dirs, at, out, used, error, img>>

(* The table as it is listed: entries of inode 0 are left out.             *)
NatRows(table) ==
  LET them == SelectSeq(table, LAMBDA e : e.ino # 0)
  IN [i \in DOMAIN them |-> Logged("nat", 0, them[i].ino, them[i].block_addr)]
F2fsNat ==
  /\ F2fs /\ Running("nat")
  /\ out' = NatRows(nat) /\ Done(0)
  /\ UNCHANGED <<image, dirs, at, used, error, img>>

F2fsNid ==
  /\ F2fs /\ Running("nid")
  /\ IF cmd.arg \in 0 .. Len(nat) - 1
       THEN out' = <<Logged("nat", 0, nat[cmd.arg + 1].ino, nat[cmd.arg + 1].block_addr)>> /\ Done(0)
       ELSE Done(-1) /\ UNCHANGED out
  /\ UNCHANGED <<image, dirs, at, used, error, img>>

(* f2fs_do_block: a block by its number, or by its place in the segment    *)
(* where nodes or data of one temperature are being written, shown as what *)
(* the command calls it.                                                   *)
base_blkno ==
  IF cmd.name = "block" THEN 0
  ELSE vol.main_blkaddr + vol.blocks_per_segment * vol.cur_segno[cmd.name]

(* The names that follow a name of more than one slot have type 0.         *)
Dentries(e) ==
  LET them == SelectSeq(e, LAMBDA d : d.is # "slot")
      last == Least({i \in DOMAIN them : them[i].is = "bad"} \cup {Len(them)})
  IN [i \in 1 .. last |-> Line(0, them[i], 0, <<>>)]

(* The number of valid blocks of a segment has 10 bits, its type the rest. *)
SIT_VBLOCKS == 2^10
Segments(sit) ==
  LET them == SelectSeq([i \in DOMAIN sit |-> i], LAMBDA i : sit[i] % SIT_VBLOCKS # 0)
  IN [i \in DOMAIN them |-> Logged("segment", them[i] - 1, 0, sit[them[i]])]

ShownAs(as, h, b) ==
  CASE as = "dentry" -> Dentries(h.e)
    [] as = "sit"    -> Segments(h.sit)
    [] as = "nat"    -> NatRows(h.nat)
    [] as \in {"", "sblock", "inode"} -> <<Logged(as, 0, 0, b)>>
    [] OTHER -> <<>>
ShowsAll(as, rows) ==
  as \in {"", "sblock", "inode", "dentry", "sit", "nat"} /\ \A i \in DOMAIN rows : rows[i].is # "bad"

F2fsShows(b, header) ==
  IF ~Readable(b) THEN out' = header /\ Done(-1)
  ELSE LET rows == ShownAs(cmd.as, Holds(b), b)
       IN out' = header \o rows /\ Done(IF ShowsAll(cmd.as, rows) THEN 0 ELSE -1)
F2fsBlock ==
  /\ F2fs /\ pc = "run" /\ cmd.name \in {"block"} \cup DOMAIN vol.cur_segno
  /\ LET b == base_blkno + cmd.arg
     IN IF cmd.arg < 0 THEN Done(-1) /\ UNCHANGED out
        ELSE F2fsShows(b, IF cmd.name = "block" THEN <<>> ELSE <<Logged(cmd.name, cmd.arg, 0, b)>>)
  /\ UNCHANGED <<image, dirs, at, used, error, img>>

F2fsInode ==
  /\ F2fs /\ Running("inode")
  /\ IF f2fs_alloc_read_inode(cmd.arg).is = "none" THEN Done(-1) /\ UNCHANGED out
     ELSE /\ out' = <<Line(0, [is |-> "inode", name |-> 0, ino |-> cmd.arg],
                          Least(f2fs_get_inode_block(cmd.arg)), <<>>)>>
          /\ Done(0)
  /\ UNCHANGED <<image, dirs, at, used, error, img>>

F2fsNext ==
  \/ F2fsDetect \/ F2fsRoot \/ F2fsPassEntry \/ F2fsListDir \/ F2fsListFile
  \/ F2fsUnpackDir \/ F2fsUnpackFile \/ F2fsRefuses
  \/ F2fsNat \/ F2fsNid \/ F2fsBlock \/ F2fsInode
=============================================================================
