----------------------------- MODULE FileSystems -----------------------------
(***************************************************************************)
(* The readers of fs/ at work on an image, and what their commands owe:    *)
(* a volume says, besides what is in its blocks, what was put into it      *)
(* (truth, owner, log), and the answers are compared with that.            *)
(***************************************************************************)
EXTENDS Ext2, F2fs, Xfs, Squashfs

FsNext == Ext2Next \/ F2fsNext \/ XfsNext \/ SquashfsNext \/ DirEnds

-----------------------------------------------------------------------------
Ended(name) == pc = "done" /\ cmd.name = name
Succeeded(name) == Ended(name) /\ ret = 0
Intact == bad = {} /\ vol.sound
NodesFound ==               \* of an f2fs, by the first entry for each inode
  F2fs => \A ino \in DOMAIN vol.truth : f2fs_get_inode_block(ino) = {vol.truth[ino].node}
Small == vol.total_blocks <= WrapBlocks    \* no offset of a block wraps

(* What list and unpack owe of the tree below an inode.                    *)
Owed(deepest, Wanted(_), Shown(_, _, _)) ==
  LET From[depth \in 0 .. 9, ino \in DOMAIN vol.truth] ==
        LET ents == SelectSeq(vol.truth[ino].ents, Wanted)
            Of(d) == <<Shown(depth, d, vol.truth[d.ino])>>
                     \o (IF d.is = "dir" /\ (deepest = 0 \/ depth + 1 < deepest)
                           THEN From[depth + 1, d.ino] ELSE <<>>)
        IN FlattenSeq([i \in DOMAIN ents |-> Of(ents[i])])
  IN From[0, vol.root]
Printed(depth, d, t) == Line(depth, d, IF t.is = "reg" THEN t.size ELSE 0,
                             IF t.is = "lnk" THEN t.data ELSE <<>>)

(* A directory of a file system without extents that has a block that      *)
(* cannot be read is taken for an empty one.                               *)
LostDir == \E ino \in DOMAIN vol.truth :
             vol.truth[ino].is = "dir" /\ ~vol.truth[ino].extents /\ vol.truth[ino].blocks \cap bad # {}

(* A list that succeeds shows every entry down to the depth asked for, in  *)
(* the order of the directories, with the size of each file and the target *)
(* of each link; and on an intact volume it succeeds (print_dirent).       *)
ListExact ==
  /\ Succeeded("list") /\ Small /\ NodesFound /\ ~LostDir => out = Owed(cmd.arg, LAMBDA d : TRUE, Printed)
  /\ Ended("list") /\ Intact => ret = 0

(* An unpack that succeeds has made every directory, file and link with    *)
(* its content: a hole is zeros, and a file without holes has its size.    *)
(* Not if a block of a file without extents cannot be read, which unpack   *)
(* does not see, nor beyond 4 GiB (unpack_dirent).                         *)
LostData == \E ino \in DOMAIN vol.truth : ~vol.truth[ino].extents /\ vol.truth[ino].blocks \cap bad # {}
Content(depth, d, t) == Line(depth, d, t.size, t.data)
SameContent(made, t) ==
  /\ t.is = "reg" /\ t.dense => made.data = t.data
  /\ t.dense \/ ~F2fs => \A u \in 1 .. t.size : UnitAt(made.data, u - 1, Hole) = t.data[u]
UnpackExact ==
  LET want == Owed(0, LAMBDA d : d.is # "other", Content)
  IN /\ Succeeded("unpack") /\ Small /\ NodesFound /\ ~LostData =>
          /\ Len(out) = Len(want)
          /\ \A i \in DOMAIN want :
               LET t == vol.truth[want[i].ino]
               IN /\ [out[i] EXCEPT !.data = <<>>, !.size = 0] = [want[i] EXCEPT !.data = <<>>, !.size = 0]
                  /\ t.size <= WrapBlocks * BlkUnits => SameContent(out[i], t)
     /\ Ended("unpack") /\ Intact => ret = 0

(* The sparse image of an intact volume has every block that is in use,    *)
(* and each block its own data.  No block that is free is in one of an     *)
(* ext4 whose metadata is checksummed; one of an xfs that succeeds has all *)
(* blocks in use even if it is damaged.  In use as far as the inodes are   *)
(* numbered without a gap, and the data as far as a chunk does not wrap    *)
(* (ext2_do_sparse, xfs_do_sparse).                                        *)
InUse == DOMAIN vol.owner
SparseExact ==
  /\ Ext2 /\ Succeeded("sparse") /\ (bad = {} \/ vol.csum) => used \subseteq InUse
  /\ Xfs /\ Succeeded("sparse") /\ Small => InUse \subseteq used
  /\ Ended("sparse") /\ Intact =>
       /\ ret = 0
       /\ vol.packed => used = InUse
       /\ Small => img = [b \in used |-> b]

(* whohas names the owner of a block, or fails when it is free; journal    *)
(* shows the transactions not yet written back with the owner of each      *)
(* block; orphan shows each inode that is linked to the next orphan; nat   *)
(* has every inode with its block.                                         *)
QueriesExact ==
  Intact /\ vol.packed =>
    /\ Ended("whohas") => IF cmd.arg \in InUse THEN out = <<vol.owner[cmd.arg]>> /\ ret = 0
                                               ELSE out = <<>> /\ ret = -1
    /\ Ended("journal") => IF vol.journal_inode # 0 THEN out = vol.log /\ ret = 0 ELSE ret = -1
    /\ Ended("orphan") => {out[i].ino : i \in DOMAIN out} = vol.orphans
    /\ Ended("nat") => \A ino \in DOMAIN vol.truth :
                          \E i \in DOMAIN out : out[i].ino = ino /\ out[i].size = vol.truth[ino].node

(* What an ext2 shows without a walk: an inode with no block but its own,  *)
(* and all of them if its extents are in it; an extent block with blocks   *)
(* of its file; the entries of a block of the root directory; each block   *)
(* of the metadata once, in order; and below each group that has a backup  *)
(* a block reserved in it (ext2_do_inode, _extent, _dirent, _layout,       *)
(* _resize_inode).                                                         *)
BlocksOn(l) == CASE l.is = "extent" -> l.data[1] .. l.data[1] + l.size - 1
                 [] l.is \in {"index", "blocks"} -> Range(l.data) \ {0}
                 [] OTHER -> {}
BlocksShown == UNION {BlocksOn(l) : l \in Range(out)}
BlocksOfInode(ino) == {b \in InUse : vol.owner[b].is = "inode" /\ vol.owner[b].ino = ino}
InodeShown(t) ==
  /\ ret = 0 /\ out[1].is = t.is /\ (t.is = "reg" => out[1].size = t.size)
  /\ BlocksShown \subseteq BlocksOfInode(cmd.arg)
  /\ t.extents /\ (\A l \in Range(out) : l.is # "index") => t.blocks \subseteq BlocksShown
DirentShown(ents) ==
  LET named == SelectSeq(out, LAMBDA l : l.name # 0)
      owed == [i \in DOMAIN ents |-> Line(0, ents[i], 0, <<>>)]
  IN ret = 0 /\ IsPrefix(named, owed) /\ (BlocksOfInode(vol.root) = {cmd.arg} => named = owed)
RangeOf(l) == l.data[1] .. l.data[1] + l.size - 1
LayoutShown ==
  /\ \A i, j \in DOMAIN out : i < j => \A a \in RangeOf(out[i]), b \in RangeOf(out[j]) : a < b
  /\ UNION {{<<b, l.is, l.name>> : b \in RangeOf(l)} : l \in Range(out)}
       = {<<b, vol.owner[b].is, vol.owner[b].name>> : b \in {x \in InUse : vol.owner[x].is # "inode"}}
ResizeShown ==
  /\ Range(out[1].data) = {vol.owner[b].name : b \in {x \in InUse : vol.owner[x].is = "sblock"}} \ {0}
  /\ \A i \in 2 .. Len(out) : /\ Len(out[i].data) = Len(out[1].data)
                             /\ \A k \in DOMAIN out[i].data : LET o == vol.owner[out[i].data[k]]
                                                             IN o.is = "reserved" /\ o.name = out[1].data[k]
Ext2Shown ==
  /\ Ended("inode") /\ cmd.arg \in DOMAIN vol.truth => InodeShown(vol.truth[cmd.arg])
  /\ Succeeded("extent") => \A b \in BlocksShown : vol.owner[b] = vol.owner[cmd.arg]
  /\ Ended("dirent") /\ cmd.arg \in BlocksOfInode(vol.root) => DirentShown(vol.truth[vol.root].ents)
  /\ Ended("layout") => ret = 0 /\ LayoutShown
  /\ Ended("resize_inode") /\ out # <<>> => ret = 0 /\ ResizeShown

(* A block of an f2fs is the one asked for, counted from where its segment *)
(* starts, and shows what was put there; the node of an inode is numbered  *)
(* as the inode (f2fs_do_block, f2fs_do_nat).                              *)
F2fsShown ==
  /\ Succeeded("nid") /\ cmd.arg \in DOMAIN vol.truth =>
       out = <<Logged("nat", 0, cmd.arg, vol.truth[cmd.arg].node)>>
  /\ pc = "done" /\ cmd.name \in DOMAIN vol.first =>
       LET b == vol.first[cmd.name] + cmd.arg
           rows == SelectSeq(out, LAMBDA l : l.is \notin DOMAIN vol.cur_segno)
       IN /\ ret = IF cmd.arg >= 0 /\ b < vol.blocks /\ cmd.as # "tree" THEN 0 ELSE -1
          /\ <<cmd.as, b>> \in DOMAIN vol.shown => rows = vol.shown[<<cmd.as, b>>]
          /\ ret = 0 /\ cmd.as \in {"", "sblock", "inode"} => rows[1].size = b

(* Each sector of an xfs is shown as the structure that is in it, or not   *)
(* at all; an inode with what was put into it; what a tree has free is not *)
(* in use, and what is kept on a free list is (xfs_do_block, xfs_do_inode, *)
(* xfs_do_ag_cmd).                                                         *)
IsFreeShown(l, s) == s + l.data[1].startblock .. s + l.data[1].startblock + l.data[1].blockcount - 1
TreeShown(name, b, rows) ==
  LET s == vol.ag_blocks * (b \div vol.ag_blocks)
  IN /\ name \in {"bnobt", "cntbt"} =>
          UNION {IsFreeShown(l, s) : l \in Range(rows)} = {x \in s .. s + vol.ag_blocks - 1 : x < vol.blocks /\ x \notin InUse}
     /\ name = "agfl" => rows # <<>> /\ \A l \in Range(rows) : s + l.size \in InUse
XfsShown ==
  LET rows == Tail(out)
      x == <<cmd.arg, cmd.sector>>
  IN /\ Succeeded("inode") => Tail(rows) = vol.truth[cmd.arg].shown
     /\ Ended("block") /\ cmd.as # "" =>
          ret = IF x \in DOMAIN vol.named /\ cmd.as \in {"auto", vol.named[x]} THEN 0 ELSE -1
     /\ Succeeded("block") /\ cmd.as # "" =>
          /\ out[1].is = vol.named[x] /\ TreeShown(out[1].is, cmd.arg, rows)
          /\ out[1].is = "dinode" => Tail(rows) = vol.truth[rows[1].ino].shown
     /\ pc = "done" /\ cmd.name \in Range(Sectors) \cup Trees /\ ret = 0 => TreeShown(cmd.name, out[1].size, rows)

(* An inode is shown from its own block, and one that does not exist is    *)
(* not; in an xfs those of the first group are found, and all if a group   *)
(* has a power of two of blocks.  A header or tree of a group is shown     *)
(* from its place; magic shows every block that has a structure; and the   *)
(* tables of a squashfs are shown as they are, the numbers in directories  *)
(* modulo 2^16.  A squashfs that is larger than its file is in 32 bits is  *)
(* refused (xfs_do_inode, xfs_do_magic, squashfs_init, squashfs_detect).   *)
LengthFits == vol.bytes_used <= vol.blocks % WrapBlocks
Numbered(ino) == Xfs => vol.truth[ino].node < vol.ag_blocks \/ \E k \in 0 .. 9 : vol.ag_blocks = 2^k
Shown == UNION {IF l.is = "logs" THEN l.name .. l.name + l.ino - 1 ELSE {l.name} : l \in Range(out)}
StructuresExact ==
  Intact =>
    /\ Ext2 => Ext2Shown
    /\ F2fs => F2fsShown
    /\ Xfs => XfsShown
    /\ ~Ext2 /\ Ended("inode") =>
         /\ out # <<>> => cmd.arg \in DOMAIN vol.truth /\ out[1].size = vol.truth[cmd.arg].node
         /\ cmd.arg \in DOMAIN vol.truth /\ Numbered(cmd.arg) => ret = 0
    /\ Xfs /\ pc = "done" /\ cmd.name \in Range(Sectors) \cup Trees =>
         IF <<cmd.name, cmd.arg>> \in DOMAIN vol.place THEN out[1].size = vol.place[<<cmd.name, cmd.arg>>]
                                                        ELSE ret = -1
    /\ Ended("magic") => ret = 0 /\ Shown = vol.structured
    /\ Squashfs /\ pc = "done" => ret = IF LengthFits THEN 0 ELSE -1
    /\ Succeeded("inodes") => out = vol.inodes
    /\ Succeeded("dirs") => /\ Len(out) = Len(vol.entries)
                            /\ \A i \in DOMAIN out : /\ [out[i] EXCEPT !.ino = 0] = [vol.entries[i] EXCEPT !.ino = 0]
                                                     /\ (out[i].ino - vol.entries[i].ino) % InodeWrap = 0
    /\ Succeeded("fragments") => {l.ino : l \in Range(out)} = vol.starts
=============================================================================
