---------------------------- MODULE MCFileSystems ----------------------------
(* FileSystems on small volumes of each kind.                               *)
EXTENDS FileSystems

NoBlocks == [b \in {} |-> 0]
Unsound(v) == [v EXCEPT !.sound = FALSE]
D(ino, name, is) == [ino |-> ino, name |-> name, is |-> is]
L0(is, name, ino) == [depth |-> 0, name |-> name, ino |-> ino, is |-> is, size |-> 0, data |-> <<>>]

(* The data of a block tells which block it is.                             *)
UnitsOf(b) == [i \in 1 .. BlkUnits |-> b * 10 + i]
Data(bs) == [b \in bs |-> [kind |-> "data", u |-> UnitsOf(b)]]
DirBlock(e) == [kind |-> "dir", e |-> e]

(* A file of which map gives the block of each logical block, 0 for a hole. *)
Bytes(size, map) ==
  [u \in 1 .. size |->
     LET b == map[((u - 1) \div BlkUnits) + 1]
     IN IF b = 0 THEN Hole ELSE UnitsOf(b)[((u - 1) % BlkUnits) + 1]]
TrueFile(is, size, map, extents) ==
  [is |-> is, size |-> size, data |-> Bytes(size, map), ents |-> <<>>, extents |-> extents,
   dense |-> 0 \notin Range(map), blocks |-> Range(map) \ {0}]
TrueDir(ents, extents, blocks) ==
  [is |-> "dir", size |-> 0, data |-> <<>>, ents |-> ents, extents |-> extents, dense |-> TRUE, blocks |-> blocks]

-----------------------------------------------------------------------------
(* ext2: an inode and what it truly is.                                     *)
Ino(is, size) == [is |-> is, size |-> size, ctime |-> 1, nlinks |-> 1, dtime |-> 0, extents |-> TRUE]
X(is, size, depth, e) == Ino(is, size) @@ [magic |-> TRUE, depth |-> depth, e |-> e]
B(is, size, direct, indir) ==
  [Ino(is, size) EXCEPT !.extents = FALSE] @@ [dir_blocks |-> direct, indir |-> indir]
Fast(target) == [Ino("lnk", 1) EXCEPT !.extents = FALSE] @@ [target |-> <<target>>]
Device == B("other", 0, <<0, 0>>, <<0, 0, 0>>)
Gone(dtime) == [ZeroInode EXCEPT !.dtime = dtime, !.ctime = 1]
R(block, start, len) == [block |-> block, start |-> start, len |-> len]
Tree(depth, e) == [kind |-> "tree", depth |-> depth, e |-> e]
Ptrs(p) == [kind |-> "ptrs", p |-> p]

(* Where group g keeps its metadata: after the backup of the super block,   *)
(* of the descriptors and of the reserved blocks when it has them.          *)
Meta(o, g, back) ==
  LET s == g * o.blocks_per_group
      m == IF back THEN s + 2 + o.reserved_gdt_blocks ELSE s
      Own(is, bs) == [b \in bs |-> L0(is, g, 0)]
  IN [group |-> [block_id |-> m, inode_id |-> m + 1, inode_table_id |-> m + 2, csum |-> TRUE],
      owner |-> Own("data bitmap", {m}) @@ Own("inode bitmap", {m + 1}) @@ Own("inodes", {m + 2, m + 3})
                @@ (IF back THEN Own("sblock", {s}) @@ Own("gdt", {s + 1})
                                 @@ Own("reserved", s + 2 .. s + 1 + o.reserved_gdt_blocks)
                            ELSE NoBlocks)]

Defaults ==
  [fs |-> "ext2", root |-> 2, first_data_block |-> 0, groups_per_block |-> 4, reserved_gdt_blocks |-> 1,
   inodes_per_group |-> 8, inodes_per_block |-> 4, magic |-> TRUE, sblock_csum |-> TRUE, csum |-> TRUE,
   sparse_super |-> TRUE, resize_inode |-> TRUE, journal_inode |-> 0, blocks_per_group |-> 16, total_inodes |-> 16, free_inodes |-> 0,
   log |-> <<>>, orphans |-> {}, packed |-> TRUE, sound |-> TRUE]

(* backs: the groups with a backup; inode, own and block by number.         *)
Ext2Volume(o, n, backs, inode, own, block, truth) ==
  LET meta == [g \in 0 .. n - 1 |-> Meta(o, g, g \in backs)]
      group == [g \in 1 .. n |-> meta[g - 1].group]
      InodeAt(i) == IF i \in DOMAIN inode THEN inode[i] ELSE ZeroInode
      tables == [b \in UNION {{group[g].inode_table_id, group[g].inode_table_id + 1} : g \in 1 .. n} |->
                   LET g == CHOOSE g \in 1 .. n : b - group[g].inode_table_id \in {0, 1}
                       base == (g - 1) * 8 + (b - group[g].inode_table_id) * 4
                   IN [kind |-> "inodes", inode |-> [j \in 1 .. 4 |-> InodeAt(base + j)]]]
      owned == UNION {own[i] : i \in DOMAIN own}
      total == n * o.blocks_per_group
  IN o @@ [blocks |-> total, total_blocks |-> total, truth |-> truth,
           owner |-> [b \in owned |-> L0("inode", 0, CHOOSE i \in DOMAIN own : b \in own[i])]
                     @@ FoldLeft(LAMBDA f, g : f @@ meta[g - 1].owner, NoBlocks, [g \in 1 .. n |-> g]),
           block |-> block @@ tables @@ [b \in {1} |-> [kind |-> "gdt", group |-> group]]]

Dot(ino) == <<D(ino, 0, "dir"), D(2, 0, "dir")>>

(* ext4: a directory, files with one and two levels of extents, a short and *)
(* a long link, the resize inode, and a journal with an old transaction.    *)
JTag(b, last) == [blocknr |-> b, last |-> last]
J(type, sequence, tags) == [kind |-> "jblk", type |-> type, sequence |-> sequence, tags |-> tags, s_sequence |-> 5]
JLine(is, name, ino, size) == [L0(is, name, ino) EXCEPT !.size = size]
RootA == <<D(11, 1, "dir"), D(12, 2, "reg"), D(13, 3, "lnk"), D(15, 6, "other")>>
VolumeA ==
  Ext2Volume([Defaults EXCEPT !.journal_inode = 8, !.free_inodes = 0,
      !.log = <<JLine("descriptor", 5, 1, 0), JLine("tag", 7, 2, 2), JLine("tag", 5, 0, 3), JLine("commit", 5, 4, 0)>>],
    2, {0, 1},
    [i \in {2} |-> X("dir", 2, 0, <<R(0, 7, 1)>>)] @@ [i \in {7} |-> B("reg", 2, <<0, 0>>, <<0, 8, 0>>)]
    @@ [i \in {8} |-> X("reg", 12, 0, <<R(0, 9, 4), R(4, 13, 2)>>)]
    @@ [i \in {11} |-> X("dir", 2, 1, <<30>>)] @@ [i \in {12} |-> X("reg", 3, 1, <<26>>)]
    @@ [i \in {13} |-> Fast(5)] @@ [i \in {14} |-> X("lnk", 2, 0, <<R(0, 27, 1)>>)] @@ [i \in {15} |-> Device]
    @@ [i \in {16} |-> X("reg", 4, 2, <<31>>)],
    [i \in {2} |-> {7}] @@ [i \in {7} |-> {8}] @@ [i \in {8} |-> 9 .. 14] @@ [i \in {11} |-> {23, 30}]
    @@ [i \in {12} |-> {24, 25, 26}] @@ [i \in {14} |-> {27}] @@ [i \in {16} |-> {28, 29, 15, 31}],
    Data({24, 25, 27, 28, 29}) @@ [b \in {7} |-> DirBlock(Dot(2) \o RootA \o <<D(0, 9, "reg")>>)]
    @@ [b \in {23} |-> DirBlock(Dot(11) \o <<D(14, 4, "lnk"), D(16, 5, "reg")>>)]
    @@ [b \in {26} |-> Tree(0, <<R(0, 24, 1), R(1, 25, 1)>>)] @@ [b \in {30} |-> Tree(0, <<R(0, 23, 1)>>)]
    @@ [b \in {31} |-> Tree(1, <<15>>)] @@ [b \in {15} |-> Tree(0, <<R(0, 28, 2)>>)]
    @@ [b \in {8} |-> Ptrs(<<0, 2>>)] @@ [b \in {2} |-> Ptrs(<<18, 0>>)]
    @@ [b \in {9} |-> J("superblock", 0, <<>>)]
    @@ [b \in {10} |-> J("descriptor", 5, <<JTag(7, FALSE), JTag(5, TRUE), JTag(9, FALSE)>>)]
    @@ [b \in {11} |-> J("commit", 9, <<>>)]    \* a logged block that reads as a header
    @@ [b \in {13} |-> J("commit", 5, <<>>)] @@ [b \in {14} |-> J("descriptor", 4, <<JTag(7, TRUE)>>)],
    [i \in {2} |-> TrueDir(RootA, TRUE, {})] @@ [i \in {11} |-> TrueDir(<<D(14, 4, "lnk"), D(16, 5, "reg")>>, TRUE, {})]
    @@ [i \in {12} |-> TrueFile("reg", 3, <<24, 25>>, TRUE)]
    @@ [i \in {13} |-> [TrueFile("lnk", 0, <<>>, TRUE) EXCEPT !.data = <<5>>]]
    @@ [i \in {14} |-> TrueFile("lnk", 2, <<27>>, TRUE)] @@ [i \in {15} |-> TrueFile("other", 0, <<>>, TRUE)]
    @@ [i \in {16} |-> TrueFile("reg", 4, <<28, 29>>, TRUE)])

(* ext2: three groups with a backup each, files with direct, indirect and   *)
(* double indirect blocks, a directory of two blocks.                       *)
RootB == <<D(11, 1, "reg"), D(13, 2, "dir"), D(14, 3, "lnk"), D(15, 4, "reg")>>
VolumeB ==
  Ext2Volume([Defaults EXCEPT !.csum = FALSE, !.sparse_super = FALSE, !.blocks_per_group = 12,
                              !.total_inodes = 24, !.free_inodes = 7],
    3, {0, 1, 2},
    [i \in {2} |-> B("dir", 4, <<7, 8>>, <<0, 0, 0>>)] @@ [i \in {11} |-> B("reg", 9, <<9, 10>>, <<11, 21, 0>>)]
    @@ [i \in {13} |-> B("dir", 2, <<33, 0>>, <<0, 0, 0>>)] @@ [i \in {14} |-> B("lnk", 2, <<34, 0>>, <<0, 0, 0>>)]
    @@ [i \in {15} |-> B("reg", 0, <<0, 0>>, <<0, 0, 0>>)] @@ [i \in {17} |-> B("reg", 3, <<31, 35>>, <<0, 0, 0>>)],
    [i \in {2} |-> {7, 8}] @@ [i \in {11} |-> {9, 10, 11, 19, 20, 21, 22, 23}] @@ [i \in {13} |-> {33}]
    @@ [i \in {14} |-> {34}] @@ [i \in {17} |-> {31, 35}],
    Data({9, 10, 19, 20, 23, 31, 34, 35}) @@ [b \in {7} |-> DirBlock(Dot(2) \o SubSeq(RootB, 1, 2))]
    @@ [b \in {8} |-> DirBlock(<<D(0, 9, "reg")>> \o SubSeq(RootB, 3, 4))]
    @@ [b \in {11} |-> Ptrs(<<19, 20>>)] @@ [b \in {21} |-> Ptrs(<<22, 0>>)] @@ [b \in {22} |-> Ptrs(<<23, 0>>)]
    @@ [b \in {33} |-> DirBlock(Dot(13) \o <<D(17, 1, "reg")>>)],
    [i \in {2} |-> TrueDir(RootB, FALSE, {7, 8})] @@ [i \in {11} |-> TrueFile("reg", 9, <<9, 10, 19, 20, 23>>, FALSE)]
    @@ [i \in {13} |-> TrueDir(<<D(17, 1, "reg")>>, FALSE, {33})] @@ [i \in {14} |-> TrueFile("lnk", 2, <<34>>, FALSE)]
    @@ [i \in {15} |-> TrueFile("reg", 0, <<>>, FALSE)] @@ [i \in {17} |-> TrueFile("reg", 3, <<31, 35>>, FALSE)])

(* Ten groups; the super block, and a reserved block, has a backup in the   *)
(* powers of 3, 5 and 7.                                                    *)
VolumeS ==
  Ext2Volume([Defaults EXCEPT !.groups_per_block = 16, !.blocks_per_group = 8, !.total_inodes = 80, !.free_inodes = 72],
    10, {0, 1, 3, 5, 7, 9},
    [i \in {2} |-> X("dir", 2, 0, <<R(0, 7, 1)>>)] @@ [i \in {7} |-> B("reg", 2, <<0, 0>>, <<0, 15, 0>>)],
    [i \in {2} |-> {7}] @@ [i \in {7} |-> {15}],
    [b \in {7} |-> DirBlock(Dot(2))] @@ [b \in {15} |-> Ptrs(<<0, 2>>)] @@ [b \in {2} |-> Ptrs(<<10, 26, 42, 58, 74, 0>>)],
    [i \in {2} |-> TrueDir(<<>>, TRUE, {})])

(* A file without extents that has a hole, which unpack refuses.            *)
VolumeHole ==
  [VolumeB EXCEPT !.block[17].inode[3] = B("reg", 6, <<9, 0>>, <<11, 0, 0>>), !.sound = FALSE,
        !.truth[11] = TrueFile("reg", 6, <<9, 0, 19>>, FALSE)]

(* ext4 with holes, a file of two leaf blocks, orphans, free inodes in      *)
(* between, and a file that reaches beyond 4 GiB.                           *)
RootC == <<D(11, 1, "reg"), D(12, 2, "reg"), D(13, 3, "reg"), D(16, 4, "reg")>>
FilesC == [i \in {11} |-> X("reg", 5, 0, <<R(0, 8, 1), R(2, 9, 1)>>)] @@ [i \in {12} |-> X("reg", 4, 0, <<R(0, 10, 1)>>)]
          @@ [i \in {13} |-> X("reg", 7, 2, <<11>>)] @@ [i \in {16} |-> X("reg", 84, 0, <<R(0, 24, 1), R(41, 25, 1)>>)]
VolumeC ==
  Ext2Volume([Defaults EXCEPT !.free_inodes = 2, !.packed = FALSE, !.orphans = {3, 9}],
    2, {0, 1},
    [i \in {2} |-> X("dir", 2, 0, <<R(0, 7, 1)>>)] @@ FilesC
    @@ [i \in {3} |-> Gone(9)] @@ [i \in {9} |-> Gone(5)] @@ [i \in {5} |-> Gone(0)] @@ [i \in {6} |-> Gone(900)],
    [i \in {2} |-> {7}] @@ [i \in {11} |-> {8, 9}] @@ [i \in {12} |-> {10}] @@ [i \in {13} |-> {11, 12, 13, 14, 15, 23, 26}]
    @@ [i \in {16} |-> {24, 25}],
    Data({8, 9, 10, 14, 15, 23, 26, 24, 25}) @@ [b \in {7} |-> DirBlock(Dot(2) \o RootC)]
    @@ [b \in {11} |-> Tree(1, <<12, 13>>)] @@ [b \in {12} |-> Tree(0, <<R(0, 14, 2), R(2, 23, 1)>>)]
    @@ [b \in {13} |-> Tree(0, <<R(3, 26, 1)>>)],
    [i \in {2} |-> TrueDir(RootC, TRUE, {})] @@ [i \in {11} |-> TrueFile("reg", 5, <<8, 0, 9>>, TRUE)]
    @@ [i \in {12} |-> TrueFile("reg", 4, <<10, 0>>, TRUE)] @@ [i \in {13} |-> TrueFile("reg", 7, <<14, 15, 23, 26>>, TRUE)]
    @@ [i \in {16} |-> TrueFile("reg", 84, <<24>> \o [l \in 1 .. 40 |-> 0] \o <<25>>, TRUE)])

(* The orphans without the rest of C, so that the inodes have no gap.       *)
VolumeO == [VolumeC EXCEPT !.packed = TRUE, !.free_inodes = 0, !.orphans = {3, 9}]

(* Of an extent tree: a leaf with a wrong depth, a wrong magic, too deep.   *)
Damaged(field, value) == [VolumeC EXCEPT !.block[22].inode[1][field] = value, !.sound = FALSE]

(* A file in a table beyond 4 GiB.                                          *)
RootW == <<D(11, 1, "reg"), D(17, 2, "reg")>>
VolumeW ==
  Ext2Volume([Defaults EXCEPT !.blocks_per_group = 20, !.total_inodes = 24, !.free_inodes = 7, !.sound = FALSE, !.resize_inode = FALSE],
    3, {0, 1},
    [i \in {2} |-> X("dir", 2, 0, <<R(0, 7, 1)>>)] @@ [i \in {11} |-> X("reg", 2, 0, <<R(0, 44, 1)>>)]
    @@ [i \in {17} |-> X("reg", 2, 0, <<R(0, 45, 1)>>)],
    [i \in {2} |-> {7}] @@ [i \in {11} |-> {44}] @@ [i \in {17} |-> {45}],
    Data({44, 45}) @@ [b \in {7} |-> DirBlock(Dot(2) \o RootW)],
    [i \in {2} |-> TrueDir(RootW, TRUE, {})] @@ [i \in {11} |-> TrueFile("reg", 2, <<44>>, TRUE)]
    @@ [i \in {17} |-> TrueFile("reg", 2, <<45>>, TRUE)])

(* Blocks of 1 KiB: block 1 is the super block, which is read as the        *)
(* descriptors.                                                             *)
VolumeK == [VolumeB EXCEPT !.first_data_block = 1, !.sound = FALSE,
              !.block[1].group = [g \in 1 .. 3 |-> [block_id |-> 24, inode_id |-> 36, inode_table_id |-> g, csum |-> TRUE]]]
Entry1(is) == [VolumeA EXCEPT !.sound = FALSE, !.block[7].e[3].is = is, !.truth[2].ents[1].is = is]
Refused == <<[VolumeA EXCEPT !.magic = FALSE, !.sound = FALSE], [VolumeA EXCEPT !.sblock_csum = FALSE, !.sound = FALSE],
             [VolumeA EXCEPT !.block[1].group[2].csum = FALSE, !.sound = FALSE], [VolumeA EXCEPT !.blocks = 31, !.sound = FALSE]>>
Ext2Volumes ==
  <<VolumeA, VolumeB, VolumeS, VolumeHole, VolumeC, VolumeO, VolumeW, VolumeK, Damaged("magic", FALSE), Damaged("depth", 6),
    [VolumeC EXCEPT !.block[13].depth = 1, !.sound = FALSE], Entry1("bad"), Entry1("short"), Entry1("unknown"),
    [VolumeB EXCEPT !.reserved_gdt_blocks = 11, !.sound = FALSE]>> \o Refused

-----------------------------------------------------------------------------
(* f2fs: a file with direct, indirect and double indirect nodes, an inline  *)
(* file and link, and a directory.  Block 2 has the table, 3 its copy.      *)
FNode(is, size, i_addr, i_nid) ==
  [is |-> is, size |-> size, inline |-> FALSE, data |-> <<>>, i_addr |-> i_addr, i_nid |-> i_nid]
InNode(is, data) == [FNode(is, Len(data), <<>>, <<>>) EXCEPT !.inline = TRUE, !.data = data]
NatOf(entries) == [kind |-> "nat", nat |-> [i \in 1 .. 16 |->
   IF i - 1 \in DOMAIN entries THEN [ino |-> entries[i - 1][1], block_addr |-> entries[i - 1][2]]
                               ELSE [ino |-> 0, block_addr |-> 0]]]
NumberedFrom(first, entries) == [i \in first .. first + Len(entries) - 1 |-> entries[i - first + 1]]
E(ino, name, is) == D(ino, name, is) @@ [hash |-> 1]
F2fsDir(ents) == DirBlock(<<[E(3, 0, "dir") EXCEPT !.hash = 0]>> \o ents)
RootF == <<D(4, 1, "reg"), D(12, 2, "dir"), D(13, 3, "lnk"), D(11, 4, "reg")>>
Inodes(f) == [b \in DOMAIN f |-> [kind |-> "inode", inode |-> f[b]]]
Nodes(f) == [b \in DOMAIN f |-> [kind |-> "node", e |-> f[b]]]
At(t, b) == t @@ [node |-> b]
VolumeF ==
  [fs |-> "f2fs", blocks |-> 28, total_blocks |-> 28, magic |-> TRUE, sblock_csum |-> TRUE, csum |-> TRUE,
   cp_blkaddr |-> 1, nat_blkaddr |-> 2, nat_blocks |-> 2, root_ino |-> 3, root |-> 3, sound |-> TRUE, packed |-> TRUE,
   main_blkaddr |-> 4, blocks_per_segment |-> 4,
   cur_segno |-> [hot_node_block |-> 0, warm_node_block |-> 1, cold_node_block |-> 2,
                  hot_data_block |-> 4, warm_data_block |-> 3, cold_data_block |-> 5],
   first |-> [block |-> 0, hot_node_block |-> 4, warm_node_block |-> 8, cold_node_block |-> 12,
              hot_data_block |-> 20, warm_data_block |-> 16, cold_data_block |-> 24],
   shown |-> [x \in {<<"dentry", 22>>} |-> <<L0("dir", 0, 3), L0("reg", 1, 4), L0("dir", 2, 12)>>]
     @@ [x \in {<<"dentry", 23>>} |-> <<L0("lnk", 3, 13), L0("reg", 4, 11)>>]
     @@ [x \in {<<"dentry", 24>>} |-> <<L0("dir", 0, 3), L0("reg", 5, 14)>>]
     @@ [x \in {<<"sit", 27>>} |-> <<[L0("segment", 1, 0) EXCEPT !.size = 3], [L0("segment", 4, 0) EXCEPT !.size = 1027]>>]
     @@ [x \in {<<"nat", 3>>} |-> <<>>],
   owner |-> NoBlocks, log |-> <<>>, orphans |-> {}, journal_inode |-> 0,
   block |-> Data(16 .. 21 \cup {25}) @@ [b \in {3} |-> NatOf(NoBlocks)]
     @@ [b \in {2} |-> NatOf(NumberedFrom(1, <<<<1, 1>>, <<2, 1>>, <<3, 4>>, <<4, 5>>, <<4, 6>>, <<4, 7>>, <<4, 8>>, <<4, 9>>,
                                        <<4, 10>>, <<4, 11>>, <<11, 12>>, <<12, 13>>, <<13, 14>>, <<14, 15>>>>))]
     @@ Inodes([b \in {4} |-> FNode("dir", 4, <<22, 23>>, <<>>)] @@ [b \in {5} |-> FNode("reg", 11, <<16, 17>>, <<5, 0, 6, 0, 8>>)]
               @@ [b \in {12} |-> InNode("reg", <<7, 8, 9>>)] @@ [b \in {13} |-> FNode("dir", 2, <<24>>, <<>>)]
               @@ [b \in {14} |-> InNode("lnk", <<5>>)] @@ [b \in {15} |-> FNode("reg", 1, <<25>>, <<>>)])
     @@ Nodes([b \in {6} |-> <<18>>] @@ [b \in {7} |-> <<7>>] @@ [b \in {8} |-> <<19, 20>>] @@ [b \in {9} |-> <<9>>]
              @@ [b \in {10} |-> <<10>>] @@ [b \in {11} |-> <<21>>])
     @@ [b \in {27} |-> [kind |-> "sit", sit |-> <<0, 3, 1024, 2048, 1027>>]]
     @@ [b \in {22} |-> F2fsDir(<<E(4, 1, "reg"), E(0, 9, "slot"), E(12, 2, "dir")>>)]
     @@ [b \in {23} |-> DirBlock(<<E(13, 3, "lnk"), E(11, 4, "reg")>>)] @@ [b \in {24} |-> F2fsDir(<<E(14, 5, "reg")>>)],
   truth |-> [i \in {3} |-> At(TrueDir(RootF, TRUE, {}), 4)] @@ [i \in {12} |-> At(TrueDir(<<D(14, 5, "reg")>>, TRUE, {}), 13)]
     @@ [i \in {4} |-> At(TrueFile("reg", 11, [j \in 1 .. 6 |-> 15 + j], TRUE), 5)]
     @@ [i \in {11} |-> [At(TrueFile("reg", 0, <<>>, TRUE), 12) EXCEPT !.size = 3, !.data = <<7, 8, 9>>]]
     @@ [i \in {13} |-> [At(TrueFile("lnk", 0, <<>>, TRUE), 14) EXCEPT !.size = 1, !.data = <<5>>]]
     @@ [i \in {14} |-> At(TrueFile("reg", 1, <<25>>, TRUE), 15)]]

(* The second copy of the table is the current one; a node of a file is     *)
(* numbered below its inode.                                                *)
VolumeStale == [Unsound(VolumeF) EXCEPT !.block[3] = NatOf(NumberedFrom(14, <<<<14, 26>>>>)), !.truth[14].node = 26]
VolumeNode == [Unsound(VolumeF) EXCEPT !.block[2].nat[3] = [ino |-> 14, block_addr |-> 25]]
(* A hole, an address not yet given, a node number beyond the table.        *)
FileF(map, nids) == [Unsound(VolumeF) EXCEPT !.block[5].inode = FNode("reg", 11, map, nids), !.truth[4].dense = FALSE]
InodeF(b, inode) == [Unsound(VolumeF) EXCEPT !.block[b].inode = inode]
EntryF(is) == [Unsound(VolumeF) EXCEPT !.block[23].e[1].is = is, !.truth[3].ents[3].is = is, !.truth[13].is = is]
F2fsVolumes ==
  <<VolumeF, VolumeStale, VolumeNode, FileF(<<16, 0, 17>>, <<>>), FileF(<<16, 99>>, <<>>), FileF(<<16>>, <<99>>),
    FileF(<<16>>, <<0, 0, 9>>), InodeF(4, FNode("dir", 4, <<99>>, <<>>)), InodeF(4, FNode("dir", 0, <<22, 23>>, <<>>)),
    InodeF(13, FNode("dir", 2, <<24>>, <<6>>)), InodeF(13, FNode("dir", 2, <<>>, <<>>)),
    InodeF(14, FNode("lnk", 1, <<25>>, <<>>)), [InodeF(14, InNode("lnk", <<1, 2, 3, 4, 5>>)) EXCEPT !.truth[13].data = <<1, 2, 3, 4, 5>>],
    EntryF("other"), EntryF("bad"), [Unsound(VolumeF) EXCEPT !.block[23].e[2].ino = 77],
    [Unsound(VolumeF) EXCEPT !.magic = FALSE], [Unsound(VolumeF) EXCEPT !.sblock_csum = FALSE],
    [Unsound(VolumeF) EXCEPT !.nat_blkaddr = 27], [Unsound(VolumeF) EXCEPT !.cp_blkaddr = 40]>>

-----------------------------------------------------------------------------
(* xfs: recs are what the groups have free, by group; inode their inodes,   *)
(* with what truly is in them, and log the blocks of the log.               *)
XfsInoCells(wide, ino) == IF wide THEN <<ino \div InoCell, ino % InoCell>> ELSE <<ino>>
SfDir(wide, parent, ents) ==
  <<Len(ents), IF wide THEN 1 ELSE 0>> \o XfsInoCells(wide, parent)
  \o FlattenSeq([i \in DOMAIN ents |-> <<Len(ents[i].name)>> \o ents[i].name \o <<ents[i].is>>
                                       \o XfsInoCells(wide, ents[i].ino)])
XInode(ino, mode, format, fork, shown) ==
  [di_ino |-> ino, mode |-> mode, format |-> format, fork |-> fork, shown |-> shown]
NoXInode == XInode(0, "none", "", <<>>, <<>>)
XDir(ino, wide, ents) ==
  XInode(ino, "dir", "local", SfDir(wide, ino, ents), [i \in DOMAIN ents |-> L0(ents[i].is, ents[i].name, ents[i].ino)])
XRec(startoff, startblock, blockcount) ==
  [state |-> 0, startoff |-> startoff, startblock |-> startblock, blockcount |-> blockcount]
XExtent(b, n) == [L0("extent", 0, 0) EXCEPT !.size = n, !.data = <<b, 0>>]
XReg(ino, recs) ==
  XInode(ino, "reg", "extents", recs, IF recs = <<>> THEN <<XExtent(0, 0)>>
                                      ELSE <<XExtent(recs[1].startblock, recs[1].blockcount)>>)
XOther(ino, mode, format) == XInode(ino, mode, format, <<>>, <<L0("dump", 0, 0)>>)

SizeOf(recs) == FoldLeft(LAMBDA n, r : n + r.blockcount, 0, recs)
AgBlocks(ag, ag_blocks, recs, inode) ==
  LET s == ag * ag_blocks
  IN [b \in {s} |-> [kind |-> "ag", good |-> Range(Sectors), root |-> [bnobt |-> 1, cntbt |-> 2, inobt |-> 3],
                     freeblks |-> SizeOf(recs), agfl |-> <<-1, 5, -1>>]]
     @@ [b \in {s + 1} |-> [kind |-> "bt", tree |-> "bnobt", recs |-> recs]]
     @@ [b \in {s + 2} |-> [kind |-> "bt", tree |-> "cntbt", recs |-> SortSeq(recs, LAMBDA r, q : r.blockcount < q.blockcount)]]
     @@ [b \in {s + 3} |-> [kind |-> "bt", tree |-> "inobt", recs |-> <<[startino |-> Max({inode[1].di_ino, inode[2].di_ino})]>>]]
     @@ [b \in {s + 4} |-> [kind |-> "xfs_inodes", inode |-> inode]]
Free(startblock, blockcount) == [startblock |-> startblock, blockcount |-> blockcount]
LogBlock == [kind |-> "log", sectors |-> <<"log", "", "log", "">>]
(* Which structure is where: block and sector.                              *)
NamedIn(s, inode) ==
  [x \in {s} \X (0 .. 3) |-> Sectors[x[2] + 1]] @@ [x \in {<<s + 1, 0>>} |-> "bnobt"] @@ [x \in {<<s + 2, 0>>} |-> "cntbt"]
  @@ [x \in {<<s + 3, 0>>} |-> "inobt"]
  @@ [x \in {<<s + 4, 2 * (i - 1)>> : i \in {k \in DOMAIN inode : inode[k].di_ino # 0}} |-> "dinode"]
XfsVolume(ag_blocks, n, total, recs, inode, log, inuse) ==
  [fs |-> "xfs", blocks |-> total, total_blocks |-> total, ag_count |-> n, ag_blocks |-> ag_blocks,
   sb_rootino |-> 8, inodes_per_block |-> 2, sound |-> TRUE, packed |-> TRUE, csum |-> FALSE,
   owner |-> [b \in inuse |-> 0], structured |-> UNION {i * ag_blocks .. i * ag_blocks + 4 : i \in 0 .. n - 1} \cup log,
   place |-> [x \in (Range(Sectors) \cup Trees) \X (0 .. n - 1) |->
                x[2] * ag_blocks + (IF x[1] \in Trees THEN [bnobt |-> 1, cntbt |-> 2, inobt |-> 3][x[1]] ELSE 0)],
   named |-> FoldLeft(LAMBDA f, g : f @@ NamedIn((g - 1) * ag_blocks, inode[g]), [x \in log \X {0, 2} |-> "log"],
                      [g \in 1 .. n |-> g]),
   truth |-> LET them == UNION {{<<g, inode[g][k]>> : k \in {k \in DOMAIN inode[g] : inode[g][k].di_ino # 0}} : g \in 1 .. n}
             IN [i \in {x[2].di_ino : x \in them} |->
                   LET x == CHOOSE x \in them : x[2].di_ino = i
                   IN [node |-> ag_blocks * (x[1] - 1) + 4, shown |-> x[2].shown]],
   block |-> FoldLeft(LAMBDA f, g : f @@ AgBlocks(g - 1, ag_blocks, recs[g], inode[g]), NoBlocks, [g \in 1 .. n |-> g])
             @@ [b \in log |-> LogBlock]]
XRoot(wide, last) == XDir(8, wide, <<[name |-> <<"a">>, is |-> "reg", ino |-> 9], [name |-> <<"b", "c">>, is |-> "lnk", ino |-> last]>>)
Xfs1 == XfsVolume(12, 2, 22, <<<<Free(6, 2), Free(9, 1)>>, <<Free(7, 2)>>>>,
                  <<<<XRoot(FALSE, 40), XReg(9, <<XRec(0, 8, 1)>>)>>, <<XOther(40, "lnk", "local"), XOther(41, "reg", "btree")>>>>,
                  10 .. 11, (0 .. 21) \ {6, 7, 9, 19, 20})
Xfs2 == XfsVolume(16, 2, 32, <<<<Free(6, 2), Free(9, 1)>>, <<Free(7, 9)>>>>,
                  <<<<XRoot(TRUE, 41), XReg(9, <<>>)>>, <<NoXInode, XOther(41, "other", "dev")>>>>,
                  {10, 12, 13}, (0 .. 31) \ ({6, 7, 9} \cup 23 .. 31))
Xfs3 == Unsound(XfsVolume(20, 3, 60, <<<<Free(6, 2)>>, <<Free(5, 15)>>, <<Free(9, 2)>>>>,
                          <<<<XRoot(TRUE, 512), XReg(9, <<XRec(0, 8, 1), XRec(1, 10, 2)>>)>>, <<NoXInode, NoXInode>>, <<NoXInode, NoXInode>>>>,
                          {}, (0 .. 59) \ ({6, 7, 49, 50} \cup 25 .. 39)))
XfsVolumes ==
  <<Xfs1, Xfs2, Xfs3, [Unsound(Xfs1) EXCEPT !.block[12].good = {"sblock"}], [Unsound(Xfs1) EXCEPT !.block[12].good = {}],
    [Unsound(Xfs1) EXCEPT !.block[0].good = {"sblock", "agf"}], [Unsound(Xfs1) EXCEPT !.block[0].freeblks = 9],
    [Unsound(Xfs1) EXCEPT !.block[13].recs = <<Free(9, 2)>>],
    [Unsound(Xfs1) EXCEPT !.block[13].tree = "cntbt", !.block[4].inode[2].fork[1].startblock = StartBlocks + 8],
    [Unsound(Xfs3) EXCEPT !.block[41].recs = <<Free(9, 3)>>]>>

(* squashfs: the ids and the fragments before the pointers to them.         *)
Meta4(u) == [kind |-> "meta", compressed |-> FALSE, u |-> u]
I(type, number, id, len) == [type |-> type, number |-> number, id |-> id, len |-> len]
After == I("", 0, 0, 0)
Dh(count, number) == [After EXCEPT !.number = number] @@ [count |-> count]
De(type, name, number, len) == I(type, number, 0, len) @@ [name |-> name]
ILine(type, offset, number, id) == [L0(type, offset, number) EXCEPT !.data = <<id>>]
Sq1 ==
  [fs |-> "squashfs", blocks |-> 33, total_blocks |-> 33, bytes_used |-> 33, magic |-> TRUE, compressed |-> FALSE,
   sound |-> TRUE, packed |-> TRUE, inode_table_start |-> 4, directory_table_start |-> 13, fragment_table_start |-> 28,
   fragments |-> 2, lookup_table_start |-> 99, id_table_start |-> 32, no_ids |-> 2, owner |-> NoBlocks, truth |-> NoBlocks,
   inodes |-> <<ILine("SYMLINK", 0, 1, 1000), ILine("REG", 3, 2, 0), ILine("DIR", 5, 3, 1000)>>,
   entries |-> <<L0("SYMLINK", 1, 5), L0("REG", 2, 4), L0("DIR", 3, 7)>>, starts |-> {1, 2},
   block |-> [a \in {4} |-> Meta4(<<I("SYMLINK", 1, 1, 1), After, After, I("REG", 2, 0, 0)>>)]
     @@ [a \in {9} |-> Meta4(<<After, I("DIR", 3, 1, 0), After>>)]
     @@ [a \in {13} |-> Meta4(<<Dh(1, 5), De("SYMLINK", 1, 0, 1), After, De("REG", 2, -1, 2)>>)]
     @@ [a \in {18} |-> Meta4(<<After, After, Dh(0, 7), De("DIR", 3, 0, 1)>>)] @@ [a \in {23} |-> Meta4(<<After>>)]
     @@ [a \in {25} |-> Meta4(<<[start |-> 1], [start |-> 2]>>)] @@ [a \in {28} |-> [kind |-> "points", p |-> <<25>>]]
     @@ [a \in {29} |-> Meta4(<<[id |-> 0], [id |-> 1000]>>)] @@ [a \in {32} |-> [kind |-> "points", p |-> <<29>>]]]
SquashfsVolumes ==
  <<Sq1, [Unsound(Sq1) EXCEPT !.fragments = 0, !.fragment_table_start = 25],
    [Unsound(Sq1) EXCEPT !.block[9].u = <<After, After, I("DIR", 3, 1, 0), After>>],     \* a file with a block list
    [Unsound(Sq1) EXCEPT !.block[9].u[2] = I("FIFO", 3, 0, 0)], [Unsound(Sq1) EXCEPT !.block[9].u[2].id = 9],
    [Unsound(Sq1) EXCEPT !.block[18].u[4].type = "other"], [Unsound(Sq1) EXCEPT !.block[9].compressed = TRUE],
    [Unsound(Sq1) EXCEPT !.block[9].u = [i \in 1 .. 5 |-> After]], [Unsound(Sq1) EXCEPT !.fragments = 3, !.block[28].p = <<27>>],
    [Unsound(Sq1) EXCEPT !.compressed = TRUE], [Unsound(Sq1) EXCEPT !.magic = FALSE], [Unsound(Sq1) EXCEPT !.blocks = 32],
    [Unsound(Sq1) EXCEPT !.inode_table_start = 14], [Unsound(Sq1) EXCEPT !.lookup_table_start = 27],
    [Sq1 EXCEPT !.blocks = 41, !.total_blocks = 41, !.bytes_used = 41], [Sq1 EXCEPT !.blocks = 75, !.total_blocks = 75]>>

FsVolumes == Ext2Volumes \o F2fsVolumes \o XfsVolumes \o SquashfsVolumes
C(name, arg) == [name |-> name, arg |-> arg]
As(name, arg, as) == [name |-> name, arg |-> arg, as |-> as]
F2fsShow ==
  {As("block", 0, "sblock"), As("block", 22, "dentry"), As("block", 27, "sit"), As("block", 3, "nat"), As("block", 16, "tree"),
   As("block", 99, ""), As("block", -1, ""), As("hot_node_block", 1, "inode"), As("warm_node_block", 0, ""),
   As("cold_node_block", 1, "inode"), As("hot_data_block", 3, "dentry"), As("warm_data_block", 2, ""),
   As("cold_data_block", 0, "dentry")}
InSector(arg, sector, as) == [name |-> "block", arg |-> arg, sector |-> sector, as |-> as]
XfsShow ==
  {InSector(0, 3, "auto"), InSector(0, 1, "sblock"), InSector(0, 4, "auto"), InSector(1, 0, "bnobt"), InSector(1, 0, "cntbt"),
   InSector(3, 0, "auto"), InSector(4, 0, "dinode"), InSector(4, 1, "auto"), InSector(4, 2, "auto"), InSector(10, 0, "auto"),
   InSector(5, 0, ""), InSector(99, 0, "")}
FsCommands ==
  [fs \in {"ext2"} |->
     {C("list", n) : n \in 0 .. 2} \cup {C(c, 0) : c \in {"unpack", "sparse", "journal", "orphan"}}
     \cup {C("inode", i) : i \in {2, 7, 12, 13, 99}} \cup {C("block", 7), C("layout", 0), C("resize_inode", 0)}
     \cup {C("dirent", b) : b \in {7, 47}} \cup {C("extent", b) : b \in {12, 26, 31}}
     \cup {C("whohas", b) : b \in {1, 2, 5, 8, 15, 20, 26, 28, 31}}]
  @@ [fs \in {"f2fs"} |-> F2fsShow \cup {C("nid", n) : n \in {-1, 11, 31, 32}} \cup {C(c, 0) : c \in {"list", "unpack", "nat"}} \cup {C("inode", i) : i \in {3, 4, 11, 14, 77}}]
  @@ [fs \in {"xfs"} |-> XfsShow \cup {C("sparse", 0), C("magic", 0)} \cup {C(s, ag) : s \in {"agf", "agfl", "bnobt"}, ag \in {0, 1, 5}}
                         \cup {C("inode", i) : i \in {6, 8, 9, 10, 40}}]
  @@ [fs \in {"squashfs"} |-> {C(c, 0) : c \in {"inodes", "dirs", "fragments"}}]
=============================================================================
