-------------------------------- MODULE Ext2 --------------------------------
(***************************************************************************)
(* fs/ext2.c: the reader of ext2, ext3 and ext4: where an inode and its    *)
(* blocks are, the walks of list and unpack, who has a block, the journal, *)
(* the orphans, and the blocks chosen for a sparse image.                  *)
(***************************************************************************)
EXTENDS FsWalk

CONSTANTS INDIRECT_BLOCKS,  \* direct blocks of an inode
          SymlinkUnits      \* sizeof(inode->b.symlink)

EXT2_ROOT_INO == 2
EXT2_RESIZE_INO == 7

-----------------------------------------------------------------------------
(* Group descriptors and inodes                                            *)
Up(a, b) == (a + b - 1) \div b
n_block_group == Up(vol.total_blocks - vol.first_data_block, vol.blocks_per_group)

(* They are read from block 1 on; a read that fails leaves zeros, and the  *)
(* ones after it fail as well.                                             *)
NoGroup == [block_id |-> 0, inode_id |-> 0, inode_table_id |-> 0, csum |-> FALSE]
Group(g) ==
  LET b == 1 + g \div vol.groups_per_block
  IN IF bad \cap 1 .. b # {} \/ Holds(b).kind # "gdt" THEN NoGroup
     ELSE Holds(b).group[(g % vol.groups_per_block) + 1]

NoInode == [is |-> "none", size |-> 0, ctime |-> 0]      \* it cannot be read
ZeroInode == [is |-> "other", size |-> 0, ctime |-> 0, nlinks |-> 0, dtime |-> 0, extents |-> FALSE,
              dir_blocks |-> <<>>, indir |-> <<0, 0, 0>>]

ext2_inode_block_number_mutant(i) == Group(0).inode_table_id + i \div vol.inodes_per_block  \* mutant: one table
ext2_inode_block_number(i) ==
  Group(i \div vol.inodes_per_group).inode_table_id
    + (i % vol.inodes_per_group) \div vol.inodes_per_block

ext2_read_inode(ino) ==
  LET i == ino - 1
      b == ext2_inode_block_number(i) % WrapBlocks
  IN IF ino = 0 \/ i \div vol.inodes_per_group >= n_block_group \/ b \in bad THEN NoInode
     ELSE IF Holds(b).kind # "inodes" THEN ZeroInode
     ELSE Holds(b).inode[(i % vol.inodes_per_block) + 1]

-----------------------------------------------------------------------------
(* The blocks of an inode: runs of data blocks, and the marks that the     *)
(* walk leaves in a bitmask.  A walk that fails tells how many levels of   *)
(* the extent tree free what was loaded.                                   *)
Run(b) == [block |-> 0, start |-> b, len |-> 1]
Found(runs, marked) == [ok |-> TRUE, runs |-> runs, marked |-> marked, frees |-> 0]
Unread == [ok |-> FALSE, runs |-> <<>>, marked |-> {}, frees |-> 0]
Join(parts) ==
  LET wrong == {i \in DOMAIN parts : ~parts[i].ok}
      last == IF wrong = {} THEN Len(parts) ELSE Least(wrong)
      runs == FlattenSeq([i \in 1 .. last |-> parts[i].runs])
  IN IF wrong = {} THEN Found(runs, UNION {parts[i].marked : i \in DOMAIN parts})
     ELSE [Unread EXCEPT !.runs = runs, !.frees = parts[last].frees + 1]
Marking(b, x) == [x EXCEPT !.marked = IF x.ok THEN @ \cup {b} ELSE @]

UpToZero(p) == SubSeq(p, 1, Least({i \in DOMAIN p : p[i] = 0} \cup {Len(p) + 1}) - 1)

(* ext2_inode_indir_blocks_push and its double and triple forms.           *)
Pointed[l \in 0 .. 3, b \in Nat] ==
  IF l = 0 THEN Found(<<Run(b)>>, {b})
  ELSE IF b \in bad THEN Unread
  ELSE LET p == IF Holds(b).kind = "ptrs" THEN UpToZero(Holds(b).p) ELSE <<>>
       IN Marking(b, Join([i \in DOMAIN p |-> Pointed[l - 1, p[i]]]))

InOrder(x) == [x EXCEPT !.runs = [i \in DOMAIN @ |-> [@[i] EXCEPT !.block = i - 1]]]
ext2_inode_blocks_read(n) ==
  LET direct == UpToZero(n.dir_blocks)
      more == IF Len(direct) < INDIRECT_BLOCKS THEN <<>>
              ELSE SelectSeq(<<1, 2, 3>>, LAMBDA l : n.indir[l] # 0)
  IN InOrder(Join([i \in DOMAIN direct |-> Pointed[0, direct[i]]]
                  \o [i \in DOMAIN more |-> Pointed[more[i], n.indir[more[i]]]]))

(* The nodes of an extent tree; 0 stands for the one in the inode.         *)
IsChild(b, depth) == b \notin bad /\ Holds(b).kind = "tree" /\ Holds(b).depth = depth
extent_iterator_init(n) ==
  LET Entries(b) == IF b = 0 THEN n.e ELSE Holds(b).e
      Leaf(e) == Found(e, UNION {e[i].start .. e[i].start + e[i].len - 1 : i \in DOMAIN e})
      Below[d \in 0 .. 5, b \in Nat] ==
        LET e == Entries(b)
        IN IF d = 0 THEN Leaf(e)
           ELSE Join([i \in DOMAIN e |-> IF IsChild(e[i], d - 1) THEN Marking(e[i], Below[d - 1, e[i]])
                                                               ELSE Unread])
  IN IF n.magic /\ n.depth <= 5 THEN Below[n.depth, 0] ELSE Unread

Mapped(n) == IF n.extents THEN extent_iterator_init(n) ELSE ext2_inode_blocks_read(n)

(* Each level of the tree above a failure frees it->parent: the second     *)
(* free() of it ends the program.                                          *)
FreesTwice(x) == x.frees >= 2 /\ x.runs # <<>>
Aborts(n) == n.extents /\ FreesTwice(Mapped(n))
BlocksOf(runs) == FlattenSeq([i \in DOMAIN runs |-> [j \in 1 .. runs[i].len |-> runs[i].start + j - 1]])

-----------------------------------------------------------------------------
(* Directories, symlinks and files                                         *)
Short == <<[ino |-> 0, name |-> 0, is |-> "short"]>>    \* direntlen is too short
NoDir == [ok |-> FALSE, ents |-> <<>>]
DirOf(blocks) ==
  [ok |-> TRUE, ents |-> FlattenSeq([i \in DOMAIN blocks |->
     IF Holds(blocks[i]).kind = "dir" THEN Holds(blocks[i]).e ELSE Short])]

(* Without extents, a block that cannot be read makes the directory empty: *)
(* the error is kept in a variable of the inner block.                     *)
DirIn(n, blocks) ==
  IF ~n.extents /\ blocks = <<>> THEN NoDir
  ELSE IF Range(blocks) \cap bad = {} THEN DirOf(blocks)
  ELSE IF n.extents THEN NoDir ELSE DirOf(<<>>)
DirAt(n, x) == IF n.is = "dir" /\ x.ok THEN DirIn(n, BlocksOf(x.runs)) ELSE NoDir
DirOfInode(n) == DirAt(n, Mapped(n))
dirent_iterator_init(ino) == DirOfInode(ext2_read_inode(ino))

NoData == [ok |-> FALSE, data |-> <<>>]
symlink_inode_get_target(n) ==
  LET b == IF n.extents THEN n.e[1].start ELSE n.dir_blocks[1]
  IN IF n.is # "lnk" \/ n.size > BlkUnits THEN NoData
     ELSE IF n.size < SymlinkUnits THEN [ok |-> TRUE, data |-> n.target]
     ELSE IF b \in bad THEN NoData
     ELSE [ok |-> TRUE, data |-> SubSeq(Units(b), 1, n.size)]

Put(file, to, data) == IF data = <<>> THEN file ELSE WriteAt(file, to * BlkUnits, data, Hole)

CopyBlocks(n, x) ==
  LET Copy(file, i) == Put(file, i - 1,
        DdBlocks(x.runs[i].start % WrapBlocks, Lesser(BlkUnits, n.size - (i - 1) * BlkUnits)))
  IN IF ~x.ok \/ n.size > Len(x.runs) * BlkUnits THEN NoData
     ELSE [ok |-> TRUE, data |-> FoldLeft(Copy, <<>>, [i \in 1 .. Up(n.size, BlkUnits) |-> i])]
unpack_file_from_dir_blocks(n) == CopyBlocks(n, Mapped(n))

(* What is left of the size counts the blocks copied, not their offset.    *)
Left(left, bytes) == left - bytes
CopyExtents(n, x) ==
  LET Copy(f, r) ==
        LET bytes == Lesser(r.len * BlkUnits, f.left)
            got == DdBlocks(r.start, bytes)
        IN IF ~f.ok THEN f
           ELSE [ok |-> Len(got) = bytes, data |-> Put(f.data, r.block % WrapBlocks, got),
                 left |-> Left(f.left, bytes)]
  IN IF ~x.ok THEN NoData
     ELSE FoldLeft(Copy, [ok |-> TRUE, data |-> <<>>, left |-> n.size], x.runs)
unpack_file_from_extents(n) == CopyExtents(n, Mapped(n))

unpack_file(n) ==
  IF n.is \notin {"reg", "lnk"} THEN NoData
  ELSE IF n.size = 0 THEN [ok |-> TRUE, data |-> <<>>]
  ELSE IF n.extents THEN unpack_file_from_extents(n) ELSE unpack_file_from_dir_blocks(n)

-----------------------------------------------------------------------------
(* The layouts: what a group keeps for the file system itself.             *)
SparseGroup(g) == g = 1 \/ \E p \in {3, 5, 7} : \E k \in 1 .. g : p^k = g
ext2_block_group_has_backup_sb(g) == vol.sparse_super => SparseGroup(g)

Layout(type, g, start, len) == [is |-> type, group |-> g, start |-> start, len |-> len]
LayoutsOf(g) ==
  LET start == g * vol.blocks_per_group
      gdt == Up(n_block_group, vol.groups_per_block)
      d == Group(g)
  IN (IF g = 0 \/ ext2_block_group_has_backup_sb(g)
        THEN <<Layout("sblock", g, start, 1), Layout("gdt", g, start + 1, gdt),
               Layout("reserved", g, start + 1 + gdt, vol.reserved_gdt_blocks)>>
        ELSE <<>>)
     \o <<Layout("inode bitmap", g, d.inode_id, 1), Layout("data bitmap", g, d.block_id, 1),
          Layout("inodes", g, d.inode_table_id, Up(vol.inodes_per_group, vol.inodes_per_block))>>
ext2_editor_init_layouts ==
  SelectSeq(FlattenSeq([g \in 1 .. n_block_group |-> LayoutsOf(g - 1)]), LAMBDA l : l.len > 0)
Layouts == Range(ext2_editor_init_layouts)
LayoutBlocks == UNION {l.start .. l.start + l.len - 1 : l \in Layouts}
disk_layout_match_block(b) == {l \in Layouts : l.start <= b /\ b < l.start + l.len}
format_disk_layout(l, size) == Logged(l.is, l.group, 0, size)

-----------------------------------------------------------------------------
(* The blocks of an inode that sparse writes and whohas looks at.          *)
inodes_used == vol.total_inodes - vol.free_inodes
IsWalked(n) ==
  /\ n.size # 0 /\ n.ctime # 0
  /\ n.is \in {"reg", "dir"} \/ (n.is = "lnk" /\ n.size >= SymlinkUnits)
ClaimsOf(ino, n) ==
  IF n.is = "none" THEN {}
  ELSE IF ino = EXT2_RESIZE_INO THEN {n.indir[2]} \ {0}
  ELSE IF IsWalked(n) THEN Mapped(n).marked ELSE {}
Claims(ino) == ClaimsOf(ino, ext2_read_inode(ino))
ClaimAborts(ino) == LET n == ext2_read_inode(ino)
                    IN ino # EXT2_RESIZE_INO /\ IsWalked(n) /\ Aborts(n)
ext2_whohas_blkno(b) == Min({ino \in 1 .. inodes_used : b \in Claims(ino)} \cup {inodes_used + 1})
AbortsBefore(n) == \E ino \in 1 .. Lesser(n, inodes_used) : ClaimAborts(ino)

-----------------------------------------------------------------------------
(* The journal                                                             *)
Journal == ext2_read_inode(vol.journal_inode)

(* alloc_inode_file: a read stops at a block that cannot be read, and      *)
(* leaves zeros for the rest of its run.                                   *)
ReadRuns(runs) ==
  LET Read(r) == [j \in 1 .. r.len |->
                    IF bad \cap r.start .. r.start + j - 1 = {} THEN Holds(r.start + j - 1) ELSE Empty]
  IN FlattenSeq([i \in DOMAIN runs |-> Read(runs[i])])
alloc_inode_file(n) == SubSeq(ReadRuns(Mapped(n).runs), 1, Up(n.size, BlkUnits))
FileLoads(n, x) ==
  n.is \in {"reg", "lnk"} /\ x.ok /\ (n.extents \/ n.size <= Len(x.runs) * BlkUnits)
JournalLoads == FileLoads(Journal, Mapped(Journal))

IsHeader(h) == h.kind = "jblk"
Tags(h) == SubSeq(h.tags, 1, Least({i \in DOMAIN h.tags : h.tags[i].last} \cup {Len(h.tags)}))
OrNone(ino) == IF ino > inodes_used THEN 0 ELSE ino
OwnerOf(b) == IF disk_layout_match_block(b) # {} THEN 0 ELSE OrNone(ext2_whohas_blkno(b))

(* A descriptor is followed by as many data blocks as it has tags.         *)
NextHeaderMutant(j, l) == l + 1   \* mutant: data blocks are looked at too
NextHeader(j, l) == IF IsHeader(j[l]) /\ j[l].type = "descriptor" THEN l + 1 + Len(Tags(j[l])) ELSE l + 1
ext2_foreach_journal(j) ==
  LET New(h) == IsHeader(h) /\ h.sequence >= j[1].s_sequence
      ClassAt(l) == <<Logged(j[l].type, j[l].sequence, l - 1, 0)>>
      TagsAt(l) == IF j[l].type # "descriptor" THEN <<>>
                   ELSE LET t == Tags(j[l]) IN [i \in DOMAIN t |-> Logged("tag", t[i].blocknr, OwnerOf(t[i].blocknr), l - 1 + i)]
      From[l \in Nat] ==
        IF l > Len(j) THEN <<>>
        ELSE (IF New(j[l]) THEN ClassAt(l) \o TagsAt(l) ELSE <<>>) \o From[NextHeader(j, l)]
  IN From[1]

-----------------------------------------------------------------------------
(* Steps                                                                   *)
Ext2 == vol.fs = "ext2"
ext2_check_sblock ==
  /\ 0 \notin bad /\ vol.magic /\ vol.sblock_csum
  /\ vol.blocks_per_group > 0 /\ vol.inodes_per_group > 0 /\ vol.total_inodes > 0
GroupsChecked == vol.csum => \A g \in 0 .. n_block_group - 1 : Group(g).csum
ext2_detect ==
  /\ ext2_check_sblock
  /\ vol.blocks >= vol.total_blocks
  /\ GroupsChecked
  /\ ext2_read_inode(EXT2_ROOT_INO).is # "none"

Ext2Detect ==
  /\ Ext2 /\ pc = "detect"
  /\ IF ext2_detect THEN pc' = "run" /\ UNCHANGED ret ELSE Done(-1)
  /\ UNCHANGED <<image, dirs, at, out, used, error, img>>

(* print_dirent and unpack_dirent of the root directory.                   *)
Ext2Root ==
  /\ Ext2 /\ pc = "run" /\ cmd.name \in {"list", "unpack"} /\ dirs = <<>>
  /\ Starts(dirent_iterator_init(EXT2_ROOT_INO))
  /\ UNCHANGED <<image, at, out, used, error, img>>

Dots(d) == d.is = "dir" /\ d.name = 0
Passed == Entry.is # "short" /\ (Entry.ino = 0 \/ Dots(Entry))
Ext2Entry(name) == Ext2 /\ Running(name) /\ Walking /\ ~Passed
IsOf(types) == Entry.is \in types

Ext2PassEntry ==
  /\ Ext2 /\ Walking /\ Passed
  /\ Skip
  /\ UNCHANGED <<image, at, used, error, img>>

Ext2BadEntry ==
  /\ \/ Ext2Entry("list") /\ IsOf({"short", "bad"})
     \/ Ext2Entry("unpack") /\ IsOf({"short", "bad", "unknown"})
  /\ Done(-1)
  /\ UNCHANGED <<image, dirs, at, out, used, error, img>>

(* print_dirent: the line of an entry is printed before its inode is read. *)
BelowDepth == cmd.arg > 0 /\ Top.depth + 2 > cmd.arg
Ext2ListDir ==
  /\ Ext2Entry("list") /\ IsOf({"dir"})
  /\ out' = Append(out, Made(Entry, 0, <<>>))
  /\ IF BelowDepth THEN Goes(TRUE) ELSE Descends(dirent_iterator_init(Entry.ino))
  /\ UNCHANGED <<image, at, used, error, img>>

print_file(n) ==
  CASE n.is = "none" -> NoData
    [] n.is = "lnk"  -> symlink_inode_get_target(n)
    [] OTHER         -> [ok |-> TRUE, data |-> <<>>]
Prints(n, f) == /\ out' = Append(out, Made(Entry, IF n.is = "reg" THEN n.size ELSE 0, f.data))
                /\ Goes(f.ok)
Ext2ListFile ==
  /\ Ext2Entry("list") /\ ~IsOf({"dir", "short", "bad"})
  /\ \E n \in {ext2_read_inode(Entry.ino)} : Prints(n, print_file(n))
  /\ UNCHANGED <<image, at, used, error, img>>

(* unpack_dirent                                                           *)
MakesDir(d) ==
  /\ out' = IF d.ok THEN Append(out, Made(Entry, 0, <<>>)) ELSE out
  /\ Descends(d)
Ext2UnpackDir ==
  /\ Ext2Entry("unpack") /\ IsOf({"dir"})
  /\ MakesDir(dirent_iterator_init(Entry.ino))
  /\ UNCHANGED <<image, at, used, error, img>>

Makes(creates, f) ==
  /\ out' = IF creates THEN Append(out, Made(Entry, Len(f.data), f.data)) ELSE out
  /\ Goes(f.ok)
UnpacksFile(n, f) == Makes(f.ok \/ (Entry.is = "reg" /\ n.is \in {"reg", "lnk"}), f)
Ext2UnpackFile ==
  /\ Ext2Entry("unpack") /\ IsOf({"reg", "lnk"})
  /\ \E n \in {ext2_read_inode(Entry.ino)} :
       UnpacksFile(n, IF Entry.is = "reg" THEN unpack_file(n) ELSE symlink_inode_get_target(n))
  /\ UNCHANGED <<image, at, used, error, img>>

Ext2UnpackOther ==
  /\ Ext2Entry("unpack") /\ IsOf({"other"})
  /\ Skip
  /\ UNCHANGED <<image, at, used, error, img>>

(* ext2_do_sparse: the layouts, then inode after inode.  at is the inode.  *)
WithinMutant(blocks) == blocks      \* mutant: bits beyond the end are set
Within(blocks) == blocks \cap 0 .. vol.total_blocks - 1
NextInodeMutant(ino) == (ino + 1) % 16     \* mutant: a counter that is too narrow
NextInode(ino) == ino + 1
Ext2SparseLayouts ==
  /\ Ext2 /\ Running("sparse") /\ at = 0
  /\ used' = Within(LayoutBlocks)
  /\ error' = (LayoutBlocks # Within(LayoutBlocks))
  /\ at' = 1
  /\ UNCHANGED <<image, pc, dirs, out, img, ret>>

Ext2SparseInode ==
  /\ Ext2 /\ Running("sparse") /\ at \in 1 .. inodes_used
  /\ used' = used \cup Within(Claims(at))
  /\ IF ClaimAborts(at) THEN Done(-1) ELSE UNCHANGED <<pc, ret>>
  /\ at' = NextInode(at)
  /\ UNCHANGED <<image, dirs, out, error, img>>

Ext2SparseEnds ==
  /\ Ext2 /\ Running("sparse") /\ at > inodes_used
  /\ IF error THEN Done(-1) /\ UNCHANGED img ELSE Done(0) /\ img' = WriteChunks(used)
  /\ UNCHANGED <<image, dirs, at, out, used, error>>

Names(row) == out' = <<row>> /\ Done(0)
Ext2WhohasLayout ==
  /\ Ext2 /\ Running("whohas")
  /\ \E l \in disk_layout_match_block(cmd.arg) : Names(format_disk_layout(l, 0))
  /\ UNCHANGED <<image, dirs, at, used, error, img>>

Ext2WhohasInode ==
  /\ Ext2 /\ Running("whohas") /\ disk_layout_match_block(cmd.arg) = {}
  /\ \E ino \in {ext2_whohas_blkno(cmd.arg)} :
       IF ino > inodes_used \/ AbortsBefore(ino) THEN Done(-1) /\ UNCHANGED out
                                                ELSE Names(Logged("inode", 0, ino, 0))
  /\ UNCHANGED <<image, dirs, at, used, error, img>>

(* The size of a block is in the first one; while it is 0 the scan of the  *)
(* journal stays where it is.                                              *)
Ext2JournalSpins ==
  /\ Ext2 /\ Running("journal")
  /\ JournalLoads /\ Journal.size > 0 /\ ~IsHeader(alloc_inode_file(Journal)[1])
Ext2Journal ==
  /\ Ext2 /\ Running("journal") /\ ~Ext2JournalSpins
  /\ IF JournalLoads THEN out' = ext2_foreach_journal(alloc_inode_file(Journal)) /\ Done(0)
                     ELSE Done(-1) /\ UNCHANGED out
  /\ UNCHANGED <<image, dirs, at, used, error, img>>

(* The dtime of a deleted inode that is open is the next such inode.       *)
IsOrphan(n) == n.nlinks = 0 /\ n.dtime # 0 /\ n.dtime < vol.total_inodes
Ext2Orphan ==
  /\ Ext2 /\ Running("orphan")
  /\ LET lost == {i \in 1 .. vol.total_inodes - 1 : ext2_read_inode(i).is = "none"}
         last == IF lost = {} THEN vol.total_inodes - 1 ELSE Least(lost) - 1
         Is(i) == IsOrphan(ext2_read_inode(i))
         them == SetToSortSeq({i \in 1 .. last : Is(i)}, <)
     IN out' = [i \in DOMAIN them |-> Logged("orphan", 0, them[i], 0)]
  /\ Done(0)
  /\ UNCHANGED <<image, dirs, at, used, error, img>>

(* ext2_do_inode, _block, _dirent and _extent: what an inode or a block    *)
(* holds, shown without a walk.                                            *)
ExtentRows(depth, e) ==
  <<Logged("header", depth, 0, Len(e))>>
  \o [i \in DOMAIN e |-> IF depth = 0 THEN WithData(Logged("extent", e[i].block, 0, e[i].len), <<e[i].start>>)
                                      ELSE WithData(Logged("index", 0, 0, 0), <<e[i]>>)]
InodeRows(ino, n) ==
  <<WithData(Logged(n.is, 0, ino, n.size), <<ext2_inode_block_number(ino - 1)>>)>>
  \o (IF n.extents THEN ExtentRows(n.depth, n.e)
      ELSE IF n.is = "lnk" /\ n.size < SymlinkUnits THEN <<WithData(Logged("symlink", 0, 0, 0), n.target)>>
      ELSE <<WithData(Logged("blocks", 0, 0, 0), n.dir_blocks \o n.indir)>>)
Ext2Inode ==
  /\ Ext2 /\ Running("inode")
  /\ \E n \in {ext2_read_inode(cmd.arg)} :
       IF n.is = "none" THEN Done(-1) /\ UNCHANGED out ELSE out' = InodeRows(cmd.arg, n) /\ Done(0)
  /\ UNCHANGED <<image, dirs, at, used, error, img>>

Ext2Block ==
  /\ Ext2 /\ Running("block")
  /\ IF Readable(cmd.arg) THEN out' = <<Logged("block", 0, 0, cmd.arg)>> /\ Done(0) ELSE Done(-1) /\ UNCHANGED out
  /\ UNCHANGED <<image, dirs, at, used, error, img>>

Ext2Extent ==
  /\ Ext2 /\ Running("extent")
  /\ IF Readable(cmd.arg) /\ Holds(cmd.arg).kind = "tree"
       THEN out' = ExtentRows(Holds(cmd.arg).depth, Holds(cmd.arg).e) /\ Done(0)
       ELSE Done(-1) /\ UNCHANGED out
  /\ UNCHANGED <<image, dirs, at, used, error, img>>

(* An entry that is not in use is passed over by its length before the     *)
(* length is looked at; in a block of zeros that is 0.                     *)
DirentsIn(b) == DirOf(<<b>>).ents
FirstShort(e) == Least({i \in DOMAIN e : e[i].is = "short"} \cup {Len(e) + 1})
Ext2DirentSpins ==
  /\ Ext2 /\ Running("dirent") /\ Readable(cmd.arg)
  /\ \E i \in DOMAIN DirentsIn(cmd.arg) : i = FirstShort(DirentsIn(cmd.arg)) /\ DirentsIn(cmd.arg)[i].ino = 0
DirentRows(e, last) ==
  LET them == SelectSeq(SubSeq(e, 1, last), LAMBDA d : d.ino # 0)
  IN [i \in DOMAIN them |-> Line(0, them[i], 0, <<>>)]
Ext2Dirent ==
  /\ Ext2 /\ Running("dirent") /\ ~Ext2DirentSpins
  /\ IF ~Readable(cmd.arg) THEN Done(-1) /\ UNCHANGED out
     ELSE LET e == DirentsIn(cmd.arg)
          IN out' = DirentRows(e, FirstShort(e) - 1) /\ Done(IF FirstShort(e) <= Len(e) THEN -1 ELSE 0)
  /\ UNCHANGED <<image, dirs, at, used, error, img>>

(* The layouts in the order of where they start.                           *)
Ext2Layout ==
  /\ Ext2 /\ Running("layout")
  /\ LET them == SortSeq(ext2_editor_init_layouts, LAMBDA a, b : a.start < b.start)
     IN out' = [i \in DOMAIN them |-> WithData(format_disk_layout(them[i], them[i].len), <<them[i].start>>)]
  /\ Done(0)
  /\ UNCHANGED <<image, dirs, at, used, error, img>>

(* The resize inode: for each reserved block of the first group, the same  *)
(* block of the groups that have a backup.                                 *)
next_sparse_super_block_number(n) == Least({p^k : p \in {3, 5, 7}, k \in 1 .. n} \ 0 .. n)
SparseGroups ==
  LET From[g \in Nat] == IF g >= n_block_group THEN <<>> ELSE <<g>> \o From[next_sparse_super_block_number(g)]
  IN From[1]
Pointers(b) == IF Holds(b).kind = "ptrs" THEN Holds(b).p ELSE <<>>
ResizeRows(dind) ==
  LET ind == SelectSeq(Pointers(dind), LAMBDA b : b # 0)
      last == Least({i \in DOMAIN ind : ~Readable(ind[i])} \cup {Len(ind) + 1}) - 1
  IN [ok |-> last = Len(ind),
      rows |-> <<WithData(Logged("dind", 0, 0, dind), SparseGroups)>>
               \o [i \in 1 .. last |-> WithData(Logged("ind", 0, 0, ind[i]), UpToZero(Pointers(ind[i])))]]
ShowsResize(dind) ==
  IF dind = 0 \/ ~Readable(dind) THEN Done(-1) /\ UNCHANGED out
  ELSE out' = ResizeRows(dind).rows /\ Done(IF ResizeRows(dind).ok THEN 0 ELSE -1)
Ext2ResizeInode ==
  /\ Ext2 /\ Running("resize_inode")
  /\ IF ~vol.resize_inode \/ ~vol.sparse_super THEN Done(0) /\ UNCHANGED out
     ELSE \E n \in {ext2_read_inode(EXT2_RESIZE_INO)} :
            IF n.is = "none" THEN Done(-1) /\ UNCHANGED out ELSE ShowsResize(n.indir[2])
  /\ UNCHANGED <<image, dirs, at, used, error, img>>

Ext2Next ==
  \/ Ext2Detect \/ Ext2Root \/ Ext2PassEntry \/ Ext2BadEntry \/ Ext2ListDir \/ Ext2ListFile
  \/ Ext2UnpackDir \/ Ext2UnpackFile \/ Ext2UnpackOther
  \/ Ext2SparseLayouts \/ Ext2SparseInode \/ Ext2SparseEnds
  \/ Ext2WhohasLayout \/ Ext2WhohasInode \/ Ext2Journal \/ Ext2Orphan
  \/ Ext2Inode \/ Ext2Block \/ Ext2Dirent \/ Ext2Extent \/ Ext2Layout \/ Ext2ResizeInode
=============================================================================
