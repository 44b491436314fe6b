------------------------------ MODULE Squashfs ------------------------------
(***************************************************************************)
(* fs/squashfs.c: the tables of a squashfs that is not compressed.  They   *)
(* are kept in metadata blocks; the ids and the fragments are found        *)
(* through pointers.  Here a block is the unit of an offset: a metadata    *)
(* block at offset a has its header there and its cells in the blocks      *)
(* after it.  A cell is an inode, a directory header or entry, or what     *)
(* follows one of these (type "").                                         *)
(***************************************************************************)
EXTENDS FsWalk

CONSTANTS SQUASHFS_METADATA_SIZE,   \* cells of a metadata block
          InodeWrap                 \* 2^16: numbers relative to a header

Squashfs == vol.fs = "squashfs"
Cells(u, next) == [ok |-> TRUE, u |-> u, next |-> next]
NoLoad == [ok |-> FALSE, u |-> <<>>, next |-> 0]

-----------------------------------------------------------------------------
(* Metadata blocks                                                         *)
squashfs_read_metablock(a, bufsz) ==
  LET h == Holds(a)
      sz == Lesser(Len(h.u), bufsz)
  IN IF ~Readable(a) \/ h.kind # "meta" \/ h.compressed \/ Len(h.u) \notin 1 .. SQUASHFS_METADATA_SIZE
        \/ \E b \in a + 1 .. a + sz : ~Readable(b)
       THEN NoLoad
     ELSE Cells(SubSeq(h.u, 1, sz), a + 1 + Len(h.u))

(* A limit or a maximum of 0 is none.                                      *)
Then(x, y) == IF x.ok /\ y.ok THEN Cells(x.u \o y.u, y.next) ELSE NoLoad
squashfs_alloc_metablocks(offset, limit_offset, limit_max_blocks) ==
  LET From[a \in Nat, count \in Nat] ==
        IF \/ limit_max_blocks > 0 /\ count >= limit_max_blocks
           \/ limit_offset > 0 /\ a >= limit_offset
          THEN Cells(<<>>, a)
        ELSE LET chunk == IF limit_offset > 0 THEN Lesser(SQUASHFS_METADATA_SIZE, limit_offset - a)
                          ELSE SQUASHFS_METADATA_SIZE
                 x == squashfs_read_metablock(a, chunk)
             IN Then(x, From[x.next, count + 1])
  IN From[offset, 0]

(* The pointers are read one by one, each from where the file has come to: *)
(* the first from ppoffset, the others after the block of the one before.  *)
(* What is no pointer is taken for one to the super block.                 *)
Point(a) ==
  LET them == {p \in DOMAIN vol.block : vol.block[p].kind = "points" /\ a - p \in 0 .. Len(vol.block[p].p) - 1}
  IN IF them = {} THEN 0 ELSE Holds(Least(them)).p[a - Least(them) + 1]
ReadPoint(x, offset, y) ==
  IF ~x.ok \/ ~Readable(x.next) \/ ~y.ok THEN [x EXCEPT !.ok = FALSE]
  ELSE [x EXCEPT !.next = y.next, !.points = Append(@, [global_offset |-> offset, u |-> y.u])]
squashfs_read_ppoint(ppoffset, count) ==
  LET Read(x, i) == ReadPoint(x, Point(x.next), squashfs_alloc_metablocks(Point(x.next), 0, 1))
  IN FoldLeft(Read, [ok |-> TRUE, next |-> ppoffset, points |-> <<>>], [i \in 1 .. count |-> i])

-----------------------------------------------------------------------------
(* squashfs_init.  Without fragments the end of the directories is read    *)
(* from an array without elements; 0 is no end.                            *)
inode_table == squashfs_alloc_metablocks(vol.inode_table_start, vol.directory_table_start, 0)
uids == squashfs_read_ppoint(vol.id_table_start, vol.no_ids)
fragments == squashfs_read_ppoint(vol.fragment_table_start, vol.fragments)
DirTableEnds == IF vol.fragments = 0 THEN {0, vol.fragment_table_start}
                ELSE {Lesser(fragments.points[1].global_offset, vol.fragment_table_start)}
dir_table(end) == squashfs_alloc_metablocks(vol.directory_table_start, end, 0)
squashfs_init(end) == dir_table(end).ok

-----------------------------------------------------------------------------
(* The inodes are one after the other; the block list of a file is not     *)
(* counted.                                                                *)
InodeTypes == {"REG", "DIR", "SYMLINK", "LREG", "LDIR", "BLKDEV", "CHRDEV", "FIFO", "SOCKET"}
InodeSize(c) ==
  CASE c.type \in {"REG", "DIR", "LREG"} -> 2
    [] c.type \in {"SYMLINK", "LDIR"}    -> 2 + c.len
    [] OTHER                             -> 0
IdOf(c, ids) == IF c.id < Len(ids) THEN <<ids[c.id + 1].id>> ELSE <<>>
InodeLine(p, c, ids) == Line(0, [is |-> c.type, name |-> p - 1, ino |-> c.number], 0, IdOf(c, ids))
squashfs_do_inodes(u, ids) ==
  LET From[p \in Nat] ==
        IF Len(u) - p < 1 THEN [ok |-> TRUE, lines |-> <<>>]
        ELSE IF u[p].type \notin InodeTypes \/ u[p].id > 4 * (Len(ids) - 1) \/ InodeSize(u[p]) = 0
          THEN [ok |-> FALSE, lines |-> <<>>]
        ELSE LET rest == From[p + InodeSize(u[p])] IN [rest EXCEPT !.lines = <<InodeLine(p, u[p], ids)>> \o @]
  IN From[1]

(* A directory header is followed by count + 1 entries.                    *)
EntryNumberMutant(h, d) == d.number         \* mutant: not relative to the header
EntryNumber(h, d) == h.number + (d.number % InodeWrap)
squashfs_do_dirs(u) ==
  LET DirLine(h, d) == Line(0, [is |-> d.type, name |-> d.name, ino |-> EntryNumber(h, d)], 0, <<>>)
      From[p \in Nat, h \in Nat, left \in Nat] ==
        IF left = 0 \/ Len(u) - p < 1
          THEN IF Len(u) - p < 2 THEN [ok |-> TRUE, lines |-> <<>>] ELSE From[p + 1, p, u[p].count + 1]
        ELSE IF u[p].type \notin InodeTypes THEN [ok |-> FALSE, lines |-> <<>>]
        ELSE LET rest == From[p + 1 + u[p].len, h, left - 1]
             IN [rest EXCEPT !.lines = <<DirLine(u[h], u[p])>> \o @]
  IN From[1, 1, 0]

squashfs_do_fragments(points) ==
  FlattenSeq([i \in DOMAIN points |->
    [j \in DOMAIN points[i].u |-> Line(0, [is |-> "fragment", name |-> j - 1, ino |-> points[i].u[j].start], i, <<>>)]])

-----------------------------------------------------------------------------
(* Steps.  The length of the file is cast to 32 bits before bytes_used is  *)
(* compared with it; without a lookup table its start is the greatest.     *)
squashfs_detect ==
  /\ 0 \notin bad /\ vol.magic
  /\ vol.inode_table_start <= vol.directory_table_start
  /\ vol.directory_table_start <= vol.fragment_table_start
  /\ vol.fragment_table_start <= vol.lookup_table_start
  /\ vol.bytes_used <= vol.blocks % WrapBlocks
SquashfsDetect ==
  /\ Squashfs /\ pc = "detect"
  /\ IF squashfs_detect THEN pc' = "run" /\ UNCHANGED ret ELSE Done(-1)
  /\ UNCHANGED <<image, dirs, at, out, used, error, img>>

SquashfsLoads == ~vol.compressed /\ inode_table.ok /\ uids.ok /\ fragments.ok
Shows(found) == out' = found.lines /\ Done(IF found.ok THEN 0 ELSE -1)
SquashfsTable ==
  /\ Squashfs /\ pc = "run" /\ cmd.name \in {"inodes", "dirs", "fragments"} /\ SquashfsLoads
  /\ \E end \in DirTableEnds :
       IF squashfs_init(end)
         THEN Shows(CASE cmd.name = "inodes"    -> squashfs_do_inodes(inode_table.u, uids.points[1].u)
                      [] cmd.name = "dirs"      -> squashfs_do_dirs(dir_table(end).u)
                      [] cmd.name = "fragments" -> [ok |-> TRUE, lines |-> squashfs_do_fragments(fragments.points)])
         ELSE Done(-1) /\ UNCHANGED out
  /\ UNCHANGED <<image, dirs, at, used, error, img>>

SquashfsRefuses ==
  /\ Squashfs /\ pc = "run" /\ cmd.name \in {"inodes", "dirs", "fragments"} /\ ~SquashfsLoads
  /\ Done(-1)
  /\ UNCHANGED <<image, dirs, at, out, used, error, img>>

SquashfsNext == SquashfsDetect \/ SquashfsTable \/ SquashfsRefuses
=============================================================================
