# A TLA+ model of imgeditor

`imgeditor` finds, lists, unpacks and packs firmware images.  It is one process
with one thread: what is hard in it is not concurrency but long sequences of
calls over shared state (a table of windowed descriptors, a frontier of the
search per editor, a registry of partitions), walks over structures that come from an
image (chains, tables, chunk lists), arithmetic at boundaries, and pairs of
operations that must undo each other (pack and list, write and unpack).

## 1. Inventory

| part | state | operations | what makes it correct |
|---|---|---|---|
| virtual files (`virtual_file.c`) | `gd->vfps`, 32 slots; the kernel's descriptors and positions | open, dup, close, seek, read, length | a number is virtual exactly while a caller holds it; a window never changes; no position before its window |
| search (`main.c`) | the window and its overlap, `next_search_offset` of every editor, the results | `imgeditor_search`, `..._foreach`, `..._buf` | every image found once, at its place; ends |
| partition registry (`disk_partition.c`) | `gd->disk_parts_array` | register, register weak, find, free | the best table answers, whatever the order |
| MBR (`disk/mbr.c`) | primary and logic entries | detect, list, split | the chain of extended tables is followed exactly, bounded, and ends |
| GPT (`disk/gpt.c`) | header, entries | detect, list, peek, unpack, pack, create from text | what is written is found and reads back the same |
| Android sparse (`android/android_sparse.c`, `bitmask.c`) | bitmask of blocks, chunks | init, add_chunk, finish; list, unpack, sha1sum | the image is exactly the blocks added; unpack restores them |
| U-Boot environment (`u-boot/uenv.c`) | size, bytes | detect, list, pack | pack and list undo each other; detect finds the size |
| dispatch (`main.c`, `misc.c`, `gd.c`) | the options, the editor chosen and its private data; between processes the marker of an unpacked directory and a shared memory object left behind | search, list, unpack, pack, peek, an editor's own `main`, calls from plugins, exit | the editor a command is for acts, on the window asked for; the exit status says whether it succeeded |
| UBI (`fs/ubi.c`) | PEB cache, index of the file system | detect, list, unpack, `leb`, `peb` | the cache has what it says it has; a LEB is found if it is there; the tree is walked and copied exactly |
| file systems (`fs/ext2.c`, `xfs.c`, `f2fs.c`, `squashfs.c`) | what detect loaded (group descriptors, node address table, headers and trees of allocation groups, tables), the block being scanned, the blocks chosen | detect, list, unpack, full2simg, and queries: whohas, journal, orphan, inode, block, dirent, extent, layout, resize_inode; nat, nid, blocks by temperature; headers and trees of allocation groups, magic; tables | logical blocks map to the right physical ones; a walk shows every entry once, to the depth asked for; the sparse image has what is in use and nothing that is free; a query shows what is there and nothing else |
| device tree, FIT (`fdt/`) | the nodes read from the tags, with labels and numbers for external references | detect, list from a path, as source or (`-v`) as it is; unpack a FIT, its size | the text that is shown compiles to the same tree; each file of a FIT is the one put in |
| dtimg, boot image (`android/dtimg.c`, `android_bootimg.c`) | the header and entries, the JSON and the files of the directory | detect, list a table, unpack, pack | unpack and pack give the same image; pack makes what the configuration asks for |
| INI reader (`exini.c`) | sections and properties | load, look up | a property belongs to the section above it and has the value of its line |
| helpers (`structure.c`, `json_helper.c`, `string_helper.c`, `libs/`) | SHA1 and its relatives keep a block that is not full; the rest none | formatting, parsing, checksums | pure functions; a digest does not depend on how the stream is cut |

How they meet: `main` opens the image as a virtual file and gives it to every
editor's `detect`, or, in search mode, to the editors whose magic occurs in a
window, each on a `virtual_file_dup` of the image.  MBR and GPT register the
partitions they detect, and the search looks up every image it found in them.
The file systems' `full2simg` and the sparse editor share the sparse writer.
A table of device trees reads its trees with the code of the device tree editor, and
a FIT is a device tree whose data is unpacked next to the text of the tree.

`PROJECT.json` lists every hazard at its line; the properties below are for them.

## 2. Modules

```
VirtualHandles <---implements--- VirtualFile <--- MCVirtualFile
                                     ^--- VirtualFileProofs (TLAPS)
ImageSearch <--- Main <--- MCImageSearch
                  ^--- MainProofs (TLAPS)
DiskPartitions <--- Mbr <--- Disk <--- MCDisk
             GptTable <-------|^--- DiskProofs (TLAPS)
Files, GptTable <--- Gpt <--- MCGpt
                       ^--- GptProofs (TLAPS)
Files, Bitmask <--- AndroidSparse <--- MCAndroidSparse
                        ^--- AndroidSparseProofs (TLAPS)
Files <--- Uenv <--- MCUenv
               ^--- UenvProofs (TLAPS)
Files <--- Lemmas <--- UenvProofs, DiskProofs, GptProofs, UbiProofs, AndroidSparseProofs (TLAPS)
Files, UbiPebs <--- UbiFs <--- MCUbi
                    ^--- UbiProofs (TLAPS)
Files <--- FsWalk <--- Ext2, F2fs, Xfs, Squashfs <--- FileSystems
              ^--- Containers <--- Fdt <--- FdtList
                        ^           ^--- Dtimg ---> Exini
                        ^--- BootImg ---> Digest
FileSystems, FdtList, Dtimg, BootImg <--- Editors <--- MCEditors (with MCFileSystems)
```

- **VirtualHandles** is the promise: a descriptor is a handle on a fixed window or
  it is not a handle.
- **VirtualFile** is the table (`vfps`) and, external, the kernel below it: lowest
  free number first, `dup` sharing one position.  One action per function and per
  way it ends: `VirtualFileOpen`, `VirtualFileOpenFull`, `VirtualFileDup`,
  `VirtualFileDupFails`, `VirtualFileDupFull` (the missing NULL test),
  `VirtualFileClose`, `VirtualFileCloseUnknown`, `FileOpen`, `PlainClose`,
  `FileLength`, `FileSeek`, `FileRead`.  `held`, `base` and `crashed` are history.
- **ImageSearch** is the search: `ReadWindow` steps back and reads, one action per
  outcome for the editor under the cursor (`SkipEditor`, `NotFound`,
  `MatchTooShort`, `Match`, `MatchMbr`, then `DetectRefuses`, `DetectAccepts`,
  `ReallocFails`), `WalkAgain` while some editor matched, `WindowDone`.  The file is the set of positions at which each magic occurs, and
  `detect` answers anything.
- **Main** runs commands one after another, each a process: `Begin` with any command line,
  the options (`OptionsEnd`, `ListPlugins`), the search, or the choice of an editor by
  type, by asking each (`DetectTried`) or by the marker of a directory (`ChoosePack`),
  then its function (`ActSimply`, `ActPeek`, `ActUnpack`), `ExitEditors` and `FreeGd`.
  `PluginDies` is an editor of a plugin that looks another one up in an object that was left.  `dump` and `left` are what
  lasts between processes: the marker, and the shared memory object of one that returned early.
- **DiskPartitions** is the registry (`free_registed_disk_partitions`, called once at the end of `main`,
  is left out); **Mbr** the detection of an MBR and the walk
  along the extended tables (one action per table and per entry, with the entries
  kept as they are read); **GptTable** what a GPT registers, in addresses of 32 bits; **Disk** composes the
  three, so that lookups see both kinds of table in any order.
- **Gpt** follows a text: `ParsePart` per part that the buffers of `gpt_parse_partitions` hold, a part
  that is cut being read as far as it goes (`CutForms`), `Write`, which seeks to 32-bit addresses, then the file is
  opened at an offset or through a window (`Open`), `Detect` tries the two header
  places and the three entry places, and the table is unpacked to JSON (`Unpack`),
  packed again (`Pack`) or listed as text (`ListReverse`).  Entries, names and
  UUIDs are small records; a CRC is the identity of what it is taken over.
- **AndroidSparse** is the writer (`AddChunk` any number of times, `FinishBegins`,
  `WriteRun` per run of ones, `FinishEnds`) and the reader (one action per chunk
  type and failure).  A file is a sequence of units (`Files`); a block is a few
  units; the reader also gets foreign images with chunks the writer never makes.
- **Uenv** packs a text line by line, appends anything to the image, detects with
  one action per trial size, and lists.  A character is a model value; the ones
  the code treats specially (newline, NUL, the escape for a newline) are told apart.
- **UbiPebs** is the cache of PEBs and `ubi_read_leb`: a LEB comes from the cache
  (`LookupCached`) or the image is searched from PEB 2 on (`LookupBegins`, then one
  action per PEB: `ScanMatch`, `ScanOther`, `ScanUnreadable`, `ScanStops`).  A cache
  entry holds the number of the PEB whose bytes it has, or `JUNK` after a read that
  did not fill it.  `ReadPeb` is for `peb` and `vtbl`, which look at one PEB and end.
- **UbiFs** is everything above: the index is loaded node by node (`todo` is the
  stack of `ubi_bptree_load`), then directories are walked (`dirs` is the recursion
  of `ubi_list_dent` and `ubi_unpack_dent`) and files copied block by block.  Every
  node is asked for (`Ask`), and the next action waits for the answer.
  `ubi_bptree_find` is a recursive function; keys are numbers made as the code makes
  them.  `Tree` and `Content` are the reference: they read the leaf entries as a set.
- **FsWalk** is what the four readers of `fs/` share: an image whose blocks are records
  of what they hold, blocks that cannot be read, the walk of a directory (`dirs` is the
  recursion), what was printed or made (`out`), and the blocks given to the sparse
  writer with what its callback then copies (`WriteChunks`).
- **Ext2** finds inodes through the group descriptors and blocks through extents or
  direct and indirect pointers; walks for `list` and `unpack`; asks who has a block
  (`Ext2WhohasLayout`, then inode by inode); scans the journal from tag to tag, and the
  inodes for orphans; chooses the blocks of a sparse image by walking every inode; and
  shows an inode with its blocks, an extent block, the entries of a block, the layout
  of the groups, and the blocks that the resize inode reserves below each group.
- **F2fs** finds nodes through the node address table, lists and unpacks, and shows a
  block by its number or by its place in a segment of a temperature, as a superblock, an inode,
  entries, or a part of a table.  **Xfs** loads
  the allocation groups, chooses the blocks that the free space trees leave, and prints
  a structure or tree of a group, an inode with its first extent or its entries, or
  every block with a magic number; **Squashfs** reads chains of
  metadata blocks and prints the inodes, directories and fragments in them.
- **FileSystems** composes them.  A volume also says what was put into it (`truth`,
  `owner`, `log`, `shown`), independently of how its blocks are laid out, and the
  properties compare what a command did with that.
- **Containers** is what the editors of files in files share: the directory (`dir`), the
  image (`packed`), what was loaded, and the `stage` a command is in.
- **Fdt** reads tags into nodes (`fdt_load`), finds nodes by path and number, takes labels
  from the symbols, and gives numbers to the external references of an overlay.
  **FdtList** shows the tree as text, in the order of the code: a property is tried as a
  number, a reference, strings, cells, bytes; a name that is known to refer, in the way it
  does.  `FitUnpack` begins, `FitUnpackImage` copies each file out, and `FitUnpackEnd`
  prints the text that includes them.
- **Exini** reads a configuration line by line: comments, quotes, sections, and the
  quirk that a section is a line without a value.  **Dtimg** lists, unpacks (entry by
  entry) and packs (section by section) a table of trees; `repack` is unpack and pack
  one after the other on the same directory.
- **Digest** is SHA1 as a stream, up to the compression, of which the blocks it is given
  are kept.  **BootImg** detects by the digest over what `dd` reads, with a
  buffer of which a short read changes a part only; unpacks and packs.
- **Editors** composes all of them: one command on one image.  What a text, a FIT, a
  table and a boot image were made from is in the volume (`source`, `content`, `want`).
  `MCEditors` has a small `dtc` that makes trees with symbols and fixups from a source.

## 3. Runs

All runs are one thread, so a step is one call or one iteration of a loop, in the
order of the code; `\E` ranges over inputs, file contents, what `detect` answers
and which call fails.  Every model stops when its command
has returned, so `CHECK_DEADLOCK FALSE`; `editors` stutters there instead
(`Stays`), and its deadlock check shows that a command not yet returned can go on.

| run | shows | bounds and why they are enough |
|---|---|---|
| `virtual_file` | `TableExact`, `CrashOnlyWhenFull`, `PositionStaysInWindow`, `ImplementsHandles` | 2 slots (a full table, a free slot between), 3 numbers (one plain, two handles), 3 descriptions, offsets -1..1, positions up to 1; open descriptions are symmetric |
| `image_search` | `NoDuplicates`, `FoundInPlace`, `CommandExact`, `Terminates` | searches: 9 bytes, windows of 5 with 2 read back (several windows, a last short one), MBR plus two editors with magics of 2 and 1 bytes at offsets 1 and 0, up to two places of the longer magic, from byte 0, 4 or 7, one failing realloc or open; commands: up to three in a row of every kind, with and without type, offset and output, three editors with different functions, one of which looks the others up |
| `image_search_straddle` | the disagreement of section 5 | as above |
| `disk` | `MbrTableExact`, `GptWins`, `DetectReturns` | 5 sectors, chains of up to three tables with loops, links that wrap, entries in every order and one without sectors; logic[] of 3; registry of 2; up to two GPTs, with partitions below and beyond 4 GiB, which are 4 sectors (`Mod32`, of 2 bytes each) |
| `disk_type` | section 5 | as above |
| `android_sparse` | `UnpackReproduces` (of unpack, fast unpack and the checksum), `ImageIsExact` | 5 blocks in bytes of 4 bits (unused bits at the end), up to 3 overlapping adds, chunk sizes modulo 9 (a run of 4 blocks wraps), one failing copy, four foreign images |
| `uenv` | `ListReproduces`, `DetectIsExact`, `Ended` | texts of up to 5 characters over letter, escape and newline, lines of up to 3, sizes 2..24 with a smallest size of 2, blocks of 8 and a largest of 24, trailers of 0, 3 and 30 |
| `uenv_overflow` | section 5 | as above |
| `gpt` | `DetectFindsTable`, `PartitionsFollow`, `RoundTrip` | texts of up to 3 of 7 kinds of partition (with and without start, name, type), tables of 1 and 2 entries, entries before, over and behind the header and beyond 4 GiB, which are 16 blocks (`Mod32`), images at 0, 1 and 3 blocks; a buffer of 12 bytes and 3 parts (`PARTITIONS_BUFFER`, `PARTS_ARGV`, `Bytes`), so that texts fit, are cut within a part, between two, or have one part too many |
| `gpt_type` | section 5 | as above |
| `ubi` | `CacheExact`, `LookupExact`, `WalksExact`, `Ended` | 2 cache entries (every third PEB replaces one in use), nine images of 1 to 7 PEBs after the volume table: in order, backwards, with copies, erased, bad, stale or missing PEBs; fifteen file systems of up to 10 leaves, with 2 to 9 entries in a node (one to four levels, and one node over the fanout of 5): nested directories, links, holes, short tails, devices, colliding hashes, wrapped offsets, bad nodes; one read that fails anywhere |
| `editors` | `ListExact`, `UnpackExact`, `SparseExact`, `QueriesExact`, `StructuresExact`, `TreeExact`, `RepackExact`, `Ends` | see below |

The run `editors` takes one of 151 images through each command of its editor, some
150,000 states, as each property is about one command on one image:

- 65 volumes (19 ext2 and ext4, 20 f2fs, 10 xfs, 16 squashfs), sound ones and damaged ones,
  each read whole or with any one block that cannot be read.  Blocks are of 2 units; an ext2
  inode has 2 direct blocks (so that small files reach the double indirect block), extent
  trees three levels; 2 to 3 groups, with and without backups, and one volume of ten groups, so
  that groups 1, 3, 5, 7 and 9 have a backup and the others not; 4 GiB is 40 blocks, which one ext4, one
  xfs, one sparse file and two squashfs exceed, one of which is refused for it; metadata blocks of a squashfs are of 4 cells.
- 32 trees: a board with every kind of value and reference, an overlay and a FIT of two
  files, sound; then trees without symbols or as no compiler makes them (tags, fixups,
  fragments, sizes), and a FIT with a file that cannot be opened, was there before, or is not
  whole.  Depth goes to 5, the limit; values to 8 cells, of which 6 are printed; numbers
  are modulo 256.
- 28 tables: three of two trees, in which the values of the entries are equal, differ or are 0;
  a configuration with global options, values from paths, a comment on a line and the same
  tree twice; one with paths through a node, with and without ':' between its name and that of the property;
  twelve configurations with one odd line; eleven damaged headers or files.
- 26 boot images of versions 0 to 2 with pages of 2 and 4 units, files that are empty,
  fill a page or end in it, and blocks of the SHA1 of 4 units, so that every padding occurs;
  eleven directories to pack; cut images, which `dd` reads over what its buffer held.

Each property has a mutant in `PROJECT.json` that breaks it: a guard dropped, an
off-by-one, a field not reset.  Liveness (`Terminates`, `DetectReturns`, `Ended`, `Ends`)
assumes weak fairness of the whole next-state relation of the one thread: the
process runs until it returns, and no call it makes waits for anybody.  In `ubi` the
fairness leaves out reads that fail, so that a search does not end only because a
read fails in the end.  In `editors` the fairness of `Next` is written out
(`<>[]CanStep => []<><<Next>>_allVars`): its ENABLED is costly for TLC, and the deadlock
check shows that a step is possible wherever `CanStep` says so.

Preconditions worth knowing.  `FoundInPlace` leaves out magics across
a frontier (section 5) and searches that ran out of memory, which leave the walk;
its claim about the place a detect is given is about searches of the whole file: with
`--offset` the places the search passes to `virtual_file_dup` are absolute and are
shifted by the window again.  `CommandExact` allows for what the
code does not clean up: a return before `imgeditor_free_gd` leaves the shared memory
object, named after the process, with its slot in use, and a later process of the same number
opens its image through that slot's window; and an option with an offset leaves 0 in `ret`
(`main.c:757`), so that a command for which no editor is found then ends with success.  What `MbrTableExact` says of the chain is about sectors the 32-bit seek can
address (`ChainIsSmall`), and that an entry is covered by the registered table is about
entries that have a sector: an entry without any at sector 0 is registered with an end that wraps.
`GptWins` is about GPTs whose partitions lie below 4 GiB (`Below4G`): the address of a partition beyond is
a 32-bit product (`gpt.c:437`), and it is registered where that wraps to; a walk over the entries that takes
their low 32 bits ends at one that starts at a multiple of 2^32 blocks.  Where such a table is registered too, the lookup
still answers a GPT, but maybe at a wrapped address.  The end of a partition is, as in the code, the byte before its last block.  `DetectReturns` excepts a chain that comes back to a table without
having named a partition: nothing in the code stops that one.  `UnpackReproduces`
excepts runs whose size wraps.  The headers that the writer writes itself (`android_sparse.c:99`, `:145`, `:172`)
are not looked at by the code and always succeed in the model.  `ListReproduces` is about texts without empty
lines, over-long lines and escapes, which the format cannot hold.
`DetectFindsTable` asks that a table is found if its entries are clear of the header and below 4 GiB (`Clean`): `gpt_write`
seeks to a 32-bit product (`gpt.c:1198`) and writes entries beyond over what lies at the wrapped place.
`RoundTrip`, of the text, is about sizes that are a multiple of the unit they are printed
in and about texts that the buffers of `gpt_parse_partitions` hold (`Fits`), and it is about tables with partitions none of which starts at block 0, where every walk ends (`Whole`);
the number given with `--num-parts` is one for which there is room (`Options`).
`PartitionsFollow` is about texts whose partitions all have names (`Named`: one without a name
is written over by the next, which lies behind it) and lie behind block 0 (`NoneAtZero`), and of which none is
cut by the end of the buffer (`NoneCut`); what 4095 bytes and 127 parts do not hold is lost without a word
(`gpt.c:1433`, `:1435`), and the property says that nothing else is.  Not modelled: a part of more than 1023 bytes or 31
expressions, which `gpt_parse_part` cuts in the same way, and an expression given twice in a part.  In `ubi`, a "stale" PEB is an older or torn copy whose nodes do not check;
which of several good copies is newer the code never asks (`sqnum` is not read), and
`LookupExact` says only that one of them answers.  `WalksExact` is
about directories whose entries have distinct hashes (`DistinctHashes`: of two with
one hash the walk skips the second), and for unpack about files whose offsets do
not wrap (`FilesFit`, 4 GiB).  `Ended` excepts an entry or block at the greatest hash
(`BelowTheMask`): the walk finds it again for ever, and one file system in the run
does.  A data node that cannot be read ends its file as a hole would, and unpack
succeeds (`fs/ubi.c:2118`); `WalksExact` allows the difference only then (`lost`).
A failing `mkdir` or `write` is ignored by the code and not modelled.

In `editors`, *intact* is a sound volume of which every block can be read: there
every command succeeds and its answer is the truth.  Otherwise a command that succeeds
still has to be right, except where the code does not look: a block of an ext2 file
without extents that cannot be read (`LostDir`, `LostData`: the walk goes on as if the
list of blocks had ended), offsets that wrap at 4 GiB (`Small`), an f2fs inode whose first
entry in the node address table is that of another of its nodes (`NodesFound`), an xfs
inode beyond the first group when the blocks of a group are no power of two
(`Numbered`), a squashfs of 4 GiB or more, which is refused if its length is too small modulo 4 GiB
(`LengthFits`, `fs/squashfs.c:367`), and in-use inodes after a gap of free ones, where the scans for a sparse
image and for an owner end (`packed`).  An f2fs block is shown "as" a structure only where
that structure is, since the code does not look.  Of an xfs inode the code shows the first
extent only; its start block is modelled modulo 2^48, since `fs/xfs.c:491` keeps 5
of the 9 high bits, and as a block of the image only in the first group or with groups of a
power of two of blocks.  `Ends` excepts a journal whose first block cannot be read,
whose block size is then 0 (`Ext2JournalSpins`), and `dirent` of a block with an entry of no length and no
inode, such as a block of zeros (`Ext2DirentSpins`, `fs/ext2.c:1941`): the scans then stay where they are.

Of trees, `TreeExact` asks that a source with symbols is shown as it was; `-v` is asked for the values
of cells that are printed whole and not as negative numbers (`Printable`), and 4 bytes are text or
a number, not both.  An overlay refers to labels outside it, and to labels inside it without cells.
Numbers of cells are below 2^30, where `fdt.c:411` does not wrap.  A FIT is unpacked to an
empty directory: unpack does not truncate a file that is there.  In a table, a tree's
`board_id` and `board_rev`, where present, are numbers, or pack refuses it.  Every ':' is deleted from a path of a
configuration (`dtimg.c:413`): `/:board_id` is the property of the root, but `/chosen:board_id` is a name that no
tree has, so the entry is 0 without a word; `RepackExact` asks for exactly that, and of `/chosen/board_rev` or
`/chosen/:board_id` for the value.  Paths are shorter than their 128 bytes.  A boot image
that is packed again loses what pack does not load of versions 1 and 2 (`Reloaded`: three fields, and the last
character of a name that fills its field).  A boot image that was cut is
accepted only if its id was made from what the buffer then holds; nothing more is asked of it.
The SHA1 is the sequence of the blocks that are compressed, so two digests are equal only for equal files.

## 4. Proofs

`VirtualFileProofs` proves, with TLAPS, for every number of slots, descriptors,
descriptions and files (assuming at least one slot and one file, numbers in `Nat`,
integer offsets and a `NONE` that is no description):

- `TypeCorrect`: `Spec => []TypeOK`.  Positions stay in `Nat` whatever offset is
  passed, because a refused seek leaves the position (`SeekTo`).
- `TableIsExact`: `Spec => []TableExact`.  Exactness is inductive together with
  the types.  The argument: a number handed out was not open, every used slot's
  number is open, so the new slot's number is in no other slot (`ExactNewHandle`);
  a plain close is of a number that is not held, so it is in no used slot.
- `DupIsSafeBelowTheLimit`: `Spec => []CrashOnlyWhenFull`.  Needs exactness: when
  all slots are used, all their numbers are held, and differ.
- `PositionsStay`: `Spec => []PositionStaysInWindow`.  The invariant as checked is
  not inductive, since nothing in it says that the windows themselves start late
  enough for the next seek.  `PositionInv` adds that every used slot's start is at
  or after the least start made on its description; `CloseKeepsPositions` shows
  that a description is forgotten only when no used slot is on it.
- `HandlesAreImplemented`: `Spec => Handles!Spec` under the mapping `windows`.  Each
  step makes one handle (`WindowsNewHandle`), closes one (`WindowsClose`) or leaves
  every used slot as it was (`WindowsUntouched`).

`UbiProofs` proves for every image, number of cache entries and pattern of failing
reads (assuming at least one entry, images without gaps, and `NONE` and `JUNK` that are
no numbers):

- `CacheIsExact`: `PebSpec => []CacheExact`.  The entry that a read reuses is out of use
  (`hit = 0`) before its bytes change and in use again only with all of them
  (`ReadKeepsExact`); the number read was in no entry, so no PEB is cached twice.
- `LookupIsExact`: `PebSpec => []LookupExact`.  `Inv` adds to the types and the exact
  cache that only PEBs after the volume table are cached until the last command
  (`CachedAreData`; without it an entry for PEB 0 would answer for the super block), and
  that the search has passed no copy of its LEB (`NonePassed`).  That it stops only
  at the end of the image rests on an image having no gaps (`NoGap`).

Of the commands it proves `CommandsUseTheReader`: `Spec => PebSpec`, step by step
(`ReaderStepped`), so both hold of every command, file system and index
(`CacheStaysExact`, `LookupsStayExact`).

`CommandsTyped` is `Spec => []TypeOK`, for every index that is a tree with branches to leaf nodes and
to index nodes of lower levels, and leaf nodes with the fields of their type (`SystemsAssumption`; damage
is in which PEBs can be read, what kind of node an entry is for, and what decompresses).  The
search of the index is a function that calls itself, so it is shown first that there is such a function,
level by level, and that whatever function satisfies its equation answers with an entry of a leaf node or with
none (`DescentExists`, `DescentTyped`, `FindType`).  The types alone are not inductive: `Walking` adds that a
directory is open while one is walked, that the node waited for is the entry or the inode in use, and that the
fields of an entry are used only after its type was checked.

`MainProofs` proves the properties of the composed specification, over any sequence of commands:
first what a step of the search keeps, then the same of every other action.  They assume that mbr is among the
editors and has no magic, that the file is not empty and every magic lies in it, that windows are longer
than what is read back, and that a search may begin at the start of the file.

- `TypeCorrect`: `Spec => []TypeOK`, with the editor of each action (`TypeInv`).
- `NothingPrintedTwice`: `Spec => []NoDuplicates`.  By itself that is not inductive, as
  nothing in it says that the next match is a new one.  `DuplicatesInv` adds that what is printed of an
  editor lies behind its `next_search_offset` (`Behind`), and that the match being probed does too but is
  not counted yet; MBR, which has no magic to search for, is behind once the window at 0 was scanned.
- `SearchMissesNothing`: `Spec => []FoundInPlace`.  `PlacesInv` says where windows begin (at
  multiples of the step; the end of each is a frontier), and `EditorInv` that every magic before an
  editor's `next_search_offset` which does not straddle a frontier was answered, and that an editor
  the walk has passed without a match has its offset at the end of the window.
- `CommandsAreExact`: `Spec => []CommandExact`.  `CommandInv` says of each stage what is known by then:
  while editors are asked in turn no recogniser was passed, the editor found is the rightful one
  (`Chosen`), the window is where it was asked for unless a slot was left behind (`AtWindow`), and
  the marker names who dumped last (`DumpInv`).

`Lemmas` has what several proofs need: induction over the natural numbers as a statement
about sets (the library's takes an operator as parameter), least elements, multiples
and rounding up, and what `WriteAt` and a concatenation hold.

`UenvProofs` proves, for every text, title, sizes and trailer (positive minimum, step and
line length, a maximum that is a multiple of the step):

- `TypeCorrect`: `Spec => []TypeOK`.  The image and the text that is listed hold the characters they can
  hold, which for the list means that the recursion over the strings stays in the environment (`StringsType`).
- `SizeIsFound`: `Spec => []DetectIsExact`.  A wrong size is refused because a checksum covers
  all units but the first, so that sequences of different lengths are compared (`ChecksumInv`).
  The right one, if it is among those tried, is reached because the trials start at or above it and no step
  passes a detectable size (`NotPassed`): above the step, a multiple of the step lies at or below
  the next multiple (`SmallerProperties`); below it, the trials are the halves of the step, which fall strictly (`HalvedFalls`).
- `TextIsListed`: `Spec => []ListReproduces`, with or without a part, in an environment that may be full, and
  whatever follows it.  `ListInv` says that what was packed is whole lines of the text, with NUL for each newline, behind the
  part, and zeros behind them (`LinesTo`, `Holds`): `fgets` takes a plain line whole (`LineIs`).  The strings
  that `uenv_list` prints are then those lines, by induction from the last one back (`LinesAreListed`); in a full
  environment the last newline is the one it leaves out (`WholeText`).

`DiskProofs` proves, for every disk, entries of GPTs, bounds and number of cells (a weak score
below the good one, a non-empty disk, seeks in at most half of what sector numbers reach, and
addresses of 64 bits in which no end of a partition overflows):

- `TypeCorrect`: `Spec => []TypeOK`, the bound of the registry included.  `CountInv`, that the primary
  count is that of the entries before the first extended one, bounds the table registered.
- `GptAlwaysWins`: `Spec => []GptWins`, about GPTs below 4 GiB, whatever is registered beside them.  Such a table is
  registered with its own entries, as no product wraps.  By induction over the partitions of a table and over the
  tables: after n tables, a lookup has found a partition of one with the best score of those that have
  the address (`AfterTable`, `AfterTables`).
- `MbrTableIsExact`: `Spec => []MbrTableExact`.  Three arguments.  *Covering*: the entries
  counted are among those named, so when they are as many, all were copied and
  the table has room for each (`CoverInv`).  *The chain*: the walk is in the t-th table of
  the chain as it is defined, and `logic[]` has what the first t-1 tables name and then
  what the entries of this one name so far (`WalkInv`); the step that follows a link is the definition of the
  next table, because sectors that can be addressed do not wrap (`WhereIs`).  *Its length*: at most `NSectors`
  tables in a row name nothing (`idle`), and every other one saves an entry, of which
  `logic[]` takes no more than one too many, so t never reaches the bound of the definition (`Tables`).

`GptProofs` proves, for every text, options, number and place of the entries, and an image anywhere in a
file (assuming a megabyte of more than two blocks, positive numbers of entries and of blocks in a gigabyte, and parts
of texts and options of the types `TextPart` and `Options`):

- `TypeCorrect`: `Spec => []TypeOK`.  `TypeInv` gives the type of everything, of the header and entries in a file too,
  and `TableInv` says which table there is at each stage: complete when it is written, with the checksum of
  its entries once it was read.
- `TableIsFound`: `Spec => []DetectFindsTable`, for entries below 4 GiB, where the seek is the product.  The image has the MBR, the header behind it, and the entries where
  the header says unless it lies there itself (`ImageIs`).  Of the two places where a header is looked for
  only one has one, through either window (`HeaderFound`).  The second of the three places of the entries is where
  they are (`EntriesFound`); if the first is taken, its blocks have the same checksum, so the same entries.
- `RoundTripIsExact`: `Spec => []RoundTrip`.  *The JSON*: by induction over its partitions every start that was left out
  is made again (`StartsAreKept`), so that the same entries are packed (`PackStep`).  *The text*: all partitions of a
  table made from a text have one type (`OneTypeInv`), so the options can give it; while the text is read, the partitions
  before the one that comes next are those of the first table, and so is the header (`AgainInv`), since what was
  printed in whole units is read as it was (`PrintedExactly`) and a start that was not printed
  is the block after the partition before (`ReadAgain`).  A text that fits the buffers is therefore never refused.
- `PartitionsAreKept`: `Spec => []PartitionsFollow`.  After k of the parts that the buffers
  hold (`Held`) the entries are those of the partitions
  among them, each at its `start=` or behind the one before, and `next_lba` is the block after the last (`FollowInv`); the
  partitions among the parts of a text are a recursive function of the text (`SpecsDef`, `SpecsType`).  None starts at block 0, so a
  walk over the table sees all of them (`AllAreUsed`), and writing, finding, unpacking and packing keep them.

`AndroidSparseProofs` proves, for every number and size of blocks, every sequence of calls, every pattern of failing
writes, and any set of non-empty lists of chunks that other tools may have made, the malformed ones included:

- `TypeCorrect`: `Spec => []TypeOK`.  `BitsInv` says what the bitmask is for: a bit is 1 exactly if its block was
  added, although the buffer is padded to whole bytes, and the run of the iterator is the first run of ones at or after
  `blk`, as long as it can be (`IsRun`), or there is none.  `TypeInv` adds the types of the units in both files.
- `ImageCorrect`: `Spec => []ImageIsExact`.  What holds while `android_sparse_finish` writes is that behind the
  place of the file header lies a list of chunks which stands for the first `blk` blocks (`Writing`): RAW and
  DONT_CARE by turns (`Alternate`), a RAW one last, because the block before `blk` was the last of a run (`AfterRun`).
  A run is one of `Runs`, so that its size fits 32 bits if `BelowLimit` says so, and so does a gap.
  `WalkAt` and `WalkCounts` then follow the chunks by their `total_sz` (by induction over their number).
- `UnpackCorrect`: `Spec => []UnpackReproduces`.  An image is a list of chunks, made by this writer or not, that
  means what it should (`Stands`).  After `chunk` of them `offset_in` is behind their units and `offset_out` behind what
  they expand to (`Reading`), where both are recursive functions of the list (`Joins`).  The file holds each unit of
  the expansion that is data, and all of them if no write failed (`Held`; where the file is shorter it reads as zeros);
  it is as long as the expansion if also nothing was skipped (`Whole`).  A write that fails unnoticed has only zeros or
  filling to lose (`HeldNext`).  The stream that is hashed is the concatenation of the same expansions (`StreamIs`).

The limit in `BelowLimit` is a hypothesis of the property, not of the proof: with a chunk of 4 GiB the 32-bit
sizes wrap (`Raw`, `Expanded`), and nothing is claimed of its data; the types hold then too.

Only model-checked: the walks of UbiFs (`WalksExact`: a stack of directories against a recursive tree, over
an index whose order of keys the proof would have to follow); and the
readers of `fs/` with their queries, trees, tables and boot images, where what a command shows is
compared with what a recursive definition says of the image.  Liveness stays with TLC, as it rests on fairness.

## 5. Where the code and what it says disagree

- `image_search_straddle`: bytes read back before a window are never searched, as
  the frontier of an editor without a match is the end of the window
  (`main.c:389`, against the comment at `main.c:493`).
- `disk_type`: a lookup returns the partition of the best table and the type of the
  last one that contains the address (`disk_partition.c:95`).
- `uenv_overflow`: the overflow error asks for a length cached before the file was
  truncated and written (`uenv.c:203`).  On a new output that is 0, and the run packs a text that does not fit
  without the error.
- `gpt_type`: `type=` of a partition is overwritten by the default (`gpt.c:1411`).

## 6. Not modelled, and the plan

Left out for good: how things are spelled (the structure printer, hexdumps, digits and escapes
in a tree's text, the summaries of boot images and tables), the parsing of JSON, the
option parser, the compression function of SHA1 and the other hashes (a digest
is compared or printed, nothing else), decompression, and the vendored libraries.  Of UBI: the trial of PEB
sizes, failures of malloc, and the printing of single nodes, which are read as `leb` reads.  Of
the dispatch: how plugins are found and loaded, what they call of `misc.c`, the private data of editors, which is released and
reset by one function a few lines apart (`main.c:459`, `:464`), and failures of malloc.  Of the file systems:
extended attributes, and the programs `mksquashfs` and `unsquashfs`.

What is left is proofs: that the walks of UbiFs and of the other readers are exact.
