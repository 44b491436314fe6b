-------------------------------- MODULE UbiFs --------------------------------
(***************************************************************************)
(* fs/ubi.c above the PEBs: the index is loaded when the image is detected, *)
(* then the directory tree is listed or unpacked, every node read through  *)
(* the cache of UbiPebs.                                                   *)
(*                                                                         *)
(* An index node and a leaf node are a number each (for their LEB and      *)
(* offset).  A name is the number of its directory entry, and a file is a  *)
(* sequence of units, a few of which are a block.                          *)
(***************************************************************************)
EXTENDS UbiPebs, Files, SequencesExt

CONSTANTS Systems,             \* the file systems
          fanout,              \* p->sblock.fanout
          UBIFS_S_KEY_HASH_MASK,
          UBIFS_BLOCK_SIZE,    \* in units
          OffsetRange,         \* the product of a block number and the block size wraps
          AskedLebs, AskedPebs \* numbers that the commands leb and peb are given

ASSUME AskedAssumption == AskedPebs \subseteq Nat
ASSUME SizesAssumption ==
  UBIFS_S_KEY_HASH_MASK \in Nat /\ UBIFS_BLOCK_SIZE \in Nat /\ OffsetRange \in Nat \ {0}

(* A node of a type has the fields of that type.                           *)
NodesTyped(node) ==
  /\ DOMAIN node \subseteq Nat
  /\ \A a \in DOMAIN node :
       /\ node[a].type = "dent" => node[a].inum \in Nat
       /\ node[a].type = "ino" => node[a].size \in Nat
       /\ node[a].type = "data" => node[a].units \in Seq(Nat)

(* The index is a tree below node 1: an entry is for a leaf node, or for an *)
(* index node of a lower level.                                            *)
IndexTyped(index, node) ==
  /\ 1 \in DOMAIN index
  /\ \A b \in DOMAIN index :
       /\ index[b].level \in 0 .. index[1].level
       /\ index[b].branch \in Seq([key : Nat, at : Nat])
       /\ \A i \in DOMAIN index[b].branch :
            LET at == index[b].branch[i].at
            IN IF index[b].level = 0 THEN at \in DOMAIN node
               ELSE at \in DOMAIN index /\ index[at].level < index[b].level

ASSUME SystemsAssumption ==
  \A s \in Systems : NodesTyped(s.node) /\ IndexTyped(s.index, s.node)

VARIABLES fs,          \* the file system: its index (node 1 is the root) and leaf nodes
          cmd,         \* "list", "unpack", or the commands "leb" and "peb"
          pc,          \* what the command does, or what it reads
          todo,        \* index nodes still to load
          dirs,        \* the directories being walked: inode and hash_min
          dent, inode, \* the directory entry and inode in use
          cur,         \* the node that is read
          data_block, n, file,  \* ubi_unpack_file: next block, bytes known, output
          out,         \* what was printed or made
          ret,         \* the result
          lost         \* history: a data node was there and could not be read

image == <<fs, cmd>>
walk == <<dirs, dent, inode>>
chunks == <<data_block, n, file>>
result == <<out, ret, lost>>
vars == <<pebVars, image, pc, todo, cur, walk, chunks, result>>

UBIFS_SB_LNUM == 0
UBIFS_MST_LNUM == 1
INO == 0
DATA == 1
DENT == 2

Index == DOMAIN fs.index
Branch(b) == fs.index[b].branch
Made == [depth : Nat, node : Nat, data : Seq(Nat)]

TypeOK ==
  /\ PebTypeOK
  /\ fs \in Systems
  /\ cmd \in {"list", "unpack", "leb", "peb"}
  /\ pc \in {"detect", "sblock", "master", "load", "index", "refused", "look", "walk", "dent",
             "inode", "data", "block", "done"}
  /\ todo \in Seq(Index)
  /\ dirs \in Seq([ino : Nat, hash_min : 0 .. UBIFS_S_KEY_HASH_MASK])
  /\ dent \in Nat /\ inode \in Nat /\ cur \in Nat /\ data_block \in Nat /\ n \in Nat
  /\ file \in Seq(Nat) /\ out \in Seq(Made)
  /\ ret \in {0, -1} /\ lost \in BOOLEAN

Init ==
  /\ PebInit
  /\ fs \in Systems /\ cmd \in {"list", "unpack", "leb", "peb"}
  /\ pc = "detect" /\ todo = <<>> /\ dirs = <<>>
  /\ dent = 0 /\ inode = 0 /\ cur = 0 /\ data_block = 0 /\ n = 0 /\ file = <<>>
  /\ out = <<>> /\ ret = 0 /\ lost = FALSE

-----------------------------------------------------------------------------
(* The index                                                               *)
Hashes == UBIFS_S_KEY_HASH_MASK + 1
ubi_leaf_make_key(keytype, key0, hash) == (8 * key0 + keytype) * Hashes + (hash % Hashes)

branch_min_key(b) == Branch(b)[1].key
branch_max_key(b) ==
  LET Highest[x \in Index] == IF fs.index[x].level = 0 THEN Last(Branch(x)).key
                          ELSE Highest[Last(Branch(x)).at]
  IN Highest[b]

NoLeaf == [key |-> 0, at |-> 0]
Least(S) == CHOOSE i \in S : \A j \in S : i <= j
find_leaf(b, key_min, key_max) ==
  LET S == {i \in DOMAIN Branch(b) : key_min <= Branch(b)[i].key /\ Branch(b)[i].key <= key_max}
  IN IF S = {} THEN NoLeaf ELSE Branch(b)[Least(S)]

WithoutHashMutant(key) == key      \* mutant: the hash part is not cleared
WithoutHash(key) == key - (key % Hashes)

(* ubi_bptree_find: the first child that is not passed decides.            *)
ubi_bptree_find(keytype, key0, hash_min, hash_max) ==
  LET lo == ubi_leaf_make_key(keytype, key0, hash_min)
      hi == ubi_leaf_make_key(keytype, key0, hash_max)
      Beyond(b) == WithoutHash(branch_min_key(b)) > lo
      Passed(b) == /\ ~Beyond(b)
                   /\ branch_max_key(b) < lo \/ (fs.index[b].level = 0 /\ find_leaf(b, lo, hi) = NoLeaf)
      Find[b \in Index] ==
        IF fs.index[b].level = 0 THEN find_leaf(b, lo, hi)
        ELSE LET S == {i \in DOMAIN Branch(b) : ~Passed(Branch(b)[i].at)}
             IN IF S = {} \/ Beyond(Branch(b)[Least(S)].at) THEN NoLeaf
                ELSE Find[Branch(b)[Least(S)].at]
  IN Find[1]

-----------------------------------------------------------------------------
(* Reads                                                                   *)
Ask(l, next) == Lookup(l) /\ pc' = next
AskNode(at, next) == Ask(fs.node[at].lnum, next) /\ cur' = at
Answered(p) == pc = p /\ reader = "idle"
ch_is_good == answer # NONE /\ media[answer].kind = "good"
NodeIs(type) == ch_is_good /\ fs.node[cur].type = type

(* ubi_bptree_init, called by ubi_detect                                   *)
ReadSblock ==
  /\ pc = "detect"
  /\ Ask(UBIFS_SB_LNUM, "sblock")
  /\ UNCHANGED <<image, todo, walk, cur, chunks, result>>

ReadMaster ==
  /\ Answered("sblock") /\ ch_is_good
  /\ Ask(UBIFS_MST_LNUM, "master")
  /\ UNCHANGED <<image, todo, walk, cur, chunks, result>>

LoadRoot ==
  /\ Answered("master") /\ ch_is_good
  /\ todo' = <<1>>
  /\ pc' = "load"
  /\ UNCHANGED <<pebVars, image, walk, cur, chunks, result>>

ReadIndexNode ==
  /\ pc = "load" /\ todo # <<>>
  /\ Ask(fs.index[Head(todo)].lnum, "index")
  /\ UNCHANGED <<image, todo, walk, cur, chunks, result>>

IsIndexNode == ch_is_good /\ Len(Branch(Head(todo))) <= fanout

KidsMutant(b) == [i \in DOMAIN Branch(b) |-> Branch(b)[i].at]   \* mutant: level 0 too
Kids(b) == IF fs.index[b].level = 0 THEN <<>> ELSE [i \in DOMAIN Branch(b) |-> Branch(b)[i].at]

LoadIndexNode ==
  /\ Answered("index") /\ IsIndexNode
  /\ todo' = Kids(Head(todo)) \o Tail(todo)
  /\ pc' = "load"
  /\ UNCHANGED <<pebVars, image, walk, cur, chunks, result>>

DetectRefuses ==
  /\ \/ (Answered("sblock") \/ Answered("master")) /\ ~ch_is_good
     \/ Answered("index") /\ ~IsIndexNode
  /\ ret' = -1 /\ pc' = "refused"
  /\ UNCHANGED <<pebVars, image, todo, walk, cur, chunks, out, lost>>

DetectAccepts ==
  /\ pc = "load" /\ todo = <<>>
  /\ IF cmd \in {"list", "unpack"}
     THEN pc' = "walk" /\ dirs' = <<[ino |-> 1, hash_min |-> 0]>>
     ELSE pc' = "look" /\ dirs' = dirs
  /\ UNCHANGED <<pebVars, image, todo, dent, inode, cur, chunks, result>>

(* ubi_do_leb, _ubi_do_node; ubi_do_peb, ubi_do_vtbl                       *)
LookAtLeb == \E l \in AskedLebs :
  /\ pc = "look" /\ cmd = "leb"
  /\ Ask(l, "done")
  /\ UNCHANGED <<image, todo, walk, cur, chunks, result>>

LookAtPeb == \E p \in AskedPebs :
  /\ pc = "look" /\ cmd = "peb"
  /\ ReadPeb(p)
  /\ pc' = "done"
  /\ UNCHANGED <<image, todo, walk, cur, chunks, result>>

-----------------------------------------------------------------------------
(* The directories: ubi_list_dent and ubi_unpack_dent                      *)
Dir == Last(dirs)
DentLeaf == ubi_bptree_find(DENT, Dir.ino, Dir.hash_min, UBIFS_S_KEY_HASH_MASK)
itype == fs.node[dent].itype
inum == fs.node[dent].inum
InoLeaf == ubi_bptree_find(INO, inum, 0, 0)

NextDent ==
  /\ pc = "walk" /\ DentLeaf # NoLeaf
  /\ AskNode(DentLeaf.at, "dent")
  /\ dent' = DentLeaf.at
  /\ UNCHANGED <<image, todo, dirs, inode, chunks, result>>

DirEnds ==
  /\ pc = "walk" /\ DentLeaf = NoLeaf
  /\ dirs' = Front(dirs)
  /\ pc' = IF Len(dirs) = 1 THEN "done" ELSE "walk"
  /\ UNCHANGED <<pebVars, image, todo, cur, dent, inode, chunks, result>>

NextHash(hash) == IF hash = UBIFS_S_KEY_HASH_MASK THEN hash ELSE hash + 1
Advanced == [dirs EXCEPT ![Len(dirs)].hash_min = NextHash(DentLeaf.key % Hashes)]
Line(at, data) == [depth |-> Len(dirs), node |-> at, data |-> data]
(* Listing prints the entry before it looks at the inode.                  *)
Printed == IF cmd = "list" THEN Append(out, Line(dent, <<>>)) ELSE out

(* What only its entry tells all about; a directory's inode is for mkdir.  *)
NeedsInode == itype \in {"reg", "lnk"} \/ (itype = "dir" /\ cmd = "unpack")
Unsupported == itype = "other" /\ cmd = "unpack"

ListDir ==
  /\ Answered("dent") /\ NodeIs("dent") /\ cmd = "list" /\ itype = "dir"
  /\ dirs' = Append(Advanced, [ino |-> inum, hash_min |-> 0])
  /\ out' = Printed
  /\ pc' = "walk"
  /\ UNCHANGED <<pebVars, image, todo, cur, dent, inode, chunks, ret, lost>>

ListOther ==
  /\ Answered("dent") /\ NodeIs("dent") /\ cmd = "list" /\ itype = "other"
  /\ dirs' = Advanced
  /\ out' = Printed
  /\ pc' = "walk"
  /\ UNCHANGED <<pebVars, image, todo, cur, dent, inode, chunks, ret, lost>>

ReadInode ==
  /\ Answered("dent") /\ NodeIs("dent") /\ NeedsInode /\ InoLeaf # NoLeaf
  /\ AskNode(InoLeaf.at, "inode")
  /\ dirs' = Advanced
  /\ inode' = InoLeaf.at
  /\ out' = Printed
  /\ UNCHANGED <<image, todo, dent, chunks, ret, lost>>

(* An entry or inode that cannot be read ends the walk at every level.     *)
DentFails ==
  /\ Answered("dent")
  /\ \/ ~NodeIs("dent") /\ out' = out
     \/ NodeIs("dent") /\ NeedsInode /\ InoLeaf = NoLeaf /\ out' = Printed
     \/ NodeIs("dent") /\ Unsupported /\ out' = out
  /\ ret' = -1 /\ pc' = "done"
  /\ UNCHANGED <<pebVars, image, todo, cur, walk, chunks, lost>>

InodeFails ==
  /\ Answered("inode") /\ ~NodeIs("ino")
  /\ ret' = -1 /\ pc' = "done"
  /\ UNCHANGED <<pebVars, image, todo, cur, walk, chunks, out, lost>>

ListInode ==
  /\ Answered("inode") /\ NodeIs("ino") /\ cmd = "list"
  /\ out' = Append(out, Line(inode, <<>>))
  /\ pc' = "walk"
  /\ UNCHANGED <<pebVars, image, todo, cur, walk, chunks, ret, lost>>

MakeDir ==
  /\ Answered("inode") /\ NodeIs("ino") /\ cmd = "unpack" /\ itype = "dir"
  /\ out' = Append(out, Line(dent, <<>>))
  /\ dirs' = Append(dirs, [ino |-> inum, hash_min |-> 0])
  /\ pc' = "walk"
  /\ UNCHANGED <<pebVars, image, todo, cur, dent, inode, chunks, ret, lost>>

MakeLink ==
  /\ Answered("inode") /\ NodeIs("ino") /\ cmd = "unpack" /\ itype = "lnk"
  /\ out' = Append(out, Line(dent, <<inode>>))
  /\ pc' = "walk"
  /\ UNCHANGED <<pebVars, image, todo, cur, walk, chunks, ret, lost>>

-----------------------------------------------------------------------------
(* ubi_unpack_file                                                         *)
filesz == fs.node[inode].size
Zeros(len) == [i \in 1 .. len |-> 0]
DataLeaf == ubi_bptree_find(DATA, inum, data_block, UBIFS_S_KEY_HASH_MASK)

MakeFile ==
  /\ Answered("inode") /\ NodeIs("ino") /\ cmd = "unpack" /\ itype = "reg"
  /\ file' = Zeros(filesz)
  /\ n' = 0 /\ data_block' = 0
  /\ pc' = "data"
  /\ UNCHANGED <<pebVars, image, todo, cur, walk, result>>

ReadData ==
  /\ pc = "data" /\ n < filesz /\ DataLeaf # NoLeaf
  /\ AskNode(DataLeaf.at, "block")
  /\ UNCHANGED <<image, todo, walk, chunks, result>>

Decompressed == fs.node[cur].units
ChunkOffset(blk) == (blk * UBIFS_BLOCK_SIZE) % OffsetRange

WriteData ==
  LET blk == DataLeaf.key % Hashes
  IN /\ Answered("block") /\ NodeIs("data") /\ fs.node[cur].decompresses
     /\ file' = WriteAt(file, ChunkOffset(blk), Decompressed, 0)
     /\ n' = ChunkOffset(blk) + Len(Decompressed)
     /\ data_block' = blk + 1
     /\ pc' = "data"
     /\ UNCHANGED <<pebVars, image, todo, cur, walk, result>>

(* A data node that cannot be read ends the file as if the rest were holes. *)
FileEnds ==
  /\ \/ pc = "data" /\ (n >= filesz \/ DataLeaf = NoLeaf) /\ lost' = lost
     \/ Answered("block") /\ ~NodeIs("data") /\ lost' = TRUE
  /\ out' = Append(out, Line(dent, file))
  /\ pc' = "walk"
  /\ UNCHANGED <<pebVars, image, todo, cur, walk, chunks, ret>>

FileFails ==
  /\ Answered("block") /\ NodeIs("data") /\ ~fs.node[cur].decompresses
  /\ out' = Append(out, Line(dent, file))
  /\ ret' = -1 /\ pc' = "done"
  /\ UNCHANGED <<pebVars, image, todo, cur, walk, chunks, lost>>

-----------------------------------------------------------------------------
Detect == ReadSblock \/ ReadMaster \/ LoadRoot \/ ReadIndexNode \/ LoadIndexNode
          \/ DetectRefuses \/ DetectAccepts
WalkStep == NextDent \/ DirEnds \/ ListDir \/ ListOther \/ ReadInode \/ DentFails \/ InodeFails
            \/ ListInode \/ MakeDir \/ MakeLink
UnpackStep == MakeFile \/ ReadData \/ WriteData \/ FileEnds \/ FileFails
ReaderStep == Scan /\ UNCHANGED <<image, pc, todo, cur, walk, chunks, result>>

Next == ReaderStep \/ Detect \/ LookAtLeb \/ LookAtPeb \/ WalkStep \/ UnpackStep
(* The thread goes on, and it is not a failing read that it waits for.     *)
Spec == Init /\ [][Next]_vars /\ WF_vars(Next /\ UNCHANGED faults)

-----------------------------------------------------------------------------
(* What the image holds, read off its leaf entries in the order of keys.   *)
Leaves == UNION {Range(Branch(b)) : b \in {x \in Index : fs.index[x].level = 0}}
Of(keytype, key0) == SetToSortSeq({e \in Leaves : e.key \div Hashes = 8 * key0 + keytype},
                                  LAMBDA d, e : d.key < e.key \/ (d.key = e.key /\ d.at < e.at))
InodeNode(i) == Of(INO, i)[1].at
Content(i) ==
  [u \in 1 .. fs.node[InodeNode(i)].size |->
     LET S == {e \in Leaves : /\ e.key \div Hashes = 8 * i + DATA
                              /\ u - (e.key % Hashes) * UBIFS_BLOCK_SIZE
                                   \in DOMAIN fs.node[e.at].units}
         e == CHOOSE x \in S : TRUE
     IN IF S = {} THEN 0 ELSE fs.node[e.at].units[u - (e.key % Hashes) * UBIFS_BLOCK_SIZE]]

Tree[depth \in Nat, i \in Nat] ==
  FlattenSeq([k \in DOMAIN Of(DENT, i) |->
    LET at == Of(DENT, i)[k].at
        line(node, data) == <<[depth |-> depth, node |-> node, data |-> data]>>
        kind == fs.node[at].itype
        sub == fs.node[at].inum
        entry == IF cmd = "list" \/ kind = "dir" THEN line(at, <<>>)
                 ELSE line(at, IF kind = "lnk" THEN <<InodeNode(sub)>> ELSE Content(sub))
    IN entry \o IF kind = "dir" THEN Tree[depth + 1, sub]
                 ELSE IF cmd = "list" /\ kind # "other" THEN line(InodeNode(sub), <<>>) ELSE <<>>])

(* The walk goes on at the next hash: of two entries with one hash it sees *)
(* the first.                                                              *)
DistinctHashes == \A d, e \in Leaves : (d.key \div Hashes) % 8 = DENT /\ d.key = e.key => d = e
FilesFit == \A e \in Leaves : (e.key \div Hashes) % 8 = DATA =>
              (e.key % Hashes) * UBIFS_BLOCK_SIZE < OffsetRange

(* Something the walk needs is not there, or not what the index says.      *)
Damaged ==
  \/ \E l \in {UBIFS_SB_LNUM, UBIFS_MST_LNUM} \cup {fs.index[b].lnum : b \in Index}
             \cup {fs.node[e.at].lnum : e \in Leaves} :
       Copies(l) = {} \/ \E c \in Copies(l) : media[c].kind = "stale"
  \/ fs.flawed

(* A list prints every entry of every directory once, under its parent,    *)
(* with its inode, however the index is nested and the PEBs are laid out.  *)
(* An unpack makes every directory, link and file, and every file has the  *)
(* bytes of the image, holes included, unless a data node was not read.    *)
(* Neither fails unless something cannot be read.                          *)
WalksExact ==
  pc = "done" /\ DistinctHashes /\ (cmd = "list" \/ (cmd = "unpack" /\ FilesFit)) =>
    LET readable == faults = 0 /\ ~Damaged
    IN IF ret = 0 THEN out = Tree[1, 1] \/ (cmd = "unpack" /\ lost /\ ~readable) ELSE ~readable

(* A walk that has come to the greatest hash or block number goes on there, *)
(* or at 0, and comes to it again.                                         *)
BelowTheMask == \A e \in Leaves : e.key % Hashes < UBIFS_S_KEY_HASH_MASK

(* Every command ends: the searches for a LEB and for the next entry go    *)
(* forward only, whatever is missing or cannot be read.                    *)
Ended == BelowTheMask => <>(pc \in {"refused", "done"} /\ reader # "scan")
=============================================================================
