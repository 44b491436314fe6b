-------------------------------- MODULE Disk --------------------------------
(***************************************************************************)
(* A disk image is detected by mbr.c and gpt.c, each of which registers    *)
(* the table it finds in disk_partition.c; the images a search finds are   *)
(* then looked up in all of them.                                          *)
(***************************************************************************)
EXTENDS Mbr

CONSTANTS GptEntries,  \* entry arrays of the GPTs of the image
          Mod32

ASSUME GptAssumption ==
  /\ \A g \in GptEntries : g \in Seq([name : Nat, start : Nat, end : Nat])
  /\ Mod32 \in Nat \ {0}

Gpt == INSTANCE GptTable WITH LBA_BLKSZ <- SECTOR_SIZE, Mod32 <- Mod32

VARIABLE gpts   \* history: entry arrays whose table found a cell

vars == <<mbr_vars, disk_parts_array, gpts>>

TypeOK ==
  /\ MbrTypeOK
  /\ disk_parts_array \in Seq(Registered) /\ Len(disk_parts_array) <= GD_MAX_PARTITIONS
  /\ gpts \in Seq(GptEntries)

Init == MbrInit /\ disk_parts_array = <<>> /\ gpts = <<>>

Mbr == /\ \/ (MbrDetect \/ MbrWalk) /\ UNCHANGED disk_parts_array
          \/ RegisterMbr
       /\ UNCHANGED gpts

(* gpt_detect accepted an image.  It runs before or after mbr_detect, in   *)
(* the order the editors were registered.                                  *)
RegisterGpt == \E entries \in GptEntries :
  /\ mbr_pc \in {"detect", "done"}
  /\ register_disk_partitions(alloc_disk_partitions("GPT", Gpt!GptParts(entries)))
  /\ gpts' = IF disk_parts_array' = disk_parts_array THEN gpts ELSE Append(gpts, entries)
  /\ UNCHANGED mbr_vars

Next == Mbr \/ RegisterGpt

Spec == Init /\ [][Next]_vars /\ WF_vars(Mbr)

-----------------------------------------------------------------------------
(* The chain of tables as fdisk and the kernel read it: every table but    *)
(* the last has a link whose start is relative to the extended partition,  *)
(* and its partitions are relative to the table itself.                    *)
LinkOf(table) == CHOOSE i \in FirstExtended(table) : TRUE
Extended == primary[LinkOf(primary)].start
TableAt(s) == IF s < NSectors /\ MagicMatches(disk[s + 1]) THEN s ELSE -1
NextTable(s) ==
  LET table == disk[s + 1].parts
  IN IF s = -1 \/ FirstExtended(table) = {} THEN -1
     ELSE TableAt(Extended + table[LinkOf(table)].start)

(* More tables than this are not read: logic[] fills up, or the walk has   *)
(* come back to where it was.                                              *)
ChainBound == (MAX_EXT_PARTS + 1) * (NSectors + 1) + 1
ChainTable[k \in 1 .. ChainBound] ==     \* sector of the k-th table, or -1
  IF k = 1 THEN TableAt(Extended) ELSE NextTable(ChainTable[k - 1])

NamedIn(s) ==             \* by the first i entries of the table in sector s
  LET table == disk[s + 1].parts
      Named[i \in 0 .. DOS_PRIMARY_PARTITIONS] ==
        IF i = 0 THEN <<>>
        ELSE IF i \in BeforeExtended(table)
             THEN Append(Named[i - 1], [table[i] EXCEPT !.start = @ + s])
             ELSE Named[i - 1]
  IN Named
LogicUpTo[k \in 0 .. ChainBound] ==      \* by the first k tables
  IF k = 0 THEN <<>>
  ELSE IF ChainTable[k] = -1 THEN LogicUpTo[k - 1]
  ELSE LogicUpTo[k - 1] \o NamedIn(ChainTable[k])[DOS_PRIMARY_PARTITIONS]
ChainLogic == LogicUpTo[ChainBound]

(* No sector of the chain is beyond the 4 GiB that the seek can address.   *)
ChainIsSmall == \A s \in 1 .. NSectors : \A i \in 1 .. 4 :
                  disk[s].parts[i].start + Extended < SeekMod

(* mbr_detect returns, unless the chain comes back to a table without      *)
(* having named a partition.                                               *)
DetectReturns == <>(mbr_pc = "done" \/ idle > NSectors)

(* When mbr_detect succeeds, logic[] holds the partitions of the whole     *)
(* chain, in its order and at their absolute sectors, whatever mixture of  *)
(* relative starts and empty entries the chain has.  Every partition       *)
(* detected that has a sector is in the registered table at its bytes,     *)
(* unless a primary partition follows the extended one.  And a chain that  *)
(* never ends but names partitions is refused, with no more than one entry *)
(* written beyond logic[] (mbr_foreach_extended, mbr_save_logic_cb).       *)
PrimaryInFront == DataPrimary = BeforeExtended(primary)
MbrTables == {i \in DOMAIN disk_parts_array : disk_parts_array[i].disk_type = "MBR"}
Covered(e) == \E i \in MbrTables : \E k \in DOMAIN disk_parts_array[i].parts :
  LET part == disk_parts_array[i].parts[k]
  IN /\ part.start_addr = e.start * SECTOR_SIZE
     /\ part.end_addr = (e.start + e.size) * SECTOR_SIZE - 1
LogicBounded == Len(logic) <= MAX_EXT_PARTS + 1
TableCovers == MbrTables # {} /\ PrimaryInFront =>
                 /\ \A i \in DataPrimary : primary[i].size # 0 => Covered(primary[i])
                 /\ \A k \in DOMAIN logic : logic[k].size # 0 => Covered(logic[k])
LogicExact ==
  mbr_pc = "done" /\ ret = 0 /\ FirstExtended(primary) # {} /\ ChainIsSmall => logic = ChainLogic
MbrTableExact == LogicExact /\ LogicBounded /\ TableCovers

Addr == 0 .. NSectors * SECTOR_SIZE - 1

(* The partitions of a GPT, from its own entries, at 64-bit addresses; the *)
(* 32-bit products of gpt_register_disk_partitions cannot say those beyond *)
(* 4 GiB.                                                                  *)
Own(entries) ==
  [k \in DOMAIN Gpt!UsedEntries(entries) |->
     LET e == Gpt!UsedEntries(entries)[k]
     IN Part(e.name, e.start * SECTOR_SIZE, e.end * SECTOR_SIZE - 1)]
Below4G(entries) ==
  \A k \in DOMAIN Gpt!UsedEntries(entries) :
    /\ Gpt!UsedEntries(entries)[k].start * SECTOR_SIZE < Mod32
    /\ Gpt!UsedEntries(entries)[k].end * SECTOR_SIZE < Mod32
CoveredBy(entries, addr) == \E k \in DOMAIN Own(entries) : Holds(Own(entries)[k], addr)

(* Where a registered GPT that lies below 4 GiB covers an address, a       *)
(* lookup answers a partition of a GPT, whichever table was registered     *)
(* first; and where all of them lie below 4 GiB, that partition is one of  *)
(* their own entries and has the address.                                  *)
GptWins ==
  \A addr \in Addr, j \in DOMAIN gpts :
    LET best == find_registed_partition(addr).best
    IN Below4G(gpts[j]) /\ CoveredBy(gpts[j], addr) =>
         /\ \E i \in DOMAIN disk_parts_array : \E k \in DOMAIN disk_parts_array[i].parts :
              disk_parts_array[i].disk_type = "GPT" /\ best = <<disk_parts_array[i].parts[k]>>
         /\ (\A l \in DOMAIN gpts : Below4G(gpts[l])) =>
              \E l \in DOMAIN gpts : \E k \in DOMAIN Own(gpts[l]) :
                best = <<Own(gpts[l])[k]>> /\ Holds(Own(gpts[l])[k], addr)

(* "int score; the bigger the better" (imgeditor.h): the type a lookup     *)
(* answers is the type of a table with the best score.                     *)
TypeOfBestTable ==
  \A addr \in Addr :
    LET found == find_registed_partition(addr)
    IN found.best # <<>> =>
         \E i \in DOMAIN disk_parts_array :
           /\ disk_parts_array[i].score = found.score
           /\ disk_parts_array[i].disk_type = found.type
           /\ \E k \in DOMAIN disk_parts_array[i].parts :
                <<disk_parts_array[i].parts[k]>> = found.best
=============================================================================
