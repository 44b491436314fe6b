-------------------------------- MODULE Mbr ---------------------------------
(***************************************************************************)
(* disk/mbr.c: detecting a DOS partition table.  The four primary entries  *)
(* are in sector 0; the first extended one leads to a chain of tables, one *)
(* sector each, that holds the logical partitions.  What is found is       *)
(* registered as a weak table.                                             *)
(*                                                                         *)
(* A sector is abstracted to its magic and its four entries.  The code     *)
(* refuses a sector only when both bytes of the magic are wrong, so magic  *)
(* is "good", "half" or "bad".                                             *)
(***************************************************************************)
EXTENDS DiskPartitions, FiniteSets

CONSTANTS Disks,          \* the disks to detect: sequences of sectors
          MAX_EXT_PARTS,  \* entries of logic[] (256)
          SectorMod,      \* 2^32: sector numbers are uint32_t
          SeekMod,        \* 2^23: start * SECTOR_SIZE is computed in uint32_t
          AddrMod         \* 2^64: addresses are uint64_t

DOS_PRIMARY_PARTITIONS == 4

ASSUME MbrAssumption == /\ MAX_EXT_PARTS \in Nat \ {0} /\ SectorMod \in Nat \ {0}
                        /\ SeekMod \in Nat \ {0} /\ SectorMod % SeekMod = 0
                        /\ 2 * SeekMod <= SectorMod
                        /\ AddrMod \in Nat /\ 2 * SectorMod * SECTOR_SIZE <= AddrMod

VARIABLES disk,          \* the image
          force_type,    \* --type mbr was given
          mbr_pc,        \* "detect", "table", "entry", "register" or "done"
          ret,           \* what mbr_detect returns
          primary,       \* p->primary
          logic,         \* p->logic[0 .. logic_counts - 1], and what overran it
          primary_count,
          extend_start,
          part_start,
          parts,         \* the table being walked
          index,         \* the entry of parts the walk has come to
          idle,          \* history: tables read since a logical partition was saved
          overrun        \* an entry was written beyond logic[] or disk_parts

walk == <<extend_start, part_start, parts, index>>
detected == <<ret, primary, primary_count, logic>>
mbr_vars == <<disk, force_type, mbr_pc, detected, walk, idle, overrun>>

Entry == [sys_ind : {"none", "data", "extended", "efi"},
          start : 0 .. SectorMod - 1, size : 0 .. SectorMod - 1]
EmptyEntry == [sys_ind |-> "none", start |-> 0, size |-> 0]
Table == [1 .. DOS_PRIMARY_PARTITIONS -> Entry]
Sector == [magic : {"good", "half", "bad"}, parts : Table]
ASSUME DisksAssumption == \A d \in Disks : d \in Seq(Sector) /\ d # <<>>
EmptyTable == [i \in 1 .. DOS_PRIMARY_PARTITIONS |-> EmptyEntry]

NSectors == Len(disk)

MbrTypeOK ==
  /\ disk \in Disks /\ force_type \in BOOLEAN
  /\ mbr_pc \in {"detect", "table", "entry", "register", "done"}
  /\ ret \in {0, -1}
  /\ primary \in Table /\ parts \in Table
  /\ logic \in Seq(Entry)
  /\ primary_count \in 0 .. DOS_PRIMARY_PARTITIONS
  /\ extend_start \in 0 .. SectorMod - 1 /\ part_start \in 0 .. SectorMod - 1
  /\ index \in 1 .. DOS_PRIMARY_PARTITIONS + 1
  /\ idle \in 0 .. NSectors + 1 /\ overrun \in BOOLEAN

is_extended(e) == e.sys_ind = "extended"
Used(e) == e.sys_ind # "none"
MagicMatches(sector) == sector.magic # "bad"

-----------------------------------------------------------------------------
MbrInit ==
  /\ disk \in Disks /\ force_type \in BOOLEAN
  /\ mbr_pc = "detect" /\ ret = 0
  /\ primary = EmptyTable /\ logic = <<>> /\ primary_count = 0
  /\ extend_start = 0 /\ part_start = 0 /\ parts = EmptyTable /\ index = 1
  /\ idle = 0 /\ overrun = FALSE

(* No magic, or the protective MBR of a GPT disk: left to gpt.c.           *)
DetectRefuses ==
  /\ mbr_pc = "detect"
  /\ \/ ~MagicMatches(disk[1])
     \/ disk[1].parts[1].sys_ind = "efi" /\ ~force_type
  /\ mbr_pc' = "done" /\ ret' = -1
  /\ primary' = IF MagicMatches(disk[1]) THEN disk[1].parts ELSE primary
  /\ UNCHANGED <<disk, force_type, primary_count, logic, walk, idle, overrun>>

(* The primary entries are counted up to the first extended one.           *)
FirstExtended(table) ==
  {i \in DOMAIN table : is_extended(table[i]) /\ \A j \in 1 .. i - 1 : ~is_extended(table[j])}
BeforeExtended(table) ==
  {i \in DOMAIN table : Used(table[i]) /\ \A j \in 1 .. i : ~is_extended(table[j])}

DetectPrimary ==
  /\ mbr_pc = "detect"
  /\ MagicMatches(disk[1]) /\ (disk[1].parts[1].sys_ind # "efi" \/ force_type)
  /\ primary' = disk[1].parts
  /\ primary_count' = Cardinality(BeforeExtended(primary'))
  /\ \/ /\ FirstExtended(primary') = {}
        /\ mbr_pc' = "register"
        /\ UNCHANGED extend_start
     \/ \E i \in FirstExtended(primary') :
          /\ extend_start' = primary'[i].start
          /\ mbr_pc' = "table"
  /\ part_start' = 0
  /\ UNCHANGED <<disk, force_type, ret, logic, parts, index, idle, overrun>>

-----------------------------------------------------------------------------
(* mbr_foreach_extended calls itself last: one table of the chain is read  *)
(* and walked after the other.                                             *)
TableSectorMutant == (part_start % SectorMod) % SeekMod  \* mutant: link taken as absolute
TableSector == ((extend_start + part_start) % SectorMod) % SeekMod

FailMutant == mbr_pc' = mbr_pc /\ ret' = -1   \* mutant: the walk goes on
Fail == mbr_pc' = "done" /\ ret' = -1

ReadTableFails ==
  /\ mbr_pc = "table" /\ TableSector >= NSectors
  /\ Fail
  /\ UNCHANGED <<disk, force_type, primary, primary_count, logic, walk, idle, overrun>>

ReadTable ==
  /\ mbr_pc = "table" /\ TableSector < NSectors
  /\ idle <= NSectors
  /\ LET sector == disk[TableSector + 1]
     IN IF MagicMatches(sector)
        THEN /\ mbr_pc' = "entry" /\ parts' = sector.parts /\ index' = 1
             /\ idle' = idle + 1
        ELSE /\ mbr_pc' = "register"
             /\ UNCHANGED <<parts, index, idle>>
  /\ UNCHANGED <<disk, force_type, detected, extend_start, part_start, overrun>>

AtEntry == mbr_pc = "entry" /\ index <= DOS_PRIMARY_PARTITIONS

SkipEmpty ==
  /\ AtEntry /\ ~Used(parts[index])
  /\ index' = index + 1
  /\ UNCHANGED <<disk, force_type, mbr_pc, detected, extend_start, part_start, parts,
                 idle, overrun>>

TableDone ==
  /\ mbr_pc = "entry" /\ index > DOS_PRIMARY_PARTITIONS
  /\ mbr_pc' = "register"
  /\ UNCHANGED <<disk, force_type, detected, walk, idle, overrun>>

(* mbr_save_logic_cb, called for every used entry: the count is compared   *)
(* with the size of logic[] before the entry is looked at.                 *)
TooManyLogic == Len(logic) > MAX_EXT_PARTS

SaveLogicFails ==
  /\ AtEntry /\ Used(parts[index]) /\ TooManyLogic
  /\ Fail
  /\ UNCHANGED <<disk, force_type, primary, primary_count, logic, walk, idle, overrun>>

SaveLogic ==
  /\ AtEntry /\ Used(parts[index]) /\ ~is_extended(parts[index]) /\ ~TooManyLogic
  /\ logic' = Append(logic, [parts[index] EXCEPT
                !.start = (@ + part_start + extend_start) % SectorMod])
  /\ overrun' = (overrun \/ Len(logic) >= MAX_EXT_PARTS)
  /\ idle' = 0
  /\ index' = index + 1
  /\ UNCHANGED <<disk, force_type, mbr_pc, ret, primary, primary_count, extend_start,
                 part_start, parts>>

(* The first link of a table is followed and the rest of the table is not  *)
(* looked at.                                                              *)
FollowLink ==
  /\ AtEntry /\ is_extended(parts[index]) /\ ~TooManyLogic
  /\ part_start' = parts[index].start
  /\ mbr_pc' = "table"
  /\ UNCHANGED <<disk, force_type, detected, extend_start, parts, index, idle, overrun>>

-----------------------------------------------------------------------------
(* The table registered: room for primary_count + logic_counts partitions  *)
(* is allocated; the walk names the slots sda1 .. sda4 and then the        *)
(* logical partitions, and takes an entry for each that is not empty.      *)
DataPrimary == {i \in 1 .. DOS_PRIMARY_PARTITIONS :
                  Used(primary[i]) /\ ~is_extended(primary[i])}
DiskPart(name, e) ==
  Part(name, e.start * SECTOR_SIZE, ((e.start + e.size) * SECTOR_SIZE - 1) % AddrMod)
Walked ==
  LET before(i) == Cardinality({j \in DataPrimary : j <= i})
      slot(k) == CHOOSE i \in DataPrimary : before(i) = k
  IN [k \in 1 .. Cardinality(DataPrimary) |-> DiskPart(slot(k), primary[slot(k)])]
     \o [k \in 1 .. Len(logic) |-> DiskPart(DOS_PRIMARY_PARTITIONS + k, logic[k])]
NPartsMutant == primary_count     \* mutant: the logical partitions are not counted
NParts == primary_count + Len(logic)

(* A name is written for an empty slot too, where the next entry will be.  *)
NameOverruns == /\ Len(logic) = 0 /\ NParts = Cardinality(DataPrimary)
                /\ DOS_PRIMARY_PARTITIONS \notin DataPrimary

RegisterMbr ==
  /\ mbr_pc = "register"
  /\ register_weak_disk_partitions(
       alloc_disk_partitions("MBR", SubSeq(Walked, 1, NParts)))
  /\ overrun' = (overrun \/ Len(Walked) > NParts \/ NameOverruns)
  /\ mbr_pc' = "done" /\ ret' = 0
  /\ UNCHANGED <<disk, force_type, primary, primary_count, logic, walk, idle>>

MbrDetect == DetectRefuses \/ DetectPrimary
MbrWalk == \/ ReadTableFails \/ ReadTable \/ SkipEmpty \/ TableDone
           \/ SaveLogicFails \/ SaveLogic \/ FollowLink
=============================================================================
