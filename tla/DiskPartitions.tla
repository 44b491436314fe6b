--------------------------- MODULE DiskPartitions ----------------------------
(***************************************************************************)
(* disk_partition.c: the partition tables found so far, kept in the shared *)
(* global data.  The editors for MBR and GPT register a table when they    *)
(* detect one; a search looks every image it found up in the tables.       *)
(***************************************************************************)
EXTENDS Integers, Sequences

CONSTANTS GD_MAX_PARTITIONS,           \* cells of disk_parts_array (8)
          DISK_PARTITIONS_SCORE_WEAK,  \* 10
          DISK_PARTITIONS_SCORE_GOOD,  \* 80
          SECTOR_SIZE                  \* bytes in a sector (512)

ASSUME ScoreAssumption ==
  /\ DISK_PARTITIONS_SCORE_WEAK \in Nat \ {0}
  /\ DISK_PARTITIONS_SCORE_GOOD \in Nat
  /\ DISK_PARTITIONS_SCORE_WEAK < DISK_PARTITIONS_SCORE_GOOD
ASSUME CellAssumption == GD_MAX_PARTITIONS \in Nat /\ SECTOR_SIZE \in Nat \ {0}

VARIABLE disk_parts_array    \* its first active_partitions cells

(* A table, as alloc_disk_partitions makes it: the score is not yet set.   *)
alloc_disk_partitions(type, parts) == [disk_type |-> type, score |-> 0, parts |-> parts]
Part(name, start, end) == [name |-> name, start_addr |-> start, end_addr |-> end]
Partition == [name : Nat, start_addr : Nat, end_addr : Nat]
Registered == [disk_type : {"MBR", "GPT"}, score : Nat \ {0}, parts : Seq(Partition)]

(* A table that finds no cell is freed.                                    *)
register_disk_partitions_mutant(dp) ==    \* mutant: the cells are not counted
  disk_parts_array' = Append(disk_parts_array,
                             [dp EXCEPT !.score = DISK_PARTITIONS_SCORE_GOOD])
register_disk_partitions(dp) ==
  LET scored == IF dp.score = 0 THEN [dp EXCEPT !.score = DISK_PARTITIONS_SCORE_GOOD]
                                ELSE dp
  IN disk_parts_array' = IF Len(disk_parts_array) < GD_MAX_PARTITIONS
                         THEN Append(disk_parts_array, scored)
                         ELSE disk_parts_array

register_weak_disk_partitions(dp) ==
  register_disk_partitions([dp EXCEPT !.score = DISK_PARTITIONS_SCORE_WEAK])

-----------------------------------------------------------------------------
(* find_registed_partition walks the tables and, in each, the partitions.  *)
NoMatch == [best |-> <<>>, score |-> 0, type |-> "none"]

Holds(part, addr) == part.start_addr <= addr /\ addr <= part.end_addr

(* The type is stored for every match, the partition only for a better one.*)
VisitMutant(dp, addr, found, part) ==     \* mutant: the last match wins
  IF ~Holds(part, addr) THEN found
  ELSE [best |-> <<part>>, score |-> dp.score, type |-> dp.disk_type]
Visit(dp, addr, found, part) ==
  IF ~Holds(part, addr) THEN found
  ELSE [best  |-> IF dp.score > found.score THEN <<part>> ELSE found.best,
        score |-> IF dp.score > found.score THEN dp.score ELSE found.score,
        type  |-> dp.disk_type]

Walk(dp, addr, found) ==
  LET After[k \in 0 .. Len(dp.parts)] ==
        IF k = 0 THEN found ELSE Visit(dp, addr, After[k - 1], dp.parts[k])
  IN After[Len(dp.parts)]

find_registed_partition(addr) ==
  LET After[i \in 0 .. Len(disk_parts_array)] ==
        IF i = 0 THEN NoMatch ELSE Walk(disk_parts_array[i], addr, After[i - 1])
  IN After[Len(disk_parts_array)]
=============================================================================
