------------------------------ MODULE GptTable ------------------------------
(***************************************************************************)
(* disk/gpt.c: the partition entries of a GPT and what is computed from    *)
(* them.  An entry is [name, uuid, type, bootable, start, end], start and  *)
(* end being starting_lba and the inclusive ending_lba.                    *)
(***************************************************************************)
EXTENDS Integers, Sequences

CONSTANTS LBA_BLKSZ,   \* bytes in a block (512)
          Mod32        \* 2^32, for what is read with le32_to_cpu

(* lba2sz(le32_to_cpu(lba)): the product of two 32-bit numbers is one.     *)
lba2sz(lba) == (lba * LBA_BLKSZ) % Mod32

(* Every walk over the entries ends at the first one without a start or    *)
(* without an end.                                                         *)
IsEnd(entry) == entry.start = 0 \/ entry.end = 0
UsedCount(entries) ==
  CHOOSE n \in 0 .. Len(entries) :
    /\ \A i \in 1 .. n : ~IsEnd(entries[i])
    /\ n < Len(entries) => IsEnd(entries[n + 1])
UsedEntries(entries) == SubSeq(entries, 1, UsedCount(entries))

SizeLbaMutant(entry) == entry.end - entry.start    \* mutant: the end is not inclusive
SizeLba(entry) == entry.end - entry.start + 1

(* gpt_register_disk_partitions takes the low 32 bits of an lba, to decide *)
(* where the entries end as well.                                          *)
Low32(entry) == [entry EXCEPT !.start = @ % Mod32, !.end = @ % Mod32]
RegisteredEntries(entries) == UsedEntries([i \in DOMAIN entries |-> Low32(entries[i])])
GptParts(entries) ==
  [i \in DOMAIN RegisteredEntries(entries) |->
     LET e == RegisteredEntries(entries)[i]
     IN [name |-> e.name, start_addr |-> lba2sz(e.start), end_addr |-> (lba2sz(e.end) - 1) % Mod32]]
=============================================================================
