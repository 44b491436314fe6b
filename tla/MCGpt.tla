------------------------------- MODULE MCGpt --------------------------------
(* Gpt with up to three parts behind that of the disk, tables of one and   *)
(* two entries, a table over its own header and tables beyond 4 GiB, which *)
(* are 16 blocks here, images at the start of a file and after it, and     *)
(* buffers that hold three parts at most, and no three with two starts.    *)
EXTENDS Gpt

S(unit, n) == [unit |-> unit, n |-> n]
P(name, start1, size, type) ==
  [disk |-> 0, name |-> name, bootable |-> name = 2, type |-> type, start |-> start1, size |-> size]
MCPart == {P(1, NotGiven, S("K", 1), 0), P(2, NotGiven, S("M", 1), 0), P(3, S("K", 4), S("K", 3), 5),
           P(4, S("M", 4), S("G", 2), 0), P(0, NotGiven, S("M", 5), 0), P(5, NotGiven, S("", 512), 0), P(NoName, NotGiven, S("M", 2), 0)}
MCDisk == [disk |-> 7, name |-> NoName, bootable |-> FALSE, type |-> 0,
           size |-> NotGiven, start |-> NotGiven]
MCText == {<<MCDisk>> \o s : s \in UNION {[1 .. n -> MCPart] : n \in 1 .. 3}}
          \cup {<<a, a, b>> : a \in MCPart, b \in MCPart \cup {MCDisk}}
MCArg == [first_lba : {1, 4, 5}, part_entry_lba : {0, 1, 2, 3, 16, 18, 19}, num_parts : {1, 2},
          disk_type_uid : {6}]
MCBytes(t) == IF t.disk # 0 THEN 2
              ELSE 3 + (IF t.start = NotGiven THEN 0 ELSE 1) + (IF t.size.unit = "G" THEN 4 ELSE 0)
=============================================================================
