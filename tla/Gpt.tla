--------------------------------- MODULE Gpt ---------------------------------
(***************************************************************************)
(* disk/gpt.c: a partition table from a "partitions=" text                 *)
(* (gpt_write_partitions), its image (gpt_write), finding it again in a    *)
(* file (gpt_detect), and making it once more from what imgeditor prints   *)
(* of it: the JSON of gpt_unpack and gpt_pack, or the text of              *)
(* gpt_list_partitions --reverse.                                          *)
(*                                                                         *)
(* Files are sequences of blocks.  An entry takes a whole block, a         *)
(* checksum is abstracted to what it covers, and of the header only what   *)
(* these operations use is kept.                                           *)
(***************************************************************************)
EXTENDS GptTable, Files

CONSTANTS GPT_MAX_NUM_PARTS,  \* entries that are allocated for a text
          Mega, Giga,         \* blocks in a megabyte and in a gigabyte
          Text,               \* the parts of "partitions=" texts
          Arg,                \* the options of the partitions subcommand
          Base,               \* where in a file the image may be placed
          PARTITIONS_BUFFER,  \* bytes of the copy of a text (4096), one for its end
          PARTS_ARGV,         \* pointers to the parts of it (128), one for the end
          Bytes(_)            \* how long a part of a text is

ASSUME GptAssumption ==
  /\ GPT_MAX_NUM_PARTS \in Nat \ {0} /\ LBA_BLKSZ \in Nat
  /\ Mega \in Nat /\ Mega > 2 /\ Giga \in Nat \ {0} /\ Giga % Mega = 0
  /\ Base \subseteq Nat
ASSUME SeekAssumption ==
  LBA_BLKSZ \in Nat \ {0} /\ Mod32 \in Nat /\ LBA_BLKSZ < Mod32 /\ Mod32 % LBA_BLKSZ = 0

VARIABLES pc,         \* the operation that comes next
          arg,        \* struct write_partitions_arg
          text, part, \* the text, and how many parts of it were read
          p,          \* struct gpt_editor_private_data
          wpdata,     \* p->wpdata
          img,        \* the image
          file,       \* a file with the image in it
          start,      \* where the window on the file starts
          base,       \* where the image starts in the file
          json,       \* the JSON of the table
          first       \* history: the table and header before the second round

vars == <<pc, arg, text, part, p, wpdata, img, file, start, base, json, first>>

Nothing == [is |-> "entry", name |-> 0, type |-> 0, bootable |-> FALSE, start |-> 0, end |-> 0]
NoHeader == [is |-> "header", my_lba |-> 0, partition_entry_lba |-> 0,
             num_partition_entries |-> 0, first_usable_lba |-> 0, disk_guid |-> 0, crc |-> <<>>]
ProtectiveMbr == [is |-> "mbr"]

-----------------------------------------------------------------------------
(* Sizes in a text, in blocks: printing cuts them down to the unit it      *)
(* chose, and a size without a unit is not read (-1).                      *)
partition_string_lba_size(lba) ==
  IF lba < 2 THEN [unit |-> "", n |-> lba * LBA_BLKSZ]
  ELSE IF lba < Mega THEN [unit |-> "K", n |-> lba \div 2]
  ELSE IF lba <= Giga \/ lba % Giga # 0 THEN [unit |-> "M", n |-> lba \div Mega]
  ELSE [unit |-> "G", n |-> lba \div Giga]
to_partition_lba_size(s) ==
  CASE s.unit = "K" -> s.n * 2 [] s.unit = "M" -> s.n * Mega
    [] s.unit = "G" -> s.n * Giga [] OTHER -> -1
(* A part of the text.  A size, a start or a type that it does not give is *)
(* NotGiven, its name is NoName without name=.  It has at most 1023 bytes  *)
(* and no expression twice.                                                *)
NoName == -1
NotGiven == [unit |-> "none", n |-> 0]
Size == [unit : {"", "K", "M", "G", "none"}, n : Nat]
TextPart == [disk : Nat, name : Nat \cup {NoName}, bootable : BOOLEAN, type : Int,
             size : Size, start : Size]
Options == [first_lba : Nat, part_entry_lba : Nat, num_parts : 0 .. GPT_MAX_NUM_PARTS,
            disk_type_uid : Nat]
ASSUME TextAssumption == Arg \subseteq Options /\ \A t \in Text : t \in Seq(TextPart)
ASSUME BufferAssumption == PARTITIONS_BUFFER \in Nat \ {0} /\ PARTS_ARGV \in Nat \ {0}

Blocks(s, default) == IF s = NotGiven THEN default ELSE to_partition_lba_size(s)

-----------------------------------------------------------------------------
NoTable == [hdr |-> NoHeader, partitions |-> <<>>]

Init ==
  /\ pc = "parse" /\ arg \in Arg /\ text \in Text /\ part = 0
  /\ p = [hdr |-> [NoHeader EXCEPT !.partition_entry_lba = arg.part_entry_lba,
                                   !.num_partition_entries = arg.num_parts,
                                   !.first_usable_lba = arg.first_lba],
          partitions |-> [i \in 1 .. GPT_MAX_NUM_PARTS |-> Nothing]]
  /\ wpdata = [next_lba |-> arg.first_lba, active |-> 0, disk_type_uid |-> arg.disk_type_uid]
  /\ img = <<>> /\ file = <<>> /\ start = 0 /\ base = 0 /\ json = <<>>
  /\ first = NoTable

(* gpt_parse_partitions copies the text and splits the copy at each ";".   *)
(* A part that the copy ends in is cut short; those behind it, or behind   *)
(* the last pointer, are not read.                                         *)
TextEnd(t) ==                \* by part, the ";" included
  LET End[k \in 0 .. Len(t)] == IF k = 0 THEN 0 ELSE End[k - 1] + Bytes(t[k]) + 1
  IN End
IsWhole(t, k) == k < PARTS_ARGV /\ TextEnd(t)[k] <= PARTITIONS_BUFFER
IsCut(t, k) == k < PARTS_ARGV /\ ~IsWhole(t, k) /\ TextEnd(t)[k - 1] < PARTITIONS_BUFFER - 1

(* Of a part that was cut, what stood behind the cut is gone; a name that  *)
(* was cut is taken for the empty one, and any other value is refused.     *)
CutForms(t) ==
  IF t.disk # 0 THEN {}
  ELSE [disk : {0},
        name : {t.name, NoName} \cup (IF t.name = NoName THEN {} ELSE {Nothing.name}),
        bootable : {t.bootable, FALSE}, type : {t.type, 0},
        size : {t.size, NotGiven}, start : {t.start, NotGiven}]
Now == text[part + 1]
Readings == IF IsWhole(text, part + 1) THEN {Now} ELSE CutForms(Now)
MoreParts == part < Len(text) /\ (IsWhole(text, part + 1) \/ IsCut(text, part + 1))

(* gpt_parse_part.  uuid_disk= stands alone; every other part fills the    *)
(* entry that comes next, which stays the next one without a name=.        *)
LbaStart(spec) == Blocks(spec.start, wpdata.next_lba)
LbaSize(spec) == Blocks(spec.size, 0)
TooMuchMutant == wpdata.active > GPT_MAX_NUM_PARTS   \* mutant: off by one
TooMuch == wpdata.active >= GPT_MAX_NUM_PARTS
PartFails(spec) == TooMuch \/ (spec.disk = 0 /\ (LbaStart(spec) < 0 \/ LbaSize(spec) <= 0))

(* type= is read into the entry and then written over: with_type is never  *)
(* set.                                                                    *)
TypeOf(spec) == wpdata.disk_type_uid

NextLbaMutant(spec) == wpdata.next_lba + LbaSize(spec)   \* mutant: start= does not move it
NextLba(spec) == LbaStart(spec) + LbaSize(spec)

gpt_parse_part(spec) ==
  IF spec.disk # 0
  THEN /\ p' = [p EXCEPT !.hdr.disk_guid = spec.disk]
       /\ UNCHANGED wpdata
  ELSE /\ p' = [p EXCEPT !.partitions[wpdata.active + 1] =
                  [is |-> "entry", name |-> IF spec.name # NoName THEN spec.name ELSE @.name,
                   type |-> TypeOf(spec), bootable |-> spec.bootable \/ @.bootable,
                   start |-> LbaStart(spec), end |-> LbaStart(spec) + LbaSize(spec) - 1]]
       /\ wpdata' = [wpdata EXCEPT !.next_lba = NextLba(spec),
                                   !.active = IF spec.name # NoName THEN @ + 1 ELSE @]

ParsePart ==
  /\ pc = "parse" /\ MoreParts
  /\ \E spec \in Readings : ~PartFails(spec) /\ gpt_parse_part(spec)
  /\ part' = part + 1
  /\ UNCHANGED <<pc, arg, text, img, file, start, base, json, first>>

(* The text is refused, and the output stays empty.                        *)
ParseFails ==
  /\ pc = "parse" /\ MoreParts
  /\ IsCut(text, part + 1) \/ \E spec \in Readings : PartFails(spec)
  /\ pc' = "refused"
  /\ UNCHANGED <<arg, text, part, p, wpdata, img, file, start, base, json, first>>

(* gpt_write: the protective MBR, the entries, and last the header.        *)
WithDefaults(hdr) ==
  [hdr EXCEPT !.my_lba = IF @ = 0 THEN 1 ELSE @,
              !.partition_entry_lba = IF @ = 0 THEN 2 ELSE @,
              !.num_partition_entries = IF @ = 0 THEN GPT_MAX_NUM_PARTS ELSE @]
(* The byte that it seeks to is a 32-bit number.                           *)
SeekBlock(lba) == lba2sz(lba) \div LBA_BLKSZ
gpt_write(hdr, partitions) ==
  LET entries == SubSeq(partitions, 1, hdr.num_partition_entries)
      written == WriteAt(<<ProtectiveMbr>>, SeekBlock(hdr.partition_entry_lba), entries, Nothing)
  IN WriteAt(written, SeekBlock(hdr.my_lba), <<[hdr EXCEPT !.crc = entries]>>, Nothing)

Write ==
  /\ (pc = "parse" /\ ~MoreParts) \/ pc = "pack"
  /\ p' = [p EXCEPT !.hdr = WithDefaults(@)]
  /\ img' = gpt_write(p'.hdr, p.partitions)
  /\ pc' = "written"
  /\ UNCHANGED <<arg, text, part, wpdata, file, start, base, json, first>>

(* A file with the image in it, opened with --offset at the image, or      *)
(* found by the signature in its header.                                   *)
Open == \E b \in Base, window \in {0, p.hdr.my_lba} :
  /\ pc = "written"
  /\ file' = WriteAt(<<>>, b, img, Nothing)
  /\ base' = b
  /\ start' = b + window
  /\ pc' = "detect"
  /\ UNCHANGED <<arg, text, part, p, wpdata, img, json, first>>

-----------------------------------------------------------------------------
(* gpt_detect                                                              *)
IsHeader(lba) == UnitAt(file, lba, Nothing).is = "header"
GoodOffset == {gpt_offset \in {0, 1} : IsHeader(start + gpt_offset)}
GptOffset == CHOOSE gpt_offset \in GoodOffset : gpt_offset = 0 \/ 0 \notin GoodOffset
Found == UnitAt(file, start + GptOffset, Nothing)

(* Where the entries may be: at an absolute address, relative to the       *)
(* header, or right after it.                                              *)
CandidatesMutant ==       \* mutant: gpt_offset is forgotten
  <<Found.partition_entry_lba, Found.partition_entry_lba - Found.my_lba + start, 1 + start>>
Candidates ==
  <<Found.partition_entry_lba,
    Found.partition_entry_lba - Found.my_lba + start + GptOffset,
    1 + start + GptOffset>>
EntriesAt(lba) == SubSeq(file, lba + 1, lba + Found.num_partition_entries)
EntriesMatch(lba) ==
  /\ lba >= 0 /\ lba + Found.num_partition_entries <= Len(file)
  /\ EntriesAt(lba) = Found.crc
GoodCandidates == {i \in DOMAIN Candidates : EntriesMatch(Candidates[i])}

Detect ==
  /\ pc = "detect" /\ GoodOffset # {} /\ GoodCandidates # {}
  /\ LET i == CHOOSE k \in GoodCandidates : \A l \in GoodCandidates : k <= l
     IN p' = [hdr |-> Found, partitions |-> EntriesAt(Candidates[i])]
  /\ pc' = "detected"
  /\ UNCHANGED <<arg, text, part, wpdata, img, file, start, base, json, first>>

DetectFails ==
  /\ pc = "detect" /\ (GoodOffset = {} \/ GoodCandidates = {})
  /\ pc' = "undetected"
  /\ UNCHANGED <<arg, text, part, p, wpdata, img, file, start, base, json, first>>

-----------------------------------------------------------------------------
(* gpt_to_json: a start is left out where it is the block after the entry  *)
(* before; a partition that has one is followed from there.                *)
Predicted(entries, i) == IF i = 1 THEN p.hdr.first_usable_lba ELSE entries[i - 1].end + 1
Unpack ==
  LET entries == UsedEntries(p.partitions)
  IN /\ pc = "detected" /\ first = NoTable
     /\ json' = [i \in DOMAIN entries |->
                   [name |-> entries[i].name, type |-> entries[i].type,
                    bootable |-> entries[i].bootable, lba_size |-> SizeLba(entries[i]),
                    starting_lba |-> IF entries[i].start = Predicted(entries, i) THEN -1
                                     ELSE entries[i].start]]
     /\ first' = p
     /\ pc' = "json"
     /\ UNCHANGED <<arg, text, part, p, wpdata, img, file, start, base>>

(* gpt_from_json: the starts are followed in the same way.                 *)
JsonFails == Len(json) > p.hdr.num_partition_entries \/ p.hdr.first_usable_lba <= p.hdr.my_lba

StartInJson[i \in 1 .. Len(json)] ==
  IF json[i].starting_lba >= 0 THEN json[i].starting_lba
  ELSE IF i = 1 THEN p.hdr.first_usable_lba ELSE StartInJson[i - 1] + json[i - 1].lba_size

Pack ==
  /\ pc = "json" /\ ~JsonFails
  /\ p' = [p EXCEPT !.partitions = [i \in 1 .. p.hdr.num_partition_entries |->
             IF i > Len(json) THEN Nothing
             ELSE [is |-> "entry", name |-> json[i].name, type |-> json[i].type,
                   bootable |-> json[i].bootable, start |-> StartInJson[i],
                   end |-> StartInJson[i] + json[i].lba_size - 1]]]
  /\ pc' = "pack"
  /\ UNCHANGED <<arg, text, part, wpdata, img, file, start, base, json, first>>

PackFails ==
  /\ pc = "json" /\ JsonFails
  /\ pc' = "refused"
  /\ UNCHANGED <<arg, text, part, p, wpdata, img, file, start, base, json, first>>

-----------------------------------------------------------------------------
(* gpt_list_partitions --reverse: the options, and a text with a start     *)
(* where it is not predicted, and always for the first partition.          *)
SameType ==      \* this walk only ends at an entry without an end
  \A i \in DOMAIN p.partitions :
    (\A k \in 1 .. i : p.partitions[k].end # 0) => p.partitions[i].type = p.partitions[1].type
Reversed ==
  LET entries == UsedEntries(p.partitions)
      Spec1(i) == [disk |-> 0, name |-> entries[i].name, bootable |-> entries[i].bootable,
                   type |-> IF SameType THEN 0 ELSE -1,
                   size |-> partition_string_lba_size(SizeLba(entries[i])),
                   start |-> IF i > 1 /\ entries[i].start = Predicted(entries, i) THEN NotGiven
                             ELSE partition_string_lba_size(entries[i].start)]
      Disk == [disk |-> p.hdr.disk_guid, name |-> NoName, bootable |-> FALSE, type |-> 0,
               size |-> NotGiven, start |-> NotGiven]
  IN <<Disk>> \o [i \in DOMAIN entries |-> Spec1(i)]

ListReverse ==
  /\ pc = "detected" /\ first = NoTable /\ p.hdr.disk_guid # 0
  /\ first' = p
  /\ arg' = [first_lba |-> p.hdr.first_usable_lba,
             part_entry_lba |-> p.hdr.partition_entry_lba,
             num_parts |-> p.hdr.num_partition_entries,
             disk_type_uid |-> IF SameType THEN p.partitions[1].type ELSE 0]
  /\ text' = Reversed /\ part' = 0
  /\ p' = [hdr |-> [NoHeader EXCEPT !.partition_entry_lba = arg'.part_entry_lba,
                                    !.num_partition_entries = arg'.num_parts,
                                    !.first_usable_lba = arg'.first_lba],
           partitions |-> [i \in 1 .. GPT_MAX_NUM_PARTS |-> Nothing]]
  /\ wpdata' = [next_lba |-> arg'.first_lba, active |-> 0, disk_type_uid |-> arg'.disk_type_uid]
  /\ pc' = "parse"
  /\ UNCHANGED <<img, file, start, base, json>>

Next == \/ ParsePart \/ ParseFails \/ Write \/ Open \/ Detect \/ DetectFails
        \/ Unpack \/ Pack \/ PackFails \/ ListReverse

Spec == Init /\ [][Next]_vars

-----------------------------------------------------------------------------
TypeOK ==
  /\ pc \in {"parse", "refused", "written", "detect", "detected", "undetected", "json", "pack"}
  /\ part \in 0 .. Len(text)
  /\ wpdata.active \in 0 .. GPT_MAX_NUM_PARTS /\ wpdata.next_lba \in Nat
  /\ p.hdr.num_partition_entries \in 0 .. GPT_MAX_NUM_PARTS
  /\ \A i \in DOMAIN p.partitions :
       p.partitions[i].is = "entry" /\ p.partitions[i].start <= p.partitions[i].end
  /\ start \in {base, base + 1}

(* The header does not lie among the entries, and these lie below 4 GiB:   *)
(* --part-entry-lba can have it otherwise.                                 *)
Clean == /\ ~(p.hdr.partition_entry_lba <= p.hdr.my_lba
              /\ p.hdr.my_lba < p.hdr.partition_entry_lba + p.hdr.num_partition_entries)
         /\ p.hdr.partition_entry_lba * LBA_BLKSZ < Mod32

(* A table is found wherever its image is moved to, through a window at    *)
(* the image as well as through one at its header                          *)
(* (tests/disk/gpt/test.sh:25), and what is found is the table that was    *)
(* written.                                                                *)
DetectFindsTable ==
  /\ pc = "undetected" => ~Clean
  /\ pc = "detected" => WriteAt(<<>>, base, gpt_write(p.hdr, p.partitions), Nothing) = file

(* The parts that are about partitions, among the first k of a text.       *)
SpecsIn(t) ==
  LET Among[k \in 0 .. Len(t)] ==
        IF k = 0 THEN <<>>
        ELSE IF t[k].disk = 0 THEN Append(Among[k - 1], t[k]) ELSE Among[k - 1]
  IN Among
Held(t) == CHOOSE n \in 0 .. Len(t) : /\ \A k \in 1 .. n : IsWhole(t, k)
                                      /\ n < Len(t) => ~IsWhole(t, n + 1)
Specs == SpecsIn(text)[Held(text)]
NoneCut == \A k \in DOMAIN text : ~IsCut(text, k)
Named == \A i \in DOMAIN Specs : Specs[i].name # NoName
NoneAtZero == arg.first_lba # 0 /\ \A i \in DOMAIN Specs : to_partition_lba_size(Specs[i].start) # 0

(* gpt_write gives a table without a number of entries all the entries.    *)
EntriesFor(options) == IF options.num_parts = 0 THEN GPT_MAX_NUM_PARTS ELSE options.num_parts

(* The partitions of a text whose parts all have names are where a start=  *)
(* says, or follow each other without a gap (gpt_parse_part), and of those *)
(* that the buffers hold as many are in the table as it has entries.  What *)
(* the buffers do not hold is lost without a word; a text that is cut      *)
(* within a part is left out, and so is a partition at block 0: a walk     *)
(* over the table takes it for the end of the table.                       *)
PartitionsFollow ==
  pc = "detected" /\ json = <<>> /\ Named /\ NoneAtZero /\ NoneCut =>
    LET entries == UsedEntries(p.partitions)
    IN /\ Len(entries) = IF Len(Specs) < EntriesFor(arg) THEN Len(Specs) ELSE EntriesFor(arg)
       /\ \A i \in DOMAIN entries :
            /\ entries[i].name = Specs[i].name
            /\ SizeLba(entries[i]) = to_partition_lba_size(Specs[i].size)
            /\ entries[i].start = Blocks(Specs[i].start, Predicted(entries, i))

(* A whole number of kilobytes, or from a megabyte on of megabytes.        *)
Representable(lba) == lba >= 2 /\ lba % (IF lba < Mega THEN 2 ELSE Mega) = 0

(* Nothing lies behind the partitions that a walk over the table sees: no  *)
(* partition starts at block 0, which would end the walk.                  *)
Whole(entries) == \A i \in UsedCount(entries) + 1 .. Len(entries) : entries[i] = Nothing

(* Packing the JSON of a table with partitions makes the same image        *)
(* (tests/disk/gpt/test.sh:17), and so does the text of --reverse,         *)
(* provided that every start and size can be printed in whole units and    *)
(* that gpt_parse_partitions can hold the text.                            *)
Fits(t) == \A k \in DOMAIN t : IsWhole(t, k)
RoundTrip ==
  LET entries == UsedEntries(first.partitions)
      exact == \A i \in DOMAIN entries :
                 Representable(entries[i].start) /\ Representable(SizeLba(entries[i]))
      same == pc = "written" => img = gpt_write(first.hdr, first.partitions)
  IN entries # <<>> /\ Whole(first.partitions) =>
       /\ json # <<>> => same
       /\ json = <<>> /\ exact /\ Fits(text) => pc # "refused" /\ same

(* "--disk-type-uid uid  Set gpt partition's defualt disk type uid"        *)
(* (gpt.c:1333): a partition with a type= of its own has that type.        *)
TypeIsKept ==
  pc = "written" /\ first = NoTable /\ Named =>
    \A i \in DOMAIN Specs : Specs[i].type # 0 => p.partitions[i].type = Specs[i].type
=============================================================================
