----------------------------- MODULE GptProofs -------------------------------
(***************************************************************************)
(* Proofs about Gpt, for any text and any table size, and for an image     *)
(* anywhere in a file: a table whose entries lie below 4 GiB and clear of  *)
(* the header is found again, and one that is unpacked, or listed in a     *)
(* text that the buffers hold, makes the same image.                       *)
(***************************************************************************)
EXTENDS Gpt, Lemmas

USE GptAssumption

Record == [is : {"entry"}, name : Nat, type : Nat, bootable : BOOLEAN, start : Nat, end : Nat]
Entries == {e \in Record : e.start <= e.end}
Header == [is : {"header"}, my_lba : {0, 1}, partition_entry_lba : Nat,
           num_partition_entries : 0 .. GPT_MAX_NUM_PARTS, first_usable_lba : Nat,
           disk_guid : Nat, crc : Seq(Entries)]
Unit == {ProtectiveMbr} \cup Entries \cup Header
GptTables == [hdr : Header, partitions : Seq(Entries)]

(* A table as it can be written: where it lies is decided.                 *)
Complete(table) ==
  /\ table.hdr.my_lba = 1 /\ table.hdr.partition_entry_lba > 0
  /\ table.hdr.num_partition_entries > 0
  /\ table.hdr.num_partition_entries <= Len(table.partitions)

(* A table as it was read: its checksum is of its entries.                 *)
Checked(table) ==
  /\ Complete(table)
  /\ Len(table.partitions) = table.hdr.num_partition_entries
  /\ table.hdr.crc = table.partitions

LEMMA NothingType == Nothing \in Entries /\ NoHeader \in Header /\ NoTable \in GptTables
<1>1. Nothing \in Entries
  BY DEF Nothing, Entries, Record
<1>2. <<>> \in Seq(Entries)
  OBVIOUS
<1>3. NoHeader \in Header
  BY <1>2 DEF NoHeader, Header
<1>. QED BY <1>1, <1>2, <1>3 DEF NoTable, GptTables

LEMMA UnitKinds ==
  /\ ProtectiveMbr.is = "mbr" /\ \A e \in Entries : e.is = "entry"
  /\ \A h \in Header : h.is = "header"
BY DEF ProtectiveMbr, Entries, Record, Header

(* Two sequences with the same elements are one.                           *)
LEMMA SameSequence ==
  \A S, T : \A s \in Seq(S), t \in Seq(T) :
    Len(s) = Len(t) /\ (\A k \in 1 .. Len(s) : s[k] = t[k]) => s = t
<1>. TAKE S, T
<1>. TAKE s \in Seq(S), t \in Seq(T)
<1>. HAVE Len(s) = Len(t) /\ \A k \in 1 .. Len(s) : s[k] = t[k]
<1>1. s = [k \in 1 .. Len(s) |-> s[k]] /\ t = [k \in 1 .. Len(t) |-> t[k]]
  OBVIOUS
<1>. QED BY <1>1

-----------------------------------------------------------------------------
(* The partitions of a table that a walk sees.                             *)
LEMMA UsedCountIs ==
  ASSUME NEW s, Len(s) \in Nat
  PROVE  /\ UsedCount(s) \in 0 .. Len(s)
         /\ \A i \in 1 .. UsedCount(s) : ~IsEnd(s[i])
         /\ UsedCount(s) < Len(s) => IsEnd(s[UsedCount(s) + 1])
<1>. DEFINE P(n) == /\ \A i \in 1 .. n : ~IsEnd(s[i])
                    /\ n < Len(s) => IsEnd(s[n + 1])
            S == {n \in Nat : n < Len(s) /\ IsEnd(s[n + 1])}
<1>1. \E n \in 0 .. Len(s) : P(n)
  <2>1. CASE S = {}
    <3>1. \A i \in 1 .. Len(s) : i - 1 \in Nat /\ i - 1 < Len(s) /\ (i - 1) + 1 = i
      OBVIOUS
    <3>2. \A i \in 1 .. Len(s) : ~IsEnd(s[i])
      BY <2>1, <3>1
    <3>. QED BY <3>2
  <2>2. CASE S # {}
    <3>1. PICK n \in S : \A m \in S : n <= m
      <4>1. S \in SUBSET Nat
        OBVIOUS
      <4>. HIDE DEF S
      <4>. QED BY <2>2, <4>1, LeastExists
    <3>2. ASSUME NEW i \in 1 .. n PROVE ~IsEnd(s[i])
      <4>1. i - 1 \in Nat /\ i - 1 < Len(s) /\ ~(n <= i - 1) /\ (i - 1) + 1 = i
        BY <3>1
      <4>. QED BY <3>1, <4>1
    <3>. QED BY <3>1, <3>2
  <2>. QED BY <2>1, <2>2
<1>2. UsedCount(s) = CHOOSE n \in 0 .. Len(s) : P(n)
  BY DEF UsedCount
<1>. HIDE DEF P
<1>3. UsedCount(s) \in 0 .. Len(s) /\ P(UsedCount(s))
  BY <1>1, <1>2
<1>. QED BY <1>3 DEF P

LEMMA UsedEntriesAre ==
  ASSUME NEW s \in Seq(Entries)
  PROVE  /\ UsedEntries(s) \in Seq(Entries) /\ Len(UsedEntries(s)) = UsedCount(s)
         /\ UsedCount(s) \in 0 .. Len(s) /\ DOMAIN UsedEntries(s) = 1 .. UsedCount(s)
         /\ \A i \in 1 .. UsedCount(s) :
              /\ UsedEntries(s)[i] = s[i] /\ s[i] \in Entries
              /\ s[i].start > 0 /\ s[i].end > 0 /\ s[i] # Nothing
<1>1. /\ UsedCount(s) \in 0 .. Len(s)
      /\ \A i \in 1 .. UsedCount(s) : ~IsEnd(s[i])
  BY UsedCountIs
<1>2. \A i \in 1 .. UsedCount(s) : s[i] \in Entries
  BY <1>1
<1>3. \A e \in Entries : ~IsEnd(e) => e.start > 0 /\ e.end > 0 /\ e # Nothing
  BY DEF IsEnd, Entries, Record, Nothing
<1>4. /\ UsedEntries(s) \in Seq(Entries) /\ Len(UsedEntries(s)) = UsedCount(s)
      /\ \A i \in 1 .. UsedCount(s) : UsedEntries(s)[i] = s[i]
  <2>. DEFINE n == UsedCount(s)
  <2>1. n \in 0 .. Len(s)
    BY <1>1
  <2>. HIDE DEF n
  <2>2. SubSeq(s, 1, n) \in Seq(Entries) /\ Len(SubSeq(s, 1, n)) = n
        /\ \A i \in 1 .. n : SubSeq(s, 1, n)[i] = s[i]
    BY <2>1
  <2>. QED BY <2>2 DEF UsedEntries, n
<1>5. DOMAIN UsedEntries(s) = 1 .. UsedCount(s)
  BY <1>4
<1>. QED BY <1>1, <1>2, <1>3, <1>4, <1>5

-----------------------------------------------------------------------------
(* A block below 4 GiB is where it says, and so is the header's.           *)
LEMMA SeekBlockIs ==
  /\ \A lba \in Nat : SeekBlock(lba) \in Nat
  /\ \A lba \in Nat : lba * LBA_BLKSZ < Mod32 => SeekBlock(lba) = lba
  /\ SeekBlock(1) = 1
<1>. USE SeekAssumption
<1>1. ASSUME NEW lba \in Nat PROVE SeekBlock(lba) \in Nat
  <2>. DEFINE b == lba * LBA_BLKSZ
  <2>1. b \in Nat
    OBVIOUS
  <2>2. SeekBlock(lba) = (b % Mod32) \div LBA_BLKSZ
    BY DEF SeekBlock, lba2sz
  <2>. HIDE DEF b
  <2>3. b % Mod32 \in Nat
    BY <2>1
  <2>4. \A x \in Nat : x \div LBA_BLKSZ \in Nat
    OBVIOUS
  <2>. QED BY <2>2, <2>3, <2>4
<1>2. ASSUME NEW lba \in Nat, lba * LBA_BLKSZ < Mod32 PROVE SeekBlock(lba) = lba
  <2>. DEFINE b == lba * LBA_BLKSZ
  <2>1. b \in Nat /\ b < Mod32
    BY <1>2
  <2>2. SeekBlock(lba) = (b % Mod32) \div LBA_BLKSZ
    BY DEF SeekBlock, lba2sz
  <2>3. b \div LBA_BLKSZ = lba
    OBVIOUS
  <2>. HIDE DEF b
  <2>4. b % Mod32 = b
    BY <2>1
  <2>. QED BY <2>2, <2>3, <2>4
<1>3. SeekBlock(1) = 1
  BY <1>2
<1>. QED BY <1>1, <1>2, <1>3

(* The image: the MBR, unless entries lie there, the header behind it, the *)
(* entries where the seek ends, unless the header lies there.              *)
Image(table, i) ==
  LET hdr == table.hdr
      at == SeekBlock(hdr.partition_entry_lba)
      entries == SubSeq(table.partitions, 1, hdr.num_partition_entries)
  IN /\ i \in Seq(Unit) /\ Len(i) >= 2
     /\ Len(i) >= at + hdr.num_partition_entries
     /\ i[1].is # "header"
     /\ i[2] = [hdr EXCEPT !.crc = entries]
     /\ \A k \in 1 .. hdr.num_partition_entries : at + k # 2 => i[at + k] = entries[k]

LEMMA FirstEntries ==
  ASSUME NEW table \in GptTables, Complete(table)
  PROVE  LET n == table.hdr.num_partition_entries
             entries == SubSeq(table.partitions, 1, n)
         IN /\ entries \in Seq(Entries) /\ Len(entries) = n
            /\ \A k \in 1 .. n : entries[k] = table.partitions[k]
            /\ [table.hdr EXCEPT !.crc = entries] \in Header
<1>. DEFINE n == table.hdr.num_partition_entries
            s == table.partitions
<1>1. n \in Nat /\ s \in Seq(Entries) /\ n <= Len(s) /\ table.hdr \in Header
  BY DEF GptTables, Header, Complete
<1>. HIDE DEF n, s
<1>2. /\ SubSeq(s, 1, n) \in Seq(Entries) /\ Len(SubSeq(s, 1, n)) = n
      /\ \A k \in 1 .. n : SubSeq(s, 1, n)[k] = s[k]
  BY <1>1
<1>3. ASSUME NEW c \in Seq(Entries) PROVE [table.hdr EXCEPT !.crc = c] \in Header
  BY <1>1 DEF Header
<1>. QED BY <1>2, <1>3 DEF n, s

LEMMA ImageIs ==
  ASSUME NEW table \in GptTables, Complete(table)
  PROVE  Image(table, gpt_write(table.hdr, table.partitions))
<1>. DEFINE n == table.hdr.num_partition_entries
            pe == SeekBlock(table.hdr.partition_entry_lba)
            e == SubSeq(table.partitions, 1, n)
            h == [table.hdr EXCEPT !.crc = e]
            w == WriteAt(<<ProtectiveMbr>>, pe, e, Nothing)
            i == WriteAt(w, 1, <<h>>, Nothing)
<1>1. e \in Seq(Entries) /\ Len(e) = n /\ h \in Header
  BY FirstEntries
<1>2. n \in Nat /\ pe \in Nat /\ n > 0 /\ table.hdr.my_lba = 1
  <2>1. n \in Nat /\ table.hdr.partition_entry_lba \in Nat /\ n > 0 /\ table.hdr.my_lba = 1
    BY DEF GptTables, Header, Complete
  <2>. QED BY <2>1, SeekBlockIs
<1>3. gpt_write(table.hdr, table.partitions) = i
  BY <1>2, SeekBlockIs DEF gpt_write
<1>. HIDE DEF n, pe, e, h
<1>4. e \in Seq(Unit) /\ h \in Unit /\ Nothing \in Unit /\ ProtectiveMbr \in Unit
  <2>1. \A x \in Entries : x \in Unit
    BY DEF Unit
  <2>. QED BY <1>1, <2>1, NothingType DEF Unit
<1>5. <<ProtectiveMbr>> \in Seq(Unit) /\ <<h>> \in Seq(Unit)
  BY <1>4
<1>6. w \in Seq(Unit) /\ IsWritten(w, <<ProtectiveMbr>>, pe, e, Nothing)
  BY <1>2, <1>4, <1>5, WriteAtProperties
<1>. HIDE DEF w
<1>7. i \in Seq(Unit) /\ IsWritten(i, w, 1, <<h>>, Nothing)
  BY <1>4, <1>5, <1>6, WriteAtProperties
<1>. HIDE DEF i
<1>8. Len(w) \in Nat /\ Len(i) \in Nat /\ Len(<<h>>) = 1 /\ Len(<<ProtectiveMbr>>) = 1
  BY <1>6, <1>7
<1>9. /\ Len(w) = pe + n
      /\ w[1].is # "header"
      /\ \A k \in 1 .. n : w[pe + k] = e[k]
  <2>1. Len(w) = pe + n
    BY <1>1, <1>2, <1>6, <1>8 DEF IsWritten
  <2>2. 1 \in 1 .. Len(w)
    BY <1>2, <2>1
  <2>4. ASSUME NEW k \in 1 .. n PROVE w[pe + k] = e[k]
    <3>1. pe + k \in 1 .. Len(w) /\ pe < pe + k /\ pe + k <= pe + Len(e) /\ (pe + k) - pe = k
      BY <1>1, <1>2, <2>1
    <3>. QED BY <1>6, <3>1 DEF IsWritten
  <2>5. ASSUME pe > 0 PROVE w[1].is # "header"
    <3>1. ~(pe < 1)
      BY <1>2, <2>5
    <3>2. w[1] = <<ProtectiveMbr>>[1]
      BY <1>6, <1>8, <2>2, <3>1 DEF IsWritten
    <3>. QED BY <3>2, UnitKinds
  <2>6. ASSUME pe = 0 PROVE w[1].is # "header"
    <3>1. 1 \in 1 .. n /\ 0 + 1 = 1
      BY <1>2
    <3>2. w[1] = e[1]
      BY <2>4, <2>6, <3>1
    <3>3. e[1] \in Entries
      BY <1>1, <3>1
    <3>. QED BY <3>2, <3>3, UnitKinds
  <2>7. w[1].is # "header"
    <3>1. pe > 0 \/ pe = 0
      BY <1>2
    <3>. QED BY <2>5, <2>6, <3>1
  <2>. QED BY <2>1, <2>4, <2>7
<1>10. Len(i) >= 2 /\ Len(i) >= pe + n
  BY <1>2, <1>7, <1>8, <1>9 DEF IsWritten
<1>11. ASSUME NEW k \in 1 .. Len(w), k # 2 PROVE i[k] = w[k]
  <2>1. k \in 1 .. Len(i) /\ ~(1 < k /\ k <= 1 + Len(<<h>>)) /\ k <= Len(w)
    BY <1>7, <1>8, <1>11 DEF IsWritten
  <2>. QED BY <1>7, <2>1 DEF IsWritten
<1>12. i[2] = h
  <2>1. 2 \in 1 .. Len(i) /\ 1 < 2 /\ 2 <= 1 + Len(<<h>>) /\ 2 - 1 = 1 /\ <<h>>[1] = h
    BY <1>8, <1>10
  <2>. QED BY <1>7, <2>1 DEF IsWritten
<1>13. i[1].is # "header"
  <2>1. 1 \in 1 .. Len(w)
    BY <1>2, <1>9
  <2>. QED BY <1>9, <1>11, <2>1
<1>14. ASSUME NEW k \in 1 .. n, pe + k # 2 PROVE i[pe + k] = e[k]
  <2>1. pe + k \in 1 .. Len(w)
    BY <1>2, <1>9
  <2>. QED BY <1>9, <1>11, <1>14, <2>1
<1>. QED BY <1>3, <1>7, <1>10, <1>12, <1>13, <1>14 DEF Image, n, pe, e, h

-----------------------------------------------------------------------------
(* A file with the image at base.                                          *)
FileOf(table) == WriteAt(<<>>, base, gpt_write(table.hdr, table.partitions), Nothing)
WrittenHeader(table) ==
  [table.hdr EXCEPT !.crc = SubSeq(table.partitions, 1, table.hdr.num_partition_entries)]

LEMMA FileIs ==
  ASSUME NEW table \in GptTables, Complete(table), base \in Nat
  PROVE  LET i == gpt_write(table.hdr, table.partitions)
             f == FileOf(table)
         IN /\ f \in Seq(Unit) /\ Len(f) = base + Len(i)
            /\ \A k \in 1 .. base : f[k] = Nothing
            /\ \A k \in 1 .. Len(i) : f[base + k] = i[k]
<1>. DEFINE i == gpt_write(table.hdr, table.partitions)
            f == FileOf(table)
<1>1. i \in Seq(Unit) /\ Len(i) >= 2
  BY ImageIs DEF Image
<1>2. f = WriteAt(<<>>, base, i, Nothing)
  BY DEF FileOf
<1>. HIDE DEF i, f
<1>3. <<>> \in Seq(Unit) /\ Nothing \in Unit
  BY NothingType DEF Unit
<1>4. f \in Seq(Unit) /\ IsWritten(f, <<>>, base, i, Nothing)
  BY <1>1, <1>2, <1>3, WriteAtProperties
<1>5. Len(f) = base + Len(i)
  BY <1>1, <1>4 DEF IsWritten
<1>6. ASSUME NEW k \in 1 .. base PROVE f[k] = Nothing
  <2>1. k \in 1 .. Len(f) /\ ~(base < k) /\ ~(k <= Len(<<>>))
    BY <1>1, <1>5
  <2>. QED BY <1>4, <2>1 DEF IsWritten
<1>7. ASSUME NEW k \in 1 .. Len(i) PROVE f[base + k] = i[k]
  <2>1. base + k \in 1 .. Len(f) /\ base < base + k /\ base + k <= base + Len(i) /\ (base + k) - base = k
    BY <1>1, <1>5
  <2>. QED BY <1>4, <2>1 DEF IsWritten
<1>. QED BY <1>4, <1>5, <1>6, <1>7 DEF i, f

(* Of the two places where a header is looked for, only that of the image  *)
(* has one: the MBR is before it and, through a window at the header, the  *)
(* first place is the header's.                                            *)
LEMMA HeaderFound ==
  ASSUME NEW table \in GptTables, Complete(table), base \in Nat, start \in {base, base + 1},
         file = FileOf(table)
  PROVE  /\ GoodOffset # {} /\ GptOffset \in {0, 1} /\ start + GptOffset = base + 1
         /\ Found = WrittenHeader(table)
<1>. DEFINE i == gpt_write(table.hdr, table.partitions)
<1>1. /\ i \in Seq(Unit) /\ Len(i) >= 2 /\ i[1].is # "header"
      /\ i[2] = WrittenHeader(table)
  BY ImageIs DEF Image, WrittenHeader
<1>2. /\ file \in Seq(Unit) /\ Len(file) = base + Len(i)
      /\ \A k \in 1 .. Len(i) : file[base + k] = i[k]
  BY FileIs
<1>3. WrittenHeader(table) \in Header
  BY FirstEntries DEF WrittenHeader
<1>. HIDE DEF i
<1>4. UnitAt(file, base, Nothing) = i[1] /\ UnitAt(file, base + 1, Nothing) = WrittenHeader(table)
  <2>1. 1 \in 1 .. Len(i) /\ 2 \in 1 .. Len(i) /\ (base + 1) + 1 = base + 2 /\ base < Len(file) /\ base + 1 < Len(file)
    BY <1>1, <1>2
  <2>2. file[base + 1] = i[1] /\ file[base + 2] = i[2]
    BY <1>2, <2>1
  <2>. QED BY <1>1, <2>1, <2>2 DEF UnitAt
<1>5. ~IsHeader(base) /\ IsHeader(base + 1)
  BY <1>1, <1>3, <1>4, UnitKinds DEF IsHeader
<1>6. \A o \in {0, 1} : o \in GoodOffset <=> IsHeader(start + o)
  BY DEF GoodOffset
<1>7. CASE start = base
  <2>1. start + 0 = base /\ start + 1 = base + 1
    BY <1>7
  <2>2. GoodOffset = {1}
    BY <1>5, <1>6, <2>1 DEF GoodOffset
  <2>3. GptOffset = 1
    BY <2>2 DEF GptOffset
  <2>. QED BY <1>4, <2>1, <2>2, <2>3 DEF Found
<1>8. CASE start = base + 1
  <2>1. start + 0 = base + 1
    BY <1>8
  <2>2. 0 \in GoodOffset
    BY <1>5, <1>6, <2>1
  <2>3. GptOffset = 0
    BY <2>2 DEF GptOffset
  <2>. QED BY <1>4, <2>1, <2>2, <2>3 DEF Found
<1>. QED BY <1>7, <1>8

(* The second place, relative to the header, is where they are, unless the *)
(* seek to them wrapped.                                                   *)
InTheWay(hdr) == hdr.partition_entry_lba <= hdr.my_lba
                 /\ hdr.my_lba < hdr.partition_entry_lba + hdr.num_partition_entries
Below4G(hdr) == hdr.partition_entry_lba * LBA_BLKSZ < Mod32

LEMMA EntriesFound ==
  ASSUME NEW table \in GptTables, Complete(table), base \in Nat, start \in {base, base + 1},
         file = FileOf(table)
  PROVE  /\ ~InTheWay(table.hdr) /\ Below4G(table.hdr) => GoodCandidates # {}
         /\ \A c \in GoodCandidates : EntriesAt(Candidates[c]) = Found.crc
<1>. DEFINE n == table.hdr.num_partition_entries
            pe == table.hdr.partition_entry_lba
            e == SubSeq(table.partitions, 1, n)
            i == gpt_write(table.hdr, table.partitions)
<1>1. e \in Seq(Entries) /\ Len(e) = n
  BY FirstEntries
<1>2. n \in Nat /\ pe \in Nat /\ pe > 0 /\ n > 0 /\ table.hdr.my_lba = 1 /\ table.hdr \in Header
  BY DEF GptTables, Header, Complete
<1>3. /\ i \in Seq(Unit)
      /\ Below4G(table.hdr) => /\ Len(i) >= pe + n
                               /\ \A k \in 1 .. n : pe + k # 2 => i[pe + k] = e[k]
  <2>1. Below4G(table.hdr) => SeekBlock(pe) = pe
    BY <1>2, SeekBlockIs DEF Below4G
  <2>2. Image(table, i)
    BY ImageIs
  <2>3. /\ i \in Seq(Unit) /\ Len(i) >= SeekBlock(pe) + n
        /\ \A k \in 1 .. n : SeekBlock(pe) + k # 2 => i[SeekBlock(pe) + k] = e[k]
    BY <2>2 DEF Image
  <2>. HIDE DEF n, pe, e, i
  <2>. QED BY <2>1, <2>3
<1>4. /\ file \in Seq(Unit) /\ Len(file) = base + Len(i)
      /\ \A k \in 1 .. Len(i) : file[base + k] = i[k]
  BY FileIs
<1>5. /\ GptOffset \in {0, 1} /\ start + GptOffset = base + 1
      /\ Found = [table.hdr EXCEPT !.crc = e]
  BY HeaderFound DEF WrittenHeader
<1>6. Found.partition_entry_lba = pe /\ Found.my_lba = 1 /\ Found.num_partition_entries = n /\ Found.crc = e
  BY <1>2, <1>5 DEF Header
<1>7. Candidates[2] = base + pe /\ DOMAIN Candidates = 1 .. 3
  <2>1. Candidates[2] = Found.partition_entry_lba - Found.my_lba + start + GptOffset /\ DOMAIN Candidates = 1 .. 3
    BY DEF Candidates
  <2>. HIDE DEF n, pe, e, i
  <2>2. pe - 1 + start + GptOffset = base + pe
    BY <1>2, <1>5
  <2>. QED BY <1>6, <2>1, <2>2
<1>8. ASSUME ~InTheWay(table.hdr), Below4G(table.hdr) PROVE EntriesMatch(base + pe)
  <2>1. \A k \in 1 .. n : pe + k # 2
    <3>1. ~(pe <= 1 /\ 1 < pe + n)
      BY <1>2, <1>8 DEF InTheWay
    <3>. HIDE DEF n, pe, e, i
    <3>. QED BY <1>2, <3>1
  <2>. HIDE DEF n, pe, e, i
  <2>2. base + pe >= 0 /\ base + pe + n <= Len(file)
    BY <1>2, <1>3, <1>4, <1>8
  <2>3. ASSUME NEW k \in 1 .. n PROVE file[base + pe + k] = e[k]
    <3>1. pe + k \in 1 .. Len(i) /\ base + (pe + k) = base + pe + k
      BY <1>2, <1>3, <1>8
    <3>. QED BY <1>3, <1>4, <1>8, <2>1, <3>1
  <2>4. SubSeq(file, base + pe + 1, base + pe + n) = e
    <3>. DEFINE s == SubSeq(file, base + pe + 1, base + pe + n)
    <3>1. s \in Seq(Unit) /\ Len(s) = n /\ \A k \in 1 .. n : s[k] = file[base + pe + k]
      BY <1>2, <1>4, <2>2
    <3>. HIDE DEF s
    <3>2. \A k \in 1 .. n : s[k] = e[k]
      BY <2>3, <3>1
    <3>. QED BY <1>1, <3>1, <3>2, SameSequence DEF s
  <2>. QED BY <1>6, <2>2, <2>4 DEF EntriesMatch, EntriesAt
<1>9. ~InTheWay(table.hdr) /\ Below4G(table.hdr) => 2 \in GoodCandidates
  BY <1>7, <1>8 DEF GoodCandidates
<1>10. \A c \in GoodCandidates : EntriesAt(Candidates[c]) = Found.crc
  BY DEF GoodCandidates, EntriesMatch
<1>. QED BY <1>9, <1>10

-----------------------------------------------------------------------------
(* The types, and what table there is at each stage.                       *)
JsonPart == [name : Nat, type : Nat, bootable : BOOLEAN, lba_size : Nat \ {0}, starting_lba : Int]
Progress == [next_lba : Nat, active : 0 .. GPT_MAX_NUM_PARTS, disk_type_uid : Nat]

TypeInv ==
  /\ pc \in {"parse", "refused", "written", "detect", "detected", "undetected", "json", "pack"}
  /\ arg \in Options /\ text \in Seq(TextPart) /\ part \in 0 .. Len(text)
  /\ p \in GptTables /\ wpdata \in Progress
  /\ base \in Nat /\ start \in {base, base + 1}
  /\ json \in Seq(JsonPart) /\ first \in GptTables

(* The JSON of a table, and the entries that are made from it again.       *)
PredictedIn(table, i) ==
  IF i = 1 THEN table.hdr.first_usable_lba ELSE UsedEntries(table.partitions)[i - 1].end + 1
JsonOf(table) ==
  LET entries == UsedEntries(table.partitions)
  IN [i \in DOMAIN entries |->
        [name |-> entries[i].name, type |-> entries[i].type,
         bootable |-> entries[i].bootable, lba_size |-> SizeLba(entries[i]),
         starting_lba |-> IF entries[i].start = PredictedIn(table, i) THEN -1
                          ELSE entries[i].start]]
Cut(table) ==
  [hdr |-> table.hdr,
   partitions |-> [i \in 1 .. table.hdr.num_partition_entries |->
                     IF i > UsedCount(table.partitions) THEN Nothing ELSE table.partitions[i]]]

TableInv ==
  /\ pc = "parse" => Len(p.partitions) = GPT_MAX_NUM_PARTS /\ p.hdr.my_lba = 0
  /\ pc \in {"written", "detect", "pack"} => Complete(p)
  /\ pc \in {"detected", "json"} => Checked(p)
  /\ pc = "written" => img = gpt_write(p.hdr, p.partitions)
  /\ pc \in {"detect", "detected"} => file = FileOf(p)
  /\ pc = "json" => p = first
  /\ pc = "pack" => p = Cut(first)
  /\ pc \in {"json", "pack"} => first # NoTable /\ json = JsonOf(first)
  /\ pc = "parse" \/ first = NoTable => json = <<>>
  /\ first # NoTable => Checked(first)

LEMMA SizeType ==
  /\ \A s \in Size : to_partition_lba_size(s) \in Int
  /\ \A s \in Size, d \in Int : Blocks(s, d) \in Int
<1>1. ASSUME NEW s \in Size PROVE to_partition_lba_size(s) \in Int
  <2>1. s.n \in Nat
    BY DEF Size
  <2>2. s.n * Mega \in Int /\ s.n * Giga \in Int /\ s.n * 2 \in Int
    BY <2>1
  <2>. QED BY <2>2 DEF to_partition_lba_size
<1>. QED BY <1>1 DEF Blocks

LEMMA PrintedSize == \A lba \in Nat : partition_string_lba_size(lba) \in Size
<1>. TAKE lba \in Nat
<1>1. lba * LBA_BLKSZ \in Nat /\ lba \div 2 \in Nat /\ lba \div Mega \in Nat /\ lba \div Giga \in Nat
  OBVIOUS
<1>2. \A n \in Nat : /\ [unit |-> "", n |-> n] \in Size /\ [unit |-> "K", n |-> n] \in Size
                     /\ [unit |-> "M", n |-> n] \in Size /\ [unit |-> "G", n |-> n] \in Size
  BY DEF Size
<1>. QED BY <1>1, <1>2 DEF partition_string_lba_size

LEMMA EmptyTable ==
  /\ [i \in 1 .. GPT_MAX_NUM_PARTS |-> Nothing] \in Seq(Entries)
  /\ Len([i \in 1 .. GPT_MAX_NUM_PARTS |-> Nothing]) = GPT_MAX_NUM_PARTS
BY NothingType

(* The table that the options of a text begin with.                        *)
StartOf(options) ==
  [hdr |-> [NoHeader EXCEPT !.partition_entry_lba = options.part_entry_lba,
                            !.num_partition_entries = options.num_parts,
                            !.first_usable_lba = options.first_lba],
   partitions |-> [i \in 1 .. GPT_MAX_NUM_PARTS |-> Nothing]]

LEMMA StartType ==
  ASSUME NEW options \in Options
  PROVE  /\ StartOf(options) \in GptTables /\ StartOf(options).hdr.my_lba = 0
         /\ Len(StartOf(options).partitions) = GPT_MAX_NUM_PARTS
<1>1. options.part_entry_lba \in Nat /\ options.num_parts \in 0 .. GPT_MAX_NUM_PARTS /\ options.first_lba \in Nat
  BY DEF Options
<1>2. <<>> \in Seq(Entries)
  OBVIOUS
<1>3. StartOf(options).hdr \in Header /\ StartOf(options).hdr.my_lba = 0
  BY <1>1, <1>2 DEF StartOf, NoHeader, Header
<1>4. StartOf(options).partitions = [i \in 1 .. GPT_MAX_NUM_PARTS |-> Nothing]
  BY DEF StartOf
<1>5. StartOf(options) = [hdr |-> StartOf(options).hdr, partitions |-> StartOf(options).partitions]
  BY DEF StartOf
<1>. QED BY <1>3, <1>4, <1>5, EmptyTable DEF GptTables

LEMMA InitTypes == Init => TypeInv /\ TableInv
<1>. SUFFICES ASSUME Init PROVE TypeInv /\ TableInv
  OBVIOUS
<1>1. arg \in Options /\ text \in Seq(TextPart) /\ part \in 0 .. Len(text)
  BY TextAssumption DEF Init
<1>2. p = StartOf(arg)
  BY DEF Init, StartOf
<1>3. wpdata \in Progress
  BY <1>1 DEF Init, Progress, Options
<1>4. json \in Seq(JsonPart) /\ first \in GptTables
  BY NothingType DEF Init
<1>5. TypeInv
  BY <1>1, <1>2, <1>3, <1>4, StartType DEF Init, TypeInv
<1>6. TableInv
  BY <1>1, <1>2, StartType DEF Init, TableInv
<1>. QED BY <1>5, <1>6

(* gpt_parse_part.                                                         *)
Next1 == wpdata.active + 1
ParsedEntry(spec) ==
  [is |-> "entry",
   name |-> IF spec.name # NoName THEN spec.name ELSE p.partitions[Next1].name,
   type |-> wpdata.disk_type_uid, bootable |-> spec.bootable \/ p.partitions[Next1].bootable,
   start |-> LbaStart(spec), end |-> LbaStart(spec) + LbaSize(spec) - 1]

LEMMA ReadingType ==
  ASSUME TypeInv, MoreParts, NEW spec \in Readings
  PROVE  spec \in TextPart
<1>1. Now \in TextPart
  <2>1. part + 1 \in 1 .. Len(text)
    BY DEF TypeInv, MoreParts
  <2>. QED BY <2>1 DEF TypeInv, Now
<1>2. ASSUME spec \in CutForms(Now) PROVE spec \in TextPart
  <2>. DEFINE t == Now
  <2>1. /\ t.name \in Nat \cup {NoName} /\ t.bootable \in BOOLEAN /\ t.type \in Int
        /\ t.size \in Size /\ t.start \in Size
    BY <1>1 DEF TextPart
  <2>2. NotGiven \in Size /\ Nothing.name \in Nat /\ 0 \in Int /\ 0 \in Nat
    BY DEF NotGiven, Size, Nothing
  <2>. HIDE DEF t
  <2>3. spec \in [disk : {0},
                  name : {t.name, NoName} \cup (IF t.name = NoName THEN {} ELSE {Nothing.name}),
                  bootable : {t.bootable, FALSE}, type : {t.type, 0},
                  size : {t.size, NotGiven}, start : {t.start, NotGiven}]
    BY <1>2 DEF CutForms, t
  <2>. QED BY <2>1, <2>2, <2>3 DEF TextPart
<1>. QED BY <1>1, <1>2 DEF Readings

(* A part that is whole is read as it is.                                  *)
LEMMA WholePart ==
  ASSUME ParsePart, IsWhole(text, part + 1)
  PROVE  /\ pc = "parse" /\ MoreParts /\ Now \in Readings /\ ~PartFails(Now)
         /\ gpt_parse_part(Now)
BY DEF ParsePart, Readings

LEMMA ParseIs ==
  ASSUME TypeInv, TableInv, pc = "parse", MoreParts, NEW spec \in Readings, ~PartFails(spec),
         gpt_parse_part(spec)
  PROVE  /\ spec \in TextPart /\ wpdata.active < GPT_MAX_NUM_PARTS
         /\ IF spec.disk # 0
            THEN /\ p' = [hdr |-> [p.hdr EXCEPT !.disk_guid = spec.disk], partitions |-> p.partitions]
                 /\ wpdata' = wpdata
            ELSE /\ ParsedEntry(spec) \in Entries /\ LbaStart(spec) \in Nat /\ LbaSize(spec) \in Nat \ {0}
                 /\ p' = [hdr |-> p.hdr, partitions |-> [p.partitions EXCEPT ![Next1] = ParsedEntry(spec)]]
                 /\ wpdata' = [next_lba |-> LbaStart(spec) + LbaSize(spec),
                               active |-> IF spec.name # NoName THEN Next1 ELSE wpdata.active,
                               disk_type_uid |-> wpdata.disk_type_uid]
<1>1. spec \in TextPart
  BY ReadingType
<1>2. wpdata.active \in 0 .. GPT_MAX_NUM_PARTS /\ wpdata.active < GPT_MAX_NUM_PARTS /\ wpdata.next_lba \in Nat
      /\ wpdata.disk_type_uid \in Nat
  BY DEF TypeInv, Progress, PartFails, TooMuch
<1>3. p = [hdr |-> p.hdr, partitions |-> p.partitions] /\ p.hdr \in Header /\ p.partitions \in Seq(Entries)
  BY DEF TypeInv, GptTables
<1>4. wpdata = [next_lba |-> wpdata.next_lba, active |-> wpdata.active, disk_type_uid |-> wpdata.disk_type_uid]
  BY DEF TypeInv, Progress
<1>5. CASE spec.disk # 0
  <2>1. p' = [p EXCEPT !.hdr.disk_guid = spec.disk] /\ wpdata' = wpdata
    BY <1>5 DEF gpt_parse_part
  <2>2. p' = [hdr |-> [p.hdr EXCEPT !.disk_guid = spec.disk], partitions |-> p.partitions]
    BY <1>3, <2>1
  <2>. QED BY <1>1, <1>2, <1>5, <2>1, <2>2
<1>6. CASE spec.disk = 0
  <2>1. /\ ~(LbaStart(spec) < 0 \/ LbaSize(spec) <= 0)
        /\ p' = [p EXCEPT !.partitions[wpdata.active + 1] =
                     [is |-> "entry", name |-> IF spec.name # NoName THEN spec.name ELSE @.name,
                      type |-> TypeOf(spec), bootable |-> spec.bootable \/ @.bootable,
                      start |-> LbaStart(spec), end |-> LbaStart(spec) + LbaSize(spec) - 1]]
        /\ wpdata' = [wpdata EXCEPT !.next_lba = NextLba(spec),
                                    !.active = IF spec.name # NoName THEN @ + 1 ELSE @]
    BY <1>6 DEF gpt_parse_part, PartFails
  <2>2. LbaStart(spec) \in Int /\ LbaSize(spec) \in Int
    <3>1. spec.start \in Size /\ spec.size \in Size
      BY <1>1 DEF TextPart
    <3>. QED BY <1>2, <3>1, SizeType DEF LbaStart, LbaSize
  <2>3. LbaStart(spec) \in Nat /\ LbaSize(spec) \in Nat \ {0}
    BY <2>1, <2>2
  <2>4. p' = [hdr |-> p.hdr, partitions |-> [p.partitions EXCEPT ![Next1] = ParsedEntry(spec)]]
    BY <1>3, <2>1 DEF ParsedEntry, Next1, TypeOf
  <2>5. wpdata' = [next_lba |-> LbaStart(spec) + LbaSize(spec),
                   active |-> IF spec.name # NoName THEN Next1 ELSE wpdata.active,
                   disk_type_uid |-> wpdata.disk_type_uid]
    BY <1>4, <2>1 DEF Next1, NextLba
  <2>6. p.partitions[Next1] \in Entries
    <3>1. Next1 \in 1 .. Len(p.partitions)
      BY <1>2 DEF TableInv, Next1
    <3>. QED BY <1>3, <3>1
  <2>7. ParsedEntry(spec) \in Record
    <3>1. /\ spec.name \in Nat \cup {NoName} /\ spec.bootable \in BOOLEAN
          /\ p.partitions[Next1].name \in Nat /\ p.partitions[Next1].bootable \in BOOLEAN
      BY <1>1, <2>6 DEF TextPart, Entries, Record
    <3>2. (IF spec.name # NoName THEN spec.name ELSE p.partitions[Next1].name) \in Nat
      BY <3>1
    <3>3. (spec.bootable \/ p.partitions[Next1].bootable) \in BOOLEAN
      OBVIOUS
    <3>4. LbaStart(spec) + LbaSize(spec) - 1 \in Nat
      BY <2>3
    <3>. QED BY <1>2, <2>3, <3>2, <3>3, <3>4, Zenon DEF ParsedEntry, Record
  <2>8. ParsedEntry(spec).start <= ParsedEntry(spec).end
    <3>1. ParsedEntry(spec).start = LbaStart(spec) /\ ParsedEntry(spec).end = LbaStart(spec) + LbaSize(spec) - 1
      BY DEF ParsedEntry
    <3>. QED BY <2>3, <3>1
  <2>9. ParsedEntry(spec) \in Entries
    BY <2>7, <2>8 DEF Entries
  <2>. QED BY <1>1, <1>2, <1>6, <2>3, <2>4, <2>5, <2>9
<1>. QED BY <1>5, <1>6

LEMMA ParseStep == ASSUME TypeInv, TableInv, ParsePart PROVE TypeInv' /\ TableInv'
<1>1. /\ pc = "parse" /\ MoreParts /\ part < Len(text) /\ part' = part + 1
      /\ UNCHANGED <<pc, arg, text, img, file, start, base, json, first>>
  BY DEF ParsePart, MoreParts
<1>0. PICK spec \in Readings : ~PartFails(spec) /\ gpt_parse_part(spec)
  BY DEF ParsePart
<1>2. p.hdr \in Header /\ p.partitions \in Seq(Entries) /\ Len(p.partitions) = GPT_MAX_NUM_PARTS /\ p.hdr.my_lba = 0
      /\ wpdata.active \in 0 .. GPT_MAX_NUM_PARTS /\ wpdata.disk_type_uid \in Nat
  BY <1>1 DEF TypeInv, TableInv, GptTables, Progress
<1>3. spec \in TextPart /\ wpdata.active < GPT_MAX_NUM_PARTS
  BY <1>0, <1>1, ParseIs
<1>4. p' \in GptTables /\ wpdata' \in Progress /\ Len(p'.partitions) = GPT_MAX_NUM_PARTS /\ p'.hdr.my_lba = 0
  <2>1. CASE spec.disk # 0
    <3>1. p' = [hdr |-> [p.hdr EXCEPT !.disk_guid = spec.disk], partitions |-> p.partitions] /\ wpdata' = wpdata
      BY <1>0, <1>1, <2>1, ParseIs
    <3>2. spec.disk \in Nat
      BY <1>3 DEF TextPart
    <3>3. [p.hdr EXCEPT !.disk_guid = spec.disk] \in Header /\ [p.hdr EXCEPT !.disk_guid = spec.disk].my_lba = 0
      BY <1>2, <3>2 DEF Header
    <3>. QED BY <1>2, <3>1, <3>3 DEF TypeInv, GptTables
  <2>2. CASE spec.disk = 0
    <3>1. /\ ParsedEntry(spec) \in Entries /\ LbaStart(spec) \in Nat /\ LbaSize(spec) \in Nat \ {0}
          /\ p' = [hdr |-> p.hdr, partitions |-> [p.partitions EXCEPT ![Next1] = ParsedEntry(spec)]]
          /\ wpdata' = [next_lba |-> LbaStart(spec) + LbaSize(spec),
                        active |-> IF spec.name # NoName THEN Next1 ELSE wpdata.active,
                        disk_type_uid |-> wpdata.disk_type_uid]
      BY <1>0, <1>1, <2>2, ParseIs
    <3>2. Next1 \in 1 .. GPT_MAX_NUM_PARTS
      BY <1>2, <1>3 DEF Next1
    <3>3. [p.partitions EXCEPT ![Next1] = ParsedEntry(spec)] \in Seq(Entries)
          /\ Len([p.partitions EXCEPT ![Next1] = ParsedEntry(spec)]) = GPT_MAX_NUM_PARTS
      BY <1>2, <3>1, <3>2
    <3>4. p' \in GptTables /\ Len(p'.partitions) = GPT_MAX_NUM_PARTS /\ p'.hdr.my_lba = 0
      BY <1>2, <3>1, <3>3 DEF GptTables
    <3>5. LbaStart(spec) + LbaSize(spec) \in Nat /\ (IF spec.name # NoName THEN Next1 ELSE wpdata.active) \in 0 .. GPT_MAX_NUM_PARTS
      BY <1>2, <3>1, <3>2
    <3>6. wpdata' \in Progress
      BY <1>2, <3>1, <3>5, Zenon DEF Progress
    <3>. QED BY <3>4, <3>6
  <2>. QED BY <2>1, <2>2
<1>5. part' \in 0 .. Len(text')
  BY <1>1 DEF TypeInv
<1>6. TypeInv'
  BY <1>1, <1>4, <1>5 DEF TypeInv
<1>7. TableInv'
  BY <1>1, <1>4 DEF TableInv
<1>. QED BY <1>6, <1>7

(* gpt_write.                                                              *)
LEMMA WriteStep ==
  ASSUME TypeInv, TableInv, Write
  PROVE  /\ TypeInv' /\ TableInv'
         /\ p' = [hdr |-> WithDefaults(p.hdr), partitions |-> p.partitions]
         /\ WithDefaults(p.hdr) = [p.hdr EXCEPT !.my_lba = 1,
              !.partition_entry_lba = IF @ = 0 THEN 2 ELSE @,
              !.num_partition_entries = IF @ = 0 THEN GPT_MAX_NUM_PARTS ELSE @]
<1>1. /\ pc \in {"parse", "pack"} /\ pc' = "written"
      /\ p' = [p EXCEPT !.hdr = WithDefaults(@)] /\ img' = gpt_write(p'.hdr, p.partitions)
      /\ UNCHANGED <<arg, text, part, wpdata, file, start, base, json, first>>
  BY DEF Write
<1>2. p.hdr \in Header /\ p.partitions \in Seq(Entries) /\ p = [hdr |-> p.hdr, partitions |-> p.partitions]
  BY DEF TypeInv, GptTables
<1>. DEFINE h == WithDefaults(p.hdr)
<1>3. p' = [hdr |-> h, partitions |-> p.partitions]
  <2>. HIDE DEF h
  <2>. QED BY <1>1, <1>2 DEF h
<1>4. /\ h = [p.hdr EXCEPT !.my_lba = 1,
                !.partition_entry_lba = IF @ = 0 THEN 2 ELSE @,
                !.num_partition_entries = IF @ = 0 THEN GPT_MAX_NUM_PARTS ELSE @]
      /\ h \in Header /\ h.my_lba = 1 /\ h.partition_entry_lba > 0 /\ h.num_partition_entries > 0
      /\ p.hdr.num_partition_entries # 0 => h.num_partition_entries = p.hdr.num_partition_entries
  <2>1. p.hdr.my_lba \in {0, 1} /\ p.hdr.partition_entry_lba \in Nat
        /\ p.hdr.num_partition_entries \in 0 .. GPT_MAX_NUM_PARTS
    BY <1>2 DEF Header
  <2>2. (IF p.hdr.my_lba = 0 THEN 1 ELSE p.hdr.my_lba) = 1
    BY <2>1
  <2>3. h = [p.hdr EXCEPT !.my_lba = 1,
                !.partition_entry_lba = IF @ = 0 THEN 2 ELSE @,
                !.num_partition_entries = IF @ = 0 THEN GPT_MAX_NUM_PARTS ELSE @]
    BY <2>2 DEF WithDefaults
  <2>. HIDE DEF h
  <2>4. /\ h.my_lba = 1 /\ h.partition_entry_lba = IF p.hdr.partition_entry_lba = 0 THEN 2 ELSE p.hdr.partition_entry_lba
        /\ h.num_partition_entries = IF p.hdr.num_partition_entries = 0 THEN GPT_MAX_NUM_PARTS ELSE p.hdr.num_partition_entries
    BY <1>2, <2>3 DEF Header
  <2>5. h \in Header
    <3>. DEFINE pe == IF p.hdr.partition_entry_lba = 0 THEN 2 ELSE p.hdr.partition_entry_lba
                n == IF p.hdr.num_partition_entries = 0 THEN GPT_MAX_NUM_PARTS ELSE p.hdr.num_partition_entries
    <3>1. pe \in Nat /\ n \in 0 .. GPT_MAX_NUM_PARTS
      BY <2>1
    <3>2. h = [p.hdr EXCEPT !.my_lba = 1, !.partition_entry_lba = pe, !.num_partition_entries = n]
      BY <2>3
    <3>. HIDE DEF pe, n
    <3>. QED BY <1>2, <3>1, <3>2 DEF Header
  <2>6. h.partition_entry_lba > 0 /\ h.num_partition_entries > 0
    BY <2>1, <2>4
  <2>. QED BY <2>3, <2>4, <2>5, <2>6
<1>. HIDE DEF h
<1>5. h.num_partition_entries <= Len(p.partitions)
  <2>1. CASE pc = "parse"
    <3>1. Len(p.partitions) = GPT_MAX_NUM_PARTS /\ h.num_partition_entries \in 0 .. GPT_MAX_NUM_PARTS
      BY <1>4, <2>1 DEF TableInv, Header
    <3>. QED BY <3>1
  <2>2. CASE pc = "pack"
    <3>1. p.hdr.num_partition_entries > 0 /\ p.hdr.num_partition_entries <= Len(p.partitions) /\ p.hdr.num_partition_entries \in Nat
      BY <1>2, <2>2 DEF TableInv, Complete, Header
    <3>. QED BY <1>4, <3>1
  <2>. QED BY <1>1, <2>1, <2>2
<1>6. p' \in GptTables
  BY <1>2, <1>3, <1>4 DEF GptTables
<1>7. Complete(p')
  BY <1>3, <1>4, <1>5 DEF Complete
<1>8. img' = gpt_write(p'.hdr, p'.partitions)
  BY <1>1, <1>3
<1>9. TypeInv'
  BY <1>1, <1>6 DEF TypeInv
<1>10. TableInv'
  <2>1. Complete(p)' /\ img' = gpt_write(p.hdr, p.partitions)'
    BY <1>7, <1>8 DEF Complete, gpt_write
  <2>. QED BY <1>1, <2>1 DEF TableInv
<1>. QED BY <1>3, <1>4, <1>9, <1>10 DEF h

LEMMA OpenStep == ASSUME TypeInv, TableInv, Open PROVE TypeInv' /\ TableInv'
<1>1. PICK b \in Base, window \in {0, p.hdr.my_lba} :
        /\ pc = "written" /\ file' = WriteAt(<<>>, b, img, Nothing) /\ base' = b /\ start' = b + window
        /\ pc' = "detect"
        /\ UNCHANGED <<arg, text, part, p, wpdata, img, json, first>>
  BY DEF Open
<1>2. Complete(p) /\ img = gpt_write(p.hdr, p.partitions)
  BY <1>1 DEF TableInv
<1>3. base' \in Nat /\ start' \in {base', base' + 1}
  BY <1>1, <1>2 DEF Complete
<1>4. file' = FileOf(p)'
  BY <1>1, <1>2 DEF FileOf, gpt_write
<1>5. TypeInv'
  BY <1>1, <1>3 DEF TypeInv
<1>6. TableInv'
  BY <1>1, <1>2, <1>4 DEF TableInv
<1>. QED BY <1>5, <1>6

(* gpt_detect reads the table that was written, with its checksum.         *)
ReadBack(table) ==
  [hdr |-> WrittenHeader(table),
   partitions |-> SubSeq(table.partitions, 1, table.hdr.num_partition_entries)]

LEMMA ReadBackIs ==
  ASSUME NEW table \in GptTables, Complete(table)
  PROVE  /\ ReadBack(table) \in GptTables /\ Checked(ReadBack(table))
         /\ gpt_write(ReadBack(table).hdr, ReadBack(table).partitions) = gpt_write(table.hdr, table.partitions)
<1>. DEFINE n == table.hdr.num_partition_entries
            e == SubSeq(table.partitions, 1, n)
            h == [table.hdr EXCEPT !.crc = e]
<1>1. e \in Seq(Entries) /\ Len(e) = n /\ h \in Header
  BY FirstEntries
<1>2. table.hdr \in Header /\ table.hdr.my_lba = 1 /\ table.hdr.partition_entry_lba > 0 /\ n > 0 /\ n \in Nat
  BY DEF GptTables, Complete, Header
<1>3. ReadBack(table) = [hdr |-> h, partitions |-> e]
  BY DEF ReadBack, WrittenHeader
<1>. HIDE DEF e
<1>4. /\ h.my_lba = 1 /\ h.partition_entry_lba = table.hdr.partition_entry_lba
      /\ h.num_partition_entries = n /\ h.crc = e /\ [h EXCEPT !.crc = e] = h
  BY <1>2 DEF Header
<1>5. SubSeq(e, 1, n) = e
  <2>. HIDE DEF n
  <2>1. SubSeq(e, 1, n) \in Seq(Entries) /\ Len(SubSeq(e, 1, n)) = n /\ \A k \in 1 .. n : SubSeq(e, 1, n)[k] = e[k]
    BY <1>1, <1>2
  <2>. QED BY <1>1, <2>1, SameSequence
<1>. HIDE DEF h, n
<1>6. Checked([hdr |-> h, partitions |-> e])
  BY <1>1, <1>2, <1>4 DEF Checked, Complete, n
<1>7. [hdr |-> h, partitions |-> e] \in GptTables
  BY <1>1 DEF GptTables
<1>8. gpt_write(h, e) = gpt_write(table.hdr, table.partitions)
  <2>1. /\ SubSeq(e, 1, h.num_partition_entries) = e /\ [h EXCEPT !.crc = e] = h
        /\ SubSeq(table.partitions, 1, table.hdr.num_partition_entries) = e
        /\ [table.hdr EXCEPT !.crc = e] = h
        /\ h.partition_entry_lba = table.hdr.partition_entry_lba /\ h.my_lba = table.hdr.my_lba
    BY <1>2, <1>4, <1>5 DEF h, e, n
  <2>. QED BY <2>1, Zenon DEF gpt_write
<1>. QED BY <1>3, <1>6, <1>7, <1>8

LEMMA DetectIs == ASSUME TypeInv, TableInv, Detect PROVE p' = ReadBack(p)
<1>1. pc = "detect" /\ GoodCandidates # {}
      /\ LET i == CHOOSE k \in GoodCandidates : \A l \in GoodCandidates : k <= l
         IN p' = [hdr |-> Found, partitions |-> EntriesAt(Candidates[i])]
  BY DEF Detect
<1>2. p \in GptTables /\ Complete(p) /\ base \in Nat /\ start \in {base, base + 1} /\ file = FileOf(p)
  BY <1>1 DEF TypeInv, TableInv
<1>3. GoodCandidates \in SUBSET Nat
  BY DEF GoodCandidates, Candidates
<1>4. \E k \in GoodCandidates : \A l \in GoodCandidates : k <= l
  BY <1>1, <1>3, LeastExists
<1>5. PICK k \in GoodCandidates : p' = [hdr |-> Found, partitions |-> EntriesAt(Candidates[k])]
  BY <1>1, <1>4
<1>6. Found = WrittenHeader(p) /\ EntriesAt(Candidates[k]) = Found.crc
  BY <1>2, HeaderFound, EntriesFound
<1>7. WrittenHeader(p).crc = SubSeq(p.partitions, 1, p.hdr.num_partition_entries)
  BY <1>2 DEF WrittenHeader, GptTables, Header
<1>. QED BY <1>5, <1>6, <1>7 DEF ReadBack

LEMMA DetectStep == ASSUME TypeInv, TableInv, Detect PROVE TypeInv' /\ TableInv'
<1>1. pc = "detect" /\ pc' = "detected"
      /\ UNCHANGED <<arg, text, part, wpdata, img, file, start, base, json, first>>
  BY DEF Detect
<1>2. p \in GptTables /\ Complete(p) /\ file = FileOf(p)
  BY <1>1 DEF TypeInv, TableInv
<1>3. p' = ReadBack(p)
  BY DetectIs
<1>4. p' \in GptTables /\ Checked(p') /\ gpt_write(p'.hdr, p'.partitions) = gpt_write(p.hdr, p.partitions)
  BY <1>2, <1>3, ReadBackIs
<1>5. Checked(p)' /\ file' = FileOf(p)'
  <2>1. FileOf(p)' = WriteAt(<<>>, base', gpt_write(p'.hdr, p'.partitions), Nothing)
    BY DEF FileOf, gpt_write
  <2>. QED BY <1>1, <1>2, <1>4, <2>1 DEF FileOf, Checked, Complete
<1>6. TypeInv'
  BY <1>1, <1>4 DEF TypeInv
<1>7. TableInv'
  BY <1>1, <1>5 DEF TableInv
<1>. QED BY <1>6, <1>7

-----------------------------------------------------------------------------
(* The JSON of a table, and what is made of it.                            *)
LEMMA JsonType ==
  ASSUME NEW table \in GptTables
  PROVE  /\ JsonOf(table) \in Seq(JsonPart) /\ Len(JsonOf(table)) = UsedCount(table.partitions)
         /\ \A i \in 1 .. UsedCount(table.partitions) :
              LET e == table.partitions[i]
              IN /\ JsonOf(table)[i].name = e.name /\ JsonOf(table)[i].type = e.type
                 /\ JsonOf(table)[i].bootable = e.bootable
                 /\ JsonOf(table)[i].lba_size = e.end - e.start + 1
                 /\ JsonOf(table)[i].starting_lba = IF e.start = PredictedIn(table, i) THEN -1 ELSE e.start
<1>. DEFINE s == table.partitions
            u == UsedCount(s)
            N(i) == [name |-> s[i].name, type |-> s[i].type, bootable |-> s[i].bootable,
                     lba_size |-> s[i].end - s[i].start + 1,
                     starting_lba |-> IF s[i].start = PredictedIn(table, i) THEN -1 ELSE s[i].start]
<1>1. /\ u \in Nat /\ DOMAIN UsedEntries(s) = 1 .. u
      /\ \A i \in 1 .. u : UsedEntries(s)[i] = s[i] /\ s[i] \in Entries
  BY UsedEntriesAre DEF GptTables
<1>2. ASSUME NEW i \in 1 .. u PROVE N(i) \in JsonPart
  <2>1. /\ s[i].name \in Nat /\ s[i].type \in Nat /\ s[i].bootable \in BOOLEAN /\ s[i].start \in Nat
        /\ s[i].end \in Nat /\ s[i].start <= s[i].end
    BY <1>1 DEF Entries, Record
  <2>. DEFINE size == s[i].end - s[i].start + 1
              st == IF s[i].start = PredictedIn(table, i) THEN -1 ELSE s[i].start
  <2>2. size \in Nat \ {0} /\ st \in Int
    BY <2>1
  <2>3. N(i) = [name |-> s[i].name, type |-> s[i].type, bootable |-> s[i].bootable, lba_size |-> size, starting_lba |-> st]
    OBVIOUS
  <2>. HIDE DEF size, st, s
  <2>. QED BY <2>1, <2>2, <2>3, Zenon DEF JsonPart
<1>3. JsonOf(table) = [i \in 1 .. u |-> N(i)]
  <2>. DEFINE f == UsedEntries(s)
              M(i) == [name |-> f[i].name, type |-> f[i].type,
                       bootable |-> f[i].bootable, lba_size |-> SizeLba(f[i]),
                       starting_lba |-> IF f[i].start = PredictedIn(table, i) THEN -1 ELSE f[i].start]
  <2>1. \A i \in 1 .. u : M(i) = N(i)
    BY <1>1 DEF SizeLba
  <2>2. JsonOf(table) = [i \in 1 .. u |-> M(i)]
    BY <1>1 DEF JsonOf
  <2>. HIDE DEF M, N, u
  <2>. QED BY <2>1, <2>2
<1>. HIDE DEF s, u
<1>4. \A i \in 1 .. u : /\ N(i).name = s[i].name /\ N(i).type = s[i].type /\ N(i).bootable = s[i].bootable
                        /\ N(i).lba_size = s[i].end - s[i].start + 1
                        /\ N(i).starting_lba = IF s[i].start = PredictedIn(table, i) THEN -1 ELSE s[i].start
  OBVIOUS
<1>. HIDE DEF N
<1>5. JsonOf(table) \in Seq(JsonPart) /\ Len(JsonOf(table)) = u
  BY <1>1, <1>2, <1>3
<1>6. \A i \in 1 .. u : JsonOf(table)[i] = N(i)
  BY <1>3
<1>. QED BY <1>4, <1>5, <1>6 DEF s, u

LEMMA UnpackStep == ASSUME TypeInv, TableInv, Unpack PROVE TypeInv' /\ TableInv'
<1>1. /\ pc = "detected" /\ first = NoTable /\ pc' = "json" /\ first' = p
      /\ UNCHANGED <<arg, text, part, p, wpdata, img, file, start, base>>
  BY DEF Unpack
<1>2. p \in GptTables /\ Checked(p)
  BY <1>1 DEF TypeInv, TableInv
<1>3. json' = JsonOf(p)
  BY DEF Unpack, JsonOf, Predicted, PredictedIn
<1>4. json' \in Seq(JsonPart)
  BY <1>2, <1>3, JsonType
<1>5. p # NoTable
  BY <1>2, NothingType DEF Checked, Complete, NoTable, NoHeader
<1>6. JsonOf(first)' = JsonOf(p)
  BY <1>1 DEF JsonOf, PredictedIn
<1>7. TypeInv'
  BY <1>1, <1>2, <1>4 DEF TypeInv
<1>8. Checked(first)' /\ Checked(p)'
  BY <1>1, <1>2 DEF Checked, Complete
<1>9. TableInv'
  BY <1>1, <1>3, <1>5, <1>6, <1>8 DEF TableInv
<1>. QED BY <1>7, <1>9

(* The starts of a JSON, one from the other.                               *)
StartFrom(i, before) ==
  IF json[i].starting_lba >= 0 THEN json[i].starting_lba
  ELSE IF i = 1 THEN p.hdr.first_usable_lba ELSE before + json[i - 1].lba_size

LEMMA StartsDef ==
  ASSUME Len(json) \in Nat, NEW i \in 1 .. Len(json)
  PROVE  StartInJson[i] = StartFrom(i, StartInJson[i - 1])
<1>. DEFINE V(x, n) == StartFrom(n, x)
            To(n) == \E g : g = [k \in 1 .. n |-> V(g[k - 1], k)]
            S == {n \in Nat : To(n)}
<1>0. \A x, y : V(x, 1) = V(y, 1)
  BY DEF StartFrom
<1>. HIDE DEF V
<1>1. 0 \in S
  <2>. DEFINE g == [k \in 1 .. 0 |-> V(0, k)]
  <2>1. g = [k \in 1 .. 0 |-> V(g[k - 1], k)]
    OBVIOUS
  <2>2. To(0)
    <3>. HIDE DEF g
    <3>. QED BY <2>1
  <2>. HIDE DEF To
  <2>. QED BY <2>2
<1>2. ASSUME NEW n \in Nat, n \in S PROVE n + 1 \in S
  <2>1. PICK g : g = [k \in 1 .. n |-> V(g[k - 1], k)]
    BY <1>2
  <2>. DEFINE h == [k \in 1 .. n + 1 |-> IF k = n + 1 THEN V(g[n], n + 1) ELSE g[k]]
  <2>2. ASSUME NEW k \in 1 .. n + 1 PROVE h[k] = V(h[k - 1], k)
    <3>1. CASE k = n + 1 /\ n = 0
      <4>1. h[k] = V(g[n], 1) /\ k = 1
        BY <3>1
      <4>. HIDE DEF h
      <4>. QED BY <1>0, <4>1
    <3>2. CASE k = n + 1 /\ n # 0
      <4>1. h[k] = V(g[n], k) /\ h[k - 1] = g[n]
        BY <3>2
      <4>. QED BY <4>1
    <3>3. CASE k # n + 1 /\ k = 1
      <4>1. k \in 1 .. n /\ h[k] = g[k]
        BY <3>3
      <4>2. g[k] = V(g[k - 1], k)
        BY <2>1, <4>1
      <4>. HIDE DEF h
      <4>. QED BY <1>0, <3>3, <4>1, <4>2
    <3>4. CASE k # n + 1 /\ k # 1
      <4>1. k \in 1 .. n /\ h[k] = g[k] /\ h[k - 1] = g[k - 1]
        BY <3>4
      <4>. QED BY <2>1, <4>1
    <3>. QED BY <3>1, <3>2, <3>3, <3>4
  <2>3. h = [k \in 1 .. n + 1 |-> V(h[k - 1], k)]
    <3>1. h = [k \in 1 .. n + 1 |-> h[k]]
      OBVIOUS
    <3>. HIDE DEF h
    <3>. QED BY <2>2, <3>1
  <2>4. To(n + 1)
    <3>. HIDE DEF h
    <3>. QED BY <2>3
  <2>. HIDE DEF To
  <2>. QED BY <2>4
<1>3. To(Len(json))
  <2>. HIDE DEF To
  <2>1. \A n \in Nat : n \in S
    <3>. HIDE DEF S
    <3>. QED BY <1>1, <1>2, SetInduction
  <2>. QED BY <2>1
<1>. DEFINE N == Len(json)
            W == CHOOSE g : g = [k \in 1 .. N |-> V(g[k - 1], k)]
<1>4. W = [k \in 1 .. N |-> V(W[k - 1], k)]
  <2>. HIDE DEF N
  <2>1. \E g : g = [k \in 1 .. N |-> V(g[k - 1], k)]
    BY <1>3 DEF N
  <2>. QED BY <2>1
<1>5. StartInJson = W
  BY DEF StartInJson, V, StartFrom
<1>. HIDE DEF W
<1>6. W[i] = V(W[i - 1], i)
  BY <1>4
<1>. QED BY <1>5, <1>6 DEF V

LEMMA StartsAreKept ==
  ASSUME p \in GptTables, json = JsonOf(p), NEW i \in 1 .. Len(json)
  PROVE  StartInJson[i] = p.partitions[i].start
<1>. DEFINE s == p.partitions
            u == UsedCount(s)
            S == {n \in Nat : n \in 1 .. u => StartInJson[n] = s[n].start}
<1>1. /\ Len(json) = u /\ u \in Nat
      /\ \A n \in 1 .. u :
           /\ json[n].lba_size = s[n].end - s[n].start + 1
           /\ json[n].starting_lba = IF s[n].start = PredictedIn(p, n) THEN -1 ELSE s[n].start
  BY JsonType
<1>2. \A n \in 1 .. u : UsedEntries(s)[n] = s[n] /\ s[n].start \in Nat /\ s[n].end \in Nat
  <2>1. s \in Seq(Entries)
    BY DEF GptTables
  <2>. HIDE DEF s
  <2>2. \A n \in 1 .. u : UsedEntries(s)[n] = s[n] /\ s[n] \in Entries
    BY <2>1, UsedEntriesAre DEF u
  <2>3. \A e \in Entries : e.start \in Nat /\ e.end \in Nat
    BY DEF Entries, Record
  <2>. QED BY <2>2, <2>3
<1>. HIDE DEF s, u
<1>3. 0 \in S
  OBVIOUS
<1>4. ASSUME NEW n \in Nat, n \in S PROVE n + 1 \in S
  <2>. SUFFICES ASSUME n + 1 \in 1 .. u PROVE StartInJson[n + 1] = s[n + 1].start
    OBVIOUS
  <2>1. StartInJson[n + 1] = StartFrom(n + 1, StartInJson[n])
    <3>1. n + 1 \in 1 .. Len(json) /\ (n + 1) - 1 = n /\ Len(json) \in Nat
      BY <1>1
    <3>2. StartInJson[n + 1] = StartFrom(n + 1, StartInJson[(n + 1) - 1])
      BY <3>1, StartsDef
    <3>. QED BY <3>1, <3>2
  <2>2. json[n + 1].starting_lba = (IF s[n + 1].start = PredictedIn(p, n + 1) THEN -1 ELSE s[n + 1].start)
        /\ s[n + 1].start \in Nat
    BY <1>1, <1>2
  <2>3. CASE s[n + 1].start # PredictedIn(p, n + 1)
    <3>1. json[n + 1].starting_lba = s[n + 1].start /\ json[n + 1].starting_lba >= 0
      BY <2>2, <2>3
    <3>. QED BY <2>1, <3>1 DEF StartFrom
  <2>4. CASE s[n + 1].start = PredictedIn(p, n + 1)
    <3>1. json[n + 1].starting_lba = -1
      BY <2>2, <2>4
    <3>2. ~(json[n + 1].starting_lba >= 0)
      BY <3>1
    <3>3. CASE n = 0
      BY <2>1, <2>4, <3>2, <3>3 DEF StartFrom, PredictedIn
    <3>4. CASE n # 0
      <4>1. n \in 1 .. u /\ (n + 1) - 1 = n /\ n + 1 # 1
        BY <1>1, <3>4
      <4>2. StartInJson[n + 1] = StartInJson[n] + json[n].lba_size
        BY <2>1, <3>2, <4>1 DEF StartFrom
      <4>3. StartInJson[n] = s[n].start /\ json[n].lba_size = s[n].end - s[n].start + 1
        BY <1>1, <1>4, <4>1
      <4>4. PredictedIn(p, n + 1) = s[n].end + 1 /\ s[n].start \in Nat /\ s[n].end \in Nat
        BY <1>2, <4>1 DEF PredictedIn, s
      <4>. QED BY <2>4, <4>2, <4>3, <4>4
    <3>. QED BY <3>3, <3>4
  <2>. QED BY <2>3, <2>4
<1>5. \A n \in Nat : n \in S
  <2>. HIDE DEF S
  <2>. QED BY <1>3, <1>4, SetInduction
<1>. QED BY <1>1, <1>5 DEF s

LEMMA CutType ==
  ASSUME NEW table \in GptTables, Checked(table)
  PROVE  Cut(table) \in GptTables /\ Complete(Cut(table))
<1>. DEFINE n == table.hdr.num_partition_entries
            s == table.partitions
            c == [i \in 1 .. n |-> IF i > UsedCount(s) THEN Nothing ELSE s[i]]
<1>1. s \in Seq(Entries) /\ n = Len(s) /\ n \in Nat /\ n > 0 /\ table.hdr \in Header
      /\ table.hdr.my_lba = 1 /\ table.hdr.partition_entry_lba > 0
  BY DEF GptTables, Checked, Complete, Header
<1>2. Cut(table) = [hdr |-> table.hdr, partitions |-> c]
  BY DEF Cut
<1>. HIDE DEF n, s
<1>3. \A i \in 1 .. n : (IF i > UsedCount(s) THEN Nothing ELSE s[i]) \in Entries
  BY <1>1, NothingType
<1>4. c \in Seq(Entries) /\ Len(c) = n
  BY <1>1, <1>3
<1>. HIDE DEF c
<1>5. Complete([hdr |-> table.hdr, partitions |-> c])
  BY <1>1, <1>4 DEF Complete, n
<1>6. [hdr |-> table.hdr, partitions |-> c] \in GptTables
  BY <1>1, <1>4 DEF GptTables
<1>. QED BY <1>2, <1>5, <1>6

(* gpt_pack makes the entries that the JSON was made from.                 *)
LEMMA PackStep == ASSUME TypeInv, TableInv, Pack PROVE TypeInv' /\ TableInv'
<1>1. /\ pc = "json" /\ pc' = "pack"
      /\ UNCHANGED <<arg, text, part, wpdata, img, file, start, base, json, first>>
      /\ p' = [p EXCEPT !.partitions = [i \in 1 .. p.hdr.num_partition_entries |->
             IF i > Len(json) THEN Nothing
             ELSE [is |-> "entry", name |-> json[i].name, type |-> json[i].type,
                   bootable |-> json[i].bootable, start |-> StartInJson[i],
                   end |-> StartInJson[i] + json[i].lba_size - 1]]]
  BY DEF Pack
<1>2. p \in GptTables /\ Checked(p) /\ p = first /\ json = JsonOf(p) /\ first # NoTable
  BY <1>1 DEF TypeInv, TableInv
<1>. DEFINE s == p.partitions
            u == UsedCount(s)
            E(i) == [is |-> "entry", name |-> json[i].name, type |-> json[i].type,
                     bootable |-> json[i].bootable, start |-> StartInJson[i],
                     end |-> StartInJson[i] + json[i].lba_size - 1]
<1>3. Len(json) = u /\ u \in Nat
  BY <1>2, JsonType, UsedEntriesAre DEF GptTables
<1>4. ASSUME NEW i \in 1 .. u PROVE E(i) = s[i]
  <2>1. /\ json[i].name = s[i].name /\ json[i].type = s[i].type /\ json[i].bootable = s[i].bootable
        /\ json[i].lba_size = s[i].end - s[i].start + 1
    BY <1>2, JsonType
  <2>2. StartInJson[i] = s[i].start
    BY <1>2, <1>3, StartsAreKept
  <2>3. s[i] \in Entries
    BY <1>2, UsedEntriesAre DEF GptTables
  <2>. HIDE DEF s, u
  <2>4. s[i] \in Record /\ s[i].start \in Nat /\ s[i].end \in Nat
    BY <2>3 DEF Entries, Record
  <2>5. s[i].start + json[i].lba_size - 1 = s[i].end
    BY <2>1, <2>4
  <2>6. s[i] = [is |-> "entry", name |-> s[i].name, type |-> s[i].type, bootable |-> s[i].bootable,
                start |-> s[i].start, end |-> s[i].end]
    BY <2>4 DEF Record
  <2>7. E(i) = [is |-> "entry", name |-> s[i].name, type |-> s[i].type, bootable |-> s[i].bootable,
                start |-> s[i].start, end |-> s[i].end]
    BY <2>1, <2>2, <2>5, Zenon
  <2>. QED BY <2>6, <2>7
<1>5. p' = Cut(p)
  <2>1. \A i \in 1 .. p.hdr.num_partition_entries :
          (IF i > Len(json) THEN Nothing ELSE E(i)) = (IF i > u THEN Nothing ELSE s[i])
    <3>1. p.hdr.num_partition_entries \in Nat
      BY <1>2 DEF GptTables, Header
    <3>. HIDE DEF E, u, s
    <3>. QED BY <1>3, <1>4, <3>1
  <2>2. [i \in 1 .. p.hdr.num_partition_entries |-> IF i > Len(json) THEN Nothing ELSE E(i)]
        = [i \in 1 .. p.hdr.num_partition_entries |-> IF i > u THEN Nothing ELSE s[i]]
    <3>. HIDE DEF E, u, s
    <3>. QED BY <2>1
  <2>3. p = [hdr |-> p.hdr, partitions |-> p.partitions]
    BY <1>2 DEF GptTables
  <2>4. p' = [hdr |-> p.hdr, partitions |-> [i \in 1 .. p.hdr.num_partition_entries |-> IF i > Len(json) THEN Nothing ELSE E(i)]]
    <3>. DEFINE c == [i \in 1 .. p.hdr.num_partition_entries |-> IF i > Len(json) THEN Nothing ELSE E(i)]
    <3>1. p' = [p EXCEPT !.partitions = c]
      BY <1>1
    <3>. HIDE DEF c
    <3>. QED BY <2>3, <3>1 DEF c
  <2>. HIDE DEF E, u, s
  <2>. QED BY <2>2, <2>4 DEF Cut, u, s
<1>6. p' \in GptTables /\ Complete(p')
  BY <1>2, <1>5, CutType
<1>7. TypeInv'
  BY <1>1, <1>6 DEF TypeInv
<1>8. JsonOf(first)' = JsonOf(p) /\ Cut(first)' = Cut(p)
  BY <1>1, <1>2 DEF JsonOf, PredictedIn, Cut
<1>9. Complete(p)' /\ (Checked(first)' <=> Checked(first))
  BY <1>1, <1>6 DEF Complete, Checked
<1>10. TableInv'
  BY <1>1, <1>2, <1>5, <1>8, <1>9 DEF TableInv
<1>. QED BY <1>7, <1>10

LEMMA EndStep ==
  ASSUME TypeInv, TableInv, ParseFails \/ DetectFails \/ PackFails \/ UNCHANGED vars
  PROVE  TypeInv' /\ TableInv'
<1>1. UNCHANGED <<arg, text, part, p, wpdata, img, file, start, base, json, first>>
      /\ (pc' = pc \/ pc' \in {"refused", "undetected"})
  BY DEF ParseFails, DetectFails, PackFails, vars
<1>2. TypeInv'
  BY <1>1 DEF TypeInv
<1>3. /\ (Complete(p)' <=> Complete(p)) /\ (Checked(p)' <=> Checked(p)) /\ (Checked(first)' <=> Checked(first))
      /\ gpt_write(p.hdr, p.partitions)' = gpt_write(p.hdr, p.partitions)
      /\ FileOf(p)' = FileOf(p) /\ JsonOf(first)' = JsonOf(first) /\ Cut(first)' = Cut(first)
  BY <1>1 DEF Complete, Checked, gpt_write, FileOf, JsonOf, PredictedIn, Cut
<1>4. TableInv'
  BY <1>1, <1>3 DEF TableInv
<1>. QED BY <1>2, <1>4

(* The text that --reverse makes of a table.                               *)
LEMMA ListStep ==
  ASSUME TypeInv, TableInv, ListReverse
  PROVE  TypeInv' /\ TableInv' /\ p' = StartOf(arg')
<1>1. /\ pc = "detected" /\ first = NoTable /\ pc' = "parse" /\ first' = p
      /\ arg' = [first_lba |-> p.hdr.first_usable_lba,
                 part_entry_lba |-> p.hdr.partition_entry_lba,
                 num_parts |-> p.hdr.num_partition_entries,
                 disk_type_uid |-> IF SameType THEN p.partitions[1].type ELSE 0]
      /\ text' = Reversed /\ part' = 0
      /\ wpdata' = [next_lba |-> arg'.first_lba, active |-> 0, disk_type_uid |-> arg'.disk_type_uid]
      /\ UNCHANGED <<img, file, start, base, json>>
  BY DEF ListReverse
<1>2. p' = StartOf(arg')
  BY DEF ListReverse, StartOf
<1>3. p \in GptTables /\ Checked(p) /\ json = <<>>
  BY <1>1 DEF TypeInv, TableInv
<1>4. /\ p.hdr.first_usable_lba \in Nat /\ p.hdr.partition_entry_lba \in Nat /\ p.hdr.disk_guid \in Nat
      /\ p.hdr.num_partition_entries \in 0 .. GPT_MAX_NUM_PARTS
      /\ p.partitions \in Seq(Entries) /\ Len(p.partitions) > 0
  BY <1>3 DEF GptTables, Header, Checked, Complete
<1>5. arg' \in Options
  <2>1. p.partitions[1] \in Entries
    BY <1>4
  <2>2. p.partitions[1].type \in Nat
    BY <2>1 DEF Entries, Record
  <2>3. (IF SameType THEN p.partitions[1].type ELSE 0) \in Nat
    BY <2>2
  <2>. QED BY <1>1, <1>4, <2>3, Zenon DEF Options
<1>6. wpdata' \in Progress
  <2>1. arg'.first_lba \in Nat /\ arg'.disk_type_uid \in Nat /\ 0 \in 0 .. GPT_MAX_NUM_PARTS
    BY <1>5 DEF Options
  <2>. QED BY <1>1, <2>1 DEF Progress
<1>7. text' \in Seq(TextPart)
  <2>. DEFINE f == UsedEntries(p.partitions)
              N(i) == [disk |-> 0, name |-> f[i].name, bootable |-> f[i].bootable,
                       type |-> IF SameType THEN 0 ELSE -1,
                       size |-> partition_string_lba_size(SizeLba(f[i])),
                       start |-> IF i > 1 /\ f[i].start = Predicted(f, i) THEN NotGiven
                                 ELSE partition_string_lba_size(f[i].start)]
              D == [disk |-> p.hdr.disk_guid, name |-> NoName, bootable |-> FALSE, type |-> 0,
                    size |-> NotGiven, start |-> NotGiven]
  <2>1. Reversed = <<D>> \o [i \in DOMAIN f |-> N(i)]
    BY DEF Reversed
  <2>2. NotGiven \in Size /\ NoName \in Nat \cup {NoName}
    BY DEF NotGiven, Size
  <2>3. D \in TextPart
    BY <1>4, <2>2 DEF TextPart
  <2>4. ASSUME NEW i \in DOMAIN f PROVE N(i) \in TextPart
    <3>1. f[i] \in Entries
      <4>1. f \in Seq(Entries)
        BY <1>4, UsedEntriesAre
      <4>. HIDE DEF f
      <4>. QED BY <4>1
    <3>. HIDE DEF f
    <3>2. f[i].name \in Nat /\ f[i].bootable \in BOOLEAN /\ f[i].start \in Nat /\ f[i].end \in Nat /\ f[i].start <= f[i].end
      BY <3>1 DEF Entries, Record
    <3>3. SizeLba(f[i]) \in Nat
      BY <3>2 DEF SizeLba
    <3>4. partition_string_lba_size(SizeLba(f[i])) \in Size /\ partition_string_lba_size(f[i].start) \in Size
      BY <3>2, <3>3, PrintedSize
    <3>5. (IF i > 1 /\ f[i].start = Predicted(f, i) THEN NotGiven ELSE partition_string_lba_size(f[i].start)) \in Size
      BY <2>2, <3>4
    <3>6. (IF SameType THEN 0 ELSE -1) \in Int
      OBVIOUS
    <3>7. f[i].name \in Nat \cup {NoName} /\ 0 \in Nat
      BY <3>2
    <3>. QED BY <3>2, <3>4, <3>5, <3>6, <3>7, Zenon DEF TextPart
  <2>5. DOMAIN f = 1 .. UsedCount(p.partitions) /\ UsedCount(p.partitions) \in Nat
    BY <1>4, UsedEntriesAre
  <2>. HIDE DEF f, N, D
  <2>6. [i \in DOMAIN f |-> N(i)] \in Seq(TextPart) /\ <<D>> \in Seq(TextPart)
    BY <2>3, <2>4, <2>5
  <2>. QED BY <1>1, <2>1, <2>6, ConcatProperties
<1>8. part' \in 0 .. Len(text')
  BY <1>1, <1>7
<1>9. p' \in GptTables /\ p'.hdr.my_lba = 0 /\ Len(p'.partitions) = GPT_MAX_NUM_PARTS
  BY <1>2, <1>5, StartType
<1>10. TypeInv'
  BY <1>1, <1>3, <1>5, <1>6, <1>7, <1>8, <1>9 DEF TypeInv
<1>11. Checked(first)'
  BY <1>1, <1>3 DEF Checked, Complete
<1>12. TableInv'
  BY <1>1, <1>3, <1>9, <1>11 DEF TableInv
<1>. QED BY <1>2, <1>10, <1>12

LEMMA TableStep == TypeInv /\ TableInv /\ [Next]_vars => TypeInv' /\ TableInv'
BY ParseStep, WriteStep, OpenStep, DetectStep, UnpackStep, PackStep, EndStep, ListStep DEF Next

LEMMA Tables == Spec => [](TypeInv /\ TableInv)
BY InitTypes, TableStep, PTL DEF Spec

(* Whatever text, options and place: the entries never outgrow the table,  *)
(* a partition never ends before it starts, and the next one never starts  *)
(* before block 0 (gpt_parse_part).                                        *)
THEOREM TypeCorrect == Spec => []TypeOK
<1>1. TypeInv => TypeOK
  <2>. SUFFICES ASSUME TypeInv PROVE TypeOK
    OBVIOUS
  <2>1. wpdata.active \in 0 .. GPT_MAX_NUM_PARTS /\ wpdata.next_lba \in Nat
    BY DEF TypeInv, Progress
  <2>2. p.hdr.num_partition_entries \in 0 .. GPT_MAX_NUM_PARTS /\ p.partitions \in Seq(Entries)
    BY DEF TypeInv, GptTables, Header
  <2>3. \A i \in DOMAIN p.partitions : p.partitions[i] \in Entries
    BY <2>2
  <2>4. \A i \in DOMAIN p.partitions :
          p.partitions[i].is = "entry" /\ p.partitions[i].start <= p.partitions[i].end
    BY <2>3 DEF Entries, Record
  <2>. QED BY <2>1, <2>2, <2>4 DEF TypeInv, TypeOK
<1>. QED BY <1>1, Tables, PTL

-----------------------------------------------------------------------------
(* A table is detected unless its header lies among its entries, or these  *)
(* beyond 4 GiB, and it is the one whose image is in the file.             *)
LEMMA FoundStep ==
  TypeInv /\ TableInv /\ DetectFindsTable /\ [Next]_vars => DetectFindsTable'
<1>. SUFFICES ASSUME TypeInv, TableInv, DetectFindsTable, [Next]_vars PROVE DetectFindsTable'
  OBVIOUS
<1>1. TableInv'
  BY TableStep
<1>2. pc' = "detected" => WriteAt(<<>>, base', gpt_write(p'.hdr, p'.partitions), Nothing) = file'
  BY <1>1 DEF TableInv, FileOf, gpt_write
<1>3. ASSUME pc' = "undetected" PROVE ~Clean'
  <2>1. CASE pc = "undetected" /\ UNCHANGED p
    BY <2>1 DEF DetectFindsTable, Clean
  <2>2. CASE DetectFails
    <3>1. pc = "detect" /\ (GoodOffset = {} \/ GoodCandidates = {}) /\ UNCHANGED p
      BY <2>2 DEF DetectFails
    <3>2. p \in GptTables /\ Complete(p) /\ base \in Nat /\ start \in {base, base + 1} /\ file = FileOf(p)
      BY <3>1 DEF TypeInv, TableInv
    <3>3. GoodOffset # {} /\ (~InTheWay(p.hdr) /\ Below4G(p.hdr) => GoodCandidates # {})
      BY <3>2, HeaderFound, EntriesFound
    <3>4. ~(~InTheWay(p.hdr) /\ Below4G(p.hdr))
      BY <3>1, <3>3
    <3>. QED BY <3>1, <3>4, Zenon DEF Clean, InTheWay, Below4G
  <2>3. CASE Next /\ ~DetectFails
    BY <1>3, <2>3 DEF Next, ParsePart, ParseFails, Write, Open, Detect, Unpack, Pack, PackFails, ListReverse, TypeInv
  <2>4. CASE UNCHANGED vars
    BY <1>3, <2>1, <2>4 DEF vars
  <2>. QED BY <2>2, <2>3, <2>4
<1>. QED BY <1>2, <1>3 DEF DetectFindsTable

(* gpt_detect finds a table wherever its image lies in a file, through a   *)
(* window at the image or at its header, for any size of the entries and   *)
(* any place below 4 GiB that is not over the header, where the seek of    *)
(* gpt_write takes them; and wherever it finds one, it is that table.      *)
THEOREM TableIsFound == Spec => []DetectFindsTable
<1>1. Init => DetectFindsTable
  BY DEF Init, DetectFindsTable
<1>. QED BY <1>1, Tables, FoundStep, PTL DEF Spec

-----------------------------------------------------------------------------
(* A table is made once more.  All partitions of the first one have the    *)
(* type that its options gave.                                             *)
Used == UsedCount(first.partitions)
OfType(table, t) ==
  \A i \in 1 .. Len(table.partitions) :
    table.partitions[i] = Nothing \/ table.partitions[i].type = t
OneType(table) == \E t \in Nat : OfType(table, t)

OneTypeInv ==
  /\ pc = "parse" /\ first = NoTable => OfType(p, wpdata.disk_type_uid)
  /\ pc \in {"written", "detect", "detected"} /\ first = NoTable => OneType(p)
  /\ first # NoTable => OneType(first)

(* The text has the disk and then the partitions of the first table; what  *)
(* was read of it made the same partitions.                                *)
PrintedStart(table, i) ==
  IF i > 1 /\ table.partitions[i].start = PredictedIn(table, i) THEN NotGiven
  ELSE partition_string_lba_size(table.partitions[i].start)
TextOf(table, t) ==
  /\ Len(t) = UsedCount(table.partitions) + 1
  /\ t[1].disk = table.hdr.disk_guid /\ table.hdr.disk_guid # 0
  /\ \A i \in 1 .. UsedCount(table.partitions) :
       LET e == table.partitions[i]
       IN /\ t[i + 1].disk = 0 /\ t[i + 1].name = e.name /\ t[i + 1].bootable = e.bootable
          /\ t[i + 1].size = partition_string_lba_size(SizeLba(e))
          /\ t[i + 1].start = PrintedStart(table, i)

Exact(table) ==
  LET entries == UsedEntries(table.partitions)
  IN \A i \in DOMAIN entries : Representable(entries[i].start) /\ Representable(SizeLba(entries[i]))

Remade ==
  /\ wpdata.active = IF part = 0 THEN 0 ELSE part - 1
  /\ wpdata.next_lba = IF wpdata.active = 0 THEN first.hdr.first_usable_lba
                       ELSE first.partitions[wpdata.active].end + 1
  /\ \A i \in 1 .. GPT_MAX_NUM_PARTS :
       p.partitions[i] = IF i <= wpdata.active THEN first.partitions[i] ELSE Nothing

AgainInv ==
  pc = "parse" /\ first # NoTable /\ Used # 0 /\ Fits(text) =>
    /\ TextOf(first, text)
    /\ p.hdr = [first.hdr EXCEPT !.my_lba = 0, !.crc = <<>>, !.disk_guid = IF part = 0 THEN 0 ELSE @]
    /\ \A i \in 1 .. Used : first.partitions[i].type = wpdata.disk_type_uid
    /\ Exact(first) => Remade

(* What is printed in whole units is read as it was.                       *)
LEMMA PrintedExactly ==
  ASSUME NEW lba \in Nat, Representable(lba)
  PROVE  /\ partition_string_lba_size(lba) # NotGiven
         /\ to_partition_lba_size(partition_string_lba_size(lba)) = lba
<1>. DEFINE s == partition_string_lba_size(lba)
<1>0. s.unit = "K" \/ s.unit = "M" \/ s.unit = "G"
  BY DEF Representable, partition_string_lba_size
<1>1. s.unit = "K" => s.n = lba \div 2 /\ lba % 2 = 0
  BY DEF Representable, partition_string_lba_size
<1>2. /\ s.unit = "M" => s.n = lba \div Mega /\ lba % Mega = 0
      /\ s.unit = "G" => s.n = lba \div Giga /\ lba % Giga = 0
  BY DEF Representable, partition_string_lba_size
<1>. HIDE DEF s
<1>3. \A b \in Nat \ {0} : lba % b = 0 => lba = b * (lba \div b) /\ lba \div b \in Int
  BY Quotient
<1>4. s # NotGiven
  <2>1. NotGiven.unit = "none"
    BY DEF NotGiven
  <2>2. "none" # "K" /\ "none" # "M" /\ "none" # "G"
    OBVIOUS
  <2>. QED BY <1>0, <2>1, <2>2, Zenon
<1>5. CASE s.unit = "K"
  <2>1. to_partition_lba_size(s) = s.n * 2
    BY <1>5 DEF to_partition_lba_size
  <2>2. lba = 2 * (lba \div 2)
    BY <1>1, <1>3, <1>5
  <2>. QED BY <1>1, <1>4, <1>5, <2>1, <2>2 DEF s
<1>6. CASE s.unit = "M"
  <2>1. to_partition_lba_size(s) = s.n * Mega
    BY <1>6 DEF to_partition_lba_size
  <2>2. lba = Mega * (lba \div Mega) /\ lba \div Mega \in Int
    BY <1>2, <1>3, <1>6
  <2>3. (lba \div Mega) * Mega = Mega * (lba \div Mega)
    BY <2>2
  <2>. QED BY <1>2, <1>4, <1>6, <2>1, <2>2, <2>3 DEF s
<1>7. CASE s.unit = "G"
  <2>1. to_partition_lba_size(s) = s.n * Giga
    BY <1>7 DEF to_partition_lba_size
  <2>2. lba = Giga * (lba \div Giga) /\ lba \div Giga \in Int
    BY <1>2, <1>3, <1>7
  <2>3. (lba \div Giga) * Giga = Giga * (lba \div Giga)
    BY <2>2
  <2>4. s.n = lba \div Giga
    BY <1>2, <1>7
  <2>5. s.n * Giga = lba
    BY <2>2, <2>3, <2>4, Zenon
  <2>6. to_partition_lba_size(s) = lba
    BY <2>1, <2>5, Zenon
  <2>. QED BY <1>4, <2>6, Zenon DEF s
<1>. QED BY <1>0, <1>5, <1>6, <1>7, Zenon

(* The first table, while the second is made.                              *)
LEMMA FirstIs ==
  ASSUME TypeInv, TableInv, first # NoTable
  PROVE  /\ first \in GptTables /\ Checked(first) /\ Used \in 0 .. GPT_MAX_NUM_PARTS
         /\ Used <= Len(first.partitions) /\ Len(first.partitions) = first.hdr.num_partition_entries
         /\ \A i \in 1 .. Used : /\ first.partitions[i] \in Entries /\ first.partitions[i] # Nothing
                                 /\ UsedEntries(first.partitions)[i] = first.partitions[i]
         /\ Exact(first) => \A i \in 1 .. Used : /\ Representable(first.partitions[i].start)
                                                 /\ Representable(SizeLba(first.partitions[i]))
<1>1. first \in GptTables /\ Checked(first)
  BY DEF TypeInv, TableInv
<1>2. /\ UsedCount(first.partitions) \in 0 .. Len(first.partitions)
      /\ DOMAIN UsedEntries(first.partitions) = 1 .. Used
      /\ \A i \in 1 .. Used : /\ UsedEntries(first.partitions)[i] = first.partitions[i]
                              /\ first.partitions[i] \in Entries /\ first.partitions[i] # Nothing
  BY <1>1, UsedEntriesAre DEF GptTables, Used
<1>3. Len(first.partitions) = first.hdr.num_partition_entries /\ first.hdr.num_partition_entries \in 0 .. GPT_MAX_NUM_PARTS
  BY <1>1 DEF Checked, GptTables, Header
<1>4. Used \in 0 .. GPT_MAX_NUM_PARTS /\ Used <= Len(first.partitions)
  BY <1>2, <1>3 DEF Used
<1>. QED BY <1>1, <1>2, <1>3, <1>4 DEF Exact

(* The part of the text that is read next: the disk, or a partition, and   *)
(* what is read of it where it was printed exactly.                        *)
LEMMA PartIs ==
  ASSUME TypeInv, TableInv, TextOf(first, text), first # NoTable, part < Len(text)
  PROVE  /\ part \in 0 .. Used
         /\ part = 0 => Now.disk # 0 /\ Now.disk = first.hdr.disk_guid
         /\ part # 0 => LET e == first.partitions[part]
                        IN /\ part \in 1 .. Used /\ Now.disk = 0 /\ Now.name = e.name
                           /\ Now.bootable = e.bootable
                           /\ Now.size = partition_string_lba_size(SizeLba(e))
                           /\ Now.start = PrintedStart(first, part)
<1>1. part \in 0 .. Len(text) /\ Len(text) = Used + 1 /\ Used \in 0 .. GPT_MAX_NUM_PARTS
  BY FirstIs DEF TypeInv, TextOf, Used
<1>2. part \in 0 .. Used
  BY <1>1
<1>3. part = 0 => Now.disk # 0 /\ Now.disk = first.hdr.disk_guid
  <2>1. part = 0 => part + 1 = 1
    OBVIOUS
  <2>. QED BY <2>1 DEF Now, TextOf
<1>4. ASSUME part # 0
      PROVE  LET e == first.partitions[part]
             IN /\ part \in 1 .. Used /\ Now.disk = 0 /\ Now.name = e.name
                /\ Now.bootable = e.bootable
                /\ Now.size = partition_string_lba_size(SizeLba(e))
                /\ Now.start = PrintedStart(first, part)
  <2>1. part \in 1 .. Used
    BY <1>2, <1>4
  <2>. QED BY <2>1 DEF Now, TextOf, Used
<1>. QED BY <1>2, <1>3, <1>4

LEMMA ReadAgain ==
  ASSUME TypeInv, TableInv, AgainInv, pc = "parse", first # NoTable, Used # 0, part < Len(text),
         Exact(first), Fits(text)
  PROVE  /\ wpdata.active = IF part = 0 THEN 0 ELSE part - 1
         /\ part # 0 => LbaStart(Now) = first.partitions[part].start /\ LbaSize(Now) = SizeLba(first.partitions[part])
         /\ ~PartFails(Now)
<1>1. TextOf(first, text) /\ Remade
  BY DEF AgainInv
<1>2. part \in 0 .. Used /\ Used \in 0 .. GPT_MAX_NUM_PARTS
  BY <1>1, FirstIs, PartIs
<1>3. wpdata.active = IF part = 0 THEN 0 ELSE part - 1
  BY <1>1 DEF Remade
<1>4. ~TooMuch
  BY <1>2, <1>3 DEF TooMuch
<1>5. CASE part = 0
  BY <1>1, <1>3, <1>4, <1>5, PartIs DEF PartFails
<1>6. CASE part # 0
  <2>1. part \in 1 .. Used /\ part - 1 \in Nat /\ wpdata.active = part - 1
    BY <1>2, <1>3, <1>6
  <2>. DEFINE e == first.partitions[part]
  <2>2. /\ Now.size = partition_string_lba_size(SizeLba(e))
        /\ Now.start = PrintedStart(first, part)
    BY <1>1, <1>6, PartIs
  <2>3. e \in Entries /\ Representable(e.start) /\ Representable(SizeLba(e))
    BY <2>1, FirstIs
  <2>4. e.start \in Nat /\ SizeLba(e) \in Nat /\ SizeLba(e) > 0
    BY <2>3 DEF Entries, Record, SizeLba
  <2>5. LbaSize(Now) = SizeLba(e)
    BY <2>2, <2>3, <2>4, PrintedExactly DEF LbaSize, Blocks
  <2>6. LbaStart(Now) = e.start
    <3>1. CASE part > 1 /\ e.start = PredictedIn(first, part)
      <4>1. LbaStart(Now) = wpdata.next_lba
        BY <2>2, <3>1 DEF LbaStart, Blocks, PrintedStart
      <4>2. wpdata.active # 0 /\ wpdata.next_lba = first.partitions[part - 1].end + 1
        BY <1>1, <2>1, <3>1 DEF Remade
      <4>3. PredictedIn(first, part) = UsedEntries(first.partitions)[part - 1].end + 1
        BY <3>1 DEF PredictedIn
      <4>4. part - 1 \in 1 .. Used
        BY <1>2, <2>1, <3>1
      <4>5. UsedEntries(first.partitions)[part - 1] = first.partitions[part - 1]
        BY <4>4, FirstIs
      <4>. QED BY <3>1, <4>1, <4>2, <4>3, <4>5
    <3>2. CASE ~(part > 1 /\ e.start = PredictedIn(first, part))
      <4>1. Now.start = partition_string_lba_size(e.start)
        BY <2>2, <3>2 DEF PrintedStart
      <4>. HIDE DEF e
      <4>. QED BY <2>3, <2>4, <4>1, PrintedExactly DEF LbaStart, Blocks
    <3>. QED BY <3>1, <3>2
  <2>7. ~PartFails(Now)
    BY <1>4, <2>4, <2>5, <2>6 DEF PartFails
  <2>. QED BY <1>3, <2>5, <2>6, <2>7
<1>. QED BY <1>5, <1>6

-----------------------------------------------------------------------------
(* All partitions of the first table have one type, so that --reverse does *)
(* not print it.                                                           *)
LEMMA SomeTable == ASSUME NEW table, Checked(table) PROVE table # NoTable
BY DEF Checked, Complete, NoTable, NoHeader

LEMMA OneTypeStep ==
  TypeInv /\ TableInv /\ OneTypeInv /\ [Next]_vars => OneTypeInv'
<1>. SUFFICES ASSUME TypeInv, TableInv, OneTypeInv, [Next]_vars PROVE OneTypeInv'
  OBVIOUS
<1>1. CASE ParsePart
  <2>1. pc = "parse" /\ UNCHANGED <<pc, first>>
    BY <1>1 DEF ParsePart
  <2>0. PICK spec \in Readings : ~PartFails(spec) /\ gpt_parse_part(spec) /\ MoreParts
    BY <1>1 DEF ParsePart
  <2>2. ASSUME first = NoTable PROVE OfType(p', wpdata'.disk_type_uid)
    <3>1. OfType(p, wpdata.disk_type_uid)
      BY <2>1, <2>2 DEF OneTypeInv
    <3>2. CASE spec.disk # 0
      <4>1. p'.partitions = p.partitions /\ wpdata' = wpdata
        BY <2>0, <2>1, <3>2, ParseIs
      <4>. QED BY <3>1, <4>1 DEF OfType
    <3>3. CASE spec.disk = 0
      <4>1. p'.partitions = [p.partitions EXCEPT ![Next1] = ParsedEntry(spec)]
            /\ wpdata'.disk_type_uid = wpdata.disk_type_uid
        BY <2>0, <2>1, <3>3, ParseIs
      <4>2. ParsedEntry(spec).type = wpdata.disk_type_uid
        BY DEF ParsedEntry
      <4>3. p.partitions \in Seq(Entries)
        BY DEF TypeInv, GptTables
      <4>4. Len(p'.partitions) = Len(p.partitions)
        BY <4>1, <4>3
      <4>5. ASSUME NEW i \in 1 .. Len(p.partitions)
            PROVE  p'.partitions[i] = p.partitions[i] \/ p'.partitions[i] = ParsedEntry(spec)
        BY <4>1, <4>3
      <4>. QED BY <3>1, <4>1, <4>2, <4>4, <4>5 DEF OfType
    <3>. QED BY <3>2, <3>3
  <2>. QED BY <2>1, <2>2 DEF OneTypeInv, OneType, OfType
<1>2. CASE Write
  <2>1. pc \in {"parse", "pack"} /\ pc' = "written" /\ UNCHANGED <<wpdata, first>>
    BY <1>2 DEF Write
  <2>2. ASSUME first = NoTable PROVE OneType(p')
    <3>1. pc = "parse"
      BY <2>1, <2>2 DEF TableInv
    <3>2. OfType(p, wpdata.disk_type_uid)
      BY <2>2, <3>1 DEF OneTypeInv
    <3>3. p'.partitions = p.partitions /\ wpdata.disk_type_uid \in Nat
      <4>1. p' = [hdr |-> WithDefaults(p.hdr), partitions |-> p.partitions]
        BY <1>2, WriteStep, Zenon
      <4>2. p'.partitions = p.partitions
        BY <4>1, Zenon
      <4>3. wpdata \in Progress
        BY Zenon DEF TypeInv
      <4>. QED BY <4>2, <4>3 DEF Progress
    <3>. DEFINE t == wpdata.disk_type_uid
    <3>4. OfType(p', t)
      BY <3>2, <3>3 DEF OfType
    <3>. HIDE DEF t
    <3>. QED BY <3>3, <3>4 DEF OneType, t
  <2>. QED BY <2>1, <2>2 DEF OneTypeInv, OneType, OfType
<1>3. CASE Open
  BY <1>3 DEF Open, OneTypeInv, OneType, OfType
<1>4. CASE Detect
  <2>1. pc = "detect" /\ pc' = "detected" /\ UNCHANGED first /\ p \in GptTables /\ Complete(p)
    BY <1>4 DEF Detect, TypeInv, TableInv
  <2>2. ASSUME first = NoTable PROVE OneType(p')
    <3>1. PICK t \in Nat : OfType(p, t)
      BY <2>1, <2>2 DEF OneTypeInv, OneType
    <3>. DEFINE n == p.hdr.num_partition_entries
                e == SubSeq(p.partitions, 1, n)
    <3>2. e \in Seq(Entries) /\ Len(e) = n /\ \A k \in 1 .. n : e[k] = p.partitions[k]
      BY <2>1, FirstEntries
    <3>3. p'.partitions = e
      BY <1>4, DetectIs DEF ReadBack
    <3>4. n \in Nat /\ n <= Len(p.partitions) /\ Len(p.partitions) \in Nat
      BY <2>1 DEF Complete, GptTables, Header
    <3>. HIDE DEF n, e
    <3>5. \A k \in 1 .. n : k \in 1 .. Len(p.partitions)
      BY <3>4
    <3>6. OfType(p', t)
      BY <3>1, <3>2, <3>3, <3>5 DEF OfType
    <3>. QED BY <3>6 DEF OneType
  <2>. QED BY <2>1, <2>2 DEF OneTypeInv, OneType, OfType
<1>5. CASE Unpack \/ ListReverse
  <2>1. pc = "detected" /\ first = NoTable /\ first' = p /\ pc' \in {"json", "parse"}
    BY <1>5 DEF Unpack, ListReverse
  <2>2. p # NoTable
    BY <2>1, SomeTable DEF TableInv
  <2>. QED BY <2>1, <2>2 DEF OneTypeInv, OneType, OfType
<1>6. CASE Pack
  <2>1. first # NoTable /\ UNCHANGED first
    BY <1>6 DEF Pack, TableInv
  <2>. QED BY <2>1 DEF OneTypeInv, OneType, OfType
<1>7. CASE ParseFails \/ DetectFails \/ PackFails \/ UNCHANGED vars
  <2>1. UNCHANGED <<p, wpdata, first>> /\ (pc' = pc \/ pc' \in {"refused", "undetected"})
    BY <1>7 DEF ParseFails, DetectFails, PackFails, vars
  <2>. QED BY <2>1 DEF OneTypeInv, OneType, OfType
<1>. QED BY <1>1, <1>2, <1>3, <1>4, <1>5, <1>6, <1>7 DEF Next

LEMMA OneTypeHolds == Spec => []OneTypeInv
<1>1. Init => OneTypeInv
  <2>. SUFFICES ASSUME Init PROVE OfType(p, wpdata.disk_type_uid)
    BY DEF Init, OneTypeInv
  <2>1. p.partitions = [i \in 1 .. GPT_MAX_NUM_PARTS |-> Nothing]
    BY DEF Init
  <2>. QED BY <2>1, EmptyTable DEF OfType
<1>. QED BY <1>1, OneTypeStep, Tables, PTL DEF Spec

-----------------------------------------------------------------------------
(* The text of --reverse is that of the table, and its options leave the   *)
(* table as it was before its partitions.                                  *)
LEMMA ReversedIs ==
  ASSUME p \in GptTables, p.hdr.disk_guid # 0
  PROVE  TextOf(p, Reversed)
<1>. DEFINE f == UsedEntries(p.partitions)
            u == UsedCount(p.partitions)
            N(i) == [disk |-> 0, name |-> f[i].name, bootable |-> f[i].bootable,
                     type |-> IF SameType THEN 0 ELSE -1,
                     size |-> partition_string_lba_size(SizeLba(f[i])),
                     start |-> IF i > 1 /\ f[i].start = Predicted(f, i) THEN NotGiven
                               ELSE partition_string_lba_size(f[i].start)]
            D == [disk |-> p.hdr.disk_guid, name |-> NoName, bootable |-> FALSE, type |-> 0,
                  size |-> NotGiven, start |-> NotGiven]
            s == [i \in 1 .. u |-> N(i)]
<1>1. DOMAIN f = 1 .. u /\ u \in Nat /\ \A i \in 1 .. u : f[i] = p.partitions[i]
  BY UsedEntriesAre DEF GptTables
<1>2. Reversed = <<D>> \o s
  BY <1>1 DEF Reversed
<1>3. \A i \in 1 .. u : /\ N(i).disk = 0 /\ N(i).name = p.partitions[i].name
                        /\ N(i).bootable = p.partitions[i].bootable
                        /\ N(i).size = partition_string_lba_size(SizeLba(p.partitions[i]))
                        /\ N(i).start = PrintedStart(p, i)
  <2>. TAKE i \in 1 .. u
  <2>1. f[i] = p.partitions[i] /\ Predicted(f, i) = PredictedIn(p, i)
    BY <1>1 DEF Predicted, PredictedIn
  <2>. HIDE DEF f
  <2>. QED BY <2>1 DEF PrintedStart
<1>. HIDE DEF N, f, u
<1>4. s \in Seq({N(i) : i \in 1 .. u}) /\ Len(s) = u /\ \A i \in 1 .. u : s[i] = N(i)
  BY <1>1
<1>5. D.disk = p.hdr.disk_guid
  OBVIOUS
<1>. HIDE DEF s, D
<1>6. /\ Len(<<D>> \o s) = u + 1 /\ (<<D>> \o s)[1] = D
      /\ \A i \in 1 .. u : (<<D>> \o s)[i + 1] = s[i]
  <2>. DEFINE T == {N(i) : i \in 1 .. u} \cup {D}
  <2>1. <<D>> \in Seq(T) /\ s \in Seq(T) /\ Len(<<D>>) = 1 /\ <<D>>[1] = D
    BY <1>4
  <2>. HIDE DEF T
  <2>. QED BY <1>1, <1>4, <2>1
<1>. QED BY <1>2, <1>3, <1>4, <1>5, <1>6 DEF TextOf, u

LEMMA ListedAgain ==
  ASSUME TypeInv, TableInv, OneTypeInv, ListReverse
  PROVE  AgainInv'
<1>1. /\ pc = "detected" /\ first = NoTable /\ pc' = "parse" /\ first' = p /\ p.hdr.disk_guid # 0
      /\ arg' = [first_lba |-> p.hdr.first_usable_lba,
                 part_entry_lba |-> p.hdr.partition_entry_lba,
                 num_parts |-> p.hdr.num_partition_entries,
                 disk_type_uid |-> IF SameType THEN p.partitions[1].type ELSE 0]
      /\ text' = Reversed /\ part' = 0
      /\ wpdata' = [next_lba |-> arg'.first_lba, active |-> 0, disk_type_uid |-> arg'.disk_type_uid]
  BY DEF ListReverse
<1>2. p \in GptTables /\ p.hdr \in Header
  BY DEF TypeInv, GptTables
<1>3. p' = StartOf(arg')
  BY ListStep
<1>. SUFFICES ASSUME UsedCount(p.partitions) # 0 PROVE AgainInv'
  BY <1>1 DEF AgainInv, Used
<1>4. TextOf(first', text')
  BY <1>1, <1>2, ReversedIs
<1>5. p'.hdr = [first'.hdr EXCEPT !.my_lba = 0, !.crc = <<>>, !.disk_guid = 0]
  <2>1. p'.hdr = [NoHeader EXCEPT !.partition_entry_lba = p.hdr.partition_entry_lba,
                                  !.num_partition_entries = p.hdr.num_partition_entries,
                                  !.first_usable_lba = p.hdr.first_usable_lba]
    BY <1>1, <1>3 DEF StartOf
  <2>. DEFINE h == p.hdr
              r == [is |-> "header", my_lba |-> 0, partition_entry_lba |-> h.partition_entry_lba,
                    num_partition_entries |-> h.num_partition_entries,
                    first_usable_lba |-> h.first_usable_lba, disk_guid |-> 0, crc |-> <<>>]
  <2>2. p'.hdr = r
    BY <2>1 DEF NoHeader
  <2>. DEFINE x == [h EXCEPT !.my_lba = 0, !.crc = <<>>, !.disk_guid = 0]
  <2>3. <<>> \in Seq(Entries)
    OBVIOUS
  <2>. HIDE DEF h
  <2>4. x = r
    <3>1. x \in Header
      BY <1>2, <2>3 DEF Header, h
    <3>2. /\ x.my_lba = 0 /\ x.partition_entry_lba = h.partition_entry_lba
          /\ x.num_partition_entries = h.num_partition_entries
          /\ x.first_usable_lba = h.first_usable_lba /\ x.disk_guid = 0 /\ x.crc = <<>>
      BY <1>2 DEF Header, h
    <3>. HIDE DEF x
    <3>3. x = [is |-> "header", my_lba |-> x.my_lba, partition_entry_lba |-> x.partition_entry_lba,
               num_partition_entries |-> x.num_partition_entries,
               first_usable_lba |-> x.first_usable_lba, disk_guid |-> x.disk_guid, crc |-> x.crc]
      BY <3>1 DEF Header
    <3>. QED BY <3>2, <3>3
  <2>. QED BY <1>1, <2>2, <2>4 DEF h
<1>6. \A i \in 1 .. UsedCount(p.partitions) : p.partitions[i].type = wpdata'.disk_type_uid
  <2>. DEFINE u == UsedCount(p.partitions)
  <2>1. u \in Nat /\ u # 0 /\ u <= Len(p.partitions) /\ \A i \in 1 .. u : p.partitions[i] # Nothing
    BY <1>2, UsedEntriesAre DEF GptTables
  <2>2. PICK t \in Nat : OfType(p, t)
    BY <1>1 DEF OneTypeInv, OneType
  <2>3. \A i \in 1 .. u : p.partitions[i].type = t
    <3>1. Len(p.partitions) \in Nat
      BY <1>2 DEF GptTables
    <3>. HIDE DEF u
    <3>2. \A i \in 1 .. u : i \in 1 .. Len(p.partitions)
      BY <2>1, <3>1
    <3>. QED BY <2>1, <2>2, <3>2 DEF OfType
  <2>4. 1 \in 1 .. u
    BY <2>1
  <2>5. SameType
    <3>. SUFFICES ASSUME NEW i \in DOMAIN p.partitions, \A k \in 1 .. i : p.partitions[k].end # 0
                  PROVE  p.partitions[i].type = p.partitions[1].type
      BY DEF SameType
    <3>1. i \in 1 .. Len(p.partitions) /\ i \in 1 .. i
      BY <1>2 DEF GptTables
    <3>2. p.partitions[i] # Nothing
      BY <3>1 DEF Nothing
    <3>. QED BY <2>2, <2>3, <2>4, <3>1, <3>2 DEF OfType
  <2>6. wpdata'.disk_type_uid = p.partitions[1].type
    BY <1>1, <2>5
  <2>. QED BY <2>3, <2>4, <2>6
<1>7. Remade'
  <2>1. p'.partitions = [i \in 1 .. GPT_MAX_NUM_PARTS |-> Nothing]
    BY <1>3 DEF StartOf
  <2>2. wpdata'.active = 0 /\ wpdata'.next_lba = first'.hdr.first_usable_lba
    BY <1>1
  <2>. QED BY <1>1, <2>1, <2>2 DEF Remade
<1>. QED BY <1>1, <1>4, <1>5, <1>6, <1>7 DEF AgainInv, Used

(* Every part that is read makes the next partition of the first table.    *)
LEMMA ParsedAgain ==
  ASSUME TypeInv, TableInv, AgainInv, ParsePart
  PROVE  AgainInv'
<1>1. pc = "parse" /\ part < Len(text) /\ part' = part + 1 /\ UNCHANGED <<pc, text, first>>
  BY DEF ParsePart, MoreParts
<1>8. (pc = "parse")' /\ (first # NoTable)' /\ (Used # 0)' /\ Fits(text)' =>
        first # NoTable /\ Used # 0 /\ Fits(text)
  BY <1>1 DEF Used
<1>. SUFFICES ASSUME first # NoTable, Used # 0, Fits(text) PROVE AgainInv'
  BY <1>8 DEF AgainInv
<1>0. MoreParts /\ Now \in Readings /\ ~PartFails(Now) /\ gpt_parse_part(Now)
  <2>1. part + 1 \in DOMAIN text
    BY <1>1 DEF TypeInv
  <2>. QED BY <2>1, WholePart DEF Fits
<1>2. /\ TextOf(first, text)
      /\ p.hdr = [first.hdr EXCEPT !.my_lba = 0, !.crc = <<>>, !.disk_guid = IF part = 0 THEN 0 ELSE @]
      /\ \A i \in 1 .. Used : first.partitions[i].type = wpdata.disk_type_uid
      /\ Exact(first) => Remade
  BY <1>1 DEF AgainInv
<1>3. part \in 0 .. Used /\ Used \in 0 .. GPT_MAX_NUM_PARTS
  BY <1>1, <1>2, FirstIs, PartIs
<1>4. wpdata'.disk_type_uid = wpdata.disk_type_uid
  BY <1>0, <1>1, ParseIs
<1>5. first.hdr \in Header /\ p.partitions \in Seq(Entries) /\ Len(p.partitions) = GPT_MAX_NUM_PARTS
  BY <1>1 DEF TypeInv, TableInv, GptTables
<1>6. CASE part = 0
  <2>1. p' = [hdr |-> [p.hdr EXCEPT !.disk_guid = Now.disk], partitions |-> p.partitions] /\ wpdata' = wpdata
        /\ Now.disk = first.hdr.disk_guid
    BY <1>0, <1>1, <1>2, <1>6, ParseIs, PartIs
  <2>2. p'.hdr = [first.hdr EXCEPT !.my_lba = 0, !.crc = <<>>, !.disk_guid = IF part' = 0 THEN 0 ELSE @]
    <3>. DEFINE h == first.hdr
    <3>1. h = [is |-> "header", my_lba |-> h.my_lba, partition_entry_lba |-> h.partition_entry_lba,
               num_partition_entries |-> h.num_partition_entries,
               first_usable_lba |-> h.first_usable_lba, disk_guid |-> h.disk_guid, crc |-> h.crc]
      BY <1>5 DEF Header
    <3>2. p.hdr = [h EXCEPT !.my_lba = 0, !.crc = <<>>, !.disk_guid = 0]
      BY <1>2, <1>6
    <3>3. p'.hdr = [p.hdr EXCEPT !.disk_guid = h.disk_guid]
      BY <2>1
    <3>. HIDE DEF h
    <3>4. p'.hdr = [h EXCEPT !.my_lba = 0, !.crc = <<>>]
      BY <3>1, <3>2, <3>3
    <3>5. [h EXCEPT !.my_lba = 0, !.crc = <<>>, !.disk_guid = IF part' = 0 THEN 0 ELSE @]
          = [h EXCEPT !.my_lba = 0, !.crc = <<>>]
      <4>1. part' # 0
        BY <1>1, <1>6
      <4>. QED BY <3>1, <4>1
    <3>. QED BY <3>4, <3>5 DEF h
  <2>3. Exact(first) => Remade'
    BY <1>1, <1>2, <1>6, <2>1 DEF Remade
  <2>. QED BY <1>1, <1>2, <1>4, <2>2, <2>3 DEF AgainInv, Used
<1>7. CASE part # 0
  <2>1. part \in 1 .. Used /\ Now.disk = 0
    BY <1>1, <1>2, <1>7, PartIs
  <2>. DEFINE e == first.partitions[part]
  <2>2. /\ p' = [hdr |-> p.hdr, partitions |-> [p.partitions EXCEPT ![Next1] = ParsedEntry(Now)]]
        /\ wpdata' = [next_lba |-> LbaStart(Now) + LbaSize(Now),
                      active |-> IF Now.name # NoName THEN Next1 ELSE wpdata.active,
                      disk_type_uid |-> wpdata.disk_type_uid]
    BY <1>0, <1>1, <2>1, ParseIs
  <2>3. p'.hdr = [first.hdr EXCEPT !.my_lba = 0, !.crc = <<>>, !.disk_guid = IF part' = 0 THEN 0 ELSE @]
    <3>1. part' # 0
      BY <1>1, <1>3
    <3>. QED BY <1>2, <1>7, <2>2, <3>1
  <2>4. ASSUME Exact(first) PROVE Remade'
    <3>1. Remade /\ wpdata.active = part - 1 /\ LbaStart(Now) = e.start /\ LbaSize(Now) = SizeLba(e)
      BY <1>1, <1>2, <1>7, <2>4, ReadAgain
    <3>2. e \in Entries
      BY <2>1, FirstIs
    <3>3. /\ e \in Record /\ e.name \in Nat /\ e.start \in Nat /\ e.end \in Nat /\ e.bootable \in BOOLEAN
      BY <3>2 DEF Entries, Record
    <3>4. Now.name = e.name /\ Now.bootable = e.bootable
      BY <1>1, <1>2, <1>7, PartIs
    <3>5. Next1 = part /\ part \in 1 .. GPT_MAX_NUM_PARTS
      BY <1>3, <2>1, <3>1 DEF Next1
    <3>6. p.partitions[part] = Nothing
      <4>1. ~(part <= wpdata.active)
        BY <2>1, <3>1
      <4>. QED BY <3>1, <3>5, <4>1 DEF Remade
    <3>7. Now.name # NoName
      BY <3>3, <3>4 DEF NoName
    <3>8. LbaStart(Now) + LbaSize(Now) = e.end + 1 /\ LbaStart(Now) + LbaSize(Now) - 1 = e.end
      <4>. HIDE DEF e
      <4>. QED BY <3>1, <3>3 DEF SizeLba
    <3>9. ParsedEntry(Now) = e
      <4>1. p.partitions[Next1].bootable = FALSE
        BY <3>5, <3>6 DEF Nothing
      <4>2. (Now.bootable \/ p.partitions[Next1].bootable) = e.bootable
        BY <3>3, <3>4, <4>1, Zenon
      <4>3. wpdata.disk_type_uid = e.type
        BY <1>2, <2>1
      <4>4. (IF Now.name # NoName THEN Now.name ELSE p.partitions[Next1].name) = e.name
        BY <3>4, <3>7
      <4>5. ParsedEntry(Now) = [is |-> "entry", name |-> e.name, type |-> e.type, bootable |-> e.bootable,
                           start |-> e.start, end |-> e.end]
        BY <3>1, <3>8, <4>2, <4>3, <4>4, Zenon DEF ParsedEntry
      <4>6. e = [is |-> "entry", name |-> e.name, type |-> e.type, bootable |-> e.bootable,
                 start |-> e.start, end |-> e.end]
        BY <3>3 DEF Record
      <4>. QED BY <4>5, <4>6
    <3>10. wpdata'.active = part /\ wpdata'.next_lba = e.end + 1
      BY <2>2, <3>5, <3>7, <3>8
    <3>11. ASSUME NEW i \in 1 .. GPT_MAX_NUM_PARTS
           PROVE  p'.partitions[i] = IF i <= part THEN first.partitions[i] ELSE Nothing
      <4>1. p'.partitions[i] = IF i = part THEN e ELSE p.partitions[i]
        BY <1>5, <2>2, <3>5, <3>9
      <4>2. p.partitions[i] = IF i <= part - 1 THEN first.partitions[i] ELSE Nothing
        BY <3>1 DEF Remade
      <4>. QED BY <3>5, <4>1, <4>2
    <3>12. part' # 0 /\ part' - 1 = part
      BY <1>1, <1>3
    <3>. HIDE DEF e
    <3>13. wpdata'.active # 0
      BY <2>1, <3>10
    <3>. QED BY <1>1, <3>10, <3>11, <3>12, <3>13 DEF Remade, e
  <2>. QED BY <1>1, <1>2, <1>4, <2>3, <2>4 DEF AgainInv, Used
<1>. QED BY <1>6, <1>7

LEMMA AgainStep ==
  TypeInv /\ TableInv /\ OneTypeInv /\ AgainInv /\ [Next]_vars => AgainInv'
<1>. SUFFICES ASSUME TypeInv, TableInv, OneTypeInv, AgainInv, [Next]_vars PROVE AgainInv'
  OBVIOUS
<1>1. CASE Write \/ Open \/ Detect \/ Unpack \/ Pack \/ ParseFails \/ DetectFails \/ PackFails
  <2>1. pc' # "parse"
    BY <1>1 DEF Write, Open, Detect, Unpack, Pack, ParseFails, DetectFails, PackFails
  <2>. QED BY <2>1 DEF AgainInv
<1>2. CASE UNCHANGED vars
  BY <1>2 DEF AgainInv, Remade, Used, vars
<1>. QED BY <1>1, <1>2, ParsedAgain, ListedAgain DEF Next

LEMMA AgainHolds == Spec => []AgainInv
<1>1. Init => AgainInv
  BY DEF Init, AgainInv
<1>. QED BY <1>1, AgainStep, Tables, OneTypeHolds, PTL DEF Spec

-----------------------------------------------------------------------------
(* What was written: the image depends on the header without its checksum, *)
(* and on as many entries as the header counts.                            *)
LEMMA WrittenFromText ==
  ASSUME TypeInv, TableInv, AgainInv, Write, pc = "parse", first # NoTable, Used # 0,
         Exact(first), Whole(first.partitions), Fits(text)
  PROVE  img' = gpt_write(first.hdr, first.partitions)
<1>1. /\ part = Len(text) /\ img' = gpt_write(p'.hdr, p.partitions)
      /\ p' = [hdr |-> WithDefaults(p.hdr), partitions |-> p.partitions]
      /\ WithDefaults(p.hdr) = [p.hdr EXCEPT !.my_lba = 1,
              !.partition_entry_lba = IF @ = 0 THEN 2 ELSE @,
              !.num_partition_entries = IF @ = 0 THEN GPT_MAX_NUM_PARTS ELSE @]
  <2>1. part = Len(text)
    <3>1. ~MoreParts /\ part \in 0 .. Len(text) /\ Len(text) \in Nat
      BY DEF Write, TypeInv
    <3>2. part < Len(text) => part + 1 \in DOMAIN text
      BY <3>1 DEF TypeInv
    <3>. QED BY <3>1, <3>2 DEF MoreParts, Fits
  <2>. QED BY <2>1, WriteStep DEF Write
<1>2. TextOf(first, text) /\ Remade
      /\ p.hdr = [first.hdr EXCEPT !.my_lba = 0, !.crc = <<>>, !.disk_guid = IF part = 0 THEN 0 ELSE @]
  BY DEF AgainInv
<1>3. first \in GptTables /\ Checked(first) /\ Used \in 0 .. GPT_MAX_NUM_PARTS
  BY FirstIs
<1>. DEFINE h == first.hdr
            s == first.partitions
            n == h.num_partition_entries
<1>4. /\ h \in Header /\ s \in Seq(Entries) /\ Len(s) = n /\ n \in 1 .. GPT_MAX_NUM_PARTS
      /\ h.my_lba = 1 /\ h.partition_entry_lba > 0
  BY <1>3 DEF GptTables, Checked, Complete, Header
<1>5. part = Used + 1 /\ part # 0 /\ wpdata.active = Used
  <2>1. part = Used + 1
    BY <1>1, <1>2 DEF TextOf, Used
  <2>2. part # 0 /\ part - 1 = Used
    BY <1>3, <2>1
  <2>. QED BY <1>2, <2>1, <2>2 DEF Remade
<1>6. p.partitions \in Seq(Entries) /\ Len(p.partitions) = GPT_MAX_NUM_PARTS
  BY DEF TypeInv, TableInv, GptTables
<1>7. ASSUME NEW k \in 1 .. n PROVE p.partitions[k] = s[k]
  <2>1. p.partitions[k] = IF k <= Used THEN s[k] ELSE Nothing
    BY <1>2, <1>4, <1>5 DEF Remade
  <2>2. ~(k <= Used) => s[k] = Nothing
    <3>1. ~(k <= Used) => k \in Used + 1 .. Len(s)
      BY <1>3, <1>4
    <3>. QED BY <3>1 DEF Whole, Used
  <2>. QED BY <2>1, <2>2
<1>8. SubSeq(p.partitions, 1, n) = SubSeq(s, 1, n) /\ SubSeq(s, 1, n) \in Seq(Entries)
  <2>. DEFINE a == SubSeq(p.partitions, 1, n)
              b == SubSeq(s, 1, n)
              q == p.partitions
  <2>. HIDE DEF n, s, q
  <2>1. a \in Seq(Entries) /\ Len(a) = n /\ \A k \in 1 .. n : a[k] = q[k]
    BY <1>4, <1>6 DEF q
  <2>2. b \in Seq(Entries) /\ Len(b) = n /\ \A k \in 1 .. n : b[k] = s[k]
    BY <1>4
  <2>. HIDE DEF a, b
  <2>3. \A k \in 1 .. n : a[k] = b[k]
    BY <1>7, <2>1, <2>2 DEF q
  <2>. QED BY <1>4, <2>1, <2>2, <2>3, SameSequence DEF a, b
<1>. DEFINE g == p'.hdr
<1>9. p.hdr \in Header /\ p.hdr.partition_entry_lba = h.partition_entry_lba
      /\ p.hdr.num_partition_entries = n /\ p.hdr.first_usable_lba = h.first_usable_lba
      /\ p.hdr.disk_guid = h.disk_guid
  BY <1>2, <1>4, <1>5 DEF TypeInv, GptTables, Header
<1>10. g = [p.hdr EXCEPT !.my_lba = 1]
  <2>1. g = [p.hdr EXCEPT !.my_lba = 1,
              !.partition_entry_lba = IF @ = 0 THEN 2 ELSE @,
              !.num_partition_entries = IF @ = 0 THEN GPT_MAX_NUM_PARTS ELSE @]
    BY <1>1
  <2>2. p.hdr.partition_entry_lba # 0 /\ p.hdr.num_partition_entries # 0
    BY <1>4, <1>9
  <2>. HIDE DEF g
  <2>. QED BY <1>9, <2>1, <2>2 DEF Header
<1>11. /\ g \in Header /\ g.my_lba = 1 /\ g.partition_entry_lba = h.partition_entry_lba
       /\ g.num_partition_entries = n /\ g.first_usable_lba = h.first_usable_lba
       /\ g.disk_guid = h.disk_guid
  <2>. HIDE DEF h, n, g
  <2>. QED BY <1>9, <1>10 DEF Header
<1>. HIDE DEF g, h
<1>12. ASSUME NEW c \in Seq(Entries) PROVE [g EXCEPT !.crc = c] = [h EXCEPT !.crc = c]
  <2>. DEFINE x == [g EXCEPT !.crc = c]
              y == [h EXCEPT !.crc = c]
  <2>1. x \in Header /\ y \in Header /\ x.crc = y.crc
    BY <1>4, <1>11 DEF Header
  <2>2. /\ x.my_lba = y.my_lba /\ x.partition_entry_lba = y.partition_entry_lba
        /\ x.num_partition_entries = y.num_partition_entries
        /\ x.first_usable_lba = y.first_usable_lba /\ x.disk_guid = y.disk_guid
    BY <1>4, <1>11 DEF Header
  <2>. HIDE DEF x, y
  <2>3. \A z \in Header :
          z = [is |-> "header", my_lba |-> z.my_lba, partition_entry_lba |-> z.partition_entry_lba,
               num_partition_entries |-> z.num_partition_entries,
               first_usable_lba |-> z.first_usable_lba, disk_guid |-> z.disk_guid, crc |-> z.crc]
    BY DEF Header
  <2>4. x = y
    BY <2>1, <2>2, <2>3
  <2>. QED BY <2>4 DEF x, y
<1>13. gpt_write(g, p.partitions) = gpt_write(h, s)
  <2>. DEFINE q == p.partitions
              e == SubSeq(s, 1, h.num_partition_entries)
  <2>1. SubSeq(q, 1, g.num_partition_entries) = e /\ e \in Seq(Entries)
    BY <1>8, <1>11
  <2>2. [g EXCEPT !.crc = e] = [h EXCEPT !.crc = e]
    <3>. HIDE DEF e
    <3>. QED BY <1>12, <2>1
  <2>3. g.my_lba = h.my_lba /\ g.partition_entry_lba = h.partition_entry_lba
    BY <1>4, <1>11
  <2>. QED BY <2>1, <2>2, <2>3, Zenon DEF gpt_write
<1>. QED BY <1>1, <1>13 DEF g, h

LEMMA WrittenFromJson ==
  ASSUME TypeInv, TableInv, Write, pc = "pack", Whole(first.partitions)
  PROVE  img' = gpt_write(first.hdr, first.partitions)
<1>1. /\ img' = gpt_write(p'.hdr, p.partitions)
      /\ p' = [hdr |-> WithDefaults(p.hdr), partitions |-> p.partitions]
      /\ WithDefaults(p.hdr) = [p.hdr EXCEPT !.my_lba = 1,
              !.partition_entry_lba = IF @ = 0 THEN 2 ELSE @,
              !.num_partition_entries = IF @ = 0 THEN GPT_MAX_NUM_PARTS ELSE @]
  BY WriteStep DEF Write
<1>2. p = Cut(first) /\ first \in GptTables /\ Checked(first)
  BY DEF TypeInv, TableInv
<1>. DEFINE h == first.hdr
            s == first.partitions
            n == h.num_partition_entries
<1>3. /\ h \in Header /\ s \in Seq(Entries) /\ Len(s) = n /\ n \in Nat /\ n # 0
      /\ h.my_lba = 1 /\ h.partition_entry_lba # 0
  BY <1>2 DEF GptTables, Checked, Complete, Header
<1>4. p.hdr = h
  BY <1>2 DEF Cut
<1>5. WithDefaults(h) = h
  BY <1>3 DEF WithDefaults, Header
<1>6. p.partitions = s
  <2>1. p.partitions = [i \in 1 .. n |-> IF i > UsedCount(s) THEN Nothing ELSE s[i]]
    BY <1>2 DEF Cut
  <2>2. UsedCount(s) \in Nat
    BY <1>3, UsedEntriesAre
  <2>. HIDE DEF s, n
  <2>3. \A i \in 1 .. n : (IF i > UsedCount(s) THEN Nothing ELSE s[i]) = s[i]
    <3>1. \A i \in 1 .. n : i > UsedCount(s) => i \in UsedCount(s) + 1 .. Len(s)
      BY <1>3, <2>2
    <3>. QED BY <3>1 DEF Whole, s
  <2>4. s = [i \in 1 .. n |-> s[i]]
    BY <1>3
  <2>. QED BY <2>1, <2>3, <2>4
<1>. QED BY <1>1, <1>4, <1>5, <1>6

LEMMA NoEntries == UsedEntries(NoTable.partitions) = <<>>
<1>1. NoTable.partitions \in Seq(Entries) /\ Len(NoTable.partitions) = 0
  BY NothingType DEF NoTable
<1>2. UsedEntries(NoTable.partitions) \in Seq(Entries) /\ Len(UsedEntries(NoTable.partitions)) = 0
  BY <1>1, UsedEntriesAre
<1>. QED BY <1>2

LEMMA RoundTripStep ==
  TypeInv /\ TableInv /\ AgainInv /\ RoundTrip /\ [Next]_vars => RoundTrip'
<1>. SUFFICES ASSUME TypeInv, TableInv, AgainInv, RoundTrip, [Next]_vars PROVE RoundTrip'
  OBVIOUS
<1>1. CASE ParsePart \/ Open \/ Detect \/ DetectFails \/ Unpack \/ Pack \/ ListReverse
  <2>1. pc' # "written" /\ pc' # "refused"
    BY <1>1 DEF ParsePart, Open, Detect, DetectFails, Unpack, Pack, ListReverse
  <2>. QED BY <2>1 DEF RoundTrip
<1>2. CASE Write \/ ParseFails \/ PackFails
  <2>1. UNCHANGED <<json, first, text>>
    BY <1>2 DEF Write, ParseFails, PackFails
  <2>. SUFFICES ASSUME UsedEntries(first.partitions) # <<>>, Whole(first.partitions)
                PROVE  /\ json # <<>> /\ pc' = "written" => img' = gpt_write(first.hdr, first.partitions)
                       /\ json = <<>> /\ Exact(first) /\ Fits(text) =>
                            pc' # "refused" /\ (pc' = "written" => img' = gpt_write(first.hdr, first.partitions))
    BY <2>1 DEF RoundTrip, Exact, Fits
  <2>2. first # NoTable
    BY NoEntries
  <2>3. Used # 0
    <3>1. UsedEntries(first.partitions) \in Seq(Entries) /\ Len(UsedEntries(first.partitions)) = Used
      BY UsedEntriesAre DEF TypeInv, GptTables, Used
    <3>. QED BY <3>1
  <2>4. CASE Write /\ pc = "parse"
    <3>1. json = <<>> /\ pc' = "written"
      BY <2>4 DEF TableInv, Write
    <3>. QED BY <2>2, <2>3, <2>4, <3>1, WrittenFromText
  <2>5. CASE Write /\ pc = "pack"
    <3>1. pc' = "written"
      BY <2>5 DEF Write
    <3>. QED BY <2>5, <3>1, WrittenFromJson
  <2>6. CASE ParseFails
    <3>1. pc = "parse" /\ MoreParts /\ part < Len(text) /\ pc' = "refused"
          /\ (IsCut(text, part + 1) \/ \E spec \in Readings : PartFails(spec))
      BY <2>6 DEF ParseFails, MoreParts
    <3>2. json = <<>>
      BY <3>1 DEF TableInv
    <3>3. ASSUME Fits(text) PROVE PartFails(Now)
      <4>1. part + 1 \in DOMAIN text
        BY <3>1 DEF TypeInv
      <4>2. IsWhole(text, part + 1)
        BY <3>3, <4>1 DEF Fits
      <4>. QED BY <3>1, <4>2 DEF IsCut, Readings
    <3>4. ~(Exact(first) /\ Fits(text))
      BY <2>2, <2>3, <3>1, <3>3, ReadAgain
    <3>. QED BY <3>2, <3>4
  <2>7. CASE PackFails
    <3>1. pc = "json" /\ pc' = "refused"
      BY <2>7 DEF PackFails
    <3>2. Len(json) = Used
      BY <3>1, JsonType DEF TypeInv, TableInv, Used
    <3>3. json # <<>>
      BY <2>3, <3>2
    <3>. QED BY <3>1, <3>3
  <2>. QED BY <1>2, <2>4, <2>5, <2>6, <2>7 DEF Write
<1>3. CASE UNCHANGED vars
  BY <1>3 DEF RoundTrip, vars
<1>. QED BY <1>1, <1>2, <1>3 DEF Next

(* The JSON of a table and the text of its --reverse make the image of the *)
(* table again, the text where it can print every start and size and the   *)
(* buffers of gpt_parse_partitions hold it; and no such text is refused.   *)
THEOREM RoundTripIsExact == Spec => []RoundTrip
<1>1. Init => RoundTrip
  BY NoEntries DEF Init, RoundTrip
<1>. QED BY <1>1, Tables, AgainHolds, RoundTripStep, PTL DEF Spec

-----------------------------------------------------------------------------
(* The partitions of a text, part by part.                                 *)
LEMMA SpecsDef ==
  ASSUME NEW t \in Seq(TextPart), NEW j \in 0 .. Len(t)
  PROVE  SpecsIn(t)[j] = IF j = 0 THEN <<>>
                         ELSE IF t[j].disk = 0 THEN Append(SpecsIn(t)[j - 1], t[j])
                         ELSE SpecsIn(t)[j - 1]
<1>. DEFINE N == Len(t)
            V(x, n) == IF n = 0 THEN <<>> ELSE IF t[n].disk = 0 THEN Append(x, t[n]) ELSE x
            To(n) == \E g : g = [k \in 0 .. n |-> V(g[k - 1], k)]
            S == {n \in Nat : To(n)}
<1>0. /\ N \in Nat /\ j \in 0 .. N
      /\ \A x, y : V(x, 0) = V(y, 0)
  OBVIOUS
<1>. HIDE DEF V, N
<1>1. 0 \in S
  <2>. DEFINE g == [k \in 0 .. 0 |-> V(0, k)]
  <2>1. \A k \in 0 .. 0 : V(0, k) = V(g[k - 1], k)
    <3>. HIDE DEF g
    <3>. QED BY <1>0
  <2>2. g = [k \in 0 .. 0 |-> V(g[k - 1], k)]
    <3>. DEFINE h == [k \in 0 .. 0 |-> V(g[k - 1], k)]
    <3>1. h = [k \in 0 .. 0 |-> V(0, k)]
      <4>. HIDE DEF g
      <4>. QED BY <2>1
    <3>. QED BY <3>1
  <2>3. To(0)
    <3>. HIDE DEF g
    <3>. QED BY <2>2
  <2>. HIDE DEF To
  <2>. QED BY <2>3
<1>2. ASSUME NEW n \in Nat, n \in S PROVE n + 1 \in S
  <2>1. PICK g : g = [k \in 0 .. n |-> V(g[k - 1], k)]
    BY <1>2
  <2>. DEFINE h == [k \in 0 .. n + 1 |-> IF k = n + 1 THEN V(g[n], n + 1) ELSE g[k]]
  <2>2. ASSUME NEW k \in 0 .. n + 1 PROVE h[k] = V(h[k - 1], k)
    <3>1. CASE k = n + 1
      <4>1. h[k] = V(g[n], k) /\ h[k - 1] = g[n]
        BY <3>1
      <4>. QED BY <4>1
    <3>2. CASE k = 0
      <4>1. k \in 0 .. n /\ h[k] = g[k]
        BY <3>2
      <4>2. g[k] = V(g[k - 1], k)
        BY <2>1, <4>1
      <4>. HIDE DEF h
      <4>. QED BY <1>0, <3>2, <4>1, <4>2
    <3>3. CASE k # n + 1 /\ k # 0
      <4>1. k \in 0 .. n /\ h[k] = g[k] /\ h[k - 1] = g[k - 1]
        BY <3>3
      <4>. QED BY <2>1, <4>1
    <3>. QED BY <3>1, <3>2, <3>3
  <2>3. h = [k \in 0 .. n + 1 |-> V(h[k - 1], k)]
    <3>1. h = [k \in 0 .. n + 1 |-> h[k]]
      OBVIOUS
    <3>. HIDE DEF h
    <3>. QED BY <2>2, <3>1
  <2>4. To(n + 1)
    <3>. HIDE DEF h
    <3>. QED BY <2>3
  <2>. HIDE DEF To
  <2>. QED BY <2>4
<1>3. To(N)
  <2>. HIDE DEF To
  <2>1. \A n \in Nat : n \in S
    <3>. HIDE DEF S
    <3>. QED BY <1>1, <1>2, SetInduction
  <2>. QED BY <1>0, <2>1
<1>. DEFINE W == CHOOSE g : g = [k \in 0 .. N |-> V(g[k - 1], k)]
<1>4. W = [k \in 0 .. N |-> V(W[k - 1], k)]
  <2>1. \E g : g = [k \in 0 .. N |-> V(g[k - 1], k)]
    BY <1>3
  <2>. QED BY <2>1
<1>5. SpecsIn(t) = W
  BY DEF SpecsIn, V, N
<1>. HIDE DEF W
<1>6. W[j] = V(W[j - 1], j)
  BY <1>0, <1>4
<1>. QED BY <1>5, <1>6 DEF V

LEMMA SpecsType ==
  ASSUME NEW t \in Seq(TextPart)
  PROVE  \A j \in 0 .. Len(t) :
           /\ SpecsIn(t)[j] \in Seq(TextPart)
           /\ \A k \in 1 .. j : t[k].disk = 0 =>
                \E i \in 1 .. Len(SpecsIn(t)[j]) : SpecsIn(t)[j][i] = t[k]
<1>. DEFINE A(j) == SpecsIn(t)[j]
            P(j) == /\ A(j) \in Seq(TextPart)
                    /\ \A k \in 1 .. j : t[k].disk = 0 => \E i \in 1 .. Len(A(j)) : A(j)[i] = t[k]
            S == {j \in Nat : j \in 0 .. Len(t) => P(j)}
<1>1. \A j \in 0 .. Len(t) :
        A(j) = IF j = 0 THEN <<>> ELSE IF t[j].disk = 0 THEN Append(A(j - 1), t[j]) ELSE A(j - 1)
  BY SpecsDef
<1>. HIDE DEF A
<1>2. 0 \in S
  <2>1. A(0) = <<>>
    <3>1. 0 \in 0 .. Len(t)
      OBVIOUS
    <3>. QED BY <1>1, <3>1
  <2>2. <<>> \in Seq(TextPart) /\ \A k \in 1 .. 0 : FALSE
    OBVIOUS
  <2>. QED BY <2>1, <2>2
<1>3. ASSUME NEW j \in Nat, j \in S PROVE j + 1 \in S
  <2>. SUFFICES ASSUME j + 1 \in 0 .. Len(t) PROVE P(j + 1)
    OBVIOUS
  <2>1. j \in 0 .. Len(t) /\ (j + 1) - 1 = j /\ j + 1 # 0 /\ t[j + 1] \in TextPart
    <3>1. j + 1 \in 1 .. Len(t)
      OBVIOUS
    <3>. QED BY <3>1
  <2>2. A(j + 1) = IF t[j + 1].disk = 0 THEN Append(A(j), t[j + 1]) ELSE A(j)
    BY <1>1, <2>1
  <2>3. P(j)
    BY <1>3, <2>1
  <2>4. \A k \in 1 .. j + 1 : k \in 1 .. j \/ k = j + 1
    OBVIOUS
  <2>5. CASE t[j + 1].disk # 0
    BY <2>2, <2>3, <2>4, <2>5
  <2>6. CASE t[j + 1].disk = 0
    <3>1. A(j + 1) = Append(A(j), t[j + 1]) /\ A(j) \in Seq(TextPart)
      BY <2>2, <2>3, <2>6
    <3>2. /\ A(j + 1) \in Seq(TextPart) /\ Len(A(j + 1)) = Len(A(j)) + 1
          /\ A(j + 1)[Len(A(j)) + 1] = t[j + 1] /\ Len(A(j)) \in Nat
          /\ \A i \in 1 .. Len(A(j)) : A(j + 1)[i] = A(j)[i]
      <4>. DEFINE s == A(j)
                  e == t[j + 1]
      <4>1. s \in Seq(TextPart) /\ e \in TextPart /\ A(j + 1) = Append(s, e)
        BY <2>1, <3>1
      <4>. HIDE DEF s, e
      <4>2. /\ Append(s, e) \in Seq(TextPart) /\ Len(Append(s, e)) = Len(s) + 1
            /\ Append(s, e)[Len(s) + 1] = e /\ Len(s) \in Nat
            /\ \A i \in 1 .. Len(s) : Append(s, e)[i] = s[i]
        BY <4>1
      <4>3. /\ A(j + 1) \in Seq(TextPart) /\ Len(A(j + 1)) = Len(s) + 1
            /\ A(j + 1)[Len(s) + 1] = e /\ Len(s) \in Nat
            /\ \A i \in 1 .. Len(s) : A(j + 1)[i] = s[i]
        BY <4>1, <4>2, Zenon
      <4>. QED BY <4>3 DEF s, e
    <3>3. \A k \in 1 .. j : t[k].disk = 0 => \E i \in 1 .. Len(A(j)) : A(j)[i] = t[k]
      BY <2>3
    <3>4. \A i \in 1 .. Len(A(j)) : i \in 1 .. Len(A(j + 1))
      BY <3>2
    <3>5. Len(A(j)) + 1 \in 1 .. Len(A(j + 1))
      BY <3>2
    <3>. QED BY <2>4, <3>2, <3>3, <3>4, <3>5
  <2>. QED BY <2>5, <2>6
<1>4. \A j \in Nat : j \in S
  <2>. HIDE DEF S
  <2>. QED BY <1>2, <1>3, SetInduction
<1>. QED BY <1>4 DEF A

-----------------------------------------------------------------------------
(* What is made of the parts read so far: partition by partition what the  *)
(* part says, and nothing behind them.                                     *)
Plain == Named /\ NoneAtZero /\ NoneCut
Before(table, i) == IF i = 1 THEN table.hdr.first_usable_lba ELSE table.partitions[i - 1].end + 1
MadeOf(table, i, spec) ==
  /\ table.partitions[i].name = spec.name /\ table.partitions[i].start > 0
  /\ SizeLba(table.partitions[i]) = to_partition_lba_size(spec.size)
  /\ table.partitions[i].start = Blocks(spec.start, Before(table, i))
Makes(table, specs, n) ==
  \A i \in 1 .. n : IF i <= Len(specs) THEN MadeOf(table, i, specs[i])
                    ELSE table.partitions[i] = Nothing
Done == SpecsIn(text)[part]
AllWhole(t, n) == \A k \in 1 .. n : IsWhole(t, k)

FollowInv ==
  /\ pc = "parse" /\ NoneCut => AllWhole(text, part)
  /\ pc = "parse" =>
       /\ p.hdr.num_partition_entries = arg.num_parts /\ p.hdr.first_usable_lba = arg.first_lba
       /\ Plain => /\ wpdata.active = Len(Done) /\ wpdata.next_lba = Before(p, wpdata.active + 1)
                   /\ wpdata.next_lba > 0 /\ Makes(p, Done, GPT_MAX_NUM_PARTS)
  /\ pc \in {"written", "detect", "detected", "json", "pack"} /\ json = <<>> =>
       /\ p.hdr.num_partition_entries = EntriesFor(arg)
       /\ Plain => Makes(p, Specs, p.hdr.num_partition_entries)

(* The buffers hold the parts up to one, and none behind it.               *)
LEMMA HeldIs ==
  ASSUME NEW t, Len(t) \in Nat, NEW n \in 0 .. Len(t), AllWhole(t, n),
         n < Len(t) => ~IsWhole(t, n + 1)
  PROVE  Held(t) = n
<1>. DEFINE P(m) == (\A k \in 1 .. m : IsWhole(t, k)) /\ (m < Len(t) => ~IsWhole(t, m + 1))
<1>1. P(n)
  BY DEF AllWhole
<1>2. ASSUME NEW m \in 0 .. Len(t), P(m) PROVE m = n
  <2>1. ~(m < n)
    <3>. SUFFICES ASSUME m < n PROVE FALSE
      OBVIOUS
    <3>1. m + 1 \in 1 .. n /\ m < Len(t)
      OBVIOUS
    <3>. QED BY <1>1, <1>2, <3>1
  <2>2. ~(n < m)
    <3>. SUFFICES ASSUME n < m PROVE FALSE
      OBVIOUS
    <3>1. n + 1 \in 1 .. m /\ n < Len(t)
      OBVIOUS
    <3>. QED BY <1>1, <1>2, <3>1
  <2>. QED BY <2>1, <2>2
<1>3. Held(t) = CHOOSE m \in 0 .. Len(t) : P(m)
  BY DEF Held
<1>. HIDE DEF P
<1>. QED BY <1>1, <1>2, <1>3

LEMMA SomeHeld ==
  ASSUME NEW t, Len(t) \in Nat
  PROVE  Held(t) \in 0 .. Len(t) /\ \A n \in 0 .. Len(t) : AllWhole(t, n) => n <= Held(t)
<1>. DEFINE S == {n \in Nat : n < Len(t) /\ ~IsWhole(t, n + 1)}
<1>1. PICK h \in 0 .. Len(t) : AllWhole(t, h) /\ (h < Len(t) => ~IsWhole(t, h + 1))
  <2>1. CASE S = {}
    <3>1. \A k \in 1 .. Len(t) : k - 1 \in Nat /\ k - 1 < Len(t) /\ (k - 1) + 1 = k
      OBVIOUS
    <3>2. AllWhole(t, Len(t))
      BY <2>1, <3>1 DEF AllWhole
    <3>. QED BY <3>2
  <2>2. CASE S # {}
    <3>1. PICK n \in S : \A m \in S : n <= m
      <4>1. S \in SUBSET Nat
        OBVIOUS
      <4>. HIDE DEF S
      <4>. QED BY <2>2, <4>1, LeastExists
    <3>2. ASSUME NEW k \in 1 .. n PROVE IsWhole(t, k)
      <4>1. k - 1 \in Nat /\ k - 1 < Len(t) /\ ~(n <= k - 1) /\ (k - 1) + 1 = k
        BY <3>1
      <4>. QED BY <3>1, <4>1
    <3>. QED BY <3>1, <3>2 DEF AllWhole
  <2>. QED BY <2>1, <2>2
<1>2. Held(t) = h
  BY <1>1, HeldIs
<1>3. ASSUME NEW n \in 0 .. Len(t), AllWhole(t, n) PROVE n <= h
  <2>. SUFFICES ASSUME h < n PROVE FALSE
    OBVIOUS
  <2>1. h + 1 \in 1 .. n /\ h < Len(t)
    OBVIOUS
  <2>. QED BY <1>1, <1>3, <2>1 DEF AllWhole
<1>. QED BY <1>2, <1>3

(* Parts that have names have them while they are read.                    *)
LEMMA PartsArePlain ==
  ASSUME TypeInv, pc = "parse", part < Len(text), Plain, AllWhole(text, part + 1)
  PROVE  /\ SpecsIn(text)[part + 1] = IF Now.disk = 0 THEN Append(Done, Now) ELSE Done
         /\ Done \in Seq(TextPart) /\ Now \in TextPart
         /\ Now.disk = 0 => Now.name # NoName /\ to_partition_lba_size(Now.start) # 0
<1>1. part + 1 \in 1 .. Len(text) /\ part + 1 \in 0 .. Len(text) /\ part \in 0 .. Len(text)
      /\ (part + 1) - 1 = part /\ part + 1 # 0 /\ text \in Seq(TextPart)
      /\ Held(text) \in 0 .. Len(text) /\ part + 1 \in 1 .. Held(text)
  <2>1. /\ part + 1 \in 0 .. Len(text) /\ part \in 0 .. Len(text) /\ text \in Seq(TextPart)
        /\ Len(text) \in Nat
    BY DEF TypeInv
  <2>2. Held(text) \in 0 .. Len(text) /\ part + 1 <= Held(text)
    BY <2>1, SomeHeld
  <2>. QED BY <2>1, <2>2
<1>2. SpecsIn(text)[part + 1] = IF Now.disk = 0 THEN Append(Done, Now) ELSE Done
  BY <1>1, SpecsDef DEF Now, Done
<1>3. Done \in Seq(TextPart) /\ Now \in TextPart
  BY <1>1, SpecsType DEF Done, Now
<1>4. ASSUME Now.disk = 0 PROVE Now.name # NoName /\ to_partition_lba_size(Now.start) # 0
  <2>1. PICK i \in 1 .. Len(Specs) : Specs[i] = Now
    BY <1>1, <1>4, SpecsType DEF Specs, Now
  <2>2. i \in DOMAIN Specs
    BY <1>1, SpecsType DEF Specs
  <2>. QED BY <2>1, <2>2 DEF Plain, Named, NoneAtZero
<1>. QED BY <1>2, <1>3, <1>4

LEMMA FollowParse == ASSUME TypeInv, TableInv, FollowInv, ParsePart PROVE FollowInv'
<1>1. /\ pc = "parse" /\ MoreParts /\ part < Len(text) /\ part' = part + 1
      /\ UNCHANGED <<pc, arg, text, json>>
  BY DEF ParsePart, MoreParts
<1>0. PICK spec \in Readings : ~PartFails(spec) /\ gpt_parse_part(spec)
  BY DEF ParsePart
<1>2. /\ p.hdr.num_partition_entries = arg.num_parts /\ p.hdr.first_usable_lba = arg.first_lba
      /\ Plain => /\ wpdata.active = Len(Done) /\ wpdata.next_lba = Before(p, wpdata.active + 1)
                  /\ wpdata.next_lba > 0 /\ Makes(p, Done, GPT_MAX_NUM_PARTS)
  BY <1>1 DEF FollowInv
<1>3. p.hdr \in Header /\ p.partitions \in Seq(Entries) /\ Len(p.partitions) = GPT_MAX_NUM_PARTS
      /\ wpdata.active \in Nat /\ wpdata.next_lba \in Nat
  BY <1>1 DEF TypeInv, TableInv, GptTables, Progress
<1>4. /\ p'.hdr.num_partition_entries = p.hdr.num_partition_entries
      /\ p'.hdr.first_usable_lba = p.hdr.first_usable_lba
  <2>1. p'.hdr = p.hdr \/ p'.hdr = [p.hdr EXCEPT !.disk_guid = spec.disk]
    BY <1>0, <1>1, ParseIs
  <2>. QED BY <1>3, <2>1 DEF Header
<1>5. (Plain' <=> Plain) /\ (NoneCut' <=> NoneCut)
  BY <1>1 DEF Plain, Named, NoneAtZero, NoneCut, Specs
<1>7. ASSUME NoneCut
      PROVE  /\ AllWhole(text, part + 1) /\ Now \in Readings
             /\ ~PartFails(Now) /\ gpt_parse_part(Now)
  <2>1. part + 1 \in DOMAIN text /\ part \in Nat
    BY <1>1 DEF TypeInv
  <2>2. IsWhole(text, part + 1)
    BY <1>1, <1>7, <2>1 DEF NoneCut, MoreParts
  <2>3. AllWhole(text, part)
    BY <1>1, <1>7 DEF FollowInv
  <2>4. \A k \in 1 .. part + 1 : k \in 1 .. part \/ k = part + 1
    BY <2>1
  <2>5. AllWhole(text, part + 1)
    BY <2>2, <2>3, <2>4 DEF AllWhole
  <2>. QED BY <2>2, <2>5, WholePart
<1>6. ASSUME Plain
      PROVE  /\ wpdata'.active = Len(Done') /\ wpdata'.next_lba = Before(p', wpdata'.active + 1)
             /\ wpdata'.next_lba > 0 /\ Makes(p', Done', GPT_MAX_NUM_PARTS)
  <2>0. /\ AllWhole(text, part + 1) /\ Now \in Readings
        /\ ~PartFails(Now) /\ gpt_parse_part(Now)
    BY <1>6, <1>7 DEF Plain
  <2>1. Done' = IF Now.disk = 0 THEN Append(Done, Now) ELSE Done
    BY <1>1, <1>6, <2>0, PartsArePlain DEF Done
  <2>2. Done \in Seq(TextPart) /\ Now \in TextPart
    BY <1>1, <1>6, <2>0, PartsArePlain
  <2>3. CASE Now.disk # 0
    <3>1. p'.partitions = p.partitions /\ wpdata' = wpdata /\ Done' = Done
      BY <1>1, <2>0, <2>1, <2>3, ParseIs
    <3>. QED BY <1>2, <1>4, <1>6, <3>1 DEF Before, Makes, MadeOf
  <2>4. CASE Now.disk = 0
    <3>. DEFINE a == Next1
    <3>1. /\ ParsedEntry(Now) \in Entries /\ LbaStart(Now) \in Nat /\ LbaSize(Now) \in Nat \ {0}
          /\ p'.partitions = [p.partitions EXCEPT ![a] = ParsedEntry(Now)]
          /\ wpdata'.next_lba = LbaStart(Now) + LbaSize(Now)
          /\ wpdata'.active = a
      BY <1>1, <1>6, <2>0, <2>4, ParseIs, PartsArePlain
    <3>2. a = Len(Done) + 1 /\ a \in 1 .. GPT_MAX_NUM_PARTS /\ Len(Done) \in Nat /\ a = wpdata.active + 1
      BY <1>1, <1>2, <1>3, <1>6, <2>0, <2>2, ParseIs DEF Next1
    <3>. HIDE DEF a
    <3>3. Len(Done') = a /\ Done'[a] = Now /\ \A i \in 1 .. Len(Done) : Done'[i] = Done[i]
      BY <2>1, <2>2, <2>4, <3>2
    <3>4. /\ ParsedEntry(Now).name = Now.name /\ ParsedEntry(Now).start = LbaStart(Now)
          /\ ParsedEntry(Now).end = LbaStart(Now) + LbaSize(Now) - 1
      BY <1>1, <1>6, <2>0, <2>4, PartsArePlain DEF ParsedEntry
    <3>5. p'.partitions[a] = ParsedEntry(Now)
          /\ \A i \in 1 .. GPT_MAX_NUM_PARTS : i # a => p'.partitions[i] = p.partitions[i]
      BY <1>3, <3>1, <3>2
    <3>6. LbaSize(Now) = to_partition_lba_size(Now.size)
      BY <3>1 DEF LbaSize, Blocks
    <3>7. SizeLba(ParsedEntry(Now)) = to_partition_lba_size(Now.size)
      <4>1. LbaStart(Now) + LbaSize(Now) - 1 - LbaStart(Now) + 1 = LbaSize(Now)
        BY <3>1
      <4>2. SizeLba(ParsedEntry(Now)) = ParsedEntry(Now).end - ParsedEntry(Now).start + 1
        BY DEF SizeLba
      <4>3. LbaStart(Now) \in Nat /\ LbaSize(Now) \in Nat
        BY <3>1
      <4>4. SizeLba(ParsedEntry(Now)) = LbaSize(Now)
        BY <3>4, <4>2, <4>3
      <4>. QED BY <3>6, <4>4
    <3>8. Before(p', a) = Before(p, a)
      <4>1. a # 1 => a - 1 \in 1 .. GPT_MAX_NUM_PARTS /\ a - 1 # a
        BY <3>2
      <4>. QED BY <1>4, <3>5, <4>1 DEF Before
    <3>9. LbaStart(Now) = Blocks(Now.start, Before(p, a)) /\ LbaStart(Now) > 0
      <4>1. LbaStart(Now) = Blocks(Now.start, wpdata.next_lba) /\ wpdata.next_lba = Before(p, a) /\ wpdata.next_lba > 0
        BY <1>2, <1>6, <3>2 DEF LbaStart
      <4>2. to_partition_lba_size(Now.start) # 0
        BY <1>1, <1>6, <2>0, <2>4, PartsArePlain
      <4>. QED BY <1>3, <3>1, <4>1, <4>2 DEF Blocks
    <3>10. MadeOf(p', a, Done'[a])
      BY <3>3, <3>4, <3>5, <3>7, <3>8, <3>9 DEF MadeOf
    <3>11. ASSUME NEW i \in 1 .. Len(Done) PROVE MadeOf(p', i, Done'[i])
      <4>1. i \in 1 .. GPT_MAX_NUM_PARTS /\ i # a /\ i <= Len(Done)
        BY <3>2
      <4>2. MadeOf(p, i, Done[i])
        BY <1>2, <1>6, <4>1 DEF Makes
      <4>3. Before(p', i) = Before(p, i)
        <5>1. i # 1 => i - 1 \in 1 .. GPT_MAX_NUM_PARTS /\ i - 1 # a
          BY <3>2, <4>1
        <5>. QED BY <1>4, <3>5, <5>1 DEF Before
      <4>. QED BY <3>3, <3>5, <4>1, <4>2, <4>3 DEF MadeOf
    <3>12. Makes(p', Done', GPT_MAX_NUM_PARTS)
      <4>. SUFFICES ASSUME NEW i \in 1 .. GPT_MAX_NUM_PARTS
                    PROVE  IF i <= a THEN MadeOf(p', i, Done'[i]) ELSE p'.partitions[i] = Nothing
        BY <3>3 DEF Makes
      <4>1. CASE i = a
        BY <3>2, <3>10, <4>1
      <4>2. CASE i # a /\ i <= a
        <5>1. i \in 1 .. Len(Done)
          BY <3>2, <4>2
        <5>. QED BY <3>11, <4>2, <5>1
      <4>3. CASE ~(i <= a)
        <5>1. ~(i <= Len(Done)) /\ i # a
          BY <3>2, <4>3
        <5>. QED BY <1>2, <1>6, <3>5, <4>3, <5>1 DEF Makes
      <4>. QED BY <4>1, <4>2, <4>3
    <3>13. wpdata'.next_lba = Before(p', wpdata'.active + 1) /\ wpdata'.next_lba > 0
      <4>1. a + 1 # 1 /\ (a + 1) - 1 = a
        BY <3>2
      <4>2. Before(p', a + 1) = ParsedEntry(Now).end + 1
        BY <3>5, <4>1 DEF Before
      <4>. QED BY <3>1, <3>4, <4>2
    <3>. QED BY <3>1, <3>3, <3>12, <3>13
  <2>. QED BY <2>3, <2>4
<1>8. pc' = "parse" /\ NoneCut' => AllWhole(text', part')
  BY <1>1, <1>5, <1>7
<1>. QED BY <1>1, <1>2, <1>4, <1>5, <1>6, <1>8 DEF FollowInv

(* The steps after the text was read leave the partitions as they are.     *)
LEMMA MakesTheSame ==
  ASSUME NEW a, NEW b, NEW specs, NEW m \in Nat, NEW n \in Nat, n <= m, Makes(a, specs, m),
         b.hdr.first_usable_lba = a.hdr.first_usable_lba,
         \A i \in 1 .. n : b.partitions[i] = a.partitions[i]
  PROVE  Makes(b, specs, n)
<1>. SUFFICES ASSUME NEW i \in 1 .. n
              PROVE  IF i <= Len(specs) THEN MadeOf(b, i, specs[i]) ELSE b.partitions[i] = Nothing
  BY DEF Makes
<1>1. i \in 1 .. m
  OBVIOUS
<1>2. Before(b, i) = Before(a, i)
  <2>1. i # 1 => i - 1 \in 1 .. n
    OBVIOUS
  <2>. QED BY <2>1 DEF Before
<1>. QED BY <1>1, <1>2 DEF Makes, MadeOf

LEMMA FollowWrite == ASSUME TypeInv, TableInv, FollowInv, Write PROVE FollowInv'
<1>1. /\ (pc = "parse" /\ ~MoreParts) \/ pc = "pack"
      /\ pc' = "written" /\ UNCHANGED <<arg, text, json>>
      /\ p'.partitions = p.partitions
      /\ p'.hdr = [p.hdr EXCEPT !.my_lba = 1,
              !.partition_entry_lba = IF @ = 0 THEN 2 ELSE @,
              !.num_partition_entries = IF @ = 0 THEN GPT_MAX_NUM_PARTS ELSE @]
  BY WriteStep DEF Write
<1>. SUFFICES ASSUME json = <<>>
              PROVE  /\ p'.hdr.num_partition_entries = EntriesFor(arg)
                     /\ Plain => Makes(p', Specs, p'.hdr.num_partition_entries)
  BY <1>1 DEF FollowInv, Plain, Named, NoneAtZero, NoneCut, Specs
<1>2. p.hdr \in Header
  BY DEF TypeInv, GptTables
<1>. DEFINE n == p.hdr.num_partition_entries
<1>3. /\ p'.hdr.num_partition_entries = IF n = 0 THEN GPT_MAX_NUM_PARTS ELSE n
      /\ p'.hdr.first_usable_lba = p.hdr.first_usable_lba
      /\ n \in 0 .. GPT_MAX_NUM_PARTS
  BY <1>1, <1>2 DEF Header
<1>4. CASE pc = "parse"
  <2>0. ASSUME NoneCut PROVE Held(text) = part
    <3>1. ~MoreParts /\ AllWhole(text, part) /\ part \in 0 .. Len(text) /\ Len(text) \in Nat
      BY <1>1, <1>4, <2>0 DEF FollowInv, TypeInv
    <3>2. part < Len(text) => ~IsWhole(text, part + 1)
      BY <3>1 DEF MoreParts
    <3>. QED BY <3>1, <3>2, HeldIs
  <2>1. /\ n = arg.num_parts
        /\ Plain => Makes(p, Done, GPT_MAX_NUM_PARTS) /\ Done = Specs
    BY <1>1, <1>4, <2>0 DEF FollowInv, Done, Specs, Plain
  <2>2. p'.hdr.num_partition_entries = EntriesFor(arg)
    BY <1>3, <2>1 DEF EntriesFor
  <2>3. p'.hdr.num_partition_entries \in Nat /\ p'.hdr.num_partition_entries <= GPT_MAX_NUM_PARTS
        /\ GPT_MAX_NUM_PARTS \in Nat
    BY <1>3
  <2>. DEFINE k == p'.hdr.num_partition_entries
  <2>4. \A i \in 1 .. k : p'.partitions[i] = p.partitions[i]
    BY <1>1
  <2>5. p'.hdr.first_usable_lba = p.hdr.first_usable_lba
    BY <1>3
  <2>6. k \in Nat /\ k <= GPT_MAX_NUM_PARTS /\ GPT_MAX_NUM_PARTS \in Nat
    BY <2>3
  <2>. HIDE DEF n, k
  <2>7. Plain => Makes(p', Specs, k)
    BY <2>1, <2>4, <2>5, <2>6, MakesTheSame
  <2>. QED BY <2>2, <2>7 DEF k
<1>5. CASE pc = "pack"
  <2>1. n = EntriesFor(arg) /\ (Plain => Makes(p, Specs, n))
    BY <1>5 DEF FollowInv
  <2>2. p'.hdr.num_partition_entries = n
    BY <1>3, <1>5 DEF TableInv, Complete
  <2>3. n \in Nat /\ n <= n
    BY <1>3
  <2>4. \A i \in 1 .. n : p'.partitions[i] = p.partitions[i]
    BY <1>1
  <2>5. p'.hdr.first_usable_lba = p.hdr.first_usable_lba
    BY <1>3
  <2>. HIDE DEF n
  <2>6. Plain => Makes(p', Specs, n)
    BY <2>1, <2>3, <2>4, <2>5, MakesTheSame
  <2>. QED BY <2>1, <2>2, <2>6
<1>. QED BY <1>1, <1>4, <1>5

LEMMA FollowDetect == ASSUME TypeInv, TableInv, FollowInv, Detect PROVE FollowInv'
<1>1. pc = "detect" /\ pc' = "detected" /\ UNCHANGED <<arg, text, json>>
  BY DEF Detect
<1>2. p \in GptTables /\ Complete(p) /\ p.hdr \in Header
  BY <1>1 DEF TypeInv, TableInv, GptTables
<1>3. p' = ReadBack(p)
  BY DetectIs
<1>. DEFINE n == p.hdr.num_partition_entries
<1>4. /\ p'.hdr.num_partition_entries = n /\ p'.hdr.first_usable_lba = p.hdr.first_usable_lba
      /\ n \in Nat /\ n <= n
  <2>1. p'.hdr = [p.hdr EXCEPT !.crc = SubSeq(p.partitions, 1, p.hdr.num_partition_entries)]
    BY <1>3 DEF ReadBack, WrittenHeader
  <2>2. n \in Nat
    BY <1>2 DEF Header
  <2>3. \A c : /\ [p.hdr EXCEPT !.crc = c].num_partition_entries = p.hdr.num_partition_entries
              /\ [p.hdr EXCEPT !.crc = c].first_usable_lba = p.hdr.first_usable_lba
    BY <1>2 DEF Header
  <2>. QED BY <2>1, <2>2, <2>3
<1>5. \A i \in 1 .. n : p'.partitions[i] = p.partitions[i]
  BY <1>2, <1>3, FirstEntries DEF ReadBack
<1>. SUFFICES ASSUME json = <<>>
              PROVE  n = EntriesFor(arg) /\ (Plain => Makes(p', Specs, n))
  BY <1>1, <1>4 DEF FollowInv, Plain, Named, NoneAtZero, NoneCut, Specs
<1>6. n = EntriesFor(arg) /\ (Plain => Makes(p, Specs, n))
  BY <1>1 DEF FollowInv
<1>. HIDE DEF n
<1>. QED BY <1>4, <1>5, <1>6, MakesTheSame

(* Of the table made of a plain text a walk sees all partitions.           *)
LEMMA AllAreUsed ==
  ASSUME NEW table \in GptTables, NEW specs \in Seq(TextPart), Checked(table),
         Makes(table, specs, table.hdr.num_partition_entries)
  PROVE  UsedCount(table.partitions) =
           IF Len(specs) < table.hdr.num_partition_entries THEN Len(specs)
           ELSE table.hdr.num_partition_entries
<1>. DEFINE n == table.hdr.num_partition_entries
            s == table.partitions
            u == UsedCount(s)
<1>1. Len(s) = n /\ n \in Nat /\ s \in Seq(Entries) /\ Len(specs) \in Nat
  BY DEF Checked, Complete, GptTables, Header
<1>2. /\ u \in 0 .. n
      /\ \A i \in 1 .. u : ~IsEnd(s[i])
      /\ u < n => IsEnd(s[u + 1])
  BY <1>1, UsedCountIs
<1>3. ASSUME NEW i \in 1 .. n, i <= Len(specs) PROVE ~IsEnd(s[i])
  <2>1. s[i].start > 0
    BY <1>3 DEF Makes, MadeOf
  <2>2. s[i] \in Entries
    BY <1>1
  <2>3. s[i].start \in Nat /\ s[i].end \in Nat /\ s[i].start <= s[i].end
    BY <2>2 DEF Entries, Record
  <2>. HIDE DEF s
  <2>. QED BY <2>1, <2>3 DEF IsEnd
<1>4. ASSUME NEW i \in 1 .. n, ~(i <= Len(specs)) PROVE IsEnd(s[i])
  <2>1. s[i] = Nothing
    BY <1>4 DEF Makes
  <2>. QED BY <2>1 DEF IsEnd, Nothing
<1>. HIDE DEF n, s, u
<1>5. u <= Len(specs)
  <2>. SUFFICES ASSUME ~(u <= Len(specs)) PROVE FALSE
    OBVIOUS
  <2>1. u \in 1 .. u /\ u \in 1 .. n
    BY <1>1, <1>2
  <2>. QED BY <1>2, <1>4, <2>1
<1>6. u < n => ~(u + 1 <= Len(specs))
  <2>. SUFFICES ASSUME u < n, u + 1 <= Len(specs) PROVE FALSE
    OBVIOUS
  <2>1. u + 1 \in 1 .. n
    BY <1>1, <1>2
  <2>. QED BY <1>2, <1>3, <2>1
<1>7. u = IF Len(specs) < n THEN Len(specs) ELSE n
  BY <1>1, <1>2, <1>5, <1>6
<1>. QED BY <1>7 DEF n, s, u

LEMMA SpecsAre == TypeInv => Specs \in Seq(TextPart) /\ DOMAIN Specs = 1 .. Len(Specs)
<1>. SUFFICES ASSUME TypeInv PROVE Specs \in Seq(TextPart)
  OBVIOUS
<1>1. text \in Seq(TextPart) /\ Held(text) \in 0 .. Len(text)
  BY SomeHeld DEF TypeInv
<1>. QED BY <1>1, SpecsType DEF Specs

LEMMA FollowPack == ASSUME TypeInv, TableInv, FollowInv, Pack PROVE FollowInv'
<1>1. pc = "json" /\ pc' = "pack" /\ UNCHANGED <<arg, text, json, first>>
  BY DEF Pack
<1>2. p' = Cut(first) /\ p = first /\ first \in GptTables /\ Checked(first) /\ json = JsonOf(first)
  <2>1. p' = Cut(first')
    BY <1>1, PackStep DEF TableInv
  <2>. QED BY <1>1, <2>1 DEF TypeInv, TableInv
<1>. DEFINE n == first.hdr.num_partition_entries
            u == UsedCount(first.partitions)
<1>. SUFFICES ASSUME json = <<>>
              PROVE  n = EntriesFor(arg) /\ (Plain => Makes(p', Specs, n))
  BY <1>1, <1>2 DEF FollowInv, Plain, Named, NoneAtZero, NoneCut, Specs, Cut
<1>3. n = EntriesFor(arg) /\ (Plain => Makes(first, Specs, n))
  BY <1>1, <1>2 DEF FollowInv
<1>. SUFFICES ASSUME Plain PROVE Makes(p', Specs, n)
  BY <1>3
<1>4. u = 0
  BY <1>2, JsonType
<1>5. n \in Nat /\ n > 0
  BY <1>2 DEF Checked, Complete, GptTables, Header
<1>6. Specs \in Seq(TextPart)
  BY SpecsAre
<1>7. u = IF Len(Specs) < n THEN Len(Specs) ELSE n
  BY <1>2, <1>3, <1>6, AllAreUsed
<1>8. p'.partitions = [i \in 1 .. n |-> IF i > u THEN Nothing ELSE first.partitions[i]]
  BY <1>2 DEF Cut
<1>. HIDE DEF n, u
<1>9. Len(Specs) = 0
  BY <1>4, <1>5, <1>6, <1>7
<1>10. ASSUME NEW i \in 1 .. n PROVE ~(i <= Len(Specs)) /\ p'.partitions[i] = Nothing
  <2>1. i > u
    BY <1>4, <1>5
  <2>. QED BY <1>8, <1>9, <2>1
<1>. QED BY <1>10 DEF Makes

(* The table that a text begins with.                                      *)
Starts ==
  /\ arg \in Options /\ text \in Seq(TextPart) /\ p = StartOf(arg) /\ pc = "parse"
  /\ part = 0 /\ wpdata.active = 0 /\ wpdata.next_lba = arg.first_lba

LEMMA FollowStart == Starts => FollowInv
<1>. SUFFICES ASSUME Starts PROVE FollowInv
  OBVIOUS
<1>. USE DEF Starts
<1>1. Done = <<>>
  <2>1. 0 \in 0 .. Len(text)
    OBVIOUS
  <2>. QED BY <2>1, SpecsDef DEF Done
<1>2. /\ p.hdr.num_partition_entries = arg.num_parts /\ p.hdr.first_usable_lba = arg.first_lba
      /\ p.partitions = [i \in 1 .. GPT_MAX_NUM_PARTS |-> Nothing]
  BY DEF StartOf, NoHeader
<1>3. arg.first_lba \in Nat
  BY DEF Options
<1>4. Plain => arg.first_lba > 0
  BY <1>3 DEF Plain, NoneAtZero
<1>5. Makes(p, Done, GPT_MAX_NUM_PARTS)
  <2>1. \A i \in 1 .. GPT_MAX_NUM_PARTS : ~(i <= Len(<<>>))
    OBVIOUS
  <2>. QED BY <1>1, <1>2, <2>1 DEF Makes
<1>6. wpdata.next_lba = Before(p, wpdata.active + 1) /\ wpdata.active = Len(Done)
  <2>1. 0 + 1 = 1 /\ Len(<<>>) = 0
    OBVIOUS
  <2>. QED BY <1>1, <1>2, <2>1 DEF Before
<1>7. AllWhole(text, part)
  BY DEF AllWhole
<1>. QED BY <1>2, <1>4, <1>5, <1>6, <1>7 DEF FollowInv

LEMMA FollowList == ASSUME TypeInv, TableInv, ListReverse PROVE FollowInv'
<1>1. pc' = "parse" /\ part' = 0 /\ wpdata'.active = 0 /\ wpdata'.next_lba = arg'.first_lba
  BY DEF ListReverse
<1>2. p' = StartOf(arg') /\ arg' \in Options /\ text' \in Seq(TextPart)
  BY ListStep DEF TypeInv
<1>3. Starts'
  BY <1>1, <1>2 DEF Starts
<1>. QED BY <1>3, FollowStart, PTL

LEMMA FollowStep ==
  TypeInv /\ TableInv /\ FollowInv /\ [Next]_vars => FollowInv'
<1>. SUFFICES ASSUME TypeInv, TableInv, FollowInv, [Next]_vars PROVE FollowInv'
  OBVIOUS
<1>1. CASE Open
  BY <1>1 DEF Open, FollowInv, Plain, Named, NoneAtZero, NoneCut, Specs
<1>2. CASE Unpack
  <2>1. pc = "detected" /\ pc' = "json" /\ json = <<>> /\ UNCHANGED <<arg, text, p>>
    BY <1>2 DEF Unpack, TableInv
  <2>. QED BY <2>1 DEF FollowInv, Plain, Named, NoneAtZero, NoneCut, Specs
<1>3. CASE ParseFails \/ DetectFails \/ PackFails \/ UNCHANGED vars
  <2>1. UNCHANGED <<arg, text, part, p, wpdata, json>> /\ (pc' = pc \/ pc' \in {"refused", "undetected"})
    BY <1>3 DEF ParseFails, DetectFails, PackFails, vars
  <2>. QED BY <2>1 DEF FollowInv, Plain, Named, NoneAtZero, NoneCut, Specs, Done
<1>. QED BY <1>1, <1>2, <1>3, FollowParse, FollowWrite, FollowDetect, FollowPack, FollowList DEF Next

(* gpt_parse_part puts every named part where it says, or behind the one   *)
(* before, and of those that the buffers of gpt_parse_partitions hold none *)
(* is lost but what the table has no room for.                             *)
THEOREM PartitionsAreKept == Spec => []PartitionsFollow
<1>1. Init => FollowInv
  <2>. SUFFICES ASSUME Init PROVE FollowInv
    OBVIOUS
  <2>1. arg \in Options /\ text \in Seq(TextPart)
    BY TextAssumption DEF Init
  <2>2. p = StartOf(arg)
    BY DEF Init, StartOf
  <2>3. wpdata.active = 0 /\ wpdata.next_lba = arg.first_lba /\ part = 0 /\ pc = "parse"
    BY DEF Init
  <2>. QED BY <2>1, <2>2, <2>3, FollowStart DEF Starts
<1>2. TypeInv /\ TableInv /\ FollowInv => PartitionsFollow
  <2>. SUFFICES ASSUME TypeInv, TableInv, FollowInv, pc = "detected", json = <<>>, Plain
                PROVE  PartitionsFollow
    BY DEF PartitionsFollow, Plain
  <2>. DEFINE n == p.hdr.num_partition_entries
              u == UsedCount(p.partitions)
              f == UsedEntries(p.partitions)
  <2>1. p \in GptTables /\ Checked(p) /\ n = EntriesFor(arg) /\ Makes(p, Specs, n)
    BY DEF TypeInv, TableInv, FollowInv
  <2>2. Specs \in Seq(TextPart)
    BY SpecsAre
  <2>3. u = IF Len(Specs) < n THEN Len(Specs) ELSE n
    BY <2>1, <2>2, AllAreUsed
  <2>4. /\ Len(f) = u /\ DOMAIN f = 1 .. u /\ \A i \in 1 .. u : f[i] = p.partitions[i]
    BY <2>1, UsedEntriesAre DEF GptTables
  <2>5. n \in Nat
    BY <2>1 DEF GptTables, Header
  <2>. HIDE DEF n, u, f
  <2>6. u \in Nat /\ \A i \in 1 .. u : i \in 1 .. n /\ i <= Len(Specs)
    BY <2>2, <2>3, <2>5
  <2>7. ASSUME NEW i \in DOMAIN f
        PROVE  /\ f[i].name = Specs[i].name
               /\ SizeLba(f[i]) = to_partition_lba_size(Specs[i].size)
               /\ f[i].start = Blocks(Specs[i].start, Predicted(f, i))
    <3>1. i \in 1 .. u /\ i \in 1 .. n /\ i <= Len(Specs)
      BY <2>4, <2>6
    <3>2. MadeOf(p, i, Specs[i])
      BY <2>1, <3>1 DEF Makes
    <3>3. Predicted(f, i) = Before(p, i)
      <4>1. i # 1 => i - 1 \in 1 .. u
        BY <2>6, <3>1
      <4>. QED BY <2>4, <4>1 DEF Predicted, Before
    <3>. QED BY <2>4, <3>1, <3>2, <3>3 DEF MadeOf
  <2>8. Len(f) = IF Len(Specs) < EntriesFor(arg) THEN Len(Specs) ELSE EntriesFor(arg)
    BY <2>1, <2>3, <2>4
  <2>. QED BY <2>7, <2>8 DEF PartitionsFollow, f
<1>. QED BY <1>1, <1>2, Tables, FollowStep, PTL DEF Spec
=============================================================================
