----------------------------- MODULE DiskProofs ------------------------------
(***************************************************************************)
(* Proofs about Disk, for any disk and any tables: what is registered, and *)
(* what a lookup in it answers.                                            *)
(***************************************************************************)
EXTENDS Disk, FiniteSetTheorems, Lemmas

-----------------------------------------------------------------------------
(* find_registed_partition.  A table that has the address changes what was *)
(* found only if it is better, and then to one of its partitions.          *)
Has(dp, addr, n) == \E k \in 1 .. n : Holds(dp.parts[k], addr)
IsPartOf(dp, addr, best) == \E k \in 1 .. Len(dp.parts) : Holds(dp.parts[k], addr) /\ best = <<dp.parts[k]>>

AfterTable(dp, addr, n, found, r) ==
  /\ r.score \in Nat
  /\ IF Has(dp, addr, n) /\ dp.score > found.score
     THEN r.score = dp.score /\ IsPartOf(dp, addr, r.best)
     ELSE r.score = found.score /\ r.best = found.best

IsWalk(dp, addr, found, N, r) ==
  \E g : /\ g = [k \in 0 .. N |-> IF k = 0 THEN found ELSE Visit(dp, addr, g[k - 1], dp.parts[k])]
        /\ r = g[N]

LEMMA WalkDef ==
  ASSUME NEW dp, NEW addr, NEW found, Len(dp.parts) \in Nat
  PROVE  IsWalk(dp, addr, found, Len(dp.parts), Walk(dp, addr, found))
<1>. DEFINE V(x, k) == Visit(dp, addr, x, dp.parts[k])
            To(n) == \E g : g = [k \in 0 .. n |-> IF k = 0 THEN found ELSE V(g[k - 1], k)]
            S == {n \in Nat : To(n)}
<1>. HIDE DEF V
<1>1. 0 \in S
  <2>. DEFINE g == [k \in 0 .. 0 |-> found]
  <2>1. g = [k \in 0 .. 0 |-> IF k = 0 THEN found ELSE V(g[k - 1], k)]
    OBVIOUS
  <2>2. To(0)
    <3>. HIDE DEF g
    <3>. QED BY <2>1
  <2>. HIDE DEF To
  <2>. QED BY <2>2
<1>2. ASSUME NEW n \in Nat, n \in S PROVE n + 1 \in S
  <2>1. PICK g : g = [k \in 0 .. n |-> IF k = 0 THEN found ELSE V(g[k - 1], k)]
    BY <1>2
  <2>. DEFINE h == [k \in 0 .. n + 1 |-> IF k = n + 1 THEN V(g[n], n + 1) ELSE g[k]]
  <2>2. ASSUME NEW k \in 0 .. n + 1 PROVE h[k] = IF k = 0 THEN found ELSE V(h[k - 1], k)
    <3>1. CASE k = n + 1
      BY <3>1
    <3>2. CASE k # n + 1
      <4>1. k \in 0 .. n /\ h[k] = g[k] /\ (k # 0 => h[k - 1] = g[k - 1])
        BY <3>2
      <4>. QED BY <2>1, <4>1
    <3>. QED BY <3>1, <3>2
  <2>3. h = [k \in 0 .. n + 1 |-> IF k = 0 THEN found ELSE V(h[k - 1], k)]
    <3>1. h = [k \in 0 .. n + 1 |-> h[k]]
      OBVIOUS
    <3>. HIDE DEF h
    <3>. QED BY <2>2, <3>1
  <2>4. To(n + 1)
    <3>. HIDE DEF h
    <3>. QED BY <2>3
  <2>. HIDE DEF To
  <2>. QED BY <2>4
<1>3. To(Len(dp.parts))
  <2>. HIDE DEF To
  <2>1. \A n \in Nat : n \in S
    <3>. HIDE DEF S
    <3>. QED BY <1>1, <1>2, SetInduction
  <2>. QED BY <2>1
<1>. DEFINE N == Len(dp.parts)
            W == CHOOSE g : g = [k \in 0 .. N |-> IF k = 0 THEN found ELSE V(g[k - 1], k)]
<1>4. W = [k \in 0 .. N |-> IF k = 0 THEN found ELSE V(W[k - 1], k)]
  <2>. HIDE DEF N
  <2>1. \E g : g = [k \in 0 .. N |-> IF k = 0 THEN found ELSE V(g[k - 1], k)]
    BY <1>3 DEF N
  <2>. QED BY <2>1
<1>5. Walk(dp, addr, found) = W[N]
  BY DEF Walk, V
<1>. QED BY <1>4, <1>5 DEF V, IsWalk

LEMMA VisitExact ==
  ASSUME NEW dp, NEW addr, NEW found, NEW n \in Nat, n + 1 <= Len(dp.parts), Len(dp.parts) \in Nat,
         dp.score \in Nat, found.score \in Nat, NEW x, AfterTable(dp, addr, n, found, x)
  PROVE  AfterTable(dp, addr, n + 1, found, Visit(dp, addr, x, dp.parts[n + 1]))
<1>. DEFINE r == Visit(dp, addr, x, dp.parts[n + 1])
            here == Holds(dp.parts[n + 1], addr)
<1>1. Has(dp, addr, n + 1) <=> Has(dp, addr, n) \/ here
  <2>. HIDE DEF here
  <2>1. \A k \in 1 .. n + 1 : k \in 1 .. n \/ k = n + 1
    OBVIOUS
  <2>2. n + 1 \in 1 .. n + 1 /\ \A k \in 1 .. n : k \in 1 .. n + 1
    OBVIOUS
  <2>. QED BY <2>1, <2>2, Zenon DEF Has, here
<1>2. CASE ~here
  <2>1. r = x
    BY <1>2 DEF Visit
  <2>. HIDE DEF r, here
  <2>. QED BY <1>1, <1>2, <2>1 DEF AfterTable, r
<1>3. CASE here
  <2>1. /\ r.best = IF dp.score > x.score THEN <<dp.parts[n + 1]>> ELSE x.best
        /\ r.score = IF dp.score > x.score THEN dp.score ELSE x.score
    BY <1>3 DEF Visit
  <2>2. IsPartOf(dp, addr, <<dp.parts[n + 1]>>)
    <3>1. n + 1 \in 1 .. Len(dp.parts)
      OBVIOUS
    <3>. QED BY <1>3, <3>1 DEF IsPartOf
  <2>. HIDE DEF r, here
  <2>3. CASE dp.score > found.score
    <3>1. CASE Has(dp, addr, n)
      <4>1. x.score = dp.score /\ IsPartOf(dp, addr, x.best)
        BY <2>3, <3>1 DEF AfterTable
      <4>. QED BY <1>1, <2>1, <2>3, <3>1, <4>1 DEF AfterTable, r
    <3>2. CASE ~Has(dp, addr, n)
      <4>1. x.score = found.score
        BY <3>2 DEF AfterTable
      <4>. QED BY <1>1, <1>3, <2>1, <2>2, <2>3, <4>1 DEF AfterTable, r
    <3>. QED BY <3>1, <3>2
  <2>4. CASE ~(dp.score > found.score)
    <3>1. x.score = found.score /\ x.best = found.best
      BY <2>4 DEF AfterTable
    <3>. QED BY <2>1, <2>4, <3>1 DEF AfterTable, r
  <2>. QED BY <2>3, <2>4
<1>. QED BY <1>2, <1>3

LEMMA WalkExact ==
  ASSUME NEW dp, NEW addr, NEW found, Len(dp.parts) \in Nat, dp.score \in Nat, found.score \in Nat
  PROVE  AfterTable(dp, addr, Len(dp.parts), found, Walk(dp, addr, found))
<1>. DEFINE N == Len(dp.parts)
<1>1. PICK g : /\ g = [k \in 0 .. N |-> IF k = 0 THEN found ELSE Visit(dp, addr, g[k - 1], dp.parts[k])]
               /\ Walk(dp, addr, found) = g[N]
  <2>1. IsWalk(dp, addr, found, N, Walk(dp, addr, found))
    BY WalkDef, Zenon
  <2>. QED BY <2>1 DEF IsWalk
<1>. DEFINE S == {n \in Nat : n <= N => AfterTable(dp, addr, n, found, g[n])}
<1>2. 0 \in S
  <2>1. g[0] = found
    BY <1>1
  <2>2. ~Has(dp, addr, 0)
    BY DEF Has
  <2>. QED BY <2>1, <2>2 DEF AfterTable
<1>3. ASSUME NEW n \in Nat, n \in S PROVE n + 1 \in S
  <2>. SUFFICES ASSUME n + 1 <= N PROVE AfterTable(dp, addr, n + 1, found, g[n + 1])
    OBVIOUS
  <2>1. AfterTable(dp, addr, n, found, g[n])
    BY <1>3
  <2>2. n + 1 \in 0 .. N /\ n + 1 # 0 /\ (n + 1) - 1 = n
    OBVIOUS
  <2>3. g[n + 1] = Visit(dp, addr, g[n], dp.parts[n + 1])
    BY <1>1, <2>2
  <2>. QED BY <2>1, <2>3, VisitExact
<1>4. \A n \in Nat : n \in S
  <2>. HIDE DEF S
  <2>. QED BY <1>2, <1>3, SetInduction
<1>5. AfterTable(dp, addr, N, found, g[N])
  BY <1>4
<1>. QED BY <1>1, <1>5, Zenon

-----------------------------------------------------------------------------
(* The registry.                                                           *)
RegistryInv == disk_parts_array \in Seq(Registered)

TableHas(i, addr) == Has(disk_parts_array[i], addr, Len(disk_parts_array[i].parts))

(* What was found in the first n tables: of those that have the address,   *)
(* a partition of one with the best score.                                 *)
AfterTables(n, addr, r) ==
  /\ r.score \in Nat
  /\ \A i \in 1 .. n : TableHas(i, addr) => disk_parts_array[i].score <= r.score
  /\ r.score # 0 => \E i \in 1 .. n : /\ disk_parts_array[i].score = r.score
                                    /\ IsPartOf(disk_parts_array[i], addr, r.best)

LEMMA FindDef ==
  ASSUME NEW addr, Len(disk_parts_array) \in Nat
  PROVE  \E g : /\ g = [i \in 0 .. Len(disk_parts_array) |->
                          IF i = 0 THEN NoMatch ELSE Walk(disk_parts_array[i], addr, g[i - 1])]
                /\ find_registed_partition(addr) = g[Len(disk_parts_array)]
<1>. DEFINE V(x, k) == Walk(disk_parts_array[k], addr, x)
            To(n) == \E g : g = [k \in 0 .. n |-> IF k = 0 THEN NoMatch ELSE V(g[k - 1], k)]
            S == {n \in Nat : To(n)}
<1>. HIDE DEF V
<1>1. 0 \in S
  <2>. DEFINE g == [k \in 0 .. 0 |-> NoMatch]
  <2>1. g = [k \in 0 .. 0 |-> IF k = 0 THEN NoMatch ELSE V(g[k - 1], k)]
    OBVIOUS
  <2>2. To(0)
    <3>. HIDE DEF g
    <3>. QED BY <2>1
  <2>. HIDE DEF To
  <2>. QED BY <2>2
<1>2. ASSUME NEW n \in Nat, n \in S PROVE n + 1 \in S
  <2>1. PICK g : g = [k \in 0 .. n |-> IF k = 0 THEN NoMatch ELSE V(g[k - 1], k)]
    BY <1>2
  <2>. DEFINE h == [k \in 0 .. n + 1 |-> IF k = n + 1 THEN V(g[n], n + 1) ELSE g[k]]
  <2>2. ASSUME NEW k \in 0 .. n + 1 PROVE h[k] = IF k = 0 THEN NoMatch ELSE V(h[k - 1], k)
    <3>1. CASE k = n + 1
      BY <3>1
    <3>2. CASE k # n + 1
      <4>1. k \in 0 .. n /\ h[k] = g[k] /\ (k # 0 => h[k - 1] = g[k - 1])
        BY <3>2
      <4>. QED BY <2>1, <4>1
    <3>. QED BY <3>1, <3>2
  <2>3. h = [k \in 0 .. n + 1 |-> IF k = 0 THEN NoMatch ELSE V(h[k - 1], k)]
    <3>1. h = [k \in 0 .. n + 1 |-> h[k]]
      OBVIOUS
    <3>. HIDE DEF h
    <3>. QED BY <2>2, <3>1
  <2>4. To(n + 1)
    <3>. HIDE DEF h
    <3>. QED BY <2>3
  <2>. HIDE DEF To
  <2>. QED BY <2>4
<1>3. To(Len(disk_parts_array))
  <2>. HIDE DEF To
  <2>1. \A n \in Nat : n \in S
    <3>. HIDE DEF S
    <3>. QED BY <1>1, <1>2, SetInduction
  <2>. QED BY <2>1
<1>. DEFINE N == Len(disk_parts_array)
            W == CHOOSE g : g = [k \in 0 .. N |-> IF k = 0 THEN NoMatch ELSE V(g[k - 1], k)]
<1>4. W = [k \in 0 .. N |-> IF k = 0 THEN NoMatch ELSE V(W[k - 1], k)]
  <2>. HIDE DEF N
  <2>1. \E g : g = [k \in 0 .. N |-> IF k = 0 THEN NoMatch ELSE V(g[k - 1], k)]
    BY <1>3 DEF N
  <2>. QED BY <2>1
<1>5. find_registed_partition(addr) = W[N]
  BY DEF find_registed_partition, V
<1>. QED BY <1>4, <1>5 DEF V

LEMMA RegisteredTable ==
  ASSUME RegistryInv
  PROVE  /\ Len(disk_parts_array) \in Nat
         /\ \A i \in 1 .. Len(disk_parts_array) :
              /\ disk_parts_array[i] \in Registered
              /\ disk_parts_array[i].score \in Nat \ {0}
              /\ disk_parts_array[i].parts \in Seq(Partition)
              /\ Len(disk_parts_array[i].parts) \in Nat
<1>1. \A i \in 1 .. Len(disk_parts_array) : disk_parts_array[i] \in Registered
  BY DEF RegistryInv
<1>2. \A dp \in Registered : dp.score \in Nat \ {0} /\ dp.parts \in Seq(Partition) /\ Len(dp.parts) \in Nat
  BY DEF Registered
<1>3. Len(disk_parts_array) \in Nat
  BY DEF RegistryInv
<1>. QED BY <1>1, <1>2, <1>3, Zenon

LEMMA FindExact ==
  ASSUME RegistryInv, NEW addr
  PROVE  AfterTables(Len(disk_parts_array), addr, find_registed_partition(addr))
<1>. DEFINE N == Len(disk_parts_array)
<1>1. /\ N \in Nat
      /\ \A i \in 1 .. N : /\ disk_parts_array[i].score \in Nat \ {0}
                           /\ Len(disk_parts_array[i].parts) \in Nat
  BY RegisteredTable, Zenon
<1>2. PICK g : /\ g = [i \in 0 .. N |-> IF i = 0 THEN NoMatch ELSE Walk(disk_parts_array[i], addr, g[i - 1])]
               /\ find_registed_partition(addr) = g[N]
  BY <1>1, FindDef, Zenon
<1>. DEFINE S == {n \in Nat : n <= N => AfterTables(n, addr, g[n])}
<1>3. 0 \in S
  <2>1. g[0] = NoMatch
    BY <1>1, <1>2
  <2>. QED BY <2>1 DEF AfterTables, NoMatch
<1>4. ASSUME NEW n \in Nat, n \in S PROVE n + 1 \in S
  <2>. SUFFICES ASSUME n + 1 <= N PROVE AfterTables(n + 1, addr, g[n + 1])
    OBVIOUS
  <2>. DEFINE dp == disk_parts_array[n + 1]
              x  == g[n]
              r  == g[n + 1]
  <2>1. AfterTables(n, addr, x)
    BY <1>1, <1>4
  <2>2. n + 1 \in 0 .. N /\ n + 1 # 0 /\ (n + 1) - 1 = n /\ n + 1 \in 1 .. N
    BY <1>1
  <2>3. r = Walk(dp, addr, x)
    BY <1>2, <2>2
  <2>4. dp.score \in Nat \ {0} /\ Len(dp.parts) \in Nat
    BY <1>1, <2>2
  <2>5. x.score \in Nat
    BY <2>1 DEF AfterTables
  <2>. HIDE DEF x, r
  <2>6. AfterTable(dp, addr, Len(dp.parts), x, r)
    BY <2>3, <2>4, <2>5, WalkExact
  <2>. HIDE DEF dp
  <2>7. TableHas(n + 1, addr) <=> Has(dp, addr, Len(dp.parts))
    BY DEF TableHas, dp
  <2>8. \A i \in 1 .. n + 1 : i \in 1 .. n \/ i = n + 1
    OBVIOUS
  <2>9. \A i \in 1 .. n : i \in 1 .. n + 1
    OBVIOUS
  <2>10. CASE Has(dp, addr, Len(dp.parts)) /\ dp.score > x.score
    <3>1. r.score = dp.score /\ IsPartOf(dp, addr, r.best) /\ r.score \in Nat
      BY <2>6, <2>10 DEF AfterTable
    <3>2. ASSUME NEW i \in 1 .. n + 1, TableHas(i, addr) PROVE disk_parts_array[i].score <= r.score
      <4>1. CASE i = n + 1
        BY <3>1, <4>1, <2>4 DEF dp
      <4>2. CASE i \in 1 .. n
        <5>1. disk_parts_array[i].score <= x.score /\ disk_parts_array[i].score \in Nat
          <6>1. i \in 1 .. N
            BY <1>1, <4>2
          <6>. QED BY <1>1, <2>1, <3>2, <4>2, <6>1 DEF AfterTables
        <5>. QED BY <2>4, <2>5, <2>10, <3>1, <5>1
      <4>. QED BY <2>8, <4>1, <4>2
    <3>3. n + 1 \in 1 .. n + 1
      OBVIOUS
    <3>. QED BY <3>1, <3>2, <3>3 DEF AfterTables, r, dp
  <2>11. CASE ~(Has(dp, addr, Len(dp.parts)) /\ dp.score > x.score)
    <3>1. r.score = x.score /\ r.best = x.best
      BY <2>6, <2>11 DEF AfterTable
    <3>2. ASSUME NEW i \in 1 .. n + 1, TableHas(i, addr) PROVE disk_parts_array[i].score <= r.score
      <4>1. CASE i = n + 1
        <5>1. ~(dp.score > x.score)
          BY <2>7, <2>11, <3>2, <4>1
        <5>. QED BY <2>4, <2>5, <3>1, <4>1, <5>1 DEF dp
      <4>2. CASE i \in 1 .. n
        BY <2>1, <3>1, <3>2, <4>2 DEF AfterTables
      <4>. QED BY <2>8, <4>1, <4>2
    <3>. QED BY <2>1, <2>5, <2>9, <3>1, <3>2 DEF AfterTables, r
  <2>. QED BY <2>10, <2>11
<1>5. \A n \in Nat : n \in S
  <2>. HIDE DEF S
  <2>. QED BY <1>3, <1>4, SetInduction
<1>6. AfterTables(N, addr, g[N])
  BY <1>1, <1>5
<1>. QED BY <1>2, <1>6, Zenon

-----------------------------------------------------------------------------
(* Types.  The table walked lies in the disk, and primary_count counts the *)
(* entries it is said to count, which are at most those named later.       *)
Walking == mbr_pc \in {"table", "entry", "register"}
CountInv == Walking => primary_count = Cardinality(BeforeExtended(primary))
TypeInv == MbrTypeOK /\ CountInv

LEMMA Slots ==
  ASSUME NEW table \in Table
  PROVE  /\ IsFiniteSet(BeforeExtended(table))
         /\ Cardinality(BeforeExtended(table)) \in 0 .. DOS_PRIMARY_PARTITIONS
<1>. DEFINE I == 1 .. DOS_PRIMARY_PARTITIONS
<1>1. IsFiniteSet(I) /\ Cardinality(I) = 4
  <2>1. \A a, b \in Int : IsFiniteSet(a .. b) /\ Cardinality(a .. b) = IF a > b THEN 0 ELSE b - a + 1
    BY FS_Interval, Zenon
  <2>2. 1 \in Int /\ 4 \in Int
    OBVIOUS
  <2>3. IsFiniteSet(1 .. 4) /\ Cardinality(1 .. 4) = IF 1 > 4 THEN 0 ELSE 4 - 1 + 1
    BY <2>1, <2>2, Zenon
  <2>. QED BY <2>3 DEF DOS_PRIMARY_PARTITIONS
<1>2. BeforeExtended(table) \in SUBSET I
  BY DEF BeforeExtended, Table
<1>. HIDE DEF I
<1>3. IsFiniteSet(BeforeExtended(table)) /\ Cardinality(BeforeExtended(table)) <= 4
  BY <1>1, <1>2, FS_Subset
<1>4. Cardinality(BeforeExtended(table)) \in Nat
  BY <1>3, FS_CardinalityType
<1>. QED BY <1>3, <1>4 DEF DOS_PRIMARY_PARTITIONS

LEMMA SectorTable ==
  ASSUME MbrTypeOK, NEW s \in Nat, s < NSectors
  PROVE  disk[s + 1].parts \in Table
<1>1. disk \in Seq(Sector)
  BY DisksAssumption DEF MbrTypeOK
<1>2. s + 1 \in 1 .. Len(disk)
  BY <1>1 DEF NSectors
<1>3. disk[s + 1] \in Sector
  BY <1>1, <1>2
<1>. QED BY <1>3 DEF Sector

LEMMA FirstTable ==
  ASSUME MbrTypeOK
  PROVE  disk[1].parts \in Table /\ NSectors \in Nat \ {0}
<1>1. disk \in Seq(Sector) /\ disk # <<>>
  BY DisksAssumption DEF MbrTypeOK
<1>2. Len(disk) \in Nat \ {0}
  BY <1>1
<1>3. disk[1] \in Sector
  BY <1>1, <1>2
<1>. QED BY <1>2, <1>3 DEF Sector, NSectors

LEMMA TableSectorType == ASSUME MbrTypeOK PROVE TableSector \in Nat
<1>1. extend_start \in Int /\ part_start \in Int /\ SectorMod \in Nat \ {0} /\ SeekMod \in Nat \ {0}
  BY MbrAssumption DEF MbrTypeOK
<1>2. (extend_start + part_start) % SectorMod \in Int
  BY <1>1
<1>. DEFINE x == (extend_start + part_start) % SectorMod
<1>. HIDE DEF x
<1>3. x % SeekMod \in Nat
  BY <1>1, <1>2 DEF x
<1>. QED BY <1>3 DEF TableSector, x

LEMMA TypeInit == MbrInit => TypeInv
<1>1. 0 \in 0 .. SectorMod - 1
  BY MbrAssumption
<1>2. EmptyTable \in Table
  BY <1>1 DEF EmptyTable, EmptyEntry, Table, Entry
<1>. SUFFICES ASSUME MbrInit PROVE TypeInv
  OBVIOUS
<1>3. disk \in Seq(Sector) /\ disk # <<>>
  BY DisksAssumption DEF MbrInit
<1>4. NSectors \in Nat
  BY <1>3 DEF NSectors
<1>5. logic \in Seq(Entry)
  BY DEF MbrInit
<1>6. primary \in Table /\ parts \in Table
  BY <1>2 DEF MbrInit
<1>7. CountInv
  BY DEF MbrInit, CountInv, Walking
<1>8. /\ disk \in Disks /\ force_type \in BOOLEAN
      /\ mbr_pc \in {"detect", "table", "entry", "register", "done"} /\ overrun \in BOOLEAN
  BY Zenon DEF MbrInit
<1>9. /\ ret \in {0, -1} /\ primary_count \in 0 .. DOS_PRIMARY_PARTITIONS
      /\ extend_start \in 0 .. SectorMod - 1 /\ part_start \in 0 .. SectorMod - 1
      /\ index \in 1 .. DOS_PRIMARY_PARTITIONS + 1 /\ idle \in 0 .. NSectors + 1
  BY <1>1, <1>4 DEF MbrInit, DOS_PRIMARY_PARTITIONS
<1>. QED BY <1>5, <1>6, <1>7, <1>8, <1>9, Zenon DEF TypeInv, MbrTypeOK

LEMMA TypeDetect == ASSUME TypeInv, MbrDetect PROVE TypeInv'
<1>. USE DEF TypeInv
<1>1. disk[1].parts \in Table /\ NSectors \in Nat
  BY FirstTable
<1>2. NSectors' = NSectors
  BY DEF MbrDetect, DetectRefuses, DetectPrimary, NSectors
<1>3. CASE DetectRefuses
  BY <1>1, <1>2, <1>3 DEF DetectRefuses, MbrTypeOK, CountInv, Walking, walk
<1>4. CASE DetectPrimary
  <2>1. primary' \in Table
    BY <1>1, <1>4 DEF DetectPrimary
  <2>2. primary_count' = Cardinality(BeforeExtended(primary')) /\ primary_count' \in 0 .. DOS_PRIMARY_PARTITIONS
    BY <1>4, <2>1, Slots DEF DetectPrimary
  <2>3. extend_start' \in 0 .. SectorMod - 1 /\ mbr_pc' \in {"register", "table"}
    <3>1. CASE UNCHANGED extend_start /\ mbr_pc' = "register"
      BY <3>1 DEF MbrTypeOK
    <3>2. ASSUME NEW i \in FirstExtended(primary'), extend_start' = primary'[i].start, mbr_pc' = "table"
          PROVE  extend_start' \in 0 .. SectorMod - 1 /\ mbr_pc' \in {"register", "table"}
      <4>1. primary'[i] \in Entry
        BY <2>1, <3>2 DEF FirstExtended, Table
      <4>. QED BY <3>2, <4>1 DEF Entry
    <3>. QED BY <1>4, <3>1, <3>2 DEF DetectPrimary
  <2>4. part_start' \in 0 .. SectorMod - 1
    BY <1>4, MbrAssumption DEF DetectPrimary
  <2>5. UNCHANGED <<disk, force_type, ret, logic, parts, index, idle, overrun>>
    BY <1>4 DEF DetectPrimary
  <2>6. MbrTypeOK'
    BY <1>2, <2>1, <2>2, <2>3, <2>4, <2>5 DEF MbrTypeOK
  <2>. QED BY <2>2, <2>6 DEF CountInv
<1>. QED BY <1>3, <1>4 DEF MbrDetect

LEMMA TypeWalk == ASSUME TypeInv, MbrWalk PROVE TypeInv'
<1>. USE DEF TypeInv
<1>1. NSectors \in Nat
  BY FirstTable
<1>2. UNCHANGED <<disk, force_type, primary, primary_count, extend_start>> /\ NSectors' = NSectors
  BY DEF MbrWalk, ReadTableFails, ReadTable, SkipEmpty, TableDone, SaveLogicFails, SaveLogic,
     FollowLink, walk, detected, NSectors
<1>3. Walking
  BY DEF MbrWalk, ReadTableFails, ReadTable, SkipEmpty, TableDone, SaveLogicFails, SaveLogic,
     FollowLink, AtEntry, Walking
<1>4. CountInv'
  BY <1>2, <1>3 DEF CountInv, BeforeExtended
<1>. SUFFICES MbrTypeOK'
  BY <1>4
<1>5. CASE ReadTableFails \/ SaveLogicFails
  BY <1>2, <1>5 DEF ReadTableFails, SaveLogicFails, Fail, MbrTypeOK, walk
<1>6. CASE ReadTable
  <2>1. disk[TableSector + 1].parts \in Table
    BY <1>6, TableSectorType, SectorTable DEF ReadTable
  <2>2. /\ mbr_pc' \in {"entry", "register"}
        /\ parts' \in {disk[TableSector + 1].parts, parts}
        /\ index' \in {1, index} /\ idle' \in {idle, idle + 1} /\ idle <= NSectors
        /\ UNCHANGED <<ret, logic, part_start, overrun>>
    BY <1>6 DEF ReadTable, detected
  <2>3. parts' \in Table
    BY <2>1, <2>2 DEF MbrTypeOK
  <2>4. index' \in 1 .. DOS_PRIMARY_PARTITIONS + 1 /\ idle' \in 0 .. NSectors + 1
    BY <1>1, <2>2 DEF MbrTypeOK, DOS_PRIMARY_PARTITIONS
  <2>. QED BY <1>2, <2>2, <2>3, <2>4 DEF MbrTypeOK
<1>7. CASE SkipEmpty
  BY <1>2, <1>7 DEF SkipEmpty, AtEntry, MbrTypeOK, detected, DOS_PRIMARY_PARTITIONS
<1>8. CASE TableDone
  BY <1>2, <1>8 DEF TableDone, MbrTypeOK, detected, walk
<1>9. CASE SaveLogic
  <2>1. parts[index] \in Entry
    BY <1>9 DEF SaveLogic, AtEntry, MbrTypeOK, Table, DOS_PRIMARY_PARTITIONS
  <2>. DEFINE e == [parts[index] EXCEPT !.start = (@ + part_start + extend_start) % SectorMod]
  <2>2. e \in Entry
    <3>1. parts[index].start + part_start + extend_start \in Int /\ SectorMod \in Nat \ {0}
      BY <2>1, MbrAssumption DEF MbrTypeOK, Entry
    <3>2. (parts[index].start + part_start + extend_start) % SectorMod \in 0 .. SectorMod - 1
      BY <3>1
    <3>. QED BY <2>1, <3>2 DEF Entry
  <2>3. logic' = Append(logic, e) /\ index' = index + 1 /\ idle' = 0 /\ overrun' \in BOOLEAN
    BY <1>9 DEF SaveLogic
  <2>. HIDE DEF e
  <2>4. logic' \in Seq(Entry)
    BY <2>2, <2>3 DEF MbrTypeOK
  <2>5. index' \in 1 .. DOS_PRIMARY_PARTITIONS + 1 /\ idle' \in 0 .. NSectors + 1
    BY <1>1, <1>9, <2>3 DEF MbrTypeOK, SaveLogic, AtEntry, DOS_PRIMARY_PARTITIONS
  <2>6. UNCHANGED <<mbr_pc, ret, part_start, parts>>
    BY <1>9 DEF SaveLogic
  <2>. QED BY <1>2, <2>3, <2>4, <2>5, <2>6 DEF MbrTypeOK
<1>10. CASE FollowLink
  <2>1. parts[index].start \in 0 .. SectorMod - 1
    <3>1. parts[index] \in Entry
      BY <1>10 DEF FollowLink, AtEntry, MbrTypeOK, Table, DOS_PRIMARY_PARTITIONS
    <3>. QED BY <3>1 DEF Entry
  <2>. QED BY <1>2, <1>10, <2>1 DEF FollowLink, MbrTypeOK, detected
<1>. QED BY <1>5, <1>6, <1>7, <1>8, <1>9, <1>10 DEF MbrWalk

-----------------------------------------------------------------------------
(* What a disk registers.  The place of an element of a set of slots among *)
(* them: each has one of its own, and they are numbered from 1.            *)
LEMMA Places ==
  ASSUME NEW D \in SUBSET (1 .. DOS_PRIMARY_PARTITIONS)
  PROVE  LET place(i) == Cardinality({j \in D : j <= i})
         IN /\ Cardinality(D) \in Nat
            /\ \A i \in D : place(i) \in 1 .. Cardinality(D)
            /\ \A i, j \in D : place(i) = place(j) => i = j
            /\ \A k \in 1 .. Cardinality(D) : \E i \in D : place(i) = k
<1>. DEFINE P(i) == {j \in D : j <= i}
<1>1. IsFiniteSet(1 .. DOS_PRIMARY_PARTITIONS)
  <2>1. \A a, b \in Int : IsFiniteSet(a .. b)
    BY FS_Interval, Zenon
  <2>2. 1 \in Int /\ DOS_PRIMARY_PARTITIONS \in Int
    BY DEF DOS_PRIMARY_PARTITIONS
  <2>. QED BY <2>1, <2>2, Zenon
<1>2. IsFiniteSet(D)
  BY <1>1, FS_Subset, Zenon
<1>3. Cardinality(D) \in Nat
  BY <1>2, FS_CardinalityType, Zenon
<1>4. ASSUME NEW i \in D
      PROVE  IsFiniteSet(P(i)) /\ Cardinality(P(i)) \in 1 .. Cardinality(D)
  <2>1. P(i) \in SUBSET D
    OBVIOUS
  <2>2. i \in P(i)
    BY DEF DOS_PRIMARY_PARTITIONS
  <2>. HIDE DEF P
  <2>3. IsFiniteSet(P(i)) /\ Cardinality(P(i)) <= Cardinality(D)
    BY <1>2, <2>1, FS_Subset, Zenon
  <2>4. Cardinality(P(i)) \in Nat
    BY <2>3, FS_CardinalityType, Zenon
  <2>5. Cardinality(P(i)) # 0
    BY <2>2, <2>3, FS_EmptySet, Zenon
  <2>. QED BY <1>3, <2>3, <2>4, <2>5
<1>5. ASSUME NEW i \in D, NEW j \in D, i < j PROVE Cardinality(P(i)) # Cardinality(P(j))
  <2>. i \in Int /\ j \in Int /\ \A k \in D : k \in Int
    BY DEF DOS_PRIMARY_PARTITIONS
  <2>0. \A k \in D : k <= i => k <= j
    BY <1>5
  <2>1. P(i) \in SUBSET P(j) /\ j \in P(j) /\ j \notin P(i)
    <3>1. P(i) \in SUBSET P(j)
      BY <2>0, Zenon
    <3>2. j <= j /\ ~(j <= i)
      BY <1>5
    <3>. QED BY <3>1, <3>2, Zenon
  <2>2. IsFiniteSet(P(j))
    BY <1>4
  <2>. HIDE DEF P
  <2>. QED BY <2>1, <2>2, FS_Subset, Zenon
<1>6. ASSUME NEW i \in D, NEW j \in D, Cardinality(P(i)) = Cardinality(P(j)) PROVE i = j
  <2>1. i \in Int /\ j \in Int
    BY DEF DOS_PRIMARY_PARTITIONS
  <2>. HIDE DEF P
  <2>2. ~(i < j) /\ ~(j < i)
    BY <1>5, <1>6, Zenon
  <2>. QED BY <2>1, <2>2
<1>7. \A k \in 1 .. Cardinality(D) : \E i \in D : Cardinality(P(i)) = k
  <2>. DEFINE T == 1 .. Cardinality(D)
              f == [i \in D |-> Cardinality(P(i))]
  <2>1. f \in Injection(D, T)
    <3>1. f \in [D -> T]
      BY <1>4
    <3>. HIDE DEF P
    <3>2. \A i, j \in D : f[i] = f[j] => i = j
      BY <1>6
    <3>. QED BY <3>1, <3>2 DEF Injection, IsInjective
  <2>2. IsFiniteSet(T) /\ Cardinality(T) = Cardinality(D)
    <3>. DEFINE n == Cardinality(D)
    <3>1. \A a, b \in Int : IsFiniteSet(a .. b) /\ Cardinality(a .. b) = IF a > b THEN 0 ELSE b - a + 1
      BY FS_Interval, Zenon
    <3>2. n \in Nat /\ 1 \in Int /\ n \in Int
      BY <1>3
    <3>. HIDE DEF n
    <3>3. IsFiniteSet(1 .. n) /\ Cardinality(1 .. n) = IF 1 > n THEN 0 ELSE n - 1 + 1
      BY <3>1, <3>2, Zenon
    <3>4. Cardinality(1 .. n) = n
      BY <3>2, <3>3
    <3>. QED BY <3>3, <3>4 DEF n
  <2>. HIDE DEF f, T
  <2>3. f \in Surjection(D, T)
    BY <2>1, <2>2, FS_Injection, Zenon
  <2>. QED BY <2>3 DEF Surjection, f, T
<1>. QED BY <1>3, <1>4, <1>6, <1>7

(* The partitions named by the walk of mbr_detect: one for each primary    *)
(* entry with data and, behind them, one for each logical partition.       *)
LEMMA DataPrimaryType ==
  ASSUME MbrTypeOK
  PROVE  /\ DataPrimary \in SUBSET (1 .. DOS_PRIMARY_PARTITIONS)
         /\ \A i \in DataPrimary : primary[i] \in Entry
BY DEF DataPrimary, MbrTypeOK, Table

LEMMA DiskPartType ==
  ASSUME NEW n \in Nat, NEW e \in Entry
  PROVE  /\ DiskPart(n, e) \in Partition
         /\ DiskPart(n, e).start_addr = e.start * SECTOR_SIZE
         /\ e.size # 0 => DiskPart(n, e).end_addr = (e.start + e.size) * SECTOR_SIZE - 1
<1>. DEFINE start == e.start * SECTOR_SIZE
            end == (e.start + e.size) * SECTOR_SIZE - 1
<1>1. e.start \in 0 .. SectorMod - 1 /\ e.size \in 0 .. SectorMod - 1 /\ SectorMod \in Nat \ {0}
  BY MbrAssumption DEF Entry
<1>2. SECTOR_SIZE \in Nat \ {0} /\ AddrMod \in Nat /\ 2 * SectorMod * SECTOR_SIZE <= AddrMod
  BY CellAssumption, MbrAssumption
<1>3. start \in Nat /\ end \in Int /\ AddrMod > 0
  <2>1. 2 * SectorMod * SECTOR_SIZE > 0
    BY <1>1, <1>2
  <2>. QED BY <1>1, <1>2, <2>1
<1>4. e.size # 0 => end \in 0 .. AddrMod - 1
  <2>. DEFINE n2 == e.start + e.size
  <2>1. n2 \in Nat /\ n2 <= 2 * SectorMod /\ (e.size # 0 => n2 >= 1)
    BY <1>1
  <2>. HIDE DEF n2
  <2>2. n2 * SECTOR_SIZE <= (2 * SectorMod) * SECTOR_SIZE
    BY <1>1, <1>2, <2>1
  <2>3. n2 >= 1 => n2 * SECTOR_SIZE >= SECTOR_SIZE
    BY <1>2, <2>1
  <2>4. n2 * SECTOR_SIZE \in Nat
    BY <1>2, <2>1
  <2>. DEFINE x == n2 * SECTOR_SIZE
              y == (2 * SectorMod) * SECTOR_SIZE
  <2>5. end = x - 1
    BY DEF n2
  <2>6. x \in Nat /\ (n2 >= 1 => x >= 1)
    BY <1>2, <2>3, <2>4
  <2>. HIDE DEF x, y, end
  <2>7. x <= y /\ y <= AddrMod /\ y \in Int
    BY <1>1, <1>2, <2>2 DEF x, y
  <2>. QED BY <1>2, <2>1, <2>5, <2>6, <2>7
<1>. HIDE DEF start, end
<1>5. end % AddrMod \in Nat /\ (end \in 0 .. AddrMod - 1 => end % AddrMod = end)
  BY <1>2, <1>3
<1>6. DiskPart(n, e) = [name |-> n, start_addr |-> start, end_addr |-> end % AddrMod]
  BY DEF DiskPart, Part, start, end
<1>. QED BY <1>3, <1>4, <1>5, <1>6 DEF Partition, start, end

LEMMA WalkedExact ==
  ASSUME MbrTypeOK
  PROVE  /\ Walked \in Seq(Partition)
         /\ Cardinality(DataPrimary) \in Nat
         /\ Len(Walked) = Cardinality(DataPrimary) + Len(logic)
         /\ \A i \in DataPrimary : \E k \in 1 .. Cardinality(DataPrimary) :
              Walked[k] = DiskPart(i, primary[i])
         /\ \A k \in 1 .. Len(logic) :
              Walked[Cardinality(DataPrimary) + k] = DiskPart(DOS_PRIMARY_PARTITIONS + k, logic[k])
<1>. DEFINE D == DataPrimary
            place(i) == Cardinality({j \in D : j <= i})
            slot(k) == CHOOSE i \in D : place(i) = k
            first == [k \in 1 .. Cardinality(D) |-> DiskPart(slot(k), primary[slot(k)])]
            second == [k \in 1 .. Len(logic) |-> DiskPart(DOS_PRIMARY_PARTITIONS + k, logic[k])]
<1>1. /\ Cardinality(D) \in Nat
      /\ \A i \in D : place(i) \in 1 .. Cardinality(D)
      /\ \A i, j \in D : place(i) = place(j) => i = j
      /\ \A k \in 1 .. Cardinality(D) : \E i \in D : place(i) = k
  BY DataPrimaryType, Places, Zenon
<1>2. Walked = first \o second
  BY DEF Walked
<1>. HIDE DEF place
<1>3. \A i \in D : slot(place(i)) = i
  BY <1>1
<1>4. first \in Seq(Partition) /\ Len(first) = Cardinality(D)
  <2>1. \A k \in 1 .. Cardinality(D) : DiskPart(slot(k), primary[slot(k)]) \in Partition
    <3>. TAKE k \in 1 .. Cardinality(D)
    <3>1. slot(k) \in D
      BY <1>1
    <3>. HIDE DEF slot
    <3>2. slot(k) \in Nat /\ primary[slot(k)] \in Entry
      BY <3>1, DataPrimaryType DEF DOS_PRIMARY_PARTITIONS
    <3>. QED BY <3>2, DiskPartType
  <2>. HIDE DEF slot
  <2>. QED BY <1>1, <2>1
<1>5. second \in Seq(Partition) /\ Len(second) = Len(logic)
  <2>1. \A k \in 1 .. Len(logic) : DiskPart(DOS_PRIMARY_PARTITIONS + k, logic[k]) \in Partition
    <3>. TAKE k \in 1 .. Len(logic)
    <3>1. logic[k] \in Entry /\ DOS_PRIMARY_PARTITIONS + k \in Nat
      BY DEF MbrTypeOK, DOS_PRIMARY_PARTITIONS
    <3>. QED BY <3>1, DiskPartType
  <2>2. Len(logic) \in Nat
    BY DEF MbrTypeOK
  <2>. QED BY <2>1, <2>2
<1>6. /\ Walked \in Seq(Partition) /\ Len(Walked) = Len(first) + Len(second)
      /\ \A k \in 1 .. Len(first) : Walked[k] = first[k]
      /\ \A k \in 1 .. Len(second) : Walked[Len(first) + k] = second[k]
  <2>. HIDE DEF first, second
  <2>. QED BY <1>2, <1>4, <1>5, ConcatProperties
<1>7. \A i \in D : first[place(i)] = DiskPart(i, primary[i])
  BY <1>1, <1>3
<1>8. \A i \in D : \E k \in 1 .. Cardinality(D) : Walked[k] = DiskPart(i, primary[i])
  <2>. TAKE i \in D
  <2>. HIDE DEF first
  <2>1. place(i) \in 1 .. Cardinality(D) /\ Walked[place(i)] = DiskPart(i, primary[i])
    BY <1>1, <1>4, <1>6, <1>7
  <2>. QED BY <2>1
<1>9. \A k \in 1 .. Len(logic) : Walked[Cardinality(D) + k] = DiskPart(DOS_PRIMARY_PARTITIONS + k, logic[k])
  <2>. HIDE DEF first
  <2>1. \A k \in 1 .. Len(logic) : second[k] = DiskPart(DOS_PRIMARY_PARTITIONS + k, logic[k])
    OBVIOUS
  <2>. HIDE DEF second
  <2>. QED BY <1>4, <1>5, <1>6, <2>1
<1>. HIDE DEF first, second
<1>. QED BY <1>1, <1>4, <1>5, <1>6, <1>8, <1>9

-----------------------------------------------------------------------------
(* Registering a table: it is the last one, or there was no cell for it.   *)
LEMMA RegisterTable ==
  ASSUME RegistryInv, Len(disk_parts_array) <= GD_MAX_PARTITIONS,
         NEW dp \in [disk_type : {"MBR", "GPT"}, score : Nat, parts : Seq(Partition)],
         register_disk_partitions(dp)
  PROVE  /\ RegistryInv' /\ Len(disk_parts_array') <= GD_MAX_PARTITIONS
         /\ \/ disk_parts_array' = disk_parts_array
            \/ /\ Len(disk_parts_array') = Len(disk_parts_array) + 1
               /\ disk_parts_array'[Len(disk_parts_array) + 1].disk_type = dp.disk_type
               /\ disk_parts_array'[Len(disk_parts_array) + 1].parts = dp.parts
               /\ disk_parts_array'[Len(disk_parts_array) + 1].score =
                    IF dp.score = 0 THEN DISK_PARTITIONS_SCORE_GOOD ELSE dp.score
               /\ \A i \in 1 .. Len(disk_parts_array) : disk_parts_array'[i] = disk_parts_array[i]
<1>. DEFINE scored == IF dp.score = 0 THEN [dp EXCEPT !.score = DISK_PARTITIONS_SCORE_GOOD] ELSE dp
<1>1. /\ scored.disk_type = dp.disk_type /\ scored.parts = dp.parts
      /\ scored.score = IF dp.score = 0 THEN DISK_PARTITIONS_SCORE_GOOD ELSE dp.score
      /\ scored \in Registered
  <2>1. DISK_PARTITIONS_SCORE_GOOD \in Nat \ {0}
    BY ScoreAssumption
  <2>. QED BY <2>1 DEF Registered
<1>. HIDE DEF scored
<1>2. disk_parts_array' = IF Len(disk_parts_array) < GD_MAX_PARTITIONS
                          THEN Append(disk_parts_array, scored) ELSE disk_parts_array
  BY DEF register_disk_partitions, scored
<1>3. CASE Len(disk_parts_array) < GD_MAX_PARTITIONS
  <2>1. disk_parts_array' = Append(disk_parts_array, scored)
    BY <1>2, <1>3
  <2>2. disk_parts_array \in Seq(Registered) /\ GD_MAX_PARTITIONS \in Nat
    BY CellAssumption DEF RegistryInv
  <2>. DEFINE n == Len(disk_parts_array)
  <2>3. /\ disk_parts_array' \in Seq(Registered) /\ Len(disk_parts_array') = n + 1
        /\ disk_parts_array'[n + 1] = scored
        /\ \A i \in 1 .. n : disk_parts_array'[i] = disk_parts_array[i]
    BY <1>1, <2>1, <2>2
  <2>4. n + 1 <= GD_MAX_PARTITIONS
    BY <1>3, <2>2
  <2>. QED BY <1>1, <2>3, <2>4 DEF RegistryInv
<1>4. CASE ~(Len(disk_parts_array) < GD_MAX_PARTITIONS)
  <2>1. disk_parts_array' = disk_parts_array
    BY <1>2, <1>4
  <2>. QED BY <2>1 DEF RegistryInv
<1>. QED BY <1>3, <1>4

(* The entries of a GPT up to the first that ends the walk.                *)
GptEntry == [name : Nat, start : Nat, end : Nat]

LEMMA SomeUsed ==
  ASSUME NEW entries, Len(entries) \in Nat
  PROVE  /\ Gpt!UsedCount(entries) \in 0 .. Len(entries)
         /\ \A i \in 1 .. Gpt!UsedCount(entries) : ~Gpt!IsEnd(entries[i])
         /\ Gpt!UsedCount(entries) < Len(entries) => Gpt!IsEnd(entries[Gpt!UsedCount(entries) + 1])
<1>. DEFINE N == Len(entries)
            Ends(n) == n < N => Gpt!IsEnd(entries[n + 1])
            S == {n \in 0 .. N : Ends(n)}
<1>1. N \in S
  OBVIOUS
<1>2. S \in SUBSET Nat /\ S # {}
  BY <1>1
<1>3. PICK n \in S : \A m \in S : n <= m
  <2>. HIDE DEF S
  <2>. QED BY <1>2, LeastExists
<1>4. n \in 0 .. N /\ Ends(n)
  BY <1>3
<1>5. ASSUME NEW i \in 1 .. n PROVE ~Gpt!IsEnd(entries[i])
  <2>1. i - 1 \in 0 .. N /\ i - 1 < N /\ (i - 1) + 1 = i /\ ~(n <= i - 1)
    BY <1>4
  <2>2. i - 1 \notin S
    <3>. HIDE DEF S
    <3>. QED BY <1>3, <2>1
  <2>. QED BY <2>1, <2>2
<1>6. /\ Gpt!UsedCount(entries) \in 0 .. N
      /\ \A i \in 1 .. Gpt!UsedCount(entries) : ~Gpt!IsEnd(entries[i])
      /\ Gpt!UsedCount(entries) < N => Gpt!IsEnd(entries[Gpt!UsedCount(entries) + 1])
  <2>. HIDE DEF N
  <2>1. \E k \in 0 .. N : /\ \A i \in 1 .. k : ~Gpt!IsEnd(entries[i])
                          /\ k < N => Gpt!IsEnd(entries[k + 1])
    BY <1>4, <1>5, Zenon
  <2>2. Gpt!UsedCount(entries) = CHOOSE k \in 0 .. N : /\ \A i \in 1 .. k : ~Gpt!IsEnd(entries[i])
                                                       /\ k < N => Gpt!IsEnd(entries[k + 1])
    BY DEF Gpt!UsedCount, N
  <2>. QED BY <2>1, <2>2
<1>. QED BY <1>6

LEMMA GptPartsType ==
  ASSUME NEW entries \in GptEntries
  PROVE  Gpt!GptParts(entries) \in Seq(Partition)
<1>. DEFINE low == [i \in DOMAIN entries |-> Gpt!Low32(entries[i])]
            n == Gpt!UsedCount(low)
            used == Gpt!RegisteredEntries(entries)
<1>1. entries \in Seq(GptEntry)
  BY GptAssumption DEF GptEntry
<1>2. low \in Seq(GptEntry)
  <2>1. \A i \in 1 .. Len(entries) : Gpt!Low32(entries[i]) \in GptEntry
    <3>. TAKE i \in 1 .. Len(entries)
    <3>1. entries[i] \in GptEntry /\ Mod32 \in Nat \ {0}
      BY <1>1, GptAssumption
    <3>2. entries[i].start % Mod32 \in Nat /\ entries[i].end % Mod32 \in Nat
      BY <3>1 DEF GptEntry
    <3>. QED BY <3>1, <3>2 DEF GptEntry, Gpt!Low32
  <2>2. DOMAIN entries = 1 .. Len(entries) /\ Len(entries) \in Nat
    BY <1>1
  <2>. QED BY <2>1, <2>2
<1>. HIDE DEF low
<1>3. n \in 0 .. Len(low) /\ \A i \in 1 .. n : ~Gpt!IsEnd(low[i])
  BY <1>2, SomeUsed
<1>. HIDE DEF n
<1>4. /\ used \in Seq(GptEntry) /\ Len(used) = n
      /\ \A i \in 1 .. n : used[i] = low[i]
  <2>1. used = SubSeq(low, 1, n)
    BY DEF Gpt!RegisteredEntries, Gpt!UsedEntries, low, n
  <2>. QED BY <1>2, <1>3, <2>1
<1>. DEFINE part(i) == [name |-> used[i].name, start_addr |-> Gpt!lba2sz(used[i].start),
                        end_addr |-> (Gpt!lba2sz(used[i].end) - 1) % Mod32]
<1>5. Gpt!GptParts(entries) = [i \in 1 .. n |-> part(i)]
  <2>1. DOMAIN used = 1 .. n
    BY <1>3, <1>4
  <2>. QED BY <2>1 DEF Gpt!GptParts
<1>. HIDE DEF used
<1>6. \A i \in 1 .. n : part(i) \in Partition
  <2>. TAKE i \in 1 .. n
  <2>1. used[i].start \in Nat /\ used[i].end \in Nat /\ used[i].name \in Nat
    <3>1. used[i] \in GptEntry
      BY <1>3, <1>4
    <3>. QED BY <3>1 DEF GptEntry
  <2>2. \A x \in Nat : Gpt!lba2sz(x) \in Nat
    <3>1. \A x \in Nat : x * SECTOR_SIZE \in Nat
      BY CellAssumption
    <3>2. \A x \in Int : x % Mod32 \in Nat
      BY GptAssumption
    <3>. QED BY <3>1, <3>2 DEF Gpt!lba2sz
  <2>3. \A x \in Nat : (x - 1) % Mod32 \in Nat
    BY GptAssumption
  <2>4. /\ Gpt!lba2sz(used[i].start) \in Nat
        /\ (Gpt!lba2sz(used[i].end) - 1) % Mod32 \in Nat
    BY <2>1, <2>2, <2>3
  <2>. QED BY <2>1, <2>4 DEF Partition
<1>7. n \in Nat
  BY <1>2, <1>3
<1>. HIDE DEF part
<1>. QED BY <1>5, <1>6, <1>7

(* The walk ends at only one place.                                        *)
LEMMA UsedIs ==
  ASSUME NEW entries, Len(entries) \in Nat, NEW n \in 0 .. Len(entries),
         \A i \in 1 .. n : ~Gpt!IsEnd(entries[i]),
         n < Len(entries) => Gpt!IsEnd(entries[n + 1])
  PROVE  Gpt!UsedCount(entries) = n
<1>. DEFINE m == Gpt!UsedCount(entries)
<1>1. /\ m \in 0 .. Len(entries) /\ \A i \in 1 .. m : ~Gpt!IsEnd(entries[i])
      /\ m < Len(entries) => Gpt!IsEnd(entries[m + 1])
  BY SomeUsed
<1>. HIDE DEF m
<1>2. ~(m < n)
  <2>. SUFFICES ASSUME m < n PROVE FALSE
    OBVIOUS
  <2>1. m + 1 \in 1 .. n /\ m < Len(entries)
    BY <1>1
  <2>. QED BY <1>1, <2>1
<1>3. ~(n < m)
  <2>. SUFFICES ASSUME n < m PROVE FALSE
    OBVIOUS
  <2>1. n + 1 \in 1 .. m /\ n < Len(entries)
    BY <1>1
  <2>. QED BY <1>1, <2>1
<1>4. m = n
  BY <1>1, <1>2, <1>3
<1>. QED BY <1>4 DEF m

LEMMA SmallRemainder ==
  ASSUME NEW x \in Nat, NEW m \in Nat, x < m
  PROVE  x % m = x
OBVIOUS

(* Below 4 GiB what is registered is what the entries say.                 *)
LEMMA PartsAreOwn ==
  ASSUME NEW entries \in GptEntries, Below4G(entries)
  PROVE  Gpt!GptParts(entries) = Own(entries)
<1>. DEFINE N == Len(entries)
            low == [i \in DOMAIN entries |-> Gpt!Low32(entries[i])]
            n == Gpt!UsedCount(entries)
<1>1. entries \in Seq(GptEntry) /\ N \in Nat /\ DOMAIN entries = 1 .. N
  BY GptAssumption DEF GptEntry
<1>2. /\ n \in 0 .. N /\ \A i \in 1 .. n : ~Gpt!IsEnd(entries[i])
      /\ n < N => Gpt!IsEnd(entries[n + 1])
  BY <1>1, SomeUsed
<1>3. /\ Gpt!UsedEntries(entries) = SubSeq(entries, 1, n)
      /\ Gpt!RegisteredEntries(entries) = SubSeq(low, 1, Gpt!UsedCount(low))
  BY DEF Gpt!UsedEntries, Gpt!RegisteredEntries
<1>4. /\ Len(low) = N /\ DOMAIN low = 1 .. N
      /\ \A i \in 1 .. N : low[i] = Gpt!Low32(entries[i])
  <2>. HIDE DEF N
  <2>1. low = [i \in 1 .. N |-> Gpt!Low32(entries[i])]
    BY <1>1
  <2>. HIDE DEF low
  <2>. QED BY <1>1, <2>1
<1>. HIDE DEF N, low, n
<1>5. /\ DOMAIN Gpt!UsedEntries(entries) = 1 .. n
      /\ \A i \in 1 .. n : Gpt!UsedEntries(entries)[i] = entries[i]
  BY <1>1, <1>2, <1>3 DEF N
<1>6. ASSUME NEW i \in 1 .. n
      PROVE  /\ entries[i].start \in Nat /\ entries[i].end \in Nat /\ entries[i].end > 0
             /\ entries[i].start * SECTOR_SIZE < Mod32 /\ entries[i].end * SECTOR_SIZE < Mod32
             /\ Gpt!Low32(entries[i]) = entries[i]
  <2>1. i \in 1 .. N
    BY <1>1, <1>2
  <2>2. entries[i] \in GptEntry /\ ~Gpt!IsEnd(entries[i])
    BY <1>1, <1>2, <2>1 DEF N
  <2>3. entries[i].start \in Nat /\ entries[i].end \in Nat /\ entries[i].end # 0
    BY <2>2 DEF GptEntry, Gpt!IsEnd
  <2>4. entries[i].start * SECTOR_SIZE < Mod32 /\ entries[i].end * SECTOR_SIZE < Mod32
    BY <1>5 DEF Below4G
  <2>5. ASSUME NEW x \in Nat, x * SECTOR_SIZE < Mod32 PROVE x % Mod32 = x
    <3>. DEFINE y == x * SECTOR_SIZE
    <3>1. x <= y /\ y \in Nat
      BY CellAssumption
    <3>2. y < Mod32
      BY <2>5
    <3>. HIDE DEF y
    <3>3. x < Mod32
      BY <3>1, <3>2, GptAssumption
    <3>4. Mod32 \in Nat
      BY GptAssumption
    <3>. QED BY <3>3, <3>4, SmallRemainder
  <2>6. entries[i].start % Mod32 = entries[i].start /\ entries[i].end % Mod32 = entries[i].end
    BY <2>3, <2>4, <2>5
  <2>7. Gpt!Low32(entries[i]) = entries[i]
    BY <2>2, <2>6 DEF Gpt!Low32, GptEntry
  <2>. QED BY <2>3, <2>4, <2>7
<1>7. Gpt!UsedCount(low) = n
  <2>1. \A i \in 1 .. n : ~Gpt!IsEnd(low[i])
    BY <1>1, <1>2, <1>4, <1>6
  <2>2. ASSUME n < N PROVE Gpt!IsEnd(low[n + 1])
    <3>1. n + 1 \in 1 .. N
      BY <1>1, <1>2, <2>2
    <3>2. entries[n + 1] \in GptEntry /\ (entries[n + 1].start = 0 \/ entries[n + 1].end = 0)
      BY <1>1, <1>2, <2>2, <3>1 DEF N, Gpt!IsEnd
    <3>3. 0 % Mod32 = 0
      BY GptAssumption
    <3>4. /\ low[n + 1].start = entries[n + 1].start % Mod32
          /\ low[n + 1].end = entries[n + 1].end % Mod32
      BY <1>4, <3>1, <3>2 DEF Gpt!Low32, GptEntry
    <3>. QED BY <3>2, <3>3, <3>4 DEF Gpt!IsEnd
  <2>. QED BY <1>1, <1>2, <1>4, <2>1, <2>2, UsedIs
<1>8. /\ DOMAIN Gpt!RegisteredEntries(entries) = 1 .. n
      /\ \A i \in 1 .. n : Gpt!RegisteredEntries(entries)[i] = entries[i]
  <2>1. low \in Seq(GptEntry)
    <3>1. \A i \in 1 .. N : low[i] \in GptEntry
      <4>. TAKE i \in 1 .. N
      <4>1. entries[i] \in GptEntry
        BY <1>1 DEF N
      <4>2. entries[i].start % Mod32 \in Nat /\ entries[i].end % Mod32 \in Nat
        BY <4>1, GptAssumption DEF GptEntry
      <4>. QED BY <1>4, <4>1, <4>2 DEF GptEntry, Gpt!Low32
    <3>2. low = [i \in 1 .. N |-> low[i]]
      BY <1>1 DEF low
    <3>. QED BY <1>1, <3>1, <3>2
  <2>2. DOMAIN SubSeq(low, 1, n) = 1 .. n /\ \A i \in 1 .. n : SubSeq(low, 1, n)[i] = low[i]
    BY <1>1, <1>2, <1>4, <2>1
  <2>3. \A i \in 1 .. n : low[i] = entries[i]
    BY <1>1, <1>2, <1>4, <1>6
  <2>. QED BY <1>3, <1>7, <2>2, <2>3
<1>9. ASSUME NEW i \in 1 .. n
      PROVE  /\ Gpt!lba2sz(entries[i].start) = entries[i].start * SECTOR_SIZE
             /\ (Gpt!lba2sz(entries[i].end) - 1) % Mod32 = entries[i].end * SECTOR_SIZE - 1
  <2>. DEFINE s == entries[i].start * SECTOR_SIZE
              e == entries[i].end * SECTOR_SIZE
  <2>1. s \in Nat /\ e \in Nat /\ e > 0 /\ s < Mod32 /\ e < Mod32
    <3>1. \A x \in Nat : x <= x * SECTOR_SIZE /\ x * SECTOR_SIZE \in Nat
      BY CellAssumption
    <3>2. entries[i].start \in Nat /\ entries[i].end \in Nat /\ entries[i].end > 0
      BY <1>6
    <3>3. s \in Nat /\ e \in Nat /\ entries[i].end <= e
      BY <3>1, <3>2
    <3>4. s < Mod32 /\ e < Mod32
      BY <1>6
    <3>. HIDE DEF s, e
    <3>. QED BY <3>2, <3>3, <3>4
  <2>2. Gpt!lba2sz(entries[i].start) = s % Mod32 /\ Gpt!lba2sz(entries[i].end) = e % Mod32
    BY DEF Gpt!lba2sz
  <2>. HIDE DEF s, e
  <2>3. \A x \in Nat : x < Mod32 => x % Mod32 = x
    BY GptAssumption, SmallRemainder
  <2>4. e - 1 \in Nat /\ e - 1 < Mod32
    BY <2>1, GptAssumption
  <2>5. Gpt!lba2sz(entries[i].start) = s /\ Gpt!lba2sz(entries[i].end) = e /\ (e - 1) % Mod32 = e - 1
    BY <2>1, <2>2, <2>3, <2>4
  <2>. QED BY <2>5 DEF s, e
<1>. DEFINE part(i) == [name |-> entries[i].name, start_addr |-> entries[i].start * SECTOR_SIZE,
                        end_addr |-> entries[i].end * SECTOR_SIZE - 1]
<1>10. Gpt!GptParts(entries) = [i \in 1 .. n |-> part(i)]
  BY <1>8, <1>9 DEF Gpt!GptParts
<1>11. Own(entries) = [i \in 1 .. n |-> part(i)]
  BY <1>5 DEF Own, Part
<1>. QED BY <1>10, <1>11

-----------------------------------------------------------------------------
(* The invariant: types, the tables of the registry, and what the MBR's    *)
(* table covers once mbr_detect registered it.  Only a GPT has the best    *)
(* score, and the GPTs of the registry are those of gpts.                  *)
GptInv == gpts \in Seq(GptEntries)
IsGpt(dp) == dp.disk_type = "GPT"
TableOf(entries, dp) == IsGpt(dp) /\ dp.parts = Gpt!GptParts(entries)
ScoreInv ==
  /\ \A i \in 1 .. Len(disk_parts_array) :
       IF IsGpt(disk_parts_array[i])
       THEN /\ disk_parts_array[i].score = DISK_PARTITIONS_SCORE_GOOD
            /\ \E j \in 1 .. Len(gpts) : TableOf(gpts[j], disk_parts_array[i])
       ELSE disk_parts_array[i].score = DISK_PARTITIONS_SCORE_WEAK
  /\ \A j \in 1 .. Len(gpts) :
       \E i \in 1 .. Len(disk_parts_array) : TableOf(gpts[j], disk_parts_array[i])
TablesInv == RegistryInv /\ Len(disk_parts_array) <= GD_MAX_PARTITIONS
CoverInv == (MbrTables # {} => mbr_pc = "done") /\ TableCovers
Inv == TypeInv /\ GptInv /\ ScoreInv /\ TablesInv /\ CoverInv

LEMMA InitInv == Init => Inv
<1>. SUFFICES ASSUME Init PROVE Inv
  OBVIOUS
<1>1. TypeInv
  BY TypeInit DEF Init
<1>2. GptInv /\ ScoreInv
  <2>1. \A i \in 1 .. Len(<<>>) : FALSE
    OBVIOUS
  <2>. QED BY <2>1 DEF Init, GptInv, ScoreInv
<1>3. TablesInv
  BY CellAssumption DEF Init, TablesInv, RegistryInv
<1>4. MbrTables = {}
  BY DEF Init, MbrTables
<1>. QED BY <1>1, <1>2, <1>3, <1>4 DEF Inv, CoverInv, TableCovers

(* What is covered stays covered while the registry only grows.            *)
LEMMA CoveredStays ==
  ASSUME RegistryInv, RegistryInv', UNCHANGED <<primary, logic>>,
         \/ disk_parts_array' = disk_parts_array
         \/ /\ Len(disk_parts_array') = Len(disk_parts_array) + 1
            /\ disk_parts_array'[Len(disk_parts_array) + 1].disk_type = "GPT"
            /\ \A i \in 1 .. Len(disk_parts_array) : disk_parts_array'[i] = disk_parts_array[i],
         TableCovers
  PROVE  (MbrTables' # {} => MbrTables # {}) /\ TableCovers'
<1>. DEFINE n == Len(disk_parts_array)
<1>0. n \in Nat
  BY DEF RegistryInv
<1>1. DOMAIN disk_parts_array = 1 .. n /\ DOMAIN disk_parts_array' = 1 .. Len(disk_parts_array')
  BY DEF RegistryInv
<1>2. MbrTables' = MbrTables /\ \A i \in MbrTables : disk_parts_array'[i] = disk_parts_array[i]
  <2>1. CASE disk_parts_array' = disk_parts_array
    BY <2>1 DEF MbrTables
  <2>2. CASE disk_parts_array' # disk_parts_array
    <3>1. /\ DOMAIN disk_parts_array' = 1 .. n + 1
          /\ disk_parts_array'[n + 1].disk_type = "GPT"
          /\ \A i \in 1 .. n : disk_parts_array'[i] = disk_parts_array[i]
      BY <1>1, <2>2
    <3>. HIDE DEF n
    <3>2. \A i \in 1 .. n + 1 : i \in 1 .. n \/ i = n + 1
      BY <1>0
    <3>3. \A i \in 1 .. n : i \in 1 .. n + 1
      BY <1>0
    <3>4. ASSUME NEW i \in MbrTables' PROVE i \in MbrTables
      <4>1. i \in 1 .. n + 1 /\ disk_parts_array'[i].disk_type = "MBR"
        BY <3>1, <3>4, Zenon DEF MbrTables
      <4>2. i # n + 1
        <5>1. "GPT" # "MBR"
          OBVIOUS
        <5>. QED BY <3>1, <4>1, <5>1, Zenon
      <4>. QED BY <1>1, <3>1, <3>2, <4>1, <4>2, Zenon DEF MbrTables
    <3>5. ASSUME NEW i \in MbrTables PROVE i \in MbrTables' /\ disk_parts_array'[i] = disk_parts_array[i]
      <4>1. i \in 1 .. n /\ disk_parts_array[i].disk_type = "MBR"
        BY <1>1, <3>5, Zenon DEF MbrTables
      <4>. QED BY <3>1, <3>3, <4>1, Zenon DEF MbrTables
    <3>. QED BY <3>4, <3>5, Zenon
  <2>. QED BY <2>1, <2>2
<1>3. \A e : Covered(e) => Covered(e)'
  BY <1>2 DEF Covered
<1>4. DataPrimary' = DataPrimary /\ (PrimaryInFront' <=> PrimaryInFront)
  BY DEF DataPrimary, PrimaryInFront, BeforeExtended
<1>. QED BY <1>2, <1>3, <1>4 DEF TableCovers

(* A table more: a GPT that is remembered, or one of the weak ones.        *)
LEMMA ScoreGrows ==
  ASSUME RegistryInv, RegistryInv', GptInv, ScoreInv, NEW one,
         Len(disk_parts_array') = Len(disk_parts_array) + 1,
         \A i \in 1 .. Len(disk_parts_array) : disk_parts_array'[i] = disk_parts_array[i],
         \/ /\ gpts' = Append(gpts, one) /\ TableOf(one, disk_parts_array'[Len(disk_parts_array) + 1])
            /\ disk_parts_array'[Len(disk_parts_array) + 1].score = DISK_PARTITIONS_SCORE_GOOD
         \/ /\ gpts' = gpts /\ ~IsGpt(disk_parts_array'[Len(disk_parts_array) + 1])
            /\ disk_parts_array'[Len(disk_parts_array) + 1].score = DISK_PARTITIONS_SCORE_WEAK
  PROVE  ScoreInv'
<1>. DEFINE n == Len(disk_parts_array)
            g == Len(gpts)
<1>1. n \in Nat /\ g \in Nat
  BY DEF RegistryInv, GptInv
<1>2. /\ Len(gpts') \in {g, g + 1} /\ \A j \in 1 .. g : gpts'[j] = gpts[j]
      /\ gpts' # gpts => Len(gpts') = g + 1 /\ gpts'[g + 1] = one
  <2>1. /\ Len(Append(gpts, one)) = g + 1 /\ Append(gpts, one)[g + 1] = one
        /\ \A j \in 1 .. g : Append(gpts, one)[j] = gpts[j]
    BY DEF GptInv
  <2>. QED BY <2>1
<1>. DEFINE A == disk_parts_array
            B == disk_parts_array'
            h == Len(gpts')
<1>3. /\ \A i \in 1 .. n + 1 : i \in 1 .. n \/ i = n + 1
      /\ \A i \in 1 .. n : i \in 1 .. n + 1
      /\ n + 1 \in 1 .. n + 1
      /\ \A j \in 1 .. h : j \in 1 .. g \/ (h = g + 1 /\ j = g + 1)
      /\ \A j \in 1 .. g : j \in 1 .. h
      /\ h = g + 1 => g + 1 \in 1 .. h
  <2>. HIDE DEF n, g, h
  <2>1. h \in {g, g + 1}
    BY <1>2 DEF h
  <2>. QED BY <1>1, <2>1
<1>4. Len(B) = n + 1 /\ \A i \in 1 .. n : B[i] = A[i]
  OBVIOUS
<1>5. ASSUME NEW i \in 1 .. n
      PROVE  IF IsGpt(B[i])
             THEN /\ B[i].score = DISK_PARTITIONS_SCORE_GOOD
                  /\ \E j \in 1 .. h : TableOf(gpts'[j], B[i])
             ELSE B[i].score = DISK_PARTITIONS_SCORE_WEAK
  <2>1. B[i] = A[i]
    BY <1>4
  <2>2. IF IsGpt(A[i])
        THEN /\ A[i].score = DISK_PARTITIONS_SCORE_GOOD
             /\ \E j \in 1 .. g : TableOf(gpts[j], A[i])
        ELSE A[i].score = DISK_PARTITIONS_SCORE_WEAK
    BY DEF ScoreInv
  <2>. HIDE DEF A, B, g, h, n
  <2>3. ASSUME NEW j \in 1 .. g, TableOf(gpts[j], A[i]) PROVE TableOf(gpts'[j], B[i]) /\ j \in 1 .. h
    <3>1. gpts'[j] = gpts[j]
      BY <1>2 DEF g
    <3>. QED BY <1>3, <2>1, <2>3, <3>1
  <2>. QED BY <2>1, <2>2, <2>3, Zenon
<1>6. IF IsGpt(B[n + 1])
      THEN /\ B[n + 1].score = DISK_PARTITIONS_SCORE_GOOD
           /\ \E j \in 1 .. h : TableOf(gpts'[j], B[n + 1])
      ELSE B[n + 1].score = DISK_PARTITIONS_SCORE_WEAK
  <2>1. CASE gpts' = Append(gpts, one) /\ TableOf(one, B[n + 1]) /\ B[n + 1].score = DISK_PARTITIONS_SCORE_GOOD
    <3>1. h = g + 1 /\ gpts'[g + 1] = one
      <4>1. Len(Append(gpts, one)) = g + 1 /\ Append(gpts, one)[g + 1] = one
        BY DEF GptInv
      <4>. QED BY <2>1, <4>1
    <3>2. g + 1 \in 1 .. h
      BY <1>3, <3>1
    <3>. HIDE DEF B, n, g, h
    <3>. QED BY <2>1, <3>1, <3>2, Zenon DEF TableOf
  <2>2. CASE ~IsGpt(B[n + 1]) /\ B[n + 1].score = DISK_PARTITIONS_SCORE_WEAK
    <3>. HIDE DEF B, n, g, h
    <3>. QED BY <2>2
  <2>. QED BY <2>1, <2>2
<1>7. ASSUME NEW j \in 1 .. h PROVE \E i \in 1 .. n + 1 : TableOf(gpts'[j], B[i])
  <2>1. CASE j \in 1 .. g
    <3>1. PICK i \in 1 .. n : TableOf(gpts[j], A[i])
      BY <2>1 DEF ScoreInv
    <3>2. gpts'[j] = gpts[j] /\ B[i] = A[i]
      BY <1>2, <1>4, <2>1
    <3>3. i \in 1 .. n + 1
      BY <1>3
    <3>. HIDE DEF A, B, n, g, h
    <3>. QED BY <3>1, <3>2, <3>3
  <2>2. CASE h = g + 1 /\ j = g + 1
    <3>1. gpts' # gpts
      <4>1. h # g
        BY <1>1, <2>2
      <4>. QED BY <4>1
    <3>2. gpts'[j] = one /\ gpts' = Append(gpts, one) /\ TableOf(one, B[n + 1])
      BY <1>2, <2>2, <3>1
    <3>. HIDE DEF B, n, g, h
    <3>. QED BY <1>3, <3>2
  <2>. QED BY <1>3, <2>1, <2>2
<1>8. \A i \in 1 .. n + 1 :
        IF IsGpt(B[i])
        THEN /\ B[i].score = DISK_PARTITIONS_SCORE_GOOD
             /\ \E j \in 1 .. h : TableOf(gpts'[j], B[i])
        ELSE B[i].score = DISK_PARTITIONS_SCORE_WEAK
  <2>. HIDE DEF B, n, g, h
  <2>. QED BY <1>3, <1>5, <1>6, Zenon
<1>. QED BY <1>4, <1>7, <1>8 DEF ScoreInv, IsGpt, TableOf

LEMMA ScoreStays ==
  ASSUME ScoreInv, UNCHANGED <<disk_parts_array, gpts>>
  PROVE  ScoreInv'
BY DEF ScoreInv, IsGpt, TableOf

LEMMA RegisterGptStep == ASSUME Inv, RegisterGpt PROVE Inv'
<1>1. PICK entries \in GptEntries :
        /\ register_disk_partitions(alloc_disk_partitions("GPT", Gpt!GptParts(entries)))
        /\ gpts' = IF disk_parts_array' = disk_parts_array THEN gpts ELSE Append(gpts, entries)
        /\ UNCHANGED mbr_vars
  BY DEF RegisterGpt
<1>. DEFINE dp == alloc_disk_partitions("GPT", Gpt!GptParts(entries))
<1>2. UNCHANGED <<disk, force_type, mbr_pc, ret, primary, logic, primary_count, extend_start,
                  part_start, parts, index, idle, overrun>>
  BY <1>1 DEF mbr_vars, detected, walk
<1>3. TypeInv'
  BY <1>2 DEF Inv, TypeInv, MbrTypeOK, CountInv, Walking, BeforeExtended, NSectors
<1>4. GptInv'
  <2>1. gpts \in Seq(GptEntries)
    BY DEF Inv, GptInv
  <2>2. Append(gpts, entries) \in Seq(GptEntries)
    BY <2>1
  <2>. QED BY <1>1, <2>1, <2>2 DEF GptInv
<1>5. /\ dp \in [disk_type : {"MBR", "GPT"}, score : Nat, parts : Seq(Partition)]
      /\ dp.disk_type = "GPT" /\ dp.score = 0 /\ dp.parts = Gpt!GptParts(entries)
  BY GptPartsType DEF alloc_disk_partitions
<1>6. register_disk_partitions(dp)
  BY <1>1
<1>. HIDE DEF dp
<1>7. /\ RegistryInv' /\ Len(disk_parts_array') <= GD_MAX_PARTITIONS
      /\ \/ disk_parts_array' = disk_parts_array
         \/ /\ Len(disk_parts_array') = Len(disk_parts_array) + 1
            /\ disk_parts_array'[Len(disk_parts_array) + 1].disk_type = dp.disk_type
            /\ disk_parts_array'[Len(disk_parts_array) + 1].parts = dp.parts
            /\ disk_parts_array'[Len(disk_parts_array) + 1].score = DISK_PARTITIONS_SCORE_GOOD
            /\ \A i \in 1 .. Len(disk_parts_array) : disk_parts_array'[i] = disk_parts_array[i]
  BY <1>5, <1>6, RegisterTable DEF Inv, TablesInv
<1>8. RegistryInv /\ TableCovers /\ (MbrTables # {} => mbr_pc = "done")
  BY DEF Inv, TablesInv, CoverInv
<1>9. (MbrTables' # {} => MbrTables # {}) /\ TableCovers'
  BY <1>2, <1>5, <1>7, <1>8, CoveredStays
<1>10. ScoreInv'
  <2>1. CASE disk_parts_array' = disk_parts_array
    <3>1. ScoreInv /\ gpts' = gpts
      BY <1>1, <2>1 DEF Inv
    <3>. QED BY <2>1, <3>1, ScoreStays
  <2>2. CASE disk_parts_array' # disk_parts_array
    <3>1. gpts' = Append(gpts, entries) /\ ScoreInv /\ GptInv
      BY <1>1, <2>2 DEF Inv
    <3>2. TableOf(entries, disk_parts_array'[Len(disk_parts_array) + 1])
      BY <1>5, <1>7, <2>2 DEF TableOf, IsGpt
    <3>. QED BY <1>7, <1>8, <2>2, <3>1, <3>2, ScoreGrows
  <2>. QED BY <2>1, <2>2
<1>. QED BY <1>2, <1>3, <1>4, <1>7, <1>8, <1>9, <1>10 DEF Inv, TablesInv, CoverInv

(* mbr_detect: the table registered has room for what was counted.         *)
LEMMA RoomForAll ==
  ASSUME TypeInv, mbr_pc = "register"
  PROVE  /\ NParts \in Nat /\ NParts <= Len(Walked)
         /\ PrimaryInFront => NParts = Len(Walked)
<1>. DEFINE B == Cardinality(BeforeExtended(primary))
            P == Cardinality(DataPrimary)
<1>1. primary_count = B /\ B \in Nat
  BY Slots DEF TypeInv, CountInv, Walking, MbrTypeOK
<1>2. B <= P
  <2>1. BeforeExtended(primary) \in SUBSET DataPrimary
    <3>. SUFFICES ASSUME NEW i \in BeforeExtended(primary) PROVE i \in DataPrimary
      OBVIOUS
    <3>1. i \in 1 .. DOS_PRIMARY_PARTITIONS /\ Used(primary[i]) /\ \A j \in 1 .. i : ~is_extended(primary[j])
      BY DEF BeforeExtended, TypeInv, MbrTypeOK, Table
    <3>2. i \in 1 .. i
      BY <3>1 DEF DOS_PRIMARY_PARTITIONS
    <3>. QED BY <3>1, <3>2 DEF DataPrimary
  <2>2. IsFiniteSet(DataPrimary)
    <3>1. DataPrimary \in SUBSET (1 .. DOS_PRIMARY_PARTITIONS)
      BY DEF DataPrimary
    <3>2. IsFiniteSet(1 .. DOS_PRIMARY_PARTITIONS)
      <4>1. \A a, b \in Int : IsFiniteSet(a .. b)
        BY FS_Interval, Zenon
      <4>2. 1 \in Int /\ DOS_PRIMARY_PARTITIONS \in Int
        BY DEF DOS_PRIMARY_PARTITIONS
      <4>. QED BY <4>1, <4>2, Zenon
    <3>. QED BY <3>1, <3>2, FS_Subset, Zenon
  <2>. QED BY <2>1, <2>2, FS_Subset, Zenon
<1>3. P \in Nat /\ Len(Walked) = P + Len(logic) /\ Len(logic) \in Nat
  BY WalkedExact DEF TypeInv, MbrTypeOK
<1>4. PrimaryInFront => B = P
  BY DEF PrimaryInFront
<1>. HIDE DEF B, P
<1>. QED BY <1>1, <1>2, <1>3, <1>4 DEF NParts

LEMMA RegisterMbrStep == ASSUME Inv, RegisterMbr, UNCHANGED gpts PROVE Inv'
<1>. DEFINE named == SubSeq(Walked, 1, NParts)
            dp == [alloc_disk_partitions("MBR", named) EXCEPT !.score = DISK_PARTITIONS_SCORE_WEAK]
            n == Len(disk_parts_array)
<1>1. TypeInv /\ MbrTypeOK /\ mbr_pc = "register" /\ TablesInv /\ CoverInv
  BY DEF Inv, TypeInv, RegisterMbr
<1>2. /\ UNCHANGED <<disk, force_type, primary, logic, primary_count, extend_start,
                     part_start, parts, index, idle>>
      /\ mbr_pc' = "done" /\ ret' = 0
  BY DEF RegisterMbr, walk
<1>3. TypeInv'
  <2>1. overrun' \in BOOLEAN
    BY <1>1, Zenon DEF RegisterMbr, MbrTypeOK
  <2>. QED BY <1>1, <1>2, <2>1 DEF TypeInv, MbrTypeOK, CountInv, Walking, NSectors
<1>4. Walked \in Seq(Partition) /\ NParts \in Nat /\ NParts <= Len(Walked)
      /\ (PrimaryInFront => NParts = Len(Walked))
  BY <1>1, WalkedExact, RoomForAll
<1>5. /\ named \in Seq(Partition) /\ Len(named) = NParts
      /\ \A k \in 1 .. NParts : named[k] = Walked[k]
  <2>. DEFINE W == Walked
              N == NParts
  <2>. HIDE DEF W, N
  <2>1. W \in Seq(Partition) /\ N \in Nat /\ N <= Len(W)
    BY <1>4 DEF W, N
  <2>2. SubSeq(W, 1, N) \in Seq(Partition) /\ Len(SubSeq(W, 1, N)) = N
        /\ \A k \in 1 .. N : SubSeq(W, 1, N)[k] = W[k]
    BY <2>1
  <2>. QED BY <2>2, Zenon DEF W, N
<1>. HIDE DEF named
<1>6. /\ dp \in [disk_type : {"MBR", "GPT"}, score : Nat, parts : Seq(Partition)]
      /\ dp.disk_type = "MBR" /\ dp.parts = named /\ dp.score = DISK_PARTITIONS_SCORE_WEAK
      /\ dp.score # 0
  BY <1>5, ScoreAssumption DEF alloc_disk_partitions
<1>7. register_disk_partitions(dp)
  BY DEF RegisterMbr, register_weak_disk_partitions, named
<1>. HIDE DEF dp
<1>8. /\ RegistryInv' /\ Len(disk_parts_array') <= GD_MAX_PARTITIONS
      /\ \/ disk_parts_array' = disk_parts_array
         \/ /\ Len(disk_parts_array') = n + 1
            /\ disk_parts_array'[n + 1].disk_type = "MBR"
            /\ disk_parts_array'[n + 1].parts = named
            /\ disk_parts_array'[n + 1].score = DISK_PARTITIONS_SCORE_WEAK
            /\ \A i \in 1 .. n : disk_parts_array'[i] = disk_parts_array[i]
  BY <1>1, <1>6, <1>7, RegisterTable DEF TablesInv
<1>9. MbrTables = {}
  BY <1>1 DEF CoverInv
<1>10. TableCovers'
  <2>1. CASE disk_parts_array' = disk_parts_array
    BY <1>9, <2>1 DEF TableCovers, MbrTables
  <2>2. CASE disk_parts_array' # disk_parts_array
    <3>. SUFFICES ASSUME PrimaryInFront PROVE TableCovers'
      BY <1>2 DEF TableCovers, PrimaryInFront, DataPrimary, BeforeExtended
    <3>1. n + 1 \in MbrTables'
      <4>1. n \in Nat /\ DOMAIN disk_parts_array' = 1 .. n + 1
        BY <1>1, <1>8, <2>2 DEF TablesInv, RegistryInv
      <4>2. n + 1 \in DOMAIN disk_parts_array'
        BY <4>1
      <4>. QED BY <1>8, <2>2, <4>2 DEF MbrTables
    <3>2. disk_parts_array'[n + 1].parts = named /\ DOMAIN named = 1 .. Len(Walked)
      BY <1>4, <1>5, <1>8, <2>2
    <3>3. ASSUME NEW e \in Entry, e.size # 0, NEW m \in Nat, NEW k \in 1 .. Len(Walked), Walked[k] = DiskPart(m, e)
          PROVE  Covered(e)'
      <4>1. /\ named[k].start_addr = e.start * SECTOR_SIZE
            /\ named[k].end_addr = (e.start + e.size) * SECTOR_SIZE - 1
        <5>1. named[k] = DiskPart(m, e)
          BY <1>4, <1>5, <3>3
        <5>. QED BY <3>3, <5>1, DiskPartType
      <4>. QED BY <3>1, <3>2, <4>1 DEF Covered
    <3>4. ASSUME NEW i \in DataPrimary, primary[i].size # 0 PROVE Covered(primary[i])'
      <4>1. PICK e \in Entry : e = primary[i] /\ i \in Nat
        BY <1>1, DataPrimaryType DEF DOS_PRIMARY_PARTITIONS
      <4>2. PICK k \in 1 .. Cardinality(DataPrimary) : Walked[k] = DiskPart(i, primary[i])
        BY <1>1, WalkedExact
      <4>3. k \in 1 .. Len(Walked)
        BY <1>1, WalkedExact DEF MbrTypeOK
      <4>4. Covered(e)'
        BY <3>3, <3>4, <4>1, <4>2, <4>3
      <4>. QED BY <1>2, <4>1, <4>4 DEF Covered
    <3>5. ASSUME NEW k \in 1 .. Len(logic), logic[k].size # 0 PROVE Covered(logic[k])'
      <4>1. PICK e \in Entry : e = logic[k] /\ DOS_PRIMARY_PARTITIONS + k \in Nat
        BY <1>1 DEF MbrTypeOK, DOS_PRIMARY_PARTITIONS
      <4>2. Cardinality(DataPrimary) + k \in 1 .. Len(Walked)
        BY <1>1, WalkedExact DEF MbrTypeOK
      <4>3. Walked[Cardinality(DataPrimary) + k] = DiskPart(DOS_PRIMARY_PARTITIONS + k, logic[k])
        BY <1>1, WalkedExact
      <4>4. Covered(e)'
        BY <3>3, <3>5, <4>1, <4>2, <4>3
      <4>. QED BY <1>2, <4>1, <4>4 DEF Covered
    <3>. QED BY <1>2, <3>4, <3>5 DEF TableCovers, DataPrimary
  <2>. QED BY <2>1, <2>2
<1>11. GptInv'
  BY DEF Inv, GptInv
<1>12. ScoreInv'
  <2>0. GptInv /\ ScoreInv /\ gpts' = gpts
    BY DEF Inv
  <2>1. CASE disk_parts_array' = disk_parts_array
    BY <2>0, <2>1, ScoreStays
  <2>2. CASE disk_parts_array' # disk_parts_array
    <3>1. ~IsGpt(disk_parts_array'[n + 1])
      <4>1. "MBR" # "GPT"
        OBVIOUS
      <4>. QED BY <1>8, <2>2, <4>1 DEF IsGpt
    <3>. QED BY <1>1, <1>8, <2>0, <2>2, <3>1, ScoreGrows DEF TablesInv
  <2>. QED BY <2>1, <2>2
<1>. QED BY <1>2, <1>3, <1>8, <1>10, <1>11, <1>12 DEF Inv, TablesInv, CoverInv

LEMMA DetectStep ==
  ASSUME Inv, MbrDetect \/ MbrWalk, UNCHANGED <<disk_parts_array, gpts>>
  PROVE  Inv'
<1>1. TypeInv'
  BY TypeDetect, TypeWalk DEF Inv
<1>2. mbr_pc # "done"
  BY DEF MbrDetect, DetectRefuses, DetectPrimary, MbrWalk, ReadTableFails, ReadTable, SkipEmpty,
     TableDone, SaveLogicFails, SaveLogic, FollowLink, AtEntry
<1>3. MbrTables' = {}
  BY <1>2 DEF Inv, CoverInv, MbrTables
<1>4. ScoreInv'
  BY ScoreStays DEF Inv
<1>. QED BY <1>1, <1>3, <1>4 DEF Inv, GptInv, TablesInv, RegistryInv, CoverInv, TableCovers

LEMMA StepInv == Inv /\ [Next]_vars => Inv'
<1>. SUFFICES ASSUME Inv, [Next]_vars PROVE Inv'
  OBVIOUS
<1>1. CASE UNCHANGED vars
  <2>1. UNCHANGED <<disk, force_type, mbr_pc, ret, primary, logic, primary_count, extend_start,
                    part_start, parts, index, idle, overrun, disk_parts_array, gpts>>
    BY <1>1 DEF vars, mbr_vars, detected, walk
  <2>2. TypeInv'
    BY <2>1 DEF Inv, TypeInv, MbrTypeOK, CountInv, Walking, BeforeExtended, NSectors
  <2>3. TablesInv' /\ GptInv'
    BY <2>1 DEF Inv, TablesInv, RegistryInv, GptInv
  <2>5. ScoreInv'
    BY <2>1, ScoreStays DEF Inv
  <2>4. CoverInv'
    <3>1. (MbrTables' # {} => MbrTables # {}) /\ TableCovers'
      BY <2>1, <2>3, CoveredStays DEF Inv, TablesInv, CoverInv
    <3>. QED BY <2>1, <3>1 DEF Inv, CoverInv
  <2>. QED BY <2>2, <2>3, <2>4, <2>5 DEF Inv
<1>2. CASE Next
  BY <1>2, DetectStep, RegisterMbrStep, RegisterGptStep DEF Next, Mbr
<1>. QED BY <1>1, <1>2

LEMMA Invariance == Spec => []Inv
BY InitInv, StepInv, PTL DEF Spec

-----------------------------------------------------------------------------
(* The chain of extended tables: the recursive functions it is defined by. *)
LEMMA ChainDef ==
  ASSUME ChainBound \in Nat
  PROVE  ChainTable = [k \in 1 .. ChainBound |-> IF k = 1 THEN TableAt(Extended) ELSE NextTable(ChainTable[k - 1])]
<1>. DEFINE V(x, k) == NextTable(x)
            To(n) == \E g : g = [k \in 1 .. n |-> IF k = 1 THEN TableAt(Extended) ELSE V(g[k - 1], k)]
            S == {n \in Nat : To(n)}
<1>. HIDE DEF V
<1>1. 0 \in S
  <2>. DEFINE g == [k \in 1 .. 0 |-> TableAt(Extended)]
  <2>1. g = [k \in 1 .. 0 |-> IF k = 1 THEN TableAt(Extended) ELSE V(g[k - 1], k)]
    OBVIOUS
  <2>2. To(0)
    <3>. HIDE DEF g
    <3>. QED BY <2>1
  <2>. HIDE DEF To
  <2>. QED BY <2>2
<1>2. ASSUME NEW n \in Nat, n \in S PROVE n + 1 \in S
  <2>1. PICK g : g = [k \in 1 .. n |-> IF k = 1 THEN TableAt(Extended) ELSE V(g[k - 1], k)]
    BY <1>2
  <2>. DEFINE h == [k \in 1 .. n + 1 |-> IF k = n + 1 THEN IF n + 1 = 1 THEN TableAt(Extended) ELSE V(g[n], n + 1)
                                      ELSE g[k]]
  <2>2. ASSUME NEW k \in 1 .. n + 1 PROVE h[k] = IF k = 1 THEN TableAt(Extended) ELSE V(h[k - 1], k)
    <3>1. CASE k = n + 1
      BY <3>1
    <3>2. CASE k # n + 1
      <4>1. k \in 1 .. n /\ h[k] = g[k] /\ (k # 1 => h[k - 1] = g[k - 1])
        BY <3>2
      <4>. QED BY <2>1, <4>1
    <3>. QED BY <3>1, <3>2
  <2>3. h = [k \in 1 .. n + 1 |-> IF k = 1 THEN TableAt(Extended) ELSE V(h[k - 1], k)]
    <3>1. h = [k \in 1 .. n + 1 |-> h[k]]
      OBVIOUS
    <3>. HIDE DEF h
    <3>. QED BY <2>2, <3>1
  <2>4. To(n + 1)
    <3>. HIDE DEF h
    <3>. QED BY <2>3
  <2>. HIDE DEF To
  <2>. QED BY <2>4
<1>3. To(ChainBound)
  <2>. HIDE DEF To
  <2>1. \A n \in Nat : n \in S
    <3>. HIDE DEF S
    <3>. QED BY <1>1, <1>2, SetInduction
  <2>2. ChainBound \in Nat
    BY DEF DOS_PRIMARY_PARTITIONS
  <2>. QED BY <2>1, <2>2
<1>. DEFINE N == ChainBound
            W == CHOOSE g : g = [k \in 1 .. N |-> IF k = 1 THEN TableAt(Extended) ELSE V(g[k - 1], k)]
<1>4. W = [k \in 1 .. N |-> IF k = 1 THEN TableAt(Extended) ELSE V(W[k - 1], k)]
  <2>. HIDE DEF N
  <2>1. \E g : g = [k \in 1 .. N |-> IF k = 1 THEN TableAt(Extended) ELSE V(g[k - 1], k)]
    BY <1>3 DEF N
  <2>. QED BY <2>1
<1>5. ChainTable = W
  BY DEF ChainTable, V
<1>. QED BY <1>4, <1>5 DEF V

LEMMA NamedDef ==
  ASSUME NEW s
  PROVE  NamedIn(s) = [k \in 0 .. DOS_PRIMARY_PARTITIONS |-> IF k = 0 THEN <<>> ELSE IF k \in BeforeExtended(disk[s + 1].parts)
                          THEN Append(NamedIn(s)[k - 1], [disk[s + 1].parts[k] EXCEPT !.start = @ + s])
                          ELSE NamedIn(s)[k - 1]]
<1>. DEFINE V(x, k) == IF k \in BeforeExtended(disk[s + 1].parts)
                          THEN Append(x, [disk[s + 1].parts[k] EXCEPT !.start = @ + s])
                          ELSE x
            To(n) == \E g : g = [k \in 0 .. n |-> IF k = 0 THEN <<>> ELSE V(g[k - 1], k)]
            S == {n \in Nat : To(n)}
<1>. HIDE DEF V
<1>1. 0 \in S
  <2>. DEFINE g == [k \in 0 .. 0 |-> <<>>]
  <2>1. g = [k \in 0 .. 0 |-> IF k = 0 THEN <<>> ELSE V(g[k - 1], k)]
    OBVIOUS
  <2>2. To(0)
    <3>. HIDE DEF g
    <3>. QED BY <2>1
  <2>. HIDE DEF To
  <2>. QED BY <2>2
<1>2. ASSUME NEW n \in Nat, n \in S PROVE n + 1 \in S
  <2>1. PICK g : g = [k \in 0 .. n |-> IF k = 0 THEN <<>> ELSE V(g[k - 1], k)]
    BY <1>2
  <2>. DEFINE h == [k \in 0 .. n + 1 |-> IF k = n + 1 THEN IF n + 1 = 0 THEN <<>> ELSE V(g[n], n + 1)
                                      ELSE g[k]]
  <2>2. ASSUME NEW k \in 0 .. n + 1 PROVE h[k] = IF k = 0 THEN <<>> ELSE V(h[k - 1], k)
    <3>1. CASE k = n + 1
      BY <3>1
    <3>2. CASE k # n + 1
      <4>1. k \in 0 .. n /\ h[k] = g[k] /\ (k # 0 => h[k - 1] = g[k - 1])
        BY <3>2
      <4>. QED BY <2>1, <4>1
    <3>. QED BY <3>1, <3>2
  <2>3. h = [k \in 0 .. n + 1 |-> IF k = 0 THEN <<>> ELSE V(h[k - 1], k)]
    <3>1. h = [k \in 0 .. n + 1 |-> h[k]]
      OBVIOUS
    <3>. HIDE DEF h
    <3>. QED BY <2>2, <3>1
  <2>4. To(n + 1)
    <3>. HIDE DEF h
    <3>. QED BY <2>3
  <2>. HIDE DEF To
  <2>. QED BY <2>4
<1>3. To(DOS_PRIMARY_PARTITIONS)
  <2>. HIDE DEF To
  <2>1. \A n \in Nat : n \in S
    <3>. HIDE DEF S
    <3>. QED BY <1>1, <1>2, SetInduction
  <2>2. DOS_PRIMARY_PARTITIONS \in Nat
    BY DEF DOS_PRIMARY_PARTITIONS
  <2>. QED BY <2>1, <2>2
<1>. DEFINE N == DOS_PRIMARY_PARTITIONS
            W == CHOOSE g : g = [k \in 0 .. N |-> IF k = 0 THEN <<>> ELSE V(g[k - 1], k)]
<1>4. W = [k \in 0 .. N |-> IF k = 0 THEN <<>> ELSE V(W[k - 1], k)]
  <2>. HIDE DEF N
  <2>1. \E g : g = [k \in 0 .. N |-> IF k = 0 THEN <<>> ELSE V(g[k - 1], k)]
    BY <1>3 DEF N
  <2>. QED BY <2>1
<1>5. NamedIn(s) = W
  BY DEF NamedIn, V
<1>. QED BY <1>4, <1>5 DEF V

LEMMA LogicDef ==
  ASSUME ChainBound \in Nat
  PROVE  LogicUpTo = [k \in 0 .. ChainBound |-> IF k = 0 THEN <<>> ELSE IF ChainTable[k] = -1 THEN LogicUpTo[k - 1]
                          ELSE LogicUpTo[k - 1] \o NamedIn(ChainTable[k])[DOS_PRIMARY_PARTITIONS]]
<1>. DEFINE V(x, k) == IF ChainTable[k] = -1 THEN x
                          ELSE x \o NamedIn(ChainTable[k])[DOS_PRIMARY_PARTITIONS]
            To(n) == \E g : g = [k \in 0 .. n |-> IF k = 0 THEN <<>> ELSE V(g[k - 1], k)]
            S == {n \in Nat : To(n)}
<1>. HIDE DEF V
<1>1. 0 \in S
  <2>. DEFINE g == [k \in 0 .. 0 |-> <<>>]
  <2>1. g = [k \in 0 .. 0 |-> IF k = 0 THEN <<>> ELSE V(g[k - 1], k)]
    OBVIOUS
  <2>2. To(0)
    <3>. HIDE DEF g
    <3>. QED BY <2>1
  <2>. HIDE DEF To
  <2>. QED BY <2>2
<1>2. ASSUME NEW n \in Nat, n \in S PROVE n + 1 \in S
  <2>1. PICK g : g = [k \in 0 .. n |-> IF k = 0 THEN <<>> ELSE V(g[k - 1], k)]
    BY <1>2
  <2>. DEFINE h == [k \in 0 .. n + 1 |-> IF k = n + 1 THEN IF n + 1 = 0 THEN <<>> ELSE V(g[n], n + 1)
                                      ELSE g[k]]
  <2>2. ASSUME NEW k \in 0 .. n + 1 PROVE h[k] = IF k = 0 THEN <<>> ELSE V(h[k - 1], k)
    <3>1. CASE k = n + 1
      BY <3>1
    <3>2. CASE k # n + 1
      <4>1. k \in 0 .. n /\ h[k] = g[k] /\ (k # 0 => h[k - 1] = g[k - 1])
        BY <3>2
      <4>. QED BY <2>1, <4>1
    <3>. QED BY <3>1, <3>2
  <2>3. h = [k \in 0 .. n + 1 |-> IF k = 0 THEN <<>> ELSE V(h[k - 1], k)]
    <3>1. h = [k \in 0 .. n + 1 |-> h[k]]
      OBVIOUS
    <3>. HIDE DEF h
    <3>. QED BY <2>2, <3>1
  <2>4. To(n + 1)
    <3>. HIDE DEF h
    <3>. QED BY <2>3
  <2>. HIDE DEF To
  <2>. QED BY <2>4
<1>3. To(ChainBound)
  <2>. HIDE DEF To
  <2>1. \A n \in Nat : n \in S
    <3>. HIDE DEF S
    <3>. QED BY <1>1, <1>2, SetInduction
  <2>2. ChainBound \in Nat
    BY DEF DOS_PRIMARY_PARTITIONS
  <2>. QED BY <2>1, <2>2
<1>. DEFINE N == ChainBound
            W == CHOOSE g : g = [k \in 0 .. N |-> IF k = 0 THEN <<>> ELSE V(g[k - 1], k)]
<1>4. W = [k \in 0 .. N |-> IF k = 0 THEN <<>> ELSE V(W[k - 1], k)]
  <2>. HIDE DEF N
  <2>1. \E g : g = [k \in 0 .. N |-> IF k = 0 THEN <<>> ELSE V(g[k - 1], k)]
    BY <1>3 DEF N
  <2>. QED BY <2>1
<1>5. LogicUpTo = W
  BY DEF LogicUpTo, V
<1>. QED BY <1>4, <1>5 DEF V


LEMMA ChainBoundType == ASSUME MbrTypeOK PROVE ChainBound \in Nat \ {0}
<1>1. NSectors \in Nat /\ MAX_EXT_PARTS \in Nat
  BY FirstTable, MbrAssumption
<1>2. (MAX_EXT_PARTS + 1) * (NSectors + 1) \in Nat
  BY <1>1
<1>. QED BY <1>2 DEF ChainBound

LEMMA LinkIs ==
  ASSUME NEW table \in Table, NEW i \in FirstExtended(table)
  PROVE  LinkOf(table) = i
<1>1. \A a, b \in FirstExtended(table) : a = b
  <2>. SUFFICES ASSUME NEW a \in FirstExtended(table), NEW b \in FirstExtended(table) PROVE a = b
    OBVIOUS
  <2>1. /\ a \in 1 .. 4 /\ is_extended(table[a]) /\ \A j \in 1 .. a - 1 : ~is_extended(table[j])
        /\ b \in 1 .. 4 /\ is_extended(table[b]) /\ \A j \in 1 .. b - 1 : ~is_extended(table[j])
    BY DEF FirstExtended, Table, DOS_PRIMARY_PARTITIONS
  <2>2. (a < b => a \in 1 .. b - 1) /\ (b < a => b \in 1 .. a - 1)
    BY <2>1
  <2>. QED BY <2>1, <2>2
<1>. QED BY <1>1 DEF LinkOf

LEMMA ExtendedType ==
  ASSUME MbrTypeOK, FirstExtended(primary) # {}
  PROVE  Extended \in Nat
<1>1. PICK i \in FirstExtended(primary) : TRUE
  OBVIOUS
<1>2. LinkOf(primary) = i /\ primary[i] \in Entry
  BY LinkIs DEF MbrTypeOK, FirstExtended, Table
<1>. QED BY <1>2 DEF Extended, Entry

(* A table of the chain lies in the disk.                                  *)
IntEntry == [sys_ind : {"none", "data", "extended", "efi"}, start : Int, size : Int]
Place(s) == s = -1 \/ (s \in Nat /\ s < NSectors)

LEMMA NextPlace ==
  ASSUME MbrTypeOK, FirstExtended(primary) # {}, NEW s, Place(s)
  PROVE  Place(NextTable(s))
<1>1. \A x \in Nat : Place(TableAt(x))
  BY DEF TableAt, Place
<1>2. CASE s = -1 \/ FirstExtended(disk[s + 1].parts) = {}
  BY <1>2 DEF NextTable, Place
<1>3. CASE ~(s = -1 \/ FirstExtended(disk[s + 1].parts) = {})
  <2>. DEFINE table == disk[s + 1].parts
  <2>1. table \in Table
    BY <1>3, SectorTable DEF Place
  <2>. HIDE DEF table
  <2>2. PICK i \in FirstExtended(table) : TRUE
    BY <1>3 DEF table
  <2>3. LinkOf(table) = i /\ table[i] \in Entry
    BY <2>1, <2>2, LinkIs DEF FirstExtended, Table
  <2>4. Extended + table[LinkOf(table)].start \in Nat
    BY <2>3, ExtendedType DEF Entry
  <2>5. NextTable(s) = TableAt(Extended + table[LinkOf(table)].start)
    BY <1>3 DEF NextTable, table
  <2>. QED BY <1>1, <2>4, <2>5
<1>. QED BY <1>2, <1>3

LEMMA ChainType ==
  ASSUME MbrTypeOK, FirstExtended(primary) # {}
  PROVE  \A k \in 1 .. ChainBound : Place(ChainTable[k])
<1>. DEFINE S == {k \in Nat : k \in 1 .. ChainBound => Place(ChainTable[k])}
<1>1. ChainBound \in Nat
  BY ChainBoundType
<1>2. ChainTable = [k \in 1 .. ChainBound |-> IF k = 1 THEN TableAt(Extended) ELSE NextTable(ChainTable[k - 1])]
  BY <1>1, ChainDef
<1>3. 0 \in S
  OBVIOUS
<1>4. ASSUME NEW k \in Nat, k \in S PROVE k + 1 \in S
  <2>. SUFFICES ASSUME k + 1 \in 1 .. ChainBound PROVE Place(ChainTable[k + 1])
    OBVIOUS
  <2>1. CASE k = 0
    <3>1. ChainTable[k + 1] = TableAt(Extended)
      BY <1>2, <2>1
    <3>. QED BY <3>1, ExtendedType DEF TableAt, Place
  <2>2. CASE k # 0
    <3>1. k \in 1 .. ChainBound /\ k + 1 # 1 /\ (k + 1) - 1 = k
      BY <1>1, <2>2
    <3>2. ChainTable[k + 1] = NextTable(ChainTable[k])
      BY <1>2, <3>1
    <3>. QED BY <1>4, <3>1, <3>2, NextPlace
  <2>. QED BY <2>1, <2>2
<1>5. \A k \in Nat : k \in S
  <2>. HIDE DEF S
  <2>. QED BY <1>3, <1>4, SetInduction
<1>. QED BY <1>1, <1>5

(* What a table names, entry by entry, and nothing from its first link on. *)
Rebased(e, s) == [e EXCEPT !.start = @ + s]

LEMMA NamedStep ==
  ASSUME NEW s, NEW i \in 1 .. DOS_PRIMARY_PARTITIONS
  PROVE  /\ NamedIn(s)[0] = <<>>
         /\ NamedIn(s)[i] = IF i \in BeforeExtended(disk[s + 1].parts)
                            THEN Append(NamedIn(s)[i - 1], Rebased(disk[s + 1].parts[i], s))
                            ELSE NamedIn(s)[i - 1]
<1>. DEFINE f == NamedIn(s)
            N == DOS_PRIMARY_PARTITIONS
            V(x, k) == IF k \in BeforeExtended(disk[s + 1].parts)
                       THEN Append(x, [disk[s + 1].parts[k] EXCEPT !.start = @ + s]) ELSE x
<1>1. f = [k \in 0 .. N |-> IF k = 0 THEN <<>> ELSE V(f[k - 1], k)]
  BY NamedDef, Zenon
<1>. HIDE DEF f, V
<1>2. 0 \in 0 .. N /\ i \in 0 .. N /\ i # 0
  BY DEF DOS_PRIMARY_PARTITIONS
<1>3. f[0] = <<>> /\ f[i] = V(f[i - 1], i)
  BY <1>1, <1>2
<1>. QED BY <1>3 DEF f, V, Rebased

LEMMA NamedType ==
  ASSUME NEW s \in Int, disk[s + 1].parts \in Table
  PROVE  \A i \in 0 .. DOS_PRIMARY_PARTITIONS : NamedIn(s)[i] \in Seq(IntEntry)
<1>. DEFINE f == NamedIn(s)
            T == disk[s + 1].parts
            S == {i \in Nat : i \in 0 .. DOS_PRIMARY_PARTITIONS => f[i] \in Seq(IntEntry)}
<1>. HIDE DEF f
<1>1. 0 \in S
  <2>1. 1 \in 1 .. DOS_PRIMARY_PARTITIONS
    BY DEF DOS_PRIMARY_PARTITIONS
  <2>2. f[0] = <<>>
    BY <2>1, NamedStep DEF f
  <2>3. f[0] \in Seq(IntEntry)
    BY <2>2
  <2>. QED BY <2>3
<1>2. ASSUME NEW i \in Nat, i \in S PROVE i + 1 \in S
  <2>. SUFFICES ASSUME i + 1 \in 0 .. DOS_PRIMARY_PARTITIONS PROVE f[i + 1] \in Seq(IntEntry)
    OBVIOUS
  <2>1. i \in 0 .. DOS_PRIMARY_PARTITIONS /\ i + 1 \in 1 .. DOS_PRIMARY_PARTITIONS /\ (i + 1) - 1 = i
    BY DEF DOS_PRIMARY_PARTITIONS
  <2>2. f[i] \in Seq(IntEntry)
    BY <1>2, <2>1
  <2>3. f[i + 1] = IF i + 1 \in BeforeExtended(T) THEN Append(f[i], Rebased(T[i + 1], s)) ELSE f[i]
    BY <2>1, NamedStep DEF f
  <2>4. Rebased(T[i + 1], s) \in IntEntry
    <3>1. T[i + 1] \in Entry
      BY <2>1 DEF Table
    <3>. HIDE DEF T
    <3>2. SectorMod \in Nat
      BY MbrAssumption
    <3>. QED BY <3>1, <3>2 DEF Entry, IntEntry, Rebased
  <2>. HIDE DEF T
  <2>. QED BY <2>2, <2>3, <2>4
<1>3. \A i \in Nat : i \in S
  <2>. HIDE DEF S
  <2>. QED BY <1>1, <1>2, SetInduction
<1>. QED BY <1>3 DEF f, DOS_PRIMARY_PARTITIONS

LEMMA NamedBehindLink ==
  ASSUME NEW s, disk[s + 1].parts \in Table,
         NEW i \in 1 .. DOS_PRIMARY_PARTITIONS, is_extended(disk[s + 1].parts[i])
  PROVE  NamedIn(s)[DOS_PRIMARY_PARTITIONS] = NamedIn(s)[i - 1]
<1>. DEFINE f == NamedIn(s)
            T == disk[s + 1].parts
<1>1. \A j \in 1 .. DOS_PRIMARY_PARTITIONS : j >= i => j \notin BeforeExtended(T)
  <2>. SUFFICES ASSUME NEW j \in 1 .. DOS_PRIMARY_PARTITIONS, j >= i PROVE i \in 1 .. j
    BY DEF BeforeExtended
  <2>. QED BY DEF DOS_PRIMARY_PARTITIONS
<1>2. \A j \in 1 .. DOS_PRIMARY_PARTITIONS : j >= i => f[j] = f[j - 1]
  BY <1>1, NamedStep
<1>. HIDE DEF f
<1>3. \A j \in 1 .. 4 : j >= i => f[j] = f[j - 1]
  BY <1>2 DEF DOS_PRIMARY_PARTITIONS
<1>4. i \in {1, 2, 3, 4}
  BY DEF DOS_PRIMARY_PARTITIONS
<1>5. f[4] = f[i - 1]
  <2>1. f[4] = f[3]
    BY <1>3, <1>4
  <2>2. i <= 3 => f[3] = f[2]
    BY <1>3, <1>4
  <2>3. i <= 2 => f[2] = f[1]
    BY <1>3, <1>4
  <2>4. i <= 1 => f[1] = f[0]
    BY <1>3, <1>4
  <2>. QED BY <1>4, <2>1, <2>2, <2>3, <2>4
<1>. QED BY <1>5 DEF f, DOS_PRIMARY_PARTITIONS

(* What the chain names, table by table, and nothing from its end on.      *)
LEMMA LogicStep ==
  ASSUME ChainBound \in Nat, NEW k \in 1 .. ChainBound
  PROVE  /\ LogicUpTo[0] = <<>>
         /\ LogicUpTo[k] = IF ChainTable[k] = -1 THEN LogicUpTo[k - 1]
                           ELSE LogicUpTo[k - 1] \o NamedIn(ChainTable[k])[DOS_PRIMARY_PARTITIONS]
<1>. DEFINE f == LogicUpTo
            V(x, n) == IF ChainTable[n] = -1 THEN x ELSE x \o NamedIn(ChainTable[n])[DOS_PRIMARY_PARTITIONS]
<1>1. f = [n \in 0 .. ChainBound |-> IF n = 0 THEN <<>> ELSE V(f[n - 1], n)]
  BY LogicDef, Zenon
<1>. HIDE DEF f, V
<1>2. 0 \in 0 .. ChainBound /\ k \in 0 .. ChainBound /\ k # 0
  OBVIOUS
<1>3. f[0] = <<>> /\ f[k] = V(f[k - 1], k)
  BY <1>1, <1>2
<1>. QED BY <1>3 DEF f, V

LEMMA ChainStep ==
  ASSUME ChainBound \in Nat, NEW k \in 1 .. ChainBound
  PROVE  /\ ChainTable[1] = TableAt(Extended)
         /\ k # 1 => ChainTable[k] = NextTable(ChainTable[k - 1])
<1>. DEFINE f == ChainTable
            V(x) == NextTable(x)
            base == TableAt(Extended)
<1>1. f = [n \in 1 .. ChainBound |-> IF n = 1 THEN base ELSE V(f[n - 1])]
  BY ChainDef, Zenon
<1>. HIDE DEF f, V, base
<1>2. 1 \in 1 .. ChainBound
  OBVIOUS
<1>3. f[1] = base /\ (k # 1 => f[k] = V(f[k - 1]))
  BY <1>1, <1>2
<1>. QED BY <1>3 DEF f, V, base

LEMMA LogicType ==
  ASSUME MbrTypeOK, FirstExtended(primary) # {}
  PROVE  \A k \in 0 .. ChainBound : LogicUpTo[k] \in Seq(IntEntry)
<1>. DEFINE S == {k \in Nat : k \in 0 .. ChainBound => LogicUpTo[k] \in Seq(IntEntry)}
<1>0. ChainBound \in Nat /\ 1 \in 1 .. ChainBound
  BY ChainBoundType
<1>1. 0 \in S
  <2>1. LogicUpTo[0] = <<>>
    BY <1>0, LogicStep
  <2>2. LogicUpTo[0] \in Seq(IntEntry)
    BY <2>1
  <2>. QED BY <2>2
<1>2. ASSUME NEW k \in Nat, k \in S PROVE k + 1 \in S
  <2>. SUFFICES ASSUME k + 1 \in 0 .. ChainBound PROVE LogicUpTo[k + 1] \in Seq(IntEntry)
    OBVIOUS
  <2>1. k \in 0 .. ChainBound /\ k + 1 \in 1 .. ChainBound /\ (k + 1) - 1 = k
    BY <1>0
  <2>2. LogicUpTo[k] \in Seq(IntEntry)
    BY <1>2, <2>1
  <2>. DEFINE s == ChainTable[k + 1]
              named == NamedIn(s)[DOS_PRIMARY_PARTITIONS]
  <2>3. LogicUpTo[k + 1] = IF s = -1 THEN LogicUpTo[k] ELSE LogicUpTo[k] \o named
    BY <1>0, <2>1, LogicStep
  <2>4. s # -1 => named \in Seq(IntEntry)
    <3>1. Place(s)
      BY <2>1, ChainType
    <3>. HIDE DEF s
    <3>. SUFFICES ASSUME s # -1 PROVE named \in Seq(IntEntry)
      OBVIOUS
    <3>2. s \in Nat /\ s < NSectors
      BY <3>1 DEF Place
    <3>3. disk[s + 1].parts \in Table
      BY <3>2, SectorTable
    <3>4. DOS_PRIMARY_PARTITIONS \in 0 .. DOS_PRIMARY_PARTITIONS
      BY DEF DOS_PRIMARY_PARTITIONS
    <3>. QED BY <3>2, <3>3, <3>4, NamedType
  <2>. HIDE DEF named, s
  <2>. QED BY <2>2, <2>3, <2>4
<1>3. \A k \in Nat : k \in S
  <2>. HIDE DEF S
  <2>. QED BY <1>1, <1>2, SetInduction
<1>. QED BY <1>0, <1>3

LEMMA ChainEnds ==
  ASSUME ChainBound \in Nat, NEW k \in 1 .. ChainBound, ChainTable[k] = -1
  PROVE  ChainLogic = LogicUpTo[k - 1]
<1>. DEFINE S == {d \in Nat : k + d \in 1 .. ChainBound => ChainTable[k + d] = -1 /\ LogicUpTo[k + d] = LogicUpTo[k - 1]}
<1>1. 0 \in S
  <2>1. k + 0 = k /\ LogicUpTo[k] = LogicUpTo[k - 1]
    BY LogicStep
  <2>. QED BY <2>1
<1>2. ASSUME NEW d \in Nat, d \in S PROVE d + 1 \in S
  <2>. DEFINE m == k + d + 1
  <2>. SUFFICES ASSUME m \in 1 .. ChainBound PROVE ChainTable[m] = -1 /\ LogicUpTo[m] = LogicUpTo[k - 1]
    OBVIOUS
  <2>1. m # 1 /\ m - 1 = k + d /\ k + d \in 1 .. ChainBound
    OBVIOUS
  <2>2. ChainTable[m - 1] = -1 /\ LogicUpTo[m - 1] = LogicUpTo[k - 1]
    BY <1>2, <2>1
  <2>. HIDE DEF m
  <2>3. ChainTable[m] = NextTable(-1)
    BY <2>1, <2>2, ChainStep
  <2>4. ChainTable[m] = -1
    BY <2>3 DEF NextTable
  <2>5. LogicUpTo[m] = LogicUpTo[m - 1]
    BY <2>4, LogicStep
  <2>. QED BY <2>2, <2>4, <2>5
<1>3. \A d \in Nat : d \in S
  <2>. HIDE DEF S
  <2>. QED BY <1>1, <1>2, SetInduction
<1>4. ChainBound - k \in Nat /\ k + (ChainBound - k) = ChainBound
  OBVIOUS
<1>. QED BY <1>3, <1>4 DEF ChainLogic

(* The invariant of the walk: the table it reads or is in is a table of    *)
(* the chain, and logic[] holds what the chain names up to here.           *)
Where == extend_start + part_start
Tables(n) == Len(logic) * (NSectors + 1) + idle + n
AtTable(t) ==
  /\ t \in 1 .. ChainBound /\ t <= Tables(1)
  /\ ChainTable[t] = TableAt(Where) /\ Where < SeekMod
  /\ logic = LogicUpTo[t - 1]
InTable(t) ==
  /\ t \in 1 .. ChainBound /\ t <= Tables(0)
  /\ ChainTable[t] = Where /\ Where < SeekMod /\ Where < NSectors
  /\ parts = disk[Where + 1].parts
  /\ \A j \in 1 .. index - 1 : ~is_extended(parts[j])
  /\ logic = LogicUpTo[t - 1] \o NamedIn(Where)[index - 1]
WalkInv ==
  /\ mbr_pc = "table" => extend_start = Extended /\ \E t \in Nat : AtTable(t)
  /\ mbr_pc = "entry" => extend_start = Extended /\ \E t \in Nat : InTable(t)
  /\ mbr_pc \in {"register", "done"} => logic = ChainLogic
ChainInv ==
  /\ mbr_pc # "done" => ret = 0
  /\ mbr_pc = "detect" => logic = <<>> /\ idle = 0
  /\ LogicBounded
  /\ FirstExtended(primary) # {} /\ ChainIsSmall /\ ret = 0 => WalkInv

(* The chain is a fact about the disk: only detecting the primary entries  *)
(* says where it starts.                                                   *)
LEMMA ChainFixed ==
  ASSUME UNCHANGED <<disk, primary>>
  PROVE  /\ Extended' = Extended /\ ChainBound' = ChainBound /\ NSectors' = NSectors
         /\ (FirstExtended(primary) # {})' <=> FirstExtended(primary) # {}
         /\ ChainIsSmall' <=> ChainIsSmall
         /\ ChainTable' = ChainTable /\ LogicUpTo' = LogicUpTo /\ ChainLogic' = ChainLogic
         /\ \A s : NamedIn(s)' = NamedIn(s) /\ TableAt(s)' = TableAt(s)
<1>1. Extended' = Extended
  BY DEF Extended
<1>2. NSectors' = NSectors /\ ChainBound' = ChainBound
  BY DEF NSectors, ChainBound
<1>3. \A s : TableAt(s)' = TableAt(s)
  BY <1>2 DEF TableAt
<1>4. \A s : NamedIn(s)' = NamedIn(s)
  BY DEF NamedIn
<1>5. ChainTable' = ChainTable
  BY <1>1, <1>2 DEF ChainTable, NextTable, TableAt
<1>6. LogicUpTo' = LogicUpTo
  BY <1>2, <1>5 DEF LogicUpTo, NamedIn
<1>7. ChainLogic' = ChainLogic
  BY <1>2, <1>6 DEF ChainLogic
<1>8. ChainIsSmall' <=> ChainIsSmall
  BY <1>1, <1>2 DEF ChainIsSmall
<1>. QED BY <1>1, <1>2, <1>3, <1>4, <1>5, <1>6, <1>7, <1>8

LEMMA SmallStart ==
  ASSUME MbrTypeOK, ChainIsSmall, NEW s \in Nat, s < NSectors, NEW i \in 1 .. DOS_PRIMARY_PARTITIONS
  PROVE  disk[s + 1].parts[i].start + Extended < SeekMod
<1>1. s + 1 \in 1 .. NSectors /\ i \in 1 .. 4
  BY FirstTable DEF DOS_PRIMARY_PARTITIONS
<1>. QED BY <1>1 DEF ChainIsSmall

LEMMA ChainStarts ==
  MbrTypeOK /\ FirstExtended(primary) # {} /\ ChainIsSmall /\ logic = <<>> /\ idle = 0
  /\ part_start = 0 /\ extend_start = Extended => AtTable(1)
<1>. SUFFICES ASSUME MbrTypeOK, FirstExtended(primary) # {}, ChainIsSmall, logic = <<>>, idle = 0,
                     part_start = 0, extend_start = Extended
              PROVE  AtTable(1)
  OBVIOUS
<1>1. ChainBound \in Nat /\ 1 \in 1 .. ChainBound
  BY ChainBoundType
<1>2. Extended \in Nat
  BY ExtendedType
<1>3. Where = Extended
  BY <1>2 DEF Where
<1>4. Extended < SeekMod
  <2>1. NSectors \in Nat \ {0} /\ disk[1].parts \in Table
    BY FirstTable
  <2>2. 0 + 1 = 1 /\ 0 < NSectors /\ 1 \in 1 .. DOS_PRIMARY_PARTITIONS
    BY <2>1 DEF DOS_PRIMARY_PARTITIONS
  <2>3. disk[1].parts[1].start + Extended < SeekMod
    BY <2>2, SmallStart
  <2>4. disk[1].parts[1].start \in Nat
    <3>1. disk[1].parts[1] \in Entry
      BY <2>1, <2>2 DEF Table
    <3>. QED BY <3>1, MbrAssumption DEF Entry
  <2>5. SeekMod \in Nat
    BY MbrAssumption
  <2>. QED BY <1>2, <2>3, <2>4, <2>5
<1>5. ChainTable[1] = TableAt(Extended) /\ LogicUpTo[0] = <<>>
  BY <1>1, ChainStep, LogicStep
<1>6. 1 <= Tables(1)
  BY FirstTable DEF Tables
<1>7. 1 - 1 = 0
  OBVIOUS
<1>. QED BY <1>1, <1>3, <1>4, <1>5, <1>6, <1>7 DEF AtTable

LEMMA ChainStartsNext ==
  (MbrTypeOK /\ FirstExtended(primary) # {} /\ ChainIsSmall /\ logic = <<>> /\ idle = 0
   /\ part_start = 0 /\ extend_start = Extended => AtTable(1))'
BY ChainStarts, PTL

LEMMA LinkIsNext ==
  (MbrTypeOK => \A i \in FirstExtended(primary) : LinkOf(primary) = i)'
<1>1. MbrTypeOK => \A i \in FirstExtended(primary) : LinkOf(primary) = i
  BY LinkIs DEF MbrTypeOK
<1>. QED BY <1>1, PTL

LEMMA ChainDetect == ASSUME TypeInv, ChainInv, MbrDetect PROVE ChainInv'
<1>1. CASE DetectRefuses
  BY <1>1 DEF DetectRefuses, ChainInv, LogicBounded
<1>2. CASE DetectPrimary
  <2>1. TypeInv' /\ MbrTypeOK'
    BY TypeDetect DEF TypeInv
  <2>2. /\ logic' = <<>> /\ idle' = 0 /\ ret' = 0 /\ part_start' = 0
        /\ LogicBounded' /\ mbr_pc' \in {"register", "table"}
    BY <1>2 DEF DetectPrimary, ChainInv, LogicBounded
  <2>3. ASSUME (FirstExtended(primary) # {})', ChainIsSmall' PROVE WalkInv'
    <3>1. PICK i \in FirstExtended(primary') : extend_start' = primary'[i].start /\ mbr_pc' = "table"
      BY <1>2, <2>3 DEF DetectPrimary
    <3>2. LinkOf(primary)' = i
      BY <2>1, <3>1, LinkIsNext
    <3>3. extend_start' = Extended'
      BY <3>1, <3>2 DEF Extended
    <3>4. AtTable(1)'
      BY <2>1, <2>2, <2>3, <3>3, ChainStartsNext
    <3>5. (\E t \in Nat : AtTable(t))'
      BY <3>4
    <3>. QED BY <3>1, <3>3, <3>5 DEF WalkInv
  <2>. QED BY <2>2, <2>3 DEF ChainInv
<1>. QED BY <1>1, <1>2 DEF MbrDetect

(* A step of the walk: what stays, and what it must keep.                  *)
LEMMA ChainKept ==
  ASSUME ChainInv, mbr_pc \in {"table", "entry"}, UNCHANGED <<disk, primary, ret>>,
         LogicBounded', mbr_pc' \in {"table", "entry", "register"},
         FirstExtended(primary) # {} /\ ChainIsSmall /\ WalkInv => WalkInv'
  PROVE  ChainInv'
BY ChainFixed DEF ChainInv

LEMMA WhereIs ==
  ASSUME MbrTypeOK, Where < SeekMod
  PROVE  Where \in Nat /\ TableSector = Where
<1>1. SeekMod \in Nat \ {0} /\ SectorMod \in Nat \ {0} /\ 2 * SeekMod <= SectorMod
  BY MbrAssumption
<1>2. extend_start + part_start \in Nat /\ extend_start + part_start < SeekMod
  BY <1>1 DEF MbrTypeOK, Where
<1>. DEFINE x == extend_start + part_start
<1>. HIDE DEF x
<1>3. x \in Nat /\ x < SeekMod
  BY <1>2 DEF x
<1>4. \A a \in Nat, b \in Nat \ {0} : a < b => a % b = a
  OBVIOUS
<1>5. x < SectorMod
  BY <1>1, <1>3
<1>6. x % SectorMod = x
  BY <1>1, <1>3, <1>4, <1>5
<1>7. (x % SectorMod) % SeekMod = x
  BY <1>1, <1>3, <1>4, <1>6
<1>. QED BY <1>3, <1>7 DEF TableSector, Where, x

LEMMA ChainRead == ASSUME TypeInv, ChainInv, ReadTable PROVE ChainInv'
<1>. USE DEF TypeInv
<1>1. /\ mbr_pc = "table" /\ TableSector < NSectors /\ idle <= NSectors
      /\ UNCHANGED <<disk, ret, primary, logic, extend_start, part_start>>
      /\ mbr_pc' \in {"entry", "register"}
  BY DEF ReadTable, detected
<1>2. ASSUME FirstExtended(primary) # {}, ChainIsSmall, WalkInv PROVE WalkInv'
  <2>1. extend_start = Extended
    BY <1>1, <1>2 DEF WalkInv
  <2>2. PICK t \in Nat : AtTable(t)
    BY <1>1, <1>2 DEF WalkInv
  <2>3. /\ t \in 1 .. ChainBound /\ t <= Tables(1) /\ ChainTable[t] = TableAt(Where)
        /\ Where < SeekMod /\ logic = LogicUpTo[t - 1]
    BY <2>2 DEF AtTable
  <2>4. Where \in Nat /\ TableSector = Where /\ ChainBound \in Nat
    BY <2>3, WhereIs, ChainBoundType
  <2>5. CASE MagicMatches(disk[TableSector + 1])
    <3>1. mbr_pc' = "entry" /\ parts' = disk[Where + 1].parts /\ index' = 1 /\ idle' = idle + 1
      BY <2>4, <2>5 DEF ReadTable
    <3>2. ChainTable[t] = Where
      BY <1>1, <2>3, <2>4, <2>5 DEF TableAt
    <3>3. NamedIn(Where)[0] = <<>>
      <4>1. 1 \in 1 .. DOS_PRIMARY_PARTITIONS
        BY DEF DOS_PRIMARY_PARTITIONS
      <4>. QED BY <4>1, NamedStep
    <3>4. logic = LogicUpTo[t - 1] \o NamedIn(Where)[0]
      <4>1. logic \in Seq(Entry)
        BY DEF MbrTypeOK
      <4>2. logic \o <<>> = logic
        BY <4>1
      <4>. QED BY <2>3, <3>3, <4>2
    <3>5. Where' = Where /\ Tables(0)' = Tables(1)
      <4>1. Len(logic) * (NSectors + 1) \in Int /\ idle \in Int
        BY FirstTable DEF MbrTypeOK
      <4>2. NSectors' = NSectors /\ Len(logic') = Len(logic)
        BY <1>1 DEF NSectors
      <4>. QED BY <1>1, <3>1, <4>1, <4>2 DEF Where, Tables
    <3>6. InTable(t)'
      <4>1. \A j \in 1 .. 1 - 1 : FALSE
        OBVIOUS
      <4>2. 1 - 1 = 0
        OBVIOUS
      <4>. QED BY <1>1, <2>3, <2>4, <3>1, <3>2, <3>4, <3>5, <4>1, <4>2, ChainFixed DEF InTable
    <3>7. (\E m \in Nat : InTable(m))'
      BY <3>6
    <3>. QED BY <1>1, <2>1, <3>1, <3>7, ChainFixed DEF WalkInv
  <2>6. CASE ~MagicMatches(disk[TableSector + 1])
    <3>1. mbr_pc' = "register"
      BY <2>6 DEF ReadTable
    <3>2. ChainTable[t] = -1
      BY <2>3, <2>4, <2>6 DEF TableAt
    <3>3. logic = ChainLogic
      BY <2>3, <2>4, <3>2, ChainEnds
    <3>. QED BY <1>1, <3>1, <3>3, ChainFixed DEF WalkInv
  <2>. QED BY <2>5, <2>6
<1>3. LogicBounded'
  BY <1>1 DEF ChainInv, LogicBounded
<1>. QED BY <1>1, <1>2, <1>3, ChainKept

LEMMA InTableFacts ==
  ASSUME TypeInv, FirstExtended(primary) # {}, NEW t \in Nat, InTable(t), index <= DOS_PRIMARY_PARTITIONS
  PROVE  /\ index \in 1 .. DOS_PRIMARY_PARTITIONS /\ parts[index] \in Entry
         /\ NamedIn(Where)[index] = IF Used(parts[index]) /\ ~is_extended(parts[index])
                                    THEN Append(NamedIn(Where)[index - 1], Rebased(parts[index], Where))
                                    ELSE NamedIn(Where)[index - 1]
         /\ NamedIn(Where)[index - 1] \in Seq(IntEntry)
         /\ LogicUpTo[t - 1] \in Seq(IntEntry)
<1>. USE DEF TypeInv
<1>1. index \in 1 .. DOS_PRIMARY_PARTITIONS /\ parts \in Table
  BY DEF MbrTypeOK, DOS_PRIMARY_PARTITIONS
<1>2. parts[index] \in Entry
  BY <1>1 DEF Table
<1>3. Where \in Nat /\ disk[Where + 1].parts = parts /\ \A j \in 1 .. index - 1 : ~is_extended(parts[j])
  BY WhereIs DEF InTable
<1>4. index \in BeforeExtended(parts) <=> Used(parts[index]) /\ ~is_extended(parts[index])
  <2>1. DOMAIN parts = 1 .. DOS_PRIMARY_PARTITIONS
    BY <1>1 DEF Table
  <2>2. \A j \in 1 .. index : j \in 1 .. index - 1 \/ j = index
    BY <1>1 DEF DOS_PRIMARY_PARTITIONS
  <2>3. index \in 1 .. index
    BY <1>1 DEF DOS_PRIMARY_PARTITIONS
  <2>. QED BY <1>1, <1>3, <2>1, <2>2, <2>3, Zenon DEF BeforeExtended
<1>5. NamedIn(Where)[index] = IF index \in BeforeExtended(parts)
                              THEN Append(NamedIn(Where)[index - 1], Rebased(parts[index], Where))
                              ELSE NamedIn(Where)[index - 1]
  <2>1. NamedIn(Where)[index] = IF index \in BeforeExtended(disk[Where + 1].parts)
                                THEN Append(NamedIn(Where)[index - 1], Rebased(disk[Where + 1].parts[index], Where))
                                ELSE NamedIn(Where)[index - 1]
    BY <1>1, NamedStep, Zenon
  <2>. QED BY <1>3, <2>1, Zenon
<1>6. NamedIn(Where)[index - 1] \in Seq(IntEntry)
  <2>1. index - 1 \in 0 .. DOS_PRIMARY_PARTITIONS
    BY <1>1 DEF DOS_PRIMARY_PARTITIONS
  <2>. QED BY <1>1, <1>3, <2>1, NamedType
<1>7. LogicUpTo[t - 1] \in Seq(IntEntry)
  <2>1. t - 1 \in 0 .. ChainBound
    BY ChainBoundType DEF InTable
  <2>. QED BY <2>1, LogicType
<1>. QED BY <1>1, <1>2, <1>4, <1>5, <1>6, <1>7, Zenon

LEMMA ChainSkip == ASSUME TypeInv, ChainInv, SkipEmpty PROVE ChainInv'
<1>. USE DEF TypeInv
<1>1. /\ mbr_pc = "entry" /\ mbr_pc' = "entry" /\ index <= DOS_PRIMARY_PARTITIONS /\ ~Used(parts[index])
      /\ index' = index + 1
      /\ UNCHANGED <<disk, ret, primary, logic, extend_start, part_start, parts, idle>>
  BY DEF SkipEmpty, AtEntry, detected
<1>2. ASSUME FirstExtended(primary) # {}, ChainIsSmall, WalkInv PROVE WalkInv'
  <2>1. PICK t \in Nat : InTable(t)
    BY <1>1, <1>2 DEF WalkInv
  <2>2. /\ index \in 1 .. DOS_PRIMARY_PARTITIONS
        /\ NamedIn(Where)[index] = NamedIn(Where)[index - 1]
    BY <1>1, <1>2, <2>1, InTableFacts
  <2>3. index' - 1 = index /\ \A j \in 1 .. index' - 1 : j \in 1 .. index - 1 \/ j = index
    BY <1>1, <2>2 DEF DOS_PRIMARY_PARTITIONS
  <2>4. ~is_extended(parts[index])
    BY <1>1 DEF Used, is_extended
  <2>5. Where' = Where /\ Tables(0)' = Tables(0)
    BY <1>1 DEF Where, Tables, NSectors
  <2>6. InTable(t)'
    BY <1>1, <2>1, <2>2, <2>3, <2>4, <2>5, ChainFixed DEF InTable
  <2>7. (\E m \in Nat : InTable(m))'
    BY <2>6
  <2>. QED BY <1>1, <1>2, <2>7, ChainFixed DEF WalkInv
<1>3. LogicBounded'
  BY <1>1 DEF ChainInv, LogicBounded
<1>. QED BY <1>1, <1>2, <1>3, ChainKept

LEMMA ChainDone == ASSUME TypeInv, ChainInv, TableDone PROVE ChainInv'
<1>. USE DEF TypeInv
<1>1. /\ mbr_pc = "entry" /\ mbr_pc' = "register" /\ index > DOS_PRIMARY_PARTITIONS
      /\ UNCHANGED <<disk, ret, primary, logic, extend_start, part_start, parts, index, idle>>
  BY DEF TableDone, detected, walk
<1>2. ASSUME FirstExtended(primary) # {}, ChainIsSmall, WalkInv PROVE WalkInv'
  <2>1. PICK t \in Nat : InTable(t)
    BY <1>1, <1>2 DEF WalkInv
  <2>2. /\ t \in 1 .. ChainBound /\ ChainTable[t] = Where /\ Where \in Nat /\ ChainBound \in Nat
        /\ disk[Where + 1].parts = parts
        /\ logic = LogicUpTo[t - 1] \o NamedIn(Where)[index - 1]
    BY <2>1, WhereIs, ChainBoundType DEF InTable
  <2>3. index - 1 = DOS_PRIMARY_PARTITIONS
    BY <1>1 DEF MbrTypeOK, DOS_PRIMARY_PARTITIONS
  <2>4. logic = LogicUpTo[t]
    <3>1. Where # -1
      BY <2>2
    <3>. QED BY <2>2, <2>3, <3>1, LogicStep
  <2>5. FirstExtended(parts) = {}
    BY <2>1, <2>3 DEF InTable, FirstExtended, MbrTypeOK, Table
  <2>6. NextTable(Where) = -1
    BY <2>2, <2>5 DEF NextTable
  <2>7. logic = ChainLogic
    <3>1. CASE t = ChainBound
      BY <2>4, <3>1 DEF ChainLogic
    <3>2. CASE t # ChainBound
      <4>1. t + 1 \in 1 .. ChainBound /\ t + 1 # 1 /\ (t + 1) - 1 = t
        BY <2>2, <3>2
      <4>2. ChainTable[t + 1] = -1
        BY <2>2, <2>6, <4>1, ChainStep
      <4>3. ChainLogic = LogicUpTo[(t + 1) - 1]
        BY <2>2, <4>1, <4>2, ChainEnds
      <4>. QED BY <2>4, <4>1, <4>3
    <3>. QED BY <3>1, <3>2
  <2>. QED BY <1>1, <2>7, ChainFixed DEF WalkInv
<1>3. LogicBounded'
  BY <1>1 DEF ChainInv, LogicBounded
<1>. QED BY <1>1, <1>2, <1>3, ChainKept

LEMMA ChainSave == ASSUME TypeInv, ChainInv, SaveLogic PROVE ChainInv'
<1>. USE DEF TypeInv
<1>. DEFINE e == [parts[index] EXCEPT !.start = (@ + part_start + extend_start) % SectorMod]
<1>1. /\ mbr_pc = "entry" /\ mbr_pc' = "entry" /\ index <= DOS_PRIMARY_PARTITIONS
      /\ Used(parts[index]) /\ ~is_extended(parts[index]) /\ ~TooManyLogic
      /\ logic' = Append(logic, e) /\ idle' = 0 /\ index' = index + 1
      /\ UNCHANGED <<disk, ret, primary, extend_start, part_start, parts>>
  BY DEF SaveLogic, AtEntry
<1>2. Len(logic) \in Nat /\ Len(logic') = Len(logic) + 1 /\ idle \in 0 .. NSectors + 1 /\ NSectors \in Nat
  <2>. HIDE DEF e
  <2>. QED BY <1>1, FirstTable DEF MbrTypeOK
<1>3. ASSUME FirstExtended(primary) # {}, ChainIsSmall, WalkInv PROVE WalkInv'
  <2>1. PICK t \in Nat : InTable(t)
    BY <1>1, <1>3 DEF WalkInv
  <2>2. /\ index \in 1 .. DOS_PRIMARY_PARTITIONS /\ parts[index] \in Entry
        /\ NamedIn(Where)[index] = Append(NamedIn(Where)[index - 1], Rebased(parts[index], Where))
        /\ NamedIn(Where)[index - 1] \in Seq(IntEntry)
        /\ LogicUpTo[t - 1] \in Seq(IntEntry)
    BY <1>1, <1>3, <2>1, InTableFacts
  <2>3. index' - 1 = index /\ \A j \in 1 .. index' - 1 : j \in 1 .. index - 1 \/ j = index
    BY <1>1, <2>2 DEF DOS_PRIMARY_PARTITIONS
  <2>4. Where \in Nat /\ Where < SeekMod /\ Where < NSectors /\ disk[Where + 1].parts = parts
    BY <2>1, WhereIs DEF InTable
  <2>5. e = Rebased(parts[index], Where)
    <3>. DEFINE b == parts[index].start
    <3>1. b + Extended < SeekMod /\ Extended \in Nat /\ b \in Nat
      <4>1. b + Extended < SeekMod
        BY <1>3, <2>2, <2>4, SmallStart
      <4>2. b \in Nat
        BY <2>2, MbrAssumption DEF Entry
      <4>. QED BY <1>3, <4>1, <4>2, ExtendedType
    <3>. HIDE DEF b
    <3>2. 2 * SeekMod <= SectorMod /\ SeekMod \in Nat /\ SectorMod \in Nat \ {0}
      BY MbrAssumption
    <3>3. b + part_start + extend_start = b + Where
      BY <3>1 DEF Where, MbrTypeOK
    <3>4. b + Where \in Nat /\ b + Where < SectorMod
      BY <2>4, <3>1, <3>2
    <3>5. (b + Where) % SectorMod = b + Where
      <4>1. \A x \in Nat, y \in Nat \ {0} : x < y => x % y = x
        OBVIOUS
      <4>. QED BY <3>2, <3>4, <4>1
    <3>6. e = [parts[index] EXCEPT !.start = (b + part_start + extend_start) % SectorMod]
      BY DEF b
    <3>7. Rebased(parts[index], Where) = [parts[index] EXCEPT !.start = b + Where]
      BY DEF b, Rebased
    <3>. QED BY <3>3, <3>5, <3>6, <3>7, Zenon
  <2>6. Rebased(parts[index], Where) \in IntEntry
    <3>1. \A x \in Entry, n \in Nat : Rebased(x, n) \in IntEntry
      <4>1. SectorMod \in Nat
        BY MbrAssumption
      <4>. QED BY <4>1 DEF Rebased, Entry, IntEntry
    <3>. QED BY <2>2, <2>4, <3>1
  <2>7. logic' = LogicUpTo[t - 1] \o NamedIn(Where)[index]
    <3>1. logic = LogicUpTo[t - 1] \o NamedIn(Where)[index - 1]
      BY <2>1 DEF InTable
    <3>2. logic' = Append(logic, Rebased(parts[index], Where))
      BY <1>1, <2>5, Zenon
    <3>. DEFINE a == LogicUpTo[t - 1]
                b == NamedIn(Where)[index - 1]
                x == Rebased(parts[index], Where)
    <3>3. a \in Seq(IntEntry) /\ b \in Seq(IntEntry) /\ x \in IntEntry
      BY <2>2, <2>6
    <3>4. logic' = Append(a \o b, x) /\ NamedIn(Where)[index] = Append(b, x)
      BY <2>2, <3>1, <3>2
    <3>. HIDE DEF a, b, x
    <3>5. Append(a \o b, x) = a \o Append(b, x)
      BY <3>3
    <3>6. logic' = a \o NamedIn(Where)[index]
      BY <3>4, <3>5
    <3>. QED BY <3>6 DEF a
  <2>8. Where' = Where /\ t <= Tables(0)'
    <3>. DEFINE n == Len(logic)
                m == NSectors + 1
    <3>1. (n + 1) * m = n * m + m /\ n * m \in Nat
      BY <1>2
    <3>2. t <= n * m + idle + 0
      BY <2>1 DEF InTable, Tables
    <3>3. NSectors' = NSectors
      BY <1>1 DEF NSectors
    <3>4. Tables(0)' = (n + 1) * m + 0 + 0
      BY <1>1, <1>2, <3>3 DEF Tables
    <3>5. t <= (n + 1) * m + 0 + 0
      <4>. DEFINE x == n * m
                  y == (n + 1) * m
      <4>1. y = x + m /\ x \in Nat /\ t <= x + idle + 0 /\ idle \in Int /\ idle <= m /\ m \in Nat
        BY <1>2, <3>1, <3>2
      <4>. HIDE DEF x, y, m
      <4>2. t <= y + 0 + 0
        BY <4>1
      <4>. QED BY <4>2 DEF y
    <3>. QED BY <1>1, <3>4, <3>5 DEF Where
  <2>9. InTable(t)'
    BY <1>1, <2>1, <2>3, <2>7, <2>8, ChainFixed DEF InTable
  <2>10. (\E m \in Nat : InTable(m))'
    BY <2>9
  <2>. QED BY <1>1, <1>3, <2>10, ChainFixed DEF WalkInv
<1>4. LogicBounded'
  BY <1>1, <1>2, MbrAssumption DEF TooManyLogic, LogicBounded
<1>. QED BY <1>1, <1>3, <1>4, ChainKept

LEMMA ChainFollow == ASSUME TypeInv, ChainInv, FollowLink PROVE ChainInv'
<1>. USE DEF TypeInv
<1>1. /\ mbr_pc = "entry" /\ mbr_pc' = "table" /\ index <= DOS_PRIMARY_PARTITIONS
      /\ is_extended(parts[index]) /\ ~TooManyLogic
      /\ part_start' = parts[index].start
      /\ UNCHANGED <<disk, ret, primary, logic, extend_start, parts, index, idle>>
  BY DEF FollowLink, AtEntry, detected
<1>2. ASSUME FirstExtended(primary) # {}, ChainIsSmall, WalkInv PROVE WalkInv'
  <2>1. PICK t \in Nat : InTable(t) /\ extend_start = Extended
    BY <1>1, <1>2 DEF WalkInv
  <2>2. index \in 1 .. DOS_PRIMARY_PARTITIONS /\ parts[index] \in Entry
    BY <1>1, <1>2, <2>1, InTableFacts
  <2>3. /\ Where \in Nat /\ Where < NSectors /\ disk[Where + 1].parts = parts
        /\ t \in 1 .. ChainBound /\ ChainTable[t] = Where /\ ChainBound \in Nat
        /\ logic = LogicUpTo[t - 1] \o NamedIn(Where)[index - 1]
    BY <2>1, WhereIs, ChainBoundType DEF InTable
  <2>4. index \in FirstExtended(parts) /\ parts \in Table
    BY <1>1, <2>1, <2>2 DEF FirstExtended, InTable, MbrTypeOK, Table
  <2>5. NextTable(Where) = TableAt(Where')
    <3>1. LinkOf(parts) = index
      BY <2>4, LinkIs
    <3>2. NextTable(Where) = TableAt(Extended + parts[index].start)
      BY <2>3, <2>4, <3>1 DEF NextTable
    <3>3. Where' = Extended + parts[index].start
      BY <1>1, <2>1 DEF Where
    <3>. QED BY <3>2, <3>3
  <2>6. logic = LogicUpTo[t]
    <3>1. NamedIn(Where)[DOS_PRIMARY_PARTITIONS] = NamedIn(Where)[index - 1]
      BY <1>1, <2>2, <2>3, <2>4, NamedBehindLink
    <3>2. Where # -1
      BY <2>3
    <3>3. LogicUpTo[t] = LogicUpTo[t - 1] \o NamedIn(Where)[DOS_PRIMARY_PARTITIONS]
      BY <2>3, <3>2, LogicStep
    <3>. QED BY <2>3, <3>1, <3>3
  <2>7. Where' < SeekMod
    <3>1. parts[index].start + Extended < SeekMod
      BY <1>2, <2>2, <2>3, SmallStart
    <3>2. Where' = parts[index].start + Extended
      <4>1. parts[index].start \in Int
        BY <2>2, MbrAssumption DEF Entry
      <4>. QED BY <1>1, <1>2, <2>1, <4>1, ExtendedType DEF Where
    <3>. QED BY <3>1, <3>2
  <2>8. t + 1 \in 1 .. ChainBound /\ t + 1 <= Tables(1)
    <3>. DEFINE n == Len(logic)
                m == NSectors + 1
                x == n * m
                y == (MAX_EXT_PARTS + 1) * m
    <3>1. n \in Nat /\ m \in Nat /\ n <= MAX_EXT_PARTS /\ MAX_EXT_PARTS \in Nat /\ idle \in Nat /\ idle <= m
      BY <1>1, FirstTable, MbrAssumption DEF TooManyLogic, MbrTypeOK
    <3>2. t <= x + idle + 0
      BY <2>1 DEF InTable, Tables
    <3>3. x + m <= y /\ x \in Nat /\ y \in Nat
      <4>. HIDE DEF n, m
      <4>1. (n + 1) * m <= (MAX_EXT_PARTS + 1) * m
        BY <3>1
      <4>2. (n + 1) * m = n * m + m
        BY <3>1
      <4>. QED BY <3>1, <4>1, <4>2
    <3>4. ChainBound = y + 1 /\ Tables(1) = x + idle + 1
      BY DEF ChainBound, Tables
    <3>. HIDE DEF x, y, n, m
    <3>. QED BY <2>3, <3>1, <3>2, <3>3, <3>4
  <2>9. ChainTable[t + 1] = TableAt(Where')
    <3>1. t + 1 # 1 /\ (t + 1) - 1 = t
      BY <2>3
    <3>. QED BY <2>3, <2>5, <2>8, <3>1, ChainStep
  <2>10. AtTable(t + 1)'
    <3>1. (t + 1) - 1 = t
      OBVIOUS
    <3>2. Tables(1)' = Tables(1)
      BY <1>1 DEF Tables, NSectors
    <3>. QED BY <1>1, <2>6, <2>7, <2>8, <2>9, <3>1, <3>2, ChainFixed DEF AtTable, TableAt
  <2>11. (\E m \in Nat : AtTable(m))'
    BY <2>10
  <2>. QED BY <1>1, <2>1, <2>11, ChainFixed DEF WalkInv
<1>3. LogicBounded'
  BY <1>1 DEF ChainInv, LogicBounded
<1>. QED BY <1>1, <1>2, <1>3, ChainKept

LEMMA ChainOther ==
  ASSUME ChainInv, UNCHANGED <<disk, primary, logic, extend_start, part_start, parts, index, idle>>,
         \/ UNCHANGED <<mbr_pc, ret>>
         \/ mbr_pc = "register" /\ mbr_pc' = "done" /\ ret' = 0
         \/ mbr_pc' = "done" /\ ret' = -1
  PROVE  ChainInv'
<1>1. LogicBounded'
  BY DEF ChainInv, LogicBounded
<1>2. CASE mbr_pc' = "done" /\ ret' = -1
  BY <1>1, <1>2 DEF ChainInv
<1>3. CASE mbr_pc = "register" /\ mbr_pc' = "done" /\ ret' = 0
  <2>1. ret = 0
    BY <1>3 DEF ChainInv
  <2>2. WalkInv => WalkInv'
    BY <1>3, ChainFixed DEF WalkInv
  <2>. QED BY <1>1, <1>3, <2>1, <2>2, ChainFixed DEF ChainInv
<1>4. CASE UNCHANGED <<mbr_pc, ret>>
  <2>1. Where' = Where /\ \A n \in {0, 1} : Tables(n)' = Tables(n)
    BY DEF Where, Tables, NSectors
  <2>2. \A t \in Nat : AtTable(t)' <=> AtTable(t)
    BY <2>1, ChainFixed DEF AtTable, TableAt
  <2>3. \A t \in Nat : InTable(t)' <=> InTable(t)
    BY <2>1, ChainFixed DEF InTable
  <2>4. WalkInv' <=> WalkInv
    BY <1>4, <2>2, <2>3, ChainFixed DEF WalkInv
  <2>. QED BY <1>1, <1>4, <2>4, ChainFixed DEF ChainInv
<1>. QED BY <1>2, <1>3, <1>4

LEMMA ChainInit == Init => ChainInv
BY MbrAssumption DEF Init, MbrInit, ChainInv, LogicBounded, FirstExtended, EmptyTable, EmptyEntry,
   is_extended, DOS_PRIMARY_PARTITIONS

LEMMA ChainStepInv == Inv /\ ChainInv /\ [Next]_vars => ChainInv'
<1>. SUFFICES ASSUME Inv, ChainInv, [Next]_vars PROVE ChainInv'
  OBVIOUS
<1>1. TypeInv
  BY DEF Inv
<1>2. CASE MbrDetect
  BY <1>1, <1>2, ChainDetect
<1>3. CASE ReadTableFails \/ SaveLogicFails
  <2>1. /\ UNCHANGED <<disk, primary, logic, extend_start, part_start, parts, index, idle>>
        /\ mbr_pc' = "done" /\ ret' = -1
    BY <1>3 DEF ReadTableFails, SaveLogicFails, Fail, walk, LogicBounded
  <2>. QED BY <2>1, ChainOther
<1>4. CASE ReadTable \/ SkipEmpty \/ TableDone \/ SaveLogic \/ FollowLink
  BY <1>1, <1>4, ChainRead, ChainSkip, ChainDone, ChainSave, ChainFollow
<1>5. CASE RegisterMbr
  BY <1>5, ChainOther DEF RegisterMbr, walk
<1>6. CASE RegisterGpt \/ UNCHANGED vars
  <2>1. UNCHANGED <<disk, primary, logic, extend_start, part_start, parts, index, idle, mbr_pc, ret>>
    BY <1>6 DEF RegisterGpt, vars, mbr_vars, detected, walk
  <2>. QED BY <2>1, ChainOther
<1>. QED BY <1>2, <1>3, <1>4, <1>5, <1>6 DEF Next, Mbr, MbrWalk

-----------------------------------------------------------------------------
(* Whatever the image and the tables a search comes upon: mbr_detect and   *)
(* the registry keep their types, the counted entries are those there is   *)
(* room for, and the registry never takes more tables than it has cells.   *)
THEOREM TypeCorrect == Spec => []TypeOK
<1>1. Inv => TypeOK
  BY DEF Inv, TypeInv, GptInv, TablesInv, RegistryInv, TypeOK
<1>. QED BY <1>1, Invariance, PTL

(* Whatever is registered and in whatever order: find_registed_partition   *)
(* answers a partition of a GPT for every address that a GPT below 4 GiB   *)
(* covers, and where all GPTs are below 4 GiB one that covers it.          *)
THEOREM GptAlwaysWins == Spec => []GptWins
<1>1. ASSUME Inv PROVE GptWins
  <2>. DEFINE n == Len(disk_parts_array)
  <2>1. /\ DOMAIN disk_parts_array = 1 .. n /\ DOMAIN gpts = 1 .. Len(gpts)
        /\ \A i \in 1 .. n : DOMAIN disk_parts_array[i].parts = 1 .. Len(disk_parts_array[i].parts)
        /\ \A j \in 1 .. Len(gpts) : gpts[j] \in GptEntries
    BY <1>1, RegisteredTable DEF Inv, TablesInv, RegistryInv, GptInv
  <2>. SUFFICES ASSUME NEW addr \in Addr, NEW j \in 1 .. Len(gpts),
                       Below4G(gpts[j]), CoveredBy(gpts[j], addr)
                PROVE  \E i \in 1 .. n : \E k \in DOMAIN disk_parts_array[i].parts :
                         /\ disk_parts_array[i].disk_type = "GPT"
                         /\ find_registed_partition(addr).best = <<disk_parts_array[i].parts[k]>>
                         /\ (\A l \in DOMAIN gpts : Below4G(gpts[l])) =>
                              \E l \in DOMAIN gpts : \E m \in DOMAIN Own(gpts[l]) :
                                /\ find_registed_partition(addr).best = <<Own(gpts[l])[m]>>
                                /\ Holds(Own(gpts[l])[m], addr)
    BY <2>1 DEF GptWins
  <2>. DEFINE r == find_registed_partition(addr)
              Good == DISK_PARTITIONS_SCORE_GOOD
  <2>2. AfterTables(n, addr, r)
    BY <1>1, FindExact DEF Inv, TablesInv
  <2>. HIDE DEF r
  <2>3. PICK a \in 1 .. n : TableOf(gpts[j], disk_parts_array[a])
    BY <1>1 DEF Inv, ScoreInv
  <2>4. disk_parts_array[a].score = Good /\ TableHas(a, addr)
    <3>1. disk_parts_array[a].score = Good
      BY <1>1, <2>3 DEF Inv, ScoreInv, TableOf
    <3>2. disk_parts_array[a].parts = Own(gpts[j])
      BY <2>1, <2>3, PartsAreOwn DEF TableOf
    <3>3. PICK k \in DOMAIN Own(gpts[j]) : Holds(Own(gpts[j])[k], addr)
      BY DEF CoveredBy
    <3>4. k \in 1 .. Len(disk_parts_array[a].parts) /\ Holds(disk_parts_array[a].parts[k], addr)
      BY <2>1, <3>2, <3>3
    <3>. QED BY <3>1, <3>4 DEF TableHas, Has
  <2>5. Good <= r.score /\ r.score \in Nat /\ r.score # 0
    BY <2>2, <2>4, ScoreAssumption DEF AfterTables
  <2>6. PICK i \in 1 .. n : disk_parts_array[i].score = r.score /\ IsPartOf(disk_parts_array[i], addr, r.best)
    BY <2>2, <2>5 DEF AfterTables
  <2>7. PICK k \in DOMAIN disk_parts_array[i].parts :
          Holds(disk_parts_array[i].parts[k], addr) /\ r.best = <<disk_parts_array[i].parts[k]>>
    BY <2>1, <2>6 DEF IsPartOf
  <2>8. IsGpt(disk_parts_array[i])
    <3>. SUFFICES ASSUME ~IsGpt(disk_parts_array[i]) PROVE FALSE
      OBVIOUS
    <3>1. disk_parts_array[i].score = DISK_PARTITIONS_SCORE_WEAK
      BY <1>1 DEF Inv, ScoreInv
    <3>. QED BY <2>5, <2>6, <3>1, ScoreAssumption
  <2>9. ASSUME \A l \in DOMAIN gpts : Below4G(gpts[l])
        PROVE  \E l \in DOMAIN gpts : \E m \in DOMAIN Own(gpts[l]) :
                 r.best = <<Own(gpts[l])[m]>> /\ Holds(Own(gpts[l])[m], addr)
    <3>1. PICK l \in 1 .. Len(gpts) : TableOf(gpts[l], disk_parts_array[i])
      BY <1>1, <2>8 DEF Inv, ScoreInv
    <3>2. disk_parts_array[i].parts = Own(gpts[l])
      BY <2>1, <2>9, <3>1, PartsAreOwn DEF TableOf
    <3>. QED BY <2>1, <2>7, <3>2
  <2>. QED BY <2>7, <2>8, <2>9 DEF r, IsGpt
<1>. QED BY <1>1, Invariance, PTL

(* Whatever the image: when mbr_detect succeeds, logic[] is what the chain *)
(* of extended tables names, the registered table has every partition at   *)
(* its bytes, and at most one entry is written beyond logic[].             *)
THEOREM MbrTableIsExact == Spec => []MbrTableExact
<1>1. Inv /\ ChainInv => MbrTableExact
  BY DEF Inv, CoverInv, ChainInv, WalkInv, LogicExact, MbrTableExact
<1>2. Spec => [](Inv /\ ChainInv)
  BY InitInv, ChainInit, StepInv, ChainStepInv, PTL DEF Spec
<1>. QED BY <1>1, <1>2, PTL
=============================================================================
