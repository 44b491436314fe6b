------------------------- MODULE AndroidSparseProofs -------------------------
(***************************************************************************)
(* Proofs about AndroidSparse: its invariants, for any number of blocks,   *)
(* any size of a block, any order of adding them, and any list of chunks   *)
(* that another tool made.                                                 *)
(***************************************************************************)
EXTENDS AndroidSparse, Lemmas

USE SparseAssumption, ByteAssumption, ForeignAssumption

-----------------------------------------------------------------------------
(* Sequences of sequences, one behind the other: J[k] are the first k.     *)
Joins(J, c, S) ==
  /\ J \in [0 .. Len(c) -> Seq(S)] /\ J[0] = <<>>
  /\ \A k \in 1 .. Len(c) : J[k] = J[k - 1] \o c[k]

LEMMA JoinExists ==
  ASSUME NEW S, NEW c \in Seq(Seq(S))
  PROVE  \E J : Joins(J, c, S)
<1>. DEFINE K(J, n) == /\ J \in [0 .. n -> Seq(S)] /\ J[0] = <<>>
                       /\ \A k \in 1 .. n : J[k] = J[k - 1] \o c[k]
            T == {n \in Nat : n <= Len(c) => \E J : K(J, n)}
<1>1. 0 \in T
  <2>1. K([k \in 0 .. 0 |-> <<>>], 0)
    OBVIOUS
  <2>. QED BY <2>1
<1>2. ASSUME NEW n \in Nat, n \in T PROVE n + 1 \in T
  <2>. HIDE DEF K
  <2>. SUFFICES ASSUME n + 1 <= Len(c) PROVE \E J : K(J, n + 1)
    OBVIOUS
  <2>0. n <= Len(c)
    OBVIOUS
  <2>1. PICK J : K(J, n)
    BY <1>2, <2>0
  <2>. USE DEF K
  <2>. DEFINE L == [k \in 0 .. n + 1 |-> IF k = n + 1 THEN J[n] \o c[n + 1] ELSE J[k]]
  <2>2. J[n] \o c[n + 1] \in Seq(S)
    <3>1. J[n] \in Seq(S) /\ c[n + 1] \in Seq(S)
      BY <2>1
    <3>. QED BY <3>1
  <2>3. L \in [0 .. n + 1 -> Seq(S)]
    BY <2>1, <2>2
  <2>4. L[0] = <<>>
    BY <2>1
  <2>5. ASSUME NEW k \in 1 .. n + 1 PROVE L[k] = L[k - 1] \o c[k]
    <3>1. CASE k = n + 1
      <4>1. n \in 0 .. n + 1 /\ n # n + 1 /\ n + 1 \in 0 .. n + 1 /\ k - 1 = n
        BY <3>1
      <4>2. L[n] = J[n] /\ L[n + 1] = J[n] \o c[n + 1]
        BY <4>1
      <4>. QED BY <3>1, <4>1, <4>2
    <3>2. CASE k # n + 1
      <4>1. k \in 1 .. n /\ k \in 0 .. n + 1 /\ k - 1 \in 0 .. n + 1 /\ k - 1 # n + 1
        BY <3>2
      <4>. QED BY <2>1, <3>2, <4>1
    <3>. QED BY <3>1, <3>2
  <2>. QED BY <2>3, <2>4, <2>5
<1>. HIDE DEF T, K
<1>3. Len(c) \in T
  <2>1. \A n \in Nat : n \in T
    BY <1>1, <1>2, SetInduction
  <2>. QED BY <2>1
<1>4. PICK J : K(J, Len(c))
  BY <1>3 DEF T
<1>. USE DEF K
<1>. QED BY <1>4 DEF Joins

(* FlattenSeq is the last of them.                                         *)
LEMMA FlattenIs ==
  ASSUME NEW S, NEW c \in Seq(Seq(S)), NEW J, Joins(J, c, S)
  PROVE  FlattenSeq(c) = J[Len(c)]
<1>1. CASE Len(c) = 0
  <2>1. c = <<>>
    BY <1>1
  <2>. QED BY <1>1, <2>1 DEF FlattenSeq, Joins
<1>2. CASE Len(c) # 0
  <2>. DEFINE n == Len(c)
              P(f) == f = [i \in 1 .. n |-> IF i = 1 THEN c[i] ELSE f[i - 1] \o c[i]]
              F == CHOOSE f : P(f)
              G == [i \in 1 .. n |-> J[i]]
              T == {k \in Nat : k \in 1 .. n => F[k] = J[k]}
  <2>0. n \in Nat /\ n # 0
    BY <1>2
  <2>1. \A i \in 1 .. n : G[i] = IF i = 1 THEN c[i] ELSE G[i - 1] \o c[i]
    <3>. TAKE i \in 1 .. n
    <3>1. J[i] = J[i - 1] \o c[i] /\ c[i] \in Seq(S)
      BY DEF Joins
    <3>2. CASE i = 1
      <4>1. J[i - 1] = <<>>
        BY <3>2 DEF Joins
      <4>2. <<>> \o c[i] = c[i]
        BY <3>1
      <4>. QED BY <3>1, <3>2, <4>1, <4>2
    <3>3. CASE i # 1
      <4>1. i - 1 \in 1 .. n
        BY <3>3
      <4>. QED BY <3>1, <3>3, <4>1
    <3>. QED BY <3>2, <3>3
  <2>2. P(G)
    <3>. DEFINE H == [i \in 1 .. n |-> IF i = 1 THEN c[i] ELSE G[i - 1] \o c[i]]
    <3>1. \A i \in 1 .. n : G[i] = H[i]
      BY <2>1
    <3>. HIDE DEF n
    <3>. QED BY <3>1
  <2>. HIDE DEF G
  <2>3. P(F)
    <3>. HIDE DEF P
    <3>. QED BY <2>2
  <2>4. \A i \in 1 .. n : F[i] = IF i = 1 THEN c[i] ELSE F[i - 1] \o c[i]
    <3>. HIDE DEF F, n
    <3>. QED BY <2>3
  <2>5. FlattenSeq(c) = F[n]
    BY <1>2 DEF FlattenSeq
  <2>. HIDE DEF F
  <2>6. 0 \in T
    OBVIOUS
  <2>7. ASSUME NEW k \in Nat, k \in T PROVE k + 1 \in T
    <3>. SUFFICES ASSUME k + 1 \in 1 .. n PROVE F[k + 1] = J[k + 1]
      OBVIOUS
    <3>0. (k + 1) - 1 = k
      OBVIOUS
    <3>1. J[k + 1] = J[k] \o c[k + 1] /\ c[k + 1] \in Seq(S)
      <4>1. J[k + 1] = J[(k + 1) - 1] \o c[k + 1]
        BY DEF Joins
      <4>2. c[k + 1] \in Seq(S)
        OBVIOUS
      <4>. QED BY <3>0, <4>1, <4>2
    <3>2. CASE k = 0
      <4>1. J[k] = <<>> /\ k + 1 = 1
        BY <3>2 DEF Joins
      <4>2. <<>> \o c[k + 1] = c[k + 1]
        BY <3>1
      <4>3. F[k + 1] = c[k + 1]
        BY <2>4, <4>1
      <4>. QED BY <3>1, <4>1, <4>2, <4>3
    <3>3. CASE k # 0
      <4>1. k \in 1 .. n
        BY <3>3
      <4>2. F[k] = J[k]
        BY <2>7, <4>1
      <4>3. k + 1 # 1
        BY <3>3
      <4>4. F[k + 1] = F[k] \o c[k + 1]
        BY <2>4, <3>0, <4>3
      <4>. QED BY <3>1, <4>2, <4>4
    <3>. QED BY <3>2, <3>3
  <2>. HIDE DEF T
  <2>8. n \in T
    BY <2>0, <2>6, <2>7, SetInduction
  <2>. QED BY <2>0, <2>5, <2>8 DEF T
<1>. QED BY <1>1, <1>2

LEMMA FlattenType ==
  ASSUME NEW S, NEW c \in Seq(Seq(S))
  PROVE  FlattenSeq(c) \in Seq(S)
<1>1. PICK J : Joins(J, c, S)
  BY JoinExists
<1>2. FlattenSeq(c) = J[Len(c)]
  BY <1>1, FlattenIs
<1>3. Len(c) \in 0 .. Len(c)
  OBVIOUS
<1>. QED BY <1>1, <1>2, <1>3 DEF Joins

LEMMA FlattenNone == FlattenSeq(<<>>) = <<>>
BY DEF FlattenSeq

LEMMA FlattenAppend ==
  ASSUME NEW S, NEW c \in Seq(Seq(S)), NEW x \in Seq(S)
  PROVE  FlattenSeq(Append(c, x)) = FlattenSeq(c) \o x
<1>. DEFINE d == Append(c, x)
            n == Len(c)
<1>1. /\ d \in Seq(Seq(S)) /\ Len(d) = n + 1 /\ n \in Nat
      /\ d[n + 1] = x /\ \A i \in 1 .. n : c[i] = d[i]
  OBVIOUS
<1>. HIDE DEF d
<1>2. PICK J : Joins(J, c, S)
  BY JoinExists
<1>3. J \in [0 .. n -> Seq(S)] /\ J[0] = <<>> /\ \A k \in 1 .. n : J[k] = J[k - 1] \o c[k]
  BY <1>2 DEF Joins
<1>. DEFINE K == [k \in 0 .. n + 1 |-> IF k = n + 1 THEN J[n] \o x ELSE J[k]]
<1>. HIDE DEF n
<1>4. J[n] \o x \in Seq(S)
  <2>1. J[n] \in Seq(S)
    BY <1>1, <1>3
  <2>. QED BY <2>1
<1>5. K \in [0 .. n + 1 -> Seq(S)] /\ K[0] = <<>> /\ K[n + 1] = J[n] \o x
  BY <1>1, <1>3, <1>4
<1>6. ASSUME NEW k \in 1 .. n + 1 PROVE K[k] = K[k - 1] \o d[k]
  <2>1. CASE k = n + 1
    <3>1. k - 1 = n /\ n \in 0 .. n + 1 /\ n # n + 1
      BY <1>1, <2>1
    <3>. QED BY <1>1, <1>5, <2>1, <3>1
  <2>2. CASE k # n + 1
    <3>1. k \in 1 .. n /\ k - 1 \in 0 .. n + 1 /\ k - 1 # n + 1 /\ k \in 0 .. n + 1
      BY <1>1, <2>2
    <3>. QED BY <1>1, <1>3, <2>2, <3>1
  <2>. QED BY <2>1, <2>2
<1>. HIDE DEF K
<1>7. Joins(K, d, S)
  BY <1>1, <1>5, <1>6 DEF Joins
<1>8. FlattenSeq(d) = K[n + 1]
  BY <1>1, <1>7, FlattenIs
<1>9. FlattenSeq(c) = J[n]
  BY <1>2, FlattenIs DEF n
<1>. QED BY <1>5, <1>8, <1>9 DEF d

(* What stands where in them all.                                          *)
LEMMA JoinGrows ==
  ASSUME NEW S, NEW c \in Seq(Seq(S)), NEW J, Joins(J, c, S), NEW k \in 0 .. Len(c)
  PROVE  /\ J[k] \in Seq(S) /\ FlattenSeq(c) \in Seq(S)
         /\ Len(J[k]) <= Len(FlattenSeq(c))
         /\ \A i \in 1 .. Len(J[k]) : FlattenSeq(c)[i] = J[k][i]
<1>. DEFINE P(n) == Len(J[k]) <= Len(J[n]) /\ \A i \in 1 .. Len(J[k]) : J[n][i] = J[k][i]
            T == {d \in Nat : k + d <= Len(c) => P(k + d)}
<1>1. \A n \in 0 .. Len(c) : J[n] \in Seq(S)
  BY DEF Joins
<1>2. 0 \in T
  BY <1>1
<1>3. ASSUME NEW d \in Nat, d \in T PROVE d + 1 \in T
  <2>. HIDE DEF P
  <2>. DEFINE n == k + d
  <2>. SUFFICES ASSUME n + 1 <= Len(c) PROVE P(n + 1)
    OBVIOUS
  <2>1. n \in 0 .. Len(c) /\ n + 1 \in 1 .. Len(c) /\ (n + 1) - 1 = n
    OBVIOUS
  <2>2. P(n)
    BY <1>3
  <2>. HIDE DEF n
  <2>3. J[n + 1] = J[n] \o c[n + 1]
    BY <2>1 DEF Joins
  <2>4. J[n] \in Seq(S) /\ c[n + 1] \in Seq(S) /\ J[k] \in Seq(S)
    BY <1>1, <2>1
  <2>5. /\ Len(J[n + 1]) = Len(J[n]) + Len(c[n + 1])
        /\ \A i \in 1 .. Len(J[n]) : J[n + 1][i] = J[n][i]
    <3>1. /\ Len(J[n] \o c[n + 1]) = Len(J[n]) + Len(c[n + 1])
          /\ \A i \in 1 .. Len(J[n]) : (J[n] \o c[n + 1])[i] = J[n][i]
      <4>. DEFINE s == J[n]
                  t == c[n + 1]
      <4>1. s \in Seq(S) /\ t \in Seq(S)
        BY <2>4
      <4>. HIDE DEF s, t
      <4>2. /\ Len(s \o t) = Len(s) + Len(t)
            /\ \A i \in 1 .. Len(s) : (s \o t)[i] = s[i]
        BY <4>1, ConcatProperties
      <4>. QED BY <4>2 DEF s, t
    <3>. QED BY <2>3, <3>1, Zenon
  <2>6. Len(J[k]) <= Len(J[n]) /\ Len(J[k]) \in Nat /\ Len(J[n]) \in Nat /\ Len(c[n + 1]) \in Nat
    <3>1. Len(J[k]) <= Len(J[n])
      BY <2>2 DEF P
    <3>. QED BY <2>4, <3>1
  <2>9. \A i \in 1 .. Len(J[k]) : i \in 1 .. Len(J[n])
    BY <2>6
  <2>7. Len(J[k]) <= Len(J[n + 1])
    <3>. DEFINE a == Len(J[k])
                b == Len(J[n])
                d1 == Len(c[n + 1])
    <3>1. a <= b /\ a \in Nat /\ b \in Nat /\ d1 \in Nat /\ Len(J[n + 1]) = b + d1
      BY <2>5, <2>6
    <3>. HIDE DEF a, b, d1
    <3>2. a <= b + d1
      BY <3>1
    <3>. QED BY <3>1, <3>2 DEF a
  <2>8. \A i \in 1 .. Len(J[k]) : J[n + 1][i] = J[k][i]
    BY <2>2, <2>5, <2>9 DEF P
  <2>. QED BY <2>7, <2>8 DEF P
<1>. DEFINE e == Len(c) - k
<1>4. e \in Nat /\ k + e = Len(c)
  OBVIOUS
<1>. HIDE DEF T, e, P
<1>5. e \in T
  BY <1>2, <1>3, <1>4, SetInduction
<1>6. P(Len(c))
  <2>1. k + e <= Len(c) => P(k + e)
    BY <1>5 DEF T
  <2>2. k + e <= Len(c)
    BY <1>4
  <2>. QED BY <1>4, <2>1, <2>2, Zenon
<1>7. FlattenSeq(c) = J[Len(c)]
  BY FlattenIs
<1>. QED BY <1>1, <1>6, <1>7 DEF P

(* The k-th of them stands behind the ones before it.                      *)
Joined(J, c, S, k) ==
  /\ J[k - 1] \in Seq(S) /\ c[k] \in Seq(S) /\ J[k] = J[k - 1] \o c[k]
  /\ Len(J[k]) = Len(J[k - 1]) + Len(c[k])
  /\ Len(J[k]) <= Len(FlattenSeq(c))
  /\ \A j \in 1 .. Len(c[k]) : FlattenSeq(c)[Len(J[k - 1]) + j] = c[k][j]

LEMMA JoinHolds ==
  ASSUME NEW S, NEW c \in Seq(Seq(S)), NEW J, Joins(J, c, S), NEW k \in 1 .. Len(c)
  PROVE  Joined(J, c, S, k)
<1>1. k - 1 \in 0 .. Len(c) /\ k \in 0 .. Len(c)
  OBVIOUS
<1>2. J[k - 1] \in Seq(S) /\ J[k] \in Seq(S) /\ c[k] \in Seq(S) /\ J[k] = J[k - 1] \o c[k]
  <2>1. J[k - 1] \in Seq(S) /\ J[k] \in Seq(S)
    BY <1>1, Zenon DEF Joins
  <2>2. c[k] \in Seq(S)
    OBVIOUS
  <2>3. J[k] = J[k - 1] \o c[k]
    BY Zenon DEF Joins
  <2>. QED BY <2>1, <2>2, <2>3
<1>3. /\ Len(J[k]) = Len(J[k - 1]) + Len(c[k])
      /\ \A j \in 1 .. Len(c[k]) : J[k][Len(J[k - 1]) + j] = c[k][j]
  <2>1. /\ Len(J[k - 1] \o c[k]) = Len(J[k - 1]) + Len(c[k])
        /\ \A j \in 1 .. Len(c[k]) : (J[k - 1] \o c[k])[Len(J[k - 1]) + j] = c[k][j]
    <3>. DEFINE s == J[k - 1]
                t == c[k]
    <3>1. s \in Seq(S) /\ t \in Seq(S)
      BY <1>2
    <3>. HIDE DEF s, t
    <3>2. /\ Len(s \o t) = Len(s) + Len(t)
          /\ \A j \in 1 .. Len(t) : (s \o t)[Len(s) + j] = t[j]
      BY <3>1, ConcatProperties
    <3>. QED BY <3>2 DEF s, t
  <2>. QED BY <1>2, <2>1, Zenon
<1>4. /\ Len(J[k]) <= Len(FlattenSeq(c))
      /\ \A i \in 1 .. Len(J[k]) : FlattenSeq(c)[i] = J[k][i]
  BY <1>1, JoinGrows
<1>5. \A j \in 1 .. Len(c[k]) : Len(J[k - 1]) + j \in 1 .. Len(J[k])
  <2>1. Len(J[k - 1]) \in Nat /\ Len(c[k]) \in Nat /\ Len(J[k]) = Len(J[k - 1]) + Len(c[k])
    BY <1>2, <1>3
  <2>. DEFINE a == Len(J[k - 1])
              b == Len(c[k])
              z == Len(J[k])
  <2>2. a \in Nat /\ b \in Nat /\ z = a + b
    BY <2>1
  <2>. HIDE DEF a, b, z
  <2>3. \A j \in 1 .. b : a + j \in 1 .. z
    BY <2>2
  <2>. QED BY <2>3 DEF a, b, z
<1>. QED BY <1>2, <1>3, <1>4, <1>5 DEF Joined

-----------------------------------------------------------------------------
(* bitmask.c: the first bit of a value, and the runs of ones.              *)
Bits == 0 .. aligned_bits(TotalBlks) - 1
Bitmaps == [total_bits : {TotalBlks}, buffer : [Bits -> {0, 1}]]

LEMMA BlocksHaveBits ==
  /\ aligned_bits(TotalBlks) \in Nat /\ TotalBlks <= aligned_bits(TotalBlks)
  /\ Block \subseteq Bits
<1>1. aligned_bits(TotalBlks) \in Nat /\ TotalBlks <= aligned_bits(TotalBlks)
  BY RoundUp DEF aligned_bits
<1>. HIDE DEF aligned_bits
<1>. QED BY <1>1 DEF Block, Bits

LEMMA FirstIs ==
  ASSUME NEW b \in Bitmaps, NEW from \in Nat, NEW value
  PROVE  /\ First(b, from, value) \in {-1} \cup from .. TotalBlks - 1
         /\ First(b, from, value) = -1 =>
              \A i \in from .. TotalBlks - 1 : b.buffer[i] # value
         /\ First(b, from, value) # -1 =>
              /\ b.buffer[First(b, from, value)] = value
              /\ \A i \in from .. First(b, from, value) - 1 : b.buffer[i] # value
<1>. DEFINE found == {i \in DOMAIN b.buffer : i >= from /\ b.buffer[i] = value}
            least == CHOOSE i \in found : \A j \in found : i <= j
<1>1. b.total_bits = TotalBlks /\ DOMAIN b.buffer = Bits
  BY DEF Bitmaps
<1>2. \A i \in from .. TotalBlks - 1 : i \in Bits
  BY BlocksHaveBits DEF Block
<1>3. found \subseteq Nat
  BY <1>1, BlocksHaveBits DEF Bits
<1>4. CASE found = {}
  <2>1. First(b, from, value) = -1
    BY <1>4 DEF First
  <2>2. \A i \in from .. TotalBlks - 1 : b.buffer[i] # value
    BY <1>1, <1>2, <1>4
  <2>. QED BY <2>1, <2>2
<1>5. CASE found # {}
  <2>1. least \in found /\ \A j \in found : least <= j
    <3>. HIDE DEF found
    <3>1. \E i \in found : \A j \in found : i <= j
      BY <1>3, <1>5, LeastExists
    <3>. QED BY <3>1
  <2>2. First(b, from, value) = IF least >= b.total_bits THEN -1 ELSE least
    BY <1>5 DEF First
  <2>. HIDE DEF least
  <2>3. least \in Nat /\ least >= from /\ b.buffer[least] = value
    BY <1>3, <2>1
  <2>4. \A i \in from .. TotalBlks - 1 : i < least => b.buffer[i] # value
    BY <1>1, <1>2, <2>1, <2>3
  <2>5. CASE least >= TotalBlks
    <3>1. First(b, from, value) = -1
      BY <1>1, <2>2, <2>5
    <3>. HIDE DEF found
    <3>2. \A i \in from .. TotalBlks - 1 : i < least
      BY <2>3, <2>5
    <3>. QED BY <2>4, <3>1, <3>2
  <2>6. CASE least < TotalBlks
    <3>1. First(b, from, value) = least
      BY <1>1, <2>2, <2>3, <2>6
    <3>. HIDE DEF found
    <3>2. \A i \in from .. least - 1 : i \in from .. TotalBlks - 1 /\ i < least
      BY <2>3, <2>6
    <3>. QED BY <2>3, <2>4, <2>6, <3>1, <3>2
  <2>. QED BY <2>3, <2>5, <2>6
<1>. QED BY <1>4, <1>5

(* The first run of blocks that were added, from a block on.               *)
IsRun(r, from) ==
  IF r.start = -1 THEN \A i \in from .. TotalBlks - 1 : i \notin added
  ELSE /\ r.start \in from .. TotalBlks - 1 /\ r.bits \in 1 .. TotalBlks - r.start
       /\ \A i \in from .. r.start - 1 : i \notin added
       /\ \A i \in r.start .. r.start + r.bits - 1 : i \in added
       /\ IF r.start + r.bits < TotalBlks
          THEN r.start + r.bits \notin added /\ r.end = r.start + r.bits
          ELSE r.end = -1
Iterators == [start : -1 .. TotalBlks - 1, end : -1 .. TotalBlks - 1, bits : 0 .. TotalBlks]
Marked(b) == b \in Bitmaps /\ \A i \in Block : b.buffer[i] = 1 <=> i \in added

LEMMA RunIs ==
  ASSUME NEW b, Marked(b), NEW from \in 0 .. TotalBlks
  PROVE  /\ iterator_update(b, from) \in Iterators
         /\ IsRun(iterator_update(b, from), from)
<1>. DEFINE s == bitmask_next_one(b, from)
            e == bitmask_next_zero(b, s + 1)
            r == iterator_update(b, from)
<1>1. b \in Bitmaps /\ \A i \in 0 .. TotalBlks - 1 : b.buffer[i] = 1 <=> i \in added
  BY DEF Marked, Block
<1>2. \A i \in 0 .. TotalBlks - 1 : b.buffer[i] # 1 <=> b.buffer[i] = 0
  BY <1>1, BlocksHaveBits DEF Bitmaps, Block
<1>3. /\ s \in {-1} \cup from .. TotalBlks - 1
      /\ s = -1 => \A i \in from .. TotalBlks - 1 : b.buffer[i] # 1
      /\ s # -1 => b.buffer[s] = 1 /\ \A i \in from .. s - 1 : b.buffer[i] # 1
  BY <1>1, FirstIs DEF bitmask_next_one
<1>4. r = IF s < 0 THEN [start |-> s, end |-> -1, bits |-> 0]
          ELSE [start |-> s, end |-> e,
                bits |-> IF e < 0 THEN b.total_bits - s ELSE e - s]
  BY DEF iterator_update
<1>5. b.total_bits = TotalBlks
  BY <1>1 DEF Bitmaps
<1>. HIDE DEF s, r
<1>6. CASE s = -1
  <2>1. r = [start |-> -1, end |-> -1, bits |-> 0]
    BY <1>4, <1>6
  <2>2. \A i \in from .. TotalBlks - 1 : i \in 0 .. TotalBlks - 1
    OBVIOUS
  <2>3. \A i \in from .. TotalBlks - 1 : i \notin added
    BY <1>1, <1>3, <1>6, <2>2
  <2>. QED BY <2>1, <2>3 DEF r, IsRun, Iterators
<1>7. CASE s # -1
  <2>1. s \in from .. TotalBlks - 1 /\ s + 1 \in Nat
    BY <1>3, <1>7
  <2>2. /\ e \in {-1} \cup s + 1 .. TotalBlks - 1
        /\ e = -1 => \A i \in s + 1 .. TotalBlks - 1 : b.buffer[i] # 0
        /\ e # -1 => b.buffer[e] = 0 /\ \A i \in s + 1 .. e - 1 : b.buffer[i] # 0
    BY <1>1, <2>1, FirstIs DEF bitmask_next_zero
  <2>. HIDE DEF e
  <2>. DEFINE z == IF e = -1 THEN TotalBlks ELSE e
  <2>3. z \in s + 1 .. TotalBlks /\ r = [start |-> s, end |-> e, bits |-> z - s]
    BY <1>4, <1>5, <2>1, <2>2
  <2>4. \A i \in s + 1 .. z - 1 : i \in added
    <3>. TAKE i \in s + 1 .. z - 1
    <3>1. i \in 0 .. TotalBlks - 1
      BY <2>1, <2>3
    <3>2. b.buffer[i] # 0
      BY <2>1, <2>2, <3>1
    <3>. QED BY <1>1, <1>2, <3>1, <3>2
  <2>5. s \in added /\ s \in 0 .. TotalBlks - 1
    BY <1>1, <1>3, <1>7, <2>1
  <2>6. \A i \in from .. s - 1 : i \notin added
    <3>. TAKE i \in from .. s - 1
    <3>1. i \in 0 .. TotalBlks - 1
      BY <2>1
    <3>. QED BY <1>1, <1>3, <1>7, <3>1
  <2>7. z < TotalBlks => z \notin added /\ e = z
    <3>. SUFFICES ASSUME z < TotalBlks PROVE z \notin added /\ e = z
      OBVIOUS
    <3>1. e # -1 /\ e = z /\ e \in 0 .. TotalBlks - 1
      BY <2>1, <2>2
    <3>2. b.buffer[e] = 0
      BY <2>2, <3>1
    <3>. HIDE DEF z
    <3>3. b.buffer[e] # 1
      BY <3>2
    <3>. QED BY <1>1, <3>1, <3>3
  <2>8. z >= TotalBlks => e = -1
    BY <2>2
  <2>9. r.start = s /\ r.end = e /\ r.bits = z - s /\ s + (z - s) = z /\ e \in -1 .. TotalBlks - 1
    BY <2>1, <2>2, <2>3
  <2>10. \A i \in s .. z - 1 : i \in added
    BY <2>1, <2>3, <2>4, <2>5
  <2>. HIDE DEF z
  <2>11. r \in Iterators
    BY <2>1, <2>3, <2>9 DEF Iterators
  <2>12. r.start # -1 /\ r.start \in from .. TotalBlks - 1 /\ r.bits \in 1 .. TotalBlks - r.start
    BY <2>1, <2>3, <2>9
  <2>13. IsRun(r, from)
    BY <2>3, <2>6, <2>7, <2>8, <2>9, <2>10, <2>12 DEF IsRun
  <2>. QED BY <2>11, <2>13 DEF r
<1>. QED BY <1>3, <1>6, <1>7

-----------------------------------------------------------------------------
(* What is added, and how far android_sparse_finish has come with it: the  *)
(* run that comes next is the first one from blk on, and the block before  *)
(* blk was the last of a run.                                              *)
AfterRun == blk > 0 => blk - 1 \in added /\ blk \notin added
BitsInv ==
  /\ pc \in {"add", "write", "built", "unpack", "done"}
  /\ Marked(bitmap) /\ added \subseteq Block
  /\ it \in Iterators /\ blk \in 0 .. TotalBlks
  /\ pc = "add" => blk = 0
  /\ pc = "write" => IsRun(it, blk) /\ AfterRun

LEMMA BitsStart == Init => BitsInv
<1>. SUFFICES ASSUME Init PROVE BitsInv
  OBVIOUS
<1>1. bitmap = [total_bits |-> TotalBlks, buffer |-> [i \in Bits |-> 0]]
  BY DEF Init, alloc_bitmask, Bits
<1>2. bitmap \in Bitmaps
  BY <1>1 DEF Bitmaps
<1>3. Marked(bitmap)
  <2>1. \A i \in Block : i \in Bits
    BY BlocksHaveBits
  <2>2. added = {} /\ \A i \in Block : bitmap.buffer[i] = 0
    BY <1>1, <2>1 DEF Init
  <2>. QED BY <1>2, <2>2 DEF Marked
<1>4. it \in Iterators
  BY DEF Init, NoRun, Iterators
<1>. QED BY <1>3, <1>4 DEF Init, BitsInv

LEMMA BitsStep == BitsInv /\ [Next]_vars => BitsInv'
<1>. SUFFICES ASSUME BitsInv, [Next]_vars PROVE BitsInv'
  OBVIOUS
<1>1. ASSUME NEW from \in Block, NEW count \in 1 .. TotalBlks, AddChunk(from, count)
      PROVE  BitsInv'
  <2>1. /\ pc = "add" /\ pc' = "add" /\ it' = it /\ blk' = blk
        /\ bitmap' = bitmask_set_bits(bitmap, from, count)
        /\ added' = added \cup {b \in Block : from <= b /\ b < from + count}
    BY <1>1 DEF AddChunk
  <2>2. bitmap \in Bitmaps /\ \A i \in Block : bitmap.buffer[i] = 1 <=> i \in added
    BY DEF BitsInv, Marked
  <2>. DEFINE f == [i \in Bits |-> IF from <= i /\ i < from + count /\ i < TotalBlks
                                   THEN 1 ELSE bitmap.buffer[i]]
  <2>3. bitmap = [total_bits |-> TotalBlks, buffer |-> bitmap.buffer]
        /\ bitmap.buffer \in [Bits -> {0, 1}] /\ DOMAIN bitmap.buffer = Bits
    BY <2>2 DEF Bitmaps
  <2>4. bitmap' = [total_bits |-> TotalBlks, buffer |-> f]
    BY <2>1, <2>3 DEF bitmask_set_bits
  <2>5. f \in [Bits -> {0, 1}]
    BY <2>3
  <2>6. \A i \in Block : f[i] = 1 <=> i \in added'
    <3>. TAKE i \in Block
    <3>1. i \in Bits /\ i < TotalBlks
      BY BlocksHaveBits DEF Block
    <3>. QED BY <2>1, <2>2, <3>1
  <2>. HIDE DEF f
  <2>7. Marked(bitmap)'
    BY <2>4, <2>5, <2>6 DEF Marked, Bitmaps
  <2>. QED BY <2>1, <2>7 DEF BitsInv
<1>2. CASE FinishBegins
  <2>1. /\ pc = "add" /\ pc' = "write" /\ it' = iterator_update(bitmap, 0)
        /\ UNCHANGED <<bitmap, blk, added>>
    BY <1>2 DEF FinishBegins, iterator_init, history
  <2>2. Marked(bitmap) /\ blk = 0 /\ 0 \in 0 .. TotalBlks
    BY <2>1 DEF BitsInv
  <2>3. it' \in Iterators /\ IsRun(it', 0)
    BY <2>1, <2>2, RunIs
  <2>. QED BY <2>1, <2>2, <2>3 DEF BitsInv, Marked, AfterRun, IsRun
<1>3. CASE WriteRun
  <2>1. /\ pc = "write" /\ it.start >= 0 /\ UNCHANGED <<bitmap, added>>
        /\ \/ pc' = pc /\ blk' = it.start + it.bits /\ it' = iterator_next(bitmap, it)
           \/ pc' = "done" /\ UNCHANGED <<blk, it>>
    BY <1>3 DEF WriteRun, history
  <2>2. CASE pc' = "done" /\ UNCHANGED <<blk, it>>
    BY <2>1, <2>2 DEF BitsInv, Marked
  <2>3. CASE pc' = pc /\ blk' = it.start + it.bits /\ it' = iterator_next(bitmap, it)
    <3>. DEFINE z == it.start + it.bits
    <3>1. /\ it.start \in blk .. TotalBlks - 1 /\ it.bits \in 1 .. TotalBlks - it.start
          /\ \A i \in it.start .. z - 1 : i \in added
          /\ IF z < TotalBlks THEN z \notin added /\ it.end = z ELSE it.end = -1
      BY <2>1 DEF BitsInv, IsRun
    <3>2. z \in 1 .. TotalBlks /\ z - 1 \in it.start .. z - 1 /\ blk \in Nat
      BY <3>1 DEF BitsInv
    <3>3. z \notin added /\ z - 1 \in added
      BY <3>1, <3>2 DEF BitsInv, Block
    <3>4. it' \in Iterators /\ IsRun(it', z)
      <4>1. CASE z < TotalBlks
        <5>1. it' = iterator_update(bitmap, z)
          BY <2>3, <3>1, <3>2, <4>1 DEF iterator_next
        <5>2. Marked(bitmap) /\ z \in 0 .. TotalBlks
          BY <3>2 DEF BitsInv
        <5>. HIDE DEF z
        <5>. QED BY <5>1, <5>2, RunIs
      <4>2. CASE z >= TotalBlks
        <5>1. it.end = -1 /\ it' = [it EXCEPT !.start = -1] /\ it \in Iterators
          BY <2>3, <3>1, <3>2, <4>2 DEF iterator_next, BitsInv
        <5>2. it' \in Iterators /\ it'.start = -1
          BY <5>1 DEF Iterators
        <5>3. \A i \in z .. TotalBlks - 1 : i \notin added
          BY <3>2, <4>2
        <5>. QED BY <5>2, <5>3 DEF IsRun
      <4>. QED BY <3>2, <4>1, <4>2
    <3>5. IsRun(it, blk)' /\ AfterRun'
      BY <2>1, <2>3, <3>3, <3>4 DEF IsRun, AfterRun
    <3>6. blk' \in 0 .. TotalBlks /\ it' \in Iterators /\ Marked(bitmap)'
      BY <2>1, <2>3, <3>2, <3>4 DEF BitsInv, Marked
    <3>. QED BY <2>1, <2>3, <3>5, <3>6 DEF BitsInv
  <2>. QED BY <2>1, <2>2, <2>3
<1>4. CASE FinishFails \/ FinishEnds
  <2>1. pc' \in {"done", "built"} /\ UNCHANGED <<bitmap, added, it, blk>>
    BY <1>4 DEF FinishFails, FinishEnds, writer, history
  <2>. QED BY <2>1 DEF BitsInv, Marked
<1>5. CASE UnpackBegins \/ UnpackRaw \/ UnpackRawFails \/ UnpackDontCare \/ UnpackFill
           \/ UnpackCrc \/ UnpackRefuses \/ UnpackEnds
  <2>1. pc' \in {"unpack", "done"} /\ UNCHANGED <<bitmap, added, it, blk>>
    BY <1>5 DEF UnpackBegins, UnpackRaw, UnpackRawFails, UnpackDontCare, UnpackFill, UnpackCrc,
                UnpackRefuses, UnpackEnds, AtChunk, writer, history
  <2>. QED BY <2>1 DEF BitsInv, Marked
<1>6. CASE UNCHANGED vars
  BY <1>6 DEF vars, writer, history, BitsInv, Marked, IsRun, AfterRun
<1>. QED BY <1>1, <1>2, <1>3, <1>4, <1>5, <1>6 DEF Next

-----------------------------------------------------------------------------
(* The types of units, chunks and files.                                   *)
UnitTypes == ChunkTypes \cup {"zero", "data", "fill", "header"}
Unit == [is : UnitTypes, of : Nat, n : Nat, sz : Nat]

LEMMA Product == \A a, b \in Nat : a * b \in Nat
OBVIOUS

LEMMA UnitsAre ==
  /\ Zero \in Unit /\ \A v \in Nat : FillUnit(v) \in Unit /\ FileHeader(v) \in Unit
  /\ \A b, k \in Nat : Data(b, k) \in Unit
  /\ \A type \in ChunkTypes, n, sz \in Nat : ChunkHeader(type, n, sz) \in Unit
<1>1. "zero" \in UnitTypes /\ "fill" \in UnitTypes /\ "header" \in UnitTypes /\ "data" \in UnitTypes
  BY DEF UnitTypes
<1>2. \A is \in UnitTypes, of, n, sz \in Nat : [is |-> is, of |-> of, n |-> n, sz |-> sz] \in Unit
  BY DEF Unit
<1>3. Zero \in Unit /\ \A v \in Nat : FillUnit(v) \in Unit
  BY <1>1, <1>2 DEF Zero, FillUnit
<1>4. \A v \in Nat : FileHeader(v) \in Unit
  BY <1>1, <1>2 DEF FileHeader
<1>5. \A b, k \in Nat : Data(b, k) \in Unit
  BY <1>1, <1>2 DEF Data
<1>6. \A type \in ChunkTypes, n, sz \in Nat : ChunkHeader(type, n, sz) \in Unit
  BY <1>2 DEF ChunkHeader, UnitTypes
<1>. QED BY <1>3, <1>4, <1>5, <1>6

LEMMA HeaderTypes ==
  ASSUME NEW n \in Nat
  PROVE  DontCare(n) \in Unit /\ Raw(n) \in Unit
<1>1. (n * BlkUnits + 1) % Mod32 \in Nat
  <2>. DEFINE m == n * BlkUnits + 1
  <2>1. m \in Nat
    BY Product
  <2>. HIDE DEF m
  <2>. QED BY <2>1
<1>2. "---" \in ChunkTypes /\ "RAW" \in ChunkTypes
  BY DEF ChunkTypes
<1>. QED BY <1>1, <1>2, UnitsAre DEF DontCare, Raw

LEMMA BlocksType ==
  ASSUME NEW from \in Nat, NEW count \in Nat
  PROVE  /\ Blocks(from, count) \in Seq(Unit)
         /\ Len(Blocks(from, count)) = count * BlkUnits
<1>. DEFINE n == count * BlkUnits
<1>1. n \in Nat
  BY Product
<1>2. Blocks(from, count) =
        [u \in 1 .. n |-> Data(from + ((u - 1) \div BlkUnits), ((u - 1) % BlkUnits) + 1)]
  BY DEF Blocks
<1>. HIDE DEF n
<1>3. \A u \in 1 .. n : Data(from + ((u - 1) \div BlkUnits), ((u - 1) % BlkUnits) + 1) \in Unit
  <2>. TAKE u \in 1 .. n
  <2>1. (u - 1) \div BlkUnits \in Nat /\ (u - 1) % BlkUnits \in Nat
    BY <1>1
  <2>. QED BY <2>1, UnitsAre
<1>4. Blocks(from, count) \in [1 .. n -> Unit]
  BY <1>2, <1>3
<1>5. Blocks(from, count) \in Seq(Unit) /\ Len(Blocks(from, count)) = n
  BY <1>1, <1>4
<1>. QED BY <1>5 DEF n

LEMMA SameType ==
  ASSUME NEW n \in Nat, NEW v \in Unit
  PROVE  /\ [u \in 1 .. n |-> v] \in Seq(Unit) /\ Len([u \in 1 .. n |-> v]) = n
OBVIOUS

LEMMA ChunkType ==
  ASSUME NEW c \in Chunk
  PROVE  /\ ChunkUnits(c) \in Seq(Unit) /\ Len(ChunkUnits(c)) \in Nat \ {0}
         /\ Expansion(c) \in Seq(Unit) /\ c.blks * BlkUnits \in Nat
<1>1. c.type \in ChunkTypes /\ c.first \in Nat /\ c.blks \in Nat
  BY DEF Chunk
<1>2. c.blks * BlkUnits \in Nat
  BY <1>1, Product
<1>3. Blocks(c.first, c.blks) \in Seq(Unit)
  BY <1>1, BlocksType
<1>4. ChunkUnits(c) \in Seq(Unit) /\ Len(ChunkUnits(c)) \in Nat \ {0}
  <2>1. <<Raw(c.blks)>> \in Seq(Unit)
    BY <1>1, HeaderTypes
  <2>. DEFINE s == <<Raw(c.blks)>> \o Blocks(c.first, c.blks)
  <2>2. s \in Seq(Unit) /\ Len(s) = 1 + Len(Blocks(c.first, c.blks))
    BY <1>3, <2>1
  <2>3. Len(Blocks(c.first, c.blks)) \in Nat
    BY <1>3
  <2>4. s \in Seq(Unit) /\ Len(s) \in Nat \ {0}
    <3>. HIDE DEF s
    <3>. QED BY <2>2, <2>3
  <2>5. <<ChunkHeader("FIL", c.blks, 2 + c.first), FillUnit(1)>> \in Seq(Unit)
    <3>1. ChunkHeader("FIL", c.blks, 2 + c.first) \in Unit /\ FillUnit(1) \in Unit
      <4>1. "FIL" \in ChunkTypes /\ 2 + c.first \in Nat
        BY <1>1 DEF ChunkTypes
      <4>. QED BY <1>1, <4>1, UnitsAre
    <3>. QED BY <3>1
  <2>6. <<ChunkHeader("CRC", 0, 2), FillUnit(0)>> \in Seq(Unit)
    <3>1. "CRC" \in ChunkTypes
      BY DEF ChunkTypes
    <3>2. ChunkHeader("CRC", 0, 2) \in Unit /\ FillUnit(0) \in Unit
      BY <3>1, UnitsAre
    <3>. QED BY <3>2
  <2>7. <<ChunkHeader(c.type, c.blks, 1)>> \in Seq(Unit)
    <3>1. ChunkHeader(c.type, c.blks, 1) \in Unit
      BY <1>1, UnitsAre
    <3>. QED BY <3>1
  <2>8. /\ Len(<<ChunkHeader("FIL", c.blks, 2 + c.first), FillUnit(1)>>) = 2
        /\ Len(<<ChunkHeader("CRC", 0, 2), FillUnit(0)>>) = 2
        /\ Len(<<ChunkHeader(c.type, c.blks, 1)>>) = 1
    OBVIOUS
  <2>. HIDE DEF s
  <2>9. ChunkUnits(c) \in {s, <<ChunkHeader("FIL", c.blks, 2 + c.first), FillUnit(1)>>,
                           <<ChunkHeader("CRC", 0, 2), FillUnit(0)>>,
                           <<ChunkHeader(c.type, c.blks, 1)>>}
    BY DEF ChunkUnits, s
  <2>10. \A t \in {s, <<ChunkHeader("FIL", c.blks, 2 + c.first), FillUnit(1)>>,
                    <<ChunkHeader("CRC", 0, 2), FillUnit(0)>>,
                    <<ChunkHeader(c.type, c.blks, 1)>>} : t \in Seq(Unit) /\ Len(t) \in Nat \ {0}
    <3>1. 1 \in Nat \ {0} /\ 2 \in Nat \ {0}
      OBVIOUS
    <3>. QED BY <2>4, <2>5, <2>6, <2>7, <2>8, <3>1, Zenon
  <2>. QED BY <2>9, <2>10, Zenon
<1>5. Expansion(c) \in Seq(Unit)
  <2>. DEFINE n == c.blks * BlkUnits
  <2>1. [u \in 1 .. n |-> FillUnit(1)] \in Seq(Unit) /\ [u \in 1 .. n |-> Zero] \in Seq(Unit)
    <3>. HIDE DEF n
    <3>1. FillUnit(1) \in Unit /\ Zero \in Unit
      BY UnitsAre
    <3>2. n \in Nat
      BY <1>2 DEF n
    <3>. QED BY <3>1, <3>2, SameType
  <2>2. <<>> \in Seq(Unit)
    OBVIOUS
  <2>. QED BY <1>3, <2>1, <2>2 DEF Expansion, Zeros
<1>. QED BY <1>2, <1>4, <1>5

Parts(chunks) == [i \in DOMAIN chunks |-> ChunkUnits(chunks[i])]
Expansions(chunks) == [i \in DOMAIN chunks |-> Expansion(chunks[i])]

LEMMA PartsType ==
  ASSUME NEW cs \in Seq(Chunk)
  PROVE  /\ Parts(cs) \in Seq(Seq(Unit)) /\ Len(Parts(cs)) = Len(cs)
         /\ Expansions(cs) \in Seq(Seq(Unit)) /\ Len(Expansions(cs)) = Len(cs)
         /\ Body(cs) = FlattenSeq(Parts(cs)) /\ Body(cs) \in Seq(Unit)
         /\ Means(cs) = FlattenSeq(Expansions(cs)) /\ Means(cs) \in Seq(Unit)
         /\ \A i \in 1 .. Len(cs) : /\ cs[i] \in Chunk /\ Parts(cs)[i] = ChunkUnits(cs[i])
                                    /\ Expansions(cs)[i] = Expansion(cs[i])
<1>1. DOMAIN cs = 1 .. Len(cs) /\ Len(cs) \in Nat /\ \A i \in 1 .. Len(cs) : cs[i] \in Chunk
  OBVIOUS
<1>2. Parts(cs) \in [1 .. Len(cs) -> Seq(Unit)]
  BY <1>1, ChunkType DEF Parts
<1>3. Expansions(cs) \in [1 .. Len(cs) -> Seq(Unit)]
  BY <1>1, ChunkType DEF Expansions
<1>4. Parts(cs) \in Seq(Seq(Unit)) /\ Len(Parts(cs)) = Len(cs)
  BY <1>1, <1>2
<1>5. Expansions(cs) \in Seq(Seq(Unit)) /\ Len(Expansions(cs)) = Len(cs)
  BY <1>1, <1>3
<1>6. Body(cs) = FlattenSeq(Parts(cs)) /\ Means(cs) = FlattenSeq(Expansions(cs))
  BY DEF Body, Means, Parts, Expansions
<1>7. Body(cs) \in Seq(Unit) /\ Means(cs) \in Seq(Unit)
  BY <1>4, <1>5, <1>6, FlattenType
<1>. QED BY <1>1, <1>4, <1>5, <1>6, <1>7 DEF Parts, Expansions

LEMMA LayOutIs ==
  ASSUME NEW cs \in Seq(Chunk)
  PROVE  /\ LayOut(cs) \in Seq(Unit) /\ Len(LayOut(cs)) = 1 + Len(Body(cs))
         /\ LayOut(cs)[1] = FileHeader(Len(cs))
         /\ \A i \in 1 .. Len(Body(cs)) : LayOut(cs)[1 + i] = Body(cs)[i]
<1>. DEFINE h == FileHeader(Len(cs))
            b == Body(cs)
<1>1. h \in Unit /\ b \in Seq(Unit) /\ LayOut(cs) = <<h>> \o b
  BY PartsType, UnitsAre DEF LayOut
<1>. HIDE DEF h, b
<1>2. /\ <<h>> \o b \in Seq(Unit) /\ Len(<<h>> \o b) = 1 + Len(b) /\ (<<h>> \o b)[1] = h
      /\ \A i \in 1 .. Len(b) : (<<h>> \o b)[1 + i] = b[i]
  BY <1>1
<1>. QED BY <1>1, <1>2 DEF h, b

LEMMA SameSequence ==
  ASSUME NEW S, NEW s \in Seq(S), NEW t \in Seq(S), Len(s) = Len(t),
         \A i \in 1 .. Len(s) : s[i] = t[i]
  PROVE  s = t
<1>1. s = [i \in 1 .. Len(s) |-> s[i]] /\ t = [i \in 1 .. Len(t) |-> t[i]]
  OBVIOUS
<1>. QED BY <1>1

(* One chunk more.                                                         *)
LEMMA ChunkAppended ==
  ASSUME NEW cs \in Seq(Chunk), NEW c \in Chunk
  PROVE  /\ Append(cs, c) \in Seq(Chunk)
         /\ Body(Append(cs, c)) = Body(cs) \o ChunkUnits(c)
         /\ Means(Append(cs, c)) = Means(cs) \o Expansion(c)
<1>. DEFINE ds == Append(cs, c)
            n == Len(cs)
<1>1. /\ ds \in Seq(Chunk) /\ Len(ds) = n + 1 /\ n \in Nat
      /\ ds[n + 1] = c /\ \A i \in 1 .. n : ds[i] = cs[i]
  OBVIOUS
<1>2. /\ Parts(cs) \in Seq(Seq(Unit)) /\ Len(Parts(cs)) = n
      /\ Expansions(cs) \in Seq(Seq(Unit)) /\ Len(Expansions(cs)) = n
      /\ \A i \in 1 .. n : /\ Parts(cs)[i] = ChunkUnits(cs[i])
                           /\ Expansions(cs)[i] = Expansion(cs[i])
  BY PartsType
<1>3. ChunkUnits(c) \in Seq(Unit) /\ Expansion(c) \in Seq(Unit)
  BY ChunkType
<1>. HIDE DEF ds
<1>4. /\ Parts(ds) \in Seq(Seq(Unit)) /\ Len(Parts(ds)) = n + 1
      /\ Expansions(ds) \in Seq(Seq(Unit)) /\ Len(Expansions(ds)) = n + 1
      /\ \A i \in 1 .. n + 1 : /\ Parts(ds)[i] = ChunkUnits(ds[i])
                               /\ Expansions(ds)[i] = Expansion(ds[i])
  BY <1>1, PartsType
<1>. HIDE DEF n
<1>5. Parts(ds) = Append(Parts(cs), ChunkUnits(c))
  <2>. DEFINE a == Append(Parts(cs), ChunkUnits(c))
  <2>1. /\ a \in Seq(Seq(Unit)) /\ Len(a) = n + 1 /\ a[n + 1] = ChunkUnits(c)
        /\ \A i \in 1 .. n : a[i] = Parts(cs)[i]
    BY <1>2, <1>3
  <2>. HIDE DEF a
  <2>2. \A i \in 1 .. n + 1 : i \in 1 .. n \/ i = n + 1
    BY <1>1
  <2>3. \A i \in 1 .. n + 1 : Parts(ds)[i] = a[i]
    BY <1>1, <1>2, <1>4, <2>1, <2>2
  <2>4. Parts(ds) = a
    BY <1>4, <2>1, <2>3, SameSequence
  <2>. QED BY <2>4 DEF a
<1>6. Expansions(ds) = Append(Expansions(cs), Expansion(c))
  <2>. DEFINE a == Append(Expansions(cs), Expansion(c))
  <2>1. /\ a \in Seq(Seq(Unit)) /\ Len(a) = n + 1 /\ a[n + 1] = Expansion(c)
        /\ \A i \in 1 .. n : a[i] = Expansions(cs)[i]
    BY <1>2, <1>3
  <2>. HIDE DEF a
  <2>2. \A i \in 1 .. n + 1 : i \in 1 .. n \/ i = n + 1
    BY <1>1
  <2>3. \A i \in 1 .. n + 1 : Expansions(ds)[i] = a[i]
    BY <1>1, <1>2, <1>4, <2>1, <2>2
  <2>4. Expansions(ds) = a
    BY <1>4, <2>1, <2>3, SameSequence
  <2>. QED BY <2>4 DEF a
<1>7. FlattenSeq(Parts(ds)) = FlattenSeq(Parts(cs)) \o ChunkUnits(c)
  BY <1>2, <1>3, <1>5, FlattenAppend
<1>8. FlattenSeq(Expansions(ds)) = FlattenSeq(Expansions(cs)) \o Expansion(c)
  BY <1>2, <1>3, <1>6, FlattenAppend
<1>9. /\ Body(cs) = FlattenSeq(Parts(cs)) /\ Body(ds) = FlattenSeq(Parts(ds))
      /\ Means(cs) = FlattenSeq(Expansions(cs)) /\ Means(ds) = FlattenSeq(Expansions(ds))
  BY <1>1, PartsType
<1>. QED BY <1>1, <1>7, <1>8, <1>9 DEF ds

LEMMA NoChunks == <<>> \in Seq(Chunk) /\ Body(<<>>) = <<>> /\ Means(<<>>) = <<>>
<1>1. <<>> \in Seq(Chunk) /\ DOMAIN <<>> = {} /\ Len(<<>>) = 0
  OBVIOUS
<1>2. Len(Parts(<<>>)) = 0 /\ Len(Expansions(<<>>)) = 0
      /\ Parts(<<>>) \in Seq(Seq(Unit)) /\ Expansions(<<>>) \in Seq(Seq(Unit))
      /\ Body(<<>>) = FlattenSeq(Parts(<<>>)) /\ Means(<<>>) = FlattenSeq(Expansions(<<>>))
  BY <1>1, PartsType
<1>3. Parts(<<>>) = <<>> /\ Expansions(<<>>) = <<>>
  BY <1>2
<1>. QED BY <1>1, <1>2, <1>3, FlattenNone

(* Writing at the end of a file, and behind a header that is left out.     *)
LEMMA WriteIs ==
  ASSUME NEW f \in Seq(Unit), NEW at \in Nat, NEW u \in Seq(Unit)
  PROVE  Write(f, at, u) \in Seq(Unit) /\ IsWritten(Write(f, at, u), f, at, u, Zero)
BY UnitsAre, WriteAtProperties DEF Write

LEMMA WriteBehind ==
  ASSUME NEW f \in Seq(Unit), NEW u \in Seq(Unit)
  PROVE  /\ Write(f, Len(f), u) = f \o u
         /\ Write(<<>>, 1, u) = <<Zero>> \o u
<1>1. Write(f, Len(f), u) = f \o u
  <2>. DEFINE w == Write(f, Len(f), u)
              c == f \o u
  <2>1. Len(f) \in Nat /\ Len(u) \in Nat
    OBVIOUS
  <2>2. w \in Seq(Unit) /\ IsWritten(w, f, Len(f), u, Zero)
    BY <2>1, WriteIs
  <2>3. /\ c \in Seq(Unit) /\ Len(c) = Len(f) + Len(u)
        /\ \A i \in 1 .. Len(f) : c[i] = f[i]
        /\ \A i \in 1 .. Len(u) : c[Len(f) + i] = u[i]
    BY ConcatProperties
  <2>. HIDE DEF w, c
  <2>4. Len(w) = Len(c)
    BY <2>1, <2>2, <2>3 DEF IsWritten
  <2>5. ASSUME NEW i \in 1 .. Len(w) PROVE w[i] = c[i]
    <3>1. CASE i <= Len(f)
      <4>1. i \in 1 .. Len(f) /\ ~(Len(f) < i)
        BY <2>1, <3>1
      <4>2. w[i] = f[i]
        BY <2>2, <4>1, <3>1, Zenon DEF IsWritten
      <4>. QED BY <2>3, <4>1, <4>2
    <3>2. CASE i > Len(f)
      <4>1. i - Len(f) \in 1 .. Len(u) /\ Len(f) + (i - Len(f)) = i
        BY <2>1, <2>3, <2>4, <3>2
      <4>2. w[i] = u[i - Len(f)]
        BY <2>1, <2>2, <2>5, <3>2, <4>1 DEF IsWritten
      <4>. QED BY <2>3, <4>1, <4>2
    <3>. QED BY <2>1, <3>1, <3>2
  <2>6. w = c
    BY <2>2, <2>3, <2>4, <2>5, SameSequence
  <2>. QED BY <2>6 DEF w, c
<1>2. Write(<<>>, 1, u) = <<Zero>> \o u
  <2>. DEFINE w == Write(<<>>, 1, u)
              c == <<Zero>> \o u
  <2>1. <<>> \in Seq(Unit) /\ Len(<<>>) = 0 /\ Len(u) \in Nat /\ Zero \in Unit
    BY UnitsAre
  <2>2. w \in Seq(Unit) /\ IsWritten(w, <<>>, 1, u, Zero)
    BY <2>1, WriteIs
  <2>3. /\ c \in Seq(Unit) /\ Len(c) = 1 + Len(u) /\ c[1] = Zero
        /\ \A i \in 1 .. Len(u) : c[1 + i] = u[i]
    BY <2>1
  <2>. HIDE DEF w, c
  <2>4. Len(w) = Len(c)
    BY <2>1, <2>2, <2>3 DEF IsWritten
  <2>5. ASSUME NEW i \in 1 .. Len(w) PROVE w[i] = c[i]
    <3>1. CASE i = 1
      BY <2>1, <2>2, <2>3, <2>5, <3>1 DEF IsWritten
    <3>2. CASE i > 1
      <4>1. i - 1 \in 1 .. Len(u) /\ 1 + (i - 1) = i
        BY <2>1, <2>3, <2>4, <3>2
      <4>2. w[i] = u[i - 1]
        BY <2>1, <2>2, <2>5, <3>2, <4>1 DEF IsWritten
      <4>. QED BY <2>3, <4>1, <4>2
    <3>. QED BY <3>1, <3>2
  <2>6. w = c
    BY <2>2, <2>3, <2>4, <2>5, SameSequence
  <2>. QED BY <2>6 DEF w, c
<1>. QED BY <1>1, <1>2

-----------------------------------------------------------------------------
(* The types of everything, of the units of the files too.                 *)
TypeInv ==
  /\ TypeOK
  /\ img \in Seq(Unit) /\ out \in Seq(Unit)
  /\ foreign = <<>> \/ foreign \in Foreign

LEMMA ReadType ==
  ASSUME NEW f \in Seq(Unit), NEW at \in Nat
  PROVE  ReadUnit(f, at) \in Unit
<1>1. at < Len(f) => f[at + 1] \in Unit
  OBVIOUS
<1>. QED BY <1>1, UnitsAre DEF ReadUnit, UnitAt

(* What android_sparse_finish writes for a run.                            *)
LEMMA RunType ==
  ASSUME BitsInv, pc = "write", it.start >= 0, NEW gap \in BOOLEAN
  PROVE  /\ it.start \in blk .. TotalBlks - 1 /\ it.bits \in 1 .. TotalBlks - it.start
         /\ blk \in Nat /\ it.start - blk \in Nat /\ it.start \in Nat /\ it.bits \in Nat
         /\ HeaderUnits(gap) \in Seq(Unit) /\ Len(HeaderUnits(gap)) = IF gap THEN 2 ELSE 1
         /\ Blocks(it.start, it.bits) \in Seq(Unit)
         /\ Len(Blocks(it.start, it.bits)) = it.bits * BlkUnits /\ it.bits * BlkUnits \in Nat
<1>1. it.start \in blk .. TotalBlks - 1 /\ it.bits \in 1 .. TotalBlks - it.start
  BY DEF BitsInv, IsRun
<1>2. blk \in Nat /\ it.start - blk \in Nat /\ it.start \in Nat /\ it.bits \in Nat
  <2>1. blk \in Nat
    BY DEF BitsInv
  <2>. QED BY <1>1, <2>1
<1>3. DontCare(it.start - blk) \in Unit /\ Raw(it.bits) \in Unit
  BY <1>2, HeaderTypes
<1>4. HeaderUnits(gap) \in Seq(Unit) /\ Len(HeaderUnits(gap)) = IF gap THEN 2 ELSE 1
  BY <1>3 DEF HeaderUnits
<1>5. Blocks(it.start, it.bits) \in Seq(Unit) /\ Len(Blocks(it.start, it.bits)) = it.bits * BlkUnits
  BY <1>2, BlocksType
<1>6. it.bits * BlkUnits \in Nat
  BY <1>2, Product
<1>. QED BY <1>1, <1>2, <1>4, <1>5, <1>6

LEMMA WrittenType ==
  ASSUME TypeInv, NEW units \in Seq(Unit), NEW all, Written(units, all)
  PROVE  out' \in Seq(Unit) /\ failures' \in 0 .. MaxFailures
<1>1. out \in Seq(Unit) /\ offset_out \in Nat /\ failures \in 0 .. MaxFailures
  BY DEF TypeInv, TypeOK
<1>2. CASE all
  <2>1. out' = Write(out, offset_out, units) /\ failures' = failures
    BY <1>2 DEF Written
  <2>. QED BY <1>1, <2>1, WriteIs
<1>3. CASE ~all
  <2>1. failures < MaxFailures /\ failures' = failures + 1
    BY <1>3 DEF Written
  <2>2. PICK n \in 0 .. Len(units) - 1 : out' = Write(out, offset_out, SubSeq(units, 1, n))
    BY <1>3 DEF Written
  <2>3. SubSeq(units, 1, n) \in Seq(Unit)
    OBVIOUS
  <2>4. out' \in Seq(Unit)
    BY <1>1, <2>2, <2>3, WriteIs
  <2>. QED BY <1>1, <2>1, <2>4
<1>. QED BY <1>2, <1>3

(* What sparse_unpack2fd reads of a chunk.                                 *)
LEMMA HeaderType ==
  ASSUME TypeInv
  PROVE  /\ Header \in Unit /\ TotalChunks \in Nat /\ RawData \in Nat /\ Expanded \in Nat
         /\ RawUnits \in Seq(Unit) /\ Len(RawUnits) = RawData
         /\ Zeros(Expanded) \in Seq(Unit) /\ Len(Zeros(Expanded)) = Expanded
         /\ LET fill == [u \in 1 .. Expanded |-> ReadUnit(img, offset_in + 1)]
            IN fill \in Seq(Unit) /\ Len(fill) = Expanded
<1>1. img \in Seq(Unit) /\ offset_in \in Nat
  BY DEF TypeInv, TypeOK
<1>2. Header \in Unit /\ ReadUnit(img, 0) \in Unit
  BY <1>1, ReadType DEF Header
<1>3. TotalChunks \in Nat /\ Header.sz \in Nat /\ Header.n \in Nat
  BY <1>2 DEF TotalChunks, Unit
<1>4. RawData \in Nat
  <2>1. Header.sz - 1 + Mod32 \in Nat
    BY <1>3
  <2>. QED BY <2>1 DEF RawData
<1>5. Expanded \in Nat
  <2>1. Header.n * BlkUnits \in Nat
    BY <1>3, Product
  <2>. QED BY <2>1 DEF Expanded
<1>6. RawUnits \in Seq(Unit) /\ Len(RawUnits) = RawData
  <2>1. \A u \in 1 .. RawData : offset_in + u \in Nat
    BY <1>1, <1>4
  <2>2. RawUnits \in [1 .. RawData -> Unit]
    BY <1>1, <2>1, ReadType DEF RawUnits
  <2>. HIDE DEF RawData
  <2>. QED BY <1>4, <2>2
<1>7. Zeros(Expanded) \in Seq(Unit) /\ Len(Zeros(Expanded)) = Expanded
  BY <1>5, UnitsAre, SameType DEF Zeros
<1>8. ReadUnit(img, offset_in + 1) \in Unit
  BY <1>1, ReadType
<1>9. LET fill == [u \in 1 .. Expanded |-> ReadUnit(img, offset_in + 1)]
      IN fill \in Seq(Unit) /\ Len(fill) = Expanded
  BY <1>5, <1>8, SameType
<1>. QED BY <1>2, <1>3, <1>4, <1>5, <1>6, <1>7, <1>9

LEMMA TypeStart == Init => TypeInv
<1>. SUFFICES ASSUME Init PROVE TypeInv
  OBVIOUS
<1>1. bitmap.total_bits = TotalBlks
  BY DEF Init, alloc_bitmask
<1>2. it.start = -1 /\ it.bits = 0
  BY DEF Init, NoRun
<1>3. error \in BOOLEAN /\ fast \in BOOLEAN
  BY Zenon DEF Init
<1>4. /\ pc \in {"add", "built"} /\ adds = 0 /\ failures = 0 /\ ret = -1 /\ blk = 0 /\ offset = 1
      /\ total_chunks = 0 /\ offset_in = 1 /\ offset_out = 0 /\ chunk = 0 /\ added = {}
      /\ out = <<>>
  BY DEF Init
<1>5. TypeOK
  BY <1>1, <1>2, <1>3, <1>4 DEF TypeOK
<1>6. foreign = <<>> \/ foreign \in Foreign
  BY DEF Init
<1>7. img \in Seq(Unit)
  <2>1. CASE img = <<>>
    BY <2>1
  <2>2. CASE foreign \in Foreign /\ img = LayOut(foreign)
    BY <2>2, LayOutIs
  <2>. QED BY <2>1, <2>2 DEF Init
<1>. QED BY <1>4, <1>5, <1>6, <1>7 DEF TypeInv

LEMMA TypeStep == TypeInv /\ BitsInv /\ BitsInv' /\ [Next]_vars => TypeInv'
<1>. SUFFICES ASSUME TypeInv, BitsInv, BitsInv', [Next]_vars PROVE TypeInv'
  OBVIOUS
<1>. DEFINE Booleans == error' \in BOOLEAN /\ fast' \in BOOLEAN
            Writer == /\ offset' \in Nat /\ total_chunks' \in Nat /\ adds' \in 0 .. MaxAdds
                      /\ ret' \in {0, -1}
            Reader == /\ offset_in' \in Nat /\ offset_out' \in Nat /\ chunk' \in Nat
                      /\ failures' \in 0 .. MaxFailures
            Contents == img' \in Seq(Unit) /\ out' \in Seq(Unit)
<1>1. /\ offset \in Nat /\ total_chunks \in Nat /\ adds \in 0 .. MaxAdds /\ ret \in {0, -1}
      /\ offset_in \in Nat /\ offset_out \in Nat /\ chunk \in Nat /\ failures \in 0 .. MaxFailures
      /\ img \in Seq(Unit) /\ out \in Seq(Unit)
  BY DEF TypeInv, TypeOK
<1>2. error \in BOOLEAN /\ fast \in BOOLEAN
  BY Zenon DEF TypeInv, TypeOK
<1>3. ASSUME Booleans, Writer, Reader, Contents, foreign' = foreign PROVE TypeInv'
  <2>1. /\ pc' \in {"add", "write", "built", "unpack", "done"} /\ bitmap'.total_bits = TotalBlks
        /\ blk' \in 0 .. TotalBlks /\ added' \subseteq Block
        /\ it'.start \in -1 .. TotalBlks - 1 /\ it'.bits \in 0 .. TotalBlks
    BY DEF BitsInv, Marked, Bitmaps, Iterators
  <2>2. TypeOK'
    BY <1>3, <2>1, Zenon DEF TypeOK
  <2>. QED BY <1>3, <2>2 DEF TypeInv
<1>. HIDE DEF Booleans, Writer, Reader, Contents
<1>4. ASSUME NEW from \in Block, NEW count \in 1 .. TotalBlks, AddChunk(from, count)
      PROVE  TypeInv'
  <2>1. /\ adds < MaxAdds /\ adds' = adds + 1
        /\ UNCHANGED <<img, offset, total_chunks, ret, chunk, offset_in, offset_out, out,
                       failures, foreign>>
    BY <1>4 DEF AddChunk, reader
  <2>2. Booleans
    <3>1. error' = (error \/ set_bits_fails(bitmap, from, count)) /\ fast' = fast
      BY <1>4, Zenon DEF AddChunk, reader
    <3>2. set_bits_fails(bitmap, from, count) \in BOOLEAN
      BY DEF set_bits_fails
    <3>. QED BY <1>2, <3>1, <3>2, Zenon DEF Booleans
  <2>3. Writer /\ Reader /\ Contents
    BY <1>1, <2>1 DEF Writer, Reader, Contents
  <2>. QED BY <1>3, <2>1, <2>2, <2>3
<1>5. CASE FinishFails \/ FinishBegins
  <2>1. /\ UNCHANGED <<adds, img, offset, total_chunks, chunk, offset_in, offset_out, out,
                       failures, foreign>>
        /\ ret' \in {ret, -1}
    BY <1>5 DEF FinishFails, FinishBegins, writer, reader, history
  <2>2. Booleans
    <3>1. UNCHANGED <<error, fast>>
      BY <1>5, Zenon DEF FinishFails, FinishBegins, writer, reader
    <3>. QED BY <1>2, <3>1, Zenon DEF Booleans
  <2>3. Writer /\ Reader /\ Contents
    BY <1>1, <2>1 DEF Writer, Reader, Contents
  <2>. QED BY <1>3, <2>1, <2>2, <2>3
<1>6. CASE WriteRun
  <2>. DEFINE gap == blk # it.start
              heads == HeaderUnits(gap)
              data == Blocks(it.start, it.bits)
  <2>1. /\ pc = "write" /\ it.start >= 0
        /\ total_chunks' = total_chunks + Len(heads)
        /\ \/ /\ img' = Write(img, offset, heads \o data) /\ ret' = 0
              /\ offset' = offset + Len(heads) + it.bits * BlkUnits /\ failures' = failures
           \/ /\ failures < MaxFailures /\ failures' = failures + 1
              /\ img' = Write(img, offset, heads) /\ ret' = -1 /\ offset' = offset
        /\ UNCHANGED <<adds, chunk, offset_in, offset_out, out, foreign>>
    BY <1>6 DEF WriteRun, reader, history
  <2>2. /\ heads \in Seq(Unit) /\ Len(heads) \in Nat /\ data \in Seq(Unit)
        /\ it.bits * BlkUnits \in Nat
    <3>1. gap \in BOOLEAN
      OBVIOUS
    <3>. HIDE DEF gap
    <3>. QED BY <2>1, <3>1, RunType
  <2>3. Booleans
    <3>1. UNCHANGED <<error, fast>>
      BY <1>6, Zenon DEF WriteRun, reader
    <3>. QED BY <1>2, <3>1, Zenon DEF Booleans
  <2>. HIDE DEF heads, data
  <2>4. heads \o data \in Seq(Unit)
    BY <2>2
  <2>5. img' \in Seq(Unit)
    <3>1. Write(img, offset, heads \o data) \in Seq(Unit)
      BY <1>1, <2>4, WriteIs
    <3>2. Write(img, offset, heads) \in Seq(Unit)
      BY <1>1, <2>2, WriteIs
    <3>. QED BY <2>1, <3>1, <3>2
  <2>6. Writer
    <3>. DEFINE b == it.bits * BlkUnits
                h == Len(heads)
    <3>1. b \in Nat /\ h \in Nat /\ offset' \in {offset, offset + h + b} /\ total_chunks' = total_chunks + h
      BY <2>1, <2>2
    <3>. HIDE DEF b, h
    <3>2. offset' \in Nat /\ total_chunks' \in Nat
      BY <1>1, <3>1
    <3>3. ret' \in {0, -1} /\ adds' = adds
      BY <2>1
    <3>. QED BY <1>1, <3>2, <3>3 DEF Writer
  <2>7. Reader /\ Contents
    <3>1. failures' \in 0 .. MaxFailures
      BY <1>1, <2>1
    <3>. QED BY <1>1, <2>1, <2>5, <3>1 DEF Reader, Contents
  <2>. QED BY <1>3, <2>1, <2>3, <2>6, <2>7
<1>7. CASE FinishEnds
  <2>. DEFINE tail == IF blk < TotalBlks THEN <<DontCare(TotalBlks - blk)>> ELSE <<>>
              body == IF tail = <<>> THEN img ELSE Write(img, offset, tail)
  <2>1. /\ total_chunks' = total_chunks + Len(tail)
        /\ img' = Write(body, 0, <<FileHeader(total_chunks')>>)
        /\ UNCHANGED <<adds, offset, ret, chunk, offset_in, offset_out, out, failures, foreign>>
    BY <1>7 DEF FinishEnds, reader, history
  <2>2. Booleans
    <3>1. UNCHANGED <<error, fast>>
      BY <1>7, Zenon DEF FinishEnds, reader
    <3>. QED BY <1>2, <3>1, Zenon DEF Booleans
  <2>3. tail \in Seq(Unit) /\ Len(tail) \in Nat
    <3>1. blk < TotalBlks => DontCare(TotalBlks - blk) \in Unit
      <4>1. blk < TotalBlks => TotalBlks - blk \in Nat
        BY DEF BitsInv
      <4>. QED BY <4>1, HeaderTypes
    <3>. QED BY <3>1
  <2>. HIDE DEF tail
  <2>4. body \in Seq(Unit)
    BY <1>1, <2>3, WriteIs
  <2>5. total_chunks' \in Nat
    BY <1>1, <2>1, <2>3
  <2>. HIDE DEF body
  <2>6. img' \in Seq(Unit)
    <3>1. FileHeader(total_chunks') \in Unit
      BY <2>5, UnitsAre
    <3>2. <<FileHeader(total_chunks')>> \in Seq(Unit) /\ 0 \in Nat
      BY <3>1
    <3>. QED BY <2>1, <2>4, <3>2, WriteIs
  <2>7. Writer /\ Reader /\ Contents
    BY <1>1, <2>1, <2>5, <2>6 DEF Writer, Reader, Contents
  <2>. QED BY <1>3, <2>1, <2>2, <2>7
<1>8. CASE UnpackBegins \/ UnpackRefuses \/ UnpackEnds
  <2>1. /\ UNCHANGED <<adds, img, offset, total_chunks, chunk, offset_in, offset_out, out,
                       failures, foreign>>
        /\ ret' \in {ret, 0, -1}
    BY <1>8 DEF UnpackBegins, UnpackRefuses, UnpackEnds, writer, reader, history
  <2>2. Booleans
    <3>1. UNCHANGED <<error, fast>>
      BY <1>8, Zenon DEF UnpackBegins, UnpackRefuses, UnpackEnds, writer, reader
    <3>. QED BY <1>2, <3>1, Zenon DEF Booleans
  <2>3. Writer /\ Reader /\ Contents
    BY <1>1, <2>1 DEF Writer, Reader, Contents
  <2>. QED BY <1>3, <2>1, <2>2, <2>3
<1>9. CASE UnpackRaw \/ UnpackRawFails \/ UnpackDontCare \/ UnpackFill \/ UnpackCrc
  <2>1. /\ UNCHANGED <<adds, img, offset, total_chunks, foreign>> /\ ret' \in {ret, -1}
        /\ \/ UNCHANGED <<chunk, offset_in, offset_out>>
           \/ NextChunk(RawData) \/ NextChunk(Expanded) \/ NextChunk(0)
    BY <1>9 DEF UnpackRaw, UnpackRawFails, UnpackDontCare, UnpackFill, UnpackCrc, writer, history
  <2>2. Booleans
    <3>1. UNCHANGED <<error, fast>>
      BY <1>9, Zenon DEF UnpackRaw, UnpackRawFails, UnpackDontCare, UnpackFill, UnpackCrc, writer
    <3>. QED BY <1>2, <3>1, Zenon DEF Booleans
  <2>3. out' \in Seq(Unit) /\ failures' \in 0 .. MaxFailures
    <3>1. \/ \E all : Written(RawUnits, all)
          \/ \E all : Written(Zeros(Expanded), all)
          \/ \E all : Written([u \in 1 .. Expanded |-> ReadUnit(img, offset_in + 1)], all)
          \/ UNCHANGED <<out, failures>>
      <4>1. UnpackRaw \/ UnpackRawFails => \E all : Written(RawUnits, all)
        BY Zenon DEF UnpackRaw, UnpackRawFails
      <4>2. UnpackDontCare => (\E all : Written(Zeros(Expanded), all)) \/ UNCHANGED <<out, failures>>
        BY Zenon DEF UnpackDontCare
      <4>3. UnpackFill => \E all : Written([u \in 1 .. Expanded |-> ReadUnit(img, offset_in + 1)], all)
        BY Zenon DEF UnpackFill
      <4>4. UnpackCrc => UNCHANGED <<out, failures>>
        BY DEF UnpackCrc
      <4>. QED BY <1>9, <4>1, <4>2, <4>3, <4>4, Zenon
    <3>2. ASSUME NEW all, Written(RawUnits, all) PROVE out' \in Seq(Unit) /\ failures' \in 0 .. MaxFailures
      BY <3>2, HeaderType, WrittenType
    <3>3. ASSUME NEW all, Written(Zeros(Expanded), all)
          PROVE  out' \in Seq(Unit) /\ failures' \in 0 .. MaxFailures
      BY <3>3, HeaderType, WrittenType
    <3>4. ASSUME NEW all, Written([u \in 1 .. Expanded |-> ReadUnit(img, offset_in + 1)], all)
          PROVE  out' \in Seq(Unit) /\ failures' \in 0 .. MaxFailures
      BY <3>4, HeaderType, WrittenType
    <3>. QED BY <1>1, <3>1, <3>2, <3>3, <3>4
  <2>4. chunk' \in Nat /\ offset_in' \in Nat /\ offset_out' \in Nat
    <3>1. RawData \in Nat /\ Expanded \in Nat /\ Header.sz \in Nat
      BY HeaderType DEF Unit
    <3>. QED BY <1>1, <2>1, <3>1 DEF NextChunk
  <2>5. Writer /\ Reader /\ Contents
    BY <1>1, <2>1, <2>3, <2>4 DEF Writer, Reader, Contents
  <2>. QED BY <1>3, <2>1, <2>2, <2>5
<1>10. CASE UNCHANGED vars
  <2>1. UNCHANGED <<adds, img, offset, total_chunks, chunk, offset_in, offset_out, out,
                    failures, foreign, ret>>
    BY <1>10 DEF vars, writer, reader, history
  <2>2. Booleans
    <3>1. UNCHANGED <<error, fast>>
      BY <1>10, Zenon DEF vars, writer, reader
    <3>. QED BY <1>2, <3>1, Zenon DEF Booleans
  <2>3. Writer /\ Reader /\ Contents
    BY <1>1, <2>1 DEF Writer, Reader, Contents
  <2>. QED BY <1>3, <2>1, <2>2, <2>3
<1>. QED BY <1>4, <1>5, <1>6, <1>7, <1>8, <1>9, <1>10 DEF Next

LEMMA TypesHold == Spec => [](BitsInv /\ TypeInv)
<1>1. Init => BitsInv /\ TypeInv
  BY BitsStart, TypeStart
<1>2. BitsInv /\ TypeInv /\ [Next]_vars => (BitsInv /\ TypeInv)'
  BY BitsStep, TypeStep
<1>. QED BY <1>1, <1>2, PTL DEF Spec

(* android_sparse_finish and sparse_unpack2fd keep their offsets, their    *)
(* counts and the runs of the bitmask within the image.                    *)
THEOREM TypeCorrect == Spec => []TypeOK
<1>1. TypeInv => TypeOK
  BY DEF TypeInv
<1>. QED BY <1>1, TypesHold, PTL

-----------------------------------------------------------------------------
(* What the first blocks of the image hold: the data of the blocks added   *)
(* and zeros.                                                              *)
ImageUnit(u) == IF (u - 1) \div BlkUnits \in added
                THEN Data((u - 1) \div BlkUnits, ((u - 1) % BlkUnits) + 1) ELSE Zero
Image(n) == [u \in 1 .. n * BlkUnits |-> ImageUnit(u)]

LEMMA Divides ==
  ASSUME NEW w \in Nat
  PROVE  /\ w \div BlkUnits \in Nat /\ w % BlkUnits \in 0 .. BlkUnits - 1
         /\ w = (w \div BlkUnits) * BlkUnits + (w % BlkUnits)
OBVIOUS

LEMMA DivideFrom ==
  ASSUME NEW a \in Nat, NEW v \in Nat
  PROVE  /\ (a * BlkUnits + v) \div BlkUnits = a + (v \div BlkUnits)
         /\ (a * BlkUnits + v) % BlkUnits = v % BlkUnits
         /\ v \div BlkUnits \in Nat /\ v % BlkUnits \in Nat
<1>. DEFINE q == v \div BlkUnits
            r == v % BlkUnits
            w == a * BlkUnits + v
            s == (a + q) * BlkUnits
<1>1. q \in Nat /\ r \in 0 .. BlkUnits - 1 /\ v = q * BlkUnits + r
  OBVIOUS
<1>. HIDE DEF q, r
<1>2. s \in Nat /\ w = s + r /\ w \in Nat
  BY <1>1
<1>3. w \div BlkUnits = a + q /\ w % BlkUnits = r
  <2>. DEFINE x == w \div BlkUnits
              y == w % BlkUnits
  <2>1. x \in Nat /\ y \in 0 .. BlkUnits - 1 /\ w = x * BlkUnits + y
    <3>. HIDE DEF w
    <3>1. w \in Nat
      BY <1>2
    <3>. QED BY <3>1, Divides, Zenon DEF x, y
  <2>. HIDE DEF x, y, w
  <2>2. (a + q) * BlkUnits + r = x * BlkUnits + y /\ a + q \in Nat
    BY <1>1, <1>2, <2>1
  <2>. DEFINE z == a + q
  <2>. HIDE DEF z
  <2>3. z \in Nat /\ z * BlkUnits + r = x * BlkUnits + y
    BY <2>2 DEF z
  <2>4. ~ z < x
    <3>. SUFFICES ASSUME z + 1 <= x PROVE FALSE
      BY <2>1, <2>3
    <3>1. (z + 1) * BlkUnits <= x * BlkUnits
      BY <2>1, <2>3
    <3>2. (z + 1) * BlkUnits = z * BlkUnits + BlkUnits
      BY <2>3
    <3>. QED BY <1>1, <2>1, <2>3, <3>1, <3>2
  <2>5. ~ x < z
    <3>. SUFFICES ASSUME x + 1 <= z PROVE FALSE
      BY <2>1, <2>3
    <3>1. (x + 1) * BlkUnits <= z * BlkUnits
      BY <2>1, <2>3
    <3>2. (x + 1) * BlkUnits = x * BlkUnits + BlkUnits
      BY <2>1
    <3>. QED BY <1>1, <2>1, <2>3, <3>1, <3>2
  <2>6. z = x
    BY <2>1, <2>3, <2>4, <2>5
  <2>7. y = r
    BY <1>1, <2>1, <2>3, <2>6
  <2>. QED BY <2>6, <2>7 DEF z, x, y
<1>. QED BY <1>1, <1>3 DEF q, r

LEMMA Divided ==
  ASSUME NEW n \in Nat, NEW u \in 1 .. n * BlkUnits
  PROVE  /\ (u - 1) \div BlkUnits \in 0 .. n - 1 /\ (u - 1) % BlkUnits \in Nat
<1>. DEFINE v == u - 1
            q == v \div BlkUnits
            r == v % BlkUnits
<1>0. n * BlkUnits \in Nat
  BY Product
<1>1. v \in Nat /\ v < n * BlkUnits
  BY <1>0
<1>2. q \in Nat /\ r \in Nat /\ v = q * BlkUnits + r
  <2>. HIDE DEF v
  <2>. QED BY <1>1
<1>. HIDE DEF q, r, v
<1>3. q < n
  <2>. SUFFICES ASSUME n <= q PROVE FALSE
    BY <1>2
  <2>1. n * BlkUnits <= q * BlkUnits
    BY <1>2
  <2>. QED BY <1>0, <1>1, <1>2, <2>1
<1>. QED BY <1>2, <1>3 DEF q, r, v

LEMMA ImageType ==
  ASSUME NEW n \in Nat
  PROVE  Image(n) \in Seq(Unit) /\ Len(Image(n)) = n * BlkUnits
<1>. DEFINE m == n * BlkUnits
<1>1. m \in Nat
  BY Product
<1>2. \A u \in 1 .. m : ImageUnit(u) \in Unit
  <2>. TAKE u \in 1 .. m
  <2>1. (u - 1) \div BlkUnits \in Nat /\ ((u - 1) % BlkUnits) + 1 \in Nat
    BY Divided
  <2>. QED BY <2>1, UnitsAre DEF ImageUnit
<1>3. Image(n) = [u \in 1 .. m |-> ImageUnit(u)]
  BY DEF Image
<1>. HIDE DEF m
<1>4. Image(n) \in [1 .. m -> Unit]
  BY <1>2, <1>3
<1>5. Image(n) \in Seq(Unit) /\ Len(Image(n)) = m
  BY <1>1, <1>4
<1>. QED BY <1>5 DEF m

(* The units of the blocks behind the first a.                             *)
LEMMA ImageBehind ==
  ASSUME NEW a \in Nat, NEW n \in Nat, NEW w \in 1 .. n * BlkUnits
  PROVE  /\ (w - 1) \div BlkUnits \in 0 .. n - 1
         /\ ImageUnit(a * BlkUnits + w) =
              IF a + ((w - 1) \div BlkUnits) \in added
              THEN Data(a + ((w - 1) \div BlkUnits), ((w - 1) % BlkUnits) + 1) ELSE Zero
<1>. DEFINE v == w - 1
            m == a * BlkUnits
<1>1. v \in Nat /\ m \in Nat /\ (m + w) - 1 = m + v
  <2>1. n * BlkUnits \in Nat /\ m \in Nat
    BY Product
  <2>. HIDE DEF m
  <2>. QED BY <2>1
<1>2. (m + v) \div BlkUnits = a + (v \div BlkUnits) /\ (m + v) % BlkUnits = v % BlkUnits
  BY <1>1, DivideFrom
<1>3. v \div BlkUnits \in 0 .. n - 1
  BY Divided
<1>. HIDE DEF m
<1>4. ImageUnit(m + w) = IF (m + v) \div BlkUnits \in added
                         THEN Data((m + v) \div BlkUnits, ((m + v) % BlkUnits) + 1) ELSE Zero
  BY <1>1 DEF ImageUnit
<1>. HIDE DEF v
<1>5. ImageUnit(m + w) = IF a + (v \div BlkUnits) \in added
                         THEN Data(a + (v \div BlkUnits), (v % BlkUnits) + 1) ELSE Zero
  BY <1>2, <1>4
<1>. QED BY <1>3, <1>5 DEF m, v

(* A run of blocks that were not added, or that were, is what comes next.  *)
LEMMA ImageGrows ==
  ASSUME NEW a \in Nat, NEW n \in Nat
  PROVE  /\ (\A b \in a .. a + n - 1 : b \notin added)
              => Image(a + n) = Image(a) \o Zeros(n * BlkUnits)
         /\ (\A b \in a .. a + n - 1 : b \in added)
              => Image(a + n) = Image(a) \o Blocks(a, n)
<1>. DEFINE m == a * BlkUnits
            k == n * BlkUnits
<1>1. m \in Nat /\ k \in Nat /\ (a + n) * BlkUnits = m + k /\ a + n \in Nat
  <2>1. m \in Nat /\ k \in Nat
    BY Product
  <2>. QED BY <2>1
<1>2. Image(a) \in Seq(Unit) /\ Len(Image(a)) = m /\ \A i \in 1 .. m : Image(a)[i] = ImageUnit(i)
  BY ImageType DEF Image
<1>3. /\ Image(a + n) \in Seq(Unit) /\ Len(Image(a + n)) = m + k
      /\ \A i \in 1 .. m + k : Image(a + n)[i] = ImageUnit(i)
  <2>1. Image(a + n) \in Seq(Unit) /\ Len(Image(a + n)) = (a + n) * BlkUnits
    BY <1>1, ImageType
  <2>2. Image(a + n) = [i \in 1 .. m + k |-> ImageUnit(i)]
    BY <1>1 DEF Image
  <2>. QED BY <1>1, <2>1, <2>2
<1>4. \A w \in 1 .. k : /\ a + ((w - 1) \div BlkUnits) \in a .. a + n - 1
                        /\ ImageUnit(m + w) = IF a + ((w - 1) \div BlkUnits) \in added
                              THEN Data(a + ((w - 1) \div BlkUnits), ((w - 1) % BlkUnits) + 1)
                              ELSE Zero
  <2>. TAKE w \in 1 .. k
  <2>1. (w - 1) \div BlkUnits \in 0 .. n - 1
    BY ImageBehind
  <2>2. a + ((w - 1) \div BlkUnits) \in a .. a + n - 1
    <3>. DEFINE q == (w - 1) \div BlkUnits
    <3>1. q \in 0 .. n - 1
      BY <2>1
    <3>. HIDE DEF q
    <3>2. a + q \in a .. a + n - 1
      BY <3>1
    <3>. QED BY <3>2 DEF q
  <2>. QED BY <2>2, ImageBehind
<1>5. ASSUME NEW t \in Seq(Unit), Len(t) = k, \A w \in 1 .. k : t[w] = ImageUnit(m + w)
      PROVE  Image(a + n) = Image(a) \o t
  <2>. DEFINE s == Image(a)
              x == Image(a + n)
  <2>1. /\ s \in Seq(Unit) /\ Len(s) = m /\ x \in Seq(Unit) /\ Len(x) = m + k
        /\ \A i \in 1 .. m : s[i] = ImageUnit(i)
        /\ \A i \in 1 .. m + k : x[i] = ImageUnit(i)
    BY <1>2, <1>3
  <2>0. m \in Nat /\ k \in Nat
    BY <1>1
  <2>. HIDE DEF s, x, m, k
  <2>2. /\ s \o t \in Seq(Unit) /\ Len(s \o t) = m + k
        /\ \A i \in 1 .. m : (s \o t)[i] = s[i]
        /\ \A i \in 1 .. k : (s \o t)[m + i] = t[i]
    <3>1. /\ s \o t \in Seq(Unit) /\ Len(s \o t) = Len(s) + Len(t)
          /\ \A i \in 1 .. Len(s) : (s \o t)[i] = s[i]
          /\ \A i \in 1 .. Len(t) : (s \o t)[Len(s) + i] = t[i]
      <4>1. s \in Seq(Unit) /\ t \in Seq(Unit)
        BY <1>5, <2>1
      <4>. QED BY <4>1, ConcatProperties
    <3>. QED BY <1>5, <2>1, <3>1
  <2>3. ASSUME NEW i \in 1 .. m + k PROVE x[i] = (s \o t)[i]
    <3>1. CASE i <= m
      BY <2>0, <2>1, <2>2, <3>1
    <3>2. CASE i > m
      <4>1. i - m \in 1 .. k /\ m + (i - m) = i
        BY <2>0, <3>2
      <4>2. (s \o t)[m + (i - m)] = t[i - m] /\ t[i - m] = ImageUnit(m + (i - m))
        BY <1>5, <2>2, <4>1
      <4>. QED BY <2>1, <4>1, <4>2
    <3>3. i <= m \/ i > m
      BY <2>0
    <3>. QED BY <3>1, <3>2, <3>3, Zenon
  <2>4. x = s \o t
    <3>. DEFINE y == s \o t
    <3>1. y \in Seq(Unit) /\ Len(x) = Len(y) /\ \A i \in 1 .. Len(x) : x[i] = y[i]
      BY <2>1, <2>2, <2>3
    <3>. HIDE DEF y
    <3>2. x = y
      BY <2>1, <3>1, SameSequence
    <3>. QED BY <3>2 DEF y
  <2>. QED BY <2>4 DEF s, x
<1>. HIDE DEF m
<1>6. (\A b \in a .. a + n - 1 : b \notin added) => Image(a + n) = Image(a) \o Zeros(k)
  <2>. HAVE \A b \in a .. a + n - 1 : b \notin added
  <2>. HIDE DEF k
  <2>1. Zeros(k) \in Seq(Unit) /\ Len(Zeros(k)) = k /\ \A w \in 1 .. k : Zeros(k)[w] = Zero
    BY <1>1, UnitsAre, SameType DEF Zeros
  <2>2. \A w \in 1 .. k : ImageUnit(m + w) = Zero
    BY <1>4
  <2>. QED BY <1>5, <2>1, <2>2
<1>7. (\A b \in a .. a + n - 1 : b \in added) => Image(a + n) = Image(a) \o Blocks(a, n)
  <2>. HAVE \A b \in a .. a + n - 1 : b \in added
  <2>1. Blocks(a, n) \in Seq(Unit) /\ Len(Blocks(a, n)) = k
    BY BlocksType
  <2>2. \A w \in 1 .. k : Blocks(a, n)[w] =
                            Data(a + ((w - 1) \div BlkUnits), ((w - 1) % BlkUnits) + 1)
    BY DEF Blocks
  <2>. HIDE DEF k
  <2>3. \A w \in 1 .. k : Blocks(a, n)[w] = ImageUnit(m + w)
    BY <1>4, <2>2
  <2>. QED BY <1>5, <2>1, <2>3
<1>. QED BY <1>6, <1>7

LEMMA MeaningIs == foreign = <<>> => Meaning = Image(TotalBlks)
<1>. HAVE foreign = <<>>
<1>. DEFINE m == TotalBlks * BlkUnits
<1>1. Meaning = [u \in 1 .. m |->
                   IF (u - 1) \div BlkUnits \in added THEN Blocks(0, TotalBlks)[u] ELSE Zero]
  BY DEF Meaning
<1>2. \A u \in 1 .. m : Blocks(0, TotalBlks)[u] =
                          Data((u - 1) \div BlkUnits, ((u - 1) % BlkUnits) + 1)
  <2>. TAKE u \in 1 .. m
  <2>1. Blocks(0, TotalBlks)[u] =
          Data(0 + ((u - 1) \div BlkUnits), ((u - 1) % BlkUnits) + 1)
    BY DEF Blocks
  <2>2. (u - 1) \div BlkUnits \in 0 .. TotalBlks - 1
    BY Divided
  <2>3. 0 + ((u - 1) \div BlkUnits) = (u - 1) \div BlkUnits
    BY <2>2
  <2>. QED BY <2>1, <2>3
<1>3. Image(TotalBlks) = [u \in 1 .. m |-> ImageUnit(u)]
  BY DEF Image
<1>. HIDE DEF m
<1>. QED BY <1>1, <1>2, <1>3 DEF ImageUnit

-----------------------------------------------------------------------------
(* What is read of a chunk of an image.                                    *)
LEMMA FitsIs ==
  ASSUME NEW n \in Nat, Fits(n)
  PROVE  /\ n * BlkUnits \in Nat
         /\ (n * BlkUnits + 1) % Mod32 = n * BlkUnits + 1
         /\ (n * BlkUnits) % Mod32 = n * BlkUnits
         /\ ((n * BlkUnits + 1) - 1 + Mod32) % Mod32 = n * BlkUnits
<1>. DEFINE m == n * BlkUnits
<1>1. m \in Nat /\ m + 1 < Mod32
  BY Product DEF Fits
<1>. HIDE DEF m
<1>2. (m + 1) % Mod32 = m + 1 /\ m % Mod32 = m
  BY <1>1
<1>3. ((m + 1) - 1 + Mod32) % Mod32 = m
  <2>1. (m + 1) - 1 + Mod32 = m + Mod32
    BY <1>1
  <2>2. (m + Mod32) % Mod32 = m
    <3>. DEFINE q == (m + Mod32) \div Mod32
                r == (m + Mod32) % Mod32
    <3>1. q \in Nat /\ r \in 0 .. Mod32 - 1 /\ m + Mod32 = Mod32 * q + r
      BY <1>1
    <3>. HIDE DEF q, r
    <3>2. q = 1
      <4>1. q # 0
        BY <1>1, <3>1
      <4>2. q < 2
        <5>. SUFFICES ASSUME 2 <= q PROVE FALSE
          BY <3>1
        <5>1. Mod32 * 2 <= Mod32 * q
          BY <3>1
        <5>. QED BY <1>1, <3>1, <5>1
      <4>. QED BY <3>1, <4>1, <4>2
    <3>3. r = m
      BY <1>1, <3>1, <3>2
    <3>. QED BY <3>3 DEF r
  <2>. QED BY <2>1, <2>2
<1>. QED BY <1>1, <1>2, <1>3 DEF m

LEMMA ChunkIs ==
  ASSUME NEW c \in Chunk
  PROVE  LET u == ChunkUnits(c)
             n == c.blks * BlkUnits
         IN /\ u[1] = IF c.type = "RAW" THEN Raw(c.blks)
                      ELSE IF c.type = "FIL" THEN ChunkHeader("FIL", c.blks, 2 + c.first)
                      ELSE IF c.type = "CRC" THEN ChunkHeader("CRC", 0, 2)
                      ELSE ChunkHeader(c.type, c.blks, 1)
            /\ Len(u) = IF c.type = "RAW" THEN 1 + n ELSE IF c.type \in {"FIL", "CRC"} THEN 2 ELSE 1
            /\ c.type = "RAW" => \A j \in 1 .. n : u[1 + j] = Expansion(c)[j]
            /\ c.type = "FIL" => u[2] = FillUnit(1)
<1>. DEFINE u == ChunkUnits(c)
            n == c.blks * BlkUnits
            d == Blocks(c.first, c.blks)
<1>1. c.first \in Nat /\ c.blks \in Nat /\ n \in Nat
  BY Product DEF Chunk
<1>2. d \in Seq(Unit) /\ Len(d) = n
  BY <1>1, BlocksType
<1>3. CASE c.type = "RAW"
  <2>1. u = <<Raw(c.blks)>> \o d /\ Expansion(c) = d
    BY <1>3 DEF ChunkUnits, Expansion
  <2>2. Raw(c.blks) \in Unit
    BY <1>1, HeaderTypes
  <2>. HIDE DEF d, n
  <2>3. LET s == <<Raw(c.blks)>> \o d
        IN s[1] = Raw(c.blks) /\ Len(s) = 1 + Len(d) /\ \A j \in 1 .. Len(d) : s[1 + j] = d[j]
    BY <1>2, <2>2
  <2>4. /\ u[1] = Raw(c.blks) /\ Len(u) = 1 + n
        /\ \A j \in 1 .. n : u[1 + j] = Expansion(c)[j]
    BY <1>2, <2>1, <2>3
  <2>. QED BY <1>3, <2>4 DEF n
<1>4. CASE c.type = "FIL"
  <2>1. u = <<ChunkHeader("FIL", c.blks, 2 + c.first), FillUnit(1)>>
    BY <1>4 DEF ChunkUnits
  <2>. QED BY <1>4, <2>1
<1>5. CASE c.type = "CRC"
  <2>1. u = <<ChunkHeader("CRC", 0, 2), FillUnit(0)>>
    BY <1>5 DEF ChunkUnits
  <2>. QED BY <1>5, <2>1
<1>6. CASE c.type \notin {"RAW", "FIL", "CRC"}
  <2>1. u = <<ChunkHeader(c.type, c.blks, 1)>>
    BY <1>6 DEF ChunkUnits
  <2>. QED BY <1>6, <2>1
<1>. QED BY <1>3, <1>4, <1>5, <1>6

LEMMA ChunkStands ==
  ASSUME NEW cs \in Seq(Chunk), NEW J, Joins(J, Parts(cs), Unit), NEW k \in 1 .. Len(cs)
  PROVE  /\ J[k - 1] \in Seq(Unit) /\ Len(J[k - 1]) \in Nat
         /\ Len(J[k]) = Len(J[k - 1]) + Len(ChunkUnits(cs[k]))
         /\ \A j \in 1 .. Len(ChunkUnits(cs[k])) :
              ReadUnit(LayOut(cs), Len(J[k - 1]) + j) = ChunkUnits(cs[k])[j]
<1>. DEFINE u == ChunkUnits(cs[k])
            a == Len(J[k - 1])
            b == Body(cs)
            f == LayOut(cs)
<1>1. /\ Parts(cs) \in Seq(Seq(Unit)) /\ Len(Parts(cs)) = Len(cs)
      /\ b = FlattenSeq(Parts(cs)) /\ b \in Seq(Unit) /\ Parts(cs)[k] = u
  BY PartsType
<1>2. k \in 1 .. Len(Parts(cs))
  BY <1>1
<1>3. /\ J[k - 1] \in Seq(Unit) /\ Parts(cs)[k] \in Seq(Unit)
      /\ Len(J[k]) = a + Len(Parts(cs)[k])
      /\ Len(J[k]) <= Len(FlattenSeq(Parts(cs)))
      /\ \A j \in 1 .. Len(Parts(cs)[k]) : FlattenSeq(Parts(cs))[a + j] = Parts(cs)[k][j]
  <2>. DEFINE p == Parts(cs)
  <2>1. p \in Seq(Seq(Unit)) /\ Joins(J, p, Unit) /\ k \in 1 .. Len(p)
    BY <1>1, <1>2
  <2>. HIDE DEF p, a, u, b, f
  <2>2. /\ J[k - 1] \in Seq(Unit) /\ p[k] \in Seq(Unit) /\ J[k] = J[k - 1] \o p[k]
        /\ Len(J[k]) = Len(J[k - 1]) + Len(p[k])
        /\ Len(J[k]) <= Len(FlattenSeq(p))
        /\ \A j \in 1 .. Len(p[k]) : FlattenSeq(p)[Len(J[k - 1]) + j] = p[k][j]
    <3>1. Joined(J, p, Unit, k)
      BY <2>1, JoinHolds
    <3>. QED BY <3>1, Zenon DEF Joined
  <2>. QED BY <2>2, Zenon DEF p, a
<1>4. /\ u \in Seq(Unit) /\ Len(J[k]) = a + Len(u) /\ Len(J[k]) <= Len(b)
      /\ \A j \in 1 .. Len(u) : b[a + j] = u[j]
  BY <1>1, <1>3, Zenon
<1>5. a \in Nat /\ Len(u) \in Nat /\ Len(b) \in Nat
  BY <1>1, <1>3, <1>4
<1>6. /\ f \in Seq(Unit) /\ Len(f) = 1 + Len(b)
      /\ \A i \in 1 .. Len(b) : f[1 + i] = b[i]
  BY LayOutIs
<1>. DEFINE l == Len(b)
            e == Len(J[k])
            m == Len(u)
<1>7. e = a + m /\ e <= l /\ a \in Nat /\ m \in Nat /\ l \in Nat /\ Len(f) = 1 + l
  BY <1>4, <1>5, <1>6
<1>8. (\A j \in 1 .. m : b[a + j] = u[j]) /\ \A i \in 1 .. l : f[1 + i] = b[i]
  BY <1>4, <1>6
<1>. HIDE DEF a, b, f, u, l, e, m
<1>9. \A j \in 1 .. m : ReadUnit(f, a + j) = u[j]
  <2>. TAKE j \in 1 .. m
  <2>1. a + j \in 1 .. l /\ a + j < Len(f) /\ (a + j) + 1 = 1 + (a + j)
    BY <1>7
  <2>2. ReadUnit(f, a + j) = f[1 + (a + j)]
    BY <2>1 DEF ReadUnit, UnitAt
  <2>. QED BY <1>8, <2>1, <2>2
<1>. QED BY <1>3, <1>7, <1>9 DEF a, b, f, u, l, e, m

LEMMA HeadIs ==
  ASSUME NEW cs \in Seq(Chunk), NEW J, Joins(J, Parts(cs), Unit), NEW k \in 1 .. Len(cs),
         Fits(cs[k].blks)
  PROVE  LET c == cs[k]
             at == 1 + Len(J[k - 1])
             n == c.blks * BlkUnits
             h == ReadUnit(LayOut(cs), at)
         IN /\ c \in Chunk /\ n \in Nat /\ at \in Nat /\ h \in Unit
            /\ h.is = c.type /\ (c.type # "CRC" => h.n = c.blks)
            /\ h.sz = IF c.type = "RAW" THEN n + 1 ELSE IF c.type = "FIL" THEN 2 + c.first
                      ELSE IF c.type = "CRC" THEN 2 ELSE 1
            /\ (c.type = "FIL" => c.first = 0) => at + h.sz = 1 + Len(J[k])
            /\ c.type = "RAW" => \A u \in 1 .. n : ReadUnit(LayOut(cs), at + u) = Expansion(c)[u]
            /\ c.type = "FIL" => ReadUnit(LayOut(cs), at + 1) = FillUnit(1)
<1>. DEFINE c == cs[k]
            a == Len(J[k - 1])
            n == c.blks * BlkUnits
            f == LayOut(cs)
            h == ReadUnit(f, 1 + a)
            u == ChunkUnits(c)
<1>1. c \in Chunk /\ c.type \in ChunkTypes /\ c.first \in Nat /\ c.blks \in Nat
  <2>1. c \in Chunk
    OBVIOUS
  <2>. HIDE DEF c
  <2>. QED BY <2>1 DEF Chunk
<1>2. n \in Nat /\ (n + 1) % Mod32 = n + 1
  BY <1>1, FitsIs
<1>3. /\ a \in Nat /\ Len(J[k]) = a + Len(u)
      /\ \A j \in 1 .. Len(u) : ReadUnit(f, a + j) = u[j]
  <2>1. a \in Nat
    BY ChunkStands, Zenon
  <2>2. Len(J[k]) = a + Len(u)
    BY ChunkStands, Zenon
  <2>3. \A j \in 1 .. Len(u) : ReadUnit(f, a + j) = u[j]
    BY ChunkStands, Zenon
  <2>. QED BY <2>1, <2>2, <2>3, Zenon
<1>4. /\ u[1] = IF c.type = "RAW" THEN Raw(c.blks)
                ELSE IF c.type = "FIL" THEN ChunkHeader("FIL", c.blks, 2 + c.first)
                ELSE IF c.type = "CRC" THEN ChunkHeader("CRC", 0, 2)
                ELSE ChunkHeader(c.type, c.blks, 1)
      /\ Len(u) = IF c.type = "RAW" THEN 1 + n ELSE IF c.type \in {"FIL", "CRC"} THEN 2 ELSE 1
      /\ c.type = "RAW" => \A j \in 1 .. n : u[1 + j] = Expansion(c)[j]
      /\ c.type = "FIL" => u[2] = FillUnit(1)
  BY <1>1, ChunkIs
<1>5. Raw(c.blks) = ChunkHeader("RAW", c.blks, n + 1)
  BY <1>2 DEF Raw
<1>6. \A type, b, s : /\ ChunkHeader(type, b, s).is = type /\ ChunkHeader(type, b, s).n = b
                      /\ ChunkHeader(type, b, s).sz = s
  BY DEF ChunkHeader
<1>. DEFINE e == Len(J[k])
            m == Len(u)
<1>7. e = a + m /\ a \in Nat /\ m = IF c.type = "RAW" THEN 1 + n
                                    ELSE IF c.type \in {"FIL", "CRC"} THEN 2 ELSE 1
  BY <1>3, <1>4
<1>8. \A j \in 1 .. m : ReadUnit(f, a + j) = u[j]
  BY <1>3
<1>. HIDE DEF a, e, m, n, f, c, u
<1>9. h = u[1]
  <2>1. 1 \in 1 .. m /\ 1 + a = a + 1
    BY <1>2, <1>7
  <2>. QED BY <1>8, <2>1
<1>10. h = IF c.type = "RAW" THEN ChunkHeader("RAW", c.blks, n + 1)
           ELSE IF c.type = "FIL" THEN ChunkHeader("FIL", c.blks, 2 + c.first)
           ELSE IF c.type = "CRC" THEN ChunkHeader("CRC", 0, 2)
           ELSE ChunkHeader(c.type, c.blks, 1)
  BY <1>4, <1>5, <1>9
<1>11. /\ h.is = c.type /\ (c.type # "CRC" => h.n = c.blks)
       /\ h.sz = IF c.type = "RAW" THEN n + 1 ELSE IF c.type = "FIL" THEN 2 + c.first
                 ELSE IF c.type = "CRC" THEN 2 ELSE 1
  <2>. HIDE DEF h
  <2>. QED BY <1>6, <1>10
<1>12. h \in Unit
  <2>1. f \in Seq(Unit) /\ 1 + a \in Nat
    BY <1>7, LayOutIs DEF f
  <2>. QED BY <2>1, ReadType
<1>. DEFINE z == h.sz
<1>13. (c.type = "FIL" => c.first = 0) => (1 + a) + z = 1 + e
  <2>1. z = IF c.type = "RAW" THEN n + 1 ELSE IF c.type = "FIL" THEN 2 + c.first
            ELSE IF c.type = "CRC" THEN 2 ELSE 1
    BY <1>11
  <2>. HIDE DEF z
  <2>2. CASE c.type = "RAW"
    BY <1>2, <1>7, <2>1, <2>2
  <2>3. CASE c.type = "FIL"
    BY <1>7, <2>1, <2>3
  <2>4. CASE c.type \notin {"RAW", "FIL"}
    BY <1>7, <2>1, <2>4
  <2>. QED BY <2>2, <2>3, <2>4
<1>14. c.type = "RAW" => \A w \in 1 .. n : ReadUnit(f, (1 + a) + w) = Expansion(c)[w]
  <2>. HAVE c.type = "RAW"
  <2>. TAKE w \in 1 .. n
  <2>1. (1 + a) + w = a + (1 + w) /\ 1 + w \in 1 .. m
    BY <1>2, <1>7
  <2>. QED BY <1>4, <1>8, <2>1
<1>15. c.type = "FIL" => ReadUnit(f, (1 + a) + 1) = FillUnit(1)
  <2>. HAVE c.type = "FIL"
  <2>1. (1 + a) + 1 = a + 2 /\ 2 \in 1 .. m
    BY <1>7
  <2>. QED BY <1>4, <1>8, <2>1
<1>16. 1 + a \in Nat
  BY <1>7
<1>. QED BY <1>1, <1>2, <1>11, <1>12, <1>13, <1>14, <1>15, <1>16, Zenon DEF a, e, m, n, f, c, u, h, z

-----------------------------------------------------------------------------
LEMMA Associate ==
  ASSUME NEW S, NEW s \in Seq(S), NEW t \in Seq(S), NEW u \in Seq(S)
  PROVE  (s \o t) \o u = s \o (t \o u)
OBVIOUS

Gap(n) == [type |-> "---", first |-> 0, blks |-> n]
Run(s, n) == [type |-> "RAW", first |-> s, blks |-> n]
Alternate(cs) ==
  /\ \A i \in 1 .. Len(cs) : cs[i].type \in {"RAW", "---"} /\ cs[i].blks \in Nat \ {0}
  /\ \A i \in 1 .. Len(cs) - 1 : cs[i].type # cs[i + 1].type
AllFit(cs) == \A i \in 1 .. Len(cs) : Fits(cs[i].blks)
Behind(cs) == IF cs = <<>> THEN <<>> ELSE <<Zero>> \o Body(cs)

LEMMA WriteNext ==
  ASSUME NEW cs \in Seq(Chunk), NEW u \in Seq(Unit)
  PROVE  Write(Behind(cs), 1 + Len(Body(cs)), u) = <<Zero>> \o (Body(cs) \o u)
<1>1. CASE cs = <<>>
  <2>1. Behind(cs) = <<>> /\ Body(cs) = <<>>
    BY <1>1, NoChunks DEF Behind
  <2>2. 1 + Len(Body(cs)) = 1 /\ Body(cs) \o u = u
    BY <2>1
  <2>. QED BY <2>1, <2>2, WriteBehind
<1>2. CASE cs # <<>>
  <2>. DEFINE b == Body(cs)
              f == <<Zero>> \o b
  <2>1. Behind(cs) = f /\ b \in Seq(Unit) /\ Zero \in Unit
    BY <1>2, PartsType, UnitsAre DEF Behind
  <2>. HIDE DEF b
  <2>2. f \in Seq(Unit) /\ Len(f) = 1 + Len(b) /\ <<Zero>> \in Seq(Unit)
    BY <2>1
  <2>3. f \o u = <<Zero>> \o (b \o u)
    BY <2>1, <2>2, Associate
  <2>. HIDE DEF f
  <2>4. Write(f, Len(f), u) = f \o u
    BY <2>2, WriteBehind
  <2>. QED BY <2>1, <2>2, <2>3, <2>4 DEF b
<1>. QED BY <1>1, <1>2

LEMMA WriteHeader ==
  ASSUME NEW b \in Seq(Unit), NEW h \in Unit
  PROVE  Write(<<Zero>> \o b, 0, <<h>>) = <<h>> \o b
<1>. DEFINE f == <<Zero>> \o b
            g == <<h>> \o b
            u == <<h>>
            w == Write(f, 0, u)
            l == Len(b)
<1>1. l \in Nat /\ f \in Seq(Unit) /\ Len(f) = 1 + l /\ \A i \in 1 .. l : f[1 + i] = b[i]
  BY UnitsAre
<1>2. g \in Seq(Unit) /\ Len(g) = 1 + l /\ g[1] = h /\ \A i \in 1 .. l : g[1 + i] = b[i]
  OBVIOUS
<1>3. u \in Seq(Unit) /\ Len(u) = 1 /\ u[1] = h /\ 0 \in Nat
  OBVIOUS
<1>. HIDE DEF f, g, u, l
<1>4. w \in Seq(Unit) /\ IsWritten(w, f, 0, u, Zero)
  BY <1>1, <1>3, WriteIs
<1>. HIDE DEF w
<1>5. Len(w) = 1 + l
  BY <1>1, <1>3, <1>4 DEF IsWritten
<1>6. ASSUME NEW i \in 1 .. Len(w) PROVE w[i] = g[i]
  <2>0. w[i] = IF 0 < i /\ i <= 0 + Len(u) THEN u[i - 0]
               ELSE IF i <= Len(f) THEN f[i] ELSE Zero
    BY <1>4 DEF IsWritten
  <2>1. CASE i = 1
    BY <1>2, <1>3, <2>0, <2>1
  <2>2. CASE i # 1
    <3>1. i - 1 \in 1 .. l /\ 1 + (i - 1) = i
      BY <1>1, <1>5, <2>2
    <3>2. w[i] = f[i]
      BY <1>1, <1>3, <1>5, <2>0, <2>2
    <3>3. f[1 + (i - 1)] = b[i - 1] /\ g[1 + (i - 1)] = b[i - 1]
      BY <1>1, <1>2, <3>1
    <3>. QED BY <3>1, <3>2, <3>3
  <2>. QED BY <2>1, <2>2
<1>7. w = g
  BY <1>2, <1>4, <1>5, <1>6, SameSequence
<1>. QED BY <1>7 DEF w, g, f, u

LEMMA ListGrows ==
  ASSUME NEW cs \in Seq(Chunk), NEW c \in Chunk, Alternate(cs), c.type \in {"RAW", "---"},
         c.blks # 0, cs = <<>> \/ cs[Len(cs)].type # c.type
  PROVE  /\ Append(cs, c) \in Seq(Chunk) /\ Append(cs, c) # <<>>
         /\ Len(Append(cs, c)) = Len(cs) + 1 /\ Append(cs, c)[Len(cs) + 1] = c
         /\ Alternate(Append(cs, c))
         /\ AllFit(cs) /\ Fits(c.blks) => AllFit(Append(cs, c))
<1>. DEFINE d == Append(cs, c)
            n == Len(cs)
<1>1. /\ n \in Nat /\ d \in Seq(Chunk) /\ Len(d) = n + 1 /\ d[n + 1] = c /\ d # <<>>
      /\ \A i \in 1 .. n : d[i] = cs[i]
  <2>1. /\ n \in Nat /\ d \in Seq(Chunk) /\ Len(d) = n + 1 /\ d[n + 1] = c
        /\ \A i \in 1 .. n : d[i] = cs[i]
    OBVIOUS
  <2>. HIDE DEF d, n
  <2>2. d # <<>>
    BY <2>1
  <2>. QED BY <2>1, <2>2
<1>2. n # 0 => cs[n].type # c.type
  <2>1. n # 0 => cs # <<>>
    OBVIOUS
  <2>. QED BY <2>1, Zenon
<1>3. /\ \A i \in 1 .. n : cs[i].type \in {"RAW", "---"} /\ cs[i].blks \in Nat \ {0}
      /\ \A i \in 1 .. n - 1 : cs[i].type # cs[i + 1].type
  BY DEF Alternate
<1>4. c.blks \in Nat \ {0}
  BY DEF Chunk
<1>5. AllFit(cs) => \A i \in 1 .. n : Fits(cs[i].blks)
  BY DEF AllFit
<1>. HIDE DEF d, n
<1>6. \A i \in 1 .. n + 1 : i \in 1 .. n \/ i = n + 1
  BY <1>1
<1>7. \A i \in 1 .. n + 1 : d[i].type \in {"RAW", "---"} /\ d[i].blks \in Nat \ {0}
  BY <1>1, <1>3, <1>4, <1>6
<1>8. \A i \in 1 .. n : d[i].type # d[i + 1].type
  <2>. TAKE i \in 1 .. n
  <2>1. CASE i = n
    BY <1>1, <1>2, <2>1
  <2>2. CASE i # n
    <3>1. i \in 1 .. n - 1 /\ i + 1 \in 1 .. n
      BY <1>1, <2>2
    <3>. QED BY <1>1, <1>3, <3>1
  <2>. QED BY <2>1, <2>2
<1>9. Alternate(d)
  <2>1. (n + 1) - 1 = n
    BY <1>1
  <2>. QED BY <1>1, <1>7, <1>8, <2>1 DEF Alternate
<1>10. AllFit(cs) /\ Fits(c.blks) => AllFit(d)
  BY <1>1, <1>5, <1>6 DEF AllFit
<1>. QED BY <1>1, <1>9, <1>10 DEF d, n

LEMMA RunFits ==
  ASSUME NEW a \in Nat, NEW z \in Nat, a < z, z <= TotalBlks, foreign = <<>>, BelowLimit,
         \/ /\ \A b \in a .. z - 1 : b \in added
            /\ a > 0 => a - 1 \notin added
            /\ z < TotalBlks => z \notin added
         \/ /\ \A b \in a .. z - 1 : b \notin added
            /\ a > 0 => a - 1 \in added
            /\ z < TotalBlks => z \in added
  PROVE  Fits(z - a)
<1>. DEFINE r == <<a, z - 1>>
<1>1. r \in Block \X Block /\ r[1] = a /\ r[2] = z - 1 /\ a \in a .. z - 1 /\ (z - 1) + 1 = z
  BY DEF Block
<1>2. r[1] <= r[2] /\ r[2] - r[1] + 1 = z - a
  BY <1>1
<1>3. \A b \in a .. z - 1 : (b \in added) = (a \in added)
  <2>. TAKE b \in a .. z - 1
  <2>1. b \in added <=> a \in added
    BY <1>1, Zenon
  <2>. QED BY <2>1
<1>4. a > 0 => (a - 1 \in added) # (a \in added)
  BY <1>1, Zenon
<1>5. z - 1 < TotalBlks - 1 => (z \in added) # (a \in added)
  <2>1. z - 1 < TotalBlks - 1 => z < TotalBlks
    OBVIOUS
  <2>. QED BY <1>1, <2>1, Zenon
<1>. HIDE DEF r
<1>6. r \in Runs
  <2>1. \A b \in r[1] .. r[2] : (b \in added) = (r[1] \in added)
    BY <1>1, <1>3
  <2>2. r[1] > 0 => (r[1] - 1 \in added) # (r[1] \in added)
    BY <1>1, <1>4
  <2>3. r[2] < TotalBlks - 1 => (r[2] + 1 \in added) # (r[1] \in added)
    BY <1>1, <1>5
  <2>4. r[2] < TotalBlks - 1 => (r[2] + 1 \in added) # (r[2] \in added)
    <3>1. r[2] \in r[1] .. r[2]
      BY <1>1
    <3>. QED BY <2>1, <2>3, <3>1, Zenon
  <2>. QED BY <1>1, <1>2, <2>1, <2>2, <2>4, Zenon DEF Runs
<1>7. \A x \in Runs : Fits(x[2] - x[1] + 1)
  BY Zenon DEF BelowLimit
<1>. QED BY <1>2, <1>6, <1>7, Zenon

(* A list of chunks that stands for the first n blocks.                    *)
Lists(cs, n) == /\ cs \in Seq(Chunk) /\ Means(cs) = Image(n) /\ Alternate(cs)
                /\ BelowLimit => AllFit(cs)

LEMMA AddGap ==
  ASSUME NEW cs, NEW a \in Nat, NEW z \in Nat, a < z, z <= TotalBlks, foreign = <<>>,
         Lists(cs, a), cs = <<>> \/ cs[Len(cs)].type = "RAW",
         \A b \in a .. z - 1 : b \notin added,
         a > 0 => a - 1 \in added, z < TotalBlks => z \in added
  PROVE  LET ds == Append(cs, Gap(z - a))
         IN /\ Lists(ds, z) /\ Len(ds) = Len(cs) + 1 /\ ds[Len(ds)].type = "---"
            /\ Body(ds) = Body(cs) \o <<DontCare(z - a)>>
<1>. DEFINE c == Gap(z - a)
            ds == Append(cs, c)
<1>1. cs \in Seq(Chunk) /\ Means(cs) = Image(a) /\ Alternate(cs) /\ (BelowLimit => AllFit(cs))
  BY DEF Lists
<1>2. c \in Chunk /\ c.type = "---" /\ c.blks = z - a /\ c.blks # 0
  BY DEF Gap, Chunk, ChunkTypes
<1>3. ChunkUnits(c) = <<DontCare(z - a)>> /\ Expansion(c) = Zeros((z - a) * BlkUnits)
  BY <1>2 DEF ChunkUnits, Expansion, DontCare
<1>4. c.type \in {"RAW", "---"} /\ (cs = <<>> \/ cs[Len(cs)].type # c.type)
  BY <1>2
<1>. HIDE DEF c
<1>5. /\ ds \in Seq(Chunk) /\ Len(ds) = Len(cs) + 1 /\ ds[Len(cs) + 1] = c /\ Alternate(ds)
      /\ AllFit(cs) /\ Fits(c.blks) => AllFit(ds)
  BY <1>1, <1>2, <1>4, ListGrows
<1>6. Body(ds) = Body(cs) \o ChunkUnits(c) /\ Means(ds) = Means(cs) \o Expansion(c)
  BY <1>1, <1>2, ChunkAppended
<1>7. Image(z) = Image(a) \o Zeros((z - a) * BlkUnits)
  <2>1. z - a \in Nat /\ a + (z - a) = z
    OBVIOUS
  <2>2. \A b \in a .. a + (z - a) - 1 : b \notin added
    BY <2>1
  <2>3. Image(a + (z - a)) = Image(a) \o Zeros((z - a) * BlkUnits)
    BY <2>1, <2>2, ImageGrows
  <2>. QED BY <2>1, <2>3
<1>8. BelowLimit => Fits(c.blks)
  <2>1. BelowLimit => Fits(z - a)
    BY RunFits
  <2>. QED BY <1>2, <2>1
<1>. HIDE DEF ds
<1>9. Lists(ds, z)
  BY <1>1, <1>3, <1>5, <1>6, <1>7, <1>8 DEF Lists
<1>10. ds[Len(ds)].type = "---"
  BY <1>2, <1>5
<1>. QED BY <1>3, <1>5, <1>6, <1>9, <1>10 DEF ds, c

LEMMA AddRun ==
  ASSUME NEW cs, NEW a \in Nat, NEW z \in Nat, a < z, z <= TotalBlks, foreign = <<>>,
         Lists(cs, a), cs = <<>> \/ cs[Len(cs)].type = "---",
         \A b \in a .. z - 1 : b \in added,
         a > 0 => a - 1 \notin added, z < TotalBlks => z \notin added
  PROVE  LET ds == Append(cs, Run(a, z - a))
         IN /\ Lists(ds, z) /\ Len(ds) = Len(cs) + 1 /\ ds[Len(ds)].type = "RAW"
            /\ Body(ds) = Body(cs) \o (<<Raw(z - a)>> \o Blocks(a, z - a))
<1>. DEFINE c == Run(a, z - a)
            ds == Append(cs, c)
<1>1. cs \in Seq(Chunk) /\ Means(cs) = Image(a) /\ Alternate(cs) /\ (BelowLimit => AllFit(cs))
  BY DEF Lists
<1>2. c \in Chunk /\ c.type = "RAW" /\ c.blks = z - a /\ c.blks # 0 /\ c.first = a
  BY DEF Run, Chunk, ChunkTypes
<1>3. ChunkUnits(c) = <<Raw(z - a)>> \o Blocks(a, z - a) /\ Expansion(c) = Blocks(a, z - a)
  BY <1>2 DEF ChunkUnits, Expansion
<1>4. c.type \in {"RAW", "---"} /\ (cs = <<>> \/ cs[Len(cs)].type # c.type)
  BY <1>2
<1>. HIDE DEF c
<1>5. /\ ds \in Seq(Chunk) /\ Len(ds) = Len(cs) + 1 /\ ds[Len(cs) + 1] = c /\ Alternate(ds)
      /\ AllFit(cs) /\ Fits(c.blks) => AllFit(ds)
  BY <1>1, <1>2, <1>4, ListGrows
<1>6. Body(ds) = Body(cs) \o ChunkUnits(c) /\ Means(ds) = Means(cs) \o Expansion(c)
  BY <1>1, <1>2, ChunkAppended
<1>7. Image(z) = Image(a) \o Blocks(a, z - a)
  <2>1. z - a \in Nat /\ a + (z - a) = z
    OBVIOUS
  <2>2. \A b \in a .. a + (z - a) - 1 : b \in added
    BY <2>1
  <2>3. Image(a + (z - a)) = Image(a) \o Blocks(a, z - a)
    BY <2>1, <2>2, ImageGrows
  <2>. QED BY <2>1, <2>3
<1>8. BelowLimit => Fits(c.blks)
  <2>1. BelowLimit => Fits(z - a)
    BY RunFits
  <2>. QED BY <1>2, <2>1
<1>. HIDE DEF ds
<1>9. Lists(ds, z)
  BY <1>1, <1>3, <1>5, <1>6, <1>7, <1>8 DEF Lists
<1>10. ds[Len(ds)].type = "RAW"
  BY <1>2, <1>5
<1>. QED BY <1>3, <1>5, <1>6, <1>9, <1>10 DEF ds, c

(* What android_sparse_finish has written: a list of chunks for the first  *)
(* blk blocks, behind a place left for the header of the file.             *)
Writing(cs) ==
  /\ Lists(cs, blk) /\ img = Behind(cs) /\ offset = 1 + Len(Body(cs)) /\ total_chunks = Len(cs)
  /\ IF blk = 0 THEN cs = <<>> ELSE cs # <<>> /\ cs[Len(cs)].type = "RAW"

LEMMA SameImage ==
  ASSUME added' = added, foreign' = foreign
  PROVE  /\ BelowLimit' <=> BelowLimit
         /\ Meaning' = Meaning
         /\ \A cs, n : n = blk' /\ Lists(cs, n) => Lists(cs, blk)'
<1>1. BelowLimit' <=> BelowLimit
  BY DEF BelowLimit, Runs
<1>2. Meaning' = Meaning
  BY DEF Meaning
<1>3. ASSUME NEW cs, NEW n, n = blk', Lists(cs, n) PROVE Lists(cs, blk)'
  <2>1. Image(blk)' = Image(n)
    BY <1>3 DEF Image, ImageUnit
  <2>. QED BY <1>1, <1>3, <2>1, Zenon DEF Lists
<1>. QED BY <1>1, <1>2, <1>3

(* One run more, with the gap before it.                                   *)
LEMMA RunWritten ==
  ASSUME BitsInv, pc = "write", foreign = <<>>, it.start >= 0, NEW cs, Writing(cs)
  PROVE  LET gap == blk # it.start
             units == HeaderUnits(gap) \o Blocks(it.start, it.bits)
         IN \E ds : /\ Lists(ds, it.start + it.bits) /\ ds # <<>> /\ ds[Len(ds)].type = "RAW"
                    /\ Len(ds) = Len(cs) + Len(HeaderUnits(gap))
                    /\ Body(ds) = Body(cs) \o units
<1>. DEFINE s == it.start
            n == it.bits
            z == s + n
            gap == blk # s
            b == Blocks(s, n)
<1>1. /\ s \in blk .. TotalBlks - 1 /\ n \in 1 .. TotalBlks - s
      /\ \A i \in blk .. s - 1 : i \notin added
      /\ \A i \in s .. z - 1 : i \in added
      /\ z < TotalBlks => z \notin added
  BY DEF BitsInv, IsRun
<1>2. blk \in Nat /\ s \in Nat /\ z \in Nat /\ s < z /\ z <= TotalBlks /\ z - s = n
  <2>1. blk \in Nat
    BY DEF BitsInv
  <2>. QED BY <1>1, <2>1
<1>3. blk > 0 => blk - 1 \in added /\ blk \notin added
  BY DEF BitsInv, AfterRun
<1>4. Lists(cs, blk) /\ cs \in Seq(Chunk)
  BY DEF Writing, Lists
<1>5. b \in Seq(Unit) /\ Body(cs) \in Seq(Unit) /\ Raw(n) \in Unit
  <2>1. n \in Nat
    BY <1>1
  <2>. QED BY <1>2, <1>4, <2>1, BlocksType, PartsType, HeaderTypes
<1>6. s \in added
  BY <1>1, <1>2
<1>7. CASE gap
  <2>. DEFINE g == s - blk
              ls == Append(cs, Gap(g))
              ds == Append(ls, Run(s, n))
  <2>0. blk < s /\ s <= TotalBlks
    BY <1>1, <1>2, <1>7
  <2>1. cs = <<>> \/ cs[Len(cs)].type = "RAW"
    BY DEF Writing
  <2>2. /\ Lists(ls, s) /\ Len(ls) = Len(cs) + 1 /\ ls[Len(ls)].type = "---"
        /\ Body(ls) = Body(cs) \o <<DontCare(g)>>
    <3>1. \A i \in blk .. s - 1 : i \notin added
      BY <1>1
    <3>. QED BY <1>2, <1>3, <1>4, <1>6, <2>0, <2>1, <3>1, AddGap
  <2>3. s - 1 \notin added
    <3>1. s - 1 \in blk .. s - 1
      BY <1>2, <2>0
    <3>. QED BY <1>1, <3>1
  <2>. HIDE DEF ls
  <2>4. /\ Lists(ds, z) /\ Len(ds) = Len(ls) + 1 /\ ds[Len(ds)].type = "RAW"
        /\ Body(ds) = Body(ls) \o (<<Raw(n)>> \o b)
    <3>1. \A i \in s .. z - 1 : i \in added
      BY <1>1
    <3>2. s > 0 => s - 1 \notin added
      BY <2>3
    <3>3. z < TotalBlks => z \notin added
      BY <1>1
    <3>4. ls = <<>> \/ ls[Len(ls)].type = "---"
      BY <2>2
    <3>5. s \in Nat /\ z \in Nat /\ s < z /\ z <= TotalBlks /\ z - s = n
      BY <1>2
    <3>. HIDE DEF s, z, n
    <3>6. Lists(ls, s)
      BY <2>2
    <3>7. LET l == Append(ls, Run(s, z - s))
          IN /\ Lists(l, z) /\ Len(l) = Len(ls) + 1 /\ l[Len(l)].type = "RAW"
             /\ Body(l) = Body(ls) \o (<<Raw(z - s)>> \o Blocks(s, z - s))
      BY <3>1, <3>2, <3>3, <3>4, <3>5, <3>6, AddRun
    <3>. QED BY <3>5, <3>7, Zenon
  <2>5. HeaderUnits(gap) = <<DontCare(g), Raw(n)>> /\ Len(HeaderUnits(gap)) = 2
    BY <1>7 DEF HeaderUnits
  <2>6. DontCare(g) \in Unit
    <3>1. g \in Nat
      BY <1>2, <2>0
    <3>. QED BY <3>1, HeaderTypes
  <2>7. Body(ds) = Body(cs) \o (HeaderUnits(gap) \o b)
    <3>. DEFINE x == DontCare(g)
                y == Raw(n)
                t == Body(cs)
    <3>1. x \in Unit /\ y \in Unit /\ t \in Seq(Unit) /\ b \in Seq(Unit)
      BY <1>5, <2>6
    <3>2. Body(ds) = (t \o <<x>>) \o (<<y>> \o b) /\ HeaderUnits(gap) = <<x, y>>
      BY <2>2, <2>4, <2>5, Zenon
    <3>. HIDE DEF x, y, t, b
    <3>3. <<x>> \in Seq(Unit) /\ <<y>> \in Seq(Unit) /\ <<x, y>> = <<x>> \o <<y>>
          /\ <<y>> \o b \in Seq(Unit)
      <4>1. <<x>> \in Seq(Unit) /\ <<y>> \in Seq(Unit)
        BY <3>1
      <4>2. <<x, y>> = <<x>> \o <<y>>
        <5>. DEFINE p == <<x>> \o <<y>>
                    q == <<x, y>>
        <5>1. p \in Seq(Unit) /\ Len(p) = 2 /\ p[1] = x /\ p[2] = y
          BY <3>1, <4>1
        <5>2. q \in Seq(Unit) /\ Len(q) = 2 /\ q[1] = x /\ q[2] = y
          BY <3>1
        <5>. HIDE DEF p, q
        <5>3. \A i \in 1 .. 2 : q[i] = p[i]
          <6>1. \A i \in 1 .. 2 : i = 1 \/ i = 2
            OBVIOUS
          <6>. QED BY <5>1, <5>2, <6>1
        <5>4. q = p
          BY <5>1, <5>2, <5>3, SameSequence
        <5>. QED BY <5>4 DEF p, q
      <4>3. <<y>> \o b \in Seq(Unit)
        BY <3>1, <4>1
      <4>. QED BY <4>1, <4>2, <4>3
    <3>4. (t \o <<x>>) \o (<<y>> \o b) = t \o (<<x>> \o (<<y>> \o b))
      BY <3>1, <3>3, Associate
    <3>5. (<<x>> \o <<y>>) \o b = <<x>> \o (<<y>> \o b)
      BY <3>1, <3>3, Associate
    <3>6. Body(ds) = t \o (HeaderUnits(gap) \o b)
      BY <3>2, <3>3, <3>4, <3>5, Zenon
    <3>. QED BY <3>6, Zenon DEF t
  <2>8. ds # <<>> /\ Len(ds) = Len(cs) + Len(HeaderUnits(gap))
    <3>. DEFINE h == Len(HeaderUnits(gap))
                m == Len(cs)
    <3>1. Len(ds) = (m + 1) + 1 /\ m \in Nat /\ h = 2 /\ Len(<<>>) = 0
      BY <1>4, <2>2, <2>4, <2>5
    <3>. HIDE DEF ds, h, m
    <3>2. Len(ds) = m + h /\ Len(ds) # 0
      BY <3>1
    <3>. QED BY <3>1, <3>2, Zenon DEF h, m
  <2>. HIDE DEF ds
  <2>. QED BY <2>4, <2>7, <2>8
<1>8. CASE ~gap
  <2>. DEFINE ds == Append(cs, Run(s, n))
  <2>1. blk = s /\ blk = 0 /\ cs = <<>>
    <3>1. blk = s
      BY <1>8
    <3>2. blk = 0
      BY <1>2, <1>3, <1>6, <3>1
    <3>. QED BY <3>1, <3>2 DEF Writing
  <2>2. /\ Lists(ds, z) /\ Len(ds) = Len(cs) + 1 /\ ds[Len(ds)].type = "RAW"
        /\ Body(ds) = Body(cs) \o (<<Raw(n)>> \o b)
    <3>1. \A i \in s .. z - 1 : i \in added
      BY <1>1
    <3>2. s > 0 => s - 1 \notin added
      BY <2>1
    <3>3. z < TotalBlks => z \notin added
      BY <1>1
    <3>4. Lists(cs, s) /\ (cs = <<>> \/ cs[Len(cs)].type = "---")
      BY <1>4, <2>1
    <3>. HIDE DEF s, z, n
    <3>. QED BY <1>2, <3>1, <3>2, <3>3, <3>4, AddRun
  <2>3. HeaderUnits(gap) = <<Raw(n)>> /\ Len(HeaderUnits(gap)) = 1
    BY <1>8 DEF HeaderUnits
  <2>4. Body(ds) = Body(cs) \o (HeaderUnits(gap) \o b)
    BY <2>2, <2>3, Zenon
  <2>5. ds # <<>> /\ Len(ds) = Len(cs) + Len(HeaderUnits(gap))
    <3>. DEFINE h == Len(HeaderUnits(gap))
                m == Len(cs)
    <3>1. Len(ds) = m + 1 /\ m \in Nat /\ h = 1 /\ Len(<<>>) = 0
      BY <1>4, <2>2, <2>3
    <3>. HIDE DEF ds, h, m
    <3>2. Len(ds) = m + h /\ Len(ds) # 0
      BY <3>1
    <3>. QED BY <3>1, <3>2, Zenon DEF h, m
  <2>. HIDE DEF ds
  <2>. QED BY <2>2, <2>4, <2>5
<1>. QED BY <1>7, <1>8

(* The list of chunks that the image is.                                   *)
Stands(cs) ==
  /\ cs \in Seq(Chunk) /\ img = LayOut(cs) /\ Means(cs) = Meaning
  /\ BelowLimit => AllFit(cs)
  /\ foreign = <<>> => Alternate(cs)

BuildInv ==
  /\ pc \in {"add", "write", "built"} =>
       offset_in = 1 /\ offset_out = 0 /\ chunk = 0 /\ out = <<>>
  /\ pc \in {"add", "write"} => foreign = <<>>
  /\ pc = "add" => img = <<>> /\ offset = 1 /\ total_chunks = 0
  /\ pc = "write" => \E cs : Writing(cs)
  /\ pc = "built" => \E cs : Stands(cs)

LEMMA BuildStart == Init => BuildInv
<1>. SUFFICES ASSUME Init PROVE BuildInv
  OBVIOUS
<1>1. ASSUME foreign \in Foreign, img = LayOut(foreign) PROVE Stands(foreign)
  <2>1. foreign \in Seq(Chunk) /\ foreign # <<>>
    BY <1>1
  <2>2. Means(foreign) = Meaning
    BY <2>1 DEF Meaning
  <2>3. BelowLimit => AllFit(foreign)
    <3>1. DOMAIN foreign = 1 .. Len(foreign)
      BY <2>1
    <3>. QED BY <2>1, <3>1, Zenon DEF BelowLimit, AllFit
  <2>. QED BY <1>1, <2>1, <2>2, <2>3, Zenon DEF Stands
<1>2. /\ offset_in = 1 /\ offset_out = 0 /\ chunk = 0 /\ out = <<>>
      /\ offset = 1 /\ total_chunks = 0
      /\ \/ pc = "add" /\ img = <<>> /\ foreign = <<>>
         \/ pc = "built" /\ foreign \in Foreign /\ img = LayOut(foreign)
  BY DEF Init
<1>3. CASE pc = "add" /\ img = <<>> /\ foreign = <<>>
  BY <1>2, <1>3 DEF BuildInv
<1>4. CASE pc = "built" /\ foreign \in Foreign /\ img = LayOut(foreign)
  BY <1>1, <1>2, <1>4 DEF BuildInv
<1>. QED BY <1>2, <1>3, <1>4

LEMMA NothingWritten ==
  ASSUME blk = 0, img = <<>>, offset = 1, total_chunks = 0
  PROVE  Writing(<<>>)
<1>1. <<>> \in Seq(Chunk) /\ Len(<<>>) = 0 /\ Body(<<>>) = <<>> /\ Means(<<>>) = <<>>
  BY NoChunks
<1>2. Image(0) = <<>>
  <2>1. Image(0) \in Seq(Unit) /\ Len(Image(0)) = 0
    <3>1. Image(0) \in Seq(Unit) /\ Len(Image(0)) = 0 * BlkUnits /\ 0 * BlkUnits = 0
      BY ImageType
    <3>. QED BY <3>1
  <2>. DEFINE x == Image(0)
  <2>2. x \in Seq(Unit) /\ Len(x) = 0
    BY <2>1
  <2>. HIDE DEF x
  <2>3. x = <<>>
    BY <2>2
  <2>. QED BY <2>3 DEF x
<1>3. Alternate(<<>>) /\ AllFit(<<>>)
  BY <1>1 DEF Alternate, AllFit
<1>4. Lists(<<>>, blk)
  BY <1>1, <1>2, <1>3 DEF Lists
<1>5. Behind(<<>>) = <<>>
  BY DEF Behind
<1>. QED BY <1>1, <1>4, <1>5 DEF Writing

LEMMA RunStep ==
  ASSUME BitsInv, BuildInv, WriteRun, pc' = "write"
  PROVE  \E cs : Writing(cs)'
<1>. DEFINE gap == blk # it.start
            heads == HeaderUnits(gap)
            data == Blocks(it.start, it.bits)
            n == it.bits * BlkUnits
<1>1. pc = "write" /\ it.start >= 0 /\ added' = added /\ foreign' = foreign
  BY DEF WriteRun, history
<1>2. /\ img' = Write(img, offset, heads \o data)
      /\ offset' = offset + Len(heads) + n
      /\ blk' = it.start + it.bits
      /\ total_chunks' = total_chunks + Len(heads)
  BY <1>1 DEF WriteRun
<1>3. foreign = <<>>
  BY <1>1 DEF BuildInv
<1>4. PICK cs : Writing(cs)
  BY <1>1 DEF BuildInv
<1>5. PICK ds : /\ Lists(ds, it.start + it.bits) /\ ds # <<>> /\ ds[Len(ds)].type = "RAW"
                /\ Len(ds) = Len(cs) + Len(heads)
                /\ Body(ds) = Body(cs) \o (heads \o data)
  BY <1>1, <1>3, <1>4, RunWritten
<1>6. /\ heads \in Seq(Unit) /\ Len(heads) \in Nat
      /\ data \in Seq(Unit) /\ Len(data) = n /\ n \in Nat
      /\ blk \in Nat /\ it.start + it.bits # 0
  <2>1. gap \in BOOLEAN
    OBVIOUS
  <2>. HIDE DEF gap
  <2>2. /\ it.start \in blk .. TotalBlks - 1 /\ it.bits \in 1 .. TotalBlks - it.start
        /\ blk \in Nat /\ heads \in Seq(Unit) /\ data \in Seq(Unit) /\ Len(data) = n /\ n \in Nat
    BY <1>1, <2>1, RunType
  <2>. HIDE DEF heads, data, n
  <2>3. Len(heads) \in Nat /\ it.start + it.bits # 0
    BY <2>2
  <2>. QED BY <2>2, <2>3
<1>. HIDE DEF heads, data, n
<1>7. /\ cs \in Seq(Chunk) /\ img = Behind(cs) /\ offset = 1 + Len(Body(cs))
      /\ total_chunks = Len(cs) /\ Body(cs) \in Seq(Unit)
  <2>1. cs \in Seq(Chunk) /\ img = Behind(cs) /\ offset = 1 + Len(Body(cs)) /\ total_chunks = Len(cs)
    BY <1>4 DEF Writing, Lists
  <2>. QED BY <2>1, PartsType
<1>8. heads \o data \in Seq(Unit) /\ Len(heads \o data) = Len(heads) + n
  BY <1>6, ConcatProperties
<1>9. img' = Behind(ds)
  <2>1. Write(Behind(cs), 1 + Len(Body(cs)), heads \o data) = <<Zero>> \o (Body(cs) \o (heads \o data))
    BY <1>7, <1>8, WriteNext
  <2>. QED BY <1>2, <1>5, <1>7, <2>1, Zenon DEF Behind
<1>10. offset' = 1 + Len(Body(ds))
  <2>. DEFINE b == Body(cs)
              u == heads \o data
              l == Len(b)
              h == Len(heads)
              m == Len(u)
  <2>1. b \in Seq(Unit) /\ u \in Seq(Unit) /\ m = h + n /\ h \in Nat /\ n \in Nat /\ l \in Nat
    BY <1>6, <1>7, <1>8
  <2>2. Len(b \o u) = l + m
    <3>. HIDE DEF b, u
    <3>. QED BY <2>1, ConcatProperties
  <2>3. offset' = 1 + l + h + n
    BY <1>2, <1>7
  <2>4. Len(Body(ds)) = l + m
    BY <1>5, <2>2, Zenon
  <2>. HIDE DEF l, m, h
  <2>. QED BY <2>1, <2>3, <2>4
<1>11. total_chunks' = Len(ds)
  BY <1>2, <1>5, <1>7
<1>12. Lists(ds, blk)'
  BY <1>1, <1>2, <1>5, SameImage
<1>13. blk' # 0
  BY <1>2, <1>6
<1>. QED BY <1>5, <1>9, <1>10, <1>11, <1>12, <1>13 DEF Writing

LEMMA EndStep ==
  ASSUME BitsInv, BuildInv, FinishEnds
  PROVE  \E cs : Stands(cs)'
<1>. DEFINE tail == IF blk < TotalBlks THEN <<DontCare(TotalBlks - blk)>> ELSE <<>>
            body == IF tail = <<>> THEN img ELSE Write(img, offset, tail)
<1>1. /\ pc = "write" /\ it.start < 0 /\ added' = added /\ foreign' = foreign
      /\ total_chunks' = total_chunks + Len(tail)
      /\ img' = Write(body, 0, <<FileHeader(total_chunks')>>)
  BY DEF FinishEnds, history
<1>2. foreign = <<>>
  BY <1>1 DEF BuildInv
<1>3. PICK cs : Writing(cs)
  BY <1>1 DEF BuildInv
<1>4. /\ Lists(cs, blk) /\ cs \in Seq(Chunk) /\ img = Behind(cs) /\ offset = 1 + Len(Body(cs))
      /\ total_chunks = Len(cs) /\ (cs = <<>> <=> blk = 0)
      /\ (cs = <<>> \/ cs[Len(cs)].type = "RAW")
  BY <1>3 DEF Writing, Lists
<1>5. /\ blk \in 0 .. TotalBlks /\ \A i \in blk .. TotalBlks - 1 : i \notin added
      /\ blk > 0 => blk - 1 \in added
  <2>1. IsRun(it, blk) /\ AfterRun /\ it.start \in -1 .. TotalBlks - 1 /\ blk \in 0 .. TotalBlks
    BY <1>1 DEF BitsInv, Iterators
  <2>2. it.start = -1
    BY <1>1, <2>1
  <2>. QED BY <2>1, <2>2 DEF IsRun, AfterRun
<1>6. \E ds : /\ Lists(ds, TotalBlks) /\ ds # <<>> /\ body = Behind(ds)
              /\ total_chunks' = Len(ds)
  <2>1. CASE blk < TotalBlks
    <3>. DEFINE t == <<DontCare(TotalBlks - blk)>>
                ds == Append(cs, Gap(TotalBlks - blk))
    <3>1. tail = t /\ t # <<>> /\ Len(t) = 1
      BY <2>1
    <3>2. t \in Seq(Unit)
      <4>1. TotalBlks - blk \in Nat
        BY <1>5, <2>1
      <4>2. DontCare(TotalBlks - blk) \in Unit
        BY <4>1, HeaderTypes
      <4>. QED BY <4>2
    <3>3. Lists(ds, TotalBlks) /\ Len(ds) = Len(cs) + 1 /\ Body(ds) = Body(cs) \o t
      <4>1. blk \in Nat /\ TotalBlks \in Nat /\ TotalBlks <= TotalBlks /\ ~ TotalBlks < TotalBlks
        BY <1>5
      <4>. QED BY <1>2, <1>4, <1>5, <2>1, <4>1, AddGap
    <3>4. body = <<Zero>> \o (Body(cs) \o t)
      <4>1. body = Write(img, offset, t)
        BY <3>1, Zenon
      <4>. HIDE DEF t, body, tail
      <4>2. Write(Behind(cs), 1 + Len(Body(cs)), t) = <<Zero>> \o (Body(cs) \o t)
        BY <1>4, <3>2, WriteNext
      <4>. QED BY <1>4, <4>1, <4>2, Zenon
    <3>5. ds # <<>>
      <4>1. Len(cs) \in Nat /\ Len(<<>>) = 0
        BY <1>4
      <4>. HIDE DEF ds
      <4>2. Len(ds) # 0
        BY <3>3, <4>1
      <4>. QED BY <4>1, <4>2
    <3>6. total_chunks' = Len(ds)
      BY <1>1, <1>4, <3>1, <3>3
    <3>. HIDE DEF ds, t, body, tail
    <3>7. body = Behind(ds)
      BY <3>3, <3>4, <3>5, Zenon DEF Behind
    <3>. QED BY <3>3, <3>5, <3>6, <3>7
  <2>2. CASE blk = TotalBlks
    <3>1. tail = <<>> /\ Len(<<>>) = 0
      BY <2>2
    <3>2. body = img
      BY <3>1, Zenon
    <3>. HIDE DEF tail, body
    <3>3. cs # <<>> /\ Len(cs) \in Nat
      BY <1>4, <2>2
    <3>4. total_chunks' = Len(cs)
      BY <1>1, <1>4, <3>1, <3>3
    <3>. QED BY <1>4, <2>2, <3>2, <3>3, <3>4
  <2>. QED BY <1>5, <2>1, <2>2
<1>7. PICK ds : /\ Lists(ds, TotalBlks) /\ ds # <<>> /\ body = Behind(ds)
                /\ total_chunks' = Len(ds)
  BY <1>6
<1>. HIDE DEF body, tail
<1>8. ds \in Seq(Chunk) /\ Means(ds) = Image(TotalBlks) /\ Alternate(ds) /\ (BelowLimit => AllFit(ds))
  BY <1>7 DEF Lists
<1>9. img' = LayOut(ds)
  <2>1. Body(ds) \in Seq(Unit) /\ Len(ds) \in Nat
    BY <1>8, PartsType
  <2>2. FileHeader(Len(ds)) \in Unit
    BY <2>1, UnitsAre
  <2>3. Write(<<Zero>> \o Body(ds), 0, <<FileHeader(Len(ds))>>) = <<FileHeader(Len(ds))>> \o Body(ds)
    BY <2>1, <2>2, WriteHeader
  <2>. QED BY <1>1, <1>7, <2>3, Zenon DEF Behind, LayOut
<1>10. Means(ds) = Meaning
  BY <1>2, <1>8, MeaningIs
<1>11. (BelowLimit' <=> BelowLimit) /\ Meaning' = Meaning
  BY <1>1, SameImage
<1>12. Stands(ds)'
  BY <1>8, <1>9, <1>10, <1>11, Zenon DEF Stands
<1>. QED BY <1>12

LEMMA BuildStep == BitsInv /\ BuildInv /\ [Next]_vars => BuildInv'
<1>. SUFFICES ASSUME BitsInv, BuildInv, [Next]_vars PROVE BuildInv'
  OBVIOUS
<1>1. ASSUME NEW from \in Block, NEW count \in 1 .. TotalBlks, AddChunk(from, count)
      PROVE  BuildInv'
  <2>1. /\ pc = "add" /\ pc' = "add"
        /\ UNCHANGED <<img, offset, total_chunks, offset_in, offset_out, chunk, out, foreign>>
    BY <1>1 DEF AddChunk, reader
  <2>. QED BY <2>1 DEF BuildInv
<1>2. CASE FinishBegins
  <2>1. /\ pc = "add" /\ pc' = "write" /\ blk' = blk
        /\ UNCHANGED <<img, offset, total_chunks, offset_in, offset_out, chunk, out, foreign>>
    BY <1>2 DEF FinishBegins, reader, history
  <2>2. blk = 0 /\ img = <<>> /\ offset = 1 /\ total_chunks = 0
    BY <2>1 DEF BitsInv, BuildInv
  <2>3. Writing(<<>>)'
    <3>1. blk' = 0 /\ img' = <<>> /\ offset' = 1 /\ total_chunks' = 0
      BY <2>1, <2>2
    <3>2. (blk = 0 /\ img = <<>> /\ offset = 1 /\ total_chunks = 0 => Writing(<<>>))'
      BY NothingWritten, PTL
    <3>. QED BY <3>1, <3>2
  <2>. QED BY <2>1, <2>3 DEF BuildInv
<1>3. CASE WriteRun
  <2>1. /\ pc = "write" /\ pc' \in {"write", "done"}
        /\ UNCHANGED <<offset_in, offset_out, chunk, out, foreign>>
    BY <1>3 DEF WriteRun, reader, history
  <2>2. CASE pc' = "write"
    <3>1. \E cs : Writing(cs)'
      BY <1>3, <2>2, RunStep
    <3>. QED BY <2>1, <2>2, <3>1 DEF BuildInv
  <2>3. CASE pc' = "done"
    BY <2>3 DEF BuildInv
  <2>. QED BY <2>1, <2>2, <2>3
<1>4. CASE FinishEnds
  <2>1. pc = "write" /\ pc' = "built" /\ UNCHANGED <<offset_in, offset_out, chunk, out>>
    BY <1>4 DEF FinishEnds, reader
  <2>2. \E cs : Stands(cs)'
    BY <1>4, EndStep
  <2>. QED BY <2>1, <2>2 DEF BuildInv
<1>5. CASE FinishFails \/ UnpackBegins \/ UnpackRaw \/ UnpackRawFails \/ UnpackDontCare
           \/ UnpackFill \/ UnpackCrc \/ UnpackRefuses \/ UnpackEnds
  <2>1. pc' \in {"unpack", "done"}
    BY <1>5 DEF FinishFails, UnpackBegins, UnpackRaw, UnpackRawFails, UnpackDontCare,
                UnpackFill, UnpackCrc, UnpackRefuses, UnpackEnds, AtChunk
  <2>. QED BY <2>1 DEF BuildInv
<1>6. CASE UNCHANGED vars
  <2>1. UNCHANGED <<pc, img, blk, offset, total_chunks, added, foreign, offset_in, offset_out,
                    chunk, out>>
    BY <1>6 DEF vars, writer, reader, history
  <2>2. ASSUME NEW cs, Writing(cs) PROVE Writing(cs)'
    <3>1. Lists(cs, blk)'
      BY <2>1, <2>2, SameImage DEF Writing
    <3>. QED BY <2>1, <2>2, <3>1 DEF Writing
  <2>3. ASSUME NEW cs, Stands(cs) PROVE Stands(cs)'
    <3>1. (BelowLimit' <=> BelowLimit) /\ Meaning' = Meaning
      BY <2>1, SameImage
    <3>. QED BY <2>1, <2>3, <3>1, Zenon DEF Stands
  <2>. QED BY <2>1, <2>2, <2>3 DEF BuildInv
<1>. QED BY <1>1, <1>2, <1>3, <1>4, <1>5, <1>6 DEF Next

-----------------------------------------------------------------------------
(* The walk from chunk to chunk by the sizes in their headers is at the    *)
(* k-th chunk after k - 1 steps, if it could unpack the chunks before it.  *)
Plain(c) == c.type # "BAD" /\ (c.type = "FIL" => c.first = 0)

WalkIs(W) ==
  \A k \in 0 .. TotalChunks :
    W[k] = IF k = 0 THEN [at |-> 1, blks |-> 0]
           ELSE LET h == ReadUnit(img, W[k - 1].at)
                IN [at |-> W[k - 1].at + h.sz, blks |-> W[k - 1].blks + h.n]

LEMMA WalkExists ==
  ASSUME img \in Seq(Unit)
  PROVE  WalkIs(Walk)
<1>. DEFINE N == TotalChunks
            S == [at : Nat, blks : Nat]
            T == {n \in Nat : n <= N =>
                    \E W \in [0 .. n -> S] :
                      \A k \in 0 .. n :
                        W[k] = IF k = 0 THEN [at |-> 1, blks |-> 0]
                               ELSE LET h == ReadUnit(img, W[k - 1].at)
                                    IN [at |-> W[k - 1].at + h.sz, blks |-> W[k - 1].blks + h.n]}
<1>0. N \in Nat
  <2>1. ReadUnit(img, 0) \in Unit
    BY ReadType
  <2>. QED BY <2>1 DEF TotalChunks, Unit
<1>. HIDE DEF N
<1>1. 0 \in T
  <2>. DEFINE W == [k \in 0 .. 0 |-> [at |-> 1, blks |-> 0]]
  <2>1. W \in [0 .. 0 -> S] /\ \A k \in 0 .. 0 : k = 0 /\ W[k] = [at |-> 1, blks |-> 0]
    OBVIOUS
  <2>. HIDE DEF W
  <2>. QED BY <2>1
<1>2. ASSUME NEW n \in Nat, n \in T PROVE n + 1 \in T
  <2>0. n + 1 \in Nat
    OBVIOUS
  <2>. SUFFICES ASSUME n + 1 <= N
                PROVE  \E W \in [0 .. n + 1 -> S] :
                         \A k \in 0 .. n + 1 :
                           W[k] = IF k = 0 THEN [at |-> 1, blks |-> 0]
                                  ELSE LET h == ReadUnit(img, W[k - 1].at)
                                       IN [at |-> W[k - 1].at + h.sz, blks |-> W[k - 1].blks + h.n]
    BY <2>0, Zenon
  <2>1. n <= N /\ n + 1 # 0 /\ (n + 1) - 1 = n
    BY <1>0
  <2>2. PICK V \in [0 .. n -> S] :
          \A k \in 0 .. n :
            V[k] = IF k = 0 THEN [at |-> 1, blks |-> 0]
                   ELSE LET h == ReadUnit(img, V[k - 1].at)
                        IN [at |-> V[k - 1].at + h.sz, blks |-> V[k - 1].blks + h.n]
    BY <1>2, <2>1
  <2>. DEFINE g == ReadUnit(img, V[n].at)
              x == [at |-> V[n].at + g.sz, blks |-> V[n].blks + g.n]
              W == [k \in 0 .. n + 1 |-> IF k = n + 1 THEN x ELSE V[k]]
  <2>3. x \in S
    <3>1. V[n] \in S
      OBVIOUS
    <3>2. V[n].at \in Nat /\ V[n].blks \in Nat
      BY <3>1
    <3>3. g \in Unit
      BY <3>2, ReadType
    <3>4. g.sz \in Nat /\ g.n \in Nat
      <4>. HIDE DEF g
      <4>. QED BY <3>3 DEF Unit
    <3>. HIDE DEF g
    <3>. QED BY <3>2, <3>4
  <2>. HIDE DEF x
  <2>4. /\ W \in [0 .. n + 1 -> S] /\ W[n + 1] = x
        /\ \A k \in 0 .. n : k \in 0 .. n + 1 /\ k # n + 1 /\ W[k] = V[k]
    BY <2>3
  <2>. HIDE DEF W
  <2>5. ASSUME NEW k \in 0 .. n + 1
        PROVE  W[k] = IF k = 0 THEN [at |-> 1, blks |-> 0]
                      ELSE LET h == ReadUnit(img, W[k - 1].at)
                           IN [at |-> W[k - 1].at + h.sz, blks |-> W[k - 1].blks + h.n]
    <3>1. CASE k = n + 1
      <4>1. k # 0 /\ k - 1 = n /\ W[k - 1] = V[n] /\ W[k] = x
        BY <2>1, <2>4, <3>1
      <4>. QED BY <4>1, Zenon DEF x
    <3>2. CASE k = 0
      <4>1. 0 \in 0 .. n
        OBVIOUS
      <4>2. W[0] = V[0] /\ V[0] = [at |-> 1, blks |-> 0]
        BY <2>2, <2>4, <4>1
      <4>. QED BY <3>2, <4>2
    <3>3. CASE k # n + 1 /\ k # 0
      <4>1. k \in 0 .. n /\ k - 1 \in 0 .. n
        BY <3>3
      <4>2. W[k] = V[k] /\ W[k - 1] = V[k - 1]
        BY <2>4, <4>1
      <4>3. V[k] = LET h == ReadUnit(img, V[k - 1].at)
                   IN [at |-> V[k - 1].at + h.sz, blks |-> V[k - 1].blks + h.n]
        BY <2>2, <3>3, <4>1
      <4>. QED BY <3>3, <4>2, <4>3, Zenon
    <3>. QED BY <3>1, <3>2, <3>3
  <2>. QED BY <2>4, <2>5
<1>. DEFINE K(f) == f = [k \in 0 .. N |->
                           IF k = 0 THEN [at |-> 1, blks |-> 0]
                           ELSE LET h == ReadUnit(img, f[k - 1].at)
                                IN [at |-> f[k - 1].at + h.sz, blks |-> f[k - 1].blks + h.n]]
            F == CHOOSE f : K(f)
<1>3. N \in T
  <2>. HIDE DEF T
  <2>. QED BY <1>0, <1>1, <1>2, SetInduction
<1>4. PICK W \in [0 .. N -> S] :
        \A k \in 0 .. N :
          W[k] = IF k = 0 THEN [at |-> 1, blks |-> 0]
                 ELSE LET h == ReadUnit(img, W[k - 1].at)
                      IN [at |-> W[k - 1].at + h.sz, blks |-> W[k - 1].blks + h.n]
  BY <1>0, <1>3
<1>5. K(W)
  <2>. DEFINE H == [k \in 0 .. N |->
                      IF k = 0 THEN [at |-> 1, blks |-> 0]
                      ELSE LET h == ReadUnit(img, W[k - 1].at)
                           IN [at |-> W[k - 1].at + h.sz, blks |-> W[k - 1].blks + h.n]]
  <2>1. \A k \in 0 .. N : W[k] = H[k]
    BY <1>4
  <2>2. W = [k \in 0 .. N |-> W[k]] /\ H = [k \in 0 .. N |-> H[k]]
    OBVIOUS
  <2>. HIDE DEF H
  <2>3. W = H
    BY <2>1, <2>2
  <2>. QED BY <2>3 DEF H
<1>6. K(F)
  <2>. HIDE DEF K
  <2>. QED BY <1>5
<1>7. Walk = F
  BY DEF Walk, N
<1>. HIDE DEF F
<1>8. \A k \in 0 .. N :
        F[k] = IF k = 0 THEN [at |-> 1, blks |-> 0]
               ELSE LET h == ReadUnit(img, F[k - 1].at)
                    IN [at |-> F[k - 1].at + h.sz, blks |-> F[k - 1].blks + h.n]
  BY <1>6
<1>. QED BY <1>7, <1>8, Zenon DEF WalkIs, N

LEMMA CountIs ==
  ASSUME NEW cs \in Seq(Chunk), img = LayOut(cs)
  PROVE  TotalChunks = Len(cs) /\ Len(cs) \in Nat /\ img \in Seq(Unit)
<1>1. /\ img \in Seq(Unit) /\ Len(img) = 1 + Len(Body(cs)) /\ img[1] = FileHeader(Len(cs))
  BY LayOutIs
<1>2. Len(Body(cs)) \in Nat /\ Len(cs) \in Nat
  <2>1. Body(cs) \in Seq(Unit)
    BY PartsType
  <2>. QED BY <2>1
<1>3. ReadUnit(img, 0) = img[1]
  <2>1. 0 < Len(img)
    BY <1>1, <1>2
  <2>. QED BY <2>1 DEF ReadUnit, UnitAt
<1>. QED BY <1>1, <1>2, <1>3 DEF TotalChunks, FileHeader

LEMMA WalkAt ==
  ASSUME NEW cs \in Seq(Chunk), img = LayOut(cs), NEW J, Joins(J, Parts(cs), Unit),
         NEW n \in 0 .. Len(cs), \A i \in 1 .. n : Plain(cs[i]) /\ Fits(cs[i].blks)
  PROVE  \A k \in 0 .. n : Walk[k].at = 1 + Len(J[k])
<1>. DEFINE T == {k \in Nat : k <= n => Walk[k].at = 1 + Len(J[k])}
<1>1. TotalChunks = Len(cs) /\ Len(cs) \in Nat /\ WalkIs(Walk)
  <2>1. TotalChunks = Len(cs) /\ Len(cs) \in Nat /\ img \in Seq(Unit)
    BY CountIs
  <2>. QED BY <2>1, WalkExists
<1>2. 0 \in T
  <2>1. Walk[0] = [at |-> 1, blks |-> 0]
    <3>1. 0 \in 0 .. TotalChunks
      BY <1>1
    <3>. QED BY <1>1, <3>1 DEF WalkIs
  <2>2. J[0] = <<>>
    BY DEF Joins
  <2>. QED BY <2>1, <2>2
<1>3. ASSUME NEW k \in Nat, k \in T PROVE k + 1 \in T
  <2>. SUFFICES ASSUME k + 1 <= n PROVE Walk[k + 1].at = 1 + Len(J[k + 1])
    OBVIOUS
  <2>1. /\ k <= n /\ (k + 1) - 1 = k /\ k + 1 # 0 /\ k + 1 \in 1 .. n
        /\ k + 1 \in 1 .. Len(cs) /\ k + 1 \in 0 .. TotalChunks
    BY <1>1
  <2>. DEFINE h == ReadUnit(img, Walk[k].at)
  <2>2. Walk[k].at = 1 + Len(J[k])
    BY <1>3, <2>1
  <2>3. Walk[k + 1] = [at |-> Walk[k].at + h.sz, blks |-> Walk[k].blks + h.n]
    BY <1>1, <2>1 DEF WalkIs
  <2>4. Plain(cs[k + 1]) /\ Fits(cs[k + 1].blks)
    BY <2>1
  <2>5. (cs[k + 1].type = "FIL" => cs[k + 1].first = 0) =>
          (1 + Len(J[k])) + ReadUnit(img, 1 + Len(J[k])).sz = 1 + Len(J[k + 1])
    <3>1. (cs[k + 1].type = "FIL" => cs[k + 1].first = 0) =>
            (1 + Len(J[(k + 1) - 1])) + ReadUnit(LayOut(cs), 1 + Len(J[(k + 1) - 1])).sz
              = 1 + Len(J[k + 1])
      BY <2>1, <2>4, HeadIs
    <3>. QED BY <2>1, <3>1, Zenon
  <2>6. (1 + Len(J[k])) + ReadUnit(img, 1 + Len(J[k])).sz = 1 + Len(J[k + 1])
    BY <2>4, <2>5, Zenon DEF Plain
  <2>7. Walk[k + 1].at = Walk[k].at + h.sz
    BY <2>3
  <2>. QED BY <2>2, <2>6, <2>7, Zenon
<1>. HIDE DEF T
<1>4. \A k \in Nat : k \in T
  BY <1>2, <1>3, SetInduction
<1>. QED BY <1>1, <1>4 DEF T

(* The blocks of the chunks before the k-th, in units.                     *)
LEMMA WalkCounts ==
  ASSUME NEW cs \in Seq(Chunk), img = LayOut(cs), NEW M, Joins(M, Expansions(cs), Unit),
         Alternate(cs), AllFit(cs)
  PROVE  /\ Walk[Len(cs)].at = 1 + Len(Body(cs))
         /\ Walk[Len(cs)].blks \in Nat /\ Walk[Len(cs)].blks * BlkUnits = Len(Means(cs))
         /\ \A i \in 1 .. Len(cs) :
              /\ ReadUnit(img, Walk[i - 1].at).is = cs[i].type
              /\ ReadUnit(img, Walk[i - 1].at).n = cs[i].blks
<1>. DEFINE n == Len(cs)
            T == {k \in Nat : k <= n => Walk[k].blks \in Nat
                                        /\ Walk[k].blks * BlkUnits = Len(M[k])}
<1>0. /\ TotalChunks = n /\ n \in Nat /\ WalkIs(Walk)
  <2>1. TotalChunks = Len(cs) /\ Len(cs) \in Nat /\ img \in Seq(Unit)
    BY CountIs
  <2>. QED BY <2>1, WalkExists
<1>1. /\ Parts(cs) \in Seq(Seq(Unit)) /\ Len(Parts(cs)) = n /\ Body(cs) = FlattenSeq(Parts(cs))
      /\ Expansions(cs) \in Seq(Seq(Unit)) /\ Len(Expansions(cs)) = n
      /\ Means(cs) = FlattenSeq(Expansions(cs))
      /\ \A i \in 1 .. n : cs[i] \in Chunk /\ Expansions(cs)[i] = Expansion(cs[i])
  BY PartsType
<1>2. PICK J : Joins(J, Parts(cs), Unit)
  BY <1>1, JoinExists
<1>3. \A i \in 1 .. n : /\ cs[i].type \in {"RAW", "---"} /\ cs[i].blks \in Nat \ {0}
                        /\ Fits(cs[i].blks) /\ Plain(cs[i])
  BY DEF Alternate, AllFit, Plain
<1>. HIDE DEF n
<1>4. \A k \in 0 .. n : Walk[k].at = 1 + Len(J[k])
  <2>1. n \in 0 .. Len(cs)
    BY <1>0 DEF n
  <2>. QED BY <1>2, <1>3, <2>1, WalkAt
<1>5. \A i \in 1 .. n : /\ ReadUnit(img, Walk[i - 1].at).is = cs[i].type
                        /\ ReadUnit(img, Walk[i - 1].at).n = cs[i].blks
  <2>. TAKE i \in 1 .. n
  <2>1. i \in 1 .. Len(cs) /\ i - 1 \in 0 .. n
    BY <1>0 DEF n
  <2>2. LET h == ReadUnit(img, 1 + Len(J[i - 1]))
        IN h.is = cs[i].type /\ (cs[i].type # "CRC" => h.n = cs[i].blks)
    BY <1>2, <1>3, <2>1, HeadIs
  <2>3. Walk[i - 1].at = 1 + Len(J[i - 1]) /\ cs[i].type # "CRC"
    BY <1>3, <1>4, <2>1
  <2>. QED BY <2>2, <2>3, Zenon
<1>6. Len(M[0]) = 0 /\ \A i \in 1 .. n : /\ M[i - 1] \in Seq(Unit)
                                         /\ Len(M[i]) = Len(M[i - 1]) + cs[i].blks * BlkUnits
  <2>1. M[0] = <<>>
    BY DEF Joins
  <2>2. ASSUME NEW i \in 1 .. n
        PROVE  /\ M[i - 1] \in Seq(Unit)
               /\ Len(M[i]) = Len(M[i - 1]) + cs[i].blks * BlkUnits
    <3>1. Joined(M, Expansions(cs), Unit, i)
      <4>. DEFINE x == Expansions(cs)
      <4>1. x \in Seq(Seq(Unit)) /\ Joins(M, x, Unit) /\ i \in 1 .. Len(x)
        BY <1>1
      <4>. HIDE DEF x
      <4>2. Joined(M, x, Unit, i)
        BY <4>1, JoinHolds
      <4>. QED BY <4>2 DEF x
    <3>2. Len(Expansion(cs[i])) = cs[i].blks * BlkUnits
      <4>. DEFINE m == cs[i].blks * BlkUnits
      <4>1. m \in Nat /\ cs[i].first \in Nat /\ cs[i].blks \in Nat
        <5>1. cs[i] \in Chunk
          BY <1>1
        <5>. QED BY <5>1, ChunkType DEF Chunk
      <4>2. cs[i].type = "RAW" => Len(Expansion(cs[i])) = m
        BY <4>1, BlocksType DEF Expansion
      <4>3. cs[i].type # "RAW" => Expansion(cs[i]) = Zeros(m)
        BY <1>3 DEF Expansion
      <4>. HIDE DEF m
      <4>4. Len(Zeros(m)) = m
        BY <4>1, UnitsAre, SameType DEF Zeros
      <4>5. Len(Expansion(cs[i])) = m
        BY <4>2, <4>3, <4>4, Zenon
      <4>. QED BY <4>5 DEF m
    <3>3. Expansions(cs)[i] = Expansion(cs[i])
      BY <1>1
    <3>. QED BY <3>1, <3>2, <3>3, Zenon DEF Joined
  <2>. QED BY <2>1, <2>2
<1>7. 0 \in T
  <2>1. Walk[0] = [at |-> 1, blks |-> 0]
    <3>1. 0 \in 0 .. TotalChunks
      BY <1>0
    <3>. QED BY <1>0, <3>1 DEF WalkIs
  <2>2. Walk[0].blks = 0 /\ 0 * BlkUnits = 0
    BY <2>1
  <2>3. Walk[0].blks \in Nat /\ Walk[0].blks * BlkUnits = Len(M[0])
    BY <1>6, <2>2
  <2>. QED BY <2>3
<1>8. ASSUME NEW k \in Nat, k \in T PROVE k + 1 \in T
  <2>. SUFFICES ASSUME k + 1 <= n
                PROVE  Walk[k + 1].blks \in Nat /\ Walk[k + 1].blks * BlkUnits = Len(M[k + 1])
    OBVIOUS
  <2>1. /\ k <= n /\ (k + 1) - 1 = k /\ k + 1 # 0 /\ k + 1 \in 1 .. n
        /\ k + 1 \in 0 .. TotalChunks
    BY <1>0
  <2>. DEFINE h == ReadUnit(img, Walk[k].at)
              a == Walk[k].blks
              b == cs[k + 1].blks
              l == Len(M[k])
  <2>2. Walk[k + 1] = [at |-> Walk[k].at + h.sz, blks |-> a + h.n]
    BY <1>0, <2>1 DEF WalkIs
  <2>3. h.n = b /\ b \in Nat
    <3>1. ReadUnit(img, Walk[(k + 1) - 1].at).n = b
      BY <1>5, <2>1
    <3>2. b \in Nat
      BY <1>3, <2>1
    <3>. QED BY <2>1, <3>1, <3>2, Zenon
  <2>4. a \in Nat /\ a * BlkUnits = l
    BY <1>8, <2>1
  <2>5. Len(M[k + 1]) = l + b * BlkUnits
    <3>1. Len(M[k + 1]) = Len(M[(k + 1) - 1]) + b * BlkUnits
      BY <1>6, <2>1
    <3>. QED BY <2>1, <3>1, Zenon
  <2>6. Walk[k + 1].blks = a + b
    BY <2>2, <2>3
  <2>. HIDE DEF a, b, l
  <2>7. (a + b) * BlkUnits = a * BlkUnits + b * BlkUnits /\ a + b \in Nat
    BY <2>3, <2>4
  <2>. QED BY <2>4, <2>5, <2>6, <2>7
<1>. HIDE DEF T
<1>9. n \in T
  BY <1>0, <1>7, <1>8, SetInduction
<1>10. Walk[n].blks \in Nat /\ Walk[n].blks * BlkUnits = Len(M[n])
  BY <1>0, <1>9 DEF T
<1>11. M[n] = Means(cs) /\ J[n] = Body(cs)
  <2>1. FlattenSeq(Expansions(cs)) = M[Len(Expansions(cs))]
    BY <1>1, FlattenIs
  <2>2. FlattenSeq(Parts(cs)) = J[Len(Parts(cs))]
    BY <1>1, <1>2, FlattenIs
  <2>. QED BY <1>1, <2>1, <2>2, Zenon
<1>12. Walk[n].at = 1 + Len(J[n])
  <2>1. n \in 0 .. n
    BY <1>0
  <2>. QED BY <1>4, <2>1
<1>. QED BY <1>5, <1>10, <1>11, <1>12, Zenon DEF n

LEMMA Cancel ==
  ASSUME NEW a \in Nat, NEW b \in Nat, a * BlkUnits = b * BlkUnits
  PROVE  a = b
<1>1. ~ a < b
  <2>. SUFFICES ASSUME a + 1 <= b PROVE FALSE
    OBVIOUS
  <2>1. (a + 1) * BlkUnits <= b * BlkUnits /\ (a + 1) * BlkUnits = a * BlkUnits + BlkUnits
    OBVIOUS
  <2>. QED BY <2>1
<1>2. ~ b < a
  <2>. SUFFICES ASSUME b + 1 <= a PROVE FALSE
    OBVIOUS
  <2>1. (b + 1) * BlkUnits <= a * BlkUnits /\ (b + 1) * BlkUnits = b * BlkUnits + BlkUnits
    OBVIOUS
  <2>. QED BY <2>1
<1>. QED BY <1>1, <1>2

LEMMA ExactImage == BuildInv => ImageIsExact
<1>. SUFFICES ASSUME BuildInv, pc = "built", foreign = <<>>, BelowLimit
              PROVE  LET walk == Walk
                         HeadOf(i) == ReadUnit(img, walk[i - 1].at)
                     IN /\ \A i \in 1 .. TotalChunks :
                             HeadOf(i).is \in {"RAW", "---"} /\ HeadOf(i).n > 0
                        /\ \A i \in 1 .. TotalChunks - 1 : HeadOf(i).is # HeadOf(i + 1).is
                        /\ walk[TotalChunks] = [at |-> Len(img), blks |-> TotalBlks]
  BY DEF ImageIsExact
<1>1. PICK cs : Stands(cs)
  BY DEF BuildInv
<1>2. /\ cs \in Seq(Chunk) /\ img = LayOut(cs) /\ Means(cs) = Image(TotalBlks)
      /\ AllFit(cs) /\ Alternate(cs)
  BY <1>1, MeaningIs DEF Stands
<1>3. TotalChunks = Len(cs) /\ Len(cs) \in Nat /\ img \in Seq(Unit)
  BY <1>2, CountIs
<1>4. Expansions(cs) \in Seq(Seq(Unit))
  BY <1>2, PartsType
<1>5. PICK M : Joins(M, Expansions(cs), Unit)
  BY <1>4, JoinExists
<1>6. /\ Walk[Len(cs)].at = 1 + Len(Body(cs))
      /\ Walk[Len(cs)].blks \in Nat /\ Walk[Len(cs)].blks * BlkUnits = Len(Means(cs))
      /\ \A i \in 1 .. Len(cs) : /\ ReadUnit(img, Walk[i - 1].at).is = cs[i].type
                                 /\ ReadUnit(img, Walk[i - 1].at).n = cs[i].blks
  BY <1>2, <1>5, WalkCounts
<1>. DEFINE H(i) == ReadUnit(img, Walk[i - 1].at)
            n == Len(cs)
<1>7. \A i \in 1 .. n : /\ H(i).is = cs[i].type /\ H(i).n = cs[i].blks
                        /\ cs[i].type \in {"RAW", "---"} /\ cs[i].blks \in Nat \ {0}
  BY <1>2, <1>6 DEF Alternate
<1>8. \A i \in 1 .. n - 1 : cs[i].type # cs[i + 1].type
  BY <1>2 DEF Alternate
<1>. HIDE DEF H, n
<1>9. \A i \in 1 .. n : H(i).is \in {"RAW", "---"} /\ H(i).n > 0
  BY <1>7
<1>10. \A i \in 1 .. n - 1 : H(i).is # H(i + 1).is
  <2>. TAKE i \in 1 .. n - 1
  <2>1. i \in 1 .. n /\ i + 1 \in 1 .. n
    BY <1>3 DEF n
  <2>. QED BY <1>7, <1>8, <2>1
<1>11. Walk[n] = [at |-> Len(img), blks |-> TotalBlks]
  <2>1. Len(img) = 1 + Len(Body(cs))
    BY <1>2, LayOutIs
  <2>2. Walk[n].blks = TotalBlks
    <3>1. Len(Means(cs)) = TotalBlks * BlkUnits
      BY <1>2, ImageType
    <3>. QED BY <1>6, <3>1, Cancel DEF n
  <2>3. Walk[n] = [at |-> Walk[n].at, blks |-> Walk[n].blks]
    <3>1. WalkIs(Walk) /\ n \in 0 .. TotalChunks
      BY <1>3, WalkExists DEF n
    <3>2. \E a, b : Walk[n] = [at |-> a, blks |-> b]
      <4>1. CASE n = 0
        BY <3>1, <4>1, Zenon DEF WalkIs
      <4>2. CASE n # 0
        <5>. DEFINE h == ReadUnit(img, Walk[n - 1].at)
        <5>1. Walk[n] = [at |-> Walk[n - 1].at + h.sz, blks |-> Walk[n - 1].blks + h.n]
          BY <3>1, <4>2, Zenon DEF WalkIs
        <5>. QED BY <5>1, Zenon
      <4>. QED BY <4>1, <4>2
    <3>3. PICK a, b : Walk[n] = [at |-> a, blks |-> b]
      BY <3>2
    <3>4. Walk[n].at = a /\ Walk[n].blks = b
      BY <3>3
    <3>. QED BY <3>3, <3>4, Zenon
  <2>. QED BY <1>6, <2>1, <2>2, <2>3, Zenon DEF n
<1>. QED BY <1>3, <1>9, <1>10, <1>11, Zenon DEF H, n

-----------------------------------------------------------------------------
(* The file that is unpacked to holds what the chunks so far stand for; if *)
(* writes have failed, what RAW chunks hold.                               *)
Held(m, file, fails) ==
  /\ Len(file) <= Len(m)
  /\ \A i \in 1 .. Len(m) : fails = 0 \/ m[i].is = "data" => ReadUnit(file, i - 1) = m[i]

LEMMA ReadWritten ==
  ASSUME NEW o \in Seq(Unit), NEW at \in Nat, NEW u \in Seq(Unit), NEW i \in Nat
  PROVE  ReadUnit(Write(o, at, u), i) =
           IF at <= i /\ i < at + Len(u) THEN u[(i - at) + 1] ELSE ReadUnit(o, i)
<1>. DEFINE w == Write(o, at, u)
<1>1. w \in Seq(Unit) /\ IsWritten(w, o, at, u, Zero)
  BY WriteIs
<1>2. Len(o) \in Nat /\ Len(u) \in Nat
  OBVIOUS
<1>. HIDE DEF w
<1>3. /\ Len(w) = IF at + Len(u) > Len(o) THEN at + Len(u) ELSE Len(o)
      /\ \A j \in 1 .. Len(w) : w[j] = IF at < j /\ j <= at + Len(u) THEN u[j - at]
                                       ELSE IF j <= Len(o) THEN o[j] ELSE Zero
  BY <1>1 DEF IsWritten
<1>. DEFINE j == i + 1
<1>4. j \in Nat /\ j >= 1 /\ (i - at) + 1 = j - at
      /\ (at <= i <=> at < j) /\ (i < at + Len(u) <=> j <= at + Len(u))
      /\ (i < Len(o) <=> j <= Len(o)) /\ (i < Len(w) <=> j <= Len(w))
  BY <1>1, <1>2
<1>5. ReadUnit(w, i) = IF j <= Len(w) THEN w[j] ELSE Zero
  BY <1>4 DEF ReadUnit, UnitAt
<1>6. ReadUnit(o, i) = IF j <= Len(o) THEN o[j] ELSE Zero
  BY <1>4 DEF ReadUnit, UnitAt
<1>. HIDE DEF j
<1>7. CASE at < j /\ j <= at + Len(u)
  <2>1. j \in 1 .. Len(w)
    BY <1>2, <1>3, <1>4, <1>7
  <2>. QED BY <1>3, <1>4, <1>5, <1>7, <2>1 DEF w
<1>8. CASE ~(at < j /\ j <= at + Len(u))
  <2>1. ReadUnit(w, i) = ReadUnit(o, i)
    <3>1. CASE j <= Len(w)
      <4>1. j \in 1 .. Len(w)
        BY <1>1, <1>4, <3>1
      <4>. QED BY <1>3, <1>5, <1>6, <1>8, <3>1, <4>1
    <3>2. CASE ~(j <= Len(w))
      <4>1. ~(j <= Len(o))
        BY <1>2, <1>3, <1>4, <3>2
      <4>. QED BY <1>5, <1>6, <3>2, <4>1
    <3>. QED BY <3>1, <3>2
  <2>. QED BY <1>4, <1>8, <2>1 DEF w
<1>. QED BY <1>7, <1>8

LEMMA ReadOver ==
  ASSUME NEW o \in Seq(Unit), NEW m \in Seq(Unit), NEW u \in Seq(Unit)
  PROVE  \A i \in Nat : ReadUnit(Write(o, Len(m), u), i) =
           IF Len(m) <= i /\ i < Len(m) + Len(u) THEN u[(i - Len(m)) + 1] ELSE ReadUnit(o, i)
<1>. DEFINE at == Len(m)
<1>1. at \in Nat
  OBVIOUS
<1>. HIDE DEF at
<1>2. \A i \in Nat : ReadUnit(Write(o, at, u), i) =
        IF at <= i /\ i < at + Len(u) THEN u[(i - at) + 1] ELSE ReadUnit(o, i)
  BY <1>1, ReadWritten
<1>. QED BY <1>2, Zenon DEF at

LEMMA HeldAfter ==
  ASSUME NEW o \in Seq(Unit), NEW m \in Seq(Unit), NEW e \in Seq(Unit), NEW u \in Seq(Unit),
         NEW f \in Nat, NEW g \in Nat, g = 0 => f = 0, Held(m, o, f),
         Len(u) <= Len(e), \A i \in 1 .. Len(u) : u[i] = e[i],
         \/ Len(u) = Len(e)
         \/ g # 0 /\ \A i \in 1 .. Len(e) : e[i].is # "data"
  PROVE  Held(m \o e, Write(o, Len(m), u), g)
<1>. DEFINE p == Write(o, Len(m), u)
            z == m \o e
            a == Len(m)
            l == Len(e)
            n == Len(u)
<1>1. a \in Nat /\ l \in Nat /\ n \in Nat /\ n <= l /\ Len(o) \in Nat /\ Len(o) <= a
  BY DEF Held
<1>2. /\ Len(z) = a + l
      /\ \A i \in 1 .. a : z[i] = m[i]
      /\ \A i \in 1 .. l : z[a + i] = e[i]
  BY ConcatProperties
<1>3. p \in Seq(Unit) /\ Len(p) = IF a + n > Len(o) THEN a + n ELSE Len(o)
  BY <1>1, WriteIs DEF IsWritten
<1>4. \A i \in Nat : ReadUnit(p, i) = IF a <= i /\ i < a + n THEN u[(i - a) + 1] ELSE ReadUnit(o, i)
  BY ReadOver, Zenon
<1>5. \A i \in 1 .. a : f = 0 \/ m[i].is = "data" => ReadUnit(o, i - 1) = m[i]
  BY DEF Held
<1>6. \/ n = l
      \/ g # 0 /\ \A i \in 1 .. l : e[i].is # "data"
  OBVIOUS
<1>7. \A i \in 1 .. n : u[i] = e[i]
  OBVIOUS
<1>. HIDE DEF p, z, a, l, n
<1>8. Len(p) <= Len(z)
  BY <1>1, <1>2, <1>3
<1>9. ASSUME NEW i \in 1 .. Len(z), g = 0 \/ z[i].is = "data" PROVE ReadUnit(p, i - 1) = z[i]
  <2>1. CASE i <= a
    <3>1. i \in 1 .. a /\ i - 1 \in Nat /\ ~(a <= i - 1)
      BY <1>1, <1>2, <2>1
    <3>2. ReadUnit(p, i - 1) = ReadUnit(o, i - 1)
      BY <1>4, <3>1
    <3>3. z[i] = m[i]
      BY <1>2, <3>1
    <3>4. f = 0 \/ m[i].is = "data"
      BY <1>9, <3>3
    <3>. QED BY <1>5, <3>1, <3>2, <3>3, <3>4
  <2>2. CASE i > a
    <3>1. /\ i - a \in 1 .. l /\ a + (i - a) = i /\ i - 1 \in Nat /\ a <= i - 1
          /\ ((i - 1) - a) + 1 = i - a
      BY <1>1, <1>2, <2>2
    <3>2. z[i] = e[i - a]
      BY <1>2, <3>1
    <3>3. n = l
      <4>1. CASE g = 0
        BY <1>6, <4>1
      <4>2. CASE z[i].is = "data"
        BY <1>6, <3>1, <3>2, <4>2
      <4>. QED BY <1>9, <4>1, <4>2
    <3>4. i - 1 < a + n /\ i - a \in 1 .. n
      BY <1>1, <1>2, <3>1, <3>3
    <3>5. ReadUnit(p, i - 1) = u[i - a]
      BY <1>4, <3>1, <3>4
    <3>. QED BY <1>7, <3>2, <3>4, <3>5
  <2>. QED BY <1>1, <1>2, <2>1, <2>2
<1>10. Held(z, p, g)
  BY <1>8, <1>9 DEF Held
<1>. QED BY <1>10 DEF z, p, a

LEMMA HeldNext ==
  ASSUME NEW o \in Seq(Unit), NEW m \in Seq(Unit), NEW e \in Seq(Unit), NEW p,
         NEW f \in Nat, NEW g \in Nat, Held(m, o, f),
         \/ p = Write(o, Len(m), e) /\ g = f
         \/ p = o /\ g = f /\ \A i \in 1 .. Len(e) : e[i] = Zero
         \/ /\ \E n \in 0 .. Len(e) - 1 : p = Write(o, Len(m), SubSeq(e, 1, n))
            /\ g = f + 1 /\ \A i \in 1 .. Len(e) : e[i].is # "data"
  PROVE  Held(m \o e, p, g)
<1>1. CASE p = Write(o, Len(m), e) /\ g = f
  <2>1. /\ Len(e) <= Len(e) /\ Len(e) = Len(e) /\ \A i \in 1 .. Len(e) : e[i] = e[i]
        /\ g = 0 => f = 0
    BY <1>1
  <2>2. Held(m \o e, Write(o, Len(m), e), g)
    BY <2>1, HeldAfter
  <2>. QED BY <1>1, <2>2
<1>2. CASE p = o /\ g = f /\ \A i \in 1 .. Len(e) : e[i] = Zero
  <2>. DEFINE z == m \o e
              a == Len(m)
              l == Len(e)
  <2>1. a \in Nat /\ l \in Nat /\ Len(o) \in Nat /\ Len(o) <= a
    BY DEF Held
  <2>2. /\ Len(z) = a + l
        /\ \A i \in 1 .. a : z[i] = m[i]
        /\ \A i \in 1 .. l : z[a + i] = e[i]
    BY ConcatProperties
  <2>3. \A i \in 1 .. a : f = 0 \/ m[i].is = "data" => ReadUnit(o, i - 1) = m[i]
    BY DEF Held
  <2>4. \A i \in 1 .. l : e[i] = Zero
    BY <1>2
  <2>. HIDE DEF z, a, l
  <2>5. ASSUME NEW i \in 1 .. Len(z), f = 0 \/ z[i].is = "data" PROVE ReadUnit(o, i - 1) = z[i]
    <3>1. CASE i <= a
      <4>1. i \in 1 .. a
        BY <2>1, <2>2, <3>1
      <4>. QED BY <2>2, <2>3, <2>5, <4>1
    <3>2. CASE i > a
      <4>1. i - a \in 1 .. l /\ a + (i - a) = i /\ ~(i - 1 < Len(o))
        BY <2>1, <2>2, <3>2
      <4>2. z[i] = Zero
        BY <2>2, <2>4, <4>1
      <4>. QED BY <4>1, <4>2 DEF ReadUnit, UnitAt
    <3>. QED BY <2>1, <2>2, <3>1, <3>2
  <2>6. Len(o) <= Len(z)
    BY <2>1, <2>2
  <2>7. Held(z, o, f)
    BY <2>5, <2>6 DEF Held
  <2>. QED BY <1>2, <2>7 DEF z
<1>3. ASSUME NEW n \in 0 .. Len(e) - 1, p = Write(o, Len(m), SubSeq(e, 1, n)),
             g = f + 1, \A i \in 1 .. Len(e) : e[i].is # "data"
      PROVE  Held(m \o e, p, g)
  <2>. DEFINE u == SubSeq(e, 1, n)
  <2>1. u \in Seq(Unit) /\ Len(u) = n /\ \A i \in 1 .. n : u[i] = e[i]
    OBVIOUS
  <2>. HIDE DEF u
  <2>2. n <= Len(e) /\ g # 0
    BY <1>3
  <2>3. Held(m \o e, Write(o, Len(m), u), g)
    BY <1>3, <2>1, <2>2, HeldAfter
  <2>. QED BY <1>3, <2>3 DEF u
<1>. QED BY <1>1, <1>2, <1>3

(* How far sparse_unpack2fd has come.                                      *)
Whole(m, file, fails, f) == fails = 0 /\ ~f => Len(file) = Len(m)
Read(cs, J, M) ==
  /\ \A i \in 1 .. chunk : Plain(cs[i])
  /\ offset_in = 1 + Len(J[chunk]) /\ offset_out = Len(M[chunk])
  /\ Held(M[chunk], out, failures) /\ Whole(M[chunk], out, failures, fast)
Reading(cs, J, M) ==
  /\ Joins(J, Parts(cs), Unit) /\ Joins(M, Expansions(cs), Unit)
  /\ chunk \in 0 .. Len(cs)
  /\ BelowLimit => Read(cs, J, M)

LEMMA ExpansionsJoin ==
  ASSUME NEW cs \in Seq(Chunk), NEW M, Joins(M, Expansions(cs), Unit), NEW k \in 1 .. Len(cs)
  PROVE  /\ M[k - 1] \in Seq(Unit) /\ Expansion(cs[k]) \in Seq(Unit)
         /\ M[k] = M[k - 1] \o Expansion(cs[k])
         /\ Len(M[k]) = Len(M[k - 1]) + Len(Expansion(cs[k]))
<1>. DEFINE x == Expansions(cs)
<1>1. x \in Seq(Seq(Unit)) /\ Joins(M, x, Unit) /\ k \in 1 .. Len(x) /\ x[k] = Expansion(cs[k])
  BY PartsType
<1>. HIDE DEF x
<1>2. Joined(M, x, Unit, k)
  BY <1>1, JoinHolds
<1>. QED BY <1>1, <1>2, Zenon DEF Joined

(* The units that unpacking a chunk writes.                                *)
LEMMA ExpansionIs ==
  ASSUME NEW c \in Chunk
  PROVE  LET n == c.blks * BlkUnits
             e == Expansion(c)
         IN /\ c.type = "RAW" => Len(e) = n
            /\ c.type = "---" => e = Zeros(n) /\ Len(e) = n /\ \A i \in 1 .. n : e[i] = Zero
            /\ c.type = "FIL" => /\ e = [u \in 1 .. n |-> FillUnit(1)]
                                 /\ Len(e) = n /\ \A i \in 1 .. n : e[i] = FillUnit(1)
            /\ c.type = "CRC" => e = <<>>
<1>. DEFINE n == c.blks * BlkUnits
            e == Expansion(c)
<1>1. n \in Nat /\ c.first \in Nat /\ c.blks \in Nat
  BY ChunkType DEF Chunk
<1>2. c.type = "RAW" => Len(e) = n
  BY <1>1, BlocksType DEF Expansion
<1>3. /\ c.type = "---" => e = Zeros(n)
      /\ c.type = "FIL" => e = [u \in 1 .. n |-> FillUnit(1)]
      /\ c.type = "CRC" => e = <<>>
  BY DEF Expansion
<1>. HIDE DEF n, e
<1>4. Len(Zeros(n)) = n /\ \A i \in 1 .. n : Zeros(n)[i] = Zero
  BY <1>1, UnitsAre, SameType DEF Zeros
<1>5. /\ Len([u \in 1 .. n |-> FillUnit(1)]) = n
      /\ \A i \in 1 .. n : [u \in 1 .. n |-> FillUnit(1)][i] = FillUnit(1)
  BY <1>1, UnitsAre, SameType
<1>. QED BY <1>2, <1>3, <1>4, <1>5, Zenon DEF n, e

LEMMA ChunkUnpacked ==
  ASSUME TypeInv, pc = "unpack", NEW cs, Stands(cs), NEW J, NEW M, Reading(cs, J, M),
         BelowLimit, UnpackRaw \/ UnpackDontCare \/ UnpackFill \/ UnpackCrc
  PROVE  chunk' = chunk + 1 /\ chunk + 1 \in 1 .. Len(cs) /\ Read(cs, J, M)'
<1>1. /\ cs \in Seq(Chunk) /\ img = LayOut(cs) /\ AllFit(cs)
      /\ Joins(J, Parts(cs), Unit) /\ Joins(M, Expansions(cs), Unit)
      /\ chunk \in 0 .. Len(cs) /\ Read(cs, J, M)
  BY DEF Stands, Reading
<1>2. TotalChunks = Len(cs) /\ Len(cs) \in Nat
  BY <1>1, CountIs
<1>3. chunk < TotalChunks
  BY DEF UnpackRaw, UnpackDontCare, UnpackFill, UnpackCrc, AtChunk
<1>. DEFINE k == chunk + 1
<1>4. k \in 1 .. Len(cs) /\ k - 1 = chunk
  BY <1>1, <1>2, <1>3
<1>. DEFINE c == cs[k]
            e == Expansion(c)
            m == M[chunk]
            n == c.blks * BlkUnits
<1>5. c \in Chunk /\ Fits(c.blks) /\ c.blks \in Nat
  <2>1. c \in Chunk /\ Fits(c.blks)
    BY <1>1, <1>4 DEF AllFit
  <2>. QED BY <2>1 DEF Chunk
<1>6. m \in Seq(Unit) /\ e \in Seq(Unit) /\ M[k] = m \o e /\ Len(M[k]) = Len(m) + Len(e)
  <2>1. /\ M[k - 1] \in Seq(Unit) /\ Expansion(cs[k]) \in Seq(Unit)
        /\ M[k] = M[k - 1] \o Expansion(cs[k])
        /\ Len(M[k]) = Len(M[k - 1]) + Len(Expansion(cs[k]))
    BY <1>1, <1>4, ExpansionsJoin
  <2>. QED BY <1>4, <2>1, Zenon
<1>7. /\ \A i \in 1 .. chunk : Plain(cs[i])
      /\ offset_in = 1 + Len(J[chunk]) /\ offset_out = Len(m)
      /\ Held(m, out, failures) /\ Whole(m, out, failures, fast)
  BY <1>1 DEF Read
<1>8. /\ out \in Seq(Unit) /\ failures \in Nat /\ offset_in \in Nat /\ Len(m) \in Nat /\ Len(e) \in Nat
  BY <1>6 DEF TypeInv, TypeOK
<1>9. /\ Header.is = c.type /\ (c.type # "CRC" => Header.n = c.blks) /\ n \in Nat
      /\ Header.sz = IF c.type = "RAW" THEN n + 1 ELSE IF c.type = "FIL" THEN 2 + c.first
                     ELSE IF c.type = "CRC" THEN 2 ELSE 1
      /\ (c.type = "FIL" => c.first = 0) => offset_in + Header.sz = 1 + Len(J[k])
      /\ c.type = "RAW" => \A u \in 1 .. n : ReadUnit(img, offset_in + u) = e[u]
      /\ c.type = "FIL" => ReadUnit(img, offset_in + 1) = FillUnit(1)
  <2>1. LET at == 1 + Len(J[k - 1])
            h == ReadUnit(LayOut(cs), at)
        IN /\ n \in Nat
           /\ h.is = c.type /\ (c.type # "CRC" => h.n = c.blks)
           /\ h.sz = IF c.type = "RAW" THEN n + 1 ELSE IF c.type = "FIL" THEN 2 + c.first
                     ELSE IF c.type = "CRC" THEN 2 ELSE 1
           /\ (c.type = "FIL" => c.first = 0) => at + h.sz = 1 + Len(J[k])
           /\ c.type = "RAW" => \A u \in 1 .. n : ReadUnit(LayOut(cs), at + u) = Expansion(c)[u]
           /\ c.type = "FIL" => ReadUnit(LayOut(cs), at + 1) = FillUnit(1)
    BY <1>1, <1>4, <1>5, HeadIs
  <2>2. 1 + Len(J[k - 1]) = offset_in /\ LayOut(cs) = img /\ ReadUnit(img, offset_in) = Header
    BY <1>1, <1>4, <1>7 DEF Header
  <2>. HIDE DEF c, e, m, n, k
  <2>. QED BY <2>1, <2>2, Zenon DEF e
<1>10. /\ c.type = "RAW" => Len(e) = n
       /\ c.type = "---" => e = Zeros(n) /\ Len(e) = n /\ \A i \in 1 .. n : e[i] = Zero
       /\ c.type = "FIL" => /\ e = [u \in 1 .. n |-> FillUnit(1)]
                            /\ Len(e) = n /\ \A i \in 1 .. n : e[i] = FillUnit(1)
       /\ c.type = "CRC" => e = <<>>
  BY <1>5, ExpansionIs
<1>11. /\ c.type = "RAW" => RawData = n
       /\ c.type \in {"---", "FIL"} => Expanded = n
  <2>1. /\ (n * 1) % Mod32 = n % Mod32 /\ n % Mod32 = n
        /\ ((n + 1) - 1 + Mod32) % Mod32 = n
    <3>1. (c.blks * BlkUnits) % Mod32 = n /\ ((c.blks * BlkUnits + 1) - 1 + Mod32) % Mod32 = n
      BY <1>5, FitsIs
    <3>2. n * 1 = n
      BY <1>9
    <3>. QED BY <3>1, <3>2, Zenon
  <2>2. c.type = "RAW" => Header.sz = n + 1
    BY <1>9
  <2>3. c.type \in {"---", "FIL"} => Header.n = c.blks
    BY <1>9
  <2>. QED BY <2>1, <2>2, <2>3, Zenon DEF RawData, Expanded
<1>. HIDE DEF c, e, m, n, k
<1>12. ASSUME chunk' = chunk + 1, offset_in' = offset_in + Header.sz,
              offset_out' = offset_out + Len(e), Plain(c), Held(m \o e, out', failures'),
              Whole(m \o e, out', failures', fast')
       PROVE  chunk' = chunk + 1 /\ chunk + 1 \in 1 .. Len(cs) /\ Read(cs, J, M)'
  <2>1. chunk' = k /\ k \in 1 .. Len(cs)
    BY <1>4, <1>12 DEF k
  <2>2. offset_in' = 1 + Len(J[k]) /\ offset_out' = Len(M[k])
    <3>1. offset_in' = 1 + Len(J[k])
      BY <1>9, <1>12, Zenon DEF Plain
    <3>. QED BY <1>6, <1>7, <1>12, <3>1
  <2>3. \A i \in 1 .. k : Plain(cs[i])
    <3>1. \A i \in 1 .. k : i \in 1 .. chunk \/ i = k
      BY <1>1 DEF k
    <3>. QED BY <1>7, <1>12, <3>1, Zenon DEF c
  <2>4. Held(M[k], out', failures') /\ Whole(M[k], out', failures', fast')
    <3>1. M[k] = m \o e
      BY <1>6
    <3>2. Held(M[k], out', failures')
      BY <1>12, <3>1, Zenon
    <3>3. Whole(M[k], out', failures', fast')
      BY <1>12, <3>1, Zenon DEF Whole
    <3>. QED BY <3>2, <3>3
  <2>5. Read(cs, J, M)'
    BY <2>1, <2>2, <2>3, <2>4, Zenon DEF Read, Whole
  <2>. QED BY <1>12, <2>1, <2>5, Zenon DEF k
<1>13. CASE UnpackRaw
  <2>1. Header.is = "RAW" /\ out' = Write(out, offset_out, RawUnits) /\ failures' = failures
        /\ NextChunk(RawData)
    BY <1>13 DEF UnpackRaw, AtChunk, Written
  <2>2. c.type = "RAW" /\ Plain(c)
    BY <1>9, <2>1 DEF Plain
  <2>3. RawUnits = e
    <3>1. RawUnits \in Seq(Unit) /\ Len(RawUnits) = n
      BY <1>11, <2>2, HeaderType
    <3>2. \A u \in 1 .. n : RawUnits[u] = ReadUnit(img, offset_in + u)
      BY <1>11, <2>2 DEF RawUnits
    <3>3. \A u \in 1 .. n : RawUnits[u] = e[u]
      BY <1>9, <2>2, <3>2
    <3>. QED BY <1>6, <1>10, <2>2, <3>1, <3>3, SameSequence
  <2>4. out' = Write(out, Len(m), e)
    BY <1>7, <2>1, <2>3, Zenon
  <2>5. Held(m \o e, out', failures')
    BY <1>6, <1>7, <1>8, <2>1, <2>4, HeldNext
  <2>6. Whole(m \o e, out', failures', fast')
    <3>1. fast' = fast
      BY <1>13, Zenon DEF UnpackRaw
    <3>. DEFINE a == Len(m)
                b == Len(e)
    <3>2. Len(out) = a => Len(out') = a + b
      <4>1. a \in Nat /\ b \in Nat
        BY <1>8
      <4>2. Len(out') = IF a + b > Len(out) THEN a + b ELSE Len(out)
        BY <1>6, <1>8, <2>4, WriteIs DEF IsWritten
      <4>. HIDE DEF a, b
      <4>. QED BY <4>1, <4>2
    <3>3. Len(m \o e) = a + b
      BY <1>6, ConcatProperties
    <3>. QED BY <1>7, <2>1, <3>1, <3>2, <3>3, Zenon DEF Whole
  <2>7. /\ chunk' = chunk + 1 /\ offset_in' = offset_in + Header.sz
        /\ offset_out' = offset_out + Len(e)
    <3>1. RawData = Len(e)
      BY <1>10, <1>11, <2>2
    <3>. QED BY <2>1, <3>1, Zenon DEF NextChunk
  <2>. QED BY <1>12, <2>2, <2>5, <2>6, <2>7
<1>14. ASSUME NEW all \in BOOLEAN, Written(e, all), fast' = fast,
              \A i \in 1 .. Len(e) : e[i].is # "data"
       PROVE  Held(m \o e, out', failures') /\ Whole(m \o e, out', failures', fast')
  <2>1. CASE all
    <3>1. out' = Write(out, Len(m), e) /\ failures' = failures
      BY <1>7, <1>14, <2>1 DEF Written
    <3>2. Held(m \o e, out', failures')
      BY <1>6, <1>7, <1>8, <3>1, HeldNext
    <3>. DEFINE a == Len(m)
                b == Len(e)
    <3>3. Len(out) = a => Len(out') = a + b
      <4>1. a \in Nat /\ b \in Nat
        BY <1>8
      <4>2. Len(out') = IF a + b > Len(out) THEN a + b ELSE Len(out)
        BY <1>6, <1>8, <3>1, WriteIs DEF IsWritten
      <4>. HIDE DEF a, b
      <4>. QED BY <4>1, <4>2
    <3>4. Len(m \o e) = a + b
      BY <1>6, ConcatProperties
    <3>5. Whole(m \o e, out', failures', fast')
      BY <1>7, <1>14, <3>1, <3>3, <3>4, Zenon DEF Whole
    <3>. QED BY <3>2, <3>5
  <2>2. CASE ~all
    <3>1. /\ failures' = failures + 1
          /\ \E l \in 0 .. Len(e) - 1 : out' = Write(out, Len(m), SubSeq(e, 1, l))
      BY <1>7, <1>14, <2>2 DEF Written
    <3>2. failures' \in Nat /\ failures' # 0
      BY <1>8, <3>1
    <3>3. Held(m \o e, out', failures')
      BY <1>6, <1>7, <1>8, <1>14, <3>1, <3>2, HeldNext
    <3>4. Whole(m \o e, out', failures', fast')
      BY <3>2, Zenon DEF Whole
    <3>. QED BY <3>3, <3>4
  <2>. QED BY <2>1, <2>2
<1>15. ASSUME UNCHANGED <<out, failures, fast>>, \A i \in 1 .. Len(e) : e[i] = Zero,
              fast \/ e = <<>>
       PROVE  Held(m \o e, out', failures') /\ Whole(m \o e, out', failures', fast')
  <2>1. Held(m \o e, out', failures')
    BY <1>6, <1>7, <1>8, <1>15, HeldNext
  <2>2. CASE fast
    BY <1>15, <2>1, <2>2, Zenon DEF Whole
  <2>3. CASE e = <<>>
    <3>1. m \o e = m
      BY <1>6, <2>3
    <3>2. Whole(m, out', failures', fast')
      BY <1>7, <1>15, Zenon DEF Whole
    <3>. QED BY <2>1, <3>1, <3>2, Zenon DEF Whole
  <2>. QED BY <1>15, <2>2, <2>3, Zenon
<1>16. CASE UnpackDontCare
  <2>1. PICK all \in BOOLEAN :
          /\ AtChunk({"---"})
          /\ IF fast THEN all /\ UNCHANGED <<out, failures>> ELSE Written(Zeros(Expanded), all)
          /\ NextChunk(Expanded) /\ fast' = fast
    BY <1>16, Zenon DEF UnpackDontCare
  <2>2. c.type = "---" /\ Plain(c)
    BY <1>9, <2>1 DEF AtChunk, Plain
  <2>3. Zeros(Expanded) = e /\ Expanded = Len(e) /\ \A i \in 1 .. Len(e) : e[i] = Zero
    BY <1>10, <1>11, <2>2
  <2>4. Held(m \o e, out', failures') /\ Whole(m \o e, out', failures', fast')
    <3>1. CASE fast
      <4>1. UNCHANGED <<out, failures, fast>>
        BY <2>1, <3>1, Zenon
      <4>. QED BY <1>15, <2>3, <3>1, <4>1, Zenon
    <3>2. CASE ~fast
      <4>1. Written(e, all)
        BY <2>1, <2>3, <3>2, Zenon
      <4>2. \A i \in 1 .. Len(e) : e[i].is # "data"
        BY <2>3 DEF Zero
      <4>. QED BY <1>14, <2>1, <4>1, <4>2, Zenon
    <3>. QED BY <3>1, <3>2, Zenon
  <2>5. /\ chunk' = chunk + 1 /\ offset_in' = offset_in + Header.sz
        /\ offset_out' = offset_out + Len(e)
    BY <2>1, <2>3, Zenon DEF NextChunk
  <2>. QED BY <1>12, <2>2, <2>4, <2>5
<1>17. CASE UnpackFill
  <2>1. PICK all \in BOOLEAN :
          /\ AtChunk({"FIL"}) /\ ~BadFillSize
          /\ Written([u \in 1 .. Expanded |-> ReadUnit(img, offset_in + 1)], all)
          /\ NextChunk(Expanded) /\ fast' = fast
    BY <1>17, Zenon DEF UnpackFill
  <2>2. c.type = "FIL" /\ Plain(c)
    <3>1. c.type = "FIL"
      BY <1>9, <2>1 DEF AtChunk
    <3>2. c.first = 0
      <4>1. Header.sz = 2 + c.first /\ Header.sz = 2 /\ c.first \in Nat
        BY <1>5, <1>9, <2>1, <3>1 DEF BadFillSize, Chunk
      <4>. QED BY <4>1
    <3>. QED BY <3>1, <3>2 DEF Plain
  <2>3. [u \in 1 .. Expanded |-> ReadUnit(img, offset_in + 1)] = e
    <3>1. Expanded = n /\ ReadUnit(img, offset_in + 1) = FillUnit(1)
      BY <1>9, <1>11, <2>2
    <3>. QED BY <1>10, <2>2, <3>1, Zenon
  <2>4. Expanded = Len(e) /\ \A i \in 1 .. Len(e) : e[i] = FillUnit(1)
    BY <1>10, <1>11, <2>2
  <2>5. \A i \in 1 .. Len(e) : e[i].is # "data"
    BY <2>4 DEF FillUnit
  <2>6. Written(e, all)
    BY <2>1, <2>3, Zenon
  <2>7. Held(m \o e, out', failures') /\ Whole(m \o e, out', failures', fast')
    BY <1>14, <2>1, <2>5, <2>6, Zenon
  <2>8. /\ chunk' = chunk + 1 /\ offset_in' = offset_in + Header.sz
        /\ offset_out' = offset_out + Len(e)
    BY <2>1, <2>4, Zenon DEF NextChunk
  <2>. QED BY <1>12, <2>2, <2>7, <2>8
<1>18. CASE UnpackCrc
  <2>1. AtChunk({"CRC"}) /\ NextChunk(0) /\ UNCHANGED <<fast, out, failures>>
    BY <1>18, Zenon DEF UnpackCrc
  <2>2. c.type = "CRC" /\ Plain(c)
    BY <1>9, <2>1 DEF AtChunk, Plain
  <2>3. e = <<>> /\ Len(e) = 0 /\ \A i \in 1 .. Len(e) : e[i] = Zero
    <3>1. e = <<>>
      BY <1>10, <2>2
    <3>2. Len(<<>>) = 0
      OBVIOUS
    <3>. QED BY <3>1, <3>2
  <2>4. Held(m \o e, out', failures') /\ Whole(m \o e, out', failures', fast')
    BY <1>15, <2>1, <2>3, Zenon
  <2>5. /\ chunk' = chunk + 1 /\ offset_in' = offset_in + Header.sz
        /\ offset_out' = offset_out + Len(e)
    BY <2>1, <2>3, Zenon DEF NextChunk
  <2>. QED BY <1>12, <2>2, <2>4, <2>5
<1>. QED BY <1>13, <1>16, <1>17, <1>18

ReadInv ==
  pc = "unpack" \/ Unpacked =>
    \E cs, J, M : Stands(cs) /\ Reading(cs, J, M) /\ (pc # "unpack" => chunk = Len(cs))

LEMMA ReadStep == TypeInv /\ BuildInv /\ ReadInv /\ [Next]_vars => ReadInv'
<1>. SUFFICES ASSUME TypeInv, BuildInv, ReadInv, [Next]_vars PROVE ReadInv'
  OBVIOUS
<1>1. ASSUME UNCHANGED <<img, added, foreign>>, NEW cs, Stands(cs)
      PROVE  Stands(cs)' /\ (BelowLimit' <=> BelowLimit)
  <2>1. (BelowLimit' <=> BelowLimit) /\ Meaning' = Meaning
    BY <1>1, SameImage
  <2>. QED BY <1>1, <2>1, Zenon DEF Stands
<1>2. CASE UnpackBegins
  <2>1. pc = "built" /\ pc' = "unpack"
        /\ UNCHANGED <<img, added, foreign, chunk, offset_in, offset_out, out, failures>>
    BY <1>2 DEF UnpackBegins, reader, history
  <2>2. PICK cs : Stands(cs)
    BY <2>1 DEF BuildInv
  <2>3. cs \in Seq(Chunk) /\ Stands(cs)'
    BY <1>1, <2>1, <2>2 DEF Stands
  <2>4. Parts(cs) \in Seq(Seq(Unit)) /\ Expansions(cs) \in Seq(Seq(Unit)) /\ Len(cs) \in Nat
    BY <2>3, PartsType
  <2>5. PICK J : Joins(J, Parts(cs), Unit)
    BY <2>4, JoinExists
  <2>6. PICK M : Joins(M, Expansions(cs), Unit)
    BY <2>4, JoinExists
  <2>7. J[0] = <<>> /\ M[0] = <<>> /\ Len(<<>>) = 0
    BY <2>5, <2>6 DEF Joins
  <2>8. offset_in' = 1 /\ offset_out' = 0 /\ chunk' = 0 /\ out' = <<>>
    BY <2>1 DEF BuildInv
  <2>9. Reading(cs, J, M)'
    <3>1. \A i \in 1 .. chunk' : Plain(cs[i])
      BY <2>8
    <3>2. offset_in' = 1 + Len(J[chunk']) /\ offset_out' = Len(M[chunk'])
      BY <2>7, <2>8
    <3>3. Held(M[chunk'], out', failures') /\ Whole(M[chunk'], out', failures', fast')
      <4>1. Held(<<>>, <<>>, failures')
        BY <2>7 DEF Held
      <4>2. Whole(<<>>, <<>>, failures', fast')
        BY Zenon DEF Whole
      <4>. QED BY <2>7, <2>8, <4>1, <4>2, Zenon
    <3>4. Read(cs, J, M)'
      BY <3>1, <3>2, <3>3, Zenon DEF Read
    <3>5. chunk' \in 0 .. Len(cs)
      BY <2>4, <2>8
    <3>. QED BY <2>5, <2>6, <3>4, <3>5, Zenon DEF Reading
  <2>. QED BY <2>1, <2>3, <2>9, Zenon DEF ReadInv
<1>3. CASE UnpackRaw \/ UnpackDontCare \/ UnpackFill \/ UnpackCrc
  <2>1. /\ pc = "unpack" /\ pc' = "unpack" /\ chunk < TotalChunks /\ chunk' = chunk + 1
        /\ UNCHANGED <<img, added, foreign>>
    BY <1>3 DEF UnpackRaw, UnpackDontCare, UnpackFill, UnpackCrc, AtChunk, NextChunk, history
  <2>2. PICK cs, J, M : Stands(cs) /\ Reading(cs, J, M)
    BY <2>1 DEF ReadInv
  <2>3. Stands(cs)' /\ (BelowLimit' <=> BelowLimit)
    BY <1>1, <2>1, <2>2
  <2>4. /\ Joins(J, Parts(cs), Unit) /\ Joins(M, Expansions(cs), Unit)
        /\ chunk' \in 0 .. Len(cs)
    <3>1. chunk \in 0 .. Len(cs) /\ Joins(J, Parts(cs), Unit) /\ Joins(M, Expansions(cs), Unit)
      BY <2>2 DEF Reading
    <3>2. TotalChunks = Len(cs) /\ Len(cs) \in Nat
      BY <2>2, CountIs DEF Stands
    <3>. QED BY <2>1, <3>1, <3>2
  <2>5. BelowLimit => Read(cs, J, M)'
    BY <1>3, <2>1, <2>2, ChunkUnpacked
  <2>6. Reading(cs, J, M)'
    BY <2>3, <2>4, <2>5, Zenon DEF Reading
  <2>. QED BY <2>1, <2>3, <2>6, Zenon DEF ReadInv
<1>4. CASE UnpackEnds
  <2>1. /\ pc = "unpack" /\ chunk >= TotalChunks
        /\ UNCHANGED <<img, added, foreign, chunk, offset_in, offset_out, out, failures>>
    BY <1>4 DEF UnpackEnds, reader, history
  <2>2. fast' = fast
    BY <1>4, Zenon DEF UnpackEnds, reader
  <2>3. PICK cs, J, M : Stands(cs) /\ Reading(cs, J, M)
    BY <2>1 DEF ReadInv
  <2>4. Stands(cs)' /\ (BelowLimit' <=> BelowLimit)
    BY <1>1, <2>1, <2>3
  <2>5. chunk' = Len(cs)
    <3>1. chunk \in 0 .. Len(cs)
      BY <2>3 DEF Reading
    <3>2. TotalChunks = Len(cs) /\ Len(cs) \in Nat
      BY <2>3, CountIs DEF Stands
    <3>. QED BY <2>1, <3>1, <3>2
  <2>6. Reading(cs, J, M)'
    BY <2>1, <2>2, <2>3, <2>4, Zenon DEF Reading, Read
  <2>. QED BY <2>4, <2>5, <2>6, Zenon DEF ReadInv
<1>5. CASE UnpackRawFails \/ UnpackRefuses \/ FinishFails
  <2>1. pc' = "done" /\ ret' = -1
    BY <1>5 DEF UnpackRawFails, UnpackRefuses, FinishFails
  <2>. QED BY <2>1 DEF ReadInv, Unpacked
<1>6. CASE WriteRun
  <2>1. \/ pc' = "write"
        \/ pc' = "done" /\ ret' = -1
    BY <1>6 DEF WriteRun
  <2>. QED BY <2>1 DEF ReadInv, Unpacked
<1>7. CASE FinishBegins \/ FinishEnds \/ \E from \in Block, count \in 1 .. TotalBlks : AddChunk(from, count)
  <2>1. pc' \in {"add", "write", "built"}
    BY <1>7 DEF FinishBegins, FinishEnds, AddChunk
  <2>. QED BY <2>1 DEF ReadInv, Unpacked
<1>8. CASE UNCHANGED vars
  <2>1. UNCHANGED <<pc, ret, img, added, foreign, chunk, offset_in, offset_out, out, failures>>
    BY <1>8 DEF vars, reader, history
  <2>2. fast' = fast
    BY <1>8, Zenon DEF vars, reader
  <2>. SUFFICES ASSUME pc = "unpack" \/ Unpacked
                PROVE  \E cs, J, M : Stands(cs)' /\ Reading(cs, J, M)' /\ (pc' # "unpack" => chunk' = Len(cs))
    BY <2>1 DEF ReadInv, Unpacked
  <2>3. PICK cs, J, M : Stands(cs) /\ Reading(cs, J, M) /\ (pc # "unpack" => chunk = Len(cs))
    BY DEF ReadInv
  <2>4. Stands(cs)' /\ (BelowLimit' <=> BelowLimit)
    BY <1>1, <2>1, <2>3
  <2>5. Reading(cs, J, M)'
    BY <2>1, <2>2, <2>3, <2>4, Zenon DEF Reading, Read
  <2>. QED BY <2>1, <2>3, <2>4, <2>5
<1>. QED BY <1>2, <1>3, <1>4, <1>5, <1>6, <1>7, <1>8 DEF Next

(* sparse_sha1sum reads of every chunk what unpacking it writes.           *)
LEMMA StreamIs ==
  ASSUME NEW cs \in Seq(Chunk), img = LayOut(cs),
         \A i \in 1 .. Len(cs) : Plain(cs[i]) /\ Fits(cs[i].blks)
  PROVE  Sha1Stream = Means(cs)
<1>. DEFINE walk == Walk
            Hashed(i) ==
              LET at == walk[i - 1].at
                  head == ReadUnit(img, at)
                  n == head.n * BlkUnits
              IN IF head.is = "RAW" THEN [u \in 1 .. n |-> ReadUnit(img, at + u)]
                 ELSE IF head.is = "FIL" THEN [u \in 1 .. n |-> ReadUnit(img, at + 1)]
                 ELSE IF head.is = "CRC" THEN <<>> ELSE Zeros(n)
            N == TotalChunks
<1>1. TotalChunks = Len(cs) /\ Len(cs) \in Nat /\ img \in Seq(Unit)
  BY CountIs
<1>2. Parts(cs) \in Seq(Seq(Unit)) /\ Means(cs) = FlattenSeq(Expansions(cs))
  BY PartsType
<1>3. PICK J : Joins(J, Parts(cs), Unit)
  BY <1>2, JoinExists
<1>4. \A k \in 0 .. Len(cs) : Walk[k].at = 1 + Len(J[k])
  <2>1. Len(cs) \in 0 .. Len(cs)
    BY <1>1
  <2>. QED BY <1>3, <2>1, WalkAt
<1>5. Sha1Stream = FlattenSeq([i \in 1 .. N |-> Hashed(i)])
  BY DEF Sha1Stream
<1>. HIDE DEF walk
<1>6. ASSUME NEW i \in 1 .. Len(cs) PROVE Hashed(i) = Expansion(cs[i])
  <2>. DEFINE c == cs[i]
              at == walk[i - 1].at
              head == ReadUnit(img, at)
              n == c.blks * BlkUnits
              e == Expansion(c)
  <2>1. at = 1 + Len(J[i - 1])
    <3>1. i - 1 \in 0 .. Len(cs)
      BY <1>1
    <3>. QED BY <1>4, <3>1 DEF walk
  <2>2. Plain(c) /\ Fits(c.blks)
    OBVIOUS
  <2>3. /\ c \in Chunk /\ n \in Nat
        /\ head.is = c.type /\ (c.type # "CRC" => head.n = c.blks)
        /\ c.type = "RAW" => \A u \in 1 .. n : ReadUnit(img, at + u) = e[u]
        /\ c.type = "FIL" => ReadUnit(img, at + 1) = FillUnit(1)
    <3>1. LET a == 1 + Len(J[i - 1])
              h == ReadUnit(LayOut(cs), a)
          IN /\ c \in Chunk /\ n \in Nat
             /\ h.is = c.type /\ (c.type # "CRC" => h.n = c.blks)
             /\ c.type = "RAW" => \A u \in 1 .. n : ReadUnit(LayOut(cs), a + u) = Expansion(c)[u]
             /\ c.type = "FIL" => ReadUnit(LayOut(cs), a + 1) = FillUnit(1)
      BY <1>3, <2>2, HeadIs
    <3>2. LayOut(cs) = img
      OBVIOUS
    <3>. HIDE DEF c, n
    <3>. QED BY <2>1, <3>1, <3>2, Zenon
  <2>4. e \in Seq(Unit)
    BY <2>3, ChunkType
  <2>5. /\ c.type = "RAW" => Len(e) = n
        /\ c.type = "---" => e = Zeros(n)
        /\ c.type = "FIL" => e = [u \in 1 .. n |-> FillUnit(1)]
        /\ c.type = "CRC" => e = <<>>
    BY <2>3, ExpansionIs
  <2>6. c.type \in {"RAW", "---", "FIL", "CRC"}
    BY <2>2, <2>3 DEF Plain, Chunk, ChunkTypes
  <2>7. Hashed(i) = LET k == head.n * BlkUnits
                    IN IF head.is = "RAW" THEN [u \in 1 .. k |-> ReadUnit(img, at + u)]
                       ELSE IF head.is = "FIL" THEN [u \in 1 .. k |-> ReadUnit(img, at + 1)]
                       ELSE IF head.is = "CRC" THEN <<>> ELSE Zeros(k)
    BY Zenon
  <2>8. c.type # "CRC" => head.n * BlkUnits = n
    BY <2>3, Zenon
  <2>. HIDE DEF Hashed, c, at, head, n, e
  <2>9. CASE c.type = "RAW"
    <3>1. Hashed(i) = [u \in 1 .. n |-> ReadUnit(img, at + u)]
      BY <2>3, <2>7, <2>8, <2>9
    <3>2. [u \in 1 .. n |-> ReadUnit(img, at + u)] = [u \in 1 .. n |-> e[u]]
      BY <2>3, <2>9
    <3>3. e = [u \in 1 .. n |-> e[u]]
      BY <2>3, <2>4, <2>5, <2>9
    <3>. QED BY <3>1, <3>2, <3>3, Zenon DEF e, c
  <2>10. CASE c.type = "FIL"
    <3>1. Hashed(i) = [u \in 1 .. n |-> ReadUnit(img, at + 1)]
      BY <2>3, <2>7, <2>8, <2>10
    <3>. QED BY <2>3, <2>5, <2>10, <3>1, Zenon DEF e, c
  <2>11. CASE c.type = "CRC"
    BY <2>3, <2>5, <2>7, <2>11 DEF e, c
  <2>12. CASE c.type = "---"
    BY <2>3, <2>5, <2>7, <2>8, <2>12 DEF e, c
  <2>. QED BY <2>6, <2>9, <2>10, <2>11, <2>12
<1>. HIDE DEF Hashed
<1>7. [i \in 1 .. N |-> Hashed(i)] = Expansions(cs)
  <2>1. DOMAIN cs = 1 .. N
    BY <1>1
  <2>2. \A i \in 1 .. N : Hashed(i) = Expansion(cs[i])
    BY <1>1, <1>6
  <2>. HIDE DEF N
  <2>3. Expansions(cs) = [i \in 1 .. N |-> Expansion(cs[i])]
    BY <2>1, Zenon DEF Expansions
  <2>. QED BY <2>2, <2>3
<1>. QED BY <1>2, <1>5, <1>7, Zenon

LEMMA Reproduced == TypeInv /\ ReadInv => UnpackReproduces
<1>. SUFFICES ASSUME TypeInv, ReadInv, Unpacked, BelowLimit
              PROVE  /\ \A i \in 1 .. Len(Meaning) :
                          failures = 0 \/ Meaning[i].is = "data" => ReadUnit(out, i - 1) = Meaning[i]
                     /\ failures = 0 => IF fast THEN Len(out) <= Len(Meaning) ELSE out = Meaning
                     /\ failures = 0 /\ ~fast => Sha1Stream = out
  BY Zenon DEF UnpackReproduces
<1>1. PICK cs, J, M : Stands(cs) /\ Reading(cs, J, M) /\ (pc # "unpack" => chunk = Len(cs))
  BY Zenon DEF ReadInv
<1>2. /\ cs \in Seq(Chunk) /\ img = LayOut(cs) /\ Means(cs) = Meaning /\ AllFit(cs)
      /\ Joins(M, Expansions(cs), Unit) /\ Read(cs, J, M) /\ chunk = Len(cs)
  <2>1. pc # "unpack"
    BY DEF Unpacked
  <2>. QED BY <1>1, <2>1, Zenon DEF Stands, Reading
<1>3. M[chunk] = Meaning /\ Meaning \in Seq(Unit)
  <2>1. /\ Expansions(cs) \in Seq(Seq(Unit)) /\ Len(Expansions(cs)) = Len(cs)
        /\ Means(cs) = FlattenSeq(Expansions(cs)) /\ Means(cs) \in Seq(Unit)
    BY <1>2, PartsType
  <2>2. FlattenSeq(Expansions(cs)) = M[Len(Expansions(cs))]
    BY <1>2, <2>1, FlattenIs
  <2>. QED BY <1>2, <2>1, <2>2, Zenon
<1>4. Held(Meaning, out, failures) /\ Whole(Meaning, out, failures, fast)
      /\ \A i \in 1 .. Len(cs) : Plain(cs[i])
  BY <1>2, <1>3, Zenon DEF Read
<1>5. \A i \in 1 .. Len(cs) : Fits(cs[i].blks)
  BY <1>2 DEF AllFit
<1>6. Sha1Stream = Meaning
  BY <1>2, <1>4, <1>5, StreamIs
<1>7. out \in Seq(Unit)
  BY DEF TypeInv
<1>8. \A i \in 1 .. Len(Meaning) :
        failures = 0 \/ Meaning[i].is = "data" => ReadUnit(out, i - 1) = Meaning[i]
  BY <1>4 DEF Held
<1>9. failures = 0 /\ Len(out) = Len(Meaning) => out = Meaning
  <2>. HAVE failures = 0 /\ Len(out) = Len(Meaning)
  <2>1. ASSUME NEW i \in 1 .. Len(out) PROVE out[i] = Meaning[i]
    <3>1. ReadUnit(out, i - 1) = Meaning[i]
      BY <1>8
    <3>2. i - 1 < Len(out) /\ (i - 1) + 1 = i
      BY <1>7
    <3>. QED BY <3>1, <3>2 DEF ReadUnit, UnitAt
  <2>. QED BY <1>3, <1>7, <2>1, SameSequence
<1>10. Len(out) <= Len(Meaning)
  BY <1>4 DEF Held
<1>11. failures = 0 => IF fast THEN Len(out) <= Len(Meaning) ELSE out = Meaning
  BY <1>4, <1>9, <1>10, Zenon DEF Whole
<1>12. failures = 0 /\ ~fast => Sha1Stream = out
  BY <1>6, <1>11, Zenon
<1>. QED BY <1>8, <1>11, <1>12, Zenon

LEMMA ImagesHold == Spec => [](TypeInv /\ BuildInv /\ ReadInv)
<1>1. Init => BitsInv /\ TypeInv /\ BuildInv /\ ReadInv
  <2>1. Init => ReadInv
    BY DEF Init, ReadInv, Unpacked
  <2>. QED BY <2>1, BitsStart, TypeStart, BuildStart
<1>2. BitsInv /\ TypeInv /\ BuildInv /\ ReadInv /\ [Next]_vars
        => (BitsInv /\ TypeInv /\ BuildInv /\ ReadInv)'
  BY BitsStep, TypeStep, BuildStep, ReadStep
<1>. QED BY <1>1, <1>2, PTL DEF Spec

(* android_sparse_finish leaves a well-formed image, in whatever order and *)
(* however often the blocks were added: the chunks it wrote follow each    *)
(* other to the end of the file, count every block once, and RAW and       *)
(* DONT_CARE chunks take turns.                                            *)
THEOREM ImageCorrect == Spec => []ImageIsExact
<1>1. BuildInv => ImageIsExact
  BY ExactImage
<1>. QED BY <1>1, ImagesHold, PTL

(* sparse_unpack2fd gives back what an image stands for, whoever made it,  *)
(* loses no byte of a RAW chunk to a failing write, and sparse_sha1sum     *)
(* hashes what it writes.                                                  *)
THEOREM UnpackCorrect == Spec => []UnpackReproduces
<1>1. TypeInv /\ ReadInv => UnpackReproduces
  BY Reproduced
<1>. QED BY <1>1, ImagesHold, PTL
=============================================================================
