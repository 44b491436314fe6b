------------------------------- MODULE Lemmas --------------------------------
(***************************************************************************)
(* Facts that the proofs of several modules need: induction over the       *)
(* natural numbers as a statement about sets, the least element of a set   *)
(* of numbers, division, and what write() leaves in a file.                *)
(***************************************************************************)
EXTENDS Files, WellFoundedInduction, TLAPS

(* A set that has 0 and with each number the next one has all of them.     *)
LEMMA SetInduction ==
  ASSUME NEW S, 0 \in S, \A n \in Nat : n \in S => n + 1 \in S
  PROVE  \A n \in Nat : n \in S
<1>. SUFFICES ASSUME Nat \ S # {} PROVE FALSE
  OBVIOUS
<1>. DEFINE R == OpToRel(<, Nat)
<1>1. PICK n \in Nat \ S : \A m \in Nat \ S : <<m, n>> \notin R
  <2>. HIDE DEF R
  <2>1. IsWellFoundedOn(R, Nat)
    BY NatLessThanWellFounded DEF R
  <2>. QED BY <2>1, WFMin
<1>2. n - 1 \in Nat
  BY SMT
<1>3. <<n - 1, n>> \in R
  BY <1>2 DEF OpToRel
<1>4. n - 1 \in S
  BY <1>1, <1>2, <1>3
<1>. QED BY <1>2, <1>4

LEMMA LeastExists ==
  ASSUME NEW S \in SUBSET Nat, S # {}
  PROVE  \E n \in S : \A m \in S : n <= m
<1>. DEFINE R == OpToRel(<, Nat)
<1>1. PICK n \in S : \A m \in S : <<m, n>> \notin R
  <2>. HIDE DEF R
  <2>1. IsWellFoundedOn(R, Nat)
    BY NatLessThanWellFounded DEF R
  <2>. QED BY <2>1, WFMin
<1>2. ASSUME NEW m \in S PROVE n <= m
  <2>1. m < n => <<m, n>> \in R
    BY DEF OpToRel
  <2>. HIDE DEF R
  <2>. QED BY <1>1, <2>1
<1>. QED BY <1>2

-----------------------------------------------------------------------------
(* Multiples.                                                              *)
LEMMA Quotient ==
  ASSUME NEW n \in Int, NEW b \in Nat \ {0}, n % b = 0
  PROVE  n = b * (n \div b) /\ n \div b \in Int
OBVIOUS

LEMMA NextMultiple ==
  ASSUME NEW a \in Int, NEW c \in Int, NEW b \in Nat \ {0}, a % b = 0, c % b = 0, a < c
  PROVE  a + b <= c
<1>. DEFINE q == a \div b
            r == c \div b
<1>1. a = b * q /\ c = b * r /\ q \in Int /\ r \in Int
  BY Quotient
<1>. HIDE DEF q, r
<1>2. q < r
  <2>1. ASSUME r <= q PROVE b * r <= b * q
    BY <1>1, <2>1
  <2>. QED BY <1>1, <2>1
<1>3. b * (q + 1) <= b * r
  BY <1>1, <1>2
<1>4. b * (q + 1) = b * q + b
  BY <1>1
<1>. QED BY <1>1, <1>3, <1>4

LEMMA SubtractStep ==
  ASSUME NEW n \in Int, NEW b \in Nat \ {0}, n % b = 0
  PROVE  (n - b) % b = 0
<1>1. PICK q \in Int : n = b * q
  BY Quotient
<1>2. n - b = b * (q - 1)
  BY <1>1
<1>. QED BY <1>2

(* The number of whole steps, rounded up.                                  *)
LEMMA RoundUp ==
  ASSUME NEW n \in Nat, NEW b \in Nat \ {0}
  PROVE  LET r == ((n + b - 1) \div b) * b
         IN /\ r \in Nat /\ r % b = 0 /\ n <= r /\ r < n + b
            /\ \A c \in Nat : c % b = 0 /\ n <= c => r <= c
<1>. DEFINE q == (n + b - 1) \div b
            r == q * b
            d == (n + b - 1) % b
<1>1. q \in Nat /\ d \in 0 .. b - 1 /\ n + b - 1 = b * q + d
  OBVIOUS
<1>. HIDE DEF q, d
<1>2. r \in Nat /\ n <= r /\ r < n + b
  BY <1>1
<1>3. r % b = 0
  BY <1>1
<1>4. ASSUME NEW c \in Nat, c % b = 0, n <= c PROVE r <= c
  <2>. HIDE DEF r
  <2>1. CASE c < r
    <3>1. c \in Int /\ r \in Int
      BY <1>2
    <3>2. c + b <= r
      BY <1>3, <1>4, <2>1, <3>1, NextMultiple, Zenon
    <3>. QED BY <1>2, <1>4, <3>2
  <2>. QED BY <1>2, <1>4, <2>1
<1>. QED BY <1>2, <1>3, <1>4 DEF q

-----------------------------------------------------------------------------
(* write(): the file is as long as before or as far as the write reaches;  *)
(* only the units written, and a hole before them, are new.                *)
IsWritten(w, f, at, u, hole) ==
  /\ Len(w) = IF at + Len(u) > Len(f) THEN at + Len(u) ELSE Len(f)
  /\ \A i \in 1 .. Len(w) : w[i] = IF at < i /\ i <= at + Len(u) THEN u[i - at]
                                   ELSE IF i <= Len(f) THEN f[i] ELSE hole

LEMMA WriteAtProperties ==
  \A S, f, at, u, hole :
    f \in Seq(S) /\ at \in Nat /\ u \in Seq(S) /\ hole \in S =>
      WriteAt(f, at, u, hole) \in Seq(S) /\ IsWritten(WriteAt(f, at, u, hole), f, at, u, hole)
<1>. TAKE S, f, at, u, hole
<1>. HAVE f \in Seq(S) /\ at \in Nat /\ u \in Seq(S) /\ hole \in S
<1>. DEFINE n == IF at + Len(u) > Len(f) THEN at + Len(u) ELSE Len(f)
            w == WriteAt(f, at, u, hole)
<1>1. n \in Nat
  OBVIOUS
<1>2. \A i \in 1 .. n : w[i] = IF at < i /\ i <= at + Len(u) THEN u[i - at]
                               ELSE IF i <= Len(f) THEN f[i] ELSE hole
  BY DEF WriteAt
<1>3. \A i \in 1 .. n : w[i] \in S
  BY <1>1, <1>2
<1>4. w \in [1 .. n -> S]
  BY <1>3 DEF WriteAt
<1>. HIDE DEF w, n
<1>5. w \in Seq(S) /\ Len(w) = n
  BY <1>1, <1>4
<1>. QED BY <1>2, <1>5 DEF w, n, IsWritten

(* Concatenation.                                                          *)
LEMMA ConcatProperties ==
  ASSUME NEW S, NEW s \in Seq(S), NEW t \in Seq(S)
  PROVE  /\ s \o t \in Seq(S)
         /\ Len(s \o t) = Len(s) + Len(t)
         /\ \A i \in 1 .. Len(s) : (s \o t)[i] = s[i]
         /\ \A i \in 1 .. Len(t) : (s \o t)[Len(s) + i] = t[i]
OBVIOUS
=============================================================================
