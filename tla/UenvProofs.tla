----------------------------- MODULE UenvProofs ------------------------------
(***************************************************************************)
(* Proofs about Uenv, for any sizes, texts, and whatever follows the       *)
(* environment.                                                            *)
(*                                                                         *)
(* The size that detect finds is right because a checksum is of bytes of   *)
(* which there are as many as it was made from; and it finds every size    *)
(* that it can, because no step from one trial to the next passes one.     *)
(*                                                                         *)
(* The text is listed again because what is packed of it is whole lines,   *)
(* each string once and one NUL behind each, and zeros from there on.      *)
(***************************************************************************)
EXTENDS Uenv, Lemmas

Character == {"a", "ESC", "NL"}
Unit == {"crc", "NUL", "1", "a", "LF", "ff"}

(* What the image holds behind its checksum: the part, then the strings.   *)
Packed(i) == img[i] \in {"NUL", "a", "LF"} \/ (i = 2 /\ img[i] = "1")
ImageInv ==
  /\ Len(img) >= title.size /\ at > 0
  /\ \A i \in 2 .. title.size : Packed(i)

(* The checksum is of as many units as the environment has.                *)
ChecksumInv ==
  /\ Len(img) > 0
  /\ crc = SubSeq(img, 2, title.size)

(* The next size is one that can be detected, and the size of the          *)
(* environment is not passed.                                              *)
Multiple(n) == n % better_sz = 0 /\ n > 0
AHalf(n) == \E k \in 1 .. better_sz : n = Halved[k]
NotPassed == title.size <= sz /\ (Multiple(sz) \/ AHalf(sz))

SizeInv ==
  /\ pc \in {"title", "lines", "packed", "detect"} => env_size = 0
  /\ pc = "list" => env_size = title.size /\ env_size > UENV_MINIMUM_SIZE
  /\ pc \in {"lines", "packed", "detect", "list"} => ImageInv
  /\ pc \in {"packed", "detect"} => ChecksumInv
  /\ pc = "detect" /\ Detectable(title.size) => NotPassed

Inv == TypeOK /\ DetectIsExact /\ SizeInv

-----------------------------------------------------------------------------
(* Halving.                                                                *)
LEMMA HalvedDef ==
  /\ Halved[0] = better_sz
  /\ \A k \in 1 .. better_sz : Halved[k] = Halved[k - 1] \div 2
<1>. DEFINE Def(n) == \E g : g = [k \in 0 .. n |-> IF k = 0 THEN better_sz ELSE g[k - 1] \div 2]
            S == {n \in Nat : Def(n)}
<1>1. 0 \in S
  <2>1. [k \in 0 .. 0 |-> better_sz] = [k \in 0 .. 0 |-> IF k = 0 THEN better_sz
                                          ELSE [j \in 0 .. 0 |-> better_sz][k - 1] \div 2]
    OBVIOUS
  <2>. QED BY <2>1
<1>2. ASSUME NEW n \in Nat, n \in S PROVE n + 1 \in S
  <2>1. PICK g : g = [k \in 0 .. n |-> IF k = 0 THEN better_sz ELSE g[k - 1] \div 2]
    BY <1>2
  <2>. DEFINE h == [k \in 0 .. n + 1 |-> IF k = n + 1 THEN g[n] \div 2 ELSE g[k]]
  <2>2. h = [k \in 0 .. n + 1 |-> IF k = 0 THEN better_sz ELSE h[k - 1] \div 2]
    <3>1. ASSUME NEW k \in 0 .. n + 1
          PROVE  h[k] = IF k = 0 THEN better_sz ELSE h[k - 1] \div 2
      <4>1. CASE k = n + 1
        BY <4>1
      <4>2. CASE k # n + 1
        <5>1. k \in 0 .. n /\ h[k] = g[k] /\ (k # 0 => h[k - 1] = g[k - 1])
          BY <4>2
        <5>. QED BY <2>1, <5>1
      <4>. QED BY <4>1, <4>2
    <3>. QED BY <3>1
  <2>3. Def(n + 1)
    <3>. HIDE DEF h
    <3>. QED BY <2>2
  <2>. HIDE DEF Def
  <2>. QED BY <2>3
<1>3. Def(better_sz)
  <2>. HIDE DEF Def
  <2>. QED BY <1>1, <1>2, SetInduction, UenvAssumption
<1>4. Halved = [k \in 0 .. better_sz |-> IF k = 0 THEN better_sz ELSE Halved[k - 1] \div 2]
  BY <1>3 DEF Halved
<1>. QED BY <1>4, UenvAssumption

LEMMA HalvedFalls ==
  /\ \A k \in 0 .. better_sz : Halved[k] \in Nat
  /\ \A k, j \in 0 .. better_sz : k <= j => Halved[j] <= Halved[k]
  /\ \A k \in 1 .. better_sz : Halved[k] < better_sz
<1>. DEFINE S == {n \in Nat : n <= better_sz =>
                     Halved[n] \in Nat /\ \A k \in 0 .. n : Halved[n] <= Halved[k] /\ Halved[k] \in Nat}
<1>1. 0 \in S
  BY HalvedDef, UenvAssumption
<1>2. ASSUME NEW n \in Nat, n \in S PROVE n + 1 \in S
  <2>. SUFFICES ASSUME n + 1 <= better_sz
                PROVE Halved[n + 1] \in Nat /\ \A k \in 0 .. n + 1 : Halved[n + 1] <= Halved[k] /\ Halved[k] \in Nat
    OBVIOUS
  <2>1. Halved[n + 1] = Halved[n] \div 2 /\ Halved[n] \in Nat
    <3>1. n + 1 \in 1 .. better_sz /\ (n + 1) - 1 = n
      BY UenvAssumption
    <3>. QED BY <1>2, <3>1, HalvedDef, UenvAssumption
  <2>2. Halved[n + 1] \in Nat /\ Halved[n + 1] <= Halved[n]
    BY <2>1
  <2>3. ASSUME NEW k \in 0 .. n + 1 PROVE Halved[n + 1] <= Halved[k] /\ Halved[k] \in Nat
    <3>1. CASE k = n + 1
      BY <2>2, <3>1
    <3>2. CASE k # n + 1
      <4>1. k \in 0 .. n /\ n <= better_sz
        BY <3>2, UenvAssumption
      <4>2. Halved[n] <= Halved[k] /\ Halved[k] \in Nat
        BY <1>2, <4>1
      <4>. QED BY <2>1, <2>2, <4>2
    <3>. QED BY <3>1, <3>2
  <2>. QED BY <2>2, <2>3
<1>3. \A n \in Nat : n \in S
  <2>. HIDE DEF S
  <2>. QED BY <1>1, <1>2, SetInduction
<1>4. ASSUME NEW k \in 1 .. better_sz PROVE Halved[k] < better_sz
  <2>1. Halved[1] = better_sz \div 2
    BY HalvedDef, UenvAssumption
  <2>2. Halved[k] <= Halved[1]
    BY <1>3, UenvAssumption
  <2>3. better_sz \div 2 < better_sz /\ better_sz \div 2 \in Int
    BY UenvAssumption
  <2>4. Halved[k] \in Nat
    BY <1>3, UenvAssumption
  <2>. QED BY <2>1, <2>2, <2>3, <2>4, UenvAssumption
<1>5. ASSUME NEW k \in 0 .. better_sz, NEW j \in 0 .. better_sz, k <= j
      PROVE  Halved[j] <= Halved[k] /\ Halved[j] \in Nat
  <2>1. j \in Nat /\ k \in 0 .. j /\ j <= better_sz
    BY <1>5, UenvAssumption
  <2>. QED BY <1>3, <2>1
<1>6. ASSUME NEW k \in 0 .. better_sz PROVE Halved[k] \in Nat
  <2>1. k <= k
    BY UenvAssumption
  <2>. QED BY <1>5, <2>1
<1>. QED BY <1>4, <1>5, <1>6

-----------------------------------------------------------------------------
(* The sizes that are tried, from the first one on.                        *)
LEMMA FirstSizeProperties ==
  ASSUME NEW n \in Nat
  PROVE  /\ FirstSize(n) \in 0 .. UENV_MAXIMUM_SIZE
         /\ FirstSize(n) % better_sz = 0
         /\ \A m \in Nat : m <= n /\ m <= UENV_MAXIMUM_SIZE => m <= FirstSize(n)
<1>1. CASE n >= UENV_MAXIMUM_SIZE
  BY <1>1, UenvAssumption DEF FirstSize
<1>2. CASE n < UENV_MAXIMUM_SIZE
  <2>. DEFINE r == aligned_length(n)
  <2>1. /\ r \in Nat /\ r % better_sz = 0 /\ n <= r
        /\ \A c \in Nat : c % better_sz = 0 /\ n <= c => r <= c
    BY RoundUp, UenvAssumption DEF aligned_length
  <2>2. FirstSize(n) = r
    BY <1>2, UenvAssumption DEF FirstSize
  <2>. HIDE DEF r
  <2>3. r <= UENV_MAXIMUM_SIZE
    <3>1. UENV_MAXIMUM_SIZE \in Nat /\ UENV_MAXIMUM_SIZE % better_sz = 0 /\ n <= UENV_MAXIMUM_SIZE
      BY <1>2, UenvAssumption
    <3>. QED BY <2>1, <3>1, Zenon
  <2>. QED BY <1>2, <2>1, <2>2, <2>3, UenvAssumption
<1>. QED BY <1>1, <1>2, UenvAssumption

LEMMA DetectableSize ==
  ASSUME NEW n \in Nat, Detectable(n)
  PROVE  n > 0 /\ n > UENV_MINIMUM_SIZE /\ n <= UENV_MAXIMUM_SIZE /\ (Multiple(n) \/ AHalf(n))
BY UenvAssumption DEF Detectable, Multiple, AHalf

(* From a size that can be tried to the next, without passing another one. *)
LEMMA SmallerProperties ==
  ASSUME NEW n \in Nat, sz \in Nat, Detectable(n), n < sz, Multiple(sz) \/ AHalf(sz)
  PROVE  Smaller \in Nat /\ n <= Smaller /\ (Multiple(Smaller) \/ AHalf(Smaller))
<1>1. n > 0 /\ (Multiple(n) \/ AHalf(n))
  BY DetectableSize, UenvAssumption
<1>2. better_sz \in Nat /\ better_sz > 0
  BY UenvAssumption
<1>3. CASE sz > better_sz
  <2>1. Smaller = sz - better_sz /\ Smaller \in Nat
    BY <1>2, <1>3 DEF Smaller
  <2>2. Multiple(sz)
    BY <1>2, <1>3, HalvedFalls DEF AHalf
  <2>3. Multiple(Smaller)
    <3>1. (sz - better_sz) % better_sz = 0
      <4>1. sz \in Int /\ better_sz \in Nat \ {0} /\ sz % better_sz = 0
        BY <1>2, <2>2 DEF Multiple
      <4>. QED BY <4>1, SubtractStep, Zenon
    <3>. QED BY <2>1, <3>1, <1>3, <1>2 DEF Multiple
  <2>4. n <= Smaller
    <3>1. CASE Multiple(n)
      <4>1. n + better_sz <= sz
        <5>1. n \in Int /\ sz \in Int /\ better_sz \in Nat \ {0} /\ n % better_sz = 0 /\ sz % better_sz = 0
          BY <1>2, <2>2, <3>1 DEF Multiple
        <5>. QED BY <5>1, NextMultiple, Zenon
      <4>. QED BY <1>2, <2>1, <4>1
    <3>2. CASE AHalf(n)
      <4>1. n < better_sz
        BY <3>2, HalvedFalls DEF AHalf
      <4>2. better_sz <= Smaller
        <5>1. better_sz + better_sz <= sz
          <6>1. better_sz \in Int /\ sz \in Int /\ better_sz \in Nat \ {0}
                /\ better_sz % better_sz = 0 /\ sz % better_sz = 0 /\ better_sz < sz
            BY <1>2, <1>3, <2>2 DEF Multiple
          <6>. QED BY <6>1, NextMultiple, Zenon
        <5>. QED BY <1>2, <2>1, <5>1
      <4>. QED BY <1>2, <2>1, <4>1, <4>2
    <3>. QED BY <1>1, <3>1, <3>2
  <2>. QED BY <2>1, <2>3, <2>4
<1>4. CASE sz <= better_sz
  <2>1. Smaller = sz \div 2 /\ Smaller \in Nat
    BY <1>2, <1>4 DEF Smaller
  <2>2. PICK k \in 0 .. better_sz : sz = Halved[k]
    <3>1. CASE Multiple(sz)
      <4>1. sz = better_sz
        <5>1. CASE sz < better_sz
          <6>1. sz \in Int /\ better_sz \in Int /\ better_sz \in Nat \ {0}
                /\ better_sz % better_sz = 0 /\ sz % better_sz = 0 /\ sz < better_sz
            BY <1>2, <3>1, <5>1 DEF Multiple
          <6>2. sz + better_sz <= better_sz
            BY <6>1, NextMultiple, Zenon
          <6>. QED BY <6>2, <1>2, <3>1 DEF Multiple
        <5>. QED BY <1>2, <1>4, <5>1
      <4>. QED BY <1>2, <4>1, HalvedDef
    <3>2. CASE AHalf(sz)
      BY <1>2, <3>2 DEF AHalf
    <3>. QED BY <3>1, <3>2
  <2>3. PICK j \in 1 .. better_sz : n = Halved[j]
    <3>1. CASE Multiple(n)
      <4>1. n < better_sz
        BY <1>2, <1>4
      <4>2. n \in Int /\ better_sz \in Int /\ better_sz \in Nat \ {0}
            /\ better_sz % better_sz = 0 /\ n % better_sz = 0 /\ n < better_sz
        BY <1>2, <3>1, <4>1 DEF Multiple
      <4>3. n + better_sz <= better_sz
        BY <4>2, NextMultiple, Zenon
      <4>. QED BY <4>3, <1>1, <1>2
    <3>. QED BY <1>1, <3>1 DEF AHalf
  <2>4. k < j
    <3>1. CASE j <= k
      <4>1. Halved[k] <= Halved[j]
        BY <1>2, <2>2, <2>3, <3>1, HalvedFalls
      <4>. QED BY <2>2, <2>3, <4>1
    <3>. QED BY <1>2, <2>2, <2>3, <3>1
  <2>5. k + 1 \in 1 .. better_sz /\ (k + 1) - 1 = k /\ k + 1 <= j
    BY <1>2, <2>2, <2>3, <2>4
  <2>6. Smaller = Halved[k + 1]
    BY <2>1, <2>2, <2>5, HalvedDef
  <2>7. Halved[j] <= Halved[k + 1]
    BY <1>2, <2>3, <2>5, HalvedFalls
  <2>. QED BY <2>1, <2>3, <2>5, <2>6, <2>7 DEF AHalf
<1>. QED BY <1>2, <1>3, <1>4

-----------------------------------------------------------------------------
(* A line that is packed: no newline is left in it.                        *)
Stored == {"NUL", "a", "LF"}

LEMMA TakenProperties ==
  ASSUME text \in Seq(Character), text # <<>>
  PROVE  Taken \in 1 .. Len(text) /\ \A i \in 1 .. Taken - 1 : text[i] # "NL"
<1>. DEFINE most == IF Len(text) < LineMax THEN Len(text) ELSE LineMax
<1>1. most \in 1 .. Len(text) /\ EndOfLine = {i \in 1 .. Len(text) : text[i] = "NL"}
  BY UenvAssumption DEF EndOfLine
<1>2. CASE \E i \in EndOfLine : i <= most
  <2>1. EndOfLine \in SUBSET Nat /\ EndOfLine # {}
    BY <1>1, <1>2
  <2>2. \E i \in EndOfLine : \A j \in EndOfLine : i <= j
    BY <2>1, LeastExists
  <2>. DEFINE t == CHOOSE i \in EndOfLine : \A j \in EndOfLine : i <= j
  <2>3. t \in EndOfLine /\ \A j \in EndOfLine : t <= j
    BY <2>2
  <2>4. Taken = t
    BY <1>2 DEF Taken
  <2>. HIDE DEF t
  <2>. QED BY <1>1, <2>3, <2>4
<1>3. CASE ~\E i \in EndOfLine : i <= most
  <2>1. Taken = most
    BY <1>3 DEF Taken
  <2>. QED BY <1>1, <1>3, <2>1
<1>. QED BY <1>2, <1>3

LEMMA LineProperties ==
  ASSUME text \in Seq(Character), text # <<>>
  PROVE  WithEnd(Unescaped) \in Seq(Stored) /\ Len(WithEnd(Unescaped)) > 0
<1>. DEFINE n == IF text[Taken] = "NL" THEN Taken - 1 ELSE Taken
<1>1. n \in Nat /\ n <= Len(text) /\ \A i \in 1 .. n : text[i] \in {"a", "ESC"}
  BY TakenProperties DEF Character
<1>. HIDE DEF n
<1>2. Buffer \in Seq({"a", "ESC"})
  BY <1>1 DEF Buffer, n
<1>3. Unescaped \in [1 .. Len(Buffer) -> Stored]
  BY <1>2 DEF Unescaped, Stored
<1>4. Unescaped \in Seq(Stored) /\ Len(Unescaped) \in Nat
  BY <1>2, <1>3
<1>. QED BY <1>4 DEF WithEnd, Stored

(* The strings, from any character of the image that is part of one.       *)
LEMMA StringsDef ==
  ASSUME env_size \in Nat \ {0}
  PROVE  \A s \in 1 .. env_size :
           Strings[s] = IF s >= env_size - 1 THEN <<>>
                        ELSE IF img[s + 1] = "LF" THEN <<"ESC", "NL">> \o Strings[s + 1]
                        ELSE IF img[s + 1] # "NUL" THEN <<img[s + 1]>> \o Strings[s + 1]
                        ELSE IF img[s + 2] = "NUL" THEN <<"NL">> ELSE <<"NL">> \o Strings[s + 1]
<1>. DEFINE Step(s, rest) == IF s >= env_size - 1 THEN <<>>
                             ELSE IF img[s + 1] = "LF" THEN <<"ESC", "NL">> \o rest
                             ELSE IF img[s + 1] # "NUL" THEN <<img[s + 1]>> \o rest
                             ELSE IF img[s + 2] = "NUL" THEN <<"NL">> ELSE <<"NL">> \o rest
            From(n) == \E g : g = [s \in env_size - n .. env_size |-> Step(s, g[s + 1])]
            S == {n \in Nat : From(n)}
<1>0. \A s \in Int : \A r1, r2 : s >= env_size - 1 => Step(s, r1) = Step(s, r2)
  OBVIOUS
<1>. HIDE DEF Step
<1>1. 0 \in S
  <2>. DEFINE g == [s \in env_size - 0 .. env_size |-> Step(s, <<>>)]
  <2>1. g = [s \in env_size - 0 .. env_size |-> Step(s, g[s + 1])]
    BY <1>0
  <2>2. From(0)
    <3>. HIDE DEF g
    <3>. QED BY <2>1
  <2>. HIDE DEF From
  <2>. QED BY <2>2
<1>2. ASSUME NEW n \in Nat, n \in S PROVE n + 1 \in S
  <2>1. PICK g : g = [s \in env_size - n .. env_size |-> Step(s, g[s + 1])]
    BY <1>2
  <2>. DEFINE first == env_size - (n + 1)
              h == [s \in first .. env_size |-> IF s = first THEN Step(s, g[s + 1]) ELSE g[s]]
  <2>2. ASSUME NEW s \in first .. env_size PROVE h[s] = Step(s, h[s + 1])
    <3>1. CASE s = env_size
      <4>1. s # first /\ s \in env_size - n .. env_size /\ s >= env_size - 1
        BY <3>1
      <4>2. h[s] = Step(s, g[s + 1])
        BY <2>1, <4>1
      <4>. QED BY <1>0, <4>1, <4>2
    <3>2. CASE s # env_size
      <4>1. s + 1 \in first .. env_size /\ s + 1 # first
        BY <3>2
      <4>2. h[s + 1] = g[s + 1]
        BY <4>1
      <4>3. h[s] = Step(s, g[s + 1])
        <5>1. CASE s = first
          BY <5>1
        <5>2. CASE s # first
          <6>1. s \in env_size - n .. env_size
            BY <5>2
          <6>. QED BY <2>1, <5>2, <6>1
        <5>. QED BY <5>1, <5>2
      <4>. QED BY <4>2, <4>3
    <3>. QED BY <3>1, <3>2
  <2>3. h = [s \in first .. env_size |-> Step(s, h[s + 1])]
    <3>1. h = [s \in first .. env_size |-> h[s]]
      OBVIOUS
    <3>. HIDE DEF h
    <3>. QED BY <2>2, <3>1
  <2>4. From(n + 1)
    <3>. HIDE DEF h
    <3>. QED BY <2>3
  <2>. HIDE DEF From
  <2>. QED BY <2>4
<1>3. From(env_size - 1)
  <2>1. env_size - 1 \in Nat
    OBVIOUS
  <2>. HIDE DEF From
  <2>2. \A n \in Nat : n \in S
    <3>. HIDE DEF S
    <3>. QED BY <1>1, <1>2, SetInduction
  <2>. QED BY <2>1, <2>2
<1>4. env_size - (env_size - 1) = 1
  OBVIOUS
<1>5. \E g : g = [s \in 1 .. env_size |-> Step(s, g[s + 1])]
  BY <1>3, <1>4
<1>6. Strings = [s \in 1 .. env_size |-> Step(s, Strings[s + 1])]
  BY <1>5 DEF Strings, Step
<1>7. ASSUME NEW s \in 1 .. env_size PROVE Strings[s] = Step(s, Strings[s + 1])
  BY <1>6
<1>. QED BY <1>7 DEF Step

LEMMA StringsType ==
  ASSUME env_size \in Nat \ {0}, \A i \in 2 .. env_size : Packed(i),
         NEW f \in 1 .. env_size, f = 1 => img[2] # "1"
  PROVE  Strings[f] \in Seq(Character)
<1>. DEFINE Typed(n) == \A s \in f .. env_size : s >= env_size - n => Strings[s] \in Seq(Character)
            S == {n \in Nat : Typed(n)}
<1>1. 0 \in S
  <2>1. env_size \in 1 .. env_size /\ env_size >= env_size - 1
    OBVIOUS
  <2>2. Strings[env_size] = <<>>
    BY <2>1, StringsDef
  <2>3. \A s \in f .. env_size : s >= env_size - 0 => s = env_size
    OBVIOUS
  <2>4. <<>> \in Seq(Character)
    OBVIOUS
  <2>. QED BY <2>2, <2>3, <2>4
<1>2. ASSUME NEW n \in Nat, n \in S PROVE n + 1 \in S
  <2>1. ASSUME NEW s \in f .. env_size, s >= env_size - (n + 1) PROVE Strings[s] \in Seq(Character)
    <3>1. s \in 1 .. env_size
      OBVIOUS
    <3>2. CASE s >= env_size - 1
      <4>1. Strings[s] = <<>>
        BY <3>1, <3>2, StringsDef
      <4>. QED BY <4>1
    <3>3. CASE s < env_size - 1
      <4>1. s + 1 \in f .. env_size /\ s + 1 >= env_size - n
        BY <3>1, <3>3, <2>1
      <4>2. Strings[s + 1] \in Seq(Character)
        BY <1>2, <4>1
      <4>3. img[s + 1] \in {"NUL", "a", "LF"}
        <5>1. s + 1 \in 2 .. env_size /\ (s + 1 = 2 => f = 1)
          BY <3>1, <3>3
        <5>2. Packed(s + 1)
          BY <5>1
        <5>. QED BY <5>1, <5>2 DEF Packed
      <4>4. Strings[s] = IF img[s + 1] = "LF" THEN <<"ESC", "NL">> \o Strings[s + 1]
                         ELSE IF img[s + 1] # "NUL" THEN <<img[s + 1]>> \o Strings[s + 1]
                         ELSE IF img[s + 2] = "NUL" THEN <<"NL">> ELSE <<"NL">> \o Strings[s + 1]
        BY <3>1, <3>3, StringsDef
      <4>5. PICK h \in Seq(Character) : Strings[s] = h \/ Strings[s] = h \o Strings[s + 1]
        <5>1. /\ <<"ESC", "NL">> \in Seq(Character)
              /\ img[s + 1] \notin {"NUL", "LF"} => <<img[s + 1]>> \in Seq(Character)
              /\ <<"NL">> \in Seq(Character)
          BY <4>3 DEF Character
        <5>. QED BY <4>4, <5>1, Zenon
      <4>6. h \o Strings[s + 1] \in Seq(Character)
        BY <4>2, ConcatProperties
      <4>. QED BY <4>5, <4>6
    <3>. QED BY <3>1, <3>2, <3>3
  <2>. QED BY <2>1
<1>3. Typed(env_size - 1)
  <2>1. env_size - 1 \in Nat
    OBVIOUS
  <2>. HIDE DEF Typed
  <2>2. \A n \in Nat : n \in S
    <3>. HIDE DEF S
    <3>. QED BY <1>1, <1>2, SetInduction
  <2>. QED BY <2>1, <2>2
<1>. QED BY <1>3

-----------------------------------------------------------------------------
(* Every step keeps the types, and SizeInv.                                *)
LEMMA TitleType == title \in Title => title.size \in Nat /\ title.part \in Int /\ title.n \in Int
BY UenvAssumption

LEMMA InitInv == Init => Inv
<1>. SUFFICES ASSUME Init PROVE Inv
  OBVIOUS
<1>. USE DEF Init
<1>1. TypeOK
  <2>1. text \in Seq(Character)
    BY BodyAssumption DEF Character
  <2>2. sz \in 0 .. UENV_MAXIMUM_SIZE /\ total_length \in Nat
    BY UenvAssumption
  <2>. QED BY <2>1, <2>2 DEF TypeOK, Character
<1>2. DetectIsExact /\ SizeInv
  BY DEF DetectIsExact, SizeInv
<1>. QED BY <1>1, <1>2 DEF Inv

(* uenv_pack.                                                              *)
LEMMA PackTitleStep == ASSUME Inv, PackTitle PROVE Inv'
<1>. USE DEF Inv, PackTitle
<1>1. title.size \in Nat
  BY TitleType DEF TypeOK
<1>. DEFINE zeros == [i \in 1 .. title.size |-> "NUL"]
<1>2. zeros \in Seq(Unit) /\ Len(zeros) = title.size
  BY <1>1 DEF Unit
<1>3. /\ img' \in Seq(Unit) /\ Len(img') >= title.size
      /\ \A i \in 2 .. title.size : img'[i] = "NUL" \/ (i = 2 /\ img'[i] \in {"NUL", "1"})
  <2>1. CASE HasPart
    <3>. DEFINE u == <<PartByte(title.part)>>
    <3>1. u \in Seq(Unit) /\ Len(u) = 1 /\ u[1] \in {"NUL", "1"} /\ "NUL" \in Unit
      BY DEF PartByte, Unit
    <3>. HIDE DEF u
    <3>. DEFINE w == WriteAt(zeros, 1, u, "NUL")
    <3>2. /\ w \in Seq(Unit) /\ Len(w) >= title.size
          /\ \A i \in 1 .. Len(w) : w[i] = IF 1 < i /\ i <= 1 + Len(u) THEN u[i - 1]
                                           ELSE IF i <= Len(zeros) THEN zeros[i] ELSE "NUL"
      <4>. HIDE DEF zeros
      <4>1. zeros \in Seq(Unit) /\ 1 \in Nat /\ u \in Seq(Unit) /\ "NUL" \in Unit
        BY <1>2, <3>1
      <4>2. w \in Seq(Unit) /\ IsWritten(w, zeros, 1, u, "NUL")
        BY <4>1, WriteAtProperties, Zenon
      <4>. HIDE DEF w
      <4>. QED BY <1>1, <1>2, <3>1, <4>2 DEF IsWritten
    <3>3. img' = w
      BY <2>1 DEF u
    <3>4. ASSUME NEW i \in 2 .. title.size PROVE w[i] = "NUL" \/ (i = 2 /\ w[i] \in {"NUL", "1"})
      <4>1. i \in 1 .. Len(w) /\ i - 1 \in Int
        <5>. HIDE DEF w
        <5>. QED BY <1>1, <3>2
      <4>2. w[i] = IF 1 < i /\ i <= 1 + Len(u) THEN u[i - 1] ELSE IF i <= Len(zeros) THEN zeros[i] ELSE "NUL"
        BY <3>2, <4>1
      <4>3. CASE i = 2
        BY <3>1, <4>2, <4>3
      <4>4. CASE i # 2
        BY <1>1, <3>1, <4>2, <4>4
      <4>. QED BY <4>3, <4>4
    <3>. HIDE DEF w
    <3>. QED BY <3>2, <3>3, <3>4
  <2>2. CASE ~HasPart
    BY <1>1, <1>2, <2>2
  <2>. QED BY <2>1, <2>2
<1>4. at' \in Nat /\ at' > 0
  OBVIOUS
<1>5. TypeOK'
  BY <1>3, <1>4 DEF TypeOK, Unit
<1>6. ImageInv'
  BY <1>1, <1>3, <1>4 DEF ImageInv, Packed
<1>7. DetectIsExact' /\ SizeInv'
  BY <1>6 DEF DetectIsExact, SizeInv
<1>. QED BY <1>5, <1>7

LEMMA PackFailsStep == ASSUME Inv, PackTitleFails \/ PackOverflows PROVE Inv'
<1>1. TypeOK'
  BY DEF Inv, TypeOK, PackTitleFails, PackOverflows
<1>2. env_size' = 0 /\ pc' = "done" /\ ret' = -1
  BY DEF Inv, SizeInv, PackTitleFails, PackOverflows
<1>. QED BY <1>1, <1>2 DEF Inv, DetectIsExact, SizeInv

LEMMA PackLineStep == ASSUME Inv, PackLine PROVE Inv'
<1>. USE DEF Inv, PackLine
<1>1. /\ title.size \in Nat /\ img \in Seq(Unit) /\ at \in Nat /\ text \in Seq(Character)
      /\ ImageInv
  BY TitleType DEF TypeOK, SizeInv, Unit, Character
<1>. DEFINE u == WithEnd(Unescaped)
<1>2. u \in Seq(Stored) /\ Len(u) > 0
  BY <1>1, LineProperties
<1>3. u \in Seq(Unit) /\ "NUL" \in Unit
  BY <1>2 DEF Unit, Stored
<1>4. img' \in Seq(Unit) /\ IsWritten(img', img, at, u, "NUL")
  <2>1. img' = WriteAt(img, at, u, "NUL")
    OBVIOUS
  <2>. HIDE DEF u, Inv, PackLine
  <2>. QED BY <1>1, <1>3, <2>1, WriteAtProperties, Zenon
<1>5. at' \in Nat /\ at' > 0
  BY <1>1, <1>2 DEF ImageInv
<1>6. text' \in Seq(Character)
  <2>1. Taken \in 1 .. Len(text)
    BY <1>1, TakenProperties
  <2>. QED BY <1>1, <2>1
<1>7. ImageInv'
  <2>1. Len(img') >= title.size
    <3>. HIDE DEF u
    <3>. QED BY <1>1, <1>3, <1>4 DEF ImageInv, IsWritten
  <2>2. ASSUME NEW i \in 2 .. title.size PROVE Packed(i)'
    <3>1. i \in 1 .. Len(img') /\ i \in 1 .. Len(img)
      BY <1>1, <1>4, <2>1 DEF ImageInv
    <3>2. CASE at < i /\ i <= at + Len(u)
      <4>1. img'[i] = u[i - at]
        BY <1>4, <3>1, <3>2 DEF IsWritten
      <4>2. i - at \in 1 .. Len(u)
        BY <1>1, <1>2, <3>1, <3>2
      <4>3. u[i - at] \in Stored
        BY <1>2, <4>2
      <4>. QED BY <4>1, <4>3 DEF Packed, Stored
    <3>3. CASE ~(at < i /\ i <= at + Len(u))
      <4>1. img'[i] = img[i]
        BY <1>4, <3>1, <3>3 DEF IsWritten
      <4>. QED BY <1>1, <4>1 DEF ImageInv, Packed
    <3>. QED BY <3>2, <3>3
  <2>. QED BY <1>5, <2>1, <2>2 DEF ImageInv
<1>8. TypeOK'
  BY <1>4, <1>5, <1>6 DEF TypeOK, Unit, Character
<1>9. DetectIsExact' /\ SizeInv'
  BY <1>7 DEF DetectIsExact, SizeInv
<1>. QED BY <1>8, <1>9

LEMMA PackEndsStep == ASSUME Inv, PackEnds PROVE Inv'
<1>. USE DEF Inv, PackEnds
<1>1. /\ title.size \in Nat /\ img \in Seq(Unit) /\ ImageInv
      /\ "NUL" \in Unit /\ <<"crc">> \in Seq(Unit)
  BY TitleType DEF TypeOK, SizeInv, Unit
<1>. DEFINE u == <<"crc">>
<1>2. Len(u) = 1 /\ 0 \in Nat
  OBVIOUS
<1>3. img' \in Seq(Unit) /\ IsWritten(img', img, 0, u, "NUL")
  <2>1. img' = WriteAt(img, 0, u, "NUL")
    OBVIOUS
  <2>2. u \in Seq(Unit)
    BY <1>1
  <2>. HIDE DEF u, Inv, PackEnds
  <2>. QED BY <1>1, <1>2, <2>1, <2>2, WriteAtProperties, Zenon
<1>. HIDE DEF u
<1>4. \A i \in 2 .. Len(img) : img'[i] = img[i]
  BY <1>1, <1>2, <1>3 DEF IsWritten
<1>5. Len(img') > 0 /\ Len(img') >= Len(img)
  BY <1>1, <1>2, <1>3 DEF IsWritten
<1>6. ImageInv'
  BY <1>1, <1>4, <1>5 DEF ImageInv, Packed
<1>7. crc' = SubSeq(img', 2, title.size)
  <2>1. \A i \in 2 .. title.size : i \in 2 .. Len(img) /\ i \in 1 .. Len(img') /\ img'[i] = img[i]
    <3>1. Len(img) >= title.size /\ Len(img) \in Nat /\ Len(img') \in Nat
      BY <1>1, <1>3 DEF ImageInv
    <3>. HIDE DEF Inv, PackEnds
    <3>2. \A i \in 2 .. title.size : i \in 2 .. Len(img) /\ i \in 1 .. Len(img')
      BY <1>1, <1>5, <3>1
    <3>. QED BY <1>4, <3>2
  <2>. QED BY <1>1, <1>3, <2>1 DEF ImageInv
<1>8. TypeOK'
  BY <1>3 DEF TypeOK, Unit
<1>9. DetectIsExact' /\ SizeInv'
  BY <1>5, <1>6, <1>7 DEF DetectIsExact, SizeInv, ChecksumInv
<1>. QED BY <1>8, <1>9

(* uenv_detect: the trailer is behind the environment, and no size tried   *)
(* before the right one has as many units as its checksum was made from.   *)
LEMMA DetectBeginsStep == ASSUME Inv, DetectBegins PROVE Inv'
<1>. USE DEF Inv
<1>1. PICK n \in Trailer : /\ pc = "packed" /\ pc' = "detect"
                           /\ img' = img \o [i \in 1 .. n |-> "ff"]
                           /\ sz' = FirstSize(Len(img'))
  BY DEF DetectBegins
<1>2. UNCHANGED <<title, text, body, total_length, at, crc, ret, env_size, printed>>
  BY DEF DetectBegins
<1>3. /\ title.size \in Nat /\ img \in Seq(Unit) /\ ImageInv /\ ChecksumInv /\ env_size = 0 /\ n \in Nat
  BY <1>1, TitleType, UenvAssumption DEF TypeOK, SizeInv, Unit
<1>. HIDE DEF Inv
<1>4. img' \in Seq(Unit) /\ Len(img') = Len(img) + n /\ \A i \in 1 .. Len(img) : img'[i] = img[i]
  <2>. DEFINE t == [i \in 1 .. n |-> "ff"]
  <2>1. t \in Seq(Unit) /\ Len(t) = n
    BY <1>3 DEF Unit
  <2>2. img' = img \o t
    BY <1>1
  <2>. HIDE DEF t
  <2>3. img \o t \in Seq(Unit) /\ Len(img \o t) = Len(img) + Len(t)
        /\ \A i \in 1 .. Len(img) : (img \o t)[i] = img[i]
    BY <1>3, <2>1, ConcatProperties
  <2>. QED BY <2>1, <2>2, <2>3
<1>5. Len(img') \in Nat /\ Len(img') >= Len(img) /\ Len(img') > 0
  BY <1>3, <1>4 DEF ChecksumInv
<1>6. /\ sz' \in 0 .. UENV_MAXIMUM_SIZE /\ sz' % better_sz = 0
      /\ \A m \in Nat : m <= Len(img') /\ m <= UENV_MAXIMUM_SIZE => m <= sz'
  BY <1>1, <1>5, FirstSizeProperties
<1>7. title.size <= Len(img')
  BY <1>3, <1>5 DEF ImageInv
<1>8. ImageInv'
  <2>1. \A i \in 2 .. title.size : i \in 1 .. Len(img)
    BY <1>3 DEF ImageInv
  <2>. QED BY <1>2, <1>3, <1>4, <1>7, <2>1 DEF ImageInv, Packed
<1>9. ChecksumInv'
  <2>1. \A i \in 2 .. title.size : i \in 1 .. Len(img) /\ i \in 1 .. Len(img') /\ img'[i] = img[i]
    <3>1. \A i \in 2 .. title.size : i \in 1 .. Len(img) /\ i \in 1 .. Len(img')
      BY <1>3, <1>5, <1>7 DEF ImageInv
    <3>. QED BY <1>4, <3>1
  <2>2. SubSeq(img', 2, title.size) = SubSeq(img, 2, title.size)
    BY <1>3, <1>4, <1>7, <2>1 DEF ImageInv
  <2>. QED BY <1>2, <1>3, <1>5, <2>2 DEF ChecksumInv
<1>10. Detectable(title.size) => NotPassed'
  <2>. SUFFICES ASSUME Detectable(title.size) PROVE NotPassed'
    OBVIOUS
  <2>1. title.size > 0 /\ title.size <= UENV_MAXIMUM_SIZE
    BY <1>3, DetectableSize
  <2>2. title.size <= sz'
    BY <1>3, <1>6, <1>7, <2>1
  <2>3. title'.size = title.size /\ sz' > 0
    BY <1>2, <1>3, <1>6, <2>1, <2>2
  <2>. QED BY <1>6, <2>2, <2>3 DEF NotPassed, Multiple
<1>11. TypeOK'
  BY <1>1, <1>2, <1>4, <1>6 DEF Inv, TypeOK, Unit
<1>12. DetectIsExact' /\ SizeInv'
  <2>1. Detectable(title.size)' <=> Detectable(title.size)
    BY <1>2
  <2>. QED BY <1>1, <1>2, <1>3, <1>8, <1>9, <1>10, <2>1 DEF DetectIsExact, SizeInv
<1>. QED BY <1>11, <1>12 DEF Inv

LEMMA DetectNextStep == ASSUME Inv, DetectNext PROVE Inv'
<1>. USE DEF Inv, DetectNext
<1>1. /\ title.size \in Nat /\ sz \in Nat /\ sz <= UENV_MAXIMUM_SIZE /\ ImageInv /\ ChecksumInv
      /\ sz > UENV_MINIMUM_SIZE /\ sz > 0
  BY TitleType, UenvAssumption DEF TypeOK, SizeInv, Try
<1>2. sz # title.size
  BY <1>1 DEF CrcMatches, ImageInv, ChecksumInv
<1>3. Smaller \in 0 .. UENV_MAXIMUM_SIZE
  BY <1>1, UenvAssumption DEF Smaller
<1>4. Detectable(title.size) => NotPassed'
  <2>. SUFFICES ASSUME Detectable(title.size) PROVE NotPassed'
    OBVIOUS
  <2>1. title.size < sz /\ (Multiple(sz) \/ AHalf(sz))
    BY <1>1, <1>2 DEF SizeInv, NotPassed
  <2>2. Smaller \in Nat /\ title.size <= Smaller /\ (Multiple(Smaller) \/ AHalf(Smaller))
    <3>. HIDE DEF Inv, DetectNext
    <3>. QED BY <1>1, <2>1, SmallerProperties
  <2>3. sz' = Smaller /\ title' = title
    OBVIOUS
  <2>. HIDE DEF Inv, DetectNext
  <2>. QED BY <2>2, <2>3 DEF NotPassed, Multiple, AHalf
<1>5. TypeOK'
  BY <1>3 DEF TypeOK
<1>6. ImageInv' /\ ChecksumInv'
  BY <1>1 DEF ImageInv, ChecksumInv, Packed
<1>7. DetectIsExact' /\ SizeInv'
  <2>1. Detectable(title.size)' <=> Detectable(title.size)
    OBVIOUS
  <2>. QED BY <1>4, <1>6, <2>1 DEF DetectIsExact, SizeInv
<1>. QED BY <1>5, <1>7

LEMMA DetectFindsStep == ASSUME Inv, DetectFinds PROVE Inv'
<1>. USE DEF Inv, DetectFinds
<1>1. /\ title.size \in Nat /\ sz \in Nat /\ ImageInv /\ ChecksumInv /\ img \in Seq(Unit)
      /\ sz > UENV_MINIMUM_SIZE /\ sz > 1
  BY TitleType, UenvAssumption DEF TypeOK, SizeInv, Try, Unit
<1>2. sz = title.size
  <2>1. SubSeq(img, 2, title.size) = SubSeq(img, 2, sz)
    BY <1>1 DEF CrcMatches, ChecksumInv
  <2>2. sz <= Len(img) /\ title.size <= Len(img)
    BY <1>1 DEF CrcMatches, ImageInv
  <2>3. Len(SubSeq(img, 2, sz)) = sz - 1
    BY <1>1, <2>2
  <2>4. Len(SubSeq(img, 2, title.size)) = IF title.size >= 1 THEN title.size - 1 ELSE 0
    BY <1>1, <2>2
  <2>. HIDE DEF Inv, DetectFinds
  <2>. QED BY <1>1, <2>1, <2>3, <2>4
<1>3. TypeOK'
  BY <1>1 DEF TypeOK
<1>4. ImageInv'
  BY <1>1 DEF ImageInv, Packed
<1>5. DetectIsExact' /\ SizeInv'
  BY <1>1, <1>2, <1>4 DEF DetectIsExact, SizeInv
<1>. QED BY <1>3, <1>5

LEMMA DetectFailsStep == ASSUME Inv, DetectFails PROVE Inv'
<1>. USE DEF Inv, DetectFails
<1>1. ~Detectable(title.size)
  <2>1. SUFFICES ASSUME Detectable(title.size) PROVE FALSE
    OBVIOUS
  <2>2. title.size \in Nat /\ sz \in Nat /\ title.size <= sz /\ sz <= UENV_MINIMUM_SIZE
    BY <2>1, TitleType, UenvAssumption DEF TypeOK, SizeInv, NotPassed, Try
  <2>3. title.size > UENV_MINIMUM_SIZE
    <3>. HIDE DEF Inv, DetectFails
    <3>. QED BY <2>1, <2>2, DetectableSize
  <2>. HIDE DEF Inv, DetectFails
  <2>. QED BY <2>2, <2>3, UenvAssumption
<1>2. TypeOK'
  BY DEF TypeOK
<1>3. Detectable(title.size)' <=> Detectable(title.size)
  OBVIOUS
<1>4. DetectIsExact' /\ SizeInv'
  BY <1>1, <1>3 DEF DetectIsExact, SizeInv
<1>. QED BY <1>2, <1>4

(* uenv_list.                                                              *)
LEMMA ListStep == ASSUME Inv, List PROVE Inv'
<1>. USE DEF Inv, List
<1>1. /\ env_size = title.size /\ env_size \in Nat /\ env_size > 1 /\ ImageInv
  BY UenvAssumption DEF TypeOK, SizeInv
<1>2. /\ FirstString \in 1 .. env_size /\ (FirstString = 1 => img[2] # "1")
  BY <1>1 DEF FirstString, ListedPart, Part, MAIN, REDUND
<1>3. Strings[FirstString] \in Seq(Character)
  <2>1. \A i \in 2 .. env_size : Packed(i)
    BY <1>1 DEF ImageInv
  <2>. HIDE DEF Inv, List
  <2>. QED BY <1>1, <1>2, <2>1, StringsType
<1>4. TypeOK'
  BY <1>3 DEF TypeOK, Character
<1>5. DetectIsExact' /\ SizeInv'
  BY <1>1 DEF DetectIsExact, SizeInv
<1>. QED BY <1>4, <1>5

LEMMA InvStep == Inv /\ [Next]_vars => Inv'
<1>. SUFFICES ASSUME Inv, [Next]_vars PROVE Inv'
  OBVIOUS
<1>1. CASE UNCHANGED vars
  <2>1. Detectable(title.size)' <=> Detectable(title.size)
    BY <1>1 DEF vars
  <2>. QED BY <1>1, <2>1 DEF Inv, vars, TypeOK, DetectIsExact, SizeInv, ImageInv, Packed, ChecksumInv,
                             NotPassed, Multiple, AHalf
<1>. QED BY <1>1, PackTitleStep, PackFailsStep, PackLineStep, PackEndsStep, DetectBeginsStep,
            DetectNextStep, DetectFindsStep, DetectFailsStep, ListStep DEF Next

-----------------------------------------------------------------------------
(* Whatever text is packed and whatever follows the environment: the image *)
(* holds characters only, a size that is tried is never above the maximum, *)
(* and what is listed is text (uenv_pack, uenv_list).                      *)
THEOREM TypeCorrect == Spec => []TypeOK
<1>1. Inv => TypeOK
  BY DEF Inv
<1>. QED BY <1>1, InitInv, InvStep, PTL DEF Spec

(* uenv_auto_detect_filesize takes no other size for that of an            *)
(* environment, and finds the size if it is among those that are tried.    *)
THEOREM SizeIsFound == Spec => []DetectIsExact
<1>1. Inv => DetectIsExact
  BY DEF Inv
<1>. QED BY <1>1, InitInv, InvStep, PTL DEF Spec

-----------------------------------------------------------------------------
(* Listing.  The text is packed as the part, if there is one, and the lines*)
(* of the text with NUL for NL, the last line too.                         *)
Lines == WithLastEnd(body)
Mark(c) == IF c = "NL" THEN "NUL" ELSE c
Prefix == IF HasPart THEN <<PartByte(title.part)>> ELSE <<>>
Content == Prefix \o [j \in 1 .. Len(Lines) |-> Mark(Lines[j])]

(* k units of c are in the file behind the checksum, and only zeros follow *)
(* them up to its n-th unit.                                               *)
Holds(file, pos, c, k, n) ==
  /\ k \in 0 .. Len(c) /\ pos = 1 + k /\ n <= Len(file)
  /\ \A j \in 1 .. k : 1 + j <= n /\ file[1 + j] = c[j]
  /\ \A i \in pos + 1 .. n : file[i] = "NUL"

(* A number of whole lines was packed, and the text has the others.        *)
LinesTo(k) ==
  /\ k \in 0 .. Len(Lines) /\ (k > 0 => Lines[k] = "NL")
  /\ text = SubSeq(body, k + 1, Len(body))
  /\ Holds(img, at, Content, Len(Prefix) + k, Len(img))

ListInv ==
  /\ body \in Seq(Character)
  /\ pc = "title" => text = body
  /\ pc = "lines" /\ Plain => \E k : LinesTo(k)
  /\ pc \in {"packed", "detect", "list"} /\ Plain /\ Fits =>
       Holds(img, at, Content, Len(Content), title.size)
  /\ ListReproduces

LEMMA LinesAre ==
  ASSUME body \in Seq(Character), Plain
  PROVE  LET w == Lines
             m == Len(w)
         IN /\ w \in Seq({"a", "NL"}) /\ m \in Nat /\ m >= 2 /\ w[1] = "a" /\ w[m] = "NL"
            /\ \A i \in 1 .. m - 1 : ~(w[i] = "NL" /\ w[i + 1] = "NL")
            /\ \A i \in 1 .. Len(body) : w[i] = body[i]
            /\ m = IF body[Len(body)] = "NL" THEN Len(body) ELSE Len(body) + 1
<1>. DEFINE l == Len(body)
<1>1. l \in Nat /\ l >= 1 /\ DOMAIN body = 1 .. l /\ body # <<>>
  BY DEF Plain
<1>2. /\ \A i \in 1 .. l : body[i] \in {"a", "NL"}
      /\ \A i \in 1 .. l - 1 : ~(body[i] = "NL" /\ body[i + 1] = "NL")
      /\ body[1] # "NL"
  BY <1>1 DEF Plain, Character
<1>3. body[1] = "a"
  BY <1>1, <1>2
<1>4. CASE body[l] = "NL"
  <2>1. Lines = body
    BY <1>1, <1>4 DEF Lines, WithLastEnd
  <2>2. l # 1
    BY <1>3, <1>4
  <2>3. body \in Seq({"a", "NL"})
    BY <1>1, <1>2
  <2>. HIDE DEF l
  <2>. QED BY <1>1, <1>2, <1>3, <1>4, <2>1, <2>2, <2>3 DEF l
<1>5. CASE body[l] # "NL"
  <2>. DEFINE w == Append(body, "NL")
  <2>1. Lines = w
    BY <1>1, <1>5 DEF Lines, WithLastEnd
  <2>2. w \in Seq({"a", "NL"}) /\ Len(w) = l + 1 /\ w[l + 1] = "NL" /\ \A i \in 1 .. l : w[i] = body[i]
    <3>1. body \in Seq({"a", "NL"})
      BY <1>1, <1>2
    <3>. QED BY <1>1, <3>1
  <2>. HIDE DEF w
  <2>3. ASSUME NEW i \in 1 .. (l + 1) - 1, w[i] = "NL", w[i + 1] = "NL" PROVE FALSE
    <3>1. CASE i = l
      BY <1>1, <1>5, <2>2, <2>3, <3>1
    <3>2. CASE i # l
      <4>1. i \in 1 .. l - 1 /\ i \in 1 .. l /\ i + 1 \in 1 .. l
        <5>1. l \in Nat /\ i \in 1 .. (l + 1) - 1 /\ i # l
          BY <1>1, <3>2
        <5>. HIDE DEF l
        <5>. QED BY <5>1
      <4>. QED BY <1>2, <2>2, <2>3, <4>1
    <3>. QED BY <3>1, <3>2
  <2>4. w[1] = "a" /\ l + 1 \in Nat /\ l + 1 >= 2
    BY <1>1, <1>3, <2>2
  <2>. HIDE DEF l
  <2>. QED BY <1>5, <2>1, <2>2, <2>3, <2>4 DEF l
<1>. QED BY <1>4, <1>5

(* One unit for each character behind the part.                            *)
LEMMA ContentIs ==
  ASSUME body \in Seq(Character), Plain
  PROVE  LET p == Len(Prefix)
         IN /\ p = (IF HasPart THEN 1 ELSE 0) /\ Len(Content) = p + Len(Lines) /\ Content \in Seq(Unit)
            /\ \A j \in 1 .. Len(Lines) : Content[p + j] = Mark(Lines[j])
            /\ HasPart => Content[1] = PartByte(title.part)
<1>. DEFINE w == Lines
            m == Len(w)
            t == [j \in 1 .. m |-> Mark(w[j])]
            s == Prefix
<1>1. w \in Seq({"a", "NL"}) /\ m \in Nat
  BY LinesAre
<1>2. s \in Seq(Unit) /\ Len(s) = (IF HasPart THEN 1 ELSE 0) /\ (HasPart => s[1] = PartByte(title.part))
  <2>1. CASE HasPart
    <3>1. Prefix = <<PartByte(title.part)>> /\ PartByte(title.part) \in Unit
      BY <2>1 DEF Prefix, PartByte, Unit
    <3>. QED BY <2>1, <3>1
  <2>2. CASE ~HasPart
    <3>1. Prefix = <<>>
      BY <2>2 DEF Prefix
    <3>. QED BY <2>2, <3>1
  <2>. QED BY <2>1, <2>2
<1>. HIDE DEF w, m, s
<1>3. \A j \in 1 .. m : w[j] \in {"a", "NL"}
  BY <1>1 DEF m
<1>4. \A j \in 1 .. m : Mark(w[j]) \in Unit
  BY <1>3 DEF Mark, Unit
<1>5. t \in Seq(Unit) /\ Len(t) = m /\ \A j \in 1 .. m : t[j] = Mark(w[j])
  BY <1>1, <1>4
<1>. HIDE DEF t
<1>6. /\ s \o t \in Seq(Unit) /\ Len(s \o t) = Len(s) + Len(t)
      /\ \A i \in 1 .. Len(s) : (s \o t)[i] = s[i]
      /\ \A i \in 1 .. Len(t) : (s \o t)[Len(s) + i] = t[i]
  <2>1. s \in Seq(Unit) /\ t \in Seq(Unit)
    BY <1>2, <1>5
  <2>. QED BY <2>1, ConcatProperties
<1>7. Content = s \o t
  BY DEF Content, s, t, w, m
<1>8. HasPart => (s \o t)[1] = PartByte(title.part)
  BY <1>2, <1>6
<1>9. Len(s \o t) = Len(s) + m /\ \A j \in 1 .. m : (s \o t)[Len(s) + j] = Mark(w[j])
  BY <1>5, <1>6
<1>. HIDE DEF Mark
<1>. QED BY <1>2, <1>6, <1>7, <1>8, <1>9, Zenon DEF s, w, m

LEMMA FunctionIsSequence ==
  ASSUME NEW S, NEW n \in Nat, NEW f \in [1 .. n -> S]
  PROVE  f \in Seq(S) /\ Len(f) = n
OBVIOUS

(* What is left of what was left.                                          *)
LEMMA RestOfRest ==
  ASSUME NEW S, NEW s \in Seq(S), NEW k \in 0 .. Len(s), NEW t \in 0 .. Len(s) - k
  PROVE  LET x == SubSeq(s, k + 1, Len(s))
         IN /\ x \in Seq(S) /\ Len(x) = Len(s) - k
            /\ \A i \in 1 .. Len(s) - k : x[i] = s[k + i]
            /\ SubSeq(x, t + 1, Len(x)) = SubSeq(s, (k + t) + 1, Len(s))
<1>. DEFINE x == SubSeq(s, k + 1, Len(s))
            y == SubSeq(x, t + 1, Len(x))
            z == SubSeq(s, (k + t) + 1, Len(s))
            m == (Len(s) - k) - t
<1>1. x \in Seq(S) /\ Len(x) = Len(s) - k /\ \A i \in 1 .. Len(s) - k : x[i] = s[k + i]
  OBVIOUS
<1>2. z \in Seq(S) /\ Len(z) = m /\ \A i \in 1 .. m : z[i] = s[(k + t) + i]
  OBVIOUS
<1>. HIDE DEF x, z
<1>3. y \in Seq(S) /\ Len(y) = m /\ \A i \in 1 .. m : y[i] = x[t + i]
  BY <1>1
<1>. HIDE DEF y
<1>4. \A i \in 1 .. m : t + i \in 1 .. Len(s) - k /\ k + (t + i) = (k + t) + i
  OBVIOUS
<1>5. \A i \in 1 .. m : y[i] = z[i]
  BY <1>1, <1>2, <1>3, <1>4
<1>. HIDE DEF m
<1>6. y = z
  BY <1>2, <1>3, <1>5
<1>. QED BY <1>1, <1>6 DEF x, y, z

LEMMA HeadAndRest ==
  ASSUME NEW S, NEW s \in Seq(S), NEW j \in 1 .. Len(s), NEW n \in j .. Len(s)
  PROVE  <<s[j]>> \o SubSeq(s, j + 1, n) = SubSeq(s, j, n)
<1>. DEFINE r == SubSeq(s, j + 1, n)
            y == <<s[j]>> \o r
            z == SubSeq(s, j, n)
<1>1. r \in Seq(S) /\ Len(r) = n - j /\ \A i \in 1 .. n - j : r[i] = s[j + i]
  OBVIOUS
<1>2. z \in Seq(S) /\ Len(z) = (n - j) + 1 /\ \A i \in 1 .. (n - j) + 1 : z[i] = s[j + (i - 1)]
  OBVIOUS
<1>. HIDE DEF r, z
<1>3. y \in Seq(S) /\ Len(y) = (n - j) + 1 /\ y[1] = s[j] /\ \A i \in 1 .. n - j : y[1 + i] = r[i]
  <2>. DEFINE h == <<s[j]>>
  <2>1. h \in Seq(S) /\ Len(h) = 1 /\ h[1] = s[j] /\ n - j \in Nat
    OBVIOUS
  <2>. HIDE DEF h
  <2>2. /\ h \o r \in Seq(S) /\ Len(h \o r) = Len(h) + Len(r)
        /\ \A i \in 1 .. Len(h) : (h \o r)[i] = h[i]
        /\ \A i \in 1 .. Len(r) : (h \o r)[Len(h) + i] = r[i]
    <3>1. h \in Seq(S) /\ r \in Seq(S)
      BY <1>1, <2>1
    <3>. QED BY <3>1, ConcatProperties
  <2>3. y = h \o r
    BY DEF h
  <2>. HIDE DEF y
  <2>. QED BY <1>1, <2>1, <2>2, <2>3
<1>. HIDE DEF y
<1>4. \A i \in 1 .. (n - j) + 1 : y[i] = z[i]
  <2>. TAKE i \in 1 .. (n - j) + 1
  <2>1. CASE i = 1
    BY <1>2, <1>3, <2>1
  <2>2. CASE i # 1
    <3>1. i - 1 \in 1 .. n - j /\ 1 + (i - 1) = i
      BY <2>2
    <3>. QED BY <1>1, <1>2, <1>3, <3>1
  <2>. QED BY <2>1, <2>2
<1>5. y = z
  BY <1>2, <1>3, <1>4
<1>. QED BY <1>5 DEF y, z, r

(* uenv_pack: the file of zeros with the part.                             *)
LEMMA PrefixHolds ==
  ASSUME Inv, ListInv, PackTitle, Plain
  PROVE  Holds(img', at', Content, Len(Prefix), Len(img'))
<1>1. title.size \in Nat /\ body \in Seq(Character)
  BY TitleType DEF Inv, TypeOK, ListInv
<1>. DEFINE zeros == [i \in 1 .. title.size |-> "NUL"]
            p == Len(Prefix)
<1>2. zeros \in Seq(Unit) /\ Len(zeros) = title.size /\ \A i \in 1 .. Len(zeros) : zeros[i] = "NUL"
  BY <1>1 DEF Unit
<1>3. /\ p = (IF HasPart THEN 1 ELSE 0) /\ Len(Content) = p + Len(Lines) /\ Len(Lines) \in Nat
      /\ HasPart => Content[1] = PartByte(title.part)
  BY <1>1, ContentIs, LinesAre
<1>. HIDE DEF p
<1>4. CASE HasPart
  <2>. DEFINE u == <<PartByte(title.part)>>
              f == WriteAt(zeros, 1, u, "NUL")
  <2>1. u \in Seq(Unit) /\ Len(u) = 1 /\ u[1] = PartByte(title.part) /\ "NUL" \in Unit
    BY DEF PartByte, Unit
  <2>2. img' = f /\ at' = 2
    BY <1>4 DEF PackTitle
  <2>. HIDE DEF u, zeros
  <2>3. f \in Seq(Unit) /\ IsWritten(f, zeros, 1, u, "NUL")
    BY <1>2, <2>1, WriteAtProperties
  <2>. HIDE DEF f
  <2>4. Len(f) \in Nat /\ Len(zeros) \in Nat
    BY <1>1, <1>2, <2>3
  <2>5. Len(f) >= 2
    BY <2>1, <2>3, <2>4 DEF IsWritten
  <2>6. \A i \in 1 .. Len(f) : f[i] = IF 1 < i /\ i <= 2 THEN u[i - 1]
                                     ELSE IF i <= Len(zeros) THEN zeros[i] ELSE "NUL"
    BY <2>1, <2>3 DEF IsWritten
  <2>7. f[2] = u[1]
    BY <2>4, <2>5, <2>6
  <2>8. \A i \in 3 .. Len(f) : f[i] = "NUL"
    BY <1>2, <2>4, <2>6
  <2>9. p = 1
    BY <1>3, <1>4
  <2>10. Len(Content) \in Nat /\ 1 \in 0 .. Len(Content)
    BY <1>3, <2>9
  <2>11. \A j \in 1 .. 1 : 1 + j <= Len(f) /\ f[1 + j] = Content[j]
    BY <1>3, <1>4, <2>1, <2>4, <2>5, <2>7
  <2>12. Holds(f, 2, Content, 1, Len(f))
    BY <2>4, <2>8, <2>10, <2>11 DEF Holds
  <2>. QED BY <2>2, <2>9, <2>12, Zenon DEF p
<1>5. CASE ~HasPart
  <2>1. img' = zeros /\ at' = 1
    BY <1>5 DEF PackTitle
  <2>2. p = 0
    BY <1>3, <1>5
  <2>. HIDE DEF zeros
  <2>3. Len(Content) \in Nat /\ Len(zeros) \in Nat
    BY <1>1, <1>2, <1>3, <2>2
  <2>4. Holds(zeros, 1, Content, 0, Len(zeros))
    BY <1>2, <2>3 DEF Holds
  <2>. QED BY <2>1, <2>2, <2>4, Zenon DEF p
<1>. QED BY <1>4, <1>5

(* One line of a plain text: fgets takes all of it, and its NL.            *)
LEMMA LineIs ==
  ASSUME body \in Seq(Character), Plain, text # <<>>,
         NEW k \in 0 .. Len(Lines), text = SubSeq(body, k + 1, Len(body))
  PROVE  LET u == WithEnd(Unescaped)
         IN /\ Len(u) \in Nat \ {0} /\ k + Len(u) <= Len(Lines) /\ Lines[k + Len(u)] = "NL"
            /\ \A j \in 1 .. Len(u) : u[j] = Mark(Lines[k + j])
            /\ SubSeq(text, Taken + 1, Len(text)) = SubSeq(body, (k + Len(u)) + 1, Len(body))
<1>0. \A i \in 1 .. Len(body) - LineMax + 1 : \E j \in i .. i + LineMax - 1 : body[j] = "NL"
  BY Zenon DEF Plain
<1>. DEFINE l == Len(body)
            w == Lines
            m == Len(w)
            n == Len(text)
            t == Taken
            u == WithEnd(Unescaped)
<1>1. /\ l \in Nat /\ m \in Nat /\ w[m] = "NL"
      /\ \A i \in 1 .. l : w[i] = body[i] /\ body[i] \in {"a", "NL"}
      /\ m = IF body[l] = "NL" THEN l ELSE l + 1
  <2>1. /\ w \in Seq({"a", "NL"}) /\ m \in Nat /\ w[m] = "NL"
        /\ \A i \in 1 .. l : w[i] = body[i]
        /\ m = IF body[l] = "NL" THEN l ELSE l + 1
    BY LinesAre
  <2>2. l \in Nat
    OBVIOUS
  <2>. HIDE DEF w, l
  <2>3. l <= m
    BY <2>1, <2>2
  <2>4. \A i \in 1 .. l : w[i] \in {"a", "NL"}
    BY <2>1, <2>2, <2>3 DEF m
  <2>. QED BY <2>1, <2>2, <2>4
<1>2. k \in Nat /\ k < l /\ n = l - k /\ text \in Seq(Character) /\ \A i \in 1 .. n : text[i] = body[k + i]
  <2>1. k \in Nat /\ k + 1 \in Nat /\ k + 1 >= 1
    BY <1>1
  <2>2. k < l
    BY <1>1, <2>1
  <2>. QED BY <1>1, <2>1, <2>2
<1>3. t \in 1 .. n /\ \A i \in 1 .. t - 1 : text[i] # "NL"
  BY <1>2, TakenProperties
<1>4. text[t] = "NL" \/ t = n
  <2>. DEFINE most == IF n < LineMax THEN n ELSE LineMax
  <2>1. DOMAIN text = 1 .. n
    BY <1>2
  <2>2. CASE \E i \in EndOfLine : i <= most
    <3>1. EndOfLine \in SUBSET Nat /\ EndOfLine # {}
      BY <2>1, <2>2 DEF EndOfLine
    <3>2. \E i \in EndOfLine : \A j \in EndOfLine : i <= j
      BY <3>1, LeastExists
    <3>3. t = CHOOSE i \in EndOfLine : \A j \in EndOfLine : i <= j
      BY <2>2 DEF Taken
    <3>4. t \in EndOfLine
      BY <3>2, <3>3
    <3>. QED BY <3>4 DEF EndOfLine
  <2>3. CASE ~\E i \in EndOfLine : i <= most
    <3>1. t = most
      BY <2>3 DEF Taken
    <3>2. CASE n < LineMax
      BY <3>1, <3>2
    <3>3. CASE ~(n < LineMax)
      <4>1. LineMax \in Nat \ {0} /\ k + 1 \in 1 .. Len(body) - LineMax + 1
        BY <1>1, <1>2, <3>3, UenvAssumption
      <4>2. PICK j \in k + 1 .. (k + 1) + LineMax - 1 : body[j] = "NL"
        BY <1>0, <4>1, Zenon
      <4>3. j - k \in 1 .. n /\ j - k <= LineMax /\ k + (j - k) = j
        BY <1>1, <1>2, <3>3, <4>1
      <4>4. j - k \in EndOfLine
        BY <1>2, <2>1, <4>2, <4>3 DEF EndOfLine
      <4>. QED BY <2>3, <3>3, <4>3, <4>4
    <3>. QED BY <3>2, <3>3
  <2>. QED BY <2>2, <2>3
<1>. DEFINE b == IF text[t] = "NL" THEN t - 1 ELSE t
<1>5. b \in 0 .. n /\ Buffer = SubSeq(text, 1, b)
  BY <1>2, <1>3 DEF Buffer
<1>. HIDE DEF b, t, n, l, m, w
<1>6. Len(Buffer) = b /\ Buffer \in Seq(Character) /\ \A i \in 1 .. b : Buffer[i] = text[i]
  BY <1>2, <1>5 DEF n
<1>7. \A i \in 1 .. b : text[i] = body[k + i] /\ text[i] # "NL" /\ text[i] # "ESC"
  <2>. TAKE i \in 1 .. b
  <2>1. i \in 1 .. n /\ k + i \in 1 .. l
    BY <1>1, <1>2, <1>5
  <2>2. text[i] # "NL"
    <3>1. CASE text[t] = "NL"
      <4>1. b = t - 1
        BY <3>1 DEF b
      <4>. QED BY <1>3, <4>1
    <3>2. CASE text[t] # "NL"
      <4>1. b = t
        BY <3>2 DEF b
      <4>2. i = t \/ i \in 1 .. t - 1
        BY <1>1, <1>2, <1>3, <4>1
      <4>. QED BY <1>3, <3>2, <4>2
    <3>. QED BY <3>1, <3>2
  <2>. QED BY <1>1, <1>2, <2>1, <2>2
<1>8. Unescaped = [i \in 1 .. b |-> text[i]]
  <2>1. DOMAIN Buffer = 1 .. b
    BY <1>5, <1>6
  <2>. QED BY <1>6, <1>7, <2>1 DEF Unescaped
<1>9. Len(u) = b + 1 /\ u[b + 1] = "NUL" /\ \A i \in 1 .. b : u[i] = text[i]
  <2>. DEFINE s == Unescaped
  <2>1. s \in Seq(Character) /\ Len(s) = b /\ \A i \in 1 .. b : s[i] = text[i]
    <3>1. \A i \in 1 .. b : text[i] \in Character
      BY <1>2, <1>5 DEF n
    <3>2. b \in Nat
      BY <1>1, <1>2, <1>5
    <3>3. s \in [1 .. b -> Character] /\ \A i \in 1 .. b : s[i] = text[i]
      BY <1>8, <3>1
    <3>. HIDE DEF s
    <3>. QED BY <3>2, <3>3, FunctionIsSequence
  <2>2. u = Append(s, "NUL")
    BY DEF WithEnd
  <2>3. b \in Nat
    BY <1>2, <1>5
  <2>. HIDE DEF s, u
  <2>4. Len(u) = b + 1 /\ u[b + 1] = "NUL" /\ \A i \in 1 .. b : u[i] = s[i]
    BY <2>1, <2>2, <2>3
  <2>. QED BY <2>1, <2>4
<1>10. k + (b + 1) <= m /\ w[k + (b + 1)] = "NL" /\ (b + 1 = t \/ t = n)
       /\ (b + 1 # t => b + 1 = n + 1 /\ k + n = l /\ m = l + 1)
  <2>1. CASE text[t] = "NL"
    <3>1. b + 1 = t /\ k + t \in 1 .. l
      BY <1>1, <1>2, <1>3, <2>1 DEF b
    <3>2. w[k + t] = "NL"
      BY <1>1, <1>2, <1>3, <2>1, <3>1
    <3>3. l <= m
      BY <1>1
    <3>. QED BY <1>1, <1>2, <1>3, <3>1, <3>2, <3>3
  <2>2. CASE text[t] # "NL"
    <3>0. b = t
      BY <2>2 DEF b
    <3>9. t = n
      BY <1>4, <2>2
    <3>1. b = t /\ t = n /\ k + n = l
      BY <1>1, <1>2, <3>0, <3>9
    <3>2. body[l] # "NL"
      BY <1>2, <1>3, <2>2, <3>1
    <3>. QED BY <1>1, <1>2, <1>3, <3>1, <3>2
  <2>. QED BY <2>1, <2>2
<1>11. ASSUME NEW j \in 1 .. Len(u) PROVE u[j] = Mark(w[k + j])
  <2>1. CASE j = b + 1
    BY <1>9, <1>10, <2>1 DEF Mark
  <2>2. CASE j # b + 1
    <3>1. j \in 1 .. b /\ k + j \in 1 .. l
      BY <1>1, <1>2, <1>5, <1>9, <2>2
    <3>2. w[k + j] = text[j] /\ text[j] # "NL"
      BY <1>1, <1>7, <3>1
    <3>3. Mark(w[k + j]) = text[j]
      BY <3>2 DEF Mark
    <3>. QED BY <1>9, <3>1, <3>3
  <2>. QED BY <2>1, <2>2
<1>12. SubSeq(text, t + 1, n) = SubSeq(body, (k + (b + 1)) + 1, l)
  <2>1. CASE b + 1 = t
    <3>1. k \in 0 .. Len(body) /\ t \in 0 .. Len(body) - k
      BY <1>1, <1>2, <1>3 DEF l
    <3>2. SubSeq(text, t + 1, Len(text)) = SubSeq(body, (k + t) + 1, Len(body))
      BY <3>1, RestOfRest
    <3>. QED BY <2>1, <3>2 DEF l, n
  <2>2. CASE b + 1 # t
    <3>1. t = n /\ (k + (b + 1)) + 1 = l + 2 /\ l \in Nat /\ n \in Nat
      BY <1>1, <1>2, <1>10, <2>2
    <3>2. SubSeq(text, n + 1, n) = <<>>
      BY <1>2, <3>1
    <3>3. SubSeq(body, l + 2, l) = <<>>
      BY <3>1
    <3>. QED BY <3>1, <3>2, <3>3
  <2>. QED BY <2>1, <2>2
<1>13. Len(u) \in Nat \ {0}
  BY <1>5, <1>9
<1>14. k + Len(u) <= m /\ w[k + Len(u)] = "NL" /\ SubSeq(text, t + 1, n) = SubSeq(body, (k + Len(u)) + 1, l)
  BY <1>9, <1>10, <1>12
<1>. HIDE DEF u
<1>15. /\ Len(u) \in Nat \ {0} /\ k + Len(u) <= m /\ w[k + Len(u)] = "NL"
       /\ \A j \in 1 .. Len(u) : u[j] = Mark(w[k + j])
       /\ SubSeq(text, t + 1, n) = SubSeq(body, (k + Len(u)) + 1, l)
  BY <1>11, <1>13, <1>14
<1>. HIDE DEF Mark
<1>. QED BY <1>15, Zenon DEF u, w, m, t, n, l

LEMMA HoldsNext ==
  ASSUME NEW f \in Seq(Unit), NEW c \in Seq(Unit), NEW k \in Nat, Holds(f, 1 + k, c, k, Len(f)),
         NEW u \in Seq(Unit), k + Len(u) <= Len(c), \A j \in 1 .. Len(u) : u[j] = c[k + j]
  PROVE  LET w == WriteAt(f, 1 + k, u, "NUL")
         IN Holds(w, (1 + k) + Len(u), c, k + Len(u), Len(w))
<1>. DEFINE w == WriteAt(f, 1 + k, u, "NUL")
            n == Len(u)
            l == Len(w)
            p == Len(f)
<1>1. n \in Nat /\ p \in Nat /\ Len(c) \in Nat /\ k \in 0 .. Len(c)
  BY DEF Holds
<1>2. w \in Seq(Unit) /\ IsWritten(w, f, 1 + k, u, "NUL")
  <2>1. 1 + k \in Nat /\ "NUL" \in Unit
    BY DEF Unit
  <2>. HIDE DEF w
  <2>. QED BY <2>1, WriteAtProperties, Zenon DEF w
<1>3. /\ \A j \in 1 .. k : 1 + j <= p /\ f[1 + j] = c[j]
      /\ \A i \in (1 + k) + 1 .. p : f[i] = "NUL"
  BY DEF Holds
<1>. HIDE DEF w, n, p
<1>4. /\ l \in Nat /\ l = IF (1 + k) + n > p THEN (1 + k) + n ELSE p
      /\ \A i \in 1 .. l : w[i] = IF 1 + k < i /\ i <= (1 + k) + n THEN u[i - (1 + k)]
                                  ELSE IF i <= p THEN f[i] ELSE "NUL"
  BY <1>2 DEF IsWritten, n, p
<1>. HIDE DEF l
<1>5. ASSUME NEW j \in 1 .. k + n PROVE 1 + j <= l /\ w[1 + j] = c[j]
  <2>1. CASE j <= k
    <3>1. j \in 1 .. k /\ 1 + j \in 1 .. l /\ ~(1 + k < 1 + j) /\ 1 + j <= p
      BY <1>1, <1>3, <1>4, <2>1
    <3>. QED BY <1>3, <1>4, <3>1
  <2>2. CASE j > k
    <3>1. j - k \in 1 .. n /\ k + (j - k) = j /\ 1 + j \in 1 .. l /\ 1 + k < 1 + j
          /\ 1 + j <= (1 + k) + n /\ (1 + j) - (1 + k) = j - k
      BY <1>1, <1>4, <2>2
    <3>2. w[1 + j] = u[j - k]
      BY <1>4, <3>1
    <3>3. u[j - k] = c[j]
      BY <3>1 DEF n
    <3>. QED BY <1>4, <3>1, <3>2, <3>3
  <2>. QED BY <1>1, <2>1, <2>2
<1>6. ASSUME NEW i \in ((1 + k) + n) + 1 .. l PROVE w[i] = "NUL"
  <2>1. i \in 1 .. l /\ ~(i <= (1 + k) + n) /\ (i <= p => i \in (1 + k) + 1 .. p)
    BY <1>1, <1>4
  <2>. QED BY <1>3, <1>4, <2>1
<1>7. k + n \in 0 .. Len(c) /\ (1 + k) + n = 1 + (k + n) /\ l <= l
  BY <1>1, <1>4 DEF n
<1>. QED BY <1>5, <1>6, <1>7 DEF Holds, n, l, w

(* uenv_list: the strings behind the part are the lines of the text; in a  *)
(* full environment the last NL is not printed.                            *)
LEMMA LinesAreListed ==
  ASSUME body \in Seq(Character), Plain, env_size \in Nat, FirstString = Len(Prefix) + 1,
         Holds(img, at, Content, Len(Content), env_size), at <= env_size
  PROVE  Strings[FirstString] =
           SubSeq(Lines, 1, IF at = env_size THEN Len(Lines) - 1 ELSE Len(Lines))
<1>. DEFINE w == Lines
            m == Len(w)
            p == Len(Prefix)
            f == FirstString
            n == IF at = env_size THEN m - 1 ELSE m
<1>1. /\ w \in Seq({"a", "NL"}) /\ m \in Nat /\ m >= 2 /\ w[m] = "NL"
      /\ \A i \in 1 .. m - 1 : ~(w[i] = "NL" /\ w[i + 1] = "NL")
  BY LinesAre
<1>2. /\ p \in {0, 1} /\ Len(Content) = p + m
      /\ \A j \in 1 .. m : Content[p + j] = Mark(w[j])
  BY ContentIs
<1>3. /\ at = 1 + (p + m)
      /\ \A j \in 1 .. p + m : img[1 + j] = Content[j]
      /\ \A i \in at + 1 .. env_size : img[i] = "NUL"
  <2>. DEFINE c == Len(Content)
  <2>1. /\ at = 1 + c
        /\ \A j \in 1 .. c : img[1 + j] = Content[j]
        /\ \A i \in at + 1 .. env_size : img[i] = "NUL"
    BY DEF Holds
  <2>2. c = p + m
    BY <1>2
  <2>. HIDE DEF c, p, m
  <2>. QED BY <2>1, <2>2
<1>4. f = p + 1 /\ f \in 1 .. 2 /\ at = f + m /\ f + m <= env_size
  <2>1. f = p + 1 /\ at <= env_size /\ at = 1 + (p + m) /\ m \in Nat /\ p \in {0, 1}
    BY <1>1, <1>2, <1>3
  <2>. HIDE DEF f, p, m
  <2>. QED BY <2>1
<1>. HIDE DEF w, p, f
<1>. HIDE DEF m
<1>5. \A j \in 1 .. m : img[f + j] = Mark(w[j]) /\ w[j] \in {"a", "NL"}
  <2>. TAKE j \in 1 .. m
  <2>1. p + j \in 1 .. p + m /\ f + j = 1 + (p + j)
    BY <1>1, <1>2, <1>4
  <2>2. img[f + j] = Mark(w[j])
    BY <1>2, <1>3, <2>1
  <2>3. w[j] \in {"a", "NL"}
    BY <1>1 DEF m
  <2>. QED BY <2>2, <2>3
<1>6. n \in 1 .. m /\ (n = m \/ n = m - 1) /\ (n = m <=> f + m < env_size)
  BY <1>1, <1>4
<1>7. \A s \in 1 .. env_size :
        Strings[s] = IF s >= env_size - 1 THEN <<>>
                     ELSE IF img[s + 1] = "LF" THEN <<"ESC", "NL">> \o Strings[s + 1]
                     ELSE IF img[s + 1] # "NUL" THEN <<img[s + 1]>> \o Strings[s + 1]
                     ELSE IF img[s + 2] = "NUL" THEN <<"NL">> ELSE <<"NL">> \o Strings[s + 1]
  <2>1. env_size \in Nat \ {0}
    BY <1>1, <1>4
  <2>. QED BY <2>1, StringsDef
<1>. HIDE DEF n
<1>8. \A j \in 1 .. n : <<w[j]>> \o SubSeq(w, j + 1, n) = SubSeq(w, j, n)
  <2>. TAKE j \in 1 .. n
  <2>1. j \in 1 .. Len(w) /\ n \in j .. Len(w)
    BY <1>1, <1>6 DEF m
  <2>. QED BY <1>1, <2>1, HeadAndRest
<1>. DEFINE From(d) == Strings[f + (n - d)] = SubSeq(w, (n - d) + 1, n)
            S == {d \in Nat : (d > 0 \/ n = m - 1) /\ d <= n => From(d)}
<1>9. n = m - 1 => From(0)
  <2>. HAVE n = m - 1
  <2>1. f + n \in 1 .. env_size /\ f + n >= env_size - 1 /\ n - 0 = n
    BY <1>1, <1>4, <1>6
  <2>2. Strings[f + n] = <<>>
    BY <1>7, <2>1
  <2>3. SubSeq(w, n + 1, n) = <<>>
    BY <1>1, <1>6
  <2>. QED BY <2>1, <2>2, <2>3
<1>10. ASSUME NEW d \in Nat, d < n, From(d) \/ (d = 0 /\ n = m) PROVE From(d + 1)
  <2>. DEFINE j == n - d
              s == f + (j - 1)
  <2>1. /\ j \in 1 .. n /\ j \in 1 .. m /\ s \in 1 .. env_size /\ ~(s >= env_size - 1)
        /\ s + 1 = f + j /\ s + 2 = f + (j + 1) /\ n - (d + 1) = j - 1 /\ (j - 1) + 1 = j
    <3>1. d \in Nat /\ d < n /\ n \in Nat /\ m \in Nat /\ f \in 1 .. 2 /\ env_size \in Nat
      BY <1>1, <1>4, <1>6, <1>10
    <3>2. j \in 1 .. n /\ j \in 1 .. m /\ n <= m
      BY <1>6, <3>1
    <3>3. f + (j - 1) < env_size - 1
      <4>1. j = m => n = m
        BY <3>1, <3>2
      <4>. QED BY <1>4, <1>6, <3>1, <3>2, <4>1
    <3>4. n - (d + 1) = j - 1
      BY <3>1
    <3>. HIDE DEF j
    <3>. QED BY <3>1, <3>2, <3>3, <3>4
  <2>. HIDE DEF j, s
  <2>2. Strings[s] = IF img[f + j] = "LF" THEN <<"ESC", "NL">> \o Strings[f + j]
                     ELSE IF img[f + j] # "NUL" THEN <<img[f + j]>> \o Strings[f + j]
                     ELSE IF img[f + (j + 1)] = "NUL" THEN <<"NL">> ELSE <<"NL">> \o Strings[f + j]
    BY <1>7, <2>1
  <2>3. From(d) => <<w[j]>> \o Strings[f + j] = SubSeq(w, j, n)
    <3>1. From(d) => Strings[f + j] = SubSeq(w, j + 1, n)
      BY DEF j
    <3>. QED BY <1>8, <2>1, <3>1
  <2>4. CASE w[j] = "a"
    <3>1. img[f + j] = "a"
      BY <1>5, <2>1, <2>4 DEF Mark
    <3>2. From(d)
      <4>1. CASE d = 0 /\ n = m
        <5>1. j = m
          BY <4>1, <1>1 DEF j
        <5>. QED BY <1>1, <2>4, <5>1
      <4>. QED BY <1>10, <4>1
    <3>. QED BY <2>1, <2>2, <2>3, <2>4, <3>1, <3>2 DEF s
  <2>5. CASE w[j] = "NL" /\ j < m
    <3>1. j + 1 \in 1 .. m /\ j \in 1 .. m - 1
      BY <1>1, <2>1, <2>5
    <3>2. w[j + 1] = "a"
      BY <1>1, <1>5, <2>5, <3>1
    <3>3. img[f + (j + 1)] = "a" /\ img[f + j] = "NUL"
      BY <1>5, <2>1, <2>5, <3>1, <3>2 DEF Mark
    <3>4. From(d)
      <4>1. ~(d = 0 /\ n = m)
        BY <1>1, <2>5 DEF j
      <4>. QED BY <1>10, <4>1
    <3>. QED BY <2>1, <2>2, <2>3, <2>5, <3>3, <3>4 DEF s
  <2>6. CASE w[j] = "NL" /\ j >= m
    <3>1. j = m /\ n = m /\ f + m < env_size
      BY <1>1, <1>6, <2>1, <2>6
    <3>2. f + (j + 1) \in at + 1 .. env_size
      BY <1>1, <1>4, <3>1
    <3>3. img[f + j] = "NUL" /\ img[f + (j + 1)] = "NUL"
      BY <1>3, <1>5, <2>1, <2>6, <3>2 DEF Mark
    <3>4. Strings[s] = <<"NL">>
      BY <2>2, <3>3
    <3>5. SubSeq(w, j, n) = <<"NL">>
      <4>1. SubSeq(w, j + 1, n) = <<>>
        BY <1>1, <3>1
      <4>2. <<w[j]>> \o <<>> = SubSeq(w, j, n)
        BY <1>8, <2>1, <4>1
      <4>3. <<"NL">> \o <<>> = <<"NL">>
        OBVIOUS
      <4>. QED BY <2>6, <4>2, <4>3, Zenon
    <3>. QED BY <2>1, <3>4, <3>5 DEF s
  <2>7. w[j] \in {"a", "NL"}
    BY <1>5, <2>1
  <2>8. j < m \/ j >= m
    BY <1>1, <2>1
  <2>. QED BY <2>4, <2>5, <2>6, <2>7, <2>8
<1>11. From(n)
  <2>. HIDE DEF From
  <2>1. 0 \in S
    BY <1>9
  <2>2. ASSUME NEW d \in Nat, d \in S PROVE d + 1 \in S
    <3>1. CASE d < n
      <4>1. From(d) \/ (d = 0 /\ n = m)
        BY <1>6, <2>2, <3>1
      <4>. QED BY <1>10, <3>1, <4>1
    <3>2. CASE ~(d < n)
      BY <1>6, <3>2
    <3>. QED BY <3>1, <3>2
  <2>3. \A d \in Nat : d \in S
    <3>. HIDE DEF S
    <3>. QED BY <2>1, <2>2, SetInduction
  <2>4. n \in Nat /\ n > 0 /\ n <= n
    BY <1>1, <1>6
  <2>. QED BY <2>3, <2>4
<1>12. n - n = 0 /\ f + 0 = f
  BY <1>1, <1>4, <1>6
<1>13. Strings[f] = SubSeq(w, 1, n)
  BY <1>11, <1>12
<1>. QED BY <1>13 DEF f, w, n, m

LEMMA SameText ==
  ASSUME UNCHANGED <<title, body>>
  PROVE  /\ Lines' = Lines /\ Content' = Content /\ Prefix' = Prefix
         /\ (Plain' <=> Plain) /\ (HasPart' <=> HasPart)
BY DEF Lines, WithLastEnd, Content, Prefix, HasPart, Plain

LEMMA NotListed == ASSUME pc' # "done" \/ env_size' = 0 PROVE ListReproduces'
BY DEF ListReproduces, Listed

LEMMA ListStart == Init => ListInv
<1>. SUFFICES ASSUME Init PROVE ListInv
  OBVIOUS
<1>1. body \in Seq(Character) /\ text = body /\ pc = "title"
  BY BodyAssumption DEF Init, Character
<1>. QED BY <1>1 DEF ListInv, ListReproduces, Listed

(* uenv_pack: the lines packed and the lines left are those of the text.   *)
LEMMA PackTitleLists == ASSUME Inv, ListInv, PackTitle PROVE ListInv'
<1>1. UNCHANGED <<title, body, text>> /\ pc = "title" /\ pc' = "lines"
  BY DEF PackTitle
<1>2. ASSUME Plain PROVE LinesTo(0)'
  <2>1. Holds(img', at', Content, Len(Prefix), Len(img'))
    BY <1>2, PrefixHolds
  <2>2. body \in Seq(Character) /\ text = body
    BY <1>1 DEF ListInv
  <2>3. body = SubSeq(body, 0 + 1, Len(body))
    BY <2>2
  <2>4. 0 \in 0 .. Len(Lines) /\ Len(Prefix) + 0 = Len(Prefix)
    BY <1>2, <2>2, LinesAre, ContentIs
  <2>5. Lines' = Lines /\ Content' = Content /\ Prefix' = Prefix
    BY <1>1, SameText
  <2>6. /\ 0 \in 0 .. Len(Lines)' /\ (0 > 0 => Lines'[0] = "NL")
        /\ text' = SubSeq(body', 0 + 1, Len(body'))
        /\ Holds(img', at', Content', Len(Prefix') + 0, Len(img'))
    BY <1>1, <2>1, <2>2, <2>3, <2>4, <2>5
  <2>. QED BY <2>6 DEF LinesTo
<1>3. body' \in Seq(Character)
  BY <1>1 DEF ListInv
<1>4. Plain' <=> Plain
  BY <1>1, SameText
<1>. QED BY <1>1, <1>2, <1>3, <1>4, NotListed DEF ListInv

LEMMA PackLineLists == ASSUME Inv, ListInv, PackLine PROVE ListInv'
<1>. DEFINE u == WithEnd(Unescaped)
            p == Len(Prefix)
<1>1. /\ UNCHANGED <<title, body>> /\ pc = "lines" /\ pc' = "lines" /\ text # <<>>
      /\ img' = WriteAt(img, at, u, "NUL") /\ at' = at + Len(u)
      /\ text' = SubSeq(text, Taken + 1, Len(text))
  BY DEF PackLine
<1>2. body \in Seq(Character) /\ text \in Seq(Character) /\ img \in Seq(Unit)
  BY DEF ListInv, Inv, TypeOK, Unit, Character
<1>3. ASSUME Plain PROVE \E k : LinesTo(k)'
  <2>1. PICK k : LinesTo(k)
    BY <1>1, <1>3 DEF ListInv
  <2>2. /\ k \in 0 .. Len(Lines) /\ text = SubSeq(body, k + 1, Len(body))
        /\ Holds(img, at, Content, p + k, Len(img))
    BY <2>1 DEF LinesTo
  <2>3. /\ Len(u) \in Nat \ {0} /\ k + Len(u) <= Len(Lines) /\ Lines[k + Len(u)] = "NL"
        /\ \A j \in 1 .. Len(u) : u[j] = Mark(Lines[k + j])
        /\ text' = SubSeq(body, (k + Len(u)) + 1, Len(body))
    BY <1>1, <1>2, <1>3, <2>2, LineIs
  <2>4. u \in Seq(Unit)
    <3>1. u \in Seq(Stored)
      BY <1>1, <1>2, LineProperties
    <3>. HIDE DEF u
    <3>. QED BY <3>1 DEF Stored, Unit
  <2>5. /\ p \in Nat /\ Len(Content) = p + Len(Lines) /\ Content \in Seq(Unit) /\ Len(Lines) \in Nat
        /\ \A j \in 1 .. Len(Lines) : Content[p + j] = Mark(Lines[j])
    BY <1>2, <1>3, ContentIs, LinesAre
  <2>. HIDE DEF u, p
  <2>. DEFINE h == p + k
              m == Len(Lines)
              n == Len(u)
  <2>6. h \in Nat /\ at = 1 + h
    BY <2>2, <2>5 DEF Holds
  <2>7. m \in Nat /\ k \in 0 .. m /\ n \in Nat \ {0} /\ k + n <= m /\ p \in Nat
    BY <2>2, <2>3, <2>5
  <2>8. /\ \A j \in 1 .. n : u[j] = Mark(Lines[k + j])
        /\ \A j \in 1 .. m : Content[p + j] = Mark(Lines[j])
    BY <2>3, <2>5
  <2>9. Len(Content) = p + m
    BY <2>5
  <2>. HIDE DEF m, n
  <2>10. \A j \in 1 .. n : u[j] = Content[h + j]
    <3>. TAKE j \in 1 .. n
    <3>1. k + j \in 1 .. m /\ h + j = p + (k + j)
      BY <2>7
    <3>. QED BY <2>8, <3>1
  <2>11. h + n <= Len(Content) /\ h + n = p + (k + n) /\ (1 + h) + n = at + n
    BY <2>6, <2>7, <2>9
  <2>12. Holds(WriteAt(img, 1 + h, u, "NUL"), (1 + h) + n, Content, h + n,
               Len(WriteAt(img, 1 + h, u, "NUL")))
    <3>1. Holds(img, 1 + h, Content, h, Len(img))
      BY <2>2, <2>6
    <3>2. h + Len(u) <= Len(Content) /\ \A j \in 1 .. Len(u) : u[j] = Content[h + j]
      BY <2>10, <2>11 DEF n
    <3>. HIDE DEF h
    <3>. QED BY <1>2, <2>4, <2>5, <2>6, <3>1, <3>2, HoldsNext DEF n
  <2>13. Holds(img', at', Content, p + (k + n), Len(img'))
    BY <1>1, <2>6, <2>11, <2>12 DEF n
  <2>14. k + n \in 0 .. m /\ Lines[k + n] = "NL" /\ text' = SubSeq(body, (k + n) + 1, Len(body))
    BY <2>3, <2>7 DEF n
  <2>15. Lines' = Lines /\ Content' = Content /\ Prefix' = Prefix
    BY <1>1, SameText
  <2>. DEFINE o == k + n
  <2>16. /\ o \in 0 .. Len(Lines') /\ (o > 0 => Lines'[o] = "NL")
         /\ text' = SubSeq(body', o + 1, Len(body'))
         /\ Holds(img', at', Content', Len(Prefix') + o, Len(img'))
    BY <1>1, <2>13, <2>14, <2>15 DEF p, m
  <2>. HIDE DEF o
  <2>17. PICK q : /\ q \in 0 .. Len(Lines') /\ (q > 0 => Lines'[q] = "NL")
                  /\ text' = SubSeq(body', q + 1, Len(body'))
                  /\ Holds(img', at', Content', Len(Prefix') + q, Len(img'))
    BY <2>16
  <2>18. LinesTo(q)'
    BY <2>17 DEF LinesTo
  <2>. QED BY <2>18
<1>4. body' \in Seq(Character)
  BY <1>1, <1>2
<1>5. Plain' <=> Plain
  BY <1>1, SameText
<1>. QED BY <1>1, <1>3, <1>4, <1>5, NotListed DEF ListInv

LEMMA ChecksumWritten ==
  ASSUME NEW f \in Seq(Unit)
  PROVE  LET w == WriteAt(f, 0, <<"crc">>, "NUL")
         IN Len(w) >= Len(f) /\ Len(w) \in Nat /\ \A i \in 2 .. Len(f) : w[i] = f[i]
<1>. DEFINE u == <<"crc">>
            w == WriteAt(f, 0, u, "NUL")
<1>1. u \in Seq(Unit) /\ Len(u) = 1 /\ "NUL" \in Unit
  BY DEF Unit
<1>. HIDE DEF u
<1>2. w \in Seq(Unit) /\ IsWritten(w, f, 0, u, "NUL")
  BY <1>1, WriteAtProperties
<1>. HIDE DEF w
<1>3. Len(w) \in Nat /\ Len(f) \in Nat
  BY <1>2
<1>4. Len(w) >= Len(f) /\ \A i \in 2 .. Len(f) : w[i] = f[i]
  BY <1>1, <1>2, <1>3 DEF IsWritten
<1>. QED BY <1>3, <1>4 DEF w, u

(* The file is as long as the environment at least, and the lines are all  *)
(* there; the checksum is put in front of them.                            *)
LEMMA PackEndsLists == ASSUME Inv, ListInv, PackEnds PROVE ListInv'
<1>1. /\ UNCHANGED <<title, body, at>> /\ pc = "lines" /\ pc' = "packed" /\ text = <<>>
      /\ img' = WriteAt(img, 0, <<"crc">>, "NUL")
  BY DEF PackEnds
<1>2. body \in Seq(Character) /\ img \in Seq(Unit) /\ Len(img) >= title.size /\ title.size \in Nat
  BY <1>1, TitleType DEF ListInv, Inv, TypeOK, SizeInv, ImageInv, Unit
<1>3. ASSUME Plain, Fits PROVE Holds(img', at, Content, Len(Content), title.size)
  <2>1. PICK k : LinesTo(k)
    BY <1>1, <1>3 DEF ListInv
  <2>. DEFINE l == Len(body)
              m == Len(Lines)
  <2>2. /\ k \in 0 .. m /\ (k > 0 => Lines[k] = "NL") /\ SubSeq(body, k + 1, l) = <<>>
        /\ Holds(img, at, Content, Len(Prefix) + k, Len(img))
    BY <1>1, <2>1 DEF LinesTo
  <2>3. /\ m \in Nat /\ l \in Nat /\ l > 0 /\ m = (IF body[l] = "NL" THEN l ELSE l + 1)
        /\ \A i \in 1 .. l : Lines[i] = body[i]
    <3>1. body # <<>>
      BY <1>3 DEF Plain
    <3>2. l > 0 /\ l \in Nat
      BY <1>2, <3>1
    <3>. QED BY <1>2, <1>3, <3>2, LinesAre
  <2>4. k >= l
    <3>1. CASE k < l
      <4>1. Len(SubSeq(body, k + 1, l)) = l - k
        BY <1>2, <2>2, <2>3, <3>1
      <4>2. SubSeq(body, k + 1, l) = <<>> /\ k \in Nat
        BY <2>2, <2>3
      <4>3. l - k = 0
        BY <4>1, <4>2
      <4>. HIDE DEF l
      <4>. QED BY <2>3, <3>1, <4>2, <4>3
    <3>. HIDE DEF l, m
    <3>. QED BY <2>2, <2>3, <3>1
  <2>5. k = m
    <3>1. CASE k = l
      <4>1. body[l] = "NL"
        BY <2>2, <2>3, <3>1
      <4>. QED BY <2>3, <3>1, <4>1
    <3>2. CASE k # l
      BY <2>2, <2>3, <2>4, <3>2
    <3>. QED BY <3>1, <3>2
  <2>6. Len(Prefix) + k = Len(Content)
    BY <1>2, <1>3, <2>5, ContentIs
  <2>. DEFINE c == Len(Content)
              n == title.size
  <2>7. /\ c \in Nat /\ at = 1 + c /\ at <= n
        /\ \A j \in 1 .. c : 1 + j <= Len(img) /\ img[1 + j] = Content[j]
        /\ \A i \in at + 1 .. Len(img) : img[i] = "NUL"
    <3>1. Holds(img, at, Content, c, Len(img))
      BY <2>2, <2>6
    <3>2. c \in Nat
      BY <1>2, <1>3, ContentIs
    <3>. QED BY <1>3, <3>1, <3>2 DEF Holds, Fits
  <2>8. Len(img') >= Len(img) /\ Len(img') \in Nat /\ \A i \in 2 .. Len(img) : img'[i] = img[i]
    BY <1>1, <1>2, ChecksumWritten
  <2>. HIDE DEF c, n
  <2>9. n \in Nat /\ n <= Len(img) /\ Len(img) \in Nat
    BY <1>2 DEF n
  <2>10. \A j \in 1 .. c : 1 + j <= n /\ img'[1 + j] = Content[j]
    <3>. TAKE j \in 1 .. c
    <3>1. 1 + j <= n /\ 1 + j \in 2 .. Len(img)
      BY <2>7, <2>9
    <3>. QED BY <2>7, <2>8, <3>1
  <2>11. \A i \in at + 1 .. n : img'[i] = "NUL"
    <3>. TAKE i \in at + 1 .. n
    <3>1. i \in at + 1 .. Len(img) /\ i \in 2 .. Len(img)
      BY <2>7, <2>9
    <3>. QED BY <2>7, <2>8, <3>1
  <2>12. n <= Len(img') /\ c \in 0 .. Len(Content)
    BY <2>7, <2>8, <2>9 DEF c
  <2>. QED BY <2>7, <2>10, <2>11, <2>12 DEF Holds, c, n
<1>4. Content' = Content /\ (Plain' <=> Plain) /\ (Fits' <=> Fits)
  BY <1>1, SameText DEF Fits
<1>5. Plain' /\ Fits' => Holds(img', at', Content', Len(Content'), title'.size)
  BY <1>1, <1>3, <1>4
<1>6. body' \in Seq(Character) /\ ListReproduces'
  BY <1>1, <1>2, NotListed
<1>. QED BY <1>1, <1>5, <1>6 DEF ListInv

(* uenv_detect: what follows the environment is behind it.                 *)
LEMMA DetectBeginsLists == ASSUME Inv, ListInv, DetectBegins PROVE ListInv'
<1>1. PICK n \in Trailer : /\ pc = "packed" /\ pc' = "detect"
                           /\ img' = img \o [i \in 1 .. n |-> "ff"]
                           /\ UNCHANGED <<title, body, at>>
  BY DEF DetectBegins
<1>2. body \in Seq(Character) /\ img \in Seq(Unit) /\ n \in Nat
  BY UenvAssumption DEF ListInv, Inv, TypeOK, Unit
<1>3. Len(img') >= Len(img) /\ \A i \in 1 .. Len(img) : img'[i] = img[i]
  <2>. DEFINE t == [i \in 1 .. n |-> "ff"]
  <2>1. t \in Seq(Unit) /\ Len(t) = n
    BY <1>2 DEF Unit
  <2>2. img' = img \o t
    BY <1>1
  <2>. HIDE DEF t
  <2>3. Len(img \o t) = Len(img) + Len(t) /\ \A i \in 1 .. Len(img) : (img \o t)[i] = img[i]
    BY <1>2, <2>1, ConcatProperties
  <2>. QED BY <1>2, <2>1, <2>2, <2>3
<1>4. Content' = Content /\ (Plain' <=> Plain) /\ (Fits' <=> Fits)
  BY <1>1, SameText DEF Fits
<1>5. ASSUME Plain, Fits PROVE Holds(img', at, Content, Len(Content), title.size)
  <2>. DEFINE c == Len(Content)
              s == title.size
  <2>1. Holds(img, at, Content, c, s)
    BY <1>1, <1>5 DEF ListInv
  <2>2. c \in Nat /\ s \in Nat /\ Len(img) \in Nat /\ Len(img') \in Nat
    <3>1. c \in Nat
      BY <1>2, <1>5, ContentIs
    <3>2. s \in Nat
      BY TitleType DEF Inv, TypeOK
    <3>3. img' \in Seq(Unit)
      BY DetectBeginsStep DEF Inv, TypeOK, Unit
    <3>. QED BY <1>2, <3>1, <3>2, <3>3
  <2>. HIDE DEF c, s
  <2>3. /\ c \in 0 .. Len(Content) /\ at = 1 + c /\ s <= Len(img)
        /\ \A j \in 1 .. c : 1 + j <= s /\ img[1 + j] = Content[j]
        /\ \A i \in at + 1 .. s : img[i] = "NUL"
    BY <2>1 DEF Holds
  <2>4. \A j \in 1 .. c : 1 + j \in 1 .. Len(img)
    BY <2>2, <2>3
  <2>5. \A i \in at + 1 .. s : i \in 1 .. Len(img)
    BY <2>2, <2>3
  <2>6. s <= Len(img')
    BY <1>3, <2>2, <2>3
  <2>. QED BY <1>3, <2>3, <2>4, <2>5, <2>6 DEF Holds, c, s
<1>6. Plain' /\ Fits' => Holds(img', at', Content', Len(Content'), title'.size)
  BY <1>1, <1>4, <1>5
<1>7. body' \in Seq(Character) /\ ListReproduces'
  BY <1>1, <1>2, NotListed
<1>. QED BY <1>1, <1>6, <1>7 DEF ListInv

(* uenv_list.                                                              *)
LEMMA WholeText ==
  ASSUME body \in Seq(Character), Plain, NEW n \in {Len(Lines), Len(Lines) - 1}
  PROVE  WithLastEnd(SubSeq(Lines, 1, n)) = WithLastEnd(body)
<1>. DEFINE w == Lines
            m == Len(w)
            s == SubSeq(w, 1, n)
            T == {"a", "NL"}
<1>1. /\ w \in Seq(T) /\ m \in Nat /\ m >= 2 /\ w[m] = "NL"
      /\ \A i \in 1 .. m - 1 : ~(w[i] = "NL" /\ w[i + 1] = "NL")
  BY LinesAre
<1>2. WithLastEnd(body) = w
  BY DEF Lines
<1>. HIDE DEF w
<1>3. CASE n = m
  <2>1. s = w
    BY <1>1, <1>3
  <2>2. w # <<>> /\ w[Len(w)] = "NL"
    BY <1>1
  <2>3. WithLastEnd(w) = w
    BY <2>2 DEF WithLastEnd
  <2>. QED BY <1>2, <2>1, <2>3 DEF w
<1>4. CASE n = m - 1
  <2>1. s \in Seq(T) /\ Len(s) = m - 1 /\ \A i \in 1 .. m - 1 : s[i] = w[i]
    BY <1>1, <1>4
  <2>. HIDE DEF s
  <2>2. m - 1 \in 1 .. m - 1 /\ (m - 1) + 1 = m
    BY <1>1
  <2>3. w[m - 1] # "NL"
    BY <1>1, <2>2
  <2>4. s[Len(s)] # "NL"
    BY <2>1, <2>2, <2>3
  <2>5. WithLastEnd(s) = Append(s, "NL")
    BY <2>4 DEF WithLastEnd
  <2>. DEFINE a == Append(s, "NL")
  <2>6. a \in Seq(T) /\ Len(a) = m /\ a[m] = "NL" /\ \A i \in 1 .. m - 1 : a[i] = s[i]
    BY <1>1, <2>1
  <2>. HIDE DEF a, m
  <2>7. \A i \in 1 .. m : a[i] = w[i]
    <3>. TAKE i \in 1 .. m
    <3>1. i = m \/ i \in 1 .. m - 1
      BY <1>1
    <3>. QED BY <1>1, <2>1, <2>6, <3>1
  <2>8. a = w
    BY <1>1, <2>6, <2>7 DEF m
  <2>. QED BY <1>2, <2>5, <2>8 DEF s, w, a
<1>. QED BY <1>3, <1>4 DEF w

LEMMA ListLists == ASSUME Inv, ListInv, List PROVE ListInv'
<1>1. /\ UNCHANGED <<title, body, at, img, env_size>> /\ pc = "list" /\ pc' = "done"
      /\ printed' = Strings[FirstString]
  BY DEF List
<1>2. /\ body \in Seq(Character) /\ env_size = title.size /\ env_size \in Nat
  BY <1>1 DEF ListInv, Inv, TypeOK, SizeInv
<1>3. Content' = Content /\ Lines' = Lines /\ (Plain' <=> Plain) /\ (Fits' <=> Fits) /\ (HasPart' <=> HasPart)
      /\ ListedPart' = ListedPart
  BY <1>1, SameText DEF Fits, ListedPart
<1>4. ASSUME Plain, Fits
      PROVE  /\ ListedPart = IF HasPart THEN title.part ELSE -1
             /\ WithLastEnd(printed') = WithLastEnd(body)
  <2>. DEFINE c == Len(Content)
              p == Len(Prefix)
  <2>1. Holds(img, at, Content, c, env_size) /\ at <= env_size
    BY <1>1, <1>2, <1>4 DEF ListInv, Fits
  <2>2. /\ p = (IF HasPart THEN 1 ELSE 0) /\ c = p + Len(Lines)
        /\ \A j \in 1 .. Len(Lines) : Content[p + j] = Mark(Lines[j])
        /\ HasPart => Content[1] = PartByte(title.part)
    BY <1>2, <1>4, ContentIs
  <2>3. Len(Lines) \in Nat /\ Len(Lines) >= 2 /\ Lines[1] = "a"
    BY <1>2, <1>4, LinesAre
  <2>4. \A j \in 1 .. c : img[1 + j] = Content[j]
    BY <2>1 DEF Holds
  <2>. HIDE DEF c, p
  <2>5. img[2] = Content[1]
    <3>1. 1 \in 1 .. c /\ 1 + 1 = 2
      <4>1. p \in {0, 1}
        BY <2>2
      <4>. QED BY <2>2, <2>3, <4>1
    <3>. QED BY <2>4, <3>1
  <2>6. /\ ListedPart = IF HasPart THEN title.part ELSE -1
        /\ FirstString = p + 1
    <3>1. CASE HasPart
      <4>1. title.part \in Part /\ img[2] = PartByte(title.part) /\ p = 1
        BY <2>2, <2>5, <3>1 DEF HasPart
      <4>2. ListedPart = title.part
        BY <4>1 DEF ListedPart, PartByte, Part, MAIN, REDUND
      <4>. QED BY <3>1, <4>1, <4>2 DEF FirstString
    <3>2. CASE ~HasPart
      <4>1. p = 0
        BY <2>2, <3>2
      <4>2. 1 \in 1 .. Len(Lines) /\ p + 1 = 1
        BY <2>3, <4>1
      <4>3. Content[1] = Mark(Lines[1])
        BY <2>2, <4>2
      <4>4. img[2] = "a"
        BY <2>3, <2>5, <4>3 DEF Mark
      <4>5. ListedPart = -1
        BY <4>4 DEF ListedPart, MAIN, REDUND
      <4>6. FirstString = 1
        BY <4>5 DEF FirstString, Part, MAIN, REDUND
      <4>. QED BY <3>2, <4>1, <4>5, <4>6
    <3>. QED BY <3>1, <3>2
  <2>. DEFINE n == IF at = env_size THEN Len(Lines) - 1 ELSE Len(Lines)
  <2>7. Strings[FirstString] = SubSeq(Lines, 1, n)
    BY <1>2, <1>4, <2>1, <2>6, LinesAreListed DEF c, p
  <2>8. n \in {Len(Lines), Len(Lines) - 1}
    OBVIOUS
  <2>. HIDE DEF n
  <2>9. WithLastEnd(SubSeq(Lines, 1, n)) = WithLastEnd(body)
    BY <1>2, <1>4, <2>8, WholeText
  <2>10. WithLastEnd(printed') = WithLastEnd(body)
    BY <1>1, <2>7, <2>9
  <2>. QED BY <2>6, <2>10
<1>5. WithLastEnd(body') = WithLastEnd(body) /\ WithLastEnd(printed)' = WithLastEnd(printed')
  BY <1>1 DEF WithLastEnd
<1>6. ListReproduces'
  BY <1>1, <1>2, <1>3, <1>4, <1>5 DEF ListReproduces
<1>7. body' \in Seq(Character)
  BY <1>1, <1>2
<1>. QED BY <1>1, <1>6, <1>7 DEF ListInv

LEMMA ListInvStep == Inv /\ ListInv /\ [Next]_vars => ListInv'
<1>. SUFFICES ASSUME Inv, ListInv, [Next]_vars PROVE ListInv'
  OBVIOUS
<1>1. CASE PackTitleFails \/ PackOverflows \/ DetectFails
  <2>1. UNCHANGED <<title, body, env_size>> /\ pc' = "done" /\ env_size = 0
    BY <1>1 DEF PackTitleFails, PackOverflows, DetectFails, Inv, SizeInv
  <2>. QED BY <2>1, NotListed DEF ListInv
<1>2. CASE DetectNext \/ DetectFinds
  <2>1. /\ UNCHANGED <<title, body, img, at>> /\ pc = "detect" /\ pc' \in {"detect", "list"}
    BY <1>2 DEF DetectNext, DetectFinds
  <2>2. Content' = Content /\ (Plain' <=> Plain) /\ (Fits' <=> Fits)
    BY <2>1, SameText DEF Fits
  <2>3. Plain /\ Fits => Holds(img, at, Content, Len(Content), title.size)
    BY <2>1 DEF ListInv
  <2>4. Plain' /\ Fits' => Holds(img', at', Content', Len(Content'), title'.size)
    BY <2>1, <2>2, <2>3
  <2>5. body' \in Seq(Character)
    BY <2>1 DEF ListInv
  <2>. QED BY <2>1, <2>4, <2>5, NotListed DEF ListInv
<1>3. CASE UNCHANGED vars
  <2>1. UNCHANGED <<pc, title, text, body, img, at, printed, env_size>>
    BY <1>3 DEF vars
  <2>2. Content' = Content /\ Lines' = Lines /\ Prefix' = Prefix /\ (Plain' <=> Plain) /\ (Fits' <=> Fits)
        /\ (HasPart' <=> HasPart)
    BY <2>1, SameText DEF Fits
  <2>3. \A k : LinesTo(k) => LinesTo(k)'
    BY <2>1, <2>2 DEF LinesTo
  <2>4. ListReproduces'
    <3>1. ListReproduces
      BY DEF ListInv
    <3>. QED BY <2>1, <2>2, <3>1 DEF ListReproduces, Listed, ListedPart, WithLastEnd
  <2>5. pc' \in {"packed", "detect", "list"} /\ Plain' /\ Fits' =>
          Holds(img', at', Content', Len(Content'), title'.size)
    BY <2>1, <2>2 DEF ListInv
  <2>6. pc' = "lines" /\ Plain' => \E k : LinesTo(k)'
    BY <2>1, <2>2, <2>3 DEF ListInv
  <2>7. body' \in Seq(Character) /\ (pc' = "title" => text' = body')
    BY <2>1 DEF ListInv
  <2>. QED BY <2>4, <2>5, <2>6, <2>7, Zenon DEF ListInv
<1>. QED BY <1>1, <1>2, <1>3, PackTitleLists, PackLineLists, PackEndsLists, DetectBeginsLists, ListLists
         DEF Next

(* uenv_list prints the text that uenv_pack was given, if its lines are    *)
(* plain and fit, whatever follows the environment and even when the last  *)
(* NUL is its last byte.                                                   *)
THEOREM TextIsListed == Spec => []ListReproduces
<1>1. Inv /\ ListInv => ListReproduces
  BY DEF ListInv
<1>2. Init => Inv /\ ListInv
  BY InitInv, ListStart
<1>3. Inv /\ ListInv /\ [Next]_vars => (Inv /\ ListInv)'
  BY InvStep, ListInvStep
<1>. QED BY <1>1, <1>2, <1>3, PTL DEF Spec
=============================================================================
