-------------------------------- MODULE MCUbi --------------------------------
(* UbiFs on small file systems, with indexes of one to four levels, in      *)
(* images with the PEBs in many orders, erased, bad, stale and missing.     *)
EXTENDS UbiFs

(* The image: two PEBs of the volume table, then the PEBs of the volume.    *)
P(kind, lnum) == [kind |-> kind, lnum |-> lnum]
FF == P("ff", 0)
Bad == P("bad", 0)
Old == P("stale", 3)
L(lnum) == P("good", lnum)
Image(s) == [i \in 0 .. Len(s) + 1 |-> IF i < 2 THEN L(i) ELSE s[i - 1]]
MCImages == {Image(s) : s \in {
  <<L(0), L(1), L(2), L(3), L(4)>>, <<L(4), L(3), L(2), L(1), L(0)>>,
  <<L(3), FF, L(1), Bad, L(4), L(0), L(2)>>, <<L(2), L(2), L(3), L(4), L(3), L(0), L(1)>>,
  <<L(0), L(1), L(2), L(4)>>, <<L(1), L(0), Old, L(2), L(3), L(4)>>,
  <<L(0), L(1), L(2), L(3), Old, L(4)>>, <<L(0), Bad, L(2)>>, <<L(0)>>}}

Key(i, type, hash) == (8 * i + type) * Hashes + hash
I(i, l, size) == <<Key(i, INO, 0), [lnum |-> l, type |-> "ino", size |-> size]>>
D(i, hash, l, sub, kind) == <<Key(i, DENT, hash), [lnum |-> l, type |-> "dent", inum |-> sub, itype |-> kind]>>
B(i, blk, l, units, ok) ==
  <<Key(i, DATA, blk), [lnum |-> l, type |-> "data", units |-> units, decompresses |-> ok]>>

(* The index over leaves, with w entries in every node: the root is node 1, *)
(* then come the nodes of the level below, and so on.                       *)
System(leaves, w, flawed) ==
  LET size == Len(leaves)
      Count(j) == (size + w^(j + 1) - 1) \div w^(j + 1)
      top == CHOOSE j \in 0 .. 4 : Count(j) = 1 /\ \A k \in 0 .. j - 1 : Count(k) > 1
      Base[j \in Nat] == IF j >= top THEN 0 ELSE Base[j + 1] + Count(j + 1)
      LevelOf(b) == CHOOSE j \in 0 .. top : Base[j] < b /\ b <= Base[j] + Count(j)
      Below(j) == IF j = 0 THEN size ELSE Count(j - 1)
      Entry0(j, c) == [key |-> leaves[(c - 1) * w^j + 1][1],
                       at |-> IF j = 0 THEN c ELSE Base[j - 1] + c]
      Node(b) == LET j == LevelOf(b)
                     first == (b - Base[j] - 1) * w
                     many == IF first + w > Below(j) THEN Below(j) - first ELSE w
                 IN [level |-> j, lnum |-> 2, branch |-> [i \in 1 .. many |-> Entry0(j, first + i)]]
  IN [index |-> [b \in 1 .. Base[0] + Count(0) |-> Node(b)],
      node |-> [i \in 1 .. size |-> leaves[i][2]], flawed |-> flawed]

(* A directory in the root, links, a file with a hole and a short tail.     *)
Nested == <<I(1, 3, 0), D(1, 1, 3, 2, "dir"), D(1, 2, 4, 3, "reg"), I(2, 3, 0), D(2, 1, 4, 4, "lnk"),
            D(2, 6, 3, 3, "reg"), I(3, 4, 6), B(3, 0, 3, <<1, 2>>, TRUE), B(3, 2, 4, <<3>>, TRUE), I(4, 3, 1)>>
Wide == <<I(1, 3, 0), D(1, 0, 3, 5, "reg"), D(1, 1, 4, 2, "dir"), D(1, 2, 3, 6, "reg"), I(2, 3, 0), I(5, 4, 0),
          I(6, 3, 5), B(6, 1, 4, <<4, 5>>, TRUE), B(6, 2, 4, <<6>>, TRUE)>>
Devices == <<I(1, 3, 0), D(1, 1, 3, 2, "other"), D(1, 2, 3, 3, "reg"), I(2, 3, 0), I(3, 4, 1), B(3, 0, 4, <<7>>, TRUE)>>
Collision == <<I(1, 3, 0), D(1, 1, 3, 2, "reg"), D(1, 1, 3, 3, "reg"), I(2, 3, 0), I(3, 3, 1), B(3, 0, 4, <<7>>, TRUE)>>
Large == <<I(1, 3, 0), D(1, 1, 3, 2, "reg"), I(2, 3, 8), B(2, 0, 4, <<1, 1>>, TRUE), B(2, 3, 4, <<8, 8>>, TRUE)>>
Endless == <<I(1, 3, 0), D(1, 1, 3, 2, "reg"), I(2, 3, 8), B(2, 7, 4, <<1, 1>>, TRUE)>>
BadData == <<I(1, 3, 0), D(1, 1, 3, 2, "reg"), I(2, 3, 2), B(2, 0, 4, <<1, 1>>, FALSE)>>
NoInode == <<I(1, 3, 0), D(1, 1, 3, 2, "reg")>>
BadType == <<I(1, 3, 0), <<Key(1, DENT, 1), [lnum |-> 3, type |-> "ino", size |-> 0]>> >>

MCSystems ==
  {System(Nested, w, FALSE) : w \in {2, 3, 4}} \cup {System(Wide, w, FALSE) : w \in {2, 3, 5, 9}}
  \cup {System(Devices, 3, TRUE), System(Collision, 2, FALSE), System(Large, 5, FALSE), System(Endless, 4, FALSE),
        System(BadData, 4, TRUE),
        System(NoInode, 2, TRUE), System(BadType, 2, TRUE)}
=============================================================================
