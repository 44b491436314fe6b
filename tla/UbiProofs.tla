------------------------------ MODULE UbiProofs ------------------------------
(***************************************************************************)
(* Proofs about the cache of PEBs and the search for a LEB, for any number *)
(* of cache entries, any image and any reads that fail; then that the      *)
(* commands of UbiFs use the reader of UbiPebs only as UbiPebs says, so    *)
(* that what is proved of the reader holds of every command, for any file  *)
(* system and any index; last, the types of the commands, where an index   *)
(* is any tree.                                                            *)
(***************************************************************************)
EXTENDS UbiFs, Lemmas

(* Before the last command, only PEBs after the volume table are cached.   *)
CachedAreData == reader # "done" => \A i \in Slot : caches[i].hit > 0 => caches[i].pnum >= 2

(* The search has passed no PEB of the LEB that it is for.                 *)
NonePassed ==
  reader = "scan" => /\ want \in Nat /\ peb >= 2
                     /\ \A num \in Copies(want) : num >= peb

Inv == PebTypeOK /\ CacheExact /\ CachedAreData /\ NonePassed /\ LookupExact

(* A read that does not fill its entry leaves it unused.                   *)
LEMMA NotFilled ==
  ASSUME PebTypeOK, NEW i \in Slot, NEW num \in Nat, NEW f \in BOOLEAN, NEW r \in {1, 2},
         ~Cached(num), ~(~f /\ HasHeader(num))
  PROVE  After(i, num, f, r) \in CachePeb /\ After(i, num, f, r).hit = 0
<1> DEFINE c == Unused(caches[i])
           h == IF ~f /\ num \in DOMAIN media THEN num ELSE JUNK
<1>1. c \in CachePeb /\ c.hit = 0
  BY DEF Unused, PebTypeOK, CachePeb
<1>2. h \in Nat \cup {JUNK}
  OBVIOUS
<1>3. After(i, num, f, r) = [c EXCEPT !.holds = h]
  BY DEF After
<1> HIDE DEF c, h
<1>. QED BY <1>1, <1>2, <1>3 DEF CachePeb

(* What a read of PEB num leaves in its entry.                               *)
LEMMA AfterType ==
  ASSUME PebTypeOK, NEW i \in Slot, NEW num \in Nat, NEW f \in BOOLEAN, NEW r \in {1, 2}
  PROVE  /\ After(i, num, f, r) \in CachePeb
         /\ [caches EXCEPT ![i] = After(i, num, f, r)] \in [Slot -> CachePeb]
<1>1. caches[i] \in CachePeb /\ media \in [DOMAIN media -> Peb]
  BY UbiAssumption DEF PebTypeOK
<1>2. HasHeader(num) => media[num].lnum \in Nat
  BY <1>1 DEF HasHeader, Peb
<1>3. After(i, num, f, r) \in CachePeb
  <2>1. CASE Cached(num)
    BY <1>1, <2>1 DEF After, CachePeb, PebTypeOK
  <2>2. CASE ~Cached(num) /\ ~f /\ HasHeader(num)
    BY <1>1, <1>2, <2>2 DEF After, CachePeb, PebTypeOK
  <2>3. CASE ~Cached(num) /\ ~(~f /\ HasHeader(num))
    BY <2>3, NotFilled
  <2>. QED BY <2>1, <2>2, <2>3
<1>. QED BY <1>3 DEF PebTypeOK

(* A read that answers "ok" leaves the bytes of the PEB in its entry.      *)
LEMMA OkHolds ==
  ASSUME PebTypeOK, CacheExact, NEW i \in Slot, NEW num \in Nat, NEW f \in BOOLEAN,
         NEW r \in {1, 2}, Entry(i, num), Returned(num, f) = "ok"
  PROVE  After(i, num, f, r).holds = num /\ HasHeader(num)
<1>1. CASE Cached(num)
  <2>1. Holds(i, num)
    BY <1>1 DEF Entry, FindByPnum
  <2>2. caches[i].holds = num /\ HasHeader(num)
    BY <2>1 DEF Holds, CacheExact
  <2>. QED BY <1>1, <2>2 DEF After, PebTypeOK, CachePeb
<1>2. CASE ~Cached(num)
  BY <1>2 DEF Returned, After
<1>. QED BY <1>1, <1>2

(* A read keeps the cache exact: the entry it reads into is unused before  *)
(* the read, and in use again only with the bytes of PEB num, which no other *)
(* entry has.                                                              *)
LEMMA ReadKeepsExact ==
  ASSUME PebTypeOK, CacheExact, NEW i \in Slot, NEW num \in Nat, NEW f \in BOOLEAN,
         NEW r \in {1, 2}, Entry(i, num), media' = media,
         caches' = [caches EXCEPT ![i] = After(i, num, f, r)]
  PROVE  CacheExact'
<1>1. /\ caches'[i] = After(i, num, f, r)
      /\ \A j \in Slot : j # i => caches'[j] = caches[j]
  BY DEF PebTypeOK
<1>2. caches[i] \in CachePeb
  BY DEF PebTypeOK
<1>3. CASE Cached(num)
  <2>1. Holds(i, num)
    BY <1>3 DEF Entry, FindByPnum
  <2>2. /\ caches'[i].pnum = caches[i].pnum /\ caches'[i].lnum = caches[i].lnum
        /\ caches'[i].holds = caches[i].holds
    BY <1>1, <1>2, <1>3 DEF After, CachePeb
  <2>3. \A j \in Slot : caches'[j].hit > 0 =>
          /\ caches[j].hit > 0 /\ caches'[j].pnum = caches[j].pnum
          /\ caches'[j].lnum = caches[j].lnum /\ caches'[j].holds = caches[j].holds
    BY <1>1, <2>1, <2>2 DEF Holds
  <2>. QED BY <2>3 DEF CacheExact, HasHeader
<1>4. CASE ~Cached(num) /\ ~f /\ HasHeader(num)
  <2>1. caches'[i] = [hit |-> r, pnum |-> num, lnum |-> media[num].lnum, holds |-> num]
    BY <1>1, <1>4 DEF After
  <2>2. \A j \in Slot : j # i /\ caches[j].hit > 0 => caches[j].pnum # num
    BY <1>4 DEF Cached, Holds
  <2>. QED BY <1>1, <1>4, <2>1, <2>2 DEF CacheExact, HasHeader
<1>5. CASE ~Cached(num) /\ ~(~f /\ HasHeader(num))
  <2>1. caches'[i].hit = 0
    BY <1>1, <1>5, NotFilled
  <2>. QED BY <1>1, <2>1 DEF CacheExact, HasHeader
<1>. QED BY <1>3, <1>4, <1>5

(* A read of a PEB after the volume table caches no other kind.            *)
LEMMA ReadKeepsData ==
  ASSUME PebTypeOK, NEW i \in Slot, NEW num \in Nat, NEW f \in BOOLEAN, NEW r \in {1, 2},
         num >= 2, Entry(i, num), \A j \in Slot : caches[j].hit > 0 => caches[j].pnum >= 2,
         caches' = [caches EXCEPT ![i] = After(i, num, f, r)]
  PROVE  \A j \in Slot : caches'[j].hit > 0 => caches'[j].pnum >= 2
<1>1. /\ caches'[i] = After(i, num, f, r)
      /\ \A j \in Slot : j # i => caches'[j] = caches[j]
  BY DEF PebTypeOK
<1>2. caches[i] \in CachePeb
  BY DEF PebTypeOK
<1>3. CASE Cached(num)
  <2>1. caches[i].pnum = num
    BY <1>3 DEF Entry, FindByPnum, Holds
  <2>. QED BY <1>1, <1>2, <1>3, <2>1 DEF After, CachePeb
<1>4. CASE ~Cached(num) /\ ~f /\ HasHeader(num)
  BY <1>1, <1>4 DEF After
<1>5. CASE ~Cached(num) /\ ~(~f /\ HasHeader(num))
  <2>1. caches'[i].hit = 0
    BY <1>1, <1>5, NotFilled
  <2>. QED BY <1>1, <2>1
<1>. QED BY <1>3, <1>4, <1>5

-----------------------------------------------------------------------------
LEMMA InitInv == PebInit => Inv
<1>. SUFFICES ASSUME PebInit PROVE Inv
  OBVIOUS
<1>1. PebTypeOK
  <2>1. MaxFaults \in Nat
    BY UbiAssumption
  <2>2. caches \in [Slot -> CachePeb]
    BY DEF PebInit, CachePeb
  <2>3. broken \in BOOLEAN
    BY DEF PebInit
  <2>4. peb \in Nat /\ faults \in 0 .. MaxFaults
    BY <2>1 DEF PebInit
  <2>. QED BY <2>2, <2>3, <2>4 DEF PebInit, PebTypeOK
<1>2. \A i \in Slot : caches[i].hit = 0
  BY DEF PebInit
<1>3. CacheExact /\ CachedAreData
  BY <1>2 DEF CacheExact, CachedAreData
<1>4. NonePassed /\ LookupExact
  BY DEF PebInit, NonePassed, LookupExact
<1>. QED BY <1>1, <1>3, <1>4 DEF Inv

(* A LEB that is cached: its entry has a PEB after the volume table.       *)
LEMMA LookupCachedStep ==
  ASSUME Inv, NEW l \in Nat, LookupCached(l)
  PROVE  Inv'
<1>1. PICK i \in Slot : LookupCached(l)!(i)
  BY DEF LookupCached
<1>2. HoldsLeb(i, l)
  BY <1>1 DEF FindByLnum
<1>3. /\ caches[i].pnum >= 2 /\ HasHeader(caches[i].pnum)
      /\ caches[i].holds = caches[i].pnum /\ media[caches[i].pnum].lnum = l
  BY <1>1, <1>2 DEF HoldsLeb, Inv, CacheExact, CachedAreData
<1>4. answer' \in Copies(l) /\ answer' \in Nat
  BY <1>1, <1>3 DEF Copies, HasHeader, Inv, PebTypeOK, CachePeb
<1>5. PebTypeOK'
  BY <1>1, <1>4 DEF Inv, PebTypeOK
<1>6. CacheExact' /\ CachedAreData' /\ NonePassed'
  BY <1>1 DEF Inv, CacheExact, CachedAreData, NonePassed, HasHeader
<1>7. LookupExact'
  <2>1. answer' # NONE
    BY <1>4, UbiAssumption
  <2>. QED BY <1>1, <1>4, <2>1 DEF LookupExact, Copies, HasHeader
<1>. QED BY <1>5, <1>6, <1>7 DEF Inv

LEMMA LookupBeginsStep ==
  ASSUME Inv, NEW l \in Nat, LookupBegins(l)
  PROVE  Inv'
<1>1. PebTypeOK'
  BY DEF LookupBegins, FirstPeb, Inv, PebTypeOK
<1>2. CacheExact' /\ CachedAreData'
  BY DEF LookupBegins, Inv, CacheExact, CachedAreData, HasHeader
<1>3. NonePassed' /\ LookupExact'
  BY DEF LookupBegins, FirstPeb, NonePassed, LookupExact, Copies
<1>. QED BY <1>1, <1>2, <1>3 DEF Inv

(* One command reads a single PEB, the volume table too, and ends.         *)
LEMMA ReadPebStep ==
  ASSUME Inv, NEW num \in Nat, ReadPeb(num)
  PROVE  Inv'
<1>1. PICK i \in Slot, f \in BOOLEAN : ReadPeb(num)!(i, f)
  BY DEF ReadPeb
<1>2. caches' \in [Slot -> CachePeb]
  BY <1>1, AfterType DEF Inv
<1>3. answer' \in Nat \cup {NONE}
  BY <1>1, OkHolds DEF Inv
<1>4. faults' \in 0 .. MaxFaults
  BY <1>1, UbiAssumption DEF Inv, PebTypeOK
<1>5. PebTypeOK'
  BY <1>1, <1>2, <1>3, <1>4 DEF Inv, PebTypeOK
<1>6. CacheExact'
  BY <1>1, ReadKeepsExact DEF Inv
<1>7. CachedAreData' /\ NonePassed' /\ LookupExact'
  BY <1>1 DEF CachedAreData, NonePassed, LookupExact
<1>. QED BY <1>5, <1>6, <1>7 DEF Inv

(* The search ends at the first PEB of the LEB,                            *)
LEMMA ScanMatchStep ==
  ASSUME Inv, ScanMatch
  PROVE  Inv'
<1>1. PICK i \in Slot : ScanMatch!(i)
  BY DEF ScanMatch
<1>2. peb \in Nat /\ peb >= 2 /\ want \in Nat
  BY <1>1 DEF Inv, PebTypeOK, NonePassed
<1>3. Buffer(i) = peb /\ HasHeader(peb)
  BY <1>1, <1>2, OkHolds DEF Inv, Buffer
<1>4. caches' \in [Slot -> CachePeb]
  BY <1>1, <1>2, AfterType DEF Inv
<1>5. PebTypeOK'
  BY <1>1, <1>2, <1>3, <1>4 DEF Inv, PebTypeOK
<1>6. CacheExact'
  BY <1>1, <1>2, ReadKeepsExact DEF Inv
<1>7. CachedAreData'
  BY <1>1, <1>2, ReadKeepsData DEF Inv, CachedAreData
<1>8. NonePassed' /\ LookupExact'
  <2>1. answer' = peb /\ peb \in Copies(want) /\ peb # NONE
    BY <1>1, <1>2, <1>3, UbiAssumption DEF Copies, HasHeader
  <2>. QED BY <1>1, <2>1 DEF NonePassed, LookupExact, Copies, HasHeader
<1>. QED BY <1>5, <1>6, <1>7, <1>8 DEF Inv

(* passes the PEBs of other LEBs and those without a good header,          *)
LEMMA ScanPassesStep ==
  ASSUME Inv, ScanOther \/ ScanUnreadable
  PROVE  Inv'
<1>1. reader = "scan" /\ reader' = "scan" /\ peb \in Nat /\ peb >= 2 /\ want \in Nat
  BY DEF ScanOther, ScanUnreadable, Inv, PebTypeOK, NonePassed
<1>2. PICK i \in Slot, r \in {1, 2} : /\ Entry(i, peb)
                                     /\ caches' = [caches EXCEPT ![i] = After(i, peb, FALSE, r)]
  BY DEF ScanOther, ScanUnreadable
<1>3. peb' = peb + 1 /\ UNCHANGED <<media, want, answer, faults, broken>>
  BY DEF ScanOther, ScanUnreadable, NextPeb
<1>4. peb \notin Copies(want)
  <2>1. CASE ScanOther
    <3>1. PICK j \in Slot : ScanOther!(j)
      BY <2>1 DEF ScanOther
    <3>2. Buffer(j) = peb
      BY <1>1, <3>1, OkHolds DEF Inv, Buffer
    <3>. QED BY <3>1, <3>2 DEF Copies
  <2>2. CASE ScanUnreadable
    BY <2>2 DEF ScanUnreadable, Returned, Copies
  <2>. QED BY <2>1, <2>2
<1>5. caches' \in [Slot -> CachePeb]
  BY <1>1, <1>2, AfterType DEF Inv
<1>6. PebTypeOK'
  BY <1>1, <1>3, <1>5 DEF Inv, PebTypeOK
<1>7. CacheExact'
  BY <1>1, <1>2, <1>3, ReadKeepsExact DEF Inv
<1>8. CachedAreData'
  BY <1>1, <1>2, ReadKeepsData DEF Inv, CachedAreData
<1>9. NonePassed'
  <2>1. Copies(want)' = Copies(want)
    BY <1>3 DEF Copies, HasHeader
  <2>2. \A num \in Copies(want) : num \in Nat /\ num >= peb /\ num # peb
    BY <1>1, <1>4, UbiAssumption DEF Inv, NonePassed, Copies, PebTypeOK
  <2>. QED BY <1>1, <1>3, <2>1, <2>2 DEF NonePassed
<1>10. LookupExact'
  BY <1>1 DEF LookupExact
<1>. QED BY <1>6, <1>7, <1>8, <1>9, <1>10 DEF Inv

(* The PEBs of an image are numbered without a gap.                        *)
LEMMA NoGap ==
  ASSUME PebTypeOK
  PROVE  \A num \in Nat : num \in DOMAIN media => \A k \in 0 .. num : k \in DOMAIN media
BY UbiAssumption DEF PebTypeOK

(* and ends without an answer after the last PEB, or at a read that fails. *)
LEMMA ScanStopsStep ==
  ASSUME Inv, ScanStops
  PROVE  Inv'
<1>1. PICK i \in Slot, f \in BOOLEAN : ScanStops!(i, f)
  BY DEF ScanStops
<1>2. peb \in Nat /\ peb >= 2 /\ want \in Nat
  BY <1>1 DEF Inv, PebTypeOK, NonePassed
<1>3. caches' \in [Slot -> CachePeb]
  BY <1>1, <1>2, AfterType DEF Inv
<1>4. faults' \in 0 .. MaxFaults
  BY <1>1, UbiAssumption DEF Inv, PebTypeOK
<1>5. PebTypeOK'
  BY <1>1, <1>3, <1>4 DEF Inv, PebTypeOK
<1>6. CacheExact'
  BY <1>1, <1>2, ReadKeepsExact DEF Inv
<1>7. CachedAreData'
  BY <1>1, <1>2, ReadKeepsData DEF Inv, CachedAreData
<1>8. NonePassed'
  BY <1>1 DEF NonePassed
<1>9. LookupExact'
  <2>1. CASE f
    BY <1>1, <2>1 DEF LookupExact
  <2>2. CASE ~f
    <3>1. peb \notin DOMAIN media
      BY <1>1, <2>2 DEF Returned
    <3>2. Copies(want) = {}
      <4>1. SUFFICES ASSUME NEW num \in Copies(want) PROVE FALSE
        OBVIOUS
      <4>2. num \in Nat /\ num \in DOMAIN media /\ num >= peb
        BY <1>1, UbiAssumption DEF Inv, NonePassed, Copies, PebTypeOK
      <4>. QED BY <1>2, <3>1, <4>2, NoGap DEF Inv
    <3>. QED BY <1>1, <3>2 DEF LookupExact, Copies, HasHeader
  <2>. QED BY <2>1, <2>2
<1>. QED BY <1>5, <1>6, <1>7, <1>8, <1>9 DEF Inv

LEMMA InvStep == Inv /\ [PebNext]_pebVars => Inv'
<1>. SUFFICES ASSUME Inv, [PebNext]_pebVars PROVE Inv'
  OBVIOUS
<1>1. ASSUME NEW num \in Nat, Lookup(num) PROVE Inv'
  BY <1>1, LookupCachedStep, LookupBeginsStep DEF Lookup
<1>2. ASSUME NEW num \in Nat, ReadPeb(num) PROVE Inv'
  BY <1>2, ReadPebStep
<1>3. CASE Scan
  BY <1>3, ScanMatchStep, ScanPassesStep, ScanStopsStep DEF Scan
<1>4. CASE UNCHANGED pebVars
  BY <1>4 DEF pebVars, Inv, PebTypeOK, CacheExact, CachedAreData, NonePassed, LookupExact,
              Copies, HasHeader
<1>. QED BY <1>1, <1>2, <1>3, <1>4 DEF PebNext

(* The whole invariant holds of every use of the reader.                   *)
LEMMA InvHolds == PebSpec => []Inv
BY InitInv, InvStep, PTL DEF PebSpec

(* ubi_read_peb never leaves an entry in use whose bytes are not those of  *)
(* the PEB it names, whichever entry gives way and whichever read fails.   *)
THEOREM CacheIsExact == PebSpec => []CacheExact
<1>1. Inv => CacheExact
  BY DEF Inv
<1>. QED BY <1>1, InvHolds, PTL

(* ubi_read_leb finds a PEB of the LEB exactly if there is one it can      *)
(* read, whatever was read before.                                         *)
THEOREM LookupIsExact == PebSpec => []LookupExact
<1>1. Inv => LookupExact
  BY DEF Inv
<1>. QED BY <1>1, InvHolds, PTL

-----------------------------------------------------------------------------
(* A step either asks the reader for a LEB or a PEB, lets its search go on, *)
(* or leaves it alone.                                                     *)
LEMMA ReaderStepped == [Next]_vars => [PebNext]_pebVars
<1>. SUFFICES ASSUME [Next]_vars PROVE [PebNext]_pebVars
  OBVIOUS
<1>1. CASE ReaderStep
  BY <1>1 DEF ReaderStep, PebNext
<1>2. ASSUME NEW l, Lookup(l) PROVE PebNext
  <2>1. l \in Nat
    BY <1>2 DEF Lookup
  <2>. QED BY <1>2, <2>1 DEF PebNext
<1>3. CASE Detect
  <2>1. CASE ReadSblock \/ ReadMaster \/ ReadIndexNode
    BY <1>2, <2>1 DEF ReadSblock, ReadMaster, ReadIndexNode, Ask
  <2>2. CASE LoadRoot \/ LoadIndexNode \/ DetectRefuses \/ DetectAccepts
    BY <2>2 DEF LoadRoot, LoadIndexNode, DetectRefuses, DetectAccepts
  <2>. QED BY <1>3, <2>1, <2>2 DEF Detect
<1>4. CASE LookAtLeb
  BY <1>2, <1>4 DEF LookAtLeb, Ask
<1>5. CASE LookAtPeb
  <2>1. PICK p \in AskedPebs : ReadPeb(p)
    BY <1>5 DEF LookAtPeb
  <2>. QED BY <2>1, AskedAssumption DEF PebNext
<1>6. CASE WalkStep
  <2>1. CASE NextDent \/ ReadInode
    BY <1>2, <2>1 DEF NextDent, ReadInode, AskNode, Ask
  <2>2. CASE DirEnds \/ ListDir \/ ListOther \/ DentFails \/ InodeFails
    BY <2>2 DEF DirEnds, ListDir, ListOther, DentFails, InodeFails
  <2>3. CASE ListInode \/ MakeDir \/ MakeLink
    BY <2>3 DEF ListInode, MakeDir, MakeLink
  <2>. QED BY <1>6, <2>1, <2>2, <2>3 DEF WalkStep
<1>7. CASE UnpackStep
  <2>1. CASE ReadData
    BY <1>2, <2>1 DEF ReadData, AskNode, Ask
  <2>2. CASE MakeFile \/ WriteData \/ FileEnds \/ FileFails
    BY <2>2 DEF MakeFile, WriteData, FileEnds, FileFails
  <2>. QED BY <1>7, <2>1, <2>2 DEF UnpackStep
<1>8. CASE UNCHANGED vars
  BY <1>8 DEF vars
<1>. QED BY <1>1, <1>3, <1>4, <1>5, <1>6, <1>7, <1>8 DEF Next

(* detect, list, unpack and the commands that look at one block behave to  *)
(* the reader as PebSpec says: they ask one thing at a time and wait.      *)
THEOREM CommandsUseTheReader == Spec => PebSpec
<1>1. Init => PebInit
  BY DEF Init
<1>. QED BY <1>1, ReaderStepped, PTL DEF Spec, PebSpec

(* In every command the cache entries in use have the bytes of their PEBs. *)
THEOREM CacheStaysExact == Spec => []CacheExact
BY CommandsUseTheReader, CacheIsExact, PTL

(* In every command a LEB is found exactly if a copy of it can be read.    *)
THEOREM LookupsStayExact == Spec => []LookupExact
BY CommandsUseTheReader, LookupIsExact, PTL

-----------------------------------------------------------------------------
(* Types.  The index is searched by a function that calls itself on a node *)
(* of a lower level: such a function exists, level by level, so that what  *)
(* CHOOSE takes is one.                                                    *)

(* g has value[b] on the nodes of ends and what it has on next[b] on the   *)
(* other nodes.                                                            *)
Descends(I, ends, value, next, g) ==
  g = [b \in I |-> IF b \in ends THEN value[b] ELSE g[next[b]]]

LEMMA DescentExists ==
  ASSUME NEW I, NEW ends, NEW V, NEW top \in Nat,
         NEW level \in [I -> Nat], \A b \in I : level[b] < top,
         NEW value, \A b \in I : b \in ends => value[b] \in V,
         NEW next, \A b \in I : b \notin ends => next[b] \in I /\ level[next[b]] < level[b]
  PROVE  \E g : Descends(I, ends, value, next, g)
<1>. DEFINE Low(k) == {b \in I : level[b] < k}
            Partly(k, g) == \A b \in Low(k) : g[b] = IF b \in ends THEN value[b] ELSE g[next[b]]
            Good == {k \in Nat : \E g \in [Low(k) -> V] : Partly(k, g)}
<1>1. 0 \in Good
  <2>1. Low(0) = {}
    OBVIOUS
  <2>2. [b \in {} |-> b] \in [Low(0) -> V] /\ Partly(0, [b \in {} |-> b])
    BY <2>1
  <2>. QED BY <2>2
<1>2. ASSUME NEW k \in Nat, k \in Good PROVE k + 1 \in Good
  <2>1. PICK g \in [Low(k) -> V] : Partly(k, g)
    BY <1>2
  <2>. DEFINE h == [b \in Low(k + 1) |-> IF b \in ends THEN value[b] ELSE g[next[b]]]
  <2>2. ASSUME NEW b \in Low(k + 1), b \notin ends PROVE next[b] \in Low(k)
    BY <2>2
  <2>3. Low(k) \subseteq Low(k + 1)
    OBVIOUS
  <2>. HIDE DEF Low
  <2>4. \A b \in Low(k) : h[b] = g[b]
    BY <2>1, <2>3
  <2>5. h \in [Low(k + 1) -> V]
    <3>1. ASSUME NEW b \in Low(k + 1) PROVE (IF b \in ends THEN value[b] ELSE g[next[b]]) \in V
      <4>1. b \in I
        BY DEF Low
      <4>. QED BY <2>1, <2>2, <4>1
    <3>. QED BY <3>1
  <2>6. Partly(k + 1, h)
    BY <2>2, <2>4
  <2>. HIDE DEF h, Partly
  <2>7. \E g1 \in [Low(k + 1) -> V] : Partly(k + 1, g1)
    BY <2>5, <2>6
  <2>. QED BY <2>7
<1>3. top \in Good
  <2>. HIDE DEF Good
  <2>. QED BY <1>1, <1>2, SetInduction
<1>4. Low(top) = I
  OBVIOUS
<1>5. PICK g \in [I -> V] : Partly(top, g)
  BY <1>3, <1>4
<1>. QED BY <1>4, <1>5 DEF Descends

LEMMA DescentTyped ==
  ASSUME NEW I, NEW ends, NEW V, NEW top \in Nat,
         NEW level \in [I -> Nat], \A b \in I : level[b] < top,
         NEW value, \A b \in I : b \in ends => value[b] \in V,
         NEW next, \A b \in I : b \notin ends => next[b] \in I /\ level[next[b]] < level[b],
         NEW g, Descends(I, ends, value, next, g)
  PROVE  \A b \in I : g[b] \in V
<1>. DEFINE Good == {k \in Nat : \A b \in I : level[b] < k => g[b] \in V}
<1>1. 0 \in Good
  OBVIOUS
<1>2. ASSUME NEW k \in Nat, k \in Good PROVE k + 1 \in Good
  <2>1. ASSUME NEW b \in I, level[b] < k + 1 PROVE g[b] \in V
    <3>1. g[b] = IF b \in ends THEN value[b] ELSE g[next[b]]
      BY DEF Descends
    <3>2. CASE b \notin ends
      <4>1. next[b] \in I /\ level[next[b]] < k
        BY <2>1, <3>2
      <4>. QED BY <1>2, <3>1, <3>2, <4>1
    <3>. QED BY <3>1, <3>2
  <2>. QED BY <2>1
<1>3. top \in Good
  <2>. HIDE DEF Good
  <2>. QED BY <1>1, <1>2, SetInduction
<1>. QED BY <1>3

(* The search for a leaf entry: what it finds is one, or NoLeaf.           *)
Leaf == [key : Nat, at : DOMAIN fs.node]
Found == Leaf \cup {NoLeaf}
FsTyped == NodesTyped(fs.node) /\ IndexTyped(fs.index, fs.node)

LEMMA LeastIs ==
  ASSUME NEW S \in SUBSET Nat, S # {}
  PROVE  Least(S) \in S
<1>1. \E i \in S : \A j \in S : i <= j
  BY LeastExists
<1>. QED BY <1>1 DEF Least

LEMMA ElementIs ==
  ASSUME NEW R, NEW s \in Seq(R), NEW i \in DOMAIN s
  PROVE  s[i] \in R
OBVIOUS

LEMMA FindLeafType ==
  ASSUME FsTyped, NEW b \in Index, fs.index[b].level = 0, NEW lo, NEW hi
  PROVE  find_leaf(b, lo, hi) \in Found
<1>. DEFINE S == {i \in DOMAIN Branch(b) : lo <= Branch(b)[i].key /\ Branch(b)[i].key <= hi}
<1>1. Branch(b) \in Seq([key : Nat, at : Nat])
  BY DEF FsTyped, IndexTyped, Index, Branch
<1>2. \A i \in DOMAIN Branch(b) : Branch(b)[i].at \in DOMAIN fs.node
  BY DEF FsTyped, IndexTyped, Index, Branch
<1>3. ASSUME S # {} PROVE Branch(b)[Least(S)] \in Leaf
  <2>1. S \in SUBSET Nat
    BY <1>1
  <2>2. Least(S) \in S
    <3>. HIDE DEF S
    <3>. QED BY <1>3, <2>1, LeastIs
  <2>3. Least(S) \in DOMAIN Branch(b)
    BY <2>2
  <2>. HIDE DEF S
  <2>4. PICK i \in DOMAIN Branch(b) : i = Least(S)
    BY <2>3
  <2>5. PICK e : e = Branch(b)[i]
    OBVIOUS
  <2>6. e \in [key : Nat, at : Nat]
    BY <1>1, <2>5, ElementIs
  <2>7. e.at \in DOMAIN fs.node
    BY <1>2, <2>5
  <2>8. e \in Leaf
    BY <2>6, <2>7 DEF Leaf
  <2>. QED BY <2>4, <2>5, <2>8
<1>4. find_leaf(b, lo, hi) = IF S = {} THEN NoLeaf ELSE Branch(b)[Least(S)]
  BY DEF find_leaf
<1>. HIDE DEF S
<1>. QED BY <1>3, <1>4 DEF Found

LEMMA FindType ==
  ASSUME FsTyped, NEW keytype, NEW key0, NEW hash_min, NEW hash_max
  PROVE  ubi_bptree_find(keytype, key0, hash_min, hash_max) \in Found
<1>. DEFINE lo == ubi_leaf_make_key(keytype, key0, hash_min)
            hi == ubi_leaf_make_key(keytype, key0, hash_max)
            Beyond(b) == WithoutHash(branch_min_key(b)) > lo
            Passed(b) == /\ ~Beyond(b)
                         /\ branch_max_key(b) < lo \/ (fs.index[b].level = 0 /\ find_leaf(b, lo, hi) = NoLeaf)
            Kept(b) == {i \in DOMAIN Branch(b) : ~Passed(Branch(b)[i].at)}
            Find[b \in Index] ==
              IF fs.index[b].level = 0 THEN find_leaf(b, lo, hi)
              ELSE LET S == {i \in DOMAIN Branch(b) : ~Passed(Branch(b)[i].at)}
                   IN IF S = {} \/ Beyond(Branch(b)[Least(S)].at) THEN NoLeaf
                      ELSE Find[Branch(b)[Least(S)].at]
            Stops(b) == Kept(b) = {} \/ Beyond(Branch(b)[Least(Kept(b))].at)
            ends == {b \in Index : fs.index[b].level = 0 \/ Stops(b)}
            value == [b \in Index |-> IF fs.index[b].level = 0 THEN find_leaf(b, lo, hi) ELSE NoLeaf]
            next == [b \in Index |-> Branch(b)[Least(Kept(b))].at]
            level == [b \in Index |-> fs.index[b].level]
            top == fs.index[1].level + 1
<1>1. ubi_bptree_find(keytype, key0, hash_min, hash_max) = Find[1]
  BY DEF ubi_bptree_find
<1>2. top \in Nat /\ level \in [Index -> Nat] /\ \A b \in Index : level[b] < top
  BY DEF FsTyped, IndexTyped, Index
<1>3. \A b \in Index : b \in ends => value[b] \in Found
  <2>1. ASSUME NEW b \in Index, fs.index[b].level = 0 PROVE find_leaf(b, lo, hi) \in Found
    <3>. HIDE DEF lo, hi
    <3>. QED BY <2>1, FindLeafType
  <2>. HIDE DEF lo, hi
  <2>. QED BY <2>1 DEF Found
<1>4. \A b \in Index : b \notin ends => next[b] \in Index /\ level[next[b]] < level[b]
  <2>1. SUFFICES ASSUME NEW b \in Index, fs.index[b].level # 0, Kept(b) # {}
                 PROVE  next[b] \in Index /\ level[next[b]] < level[b]
    <3>. HIDE DEF Kept, Beyond, next, level
    <3>. QED OBVIOUS
  <2>2. Branch(b) \in Seq([key : Nat, at : Nat])
    BY DEF FsTyped, IndexTyped, Index, Branch
  <2>3. Kept(b) \in SUBSET Nat /\ Kept(b) \subseteq DOMAIN Branch(b)
    <3>. HIDE DEF Passed
    <3>. QED BY <2>2
  <2>4. Least(Kept(b)) \in DOMAIN Branch(b)
    <3>. HIDE DEF Kept
    <3>. QED BY <2>1, <2>3, LeastIs
  <2>. HIDE DEF Kept
  <2>. QED BY <2>1, <2>4 DEF FsTyped, IndexTyped, Index, Branch
<1>5. Find = CHOOSE g : Descends(Index, ends, value, next, g)
  <2>. DEFINE body(b, g) == IF fs.index[b].level = 0 THEN find_leaf(b, lo, hi)
                            ELSE IF Kept(b) = {} \/ Beyond(Branch(b)[Least(Kept(b))].at) THEN NoLeaf
                                 ELSE g[Branch(b)[Least(Kept(b))].at]
  <2>1. Find = CHOOSE g : g = [b \in Index |-> body(b, g)]
    OBVIOUS
  <2>2. \A g : [b \in Index |-> body(b, g)]
               = [b \in Index |-> IF b \in ends THEN value[b] ELSE g[next[b]]]
    <3>. HIDE DEF lo, hi, Kept, Beyond
    <3>. QED OBVIOUS
  <2>3. \A g : (g = [b \in Index |-> body(b, g)]) <=> Descends(Index, ends, value, next, g)
    <3>. HIDE DEF body, ends, value, next
    <3>. QED BY <2>2 DEF Descends
  <2>. HIDE DEF body, ends, value, next, Find
  <2>. QED BY <2>1, <2>3
<1>6. 1 \in Index
  BY DEF FsTyped, IndexTyped, Index
<1>7. \E g : Descends(Index, ends, value, next, g)
  <2>. HIDE DEF ends, value, next, level, top, Found
  <2>. QED BY <1>2, <1>3, <1>4, DescentExists
<1>8. Descends(Index, ends, value, next, Find)
  <2>. HIDE DEF ends, value, next, Find
  <2>. QED BY <1>5, <1>7
<1>9. \A b \in Index : Find[b] \in Found
  <2>. HIDE DEF ends, value, next, level, top, Find
  <2>. QED BY <1>2, <1>3, <1>4, <1>8, DescentTyped
<1>. HIDE DEF Find
<1>. QED BY <1>1, <1>6, <1>9

-----------------------------------------------------------------------------
(* What the variables of the commands hold (TypeOK but for the reader's).  *)
CommandTypes ==
  /\ fs \in Systems
  /\ cmd \in {"list", "unpack", "leb", "peb"}
  /\ pc \in {"detect", "sblock", "master", "load", "index", "refused", "look", "walk", "dent",
             "inode", "data", "block", "done"}
  /\ todo \in Seq(Index)
  /\ dirs \in Seq([ino : Nat, hash_min : 0 .. UBIFS_S_KEY_HASH_MASK])
  /\ dent \in Nat /\ inode \in Nat /\ cur \in Nat /\ data_block \in Nat /\ n \in Nat
  /\ file \in Seq(Nat) /\ out \in Seq(Made)
  /\ ret \in {0, -1} /\ lost \in BOOLEAN

(* A node that is waited for is there, and one whose fields are used is of *)
(* the type that has them.                                                 *)
Walking ==
  /\ pc = "index" => todo # <<>>
  /\ pc \in {"walk", "dent", "inode", "data", "block"} => dirs # <<>>
  /\ pc \in {"dent", "inode", "block"} => cur \in DOMAIN fs.node
  /\ pc = "dent" => cur = dent
  /\ pc = "inode" => cur = inode
  /\ pc \in {"inode", "data", "block"} => dent \in DOMAIN fs.node /\ fs.node[dent].type = "dent"

LEMMA Fs == fs \in Systems => FsTyped
BY SystemsAssumption DEF FsTyped

LEMMA NodeFields ==
  ASSUME FsTyped, NEW a \in DOMAIN fs.node
  PROVE  /\ a \in Nat
         /\ fs.node[a].type = "dent" => fs.node[a].inum \in Nat
         /\ fs.node[a].type = "ino" => fs.node[a].size \in Nat
         /\ fs.node[a].type = "data" => fs.node[a].units \in Seq(Nat)
BY DEF FsTyped, NodesTyped

(* What a search finds is NoLeaf, or an entry of a leaf node.              *)
LEMMA LeafFields ==
  ASSUME FsTyped, NEW keytype, NEW key0, NEW hash_min, NEW hash_max,
         NEW e, e = ubi_bptree_find(keytype, key0, hash_min, hash_max)
  PROVE  e.key \in Nat /\ (e # NoLeaf => e.at \in DOMAIN fs.node)
<1>1. e \in Found
  BY FindType
<1>. QED BY <1>1 DEF Found, Leaf, NoLeaf

LEMMA HashIs ==
  ASSUME NEW k \in Nat
  PROVE  k % Hashes \in 0 .. UBIFS_S_KEY_HASH_MASK /\ NextHash(k % Hashes) \in 0 .. UBIFS_S_KEY_HASH_MASK
BY SizesAssumption DEF Hashes, NextHash

(* The directory that is walked goes on at its next hash.                  *)
LEMMA AdvancedIs ==
  ASSUME FsTyped, CommandTypes, dirs # <<>>
  PROVE  /\ Advanced \in Seq([ino : Nat, hash_min : 0 .. UBIFS_S_KEY_HASH_MASK])
         /\ Advanced # <<>>
<1>. DEFINE D == [ino : Nat, hash_min : 0 .. UBIFS_S_KEY_HASH_MASK]
            h == NextHash(DentLeaf.key % Hashes)
<1>1. h \in 0 .. UBIFS_S_KEY_HASH_MASK
  <2>1. DentLeaf.key \in Nat
    BY LeafFields DEF DentLeaf
  <2>. QED BY <2>1, HashIs
<1>2. Advanced = [dirs EXCEPT ![Len(dirs)].hash_min = h]
  BY DEF Advanced
<1>. HIDE DEF h
<1>3. dirs[Len(dirs)] \in D /\ dirs \in Seq(D) /\ Len(dirs) \in 1 .. Len(dirs)
  <2>1. dirs \in Seq(D)
    BY DEF CommandTypes
  <2>2. Len(dirs) \in DOMAIN dirs
    BY <2>1
  <2>. HIDE DEF D
  <2>. QED BY <2>1, <2>2, ElementIs
<1>4. [dirs[Len(dirs)] EXCEPT !.hash_min = h] \in D
  BY <1>1, <1>3
<1>5. Advanced = [dirs EXCEPT ![Len(dirs)] = [dirs[Len(dirs)] EXCEPT !.hash_min = h]]
  BY <1>2
<1>. HIDE DEF D
<1>6. \A e \in D : [dirs EXCEPT ![Len(dirs)] = e] \in Seq(D) /\ Len([dirs EXCEPT ![Len(dirs)] = e]) = Len(dirs)
  BY <1>3
<1>7. Advanced \in Seq(D) /\ Len(Advanced) = Len(dirs)
  BY <1>4, <1>5, <1>6
<1>8. Advanced # <<>>
  BY <1>3, <1>7
<1>. QED BY <1>7, <1>8 DEF D

LEMMA LineIsMade ==
  ASSUME CommandTypes, NEW a \in Nat, NEW units \in Seq(Nat)
  PROVE  Line(a, units) \in Made /\ Append(out, Line(a, units)) \in Seq(Made)
<1>1. Line(a, units) \in Made
  BY DEF CommandTypes, Line, Made
<1>. QED BY <1>1 DEF CommandTypes

LEMMA PrintedType == CommandTypes => Printed \in Seq(Made)
<1>1. ASSUME CommandTypes PROVE Append(out, Line(dent, <<>>)) \in Seq(Made)
  <2>1. dent \in Nat /\ <<>> \in Seq(Nat)
    BY <1>1 DEF CommandTypes
  <2>. QED BY <1>1, <2>1, LineIsMade
<1>. QED BY <1>1 DEF Printed, CommandTypes

LEMMA CommandsInit == Init => CommandTypes /\ Walking
<1>. SUFFICES ASSUME Init PROVE CommandTypes /\ Walking
  OBVIOUS
<1>1. todo \in Seq(Index) /\ file \in Seq(Nat) /\ out \in Seq(Made)
  BY DEF Init
<1>2. dirs \in Seq([ino : Nat, hash_min : 0 .. UBIFS_S_KEY_HASH_MASK])
  BY DEF Init
<1>. QED BY <1>1, <1>2 DEF Init, CommandTypes, Walking

Stepped == CommandTypes' /\ Walking'

(* Loading the index.                                                      *)
LEMMA KidsType ==
  ASSUME FsTyped, NEW b \in Index
  PROVE  Kids(b) \in Seq(Index)
<1>1. CASE fs.index[b].level = 0
  BY <1>1 DEF Kids
<1>2. CASE fs.index[b].level # 0
  <2>1. Branch(b) \in Seq([key : Nat, at : Nat])
    BY DEF FsTyped, IndexTyped, Index, Branch
  <2>2. \A i \in DOMAIN Branch(b) : Branch(b)[i].at \in Index
    BY <1>2 DEF FsTyped, IndexTyped, Index, Branch
  <2>3. DOMAIN Branch(b) = 1 .. Len(Branch(b)) /\ Len(Branch(b)) \in Nat
    BY <2>1
  <2>4. Kids(b) = [i \in 1 .. Len(Branch(b)) |-> Branch(b)[i].at]
    BY <1>2, <2>3 DEF Kids
  <2>. QED BY <2>2, <2>3, <2>4
<1>. QED BY <1>1, <1>2

LEMMA DetectTyped ==
  ASSUME CommandTypes, Walking, Detect
  PROVE  Stepped
<1>0. FsTyped
  BY Fs DEF CommandTypes
<1>1. CASE ReadSblock \/ ReadMaster
  BY <1>1 DEF ReadSblock, ReadMaster, Ask, image, walk, chunks, result, CommandTypes, Walking, Stepped, Index
<1>2. CASE LoadRoot
  <2>1. 1 \in Index
    BY <1>0 DEF FsTyped, IndexTyped, Index
  <2>2. <<1>> \in Seq(Index)
    BY <2>1
  <2>. QED BY <1>2, <2>2 DEF LoadRoot, image, walk, chunks, result, CommandTypes, Walking, Stepped, Index
<1>3. CASE ReadIndexNode
  BY <1>3 DEF ReadIndexNode, Ask, image, walk, chunks, result, CommandTypes, Walking, Stepped, Index
<1>4. CASE LoadIndexNode
  <2>1. todo # <<>> /\ todo \in Seq(Index)
    BY <1>4 DEF LoadIndexNode, Answered, Walking, CommandTypes
  <2>2. Head(todo) \in Index /\ Tail(todo) \in Seq(Index)
    BY <2>1
  <2>3. Kids(Head(todo)) \o Tail(todo) \in Seq(Index)
    <3>. HIDE DEF Kids
    <3>. QED BY <1>0, <2>2, KidsType
  <2>4. todo' \in Seq(Index) /\ UNCHANGED <<fs, cmd, dirs, dent, inode, cur, data_block, n, file, out, ret, lost>>
    BY <1>4, <2>3 DEF LoadIndexNode, image, walk, chunks, result
  <2>5. pc' = "load" /\ todo' \in Seq(Index)'
    BY <1>4, <2>4 DEF LoadIndexNode, Index
  <2>. QED BY <2>4, <2>5 DEF CommandTypes, Walking, Stepped
<1>5. CASE DetectRefuses
  BY <1>5 DEF DetectRefuses, image, walk, chunks, CommandTypes, Walking, Stepped, Index
<1>6. CASE DetectAccepts
  <2>1. <<[ino |-> 1, hash_min |-> 0]>> \in Seq([ino : Nat, hash_min : 0 .. UBIFS_S_KEY_HASH_MASK])
    BY SizesAssumption
  <2>2. UNCHANGED <<fs, cmd, todo, dent, inode, cur, data_block, n, file, out, ret, lost>>
    BY <1>6 DEF DetectAccepts, image, chunks, result
  <2>3. CASE pc' = "walk" /\ dirs' = <<[ino |-> 1, hash_min |-> 0]>>
    BY <2>1, <2>2, <2>3 DEF CommandTypes, Walking, Stepped, Index
  <2>4. CASE pc' = "look" /\ dirs' = dirs
    BY <2>2, <2>4 DEF CommandTypes, Walking, Stepped, Index
  <2>. QED BY <1>6, <2>3, <2>4 DEF DetectAccepts
<1>. QED BY <1>1, <1>2, <1>3, <1>4, <1>5, <1>6 DEF Detect

LEMMA LookTyped ==
  ASSUME CommandTypes, Walking, LookAtLeb \/ LookAtPeb \/ ReaderStep \/ UNCHANGED vars
  PROVE  Stepped
<1>1. UNCHANGED <<fs, cmd, todo, dirs, dent, inode, cur, data_block, n, file, out, ret, lost>>
  BY DEF LookAtLeb, LookAtPeb, ReaderStep, vars, image, walk, chunks, result
<1>2. pc' = pc \/ pc' = "done"
  BY DEF LookAtLeb, LookAtPeb, ReaderStep, vars, Ask
<1>. QED BY <1>1, <1>2 DEF CommandTypes, Walking, Stepped, Index

(* The directories.                                                        *)
Entered == [ino : Nat, hash_min : 0 .. UBIFS_S_KEY_HASH_MASK]

LEMMA Pushed ==
  ASSUME NEW s \in Seq(Entered), NEW i \in Nat
  PROVE  /\ Append(s, [ino |-> i, hash_min |-> 0]) \in Seq(Entered)
         /\ Append(s, [ino |-> i, hash_min |-> 0]) # <<>>
<1>1. [ino |-> i, hash_min |-> 0] \in Entered
  BY SizesAssumption DEF Entered
<1>2. ASSUME NEW e \in Entered PROVE Append(s, e) \in Seq(Entered) /\ Append(s, e) # <<>>
  <2>1. Append(s, e) \in Seq(Entered)
    OBVIOUS
  <2>2. Len(Append(s, e)) = Len(s) + 1 /\ Len(s) \in Nat
    OBVIOUS
  <2>. QED BY <2>1, <2>2
<1>. QED BY <1>1, <1>2, Zenon

LEMMA Popped ==
  ASSUME NEW s \in Seq(Entered), s # <<>>
  PROVE  Front(s) \in Seq(Entered) /\ (Len(s) # 1 => Front(s) # <<>>)
<1>1. Front(s) = SubSeq(s, 1, Len(s) - 1)
  BY DEF Front
<1>2. Len(s) \in Nat /\ Len(s) # 0
  OBVIOUS
<1>3. SubSeq(s, 1, Len(s) - 1) \in Seq(Entered) /\ Len(SubSeq(s, 1, Len(s) - 1)) = Len(s) - 1
  <2>. DEFINE m == Len(s) - 1
  <2>1. m \in Nat /\ m <= Len(s)
    BY <1>2
  <2>. HIDE DEF m
  <2>2. SubSeq(s, 1, m) = [i \in 1 .. m |-> s[i]]
    BY <2>1
  <2>3. \A i \in 1 .. m : s[i] \in Entered
    BY <2>1
  <2>4. SubSeq(s, 1, m) \in Seq(Entered) /\ Len(SubSeq(s, 1, m)) = m
    BY <2>1, <2>2, <2>3
  <2>. QED BY <2>4 DEF m
<1>4. SubSeq(s, 1, Len(s) - 1) = <<>> => Len(s) - 1 = 0
  BY <1>3
<1>. QED BY <1>1, <1>2, <1>3, <1>4

LEMMA WalkTyped ==
  ASSUME CommandTypes, Walking, WalkStep
  PROVE  Stepped
<1>. USE DEF Stepped
<1>0. FsTyped /\ dirs \in Seq(Entered)
  BY Fs DEF CommandTypes, Entered
<1>1. CASE NextDent
  <2>1. DentLeaf.at \in DOMAIN fs.node /\ DentLeaf.at \in Nat
    <3>1. DentLeaf.at \in DOMAIN fs.node
      BY <1>0, <1>1, LeafFields DEF NextDent, DentLeaf
    <3>. QED BY <1>0, <3>1, NodeFields
  <2>. HIDE DEF DentLeaf
  <2>2. UNCHANGED <<fs, cmd, todo, dirs, inode, data_block, n, file, out, ret, lost>>
    BY <1>1 DEF NextDent, image, chunks, result
  <2>3. pc = "walk" /\ pc' = "dent" /\ dent' = DentLeaf.at /\ cur' = DentLeaf.at
    BY <1>1 DEF NextDent, AskNode, Ask
  <2>. QED BY <2>1, <2>2, <2>3 DEF CommandTypes, Walking, Index
<1>2. CASE DirEnds
  <2>1. UNCHANGED <<fs, cmd, todo, dent, inode, cur, data_block, n, file, out, ret, lost>>
    BY <1>2 DEF DirEnds, image, chunks, result
  <2>2. dirs' = Front(dirs) /\ dirs # <<>> /\ pc' = IF Len(dirs) = 1 THEN "done" ELSE "walk"
    BY <1>2 DEF DirEnds, Walking
  <2>3. dirs' \in Seq(Entered) /\ (pc' = "walk" => dirs' # <<>>) /\ pc' \in {"done", "walk"}
    BY <1>0, <2>2, Popped
  <2>. QED BY <2>1, <2>3 DEF CommandTypes, Walking, Index, Entered
<1>3. CASE ListDir \/ ListOther \/ ReadInode
  <2>1. UNCHANGED <<fs, cmd, todo, dent, data_block, n, file, ret, lost>> /\ out' = Printed
    BY <1>3 DEF ListDir, ListOther, ReadInode, image, chunks
  <2>2. pc = "dent" /\ NodeIs("dent") /\ cur = dent /\ dent \in DOMAIN fs.node /\ dirs # <<>>
    BY <1>3 DEF ListDir, ListOther, ReadInode, Answered, Walking
  <2>3. fs.node[dent].type = "dent" /\ inum \in Nat
    BY <1>0, <2>2, NodeFields DEF NodeIs, inum
  <2>4. Advanced \in Seq(Entered) /\ Advanced # <<>> /\ Printed \in Seq(Made)
    BY <1>0, <2>2, AdvancedIs, PrintedType DEF Entered
  <2>5. CASE ListDir
    <3>1. dirs' = Append(Advanced, [ino |-> inum, hash_min |-> 0]) /\ pc' = "walk" /\ UNCHANGED <<inode, cur>>
      BY <2>5 DEF ListDir
    <3>2. dirs' \in Seq(Entered) /\ dirs' # <<>>
      BY <2>3, <2>4, <3>1, Pushed
    <3>. HIDE DEF Printed
    <3>. QED BY <2>1, <2>4, <3>1, <3>2 DEF CommandTypes, Walking, Index, Entered
  <2>6. CASE ListOther
    <3>1. dirs' = Advanced /\ pc' = "walk" /\ UNCHANGED <<inode, cur>>
      BY <2>6 DEF ListOther
    <3>. HIDE DEF Printed, Advanced
    <3>. QED BY <2>1, <2>4, <3>1 DEF CommandTypes, Walking, Index, Entered
  <2>7. CASE ReadInode
    <3>1. dirs' = Advanced /\ pc' = "inode" /\ inode' = InoLeaf.at /\ cur' = InoLeaf.at /\ InoLeaf # NoLeaf
      BY <2>7 DEF ReadInode, AskNode, Ask
    <3>2. InoLeaf.at \in DOMAIN fs.node
      BY <1>0, <3>1, LeafFields DEF InoLeaf
    <3>3. InoLeaf.at \in Nat
      BY <1>0, <3>2, NodeFields
    <3>. HIDE DEF Printed, Advanced, InoLeaf
    <3>. QED BY <2>1, <2>2, <2>3, <2>4, <3>1, <3>2, <3>3 DEF CommandTypes, Walking, Index, Entered
  <2>. QED BY <1>3, <2>5, <2>6, <2>7
<1>4. CASE DentFails \/ InodeFails
  <2>1. UNCHANGED <<fs, cmd, todo, dirs, dent, inode, cur, data_block, n, file, lost>>
    BY <1>4 DEF DentFails, InodeFails, image, walk, chunks
  <2>2. ret' = -1 /\ pc' = "done" /\ out' \in {out, Printed}
    BY <1>4 DEF DentFails, InodeFails
  <2>3. out' \in Seq(Made)
    BY <2>2, PrintedType DEF CommandTypes
  <2>. QED BY <2>1, <2>2, <2>3 DEF CommandTypes, Walking, Index
<1>5. CASE ListInode \/ MakeDir \/ MakeLink
  <2>1. UNCHANGED <<fs, cmd, todo, dent, inode, cur, data_block, n, file, ret, lost>> /\ pc' = "walk"
    BY <1>5 DEF ListInode, MakeDir, MakeLink, image, walk, chunks
  <2>2. pc = "inode"
    BY <1>5 DEF ListInode, MakeDir, MakeLink, Answered
  <2>3. dirs # <<>> /\ inum \in Nat /\ inode \in Nat /\ dent \in Nat
    BY <1>0, <2>2, NodeFields DEF CommandTypes, Walking, inum
  <2>4. out' \in Seq(Made)
    <3>1. <<>> \in Seq(Nat) /\ <<inode>> \in Seq(Nat)
      BY <2>3
    <3>2. out' = Append(out, Line(inode, <<>>)) \/ out' = Append(out, Line(dent, <<>>))
            \/ out' = Append(out, Line(dent, <<inode>>))
      BY <1>5 DEF ListInode, MakeDir, MakeLink
    <3>. QED BY <2>3, <3>1, <3>2, LineIsMade
  <2>5. dirs' = dirs \/ dirs' = Append(dirs, [ino |-> inum, hash_min |-> 0])
    BY <1>5 DEF ListInode, MakeDir, MakeLink, walk
  <2>6. dirs' \in Seq(Entered) /\ dirs' # <<>>
    BY <1>0, <2>3, <2>5, Pushed
  <2>. QED BY <2>1, <2>4, <2>6 DEF CommandTypes, Walking, Index, Entered
<1>. QED BY <1>1, <1>2, <1>3, <1>4, <1>5 DEF WalkStep

(* ubi_unpack_file                                                         *)
LEMMA UnpackTyped ==
  ASSUME CommandTypes, Walking, UnpackStep
  PROVE  Stepped
<1>. USE DEF Stepped
<1>0. FsTyped
  BY Fs DEF CommandTypes
<1>1. CASE MakeFile
  <2>1. UNCHANGED <<fs, cmd, todo, dirs, dent, inode, cur, out, ret, lost>>
    BY <1>1 DEF MakeFile, image, walk, result
  <2>2. pc = "inode" /\ NodeIs("ino") /\ file' = Zeros(filesz) /\ n' = 0 /\ data_block' = 0 /\ pc' = "data"
    BY <1>1 DEF MakeFile, Answered
  <2>3. filesz \in Nat
    BY <1>0, <2>2, NodeFields DEF Walking, NodeIs, filesz
  <2>4. file' \in Seq(Nat)
    BY <2>2, <2>3 DEF Zeros
  <2>. HIDE DEF filesz
  <2>. QED BY <2>1, <2>2, <2>4 DEF CommandTypes, Walking, Index
<1>2. CASE ReadData
  <2>1. UNCHANGED <<fs, cmd, todo, dirs, dent, inode, data_block, n, file, out, ret, lost>>
    BY <1>2 DEF ReadData, image, walk, chunks, result
  <2>2. pc = "data" /\ pc' = "block" /\ cur' = DataLeaf.at /\ DataLeaf # NoLeaf
    BY <1>2 DEF ReadData, AskNode, Ask
  <2>3. DataLeaf.at \in DOMAIN fs.node
    BY <1>0, <2>2, LeafFields DEF DataLeaf
  <2>4. DataLeaf.at \in Nat
    BY <1>0, <2>3, NodeFields
  <2>. HIDE DEF DataLeaf
  <2>. QED BY <2>1, <2>2, <2>3, <2>4 DEF CommandTypes, Walking, Index
<1>3. CASE WriteData
  <2>1. PICK blk : blk = DataLeaf.key % Hashes
    OBVIOUS
  <2>2. UNCHANGED <<fs, cmd, todo, dirs, dent, inode, cur, out, ret, lost>>
    BY <1>3 DEF WriteData, image, walk, result
  <2>3. /\ pc = "block" /\ pc' = "data" /\ NodeIs("data")
        /\ file' = WriteAt(file, ChunkOffset(blk), Decompressed, 0)
        /\ n' = ChunkOffset(blk) + Len(Decompressed)
        /\ data_block' = blk + 1
    BY <1>3, <2>1 DEF WriteData, Answered
  <2>4. blk \in Nat
    <3>1. DataLeaf.key \in Nat
      BY <1>0, LeafFields DEF DataLeaf
    <3>. QED BY <2>1, <3>1, HashIs
  <2>5. ChunkOffset(blk) \in Nat
    <3>. DEFINE x == blk * UBIFS_BLOCK_SIZE
    <3>1. x \in Nat
      BY <2>4, SizesAssumption
    <3>. HIDE DEF x
    <3>2. x % OffsetRange \in Nat
      BY <3>1, SizesAssumption
    <3>. QED BY <3>2 DEF x, ChunkOffset
  <2>6. Decompressed \in Seq(Nat)
    BY <1>0, <2>3, NodeFields DEF Walking, NodeIs, Decompressed
  <2>. HIDE DEF ChunkOffset, Decompressed
  <2>7. file' \in Seq(Nat)
    <3>1. file \in Seq(Nat) /\ 0 \in Nat
      BY DEF CommandTypes
    <3>. QED BY <2>3, <2>5, <2>6, <3>1, WriteAtProperties
  <2>8. n' \in Nat /\ data_block' \in Nat
    BY <2>3, <2>4, <2>5, <2>6
  <2>. QED BY <2>2, <2>3, <2>7, <2>8 DEF CommandTypes, Walking, Index
<1>4. CASE FileEnds \/ FileFails
  <2>1. UNCHANGED <<fs, cmd, todo, dirs, dent, inode, cur, data_block, n, file>>
    BY <1>4 DEF FileEnds, FileFails, image, walk, chunks
  <2>2. out' = Append(out, Line(dent, file)) /\ pc \in {"data", "block"} /\ pc' \in {"walk", "done"}
    BY <1>4 DEF FileEnds, FileFails, Answered
  <2>3. ret' \in {0, -1} /\ lost' \in BOOLEAN
    <3>1. ret' = ret \/ ret' = -1
      BY <1>4 DEF FileEnds, FileFails
    <3>2. lost' = lost \/ lost' = TRUE
      BY <1>4 DEF FileEnds, FileFails
    <3>. QED BY <3>1, <3>2 DEF CommandTypes
  <2>4. dent \in Nat /\ file \in Seq(Nat) /\ dirs # <<>>
    BY <2>2 DEF CommandTypes, Walking
  <2>5. out' \in Seq(Made)
    BY <2>2, <2>4, LineIsMade
  <2>. QED BY <2>1, <2>2, <2>3, <2>4, <2>5 DEF CommandTypes, Walking, Index
<1>. QED BY <1>1, <1>2, <1>3, <1>4 DEF UnpackStep

LEMMA CommandsStep == CommandTypes /\ Walking /\ [Next]_vars => (CommandTypes /\ Walking)'
<1>. SUFFICES ASSUME CommandTypes, Walking, [Next]_vars PROVE Stepped
  BY DEF Stepped
<1>. QED BY DetectTyped, LookTyped, WalkTyped, UnpackTyped DEF Next

(* In every command, whatever cannot be read, every variable has its type: *)
(* a node whose fields are used has them, a search of the index only goes  *)
(* on from nodes that are there, and only a directory that was entered is  *)
(* left.                                                                   *)
THEOREM CommandsTyped == Spec => []TypeOK
<1>1. CommandTypes /\ Walking /\ PebTypeOK => TypeOK
  BY DEF CommandTypes, TypeOK
<1>2. Inv => PebTypeOK
  BY DEF Inv
<1>. QED BY <1>1, <1>2, CommandsInit, CommandsStep, CommandsUseTheReader, InvHolds, PTL DEF Spec
=============================================================================
