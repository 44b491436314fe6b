------------------------------- MODULE UbiPebs -------------------------------
(***************************************************************************)
(* fs/ubi.c: the cache of physical erase blocks (PEBs) and the search for  *)
(* the PEB that holds a logical erase block (LEB): ubi_read_peb and        *)
(* ubi_read_leb.                                                           *)
(*                                                                         *)
(* The bytes of a PEB are its number: a cache entry holds the number of    *)
(* the PEB whose bytes it has, or JUNK after a read that did not fill it.  *)
(***************************************************************************)
EXTENDS Integers

CONSTANTS UBI_EDITOR_CACHE_PEB_NUMBERS,
          Images,      \* functions from 0 .. n-1: the PEBs of an image
          MaxFaults,   \* reads of the image that may fail
          NONE, JUNK   \* no number of a PEB or LEB

(* "ff" is erased, "bad" has a bad EC header, and a "stale" PEB has good    *)
(* headers but not the nodes of its LEB: an older or a torn copy.          *)
Peb == [kind : {"ff", "bad", "good", "stale"}, lnum : Nat]

ASSUME UbiAssumption ==
  /\ UBI_EDITOR_CACHE_PEB_NUMBERS \in Nat \ {0}
  /\ MaxFaults \in Nat
  /\ \A image \in Images :
       /\ DOMAIN image \subseteq Nat /\ image \in [DOMAIN image -> Peb]
       /\ \A n \in DOMAIN image : \A k \in 0 .. n : k \in DOMAIN image
  /\ NONE \notin Nat /\ JUNK \notin Nat

VARIABLES media,     \* the image
          caches,    \* p->caches
          reader,    \* "idle", "scan" or "done" (the last command has run)
          want,      \* the LEB asked for last
          peb,       \* the PEB the search is at
          answer,    \* the PEB in the buffer of the caller, or NONE
          faults,    \* reads that failed
          broken     \* history: a read failed since the LEB was asked for

pebVars == <<media, caches, reader, want, peb, answer, faults, broken>>

Slot == 1 .. UBI_EDITOR_CACHE_PEB_NUMBERS
CachePeb == [hit : Nat, pnum : Nat, lnum : Nat, holds : Nat \cup {JUNK}]

PebTypeOK ==
  /\ media \in Images
  /\ caches \in [Slot -> CachePeb]
  /\ reader \in {"idle", "scan", "done"}
  /\ want \in Nat \cup {NONE} /\ answer \in Nat \cup {NONE}
  /\ peb \in Nat /\ faults \in 0 .. MaxFaults /\ broken \in BOOLEAN

PebInit ==
  /\ media \in Images
  /\ caches = [i \in Slot |-> [hit |-> 0, pnum |-> 0, lnum |-> 0, holds |-> JUNK]]
  /\ reader = "idle" /\ want = NONE /\ answer = NONE
  /\ peb = 2 /\ faults = 0 /\ broken = FALSE

Holds(i, n) == caches[i].hit > 0 /\ caches[i].pnum = n
HoldsLeb(i, l) == caches[i].hit > 0 /\ caches[i].lnum = l
FindByPnum(i, n) == Holds(i, n) /\ \A j \in Slot : j < i => ~Holds(j, n)
FindByLnum(i, l) == HoldsLeb(i, l) /\ \A j \in Slot : j < i => ~HoldsLeb(j, l)
FindMinHit(i) ==
  \A j \in Slot : caches[i].hit < caches[j].hit \/ (caches[i].hit = caches[j].hit /\ i <= j)

-----------------------------------------------------------------------------
(* ubi_read_peb                                                            *)
HasHeader(n) == n \in DOMAIN media /\ media[n].kind \in {"good", "stale"}
Cached(n) == \E i \in Slot : Holds(i, n)

(* The entry that a read of PEB n looks into or reads into.                *)
Entry(i, n) == FindByPnum(i, n) \/ (~Cached(n) /\ FindMinHit(i))

(* The answer to a read of PEB n, which fails or not.                      *)
Returned(n, fails) ==
  IF Cached(n) \/ (~fails /\ HasHeader(n)) THEN "ok"
  ELSE IF fails THEN "FAILED"
  ELSE IF n \notin DOMAIN media THEN "INCOMPLETE"
  ELSE IF media[n].kind = "ff" THEN "FF" ELSE "BAD_ECHDR"

UnusedMutant(c) == c        \* mutant: hit is cleared after the read
Unused(c) == [c EXCEPT !.hit = 0]

(* Entry i after a read of PEB n and, with reads = 2, one more of the same, *)
(* which finds it in the cache.                                            *)
After(i, n, fails, reads) ==
  IF Cached(n) THEN [caches[i] EXCEPT !.hit = @ + reads]
  ELSE IF ~fails /\ HasHeader(n)
       THEN [hit |-> reads, pnum |-> n, lnum |-> media[n].lnum, holds |-> n]
       ELSE [Unused(caches[i]) EXCEPT !.holds = IF ~fails /\ n \in DOMAIN media THEN n ELSE JUNK]

(* ubi_alloc_read_peb, for the commands that look at one PEB and end.      *)
ReadPeb(n) == \E i \in Slot, fails \in BOOLEAN :
  /\ reader = "idle" /\ Entry(i, n)
  /\ fails => faults < MaxFaults /\ ~Cached(n)
  /\ caches' = [caches EXCEPT ![i] = After(i, n, fails, 1)]
  /\ want' = NONE
  /\ answer' = IF Returned(n, fails) = "ok" THEN After(i, n, fails, 1).holds ELSE NONE
  /\ faults' = IF fails THEN faults + 1 ELSE faults
  /\ broken' = fails
  /\ reader' = "done"
  /\ UNCHANGED <<media, peb>>

-----------------------------------------------------------------------------
(* ubi_read_leb                                                            *)
LookupCached(l) == \E i \in Slot :
  /\ reader = "idle" /\ FindByLnum(i, l)
  /\ want' = l
  /\ answer' = caches[i].holds
  /\ broken' = FALSE
  /\ UNCHANGED <<media, caches, reader, peb, faults>>

FirstPebMutant == 0         \* mutant: the volume table is searched too
FirstPeb == 2

LookupBegins(l) ==
  /\ reader = "idle" /\ \A i \in Slot : ~HoldsLeb(i, l)
  /\ want' = l
  /\ peb' = FirstPeb
  /\ answer' = NONE
  /\ broken' = FALSE
  /\ reader' = "scan"
  /\ UNCHANGED <<media, caches, faults>>

(* The number is a uint32_t.                                               *)
Lookup(l) == l \in Nat /\ (LookupCached(l) \/ LookupBegins(l))

(* The header is read, then the whole PEB: the buffer has it in the end.   *)
Buffer(i) == After(i, peb, FALSE, 2).holds

ScanMatch == \E i \in Slot :
  /\ reader = "scan" /\ Entry(i, peb)
  /\ Returned(peb, FALSE) = "ok" /\ media[Buffer(i)].lnum = want
  /\ caches' = [caches EXCEPT ![i] = After(i, peb, FALSE, 2)]
  /\ answer' = Buffer(i)
  /\ reader' = "idle"
  /\ UNCHANGED <<media, want, peb, faults, broken>>

NextPebMutant(n) == IF Returned(n, FALSE) = "ok" THEN n + 1 ELSE n   \* mutant: continue
NextPeb(n) == n + 1

ScanOther == \E i \in Slot :
  /\ reader = "scan" /\ Entry(i, peb)
  /\ Returned(peb, FALSE) = "ok" /\ media[Buffer(i)].lnum # want
  /\ caches' = [caches EXCEPT ![i] = After(i, peb, FALSE, 2)]
  /\ peb' = NextPeb(peb)
  /\ UNCHANGED <<media, reader, want, answer, faults, broken>>

ScanUnreadable == \E i \in Slot :
  /\ reader = "scan" /\ Entry(i, peb)
  /\ Returned(peb, FALSE) \in {"FF", "BAD_ECHDR"}
  /\ caches' = [caches EXCEPT ![i] = After(i, peb, FALSE, 1)]
  /\ peb' = NextPeb(peb)
  /\ UNCHANGED <<media, reader, want, answer, faults, broken>>

(* The end of the image, or a read that fails, ends the search.            *)
ScanStops == \E i \in Slot, fails \in BOOLEAN :
  /\ reader = "scan" /\ Entry(i, peb)
  /\ fails => faults < MaxFaults
  /\ Returned(peb, fails) \in {"FAILED", "INCOMPLETE"}
  /\ caches' = [caches EXCEPT ![i] = After(i, peb, fails, 1)]
  /\ answer' = NONE
  /\ faults' = IF fails THEN faults + 1 ELSE faults
  /\ broken' = fails
  /\ reader' = "idle"
  /\ UNCHANGED <<media, want, peb>>

Scan == ScanMatch \/ ScanOther \/ ScanUnreadable \/ ScanStops

PebNext == Scan \/ \E n \in Nat : Lookup(n) \/ ReadPeb(n)
PebSpec == PebInit /\ [][PebNext]_pebVars

-----------------------------------------------------------------------------
(* A cache entry in use has the bytes of the PEB it says it has, and the   *)
(* LEB of that PEB, and no PEB is cached twice.  ubi_read_peb reuses the   *)
(* least used entry, which may be in use, and a read may fail half way.    *)
CacheExact ==
  \A i \in Slot : caches[i].hit > 0 =>
    /\ HasHeader(caches[i].pnum)
    /\ caches[i].holds = caches[i].pnum
    /\ caches[i].lnum = media[caches[i].pnum].lnum
    /\ \A j \in Slot : caches[j].hit > 0 /\ caches[j].pnum = caches[i].pnum => j = i

(* The copies of a LEB that a search may answer with: PEB 0 and 1 are the  *)
(* volume table, whose LEBs have the numbers 0 and 1 too.                  *)
Copies(l) == {n \in DOMAIN media : n >= 2 /\ HasHeader(n) /\ media[n].lnum = l}

(* ubi_read_leb answers with a PEB of the LEB it is asked for, whatever is *)
(* in the cache, and with none only if there is none or a read failed.     *)
LookupExact ==
  reader = "idle" /\ want # NONE =>
    IF answer = NONE THEN broken \/ Copies(want) = {} ELSE answer \in Copies(want)
=============================================================================
