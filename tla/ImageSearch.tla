----------------------------- MODULE ImageSearch -----------------------------
(***************************************************************************)
(* `imgeditor --search`: main.c reads the file window by window, looks for *)
(* the magic of every registered editor in each window, and asks the       *)
(* editor to detect an image where its magic was found.                    *)
(*                                                                         *)
(* The bytes of the file are abstracted to hits[e], the positions at which *)
(* the magic of editor e occurs.  What detect() answers is not modelled:   *)
(* it may accept or refuse any probe; nor is the private data of editors,  *)
(* which is zeroed before a probe and after it.  A report is identified by *)
(* its editor and the position of the magic; layout, sorting within a      *)
(* window and summaries are left out.                                      *)
(***************************************************************************)
EXTENDS Integers

CONSTANTS NEditors,      \* editors 1 .. NEditors, in the order registered
          MBR,           \* the editor named "mbr"
          MagicSz,       \* search_magic.magic_sz: 0 for an editor without one
          MagicOffset,   \* search_magic.magic_offset
          HeaderSz,      \* header_size
          FileLen,       \* bytes in the file
          Window,        \* BUF4M_SZ, bytes read at a time
          ReadBack,      \* 1024, bytes read again before a window
          Starts,        \* values of --offset, and 0, which it is without the option
          HitSets,       \* what hits may be
          MaxFailures    \* bound on failing dup() and realloc() calls

Editor == 1 .. NEditors
Pos    == 0 .. FileLen
Report == Editor \X Pos

ASSUME EditorAssumption ==
  /\ NEditors \in Nat /\ MBR \in Editor
  /\ MagicSz \in [Editor -> Nat] /\ MagicSz[MBR] = 0
  /\ MagicOffset \in [Editor -> Nat]
  /\ HeaderSz \in [Editor -> Nat]
ASSUME FileAssumption ==
  /\ FileLen \in Nat /\ Starts \subseteq 0 .. FileLen - 1 /\ 0 \in Starts
  /\ \A h \in HitSets : /\ h \in [Editor -> SUBSET Pos]
                        /\ \A e \in Editor : \A p \in h[e] : p + MagicSz[e] <= FileLen
ASSUME WindowAssumption == ReadBack \in Nat /\ Window \in Nat /\ ReadBack < Window
ASSUME FailureAssumption == MaxFailures \in Nat

VARIABLES hits,      \* where the magics are
          start,     \* filestart(fd)
          pc,        \* "read", "scan", "detect" or "searched", or a stage of Main
          offset,    \* file offset of the window being searched
          loaded,    \* bytes in the window
          cur,       \* the editor the list walk has come to
          ready,     \* some magic matched in this walk
          offset0,   \* offset0_searched
          next,      \* search_magic.next_search_offset
          probe,     \* the match being detected and where its window begins
          imgs,      \* matches accepted in this window
          printed,   \* lines printed for every report
          refused,   \* history: probes that detect() refused
          failures   \* read(), dup() and realloc() failures so far

file  == <<hits, start>>
walk  == <<offset, loaded, cur, ready, offset0>>
searchVars == <<file, pc, walk, next, probe, imgs, printed, refused, failures>>

NoProbe == [editor |-> MBR, pos |-> 0, place |-> 0]

SearchTypeOK ==
  /\ hits \in HitSets /\ start \in Starts
  /\ offset \in Nat /\ loaded \in 0 .. Window
  /\ cur \in 1 .. NEditors + 1
  /\ ready \in BOOLEAN /\ offset0 \in BOOLEAN
  /\ next \in [Editor -> Nat]
  /\ probe \in [editor : Editor, pos : Pos, place : Int]
  /\ imgs \in [Report -> Nat] /\ printed \in [Report -> Nat]
  /\ refused \subseteq Report
  /\ failures \in 0 .. MaxFailures

-----------------------------------------------------------------------------
NoReports == [r \in Report |-> 0]

(* imgeditor_search has opened the image at an offset; register_imgeditor  *)
(* has given every editor its zeroed private data.                         *)
SearchFromStart(o) ==
  /\ start' = o /\ offset' = o /\ loaded' = 0
  /\ cur' = 1 /\ ready' = FALSE /\ offset0' = FALSE
  /\ next' = [e \in Editor |-> 0]
  /\ probe' = NoProbe
  /\ imgs' = NoReports /\ printed' = NoReports /\ refused' = {}

(* The loop head of imgeditor_search_foreach: step back, seek, read.  The  *)
(* seek is to an absolute position.                                        *)
SteppedBackMutant1 == offset - ReadBack   \* mutant: without the test
SteppedBackMutant2 ==                     \* mutant: a whole window back
  IF offset > ReadBack THEN offset - Window ELSE offset
SteppedBack == IF offset > ReadBack THEN offset - ReadBack ELSE offset
Loadable(o) == IF FileLen - o < Window THEN FileLen - o ELSE Window

ReadWindow ==
  /\ pc = "read"
  /\ Loadable(SteppedBack) > 0
  /\ offset' = SteppedBack /\ loaded' = Loadable(SteppedBack)
  /\ pc' = "scan" /\ cur' = 1 /\ ready' = FALSE /\ offset0' = FALSE
  /\ imgs' = NoReports
  /\ UNCHANGED <<file, next, probe, printed, refused, failures>>

(* read() fails and ends the search.  It never returns 0: the step back    *)
(* leaves bytes to read in every window but the first.                     *)
ReadFails ==
  /\ pc = "read"
  /\ failures < MaxFailures
  /\ failures' = failures + 1
  /\ offset' = SteppedBack /\ loaded' = 0
  /\ pc' = "searched"
  /\ UNCHANGED <<file, cur, ready, offset0, next, probe, imgs, printed, refused>>

-----------------------------------------------------------------------------
(* One editor of the list walk of imgeditor_search_buf.                    *)

AtOffsetZero(e) == e = MBR /\ ~offset0 /\ offset = 0

(* Where the search in the window begins; it is skipped when that is       *)
(* outside the window.                                                     *)
SearchFromMutant(e) == offset   \* mutant: next_search_offset is not used
SearchFrom(e) == IF next[e] = 0 THEN offset ELSE next[e]
Searched(e) == /\ MagicSz[e] # 0
               /\ offset <= SearchFrom(e) /\ SearchFrom(e) < offset + loaded

(* The positions memmem() can return.                                      *)
InWindow(e) == {p \in hits[e] : SearchFrom(e) <= p /\ p + MagicSz[e] <= offset + loaded}
FirstMatchMutant(e, p) ==       \* mutant: the last match
  p \in InWindow(e) /\ \A q \in InWindow(e) : q <= p
FirstMatch(e, p) == p \in InWindow(e) /\ \A q \in InWindow(e) : p <= q

ImgOffset(e, p) == p - MagicOffset[e]
HeaderFits(e, p) == ImgOffset(e, p) + HeaderSz[e] <= FileLen - start

NextEditor == cur' = cur + 1

SkipEditor == \E e \in Editor :
  /\ pc = "scan" /\ cur = e
  /\ ~AtOffsetZero(e) /\ ~Searched(e)
  /\ NextEditor
  /\ UNCHANGED <<file, pc, offset, loaded, ready, offset0, next, probe, imgs,
                 printed, refused, failures>>

NotFound == \E e \in Editor :
  /\ pc = "scan" /\ cur = e
  /\ ~AtOffsetZero(e) /\ Searched(e) /\ InWindow(e) = {}
  /\ next' = [next EXCEPT ![e] = offset + loaded]
  /\ NextEditor
  /\ UNCHANGED <<file, pc, offset, loaded, ready, offset0, probe, imgs,
                 printed, refused, failures>>

(* The magic matches but the file ends inside the header.                  *)
MatchTooShort == \E e \in Editor, p \in Pos :
  /\ pc = "scan" /\ cur = e
  /\ ~AtOffsetZero(e) /\ Searched(e) /\ FirstMatch(e, p)
  /\ ~HeaderFits(e, p)
  /\ ready' = TRUE
  /\ next' = [next EXCEPT ![e] = p + 1]
  /\ NextEditor
  /\ UNCHANGED <<file, pc, offset, loaded, offset0, probe, imgs, printed,
                 refused, failures>>

(* virtual_file_dup: where the window of the image begins.                 *)
WindowStart(imgOffset) == start + imgOffset

(* detect_it: the window of the image is opened with virtual_file_dup,     *)
(* relative to the window of fd.                                           *)
Probe(e, p, imgOffset) ==
  /\ \/ /\ probe' = [editor |-> e, pos |-> p, place |-> WindowStart(imgOffset)]
        /\ pc' = "detect"
        /\ UNCHANGED <<cur, failures>>
     \/ /\ failures < MaxFailures          \* virtual_file_dup failed
        /\ failures' = failures + 1
        /\ NextEditor
        /\ UNCHANGED <<pc, probe>>
  /\ UNCHANGED <<file, offset, loaded, imgs, printed, refused>>

Match == \E e \in Editor, p \in Pos :
  /\ pc = "scan" /\ cur = e
  /\ ~AtOffsetZero(e) /\ Searched(e) /\ FirstMatch(e, p)
  /\ HeaderFits(e, p)
  /\ ready' = TRUE
  /\ next' = [next EXCEPT ![e] = p + 1]
  /\ Probe(e, p, ImgOffset(e, p))
  /\ UNCHANGED offset0

(* mbr has no magic: it is detected at the beginning of the file, once.    *)
MatchMbr ==
  /\ pc = "scan" /\ cur = MBR
  /\ AtOffsetZero(MBR)
  /\ offset0' = TRUE
  /\ Probe(MBR, 0, 0)
  /\ UNCHANGED <<ready, next>>

-----------------------------------------------------------------------------
(* detect() returned, and the window is closed.                            *)
Probed == <<probe.editor, probe.pos>>

DetectRefuses ==
  /\ pc = "detect"
  /\ refused' = refused \cup {Probed}
  /\ pc' = "scan" /\ NextEditor
  /\ UNCHANGED <<file, offset, loaded, ready, offset0, next, probe, imgs, printed,
                 failures>>

DetectAccepts ==
  /\ pc = "detect"
  /\ imgs' = [imgs EXCEPT ![Probed] = @ + 1]
  /\ pc' = "scan" /\ NextEditor
  /\ UNCHANGED <<file, offset, loaded, ready, offset0, next, probe, printed,
                 refused, failures>>

(* realloc() failed: the images of the window are forgotten and the list   *)
(* walk is left, with the window of the image open.                        *)
ReallocFails ==
  /\ pc = "detect"
  /\ failures < MaxFailures
  /\ failures' = failures + 1
  /\ imgs' = NoReports
  /\ pc' = "scan" /\ cur' = NEditors + 1
  /\ UNCHANGED <<file, offset, loaded, ready, offset0, next, probe, printed, refused>>

-----------------------------------------------------------------------------
(* while (ready): walk the list again.                                     *)
WalkAgain ==
  /\ pc = "scan" /\ cur = NEditors + 1 /\ ready
  /\ cur' = 1 /\ ready' = FALSE
  /\ UNCHANGED <<file, pc, offset, loaded, offset0, next, probe, imgs, printed,
                 refused, failures>>

(* The window is done: its images are printed, and the loop goes on while  *)
(* whole windows are read.                                                 *)
WindowDone ==
  /\ pc = "scan" /\ cur = NEditors + 1 /\ ~ready
  /\ printed' = [r \in Report |-> printed[r] + imgs[r]]
  /\ imgs' = NoReports
  /\ offset' = offset + loaded
  /\ pc' = IF loaded = Window THEN "read" ELSE "searched"
  /\ UNCHANGED <<file, loaded, cur, ready, offset0, next, probe, refused, failures>>

SearchNext ==
  \/ ReadWindow \/ ReadFails
  \/ SkipEditor \/ NotFound \/ MatchTooShort \/ Match \/ MatchMbr
  \/ DetectRefuses \/ DetectAccepts \/ ReallocFails
  \/ WalkAgain \/ WindowDone

-----------------------------------------------------------------------------
(* No image is printed twice, although every window but the first begins   *)
(* with bytes of the window before it: next_search_offset keeps a magic    *)
(* that was found from being found again.                                  *)
NoDuplicates == \A r \in Report : printed[r] + imgs[r] <= 1

(* The first byte each window adds to the search.                          *)
Frontier(k) == k * (Window - ReadBack) + ReadBack
Straddles(e, p) == \E k \in 1 .. FileLen :
  p < Frontier(k) /\ Frontier(k) < p + MagicSz[e]

(* A magic the search must settle: the header it belongs to is in the      *)
(* file.                                                                   *)
Settled(e, p) == printed[<<e, p>>] = 1 \/ <<e, p>> \in refused
Complete(e, p) == HeaderFits(e, p) => Settled(e, p)

(* "read back: 1024 is OK for all magics" (main.c): no magic is missed     *)
(* because two windows share it.                                           *)
CompleteEverywhere ==
  pc = "searched" /\ start = 0 /\ failures = 0 =>
    \A e \in Editor, p \in Pos :
      MagicSz[e] > 0 /\ p \in hits[e] /\ MagicSz[e] <= ReadBack => Complete(e, p)

(* "--offset offset  set the offset location" (usage): an image is probed  *)
(* at the place its magic was found.                                       *)
ProbedWhereFound ==
  pc = "detect" /\ probe.editor # MBR =>
    probe.place = ImgOffset(probe.editor, probe.pos)

(* A search of the whole file probes every image at the place its magic    *)
(* was found, and when it is over, every image whose magic lies between    *)
(* two frontiers was printed, or refused by its editor: no order of        *)
(* matches of the different editors makes one of them skip a match.        *)
(* (A failing realloc leaves the walk, so the window is not complete.)     *)
FoundInPlace ==
  start = 0 =>
    /\ ProbedWhereFound
    /\ pc = "searched" /\ failures = 0 =>
         \A e \in Editor, p \in Pos :
           MagicSz[e] > 0 /\ p \in hits[e] /\ ~Straddles(e, p) => Complete(e, p)
=============================================================================
