------------------------------ MODULE MainProofs ------------------------------
(***************************************************************************)
(* Proofs about Main: the four invariants that are checked on an instance, *)
(* for any editors and magics, any image, any window that is longer than   *)
(* what is read back, any --offset and any sequence of commands.           *)
(*                                                                         *)
(* First the search of ImageSearch.  What keeps it from printing an image  *)
(* twice and from missing one is next_search_offset: what lies before it   *)
(* is done with, and once the list was walked without a match it is at the *)
(* end of the window.  Then the stages of a command before and after it.   *)
(***************************************************************************)
EXTENDS Main, TLAPS

USE EditorAssumption, FileAssumption, WindowAssumption, FailureAssumption

Scanning  == pc \in {"scan", "detect"}
Searching == Scanning \/ pc = "read"

(* Lines printed, or still to be printed, for a report.                    *)
Count(r) == printed[r] + imgs[r]

(* The types, with the editor that is asked: the one the walk has come to. *)
SearchTypeInv == SearchTypeOK /\ (pc = "detect" => cur = probe.editor)

-----------------------------------------------------------------------------
(* NoDuplicates is inductive with what was reported so far: matches of a   *)
(* magic before next_search_offset, and mbr in the window at 0.            *)
Behind(e, p) == IF e = MBR THEN offset > 0 \/ (Scanning /\ offset0) ELSE p < next[e]

DuplicatesInv ==
  /\ NoDuplicates
  /\ Scanning => loaded > 0
  /\ Searching => \A e \in Editor, p \in Pos : Count(<<e, p>>) # 0 => Behind(e, p)
  /\ pc = "detect" => Count(Probed) = 0 /\ Behind(probe.editor, probe.pos)

-----------------------------------------------------------------------------
(* FoundInPlace is inductive with the place of every window and how far    *)
(* each editor has come.                                                   *)
Step == Window - ReadBack

PlacesInv ==
  /\ pc = "read" => imgs = NoReports /\ (offset = 0 \/ \E k \in Nat : k > 0 /\ offset = Frontier(k))
  /\ Scanning => loaded = Loadable(offset) /\ \E k \in Nat : offset = k * Step

(* A magic that lies between two frontiers, of an image whose header is in *)
(* the file.                                                               *)
Due(e, p) == p \in hits[e] /\ ~Straddles(e, p) /\ HeaderFits(e, p)
Answered(e, p) == Count(<<e, p>>) # 0 \/ <<e, p>> \in refused
InProbe(e, p) == pc = "detect" /\ Probed = <<e, p>>

EditorInv(e) ==
  /\ Searching =>
       /\ offset > 0 => offset <= next[e]
       /\ \A p \in Pos : Due(e, p) /\ p < next[e] => Answered(e, p) \/ InProbe(e, p)
  /\ Scanning /\ ~ready /\ e < cur => offset + loaded <= next[e]

(* A match was printed or refused.                                         *)
Decided(e, p) == printed[<<e, p>>] # 0 \/ <<e, p>> \in refused

(* While no call has failed.                                               *)
NothingMissed ==
  /\ PlacesInv
  /\ pc = "detect" => ready \/ probe.editor = MBR
  /\ \A e \in Editor : MagicSz[e] > 0 => EditorInv(e)
  /\ pc = "searched" => \A e \in Editor, p \in Pos : MagicSz[e] > 0 /\ Due(e, p) => Decided(e, p)

FoundInv == start = 0 => ProbedWhereFound /\ (failures = 0 => NothingMissed)

-----------------------------------------------------------------------------
(* What the operators of the search return.                                *)
LEMMA SearchFromType == ASSUME SearchTypeOK, NEW e \in Editor PROVE SearchFrom(e) \in Nat
BY DEF SearchTypeOK, SearchFrom

LEMMA SteppedBackType == SearchTypeOK => SteppedBack \in Nat /\ SteppedBack <= offset
BY DEF SearchTypeOK, SteppedBack

LEMMA LoadableType ==
  ASSUME NEW o \in Nat
  PROVE  /\ Loadable(o) \in Int /\ Loadable(o) <= Window
         /\ o + Loadable(o) <= FileLen
         /\ Loadable(o) < Window => o + Loadable(o) = FileLen
BY DEF Loadable

LEMMA NoReportsType == NoReports \in [Report -> Nat]
BY DEF NoReports

LEMMA ProbedType == SearchTypeOK => Probed \in Report /\ probe.editor \in Editor /\ probe.pos \in Pos
BY DEF SearchTypeOK, Probed, Report

(* A probe keeps the types, whether its window could be opened or not.     *)
LEMMA ProbeType ==
  ASSUME SearchTypeOK, NEW e \in Editor, NEW p \in Pos, NEW o \in Int, cur = e, Probe(e, p, o)
  PROVE  /\ hits' \in HitSets /\ start' \in Starts /\ offset' \in Nat /\ loaded' \in 0 .. Window
         /\ cur' \in 1 .. NEditors + 1
         /\ probe' \in [editor : Editor, pos : Pos, place : Int]
         /\ imgs' \in [Report -> Nat] /\ printed' \in [Report -> Nat] /\ refused' \subseteq Report
         /\ failures' \in 0 .. MaxFailures
<1>. USE DEF SearchTypeOK, Probe
<1>1. start + o \in Int
  OBVIOUS
<1>2. [editor |-> e, pos |-> p, place |-> WindowStart(o)] \in [editor : Editor, pos : Pos, place : Int]
  BY <1>1 DEF WindowStart
<1>3. cur + 1 \in 1 .. NEditors + 1
  BY DEF Editor
<1>4. probe' \in [editor : Editor, pos : Pos, place : Int]
  BY <1>2
<1>5. cur' \in 1 .. NEditors + 1 /\ failures' \in 0 .. MaxFailures
  BY <1>3 DEF NextEditor
<1>. QED BY <1>4, <1>5 DEF file

LEMMA NextEditorType == ASSUME cur \in Editor, NextEditor PROVE cur' \in 1 .. NEditors + 1
BY DEF Editor, NextEditor

(* The flags stay flags.                                                   *)
LEMMA FlagStep ==
  ASSUME SearchTypeOK, SearchNext
  PROVE  ready' \in BOOLEAN /\ offset0' \in BOOLEAN
<1>. USE DEF SearchTypeOK
<1>1. CASE ReadWindow \/ ReadFails \/ WalkAgain \/ WindowDone
  BY <1>1, Zenon DEF ReadWindow, ReadFails, WalkAgain, WindowDone
<1>2. CASE SkipEditor \/ NotFound \/ MatchTooShort
  BY <1>2, Zenon DEF SkipEditor, NotFound, MatchTooShort
<1>3. CASE Match \/ MatchMbr
  BY <1>3, Zenon DEF Match, MatchMbr, Probe
<1>4. CASE DetectRefuses \/ DetectAccepts \/ ReallocFails
  BY <1>4, Zenon DEF DetectRefuses, DetectAccepts, ReallocFails
<1>. QED BY <1>1, <1>2, <1>3, <1>4 DEF SearchNext

(* Every step of the search keeps the types.                               *)
LEMMA SearchTypeStep == ASSUME SearchTypeInv, SearchNext PROVE SearchTypeInv'
<1>1. SearchTypeOK /\ (pc = "detect" => cur = probe.editor)
  BY DEF SearchTypeInv
<1>2. SearchTypeOK'
  <2>. USE <1>1, FlagStep DEF SearchTypeOK, file, walk
  <2>1. CASE ReadWindow
    BY <2>1, SteppedBackType, LoadableType, NoReportsType DEF ReadWindow
  <2>2. CASE ReadFails
    BY <2>2, SteppedBackType DEF ReadFails
  <2>3. CASE SkipEditor
    BY <2>3, NextEditorType DEF SkipEditor
  <2>4. CASE NotFound
    <3>1. PICK e \in Editor : NotFound!(e)
      BY <2>4 DEF NotFound
    <3>2. offset + loaded \in Nat
      OBVIOUS
    <3>3. next' \in [Editor -> Nat]
      BY <3>1, <3>2
    <3>. QED BY <3>1, <3>3, NextEditorType
  <2>5. CASE MatchTooShort
    <3>1. PICK e \in Editor, p \in Pos : MatchTooShort!(e, p)
      BY <2>5 DEF MatchTooShort
    <3>2. next' \in [Editor -> Nat]
      BY <3>1 DEF Pos
    <3>. QED BY <3>1, <3>2, NextEditorType
  <2>6. CASE Match
    <3>1. PICK e \in Editor, p \in Pos : Match!(e, p)
      BY <2>6 DEF Match
    <3>2. next' \in [Editor -> Nat]
      BY <3>1 DEF Pos
    <3>3. ImgOffset(e, p) \in Int
      BY DEF ImgOffset, Pos
    <3>. QED BY <3>1, <3>2, <3>3, ProbeType
  <2>7. CASE MatchMbr
    <3>1. 0 \in Pos /\ 0 \in Int
      BY DEF Pos
    <3>. QED BY <2>7, <3>1, ProbeType DEF MatchMbr
  <2>8. CASE DetectRefuses
    BY <2>8, ProbedType, NextEditorType DEF DetectRefuses
  <2>9. CASE DetectAccepts
    <3>1. imgs' \in [Report -> Nat]
      BY <2>9, ProbedType DEF DetectAccepts
    <3>. QED BY <2>9, <3>1, ProbedType, NextEditorType DEF DetectAccepts
  <2>10. CASE ReallocFails
    <3>1. imgs' \in [Report -> Nat]
      BY <2>10, NoReportsType DEF ReallocFails
    <3>. QED BY <2>10, <3>1 DEF ReallocFails
  <2>11. CASE WalkAgain
    BY <2>11 DEF WalkAgain
  <2>12. CASE WindowDone
    <3>1. [r \in Report |-> printed[r] + imgs[r]] \in [Report -> Nat]
      OBVIOUS
    <3>2. offset + loaded \in Nat
      OBVIOUS
    <3>. QED BY <2>12, <3>1, <3>2, NoReportsType DEF WindowDone
  <2>. QED BY <2>1, <2>2, <2>3, <2>4, <2>5, <2>6, <2>7, <2>8, <2>9, <2>10, <2>11, <2>12 DEF SearchNext
<1>3. pc' = "detect" => cur' = probe'.editor
  <2>1. CASE Match
    <3>1. PICK e \in Editor, p \in Pos : Match!(e, p)
      BY <2>1 DEF Match
    <3>. QED BY <3>1 DEF Probe
  <2>2. CASE MatchMbr
    BY <2>2 DEF MatchMbr, Probe
  <2>3. CASE ~(Match \/ MatchMbr)
    BY <2>3 DEF SearchNext, ReadWindow, ReadFails, SkipEditor, NotFound, MatchTooShort,
                DetectRefuses, DetectAccepts, ReallocFails, WalkAgain, WindowDone
  <2>. QED BY <2>1, <2>2, <2>3
<1>. QED BY <1>2, <1>3 DEF SearchTypeInv

-----------------------------------------------------------------------------
(* No duplicates.                                                          *)

LEMMA ReportType == ASSUME NEW e \in Editor, NEW p \in Pos PROVE <<e, p>> \in Report
BY DEF Report

LEMMA CountType == ASSUME SearchTypeOK, NEW r \in Report PROVE Count(r) \in Nat
BY DEF SearchTypeOK, Count

(* A search in a window begins at or after next_search_offset.             *)
LEMMA SearchGoesOn ==
  ASSUME SearchTypeOK, NEW e \in Editor, Searched(e)
  PROVE  /\ next[e] <= SearchFrom(e) /\ SearchFrom(e) < offset + loaded
         /\ next[e] \in Nat /\ SearchFrom(e) \in Nat /\ offset + loaded \in Nat
         /\ e # MBR
BY DEF SearchTypeOK, Searched, SearchFrom

(* A step that reports nothing leaves no duplicates.                       *)
LEMMA NothingReported ==
  ASSUME SearchTypeInv, DuplicatesInv, SearchTypeOK',
         \A r \in Report : Count(r)' <= Count(r),
         Searching' => Searching,
         Searching' => \A e \in Editor, p \in Pos : Behind(e, p) => Behind(e, p)',
         Scanning' => loaded' > 0,
         (pc = "detect")' => Count(Probed)' = 0 /\ Behind(probe.editor, probe.pos)'
  PROVE  DuplicatesInv'
<1>1. \A r \in Report : Count(r) \in Nat /\ Count(r)' \in Nat
  BY DEF SearchTypeInv, SearchTypeOK, Count
<1>2. NoDuplicates'
  BY <1>1 DEF DuplicatesInv, NoDuplicates, Count
<1>3. Searching' => \A e \in Editor, p \in Pos : Count(<<e, p>>)' # 0 => Behind(e, p)'
  <2>. SUFFICES ASSUME Searching', NEW e \in Editor, NEW p \in Pos, Count(<<e, p>>)' # 0
                PROVE  Behind(e, p)'
    OBVIOUS
  <2>1. Count(<<e, p>>) # 0
    BY <1>1, ReportType
  <2>. QED BY <2>1 DEF DuplicatesInv
<1>. QED BY <1>2, <1>3 DEF DuplicatesInv
(* No step of the search reports an image twice.                           *)
LEMMA DuplicatesStep == ASSUME SearchTypeInv, DuplicatesInv, SearchNext PROVE DuplicatesInv'
<1>. USE DEF Searching, Scanning
<1>1. SearchTypeOK /\ SearchTypeOK'
  BY SearchTypeStep DEF SearchTypeInv
<1>2. \A r \in Report : printed[r] \in Nat /\ imgs[r] \in Nat /\ Count(r) \in Nat
  BY <1>1 DEF SearchTypeOK, Count
<1>3. offset \in Nat /\ loaded \in Nat /\ next \in [Editor -> Nat] /\ cur \in Int
  BY <1>1 DEF SearchTypeOK
<1>4. CASE ReadWindow
  <2>1. \A r \in Report : Count(r)' <= Count(r)
    BY <1>2, <1>4 DEF ReadWindow, Count, NoReports
  <2>2. offset > 0 => offset' > 0
    BY <1>3, <1>4 DEF ReadWindow, SteppedBack
  <2>3. \A e \in Editor, p \in Pos : Behind(e, p) => Behind(e, p)'
    BY <1>4, <2>2 DEF ReadWindow, Behind
  <2>. QED BY <1>1, <1>4, <2>1, <2>3, NothingReported DEF ReadWindow
<1>5. CASE ReadFails
  <2>1. NoDuplicates' /\ pc' = "searched"
    BY <1>5 DEF ReadFails, DuplicatesInv, NoDuplicates
  <2>. QED BY <2>1 DEF DuplicatesInv
<1>6. CASE SkipEditor \/ WalkAgain
  <2>1. UNCHANGED <<pc, offset, loaded, next, probe, imgs, printed, offset0>> /\ pc = "scan"
    BY <1>6 DEF SkipEditor, WalkAgain
  <2>. QED BY <2>1 DEF Count, Behind, DuplicatesInv, NoDuplicates
<1>7. CASE NotFound \/ MatchTooShort
  <2>1. PICK e \in Editor : /\ Searched(e) /\ pc = "scan"
                            /\ \E n \in Nat : n >= SearchFrom(e) /\ next' = [next EXCEPT ![e] = n]
                            /\ UNCHANGED <<pc, offset, loaded, probe, imgs, printed, offset0>>
    <3>1. CASE NotFound
      <4>1. PICK e \in Editor : NotFound!(e)
        BY <3>1 DEF NotFound
      <4>2. offset + loaded \in Nat /\ offset + loaded >= SearchFrom(e)
        BY <1>1, <4>1, SearchGoesOn
      <4>. QED BY <4>1, <4>2
    <3>2. CASE MatchTooShort
      <4>1. PICK e \in Editor, p \in Pos : MatchTooShort!(e, p)
        BY <3>2 DEF MatchTooShort
      <4>2. p + 1 \in Nat /\ p + 1 >= SearchFrom(e)
        BY <1>1, <4>1, SearchGoesOn DEF FirstMatch, InWindow, Pos
      <4>. QED BY <4>1, <4>2
    <3>. QED BY <1>7, <3>1, <3>2
  <2>2. \A f \in Editor : next'[f] >= next[f]
    BY <1>1, <1>3, <2>1, SearchGoesOn
  <2>3. \A f \in Editor, p \in Pos : Behind(f, p) => Behind(f, p)'
    <3>. SUFFICES ASSUME NEW f \in Editor, NEW p \in Pos, Behind(f, p) PROVE Behind(f, p)'
      OBVIOUS
    <3>1. next[f] \in Nat /\ next'[f] \in Nat /\ p \in Nat
      BY <1>1 DEF SearchTypeOK, Pos
    <3>. QED BY <2>1, <2>2, <3>1 DEF Behind
  <2>4. \A r \in Report : Count(r)' = Count(r)
    BY <2>1 DEF Count
  <2>5. loaded' > 0
    BY <2>1 DEF DuplicatesInv
  <2>6. (pc = "detect")' => FALSE
    BY <2>1
  <2>. QED BY <1>1, <1>2, <2>1, <2>3, <2>4, <2>5, <2>6, NothingReported
<1>8. CASE Match
  <2>1. PICK e \in Editor, p \in Pos : Match!(e, p)
    BY <1>8 DEF Match
  <2>2. e # MBR /\ next[e] <= p /\ p \in Nat /\ next[e] \in Nat
    BY <1>1, <2>1, SearchGoesOn DEF FirstMatch, InWindow, Pos
  <2>3. Count(<<e, p>>) = 0
    BY <1>2, <2>1, <2>2, ReportType DEF DuplicatesInv, Behind
  <2>4. UNCHANGED <<offset, loaded, imgs, printed, offset0>> /\ pc' \in {"scan", "detect"}
    BY <2>1 DEF Probe
  <2>5. next' = [next EXCEPT ![e] = p + 1]
    BY <2>1
  <2>6. \A f \in Editor, q \in Pos : Behind(f, q) => Behind(f, q)'
    <3>. SUFFICES ASSUME NEW f \in Editor, NEW q \in Pos, Behind(f, q) PROVE Behind(f, q)'
      OBVIOUS
    <3>1. next[f] \in Nat /\ next'[f] \in Nat /\ next'[f] >= next[f] /\ q \in Nat
      BY <1>1, <2>2, <2>5 DEF SearchTypeOK, Pos
    <3>. QED BY <2>1, <2>4, <3>1 DEF Behind
  <2>7. pc' = "detect" => probe'.editor = e /\ probe'.pos = p
    BY <2>1 DEF Probe
  <2>8. pc' = "detect" => Count(Probed)' = 0 /\ Behind(probe.editor, probe.pos)'
    BY <1>3, <2>2, <2>3, <2>4, <2>5, <2>7 DEF Probed, Count, Behind
  <2>9. \A r \in Report : Count(r)' = Count(r)
    BY <2>4 DEF Count
  <2>10. loaded' > 0 /\ pc = "scan"
    BY <2>1, <2>4 DEF DuplicatesInv
  <2>. QED BY <1>1, <1>2, <2>4, <2>6, <2>8, <2>9, <2>10, NothingReported
<1>9. CASE MatchMbr
  <2>1. 0 \in Pos /\ MBR \in Editor /\ MBR = MBR
    BY DEF Pos
  <2>2. Count(<<MBR, 0>>) = 0
    BY <1>2, <1>3, <1>9, <2>1, ReportType DEF MatchMbr, AtOffsetZero, DuplicatesInv, Behind
  <2>3. UNCHANGED <<offset, loaded, imgs, printed, next>> /\ pc' \in {"scan", "detect"} /\ offset0' = TRUE
    BY <1>9 DEF MatchMbr, Probe
  <2>4. \A f \in Editor, q \in Pos : Behind(f, q) => Behind(f, q)'
    BY <2>3 DEF Behind
  <2>5. pc' = "detect" => Probed' = <<MBR, 0>> /\ probe'.editor = MBR
    BY <1>9 DEF MatchMbr, Probe, Probed
  <2>6. pc' = "detect" => Count(Probed)' = 0 /\ Behind(probe.editor, probe.pos)'
    BY <2>2, <2>3, <2>5 DEF Count, Behind
  <2>7. \A r \in Report : Count(r)' = Count(r)
    BY <2>3 DEF Count
  <2>8. loaded' > 0 /\ pc = "scan"
    BY <1>9, <2>3 DEF MatchMbr, DuplicatesInv
  <2>. QED BY <1>1, <1>2, <2>3, <2>4, <2>6, <2>7, <2>8, NothingReported
<1>10. CASE DetectRefuses
  <2>1. UNCHANGED <<offset, loaded, imgs, printed, next, offset0>> /\ pc = "detect" /\ pc' = "scan"
    BY <1>10 DEF DetectRefuses
  <2>. QED BY <2>1 DEF DuplicatesInv, NoDuplicates, Count, Behind
<1>11. CASE DetectAccepts
  <2>1. /\ UNCHANGED <<offset, loaded, printed, next, offset0>> /\ pc = "detect" /\ pc' = "scan"
        /\ imgs' = [imgs EXCEPT ![Probed] = @ + 1]
    BY <1>11 DEF DetectAccepts
  <2>2. Probed \in Report /\ probe.editor \in Editor /\ probe.pos \in Pos /\ Probed = <<probe.editor, probe.pos>>
    BY <1>1, ProbedType DEF Probed
  <2>3. /\ printed'[Probed] + imgs'[Probed] = 1
        /\ \A r \in Report \ {Probed} : printed'[r] + imgs'[r] = Count(r)
    <3>1. Count(Probed) = 0
      BY <2>1 DEF DuplicatesInv
    <3>2. imgs'[Probed] = imgs[Probed] + 1 /\ printed'[Probed] = printed[Probed] /\ \A r \in Report \ {Probed} : imgs'[r] = imgs[r]
      BY <1>1, <2>1, <2>2 DEF SearchTypeOK
    <3>. QED BY <1>2, <2>1, <2>2, <3>1, <3>2 DEF Count
  <2>4. ASSUME NEW e \in Editor, NEW p \in Pos, printed'[<<e, p>>] + imgs'[<<e, p>>] # 0
        PROVE  Behind(e, p)
    <3>1. CASE <<e, p>> = Probed
      BY <2>1, <2>2, <3>1 DEF DuplicatesInv
    <3>2. CASE <<e, p>> # Probed
      BY <2>1, <2>3, <2>4, <3>2, ReportType DEF DuplicatesInv
    <3>. QED BY <3>1, <3>2
  <2>5. NoDuplicates'
    BY <2>3 DEF DuplicatesInv, NoDuplicates, Count
  <2>. QED BY <2>1, <2>4, <2>5 DEF DuplicatesInv, Count, Behind
<1>12. CASE ReallocFails
  <2>1. /\ UNCHANGED <<offset, loaded, printed, next, offset0>> /\ pc = "detect" /\ pc' = "scan"
        /\ imgs' = NoReports
    BY <1>12 DEF ReallocFails
  <2>2. \A r \in Report : Count(r)' <= Count(r)
    BY <1>2, <2>1 DEF Count, NoReports
  <2>3. \A f \in Editor, q \in Pos : Behind(f, q) => Behind(f, q)'
    BY <2>1 DEF Behind
  <2>4. loaded' > 0
    BY <2>1 DEF DuplicatesInv
  <2>. QED BY <1>1, <2>1, <2>2, <2>3, <2>4, NothingReported
<1>13. CASE WindowDone
  <2>1. \A r \in Report : Count(r)' = Count(r)
    BY <1>2, <1>13 DEF WindowDone, Count, NoReports
  <2>2. next' = next /\ offset' = offset + loaded /\ loaded > 0 /\ pc = "scan" /\ pc' \in {"read", "searched"}
    BY <1>13 DEF WindowDone, DuplicatesInv
  <2>3. \A f \in Editor, q \in Pos : Behind(f, q) => Behind(f, q)'
    BY <1>3, <2>2 DEF Behind
  <2>. QED BY <1>1, <1>2, <2>1, <2>2, <2>3, NothingReported
<1>. QED BY <1>4, <1>5, <1>6, <1>7, <1>8, <1>9, <1>10, <1>11, <1>12, <1>13 DEF SearchNext

-----------------------------------------------------------------------------
(* Nothing is missed.                                                      *)

LEMMA StepType == Step \in Nat /\ Step >= 1
BY DEF Step

LEMMA NextMultiple ==
  ASSUME NEW k \in Nat
  PROVE  (k + 1) * Step = k * Step + Step /\ (k + 1) * Step >= k + 1 /\ k * Step \in Nat
<1>1. ASSUME NEW d \in Nat, d >= 1 PROVE (k + 1) * d = k * d + d /\ (k + 1) * d >= k + 1 /\ k * d \in Nat
  <2>1. k * d \in Nat /\ (k + 1) * d = k * d + d
    BY <1>1
  <2>2. k * (d - 1) >= 0
    BY <1>1
  <2>3. k * (d - 1) = k * d - k
    BY <1>1
  <2>. QED BY <1>1, <2>1, <2>2, <2>3
<1>. QED BY <1>1, StepType

(* A window that is full ends at a frontier, any other at the end of the   *)
(* file.                                                                   *)
LEMMA WindowEnds ==
  ASSUME SearchTypeOK, NEW k \in Nat, offset = k * Step, loaded = Loadable(offset)
  PROVE  /\ loaded = Window => offset + loaded = Frontier(k + 1) /\ k + 1 \in 1 .. FileLen
         /\ loaded # Window => offset + loaded = FileLen
<1>1. offset \in Nat /\ loaded <= Window /\ offset + loaded <= FileLen
  <2>1. offset \in Nat
    BY DEF SearchTypeOK
  <2>. QED BY <2>1, LoadableType
<1>2. loaded # Window => offset + loaded = FileLen
  <2>1. Loadable(offset) < Window => offset + Loadable(offset) = FileLen
    BY <1>1, LoadableType
  <2>2. loaded \in Int
    BY <1>1, LoadableType
  <2>. QED BY <1>1, <2>1, <2>2
<1>3. Frontier(k + 1) = (k + 1) * Step + ReadBack
  BY DEF Frontier, Step
<1>4. Window = Step + ReadBack
  BY DEF Step
<1>5. ASSUME loaded = Window PROVE offset + loaded = Frontier(k + 1) /\ k + 1 \in 1 .. FileLen
  <2>1. offset + loaded = Frontier(k + 1)
    BY <1>3, <1>4, <1>5, NextMultiple, StepType
  <2>2. k + 1 <= FileLen
    BY <1>1, <1>3, <2>1, NextMultiple, StepType
  <2>. QED BY <2>1, <2>2
<1>. QED BY <1>2, <1>5

(* A magic that no two windows share is in the window it begins in.        *)
LEMMA WholeInWindow ==
  ASSUME SearchTypeOK, NEW k \in Nat, offset = k * Step, loaded = Loadable(offset),
         NEW e \in Editor, NEW p \in Pos, p \in hits[e], ~Straddles(e, p), p < offset + loaded
  PROVE  p + MagicSz[e] <= offset + loaded
<1>1. p + MagicSz[e] <= FileLen /\ p + MagicSz[e] \in Nat /\ offset + loaded \in Nat /\ p \in Nat
  BY DEF SearchTypeOK, Pos
<1>2. CASE loaded = Window
  <2>1. ~(p < Frontier(k + 1) /\ Frontier(k + 1) < p + MagicSz[e])
    BY <1>2, WindowEnds DEF Straddles
  <2>. QED BY <1>1, <1>2, <2>1, WindowEnds
<1>3. CASE loaded # Window
  BY <1>1, <1>3, WindowEnds
<1>. QED BY <1>2, <1>3

(* Before the first match in a window every magic has been searched for    *)
(* already.                                                                *)
LEMMA SearchLeavesNoGap ==
  ASSUME SearchTypeOK, NEW k \in Nat, offset = k * Step, loaded = Loadable(offset),
         NEW e \in Editor, offset > 0 => offset <= next[e],
         NEW p \in Pos, Due(e, p), next[e] <= p, p < offset + loaded
  PROVE  p \in InWindow(e)
<1>1. p + MagicSz[e] <= offset + loaded
  BY WholeInWindow DEF Due
<1>2. SearchFrom(e) <= p
  BY DEF SearchFrom, SearchTypeOK, Pos
<1>. QED BY <1>1, <1>2 DEF InWindow, Due
(* A step within a window keeps what holds of an editor that it leaves     *)
(* alone.                                                                  *)
LEMMA EditorLeftAlone ==
  ASSUME NEW e \in Editor, EditorInv(e), Scanning, Scanning',
         UNCHANGED <<hits, start, offset, loaded>>, next'[e] = next[e],
         \A p \in Pos : Answered(e, p) \/ InProbe(e, p) => Answered(e, p)' \/ InProbe(e, p)',
         ~ready' /\ e < cur' => offset + loaded <= next[e]
  PROVE  EditorInv(e)'
<1>1. \A p \in Pos : Due(e, p)' = Due(e, p)
  BY DEF Due, HeaderFits
<1>. QED BY <1>1 DEF EditorInv, Searching

(* What a step of the search leaves as it is.                              *)
LEMMA SearchFrame == SearchNext => UNCHANGED <<hits, start>> /\ pc # "searched"
BY DEF SearchNext, ReadWindow, ReadFails, SkipEditor, NotFound, MatchTooShort, Match, MatchMbr,
       Probe, DetectRefuses, DetectAccepts, ReallocFails, WalkAgain, WindowDone, file

LEMMA FailuresGrow == ASSUME SearchTypeOK, SearchNext PROVE failures <= failures'
<1>. USE DEF SearchTypeOK
<1>1. CASE ReadWindow \/ SkipEditor \/ NotFound \/ MatchTooShort
  BY <1>1 DEF ReadWindow, SkipEditor, NotFound, MatchTooShort
<1>2. CASE Match \/ MatchMbr
  BY <1>2 DEF Match, MatchMbr, Probe
<1>3. CASE DetectRefuses \/ DetectAccepts \/ WalkAgain \/ WindowDone
  BY <1>3 DEF DetectRefuses, DetectAccepts, WalkAgain, WindowDone
<1>4. CASE ReadFails \/ ReallocFails
  BY <1>4 DEF ReadFails, ReallocFails
<1>. QED BY <1>1, <1>2, <1>3, <1>4 DEF SearchNext

(* A probe is made at the place of its match.                              *)
LEMMA PlaceStep == ASSUME SearchTypeOK, start = 0, ProbedWhereFound, SearchNext PROVE ProbedWhereFound'
<1>1. CASE Match
  <2>1. PICK e \in Editor, p \in Pos : Match!(e, p)
    BY <1>1 DEF Match
  <2>2. ImgOffset(e, p) \in Int
    BY DEF ImgOffset, Pos
  <2>3. pc' = "detect" => probe' = [editor |-> e, pos |-> p, place |-> ImgOffset(e, p)]
    BY <2>1, <2>2 DEF Probe, WindowStart
  <2>. QED BY <2>3 DEF ProbedWhereFound, ImgOffset
<1>2. CASE MatchMbr
  BY <1>2 DEF MatchMbr, Probe, ProbedWhereFound
<1>3. CASE ~(Match \/ MatchMbr)
  <2>1. pc' # "detect"
    BY <1>3 DEF SearchNext, ReadWindow, ReadFails, SkipEditor, NotFound, MatchTooShort,
                DetectRefuses, DetectAccepts, ReallocFails, WalkAgain, WindowDone
  <2>. QED BY <2>1 DEF ProbedWhereFound
<1>. QED BY <1>1, <1>2, <1>3
(* A step within a window: what is left to show of it.                     *)
LEMMA WithinWindow ==
  ASSUME NothingMissed, Scanning, Scanning', UNCHANGED <<offset, loaded>>,
         (pc = "detect")' => ready' \/ probe'.editor = MBR,
         \A e \in Editor : MagicSz[e] > 0 /\ EditorInv(e) => EditorInv(e)'
  PROVE  NothingMissed'
<1>1. PlacesInv'
  BY DEF NothingMissed, PlacesInv, Scanning, Loadable
<1>2. pc' # "searched"
  BY DEF Scanning
<1>. QED BY <1>1, <1>2 DEF NothingMissed

(* Every step keeps that nothing is missed.                                *)
LEMMA NothingMissedStep ==
  ASSUME SearchTypeInv, DuplicatesInv, start = 0, failures = 0, failures' = 0, NothingMissed, SearchNext
  PROVE  NothingMissed'
<1>1. SearchTypeOK /\ SearchTypeOK' /\ UNCHANGED <<hits, start>>
  BY SearchTypeStep, SearchFrame DEF SearchTypeInv
<1>2. \A r \in Report : printed[r] \in Nat /\ imgs[r] \in Nat
  BY <1>1 DEF SearchTypeOK
<1>3. offset \in Nat /\ loaded \in Nat /\ next \in [Editor -> Nat] /\ cur \in Int
  BY <1>1 DEF SearchTypeOK
<1>4. \A e \in Editor : MagicSz[e] > 0 => EditorInv(e)
  BY DEF NothingMissed
<1>5. CASE ReadWindow
  <2>1. /\ offset' = SteppedBack /\ loaded' = Loadable(SteppedBack) /\ pc = "read" /\ pc' = "scan" /\ cur' = 1
        /\ imgs' = NoReports /\ UNCHANGED <<next, printed, refused>>
    BY <1>5 DEF ReadWindow
  <2>2. imgs = NoReports /\ (offset = 0 \/ \E k \in Nat : k > 0 /\ offset = Frontier(k))
    BY <2>1 DEF NothingMissed, PlacesInv
  <2>3. \E k \in Nat : offset' = k * Step
    <3>1. CASE offset = 0
      BY <2>1, <3>1, StepType DEF SteppedBack
    <3>2. ASSUME NEW k \in Nat, k > 0, offset = Frontier(k) PROVE offset' = k * Step
      <4>1. offset = k * Step + ReadBack
        BY <3>2 DEF Frontier, Step
      <4>2. k * Step > 0 /\ k * Step \in Nat
        BY <3>2, NextMultiple, StepType
      <4>. QED BY <2>1, <4>1, <4>2 DEF SteppedBack
    <3>. QED BY <2>2, <3>1, <3>2
  <2>4. PlacesInv'
    BY <2>1, <2>3 DEF PlacesInv, Scanning, Loadable
  <2>5. ASSUME NEW e \in Editor, MagicSz[e] > 0 PROVE EditorInv(e)'
    <3>1. offset' > 0 => offset' <= next'[e]
      BY <1>1, <1>3, <1>4, <2>1, <2>5, SteppedBackType DEF EditorInv, Searching, SteppedBack
    <3>2. ASSUME NEW p \in Pos, Due(e, p)', p < next'[e] PROVE Answered(e, p)'
      <4>1. Due(e, p)
        BY <1>1, <3>2 DEF Due, HeaderFits
      <4>2. Answered(e, p)
        BY <1>4, <2>1, <2>5, <3>2, <4>1 DEF EditorInv, Searching, InProbe
      <4>. QED BY <2>1, <2>2, <4>2 DEF Answered, Count
    <3>3. ~(e < cur')
      BY <2>1 DEF Editor
    <3>. QED BY <3>1, <3>2, <3>3 DEF EditorInv
  <2>. QED BY <2>1, <2>4, <2>5 DEF NothingMissed
<1>6. CASE ReadFails \/ ReallocFails
  BY <1>6 DEF ReadFails, ReallocFails
<1>7. CASE SkipEditor
  <2>1. PICK e \in Editor : SkipEditor!(e)
    BY <1>7 DEF SkipEditor
  <2>2. MagicSz[e] > 0 => offset + loaded <= next[e]
    BY <1>1, <1>3, <1>4, <2>1 DEF EditorInv, Searching, Scanning, Searched, SearchFrom, DuplicatesInv
  <2>3. ASSUME NEW f \in Editor, MagicSz[f] > 0, EditorInv(f) PROVE EditorInv(f)'
    <3>1. ~ready' => ~ready
      BY <2>1
    <3>2. f < cur' => f < cur \/ f = e
      BY <1>3, <2>1 DEF NextEditor, Editor
    <3>3. ~ready' /\ f < cur' => offset + loaded <= next[f]
      BY <2>1, <2>2, <2>3, <3>1, <3>2 DEF EditorInv, Scanning
    <3>4. \A p \in Pos : Answered(f, p) \/ InProbe(f, p) => Answered(f, p)' \/ InProbe(f, p)'
      BY <2>1 DEF Answered, InProbe, Count
    <3>. QED BY <1>1, <2>1, <2>3, <3>3, <3>4, EditorLeftAlone DEF Scanning
  <2>. QED BY <2>1, <2>3, WithinWindow DEF Scanning
<1>8. CASE NotFound
  <2>1. PICK e \in Editor : NotFound!(e)
    BY <1>8 DEF NotFound
  <2>2. PICK k \in Nat : loaded = Loadable(offset) /\ offset = k * Step
    BY <2>1 DEF NothingMissed, PlacesInv, Scanning
  <2>3. e # MBR /\ MagicSz[e] > 0 /\ next[e] <= offset + loaded /\ next'[e] = offset + loaded
    BY <1>1, <1>3, <2>1, SearchGoesOn DEF Searched
  <2>4. EditorInv(e)'
    <3>1. EditorInv(e)
      BY <1>4, <2>3
    <3>2. offset <= next'[e]
      BY <1>3, <2>3
    <3>3. ASSUME NEW p \in Pos, Due(e, p)', p < next'[e] PROVE Answered(e, p)' \/ InProbe(e, p)'
      <4>1. Due(e, p)
        BY <1>1, <3>3 DEF Due, HeaderFits
      <4>2. p < next[e]
        BY <1>1, <1>3, <2>1, <2>2, <2>3, <3>1, <3>3, <4>1, SearchLeavesNoGap
           DEF EditorInv, Searching, Scanning, Pos
      <4>3. Answered(e, p)
        BY <2>1, <3>1, <4>1, <4>2 DEF EditorInv, Searching, Scanning, InProbe
      <4>. QED BY <2>1, <4>3 DEF Answered, Count
    <3>4. offset' + loaded' <= next'[e]
      BY <1>3, <2>1, <2>3
    <3>. QED BY <2>1, <3>2, <3>3, <3>4 DEF EditorInv
  <2>5. ASSUME NEW f \in Editor, MagicSz[f] > 0, EditorInv(f) PROVE EditorInv(f)'
    <3>1. CASE f = e
      BY <2>4, <3>1
    <3>2. CASE f # e
      <4>1. ~ready' => ~ready
        BY <2>1
      <4>2. f < cur' => f < cur
        BY <1>3, <2>1, <3>2 DEF NextEditor, Editor
      <4>3. ~ready' /\ f < cur' => offset + loaded <= next[f]
        BY <2>1, <2>5, <4>1, <4>2 DEF EditorInv, Scanning
      <4>4. \A p \in Pos : Answered(f, p) \/ InProbe(f, p) => Answered(f, p)' \/ InProbe(f, p)'
        BY <2>1 DEF Answered, InProbe, Count
      <4>5. next'[f] = next[f]
        BY <1>3, <2>1, <3>2
      <4>. QED BY <1>1, <2>1, <2>5, <4>3, <4>4, <4>5, EditorLeftAlone DEF Scanning
    <3>. QED BY <3>1, <3>2
  <2>. QED BY <2>1, <2>5, WithinWindow DEF Scanning
<1>9. CASE MatchTooShort \/ Match
  <2>1. PICK e \in Editor, p \in Pos :
          /\ pc = "scan" /\ Searched(e) /\ FirstMatch(e, p)
          /\ next' = [next EXCEPT ![e] = p + 1] /\ ready'
          /\ UNCHANGED <<offset, loaded, imgs, printed, refused>>
          /\ \/ pc' = "scan" /\ ~HeaderFits(e, p)
             \/ pc' = "detect" /\ Probed' = <<e, p>>
    <3>1. CASE MatchTooShort
      BY <3>1 DEF MatchTooShort
    <3>2. CASE Match
      <4>1. PICK e \in Editor, p \in Pos : Match!(e, p)
        BY <3>2 DEF Match
      <4>2. pc' = "detect" /\ Probed' = <<e, p>>
        BY <4>1, <1>1 DEF Probe, Probed, SearchTypeOK
      <4>. QED BY <4>1, <4>2 DEF Probe
    <3>. QED BY <1>9, <3>1, <3>2
  <2>2. PICK k \in Nat : loaded = Loadable(offset) /\ offset = k * Step
    BY <2>1 DEF NothingMissed, PlacesInv, Scanning
  <2>3. /\ MagicSz[e] > 0 /\ next[e] <= p /\ p < offset + loaded /\ p \in Nat /\ next[e] \in Nat
        /\ next'[e] = p + 1
    BY <1>1, <1>3, <2>1, SearchGoesOn DEF FirstMatch, InWindow, Searched, Pos
  <2>4. EditorInv(e)'
    <3>1. EditorInv(e)
      BY <1>4, <2>3
    <3>2. offset > 0 => offset <= next'[e]
      BY <1>3, <2>1, <2>3, <3>1 DEF EditorInv, Searching, Scanning
    <3>3. ASSUME NEW q \in Pos, Due(e, q)', q < next'[e] PROVE Answered(e, q)' \/ InProbe(e, q)'
      <4>1. Due(e, q) /\ q \in Nat
        BY <1>1, <3>3 DEF Due, HeaderFits, Pos
      <4>2. CASE q < next[e]
        <5>1. Answered(e, q)
          BY <2>1, <3>1, <4>1, <4>2 DEF EditorInv, Searching, Scanning, InProbe
        <5>. QED BY <2>1, <5>1 DEF Answered, Count
      <4>3. CASE q >= next[e]
        <5>1. q \in InWindow(e)
          BY <1>1, <1>3, <2>1, <2>2, <2>3, <3>1, <3>3, <4>1, <4>3, SearchLeavesNoGap
             DEF EditorInv, Searching, Scanning
        <5>2. q = p
          BY <2>1, <2>3, <3>3, <4>1, <5>1 DEF FirstMatch
        <5>. QED BY <2>1, <4>1, <5>2 DEF Due, InProbe
      <4>. QED BY <2>3, <4>1, <4>2, <4>3
    <3>. QED BY <2>1, <3>2, <3>3 DEF EditorInv
  <2>5. ASSUME NEW f \in Editor, MagicSz[f] > 0, EditorInv(f) PROVE EditorInv(f)'
    <3>1. CASE f = e
      BY <2>4, <3>1
    <3>2. CASE f # e
      <4>1. \A q \in Pos : Answered(f, q) \/ InProbe(f, q) => Answered(f, q)' \/ InProbe(f, q)'
        BY <2>1 DEF Answered, InProbe, Count
      <4>2. next'[f] = next[f]
        BY <1>3, <2>1, <3>2
      <4>. QED BY <1>1, <2>1, <2>5, <4>1, <4>2, EditorLeftAlone DEF Scanning
    <3>. QED BY <3>1, <3>2
  <2>. QED BY <2>1, <2>5, WithinWindow DEF Scanning
<1>10. CASE MatchMbr
  <2>1. /\ pc = "scan" /\ UNCHANGED <<offset, loaded, next, ready, imgs, printed, refused, cur>>
        /\ pc' = "detect" /\ probe'.editor = MBR
    BY <1>1, <1>10 DEF MatchMbr, Probe, SearchTypeOK
  <2>2. ASSUME NEW f \in Editor, MagicSz[f] > 0, EditorInv(f) PROVE EditorInv(f)'
    <3>1. \A q \in Pos : Answered(f, q) \/ InProbe(f, q) => Answered(f, q)' \/ InProbe(f, q)'
      BY <2>1 DEF Answered, InProbe, Count
    <3>2. ~ready' /\ f < cur' => offset + loaded <= next[f]
      BY <2>1, <2>2 DEF EditorInv, Scanning
    <3>. QED BY <1>1, <2>1, <2>2, <3>1, <3>2, EditorLeftAlone DEF Scanning
  <2>. QED BY <2>1, <2>2, WithinWindow DEF Scanning
<1>11. CASE DetectRefuses \/ DetectAccepts
  <2>1. /\ pc = "detect" /\ pc' = "scan" /\ cur = probe.editor /\ cur' = cur + 1
        /\ UNCHANGED <<offset, loaded, next, ready, printed>>
    BY <1>11 DEF DetectRefuses, DetectAccepts, NextEditor, SearchTypeInv
  <2>2. Probed \in Report
    BY <1>1, ProbedType
  <2>3. \A r \in Report : Count(r) # 0 \/ r \in refused \/ r = Probed =>
          printed'[r] + imgs'[r] # 0 \/ r \in refused'
    <3>1. CASE DetectRefuses
      BY <3>1 DEF DetectRefuses, Count
    <3>2. CASE DetectAccepts
      <4>1. /\ imgs' = [imgs EXCEPT ![Probed] = @ + 1] /\ printed' = printed /\ refused' = refused
        BY <3>2 DEF DetectAccepts
      <4>2. imgs'[Probed] = imgs[Probed] + 1 /\ \A r \in Report : r # Probed => imgs'[r] = imgs[r]
        BY <1>1, <2>2, <4>1 DEF SearchTypeOK
      <4>. QED BY <1>2, <2>2, <4>1, <4>2 DEF Count
    <3>. QED BY <1>11, <3>1, <3>2
  <2>4. ASSUME NEW f \in Editor, MagicSz[f] > 0, EditorInv(f) PROVE EditorInv(f)'
    <3>1. \A q \in Pos : Answered(f, q) \/ InProbe(f, q) => Answered(f, q)'
      BY <2>3, ReportType DEF Answered, InProbe, Count
    <3>2. ~ready' => ~ready /\ cur = MBR /\ f # cur
      BY <2>1, <2>4 DEF NothingMissed
    <3>3. f # cur /\ f < cur' => f < cur
      <4>1. cur \in Int /\ cur' = cur + 1 /\ f \in Int
        BY <1>1, <2>1 DEF Editor, SearchTypeOK
      <4>. HIDE <1>3
      <4>. QED BY <4>1
    <3>4. ~ready' /\ f < cur' => offset + loaded <= next[f]
      BY <2>1, <2>4, <3>2, <3>3 DEF EditorInv, Scanning
    <3>. QED BY <1>1, <2>1, <2>4, <3>1, <3>4, EditorLeftAlone DEF Scanning
  <2>. QED BY <2>1, <2>4, WithinWindow DEF Scanning
<1>12. CASE WalkAgain
  <2>1. /\ pc = "scan" /\ pc' = "scan" /\ cur' = 1
        /\ UNCHANGED <<offset, loaded, next, probe, imgs, printed, refused>>
    BY <1>12 DEF WalkAgain
  <2>2. ASSUME NEW f \in Editor, MagicSz[f] > 0, EditorInv(f) PROVE EditorInv(f)'
    <3>1. \A q \in Pos : Answered(f, q) \/ InProbe(f, q) => Answered(f, q)' \/ InProbe(f, q)'
      BY <2>1 DEF Answered, InProbe, Count
    <3>2. ~(f < cur')
      BY <2>1 DEF Editor
    <3>. QED BY <1>1, <2>1, <2>2, <3>1, <3>2, EditorLeftAlone DEF Scanning
  <2>. QED BY <2>1, <2>2, WithinWindow DEF Scanning
<1>13. CASE WindowDone
  <2>1. /\ pc = "scan" /\ cur = NEditors + 1 /\ ~ready
        /\ printed' = [r \in Report |-> printed[r] + imgs[r]] /\ imgs' = NoReports
        /\ offset' = offset + loaded /\ pc' = IF loaded = Window THEN "read" ELSE "searched"
        /\ UNCHANGED <<next, refused>>
    BY <1>13 DEF WindowDone
  <2>2. PICK k \in Nat : loaded = Loadable(offset) /\ offset = k * Step
    BY <2>1 DEF NothingMissed, PlacesInv, Scanning
  <2>3. \A e \in Editor : MagicSz[e] > 0 => offset + loaded <= next[e]
    BY <1>4, <2>1 DEF EditorInv, Scanning, Editor
  <2>4. ASSUME NEW e \in Editor, MagicSz[e] > 0, NEW p \in Pos, Due(e, p), p < next[e] PROVE Answered(e, p)
    BY <1>4, <2>1, <2>4 DEF EditorInv, Searching, Scanning, InProbe
  <2>5. \A r \in Report : printed[r] + imgs[r] # 0 => printed'[r] # 0 /\ printed'[r] + imgs'[r] # 0
    BY <1>2, <2>1 DEF NoReports
  <2>6. CASE loaded = Window
    <3>1. offset' = Frontier(k + 1) /\ k + 1 \in Nat /\ k + 1 > 0
      BY <1>1, <2>1, <2>2, <2>6, WindowEnds
    <3>2. PlacesInv'
      BY <2>1, <2>6, <3>1 DEF PlacesInv, Scanning
    <3>3. ASSUME NEW e \in Editor, MagicSz[e] > 0 PROVE EditorInv(e)'
      <4>1. ASSUME NEW p \in Pos, Due(e, p)', p < next'[e] PROVE Answered(e, p)'
        <5>1. Due(e, p)
          BY <1>1, <4>1 DEF Due, HeaderFits
        <5>2. Answered(e, p)
          BY <2>1, <2>4, <3>3, <4>1, <5>1
        <5>. QED BY <2>1, <2>5, <5>2, ReportType DEF Answered, Count
      <4>2. offset' <= next'[e]
        BY <2>1, <2>3, <3>3
      <4>. QED BY <2>1, <2>6, <4>1, <4>2 DEF EditorInv, Scanning
    <3>. QED BY <2>1, <2>6, <3>2, <3>3 DEF NothingMissed
  <2>7. CASE loaded # Window
    <3>1. offset + loaded = FileLen
      BY <1>1, <2>2, <2>7, WindowEnds
    <3>2. ASSUME NEW e \in Editor, NEW p \in Pos, MagicSz[e] > 0, Due(e, p)' PROVE Decided(e, p)'
      <4>1. Due(e, p) /\ p \in Nat
        BY <1>1, <3>2 DEF Due, HeaderFits, Pos
      <4>2. p < FileLen
        BY <1>1, <3>2, <4>1 DEF Due, SearchTypeOK
      <4>3. p < next[e]
        BY <1>3, <2>3, <3>1, <3>2, <4>1, <4>2
      <4>4. Answered(e, p)
        BY <2>4, <3>2, <4>1, <4>3
      <4>. QED BY <2>1, <2>5, <4>4, ReportType DEF Answered, Decided, Count
    <3>3. PlacesInv' /\ \A e \in Editor : EditorInv(e)'
      BY <2>1, <2>7 DEF PlacesInv, EditorInv, Searching, Scanning
    <3>. QED BY <2>1, <2>7, <3>2, <3>3 DEF NothingMissed
  <2>. QED BY <2>6, <2>7
<1>. QED BY <1>5, <1>6, <1>7, <1>8, <1>9, <1>10, <1>11, <1>12, <1>13 DEF SearchNext

(* Every step of the search keeps what it has found.                       *)
LEMMA FoundStep == ASSUME SearchTypeInv, DuplicatesInv, FoundInv, SearchNext PROVE FoundInv'
<1>. SUFFICES ASSUME start' = 0
              PROVE  ProbedWhereFound' /\ (failures' = 0 => NothingMissed')
  BY DEF FoundInv
<1>1. SearchTypeOK /\ SearchTypeOK' /\ start = 0
  BY SearchTypeStep, SearchFrame DEF SearchTypeInv
<1>2. ProbedWhereFound'
  BY <1>1, PlaceStep DEF FoundInv
<1>3. failures' = 0 => failures = 0
  BY <1>1, FailuresGrow DEF SearchTypeOK
<1>. QED BY <1>1, <1>2, <1>3, NothingMissedStep DEF FoundInv

-----------------------------------------------------------------------------
(* The commands.                                                           *)
USE MainAssumption

SearchStages == {"read", "scan", "detect", "searched"}

(* The types, with the editor of an action.                                *)
TypeInv == TypeOK /\ SearchTypeInv /\ (pc \in {"found", "act"} => editor \in Editor)

-----------------------------------------------------------------------------
(* The types of what the guards and the actions use.                       *)

LEMMA SessionType ==
  TypeOK => /\ session.hits \in HitSets /\ session.commands \in Nat
            /\ session.auto \subseteq Editor /\ session.forced \subseteq Editor
BY DEF TypeOK

LEMMA OffsetType == TypeOK => Offset \in Starts
<1>. SUFFICES ASSUME TypeOK PROVE Offset \in Starts
  OBVIOUS
<1>1. request.at \subseteq Starts
  <2>1. session \in Sessions /\ (request \in session.requests \/ request = NoRequest)
    BY DEF TypeOK
  <2>2. NoRequest.at = {}
    BY DEF NoRequest, Request
  <2>. QED BY <2>1, <2>2
<1>2. \E o \in request.at \cup {0} : request.at # {} => o \in request.at
  OBVIOUS
<1>3. Offset \in request.at \cup {0}
  BY <1>2 DEF Offset
<1>. QED BY <1>1, <1>3

LEMMA WindowsType == TypeOK => Windows \subseteq Starts
BY OffsetType DEF TypeOK, Windows

LEMMA EditorsAreStatuses == Editor \subseteq 0 .. NEditors /\ Editor \subseteq 0 .. UNKNOWN /\ NOBODY \in 0 .. NEditors
BY DEF Editor, UNKNOWN, NOBODY

(* What a search begins with, and a command that does not search.          *)
LEMMA SearchFromStartType ==
  ASSUME NEW o \in Starts, SearchFromStart(o)
  PROVE  /\ start' \in Starts /\ offset' \in Nat /\ loaded' \in 0 .. Window
         /\ cur' \in 1 .. NEditors + 1 /\ ready' \in BOOLEAN /\ offset0' \in BOOLEAN
         /\ next' \in [Editor -> Nat]
         /\ probe' \in [editor : Editor, pos : Pos, place : Int]
         /\ imgs' \in [Report -> Nat] /\ printed' \in [Report -> Nat]
         /\ refused' \subseteq Report
<1>1. NoProbe \in [editor : Editor, pos : Pos, place : Int]
  BY DEF NoProbe, Pos
<1>2. o \in Nat
  OBVIOUS
<1>3. ready' \in BOOLEAN /\ offset0' \in BOOLEAN
  BY Zenon DEF SearchFromStart
<1>. QED BY <1>1, <1>2, <1>3, NoReportsType DEF SearchFromStart

LEMMA CommandSearchType ==
  ASSUME TypeOK, hits' = hits, start' \in Starts, cur' \in 1 .. NEditors + 1,
         failures' \in 0 .. MaxFailures,
         \/ UNCHANGED <<next, probe, imgs, printed, refused, offset, loaded, ready, offset0>>
         \/ \E o \in Starts : SearchFromStart(o)
  PROVE  SearchTypeOK'
<1>1. CASE UNCHANGED <<next, probe, imgs, printed, refused, offset, loaded, ready, offset0>>
  BY <1>1 DEF TypeOK, SearchTypeOK
<1>2. ASSUME NEW o \in Starts, SearchFromStart(o) PROVE SearchTypeOK'
  BY <1>2, SearchFromStartType DEF TypeOK, SearchTypeOK
<1>. QED BY <1>1, <1>2

-----------------------------------------------------------------------------
(* Every step keeps the types.                                             *)

LEMMA SessionStep ==
  ASSUME TypeInv, Next
  PROVE  session' \in Sessions /\ commands' \in 0 .. session'.commands /\ request' \in session'.requests \cup {NoRequest}
<1>1. CASE Begin
  <2>1. session' = session /\ commands' = commands - 1 /\ commands > 0 /\ request' \in session.requests
    BY <1>1 DEF Begin
  <2>. QED BY <2>1, SessionType DEF TypeInv, TypeOK
<1>2. CASE ~Begin
  <2>1. UNCHANGED <<session, commands, request>>
    <3>1. CASE OptionsEnd \/ ListPlugins \/ Search \/ SearchStep \/ SearchReturns \/ ChooseMain \/ OpenImage
      BY <3>1 DEF OptionsEnd, ListPlugins, Search, SearchStep, SearchReturns, ChooseMain, OpenImage, mainVars
    <3>2. CASE DetectTried \/ NobodyDetects \/ Found \/ ChoosePack
      BY <3>2 DEF DetectTried, NobodyDetects, Found, ChoosePack, mainVars
    <3>3. CASE ActSimply \/ ActPeek \/ ActUnpack
      BY <3>3 DEF ActSimply, ActPeek, ActUnpack, ActFrame
    <3>4. CASE PluginDies \/ ExitEditors \/ FreeGd
      BY <3>4 DEF PluginDies, ExitEditors, FreeGd, mainVars
    <3>. QED BY <1>2, <3>1, <3>2, <3>3, <3>4 DEF Next
  <2>. QED BY <2>1 DEF TypeInv, TypeOK
<1>. QED BY <1>1, <1>2

LEMMA StageStep ==
  ASSUME TypeInv, Next
  PROVE  pc' \in Stages /\ opened' \in BOOLEAN /\ ret' \in {0, -1}
<1>. USE DEF TypeInv, TypeOK
<1>1. CASE Begin \/ OptionsEnd \/ ListPlugins \/ Search \/ SearchReturns
  BY <1>1 DEF Stages, Begin, OptionsEnd, ListPlugins, Search, SearchReturns, Leaves, RetOfOptions
<1>2. CASE SearchStep
  BY <1>2 DEF Stages, SearchStep, mainVars, process, SearchNext, ReadWindow, ReadFails, SkipEditor, NotFound,
              MatchTooShort, Match, MatchMbr, Probe, DetectRefuses, DetectAccepts, ReallocFails, WalkAgain,
              WindowDone
<1>3. CASE ChooseMain \/ OpenImage \/ ChoosePack
  BY <1>3 DEF Stages, ChooseMain, OpenImage, ChoosePack, Leaves, RetOfOptions
<1>7. CASE NobodyDetects \/ Found
  BY <1>7 DEF Stages, NobodyDetects, Found, mainVars, process
<1>4. CASE DetectTried
  BY <1>4 DEF Stages, DetectTried, Refused
<1>5. CASE ActSimply \/ ActPeek \/ ActUnpack
  BY <1>5 DEF Stages, ActSimply, ActPeek, ActUnpack, ActFrame, Answers, Skips
<1>6. CASE PluginDies \/ ExitEditors \/ FreeGd
  BY <1>6 DEF Stages, PluginDies, ExitEditors, FreeGd, Leaves, mainVars, process
<1>. QED BY <1>1, <1>2, <1>3, <1>4, <1>5, <1>6, <1>7 DEF Next

LEMMA EditorStep ==
  ASSUME TypeInv, Next
  PROVE  editor' \in 0 .. UNKNOWN /\ (pc' \in {"found", "act"} => editor' \in Editor)
<1>. USE EditorsAreStatuses DEF TypeInv, TypeOK
<1>1. CASE Begin
  BY <1>1 DEF Begin, UNKNOWN, NOBODY
<1>2. CASE SearchStep
  BY <1>2 DEF SearchStep, mainVars, process, SearchNext, ReadWindow, ReadFails, SkipEditor, NotFound,
              MatchTooShort, Match, MatchMbr, Probe, DetectRefuses, DetectAccepts, ReallocFails, WalkAgain,
              WindowDone
<1>3. CASE OptionsEnd \/ ListPlugins \/ Search \/ SearchReturns \/ OpenImage \/ NobodyDetects \/ ExitEditors \/ FreeGd
  BY <1>3 DEF OptionsEnd, ListPlugins, Search, SearchReturns, OpenImage, NobodyDetects, ExitEditors, FreeGd,
              Leaves, mainVars, process
<1>4. CASE ChooseMain \/ ChoosePack \/ DetectTried
  BY <1>4 DEF ChooseMain, ChoosePack, DetectTried, Leaves, Refused, Known, Asked
<1>5. CASE Found
  BY <1>5 DEF Found, mainVars, process
<1>6. CASE ActSimply \/ ActPeek \/ ActUnpack
  BY <1>6 DEF ActSimply, ActPeek, ActUnpack, ActFrame, Answers, Skips
<1>7. CASE PluginDies
  BY <1>7 DEF PluginDies, Leaves
<1>. QED BY <1>1, <1>2, <1>3, <1>4, <1>5, <1>6, <1>7 DEF Next

LEMMA RanStep ==
  ASSUME TypeInv, Next
  PROVE  /\ ran' \in [by : 0 .. NEditors, ok : BOOLEAN]
         /\ dump' \in [marker : 0 .. NEditors, by : 0 .. NEditors, failed : BOOLEAN, whole : SUBSET Editor]
<1>. USE EditorsAreStatuses DEF TypeInv, TypeOK
<1>1. CASE Begin
  BY <1>1 DEF Begin, Nobody
<1>2. CASE ActSimply \/ ActPeek
  <2>1. /\ dump' = dump /\ editor \in Editor
        /\ ran' = ran \/ \E ok \in BOOLEAN : ran' = [by |-> editor, ok |-> ok]
    BY <1>2 DEF ActSimply, ActPeek, Acting, Answers, Skips
  <2>. QED BY <2>1
<1>3. CASE ActUnpack
  <2>1. editor \in Editor
    BY <1>3 DEF ActUnpack, Acting
  <2>2. CASE Skips
    BY <2>2 DEF Skips
  <2>3. ASSUME NEW ok \in BOOLEAN, NEW marked \in BOOLEAN, Answers(ok),
               dump' = IF ~Has(editor, "MULTI_BIN") THEN dump
                       ELSE [marker |-> IF marked THEN MarkerAfter(ok) ELSE dump.marker,
                             by |-> editor, failed |-> ~(ok /\ marked),
                             whole |-> IF ok THEN dump.whole \cup {editor} ELSE dump.whole]
        PROVE  /\ ran' \in [by : 0 .. NEditors, ok : BOOLEAN]
               /\ dump' \in [marker : 0 .. NEditors, by : 0 .. NEditors, failed : BOOLEAN, whole : SUBSET Editor]
    <3>1. ran' \in [by : 0 .. NEditors, ok : BOOLEAN]
      BY <2>1, <2>3 DEF Answers
    <3>2. (IF marked THEN MarkerAfter(ok) ELSE dump.marker) \in 0 .. NEditors
      BY <2>1 DEF MarkerAfter
    <3>3. (IF ok THEN dump.whole \cup {editor} ELSE dump.whole) \in SUBSET Editor
      <4>1. dump.whole \subseteq Editor
        OBVIOUS
      <4>2. dump.whole \cup {editor} \subseteq Editor
        BY <2>1, <4>1
      <4>. QED BY <4>1, <4>2
    <3>4. (~(ok /\ marked)) \in BOOLEAN
      BY Zenon
    <3> DEFINE whole == IF ok THEN dump.whole \cup {editor} ELSE dump.whole
               marker == IF marked THEN MarkerAfter(ok) ELSE dump.marker
               failed == ~(ok /\ marked)
    <3>5. marker \in 0 .. NEditors /\ whole \in SUBSET Editor /\ failed \in BOOLEAN /\ editor \in 0 .. NEditors
      BY <2>1, <3>2, <3>3, <3>4
    <3>6. dump' = dump \/ dump' = [marker |-> marker, by |-> editor, failed |-> failed, whole |-> whole]
      BY <2>3
    <3>. HIDE DEF whole, marker, failed
    <3>7. [marker |-> marker, by |-> editor, failed |-> failed, whole |-> whole]
            \in [marker : 0 .. NEditors, by : 0 .. NEditors, failed : BOOLEAN, whole : SUBSET Editor]
      BY <3>5
    <3>. QED BY <3>1, <3>6, <3>7
  <2>. QED BY <1>3, <2>2, <2>3 DEF ActUnpack
<1>4. CASE ~(Begin \/ ActSimply \/ ActPeek \/ ActUnpack)
  <2>1. UNCHANGED <<ran, dump>>
    BY <1>4 DEF Next, OptionsEnd, ListPlugins, Search, SearchStep, SearchReturns, ChooseMain, OpenImage,
                DetectTried, NobodyDetects, Found, ChoosePack, PluginDies, ExitEditors, FreeGd,
                mainVars, process
  <2>. QED BY <2>1
<1>. QED BY <1>1, <1>2, <1>3, <1>4

(* What a process leaves in its object is a window it had opened.          *)
LeftType == [there : BOOLEAN, slot : SUBSET Starts, exported : BOOLEAN]

LEMMA LeavesType ==
  ASSUME TypeOK, NEW status, NEW slot \in SUBSET Starts, NEW exported \in BOOLEAN, Leaves(status, slot, exported)
  PROVE  left' \in LeftType
<1> DEFINE s == IF gd.slot # {} THEN gd.slot ELSE slot
           x == gd.exported \/ exported
<1>1. gd.slot \in SUBSET Starts
  BY DEF TypeOK
<1>2. s \in SUBSET Starts
  BY <1>1
<1>3. x \in BOOLEAN
  BY Zenon
<1>4. left' = [there |-> TRUE, slot |-> s, exported |-> x]
  BY DEF Leaves
<1>. HIDE DEF s, x
<1>. QED BY <1>2, <1>3, <1>4 DEF LeftType

LEMMA LeftStep ==
  ASSUME TypeInv, Next
  PROVE  left' \in LeftType /\ gd' \in [reused : BOOLEAN, slot : SUBSET Starts, exported : BOOLEAN]
<1>1. left \in LeftType /\ gd \in [reused : BOOLEAN, slot : SUBSET Starts, exported : BOOLEAN] /\ TypeOK
  BY DEF TypeInv, TypeOK, LeftType
<1>2. {Offset} \in SUBSET Starts /\ {start} \in SUBSET Starts /\ {} \in SUBSET Starts
  BY <1>1, OffsetType DEF TypeOK, SearchTypeOK
<1>3. CASE Begin
  <2>1. left' = left /\ Setup
    BY <1>3 DEF Begin
  <2>2. left.slot \in SUBSET Starts /\ left.exported \in BOOLEAN
    BY <1>1, Zenon DEF LeftType
  <2>3. [reused |-> TRUE, slot |-> left.slot, exported |-> left.exported]
          \in [reused : BOOLEAN, slot : SUBSET Starts, exported : BOOLEAN]
    BY <2>2
  <2>4. Clean \in [reused : BOOLEAN, slot : SUBSET Starts, exported : BOOLEAN]
    BY DEF Clean
  <2>5. gd' = Clean \/ gd' = [reused |-> TRUE, slot |-> left.slot, exported |-> left.exported]
    BY <2>1 DEF Setup
  <2>. QED BY <1>1, <2>1, <2>3, <2>4, <2>5
<1>4. CASE FreeGd
  BY <1>1, <1>4 DEF FreeGd, process, Nothing, LeftType
<1>5. CASE OptionsEnd \/ ChooseMain \/ OpenImage \/ ChoosePack \/ PluginDies
  <2>1. left' = left \/ \E status \in {0, -1}, slot \in SUBSET Starts, exported \in BOOLEAN : Leaves(status, slot, exported)
    <3>1. CASE OptionsEnd
      BY <1>2, <3>1 DEF OptionsEnd
    <3>2. CASE ChooseMain \/ ChoosePack
      BY <1>2, <3>2 DEF ChooseMain, ChoosePack
    <3>3. CASE OpenImage
      BY <1>2, <3>3 DEF OpenImage
    <3>4. CASE PluginDies
      <4>1. (IF opened THEN {start} ELSE {}) \in SUBSET Starts
        BY <1>2
      <4>. QED BY <3>4, <4>1 DEF PluginDies
    <3>. QED BY <1>5, <3>1, <3>2, <3>3, <3>4
  <2>2. gd' = gd
    BY <1>5 DEF OptionsEnd, ChooseMain, OpenImage, ChoosePack, PluginDies
  <2>. QED BY <1>1, <2>1, <2>2, LeavesType
<1>6. CASE ~(Begin \/ FreeGd \/ OptionsEnd \/ ChooseMain \/ OpenImage \/ ChoosePack \/ PluginDies)
  <2>1. UNCHANGED <<left, gd>>
    BY <1>6 DEF Next, ListPlugins, Search, SearchStep, SearchReturns, DetectTried, NobodyDetects, Found,
                ActSimply, ActPeek, ActUnpack, ActFrame, ExitEditors, mainVars, process
  <2>. QED BY <1>1, <2>1
<1>. QED BY <1>3, <1>4, <1>5, <1>6

(* A step outside the search begins one, or leaves what it has found.      *)
KeepsSearch ==
  /\ pc' \notin SearchStages
  /\ UNCHANGED <<next, probe, imgs, printed, refused, offset, loaded, ready, offset0>>
BeginsSearch == pc' \in {"read", "parsed"} /\ \E o \in Starts : SearchFromStart(o)

LEMMA CommandStep == ASSUME TypeInv, Next, ~SearchStep PROVE hits' = hits /\ (KeepsSearch \/ BeginsSearch)
<1>1. TypeOK /\ 0 \in Starts
  BY DEF TypeInv
<1>2. CASE Begin
  BY <1>1, <1>2 DEF Begin, BeginsSearch
<1>3. CASE Search
  <2>1. CASE (\E o \in Windows : SearchFromStart(o)) /\ pc' = "read"
    BY <1>1, <1>3, <2>1, WindowsType DEF Search, BeginsSearch
  <2>2. CASE pc' = "exit" /\ UNCHANGED <<start, walk, next, probe, imgs, printed, refused>>
    BY <1>3, <2>2 DEF Search, KeepsSearch, SearchStages, walk
  <2>. QED BY <1>3, <2>1, <2>2 DEF Search
<1>4. CASE OptionsEnd \/ ListPlugins \/ SearchReturns
  BY <1>4 DEF OptionsEnd, ListPlugins, SearchReturns, Leaves, KeepsSearch, SearchStages, file, walk
<1>5. CASE ChooseMain \/ OpenImage \/ ChoosePack
  BY <1>5 DEF ChooseMain, OpenImage, ChoosePack, Leaves, KeepsSearch, SearchStages, searching
<1>6. CASE DetectTried
  <2>1. pc = "auto"
    BY <1>6 DEF DetectTried, Asked
  <2>. QED BY <1>6, <2>1 DEF DetectTried, Refused, KeepsSearch, SearchStages, searching
<1>7. CASE NobodyDetects \/ Found
  BY <1>7 DEF NobodyDetects, Found, KeepsSearch, SearchStages, searching
<1>8. CASE ActSimply \/ ActPeek \/ ActUnpack
  BY <1>8 DEF ActSimply, ActPeek, ActUnpack, ActFrame, Answers, Skips, KeepsSearch, SearchStages, searching
<1>9. CASE PluginDies \/ ExitEditors \/ FreeGd
  BY <1>9 DEF PluginDies, ExitEditors, FreeGd, Leaves, KeepsSearch, SearchStages, searching
<1>. QED BY <1>2, <1>3, <1>4, <1>5, <1>6, <1>7, <1>8, <1>9 DEF Next

(* The window, the walk over the editors and the failures.                 *)
LEMMA WalkStep ==
  ASSUME TypeInv, Next, ~SearchStep
  PROVE  start' \in Starts /\ cur' \in 1 .. NEditors + 1 /\ failures' \in 0 .. MaxFailures
<1>1. TypeOK /\ SearchTypeOK /\ 0 \in Starts
  BY DEF TypeInv, TypeOK
<1>. USE DEF SearchTypeOK
<1>2. CASE Begin \/ Search
  <2>1. /\ (\E o \in Starts : SearchFromStart(o)) \/ UNCHANGED <<start, cur>>
        /\ failures' = failures \/ OpenFails
    BY <1>1, <1>2, WindowsType DEF Begin, Search, walk
  <2>. QED BY <1>1, <2>1 DEF SearchFromStart, OpenFails
<1>3. CASE OpenImage \/ ChoosePack
  <2>1. /\ start' = start \/ start' \in Windows
        /\ cur' = cur
        /\ failures' = failures \/ OpenFails
    BY <1>3 DEF OpenImage, ChoosePack
  <2>2. start' \in Starts
    BY <1>1, <2>1, WindowsType
  <2>3. failures' \in 0 .. MaxFailures
    BY <1>1, <2>1 DEF OpenFails
  <2>. QED BY <1>1, <2>1, <2>2, <2>3
<1>4. CASE DetectTried
  <2>1. cur' = cur \/ (cur \in Editor /\ NextEditor)
    BY <1>4 DEF DetectTried, Refused, Asked
  <2>2. UNCHANGED <<start, failures>>
    BY <1>4 DEF DetectTried
  <2>. QED BY <1>1, <2>1, <2>2, NextEditorType
<1>5. CASE ~(Begin \/ Search \/ OpenImage \/ ChoosePack \/ DetectTried)
  <2>1. CASE OptionsEnd \/ ListPlugins \/ SearchReturns \/ ChooseMain \/ NobodyDetects \/ Found
    BY <1>1, <2>1 DEF OptionsEnd, ListPlugins, SearchReturns, ChooseMain, NobodyDetects, Found, file, walk
  <2>2. CASE ActSimply \/ ActPeek \/ ActUnpack
    BY <1>1, <2>2 DEF ActSimply, ActPeek, ActUnpack, ActFrame
  <2>3. CASE PluginDies \/ ExitEditors \/ FreeGd
    BY <1>1, <2>3 DEF PluginDies, ExitEditors, FreeGd
  <2>. QED BY <1>5, <2>1, <2>2, <2>3 DEF Next
<1>. QED BY <1>2, <1>3, <1>4, <1>5

LEMMA TypeStep == ASSUME TypeInv, [Next]_vars PROVE TypeInv'
<1>1. CASE UNCHANGED vars
  <2>1. TypeOK' /\ SearchTypeInv'
    BY <1>1 DEF TypeInv, TypeOK, SearchTypeInv, SearchTypeOK, vars, searchVars, mainVars, process, file, walk,
                Known
  <2>. QED BY <1>1, <2>1 DEF TypeInv, vars, searchVars, mainVars, process
<1>2. CASE Next
  <2>1. SearchTypeOK' /\ SearchTypeInv'
    <3>1. CASE SearchStep
      <4>1. SearchTypeInv /\ SearchNext
        BY <3>1 DEF TypeInv, SearchStep
      <4>. QED BY <4>1, SearchTypeStep DEF SearchTypeInv
    <3>2. CASE ~SearchStep
      <4>1. TypeOK /\ hits' = hits /\ (KeepsSearch \/ BeginsSearch)
        BY <1>2, <3>2, CommandStep DEF TypeInv
      <4>2. SearchTypeOK'
        BY <1>2, <3>2, <4>1, WalkStep, CommandSearchType DEF KeepsSearch, BeginsSearch
      <4>3. pc' # "detect"
        BY <4>1 DEF KeepsSearch, BeginsSearch, SearchStages
      <4>. QED BY <4>2, <4>3 DEF SearchTypeInv
    <3>. QED BY <3>1, <3>2
  <2>. QED BY <1>2, <2>1, SessionStep, StageStep, EditorStep, RanStep, LeftStep DEF TypeInv, TypeOK, LeftType
<1>. QED BY <1>1, <1>2

LEMMA InitType == Init => TypeInv
<1>. SUFFICES ASSUME Init PROVE TypeInv
  OBVIOUS
<1>1. session \in Sessions /\ commands = session.commands /\ commands \in Nat /\ hits \in HitSets
  BY DEF Init
<1>2. NoProbe \in [editor : Editor, pos : Pos, place : Int]
  BY DEF NoProbe, Pos
<1>3. SearchTypeOK
  <2>1. ready \in BOOLEAN /\ offset0 \in BOOLEAN
    BY Zenon DEF Init
  <2>. QED BY <1>1, <1>2, <2>1, NoReportsType DEF Init, SearchTypeOK
<1>4. /\ pc \in Stages /\ request \in session.requests \cup {NoRequest} /\ editor \in 0 .. UNKNOWN
      /\ ret \in {0, -1}
  BY DEF Init, Stages, UNKNOWN, NOBODY
<1>9. opened \in BOOLEAN
  BY Zenon DEF Init
<1>5. ran \in [by : 0 .. NEditors, ok : BOOLEAN]
  BY EditorsAreStatuses DEF Init, Nobody
<1>6. dump \in [marker : 0 .. NEditors, by : 0 .. NEditors, failed : BOOLEAN, whole : SUBSET Editor]
  BY EditorsAreStatuses DEF Init
<1>7. left \in LeftType /\ gd \in [reused : BOOLEAN, slot : SUBSET Starts, exported : BOOLEAN]
  BY DEF Init, Nothing, Clean, LeftType
<1>8. pc = "ended"
  BY DEF Init
<1>. QED BY <1>1, <1>3, <1>4, <1>5, <1>6, <1>7, <1>8, <1>9 DEF TypeInv, TypeOK, SearchTypeInv, LeftType

(* Every variable of the search and of the commands keeps its range: no    *)
(* offset is negative, and the editor that acts, that a marker names and   *)
(* that a probe asks is one that is registered.                            *)
THEOREM TypeCorrect == Spec => []TypeOK
<1>1. TypeInv => TypeOK
  BY DEF TypeInv
<1>. QED BY <1>1, InitType, TypeStep, PTL DEF Spec

-----------------------------------------------------------------------------
(* What the search finds.                                                  *)

SearchInv == DuplicatesInv /\ FoundInv

LEMMA InitSearch == Init => SearchInv
<1>. SUFFICES ASSUME Init PROVE SearchInv
  OBVIOUS
<1>1. pc = "ended"
  BY DEF Init
<1>2. NoDuplicates
  BY DEF Init, NoDuplicates, NoReports
<1>. QED BY <1>1, <1>2 DEF SearchInv, DuplicatesInv, FoundInv, ProbedWhereFound, NothingMissed,
                           PlacesInv, EditorInv, Searching, Scanning

(* A search begins with nothing found and nothing to find behind it.       *)
LEMMA SearchBegins ==
  ASSUME TypeInv', BeginsSearch
  PROVE  DuplicatesInv' /\ FoundInv'
<1>1. PICK o \in Starts : SearchFromStart(o)
  BY DEF BeginsSearch
<1>2. /\ pc' \in {"read", "parsed"} /\ start' = o /\ offset' = o /\ imgs' = NoReports /\ printed' = NoReports
      /\ next' = [e \in Editor |-> 0]
  BY <1>1 DEF SearchFromStart, BeginsSearch
<1>3. \A r \in Report : printed'[r] + imgs'[r] = 0
  BY <1>2 DEF NoReports
<1>4. DuplicatesInv'
  BY <1>2, <1>3, ReportType DEF DuplicatesInv, NoDuplicates, Count, Scanning
<1>5. ASSUME start' = 0, NEW e \in Editor PROVE EditorInv(e)'
  BY <1>2, <1>5 DEF EditorInv, Scanning, Pos
<1>6. FoundInv'
  BY <1>2, <1>5 DEF FoundInv, ProbedWhereFound, NothingMissed, PlacesInv, Scanning
<1>. QED BY <1>4, <1>6

LEMMA SearchInvStep == ASSUME TypeInv, SearchInv, [Next]_vars PROVE SearchInv'
<1>1. CASE UNCHANGED vars
  <2>1. UNCHANGED <<hits, start, pc, offset, loaded, cur, ready, offset0, next, probe, imgs, printed, refused>>
    BY <1>1 DEF vars, searchVars, file, walk
  <2>2. UNCHANGED failures
    BY <1>1 DEF vars, searchVars
  <2>3. DuplicatesInv'
    BY <2>1 DEF SearchInv, DuplicatesInv, NoDuplicates, Count, Behind, Searching, Scanning, Probed
  <2>4. \A e \in Editor, p \in Pos : Due(e, p)' = Due(e, p) /\ Answered(e, p)' = Answered(e, p)
                                     /\ InProbe(e, p)' = InProbe(e, p) /\ Decided(e, p)' = Decided(e, p)
    BY <2>1 DEF Due, HeaderFits, Answered, Count, InProbe, Probed, Decided
  <2>5. \A e \in Editor : EditorInv(e) => EditorInv(e)'
    BY <2>1, <2>4 DEF EditorInv, Searching, Scanning
  <2>6. PlacesInv => PlacesInv'
    BY <2>1 DEF PlacesInv, Scanning, Loadable
  <2>7. NothingMissed => NothingMissed'
    BY <2>1, <2>4, <2>5, <2>6 DEF NothingMissed
  <2>8. FoundInv'
    BY <2>1, <2>2, <2>7 DEF SearchInv, FoundInv, ProbedWhereFound
  <2>. QED BY <2>3, <2>8 DEF SearchInv
<1>2. CASE SearchStep
  <2>1. SearchTypeInv /\ SearchNext /\ SearchTypeOK
    BY <1>2 DEF TypeInv, SearchStep, SearchTypeInv
  <2>. QED BY <2>1, DuplicatesStep, FoundStep DEF SearchInv
<1>3. CASE Next /\ ~SearchStep
  <2>1. CASE BeginsSearch
    BY <1>3, <2>1, TypeStep, SearchBegins DEF SearchInv
  <2>2. CASE KeepsSearch
    <3>1. NoDuplicates'
      BY <2>2 DEF KeepsSearch, SearchInv, DuplicatesInv, NoDuplicates
    <3>2. pc' \notin {"read", "scan", "detect", "searched"}
      BY <2>2 DEF KeepsSearch, SearchStages
    <3>. QED BY <3>1, <3>2 DEF SearchInv, DuplicatesInv, FoundInv, ProbedWhereFound, NothingMissed,
                                     PlacesInv, EditorInv, Searching, Scanning
  <2>. QED BY <1>3, <2>1, <2>2, CommandStep
<1>. QED BY <1>1, <1>2, <1>3

(* No image is printed twice, whatever the windows, the magics and what    *)
(* the editors answer (imgeditor_search_foreach).                          *)
THEOREM NothingPrintedTwice == Spec => []NoDuplicates
<1>1. SearchInv => NoDuplicates
  BY DEF SearchInv, DuplicatesInv
<1>2. TypeInv /\ SearchInv /\ [Next]_vars => TypeInv' /\ SearchInv'
  BY TypeStep, SearchInvStep
<1>. QED BY <1>1, <1>2, InitType, InitSearch, PTL DEF Spec

(* A search from the beginning asks each editor at the place of its magic, *)
(* and when no call has failed it leaves out no magic that lies between    *)
(* two frontiers: for any file length, window and read-back.               *)
THEOREM SearchMissesNothing == Spec => []FoundInPlace
<1>1. TypeInv /\ SearchInv => FoundInPlace
  <2>. SUFFICES ASSUME TypeInv, SearchInv, start = 0, pc = "searched", failures = 0, NEW e \in Editor, NEW p \in Pos,
                       MagicSz[e] > 0, p \in hits[e], ~Straddles(e, p), HeaderFits(e, p)
                PROVE  Settled(e, p)
    BY DEF FoundInPlace, SearchInv, FoundInv, Complete
  <2>1. printed[<<e, p>>] # 0 \/ <<e, p>> \in refused
    BY DEF SearchInv, FoundInv, NothingMissed, Due, Decided
  <2>2. printed[<<e, p>>] + imgs[<<e, p>>] <= 1 /\ printed[<<e, p>>] \in Nat /\ imgs[<<e, p>>] \in Nat
    BY ReportType DEF TypeInv, TypeOK, SearchTypeOK, SearchInv, DuplicatesInv, NoDuplicates
  <2>. QED BY <2>1, <2>2 DEF Settled
<1>2. TypeInv /\ SearchInv /\ [Next]_vars => TypeInv' /\ SearchInv'
  BY TypeStep, SearchInvStep
<1>. QED BY <1>1, <1>2, InitType, InitSearch, PTL DEF Spec

-----------------------------------------------------------------------------
(* Commands.  CommandExact is inductive with where a command stands: who   *)
(* may still turn out to be its editor, and what ret and the window are.   *)

Chosen(e) == e \in Editor /\ Rightful(e)
AtWindow == Image /\ gd.slot = {} => start = Offset

BeforeInv ==
  pc \in SearchStages \cup {"parsed", "auto", "found", "act"} => ran.by = NOBODY

StageInv ==
  /\ pc = "parsed" => cur = 1
  /\ pc \in SearchStages => request.do = "search"
  /\ pc \in {"auto", "found", "act"} => AtWindow /\ (ret = 0 => request.at # {})
  /\ pc = "auto" => Image /\ request.type # UNKNOWN /\ (~Known => \A f \in Recognisers : cur <= f)
  /\ pc = "found" => Image
  /\ pc \in {"found", "act"} => Chosen(editor)

EndInv ==
  pc \in {"exit", "free", "ended"} =>
    /\ ran.by # NOBODY => Chosen(ran.by) /\ (ret = 0 <=> ran.ok) /\ AtWindow
    /\ ran.by = NOBODY /\ ret = 0 => request.at # {} \/ request.do \in {"", "help", "list-plugin", "search"}

DumpInv ==
  /\ dump.by = NOBODY \/ dump.failed \/ dump.marker = dump.by
  /\ dump.marker \in dump.whole \cup {NOBODY}

CommandInv == BeforeInv /\ StageInv /\ EndInv /\ DumpInv

LEMMA InitCommand == Init => CommandInv
<1>. SUFFICES ASSUME Init PROVE CommandInv
  OBVIOUS
<1>1. pc = "ended" /\ ran.by = NOBODY
  BY DEF Init, Nobody
<1>2. request.do = ""
  BY DEF Init, NoRequest, Request
<1>3. dump.by = NOBODY /\ dump.marker = NOBODY
  BY DEF Init
<1>. QED BY <1>1, <1>2, <1>3 DEF CommandInv, BeforeInv, StageInv, EndInv, DumpInv, SearchStages

(* The command, the image and the window are what the choice of an editor  *)
(* rests on; for a pack without a type, the marker.                        *)
LEMMA ChoiceKept ==
  ASSUME UNCHANGED <<request, session, start, gd>>, request.do = "pack" => dump.marker' = dump.marker
  PROVE  /\ \A e : Chosen(e)' <=> Chosen(e)
         /\ Recognisers' = Recognisers /\ (AtWindow' <=> AtWindow)
<1>1. Recognisers' = Recognisers
  BY DEF Recognisers
<1>2. AtWindow' <=> AtWindow
  BY DEF AtWindow, Image, Offset
<1>. QED BY <1>1, <1>2 DEF Chosen, Rightful

LEMMA SearchStepStages == SearchNext => pc \in SearchStages /\ pc' \in SearchStages
BY DEF SearchStages, SearchNext, ReadWindow, ReadFails, SkipEditor, NotFound, MatchTooShort, Match, MatchMbr, Probe,
       DetectRefuses, DetectAccepts, ReallocFails, WalkAgain, WindowDone

LEMMA DumpStep == ASSUME TypeInv, DumpInv, Next PROVE DumpInv'
<1>1. CASE ActUnpack
  <2>1. CASE Skips
    BY <2>1 DEF Skips, DumpInv
  <2>2. ASSUME NEW ok \in BOOLEAN, NEW marked \in BOOLEAN,
               dump' = IF ~Has(editor, "MULTI_BIN") THEN dump
                       ELSE [marker |-> IF marked THEN MarkerAfter(ok) ELSE dump.marker,
                             by |-> editor, failed |-> ~(ok /\ marked),
                             whole |-> IF ok THEN dump.whole \cup {editor} ELSE dump.whole]
        PROVE  DumpInv'
    BY <2>2 DEF DumpInv, MarkerAfter
  <2>. QED BY <1>1, <2>1, <2>2 DEF ActUnpack
<1>2. CASE ~ActUnpack
  <2>1. dump' = dump
    BY <1>2 DEF Next, Begin, OptionsEnd, ListPlugins, Search, SearchStep, SearchReturns, ChooseMain, OpenImage,
                DetectTried, NobodyDetects, Found, ChoosePack, ActSimply, ActPeek, Skips, PluginDies,
                ExitEditors, FreeGd, mainVars
  <2>. QED BY <2>1 DEF DumpInv
<1>. QED BY <1>1, <1>2

(* What a command may be for.                                              *)
LEMMA RequestType ==
  ASSUME TypeInv
  PROVE  /\ request.type \in 0 .. UNKNOWN
         /\ Known => request.type # NOBODY
         /\ request.type # UNKNOWN /\ ~Known => request.type = NOBODY
<1>1. session \in Sessions /\ (request \in session.requests \/ request = NoRequest)
  BY DEF TypeInv, TypeOK
<1>2. NoRequest.type = NOBODY
  BY DEF NoRequest, Request
<1>3. request.type \in 0 .. UNKNOWN
  BY <1>1, <1>2 DEF NOBODY, UNKNOWN
<1>4. Known => request.type # NOBODY
  BY DEF Known, NOBODY, Editor
<1>5. request.type # UNKNOWN /\ ~Known => request.type = NOBODY
  <2>1. \A t \in 0 .. NEditors + 1 : t = 0 \/ t = NEditors + 1 \/ t \in 1 .. NEditors
    OBVIOUS
  <2>. QED BY <1>3, <2>1, Zenon DEF Known, NOBODY, UNKNOWN, Editor
<1>. QED BY <1>3, <1>4, <1>5

LEMMA NextInOrder == \A m, n \in Editor : m <= n /\ m # n => m + 1 <= n
BY DEF Editor

LEMMA OptionsGaveOffset == RetOfOptions = 0 => request.at # {}
BY DEF RetOfOptions

(* Without a type, an editor detects the image if it is a recogniser.      *)
LEMMA DetectsIsRecognises ==
  ASSUME TypeInv, ~Known, NEW e \in Editor
  PROVE  EditorDetects(e, Accepts) <=> e \in Recognisers
<1>1. start \in Nat /\ HeaderSz[e] \in Nat /\ FileLen \in Nat
  BY DEF TypeInv, SearchTypeInv, SearchTypeOK
<1>2. HeaderSz[e] <= FileLen - start <=> start + HeaderSz[e] <= FileLen
  BY <1>1
<1>3. Accepts = session.auto
  BY DEF Accepts
<1>. QED BY <1>2, <1>3 DEF Recognisers, EditorDetects

(* The stages before an editor is chosen.                                  *)
LEMMA EarlyStep ==
  ASSUME TypeInv, CommandInv, Begin \/ OptionsEnd \/ ListPlugins \/ Search \/ SearchStep \/ SearchReturns
  PROVE  BeforeInv' /\ StageInv' /\ EndInv'
<1>. USE DEF CommandInv, BeforeInv, StageInv, EndInv, SearchStages
<1>1. CASE Begin
  <2>1. pc' = "parsed" /\ ran' = Nobody /\ cur' = 1
    BY <1>1 DEF Begin, SearchFromStart
  <2>. QED BY <2>1 DEF Nobody
<1>2. CASE OptionsEnd \/ ListPlugins
  <2>1. /\ pc = "parsed" /\ pc' \in {"ended", "free"} /\ UNCHANGED <<ran, request>>
        /\ ret' = 0 => request.do \in {"help", "list-plugin"}
    <3>1. CASE OptionsEnd
      BY <3>1 DEF OptionsEnd, Parsed, Leaves
    <3>2. CASE ListPlugins
      BY <3>2 DEF ListPlugins, Parsed
    <3>. QED BY <1>2, <3>1, <3>2
  <2>. QED BY <2>1
<1>3. CASE Search
  <2>1. pc = "parsed" /\ pc' \in {"read", "exit"} /\ UNCHANGED <<ran, request>> /\ request.do = "search"
    BY <1>3 DEF Search, Parsed
  <2>. QED BY <2>1
<1>4. CASE SearchStep
  <2>1. pc \in SearchStages /\ pc' \in SearchStages /\ UNCHANGED <<ran, request>>
    BY <1>4, SearchStepStages DEF SearchStep, mainVars, process
  <2>. QED BY <2>1
<1>5. CASE SearchReturns
  <2>1. pc = "searched" /\ pc' = "exit" /\ UNCHANGED <<ran, request>>
    BY <1>5 DEF SearchReturns
  <2>. QED BY <2>1
<1>. QED BY <1>1, <1>2, <1>3, <1>4, <1>5

(* The choice of the editor.                                               *)
LEMMA ChoiceStep ==
  ASSUME TypeInv, CommandInv, ChooseMain \/ OpenImage \/ DetectTried \/ NobodyDetects \/ Found \/ ChoosePack
  PROVE  BeforeInv' /\ StageInv' /\ EndInv'
<1>. USE DEF CommandInv, BeforeInv, StageInv, EndInv, SearchStages
<1>1. CASE ChooseMain
  <2>1. pc = "parsed" /\ UNCHANGED <<ran, request, session, start, gd>> /\ request.do \in {"main", "usage"}
    BY <1>1 DEF ChooseMain, Parsed
  <2>2. CASE request.do = "main" /\ Known /\ editor' = request.type /\ pc' = "act" /\ ret' = RetOfOptions
    BY <2>1, <2>2, RequestType DEF RetOfOptions, AtWindow, Image, Chosen, Rightful, Known
  <2>3. CASE ret' = -1 /\ pc' = "ended"
    BY <2>1, <2>3
  <2>. QED BY <1>1, <2>2, <2>3 DEF ChooseMain, Leaves
<1>2. CASE OpenImage
  <2>1. pc = "parsed" /\ UNCHANGED <<ran, request, session, gd, cur>> /\ Image
    BY <1>2 DEF OpenImage, Parsed
  <2>2. CASE ret' = -1 /\ pc' = "ended"
    BY <2>1, <2>2
  <2>3. CASE pc' = "auto" /\ start' \in Windows /\ ret' = RetOfOptions /\ request.type # UNKNOWN
    <3>1. AtWindow' /\ Image'
      BY <2>1, <2>3 DEF AtWindow, Windows, Offset, Image
    <3>2. \A f \in Recognisers' : cur' <= f
      BY <2>1, SessionType DEF Recognisers, Editor, TypeInv
    <3>. QED BY <2>1, <2>3, <3>1, <3>2 DEF RetOfOptions
  <2>. QED BY <1>2, <2>2, <2>3 DEF OpenImage, Leaves
<1>3. CASE DetectTried
  <2>1. PICK e \in Editor : DetectTried!(e)
    BY <1>3 DEF DetectTried
  <2>2. pc = "auto" /\ UNCHANGED <<ran, request, session, gd, start, dump, ret>>
    BY <2>1 DEF Asked
  <2>3. /\ Recognisers' = Recognisers /\ (AtWindow' <=> AtWindow) /\ (Image' <=> Image) /\ (Known' <=> Known)
        /\ \A f : Chosen(f)' <=> Chosen(f)
    BY <2>2, ChoiceKept DEF Image, Known
  <2>4. CASE EditorDetects(e, Accepts)
    <3>1. editor' = e /\ pc' = "found"
      BY <2>1, <2>4
    <3>2. Chosen(e)
      <4>1. CASE Known
        BY <2>1, <4>1, RequestType DEF Asked, Chosen, Rightful
      <4>2. CASE ~Known
        <5>1. request.type = NOBODY /\ request.do # "pack" /\ cur = e
          BY <2>1, <2>2, <4>2, RequestType DEF Asked, Image
        <5>2. e \in Recognisers
          BY <2>4, <4>2, DetectsIsRecognises
        <5>3. \A f \in Recognisers : e <= f
          BY <2>2, <4>2, <5>1
        <5>. QED BY <5>1, <5>2, <5>3 DEF Chosen, Rightful
      <4>. QED BY <4>1, <4>2
    <3>. QED BY <2>2, <2>3, <3>1, <3>2
  <2>5. CASE ~EditorDetects(e, Accepts) /\ Known
    <3>1. pc' = "exit"
      BY <2>1, <2>5 DEF Refused
    <3>. QED BY <2>2, <3>1
  <2>6. CASE ~EditorDetects(e, Accepts) /\ ~Known
    <3>1. cur = e /\ cur' = cur + 1 /\ pc' = "auto"
      BY <2>1, <2>2, <2>6 DEF Refused, NextEditor, Asked
    <3>2. e \notin Recognisers
      BY <2>6, DetectsIsRecognises
    <3>3. \A f \in Recognisers : cur <= f /\ f \in Editor
      BY <2>2, <2>6, SessionType DEF Recognisers, TypeInv
    <3>4. \A f \in Recognisers : cur + 1 <= f
      BY <3>1, <3>2, <3>3, NextInOrder
    <3>. QED BY <2>2, <2>3, <3>1, <3>4
  <2>. QED BY <2>4, <2>5, <2>6
<1>4. CASE NobodyDetects
  <2>1. pc = "auto" /\ pc' = "exit" /\ UNCHANGED <<ran, request, ret>>
    BY <1>4 DEF NobodyDetects, mainVars, process
  <2>. QED BY <2>1
<1>5. CASE Found
  <2>1. pc = "found" /\ pc' \in {"act", "exit"} /\ UNCHANGED <<ran, request, ret, editor, session, start, gd, dump>>
    BY <1>5 DEF Found, mainVars, process
  <2>. QED BY <2>1, ChoiceKept
<1>6. CASE ChoosePack
  <2>1. pc = "parsed" /\ request.do = "pack" /\ UNCHANGED <<ran, request, session, start, gd, dump>>
    BY <1>6 DEF ChoosePack, Parsed
  <2>2. CASE pc' = "exit" /\ ret' = RetOfOptions
    BY <2>1, <2>2, OptionsGaveOffset
  <2>3. CASE pc' = "ended" /\ ret' = -1
    BY <2>1, <2>3
  <2>4. CASE PackType \in Editor /\ editor' = PackType /\ pc' = "act" /\ ret' = RetOfOptions
    <3>1. Chosen(PackType)
      BY <2>1, <2>4 DEF Chosen, Rightful, PackType
    <3>. QED BY <2>1, <2>4, <3>1, ChoiceKept DEF RetOfOptions, AtWindow, Image
  <2>. QED BY <1>6, <2>2, <2>3, <2>4 DEF ChoosePack, Leaves
<1>. QED BY <1>1, <1>2, <1>3, <1>4, <1>5, <1>6

LEMMA NoSuccess == -1 # 0
OBVIOUS

(* The action, the exit of the editors and the end.                        *)
LEMMA ActStep ==
  ASSUME TypeInv, CommandInv,
         ActSimply \/ ActPeek \/ ActUnpack \/ PluginDies \/ ExitEditors \/ FreeGd
  PROVE  BeforeInv' /\ StageInv' /\ EndInv'
<1>. USE DEF CommandInv, BeforeInv, StageInv, EndInv, SearchStages
<1>1. CASE ActSimply \/ ActPeek \/ ActUnpack
  <2>1. /\ pc = "act" /\ pc' = "exit" /\ UNCHANGED <<request, session, start, gd, editor>>
        /\ request.do = "pack" => dump' = dump
        /\ UNCHANGED <<ran, ret>> \/ \E ok \in BOOLEAN : ran' = [by |-> editor, ok |-> ok] /\ ret' = IF ok THEN 0 ELSE -1
    BY <1>1 DEF ActSimply, ActPeek, ActUnpack, Acting, Skips, Answers, ActFrame
  <2>2. /\ \A e : Chosen(e)' <=> Chosen(e)
        /\ (AtWindow' <=> AtWindow)
    BY <2>1, ChoiceKept
  <2>3. CASE UNCHANGED <<ran, ret>>
    BY <2>1, <2>3
  <2>4. ASSUME NEW ok \in BOOLEAN, ran' = [by |-> editor, ok |-> ok], ret' = IF ok THEN 0 ELSE -1
        PROVE  BeforeInv' /\ StageInv' /\ EndInv'
    <3>1. ran'.by = editor /\ (ran'.ok <=> ok)
      BY <2>4
    <3>2. ret' = 0 <=> ok
      BY <2>4, NoSuccess, Zenon
    <3>3. Chosen(editor)' /\ AtWindow'
      BY <2>1, <2>2
    <3>4. editor # NOBODY
      BY <2>1 DEF Chosen, Editor, NOBODY
    <3>5. Chosen(ran.by)'
      BY <2>1, <3>1, <3>3 DEF Chosen, Rightful
    <3>. QED BY <2>1, <3>1, <3>2, <3>3, <3>4, <3>5, Zenon
  <2>. QED BY <2>1, <2>3, <2>4
<1>2. CASE PluginDies
  <2>1. pc \in {"act", "auto"} /\ pc' = "ended" /\ ret' = -1 /\ ran' = ran
    BY <1>2 DEF PluginDies, AtWork, Asked, Leaves
  <2>2. ret' # 0 /\ ran'.by = NOBODY
    BY <2>1, NoSuccess
  <2>. QED BY <2>1, <2>2
<1>3. CASE ExitEditors \/ FreeGd
  <2>1. pc \in {"exit", "free"} /\ pc' \in {"free", "ended"} /\ UNCHANGED <<ran, ret, request, session, start, gd, dump>>
    BY <1>3 DEF ExitEditors, FreeGd, process
  <2>. QED BY <2>1, ChoiceKept
<1>. QED BY <1>1, <1>2, <1>3

LEMMA CommandInvStep == ASSUME TypeInv, CommandInv, [Next]_vars PROVE CommandInv'
<1>1. CASE UNCHANGED vars
  <2>1. UNCHANGED <<pc, cur, ran, ret, request, session, start, gd, dump, editor>>
    BY <1>1 DEF vars, searchVars, mainVars, process, file, walk
  <2>2. (Image' <=> Image) /\ (Known' <=> Known)
    BY <2>1 DEF Image, Known
  <2>. QED BY <2>1, <2>2, ChoiceKept DEF CommandInv, BeforeInv, StageInv, EndInv, DumpInv
<1>2. CASE Next
  <2>1. DumpInv'
    BY <1>2, DumpStep DEF CommandInv
  <2>. QED BY <1>2, <2>1, EarlyStep, ChoiceStep, ActStep DEF Next, CommandInv
<1>. QED BY <1>1, <1>2

(* Of every command, whatever editors there are: only the editor it is for *)
(* acts, on the window asked for, the exit status says whether it          *)
(* succeeded, and the marker that unpack leaves sends a later pack to the  *)
(* editor that unpacked (main).                                            *)
THEOREM CommandsAreExact == Spec => []CommandExact
<1>1. CommandInv => CommandExact
  BY DEF CommandInv, EndInv, DumpInv, CommandExact, Chosen, AtWindow
<1>2. TypeInv /\ CommandInv /\ [Next]_vars => TypeInv' /\ CommandInv'
  BY TypeStep, CommandInvStep
<1>. QED BY <1>1, <1>2, InitType, InitCommand, PTL DEF Spec
=============================================================================
