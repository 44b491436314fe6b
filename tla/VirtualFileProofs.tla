------------------------- MODULE VirtualFileProofs --------------------------
(***************************************************************************)
(* Proofs about VirtualFile, for every number of slots, of descriptors and *)
(* of files.  TableExact is inductive together with the types: the only    *)
(* fact about the kernel it needs is that a number that is handed out was  *)
(* not open, so that no used slot can have it.                             *)
(***************************************************************************)
EXTENDS VirtualFile, TLAPS

(* The inductive invariant of the table.                                   *)
Inv == TypeOK /\ TableExact /\ CrashOnlyWhenFull

USE SlotAssumption, FDAssumption, NONEAssumption, FileAssumption, OffsetAssumption

LEMMA InitInv == Init => Inv
<1> SUFFICES ASSUME Init PROVE Inv
  OBVIOUS
<1>1. TypeOK
  <2>1. vfps \in [Slot -> Virtual]
    BY DEF Init, Virtual, Cleared
  <2>2. (CHOOSE f \in File : TRUE) \in File
    BY FileAssumption
  <2>3. ofile \in [OFD -> File]
    BY <2>2 DEF Init
  <2>4. size \in [File -> Nat]
    BY DEF Init
  <2>. QED BY <2>1, <2>3, <2>4 DEF Init, TypeOK
<1>2. \A i \in Slot : ~vfps[i].used
  BY DEF Init, Cleared
<1>. QED
  BY <1>1, <1>2 DEF Init, Inv, TableExact, EveryHandleHasASlot, OneSlotPerDescriptor,
                    UsedSlotsAreOpen, CrashOnlyWhenFull, IsVirtual, Matches

-----------------------------------------------------------------------------
(* The window start of a descriptor is an integer.                         *)
LEMMA FileStartType ==
  ASSUME TypeOK, NEW fd PROVE FileStart(fd) \in Int
<1>1. CASE VirtualFileGet(fd) = {}
  BY <1>1 DEF FileStart
<1>2. CASE VirtualFileGet(fd) # {}
  <2> DEFINE i == CHOOSE k \in VirtualFileGet(fd) : TRUE
  <2>1. i \in Slot
    BY <1>2 DEF VirtualFileGet
  <2>2. vfps[i] \in Virtual
    BY <2>1 DEF TypeOK
  <2>. QED BY <1>2, <2>2 DEF FileStart, Virtual
<1>. QED BY <1>1, <1>2

(* Closing a descriptor keeps the types of what the kernel keeps.          *)
LEMMA KernelCloseType ==
  ASSUME TypeOK, NEW fd \in FD, KernelClose(fd)
  PROVE  /\ fdtab' \in [FD -> OFD \cup {NONE}]
         /\ pos' \in [OFD -> Nat]
         /\ base' \in [OFD -> Nat]
BY DEF TypeOK, KernelClose

(* Every step keeps the types.                                             *)
LEMMA TypeStep == TypeOK /\ [Next]_vars => TypeOK'
<1> SUFFICES ASSUME TypeOK, [Next]_vars PROVE TypeOK'
  OBVIOUS
<1> USE DEF TypeOK
<1>1. ASSUME NEW f \in File, FileOpen(f) PROVE TypeOK'
  BY <1>1 DEF FileOpen
<1>2. ASSUME NEW f \in File, NEW offset \in Offset, VirtualFileOpen(f, offset) PROVE TypeOK'
  <2>1. PICK fd \in FD, o \in OFD, i \in Slot : VirtualFileOpen(f, offset)!(fd, o, i)
    BY <1>2 DEF VirtualFileOpen
  <2>2. offset \in Int /\ size[f] \in Nat
    OBVIOUS
  <2>3. SeekTo(size[f], offset) \in Nat /\ SeekTo(0, offset) \in Nat
    BY <2>2 DEF SeekTo
  <2>4. [used |-> TRUE, fd |-> fd, start_offset |-> offset,
         total_length |-> size[f] - offset] \in Virtual
    BY <2>2 DEF Virtual
  <2>5. vfps' \in [Slot -> Virtual]
    BY <2>1, <2>4
  <2>6. pos' \in [OFD -> Nat] /\ base' \in [OFD -> Nat]
    BY <2>1, <2>3
  <2>. QED BY <2>1, <2>5, <2>6
<1>3. ASSUME VirtualFileOpenFull PROVE TypeOK'
  BY <1>3 DEF VirtualFileOpenFull, vars
<1>4. ASSUME VirtualFileDupFull PROVE TypeOK'
  BY <1>4 DEF VirtualFileDupFull
<1>5. ASSUME NEW fd \in FD, PlainClose(fd) PROVE TypeOK'
  BY <1>5, KernelCloseType DEF PlainClose
<1>6. ASSUME NEW fd \in FD, VirtualFileClose(fd) PROVE TypeOK'
  <2>1. PICK i \in VirtualFileGet(fd) : VirtualFileClose(fd)!(i)
    BY <1>6 DEF VirtualFileClose
  <2>2. Cleared(-1) \in Virtual
    BY DEF Cleared, Virtual
  <2>3. vfps' \in [Slot -> Virtual]
    BY <2>1, <2>2
  <2>. QED BY <2>1, <2>3, KernelCloseType
<1>7. ASSUME NEW fd \in FD, VirtualFileCloseUnknown(fd) PROVE TypeOK'
  BY <1>7 DEF VirtualFileCloseUnknown, vars
<1>8. ASSUME NEW fd \in FD, FileLength(fd) PROVE TypeOK'
  BY <1>8 DEF FileLength
<1>9. ASSUME NEW fd \in FD, VirtualFileDupFails(fd) PROVE TypeOK'
  <2>1. PICK i \in Slot : VirtualFileDupFails(fd)!(i)
    BY <1>9 DEF VirtualFileDupFails
  <2>2. [vfps[i] EXCEPT !.fd = -1] \in Virtual
    BY DEF Virtual
  <2>3. vfps' \in [Slot -> Virtual]
    BY <2>1, <2>2
  <2>. QED BY <2>1, <2>3
<1>10. ASSUME NEW ref \in FD, NEW offset \in Offset, VirtualFileDup(ref, offset) PROVE TypeOK'
  <2> DEFINE o == fdtab[ref]
             st == offset + FileStart(ref)
  <2>1. PICK fd \in FD, i \in Slot : VirtualFileDup(ref, offset)!(fd, i)
    BY <1>10 DEF VirtualFileDup
  <2>2. o \in OFD
    BY <2>1 DEF IsOpen
  <2>3. st \in Int /\ size[ofile[o]] \in Nat
    BY <2>2, FileStartType
  <2>4. SeekTo(size[ofile[o]], st) \in Nat /\ Lower(base[o], SeekTo(0, st)) \in Nat
    BY <2>2, <2>3 DEF SeekTo, Lower
  <2>5. [used |-> TRUE, fd |-> fd, start_offset |-> st,
         total_length |-> size[ofile[o]] - st] \in Virtual
    BY <2>3 DEF Virtual
  <2>6. vfps' \in [Slot -> Virtual]
    BY <2>1, <2>5
  <2>7. pos' \in [OFD -> Nat] /\ base' \in [OFD -> Nat]
    BY <2>1, <2>2, <2>4
  <2>. QED BY <2>1, <2>2, <2>6, <2>7
<1>11. ASSUME NEW fd \in FD, NEW offset \in Offset, FileSeek(fd, offset) PROVE TypeOK'
  <2>1. FileStart(fd) + offset \in Int /\ fdtab[fd] \in OFD
    BY <1>11, FileStartType DEF FileSeek, IsOpen
  <2>2. SeekTo(pos[fdtab[fd]], FileStart(fd) + offset) \in Nat
    BY <2>1 DEF SeekTo
  <2>. QED BY <1>11, <2>1, <2>2 DEF FileSeek
<1>12. ASSUME NEW fd \in FD, NEW n \in Offset, FileRead(fd, n) PROVE TypeOK'
  <2> DEFINE o == fdtab[fd]
             left == size[ofile[o]] - pos[o]
             got == IF left <= 0 THEN 0 ELSE IF n < left THEN n ELSE left
  <2>1. o \in OFD /\ n > 0 /\ n \in Int
    BY <1>12 DEF FileRead, IsOpen
  <2>2. left \in Int
    BY <2>1
  <2>3. got \in Nat
    BY <2>1, <2>2
  <2>4. pos[o] + got \in Nat
    BY <2>1, <2>3
  <2>. QED BY <1>12, <2>1, <2>4 DEF FileRead
<1>13. CASE UNCHANGED vars
  BY <1>13 DEF vars
<1>. QED BY <1>1, <1>2, <1>3, <1>4, <1>5, <1>6, <1>7, <1>8, <1>9, <1>10, <1>11, <1>12, <1>13
         DEF Next

-----------------------------------------------------------------------------
(* A step that leaves the table and the handles alone, and closes nothing, *)
(* keeps the table exact.                                                  *)
LEMMA ExactUntouched ==
  ASSUME TableExact, vfps' = vfps, held' = held,
         \A fd \in FD : IsOpen(fd) => IsOpen(fd)'
  PROVE  TableExact'
BY DEF TableExact, EveryHandleHasASlot, OneSlotPerDescriptor, UsedSlotsAreOpen, IsVirtual, Matches

(* A descriptor that is not open is in no used slot, so that it can be     *)
(* given one.                                                              *)
LEMMA ExactNewHandle ==
  ASSUME TypeOK, TableExact, NEW fd \in FD, NEW i \in Slot, NEW v \in Virtual, NEW o \in OFD,
         ~IsOpen(fd), FirstUnused(i), v.used, v.fd = fd,
         vfps' = [vfps EXCEPT ![i] = v],
         fdtab' = [fdtab EXCEPT ![fd] = o],
         held' = held \cup {fd}
  PROVE  TableExact'
<1>1. ~vfps[i].used /\ \A j \in Slot : vfps[j].used => vfps[j].fd # fd
  BY DEF FirstUnused, TableExact, UsedSlotsAreOpen
<1>2. vfps'[i] = v /\ \A j \in Slot : j # i => vfps'[j] = vfps[j]
  BY DEF TypeOK
<1>3. \A g \in FD : IsVirtual(g)' <=> (g = fd \/ IsVirtual(g))
  BY <1>1, <1>2 DEF IsVirtual, Matches
<1>4. EveryHandleHasASlot'
  BY <1>3 DEF TableExact, EveryHandleHasASlot
<1>5. OneSlotPerDescriptor'
  BY <1>1, <1>2 DEF TableExact, OneSlotPerDescriptor
<1>6. \A g \in FD : IsOpen(g)' <=> (g = fd \/ IsOpen(g))
  BY DEF IsOpen, TypeOK
<1>7. UsedSlotsAreOpen'
  BY <1>2, <1>6 DEF TableExact, UsedSlotsAreOpen
<1>. QED BY <1>4, <1>5, <1>7 DEF TableExact

LEMMA TableStep == TypeOK /\ TableExact /\ [Next]_vars => TableExact'
<1> SUFFICES ASSUME TypeOK, TableExact, [Next]_vars PROVE TableExact'
  OBVIOUS
<1>1. ASSUME NEW f \in File, FileOpen(f) PROVE TableExact'
  <2>1. \A fd \in FD : IsOpen(fd) => IsOpen(fd)'
    BY <1>1 DEF FileOpen, IsOpen, TypeOK
  <2>. QED BY <1>1, <2>1, ExactUntouched DEF FileOpen
<1>2. ASSUME NEW f \in File, NEW offset \in Offset, VirtualFileOpen(f, offset) PROVE TableExact'
  <2>1. PICK fd \in FD, o \in OFD, i \in Slot : VirtualFileOpen(f, offset)!(fd, o, i)
    BY <1>2 DEF VirtualFileOpen
  <2> DEFINE v == [used |-> TRUE, fd |-> fd, start_offset |-> offset,
                   total_length |-> size[f] - offset]
  <2>2. v \in Virtual
    BY DEF Virtual, TypeOK
  <2>3. ~IsOpen(fd)
    BY <2>1 DEF LowestFree
  <2>. QED BY <2>1, <2>2, <2>3, ExactNewHandle
<1>3. ASSUME VirtualFileOpenFull PROVE TableExact'
  BY <1>3, ExactUntouched DEF VirtualFileOpenFull, vars, IsOpen
<1>4. ASSUME VirtualFileDupFull PROVE TableExact'
  BY <1>4, ExactUntouched DEF VirtualFileDupFull, IsOpen
<1>5. ASSUME NEW fd \in FD, PlainClose(fd) PROVE TableExact'
  <2>1. vfps' = vfps /\ held' = held /\ fd \notin held
    BY <1>5 DEF PlainClose
  <2>2. \A j \in Slot : vfps[j].used => vfps[j].fd # fd
    BY <2>1 DEF TableExact, EveryHandleHasASlot, IsVirtual, Matches
  <2>3. \A g \in FD : g # fd => (IsOpen(g)' <=> IsOpen(g))
    BY <1>5 DEF PlainClose, KernelClose, IsOpen, TypeOK
  <2>. QED BY <2>1, <2>2, <2>3 DEF TableExact, EveryHandleHasASlot, OneSlotPerDescriptor,
                                   UsedSlotsAreOpen, IsVirtual, Matches
<1>6. ASSUME NEW fd \in FD, VirtualFileClose(fd) PROVE TableExact'
  <2>1. PICK i \in VirtualFileGet(fd) : VirtualFileClose(fd)!(i)
    BY <1>6 DEF VirtualFileClose
  <2>2. i \in Slot /\ vfps[i].used /\ vfps[i].fd = fd
    BY <2>1 DEF VirtualFileGet, Matches
  <2>3. ~vfps'[i].used /\ \A j \in Slot : j # i => vfps'[j] = vfps[j]
    BY <2>1, <2>2 DEF TypeOK, Cleared
  <2>4. \A j \in Slot : j # i /\ vfps[j].used => vfps[j].fd # fd
    BY <2>2 DEF TableExact, OneSlotPerDescriptor
  <2>5. \A g \in FD : IsVirtual(g)' <=> (g # fd /\ IsVirtual(g))
    BY <2>2, <2>3, <2>4 DEF IsVirtual, Matches
  <2>6. EveryHandleHasASlot'
    BY <2>1, <2>5 DEF TableExact, EveryHandleHasASlot
  <2>7. OneSlotPerDescriptor'
    BY <2>3 DEF TableExact, OneSlotPerDescriptor
  <2>8. \A g \in FD : g # fd => (IsOpen(g)' <=> IsOpen(g))
    BY <2>1 DEF KernelClose, IsOpen, TypeOK
  <2>9. UsedSlotsAreOpen'
    BY <2>3, <2>4, <2>8 DEF TableExact, UsedSlotsAreOpen
  <2>. QED BY <2>6, <2>7, <2>9 DEF TableExact
<1>7. ASSUME NEW fd \in FD, VirtualFileCloseUnknown(fd) PROVE TableExact'
  BY <1>7, ExactUntouched DEF VirtualFileCloseUnknown, vars, IsOpen
<1>8. ASSUME NEW fd \in FD, FileLength(fd) PROVE TableExact'
  BY <1>8, ExactUntouched DEF FileLength, IsOpen
<1>9. ASSUME NEW fd \in FD, VirtualFileDupFails(fd) PROVE TableExact'
  <2>1. PICK i \in Slot : VirtualFileDupFails(fd)!(i)
    BY <1>9 DEF VirtualFileDupFails
  <2>2. ~vfps[i].used /\ ~vfps'[i].used /\ \A j \in Slot : j # i => vfps'[j] = vfps[j]
    BY <2>1 DEF FirstUnused, TypeOK, Virtual
  <2>3. held' = held /\ fdtab' = fdtab
    BY <2>1
  <2>. QED BY <2>2, <2>3 DEF TableExact, EveryHandleHasASlot, OneSlotPerDescriptor,
                             UsedSlotsAreOpen, IsVirtual, Matches, IsOpen
<1>10. ASSUME NEW ref \in FD, NEW offset \in Offset, VirtualFileDup(ref, offset) PROVE TableExact'
  <2> DEFINE o == fdtab[ref]
             st == offset + FileStart(ref)
  <2>1. PICK fd \in FD, i \in Slot : VirtualFileDup(ref, offset)!(fd, i)
    BY <1>10 DEF VirtualFileDup
  <2> DEFINE v == [used |-> TRUE, fd |-> fd, start_offset |-> st,
                   total_length |-> size[ofile[o]] - st]
  <2>2. o \in OFD
    BY <2>1 DEF IsOpen, TypeOK
  <2>3. st \in Int /\ size[ofile[o]] \in Int
    BY <2>2, FileStartType DEF TypeOK
  <2>4. v \in Virtual
    BY <2>3 DEF Virtual
  <2>5. ~IsOpen(fd)
    BY <2>1 DEF LowestFree
  <2>. QED BY <2>1, <2>2, <2>4, <2>5, ExactNewHandle
<1>11. ASSUME NEW fd \in FD, NEW offset \in Offset, FileSeek(fd, offset) PROVE TableExact'
  BY <1>11, ExactUntouched DEF FileSeek, IsOpen
<1>12. ASSUME NEW fd \in FD, NEW n \in Offset, FileRead(fd, n) PROVE TableExact'
  BY <1>12, ExactUntouched DEF FileRead, IsOpen
<1>13. CASE UNCHANGED vars
  BY <1>13, ExactUntouched DEF vars, IsOpen
<1>. QED BY <1>1, <1>2, <1>3, <1>4, <1>5, <1>6, <1>7, <1>8, <1>9, <1>10, <1>11, <1>12, <1>13
         DEF Next

(* The NULL slot is met only by the dup that finds every slot used, and    *)
(* nothing happens after it.                                               *)
LEMMA CrashStep == TypeOK /\ TableExact /\ CrashOnlyWhenFull /\ [Next]_vars => CrashOnlyWhenFull'
<1> SUFFICES ASSUME TypeOK, TableExact, CrashOnlyWhenFull, [Next]_vars, crashed'
             PROVE  \A i \in Slot : vfps'[i].fd \in held'
  BY DEF CrashOnlyWhenFull
<1>1. CASE UNCHANGED vars
  BY <1>1 DEF vars, CrashOnlyWhenFull
<1>2. CASE VirtualFileDupFull
  <2>1. \A i \in Slot : vfps[i].used /\ vfps[i].fd \in FD
    BY <1>2 DEF VirtualFileDupFull, TableFull, TableExact, UsedSlotsAreOpen
  <2>2. \A i \in Slot : vfps[i].fd \in held
    BY <2>1 DEF TableExact, EveryHandleHasASlot, IsVirtual, Matches
  <2>. QED BY <1>2, <2>2 DEF VirtualFileDupFull
<1>3. CASE Next /\ ~VirtualFileDupFull
  <2>1. ~crashed
    BY <1>3 DEF Next
  <2>2. ASSUME NEW f \in File, FileOpen(f) PROVE crashed' = crashed
    BY <2>2 DEF FileOpen
  <2>3. ASSUME NEW f \in File, NEW offset \in Offset, VirtualFileOpen(f, offset)
        PROVE  crashed' = crashed
    BY <2>3 DEF VirtualFileOpen
  <2>4. ASSUME VirtualFileOpenFull PROVE crashed' = crashed
    BY <2>4 DEF VirtualFileOpenFull, vars
  <2>5. ASSUME NEW fd \in FD, \/ PlainClose(fd) \/ VirtualFileClose(fd)
                              \/ VirtualFileCloseUnknown(fd)
        PROVE  crashed' = crashed
    BY <2>5 DEF PlainClose, VirtualFileClose, VirtualFileCloseUnknown, vars
  <2>6. ASSUME NEW fd \in FD, FileLength(fd) \/ VirtualFileDupFails(fd)
        PROVE  crashed' = crashed
    BY <2>6 DEF FileLength, VirtualFileDupFails
  <2>7. ASSUME NEW fd \in FD, NEW offset \in Offset, VirtualFileDup(fd, offset)
        PROVE  crashed' = crashed
    BY <2>7 DEF VirtualFileDup
  <2>8. ASSUME NEW fd \in FD, NEW offset \in Offset, FileSeek(fd, offset) \/ FileRead(fd, offset)
        PROVE  crashed' = crashed
    BY <2>8 DEF FileSeek, FileRead
  <2>. QED BY <1>3, <2>1, <2>2, <2>3, <2>4, <2>5, <2>6, <2>7, <2>8 DEF Next
<1>. QED BY <1>1, <1>2, <1>3

-----------------------------------------------------------------------------
(* The types of the table and of the kernel's state are kept by every      *)
(* operation of virtual_file.c.                                            *)
THEOREM TypeCorrect == Spec => []TypeOK
<1>1. Init => TypeOK
  BY InitInv DEF Inv
<1>. QED BY <1>1, TypeStep, PTL DEF Spec

(* The lookup by descriptor number of fileseek, filestart and filelength   *)
(* finds a window exactly for the numbers that callers hold as handles,    *)
(* although the kernel hands numbers out again, and no failing path of     *)
(* virtual_file_open and virtual_file_dup leaves a slot behind.            *)
THEOREM TableIsExact == Spec => []TableExact
<1>1. Init => TypeOK /\ TableExact
  BY InitInv DEF Inv
<1>2. TypeOK /\ TableExact /\ [Next]_vars => (TypeOK /\ TableExact)'
  BY TypeStep, TableStep
<1>. QED BY <1>1, <1>2, PTL DEF Spec

(* The missing test of the slot in virtual_file_dup matters only to a      *)
(* caller that finds all slots held: as many handles as the table has      *)
(* slots.                                                                  *)
THEOREM DupIsSafeBelowTheLimit == Spec => []CrashOnlyWhenFull
<1>1. Init => Inv
  BY InitInv
<1>2. Inv /\ [Next]_vars => Inv'
  BY TypeStep, TableStep, CrashStep DEF Inv
<1>3. Inv => CrashOnlyWhenFull
  BY DEF Inv
<1>. QED BY <1>1, <1>2, <1>3, PTL DEF Spec

-----------------------------------------------------------------------------
(* The position of a description, and the windows on it, lie at or after   *)
(* the least window start made on it (a negative start counts as 0).       *)
PositionInv ==
  /\ \A o \in OFD : base[o] <= pos[o]
  /\ \A i \in Slot :
       vfps[i].used => base[fdtab[vfps[i].fd]] <= SeekTo(0, vfps[i].start_offset)

(* Of a descriptor that is virtual, the table finds the only used slot.    *)
LEMMA GetUnique ==
  ASSUME TableExact, NEW fd, NEW i \in Slot, Matches(i, fd)
  PROVE  VirtualFileGet(fd) = {i} /\ (CHOOSE k \in Slot : Matches(k, fd)) = i
<1>1. \A j \in Slot : Matches(j, fd) => j = i
  BY DEF TableExact, OneSlotPerDescriptor, Matches
<1>2. \A j \in Slot : j < i => ~Matches(j, fd)
  BY <1>1 DEF Slot
<1>. QED BY <1>1, <1>2 DEF VirtualFileGet

(* No seek through a virtual descriptor ends before its window.            *)
LEMMA SeekBound ==
  ASSUME TypeOK, TableExact, PositionInv,
         NEW fd \in FD, IsOpen(fd), IsVirtual(fd), NEW offset \in Nat
  PROVE  base[fdtab[fd]] <= SeekTo(pos[fdtab[fd]], FileStart(fd) + offset)
<1> DEFINE o == fdtab[fd]
<1>1. o \in OFD
  BY DEF IsOpen, TypeOK
<1>2. PICK i \in Slot : Matches(i, fd)
  BY DEF IsVirtual
<1>3. FileStart(fd) = vfps[i].start_offset
  BY <1>2, GetUnique DEF FileStart
<1>4. base[o] <= SeekTo(0, FileStart(fd)) /\ base[o] <= pos[o]
  BY <1>1, <1>2, <1>3 DEF PositionInv, Matches
<1>5. FileStart(fd) \in Int /\ base[o] \in Nat /\ pos[o] \in Nat
  BY <1>1, FileStartType DEF TypeOK
<1>. QED BY <1>4, <1>5 DEF SeekTo

(* A close forgets the position of a description only with its last        *)
(* descriptor, when no used slot can be on it any more.                    *)
LEMMA CloseKeepsPositions ==
  ASSUME TypeOK, TableExact, PositionInv, NEW fd \in FD, IsOpen(fd), KernelClose(fd),
         \A i \in Slot : vfps'[i].used => vfps'[i] = vfps[i] /\ vfps[i].fd # fd
  PROVE  PositionInv'
<1> DEFINE o == fdtab[fd]
<1>1. o \in OFD
  BY DEF IsOpen, TypeOK
<1>2. ASSUME NEW q \in OFD PROVE base'[q] <= pos'[q]
  BY <1>1 DEF KernelClose, TypeOK, PositionInv
<1>3. ASSUME NEW i \in Slot, vfps'[i].used
      PROVE  base'[fdtab'[vfps'[i].fd]] <= SeekTo(0, vfps'[i].start_offset)
  <2> DEFINE g == vfps[i].fd
  <2>1. vfps'[i] = vfps[i] /\ g # fd /\ g \in FD /\ IsOpen(g)
    BY <1>3 DEF TableExact, UsedSlotsAreOpen
  <2>2. fdtab'[g] = fdtab[g] /\ fdtab[g] \in OFD
    BY <2>1 DEF KernelClose, TypeOK, IsOpen
  <2>3. base'[fdtab[g]] = base[fdtab[g]]
    BY <1>1, <2>1, <2>2 DEF KernelClose, TypeOK
  <2>. QED BY <1>3, <2>1, <2>2, <2>3 DEF PositionInv
<1>. QED BY <1>2, <1>3 DEF PositionInv

LEMMA PositionStep == TypeOK /\ TableExact /\ PositionInv /\ [Next]_vars => PositionInv'
<1> SUFFICES ASSUME TypeOK, TableExact, PositionInv, [Next]_vars PROVE PositionInv'
  OBVIOUS
<1>0. \A i \in Slot : vfps[i].used => vfps[i].fd \in FD /\ fdtab[vfps[i].fd] \in OFD
  <2> SUFFICES ASSUME NEW i \in Slot, vfps[i].used
               PROVE  vfps[i].fd \in FD /\ fdtab[vfps[i].fd] \in OFD
    OBVIOUS
  <2>1. vfps[i].fd \in FD /\ fdtab[vfps[i].fd] # NONE
    BY DEF TableExact, UsedSlotsAreOpen, IsOpen
  <2>2. fdtab \in [FD -> OFD \cup {NONE}]
    BY DEF TypeOK
  <2>. QED BY <2>1, <2>2
<1>1. ASSUME NEW f \in File, FileOpen(f) PROVE PositionInv'
  <2>1. PICK fd \in FD, o \in OFD : FileOpen(f)!(fd, o)
    BY <1>1 DEF FileOpen
  <2>2. \A i \in Slot : vfps[i].used => vfps[i].fd # fd /\ fdtab[vfps[i].fd] # o
    BY <1>0, <2>1 DEF LowestFree, Unreferenced, TableExact, UsedSlotsAreOpen
  <2>. QED BY <1>0, <2>1, <2>2 DEF PositionInv, TypeOK
<1>2. ASSUME NEW f \in File, NEW offset \in Offset, VirtualFileOpen(f, offset) PROVE PositionInv'
  <2>1. PICK fd \in FD, o \in OFD, i \in Slot : VirtualFileOpen(f, offset)!(fd, o, i)
    BY <1>2 DEF VirtualFileOpen
  <2>2. \A j \in Slot : vfps[j].used => vfps[j].fd # fd /\ fdtab[vfps[j].fd] # o
    BY <1>0, <2>1 DEF LowestFree, Unreferenced, TableExact, UsedSlotsAreOpen
  <2>3. SeekTo(0, offset) <= SeekTo(size[f], offset)
    BY DEF SeekTo, TypeOK
  <2>4. \A q \in OFD : base'[q] <= pos'[q]
    BY <2>1, <2>3 DEF PositionInv, TypeOK
  <2>5. vfps'[i].fd = fd /\ vfps'[i].start_offset = offset /\ fdtab'[fd] = o
        /\ base'[o] = SeekTo(0, offset)
    BY <2>1 DEF TypeOK
  <2>6. SeekTo(0, offset) \in Int
    BY DEF SeekTo
  <2>7. base'[fdtab'[vfps'[i].fd]] <= SeekTo(0, vfps'[i].start_offset)
    BY <2>5, <2>6
  <2>8. ASSUME NEW j \in Slot, j # i, vfps'[j].used
        PROVE  base'[fdtab'[vfps'[j].fd]] <= SeekTo(0, vfps'[j].start_offset)
    <3>1. vfps'[j] = vfps[j]
      BY <2>1, <2>8 DEF TypeOK
    <3>2. vfps[j].fd # fd /\ fdtab[vfps[j].fd] # o /\ vfps[j].fd \in FD
      BY <1>0, <2>2, <2>8, <3>1
    <3>3. fdtab'[vfps[j].fd] = fdtab[vfps[j].fd]
          /\ base'[fdtab[vfps[j].fd]] = base[fdtab[vfps[j].fd]]
      BY <1>0, <2>1, <2>8, <3>1, <3>2 DEF TypeOK
    <3>. QED BY <2>8, <3>1, <3>3 DEF PositionInv
  <2>. QED BY <2>4, <2>7, <2>8 DEF PositionInv
<1>3. ASSUME VirtualFileOpenFull PROVE PositionInv'
  BY <1>3 DEF VirtualFileOpenFull, vars, PositionInv
<1>4. ASSUME VirtualFileDupFull PROVE PositionInv'
  BY <1>4 DEF VirtualFileDupFull, PositionInv
<1>5. ASSUME NEW fd \in FD, PlainClose(fd) PROVE PositionInv'
  <2>1. \A i \in Slot : vfps[i].used => vfps[i].fd # fd
    BY <1>5 DEF PlainClose, TableExact, EveryHandleHasASlot, IsVirtual, Matches
  <2>. QED BY <1>5, <2>1, CloseKeepsPositions DEF PlainClose
<1>6. ASSUME NEW fd \in FD, VirtualFileClose(fd) PROVE PositionInv'
  <2>1. PICK i \in VirtualFileGet(fd) : VirtualFileClose(fd)!(i)
    BY <1>6 DEF VirtualFileClose
  <2>2. i \in Slot /\ Matches(i, fd)
    BY <2>1 DEF VirtualFileGet
  <2>3. \A j \in Slot : vfps'[j].used => vfps'[j] = vfps[j] /\ vfps[j].fd # fd
    BY <2>1, <2>2 DEF TypeOK, Cleared, TableExact, OneSlotPerDescriptor, Matches
  <2>4. IsOpen(fd)
    BY <2>2 DEF TableExact, UsedSlotsAreOpen, Matches
  <2>. QED BY <2>1, <2>3, <2>4, CloseKeepsPositions
<1>7. ASSUME NEW fd \in FD, VirtualFileCloseUnknown(fd) PROVE PositionInv'
  BY <1>7 DEF VirtualFileCloseUnknown, vars, PositionInv
<1>8. ASSUME NEW fd \in FD, FileLength(fd) PROVE PositionInv'
  <2>1. fdtab[fd] \in OFD
    BY <1>8 DEF FileLength, IsOpen, TypeOK
  <2>2. \A i \in Slot : 0 <= SeekTo(0, vfps[i].start_offset)
    BY DEF SeekTo, TypeOK, Virtual
  <2>. QED BY <1>0, <1>8, <2>1, <2>2 DEF FileLength, PositionInv, TypeOK
<1>9. ASSUME NEW fd \in FD, VirtualFileDupFails(fd) PROVE PositionInv'
  <2>1. PICK i \in Slot : VirtualFileDupFails(fd)!(i)
    BY <1>9 DEF VirtualFileDupFails
  <2>2. ~vfps'[i].used /\ \A j \in Slot : j # i => vfps'[j] = vfps[j]
    BY <2>1 DEF FirstUnused, TypeOK, Virtual
  <2>. QED BY <2>1, <2>2 DEF PositionInv
<1>10. ASSUME NEW ref \in FD, NEW offset \in Offset, VirtualFileDup(ref, offset) PROVE PositionInv'
  <2> DEFINE o == fdtab[ref]
             st == offset + FileStart(ref)
  <2>1. PICK fd \in FD, i \in Slot : VirtualFileDup(ref, offset)!(fd, i)
    BY <1>10 DEF VirtualFileDup
  <2>2. o \in OFD
    BY <2>1 DEF IsOpen, TypeOK
  <2>3. st \in Int /\ size[ofile[o]] \in Nat /\ base[o] \in Nat
    BY <2>2, FileStartType DEF TypeOK
  <2>4. /\ Lower(base[o], SeekTo(0, st)) <= SeekTo(size[ofile[o]], st)
        /\ Lower(base[o], SeekTo(0, st)) <= SeekTo(0, st)
        /\ Lower(base[o], SeekTo(0, st)) <= base[o]
        /\ Lower(base[o], SeekTo(0, st)) \in Int
    BY <2>3 DEF Lower, SeekTo
  <2>5. /\ base' = [base EXCEPT ![o] = Lower(base[o], SeekTo(0, st))]
        /\ pos' = [pos EXCEPT ![o] = SeekTo(size[ofile[o]], st)]
    BY <2>1
  <2>6. \A q \in OFD : base'[q] <= pos'[q]
    BY <2>2, <2>4, <2>5 DEF PositionInv, TypeOK
  <2>7. vfps'[i].fd = fd /\ vfps'[i].start_offset = st /\ fdtab'[fd] = o
    BY <2>1 DEF TypeOK
  <2>8. base'[fdtab'[vfps'[i].fd]] <= SeekTo(0, vfps'[i].start_offset)
    BY <2>2, <2>4, <2>5, <2>7 DEF TypeOK
  <2>9. ASSUME NEW j \in Slot, j # i, vfps'[j].used
        PROVE  base'[fdtab'[vfps'[j].fd]] <= SeekTo(0, vfps'[j].start_offset)
    <3> DEFINE q == fdtab[vfps[j].fd]
    <3>1. vfps'[j] = vfps[j]
      BY <2>1, <2>9 DEF TypeOK
    <3>2. vfps[j].fd # fd /\ vfps[j].fd \in FD /\ q \in OFD
      BY <1>0, <2>1, <2>9, <3>1 DEF LowestFree, TableExact, UsedSlotsAreOpen
    <3>3. fdtab'[vfps[j].fd] = q
      BY <2>1, <3>2 DEF TypeOK
    <3>4. base'[q] <= base[q] /\ base[q] \in Int /\ base'[q] \in Int
      BY <2>2, <2>4, <2>5, <3>2 DEF TypeOK
    <3>5. base[q] <= SeekTo(0, vfps[j].start_offset)
      BY <2>9, <3>1 DEF PositionInv
    <3>6. SeekTo(0, vfps[j].start_offset) \in Int
      BY DEF SeekTo, TypeOK, Virtual
    <3>. QED BY <3>1, <3>3, <3>4, <3>5, <3>6
  <2>. QED BY <2>6, <2>8, <2>9 DEF PositionInv
<1>11. ASSUME NEW fd \in FD, NEW offset \in Offset, FileSeek(fd, offset) PROVE PositionInv'
  <2> DEFINE o == fdtab[fd]
  <2>1. o \in OFD /\ offset \in Nat /\ IsOpen(fd)
    BY <1>11 DEF FileSeek, IsOpen, TypeOK
  <2>2. SeekTo(pos[o], FileStart(fd) + offset) \in Nat
    BY <2>1, FileStartType DEF SeekTo, TypeOK
  <2>3. CASE IsVirtual(fd)
    <3>1. base[o] <= SeekTo(pos[o], FileStart(fd) + offset)
      BY <2>1, <2>3, SeekBound
    <3>2. base' = base /\ vfps' = vfps /\ fdtab' = fdtab
      BY <1>11, <2>3 DEF FileSeek
    <3>. QED BY <1>11, <2>1, <3>1, <3>2 DEF FileSeek, PositionInv, TypeOK
  <2>4. CASE ~IsVirtual(fd)
    <3>1. \A i \in Slot : 0 <= SeekTo(0, vfps[i].start_offset)
      BY DEF SeekTo, TypeOK, Virtual
    <3>2. base' = [base EXCEPT ![o] = 0] /\ vfps' = vfps /\ fdtab' = fdtab
      BY <1>11, <2>4 DEF FileSeek
    <3>3. \A q \in OFD : base'[q] <= pos'[q]
      BY <1>11, <2>1, <2>2, <3>2 DEF FileSeek, PositionInv, TypeOK
    <3>. QED BY <1>0, <2>1, <3>1, <3>2, <3>3 DEF PositionInv, TypeOK
  <2>. QED BY <2>3, <2>4
<1>12. ASSUME NEW fd \in FD, NEW n \in Offset, FileRead(fd, n) PROVE PositionInv'
  <2> DEFINE o == fdtab[fd]
             left == size[ofile[o]] - pos[o]
             got == IF left <= 0 THEN 0 ELSE IF n < left THEN n ELSE left
  <2>1. o \in OFD /\ n > 0 /\ n \in Int
    BY <1>12 DEF FileRead, IsOpen, TypeOK
  <2>2. left \in Int
    BY <2>1 DEF TypeOK
  <2>3. got \in Nat
    BY <2>1, <2>2
  <2>4. pos' = [pos EXCEPT ![o] = @ + got] /\ UNCHANGED <<base, vfps, fdtab>>
    BY <1>12 DEF FileRead
  <2>. QED BY <2>1, <2>3, <2>4 DEF PositionInv, TypeOK
<1>13. CASE UNCHANGED vars
  BY <1>13 DEF vars, PositionInv
<1>. QED BY <1>1, <1>2, <1>3, <1>4, <1>5, <1>6, <1>7, <1>8, <1>9, <1>10, <1>11, <1>12, <1>13
         DEF Next

(* Seeks, reads and lengths through any of the descriptors that share a    *)
(* description leave its position at or after the least window start made  *)
(* on it.                                                                  *)
THEOREM PositionsStay == Spec => []PositionStaysInWindow
<1> DEFINE J == TypeOK /\ TableExact /\ PositionInv
<1>1. Init => J
  <2>1. Init => PositionInv
    BY DEF Init, PositionInv, Cleared
  <2>. QED BY <2>1, InitInv DEF Inv
<1>2. J /\ [Next]_vars => J'
  BY TypeStep, TableStep, PositionStep
<1>3. J => PositionStaysInWindow
  BY DEF PositionInv, PositionStaysInWindow, IsOpen, TypeOK
<1>. QED BY <1>1, <1>2, <1>3, PTL DEF Spec

-----------------------------------------------------------------------------
(* The abstract handles, read off the table.                               *)
LEMMA WindowOfUnique ==
  ASSUME TableExact, NEW fd \in FD, NEW i \in Slot, Matches(i, fd)
  PROVE  windows[fd] = WindowOf(i)
BY GetUnique DEF windows, IsVirtual

LEMMA WindowOfUniquePrime ==
  ASSUME TableExact', NEW fd \in FD, NEW i \in Slot, Matches(i, fd)'
  PROVE  windows'[fd] = WindowOf(i)'
<1>1. \A j \in Slot : Matches(j, fd)' => j = i
  BY DEF TableExact, OneSlotPerDescriptor, Matches
<1>2. (CHOOSE j \in Slot : Matches(j, fd)') = i
  BY <1>1
<1>. QED BY <1>2 DEF windows, IsVirtual

(* A step that leaves every used slot as it was leaves every window.       *)
LEMMA WindowsUntouched ==
  ASSUME \A j \in Slot : vfps'[j].used <=> vfps[j].used,
         \A j \in Slot : vfps[j].used => vfps'[j] = vfps[j]
  PROVE  windows' = windows
<1>1. \A j \in Slot, fd \in FD : Matches(j, fd)' <=> Matches(j, fd)
  BY DEF Matches
<1>2. ASSUME NEW fd \in FD PROVE IsVirtual(fd)' <=> IsVirtual(fd)
  BY <1>1 DEF IsVirtual
<1>3. ASSUME NEW fd \in FD
      PROVE  (CHOOSE j \in Slot : Matches(j, fd)') = (CHOOSE j \in Slot : Matches(j, fd))
  BY <1>1
<1>4. ASSUME NEW fd \in FD, IsVirtual(fd)
      PROVE  (CHOOSE j \in Slot : Matches(j, fd)) \in Slot
             /\ vfps[CHOOSE j \in Slot : Matches(j, fd)].used
  BY <1>4 DEF IsVirtual, Matches
<1>5. ASSUME NEW fd \in FD, IsVirtual(fd)
      PROVE  WindowOf(CHOOSE j \in Slot : Matches(j, fd))'
             = WindowOf(CHOOSE j \in Slot : Matches(j, fd))
  BY <1>3, <1>4, <1>5 DEF WindowOf
<1>. QED BY <1>2, <1>5 DEF windows

(* Taking a slot for a descriptor that was not open makes one handle.      *)
LEMMA WindowsNewHandle ==
  ASSUME TypeOK, TableExact, TableExact', NEW fd \in FD, NEW i \in Slot, NEW v \in Virtual,
         ~IsOpen(fd), FirstUnused(i), v.used, v.fd = fd,
         vfps' = [vfps EXCEPT ![i] = v]
  PROVE  Handles!Make(fd)
<1> DEFINE w == [start |-> v.start_offset, total |-> v.total_length, none |-> FALSE]
<1>1. ~vfps[i].used /\ \A j \in Slot : vfps[j].used => vfps[j].fd # fd
  BY DEF FirstUnused, TableExact, UsedSlotsAreOpen
<1>2. vfps'[i] = v /\ \A j \in Slot : j # i => vfps'[j] = vfps[j]
  BY DEF TypeOK
<1>3. windows[fd] = NoWindow
  BY <1>1 DEF windows, IsVirtual, Matches
<1>4. windows'[fd] = w
  <2>1. Matches(i, fd)'
    BY <1>2 DEF Matches
  <2>2. windows'[fd] = WindowOf(i)'
    BY <2>1, WindowOfUniquePrime
  <2>. QED BY <1>2, <2>2 DEF WindowOf
<1>5. ASSUME NEW g \in FD, g # fd PROVE windows'[g] = windows[g]
  <2>1. \A j \in Slot : Matches(j, g)' <=> Matches(j, g)
    BY <1>1, <1>2, <1>5 DEF Matches
  <2>2. CASE IsVirtual(g)
    <3>1. PICK j \in Slot : Matches(j, g)
      BY <2>2 DEF IsVirtual
    <3>2. windows[g] = WindowOf(j) /\ windows'[g] = WindowOf(j)'
      BY <2>1, <3>1, WindowOfUnique, WindowOfUniquePrime
    <3>3. j # i
      BY <1>1, <3>1 DEF Matches
    <3>. QED BY <1>2, <3>2, <3>3 DEF WindowOf
  <2>3. CASE ~IsVirtual(g)
    BY <2>1, <2>3 DEF windows, IsVirtual
  <2>. QED BY <2>2, <2>3
<1>6. w \in Window
  BY DEF Window, Virtual
<1>7. windows' = [windows EXCEPT ![fd] = windows'[fd]]
  <2>1. windows = [g \in FD |-> windows[g]] /\ windows' = [g \in FD |-> windows'[g]]
    BY DEF windows
  <2>. QED BY <1>5, <2>1
<1>. QED BY <1>3, <1>4, <1>6, <1>7 DEF Handles!Make

(* Clearing the slot of a descriptor closes its handle.                    *)
LEMMA WindowsClose ==
  ASSUME TypeOK, TableExact, TableExact', NEW fd \in FD, NEW i \in Slot, Matches(i, fd),
         vfps' = [vfps EXCEPT ![i] = Cleared(-1)]
  PROVE  Handles!Close(fd)
<1>1. ~vfps'[i].used /\ \A j \in Slot : j # i => vfps'[j] = vfps[j]
  BY DEF TypeOK, Cleared
<1>2. \A j \in Slot : Matches(j, fd) => j = i
  BY DEF TableExact, OneSlotPerDescriptor, Matches
<1>3. windows[fd] # NoWindow
  <2>1. windows[fd] = WindowOf(i)
    BY WindowOfUnique
  <2>2. WindowOf(i).none = FALSE /\ NoWindow.none = TRUE
    BY DEF WindowOf, NoWindow
  <2>. QED BY <2>1, <2>2
<1>4. windows'[fd] = NoWindow
  <2>1. \A j \in Slot : ~Matches(j, fd)'
    BY <1>1, <1>2 DEF Matches
  <2>. QED BY <2>1 DEF windows, IsVirtual
<1>5. ASSUME NEW g \in FD, g # fd PROVE windows'[g] = windows[g]
  <2>1. \A j \in Slot : Matches(j, g)' <=> Matches(j, g)
    BY <1>1, <1>5 DEF Matches
  <2>2. CASE IsVirtual(g)
    <3>1. PICK j \in Slot : Matches(j, g)
      BY <2>2 DEF IsVirtual
    <3>2. windows[g] = WindowOf(j) /\ windows'[g] = WindowOf(j)'
      BY <2>1, <3>1, WindowOfUnique, WindowOfUniquePrime
    <3>3. j # i
      BY <1>5, <3>1 DEF Matches
    <3>. QED BY <1>1, <3>2, <3>3 DEF WindowOf
  <2>3. CASE ~IsVirtual(g)
    BY <2>1, <2>3 DEF windows, IsVirtual
  <2>. QED BY <2>2, <2>3
<1>6. windows' = [windows EXCEPT ![fd] = NoWindow]
  <2>1. windows = [g \in FD |-> windows[g]] /\ windows' = [g \in FD |-> windows'[g]]
    BY DEF windows
  <2>. QED BY <1>4, <1>5, <2>1
<1>. QED BY <1>3, <1>6 DEF Handles!Close

(* Every step makes one handle, closes one, or leaves them all.            *)
LEMMA HandlesStep ==
  TypeOK /\ TableExact /\ TableExact' /\ [Next]_vars => [Handles!Next]_windows
<1> SUFFICES ASSUME TypeOK, TableExact, TableExact', [Next]_vars
             PROVE  Handles!Next \/ windows' = windows
  OBVIOUS
<1>1. ASSUME NEW f \in File, NEW offset \in Offset, VirtualFileOpen(f, offset)
      PROVE  Handles!Next
  <2>1. PICK fd \in FD, o \in OFD, i \in Slot : VirtualFileOpen(f, offset)!(fd, o, i)
    BY <1>1 DEF VirtualFileOpen
  <2> DEFINE v == [used |-> TRUE, fd |-> fd, start_offset |-> offset,
                   total_length |-> size[f] - offset]
  <2>2. v \in Virtual
    BY DEF Virtual, TypeOK
  <2>3. ~IsOpen(fd)
    BY <2>1 DEF LowestFree
  <2>4. Handles!Make(fd)
    BY <2>1, <2>2, <2>3, WindowsNewHandle
  <2>. QED BY <2>4 DEF Handles!Next
<1>2. ASSUME NEW ref \in FD, NEW offset \in Offset, VirtualFileDup(ref, offset)
      PROVE  Handles!Next
  <2> DEFINE o == fdtab[ref]
             st == offset + FileStart(ref)
  <2>1. PICK fd \in FD, i \in Slot : VirtualFileDup(ref, offset)!(fd, i)
    BY <1>2 DEF VirtualFileDup
  <2> DEFINE v == [used |-> TRUE, fd |-> fd, start_offset |-> st,
                   total_length |-> size[ofile[o]] - st]
  <2>2. o \in OFD
    BY <2>1 DEF IsOpen, TypeOK
  <2>3. st \in Int /\ size[ofile[o]] \in Int
    BY <2>2, FileStartType DEF TypeOK
  <2>4. v \in Virtual
    BY <2>3 DEF Virtual
  <2>5. ~IsOpen(fd)
    BY <2>1 DEF LowestFree
  <2>6. Handles!Make(fd)
    BY <2>1, <2>4, <2>5, WindowsNewHandle
  <2>. QED BY <2>6 DEF Handles!Next
<1>3. ASSUME NEW fd \in FD, VirtualFileClose(fd) PROVE Handles!Next
  <2>1. PICK i \in VirtualFileGet(fd) : VirtualFileClose(fd)!(i)
    BY <1>3 DEF VirtualFileClose
  <2>2. i \in Slot /\ Matches(i, fd)
    BY <2>1 DEF VirtualFileGet
  <2>3. Handles!Close(fd)
    BY <2>1, <2>2, WindowsClose
  <2>. QED BY <2>3 DEF Handles!Next
<1>4. ASSUME NEW fd \in FD, VirtualFileDupFails(fd) PROVE windows' = windows
  <2>1. PICK i \in Slot : VirtualFileDupFails(fd)!(i)
    BY <1>4 DEF VirtualFileDupFails
  <2>2. ~vfps[i].used /\ ~vfps'[i].used /\ \A j \in Slot : j # i => vfps'[j] = vfps[j]
    BY <2>1 DEF FirstUnused, TypeOK, Virtual
  <2>. QED BY <2>2, WindowsUntouched
<1>5. CASE vfps' = vfps
  BY <1>5, WindowsUntouched
<1>6. CASE UNCHANGED vars
  BY <1>5, <1>6 DEF vars
<1>7. CASE Next
  <2>1. ASSUME NEW f \in File, FileOpen(f) PROVE vfps' = vfps
    BY <2>1 DEF FileOpen
  <2>2. ASSUME VirtualFileOpenFull \/ VirtualFileDupFull PROVE vfps' = vfps
    BY <2>2 DEF VirtualFileOpenFull, VirtualFileDupFull, vars
  <2>3. ASSUME NEW fd \in FD,
               PlainClose(fd) \/ VirtualFileCloseUnknown(fd) \/ FileLength(fd)
        PROVE  vfps' = vfps
    BY <2>3 DEF PlainClose, VirtualFileCloseUnknown, FileLength, vars
  <2>4. ASSUME NEW fd \in FD, NEW n \in Offset, FileSeek(fd, n) \/ FileRead(fd, n)
        PROVE  vfps' = vfps
    BY <2>4 DEF FileSeek, FileRead
  <2>. QED BY <1>1, <1>2, <1>3, <1>4, <1>5, <1>7, <2>1, <2>2, <2>3, <2>4 DEF Next
<1>. QED BY <1>6, <1>7

(* virtual_file.c implements the abstract handles: the window of a handle  *)
(* is given when it is made, and nothing but its close takes it away,      *)
(* whatever the size of the table.                                         *)
THEOREM HandlesAreImplemented == Spec => ImplementsHandles
<1> DEFINE J == TypeOK /\ TableExact
<1>1. Init => J
  BY InitInv DEF Inv
<1>2. J /\ [Next]_vars => J'
  BY TypeStep, TableStep
<1>3. Init => Handles!Init
  BY DEF Init, Cleared, Handles!Init, windows, IsVirtual, Matches
<1>4. J /\ J' /\ [Next]_vars => [Handles!Next]_windows
  BY HandlesStep
<1>. QED BY <1>1, <1>2, <1>3, <1>4, PTL DEF Spec, ImplementsHandles, Handles!Spec
=============================================================================
