---------------------------- MODULE VirtualFile -----------------------------
(***************************************************************************)
(* virtual_file.c: the table of "virtual files" in the shared global data. *)
(* A virtual file is a descriptor together with a window (start_offset,    *)
(* total_length) of the file behind it.  The table is searched by          *)
(* descriptor number on every fileseek, filestart and filelength, so the   *)
(* meaning of a number depends on the table being exact: the kernel hands  *)
(* out the lowest free number again as soon as it is closed.               *)
(*                                                                         *)
(* The kernel's descriptor table and open file descriptions are external:  *)
(* fdtab maps a number to the description behind it, and a description     *)
(* (shared by the descriptors dup() makes) has one file and one position.  *)
(***************************************************************************)
EXTENDS Integers

CONSTANTS MAX_VIRTUAL_FILE,  \* slots of the table (32 in gd_private.h)
          FD,                \* descriptor numbers of the process
          OFD,               \* identities of open file descriptions
          File,              \* the files that can be opened
          NONE,              \* a closed descriptor
          Offset,            \* offsets callers pass
          MaxPos             \* bound on window starts and positions

ASSUME SlotAssumption   == MAX_VIRTUAL_FILE \in Nat \ {0}
ASSUME FDAssumption     == FD \subseteq Nat
ASSUME NONEAssumption   == NONE \notin OFD
ASSUME FileAssumption   == File # {}
ASSUME OffsetAssumption == Offset \subseteq Int /\ MaxPos \in Nat

VARIABLES vfps,     \* gd->vfps, the table
          fdtab,    \* kernel: descriptor -> description or NONE
          ofile,    \* kernel: description -> file
          pos,      \* kernel: description -> file position
          size,     \* length of every file
          base,     \* history: least window start ever made on a description
          held,     \* history: handles returned and not closed by callers
          crashed   \* a NULL slot was dereferenced

vars == <<vfps, fdtab, ofile, pos, size, base, held, crashed>>

Slot == 1 .. MAX_VIRTUAL_FILE
Virtual == [used : BOOLEAN, fd : Int, start_offset : Int, total_length : Int]

(* memset(vfp, 0); a slot after the mapping is created, and after a close. *)
Cleared(fd) == [used |-> FALSE, fd |-> fd, start_offset |-> 0, total_length |-> 0]

TypeOK ==
  /\ vfps \in [Slot -> Virtual]
  /\ fdtab \in [FD -> OFD \cup {NONE}]
  /\ ofile \in [OFD -> File]
  /\ pos \in [OFD -> Nat]
  /\ size \in [File -> Nat]
  /\ base \in [OFD -> Nat]
  /\ held \subseteq FD
  /\ crashed \in BOOLEAN

-----------------------------------------------------------------------------
(* The kernel, as virtual_file.c uses it.                                  *)

IsOpen(fd) == fdtab[fd] # NONE

(* open() and dup() return the lowest descriptor that is not open.         *)
LowestFree(fd) == ~IsOpen(fd) /\ \A g \in FD : g < fd => IsOpen(g)
NoFreeFd == \A fd \in FD : IsOpen(fd)

Unreferenced(o) == \A fd \in FD : fdtab[fd] # o

(* close(): the description goes with its last descriptor; its position,   *)
(* of no use to anyone, is forgotten.                                      *)
KernelClose(fd) ==
  LET o == fdtab[fd]
      last == \A g \in FD : fdtab[g] = o => g = fd
  IN /\ fdtab' = [fdtab EXCEPT ![fd] = NONE]
     /\ pos' = IF last THEN [pos EXCEPT ![o] = 0] ELSE pos
     /\ base' = IF last THEN [base EXCEPT ![o] = 0] ELSE base

(* lseek(fd, p, SEEK_SET): a negative position is refused, and leaves the  *)
(* position where it was (here: where the step had already moved it).      *)
SeekToMutant(old, p) == p     \* mutant: the sign is not looked at
SeekTo(old, p) == IF p < 0 THEN old ELSE p

Lower(a, b) == IF a < b THEN a ELSE b

(* The bound on window starts and positions.                               *)
InRange(p) == -MaxPos <= p /\ p <= MaxPos

-----------------------------------------------------------------------------
(* virtual_file_get: the first used slot of a descriptor, as a set with at *)
(* most one element.                                                       *)
Matches(i, fd) == vfps[i].used /\ vfps[i].fd = fd
VirtualFileGet(fd) ==
  {i \in Slot : Matches(i, fd) /\ \A j \in Slot : j < i => ~Matches(j, fd)}
IsVirtual(fd) == \E i \in Slot : Matches(i, fd)

(* virtual_file_get_unused: the first slot that is not used.               *)
FirstUnusedMutant(i) == i = 1 \* mutant: used is not looked at
FirstUnused(i) == ~vfps[i].used /\ \A j \in Slot : j < i => vfps[j].used
TableFullMutant == \A i \in Slot : i > 1 => vfps[i].used  \* mutant: off by one
TableFull == \A i \in Slot : vfps[i].used

(* filestart                                                               *)
FileStartMutant(fd) == 0      \* mutant: the window is forgotten
FileStart(fd) == IF VirtualFileGet(fd) = {} THEN 0
                 ELSE vfps[CHOOSE i \in VirtualFileGet(fd) : TRUE].start_offset

-----------------------------------------------------------------------------
Init ==
  /\ vfps = [i \in Slot |-> Cleared(0)]
  /\ fdtab = [fd \in FD |-> NONE]
  /\ ofile = [o \in OFD |-> CHOOSE f \in File : TRUE]
  /\ pos = [o \in OFD |-> 0]
  /\ size \in [File -> Offset \cap Nat]
  /\ base = [o \in OFD |-> 0]
  /\ held = {}
  /\ crashed = FALSE

(* fileopen: a plain descriptor at position 0.                             *)
FileOpen(f) == \E fd \in FD, o \in OFD :
  /\ LowestFree(fd) /\ Unreferenced(o)
  /\ fdtab' = [fdtab EXCEPT ![fd] = o]
  /\ ofile' = [ofile EXCEPT ![o] = f]
  /\ pos' = [pos EXCEPT ![o] = 0]
  /\ base' = [base EXCEPT ![o] = 0]
  /\ UNCHANGED <<vfps, size, held, crashed>>

(* close() of a plain descriptor: every caller that closes with close()    *)
(* got the descriptor from fileopen, open or mkstemp.                      *)
PlainClose(fd) ==
  /\ IsOpen(fd) /\ fd \notin held
  /\ KernelClose(fd)
  /\ UNCHANGED <<vfps, ofile, size, held, crashed>>

(* virtual_file_open, once the open succeeded and a slot was found.        *)
(* filelength_no_cache moves to the end, lseek64 then to the window.       *)
VirtualFileOpen(f, offset) == \E fd \in FD, o \in OFD, i \in Slot :
  /\ InRange(offset)
  /\ LowestFree(fd) /\ Unreferenced(o) /\ FirstUnused(i)
  /\ fdtab' = [fdtab EXCEPT ![fd] = o]
  /\ ofile' = [ofile EXCEPT ![o] = f]
  /\ vfps' = [vfps EXCEPT ![i] = [used |-> TRUE, fd |-> fd, start_offset |-> offset,
                                  total_length |-> size[f] - offset]]
  /\ pos' = [pos EXCEPT ![o] = SeekTo(size[f], offset)]
  /\ base' = [base EXCEPT ![o] = SeekTo(0, offset)]
  /\ held' = held \cup {fd}
  /\ UNCHANGED <<size, crashed>>

(* virtual_file_open on a full table: the descriptor is opened, then       *)
(* closed again, and -1 is returned.                                       *)
VirtualFileOpenFull == TableFull /\ ~NoFreeFd /\ UNCHANGED vars

(* virtual_file_dup: the new window is relative to the window of ref_fd,   *)
(* and the new descriptor shares the position of ref_fd.                   *)
VirtualFileDup(ref, offset) == \E fd \in FD, i \in Slot :
  LET o == fdtab[ref]
      start == offset + FileStart(ref)
  IN /\ IsOpen(ref) /\ InRange(start)
     /\ LowestFree(fd) /\ FirstUnused(i)
     /\ fdtab' = [fdtab EXCEPT ![fd] = o]
     /\ vfps' = [vfps EXCEPT ![i] = [used |-> TRUE, fd |-> fd, start_offset |-> start,
                                     total_length |-> size[ofile[o]] - start]]
     /\ pos' = [pos EXCEPT ![o] = SeekTo(size[ofile[o]], start)]
     /\ base' = [base EXCEPT ![o] = Lower(@, SeekTo(0, start))]
     /\ held' = held \cup {fd}
     /\ UNCHANGED <<ofile, size, crashed>>

(* dup() fails: the slot is marked unused again but keeps fd = -1.         *)
VirtualFileDupFailsMutant(ref) == \E i \in Slot :  \* mutant: the slot stays used
  /\ ~IsOpen(ref) \/ NoFreeFd
  /\ FirstUnused(i)
  /\ vfps' = [vfps EXCEPT ![i].fd = -1, ![i].used = TRUE]
  /\ UNCHANGED <<fdtab, ofile, pos, size, base, held, crashed>>
VirtualFileDupFails(ref) == \E i \in Slot :
  /\ ~IsOpen(ref) \/ NoFreeFd
  /\ FirstUnused(i)
  /\ vfps' = [vfps EXCEPT ![i].fd = -1]
  /\ UNCHANGED <<fdtab, ofile, pos, size, base, held, crashed>>

(* virtual_file_dup does not test the slot for NULL before it stores the   *)
(* result of dup() in it.                                                  *)
VirtualFileDupFull ==
  /\ TableFull
  /\ crashed' = TRUE
  /\ UNCHANGED <<vfps, fdtab, ofile, pos, size, base, held>>

(* virtual_file_close of a handle.                                         *)
VirtualFileClose(fd) == \E i \in VirtualFileGet(fd) :
  /\ KernelClose(fd)
  /\ vfps' = [vfps EXCEPT ![i] = Cleared(-1)]
  /\ held' = held \ {fd}
  /\ UNCHANGED <<ofile, size, crashed>>

(* virtual_file_close of anything else returns -1 and closes nothing.      *)
VirtualFileCloseUnknown(fd) == ~IsVirtual(fd) /\ UNCHANGED vars

(* filelength: cached for a handle; on a plain descriptor it measures, and *)
(* leaves the position at 0.                                               *)
FileLength(fd) ==
  /\ IsOpen(fd)
  /\ pos' = IF IsVirtual(fd) THEN pos ELSE [pos EXCEPT ![fdtab[fd]] = 0]
  /\ base' = IF IsVirtual(fd) THEN base ELSE [base EXCEPT ![fdtab[fd]] = 0]
  /\ UNCHANGED <<vfps, fdtab, ofile, size, held, crashed>>

(* fileseek; no caller passes a negative offset.                           *)
FileSeek(fd, offset) ==
  /\ IsOpen(fd) /\ offset >= 0 /\ InRange(FileStart(fd) + offset)
  /\ pos' = [pos EXCEPT ![fdtab[fd]] = SeekTo(@, FileStart(fd) + offset)]
  /\ base' = IF IsVirtual(fd) THEN base ELSE [base EXCEPT ![fdtab[fd]] = 0]
  /\ UNCHANGED <<vfps, fdtab, ofile, size, held, crashed>>

(* fileread: reads until n bytes are there or the file ends.               *)
FileRead(fd, n) ==
  LET o == fdtab[fd]
      left == size[ofile[o]] - pos[o]
      got == IF left <= 0 THEN 0 ELSE IF n < left THEN n ELSE left
  IN /\ IsOpen(fd) /\ n > 0
     /\ pos' = [pos EXCEPT ![o] = @ + got]
     /\ UNCHANGED <<vfps, fdtab, ofile, size, base, held, crashed>>

Next ==
  /\ ~crashed
  /\ \/ \E f \in File : FileOpen(f)
     \/ \E f \in File, offset \in Offset : VirtualFileOpen(f, offset)
     \/ VirtualFileOpenFull
     \/ VirtualFileDupFull
     \/ \E fd \in FD : \/ PlainClose(fd)
                       \/ VirtualFileClose(fd)
                       \/ VirtualFileCloseUnknown(fd)
                       \/ FileLength(fd)
                       \/ VirtualFileDupFails(fd)
     \/ \E fd \in FD, offset \in Offset : \/ VirtualFileDup(fd, offset)
                                          \/ FileSeek(fd, offset)
                                          \/ FileRead(fd, offset)

Spec == Init /\ [][Next]_vars

-----------------------------------------------------------------------------
(* The table is exact: a descriptor is looked up as virtual if and only if *)
(* a caller holds it as a handle, no descriptor has two slots, and the     *)
(* descriptor of every used slot is open.  So a plain descriptor that      *)
(* reuses the number of a closed handle is never shifted by its window,    *)
(* and no failing path of virtual_file_open or virtual_file_dup consumes a *)
(* slot.                                                                   *)
EveryHandleHasASlot == \A fd \in FD : fd \in held <=> IsVirtual(fd)
OneSlotPerDescriptor ==
  \A i, j \in Slot : vfps[i].used /\ vfps[j].used /\ vfps[i].fd = vfps[j].fd => i = j
UsedSlotsAreOpen ==
  \A i \in Slot : vfps[i].used => vfps[i].fd \in FD /\ IsOpen(vfps[i].fd)
TableExact == EveryHandleHasASlot /\ OneSlotPerDescriptor /\ UsedSlotsAreOpen

(* virtual_file_dup writes through a NULL slot only when every slot is     *)
(* used: as long as callers hold fewer handles than there are slots, dup   *)
(* is safe.                                                                *)
CrashOnlyWhenFull == crashed => \A i \in Slot : vfps[i].fd \in held

(* No sequence of fileseek, fileread and filelength on the handles of a    *)
(* description moves its shared position before the start of the           *)
(* window that starts first, although every dup, and every seek through a  *)
(* child, moves the position of the parent as well.                        *)
PositionStaysInWindow ==
  \A fd \in FD : IsOpen(fd) => pos[fdtab[fd]] >= base[fdtab[fd]]

-----------------------------------------------------------------------------
(* The table implements the abstract handles.                              *)
NoWindow == [start |-> 0, total |-> 0, none |-> TRUE]
Window == [start : Int, total : Int, none : {FALSE}]
WindowOf(i) ==
  [start |-> vfps[i].start_offset, total |-> vfps[i].total_length, none |-> FALSE]
windows == [fd \in FD |-> IF IsVirtual(fd)
                          THEN WindowOf(CHOOSE i \in Slot : Matches(i, fd))
                          ELSE NoWindow]
Handles == INSTANCE VirtualHandles WITH window <- windows

(* Every step of the table makes one handle, closes one handle, or leaves  *)
(* the window of every handle as it was made.                              *)
ImplementsHandles == Handles!Spec
=============================================================================
