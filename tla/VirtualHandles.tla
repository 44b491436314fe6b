--------------------------- MODULE VirtualHandles ---------------------------
(***************************************************************************)
(* What virtual_file.c promises its callers, with no table, no kernel and  *)
(* no file: a descriptor either is a handle on a fixed window of a file or *)
(* it is not a handle.  A window is given when the handle is made, is      *)
(* never changed while the handle lives, and goes away only when that      *)
(* handle is closed.  VirtualFile.tla is shown to implement this.          *)
(***************************************************************************)
CONSTANTS FD,        \* descriptor numbers
          Window,    \* the windows a handle can have
          NoWindow   \* the descriptor is not a handle (and no window)

VARIABLE window      \* [FD -> Window \cup {NoWindow}]

TypeOK == window \in [FD -> Window \cup {NoWindow}]

Init == window = [fd \in FD |-> NoWindow]

(* virtual_file_open or virtual_file_dup returned fd, a handle on some     *)
(* window (written without a quantifier: the set of windows is infinite).  *)
Make(fd) ==
  /\ window[fd] = NoWindow
  /\ window'[fd] \in Window
  /\ window' = [window EXCEPT ![fd] = window'[fd]]

(* virtual_file_close(fd) returned 0.                                      *)
Close(fd) ==
  /\ window[fd] # NoWindow
  /\ window' = [window EXCEPT ![fd] = NoWindow]

Next == \E fd \in FD : Make(fd) \/ Close(fd)

Spec == Init /\ [][Next]_window
=============================================================================
