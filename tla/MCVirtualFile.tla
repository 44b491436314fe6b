--------------------------- MODULE MCVirtualFile ----------------------------
(* VirtualFile with two slots, three descriptors, an empty and a longer     *)
(* file: the table fills up, numbers are reused, descriptions are shared.   *)
EXTENDS VirtualFile, TLC, FiniteSets

MCOffset == {-1, 0, 1}
MCSymmetry == Permutations(OFD)
=============================================================================
