--------------------------- MODULE MCAndroidSparse ---------------------------
(* AndroidSparse with five blocks of two units in bytes of four bits, so    *)
(* that the buffer is padded, and a 32-bit limit that four blocks reach.    *)
EXTENDS AndroidSparse

C(type, first, blks) == [type |-> type, first |-> first, blks |-> blks]
MCForeign == {
  <<C("FIL", 0, 2), C("RAW", 2, 1), C("CRC", 0, 0), C("---", 0, 1)>>,
  <<C("RAW", 0, 1), C("RAW", 1, 2), C("---", 0, 1), C("---", 0, 1), C("FIL", 0, 1)>>,
  <<C("FIL", 1, 2), C("RAW", 2, 1)>>,
  <<C("BAD", 0, 1)>>}
=============================================================================
