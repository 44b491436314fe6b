------------------------------- MODULE Bitmask -------------------------------
(***************************************************************************)
(* bitmask.c: an array of bits, kept in whole bytes, so that the buffer    *)
(* may have bits beyond total_bits.  A bitmask is a record [total_bits,    *)
(* buffer]; get_bit_index_msbfirst is the order of the bits in buffer.     *)
(***************************************************************************)
EXTENDS Integers

CONSTANT ByteBits     \* bits in a byte (8)

ASSUME ByteAssumption == ByteBits \in Nat \ {0}

aligned_bits(bits) == ((bits + ByteBits - 1) \div ByteBits) * ByteBits
alloc_bitmask(bits) ==
  [total_bits |-> bits, buffer |-> [i \in 0 .. aligned_bits(bits) - 1 |-> 0]]

(* bitmask_set_bits: what is beyond total_bits is left out, and makes the  *)
(* result negative.                                                        *)
bitmask_set_bits(b, from, count) ==
  [b EXCEPT !.buffer = [i \in DOMAIN @ |->
     IF from <= i /\ i < from + count /\ i < b.total_bits THEN 1 ELSE @[i]]]
set_bits_fails(b, from, count) == count > 0 /\ from + count > b.total_bits

(* The first bit with a value at or after a bit, or -1.  A bit found       *)
(* beyond total_bits counts as none.                                       *)
First(b, from, value) ==
  LET found == {i \in DOMAIN b.buffer : i >= from /\ b.buffer[i] = value}
      least == CHOOSE i \in found : \A j \in found : i <= j
  IN IF found = {} THEN -1 ELSE IF least >= b.total_bits THEN -1 ELSE least
bitmask_next_one(b, from)  == First(b, from, 1)
bitmask_next_zero(b, from) == First(b, from, 0)

(* bitmask_foreach_continue: the runs of ones; the walk is over when start *)
(* is negative.                                                            *)
iterator_update_mutant(b, from) ==    \* mutant: the run ends with the buffer
  LET start == bitmask_next_one(b, from)
      last  == bitmask_next_zero(b, start + 1)
  IN [start |-> start, end |-> last,
      bits |-> IF last < 0 THEN aligned_bits(b.total_bits) - start ELSE last - start]
iterator_update(b, from) ==
  LET start == bitmask_next_one(b, from)
      last  == bitmask_next_zero(b, start + 1)
  IN IF start < 0 THEN [start |-> start, end |-> -1, bits |-> 0]
     ELSE [start |-> start, end |-> last,
           bits |-> IF last < 0 THEN b.total_bits - start ELSE last - start]
iterator_init(b) == iterator_update(b, 0)
iterator_next(b, it) == IF it.end < 0 THEN [it EXCEPT !.start = -1]
                                      ELSE iterator_update(b, it.end)
=============================================================================
