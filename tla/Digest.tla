-------------------------------- MODULE Digest --------------------------------
(***************************************************************************)
(* libs/hash: the SHA1 of a stream that comes in pieces.  A context keeps  *)
(* the units of a block that is not full and how many units there were;    *)
(* what has been compressed is kept as the blocks themselves, since        *)
(* nothing is asked of the compression but which blocks it gets.           *)
(***************************************************************************)
EXTENDS Integers, Sequences, SequencesExt

CONSTANTS SHA1_Message_Block_Size,   \* in units (64 bytes)
          LengthSize,                \* of them for the length (8 bytes)
          MaxLength                  \* lengths are modulo this (2^64 bits)

ASSUME DigestAssumption ==
  /\ LengthSize = 1 /\ SHA1_Message_Block_Size \in Nat /\ SHA1_Message_Block_Size > LengthSize + 1
  /\ MaxLength \in Nat \ {0}

Pad_Byte == -1
ZeroByte == 0

SHA1Reset == [Message_Block |-> <<>>, Length |-> 0, Intermediate_Hash |-> <<>>,
              Computed |-> FALSE, Corrupted |-> FALSE]
SHA1ProcessMessageBlock(c) ==
  [c EXCEPT !.Intermediate_Hash = Append(@, c.Message_Block), !.Message_Block = <<>>]

(* Input that is too long corrupts the context, and later input with it.   *)
SHA1AddLength(c) ==
  LET length == (c.Length + 1) % MaxLength
  IN [c EXCEPT !.Length = length, !.Corrupted = @ \/ length = 0]
SHA1InputByte(c, unit) ==
  LET added == SHA1AddLength([c EXCEPT !.Message_Block = Append(@, unit)])
  IN IF ~added.Corrupted /\ Len(added.Message_Block) = SHA1_Message_Block_Size
       THEN SHA1ProcessMessageBlock(added) ELSE added
SHA1Input(c, units) ==
  IF units = <<>> \/ c.Corrupted THEN c
  ELSE IF c.Computed THEN [c EXCEPT !.Corrupted = TRUE]
  ELSE FoldLeft(SHA1InputByte, c, units)

(* The pad byte and zeros up to the length, in the next block if it does   *)
(* not fit in this one.                                                    *)
Zeros(n) == [i \in 1 .. n |-> ZeroByte]
FillTo(c, n) == [c EXCEPT !.Message_Block = @ \o Zeros(n - Len(@))]
SHA1PadMessage(c) ==
  LET room == SHA1_Message_Block_Size - LengthSize
      padded == [c EXCEPT !.Message_Block = Append(@, Pad_Byte)]
      last == IF Len(c.Message_Block) >= room
                THEN SHA1ProcessMessageBlock(FillTo(padded, SHA1_Message_Block_Size)) ELSE padded
  IN SHA1ProcessMessageBlock([FillTo(last, room) EXCEPT !.Message_Block = Append(@, c.Length)])
SHA1Finalize(c) == [SHA1PadMessage(c) EXCEPT !.Length = 0, !.Computed = TRUE]

SHA1Result(c) ==
  IF c.Corrupted THEN <<>> ELSE (IF c.Computed THEN c ELSE SHA1Finalize(c)).Intermediate_Hash

hash_context_init == SHA1Reset
hash_context_update(c, data) == SHA1Input(c, data)
hash_context_finish(c) == SHA1Result(c)
=============================================================================
