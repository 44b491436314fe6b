---------------------------- MODULE AndroidSparse ----------------------------
(***************************************************************************)
(* android/android_sparse.c: building a sparse image from the blocks that  *)
(* are in use (android_sparse_add_chunk, android_sparse_finish) and        *)
(* unpacking one (sparse_unpack2fd).                                       *)
(*                                                                         *)
(* Files are sequences of units.  The file header, a chunk header and the  *)
(* 4 bytes after a FILL or CRC32 header are one unit each, a block is      *)
(* BlkUnits of them; a unit is abstracted to what it holds.  Offsets and   *)
(* sizes are computed as the code does, in uint32_t where it does.         *)
(***************************************************************************)
EXTENDS Bitmask, Files, SequencesExt

CONSTANTS TotalBlks,   \* blocks of the image
          BlkUnits,    \* units in a block
          Mod32,       \* 2^32 bytes, in units
          MaxAdds,     \* bound on the calls of android_sparse_add_chunk
          MaxFailures, \* bound on failing write_cb and short writes
          Foreign      \* chunk lists of sparse images made by other tools

ASSUME SparseAssumption ==
  /\ TotalBlks \in Nat \ {0} /\ BlkUnits \in Nat \ {0} /\ Mod32 \in Nat \ {0}
  /\ MaxAdds \in Nat /\ MaxFailures \in Nat

(* A chunk of an image: first is the first block of a RAW one, and what a  *)
(* FILL one has in excess of its 4 bytes.  BAD is a type nobody knows.     *)
ChunkTypes == {"RAW", "---", "FIL", "CRC", "BAD"}
Chunk == [type : ChunkTypes, first : Nat, blks : Nat]
ASSUME ForeignAssumption == \A chunks \in Foreign : chunks \in Seq(Chunk) /\ chunks # <<>>

Block == 0 .. TotalBlks - 1

VARIABLES pc,           \* "add", "write", "built", "unpack" or "done"
          bitmap,       \* input->chunk_bitmasks
          error,        \* input->error > 0
          adds,         \* calls of android_sparse_add_chunk so far
          img,          \* the sparse image
          it, blk, offset, total_chunks,  \* locals of android_sparse_finish
          ret,          \* what finish and then unpack2fd return
          fast,         \* --fast
          chunk,        \* index of the next chunk to unpack
          offset_in, offset_out,
          out,          \* the file unpacked to
          failures,     \* failing writes so far
          added,        \* history: blocks added
          foreign       \* history: the chunk list of a foreign image, or <<>>

writer == <<bitmap, error, adds, it, blk, offset, total_chunks>>
reader == <<fast, chunk, offset_in, offset_out, out>>
history == <<added, foreign>>
vars == <<pc, writer, img, ret, reader, failures, history>>

-----------------------------------------------------------------------------
(* Units, and writing them at an offset: a gap is filled with zeros.       *)
Zero == [is |-> "zero", of |-> 0, n |-> 0, sz |-> 0]
Data(b, k) == [is |-> "data", of |-> b, n |-> k, sz |-> 0]
FillUnit(v) == [is |-> "fill", of |-> v, n |-> 0, sz |-> 0]
FileHeader(chunks) == [is |-> "header", of |-> 0, n |-> chunks, sz |-> 0]
ChunkHeader(type, blks, total) == [is |-> type, of |-> 0, n |-> blks, sz |-> total]

Write(file, at, units) == WriteAt(file, at, units, Zero)
ReadUnit(file, at) == UnitAt(file, at, Zero)

Blocks(from, count) ==
  [u \in 1 .. count * BlkUnits |->
     Data(from + ((u - 1) \div BlkUnits), ((u - 1) % BlkUnits) + 1)]
Zeros(n) == [u \in 1 .. n |-> Zero]

DontCare(blks) == ChunkHeader("---", blks, 1)
Raw(blks) == ChunkHeader("RAW", blks, (blks * BlkUnits + 1) % Mod32)

(* A foreign image, laid out by its chunk list.                            *)
ChunkUnits(c) ==
  IF c.type = "RAW" THEN <<Raw(c.blks)>> \o Blocks(c.first, c.blks)
  ELSE IF c.type = "FIL" THEN <<ChunkHeader("FIL", c.blks, 2 + c.first), FillUnit(1)>>
  ELSE IF c.type = "CRC" THEN <<ChunkHeader("CRC", 0, 2), FillUnit(0)>>
  ELSE <<ChunkHeader(c.type, c.blks, 1)>>
Body(chunks) == FlattenSeq([i \in DOMAIN chunks |-> ChunkUnits(chunks[i])])
LayOut(chunks) == <<FileHeader(Len(chunks))>> \o Body(chunks)

-----------------------------------------------------------------------------
TypeOK ==
  /\ pc \in {"add", "write", "built", "unpack", "done"}
  /\ bitmap.total_bits = TotalBlks
  /\ adds \in 0 .. MaxAdds /\ failures \in 0 .. MaxFailures
  /\ ret \in {0, -1} /\ error \in BOOLEAN /\ fast \in BOOLEAN
  /\ blk \in 0 .. TotalBlks /\ offset \in Nat /\ total_chunks \in Nat
  /\ it.start \in -1 .. TotalBlks - 1 /\ it.bits \in 0 .. TotalBlks
  /\ offset_in \in Nat /\ offset_out \in Nat /\ chunk \in Nat
  /\ added \subseteq Block

NoRun == [start |-> -1, end |-> -1, bits |-> 0]

Init ==
  /\ bitmap = alloc_bitmask(TotalBlks) /\ error = FALSE /\ adds = 0
  /\ it = NoRun /\ blk = 0 /\ offset = 1 /\ total_chunks = 0
  /\ ret = -1
  /\ fast \in BOOLEAN /\ chunk = 0 /\ offset_in = 1 /\ offset_out = 0 /\ out = <<>>
  /\ failures = 0 /\ added = {}
  /\ \/ pc = "add" /\ img = <<>> /\ foreign = <<>>
     \/ pc = "built" /\ foreign \in Foreign /\ img = LayOut(foreign)

(* android_sparse_add_chunk: blocks may be added again, in any order.      *)
AddChunk(from, count) ==
  /\ pc = "add" /\ adds < MaxAdds
  /\ adds' = adds + 1
  /\ bitmap' = bitmask_set_bits(bitmap, from, count)
  /\ error' = (error \/ set_bits_fails(bitmap, from, count))
  /\ added' = added \cup {b \in Block : from <= b /\ b < from + count}
  /\ UNCHANGED <<pc, img, it, blk, offset, total_chunks, ret, reader, failures, foreign>>

(* android_sparse_finish.  A call that was out of range makes it fail.     *)
FinishFails ==
  /\ pc = "add" /\ error
  /\ ret' = -1 /\ pc' = "done"
  /\ UNCHANGED <<writer, img, reader, failures, history>>

FinishBegins ==
  /\ pc = "add" /\ ~error
  /\ it' = iterator_init(bitmap)
  /\ pc' = "write"
  /\ UNCHANGED <<bitmap, error, adds, img, blk, offset, total_chunks, ret, reader,
                 failures, history>>

(* One run of blocks: a DONT_CARE chunk for the gap before it, its header, *)
(* and its data, written by write_cb, which may fail and then leaves what  *)
(* it had written.                                                         *)
HeaderUnitsMutant(gap) ==      \* mutant: the blocks before the gap count again
  IF gap THEN <<DontCare(it.start), Raw(it.bits)>> ELSE <<Raw(it.bits)>>
HeaderUnits(gap) == IF gap THEN <<DontCare(it.start - blk), Raw(it.bits)>> ELSE <<Raw(it.bits)>>

WriteRun ==
  /\ pc = "write" /\ it.start >= 0
  /\ LET gap == blk # it.start
         heads == HeaderUnits(gap)
     IN /\ total_chunks' = total_chunks + Len(heads)
        /\ \/ /\ img' = Write(img, offset, heads \o Blocks(it.start, it.bits))
              /\ ret' = 0
              /\ offset' = offset + Len(heads) + it.bits * BlkUnits
              /\ blk' = it.start + it.bits
              /\ it' = iterator_next(bitmap, it)
              /\ UNCHANGED <<pc, failures>>
           \/ /\ failures < MaxFailures
              /\ failures' = failures + 1
              /\ img' = Write(img, offset, heads)
              /\ ret' = -1 /\ pc' = "done"
              /\ UNCHANGED <<offset, blk, it>>
  /\ UNCHANGED <<bitmap, error, adds, reader, history>>

(* The gap at the end, then the header of the file.                        *)
FinishEnds ==
  /\ pc = "write" /\ it.start < 0
  /\ LET tail == IF blk < TotalBlks THEN <<DontCare(TotalBlks - blk)>> ELSE <<>>
         body == IF tail = <<>> THEN img ELSE Write(img, offset, tail)
     IN /\ total_chunks' = total_chunks + Len(tail)
        /\ img' = Write(body, 0, <<FileHeader(total_chunks')>>)
  /\ pc' = "built"
  /\ UNCHANGED <<bitmap, error, adds, it, blk, offset, ret, reader, failures, history>>

-----------------------------------------------------------------------------
(* sparse_unpack2fd on the image: one chunk a step.                        *)
UnpackBegins ==
  /\ pc = "built"
  /\ pc' = "unpack"
  /\ ret' = 0
  /\ UNCHANGED <<writer, img, reader, failures, history>>

Header == ReadUnit(img, offset_in)
TotalChunks == ReadUnit(img, 0).n
AtChunk(types) == pc = "unpack" /\ chunk < TotalChunks /\ Header.is \in types

NextChunk(data) ==
  /\ chunk' = chunk + 1
  /\ offset_in' = offset_in + Header.sz
  /\ offset_out' = offset_out + data

(* dd writes all units or, on a write error, some of them.                 *)
Written(units, all) ==
  IF all THEN out' = Write(out, offset_out, units) /\ UNCHANGED failures
  ELSE /\ failures < MaxFailures /\ failures' = failures + 1
       /\ \E n \in 0 .. Len(units) - 1 :
            out' = Write(out, offset_out, SubSeq(units, 1, n))

RawData == (Header.sz - 1 + Mod32) % Mod32
RawUnits == [u \in 1 .. RawData |-> ReadUnit(img, offset_in + u)]

UnpackRaw ==
  /\ AtChunk({"RAW"})
  /\ Written(RawUnits, TRUE)
  /\ NextChunk(RawData)
  /\ UNCHANGED <<pc, writer, img, ret, fast, history>>

UnpackRawFailsMutant ==   \* mutant: the result of dd is not looked at
  /\ AtChunk({"RAW"})
  /\ Written(RawUnits, FALSE)
  /\ NextChunk(RawData)
  /\ UNCHANGED <<pc, writer, img, ret, fast, history>>
UnpackRawFails ==
  /\ AtChunk({"RAW"})
  /\ Written(RawUnits, FALSE)
  /\ pc' = "done" /\ ret' = -1
  /\ UNCHANGED <<writer, img, fast, chunk, offset_in, offset_out, history>>

(* The size of what is not in the image is a uint32_t; a short write of it *)
(* is not noticed.                                                         *)
Expanded == (Header.n * BlkUnits) % Mod32

UnpackDontCare == \E all \in BOOLEAN :
  /\ AtChunk({"---"})
  /\ IF fast THEN all /\ UNCHANGED <<out, failures>> ELSE Written(Zeros(Expanded), all)
  /\ NextChunk(Expanded)
  /\ UNCHANGED <<pc, writer, img, ret, fast, history>>

BadFillSize == Header.sz # 2

UnpackFill == \E all \in BOOLEAN :
  /\ AtChunk({"FIL"}) /\ ~BadFillSize
  /\ Written([u \in 1 .. Expanded |-> ReadUnit(img, offset_in + 1)], all)
  /\ NextChunk(Expanded)
  /\ UNCHANGED <<pc, writer, img, ret, fast, history>>

UnpackCrc ==
  /\ AtChunk({"CRC"})
  /\ NextChunk(0)
  /\ UNCHANGED <<pc, writer, img, ret, fast, out, failures, history>>

(* A type that is not known, the end of the file where a header should be, *)
(* or a FILL chunk with more than its 4 bytes.                             *)
UnpackRefuses ==
  /\ pc = "unpack" /\ chunk < TotalChunks
  /\ Header.is = "FIL" => BadFillSize
  /\ Header.is \notin {"RAW", "---", "CRC"}
  /\ pc' = "done" /\ ret' = -1
  /\ UNCHANGED <<writer, img, reader, failures, history>>

UnpackEnds ==
  /\ pc = "unpack" /\ chunk >= TotalChunks
  /\ pc' = "done"
  /\ UNCHANGED <<writer, img, ret, reader, failures, history>>

Next ==
  \/ \E from \in Block, count \in 1 .. TotalBlks : AddChunk(from, count)
  \/ FinishFails \/ FinishBegins \/ WriteRun \/ FinishEnds
  \/ UnpackBegins \/ UnpackRaw \/ UnpackRawFails \/ UnpackDontCare \/ UnpackFill
  \/ UnpackCrc \/ UnpackRefuses \/ UnpackEnds

Spec == Init /\ [][Next]_vars

-----------------------------------------------------------------------------
(* What a sparse image stands for, provided that no chunk reaches 4 GiB.   *)
Runs == {r \in Block \X Block :
           /\ r[1] <= r[2]
           /\ \A b \in r[1] .. r[2] : (b \in added) = (r[1] \in added)
           /\ r[1] > 0 => (r[1] - 1 \in added) # (r[1] \in added)
           /\ r[2] < TotalBlks - 1 => (r[2] + 1 \in added) # (r[2] \in added)}
Fits(blks) == blks * BlkUnits + 1 < Mod32
BelowLimit == IF foreign # <<>> THEN \A i \in DOMAIN foreign : Fits(foreign[i].blks)
                                ELSE \A r \in Runs : Fits(r[2] - r[1] + 1)

Expansion(c) == IF c.type = "RAW" THEN Blocks(c.first, c.blks)
                ELSE IF c.type = "FIL" THEN [u \in 1 .. c.blks * BlkUnits |-> FillUnit(1)]
                ELSE IF c.type = "CRC" THEN <<>>
                ELSE Zeros(c.blks * BlkUnits)
Means(chunks) == FlattenSeq([i \in DOMAIN chunks |-> Expansion(chunks[i])])
Meaning ==
  IF foreign # <<>> THEN Means(foreign)
  ELSE [u \in 1 .. TotalBlks * BlkUnits |->
          IF (u - 1) \div BlkUnits \in added THEN Blocks(0, TotalBlks)[u] ELSE Zero]
Unpacked == pc = "done" /\ ret = 0

(* The walk over the chunks, each total_sz after the one before it: where  *)
(* the walk is after k of them, and how many blocks they have.             *)
Walk == LET W[k \in 0 .. TotalChunks] ==
              IF k = 0 THEN [at |-> 1, blks |-> 0]
              ELSE LET h == ReadUnit(img, W[k - 1].at)
                   IN [at |-> W[k - 1].at + h.sz, blks |-> W[k - 1].blks + h.n]
        IN W

(* The chunks of a finished image follow each other exactly to its end,    *)
(* their blocks add up to total_blks, and no two neighbours are of the     *)
(* same type.                                                              *)
ImageIsExact ==
  pc = "built" /\ foreign = <<>> /\ BelowLimit =>
    LET walk == Walk
        HeadOf(i) == ReadUnit(img, walk[i - 1].at)
    IN /\ \A i \in 1 .. TotalChunks : HeadOf(i).is \in {"RAW", "---"} /\ HeadOf(i).n > 0
       /\ \A i \in 1 .. TotalChunks - 1 : HeadOf(i).is # HeadOf(i + 1).is
       /\ walk[TotalChunks] = [at |-> Len(img), blks |-> TotalBlks]

(* What sparse_sha1sum hashes: its own walk over the chunks, block by      *)
(* block and without 32-bit sizes for what is not in the image.            *)
Sha1Stream ==
  LET walk == Walk
      Hashed(i) ==
        LET at == walk[i - 1].at
            head == ReadUnit(img, at)
            n == head.n * BlkUnits
        IN IF head.is = "RAW" THEN [u \in 1 .. n |-> ReadUnit(img, at + u)]
           ELSE IF head.is = "FIL" THEN [u \in 1 .. n |-> ReadUnit(img, at + 1)]
           ELSE IF head.is = "CRC" THEN <<>> ELSE Zeros(n)
  IN FlattenSeq([i \in 1 .. TotalChunks |-> Hashed(i)])

(* Unpacking an image gives back the blocks it was built from, zeros in    *)
(* between, and its whole length, in whatever order and however often the  *)
(* blocks were added, for images of which no run reaches 4 GiB.  --fast    *)
(* only leaves out what DONT_CARE chunks stand for: the file may be        *)
(* shorter, and reads as the same bytes.  A write error is noticed, or has *)
(* cost nothing but zeros and filling: no unpack that returns 0 lost a     *)
(* byte of a RAW chunk (sparse_unpack2fd).  "calc the unpack file's        *)
(* sha1sum": the hash is of the very file unpack writes, although the two  *)
(* walk the chunks differently.                                            *)
UnpackReproduces ==
  Unpacked /\ BelowLimit =>
    /\ \A i \in 1 .. Len(Meaning) :
         failures = 0 \/ Meaning[i].is = "data" => ReadUnit(out, i - 1) = Meaning[i]
    /\ failures = 0 => IF fast THEN Len(out) <= Len(Meaning) ELSE out = Meaning
    /\ failures = 0 /\ ~fast => Sha1Stream = out
=============================================================================
