------------------------------ MODULE FileData ------------------------------
(***************************************************************************)
(* File contents: the block-granular and the byte-granular operations on   *)
(* the data of existing regular files.                                     *)
(*                                                                         *)
(* A file is a vector of physical blocks and an exact end of file that     *)
(* lies in its last block (inode_codec.rs).  One action is one journaled   *)
(* operation (atomic by module Wal); rejected calls are disabled.  Block   *)
(* indices and byte offsets count from zero, as in the code: the range     *)
(* a, z holds the indices a .. z - 1.  The history variable ideal says, in *)
(* terms of byte strings alone, what every file should contain.            *)
(***************************************************************************)
EXTENDS Volume

CONSTANTS
  File,        \* the regular files
  DataBlocks,  \* number of data blocks of the volume
  BlockSize,   \* BLOCK_SIZE
  Byte,        \* values of a byte
  Payload,     \* the block images callers write
  MaxRun       \* bound: blocks or bytes given to one call

ASSUME GeometryAssumption == /\ DataBlocks \in Nat
                             /\ BlockSize \in Nat \ {0}
                             /\ MaxRun \in Nat \ {0}

Block == 1 .. DataBlocks
Image == [1 .. BlockSize -> Byte]

ASSUME ByteAssumption == 0 \in Byte /\ Payload \subseteq Image

VARIABLES alloc,  \* the allocated data blocks
          files,  \* file -> [blocks, len]
          data,   \* block -> its image; a freed block keeps its image
          ideal   \* history: file -> [bytes, eof], the bytes up to the end of
                  \* the last block, and how many of them belong to the file
vars == <<alloc, files, data, ideal>>

(***************************************************************************)
(* Byte strings, blocks and allocation.                                    *)
(***************************************************************************)
Zeros(n) == [p \in 1 .. n |-> 0]

\* s with its members at the indices a .. z - 1 replaced by new.
Splice(s, a, z, new) == SubSeq(s, 1, a) \o new \o SubSeq(s, z + 1, Len(s))

\* The bytes of a sequence of images.
Flat(d) == [p \in 1 .. BlockSize * Len(d) |->
              d[(p - 1) \div BlockSize + 1][((p - 1) % BlockSize) + 1]]

\* The sequence of images of a byte string that fills whole blocks.
Chunks(bytes) == [n \in 1 .. Len(bytes) \div BlockSize |->
                    SubSeq(bytes, BlockSize * (n - 1) + 1, BlockSize * n)]

\* byte_len_to_block_count.
BlockCount(bytes) == (bytes + BlockSize - 1) \div BlockSize

N(i) == Len(files[i].blocks)
Slice(i, a, z) == SubSeq(files[i].blocks, a + 1, z)
Images(s) == [n \in DOMAIN s |-> data[s[n]]]
Padded(i) == Flat(Images(files[i].blocks))
Visible(i) == SubSeq(Padded(i), 1, files[i].len)

\* The data blocks once the blocks s have been written with the images d.
Stored(s, d) ==
  [b \in Block |-> IF b \in Range(s) THEN d[CHOOSE n \in DOMAIN s : s[n] = b]
                                     ELSE data[b]]

\* n calls of BlockAllocator::allocate, and one of allocate_contiguous.
Fresh(n) == FirstFit(n, Block \ alloc)

FreeRun(b, n) == b .. b + n - 1 \subseteq Block \ alloc
FreshRun(n) ==
  {[m \in 1 .. n |-> b + m - 1] :
     b \in {x \in Block : FreeRun(x, n) /\ \A y \in Block : FreeRun(y, n) => x <= y}}

Owned(s) == Range(s) \subseteq alloc

\* The inodes of i and j share no block, and own all of theirs.
OwnedApart(i, j) == /\ Owned(files[i].blocks) /\ Owned(files[j].blocks)
                    /\ i # j => Range(files[i].blocks) \cap Range(files[j].blocks) = {}

\* PersistedInode::replace_block_range keeps the number of unused bytes in
\* the last block; an empty file has none.
ReplaceRange(f, a, z, new) ==
  LET blocks == Splice(f.blocks, a, z, new)
      slack == BlockSize * Len(f.blocks) - f.len
  IN [blocks |-> blocks,
      len |-> IF blocks = <<>> THEN 0 ELSE BlockSize * Len(blocks) - slack]

(***************************************************************************)
(* Reference effects on byte strings.                                      *)
(***************************************************************************)
\* Whole blocks replaced; the end of file keeps its distance from the end.
RefSplice(f, a, z, bytes) ==
  LET all == Splice(f.bytes, BlockSize * a, BlockSize * z, bytes)
  IN [bytes |-> all,
      eof |-> IF all = <<>> THEN 0 ELSE Len(all) - (Len(f.bytes) - f.eof)]

\* The bytes from offset off on overwritten by d.
RefWrite(bytes, off, d) == Splice(bytes, off, off + Len(d), d)

\* The blocks w maps to images overwritten.
RefOverwrite(bytes, w) ==
  [p \in DOMAIN bytes |-> LET n == (p - 1) \div BlockSize
                          IN IF n \in DOMAIN w THEN w[n][((p - 1) % BlockSize) + 1] ELSE bytes[p]]

\* The file consists of these bytes, followed by zeros up to the block end.
RefExact(bytes) ==
  [bytes |-> bytes \o Zeros(BlockSize * BlockCount(Len(bytes)) - Len(bytes)),
   eof |-> Len(bytes)]

RefVisible(i) == SubSeq(ideal[i].bytes, 1, ideal[i].eof)
RefBlocks(i, a, z) == SubSeq(ideal[i].bytes, BlockSize * a + 1, BlockSize * z)

(***************************************************************************)
(* Operations that replace a range of blocks by fresh ones.                *)
(***************************************************************************)
\* The fresh blocks s hold the images d; the displaced blocks are freed after
\* s has been allocated.  These bytes are what the reference takes for them.
Rewrite(i, a, z, s, d, bytes) ==
  /\ Owned(Slice(i, a, z))
  /\ files' = [files EXCEPT ![i] = ReplaceRange(@, a, z, s)]
  /\ alloc' = (alloc \cup Range(s)) \ Range(Slice(i, a, z))
  /\ data' = Stored(s, d)
  /\ ideal' = [ideal EXCEPT ![i] = RefSplice(@, a, z, bytes)]

\* The caller gives the images.
Edit(i, a, z, s, d) == Rewrite(i, a, z, s, d, Flat(d))

\* append_file_block_journaled.
AppendBlock(i, s, d) == s \in Fresh(1) /\ Edit(i, N(i), N(i), s, <<d>>)

\* append_file_blocks_journaled.
AppendBlocks(i, s, d) ==
  d # <<>> /\ s \in Fresh(Len(d)) /\ Edit(i, N(i), N(i), s, d)

\* append_file_blocks_contiguous_journaled.
AppendContiguous(i, s, d) ==
  d # <<>> /\ s \in FreshRun(Len(d)) /\ Edit(i, N(i), N(i), s, d)

\* insert_file_block_journaled.
InsertBlock(i, a, s, d) == a <= N(i) /\ s \in Fresh(1) /\ Edit(i, a, a, s, <<d>>)

\* insert_file_blocks_journaled.
InsertBlocks(i, a, s, d) ==
  d # <<>> /\ a <= N(i) /\ s \in Fresh(Len(d)) /\ Edit(i, a, a, s, d)

\* insert_file_blocks_contiguous_journaled.
InsertContiguous(i, a, s, d) ==
  d # <<>> /\ a <= N(i) /\ s \in FreshRun(Len(d)) /\ Edit(i, a, a, s, d)

\* remove_file_block_journaled.
RemoveBlock(i, a) == a < N(i) /\ Edit(i, a, a + 1, <<>>, <<>>)

\* collapse_file_block_range_journaled.
CollapseRange(i, a, z) == a < z /\ z <= N(i) /\ Edit(i, a, z, <<>>, <<>>)

\* truncate_file_to_zero_journaled; nothing happens to an empty file.
TruncateToZero(i) == N(i) > 0 /\ Edit(i, 0, N(i), <<>>, <<>>)

\* truncate_file_to_blocks_journaled; nothing happens at the current count.
TruncateToBlocks(i, n) == n < N(i) /\ Edit(i, n, N(i), <<>>, <<>>)

\* truncate_file_last_block_journaled.
TruncateLastBlock(i) == N(i) > 0 /\ Edit(i, N(i) - 1, N(i), <<>>, <<>>)

\* replace_file_blocks_journaled.
ReplaceBlocks(i, a, z, s, d) ==
  a < z /\ z <= N(i) /\ d # <<>> /\ s \in Fresh(Len(d)) /\ Edit(i, a, z, s, d)

\* replace_file_blocks_contiguous_journaled.
ReplaceContiguous(i, a, z, s, d) ==
  a < z /\ z <= N(i) /\ d # <<>> /\ s \in FreshRun(Len(d)) /\ Edit(i, a, z, s, d)

\* grow_file_at_path_to_blocks_journaled.
GrowToBlocks(i, n, s) ==
  n > N(i) /\ AppendBlocks(i, s, [m \in 1 .. n - N(i) |-> Zeros(BlockSize)])

\* resize_file_at_path_to_blocks_journaled.
ResizeToBlocks(i, n, s) == GrowToBlocks(i, n, s) \/ (s = <<>> /\ TruncateToBlocks(i, n))

(***************************************************************************)
(* Clones: the fresh blocks hold copies of the source's range a, z.        *)
(***************************************************************************)
Copies(i, a, z) == Images(Slice(i, a, z))
Source(i, a, z) == a < z /\ z <= N(i) /\ Owned(Slice(i, a, z))

\* The blocks s take the place of the range b, y of file j.  The reference takes
\* the bytes of its own file i.
Copying(i, a, z, j, b, y, s) ==
  b <= y /\ y <= N(j) /\ Rewrite(j, b, y, s, Copies(i, a, z), RefBlocks(i, a, z))

\* clone_file_blocks_append_journaled.
CloneAppend(i, a, z, j, s) ==
  Source(i, a, z) /\ s \in Fresh(z - a) /\ Copying(i, a, z, j, N(j), N(j), s)

\* clone_file_blocks_insert_journaled.
CloneInsert(i, a, z, j, at, s) ==
  Source(i, a, z) /\ s \in Fresh(z - a) /\ Copying(i, a, z, j, at, at, s)

\* clone_file_blocks_replace_journaled: ranges of equal length.
CloneReplace(i, a, z, j, b, s) ==
  i # j /\ Source(i, a, z) /\ s \in Fresh(z - a) /\ Copying(i, a, z, j, b, b + z - a, s)

\* clone_file_blocks_splice_journaled.
CloneSplice(i, a, z, j, b, y, s) ==
  i # j /\ b < y /\ Source(i, a, z) /\ s \in Fresh(z - a) /\ Copying(i, a, z, j, b, y, s)

(***************************************************************************)
(* Operations that move block references without copying data.             *)
(***************************************************************************)
MovesOnly == UNCHANGED <<alloc, data>>

\* exchange_file_block_ranges_journaled: n blocks on either side; both ends
\* of file stay.
ExchangeRanges(i, a, j, b, n) ==
  /\ i # j /\ n > 0 /\ a + n <= N(i) /\ b + n <= N(j)
  /\ OwnedApart(i, j)
  /\ files' = [files EXCEPT ![i].blocks = Splice(@, a, a + n, Slice(j, b, b + n)),
                            ![j].blocks = Splice(@, b, b + n, Slice(i, a, a + n))]
  /\ ideal' = [ideal EXCEPT ![i] = RefSplice(@, a, a + n, RefBlocks(j, b, b + n)),
                            ![j] = RefSplice(@, b, b + n, RefBlocks(i, a, a + n))]
  /\ MovesOnly

\* exchange_variable_file_block_ranges_journaled.
ExchangeVariable(i, a, z, j, b, y) ==
  /\ i # j /\ a < z /\ z <= N(i) /\ b < y /\ y <= N(j)
  /\ OwnedApart(i, j)
  /\ files' = [files EXCEPT ![i] = ReplaceRange(@, a, z, Slice(j, b, y)),
                            ![j] = ReplaceRange(@, b, y, Slice(i, a, z))]
  /\ ideal' = [ideal EXCEPT ![i] = RefSplice(@, a, z, RefBlocks(j, b, y)),
                            ![j] = RefSplice(@, b, y, RefBlocks(i, a, z))]
  /\ MovesOnly

\* exchange_same_file_block_ranges_journaled: disjoint ranges, in file order.
ExchangeWithin(i, a, z, b, y) ==
  /\ a < z /\ z <= b /\ b < y /\ y <= N(i)
  /\ Owned(files[i].blocks)
  /\ files' = [files EXCEPT ![i].blocks =
                  Splice(@, a, y, Slice(i, b, y) \o Slice(i, z, b) \o Slice(i, a, z))]
  /\ ideal' = [ideal EXCEPT ![i] =
                  RefSplice(RefSplice(@, b, y, RefBlocks(i, a, z)), a, z, RefBlocks(i, b, y))]
  /\ MovesOnly

\* transfer_file_block_range_journaled: out of file i, into file j at b.
TransferRange(i, a, z, j, b) ==
  /\ i # j /\ a < z /\ z <= N(i) /\ b <= N(j)
  /\ Owned(Slice(i, a, z))
  /\ Range(Slice(i, a, z)) \cap Range(files[j].blocks) = {}
  /\ files' = [files EXCEPT ![i] = ReplaceRange(@, a, z, <<>>),
                            ![j] = ReplaceRange(@, b, b, Slice(i, a, z))]
  /\ ideal' = [ideal EXCEPT ![i] = RefSplice(@, a, z, <<>>),
                            ![j] = RefSplice(@, b, b, RefBlocks(i, a, z))]
  /\ MovesOnly

\* move_file_block_range_journaled: b counts once the range has been removed.
MoveRange(i, a, z, b) ==
  /\ a < z /\ z <= N(i) /\ b <= N(i) - (z - a) /\ b # a
  /\ Owned(files[i].blocks)
  /\ files' = [files EXCEPT ![i].blocks =
                  Splice(Splice(@, a, z, <<>>), b, b, Slice(i, a, z))]
  /\ ideal' = [ideal EXCEPT ![i].bytes =
                  Splice(Splice(@, BlockSize * a, BlockSize * z, <<>>),
                         BlockSize * b, BlockSize * b, RefBlocks(i, a, z))]
  /\ MovesOnly

\* exchange_complete_file_blocks_journaled: the vectors and the ends of file.
WholeExchange(i, j) ==
  /\ i # j
  /\ OwnedApart(i, j)
  /\ N(i) + N(j) > 0
  /\ files' = [files EXCEPT
        ![i] = [ReplaceRange(@, 0, N(i), files[j].blocks) EXCEPT !.len = files[j].len],
        ![j] = [ReplaceRange(@, 0, N(j), files[i].blocks) EXCEPT !.len = files[i].len]]
  /\ ideal' = [ideal EXCEPT ![i] = ideal[j], ![j] = ideal[i]]
  /\ MovesOnly

\* transfer_replace_complete_file_blocks_journaled: i becomes empty, the old
\* blocks of j are freed.
WholeTransferReplace(i, j) ==
  /\ i # j
  /\ OwnedApart(i, j)
  /\ N(i) + N(j) > 0
  /\ files' = [files EXCEPT
        ![i] = ReplaceRange(@, 0, N(i), <<>>),
        ![j] = [ReplaceRange(@, 0, N(j), files[i].blocks) EXCEPT !.len = files[i].len]]
  /\ alloc' = alloc \ Range(files[j].blocks)
  /\ ideal' = [ideal EXCEPT ![i] = RefExact(<<>>), ![j] = ideal[i]]
  /\ UNCHANGED data

(***************************************************************************)
(* Overwrites in place.                                                    *)
(***************************************************************************)
\* write_file_blocks_journaled: w maps block indices to their new images.
OverwriteBlocks(i, w) ==
  /\ DOMAIN w # {} /\ DOMAIN w \subseteq 0 .. N(i) - 1
  /\ Owned(files[i].blocks)
  /\ LET new == [n \in 1 .. N(i) |-> IF n - 1 \in DOMAIN w THEN w[n - 1]
                                     ELSE data[files[i].blocks[n]]]
     IN data' = Stored(files[i].blocks, new)
  /\ ideal' = [ideal EXCEPT ![i].bytes = RefOverwrite(@, w)]
  /\ UNCHANGED <<alloc, files>>

\* write_file_block_journaled.
WriteBlock(i, n, d) == OverwriteBlocks(i, [m \in {n} |-> d])

\* The bytes d written inside the end of file, where the reference takes ref.
WriteAs(i, off, d, ref) ==
  /\ d # <<>> /\ off + Len(d) <= files[i].len
  /\ Owned(files[i].blocks)
  /\ data' = Stored(files[i].blocks, Chunks(RefWrite(Padded(i), off, d)))
  /\ ideal' = [ideal EXCEPT ![i].bytes = RefWrite(@, off, ref)]
  /\ UNCHANGED <<alloc, files>>

\* write_file_range_journaled.
WriteRange(i, off, d) == WriteAs(i, off, d, d)

\* zero_file_range_journaled.
ZeroRange(i, off, n) == n > 0 /\ WriteRange(i, off, Zeros(n))

\* copy_file_range_journaled: read_file_range first, then one write.
CopyRange(i, off, j, to, n) ==
  /\ n > 0 /\ off + n <= files[i].len
  /\ WriteAs(j, to, SubSeq(Visible(i), off + 1, off + n),
                    SubSeq(RefVisible(i), off + 1, off + n))

(***************************************************************************)
(* Changes of the end of file.                                             *)
(***************************************************************************)
\* prepare_existing_tail_zero, prepare_partial_tail_zero: the bytes of the
\* last block past offset n cleared.
ZeroTail(bytes, n) == [p \in DOMAIN bytes |-> IF p <= n THEN bytes[p] ELSE 0]

\* grow_file_to_bytes_journaled.
GrowToBytes(i, n, s) ==
  /\ n > files[i].len
  /\ s \in Fresh(BlockCount(n) - N(i))
  /\ Owned(files[i].blocks)
  /\ files' = [files EXCEPT ![i] = [blocks |-> @.blocks \o s, len |-> n]]
  /\ alloc' = alloc \cup Range(s)
  /\ data' = Stored(files[i].blocks \o s,
                    Chunks(ZeroTail(Padded(i), files[i].len) \o Zeros(BlockSize * Len(s))))
  /\ ideal' = [ideal EXCEPT ![i] = RefExact(RefVisible(i) \o Zeros(n - files[i].len))]

\* truncate_file_to_bytes_journaled; nothing happens at the current length.
TruncateToBytes(i, n) ==
  /\ n < files[i].len
  /\ Owned(files[i].blocks)
  /\ LET m == BlockCount(n)
     IN /\ files' = [files EXCEPT ![i] = [ReplaceRange(@, m, N(i), <<>>) EXCEPT !.len = n]]
        /\ alloc' = alloc \ Range(Slice(i, m, N(i)))
        /\ data' = Stored(Slice(i, 0, m),
                          Chunks(ZeroTail(SubSeq(Padded(i), 1, BlockSize * m), n)))
  /\ ideal' = [ideal EXCEPT ![i] = RefExact(SubSeq(@.bytes, 1, n))]

\* resize_file_at_path_to_bytes_journaled.
ResizeToBytes(i, n, s) == GrowToBytes(i, n, s) \/ (s = <<>> /\ TruncateToBytes(i, n))

\* Mutant: the gap in the old last block keeps its bytes.
ExtendedBytesGap(old, eof, off, d) ==
  [p \in 1 .. BlockSize * BlockCount(off + Len(d)) |->
     CASE p > off /\ p <= off + Len(d) -> d[p - off]
       [] p <= off /\ p <= Len(old)    -> old[p]
       [] OTHER                        -> 0]

\* prepare_data_writes: what the bytes of the blocks become when d is written
\* at off and ends past eof; the gap and the rest of the last block are zero.
ExtendedBytes(old, eof, off, d) ==
  [p \in 1 .. BlockSize * BlockCount(off + Len(d)) |->
     CASE p > off /\ p <= off + Len(d) -> d[p - off]
       [] p <= off /\ p <= eof         -> old[p]
       [] OTHER                        -> 0]

\* write_file_range_extending_journaled.
ExtendingWrite(i, off, d, s) ==
  \/ s = <<>> /\ WriteRange(i, off, d)
  \/ /\ d # <<>> /\ off + Len(d) > files[i].len
     /\ s \in Fresh(BlockCount(off + Len(d)) - N(i))
     /\ Owned(files[i].blocks)
     /\ files' = [files EXCEPT ![i] = [blocks |-> @.blocks \o s, len |-> off + Len(d)]]
     /\ alloc' = alloc \cup Range(s)
     /\ data' = Stored(files[i].blocks \o s,
                       Chunks(ExtendedBytes(Padded(i), files[i].len, off, d)))
     /\ ideal' = [ideal EXCEPT ![i] =
           LET gap == IF off > @.eof THEN off - @.eof ELSE 0
           IN RefExact(RefWrite(RefVisible(i) \o Zeros(gap), off, d))]

(***************************************************************************)
(* The initial state, and the inputs of the calls.  Module PathData calls  *)
(* the operations.                                                         *)
(***************************************************************************)
\* No file has contents; the data area holds the image of a formatted device.
Init == /\ alloc = {}
        /\ files = [i \in File |-> [blocks |-> <<>>, len |-> 0]]
        /\ data = [b \in Block |-> Zeros(BlockSize)]
        /\ ideal = [i \in File |-> [bytes |-> <<>>, eof |-> 0]]

\* Block indices and byte offsets inside file i and at its end, and all there are.
Position(i) == 0 .. N(i)
Before(z) == 0 .. z - 1
ByteAt(i) == 0 .. files[i].len
Index == 0 .. DataBlocks
Offset == 0 .. BlockSize * DataBlocks

ImageSeqs == UNION {[1 .. n -> Payload] : n \in 1 .. MaxRun}
ByteSeqs == UNION {[1 .. n -> Byte \ {0}] : n \in 1 .. MaxRun}  \* ZeroRange writes zeros
FreshSeqs == UNION {Fresh(n) : n \in Index}

(***************************************************************************)
(* Properties.                                                             *)
(***************************************************************************)
\* The tables are well typed and satisfy validate_inode_fields: the end of
\* file lies in the last block, whatever mixture of block-granular and
\* byte-granular operations led here.
TypeOK ==
  /\ alloc \subseteq Block
  /\ data \in [Block -> Image]
  /\ \A i \in File :
        /\ files[i].blocks \in Seq(Block)
        /\ files[i].len \in Nat
        /\ BlockCount(files[i].len) = N(i)

\* A data block is allocated exactly when one file references it, once.
Ownership == /\ BlocksOwnedOnce(alloc, files)
             /\ OrphanedAllocations(alloc, files) = {}

\* Every file holds exactly the bytes the operations should have left in it,
\* up to the end of its last block: no operation on one file, on a clone of
\* it or on a block it once owned changes another, fragmentation and block
\* reuse are invisible, and a copy holds what the reference held in the range it
\* was taken from, overlap included.  A byte-exact growth or extending write shows
\* zeros only, so what a byte-exact truncation discarded never comes back.  A
\* block-granular edit keeps the number of unused bytes in the last block: the
\* reference moves the end of file with the blocks, over whatever bytes are there.
ContentsAsSpecified ==
  \A i \in File : Padded(i) = ideal[i].bytes /\ files[i].len = ideal[i].eof

=============================================================================
