------------------------------ MODULE PathData ------------------------------
(***************************************************************************)
(* The operations on file contents as callers see them: on paths.  Each    *)
(* recovers the journal, resolves its paths through symbolic links and     *)
(* hands the inodes to an operation of module FileData; some look at the   *)
(* inode first and choose among several, and some create the file.         *)
(*                                                                         *)
(* One directory of names, hard links among them, and symbolic links that  *)
(* stay: how a path is resolved is in PathLookup, what a crash leaves in   *)
(* Wal and PathOps.  A file without a name does not exist and is empty.    *)
(***************************************************************************)
EXTENDS FileData

CONSTANTS
  Name,      \* names of files
  Symlink,   \* symbolic link -> the name it leads to
  None       \* no file

ASSUME NameAssumption == /\ None \notin File
                         /\ IsFiniteSet(Name)
                         /\ \A l \in DOMAIN Symlink : l \notin Name /\ Symlink[l] \in Name

VARIABLES
  names,     \* name -> file or None
  call       \* the last call: its kind, the files it was given, the new file

pathVars == <<vars, names, call>>

Paths == Name \cup DOMAIN Symlink

\* resolve_path_following_symlinks: at most one file.
At(p) == {names[IF p \in Name THEN p ELSE Symlink[p]]} \ {None}

Called(kind, on, new) == call' = [kind |-> kind, on |-> on, new |-> new]

\* A call that goes through to an operation of FileData.
Delegates(on) == UNCHANGED names /\ Called("data", on, None)

(***************************************************************************)
(* Reading.                                                                *)
(***************************************************************************)
\* read_file_blocks_at_path, read_file_range_at_path.
ReadFile(i) == Visible(i)

\* The range check of read_file_range for the blocks a .. z - 1.
Readable(i, a, z) == a < z /\ BlockSize * z <= files[i].len

\* metadata_at_path.
Metadata(i) == [logical_blocks |-> N(i), byte_len |-> files[i].len,
                references |-> Cardinality({n \in Name : names[n] = i})]

(***************************************************************************)
(* One path, one operation.                                                *)
(***************************************************************************)
AppendBlocksAt(p) == \E i \in At(p), d \in ImageSeqs :
  \E s \in Fresh(Len(d)) : AppendBlocks(i, s, d) /\ Delegates({i})

AppendContiguousAt(p) == \E i \in At(p), d \in ImageSeqs :
  \E s \in FreshRun(Len(d)) : AppendContiguous(i, s, d) /\ Delegates({i})

AppendZeroedContiguousAt(p) == \E i \in At(p), n \in 1 .. MaxRun :
  \E s \in FreshRun(n) : AppendContiguous(i, s, [m \in 1 .. n |-> Zeros(BlockSize)]) /\ Delegates({i})

InsertBlocksAt(p) == \E i \in At(p) : \E a \in Position(i), d \in ImageSeqs :
  \E s \in Fresh(Len(d)) : InsertBlocks(i, a, s, d) /\ Delegates({i})

InsertContiguousAt(p) == \E i \in At(p) : \E a \in Position(i), d \in ImageSeqs :
  \E s \in FreshRun(Len(d)) : InsertContiguous(i, a, s, d) /\ Delegates({i})

InsertZeroedContiguousAt(p) == \E i \in At(p) :
  \E a \in Position(i), n \in 1 .. MaxRun :
  \E s \in FreshRun(n) : InsertContiguous(i, a, s, [m \in 1 .. n |-> Zeros(BlockSize)]) /\ Delegates({i})

ReplaceBlocksAt(p) == \E i \in At(p) :
  \E z \in Position(i), d \in ImageSeqs : \E a \in Before(z) :
  \E s \in Fresh(Len(d)) : ReplaceBlocks(i, a, z, s, d) /\ Delegates({i})

ReplaceContiguousAt(p) == \E i \in At(p) :
  \E z \in Position(i), d \in ImageSeqs : \E a \in Before(z) :
  \E s \in FreshRun(Len(d)) : ReplaceContiguous(i, a, z, s, d) /\ Delegates({i})

\* As many zero blocks as are replaced.
ReplaceZeroedContiguousAt(p) == \E i \in At(p) :
  \E a \in Position(i), n \in 1 .. MaxRun :
  \E s \in FreshRun(n) :
     ReplaceContiguous(i, a, a + n, s, [m \in 1 .. n |-> Zeros(BlockSize)]) /\ Delegates({i})

RemoveBlockAt(p) == \E i \in At(p) :
  \E a \in Position(i) : RemoveBlock(i, a) /\ Delegates({i})

CollapseRangeAt(p) == \E i \in At(p) :
  \E z \in Position(i) : \E a \in Before(z) : CollapseRange(i, a, z) /\ Delegates({i})

MoveRangeAt(p) == \E i \in At(p) :
  \E z, b \in Position(i) : \E a \in Before(z) : MoveRange(i, a, z, b) /\ Delegates({i})

OverwriteBlocksAt(p) == \E i \in At(p) :
  \E S \in {T \in SUBSET (0 .. N(i) - 1) : Cardinality(T) <= MaxRun} :
     \E w \in [S -> Payload] : OverwriteBlocks(i, w) /\ Delegates({i})

WriteRangeAt(p) == \E i \in At(p) : \E off \in ByteAt(i), d \in ByteSeqs :
  WriteRange(i, off, d) /\ Delegates({i})

ZeroRangeAt(p) == \E i \in At(p) : \E off, n \in ByteAt(i) :
  ZeroRange(i, off, n) /\ Delegates({i})

ExtendingWriteAt(p) == \E i \in At(p), off \in Offset, d \in ByteSeqs, s \in FreshSeqs :
  ExtendingWrite(i, off, d, s) /\ Delegates({i})

TruncateToBytesAt(p) == \E i \in At(p) :
  \E n \in ByteAt(i) : TruncateToBytes(i, n) /\ Delegates({i})

TruncateToBlocksAt(p) == \E i \in At(p) :
  \E n \in Position(i) : TruncateToBlocks(i, n) /\ Delegates({i})

GrowToBytesAt(p) == \E i \in At(p), n \in Offset, s \in FreshSeqs :
  GrowToBytes(i, n, s) /\ Delegates({i})

ResizeToBytesAt(p) == \E i \in At(p), n \in Offset, s \in FreshSeqs :
  ResizeToBytes(i, n, s) /\ Delegates({i})

GrowToBlocksAt(p) == \E i \in At(p), n \in Index, s \in FreshSeqs :
  GrowToBlocks(i, n, s) /\ Delegates({i})

ResizeToBlocksAt(p) == \E i \in At(p), n \in Index, s \in FreshSeqs :
  ResizeToBlocks(i, n, s) /\ Delegates({i})

\* The operations on one block, which callers reach by inode id only.
OneBlockOps(p) == \E i \in At(p) :
  /\ \/ \E s \in Fresh(1), d \in Payload : AppendBlock(i, s, d)
     \/ \E s \in Fresh(1), d \in Payload, a \in Position(i) : InsertBlock(i, a, s, d)
     \/ \E n \in Position(i), d \in Payload : WriteBlock(i, n, d)
     \/ TruncateLastBlock(i)
     \/ TruncateToZero(i)
  /\ Delegates({i})

(***************************************************************************)
(* Operations that choose by what the inode is.                            *)
(***************************************************************************)
\* write_file_blocks_at_path_journaled of path_file_write.rs: d fills the blocks.
WriteFileBlocksAt(p) == \E i \in At(p), d \in ImageSeqs :
  Len(d) = N(i) /\ WriteRange(i, 0, Flat(d)) /\ Delegates({i})

\* replace_file_at_path_journaled on inode i.
ReplaceFile(i, d) ==
  \/ N(i) = 0 /\ d # <<>> /\ \E s \in Fresh(Len(d)) : AppendBlocks(i, s, d)
  \/ N(i) > 0 /\ d = <<>> /\ TruncateToBlocks(i, 0)
  \/ N(i) > 0 /\ d # <<>> /\ \E s \in Fresh(Len(d)) : ReplaceBlocks(i, 0, N(i), s, d)

ReplaceFileAt(p) == \E i \in At(p), d \in ImageSeqs \cup {<<>>} :
  ReplaceFile(i, d) /\ Delegates({i})

\* zero_file_at_path_journaled: all bytes of all blocks, in one range write; the
\* range write refuses what lies past the end of file.
ZeroFileAt(p) == \E i \in At(p) :
  /\ Metadata(i).logical_blocks > 0
  /\ ZeroRange(i, 0, BlockSize * Metadata(i).logical_blocks)
  /\ Delegates({i})

(***************************************************************************)
(* Two paths, which may name the same file.                                *)
(***************************************************************************)
CloneAppendAt(p, q) == \E i \in At(p), j \in At(q) :
  \E z \in Position(i) : \E a \in Before(z) :
  \E s \in Fresh(z - a) : CloneAppend(i, a, z, j, s) /\ Delegates({j})

CloneInsertAt(p, q) == \E i \in At(p), j \in At(q) :
  \E z \in Position(i), at \in Position(j) : \E a \in Before(z) :
  \E s \in Fresh(z - a) : CloneInsert(i, a, z, j, at, s) /\ Delegates({j})

CloneReplaceAt(p, q) == \E i \in At(p), j \in At(q) \ At(p) :
  \E z \in Position(i), b \in Position(j) : \E a \in Before(z) :
  \E s \in Fresh(z - a) : CloneReplace(i, a, z, j, b, s) /\ Delegates({j})

CloneSpliceAt(p, q) == \E i \in At(p), j \in At(q) \ At(p) :
  \E z \in Position(i), y \in Position(j) : \E a \in Before(z), b \in Before(y) :
  \E s \in Fresh(z - a) : CloneSplice(i, a, z, j, b, y, s) /\ Delegates({j})

\* The contiguous clones read the source as bytes, up to the end of file.
ContiguousCloneAppendAt(p, q) == \E i \in At(p), j \in At(q) :
  \E z \in Position(i) : \E a \in Before(z) :
  /\ Readable(i, a, z)
  /\ \E s \in FreshRun(z - a) : Copying(i, a, z, j, N(j), N(j), s)
  /\ Delegates({j})

ContiguousCloneInsertAt(p, q) == \E i \in At(p), j \in At(q) :
  \E z \in Position(i), at \in Position(j) : \E a \in Before(z) :
  /\ Readable(i, a, z)
  /\ \E s \in FreshRun(z - a) : Copying(i, a, z, j, at, at, s)
  /\ Delegates({j})

ContiguousCloneReplaceAt(p, q) == \E i \in At(p), j \in At(q) \ At(p) :
  \E z \in Position(i), b \in Position(j) : \E a \in Before(z) :
  /\ Readable(i, a, z)
  /\ \E s \in FreshRun(z - a) : Copying(i, a, z, j, b, b + z - a, s)
  /\ Delegates({j})

ContiguousCloneSpliceAt(p, q) == \E i \in At(p), j \in At(q) \ At(p) :
  \E z \in Position(i), y \in Position(j) : \E a \in Before(z), b \in Before(y) :
  /\ Readable(i, a, z)
  /\ \E s \in FreshRun(z - a) : Copying(i, a, z, j, b, y, s)
  /\ Delegates({j})

ExchangeRangesAt(p, q) == \E i \in At(p), j \in At(q) \ At(p) :
  \E a, n \in Position(i), b \in Position(j) :
  ExchangeRanges(i, a, j, b, n) /\ Delegates({i, j})

ExchangeVariableAt(p, q) == \E i \in At(p), j \in At(q) \ At(p) :
  \E z \in Position(i), y \in Position(j) : \E a \in Before(z), b \in Before(y) :
  ExchangeVariable(i, a, z, j, b, y) /\ Delegates({i, j})

\* Two paths of one file.
ExchangeWithinAt(p, q) == \E i \in At(p) :
  \E z, y \in Position(i) : \E a \in Before(z), b \in Before(y) :
  At(q) = {i} /\ ExchangeWithin(i, a, z, b, y) /\ Delegates({i})

TransferRangeAt(p, q) == \E i \in At(p), j \in At(q) \ At(p) :
  \E z \in Position(i), b \in Position(j) : \E a \in Before(z) :
  TransferRange(i, a, z, j, b) /\ Delegates({i, j})

WholeExchangeAt(p, q) == \E i \in At(p), j \in At(q) \ At(p) :
  WholeExchange(i, j) /\ Delegates({i, j})

WholeTransferReplaceAt(p, q) == \E i \in At(p), j \in At(q) \ At(p) :
  WholeTransferReplace(i, j) /\ Delegates({i, j})

CopyRangeAt(p, q) == \E i \in At(p), j \in At(q) :
  \E off, n \in ByteAt(i), to \in ByteAt(j) :
  CopyRange(i, off, j, to, n) /\ Delegates({j})

\* clone_file_to_existing_path_journaled: chunks_exact leaves out a last block
\* that the end of file does not fill.
CloneOverAt(p, q) == \E i \in At(p), j \in At(q) :
  /\ i # j
  /\ ReplaceFile(j, Chunks(ReadFile(i)))
  /\ UNCHANGED names
  /\ call' = [kind |-> "clone over", on |-> {j}, new |-> i]

(***************************************************************************)
(* Creation and removal.                                                   *)
(***************************************************************************)
\* The new file i at name p: its fresh blocks s hold the images d, its end of
\* file is at len.  The reference takes these bytes for it.
NewFile(p, i, s, d, len, bytes) ==
  /\ names[p] = None
  /\ ~\E n \in Name : names[n] = i
  /\ names' = [names EXCEPT ![p] = i]
  /\ files' = [files EXCEPT ![i] = [blocks |-> s, len |-> len]]
  /\ alloc' = alloc \cup Range(s)
  /\ data' = Stored(s, d)
  /\ ideal' = [ideal EXCEPT ![i] = [bytes |-> bytes, eof |-> len]]

\* create_empty_file_at_path_journaled, create_file_with_blocks_at_path_journaled.
CreateFileAt(p) == \E i \in File, d \in ImageSeqs \cup {<<>>} :
  /\ \E s \in Fresh(Len(d)) : NewFile(p, i, s, d, BlockSize * Len(d), Flat(d))
  /\ Called("create", {}, i)

CreateContiguousAt(p) == \E i \in File, d \in ImageSeqs :
  /\ \E s \in FreshRun(Len(d)) : NewFile(p, i, s, d, BlockSize * Len(d), Flat(d))
  /\ Called("create", {}, i)

\* clone_file_blocks_to_path_journaled.
CloneBlocksTo(p, q) == \E i \in At(p), j \in File :
  \E z \in Position(i) : \E a \in Before(z) :
  /\ Readable(i, a, z)
  /\ \E s \in Fresh(z - a) :
       NewFile(q, j, s, Copies(i, a, z), BlockSize * (z - a), RefBlocks(i, a, z))
  /\ Called("create", {}, j)

ContiguousCloneBlocksTo(p, q) == \E i \in At(p), j \in File :
  \E z \in Position(i) : \E a \in Before(z) :
  /\ Readable(i, a, z)
  /\ \E s \in FreshRun(z - a) :
       NewFile(q, j, s, Copies(i, a, z), BlockSize * (z - a), RefBlocks(i, a, z))
  /\ Called("create", {}, j)

\* The images of the bytes, the last one padded with zeros.
PaddedChunks(bytes) == Chunks(bytes \o Zeros(BlockSize * BlockCount(Len(bytes)) - Len(bytes)))

\* Mutant: the blocks are copied as they are, with what lies past the end of file.
CloneFileToRaw(p, q) == \E i \in At(p), j \in File :
  /\ \E s \in Fresh(Metadata(i).logical_blocks) :
       NewFile(q, j, s, Images(files[i].blocks), Metadata(i).byte_len,
               RefExact(RefVisible(i)).bytes)
  /\ call' = [kind |-> "clone file", on |-> {i}, new |-> j]

\* clone_file_to_path_journaled.
CloneFileTo(p, q) == \E i \in At(p), j \in File :
  /\ \E s \in Fresh(Metadata(i).logical_blocks) :
       NewFile(q, j, s, PaddedChunks(ReadFile(i)), Metadata(i).byte_len,
               RefExact(RefVisible(i)).bytes)
  /\ call' = [kind |-> "clone file", on |-> {i}, new |-> j]

\* hard_link_file_at_path_journaled: the source's final symbolic link is followed.
LinkAt(p, q) == \E i \in At(p) :
  /\ q \in Name /\ names[q] = None
  /\ names' = [names EXCEPT ![q] = i]
  /\ Called("link", {}, None)
  /\ UNCHANGED vars

Retire(i) ==
  /\ files' = [files EXCEPT ![i] = [blocks |-> <<>>, len |-> 0]]
  /\ alloc' = alloc \ Range(files[i].blocks)
  /\ ideal' = [ideal EXCEPT ![i] = [bytes |-> <<>>, eof |-> 0]]
  /\ UNCHANGED data

\* Mutant: the last name leaves the file behind.
UnlinkAtLeaky(p) == \E i \in At(p) :
  /\ names' = [names EXCEPT ![p] = None]
  /\ Called("unlink", {}, None)
  /\ UNCHANGED vars

\* Mutant: the first unlink frees the file.
UnlinkAtFirst(p) == \E i \in At(p) :
  /\ names' = [names EXCEPT ![p] = None]
  /\ Called("unlink", {}, None)
  /\ Retire(i)

\* unlink_at_path_journaled: the last name takes the file with it.
UnlinkAt(p) == \E i \in At(p) :
  /\ names' = [names EXCEPT ![p] = None]
  /\ Called("unlink", {}, None)
  /\ IF Metadata(i).references = 1 THEN Retire(i) ELSE UNCHANGED vars

(***************************************************************************)
(* The specification.                                                      *)
(***************************************************************************)
PathInit == /\ Init
            /\ names = [n \in Name |-> None]
            /\ call = [kind |-> "none", on |-> {}, new |-> None]

BlockCalls(p) ==
  \/ AppendBlocksAt(p) \/ AppendContiguousAt(p) \/ AppendZeroedContiguousAt(p)
  \/ InsertBlocksAt(p) \/ InsertContiguousAt(p) \/ InsertZeroedContiguousAt(p)
  \/ ReplaceBlocksAt(p) \/ ReplaceContiguousAt(p) \/ ReplaceZeroedContiguousAt(p)
  \/ RemoveBlockAt(p) \/ CollapseRangeAt(p) \/ MoveRangeAt(p) \/ OverwriteBlocksAt(p)
  \/ TruncateToBlocksAt(p) \/ GrowToBlocksAt(p) \/ ResizeToBlocksAt(p) \/ OneBlockOps(p)

ByteCalls(p) ==
  \/ WriteRangeAt(p) \/ ZeroRangeAt(p) \/ ExtendingWriteAt(p)
  \/ TruncateToBytesAt(p) \/ GrowToBytesAt(p) \/ ResizeToBytesAt(p)

WholeCalls(p) == WriteFileBlocksAt(p) \/ ReplaceFileAt(p) \/ ZeroFileAt(p)

TwoPathCalls(p, q) ==
  \/ CloneAppendAt(p, q) \/ CloneInsertAt(p, q) \/ CloneReplaceAt(p, q) \/ CloneSpliceAt(p, q)
  \/ ContiguousCloneAppendAt(p, q) \/ ContiguousCloneInsertAt(p, q)
  \/ ContiguousCloneReplaceAt(p, q) \/ ContiguousCloneSpliceAt(p, q)
  \/ ExchangeRangesAt(p, q) \/ ExchangeVariableAt(p, q) \/ ExchangeWithinAt(p, q)
  \/ TransferRangeAt(p, q) \/ WholeExchangeAt(p, q) \/ WholeTransferReplaceAt(p, q)
  \/ CopyRangeAt(p, q) \/ CloneOverAt(p, q)

NameCalls(p) ==
  \/ CreateFileAt(p) \/ CreateContiguousAt(p) \/ UnlinkAt(p)
  \/ \E q \in Paths : CloneBlocksTo(q, p) \/ ContiguousCloneBlocksTo(q, p) \/ CloneFileTo(q, p) \/ LinkAt(q, p)

\* One path for each file that has a name: a data call sees only the inode its
\* path leads to.
SomePaths == {CHOOSE p \in Paths : At(p) = {i} : i \in Range(names) \ {None}}

PathNext == \/ \E p \in Name : NameCalls(p)
            \/ \E p \in SomePaths : BlockCalls(p) \/ ByteCalls(p) \/ WholeCalls(p)
            \/ \E p, q \in SomePaths : TwoPathCalls(p, q)

PathSpec == PathInit /\ [][PathNext]_pathVars

(***************************************************************************)
(* Properties.  Ownership and ContentsAsSpecified are those of FileData,   *)
(* with files that come and go.                                            *)
(***************************************************************************)
\* The tables and the names are well typed, and a file without a name is empty.
PathTypeOK ==
  /\ TypeOK
  /\ names \in [Name -> File \cup {None}]
  /\ \A i \in File : Metadata(i).references = 0 => files[i].blocks = <<>>

\* A data block is allocated exactly when one file that has a name refers to it,
\* once: no mixture of edits, clones, moves, links and unlinks leaks a block or
\* gives it two owners.
BlocksHaveNamedOwners == PathTypeOK /\ Ownership

\* clone_file_to_path_journaled makes a file that reads as its source, has its
\* length and shares no block with it, and past whose end there are only zeros;
\* the source is left alone.
ClonesAreCopies ==
  [][call'.kind = "clone file" =>
       \A i \in call'.on, j \in {call'.new} :
          /\ ReadFile(j)' = ReadFile(i)
          /\ ReadFile(i)' = ReadFile(i)
          /\ Range(files'[i].blocks) \cap Range(files'[j].blocks) = {}
          /\ \A x \in files'[j].len + 1 .. BlockSize * Len(files'[j].blocks) : Padded(j)'[x] = 0]_pathVars

\* A call changes what a path reads only if the path names, under whatever alias,
\* a file the call was to change: unlinking one of several names, reusing freed
\* blocks for a new file and moving blocks between files disturb no one else.
OthersKeepTheirBytes ==
  [][\A p \in Paths : \A i \in At(p) :
        At(p)' = {i} /\ (call'.kind = "clone file" \/ i \notin call'.on) =>
          ReadFile(i)' = ReadFile(i)]_pathVars

\* "snapshot.len() == blocks.len() * BLOCK_SIZE", as path_clone_replace.rs asserts:
\* a file cloned over another leaves it with as many blocks as the source has.
CloneOverCopiesAllBlocks ==
  call.kind = "clone over" => \A j \in call.on : N(j) = N(call.new)
=============================================================================
