------------------------------ MODULE Geometry ------------------------------
(***************************************************************************)
(* The layout of a volume (format.rs): one prefix of metadata regions,     *)
(* superblock | journal | allocation | inodes | directory, then data.      *)
(* Sizes are unsigned machine integers; the code adds with overflow checks *)
(* (checked_add), which are guards here.                                   *)
(***************************************************************************)
EXTENDS Integers

CONSTANTS
  MaxInt,        \* the largest machine integer (u64::MAX)
  BlockSize,     \* bytes of a block
  ImageHeader    \* bytes of the header of an allocation image

ASSUME SizeAssumption == /\ MaxInt \in Nat
                         /\ BlockSize \in Nat \ {0}
                         /\ ImageHeader \in Nat

Word == 0 .. MaxInt

\* A region of a superblock, and the superblock itself.
Region == [start : Word, blocks : Word]
Superblock == [total : Word, journal : Region, allocation : Region,
               inode : Region, directory : Region]

BlocksOf(r) == r.start .. r.start + r.blocks - 1
EndOf(r) == r.start + r.blocks

\* allocation_bitmap_bytes, required_allocation_blocks: one bit for each block of
\* the device, behind a header, in whole blocks.
BitmapBytes(total) == (total + 7) \div 8
ImageBytes(total) == ImageHeader + BitmapBytes(total)

BlocksFor(bytes) == (bytes + (BlockSize - 1)) \div BlockSize
AllocationBlocks(total) == BlocksFor(ImageBytes(total))

AllocationSizeFits(total) == /\ total + 7 <= MaxInt
                             /\ ImageBytes(total) + (BlockSize - 1) <= MaxInt

\* Superblock::with_all_metadata_blocks.
Layout(total, j, i, d) ==
  LET a == AllocationBlocks(total)
  IN [total      |-> total,
      journal    |-> [start |-> 1, blocks |-> j],
      allocation |-> [start |-> 1 + j, blocks |-> a],
      inode      |-> [start |-> 1 + j + a, blocks |-> i],
      directory  |-> [start |-> 1 + j + a + i, blocks |-> d]]

CanFormat(total, j, i, d) ==
  /\ j > 0 /\ i > 0 /\ d > 0
  /\ AllocationSizeFits(total)
  /\ 1 + j + AllocationBlocks(total) + i + d <= MaxInt
  /\ 1 + j + AllocationBlocks(total) + i + d <= total

\* reserved_blocks: the first data block.
ReservedBlocks(sb) == EndOf(sb.directory)

\* Mutant: the ends of the regions are computed modulo the machine word.
DecodesWrapping(sb) ==
  LET End(r) == EndOf(r) % (MaxInt + 1)
  IN /\ sb.journal.start = 1 /\ sb.journal.blocks > 0
     /\ sb.inode.blocks > 0 /\ sb.directory.blocks > 0
     /\ sb.allocation.start = End(sb.journal)
     /\ AllocationSizeFits(sb.total)
     /\ sb.allocation.blocks = AllocationBlocks(sb.total)
     /\ sb.inode.start = End(sb.allocation)
     /\ sb.directory.start = End(sb.inode)
     /\ End(sb.directory) <= sb.total

\* Mutant: a volume without any data block is refused.
DecodesStrictly(sb) ==
  /\ CanFormat(sb.total, sb.journal.blocks, sb.inode.blocks, sb.directory.blocks)
  /\ sb = Layout(sb.total, sb.journal.blocks, sb.inode.blocks, sb.directory.blocks)
  /\ EndOf(sb.directory) < sb.total

\* Superblock::decode accepts these field values.
Decodes(sb) ==
  /\ sb.journal.start = 1 /\ sb.journal.blocks > 0
  /\ sb.inode.blocks > 0 /\ sb.directory.blocks > 0
  /\ EndOf(sb.journal) <= MaxInt
  /\ sb.allocation.start = EndOf(sb.journal)
  /\ AllocationSizeFits(sb.total)
  /\ sb.allocation.blocks = AllocationBlocks(sb.total)
  /\ EndOf(sb.allocation) <= MaxInt
  /\ sb.inode.start = EndOf(sb.allocation)
  /\ EndOf(sb.inode) <= MaxInt
  /\ sb.directory.start = EndOf(sb.inode)
  /\ EndOf(sb.directory) <= MaxInt
  /\ EndOf(sb.directory) <= sb.total

\* The regions in their order, block zero excluded.
Regions(sb) == <<sb.journal, sb.allocation, sb.inode, sb.directory>>

(***************************************************************************)
(* What the layout must guarantee.                                         *)
(***************************************************************************)
\* No block belongs to two regions, none is the superblock's, and all lie on
\* the device below the first data block.
RegionsApart(sb) ==
  /\ \A x, y \in 1 .. 4 : x # y => BlocksOf(Regions(sb)[x]) \cap BlocksOf(Regions(sb)[y]) = {}
  /\ \A x \in 1 .. 4 : BlocksOf(Regions(sb)[x]) \subseteq 1 .. ReservedBlocks(sb) - 1
  /\ ReservedBlocks(sb) <= sb.total

\* The allocation region holds its header and a bit for every block.
BitForEveryBlock(sb) ==
  /\ 8 * BitmapBytes(sb.total) >= sb.total
  /\ ImageHeader + BitmapBytes(sb.total) <= sb.allocation.blocks * BlockSize

(***************************************************************************)
(* Reservations from a number of records (format_capacity.rs).             *)
(***************************************************************************)
\* Mutant: the table header is forgotten.
TableBytesNoHeader(records, bytes, header) == records * bytes

\* The bytes of a table of that many records of that size behind its header.
TableBytes(records, bytes, header) == records * bytes + header

CanReserve(records, bytes, header) ==
  /\ records > 0
  /\ TableBytes(records, bytes, header) + (BlockSize - 1) <= MaxInt

CapacityBlocks(records, bytes, header) == BlocksFor(TableBytes(records, bytes, header))
=============================================================================
