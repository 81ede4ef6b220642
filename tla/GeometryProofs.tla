--------------------------- MODULE GeometryProofs ---------------------------
(***************************************************************************)
(* The layout of a volume, for every word size, block size, header and     *)
(* device size: what read_superblock accepts is what a format writes, the  *)
(* regions are apart, and the planned capacities fit.                      *)
(***************************************************************************)
EXTENDS Superblocks, TLAPS

(***************************************************************************)
(* Rounding.                                                               *)
(***************************************************************************)
\* A number is at most the divisor times its quotient rounded up.
LEMMA CeilingCovers ==
  ASSUME NEW n \in Nat, NEW b \in Nat \ {0}
  PROVE  /\ (n + (b - 1)) \div b \in Nat
         /\ n <= ((n + (b - 1)) \div b) * b
<1> DEFINE q == (n + (b - 1)) \div b
           r == (n + (b - 1)) % b
<1>1. /\ q \in Nat /\ r \in 0 .. b - 1
      /\ n + (b - 1) = b * q + r
  BY SMT
<1>2. b * q = q * b
  BY <1>1, SMT
<1>3. q * b \in Nat
  BY <1>1, SMT
<1>. QED
  BY <1>1, <1>2, <1>3

\* blocks_for_bytes rounds up.
LEMMA BlocksCover ==
  ASSUME NEW bytes \in Nat
  PROVE  BlocksFor(bytes) \in Nat /\ bytes <= BlocksFor(bytes) * BlockSize
  BY CeilingCovers, SizeAssumption DEF BlocksFor

\* allocation_bitmap_bytes has a bit for every block.
LEMMA BitmapCovers ==
  ASSUME NEW t \in Nat
  PROVE  BitmapBytes(t) \in Nat /\ t <= 8 * BitmapBytes(t)
<1>1. /\ (t + (8 - 1)) \div 8 \in Nat
      /\ t <= ((t + (8 - 1)) \div 8) * 8
  BY CeilingCovers
<1>. QED
  BY <1>1 DEF BitmapBytes

\* required_allocation_blocks.
LEMMA AllocationCovers ==
  ASSUME NEW t \in Nat
  PROVE  /\ AllocationBlocks(t) \in Nat
         /\ ImageHeader + BitmapBytes(t) <= AllocationBlocks(t) * BlockSize
<1>1. ImageBytes(t) \in Nat
  BY BitmapCovers, SizeAssumption DEF ImageBytes
<1>. QED
  BY <1>1, BlocksCover DEF AllocationBlocks, ImageBytes

(***************************************************************************)
(* Layouts.                                                                *)
(***************************************************************************)
\* The arguments and the regions of a layout are words.
LEMMA LayoutTyped ==
  ASSUME NEW t \in Word, NEW j \in Nat, NEW i \in Nat, NEW d \in Nat,
         CanFormat(t, j, i, d)
  PROVE  Layout(t, j, i, d) \in Superblock
<1>1. AllocationBlocks(t) \in Nat
  BY AllocationCovers, SizeAssumption DEF Word
<1>. QED
  BY <1>1, SizeAssumption DEF Layout, CanFormat, Superblock, Region, Word

\* decode accepts a superblock if and only if with_all_metadata_blocks builds it
\* from the same total and the same three reservations.
LEMMA DecodeIsLayout ==
  ASSUME NEW sb \in Superblock
  PROVE  Decodes(sb) <=>
           /\ CanFormat(sb.total, sb.journal.blocks, sb.inode.blocks, sb.directory.blocks)
           /\ sb = Layout(sb.total, sb.journal.blocks, sb.inode.blocks, sb.directory.blocks)
<1> DEFINE j == sb.journal.blocks
           i == sb.inode.blocks
           d == sb.directory.blocks
           a == AllocationBlocks(sb.total)
<1>1. /\ sb.total \in Word /\ j \in Nat /\ i \in Nat /\ d \in Nat
      /\ sb.journal.start \in Nat /\ sb.allocation.start \in Nat
      /\ sb.allocation.blocks \in Nat
      /\ sb.inode.start \in Nat /\ sb.directory.start \in Nat
  BY SizeAssumption DEF Superblock, Region, Word
<1>2. a \in Nat
  BY <1>1, AllocationCovers, SizeAssumption DEF Word
<1>3. ASSUME Decodes(sb)
      PROVE  CanFormat(sb.total, j, i, d)
  BY <1>1, <1>2, <1>3 DEF Decodes, CanFormat, EndOf
<1>4. ASSUME Decodes(sb)
      PROVE  sb = Layout(sb.total, j, i, d)
  <2>1. /\ sb.journal.start = 1
        /\ sb.allocation.start = 1 + j /\ sb.allocation.blocks = a
        /\ sb.inode.start = 1 + j + a
        /\ sb.directory.start = 1 + j + a + i
    BY <1>1, <1>2, <1>4 DEF Decodes, EndOf
  <2>2. /\ sb.journal = [start |-> 1, blocks |-> j]
        /\ sb.allocation = [start |-> 1 + j, blocks |-> a]
        /\ sb.inode = [start |-> 1 + j + a, blocks |-> i]
        /\ sb.directory = [start |-> 1 + j + a + i, blocks |-> d]
    BY <2>1 DEF Superblock, Region
  <2>. QED
    BY <2>2 DEF Layout, Superblock
<1>5. ASSUME CanFormat(sb.total, j, i, d), sb = Layout(sb.total, j, i, d)
      PROVE  Decodes(sb)
  <2>1. /\ sb.journal = [start |-> 1, blocks |-> j]
        /\ sb.allocation = [start |-> 1 + j, blocks |-> a]
        /\ sb.inode = [start |-> 1 + j + a, blocks |-> i]
        /\ sb.directory = [start |-> 1 + j + a + i, blocks |-> d]
    BY <1>5 DEF Layout
  <2>2. /\ sb.journal.start = 1
        /\ sb.allocation.start = 1 + j /\ sb.allocation.blocks = a
        /\ sb.inode.start = 1 + j + a
        /\ sb.directory.start = 1 + j + a + i
    BY <2>1
  <2>. QED
    BY <1>1, <1>2, <1>5, <2>2, SizeAssumption DEF Decodes, CanFormat, EndOf, Word
<1>. QED
  BY <1>3, <1>4, <1>5

\* The regions of an accepted superblock are apart.
LEMMA DecodedIsApart ==
  ASSUME NEW sb \in Superblock, Decodes(sb)
  PROVE  RegionsApart(sb) /\ BitForEveryBlock(sb)
<1>1. /\ sb.total \in Nat
      /\ sb.journal.start \in Nat /\ sb.journal.blocks \in Nat
      /\ sb.allocation.start \in Nat /\ sb.allocation.blocks \in Nat
      /\ sb.inode.start \in Nat /\ sb.inode.blocks \in Nat
      /\ sb.directory.start \in Nat /\ sb.directory.blocks \in Nat
  BY SizeAssumption DEF Superblock, Region, Word
<1>2. /\ EndOf(sb.journal) <= sb.allocation.start
      /\ EndOf(sb.allocation) <= sb.inode.start
      /\ EndOf(sb.inode) <= sb.directory.start
      /\ 1 <= sb.journal.start
      /\ EndOf(sb.directory) <= sb.total
  BY <1>1 DEF Decodes, EndOf
<1>3. \A x, y \in 1 .. 4 : x < y =>
        /\ EndOf(Regions(sb)[x]) <= Regions(sb)[y].start
  <2>1. /\ Regions(sb)[1] = sb.journal /\ Regions(sb)[2] = sb.allocation
        /\ Regions(sb)[3] = sb.inode /\ Regions(sb)[4] = sb.directory
    BY DEF Regions
  <2>2. /\ EndOf(sb.journal) <= sb.inode.start
        /\ EndOf(sb.journal) <= sb.directory.start
        /\ EndOf(sb.allocation) <= sb.directory.start
    BY <1>1, <1>2 DEF EndOf
  <2>. QED
    BY <1>2, <2>1, <2>2
<1>4. \A x \in 1 .. 4 : /\ Regions(sb)[x].start \in Nat /\ Regions(sb)[x].blocks \in Nat
                        /\ 1 <= Regions(sb)[x].start
                        /\ EndOf(Regions(sb)[x]) <= EndOf(sb.directory)
  <2>1. /\ Regions(sb)[1] = sb.journal /\ Regions(sb)[2] = sb.allocation
        /\ Regions(sb)[3] = sb.inode /\ Regions(sb)[4] = sb.directory
    BY DEF Regions
  <2>. QED
    BY <1>1, <1>2, <2>1 DEF EndOf
<1>5. ASSUME NEW x \in 1 .. 4, NEW y \in 1 .. 4, x < y
      PROVE  BlocksOf(Regions(sb)[x]) \cap BlocksOf(Regions(sb)[y]) = {}
  BY <1>3, <1>4, <1>5 DEF BlocksOf, EndOf
<1>6. \A x, y \in 1 .. 4 : x # y => BlocksOf(Regions(sb)[x]) \cap BlocksOf(Regions(sb)[y]) = {}
  <2> SUFFICES ASSUME NEW x \in 1 .. 4, NEW y \in 1 .. 4, x # y
               PROVE  BlocksOf(Regions(sb)[x]) \cap BlocksOf(Regions(sb)[y]) = {}
    OBVIOUS
  <2>1. x < y \/ y < x
    OBVIOUS
  <2>. QED
    BY <1>5, <2>1
<1>7. \A x \in 1 .. 4 : BlocksOf(Regions(sb)[x]) \subseteq 1 .. ReservedBlocks(sb) - 1
  BY <1>1, <1>4 DEF BlocksOf, EndOf, ReservedBlocks
<1>8. BitForEveryBlock(sb)
  BY <1>1, BitmapCovers, AllocationCovers DEF BitForEveryBlock, Decodes
<1>. QED
  BY <1>2, <1>6, <1>7, <1>8 DEF RegionsApart, ReservedBlocks

\* The planners of format_capacity.rs reserve enough.
LEMMA CapacityCovers ==
  ASSUME NEW n \in Nat, NEW bytes \in Nat, NEW h \in Nat
  PROVE  /\ CapacityBlocks(n, bytes, h) \in Nat
         /\ h + n * bytes \in Nat
         /\ h + n * bytes <= CapacityBlocks(n, bytes, h) * BlockSize
<1>1. n * bytes \in Nat
  BY SMT
<1>2. /\ TableBytes(n, bytes, h) \in Nat
      /\ TableBytes(n, bytes, h) = h + n * bytes
  BY <1>1 DEF TableBytes
<1>. QED
  BY <1>2, BlocksCover DEF CapacityBlocks

(***************************************************************************)
(* The invariant.                                                          *)
(***************************************************************************)
\* What is read was decoded; the other conjuncts are those of the properties.
ReadDecodes == \A sb \in read : Decodes(sb) /\ sb.total = total

Inv == TypeOK /\ ReadDecodes /\ CapacityHolds

\* A formatting call leaves a layout with room for what was planned.
LEMMA FormatInv ==
  ASSUME NEW j \in Nat, NEW i \in Nat, NEW d \in Nat,
         NEW plan \in [inode : Nat, directory : Nat],
         plan.inode <= i * BlockSize, plan.directory <= d * BlockSize,
         Inv, Format(j, i, d, plan)
  PROVE  Inv'
<1>1. Layout(total, j, i, d) \in Superblock
  BY LayoutTyped DEF Format, Inv, TypeOK
<1>2. TypeOK'
  BY <1>1, RequestAssumption DEF Format, Inv, TypeOK
<1>3. ReadDecodes'
  BY DEF Format, ReadDecodes
<1>4. /\ Layout(total, j, i, d).inode.blocks = i
      /\ Layout(total, j, i, d).directory.blocks = d
  BY DEF Layout
<1>5. CapacityHolds'
  BY <1>4 DEF Format, CapacityHolds
<1>. QED
  BY <1>2, <1>3, <1>5 DEF Inv

LEMMA NoPlanFits ==
  ASSUME NEW i \in Nat, NEW d \in Nat
  PROVE  /\ NoPlan \in [inode : Nat, directory : Nat]
         /\ NoPlan.inode <= i * BlockSize /\ NoPlan.directory <= d * BlockSize
<1>1. i * BlockSize \in Nat /\ d * BlockSize \in Nat
  BY SizeAssumption, SMT
<1>. QED
  BY <1>1 DEF NoPlan

LEMMA InitInv == Init => Inv
  BY RequestAssumption DEF Init, Inv, TypeOK, ReadDecodes, CapacityHolds, NoPlan

LEMMA DamageInv ==
  ASSUME Inv, Damage
  PROVE  Inv'
<1>1. PICK sb \in block : \E bad \in Damaged(sb) : block' = {bad}
  BY DEF Damage
<1>2. PICK bad \in Damaged(sb) : block' = {bad}
  BY <1>1
<1>3. sb \in Superblock
  BY DEF Inv, TypeOK
<1>4. bad \in Superblock
  BY <1>3 DEF Damaged, Superblock, Region
<1>5. TypeOK'
  BY <1>2, <1>4, RequestAssumption DEF Damage, Inv, TypeOK
<1>6. ReadDecodes' /\ CapacityHolds'
  <2>1. damage' # 0
    BY DEF Damage, Inv, TypeOK
  <2>. QED
    BY <2>1 DEF Damage, ReadDecodes, CapacityHolds
<1>. QED
  BY <1>5, <1>6 DEF Inv

LEMMA ReadInv ==
  ASSUME Inv, ReadSuperblock
  PROVE  Inv'
  BY DEF ReadSuperblock, Inv, TypeOK, ReadDecodes, CapacityHolds

LEMMA NextInv == Inv /\ [Next]_vars => Inv'
<1> SUFFICES ASSUME Inv, [Next]_vars
             PROVE  Inv'
  OBVIOUS
<1>0. Requests \subseteq Nat /\ DefaultBlocks \in Nat
  BY RequestAssumption, SizeAssumption DEF Word
<1>1. ASSUME NEW j \in Requests, NEW i \in Requests, NEW d \in Requests,
             FormatWithBlocks(j, i, d)
      PROVE  Inv'
  BY <1>0, <1>1, NoPlanFits, FormatInv DEF FormatWithBlocks
<1>2. ASSUME NEW j \in Requests, NEW n \in Capacities, FormatForInodes(j, n)
      PROVE  Inv'
  <2> DEFINE c == CapacityBlocks(n, InodeRecord, TableHeader)
             plan == [inode |-> TableHeader + n * InodeRecord, directory |-> 0]
  <2>1. c \in Nat /\ TableHeader + n * InodeRecord \in Nat
        /\ TableHeader + n * InodeRecord <= c * BlockSize
    BY CapacityCovers, RequestAssumption
  <2>2. plan \in [inode : Nat, directory : Nat]
        /\ plan.inode <= c * BlockSize /\ plan.directory <= DefaultBlocks * BlockSize
    BY <1>0, <2>1, NoPlanFits DEF NoPlan
  <2>3. Format(j, c, DefaultBlocks, plan)
    BY <1>2 DEF FormatForInodes
  <2>. QED
    BY <1>0, <2>1, <2>2, <2>3, FormatInv
<1>3. ASSUME NEW j \in Requests, NEW n \in Capacities, NEW bytes \in EntryRecords,
             FormatForEntries(j, n, bytes)
      PROVE  Inv'
  <2> DEFINE c == CapacityBlocks(n, bytes, TableHeader)
             plan == [inode |-> 0, directory |-> TableHeader + n * bytes]
  <2>1. c \in Nat /\ TableHeader + n * bytes \in Nat
        /\ TableHeader + n * bytes <= c * BlockSize
    BY CapacityCovers, RequestAssumption
  <2>2. plan \in [inode : Nat, directory : Nat]
        /\ plan.inode <= DefaultBlocks * BlockSize /\ plan.directory <= c * BlockSize
    BY <1>0, <2>1, NoPlanFits DEF NoPlan
  <2>3. Format(j, DefaultBlocks, c, plan)
    BY <1>3 DEF FormatForEntries
  <2>. QED
    BY <1>0, <2>1, <2>2, <2>3, FormatInv
<1>4. CASE Damage
  BY <1>4, DamageInv
<1>5. CASE ReadSuperblock
  BY <1>5, ReadInv
<1>6. CASE UNCHANGED vars
  BY <1>6 DEF vars, Inv, TypeOK, ReadDecodes, CapacityHolds
<1>. QED
  BY <1>1, <1>2, <1>3, <1>4, <1>5, <1>6 DEF Next

(***************************************************************************)
(* The theorems.                                                           *)
(***************************************************************************)
\* No formatting call overflows a machine word (with_all_metadata_blocks).
THEOREM TypeAlways == Spec => []TypeOK
<1>1. Inv => TypeOK
  BY DEF Inv
<1>. QED
  BY InitInv, NextInv, <1>1, PTL DEF Spec

\* Every superblock that read_superblock accepts has disjoint regions on the
\* device and a bitmap bit for every block, whatever damaged block zero.
THEOREM SafeAlways == Spec => []AcceptedIsSafe
<1>1. Inv => AcceptedIsSafe
  BY DecodedIsApart DEF Inv, TypeOK, ReadDecodes, AcceptedIsSafe
<1>. QED
  BY InitInv, NextInv, <1>1, PTL DEF Spec

\* decode accepts exactly the superblocks with_all_metadata_blocks builds.
THEOREM LayoutAlways == Spec => []AcceptedIsALayout
<1>1. Inv => AcceptedIsALayout
  <2> SUFFICES ASSUME Inv, NEW sb \in block
               PROVE  (Decodes(sb) /\ sb.total = total)
                      <=> (/\ CanFormat(total, sb.journal.blocks, sb.inode.blocks, sb.directory.blocks)
                           /\ sb = Layout(total, sb.journal.blocks, sb.inode.blocks, sb.directory.blocks))
    BY DEF AcceptedIsALayout
  <2>1. sb \in Superblock
    BY DEF Inv, TypeOK
  <2>2. Layout(total, sb.journal.blocks, sb.inode.blocks, sb.directory.blocks).total = total
    BY DEF Layout
  <2>. QED
    BY <2>1, <2>2, DecodeIsLayout
<1>. QED
  BY InitInv, NextInv, <1>1, PTL DEF Spec

\* A volume formatted for a capacity has room for it (format_capacity.rs).
THEOREM CapacityAlways == Spec => []CapacityHolds
<1>1. Inv => CapacityHolds
  BY DEF Inv
<1>. QED
  BY InitInv, NextInv, <1>1, PTL DEF Spec
=============================================================================
