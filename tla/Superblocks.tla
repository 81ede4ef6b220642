---------------------------- MODULE Superblocks -----------------------------
(***************************************************************************)
(* Block zero of a device: the formatting calls that choose a geometry     *)
(* (format_geometry.rs, format_capacity.rs), and the reader of the         *)
(* superblock, which has no checksum and relies on the fields to agree     *)
(* with each other (format.rs).                                            *)
(***************************************************************************)
EXTENDS Geometry

CONSTANTS
  Totals,            \* sizes of the devices
  Requests,          \* block reservations a caller asks for
  Capacities,        \* numbers of records a caller asks for
  InodeRecord,       \* INODE_RECORD_HEADER_LEN
  EntryRecords,      \* DIRECTORY_ENTRY_HEADER_LEN plus a maximal name length
  TableHeader,       \* INODE_TABLE_HEADER_LEN, DIRECTORY_TABLE_HEADER_LEN
  DefaultBlocks,     \* DEFAULT_INODE_BLOCKS, DEFAULT_DIRECTORY_BLOCKS
  MaxCorruptions     \* bound: fields of block zero that are damaged

ASSUME RequestAssumption ==
  /\ Totals \subseteq Word /\ Requests \subseteq Word /\ Capacities \subseteq Nat
  /\ InodeRecord \in Nat /\ EntryRecords \subseteq Nat /\ TableHeader \in Nat
  /\ DefaultBlocks \in Word
  /\ MaxCorruptions \in Nat

VARIABLES
  total,     \* block_count of the device
  block,     \* the fields in block zero; {} before the first format
  read,      \* what read_superblock returned, {} for an error
  damage,    \* fields damaged since the last format
  planned    \* the table bytes a capacity planner promised room for (history)

vars == <<total, block, read, damage, planned>>

NoPlan == [inode |-> 0, directory |-> 0]

(***************************************************************************)
(* The operations.                                                         *)
(***************************************************************************)
Format(j, i, d, plan) ==
  /\ CanFormat(total, j, i, d)
  /\ block' = {Layout(total, j, i, d)}
  /\ read' = {}
  /\ damage' = 0
  /\ planned' = plan
  /\ UNCHANGED total

\* format_device, format_device_with_journal_blocks and
\* format_device_with_metadata_blocks.
FormatWithBlocks(j, i, d) == Format(j, i, d, NoPlan)

\* format_device_for_blockless_inode_capacity.
FormatForInodes(j, n) ==
  /\ CanReserve(n, InodeRecord, TableHeader)
  /\ Format(j, CapacityBlocks(n, InodeRecord, TableHeader), DefaultBlocks,
            [inode |-> TableHeader + n * InodeRecord, directory |-> 0])

\* format_device_for_directory_capacity.
FormatForEntries(j, n, bytes) ==
  /\ CanReserve(n, bytes, TableHeader)
  /\ Format(j, DefaultBlocks, CapacityBlocks(n, bytes, TableHeader),
            [inode |-> 0, directory |-> TableHeader + n * bytes])

\* A field of block zero changes on the medium.
Damaged(sb) ==
  {[sb EXCEPT !.total = w] : w \in Word}
  \cup UNION {{[sb EXCEPT ![r].start = w] : w \in Word} \cup {[sb EXCEPT ![r].blocks = w] : w \in Word}
              : r \in {"journal", "allocation", "inode", "directory"}}

Damage ==
  /\ damage < MaxCorruptions
  /\ \E sb \in block : \E bad \in Damaged(sb) : block' = {bad}
  /\ damage' = damage + 1
  /\ read' = {}
  /\ UNCHANGED <<total, planned>>

\* read_superblock.
ReadSuperblock ==
  /\ read' = {sb \in block : Decodes(sb) /\ sb.total = total}
  /\ UNCHANGED <<total, block, damage, planned>>

(***************************************************************************)
(* The specification.                                                      *)
(***************************************************************************)
Init == /\ total \in Totals
        /\ block = {}
        /\ read = {}
        /\ damage = 0
        /\ planned = NoPlan

Next == \/ \E j, i, d \in Requests : FormatWithBlocks(j, i, d)
        \/ \E j \in Requests, n \in Capacities : FormatForInodes(j, n)
        \/ \E j \in Requests, n \in Capacities, bytes \in EntryRecords : FormatForEntries(j, n, bytes)
        \/ Damage
        \/ ReadSuperblock

Spec == Init /\ [][Next]_vars

(***************************************************************************)
(* Properties.                                                             *)
(***************************************************************************)
\* Every field stays a machine integer: no formatting call overflows.
TypeOK ==
  /\ total \in Word
  /\ block \subseteq Superblock
  /\ read \subseteq block
  /\ damage \in 0 .. MaxCorruptions
  /\ planned \in [inode : Nat, directory : Nat]

\* Whatever happened to block zero, a superblock that read_superblock accepts
\* describes a usable volume of this device: its regions overlap neither each
\* other nor block zero nor a data block, they lie on the device, and the
\* bitmap has a bit for every block.
AcceptedIsSafe ==
  \A sb \in read : /\ sb.total = total
                   /\ RegionsApart(sb)
                   /\ BitForEveryBlock(sb)

\* A superblock is accepted exactly if some format of this device could have
\* written it: with_all_metadata_blocks and decode agree, at the sizes where
\* nothing is left for data and where the arithmetic overflows too.
AcceptedIsALayout ==
  \A sb \in block :
     LET j == sb.journal.blocks
         i == sb.inode.blocks
         d == sb.directory.blocks
     IN (Decodes(sb) /\ sb.total = total)
          <=> (CanFormat(total, j, i, d) /\ sb = Layout(total, j, i, d))

\* A volume formatted for a number of records has room for them, behind the
\* header of the table, until block zero is damaged.
CapacityHolds ==
  damage = 0 =>
    \A sb \in block : /\ planned.inode <= sb.inode.blocks * BlockSize
                      /\ planned.directory <= sb.directory.blocks * BlockSize
=============================================================================
