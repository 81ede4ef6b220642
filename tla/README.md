# filesystem-lab: TLA+ models, checks and proofs

This directory holds the formal models of filesystem-lab, a crash-consistent
filesystem written as a single-threaded Rust library over a block device. The
models are translated from the code in `src/src`; `PROJECT.json` maps every
definition to the lines it stands for, lists the runs and theorems, the parts of
the system, and the hazards the properties are aimed at.

## 1. The system

A volume is `superblock | journal | allocation | inode table | directory table |
data blocks`. All calls take `&mut impl BlockDevice` and own the device until
they return: there is no concurrency between calls. What makes the code hard is
failure, not interleaving: power may be lost between any two device operations,
a device may persist unflushed blocks early and in any order, and a device call
may fail and leave the process running.

| Component | State | Operations | Behaviour that is hard | What makes it correct |
| --- | --- | --- | --- | --- |
| block device (`block.rs`) | volatile and durable image | `read_block`, `write_block`, `flush` | loss of power, early persistence, failing calls | (environment) |
| journal region (`journal_region.rs`) | anchor, v2 tail, two v3 banks | `store_journal_image`, `append_retained_journal_entries`, `replace_retained_…`, `load_journal_image` | publication order, bank reuse, empty and zeroed reservations, failed flushes, capacity | always decodable; old or new log, nothing between |
| journal log (`journal.rs`, `journal_codec.rs`) | entries, active transaction, next identifier | `begin`, `write`, `commit`, `crash_prefix`, `replay_into` | open transactions at the end, repeated identifiers, five parsers | all readers agree; what was committed comes back, in order |
| recovery, checkpoint (`recovery.rs`, `journal_checkpoint.rs`, `recovery_projection.rs`) | none of its own | `recover_journal`, `checkpoint_journal`, `…_and_checkpoint[_checked]`, `recover_retained_prefix_and_checkpoint` | crash during replay, cut of the log, prefix checkpoints | idempotent, all-or-nothing, log drains |
| table transactions (`*_tx.rs`, `transaction_image.rs`) | none | diff against home, publish, replay, checkpoint | pending log, stale home | one transaction per mutation |
| allocator (`allocation.rs`, `allocation_disk.rs`) | block bitmap, count | `allocate`, `allocate_contiguous`, `free`, store, load | fragmentation, exhaustion | one owner per block, count right |
| strict fsck (`fsck.rs`) | none | audits | what it does not check (one name per directory) | accepts every state the operations reach |
| fsck repair (`fsck_repair.rs`) | tables | free orphaned blocks, reattach inodes | choice of roots and names, crash after commit | minimal, done once, never fails after its commit |
| namespace (`path_create.rs`, `symlink.rs`, `*link_tx.rs`, `rename_*_tx.rs`, `recursive_remove_tx.rs`, dispatchers) | allocation, inode and directory tables | create, link, unlink, remove, rename, replace, exchange | derived link counts, directory cycles, id reuse, kind dispatch | sound namespace, no leak, nothing stuck |
| file data (`file_*.rs`, `truncate_tx.rs`, `path_grow.rs`, `path_contiguous_defrag.rs`) | block vectors, ends of file, data blocks | append, insert, remove, replace, clone, exchange, transfer, move, overwrite, byte writes, truncate, grow | mixture of block and byte granularity, slack past end of file, block reuse | contents follow a byte-string reference |
| path lookup (`path_lookup.rs`) | queue of components, counter, flag | resolve | link loops, `..`, trailing slashes through links | returns what the path names, and returns |
| path wrappers (`path_*.rs`) | none | recover first, resolve, choose, delegate | stale home, aliases, directory intent, partial last block | the call acts on what its path names, and on nothing else |
| path readers (`filesystem_space.rs`, `path_file_extents.rs`, `path_directory*.rs`, …) | a cursor the caller keeps | pages | the volume changes between pages | what stays is seen exactly once |
| buffer cache (`cache.rs`) | cached blocks, each clean, dirty or in writeback | read, write, write back, flush, evict, hand over | failing writes and flushes, retry | clean means durable |
| formatting and geometry (`format*.rs`) | superblock, initial images | format, plan capacity, read superblock | overflow, no checksum, order of publication | accepts exactly its own layouts; never stands before uninitialized regions |
| in-memory tables (`inode.rs`, `directory.rs`) | inodes, reverse index, entries | create, attach, detach, remove, insert | three objects, one careless caller | index and blocks agree, identifiers are not reused |
| tables and codecs (`*_codec.rs`, `*_table.rs`) | none | encode, decode, store, load | mixed images | whole or refused |

Interaction: a path-level mutation recovers and checkpoints the journal, resolves
its paths, loads the tables, validates, builds the desired tables and data
images, and publishes their difference from home as **one** write-ahead-log
transaction, which it replays and (usually) checkpoints. Hence the structure of
the project: `Wal` shows that one transaction is atomic under faults, `JournalLog`
that what is published is what recovery replays, and the modules above take one
operation as one step. `PathOps` composes operations,
lookup and recovery: a crash leaves home tables of different ages, and the next
call starts with recovery. The buffer cache and the in-memory tables are used by
no other component.

## 2. Modules

`A ── B` reads "B extends A".

```
WriteSets ── AtomicStore                      Volume ─┬─ Namespace ── MCNamespace
    │             │ (refined by)                      ├─ FileData ── PathData ── MCPathData
    └──────────  Wal ── MCWal                         ├─ FsckRepair ── MCFsckRepair
                                                      └─ Paths ── PathReference ─┬─ PathLookup ── MCPathLookup
                                                                                 └─ PathOps
JournalScan ── JournalLog ── MCJournalLog       Namespace, PathReference ── PathOps ── MCPathOps

SyncedBlocks (refined by) BufferCache         Geometry ── Superblocks

Proofs:  Wal ── WalProofs                     Namespace ── NamespaceProofs
         Superblocks ── GeometryProofs        FsckRepair ── FsckRepairProofs
         BufferCache ── BufferCacheProofs     PathData ── PathDataProofs
         JournalLog ── JournalLogProofs       PathLookup, PathOps, NamespaceProofs ── PathProofs
```

* **WriteSets** – sequences of full-block writes: the overlay they make of a home
  image, and what one complete transaction is. Begin/Write/Commit records become
  writes of which the last carries a commit mark.
* **AtomicStore** – the abstract specification: a store of blocks that changes by
  whole transactions; an outstanding transaction is applied in one step or
  dropped.
* **Wal** – the journal region, recovery and checkpointing. `homeVol`, `jVol` are
  what reads see, `homeDur`, `jDur` what a crash leaves. `pc` names the next
  device operation of the running call, and every `write_block` or `flush` is a
  step. `BeginTx`, `NoOpTx`, `BeginAppend`, `BeginRecover`, `BeginCheckpoint`,
  `BeginChecked`, `BeginPrefix` issue the calls of the code with their guards;
  `Clear … ActiveFlush` is `store_journal_image`, `Replay`, `ReplayFlush` is
  `recover_journal`, `Collapse`, `CollapseFlush` is `store_empty_journal_anchor`,
  `Bank … AnchorFlush` is `publish_v3_snapshot`. `PersistHome`, `PersistJournal`,
  `Crash` and `Fail` are the environment. A checksum is abstracted to "the
  covered blocks hold the image of the anchor's log"; a log of n writes takes
  n + 1 blocks, which is exact below 124 writes. `before` and `goal` are history:
  the store the caller last knew and the one its running or last call asks for.
* **Volume** – the allocation, inode and directory tables as values, and strict
  fsck as predicates on them. Graph notions are stated with closed sets, so that
  no recursion is needed.
* **Namespace** – creation, links, unlink, directory and recursive removal,
  rename, replacement and exchange on resolved entries `<<parent, name>>`. A
  rejected call is a disabled action. Checks the code makes *after* its commit
  guard nothing and are stated as invariants instead.
* **FileData** – the inode-level operations on the data of regular files, for
  `PathData` to call. `files` maps a file to its block vector and end of file,
  `data` gives the image of every block (freed blocks keep theirs). The history
  variable `ideal` carries the reference: what each file should contain, in byte
  strings only. A copy or a clone takes its bytes from the reference of its source, not
  from what the step read.
* **JournalScan** – journal entries and the loops over them (`plan_recovery`,
  `replay_into`, `validate_entries`, `validate_complete_entries`, `audit_journal`,
  `retained_prefix_split`), each a fold with the checks of its loop.
* **JournalLog** – a writer's `JournalLog`, the entries in the reservation and the
  home blocks: `BeginTx`, `WriteTx`, `CommitTx`, publication of any prefix of the
  log, retained appends, recovery, checkpoint and prefix checkpoint. A call is a
  sequence of device steps and may fail at any of them, after which the process
  goes on. `now` is what reads see, and `images` what a crash may leave: every image
  since the last flush that succeeded. `goal`, `maybe` and `done` are history: the
  store the process should read, the stores an unacknowledged publication may leave,
  and what the commits in each prefix of the log have written.
* **FsckRepair** – both repairs from any damaged volume of the constant `Damaged`:
  audit with one check relaxed, publish, replay, clear, strict audit; crashes in
  between, after which the repair is called again.
* **Paths** – a path string as the sequence of the pieces between its slashes, so
  that empty, doubled and trailing slashes are distinct values.
* **PathLookup** – `resolve_path`, one action per turn of its loop. **PathReference** –
  what a path names: a symbolic link names what its target names, looked up on its own
  with the expansions that are left, and the rest of the path goes on from there.
* **PathOps** – the namespace calls on path strings: recovery, the split at the last
  slash, directory intent, resolution of the parent, and the action of `Namespace`
  on the selected entry. `home` is what a crash leaves of the tables; a call of a
  kind in `CutShort` may be cut short in the middle of its home writes.
* **PathData** – the content calls on names, with hard links and symbolic links:
  which operation of `FileData` a wrapper chooses, from what it reads first; and the
  operations on one block that are reached by inode id only (`OneBlockOps`).
* **SyncedBlocks** – abstract specification of the cache: reads see the last write,
  an acknowledged flush bounds what a crash undoes. **BufferCache** – `cache.rs`,
  flush as one step per device call; `Writeback` entries are written to the device
  and not yet flushed.
* **Geometry** – layout arithmetic with its overflow checks (`Layout`, `CanFormat`)
  and the superblock decoder (`Decodes`). **Superblocks** – formatting calls that
  choose a geometry, and block zero with damaged fields.

## 3. Runs

| Run | Bounds | Result |
| --- | --- | --- |
| WalReorder | 2 home blocks, 2 values, 7 journal blocks, 3 transactions, 2 faults; writes volatile or persisted early in any order | `TypeOK`, `JournalDecodable`, `AllOrNothing`, `FreshBase`, `CheckedEndsClean`, `ImplementsAtomicStore` hold; about 1.0 million states |
| WalWriteThrough | as above, 9 journal blocks; every write durable at once, any operation may fail; fairness | `AllOrNothing`, `CallsEnd`, `LogDrains` hold; about 445,000 states |
| WalZeroed | all-zero reservation | `JournalDecodable` is violated (finding 1) |
| JournalLog | logs of up to 4 entries, a reservation of up to 6, 2 identifiers, 2 home blocks and a forbidden one, up to 3 images | `CrashKeepsWhole`, `ReadsAreWhole`, `ReadersAgree`, `SplitIsExact` hold; 255,762 states |
| Namespace | 2 names, 5 inode ids, 2 data blocks | `Sound`, `Ownership`, `OneParent`, `NamesKeepFiles`, `NothingStuck` hold; 33,240 states up to renaming |
| FsckRepair | every volume of 4 inodes and up to 3 entries, volumes with any bitmap over 3 blocks and 2 owners, room for 4 entries, 1 crash; fairness | `NeverFailsAfterCommit`, `ReattachesMinimally`, `ReleasesExactly`, `RepairedOnce`, `RepairsSucceed` hold; 16,104 states |
| PathLookup | a tree of 7 inodes, every pair of link targets from two sets of 11, with and without damage, and a volume without its root inode, limit 3 | `ReturnsWhatIsNamed`, `TrailingSlashIsDot`, `LookupReturns` hold |
| PathOps | 2 names, 4 inode ids, 11 path strings, 3 link targets, limit 2; renames cut short by a crash | `CallsTakeEffect`, `CopiesNameTheSource`, `LookupsAreMonotone`, `SlashMeansDirectory` hold; 12,100 states |
| PathData | 2 files, 2 names and a symbolic link, 3 data blocks of 2 bytes, one block or byte of new payload per call, copies and cuts of any range | `BlocksHaveNamedOwners`, `ContentsAsSpecified`, `ClonesAreCopies`, `OthersKeepTheirBytes` hold; 28,800 states up to renaming |
| PathDataCloneOver | as PathData | `CloneOverCopiesAllBlocks` is violated (finding 2) |
| BufferCache | 2 blocks, 3 values, 3 faults; fairness | `StatesAreTrue`, `ImplementsSyncedBlocks`, `FlushCatchesUp` hold |
| Superblocks | words 0 to 18, blocks of 2 bytes, devices of 6 and 9 blocks, up to 2 damaged fields | `AcceptedIsSafe`, `AcceptedIsALayout`, `CapacityHolds` hold |

Where a module's `TypeOK` (`WalkTypeOK` in `PathLookup`) is not listed it is a conjunct
of the first invariant of its run (`Sound`, `ReturnsWhatIsNamed`, `RepairedOnce`,
`BlocksHaveNamedOwners`, `StatesAreTrue`, `CrashKeepsWhole`); that of `Superblocks` is
proved.

**Why the bounds are enough.** With two home blocks a transaction can be half
replayed, and two transactions can overlap in one block and differ in the other.
Seven journal blocks make banks of three blocks, so that two one-write
transactions are retained, a prefix is split off, a bank is reused, and a
two-write log fills a bank exactly; nine blocks retain three. Three transactions
and two faults allow a crash during the recovery of a crash, followed by new
work. Five inode ids give the root, directories three deep with a file, identifier
reuse, and files with two names. Blocks of two bytes have a first and a last byte,
and a byte write before, at or after a boundary leaves every mixed image that the
block operations then move; payloads are blocks of ones, while zeroing, copying,
cloning, exchange and growth work on ranges of any length up to the three blocks, so
that a copy within a file may overlap its source in either direction. The
operations do not depend on values otherwise. The payload of one call is
one block or byte; longer vectors and contiguous runs are those of the clone operations.
The parameters named `Max…` and the counters `issued` and `faults` are bounds only.

A log of four entries holds a whole transaction and the start of the next, and a
reservation of six holds two logs with the same identifiers; `ReadersAgree` also
looks at every record that might follow what is stored. Three entries on
four inodes make a lost tree of depth three, one with two tops, one that shares an
inode with the reachable tree, and a cycle. Limit 3 on link expansions lies below
the longest chain the targets allow, so that both sides of the limit are reached.
Two bytes per block leave an end of file inside the last block. `CutShort` names the
kinds of calls that a crash may interrupt between their home writes: renames change
two entries of one table, and exchange or replacement other tables too, so every
later call meets every mixture of ages. Words up to 18 with devices of up to 9 blocks
put the sums of two and three regions on both sides of the overflow. `call` in
`PathOps` and `PathData` records the last call for the properties; no step depends on
it, and the VIEW leaves it out.

**Deadlock** is checked in every passing run except `PathLookup`, where a lookup ends.
Elsewhere something can always be asked for: in the Wal runs a recovered, drained
system accepts an unchanged table (`NoOpTx`), in the others some operation is always
accepted.

**Fairness.** Each is what the code's callers do, and each bound on faults is finite.

* `WalWriteThrough`: weak fairness of `Step`, since a running call goes on with its
  device operations and nothing in the code waits; strong fairness of
  `recover_journal_and_checkpoint`, which every pathname operation calls before it
  mutates anything. It is strong because low-level calls may come first again and
  again.
* `BufferCache`: whoever uses the cache calls `flush` again after an error (weak
  fairness of `BeginFlush`), and a running flush goes on.
* `FsckRepair`: whoever repairs a volume calls each repair, again after a crash.
* `PathLookup`: the loop runs on.

**Assumptions on the device.** Three kinds of device are modelled, all with atomic
block writes. In `WalReorder` unflushed writes persist in any order; the flushes
that commit an anchor (`CommitFlush`) are assumed not to fail without loss of power
there, because reads would then see an anchor of which nobody knows whether it is
durable, and a process that goes on from it on a reordering device is outside of
what is claimed. In `WalWriteThrough` every write is durable at once and any call
may fail. In `JournalLog` writes persist in order of issue and any call may fail; a
successful flush then makes everything accepted before it durable, also what an
earlier, failed flush left. The repository's own fault model excludes controller
reordering (`docs/crash-testing.md`, `docs/recovery.md`). The buffer cache is checked
on a device that persists single blocks early in any order.

### Findings

1. *Zeroed reservation* (`WalZeroed`). The first retained append on an all-zero
   journal writes bank 0 before there is any anchor. A crash in between leaves a
   reservation that `decode_journal_region` rejects, although the doc comment and
   `docs/journal-region-format.md` allow this start and promise old or new.
2. *Clone over an existing file* (`PathDataCloneOver`). The source is read up to its
   end of file and cut into whole blocks, so a partly filled last block is dropped
   from the copy; in a debug build the function's own assertion fails instead. The
   wrapper was written for the format without a byte-exact end of file.

Observed while translating, without a run of their own:

* A table primitive whose image equals home returns Ok without looking at the journal
  (`directory_tx.rs:52`). If a committed log is pending, its replay overwrites the
  acknowledged image: with `StaleCalls = TRUE`, `AckedPersists` and with it
  `AllOrNothing` are violated. Pathname operations recover first and are not exposed;
  the runs and proofs assume a drained journal.
* Creation cuts a path at its last slash before either half is parsed: `/d//f` becomes
  `/d/` and `f` and is accepted, while a lookup of the same string is refused, as
  `docs/symlinks.md` says of empty components. The paths of `PathOps` are well formed.
* Whole-file zeroing asks for all bytes of all blocks, and the range primitive refuses
  what lies past the end of file: a file that does not end at a block boundary cannot
  be zeroed (`ZeroFileAt` is then disabled).
* Block-granular edits keep the number of unused bytes in the last block
  (`inode_codec.rs:153`), and truncation to a block count clears nothing
  (`truncate_tx.rs:329`). If the end of file lies inside the last block, such a
  truncation leaves the last bytes of the new last block past the end, and a later
  growth or append of whole blocks (`file_append_batch.rs:72`) moves the end over them:
  they are readable again. The docs say that the tail slack is kept (`path_grow.rs:20`)
  and promise zeros for the byte-exact operations only, which clear the tail; the
  reference does the same, and `ContentsAsSpecified` claims no more.
* A page of extents after `usize::MAX` starts again at block zero
  (`path_file_extents.rs:147`), although the cursor is documented as exclusive.

## 4. Proofs

All proofs are checked by TLAPS and hold for every value of the constants that
satisfies the named assumptions of the modules. The assumptions say what the code
fixes: sizes are naturals, a block has at least one byte, payloads are block images,
tables are finite. What is proved of each component:

* **WalProofs** – for every `Home`, `Value`, `Tx`, `Clean`, `JournalBlocks`, every
  bound and both kinds of device, under the two premises `~ZeroedJournal` (the volume
  was formatted by this code) and `~StaleCalls` (table primitives run on a drained
  journal); finding 1 and the first observation above show that each is needed.
  First what an overlay does: its type, an empty log, two logs in sequence, a log
  replayed over a home that already holds some of its writes. Then the inductive
  invariant `Inv` and, from it, `TypeOK`, `JournalDecodable`, `AllOrNothing`,
  `AckedPersists` and `FreshBase`. `AllOrNothing` is not inductive: it says nothing
  of the blocks an anchor is about to cover. `Inv` adds: both views of the
  reservation are backed by the blocks they name, and have the same anchor except
  while an anchor flush is outstanding (`AnchorInv`); a home block that is not yet
  durable is covered by the durable log (`HomeInv`); how far the tail loop
  (`V2Inv`), the bank loop (`V3Inv`) and the replay loop (`ReplayInv`) have come,
  in both views; and that a log is cut only when home has all of it
  (`CollapseInv`). The key step is the bank argument: the target bank and the
  active bank are disjoint (`BankPlaces`), so publication never touches what the
  durable anchor covers. `CheckedInv` on top of it carries fsck's verdict from the
  projection it was given to the home image the call ends with, and yields
  `CheckedEndsClean`. Last, `ImplementsAtomicStore`: the store is
  `Recovered(homeDur, jDur)`, the outstanding transaction is the image being
  published, and the only steps that change the store are those that make an anchor
  durable, early or by a flush.
* **GeometryProofs** – `TypeOK`, `AcceptedIsSafe`, `AcceptedIsALayout` and
  `CapacityHolds` of `Superblocks`, for every word size, block size, header length,
  device size, request, and any damage to block zero. The inductive invariant is
  `TypeOK /\ ReadDecodes /\ CapacityHolds`, where `ReadDecodes` says that what was
  read is what decodes of block zero. `AcceptedIsSafe` and `AcceptedIsALayout` follow
  from two lemmas about the reader's chain of comparisons (`DecodeIsLayout`,
  `DecodedIsApart`), `CapacityHolds` from the lemmas on rounding up (`CeilingCovers`,
  `BlocksCover`).
* **BufferCacheProofs** – `StatesAreTrue` and `ImplementsSyncedBlocks`. The states of
  the entries alone are not inductive: that a flush may call everything clean at its
  end needs the list it works on to be exactly the dirty entries (`FlushPlan`), and
  that a crash undoes no acknowledged flush needs the history to bound what the
  device, the medium and a read hold (`HistoryBounds`).
* **NamespaceProofs** – `Ownership`, `Sound`, `OneParent` and `NamesKeepFiles`, for any
  set of names and any number of inodes and blocks. `Sound` is not inductive.
  Reachability says nothing of how a rename may cut the entries above a directory; the
  invariant has instead that directories are acyclic, every inode is named and no
  directory twice (`DirectoriesAcyclic`, `AllNamed`, `OneName`), and reachability
  follows. The ancestor checks of rename, replacement and exchange are what
  keep the graph acyclic; that they may follow one parent only is `OneName`. The lemmas
  on tables come first: the blocks that first fit returns are different and free, adding
  or retiring inodes keeps each block with its one owner, and in an acyclic graph in
  which everything has a name everything can be reached from the root.
  `RemoveTreeNeverRefused` and `ReplaceDirectoryNeverRefused` say that no history of
  the volume makes the checks before recursive removal or before directory
  replacement fail: the part of `NothingStuck` that can be said without `ENABLED`.
* **FsckRepairProofs** – `NeverFailsAfterCommit`, `RepairedOnce`, `ReleasesExactly` and
  `ReattachesMinimally`, for damaged volumes of any size and any number of crashes. The
  invariant (`RepairInv`) is that the log holds the volume that was first met or the one
  repair of it that the audit allows (`IsRepair`); `RepairIsAccepted` shows that strict
  fsck accepts such a volume, so that the final audit cannot fail and a second call
  after a crash finds nothing to do.
* **PathDataProofs** – `BlocksHaveNamedOwners`, `OthersKeepTheirBytes`,
  `ContentsAsSpecified` and `ClonesAreCopies`, for any number of files and blocks and
  every block size. First, each operation of `FileData` keeps `FileInv` (block vectors
  repeat nothing, are disjoint, cover exactly the allocated blocks and fit the end of
  file) and changes no inode and no image of a file it was not given (`Apart`); under
  it, the lemmas on whole blocks of bytes, on splices of block vectors, on images and on
  the bytes they make. To `FileInv` the invariant adds
  `NamesInv` (a file without a name is empty) and `ContentInv`: the reference `ideal` is
  the concatenation of the images of each file's blocks, and its length. One lemma per
  operation (`Confined`) carries `ContentInv` over its step: that the block-vector
  surgery, the chunking and the zeroing of the code are the splices, writes and cuts of
  byte strings that the reference makes. A copy is the case in which the reference also
  chooses the bytes: `RewriteStep` and `WriteAsStep` ask that they be those the code
  stores, and `RangeBytes` shows it for a range of blocks. `ContentInv` needs `FileInv`: a write to a
  block that another file also held would change that file's bytes and not its
  reference. For the calls on paths, `Apart` is what makes a read through any other
  name return the same bytes; for a clone, `FlatChunks` and `PaddedCopy` show that
  what is stored is what was read, followed by zeros.
* **JournalLogProofs** – `CrashKeepsWhole`, `ReadsAreWhole`, `ReadersAgree` and
  `SplitIsExact`, for logs and reservations of any length, any set of blocks and
  identifiers, and any number of failed calls between two crashes. What a loop over the
  entries computes is an induction over data, and the library's induction principles
  cannot be instantiated by the provers. It is made instead with a set: the numbers of
  turns after which a statement holds contain zero and the successor of each member, and
  a least number outside would contradict that (`Inductive`). With it each fold becomes
  a function of the number of its turns (`PlanAt`, `ReplayAt`, `AuditAt`, `HomeAt`), an
  overlay is characterised by the last write to each block (`Overlays`), the plan of one
  log after another is the one plan after the other (`PlanJoined`), replay and audit
  follow the plan turn by turn (`ReplayFollows`, `AuditAgrees`), and the plan is the
  loop-free meaning of the entries (`PlanOrdered`, `PlanShows`). The invariant
  `JournalInv` has two parts. `LogInv`: the plan of every prefix of the writer's log has
  the writes its commits had made by then, and holds back those of the open
  transaction. `DeviceInv`: every image a crash may leave is well formed, recovers to a
  member of `maybe`, and what reads see recovers to `goal`. `CrashKeepsWhole` says only
  the second half, of images, and a log is stored from any prefix, so `LogInv` is needed
  to say what is being published. `CallPreserves` treats all device calls alike: if the
  images up to the last anchor recover to the old store and those after it to the store
  asked for, then the call may fail at any of its steps.
* **PathProofs** – `ReturnsWhatIsNamed` and `TrailingSlashIsDot`, for every volume,
  damaged or not, every path and every limit on link expansions. The assumptions are that
  0 is no inode number and that paths and targets are sequences of strings. The reference
  is a recursive function over the expansions that are left, whose value uses a fold over
  names; both are first shown to be what they look like (`LinksExist`, `LinksValue`,
  `WalkTurn`), by induction with a set, since a walk never leaves more expansions than it
  was given (`Counted`). From this come the laws of walks: along joined names
  (`WalkJoined`, `EndJoined`), with the next name (`EndHead`), and once lost
  (`EndLost`). `ReturnsWhatIsNamed` is not inductive, for it says nothing of a lookup
  that is under way. The invariant is `Steady /\ Answered /\ Faithful`; `Faithful` says
  that what the path names is the `Answer` of the walk from the current directory along
  the queue with the expansions that are left. Each turn keeps it; the turn that matters
  splices a target in front of the queue, where `AnswerFollows` shows that one counter
  and one directory flag for the whole lookup do what a separate lookup of each link
  does. That a slash is a dot follows for the reference (`SlashIsDot`) and so for the
  resolver.

  The same module proves the four properties of calls on paths, `CallsTakeEffect`,
  `CopiesNameTheSource`, `LookupsAreMonotone` and `SlashMeansDirectory`, for every set of
  names, paths and targets, every limit and every kind of call that a crash may cut
  short. The assumptions, beyond those of `NamespaceProofs`, are that no entry is named
  `.` or `..`, as `validate_name` demands, and that targets are sequences of strings. The
  invariant is `PathInv`: `NamespaceInv`, and every symbolic link has a target. The
  fact behind all four is `LookupFits`, about a volume and a part of it (`PartOf`):
  what a path names in the part it also names in the whole; and where it names something
  in the whole only, the lookup in the part fails with `NotFound` and nothing else. It is
  shown for one name, for a name whose link is followed, for a walk and for the table of
  links, by induction over names and over expansions. A part must agree with the whole on
  the parent of each directory it has, or `..` would tell them apart; that is where the
  invariant of the namespace is needed, in which a directory has one name (`OneName`).
  Every create, link and clone makes the volume a part of its successor (`Grown`), every
  removal makes the successor a part of the volume (`Shrunk`), and `LookupSplit` relates
  a path to its parent's path and its last component, so that the selected entry is what
  the path itself names. Recovery changes `home` and no committed table.

Only model-checked, and why:

* liveness (`CallsEnd`, `LogDrains`, `RepairsSucceed`, `LookupReturns`,
  `FlushCatchesUp`) and the rest of `NothingStuck`: the prover handles neither fairness
  nor `ENABLED`.

## 5. Not modelled

* Byte layouts, checksums and magic numbers of superblock, journal records, inode
  and directory tables: pure encodings. A checksum is the statement that the covered
  blocks are one image; damage to the medium is modelled for the fields of the
  superblock, which has no checksum, and for the tables that repair meets.
* Torn blocks: the repository's crash model writes whole blocks.
* v1 journal images: readable, never written.
* Defragmentation (`path_contiguous_defrag.rs`): a contiguous replacement of a range by
  its own images. It does something only with a fragmented range and a free run as
  long as the range, at least five blocks with a second owner, beyond the three that
  all content operations together can be checked on.
* Paginated listings of names, extents and free space, `path_metadata.rs` and
  `path_read_dir.rs`: they return fields of one snapshot and change nothing.
* The order of the writes of formatting: the superblock is written last, without a
  flush before it, so its order after the initial images is the device's own.
* `InodeTable` and `DirectoryTable` in memory (`inode.rs`, `directory.rs`), which no
  operation on a volume uses, and the free count of `BlockAllocator`.
* Full tables: a table without room rejects the call, which is a disabled action for
  every property here. `FsckRepair` has the capacity of the directory region, since
  the repair adds entries on its own account.
* Sizes of logs in bytes: a log of n writes takes n + 1 blocks in `Wal`, and a
  transaction larger than the journal is a rejected call.

## 6. Plan

Done: the write-ahead log with its refinement, the journal's entries, the namespace,
file data, lookup and the path level, repair, the buffer cache and geometry are
modelled and checked, and each of these parts has proofs. Next: an abstract tree of
paths that `Namespace` implements.
