-------------------------------- MODULE Wal --------------------------------
(***************************************************************************)
(* The bounded write-ahead log: journal publication (journal_region.rs),   *)
(* recovery (recovery.rs) and checkpointing (journal_checkpoint.rs) over a *)
(* block device that may lose power, fail a call, and make blocks durable  *)
(* early.                                                                  *)
(*                                                                         *)
(* One step is one device operation (write_block or flush) or one call     *)
(* being issued.  The library is single-threaded: a call owns the device   *)
(* until it returns, fails, or the machine crashes.  A write is a record   *)
(* [block, val, commit] (see WriteSets); Begin/Write.../Commit of the code *)
(* is a run of writes whose last one carries the commit mark.              *)
(***************************************************************************)
EXTENDS WriteSets

CONSTANTS
  Home,           \* home blocks: allocation, inode, directory and data blocks
  Value,          \* contents of a home block
  Tx,             \* the transactions callers publish
  Clean,          \* the home images strict fsck accepts
  JournalBlocks,  \* superblock.journal_blocks
  WriteThrough,   \* TRUE: every write is durable at once.  FALSE: writes stay
                  \* volatile until a flush, or persist early, in any order
  ZeroedJournal,  \* TRUE: the reservation starts all zero (legacy format)
  StaleCalls,     \* TRUE: table primitives are also called while a log is pending
  MaxTx,          \* bound: transactions issued
  MaxFaults       \* bound: crashes and failed calls

ASSUME SizeAssumption == /\ JournalBlocks \in Nat \ {0}
                         /\ MaxTx \in Nat
                         /\ MaxFaults \in Nat
ASSUME FlagAssumption == /\ WriteThrough \in BOOLEAN
                         /\ ZeroedJournal \in BOOLEAN
                         /\ StaleCalls \in BOOLEAN

Write == [block : Home, val : Value, commit : BOOLEAN]

ASSUME TxAssumption == \A t \in Tx : t \in Seq(Write) /\ IsTransaction(t)
ASSUME CleanAssumption == Clean \subseteq [Home -> Value]

VARIABLES
  homeVol, homeDur,  \* home blocks as reads see them / as a crash leaves them
  jVol, jDur,        \* the journal blocks, likewise
  pc,                \* the device operation the running call performs next
  call,              \* the running call
  img,               \* the log the call publishes, or leaves after a checkpoint
  plan,              \* the writes the call replays
  k,                 \* the loop index of the running loop
  before, goal,      \* history: the store the caller last knew, and the store
                     \* its running or last call asked for
  issued, faults     \* counters of the bounds

device == <<homeVol, homeDur, jVol, jDur>>
vars == <<homeVol, homeDur, jVol, jDur, pc, call, img, plan, k, before, goal,
          issued, faults>>

(***************************************************************************)
(* The journal reservation.                                                *)
(***************************************************************************)
JIndex == 0 .. JournalBlocks - 1

\* A journal block: an anchor (zero, empty, active, snapshot) or a payload
\* block.  An anchor stands for the log whose length and checksum it holds.
JBlock == [kind : {"zero", "empty", "active", "snapshot", "tail", "bank"},
           log : Seq(Write), at : JIndex]

ZeroBlock == [kind |-> "zero", log |-> <<>>, at |-> 0]
EmptyAnchor == [kind |-> "empty", log |-> <<>>, at |-> 0]
ActiveAnchor(log) == [kind |-> "active", log |-> log, at |-> 0]
SnapshotAnchor(log, bank) == [kind |-> "snapshot", log |-> log, at |-> bank]

\* Every write record is one block of data plus a header, so a log of n
\* writes needs n + 1 blocks (n < 124: the headers then fit one block).
Fits(log, blocks) == Len(log) + 1 <= blocks

\* Block i of the v2 region image, 0 < i; past the payload it is padding.
TailBlock(log, i) == IF i <= Len(log)
                     THEN [kind |-> "tail", log |-> log, at |-> i]
                     ELSE ZeroBlock

\* Block i of a v3 bank image.
BankBlock(log, i) == IF i <= Len(log)
                     THEN [kind |-> "bank", log |-> log, at |-> i]
                     ELSE ZeroBlock

BankBlocks == (JournalBlocks - 1) \div 2
BankStart(bank) == 1 + bank * BankBlocks

\* The bank a retained publication writes: never the active one.
TargetBank(anchor) == IF anchor.kind = "snapshot" THEN 1 - anchor.at ELSE 0

\* load_journal_image succeeds: the anchor and every block it covers agree.
Decodable(j) ==
  \/ j[0].kind = "empty"
  \/ /\ j[0].kind = "snapshot"
     /\ \A i \in 0 .. BankBlocks - 1 :
           j[BankStart(j[0].at) + i] = BankBlock(j[0].log, i)
  \/ /\ j[0].kind = "active"
     /\ \A i \in 1 .. JournalBlocks - 1 : j[i] = TailBlock(j[0].log, i)
  \/ \A i \in JIndex : j[i] = ZeroBlock

\* The log load_journal_image returns; <<>> for an empty journal.
Load(j) == j[0].log

\* What recovery makes of a device image: the store as callers know it.
Recovered(home, j) == Overlay(home, Load(j))

(***************************************************************************)
(* The device.                                                             *)
(***************************************************************************)
WriteHome(b, v) ==
  /\ homeVol' = [homeVol EXCEPT ![b] = v]
  /\ homeDur' = IF WriteThrough THEN [homeDur EXCEPT ![b] = v] ELSE homeDur
  /\ UNCHANGED <<jVol, jDur>>

WriteJournal(i, blk) ==
  /\ jVol' = [jVol EXCEPT ![i] = blk]
  /\ jDur' = IF WriteThrough THEN [jDur EXCEPT ![i] = blk] ELSE jDur
  /\ UNCHANGED <<homeVol, homeDur>>

Flush == /\ homeDur' = homeVol
         /\ jDur' = jVol
         /\ UNCHANGED <<homeVol, jVol>>

\* A block reaches the medium before any flush asks for it.
PersistHome(b) ==
  /\ homeDur[b] # homeVol[b]
  /\ homeDur' = [homeDur EXCEPT ![b] = homeVol[b]]
  /\ UNCHANGED <<homeVol, jVol, jDur, pc, call, img, plan, k, before, goal,
                 issued, faults>>

PersistJournal(i) ==
  /\ jDur[i] # jVol[i]
  /\ jDur' = [jDur EXCEPT ![i] = jVol[i]]
  /\ UNCHANGED <<homeVol, homeDur, jVol, pc, call, img, plan, k, before, goal,
                 issued, faults>>

(***************************************************************************)
(* Calls and their ends.                                                   *)
(***************************************************************************)
Idle == pc' = "idle" /\ call' = "none" /\ img' = <<>> /\ plan' = <<>> /\ k' = 0

\* The call returns Ok: what it asked for is now what the caller knows.
Return == Idle /\ before' = goal /\ UNCHANGED <<goal, issued, faults>>

\* The call goes on with its next device operation.
Goto(label) == pc' = label /\ UNCHANGED <<call, before, goal, issued, faults>>

\* The rendered table image differs from home in exactly these blocks
\* (CaptureDevice::collect_changed_range).
IsDiff(t, home) == /\ \A i \in DOMAIN t : t[i].val # home[t[i].block]
                   /\ \A i, j \in DOMAIN t : t[i].block = t[j].block => i = j

\* Mutant: publication over whatever the journal holds.
MayPublishOverAny(j) == Decodable(j)

\* store_journal_image refuses to replace a journal that still holds a log.
MayPublishOver(j) == Decodable(j) /\ Load(j) = <<>>

\* A journaled table or file primitive publishes its transaction.  The calls
\* "tx" leave the log active after replay; "txCheckpoint" clear it as well.
BeginTx(t, c) ==
  /\ pc = "idle"
  /\ issued < MaxTx
  /\ IsDiff(t, homeVol)
  /\ MayPublishOver(jVol)
  /\ Fits(t, JournalBlocks)
  /\ pc' = "clear"
  /\ call' = c
  /\ img' = t
  /\ before' = Recovered(homeVol, jVol)
  /\ goal' = Overlay(homeVol, t)
  /\ issued' = issued + 1
  /\ UNCHANGED <<device, plan, k, faults>>

\* The rendered image equals home: the primitive returns Ok at once, without
\* looking at the journal.
NoOpTx ==
  /\ pc = "idle"
  /\ StaleCalls \/ Load(jVol) = <<>>
  /\ before' = homeVol
  /\ goal' = homeVol
  /\ UNCHANGED <<device, pc, call, img, plan, k, issued, faults>>

\* append_retained_journal_entries: a new snapshot of the retained log and t.
BeginAppend(t) ==
  /\ pc = "idle"
  /\ issued < MaxTx
  /\ BankBlocks > 0
  /\ Decodable(jVol)
  /\ jVol[0].kind # "active"
  /\ Fits(Load(jVol) \o t, BankBlocks)
  /\ pc' = "bank"
  /\ call' = "append"
  /\ img' = Load(jVol) \o t
  /\ k' = 0
  /\ before' = Recovered(homeVol, jVol)
  /\ goal' = Overlay(homeVol, Load(jVol) \o t)
  /\ issued' = issued + 1
  /\ UNCHANGED <<device, plan, faults>>

\* The beginning of every replay: the writes to replay, and the log that is
\* to remain once they are home.
BeginReplay(c, writes, rest) ==
  /\ pc' = "replay"
  /\ call' = c
  /\ plan' = writes
  /\ img' = rest
  /\ k' = 1
  /\ before' = Recovered(homeVol, jVol)
  /\ goal' = Recovered(homeVol, jVol)
  /\ UNCHANGED <<device, issued, faults>>

\* recover_journal, recover_journal_and_checkpoint.  On an empty journal both
\* return Ok without touching the device.
BeginRecover(c) ==
  /\ pc = "idle"
  /\ Decodable(jVol)
  /\ Load(jVol) # <<>>
  /\ BeginReplay(c, Load(jVol), <<>>)

\* checkpoint_journal on its own: clears the log without replaying it.  Its
\* contract, which the code leaves to the caller (fsck_repair.rs is one), is
\* that the log is fully processed: replayed, and the home blocks durable.
BeginCheckpoint ==
  /\ pc = "idle"
  /\ Decodable(jVol)
  /\ Load(jVol) # <<>>
  /\ homeVol = homeDur
  /\ Recovered(homeVol, jVol) = homeVol
  /\ pc' = "collapse"
  /\ call' = "checkpoint"
  /\ before' = homeVol
  /\ goal' = homeVol
  /\ UNCHANGED <<device, img, plan, k, issued, faults>>

\* Mutant: fsck looks at home as it is, not at the projection.
BeginCheckedHome ==
  /\ pc = "idle"
  /\ Decodable(jVol)
  /\ Load(jVol) # <<>>
  /\ homeVol \in Clean
  /\ BeginReplay("checked", Load(jVol), <<>>)

\* recover_journal_and_checkpoint_checked: fsck of the projection comes first.
BeginChecked ==
  /\ pc = "idle"
  /\ Decodable(jVol)
  /\ Load(jVol) # <<>>
  /\ Overlay(homeVol, Load(jVol)) \in Clean
  /\ BeginReplay("checked", Load(jVol), <<>>)

\* retained_prefix_split: a prefix of whole transactions, n writes long.
IsSplit(log, n) == n \in DOMAIN log /\ log[n].commit

\* recover_retained_prefix_and_checkpoint: only the prefix is projected
\* through fsck and replayed; the suffix stays in the journal.
BeginPrefix(n) ==
  /\ pc = "idle"
  /\ jVol[0].kind = "snapshot"
  /\ Decodable(jVol)
  /\ IsSplit(Load(jVol), n)
  /\ Overlay(homeVol, SubSeq(Load(jVol), 1, n)) \in Clean
  /\ BeginReplay("prefix", SubSeq(Load(jVol), 1, n),
                 SubSeq(Load(jVol), n + 1, Len(Load(jVol))))

(***************************************************************************)
(* store_journal_image: empty anchor, flush, tail blocks last to first,    *)
(* flush, active anchor, flush.                                            *)
(***************************************************************************)
Clear == /\ pc = "clear"
         /\ WriteJournal(0, EmptyAnchor)
         /\ Goto("clearFlush")
         /\ UNCHANGED <<img, plan, k>>

ClearFlush == /\ pc = "clearFlush"
              /\ Flush
              /\ Goto("tail")
              /\ k' = JournalBlocks - 1
              /\ UNCHANGED <<img, plan>>

\* Mutants: the loop stops one block late, or never.
StageTailLong ==
        /\ pc = "tail"
        /\ WriteJournal(k, TailBlock(img, k))
        /\ Goto(IF k = 0 THEN "tailFlush" ELSE "tail")
        /\ k' = k - 1
        /\ UNCHANGED <<img, plan>>
StageTailStuck ==
        /\ pc = "tail"
        /\ WriteJournal(k, TailBlock(img, k))
        /\ Goto(IF k = 1 THEN "tailFlush" ELSE "tail")
        /\ UNCHANGED <<img, plan, k>>

StageTail ==
        /\ pc = "tail"
        /\ WriteJournal(k, TailBlock(img, k))
        /\ Goto(IF k = 1 THEN "tailFlush" ELSE "tail")
        /\ k' = k - 1
        /\ UNCHANGED <<img, plan>>

\* Mutant: no publication barrier between the tail blocks and the anchor.
TailNoFlush == /\ pc = "tailFlush"
               /\ Goto("active")
               /\ UNCHANGED <<device, img, plan, k>>

TailFlush == /\ pc = "tailFlush"
             /\ Flush
             /\ Goto("active")
             /\ UNCHANGED <<img, plan, k>>

Active == /\ pc = "active"
          /\ WriteJournal(0, ActiveAnchor(img))
          /\ Goto("activeFlush")
          /\ UNCHANGED <<img, plan, k>>

\* The transaction is durable; the primitive goes on with recover_journal,
\* which loads the log afresh.
ActiveFlush == /\ pc = "activeFlush"
               /\ Flush
               /\ Goto("replay")
               /\ plan' = Load(jVol)
               /\ img' = <<>>
               /\ k' = 1

(***************************************************************************)
(* Replay, and what follows the home flush.                                *)
(***************************************************************************)
Replay == /\ pc = "replay"
          /\ WriteHome(plan[k].block, plan[k].val)
          /\ Goto(IF k = Len(plan) THEN "replayFlush" ELSE "replay")
          /\ k' = k + 1
          /\ UNCHANGED <<img, plan>>

\* Mutant: recover_journal_and_checkpoint forgets its checkpoint.
KeepsLogMore(c) == c \in {"tx", "recover", "recoverCheckpoint"}
KeepsLog(c) == c \in {"tx", "recover"}

\* The log may be cut now: collapse it, or publish what is left of it.
CutLog == /\ Goto(IF img = <<>> THEN "collapse" ELSE "bank")
          /\ k' = 0
          /\ UNCHANGED <<img, plan>>

\* Mutant: the log is cut while replayed home blocks are still volatile.
ReplayNoFlush == /\ pc = "replayFlush"
                 /\ UNCHANGED device
                 /\ IF KeepsLog(call) THEN Return ELSE CutLog

ReplayFlush == /\ pc = "replayFlush"
               /\ Flush
               /\ IF KeepsLog(call) THEN Return ELSE CutLog

\* checkpoint_journal / store_empty_journal_anchor.
Collapse == /\ pc = "collapse"
            /\ WriteJournal(0, EmptyAnchor)
            /\ Goto("collapseFlush")
            /\ UNCHANGED <<img, plan, k>>

CollapseFlush == /\ pc = "collapseFlush"
                 /\ Flush
                 /\ Return

(***************************************************************************)
(* publish_v3_snapshot: the inactive bank, flush, the anchor, flush.       *)
(***************************************************************************)
Bank == /\ pc = "bank"
        /\ WriteJournal(BankStart(TargetBank(jVol[0])) + k, BankBlock(img, k))
        /\ Goto(IF k + 1 = BankBlocks THEN "bankFlush" ELSE "bank")
        /\ k' = k + 1
        /\ UNCHANGED <<img, plan>>

BankFlush == /\ pc = "bankFlush"
             /\ Flush
             /\ Goto("anchor")
             /\ UNCHANGED <<img, plan, k>>

Anchor == /\ pc = "anchor"
          /\ WriteJournal(0, SnapshotAnchor(img, TargetBank(jVol[0])))
          /\ Goto("anchorFlush")
          /\ UNCHANGED <<img, plan, k>>

\* Mutant: the publication returns before its anchor is durable.
AnchorNoFlush == /\ pc = "anchorFlush"
                 /\ UNCHANGED device
                 /\ Return

AnchorFlush == /\ pc = "anchorFlush"
               /\ Flush
               /\ Return

Step == \/ Clear \/ ClearFlush \/ StageTail \/ TailFlush \/ Active \/ ActiveFlush
        \/ Replay \/ ReplayFlush \/ Collapse \/ CollapseFlush
        \/ Bank \/ BankFlush \/ Anchor \/ AnchorFlush

(***************************************************************************)
(* Faults.                                                                 *)
(***************************************************************************)
\* Power is lost: whatever was not durable is gone.
Crash == /\ faults < MaxFaults
         /\ homeVol' = homeDur
         /\ jVol' = jDur
         /\ Idle
         /\ faults' = faults + 1
         /\ UNCHANGED <<homeDur, jDur, before, goal, issued>>

\* The flushes that make an anchor durable.
CommitFlush == {"activeFlush", "anchorFlush", "collapseFlush"}

\* A device operation fails, or the process dies, without loss of power: the
\* call ends and its earlier writes stay where they are.  On a device that
\* reorders writes the anchor flushes are assumed not to fail (see README).
Fail == /\ faults < MaxFaults
        /\ pc # "idle"
        /\ WriteThrough \/ pc \notin CommitFlush
        /\ Idle
        /\ faults' = faults + 1
        /\ UNCHANGED <<device, before, goal, issued>>

(***************************************************************************)
(* The specification.                                                      *)
(***************************************************************************)
Init == /\ homeVol \in Clean
        /\ homeDur = homeVol
        /\ jVol = [i \in JIndex |-> IF i = 0 /\ ~ZeroedJournal
                                    THEN EmptyAnchor ELSE ZeroBlock]
        /\ jDur = jVol
        /\ pc = "idle" /\ call = "none" /\ img = <<>> /\ plan = <<>> /\ k = 0
        /\ before = homeVol
        /\ goal = homeVol
        /\ issued = 0
        /\ faults = 0

Begin == \/ \E t \in Tx, c \in {"tx", "txCheckpoint"} : BeginTx(t, c)
         \/ NoOpTx
         \/ \E t \in Tx : BeginAppend(t)
         \/ \E c \in {"recover", "recoverCheckpoint"} : BeginRecover(c)
         \/ BeginCheckpoint
         \/ BeginChecked
         \/ \E n \in DOMAIN Load(jVol) : BeginPrefix(n)

Persist == \/ \E b \in Home : PersistHome(b)
           \/ \E i \in JIndex : PersistJournal(i)

Next == Begin \/ Step \/ Persist \/ Crash \/ Fail

Spec == Init /\ [][Next]_vars

\* A running call performs its device operations; somebody keeps mounting the
\* device, and every mount recovers and checkpoints the journal.
Fairness == /\ WF_vars(Step)
            /\ SF_vars(BeginRecover("recoverCheckpoint"))

FairSpec == Spec /\ Fairness

(***************************************************************************)
(* Properties.                                                             *)
(***************************************************************************)
Label == {"idle", "clear", "clearFlush", "tail", "tailFlush", "active",
          "activeFlush", "replay", "replayFlush", "collapse", "collapseFlush",
          "bank", "bankFlush", "anchor", "anchorFlush"}
Call == {"none", "tx", "txCheckpoint", "append", "recover",
         "recoverCheckpoint", "checkpoint", "checked", "prefix"}

\* Every variable has its type; in particular no loop of publication, replay
\* or bank writing leaves the reservation or the plan.
TypeOK == /\ homeVol \in [Home -> Value] /\ homeDur \in [Home -> Value]
          /\ jVol \in [JIndex -> JBlock] /\ jDur \in [JIndex -> JBlock]
          /\ pc \in Label /\ call \in Call
          /\ img \in Seq(Write) /\ plan \in Seq(Write)
          /\ k \in 0 .. JournalBlocks + Len(plan)
          /\ before \in [Home -> Value] /\ goal \in [Home -> Value]
          /\ issued \in 0 .. MaxTx /\ faults \in 0 .. MaxFaults

\* Whatever block reaches the medium first, and wherever a crash falls, the
\* reservation decodes: load_journal_image never rejects a journal that only
\* this code has written (journal_region.rs publication order).
JournalDecodable == Decodable(jDur) /\ Decodable(jVol)

\* The store that recovery would rebuild after a crash at this very moment is
\* the one the caller last knew or the one its last call asked for, never a
\* mixture; and once the call has returned Ok it is the one asked for.
AllOrNothing == Recovered(homeDur, jDur) \in {before, goal}

\* Once a call has returned Ok, what it asked for survives every later crash
\* and recovery: the Ok of a journaled primitive means "persisted".
AckedPersists == before = goal => Recovered(homeDur, jDur) = goal

\* Between calls, what the running instance would compute its next mutation
\* from is what a crash would bring back: no caller works from a store that
\* can still be lost, nor from one that a pending log will overwrite.
FreshBase == pc = "idle" => Recovered(homeVol, jVol) = Recovered(homeDur, jDur)

\* Checked recovery and prefix checkpointing hand back a home image fsck
\* accepts, and the log they cut is empty or exactly the unreplayed suffix:
\* replaying it once more starts from that accepted image.
CheckedEndsClean ==
  [][/\ CollapseFlush /\ call \in {"checked", "prefix"}
           => homeDur' \in Clean /\ Load(jDur') = <<>>
     /\ AnchorFlush /\ call = "prefix"
           => homeDur' \in Clean /\ Recovered(homeDur', jDur') = before]_vars

\* The write-ahead log implements the atomic store: the store is what
\* recovery would rebuild, the outstanding transaction is the image being
\* published.
Publishing == pc \in {"clear", "clearFlush", "tail", "tailFlush", "active",
                      "activeFlush", "bank", "bankFlush", "anchor", "anchorFlush"}
Abstract == INSTANCE AtomicStore WITH
              store <- Recovered(homeDur, jDur),
              target <- IF Publishing THEN Overlay(homeDur, img)
                                      ELSE Recovered(homeDur, jDur)
ImplementsAtomicStore == Abstract!Spec

\* Every call ends, whatever faults interrupt it.
CallsEnd == pc # "idle" ~> pc = "idle"

\* A committed log never blocks the reservation for ever: the journal is
\* eventually empty again, so WouldBlock is always a temporary answer.
LogDrains == Load(jDur) # <<>> ~> Load(jDur) = <<>>
=============================================================================
