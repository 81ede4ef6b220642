----------------------------- MODULE JournalLog -----------------------------
(***************************************************************************)
(* A writer's JournalLog (journal.rs), the entries in the journal          *)
(* reservation (journal_region.rs), and the home blocks that recovery      *)
(* writes them to (recovery.rs, journal_checkpoint.rs).                    *)
(*                                                                         *)
(* Module Wal has the blocks of each publication on a device that persists *)
(* writes in any order.  Here the contents matter: which prefix of a log   *)
(* was stored, which logs were appended to each other, with the same       *)
(* transaction identifiers in each, and what recovery makes of them.  Any  *)
(* device call may fail and the process goes on: it then works from an     *)
(* anchor that a crash may still take away.  The device persists writes in *)
(* the order of issue, early or with a flush.                              *)
(***************************************************************************)
EXTENDS JournalScan

CONSTANTS Data,        \* the writes callers ask for: pairs of a block and its contents
          MaxLog,      \* bound: entries of a log
          MaxRegion,   \* bound: entries in the reservation
          MaxImages    \* bound: images a crash may leave

ASSUME DataAssumption == Data \subseteq (HomeBlock \cup OtherBlock) \X Value
ASSUME EntryAssumption == MaxLog \in Nat /\ MaxRegion \in Nat /\ MaxImages \in Nat

VARIABLES
  entries, active, next,   \* JournalLog
  now,                     \* the device as reads see it
  images,                  \* what a crash may leave of it
  done,                    \* the writes committed by each prefix of the log (history)
  open,                    \* the writes of its active transaction (history)
  goal,                    \* home once what reads see is replayed (history)
  maybe                    \* home once what a crash leaves is replayed (history)

log == <<entries, active, next>>
history == <<done, open, goal, maybe>>
device == <<now, images>>
vars == <<log, device, history>>

(***************************************************************************)
(* The writer.                                                             *)
(***************************************************************************)
\* The writes of the transactions whose commit is among the first n entries.
After(n) == IF n = 0 THEN <<>> ELSE done[n]

\* JournalLog::new: identifiers start again from zero.
NewLog ==
  /\ entries' = <<>> /\ active' = None /\ next' = 0
  /\ done' = <<>> /\ open' = <<>>
  /\ UNCHANGED <<device, goal, maybe>>

\* begin: refused while a transaction is active, or without a next identifier.
BeginTx ==
  /\ active = None
  /\ next < MaxTxid
  /\ Len(entries) < MaxLog
  /\ entries' = Append(entries, Begin(next))
  /\ active' = next
  /\ next' = next + 1
  /\ done' = Append(done, After(Len(entries)))
  /\ open' = <<>>
  /\ UNCHANGED <<device, goal, maybe>>

\* write, with any identifier a caller may still hold; the log does not look at
\* the block.
WriteTx(t, b, v) ==
  /\ active = t
  /\ Len(entries) < MaxLog
  /\ entries' = Append(entries, Write(t, b, v))
  /\ done' = Append(done, After(Len(entries)))
  /\ open' = Append(open, Write(t, b, v))
  /\ UNCHANGED <<active, next, device, goal, maybe>>

CommitTx(t) ==
  /\ active = t
  /\ Len(entries) < MaxLog
  /\ entries' = Append(entries, Commit(t))
  /\ active' = None
  /\ done' = Append(done, After(Len(entries)) \o open)
  /\ open' = <<>>
  /\ UNCHANGED <<next, device, goal, maybe>>

(***************************************************************************)
(* The device.  An image is the entries in the reservation, the anchor's   *)
(* version and the home blocks.  A call is a sequence of steps: the image  *)
(* a write makes of the last one, or a flush.  Writes to blocks that no    *)
(* anchor refers to make no new image.                                     *)
(***************************************************************************)
Flush == [region |-> <<>>, version |-> "flush"]

region == now.region

Anchored(image, es, v) == [image EXCEPT !.region = es, !.version = v]
Cleared(image) == Anchored(image, <<>>, "empty")

\* The home writes of a plan, each with its image, and the flush after them if
\* there are any.
ReplaySteps(plan) ==
  [n \in DOMAIN plan.writes |->
     [now EXCEPT !.home = Applied(@, SubSeq(plan.writes, 1, n))]]
  \o IF plan.writes = <<>> THEN <<>> ELSE <<Flush>>
Replayed(plan) == [now EXCEPT !.home = Applied(@, plan.writes)]

\* What reads see after the first n steps.
Seen(steps, n) ==
  LET written == {x \in 1 .. n : steps[x] # Flush}
  IN IF written = {} THEN now ELSE steps[Max(written)]

\* The last flush among the first n steps.
Flushed(steps, n) == Max({0} \cup {x \in 1 .. n : steps[x] = Flush})

\* The call makes its steps and returns Ok, or fails at the step after k of
\* them.  asked is what the volume recovers to once its last anchor is written.
Call(steps, asked) ==
  \E k \in 0 .. Len(steps) :
     LET f == Flushed(steps, k)
     IN /\ now' = Seen(steps, k)
        /\ images' = (IF f = 0 THEN images ELSE {Seen(steps, f)})
                       \cup {steps[x] : x \in f + 1 .. k}
        /\ Cardinality(images') <= MaxImages
        /\ goal' = IF k >= Len(steps) - 1 THEN asked ELSE goal
        /\ maybe' = (IF f = 0 THEN maybe ELSE IF f = k THEN {} ELSE {goal}) \cup {goal'}
        /\ UNCHANGED <<log, done, open>>

(***************************************************************************)
(* The reservation.                                                        *)
(***************************************************************************)
\* Mutant: a log that is still pending is published over.
MayStoreAnyway == TRUE

\* "journal contains an older transaction": refused with WouldBlock.
MayStore == region = <<>>

\* store_journal_image with a prefix of the log (crash_prefix, durable_image): a
\* transaction without its commit may be at its end.  The tail is written under
\* an empty anchor.
StoreImage(n) ==
  LET image == SubSeq(entries, 1, n)
  IN /\ ValidEntries(image)
     /\ MayStore
     /\ Len(image) <= MaxRegion
     /\ Call(IF image = <<>> THEN <<Cleared(now), Flush>>
             ELSE <<Cleared(now), Flush, Flush, Anchored(now, image, "v2"), Flush>>,
             Applied(goal, After(n)))

\* append_retained_journal_entries: the other bank, a flush, the anchor, a flush.
AppendRetained ==
  /\ CompleteEntries(entries)
  /\ now.version = "v3" => CompleteEntries(region)
  /\ now.version # "v3" => region = <<>>
  /\ Len(region) + Len(entries) <= MaxRegion
  /\ Call(<<Flush, Anchored(now, region \o entries, "v3"), Flush>>,
          Applied(goal, After(Len(entries))))

(***************************************************************************)
(* Recovery.                                                               *)
(***************************************************************************)
\* recover_journal; the log stays.
Recover ==
  LET plan == PlanRecovery(region)
  IN plan.ok /\ plan.writes # <<>> /\ Call(ReplaySteps(plan), goal)

\* recover_journal_and_checkpoint.
RecoverAndCheckpoint ==
  LET plan == PlanRecovery(region)
  IN /\ plan.ok
     /\ region # <<>>
     /\ Call(ReplaySteps(plan) \o <<Cleared(Replayed(plan)), Flush>>, goal)

\* recover_retained_prefix_and_checkpoint: the suffix goes to the other bank, or
\* the anchor is cleared; the audit of the projection is in Wal.
CheckpointPrefix(max) ==
  LET n == PrefixSplit(region, max)
      plan == PlanRecovery(SubSeq(region, 1, n))
      rest == SubSeq(region, n + 1, Len(region))
  IN /\ now.version = "v3"
     /\ CompleteEntries(region)
     /\ plan.ok
     /\ rest # <<>> => CompleteEntries(rest)
     /\ Call(ReplaySteps(plan) \o
              (IF rest = <<>> THEN <<Cleared(Replayed(plan)), Flush>>
               ELSE <<Flush, Anchored(Replayed(plan), rest, "v3"), Flush>>), goal)

\* Power loss: the writer is gone, and one of the images is what is left.
Crash ==
  /\ Cardinality(images) > 1
  /\ entries' = <<>> /\ active' = None /\ next' = 0
  /\ done' = <<>> /\ open' = <<>>
  /\ \E x \in images :
        /\ now' = x /\ images' = {x}
        /\ goal' = Applied(x.home, PlanRecovery(x.region).writes)
        /\ maybe' = {goal'}

(***************************************************************************)
(* The specification.                                                      *)
(***************************************************************************)
SomeHome == [b \in HomeBlock \cup OtherBlock |-> CHOOSE v \in Value : TRUE]

Init ==
  /\ entries = <<>> /\ active = None /\ next = 0
  /\ now = [region |-> <<>>, version |-> "empty", home |-> SomeHome]
  /\ images = {now}
  /\ done = <<>> /\ open = <<>>
  /\ goal = SomeHome
  /\ maybe = {SomeHome}

Next ==
  \/ NewLog
  \/ BeginTx
  \/ \E t \in Txid, d \in Data : WriteTx(t, d[1], d[2])
  \/ \E t \in Txid : CommitTx(t)
  \/ \E n \in 0 .. Len(entries) : StoreImage(n)
  \/ AppendRetained
  \/ Recover
  \/ RecoverAndCheckpoint
  \/ \E max \in 1 .. MaxTxid + 1 : CheckpointPrefix(max)
  \/ Crash

Spec == Init /\ [][Next]_vars

(***************************************************************************)
(* What a sequence of entries means, without a loop.                       *)
(***************************************************************************)
\* Entry i is a begin, and position k is still inside its transaction.
Opens(es, i, k) == /\ i <= k /\ es[i].kind = "Begin"
                   /\ \A x \in i + 1 .. k : es[x].kind # "Commit"

Ordered(es) ==
  \A k \in DOMAIN es :
     IF es[k].kind = "Begin" THEN ~\E i \in 1 .. k - 1 : Opens(es, i, k - 1)
     ELSE \E i \in 1 .. k - 1 : Opens(es, i, k - 1) /\ es[i].txid = es[k].txid

\* The write at k is followed by a commit before any other begin.
Committed(es, k) == /\ es[k].kind = "Write"
                    /\ \E c \in k + 1 .. Len(es) :
                          /\ es[c].kind = "Commit"
                          /\ \A x \in k + 1 .. c : es[x].kind # "Begin"

\* The home blocks after the committed writes: the last one to a block wins.
Expected(es) ==
  [b \in DOMAIN SomeHome |->
     LET ks == {k \in DOMAIN es : Committed(es, k) /\ es[k].block = b}
     IN IF ks = {} THEN SomeHome[b] ELSE es[CHOOSE k \in ks : \A x \in ks : x <= k].data]

(***************************************************************************)
(* Properties.                                                             *)
(***************************************************************************)
\* Log, device and histories are well typed, the log is in order up to the
\* transaction that active names, and an empty anchor has no entries.
TypeOK ==
  /\ entries \in Seq(JournalEntry) /\ Len(entries) <= MaxLog
  /\ active \in Txid \cup {None} /\ next \in Txid
  /\ \E plan \in {PlanRecovery(entries)} : plan.ok /\ plan.active = active
  /\ now \in images
  /\ \A x \in images :
        /\ x.region \in Seq(JournalEntry) /\ Len(x.region) <= MaxRegion
        /\ x.version \in {"empty", "v2", "v3"} /\ x.home \in Home
        /\ x.version = "empty" => x.region = <<>>
  /\ Len(done) = Len(entries)
  /\ goal \in Home /\ maybe \subseteq Home

\* Every crash, in any call or between calls and after any failed flush, leaves
\* entries that recover to what some publication since the last acknowledged
\* call asked for: the transactions committed by their writers, in the order of
\* publication, none applied in part and an unfinished one not at all, although
\* every writer numbers from zero.  No write goes to a block outside the tables and
\* the data, and the state is well typed.
CrashKeepsWhole ==
  /\ TypeOK
  /\ \A x \in images :
        LET plan == PlanRecovery(x.region)
        IN /\ plan.ok
           /\ Applied(x.home, plan.writes) \in maybe
           /\ \A b \in OtherBlock : x.home[b] = SomeHome[b]

\* What the running process reads and works from is the store its own last call
\* published, also when the call reported an error at its last flush.
ReadsAreWhole == Applied(now.home, PlanRecovery(region).writes) = goal

\* All readers agree with each other and with the meaning of the entries, on
\* what is stored and on any entry that might follow it: recovery, replay and
\* fsck accept the same sequences (up to forbidden targets), apply exactly the
\* writes of committed transactions, in order, and count the same commits.
ReadersAgree ==
  entries = <<>> =>
    \A e \in JournalEntry :
      LET es == Append(region, e)
          plan == PlanRecovery(es)
          replay == ReplayInto(SomeHome, es)
          audit == AuditJournal(es)
      IN /\ plan.ok = Ordered(es)
         /\ replay.ok = Ordered(es)
         /\ audit.ok = (Ordered(es) /\ \A k \in DOMAIN es : Targeted(es[k]))
         /\ plan.ok => /\ Applied(SomeHome, plan.writes) = Expected(es)
                       /\ replay.home = Expected(es)
                       /\ plan.commits = Commits(es, Len(es)) /\ replay.commits = plan.commits
         /\ audit.ok => audit.commits = plan.commits /\ audit.active = plan.active

\* Complete entries cut by retained_prefix_split after any number of transactions
\* give two sequences that are complete or empty, and recovery of the one after
\* the other does what recovery of the whole does: the prefix may be checkpointed
\* on its own.
SplitIsExact ==
  entries = <<>> /\ CompleteEntries(region) =>
    \A max \in 1 .. Commits(region, Len(region)) + 1 :
       LET n == PrefixSplit(region, max)
           prefix == SubSeq(region, 1, n)
           suffix == SubSeq(region, n + 1, Len(region))
           count == Commits(region, Len(region))
       IN /\ CompleteEntries(prefix)
          /\ suffix = <<>> \/ CompleteEntries(suffix)
          /\ PlanRecovery(prefix).commits = IF max < count THEN max ELSE count
          /\ Applied(Applied(SomeHome, PlanRecovery(prefix).writes), PlanRecovery(suffix).writes)
               = Applied(SomeHome, PlanRecovery(region).writes)
=============================================================================
