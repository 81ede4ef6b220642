---------------------------- MODULE JournalScan -----------------------------
(***************************************************************************)
(* The entries of the journal and the loops that read them.  Five of them  *)
(* walk over begin, write and commit entries with the same three checks:   *)
(* plan_recovery (recovery.rs), replay_into (journal.rs), validate_entries *)
(* and validate_complete_entries (journal_region.rs), audit_journal        *)
(* (fsck.rs) and retained_prefix_split (journal_checkpoint.rs).  Each is a *)
(* fold here, as each is a loop there.                                     *)
(***************************************************************************)
EXTENDS Integers, Sequences, SequencesExt

CONSTANTS
  HomeBlock,     \* blocks a journal write may target
  OtherBlock,    \* the superblock's, the journal's, and out-of-range numbers
  Value,
  MaxTxid        \* the largest transaction identifier

ASSUME ScanAssumption == /\ HomeBlock \cap OtherBlock = {}
                         /\ Value # {}
                         /\ MaxTxid \in Nat

Txid == 0 .. MaxTxid
None == -1       \* Option::None for the active transaction

Begin(t) == [kind |-> "Begin", txid |-> t]
Write(t, b, v) == [kind |-> "Write", txid |-> t, block |-> b, data |-> v]
Commit(t) == [kind |-> "Commit", txid |-> t]

JournalEntry == [kind : {"Begin", "Commit"}, txid : Txid]
                \cup [kind : {"Write"}, txid : Txid, block : HomeBlock \cup OtherBlock, data : Value]

Home == [HomeBlock \cup OtherBlock -> Value]

\* The check every loop makes: no nested begin, and an active transaction for
\* every other entry.
InOrder(active, e) == IF e.kind = "Begin" THEN active = None ELSE active = e.txid

\* The active transaction after the entry.
ActiveAfter(e) == IF e.kind = "Commit" THEN None ELSE e.txid

(***************************************************************************)
(* plan_recovery: the writes of committed transactions, in log order.      *)
(***************************************************************************)
\* Mutant: writes are planned as they are read.
PlanStepEager(s, e) ==
  IF ~s.ok \/ ~InOrder(s.active, e) THEN [s EXCEPT !.ok = FALSE]
  ELSE [s EXCEPT !.active = ActiveAfter(e),
                 !.writes = IF e.kind = "Write" THEN Append(@, e) ELSE @,
                 !.commits = IF e.kind = "Commit" THEN @ + 1 ELSE @]

PlanStep(s, e) ==
  IF ~s.ok \/ ~InOrder(s.active, e) THEN [s EXCEPT !.ok = FALSE]
  ELSE CASE e.kind = "Begin"  -> [s EXCEPT !.active = e.txid, !.pending = <<>>]
         [] e.kind = "Write"  -> [s EXCEPT !.pending = Append(@, e)]
         [] OTHER             -> [s EXCEPT !.active = None,
                                           !.writes = @ \o s.pending,
                                           !.pending = <<>>,
                                           !.commits = @ + 1]

PlanRecovery(entries) ==
  FoldLeft(PlanStep, [ok |-> TRUE, active |-> None, pending |-> <<>>, writes |-> <<>>, commits |-> 0],
           entries)

\* The loop over plan.writes() in recover_journal, and the overlay of
\* recovery_projection.rs.
ApplyWrite(home, w) == [home EXCEPT ![w.block] = w.data]
Applied(home, writes) == FoldLeft(ApplyWrite, home, writes)

(***************************************************************************)
(* JournalImage::replay_into: commits go to the home map at once, and stay *)
(* there when a later entry is malformed.                                  *)
(***************************************************************************)
ReplayStep(s, e) ==
  IF ~s.ok \/ ~InOrder(s.active, e) THEN [s EXCEPT !.ok = FALSE]
  ELSE CASE e.kind = "Begin"  -> [s EXCEPT !.active = e.txid, !.pending = <<>>]
         [] e.kind = "Write"  -> [s EXCEPT !.pending = Append(@, e)]
         [] OTHER             -> [s EXCEPT !.active = None,
                                           !.home = Applied(@, s.pending),
                                           !.pending = <<>>,
                                           !.commits = @ + 1]

ReplayInto(home, entries) ==
  FoldLeft(ReplayStep, [ok |-> TRUE, active |-> None, pending |-> <<>>, home |-> home, commits |-> 0],
           entries)

(***************************************************************************)
(* validate_entries, validate_complete_entries and audit_journal.          *)
(***************************************************************************)
Targeted(e) == e.kind = "Write" => e.block \in HomeBlock

AuditStep(s, e) ==
  IF ~s.ok \/ ~InOrder(s.active, e) \/ ~Targeted(e) THEN [s EXCEPT !.ok = FALSE]
  ELSE [s EXCEPT !.active = ActiveAfter(e),
                 !.writes = IF e.kind = "Write" THEN @ + 1 ELSE @,
                 !.commits = IF e.kind = "Commit" THEN @ + 1 ELSE @]

AuditJournal(entries) ==
  FoldLeft(AuditStep, [ok |-> TRUE, active |-> None, writes |-> 0, commits |-> 0], entries)

ValidEntries(entries) == AuditJournal(entries).ok

CompleteEntries(entries) ==
  \E s \in {AuditJournal(entries)} : s.ok /\ s.active = None /\ s.commits > 0

(***************************************************************************)
(* retained_prefix_split: the number of entries in front of the suffix.    *)
(***************************************************************************)
\* The commits among the first k entries.
Commits(entries, k) == Cardinality({x \in 1 .. k : entries[x].kind = "Commit"})

\* Mutant: the commit itself is left to the suffix.
PrefixSplitShort(entries, max) ==
  LET ends == {k \in DOMAIN entries : entries[k].kind = "Commit" /\ Commits(entries, k) = max}
  IN IF ends = {} THEN Len(entries) ELSE (CHOOSE k \in ends : TRUE) - 1

PrefixSplit(entries, max) ==
  LET ends == {k \in DOMAIN entries : entries[k].kind = "Commit" /\ Commits(entries, k) = max}
  IN IF ends = {} THEN Len(entries) ELSE CHOOSE k \in ends : TRUE
=============================================================================
