----------------------------- MODULE FsckRepair -----------------------------
(***************************************************************************)
(* The two journaled repairs (fsck_repair.rs): reattaching unreachable     *)
(* inodes beneath the root, and releasing allocated blocks no inode owns.  *)
(*                                                                         *)
(* A repair recovers the journal, audits the volume with one check relaxed,*)
(* publishes one transaction with the repaired table, replays it, clears   *)
(* the journal and audits the volume strictly.  That a transaction is      *)
(* published and replayed atomically is module Wal's result; here a crash  *)
(* may fall between the publication, the replay and the clearing, and the  *)
(* repair is then called again.                                            *)
(***************************************************************************)
EXTENDS Volume

CONSTANTS
  Damaged,      \* the volumes [alloc, inodes, entries, payloads] repair may meet
  DirCapacity,  \* how many entries the directory region holds
  MaxCrashes    \* bound: crashes

ASSUME BoundAssumption == DirCapacity \in Nat /\ MaxCrashes \in Nat

\* A volume is the record of its parts, and a directory table is finite.
ASSUME VolumeAssumption ==
  \A v \in Damaged :
     /\ v = [alloc |-> v.alloc, inodes |-> v.inodes, entries |-> v.entries, payloads |-> v.payloads]
     /\ IsFiniteSet(DOMAIN v.entries)

VARIABLES
  vol,      \* the home tables: [alloc, inodes, entries, payloads]; payloads is
            \* whether every symlink payload decodes
  log,      \* the volume a committed transaction asks for; vol if there is none
  pc,       \* "idle", or the step after which the running repair stands:
            \* "published", "replayed", "cleared"
  call,     \* the running or last repair: "none", "reattach", "release"
  result,   \* what the last repair returned
  first,    \* history: the volume as first met
  crashes   \* counter of the bound

vars == <<vol, log, pc, call, result, first, crashes>>

(***************************************************************************)
(* The audits.                                                             *)
(***************************************************************************)
Fsck(v) == v.payloads /\ FsckAccepts(v.alloc, v.inodes, v.entries)

\* check_device_allowing_unreachable_inodes and ..._orphaned_allocations: every
\* check but one.
AuditAllowingUnreachable(v) ==
  /\ BlocksOwnedOnce(v.alloc, v.inodes)
  /\ OrphanedAllocations(v.alloc, v.inodes) = {}
  /\ v.payloads
  /\ EndpointsExist(v.inodes, v.entries)
  /\ DirectoriesAcyclic(v.inodes, v.entries)

\* Mutant: the second one skips the namespace altogether.
AuditOwnershipOnly(v) == BlocksOwnedOnce(v.alloc, v.inodes) /\ v.payloads

AuditAllowingOrphans(v) ==
  /\ BlocksOwnedOnce(v.alloc, v.inodes)
  /\ v.payloads
  /\ NamespaceSound(v.inodes, v.entries)

(***************************************************************************)
(* The repairs as functions of the volume.                                 *)
(***************************************************************************)
\* Mutants: reattach everything that is unreachable, or directories only.
AllUnreachable(inodes, entries) == UnreachableInodes(inodes, entries)
LostDirectories(inodes, entries) == UnreachableInodes(inodes, entries) \cap Dirs(inodes)

\* The unreachable inodes that no unreachable directory names.
ComponentRoots(inodes, entries) ==
  LET lost == UnreachableInodes(inodes, entries)
  IN {i \in lost : ~ \E e \in Refs(entries, i) : e[1] \in lost}

\* A name is a pair: <<i, 0>> is ".fsck-orphan-<i>", <<i, k>> the same with the
\* suffix "-<k>"; <<0, k>> are other names.
FreeName(occupied, i) ==
  CHOOSE n \in {i} \X (0 .. Cardinality(occupied)) :
    /\ n \notin occupied
    /\ \A k \in 0 .. n[2] - 1 : <<i, k>> \in occupied

Reattached(v) ==
  LET occupied == {e[2] : e \in Children(v.entries, Root)}
      roots == ComponentRoots(v.inodes, v.entries)
      new == [e \in {<<Root, FreeName(occupied, i)>> : i \in roots} |-> e[2][1]]
  IN [v EXCEPT !.entries = [e \in DOMAIN v.entries \cup DOMAIN new |->
                              IF e \in DOMAIN new THEN new[e] ELSE v.entries[e]]]

\* Mutant: releases one block per call.
ReleasedOne(v) ==
  [v EXCEPT !.alloc = {b \in @ : b \in BlocksIn(v.inodes, DOMAIN v.inodes)
                               \/ \E c \in OrphanedAllocations(v.alloc, v.inodes) : c < b}]

Released(v) == [v EXCEPT !.alloc = @ \ OrphanedAllocations(v.alloc, v.inodes)]

(***************************************************************************)
(* The steps of a repair.                                                  *)
(***************************************************************************)
\* What recover_journal_and_checkpoint leaves before anything is audited.
Recovered == log

\* A repair ends without publishing anything; the journal is clear by then.
End(c, r) == /\ call' = c
             /\ result' = r
             /\ vol' = Recovered
             /\ UNCHANGED <<log, pc, first, crashes>>

\* store_directory_table_journaled or store_allocator_journaled commits.
Publish(c, v) == /\ log' = v
                 /\ vol' = Recovered
                 /\ pc' = "published"
                 /\ call' = c
                 /\ result' = "none"
                 /\ UNCHANGED <<first, crashes>>

\* Mutant: the desired namespace is not validated before it is published.
ReattachAcceptableAny(v) == Cardinality(DOMAIN Reattached(v).entries) <= DirCapacity

\* There is a component root, the desired namespace is sound, and it fits.
ReattachAcceptable(v) ==
  /\ ComponentRoots(v.inodes, v.entries) # {}
  /\ NamespaceSound(Reattached(v).inodes, Reattached(v).entries)
  /\ Cardinality(DOMAIN Reattached(v).entries) <= DirCapacity

RepairUnreachableInodes ==
  /\ pc = "idle"
  /\ LET v == Recovered
         audited == AuditAllowingUnreachable(v)
         lost == UnreachableInodes(v.inodes, v.entries)
         acceptable == ReattachAcceptable(v)
     IN \/ ~audited /\ End("reattach", "refused")
        \/ audited /\ lost = {} /\ End("reattach", "nothing")
        \/ audited /\ lost # {} /\ ~acceptable /\ End("reattach", "refused")
        \/ audited /\ lost # {} /\ acceptable /\ Publish("reattach", Reattached(v))

RepairOrphanedAllocations ==
  /\ pc = "idle"
  /\ LET v == Recovered
         audited == AuditAllowingOrphans(v)
         orphans == OrphanedAllocations(v.alloc, v.inodes)
     IN \/ ~audited /\ End("release", "refused")
        \/ audited /\ orphans = {} /\ End("release", "nothing")
        \/ audited /\ orphans # {} /\ Publish("release", Released(v))

\* recover_journal, inside the transaction primitive.
Replay == /\ pc = "published"
          /\ vol' = log
          /\ pc' = "replayed"
          /\ UNCHANGED <<log, call, result, first, crashes>>

\* checkpoint_journal.
Checkpoint == /\ pc = "replayed"
              /\ pc' = "cleared"
              /\ log' = vol
              /\ UNCHANGED <<vol, call, result, first, crashes>>

\* The closing check_device.
FinalCheck == /\ pc = "cleared"
              /\ pc' = "idle"
              /\ result' = IF Fsck(vol) THEN "repaired" ELSE "failed after commit"
              /\ UNCHANGED <<vol, log, call, first, crashes>>

Crash == /\ crashes < MaxCrashes
         /\ pc # "idle"
         /\ pc' = "idle"
         /\ result' = "crashed"
         /\ crashes' = crashes + 1
         /\ UNCHANGED <<vol, log, call, first>>

Init == /\ vol \in Damaged
        /\ log = vol
        /\ pc = "idle"
        /\ call = "none"
        /\ result = "none"
        /\ first = vol
        /\ crashes = 0

Next == \/ RepairUnreachableInodes \/ RepairOrphanedAllocations
        \/ Replay \/ Checkpoint \/ FinalCheck
        \/ Crash

Spec == Init /\ [][Next]_vars

\* Whoever repairs a volume tries both repairs, again after a crash.
FairSpec == /\ Spec
            /\ SF_vars(RepairUnreachableInodes)
            /\ SF_vars(RepairOrphanedAllocations)
            /\ WF_vars(Replay \/ Checkpoint \/ FinalCheck)

(***************************************************************************)
(* Properties.                                                             *)
(***************************************************************************)
\* A repair moves no inode and no symbolic-link payload, and once recover_journal
\* has run the tables are those of the log, whatever crashes came before.
TypeOK == /\ pc \in {"idle", "published", "replayed", "cleared"}
          /\ call \in {"none", "reattach", "release"}
          /\ result \in {"none", "refused", "nothing", "repaired", "crashed",
                         "failed after commit"}
          /\ vol.inodes = first.inodes
          /\ vol.payloads = first.payloads
          /\ pc \in {"replayed", "cleared"} => vol = log
          /\ crashes \in 0 .. MaxCrashes

\* What is audited before a repair is published is enough for the strict audit
\* that closes it: no repair reports an error for a change it has committed.
NeverFailsAfterCommit == result # "failed after commit"

\* However often repairs are called, crash and are called again, the volume is
\* the damaged one or the one repair of it: nothing is attached or released a
\* second time, under a second name or after the other repair, and what was
\* replayed is what was committed (TypeOK).
RepairedOnce == /\ TypeOK
                /\ vol \in {first, Reattached(first), Released(first)}
                /\ log \in {first, Reattached(first), Released(first)}

\* Reattachment keeps every existing entry, adds entries to the root only, and
\* none that could be left out: a subtree hangs from its top and is not
\* flattened.
ReattachesMinimally ==
  LET old == first.entries
      new == DOMAIN vol.entries \ DOMAIN old
  IN /\ \A e \in DOMAIN old : e \in DOMAIN vol.entries /\ vol.entries[e] = old[e]
     /\ \A e \in new :
          /\ e[1] = Root
          /\ UnreachableInodes(vol.inodes, Drop(vol.entries, {e})) # {}

\* The release frees no block an inode refers to, and leaks none.
ReleasesExactly ==
  vol.alloc # first.alloc =>
    /\ vol.alloc = BlocksIn(first.inodes, DOMAIN first.inodes)
    /\ vol.alloc \subseteq first.alloc

\* The damage reattachment is for: everything else is sound, no lost directory
\* leads back to the root, and the new entries fit the directory region.
OnlyUnreachable(v) ==
  /\ AuditAllowingUnreachable(v)
  /\ \A e \in Refs(v.entries, Root) :
        e[1] \notin UnreachableInodes(v.inodes, v.entries)
  /\ Cardinality(DOMAIN v.entries)
       + Cardinality(ComponentRoots(v.inodes, v.entries)) <= DirCapacity

\* A volume with one kind of damage becomes sound, crashes or not.
RepairsSucceed ==
  OnlyUnreachable(vol) \/ AuditAllowingOrphans(vol) ~> Fsck(vol)
=============================================================================
