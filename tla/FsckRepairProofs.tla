-------------------------- MODULE FsckRepairProofs --------------------------
(***************************************************************************)
(* Proofs about the two repairs, for damaged volumes of any size and any   *)
(* number of crashes: a repair is made once, never fails after its commit, *)
(* releases exactly the blocks no inode owns, and reattaches as few inodes *)
(* as make everything reachable.                                           *)
(***************************************************************************)
EXTENDS FsckRepair, FiniteSetTheorems, FunctionTheorems, WellFoundedInduction, TLAPS

\* A non-empty set of natural numbers has a least member.
LEMMA LeastNatural ==
  ASSUME NEW P \in SUBSET Nat, P # {}
  PROVE  \E m \in P : \A i \in P : m <= i
<1>1. PICK x \in P : \A y \in P : ~ (<<y, x>> \in OpToRel(<, Nat))
  BY WFMin, NatLessThanWellFounded, Zenon
<1>2. \A y \in P : ~ (y < x)
  BY <1>1 DEF OpToRel
<1> QED
  BY <1>2

\* What lies below d is closed and contains d, if no entry leaves the table.
LEMMA BelowIsClosed ==
  ASSUME NEW entries, NEW ids, NEW d \in ids,
         \A e \in DOMAIN entries : e[1] \in ids => entries[e] \in ids
  PROVE  /\ d \in Below(entries, ids, d)
         /\ Below(entries, ids, d) \subseteq ids
         /\ ClosedDown(Below(entries, ids, d), entries)
BY DEF Below, ClosedDown

\* An inode that some closed set with the root leaves out is out of reach.
LEMMA OutsideClosedIsUnreachable ==
  ASSUME NEW inodes, NEW entries, NEW S \in SUBSET DOMAIN inodes, Root \in S,
         ClosedDown(S, entries), NEW i \in DOMAIN inodes \ S
  PROVE  i \in UnreachableInodes(inodes, entries)
BY DEF UnreachableInodes, Below

\* Any n entries leave one of the n + 1 candidate names of an inode free.
LEMMA FreeNameExists ==
  ASSUME NEW occupied, IsFiniteSet(occupied), NEW i
  PROVE  FreeName(occupied, i) \notin occupied /\ FreeName(occupied, i)[1] = i
<1> DEFINE n == Cardinality(occupied)
           P == {k \in 0 .. n : <<i, k>> \notin occupied}
<1>1. n \in Nat
  BY FS_CardinalityType
<1>2. P # {}
  <2> SUFFICES ASSUME P = {} PROVE FALSE
    OBVIOUS
  <2> DEFINE g == [k \in 0 .. n |-> <<i, k>>]
  <2>1. g \in [0 .. n -> occupied]
    OBVIOUS
  <2>2. \A a, b \in 0 .. n : g[a] = g[b] => a = b
    OBVIOUS
  <2> HIDE DEF g
  <2>3. g \in Injection(0 .. n, occupied)
    BY <2>1, <2>2, Fun_IsInj
  <2>4. Cardinality(0 .. n) <= n
    BY <2>3, FS_Injection
  <2>5. Cardinality(0 .. n) = n + 1
    BY <1>1, FS_Interval, 0 \in Int, n \in Int
  <2> QED
    BY <1>1, <2>4, <2>5
<1>3. P \in SUBSET Nat
  BY <1>1
<1>4. PICK m \in P : \A k \in P : m <= k
  BY <1>2, <1>3, LeastNatural
<1>5. \A k \in 0 .. m - 1 : <<i, k>> \in occupied
  <2> SUFFICES ASSUME NEW k \in 0 .. m - 1, <<i, k>> \notin occupied PROVE FALSE
    OBVIOUS
  <2>1. m \in 0 .. n /\ k \in P /\ k < m
    BY <1>1
  <2>2. m <= k
    BY <1>4, <2>1
  <2> QED
    BY <1>1, <2>1, <2>2
<1>6. \E x \in {i} \X (0 .. n) : x \notin occupied /\ \A k \in 0 .. x[2] - 1 : <<i, k>> \in occupied
  <2>1. <<i, m>> \in {i} \X (0 .. n) /\ <<i, m>> \notin occupied /\ <<i, m>>[2] = m
    OBVIOUS
  <2> QED
    BY <1>5, <2>1
<1>7. FreeName(occupied, i) \in {i} \X (0 .. n) /\ FreeName(occupied, i) \notin occupied
  BY <1>6 DEF FreeName
<1> QED
  BY <1>7

\* Reattachment changes the entries only, and release the allocation only.
LEMMA RepairsTouchOneTable ==
  ASSUME NEW v \in Damaged
  PROVE  /\ Reattached(v).alloc = v.alloc /\ Reattached(v).inodes = v.inodes
         /\ Reattached(v).payloads = v.payloads
         /\ Released(v).entries = v.entries /\ Released(v).inodes = v.inodes
         /\ Released(v).payloads = v.payloads
         /\ Released(v).alloc = v.alloc \ OrphanedAllocations(v.alloc, v.inodes)
<1> v = [alloc |-> v.alloc, inodes |-> v.inodes, entries |-> v.entries, payloads |-> v.payloads]
  BY VolumeAssumption
<1> QED
  BY DEF Reattached, Released

\* The entries after reattachment: all the old ones, and for every component root
\* one under the root that was not there.
LEMMA ReattachedEntries ==
  ASSUME NEW v \in Damaged
  PROVE  LET old == v.entries
             new == Reattached(v).entries
             roots == ComponentRoots(v.inodes, v.entries)
         IN /\ DOMAIN old \subseteq DOMAIN new
            /\ \A e \in DOMAIN old : new[e] = old[e]
            /\ \A e \in DOMAIN new \ DOMAIN old : e[1] = Root /\ new[e] \in roots
            /\ \A e, f \in DOMAIN new \ DOMAIN old : new[e] = new[f] => e = f
<1> DEFINE old == v.entries
           occupied == {e[2] : e \in Children(old, Root)}
           roots == ComponentRoots(v.inodes, old)
           key(i) == <<Root, FreeName(occupied, i)>>
           new == [e \in {key(i) : i \in roots} |-> e[2][1]]
           all == [e \in DOMAIN old \cup DOMAIN new |-> IF e \in DOMAIN new THEN new[e] ELSE old[e]]
<1>1. Reattached(v).entries = all
  <2> v = [alloc |-> v.alloc, inodes |-> v.inodes, entries |-> v.entries, payloads |-> v.payloads]
    BY VolumeAssumption
  <2> QED
    BY DEF Reattached
<1>2. IsFiniteSet(occupied)
  <2> DEFINE C == Children(old, Root)
             g == [e \in C |-> e[2]]
  <2>1. IsFiniteSet(C)
    <3>1. C \in SUBSET DOMAIN old
      BY DEF Children
    <3> QED
      BY <3>1, FS_Subset, VolumeAssumption
  <2>2. g \in [C -> occupied] /\ \A n \in occupied : \E e \in C : g[e] = n
    OBVIOUS
  <2> HIDE DEF g
  <2>3. g \in Surjection(C, occupied)
    BY <2>2, Fun_IsSurj
  <2> QED
    BY <2>1, <2>3, FS_Surjection
<1>3. \A e \in DOMAIN old : e[1] = Root => e[2] \in occupied
  BY DEF Children
<1> HIDE DEF occupied
<1>4. \A i \in roots : FreeName(occupied, i) \notin occupied /\ FreeName(occupied, i)[1] = i
  BY <1>2, FreeNameExists
<1> HIDE DEF roots
<1>5. \A i \in roots : key(i)[1] = Root /\ key(i)[2] = FreeName(occupied, i)
  OBVIOUS
<1>6. \A i \in roots : key(i)[1] = Root /\ key(i)[2][1] = i /\ key(i) \notin DOMAIN old
  BY <1>3, <1>4, <1>5
<1> HIDE DEF key
<1>7. /\ DOMAIN all = DOMAIN old \cup {key(i) : i \in roots}
      /\ \A i \in roots : all[key(i)] = i
      /\ \A e \in DOMAIN old : all[e] = old[e]
  BY <1>6
<1> HIDE DEF all
<1> QED
  BY <1>1, <1>6, <1>7 DEF roots

\* A component root has no name at all: a reachable directory that named it would
\* make it reachable, and no unreachable directory does.
LEMMA ComponentRootsAreNameless ==
  ASSUME NEW inodes, NEW entries, EndpointsExist(inodes, entries),
         NEW i \in ComponentRoots(inodes, entries)
  PROVE  Refs(entries, i) = {} /\ i \in DOMAIN inodes /\ i # Root
<1> DEFINE lost == UnreachableInodes(inodes, entries)
           reached == Below(entries, DOMAIN inodes, Root)
<1>1. i \in lost /\ \A e \in Refs(entries, i) : e[1] \notin lost
  BY DEF ComponentRoots
<1>2. Root \in DOMAIN inodes /\ \A e \in DOMAIN entries : entries[e] \in DOMAIN inodes
  BY DEF EndpointsExist, Dirs
<1>3. Root \in reached /\ ClosedDown(reached, entries)
  BY <1>2, BelowIsClosed
<1>4. lost = DOMAIN inodes \ reached
  BY DEF UnreachableInodes
<1> HIDE DEF lost, reached
<1>5. \A e \in Refs(entries, i) : e[1] \in DOMAIN inodes
  BY DEF Refs, EndpointsExist, Dirs
<1> QED
  BY <1>1, <1>3, <1>4, <1>5 DEF ClosedDown, Refs

\* The audit with one check relaxed and the validation of the new namespace amount
\* to the strict audit of the reattached volume.
LEMMA ReattachedIsAccepted ==
  ASSUME NEW v \in Damaged, AuditAllowingUnreachable(v), ReattachAcceptable(v)
  PROVE  Fsck(Reattached(v))
BY RepairsTouchOneTable DEF AuditAllowingUnreachable, ReattachAcceptable, Fsck, FsckAccepts

\* After a release the allocated blocks are those of the inodes.
LEMMA ReleasedIsExact ==
  ASSUME NEW v \in Damaged, AuditAllowingOrphans(v)
  PROVE  /\ Released(v).alloc = BlocksIn(v.inodes, DOMAIN v.inodes)
         /\ Released(v).alloc \subseteq v.alloc
         /\ Fsck(Released(v))
<1>1. BlocksIn(v.inodes, DOMAIN v.inodes) \subseteq v.alloc
  BY DEF AuditAllowingOrphans, BlocksOwnedOnce
<1>2. Released(v).alloc = BlocksIn(v.inodes, DOMAIN v.inodes)
  BY <1>1, RepairsTouchOneTable DEF OrphanedAllocations
<1>3. /\ BlocksOwnedOnce(Released(v).alloc, Released(v).inodes)
      /\ OrphanedAllocations(Released(v).alloc, Released(v).inodes) = {}
  BY <1>2, RepairsTouchOneTable DEF AuditAllowingOrphans, BlocksOwnedOnce, OrphanedAllocations
<1>4. NamespaceSound(Released(v).inodes, Released(v).entries) /\ Released(v).payloads
  BY RepairsTouchOneTable DEF AuditAllowingOrphans
<1> QED
  BY <1>1, <1>2, <1>3, <1>4 DEF Fsck, FsckAccepts

(***************************************************************************)
(* The inductive invariant.                                                *)
(***************************************************************************)
\* v is what one repair of the volume as first met publishes.
IsRepair(v) ==
  \/ v = Reattached(first) /\ AuditAllowingUnreachable(first) /\ ReattachAcceptable(first)
  \/ v = Released(first) /\ AuditAllowingOrphans(first)

RepairInv ==
  /\ pc \in {"idle", "published", "replayed", "cleared"}
  /\ call \in {"none", "reattach", "release"}
  /\ result \in {"none", "refused", "nothing", "repaired", "crashed"}
  /\ crashes \in 0 .. MaxCrashes
  /\ first \in Damaged
  /\ log = first \/ IsRepair(log)
  /\ pc # "idle" => IsRepair(log)
  /\ vol \in {first, log}
  /\ pc \in {"replayed", "cleared"} => vol = log

\* A repaired volume needs no repair: that is why nothing is repaired twice.
LEMMA RepairIsAccepted ==
  ASSUME first \in Damaged, NEW v, IsRepair(v)
  PROVE  Fsck(v)
BY ReattachedIsAccepted, ReleasedIsExact DEF IsRepair

\* A repair finds the volume damaged only as it was first met.
LEMMA RepairInvPreserved == RepairInv /\ [Next]_vars => RepairInv'
<1> SUFFICES ASSUME RepairInv, [Next]_vars PROVE RepairInv'
  OBVIOUS
<1> USE DEF RepairInv
<1>1. ASSUME NEW c \in {"reattach", "release"}, NEW r \in {"refused", "nothing"}, End(c, r)
      PROVE  RepairInv'
  BY <1>1 DEF End, Recovered, IsRepair
<1>2. CASE RepairUnreachableInodes
  <2>1. ASSUME AuditAllowingUnreachable(log), UnreachableInodes(log.inodes, log.entries) # {},
               ReattachAcceptable(log), Publish("reattach", Reattached(log))
        PROVE  RepairInv'
    <3>1. log = first
      BY <2>1, RepairIsAccepted DEF Fsck, FsckAccepts, NamespaceSound
    <3>2. IsRepair(log)' /\ first' = first
      BY <2>1, <3>1 DEF Publish, IsRepair
    <3> QED
      BY <2>1, <3>1, <3>2 DEF Publish, Recovered
  <2> QED
    BY <1>1, <1>2, <2>1 DEF RepairUnreachableInodes, Recovered
<1>3. CASE RepairOrphanedAllocations
  <2>1. ASSUME AuditAllowingOrphans(log), OrphanedAllocations(log.alloc, log.inodes) # {},
               Publish("release", Released(log))
        PROVE  RepairInv'
    <3>1. log = first
      BY <2>1, RepairIsAccepted DEF Fsck, FsckAccepts
    <3>2. IsRepair(log)' /\ first' = first
      BY <2>1, <3>1 DEF Publish, IsRepair
    <3> QED
      BY <2>1, <3>1, <3>2 DEF Publish, Recovered
  <2> QED
    BY <1>1, <1>3, <2>1 DEF RepairOrphanedAllocations, Recovered
<1>4. CASE Replay
  BY <1>4 DEF Replay, IsRepair
<1>5. CASE Checkpoint
  BY <1>5 DEF Checkpoint, IsRepair
<1>6. CASE FinalCheck
  <2>1. Fsck(vol)
    BY <1>6, RepairIsAccepted DEF FinalCheck
  <2> QED
    BY <1>6, <2>1 DEF FinalCheck, IsRepair
<1>7. CASE Crash
  BY <1>7, BoundAssumption DEF Crash, IsRepair
<1>8. CASE UNCHANGED vars
  BY <1>8 DEF vars, IsRepair
<1> QED
  BY <1>2, <1>3, <1>4, <1>5, <1>6, <1>7, <1>8 DEF Next

\* The invariant holds in every behaviour of the repairs.
LEMMA RepairInvHolds == Spec => []RepairInv
<1>1. Init => RepairInv
  BY BoundAssumption DEF Init, RepairInv
<1> QED
  BY <1>1, RepairInvPreserved, PTL DEF Spec

(***************************************************************************)
(* The theorems.                                                           *)
(***************************************************************************)
\* For every damaged volume: no repair reports an error for a change it committed.
THEOREM NeverFailsHolds == Spec => []NeverFailsAfterCommit
<1>1. RepairInv => NeverFailsAfterCommit
  BY DEF RepairInv, NeverFailsAfterCommit
<1> QED
  BY <1>1, RepairInvHolds, PTL

\* For every damaged volume, however often repairs are called, crash and are called
\* again: the volume is the damaged one or the one repair of it.
THEOREM RepairedOnceHolds == Spec => []RepairedOnce
<1>1. RepairInv => RepairedOnce
  <2> SUFFICES ASSUME RepairInv PROVE RepairedOnce
    OBVIOUS
  <2> USE DEF RepairInv
  <2>1. vol \in {first, Reattached(first), Released(first)} /\ log \in {first, Reattached(first), Released(first)}
    BY DEF IsRepair
  <2>2. vol.inodes = first.inodes /\ vol.payloads = first.payloads
    BY <2>1, RepairsTouchOneTable
  <2> QED
    BY <2>1, <2>2 DEF RepairedOnce, TypeOK
<1> QED
  BY <1>1, RepairInvHolds, PTL

\* For every damaged volume: a release frees no block an inode refers to and leaks
\* none.
THEOREM ReleasesExactlyHolds == Spec => []ReleasesExactly
<1>1. RepairInv => ReleasesExactly
  <2> SUFFICES ASSUME RepairInv, vol.alloc # first.alloc
               PROVE  /\ vol.alloc = BlocksIn(first.inodes, DOMAIN first.inodes)
                      /\ vol.alloc \subseteq first.alloc
    BY DEF ReleasesExactly
  <2>1. vol = Released(first) /\ AuditAllowingOrphans(first)
    BY RepairsTouchOneTable DEF RepairInv, IsRepair
  <2> QED
    BY <2>1, ReleasedIsExact DEF RepairInv
<1> QED
  BY <1>1, RepairInvHolds, PTL

\* For every damaged volume: reattachment keeps every entry, adds entries to the
\* root only, and none that could be left out.
THEOREM ReattachesMinimallyHolds == Spec => []ReattachesMinimally
<1>1. RepairInv => ReattachesMinimally
  <2> SUFFICES ASSUME RepairInv PROVE ReattachesMinimally
    OBVIOUS
  <2>0. first \in Damaged
    BY DEF RepairInv
  <2> DEFINE old == first.entries
             roots == ComponentRoots(first.inodes, old)
  <2>1. CASE vol.entries = old
    BY <2>1 DEF ReattachesMinimally
  <2>2. CASE vol = Reattached(first) /\ AuditAllowingUnreachable(first)
    <3> DEFINE new == vol.entries
    <3>1. /\ DOMAIN old \subseteq DOMAIN new
          /\ \A e \in DOMAIN old : new[e] = old[e]
          /\ \A e \in DOMAIN new \ DOMAIN old : e[1] = Root /\ new[e] \in roots
          /\ \A e, f \in DOMAIN new \ DOMAIN old : new[e] = new[f] => e = f
      BY <2>0, <2>2, ReattachedEntries
    <3>2. vol.inodes = first.inodes /\ EndpointsExist(first.inodes, old)
      BY <2>0, <2>2, RepairsTouchOneTable DEF AuditAllowingUnreachable
    <3>3. ASSUME NEW e \in DOMAIN new \ DOMAIN old
          PROVE  UnreachableInodes(vol.inodes, Drop(new, {e})) # {}
      <4> DEFINE i == new[e]
                 S == DOMAIN vol.inodes \ {i}
                 rest == Drop(new, {e})
      <4>1. Refs(old, i) = {} /\ i \in DOMAIN vol.inodes /\ i # Root
        BY <3>1, <3>2, ComponentRootsAreNameless
      <4>2. \A f \in DOMAIN new : new[f] \in DOMAIN vol.inodes
        <5>1. \A j \in roots : j \in DOMAIN vol.inodes
          BY <3>2, ComponentRootsAreNameless
        <5> QED
          BY <3>1, <3>2, <5>1 DEF EndpointsExist
      <4>3. \A f \in DOMAIN new \ {e} : new[f] # i
        BY <3>1, <4>1 DEF Refs
      <4>4. DOMAIN rest = DOMAIN new \ {e} /\ \A f \in DOMAIN rest : rest[f] = new[f]
        BY DEF Drop, Restrict
      <4> HIDE DEF rest, i
      <4>5. ClosedDown(S, rest)
        BY <4>2, <4>3, <4>4 DEF ClosedDown
      <4>6. Root \in S
        BY <3>2, <4>1 DEF EndpointsExist, Dirs
      <4> QED
        BY <4>1, <4>5, <4>6, OutsideClosedIsUnreachable DEF rest
    <3> QED
      BY <3>1, <3>3 DEF ReattachesMinimally
  <2> QED
    BY <2>0, <2>1, <2>2, RepairsTouchOneTable DEF RepairInv, IsRepair
<1> QED
  BY <1>1, RepairInvHolds, PTL
=============================================================================
