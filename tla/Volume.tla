------------------------------- MODULE Volume -------------------------------
(***************************************************************************)
(* The three metadata tables of a volume as values, and what strict fsck   *)
(* (fsck.rs) says about them:                                              *)
(*                                                                         *)
(*   alloc    the allocated data blocks (allocation.rs)                    *)
(*   inodes   inode id -> [kind, blocks] (inode_codec.rs)                  *)
(*   entries  <<parent, name>> -> target inode id (directory_codec.rs)     *)
(*                                                                         *)
(* Graph notions are stated through closed sets of inodes, so that no      *)
(* recursion is needed.                                                    *)
(***************************************************************************)
EXTENDS Integers, Sequences, FiniteSets, Functions

Root == 1
Kind == {"file", "dir", "symlink"}

\* f with x mapped to v; f without the members of S.
Put(f, x, v) == [y \in DOMAIN f \cup {x} |-> IF y = x THEN v ELSE f[y]]
Drop(f, S) == Restrict(f, DOMAIN f \ S)

Dirs(inodes) == {i \in DOMAIN inodes : inodes[i].kind = "dir"}
BlocksIn(inodes, S) == UNION {Range(inodes[i].blocks) : i \in S}
Refs(entries, i) == {e \in DOMAIN entries : entries[e] = i}
Children(entries, d) == {e \in DOMAIN entries : e[1] = d}

\* What n successive BlockAllocator::allocate calls return: the n lowest free
\* blocks, in order, if there are as many.
FirstFit(n, free) ==
  LET nth(m) == CHOOSE b \in free : Cardinality({c \in free : c < b}) = m - 1
  IN IF n <= Cardinality(free) THEN {[m \in 1 .. n |-> nth(m)]} ELSE {}

\* S is closed under descending the given entries.
ClosedDown(S, entries) == \A e \in DOMAIN entries : e[1] \in S => entries[e] \in S

\* The inodes among ids that a descent from d meets, d included.
Below(entries, ids, d) ==
  LET closed == {S \in SUBSET ids : d \in S /\ ClosedDown(S, entries)}
  IN {i \in ids : \A S \in closed : i \in S}

(***************************************************************************)
(* Strict fsck.                                                            *)
(***************************************************************************)
\* scan_inode_ownership: every referenced block is allocated and referenced
\* exactly once.
BlocksOwnedOnce(alloc, inodes) ==
  /\ BlocksIn(inodes, DOMAIN inodes) \subseteq alloc
  /\ \A i, j \in DOMAIN inodes :
        \A x \in DOMAIN inodes[i].blocks, y \in DOMAIN inodes[j].blocks :
           inodes[i].blocks[x] = inodes[j].blocks[y] => i = j /\ x = y

OrphanedAllocations(alloc, inodes) == alloc \ BlocksIn(inodes, DOMAIN inodes)

\* scan_namespace: parents are directories, targets exist, so does the root.
EndpointsExist(inodes, entries) ==
  /\ Root \in Dirs(inodes)
  /\ \A e \in DOMAIN entries : e[1] \in Dirs(inodes) /\ entries[e] \in DOMAIN inodes

\* audit_directory_cycle: no set of directories in which each is named by an
\* entry of another one, or of its own.
DirectoriesAcyclic(inodes, entries) ==
  ~ \E S \in (SUBSET Dirs(inodes)) \ {{}} :
       \A d \in S : \E e \in Refs(entries, d) : e[1] \in S

UnreachableInodes(inodes, entries) ==
  DOMAIN inodes \ Below(entries, DOMAIN inodes, Root)

\* validate_namespace_snapshot.
NamespaceSound(inodes, entries) ==
  /\ EndpointsExist(inodes, entries)
  /\ DirectoriesAcyclic(inodes, entries)
  /\ UnreachableInodes(inodes, entries) = {}

\* check_device.
FsckAccepts(alloc, inodes, entries) ==
  /\ BlocksOwnedOnce(alloc, inodes)
  /\ OrphanedAllocations(alloc, inodes) = {}
  /\ NamespaceSound(inodes, entries)
=============================================================================
