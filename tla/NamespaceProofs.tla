-------------------------- MODULE NamespaceProofs --------------------------
(***************************************************************************)
(* Proofs about the namespace lifecycle, for volumes and names of any      *)
(* number: every operation keeps the tables such that strict fsck accepts  *)
(* them, each directory keeps one name, and a name an operation leaves     *)
(* alone keeps its file.                                                   *)
(***************************************************************************)
EXTENDS Namespace, FiniteSetTheorems, FunctionTheorems, TLAPS

(***************************************************************************)
(* Counting.                                                               *)
(***************************************************************************)
\* A finite set has no member, one member, or more than any one member.
LEMMA CountsByMembers ==
  ASSUME NEW S, IsFiniteSet(S)
  PROVE  /\ Cardinality(S) = 0 <=> S = {}
         /\ Cardinality(S) = 1 <=> \E x : S = {x}
         /\ Cardinality(S) >= 2 => \A x : \E y \in S : y # x
<1>1. /\ Cardinality(S) = 0 <=> S = {}
      /\ Cardinality(S) = 1 <=> \E x : S = {x}
  BY FS_EmptySet, FS_Singleton
<1>2. Cardinality(S) >= 2 => \A x : \E y \in S : y # x
  <2> SUFFICES ASSUME Cardinality(S) >= 2, NEW x, \A y \in S : y = x PROVE FALSE
    OBVIOUS
  <2>1. S = {} \/ S = {x}
    OBVIOUS
  <2>2. Cardinality(S) \in {0, 1}
    BY <1>1, <2>1
  <2> QED
    BY <2>2
<1> QED
  BY <1>1, <1>2

(***************************************************************************)
(* Allocation.                                                             *)
(***************************************************************************)
\* FirstFit returns n different free blocks.
LEMMA FirstFitFacts ==
  ASSUME NEW N \in Nat, NEW free \in SUBSET (1 .. N), NEW n \in Nat, NEW s \in FirstFit(n, free)
  PROVE  /\ s \in [1 .. n -> free]
         /\ \A x, y \in 1 .. n : s[x] = s[y] => x = y
<1> DEFINE Lower(b) == {c \in free : c < b}
           Count == Cardinality(free)
           Rank == [b \in free |-> Cardinality(Lower(b)) + 1]
<1>0. \A b \in free : b \in Int
  OBVIOUS
<1>1. IsFiniteSet(free) /\ Count \in Nat
  BY FS_Interval, FS_Subset, FS_CardinalityType, 1 \in Int, N \in Int
<1>2. \A b \in free : /\ IsFiniteSet(Lower(b)) /\ Cardinality(Lower(b)) \in Nat
                       /\ Cardinality(Lower(b)) + 1 <= Count
  <2> SUFFICES ASSUME NEW b \in free
               PROVE  /\ IsFiniteSet(Lower(b)) /\ Cardinality(Lower(b)) \in Nat
                      /\ Cardinality(Lower(b)) + 1 <= Count
    OBVIOUS
  <2>1. Lower(b) \in SUBSET (free \ {b})
    OBVIOUS
  <2>2. IsFiniteSet(free \ {b}) /\ Cardinality(free \ {b}) = Count - 1
    BY <1>1, FS_RemoveElement
  <2>3. IsFiniteSet(Lower(b)) /\ Cardinality(Lower(b)) <= Cardinality(free \ {b})
    BY <2>1, <2>2, FS_Subset
  <2>4. Cardinality(Lower(b)) \in Nat
    BY <2>3, FS_CardinalityType
  <2> QED
    BY <1>1, <2>2, <2>3, <2>4
<1>3. Rank \in [free -> 1 .. Count]
  <2>1. \A b \in free : Cardinality(Lower(b)) + 1 \in 1 .. Count
    BY <1>1, <1>2
  <2> QED
    BY <2>1
<1>4. ASSUME NEW a \in free, NEW b \in free, a < b PROVE Rank[a] < Rank[b]
  <2>1. Lower(a) \cup {a} \in SUBSET Lower(b)
    <3>1. \A c \in Lower(a) : c < b
      BY <1>0, <1>4
    <3> QED
      BY <1>4, <3>1
  <2>2. Cardinality(Lower(a) \cup {a}) = Cardinality(Lower(a)) + 1
    <3>1. a \notin Lower(a) /\ IsFiniteSet(Lower(a))
      BY <1>0, <1>2
    <3> HIDE DEF Lower
    <3> QED
      BY <3>1, FS_AddElement
  <2>3. Cardinality(Lower(a) \cup {a}) <= Cardinality(Lower(b))
    BY <1>2, <2>1, FS_Subset
  <2> QED
    BY <1>2, <2>2, <2>3
<1> HIDE DEF Rank
<1>5. ASSUME NEW a \in free, NEW b \in free, Rank[a] = Rank[b] PROVE a = b
  <2>0. Rank[a] \in Int /\ Rank[b] \in Int
    BY <1>3
  <2>1. ~ (a < b)
    BY <1>4, <1>5, <2>0
  <2>2. ~ (b < a)
    BY <1>4, <1>5, <2>0
  <2> QED
    BY <1>0, <2>1, <2>2
<1>6. Rank \in Injection(free, 1 .. Count)
  BY <1>3, <1>5, Fun_IsInj
<1>7. IsFiniteSet(1 .. Count) /\ Cardinality(1 .. Count) = Count
  BY <1>1, FS_Interval, 1 \in Int
<1>8. Rank \in Surjection(free, 1 .. Count)
  BY <1>6, <1>7, FS_Injection
<1>9. \A m \in 1 .. Count : \E b \in free : Rank[b] = m
  BY <1>8, Fun_SurjectionProperties, Zenon
<1>10. \A m \in 1 .. Count : \E b \in free : Cardinality(Lower(b)) = m - 1
  BY <1>1, <1>2, <1>9 DEF Rank
<1> DEFINE nth(m) == CHOOSE b \in free : Cardinality(Lower(b)) = m - 1
<1>11. n <= Count /\ s = [m \in 1 .. n |-> nth(m)]
  BY DEF FirstFit
<1>12. \A m \in 1 .. n : nth(m) \in free /\ Cardinality(Lower(nth(m))) = m - 1
  <2>1. \A m \in 1 .. n : m \in 1 .. Count
    BY <1>1, <1>11
  <2>2. \A m \in 1 .. n : \E b \in free : Cardinality(Lower(b)) = m - 1
    BY <1>10, <2>1
  <2> QED
    BY <2>2, Zenon
<1> HIDE DEF nth
<1>13. s \in [1 .. n -> free]
  BY <1>11, <1>12
<1>14. ASSUME NEW x \in 1 .. n, NEW y \in 1 .. n, s[x] = s[y] PROVE x = y
  <2>1. nth(x) = nth(y)
    BY <1>11, <1>14
  <2>2. x - 1 = y - 1
    BY <1>12, <2>1
  <2> QED
    BY <2>2
<1> QED
  BY <1>13, <1>14

(***************************************************************************)
(* Ownership.                                                              *)
(***************************************************************************)
\* The allocator and the inode table agree.
OwnedExactly(taken, table) == /\ BlocksOwnedOnce(taken, table)
                               /\ OrphanedAllocations(taken, table) = {}

\* The same, block by block.
LEMMA OwnedByBlock ==
  ASSUME NEW taken, NEW table
  PROVE  OwnedExactly(taken, table) <=>
           /\ \A i \in DOMAIN table : \A x \in DOMAIN table[i].blocks : table[i].blocks[x] \in taken
           /\ \A b \in taken : \E i \in DOMAIN table : \E x \in DOMAIN table[i].blocks :
                table[i].blocks[x] = b
           /\ \A i, j \in DOMAIN table :
                \A x \in DOMAIN table[i].blocks, y \in DOMAIN table[j].blocks :
                   table[i].blocks[x] = table[j].blocks[y] => i = j /\ x = y
<1>1. \A b : b \in BlocksIn(table, DOMAIN table) <=>
               \E i \in DOMAIN table : \E x \in DOMAIN table[i].blocks : table[i].blocks[x] = b
  BY DEF BlocksIn, Range
<1>2. OrphanedAllocations(taken, table) = {} <=> taken \subseteq BlocksIn(table, DOMAIN table)
  BY DEF OrphanedAllocations
<1>3. BlocksIn(table, DOMAIN table) \subseteq taken <=>
        \A i \in DOMAIN table : \A x \in DOMAIN table[i].blocks : table[i].blocks[x] \in taken
  BY <1>1
<1>4. taken \subseteq BlocksIn(table, DOMAIN table) <=>
        \A b \in taken : \E i \in DOMAIN table : \E x \in DOMAIN table[i].blocks :
                table[i].blocks[x] = b
  BY <1>1
<1> QED
  BY <1>2, <1>3, <1>4, Zenon DEF OwnedExactly, BlocksOwnedOnce

\* A new inode with free blocks of its own.
LEMMA OwnedPut ==
  ASSUME NEW taken, NEW table, OwnedExactly(taken, table),
         NEW i, i \notin DOMAIN table, NEW node,
         \A x \in DOMAIN node.blocks : node.blocks[x] \notin taken,
         \A x, y \in DOMAIN node.blocks : node.blocks[x] = node.blocks[y] => x = y
  PROVE  OwnedExactly(taken \cup Range(node.blocks), Put(table, i, node))
<1> DEFINE new == Put(table, i, node)
<1>1. DOMAIN new = DOMAIN table \cup {i} /\ new[i] = node
  BY DEF Put
<1>2. \A j \in DOMAIN table : j # i /\ new[j] = table[j]
  BY DEF Put
<1>3. \A b : b \in Range(node.blocks) <=> \E x \in DOMAIN node.blocks : node.blocks[x] = b
  BY DEF Range
<1> HIDE DEF new
<1>4. ASSUME NEW j \in DOMAIN new, NEW x \in DOMAIN new[j].blocks
      PROVE  new[j].blocks[x] \in taken \cup Range(node.blocks)
  BY <1>1, <1>2, <1>3, OwnedByBlock
<1>5. ASSUME NEW b \in taken \cup Range(node.blocks)
      PROVE  \E j \in DOMAIN new : \E x \in DOMAIN new[j].blocks : new[j].blocks[x] = b
  <2>1. CASE b \in taken
    <3>1. PICK j \in DOMAIN table : \E x \in DOMAIN table[j].blocks : table[j].blocks[x] = b
      BY <2>1, OwnedByBlock
    <3> QED
      BY <1>1, <1>2, <3>1
  <2>2. CASE b \in Range(node.blocks)
    BY <1>1, <1>3, <2>2
  <2> QED
    BY <2>1, <2>2
<1>6. ASSUME NEW j \in DOMAIN new, NEW k \in DOMAIN new,
             NEW x \in DOMAIN new[j].blocks, NEW y \in DOMAIN new[k].blocks,
             new[j].blocks[x] = new[k].blocks[y]
      PROVE  j = k /\ x = y
  <2>1. CASE j = i /\ k = i
    BY <1>1, <1>6, <2>1
  <2>2. CASE j # i /\ k # i
    BY <1>1, <1>2, <1>6, <2>2, OwnedByBlock
  <2>3. CASE j = i /\ k # i
    BY <1>1, <1>2, <1>6, <2>3, OwnedByBlock
  <2>4. CASE j # i /\ k = i
    BY <1>1, <1>2, <1>6, <2>4, OwnedByBlock
  <2> QED
    BY <2>1, <2>2, <2>3, <2>4
<1> QED
  BY <1>4, <1>5, <1>6, OwnedByBlock DEF new

\* The inodes in S are retired together with their blocks.
LEMMA OwnedRetire ==
  ASSUME NEW taken, NEW table, OwnedExactly(taken, table), NEW S \in SUBSET DOMAIN table
  PROVE  OwnedExactly(taken \ BlocksIn(table, S), Drop(table, S))
<1> DEFINE new == Drop(table, S)
<1>1. DOMAIN new = DOMAIN table \ S /\ \A i \in DOMAIN new : new[i] = table[i]
  BY DEF Drop, Restrict
<1>2. \A b : b \in BlocksIn(table, S) <=>
               \E i \in S : \E x \in DOMAIN table[i].blocks : table[i].blocks[x] = b
  BY DEF BlocksIn, Range
<1> HIDE DEF new
<1>3. ASSUME NEW j \in DOMAIN new, NEW x \in DOMAIN new[j].blocks
      PROVE  new[j].blocks[x] \in taken \ BlocksIn(table, S)
  BY <1>1, <1>2, OwnedByBlock
<1>4. ASSUME NEW b \in taken \ BlocksIn(table, S)
      PROVE  \E j \in DOMAIN new : \E x \in DOMAIN new[j].blocks : new[j].blocks[x] = b
  <2>1. PICK j \in DOMAIN table : \E x \in DOMAIN table[j].blocks : table[j].blocks[x] = b
    BY OwnedByBlock
  <2> QED
    BY <1>1, <1>2, <2>1
<1>5. ASSUME NEW j \in DOMAIN new, NEW k \in DOMAIN new,
             NEW x \in DOMAIN new[j].blocks, NEW y \in DOMAIN new[k].blocks,
             new[j].blocks[x] = new[k].blocks[y]
      PROVE  j = k /\ x = y
  BY <1>1, <1>5, OwnedByBlock
<1> QED
  BY <1>3, <1>4, <1>5, OwnedByBlock DEF new

(***************************************************************************)
(* The namespace.                                                          *)
(***************************************************************************)
\* Every inode but the root has a name.
AllNamed(table, names) == \A i \in DOMAIN table \ {Root} : Refs(names, i) # {}

\* What lies below d is closed and contains d, if no entry leaves the table.
LEMMA BelowIsClosed ==
  ASSUME NEW names, NEW ids, NEW d \in ids,
         \A e \in DOMAIN names : e[1] \in ids => names[e] \in ids
  PROVE  /\ d \in Below(names, ids, d)
         /\ Below(names, ids, d) \subseteq ids
         /\ ClosedDown(Below(names, ids, d), names)
BY DEF Below, ClosedDown

\* In an acyclic namespace everything that has a name can be reached.
LEMMA NamedIsReachable ==
  ASSUME NEW table, NEW names, EndpointsExist(table, names),
         DirectoriesAcyclic(table, names), AllNamed(table, names)
  PROVE  UnreachableInodes(table, names) = {}
<1> SUFFICES ASSUME NEW S \in SUBSET DOMAIN table, Root \in S, ClosedDown(S, names),
                    NEW i \in DOMAIN table
             PROVE  i \in S
  BY DEF UnreachableInodes, Below
<1>1. \A d \in DOMAIN table \ S : \E e \in Refs(names, d) : e[1] \in Dirs(table) \ S
  BY DEF AllNamed, EndpointsExist, Refs, ClosedDown
<1>2. Dirs(table) \ S \in SUBSET Dirs(table)
  OBVIOUS
<1>3. \A d \in Dirs(table) \ S : \E e \in Refs(names, d) : e[1] \in Dirs(table) \ S
  BY <1>1 DEF Dirs
<1>4. Dirs(table) \ S = {}
  BY <1>2, <1>3 DEF DirectoriesAcyclic
<1> QED
  BY <1>1, <1>4

\* No cycle appears while directories gain no name and no directory appears.
LEMMA AcyclicShrinks ==
  ASSUME NEW table, NEW names, DirectoriesAcyclic(table, names), NEW table2, NEW names2,
         Dirs(table2) \subseteq Dirs(table),
         \A d \in Dirs(table2) : Refs(names2, d) \subseteq Refs(names, d)
  PROVE  DirectoriesAcyclic(table2, names2)
BY DEF DirectoriesAcyclic

(***************************************************************************)
(* The invariant.                                                          *)
(***************************************************************************)
\* The root has no name and no directory has two.
OneName == /\ Refs(entries, Root) = {}
           /\ \A d \in Dirs(inodes) : \A x, y \in Refs(entries, d) : x = y

\* The inductive invariant.  That every inode can be reached follows from it
\* (NamedIsReachable); on its own, reachability does not say how a rename may
\* change the entries above a directory.
NamespaceInv ==
  /\ TypeOK
  /\ IsFiniteSet(DOMAIN entries)
  /\ OwnedExactly(alloc, inodes)
  /\ EndpointsExist(inodes, entries)
  /\ DirectoriesAcyclic(inodes, entries)
  /\ AllNamed(inodes, entries)
  /\ OneName

\* What NamesKeepFiles says of one step.
KeepsFiles ==
  \A e \in DOMAIN entries \cap DOMAIN entries' :
     entries'[e] = entries[e] =>
        /\ entries[e] \in DOMAIN inodes'
        /\ inodes'[entries[e]] = inodes[entries[e]]

(***************************************************************************)
(* Reading the tables.                                                     *)
(***************************************************************************)
\* The names of an inode, counted.
LEMMA LinksCount ==
  ASSUME NamespaceInv, NEW e \in DOMAIN entries
  PROVE  /\ Links(e) = 1 => Refs(entries, entries[e]) = {e}
         /\ Links(e) >= 2 => \E g \in Refs(entries, entries[e]) : g # e
<1>1. Refs(entries, entries[e]) \in SUBSET DOMAIN entries /\ e \in Refs(entries, entries[e])
  BY DEF Refs
<1>2. IsFiniteSet(Refs(entries, entries[e]))
  BY <1>1, FS_Subset DEF NamespaceInv
<1> QED
  BY <1>1, <1>2, CountsByMembers DEF Links

\* Only directories hold entries.
LEMMA OnlyDirectoriesHaveChildren ==
  ASSUME NamespaceInv, NEW i \in DOMAIN inodes, inodes[i].kind # "dir"
  PROVE  Children(entries, i) = {}
BY DEF NamespaceInv, EndpointsExist, Children, Dirs

\* The invariant implies what the runs check.
LEMMA InvImplies ==
  ASSUME NamespaceInv
  PROVE  Ownership /\ Sound /\ OneParent
<1> USE DEF NamespaceInv
<1>1. Ownership
  BY DEF OwnedExactly, Ownership
<1>2. Sound
  BY NamedIsReachable DEF Sound, NamespaceSound
<1>3. OneParent
  <2> SUFFICES ASSUME NEW d \in Dirs(inodes)
               PROVE  Cardinality(Refs(entries, d)) = IF d = Root THEN 0 ELSE 1
    BY DEF OneParent
  <2>1. IsFiniteSet(Refs(entries, d))
    <3>1. Refs(entries, d) \in SUBSET DOMAIN entries
      BY DEF Refs
    <3> QED
      BY <3>1, FS_Subset
  <2>2. CASE d = Root
    BY <2>1, <2>2, CountsByMembers DEF OneName
  <2>3. CASE d # Root
    <3>1. PICK x : x \in Refs(entries, d)
      BY <2>3 DEF AllNamed, Dirs
    <3>2. Refs(entries, d) = {x}
      BY <3>1 DEF OneName
    <3> QED
      BY <2>1, <2>3, <3>2, CountsByMembers
  <2> QED
    BY <2>2, <2>3
<1> QED
  BY <1>1, <1>2, <1>3

\* A formatted volume satisfies the invariant.
LEMMA NamespaceInvInit == Init => NamespaceInv
<1> SUFFICES ASSUME Init PROVE NamespaceInv
  OBVIOUS
<1>1. /\ alloc = {} /\ DOMAIN inodes = {Root} /\ DOMAIN entries = {}
      /\ inodes[Root] = [kind |-> "dir", blocks |-> <<>>]
  BY DEF Init
<1>2. TypeOK
  <2>1. <<>> \in Seq(Block)
    OBVIOUS
  <2>2. inodes[Root] \in Inode
    BY <1>1, <2>1 DEF Inode, Kind
  <2>3. Root \in Id
    BY BoundAssumption DEF Id, Root
  <2> QED
    BY <1>1, <2>2, <2>3 DEF TypeOK
<1>3. OwnedExactly(alloc, inodes)
  <2>1. inodes[Root].blocks = <<>> /\ DOMAIN (inodes[Root].blocks) = {}
    BY <1>1
  <2> QED
    BY <1>1, <2>1, OwnedByBlock
<1>4. IsFiniteSet(DOMAIN entries)
  BY <1>1, FS_EmptySet
<1>5. \A i : Refs(entries, i) = {}
  BY <1>1 DEF Refs
<1>6. EndpointsExist(inodes, entries)
  BY <1>1 DEF EndpointsExist, Dirs
<1>7. DirectoriesAcyclic(inodes, entries)
  BY <1>5 DEF DirectoriesAcyclic
<1>8. AllNamed(inodes, entries) /\ OneName
  BY <1>1, <1>5 DEF AllNamed, OneName
<1> QED
  BY <1>2, <1>3, <1>4, <1>6, <1>7, <1>8 DEF NamespaceInv

(***************************************************************************)
(* Creation.                                                               *)
(***************************************************************************)
\* A well-formed inode whose blocks are free and all different.
NewInode(inode) ==
  /\ inode \in Inode
  /\ inode.kind = "dir" => inode.blocks = <<>>
  /\ inode.kind = "symlink" => inode.blocks # <<>>
  /\ \A x \in DOMAIN inode.blocks : inode.blocks[x] \in Block \ alloc
  /\ \A x, y \in DOMAIN inode.blocks : inode.blocks[x] = inode.blocks[y] => x = y

\* A new inode under a new name: its parent is old, so it closes no cycle.
LEMMA AddInodeKeeps ==
  ASSUME NamespaceInv, NEW e \in Key, NEW i \in Id, NEW inode, NewInode(inode),
         AddInode(e, i, inode)
  PROVE  NamespaceInv' /\ KeepsFiles
<1> USE DEF NamespaceInv
<1>1. i \notin DOMAIN inodes
  BY BoundAssumption DEF AddInode, IsNextId, Id
<1>2. /\ DOMAIN inodes' = DOMAIN inodes \cup {i} /\ inodes'[i] = inode
      /\ \A j \in DOMAIN inodes : inodes'[j] = inodes[j]
  BY <1>1 DEF AddInode, Put
<1>3. e \notin DOMAIN entries /\ e[1] \in Dirs(inodes)
  BY DEF AddInode, MayCreateAt, IsEntry
<1>4. /\ DOMAIN entries' = DOMAIN entries \cup {e} /\ entries'[e] = i
      /\ \A x \in DOMAIN entries : entries'[x] = entries[x]
  BY <1>3 DEF AddInode, Put
<1>5. alloc' = alloc \cup Range(inode.blocks)
  BY DEF AddInode
<1>6. TypeOK'
  <2>1. alloc' \subseteq Block
    BY <1>5 DEF TypeOK, NewInode, Range
  <2>2. \A j \in DOMAIN inodes' :
        /\ inodes'[j] \in Inode
        /\ inodes'[j].kind = "dir" => inodes'[j].blocks = <<>>
        /\ inodes'[j].kind = "symlink" => inodes'[j].blocks # <<>>
    BY <1>2 DEF TypeOK, NewInode
  <2> QED
    BY <1>2, <1>4, <2>1, <2>2 DEF TypeOK
<1>7. IsFiniteSet(DOMAIN entries')
  BY <1>4, FS_AddElement
<1>8. OwnedExactly(alloc', inodes')
  BY <1>1, OwnedPut DEF AddInode, NewInode
<1>9. Dirs(inodes) \subseteq Dirs(inodes') /\ Dirs(inodes') \subseteq Dirs(inodes) \cup {i}
  BY <1>2 DEF Dirs
<1>10. EndpointsExist(inodes', entries')
  BY <1>2, <1>3, <1>4, <1>9 DEF EndpointsExist
<1>11. \A x \in DOMAIN entries : x[1] # i /\ entries[x] # i
  BY <1>1 DEF EndpointsExist, Dirs
<1>12. /\ Refs(entries', i) = {e} /\ e[1] # i
       /\ \A j \in DOMAIN inodes : Refs(entries', j) = Refs(entries, j)
  BY <1>1, <1>3, <1>4, <1>11 DEF Refs, Dirs
<1>13. DirectoriesAcyclic(inodes', entries')
  <2> SUFFICES ASSUME NEW S \in SUBSET Dirs(inodes'), S # {},
                      \A d \in S : \E x \in Refs(entries', d) : x[1] \in S
               PROVE  FALSE
    BY DEF DirectoriesAcyclic
  <2>1. S \ {i} # {}
    BY <1>12
  <2>2. \A d \in S \ {i} : \E x \in Refs(entries, d) : x[1] \in S \ {i}
    BY <1>9, <1>11, <1>12 DEF Dirs, Refs
  <2>3. S \ {i} \in SUBSET Dirs(inodes)
    BY <1>9
  <2> QED
    BY <2>1, <2>2, <2>3 DEF DirectoriesAcyclic
<1>14. AllNamed(inodes', entries')
  BY <1>2, <1>12 DEF AllNamed
<1>15. OneName'
  BY <1>1, <1>9, <1>12 DEF OneName, Dirs, EndpointsExist
<1>16. KeepsFiles
  BY <1>2, <1>4 DEF KeepsFiles, EndpointsExist
<1> QED
  BY <1>6, <1>7, <1>8, <1>10, <1>13, <1>14, <1>15, <1>16

\* What FirstFit returns may become the blocks of a new file or symbolic link.
LEMMA RunsMakeInodes ==
  ASSUME NamespaceInv, NEW n \in 0 .. MaxBlocks, NEW s \in Runs(n), s # <<>>,
         NEW kind \in {"file", "symlink"}
  PROVE  NewInode([kind |-> kind, blocks |-> s])
<1> DEFINE free == Block \ alloc
<1>0. s \in FirstFit(n, free)
  BY DEF Runs
<1>1. n \in Nat /\ DataBlocks \in Nat /\ free \in SUBSET (1 .. DataBlocks)
  BY BoundAssumption DEF Block
<1> HIDE DEF free
<1>2. s \in [1 .. n -> free] /\ \A x, y \in 1 .. n : s[x] = s[y] => x = y
  BY <1>0, <1>1, FirstFitFacts
<1> USE DEF free
<1>3. s \in Seq(Block)
  BY <1>1, <1>2
<1>4. [kind |-> kind, blocks |-> s] \in Inode
  BY <1>3 DEF Inode, Kind
<1> QED
  BY <1>2, <1>4 DEF NewInode

\* Another name for a file or symbolic link: no directory gains a name.
LEMMA HardLinkKeeps ==
  ASSUME NamespaceInv, NEW e \in Key, NEW i \in Id, HardLink(e, i)
  PROVE  NamespaceInv' /\ KeepsFiles
<1> USE DEF NamespaceInv
<1>1. inodes' = inodes /\ alloc' = alloc
  BY DEF HardLink
<1>2. e \notin DOMAIN entries /\ e[1] \in Dirs(inodes) /\ i \in DOMAIN inodes \ Dirs(inodes)
  BY DEF HardLink, MayCreateAt, IsEntry, Dirs
<1>3. /\ DOMAIN entries' = DOMAIN entries \cup {e} /\ entries'[e] = i
      /\ \A x \in DOMAIN entries : entries'[x] = entries[x]
  BY <1>2 DEF HardLink, Put
<1>4. TypeOK'
  BY <1>1, <1>3 DEF TypeOK
<1>5. IsFiniteSet(DOMAIN entries')
  BY <1>3, FS_AddElement
<1>6. EndpointsExist(inodes', entries')
  BY <1>1, <1>2, <1>3 DEF EndpointsExist
<1>7. \A j : Refs(entries, j) \subseteq Refs(entries', j)
  BY <1>3 DEF Refs
<1>8. \A d \in Dirs(inodes) : Refs(entries', d) = Refs(entries, d)
  BY <1>2, <1>3 DEF Refs
<1>9. DirectoriesAcyclic(inodes', entries')
  BY <1>1, <1>8, AcyclicShrinks
<1>10. AllNamed(inodes', entries')
  BY <1>1, <1>7 DEF AllNamed
<1>11. OneName'
  BY <1>1, <1>8 DEF OneName, EndpointsExist
<1>12. KeepsFiles
  BY <1>1 DEF KeepsFiles, EndpointsExist
<1> QED
  BY <1>1, <1>4, <1>5, <1>6, <1>9, <1>10, <1>11, <1>12

(***************************************************************************)
(* Removal.                                                                *)
(***************************************************************************)
\* Some names go, with inodes that have no other name and hold no other entry.
LEMMA RetireKeeps ==
  ASSUME NamespaceInv, NEW gone \in SUBSET DOMAIN entries, NEW S \in SUBSET DOMAIN inodes,
         Root \notin S,
         \A x \in DOMAIN entries \ gone : x[1] \notin S /\ entries[x] \notin S,
         \A i \in DOMAIN inodes \ S : i # Root => \E x \in DOMAIN entries \ gone : entries[x] = i,
         entries' = Drop(entries, gone), Retire(S)
  PROVE  NamespaceInv' /\ KeepsFiles
<1> USE DEF NamespaceInv
<1>1. /\ DOMAIN entries' = DOMAIN entries \ gone
      /\ \A x \in DOMAIN entries' : entries'[x] = entries[x]
  BY DEF Drop, Restrict
<1>2. /\ DOMAIN inodes' = DOMAIN inodes \ S
      /\ \A i \in DOMAIN inodes' : inodes'[i] = inodes[i]
  BY DEF Drop, Restrict, Retire
<1>3. alloc' = alloc \ BlocksIn(inodes, S)
  BY DEF Retire
<1>4. TypeOK'
  BY <1>1, <1>2, <1>3 DEF TypeOK
<1>5. IsFiniteSet(DOMAIN entries')
  <2>1. DOMAIN entries' \in SUBSET DOMAIN entries
    BY <1>1
  <2> QED
    BY <2>1, FS_Subset
<1>6. OwnedExactly(alloc', inodes')
  BY OwnedRetire DEF Retire
<1>7. Dirs(inodes') = Dirs(inodes) \ S
  BY <1>2 DEF Dirs
<1>8. EndpointsExist(inodes', entries')
  BY <1>1, <1>2, <1>7 DEF EndpointsExist
<1>9. \A i : Refs(entries', i) = Refs(entries, i) \ gone
  BY <1>1 DEF Refs
<1>10. DirectoriesAcyclic(inodes', entries')
  BY <1>7, <1>9, AcyclicShrinks
<1>11. AllNamed(inodes', entries')
  <2> SUFFICES ASSUME NEW i \in DOMAIN inodes \ S, i # Root
               PROVE  Refs(entries', i) # {}
    BY <1>2 DEF AllNamed
  <2>1. PICK x \in DOMAIN entries \ gone : entries[x] = i
    OBVIOUS
  <2>2. x \in Refs(entries, i) \ gone
    BY <2>1 DEF Refs
  <2> QED
    BY <1>9, <2>2
<1>12. OneName'
  BY <1>7, <1>9 DEF OneName
<1>13. KeepsFiles
  BY <1>1, <1>2 DEF KeepsFiles, EndpointsExist
<1> QED
  BY <1>4, <1>5, <1>6, <1>8, <1>10, <1>11, <1>12, <1>13

\* The last name of an inode without entries goes, and the inode with it.
LEMMA FinalUnlinkKeeps ==
  ASSUME NamespaceInv, NEW e \in DOMAIN entries, entries[e] # Root,
         Children(entries, entries[e]) = {}, FinalUnlink(e)
  PROVE  NamespaceInv' /\ KeepsFiles
<1> USE DEF NamespaceInv
<1>1. entries[e] \in DOMAIN inodes
  BY DEF EndpointsExist
<1>2. Refs(entries, entries[e]) = {e}
  BY LinksCount DEF FinalUnlink
<1>3. \A x \in DOMAIN entries \ {e} : x[1] \notin {entries[e]} /\ entries[x] \notin {entries[e]}
  BY <1>2 DEF Children, Refs
<1>4. \A i \in DOMAIN inodes \ {entries[e]} :
         i # Root => \E x \in DOMAIN entries \ {e} : entries[x] = i
  BY DEF AllNamed, Refs
<1>5. entries' = Drop(entries, {e}) /\ Retire({entries[e]})
  BY DEF FinalUnlink
<1>6. {e} \in SUBSET DOMAIN entries /\ {entries[e]} \in SUBSET DOMAIN inodes /\ Root \notin {entries[e]}
  BY <1>1
<1> QED
  BY <1>3, <1>4, <1>5, <1>6, RetireKeeps

\* One of several names of an inode goes.
LEMMA NonfinalUnlinkKeeps ==
  ASSUME NamespaceInv, NEW e \in DOMAIN entries, NonfinalUnlink(e)
  PROVE  NamespaceInv' /\ KeepsFiles
<1> USE DEF NamespaceInv
<1>1. inodes' = inodes /\ alloc' = alloc
  BY DEF NonfinalUnlink
<1>2. PICK g \in Refs(entries, entries[e]) : g # e
  BY LinksCount DEF NonfinalUnlink
<1>3. /\ DOMAIN entries' = DOMAIN entries \ {e}
      /\ \A x \in DOMAIN entries' : entries'[x] = entries[x]
  BY DEF Drop, Restrict, NonfinalUnlink
<1>4. TypeOK'
  BY <1>1, <1>3 DEF TypeOK
<1>5. IsFiniteSet(DOMAIN entries')
  BY <1>3, FS_RemoveElement
<1>6. EndpointsExist(inodes', entries')
  BY <1>1, <1>3 DEF EndpointsExist
<1>7. \A i : Refs(entries', i) = Refs(entries, i) \ {e}
  BY <1>3 DEF Refs
<1>8. DirectoriesAcyclic(inodes', entries')
  BY <1>1, <1>7, AcyclicShrinks
<1>9. AllNamed(inodes', entries')
  BY <1>1, <1>2, <1>7 DEF AllNamed, Refs
<1>10. OneName'
  BY <1>1, <1>7 DEF OneName
<1>11. KeepsFiles
  BY <1>1 DEF KeepsFiles, EndpointsExist
<1> QED
  BY <1>1, <1>4, <1>5, <1>6, <1>8, <1>9, <1>10, <1>11

\* A directory goes with everything below it.  No directory has a second name,
\* so that no entry outside the subtree leads into it.
LEMMA RemoveTreeKeeps ==
  ASSUME NamespaceInv, NEW e \in Key, RemoveTree(e)
  PROVE  NamespaceInv' /\ KeepsFiles
<1> USE DEF NamespaceInv
<1> DEFINE dirs == SubtreeDirs(entries[e])
           gone == {x \in DOMAIN entries : x = e \/ x[1] \in dirs}
           S == Retired(dirs, gone)
<1>1. /\ e \in DOMAIN entries /\ entries[e] # Root
      /\ \A x \in DOMAIN entries \ gone : entries[x] \notin dirs
      /\ entries' = Drop(entries, gone) /\ Retire(S)
      /\ NamespaceSound(inodes', entries')
  BY DEF RemoveTree, IsEntry
<1>2. gone \in SUBSET DOMAIN entries /\ dirs \subseteq Dirs(inodes)
  BY DEF SubtreeDirs
<1> HIDE DEF dirs
<1>3. S \in SUBSET DOMAIN inodes
  BY <1>2 DEF Retired, Dirs, EndpointsExist
<1>4. Root \notin S
  <2>1. DOMAIN inodes' = DOMAIN inodes \ S
    BY <1>1 DEF Drop, Restrict, Retire
  <2>2. Root \in DOMAIN inodes'
    BY <1>1 DEF NamespaceSound, EndpointsExist, Dirs
  <2> QED
    BY <2>1, <2>2
<1>5. \A x \in DOMAIN entries \ gone : x[1] \notin S /\ entries[x] \notin S
  <2> SUFFICES ASSUME NEW x \in DOMAIN entries \ gone
               PROVE  x[1] \notin S /\ entries[x] \notin S
    OBVIOUS
  <2>1. entries[x] \notin S
    BY <1>1, <1>2 DEF Retired, Refs
  <2>2. ASSUME x[1] \in S PROVE FALSE
    <3>1. DOMAIN inodes' = DOMAIN inodes \ S
      BY <1>1 DEF Drop, Restrict, Retire
    <3>2. x \in DOMAIN entries'
      BY <1>1 DEF Drop, Restrict
    <3> QED
      BY <1>1, <2>2, <3>1, <3>2 DEF NamespaceSound, EndpointsExist, Dirs
  <2> QED
    BY <2>1, <2>2
<1>6. \A i \in DOMAIN inodes \ S : i # Root => \E x \in DOMAIN entries \ gone : entries[x] = i
  BY DEF AllNamed, Refs, Retired
<1> QED
  BY <1>1, <1>2, <1>3, <1>4, <1>5, <1>6, RetireKeeps

(***************************************************************************)
(* Renames.                                                                *)
(***************************************************************************)
\* The entries once e has become f.
LEMMA MovedFacts ==
  ASSUME NEW e \in DOMAIN entries, NEW f, f # e
  PROVE  /\ DOMAIN Moved(e, f) = (DOMAIN entries \ {e}) \cup {f}
         /\ Moved(e, f)[f] = entries[e]
         /\ \A x \in DOMAIN entries \ {e, f} : Moved(e, f)[x] = entries[x]
BY DEF Moved, Put, Drop, Restrict

\* The names of an inode once e has become f.
LEMMA MovedRefs ==
  ASSUME NEW e \in DOMAIN entries, NEW f, f # e, NEW i
  PROVE  /\ i = entries[e] => Refs(Moved(e, f), i) = (Refs(entries, i) \ {e}) \cup {f}
         /\ i # entries[e] => Refs(Moved(e, f), i) = Refs(entries, i) \ {f}
BY DEF Moved, Put, Drop, Restrict, Refs

\* An entry moves to f, which may have named an inode before, and the inodes in S,
\* which no other entry involves, are retired.
LEMMA MovedKeeps ==
  ASSUME NamespaceInv, NEW e \in DOMAIN entries, NEW f \in Key, f # e,
         entries[e] # Root, f[1] \in Dirs(inodes), IsEntry(f) => entries[f] # entries[e],
         NEW S \in SUBSET DOMAIN inodes, Root \notin S, entries[e] \notin S, f[1] \notin S,
         \A x \in DOMAIN entries \ {e, f} : x[1] \notin S /\ entries[x] \notin S,
         \A i \in DOMAIN inodes \ S :
            i # Root /\ i # entries[e] => \E x \in Refs(entries, i) : x # f,
         DOMAIN inodes' = DOMAIN inodes \ S, \A i \in DOMAIN inodes' : inodes'[i] = inodes[i],
         alloc' \subseteq alloc, OwnedExactly(alloc', inodes'),
         entries' = Moved(e, f), DirectoriesAcyclic(inodes', entries')
  PROVE  NamespaceInv' /\ KeepsFiles
<1> USE DEF NamespaceInv
<1>1. /\ DOMAIN entries' = (DOMAIN entries \ {e}) \cup {f} /\ entries'[f] = entries[e]
      /\ \A x \in DOMAIN entries \ {e, f} : entries'[x] = entries[x]
  BY MovedFacts
<1>2. /\ Refs(entries', entries[e]) = (Refs(entries, entries[e]) \ {e}) \cup {f}
      /\ \A i : i # entries[e] => Refs(entries', i) = Refs(entries, i) \ {f}
  BY MovedRefs
<1>3. TypeOK'
  BY <1>1 DEF TypeOK
<1>4. IsFiniteSet(DOMAIN entries')
  <2> DEFINE D == DOMAIN entries
             T == D \ {e}
  <2>1. IsFiniteSet(D)
    OBVIOUS
  <2>2. DOMAIN entries' = T \cup {f}
    BY <1>1
  <2> HIDE DEF D
  <2>3. IsFiniteSet(T)
    BY <2>1, FS_RemoveElement
  <2> HIDE DEF T
  <2>4. IsFiniteSet(T \cup {f})
    BY <2>3, FS_AddElement
  <2> QED
    BY <2>2, <2>4
<1>5. Dirs(inodes') = Dirs(inodes) \ S
  BY DEF Dirs
<1>6. EndpointsExist(inodes', entries')
  BY <1>1, <1>5 DEF EndpointsExist
<1>7. AllNamed(inodes', entries')
  BY <1>2 DEF AllNamed
<1>8. OneName'
  <2>1. Refs(entries', Root) = {}
    BY <1>2 DEF OneName
  <2>2. ASSUME NEW d \in Dirs(inodes'), NEW x \in Refs(entries', d), NEW y \in Refs(entries', d)
        PROVE  x = y
    <3>1. d \in Dirs(inodes) /\ \A v, w \in Refs(entries, d) : v = w
      BY <1>5 DEF OneName
    <3>2. CASE d # entries[e]
      <4>1. x \in Refs(entries, d) /\ y \in Refs(entries, d)
        BY <1>2, <3>2
      <4> QED
        BY <3>1, <4>1
    <3>3. CASE d = entries[e]
      <4>1. e \in Refs(entries, d)
        BY <3>3 DEF Refs
      <4>2. Refs(entries, d) \ {e} = {}
        BY <3>1, <4>1
      <4>3. Refs(entries', d) = {f}
        BY <1>2, <3>3, <4>2
      <4> QED
        BY <4>3
    <3> QED
      BY <3>2, <3>3
  <2> QED
    BY <2>1, <2>2 DEF OneName
<1>9. KeepsFiles
  BY <1>1 DEF KeepsFiles, EndpointsExist, IsEntry
<1> QED
  BY <1>3, <1>4, <1>6, <1>7, <1>8, <1>9

\* A file or symbolic link may move anywhere: no directory gains a name.
LEMMA MovedFileAcyclic ==
  ASSUME NamespaceInv, NEW e \in DOMAIN entries, NEW f, f # e, KindOf(e) # "dir",
         Dirs(inodes') \subseteq Dirs(inodes)
  PROVE  DirectoriesAcyclic(inodes', Moved(e, f))
<1>1. \A d \in Dirs(inodes) : d # entries[e]
  BY DEF KindOf, Dirs
<1>2. \A d \in Dirs(inodes') : Refs(Moved(e, f), d) \subseteq Refs(entries, d)
  BY <1>1, MovedRefs
<1> QED
  BY <1>2, AcyclicShrinks DEF NamespaceInv

\* A directory may move to a parent that does not lie below it.
LEMMA MovedDirectoryAcyclic ==
  ASSUME NamespaceInv, NEW e \in DOMAIN entries, NEW f, f # e, ~IsEntry(f), ~WouldCycle(e, f[1])
  PROVE  DirectoriesAcyclic(inodes, Moved(e, f))
<1> USE DEF NamespaceInv
<1> DEFINE below == Below(Drop(entries, {e}), DOMAIN inodes, entries[e])
<1>0. /\ DOMAIN Drop(entries, {e}) = DOMAIN entries \ {e}
      /\ \A x \in DOMAIN entries \ {e} : Drop(entries, {e})[x] = entries[x]
  BY DEF Drop, Restrict
<1>1. entries[e] \in below /\ ClosedDown(below, Drop(entries, {e})) /\ f[1] \notin below
  <2>1. /\ entries[e] \in DOMAIN inodes
        /\ \A x \in DOMAIN Drop(entries, {e}) :
              x[1] \in DOMAIN inodes => Drop(entries, {e})[x] \in DOMAIN inodes
    BY <1>0 DEF EndpointsExist
  <2> QED
    BY <2>1, BelowIsClosed DEF WouldCycle
<1> HIDE DEF below
<1>2. \A x \in DOMAIN entries \ {e} : x[1] \in below => entries[x] \in below
  BY <1>0, <1>1 DEF ClosedDown
<1> SUFFICES ASSUME NEW S \in SUBSET Dirs(inodes), S # {},
                    \A d \in S : \E x \in Refs(Moved(e, f), d) : x[1] \in S
             PROVE  FALSE
  BY DEF DirectoriesAcyclic
<1>3. \A d \in S : \E x \in (Refs(entries, d) \ {e}) \cup {f} :
                     x[1] \in S /\ (x = f => d = entries[e])
  <2> SUFFICES ASSUME NEW d \in S
               PROVE  \E x \in (Refs(entries, d) \ {e}) \cup {f} :
                         x[1] \in S /\ (x = f => d = entries[e])
    OBVIOUS
  <2>1. PICK x \in Refs(Moved(e, f), d) : x[1] \in S
    OBVIOUS
  <2>2. CASE d = entries[e]
    BY <2>1, <2>2, MovedRefs
  <2>3. CASE d # entries[e]
    BY <2>1, <2>3, MovedRefs DEF Refs
  <2> QED
    BY <2>2, <2>3
<1>4. CASE f[1] \notin S
  <2>1. \A d \in S : \E x \in Refs(entries, d) : x[1] \in S
    BY <1>3, <1>4
  <2> QED
    BY <2>1 DEF DirectoriesAcyclic
<1>5. CASE f[1] \in S
  <2>1. S \ below # {} /\ S \ below \in SUBSET Dirs(inodes)
    BY <1>1, <1>5
  <2>2. \A d \in S \ below : \E x \in Refs(entries, d) : x[1] \in S \ below
    BY <1>1, <1>2, <1>3 DEF Refs
  <2> QED
    BY <2>1, <2>2 DEF DirectoriesAcyclic
<1> QED
  BY <1>4, <1>5

\* A directory, file or symbolic link gets a new name in place of the old one.
LEMMA RenameKeeps ==
  ASSUME NamespaceInv, NEW e \in Key, NEW f \in Key, Rename(e, f)
  PROVE  NamespaceInv' /\ KeepsFiles
<1> USE DEF NamespaceInv
<1>1. /\ e \in DOMAIN entries /\ entries[e] # Root /\ f[1] \in Dirs(inodes) /\ ~IsEntry(f) /\ f # e
      /\ entries' = Moved(e, f) /\ alloc' = alloc /\ inodes' = inodes
  BY DEF Rename, MayCreateAt, IsEntry
<1>2. DirectoriesAcyclic(inodes', entries')
  BY <1>1, MovedFileAcyclic, MovedDirectoryAcyclic DEF Rename
<1>3. \A i \in DOMAIN inodes : i # Root /\ i # entries[e] => \E x \in Refs(entries, i) : x # f
  BY <1>1 DEF AllNamed, Refs, IsEntry
<1>4. {} \in SUBSET DOMAIN inodes /\ DOMAIN inodes = DOMAIN inodes \ {}
  OBVIOUS
<1> QED
  BY <1>1, <1>2, <1>3, <1>4, MovedKeeps

\* The replaced inode loses its last name: it is a file, a symbolic link or an
\* empty directory, and the acyclicity of the result has been established.
LEMMA ReplaceFinalKeeps ==
  ASSUME NamespaceInv, NEW e \in Key, NEW f \in Key, Distinct(e, f),
         entries[e] # Root, entries[f] # Root, Children(entries, entries[f]) = {},
         ReplaceFinal(e, f), DirectoriesAcyclic(inodes, Moved(e, f))
  PROVE  NamespaceInv' /\ KeepsFiles
<1> USE DEF NamespaceInv
<1> DEFINE S == {entries[f]}
<1>1. e \in DOMAIN entries /\ f \in DOMAIN entries /\ entries[e] # entries[f] /\ f # e
  BY DEF Distinct, IsEntry
<1>2. Refs(entries, entries[f]) = {f}
  BY <1>1, LinksCount DEF ReplaceFinal
<1>3. /\ S \in SUBSET DOMAIN inodes /\ f[1] \in Dirs(inodes) /\ f[1] \notin S
      /\ Root \notin S /\ entries[e] \notin S
  BY <1>1 DEF EndpointsExist, Children
<1>4. \A x \in DOMAIN entries \ {e, f} : x[1] \notin S /\ entries[x] \notin S
  BY <1>2 DEF Children, Refs
<1>5. \A i \in DOMAIN inodes \ S :
         i # Root /\ i # entries[e] => \E x \in Refs(entries, i) : x # f
  BY DEF AllNamed, Refs
<1>6. DOMAIN inodes' = DOMAIN inodes \ S /\ \A i \in DOMAIN inodes' : inodes'[i] = inodes[i]
  BY DEF ReplaceFinal, Retire, Drop, Restrict
<1>7. alloc' \subseteq alloc /\ OwnedExactly(alloc', inodes')
  BY <1>3, OwnedRetire DEF ReplaceFinal, Retire
<1>8. entries' = Moved(e, f)
  BY DEF ReplaceFinal
<1>9. DirectoriesAcyclic(inodes', entries')
  <2>1. Dirs(inodes') \subseteq Dirs(inodes)
    BY <1>6 DEF Dirs
  <2> QED
    BY <1>8, <2>1, AcyclicShrinks
<1> HIDE DEF S
<1> QED
  BY <1>1, <1>3, <1>4, <1>5, <1>6, <1>7, <1>8, <1>9, MovedKeeps DEF IsEntry

\* The replaced file or symbolic link keeps another name.
LEMMA ReplaceLinkedKeeps ==
  ASSUME NamespaceInv, NEW e \in Key, NEW f \in Key, Distinct(e, f), entries[e] # Root,
         ReplaceLinked(e, f), DirectoriesAcyclic(inodes, Moved(e, f))
  PROVE  NamespaceInv' /\ KeepsFiles
<1> USE DEF NamespaceInv
<1>1. e \in DOMAIN entries /\ f \in DOMAIN entries /\ entries[e] # entries[f] /\ f # e
  BY DEF Distinct, IsEntry
<1>2. PICK g \in Refs(entries, entries[f]) : g # f
  BY <1>1, LinksCount DEF ReplaceLinked
<1>3. entries' = Moved(e, f) /\ alloc' = alloc /\ inodes' = inodes
  BY DEF ReplaceLinked
<1>4. f[1] \in Dirs(inodes)
  BY <1>1 DEF EndpointsExist
<1>5. \A i \in DOMAIN inodes : i # Root /\ i # entries[e] => \E x \in Refs(entries, i) : x # f
  BY <1>2 DEF AllNamed, Refs
<1>6. {} \in SUBSET DOMAIN inodes /\ DOMAIN inodes = DOMAIN inodes \ {}
  OBVIOUS
<1> QED
  BY <1>1, <1>3, <1>4, <1>5, <1>6, MovedKeeps

\* A file or symbolic link replaces another one.
LEMMA ReplaceFileKeeps ==
  ASSUME NamespaceInv, NEW e \in Key, NEW f \in Key, Distinct(e, f),
         KindOf(e) # "dir", KindOf(f) # "dir", ReplaceFinal(e, f) \/ ReplaceLinked(e, f)
  PROVE  NamespaceInv' /\ KeepsFiles
<1> USE DEF NamespaceInv
<1>1. e \in DOMAIN entries /\ f \in DOMAIN entries /\ f # e
  BY DEF Distinct, IsEntry
<1>2. entries[e] # Root /\ entries[f] # Root
  BY DEF KindOf, EndpointsExist, Dirs
<1>3. Children(entries, entries[f]) = {}
  BY <1>1, OnlyDirectoriesHaveChildren DEF KindOf, EndpointsExist
<1>4. DirectoriesAcyclic(inodes, Moved(e, f))
  <2>1. \A d \in Dirs(inodes) : Refs(Moved(e, f), d) \subseteq Refs(entries, d)
    BY <1>1, MovedRefs DEF KindOf, Dirs
  <2> QED
    BY <2>1, AcyclicShrinks
<1> QED
  BY <1>2, <1>3, <1>4, ReplaceFinalKeeps, ReplaceLinkedKeeps

\* Following one parent finds every cycle, as no directory has two names.
LEMMA OneParentSuffices ==
  ASSUME NEW ents, \A d \in Dirs(inodes) : \A x, y \in Refs(ents, d) : x = y, ParentsAcyclic(ents)
  PROVE  DirectoriesAcyclic(inodes, ents)
<1> SUFFICES ASSUME NEW S \in SUBSET Dirs(inodes), S # {},
                    \A d \in S : \E x \in Refs(ents, d) : x[1] \in S
             PROVE  FALSE
  BY DEF DirectoriesAcyclic
<1>1. S \in SUBSET {d \in Dirs(inodes) : Refs(ents, d) # {}}
  OBVIOUS
<1>2. ASSUME NEW d \in S PROVE ParentOf(ents, d) \in S
  <2>1. PICK x \in Refs(ents, d) : x[1] \in S
    OBVIOUS
  <2>2. (CHOOSE y \in Refs(ents, d) : TRUE) = x
    <3>1. (CHOOSE y \in Refs(ents, d) : TRUE) \in Refs(ents, d)
      BY <2>1
    <3> QED
      BY <2>1, <3>1
  <2> QED
    BY <2>1, <2>2 DEF ParentOf
<1> QED
  BY <1>1, <1>2 DEF ParentsAcyclic

\* A directory replaces an empty one.
LEMMA ReplaceDirectoryKeeps ==
  ASSUME NamespaceInv, NEW e \in Key, NEW f \in Key, RenameOverwriteDirectory(e, f)
  PROVE  NamespaceInv' /\ KeepsFiles
<1> USE DEF NamespaceInv
<1>1. e \in DOMAIN entries /\ f \in DOMAIN entries /\ f # e /\ entries[e] # entries[f]
  BY DEF RenameOverwriteDirectory, Distinct, IsEntry
<1>2. entries[e] \in Dirs(inodes)
  BY <1>1 DEF RenameOverwriteDirectory, KindOf, EndpointsExist, Dirs
<1>3. \A d \in Dirs(inodes) : \A x, y \in Refs(Moved(e, f), d) : x = y
  <2> SUFFICES ASSUME NEW d \in Dirs(inodes), NEW x \in Refs(Moved(e, f), d),
                      NEW y \in Refs(Moved(e, f), d)
               PROVE  x = y
    OBVIOUS
  <2>1. CASE d = entries[e]
    <3>1. Refs(entries, d) = {e}
      BY <1>1, <2>1 DEF OneName, Refs
    <3> QED
      BY <1>1, <2>1, <3>1, MovedRefs
  <2>2. CASE d # entries[e]
    BY <1>1, <2>2, MovedRefs DEF OneName
  <2> QED
    BY <2>1, <2>2
<1>4. DirectoriesAcyclic(inodes, Moved(e, f))
  BY <1>3, OneParentSuffices DEF RenameOverwriteDirectory
<1> QED
  BY <1>4, ReplaceFinalKeeps DEF RenameOverwriteDirectory

\* Two names swap their targets.
LEMMA ExchangeKeeps ==
  ASSUME NamespaceInv, NEW e \in Key, NEW f \in Key, RenameExchange(e, f)
  PROVE  NamespaceInv' /\ KeepsFiles
<1> USE DEF NamespaceInv
<1>1. /\ e \in DOMAIN entries /\ f \in DOMAIN entries /\ f # e /\ entries[e] # entries[f]
      /\ alloc' = alloc /\ inodes' = inodes /\ entries' = Swapped(e, f)
  BY DEF RenameExchange, Distinct, IsEntry
<1>2. /\ DOMAIN entries' = DOMAIN entries
      /\ entries'[e] = entries[f] /\ entries'[f] = entries[e]
      /\ \A x \in DOMAIN entries \ {e, f} : entries'[x] = entries[x]
  BY <1>1 DEF Swapped
<1>3. TypeOK'
  BY <1>1, <1>2 DEF TypeOK
<1>4. EndpointsExist(inodes', entries')
  BY <1>1, <1>2 DEF EndpointsExist
<1>5. /\ Refs(entries', entries[e]) = (Refs(entries, entries[e]) \ {e}) \cup {f}
      /\ Refs(entries', entries[f]) = (Refs(entries, entries[f]) \ {f}) \cup {e}
  BY <1>1, <1>2 DEF Refs
<1>6. \A i : i # entries[e] /\ i # entries[f] => Refs(entries', i) = Refs(entries, i)
  BY <1>1, <1>2 DEF Refs
<1>7. AllNamed(inodes', entries')
  BY <1>1, <1>5, <1>6 DEF AllNamed
<1>8. e \in Refs(entries, entries[e]) /\ f \in Refs(entries, entries[f])
  BY <1>1 DEF Refs
<1>9. OneName'
  BY <1>1, <1>5, <1>6, <1>8 DEF OneName
<1>10. DirectoriesAcyclic(inodes', entries')
  <2>1. CASE KindOf(e) = "dir"
    <3>1. ParentsAcyclic(entries')
      BY <1>1, <2>1 DEF RenameExchange
    <3>2. \A d \in Dirs(inodes) : \A x, y \in Refs(entries', d) : x = y
      BY <1>1, <1>9 DEF OneName
    <3> QED
      BY <1>1, <3>1, <3>2, OneParentSuffices
  <2>2. CASE KindOf(e) # "dir"
    <3>1. \A d \in Dirs(inodes) : d # entries[e] /\ d # entries[f]
      BY <2>2 DEF RenameExchange, KindOf, Dirs
    <3>2. \A d \in Dirs(inodes') : Refs(entries', d) \subseteq Refs(entries, d)
      BY <1>1, <1>6, <3>1
    <3> QED
      BY <1>1, <3>2, AcyclicShrinks
  <2> QED
    BY <2>1, <2>2
<1>11. KeepsFiles
  BY <1>1 DEF KeepsFiles, EndpointsExist
<1> QED
  BY <1>1, <1>2, <1>3, <1>4, <1>7, <1>9, <1>10, <1>11

(***************************************************************************)
(* The theorems.                                                           *)
(***************************************************************************)
\* Every operation keeps the invariant and the files of the names it leaves alone.
LEMMA NamespaceStep ==
  ASSUME NamespaceInv, Next
  PROVE  NamespaceInv' /\ KeepsFiles
<1>1. ASSUME NEW e \in Key, NEW i \in Id, NEW kind \in {"file", "dir"}, CreateBlockless(e, i, kind)
      PROVE  NamespaceInv' /\ KeepsFiles
  <2>1. <<>> \in Seq(Block) /\ DOMAIN <<>> = {}
    OBVIOUS
  <2>2. NewInode([kind |-> kind, blocks |-> <<>>])
    BY <2>1 DEF NewInode, Inode, Kind
  <2> QED
    BY <1>1, <2>2, AddInodeKeeps DEF CreateBlockless
<1>2. ASSUME NEW e \in Key, NEW i \in Id, NEW n \in 0 .. MaxBlocks, NEW s \in Runs(n), CreateFile(e, i, s)
      PROVE  NamespaceInv' /\ KeepsFiles
  <2>1. NewInode([kind |-> "file", blocks |-> s])
    BY <1>2, RunsMakeInodes DEF CreateFile
  <2> QED
    BY <1>2, <2>1, AddInodeKeeps DEF CreateFile
<1>3. ASSUME NEW e \in Key, NEW i \in Id, NEW n \in 0 .. MaxBlocks, NEW s \in Runs(n), CreateSymlink(e, i, s)
      PROVE  NamespaceInv' /\ KeepsFiles
  <2>1. NewInode([kind |-> "symlink", blocks |-> s])
    BY <1>3, RunsMakeInodes DEF CreateSymlink
  <2> QED
    BY <1>3, <2>1, AddInodeKeeps DEF CreateSymlink
<1>4. ASSUME NEW e \in Key, NEW i \in Id, HardLink(e, i) PROVE NamespaceInv' /\ KeepsFiles
  BY <1>4, HardLinkKeeps
<1>5. ASSUME NEW e \in Key, Unlink(e) PROVE NamespaceInv' /\ KeepsFiles
  <2>1. /\ e \in DOMAIN entries /\ entries[e] \in DOMAIN inodes /\ entries[e] # Root
        /\ inodes[entries[e]].kind # "dir"
    BY <1>5 DEF Unlink, IsEntry, KindOf, NamespaceInv, EndpointsExist, Dirs
  <2>2. Children(entries, entries[e]) = {}
    BY <2>1, OnlyDirectoriesHaveChildren
  <2> QED
    BY <1>5, <2>1, <2>2, FinalUnlinkKeeps, NonfinalUnlinkKeeps DEF Unlink
<1>6. ASSUME NEW e \in Key, RemoveDirectory(e) PROVE NamespaceInv' /\ KeepsFiles
  BY <1>6, FinalUnlinkKeeps DEF RemoveDirectory, IsEntry
<1>7. ASSUME NEW e \in Key, RemoveTree(e) PROVE NamespaceInv' /\ KeepsFiles
  BY <1>7, RemoveTreeKeeps
<1>8. ASSUME NEW e \in Key, NEW f \in Key, RenameOverwrite(e, f) PROVE NamespaceInv' /\ KeepsFiles
  BY <1>8, ReplaceFileKeeps, ReplaceDirectoryKeeps DEF RenameOverwrite, RenameOverwriteSameKind
<1>9. ASSUME NEW e \in Key, NEW f \in Key, RenamePosix(e, f) PROVE NamespaceInv' /\ KeepsFiles
  BY <1>9, RenameKeeps, ReplaceFileKeeps, ReplaceDirectoryKeeps DEF RenamePosix, RenameOverwriteNondirectory
<1>10. ASSUME NEW e \in Key, NEW f \in Key, RenameExchange(e, f) PROVE NamespaceInv' /\ KeepsFiles
  BY <1>10, ExchangeKeeps
<1> QED
  BY <1>1, <1>2, <1>3, <1>4, <1>5, <1>6, <1>7, <1>8, <1>9, <1>10 DEF Next

\* A step that changes no table keeps the invariant.
LEMMA NamespaceStutter ==
  ASSUME NamespaceInv, UNCHANGED vars
  PROVE  NamespaceInv'
BY DEF NamespaceInv, vars, TypeOK, OneName

\* The invariant holds after any sequence of operations.
LEMMA NamespaceInvHolds == Spec => []NamespaceInv
<1>1. Init => NamespaceInv
  BY NamespaceInvInit
<1>2. NamespaceInv /\ [Next]_vars => NamespaceInv'
  BY NamespaceStep, NamespaceStutter
<1> QED
  BY <1>1, <1>2, PTL DEF Spec

\* For every volume, after any sequence of operations: a block is allocated exactly
\* when one inode refers to it, once.
THEOREM OwnershipHolds == Spec => []Ownership
<1>1. NamespaceInv => Ownership
  BY InvImplies
<1> QED
  BY <1>1, NamespaceInvHolds, PTL

\* For every volume, after any sequence of operations: the tables are well formed,
\* no entry dangles, no directories form a cycle and every inode can be reached
\* from the root, so that strict fsck accepts the volume.
THEOREM SoundHolds == Spec => []Sound
<1>1. NamespaceInv => Sound
  BY InvImplies
<1> QED
  BY <1>1, NamespaceInvHolds, PTL

\* For every volume, after any sequence of operations: each directory has one name
\* and the root none, which is what lets the checks of directory replacement and
\* exchange follow one parent only.
THEOREM OneParentHolds == Spec => []OneParent
<1>1. NamespaceInv => OneParent
  BY InvImplies
<1> QED
  BY <1>1, NamespaceInvHolds, PTL

\* For every volume: a name that an operation leaves alone keeps its inode, with
\* the same kind and the same blocks.
THEOREM NamesKeepFilesHolds == Spec => NamesKeepFiles
<1>1. NamespaceInv /\ [Next]_vars => [KeepsFiles]_vars
  BY NamespaceStep
<1> QED
  BY <1>1, NamespaceInvHolds, PTL DEF Spec, NamesKeepFiles, KeepsFiles

(***************************************************************************)
(* No history of the volume makes an operation impossible: the checks made *)
(* before recursive removal and before directory replacement always pass.  *)
(***************************************************************************)
\* What remove_directory_tree_journaled asks of the tables it finds and of those it
\* would publish.
TreeRemovable(e) ==
  LET dirs == SubtreeDirs(entries[e])
      gone == {x \in DOMAIN entries : x = e \/ x[1] \in dirs}
  IN /\ entries[e] # Root
     /\ FsckAccepts(alloc, inodes, entries)
     /\ \A x \in DOMAIN entries \ gone : entries[x] \notin dirs
     /\ NamespaceSound(Drop(inodes, Retired(dirs, gone)), Drop(entries, gone))

\* What rename_overwrite_directory_journaled asks, given an empty directory at f that
\* does not lie below the one at e.
DirectoryReplaceable(e, f) ==
  /\ entries[e] # Root /\ entries[f] # Root
  /\ FsckAccepts(alloc, inodes, entries)
  /\ ParentsAcyclic(Moved(e, f))
  /\ Links(f) = 1

\* Strict fsck accepts every volume the invariant describes.
LEMMA InvIsAccepted ==
  ASSUME NamespaceInv
  PROVE  FsckAccepts(alloc, inodes, entries)
BY InvImplies DEF FsckAccepts, Ownership, Sound

\* What lies below an inode of the table.
LEMMA BelowFacts ==
  ASSUME NamespaceInv, NEW t \in DOMAIN inodes
  PROVE  /\ t \in Below(entries, DOMAIN inodes, t)
         /\ \A x \in DOMAIN entries : x[1] \in Below(entries, DOMAIN inodes, t)
                                        => entries[x] \in Below(entries, DOMAIN inodes, t)
<1>1. \A x \in DOMAIN entries : x[1] \in DOMAIN inodes => entries[x] \in DOMAIN inodes
  BY DEF NamespaceInv, EndpointsExist
<1> QED
  BY <1>1, BelowIsClosed DEF ClosedDown

\* A set that contains t and is closed under the entries contains what is below t.
LEMMA BelowIsLeast ==
  ASSUME NEW ids, NEW t, NEW S \in SUBSET ids, t \in S, ClosedDown(S, entries)
  PROVE  Below(entries, ids, t) \subseteq S
BY DEF Below

\* Whatever names an inode below t, other than t, lies below t: if none of its names
\* did, it would not be below t.
LEMMA BelowIsEntered ==
  ASSUME NamespaceInv, NEW t \in DOMAIN inodes, NEW d \in Below(entries, DOMAIN inodes, t), d # t
  PROVE  \E x \in Refs(entries, d) : x[1] \in Below(entries, DOMAIN inodes, t)
<1> DEFINE B == Below(entries, DOMAIN inodes, t)
<1> SUFFICES ASSUME \A x \in Refs(entries, d) : x[1] \notin B PROVE FALSE
  OBVIOUS
<1>1. B \subseteq DOMAIN inodes
  BY DEF Below
<1>2. t \in B \ {d} /\ ClosedDown(B \ {d}, entries)
  BY BelowFacts DEF ClosedDown, Refs
<1>3. B \subseteq B \ {d}
  BY <1>1, <1>2, BelowIsLeast
<1> QED
  BY <1>3

\* No history makes a directory impossible to remove with all its contents.
LEMMA SubtreeDetaches ==
  ASSUME NamespaceInv, NEW e \in DOMAIN entries, KindOf(e) = "dir"
  PROVE  TreeRemovable(e)
<1> USE DEF NamespaceInv
<1> DEFINE t == entries[e]
           B == Below(entries, DOMAIN inodes, t)
           dirs == SubtreeDirs(t)
           gone == {x \in DOMAIN entries : x = e \/ x[1] \in dirs}
           S == Retired(dirs, gone)
           ents == Drop(entries, gone)
           inos == Drop(inodes, S)
<1>1. t \in DOMAIN inodes /\ t \in Dirs(inodes) /\ t # Root /\ Refs(entries, t) = {e}
  BY DEF KindOf, EndpointsExist, Dirs, OneName, Refs
<1>2. dirs = B \cap Dirs(inodes)
  BY DEF SubtreeDirs
<1>3. t \in B /\ \A x \in DOMAIN entries : x[1] \in B => entries[x] \in B
  BY <1>1, BelowFacts
<1>4. \A d \in B \ {t} : \E x \in Refs(entries, d) : x[1] \in B
  BY <1>1, BelowIsEntered
<1>5. Root \notin B
  BY <1>1, <1>4 DEF OneName
<1> HIDE DEF B, dirs
<1>6. \A x \in DOMAIN entries \ gone : entries[x] \notin dirs
  <2> SUFFICES ASSUME NEW x \in DOMAIN entries, x # e, x[1] \notin dirs, entries[x] \in dirs
               PROVE  FALSE
    OBVIOUS
  <2>1. entries[x] # t
    BY <1>1 DEF Refs
  <2>2. PICK y \in Refs(entries, entries[x]) : y[1] \in B
    BY <1>2, <1>4, <2>1
  <2>3. y = x
    BY <1>2 DEF OneName, Refs
  <2> QED
    BY <1>2, <2>2, <2>3 DEF EndpointsExist
<1>7. Root \notin S
  BY <1>2, <1>5 DEF Retired, OneName, Refs
<1>8. \A x \in DOMAIN entries \ gone : x[1] \notin S
  <2> SUFFICES ASSUME NEW x \in DOMAIN entries, x # e, x[1] \notin dirs, x[1] \in S
               PROVE  FALSE
    OBVIOUS
  <2>1. PICK y \in gone : entries[y] = x[1]
    BY DEF Retired
  <2>2. x[1] \in Dirs(inodes) \ B
    BY <1>2 DEF EndpointsExist
  <2>3. y # e /\ y \in DOMAIN entries /\ y[1] \in B
    BY <1>2, <1>3, <2>1, <2>2
  <2> QED
    BY <1>3, <2>1, <2>2, <2>3
<1>9. \A x \in DOMAIN entries \ gone : entries[x] \notin S
  BY <1>6 DEF Retired, Refs
<1>10. /\ DOMAIN ents = DOMAIN entries \ gone
       /\ \A x \in DOMAIN ents : ents[x] = entries[x]
       /\ DOMAIN inos = DOMAIN inodes \ S
       /\ \A i \in DOMAIN inos : inos[i] = inodes[i]
  BY DEF Drop, Restrict
<1>11. Dirs(inos) = Dirs(inodes) \ S
  BY <1>10 DEF Dirs
<1>12. \A i \in DOMAIN inodes \ S : i # Root => \E x \in DOMAIN entries \ gone : entries[x] = i
  BY DEF AllNamed, Refs, Retired
<1> HIDE DEF ents, inos, S, gone
<1>13. EndpointsExist(inos, ents)
  BY <1>7, <1>8, <1>9, <1>10, <1>11 DEF EndpointsExist
<1>14. \A d : Refs(ents, d) \subseteq Refs(entries, d)
  BY <1>10 DEF Refs
<1>15. DirectoriesAcyclic(inos, ents)
  BY <1>11, <1>14, AcyclicShrinks
<1>16. AllNamed(inos, ents)
  BY <1>10, <1>12 DEF AllNamed, Refs
<1>17. NamespaceSound(inos, ents)
  BY <1>13, <1>15, <1>16, NamedIsReachable DEF NamespaceSound
<1> QED
  BY <1>1, <1>6, <1>17, InvIsAccepted DEF TreeRemovable, ents, inos, S, gone, dirs

\* No history makes an empty directory impossible to replace by one that does not
\* contain it.
LEMMA DirectoryReplaces ==
  ASSUME NamespaceInv, NEW e \in DOMAIN entries, NEW f \in DOMAIN entries,
         entries[e] # entries[f], KindOf(e) = "dir", KindOf(f) = "dir",
         entries[f] \notin Below(entries, DOMAIN inodes, entries[e])
  PROVE  DirectoryReplaceable(e, f)
<1> USE DEF NamespaceInv
<1> DEFINE t == entries[e]
           B == Below(entries, DOMAIN inodes, t)
<1>1. /\ t \in DOMAIN inodes /\ t \in Dirs(inodes) /\ t # Root /\ Refs(entries, t) = {e}
      /\ entries[f] # Root /\ Refs(entries, entries[f]) = {f} /\ f # e
  BY DEF KindOf, EndpointsExist, Dirs, OneName, Refs
<1>2. Links(f) = 1
  BY <1>1, FS_Singleton DEF Links
<1>3. t \in B /\ f[1] \notin B /\ \A x \in DOMAIN entries : x[1] \in B => entries[x] \in B
  BY <1>1, BelowFacts
<1> HIDE DEF B
<1>4. ParentsAcyclic(Moved(e, f))
  <2> DEFINE ents == Moved(e, f)
  <2> SUFFICES ASSUME NEW S \in SUBSET {d \in Dirs(inodes) : Refs(ents, d) # {}}, S # {},
                      \A d \in S : ParentOf(ents, d) \in S
               PROVE  FALSE
    BY DEF ParentsAcyclic
  <2>1. \A d \in S : \E x \in Refs(ents, d) : x[1] \in S
    BY DEF ParentOf
  <2>2. \A d \in S : d # t => \E x \in Refs(entries, d) : x[1] \in S
    BY <1>1, <2>1, MovedRefs
  <2>3. t \in S => f[1] \in S
    BY <1>1, <2>1, MovedRefs
  <2>4. CASE t \in S
    <3>1. S \ B # {} /\ S \ B \in SUBSET Dirs(inodes)
      BY <1>3, <2>3, <2>4
    <3>2. \A d \in S \ B : \E x \in Refs(entries, d) : x[1] \in S \ B
      BY <1>3, <2>2 DEF Refs
    <3> QED
      BY <3>1, <3>2 DEF DirectoriesAcyclic
  <2>5. CASE t \notin S
    <3>1. S \in SUBSET Dirs(inodes) /\ \A d \in S : \E x \in Refs(entries, d) : x[1] \in S
      BY <2>2, <2>5
    <3> QED
      BY <3>1 DEF DirectoriesAcyclic
  <2> QED
    BY <2>4, <2>5
<1> QED
  BY <1>1, <1>2, <1>4, InvIsAccepted DEF DirectoryReplaceable

\* For every volume, after any sequence of operations: the checks recursive removal
\* makes of the tables it is about to publish pass for every directory that has a
\* name, so that no directory becomes impossible to remove.
THEOREM RemoveTreeNeverRefused ==
  Spec => [](\A e \in DOMAIN entries : KindOf(e) = "dir" => TreeRemovable(e))
<1>1. NamespaceInv => \A e \in DOMAIN entries : KindOf(e) = "dir" => TreeRemovable(e)
  BY SubtreeDetaches
<1> QED
  BY <1>1, NamespaceInvHolds, PTL

\* For every volume, after any sequence of operations: the checks of directory
\* replacement pass for every two directories of which the first does not contain
\* the second.
THEOREM ReplaceDirectoryNeverRefused ==
  Spec => [](\A e, f \in DOMAIN entries :
               /\ entries[e] # entries[f] /\ KindOf(e) = "dir" /\ KindOf(f) = "dir"
               /\ entries[f] \notin Below(entries, DOMAIN inodes, entries[e])
               => DirectoryReplaceable(e, f))
<1>1. NamespaceInv => \A e, f \in DOMAIN entries :
               /\ entries[e] # entries[f] /\ KindOf(e) = "dir" /\ KindOf(f) = "dir"
               /\ entries[f] \notin Below(entries, DOMAIN inodes, entries[e])
               => DirectoryReplaceable(e, f)
  BY DirectoryReplaces
<1> QED
  BY <1>1, NamespaceInvHolds, PTL
=============================================================================
