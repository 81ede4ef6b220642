----------------------------- MODULE Namespace -----------------------------
(***************************************************************************)
(* The namespace lifecycle: create, link, unlink, rename, exchange and     *)
(* recursive removal of files, directories and symbolic links.             *)
(*                                                                         *)
(* One action is one journaled operation.  Each publishes all the tables   *)
(* it changes in one write-ahead-log transaction, which module Wal shows   *)
(* to be atomic under crashes, so a crash is either the whole action or no *)
(* step at all.  Operations the code rejects are disabled.  Path strings   *)
(* are resolved by the caller: an entry is its key <<parent, name>>.       *)
(***************************************************************************)
EXTENDS Volume

CONSTANTS
  Name,         \* entry names
  DataBlocks,   \* number of data blocks of the volume
  MaxInode,     \* bound: inode identifiers in use
  MaxBlocks     \* bound: data blocks of one file or symbolic link

ASSUME BoundAssumption == /\ DataBlocks \in Nat
                          /\ MaxInode \in Nat \ {0}
                          /\ MaxBlocks \in Nat \ {0}

VARIABLES alloc, inodes, entries
vars == <<alloc, inodes, entries>>

Block == 1 .. DataBlocks
Id == 1 .. MaxInode
Key == Id \X Name
Inode == [kind : Kind, blocks : Seq(Block)]

Runs(n) == FirstFit(n, Block \ alloc)

IsEntry(e) == e \in DOMAIN entries
KindOf(e) == inodes[entries[e]].kind
Links(e) == Cardinality(Refs(entries, entries[e]))

(***************************************************************************)
(* Creation.                                                               *)
(***************************************************************************)
\* next_inode_id: one more than the largest identifier in use.
IsNextId(i) == /\ i \in Id
               /\ i - 1 \in DOMAIN inodes
               /\ \A j \in DOMAIN inodes : j < i

\* validate_create_destination.
MayCreateAt(e) == e[1] \in Dirs(inodes) /\ ~IsEntry(e)

AddInode(e, i, inode) ==
  /\ MayCreateAt(e)
  /\ IsNextId(i)
  /\ inodes' = Put(inodes, i, inode)
  /\ entries' = Put(entries, e, i)
  /\ alloc' = alloc \cup Range(inode.blocks)

\* create_empty_file_at_path_journaled, create_directory_at_path_journaled.
CreateBlockless(e, i, kind) ==
  /\ kind \in {"file", "dir"}
  /\ AddInode(e, i, [kind |-> kind, blocks |-> <<>>])

\* create_file_with_blocks_and_size_at_path_journaled; the one-block create
\* is the case of length one.
CreateFile(e, i, s) ==
  /\ s # <<>>
  /\ AddInode(e, i, [kind |-> "file", blocks |-> s])

\* create_symlink_journaled: a target fills at least one block.
CreateSymlink(e, i, s) ==
  /\ s # <<>>
  /\ AddInode(e, i, [kind |-> "symlink", blocks |-> s])

\* Mutant: directories may be linked as well.
HardLinkAny(e, i) ==
  /\ MayCreateAt(e)
  /\ i \in DOMAIN inodes \ {Root}
  /\ entries' = Put(entries, e, i)
  /\ UNCHANGED <<alloc, inodes>>

\* hard_link_file_journaled, hard_link_symlink_journaled.
HardLink(e, i) ==
  /\ MayCreateAt(e)
  /\ i \in DOMAIN inodes
  /\ inodes[i].kind \in {"file", "symlink"}
  /\ entries' = Put(entries, e, i)
  /\ UNCHANGED <<alloc, inodes>>

(***************************************************************************)
(* Removal.                                                                *)
(***************************************************************************)
\* Free the blocks of the inodes in S and forget the inodes.
Retire(S) == /\ alloc' = alloc \ BlocksIn(inodes, S)
             /\ inodes' = Drop(inodes, S)

\* Mutant: the inode goes, its blocks stay allocated.
FinalUnlinkLeaky(e) ==
  /\ Links(e) = 1
  /\ inodes' = Drop(inodes, {entries[e]})
  /\ entries' = Drop(entries, {e})
  /\ UNCHANGED alloc

\* Mutant: other names of the inode are not counted.
FinalUnlinkUncounted(e) ==
  /\ Retire({entries[e]})
  /\ entries' = Drop(entries, {e})

\* unlink_file_journaled, unlink_symlink_journaled: the last name, the inode
\* and its blocks go together (validate_unlink_transition).
FinalUnlink(e) ==
  /\ Links(e) = 1
  /\ Retire({entries[e]})
  /\ entries' = Drop(entries, {e})

\* unlink_nonfinal_link_journaled: one of several names goes.
NonfinalUnlink(e) ==
  /\ Links(e) >= 2
  /\ entries' = Drop(entries, {e})
  /\ UNCHANGED <<alloc, inodes>>

\* unlink_at_path_journaled: the kind and the number of names choose.
Unlink(e) ==
  /\ IsEntry(e)
  /\ KindOf(e) \in {"file", "symlink"}
  /\ FinalUnlink(e) \/ NonfinalUnlink(e)

\* remove_directory_journaled.
RemoveDirectory(e) ==
  /\ IsEntry(e)
  /\ entries[e] # Root
  /\ KindOf(e) = "dir"
  /\ Children(entries, entries[e]) = {}
  /\ FinalUnlink(e)

\* collect_subtree_directories.
SubtreeDirs(d) == Below(entries, DOMAIN inodes, d) \cap Dirs(inodes)

\* collect_removed_inodes: the subtree's directories, and the targets of
\* removed entries that keep no name.
Retired(dirs, gone) ==
  dirs \cup {i \in {entries[x] : x \in gone} : Refs(entries, i) \subseteq gone}

\* remove_directory_tree_journaled.  The strict audit it ends with comes after
\* the commit and guards nothing: Ownership and Sound say that it passes.
RemoveTree(e) ==
  /\ IsEntry(e)
  /\ entries[e] # Root
  /\ KindOf(e) = "dir"
  /\ FsckAccepts(alloc, inodes, entries)
  /\ \E dirs \in {SubtreeDirs(entries[e])} :
     \E gone \in {{x \in DOMAIN entries : x = e \/ x[1] \in dirs}} :
        /\ \A x \in DOMAIN entries \ gone : entries[x] \notin dirs
        /\ entries' = Drop(entries, gone)
        /\ Retire(Retired(dirs, gone))
  /\ NamespaceSound(inodes', entries')

(***************************************************************************)
(* Renames.                                                                *)
(***************************************************************************)
\* The entries once e has become f, replacing what f named.
Moved(e, f) == Put(Drop(entries, {e}), f, entries[e])

\* Mutant: only the directory itself is refused as the new parent.
WouldCycleShallow(e, parent) == parent = entries[e]

\* would_create_directory_cycle: the new parent lies below the moved entry.
WouldCycle(e, parent) ==
  parent \in Below(Drop(entries, {e}), DOMAIN inodes, entries[e])

\* rename_entry_journaled.
Rename(e, f) ==
  /\ IsEntry(e)
  /\ entries[e] # Root
  /\ MayCreateAt(f)
  /\ KindOf(e) = "dir" => ~WouldCycle(e, f[1])
  /\ entries' = Moved(e, f)
  /\ UNCHANGED <<alloc, inodes>>

\* Two existing entries of different inodes.
Distinct(e, f) == IsEntry(e) /\ IsEntry(f) /\ entries[e] # entries[f]

\* The replaced inode is retired with its last name.
ReplaceFinal(e, f) ==
  /\ Links(f) = 1
  /\ Retire({entries[f]})
  /\ entries' = Moved(e, f)

ReplaceLinked(e, f) ==
  /\ Links(f) >= 2
  /\ entries' = Moved(e, f)
  /\ UNCHANGED <<alloc, inodes>>

\* rename_overwrite_impl with its four policies: files over files, symbolic
\* links over symbolic links, final or linked.
RenameOverwriteSameKind(e, f) ==
  /\ Distinct(e, f)
  /\ KindOf(e) = KindOf(f)
  /\ KindOf(e) \in {"file", "symlink"}
  /\ FsckAccepts(alloc, inodes, entries)
  /\ ReplaceFinal(e, f) \/ ReplaceLinked(e, f)

\* rename_overwrite_nondirectory_journaled: files and symbolic links mix.
RenameOverwriteNondirectory(e, f) ==
  /\ Distinct(e, f)
  /\ KindOf(e) # "dir" /\ KindOf(f) # "dir"
  /\ FsckAccepts(alloc, inodes, entries)
  /\ ReplaceFinal(e, f) \/ ReplaceLinked(e, f)

\* validate_acyclic, validate_directory_acyclic: one parent per directory is
\* followed upwards, the one that is listed last (here: an arbitrary one).
ParentOf(ents, d) == (CHOOSE e \in Refs(ents, d) : TRUE)[1]

ParentsAcyclic(ents) ==
  ~ \E S \in (SUBSET {d \in Dirs(inodes) : Refs(ents, d) # {}}) \ {{}} :
       \A d \in S : ParentOf(ents, d) \in S

\* rename_overwrite_directory_journaled: over an empty directory only.
RenameOverwriteDirectory(e, f) ==
  /\ Distinct(e, f)
  /\ KindOf(e) = "dir" /\ KindOf(f) = "dir"
  /\ entries[e] # Root /\ entries[f] # Root
  /\ Children(entries, entries[f]) = {}
  /\ FsckAccepts(alloc, inodes, entries)
  /\ ParentsAcyclic(Moved(e, f))
  /\ ReplaceFinal(e, f)

\* rename_overwrite_at_path_journaled dispatches on the common kind.
RenameOverwrite(e, f) ==
  \/ RenameOverwriteSameKind(e, f)
  \/ RenameOverwriteDirectory(e, f)

\* Mutant: the dispatcher still asks for one common kind.
RenamePosixSameKind(e, f) ==
  \/ Rename(e, f)
  \/ RenameOverwriteSameKind(e, f)
  \/ RenameOverwriteDirectory(e, f)

\* rename_posix_at_path_journaled.  Names of one inode are left alone.
RenamePosix(e, f) ==
  \/ Rename(e, f)
  \/ RenameOverwriteNondirectory(e, f)
  \/ RenameOverwriteDirectory(e, f)

Swapped(e, f) == [entries EXCEPT ![e] = entries[f], ![f] = entries[e]]

\* rename_exchange_by_kind_journaled: two names of the same kind swap their
\* targets.
RenameExchange(e, f) ==
  /\ Distinct(e, f)
  /\ KindOf(e) = KindOf(f)
  /\ FsckAccepts(alloc, inodes, entries)
  /\ KindOf(e) = "dir" => ParentsAcyclic(Swapped(e, f))
  /\ entries' = Swapped(e, f)
  /\ UNCHANGED <<alloc, inodes>>

(***************************************************************************)
(* The specification.                                                      *)
(***************************************************************************)
\* A formatted volume whose root directory has been stored.
Init == /\ alloc = {}
        /\ inodes = [i \in {Root} |-> [kind |-> "dir", blocks |-> <<>>]]
        /\ entries = [e \in {} |-> Root]

Next ==
  \/ \E e \in Key, i \in Id, kind \in {"file", "dir"} : CreateBlockless(e, i, kind)
  \/ \E e \in Key, i \in Id, n \in 0 .. MaxBlocks : \E s \in Runs(n) : CreateFile(e, i, s)
  \/ \E e \in Key, i \in Id, n \in 0 .. MaxBlocks : \E s \in Runs(n) : CreateSymlink(e, i, s)
  \/ \E e \in Key, i \in Id : HardLink(e, i)
  \/ \E e \in Key : Unlink(e)
  \/ \E e \in Key : RemoveDirectory(e)
  \/ \E e \in Key : RemoveTree(e)
  \/ \E e, f \in Key : RenameOverwrite(e, f)
  \/ \E e, f \in Key : RenamePosix(e, f)
  \/ \E e, f \in Key : RenameExchange(e, f)

Spec == Init /\ [][Next]_vars

(***************************************************************************)
(* Properties.                                                             *)
(***************************************************************************)
\* The tables are well typed: directories own no block, symbolic links at
\* least one (validate_symlink_inode).
TypeOK ==
  /\ alloc \subseteq Block
  /\ DOMAIN inodes \subseteq Id
  /\ \A i \in DOMAIN inodes :
        /\ inodes[i] \in Inode
        /\ inodes[i].kind = "dir" => inodes[i].blocks = <<>>
        /\ inodes[i].kind = "symlink" => inodes[i].blocks # <<>>
  /\ DOMAIN entries \subseteq Key
  /\ \A e \in DOMAIN entries : entries[e] \in Id

\* After any sequence of operations the allocator and the inode table agree:
\* a block is allocated exactly when one inode references it, once.
Ownership == /\ BlocksOwnedOnce(alloc, inodes)
             /\ OrphanedAllocations(alloc, inodes) = {}

\* After any sequence of operations strict fsck accepts the tables: every inode is
\* well formed (TypeOK), no entry dangles, no directories form a cycle, and no
\* inode is out of the root's reach.
Sound == TypeOK /\ NamespaceSound(inodes, entries)

\* A directory other than the root has exactly one name, and the root none.
\* fsck does not ask for it, but the cycle checks of directory exchange and
\* directory replacement follow one parent only and rely on it.
OneParent == \A d \in Dirs(inodes) :
                Cardinality(Refs(entries, d)) = IF d = Root THEN 0 ELSE 1

\* An operation never touches a file through the back door: a name it leaves
\* alone still names the same inode, of the same kind, with the same blocks.
NamesKeepFiles ==
  [][\A e \in DOMAIN entries \cap DOMAIN entries' :
        entries'[e] = entries[e] =>
           /\ entries[e] \in DOMAIN inodes'
           /\ inodes'[entries[e]] = inodes[entries[e]]]_vars

\* Nothing becomes impossible to remove: the unlink dispatcher finds a
\* lifecycle for every name of a file or symbolic link, and recursive removal
\* is never refused for a directory.
AlwaysRemovable ==
  \A e \in DOMAIN entries : IF KindOf(e) = "dir" THEN ENABLED RemoveTree(e)
                                                 ELSE ENABLED Unlink(e)

\* rename_posix_at_path_journaled replaces any file or symbolic link by any
\* other, and any empty directory by any directory that does not contain it.
AlwaysReplaceable ==
  \A e, f \in DOMAIN entries :
     /\ entries[e] # entries[f]
     /\ \/ KindOf(e) # "dir" /\ KindOf(f) # "dir"
        \/ /\ KindOf(e) = "dir" /\ KindOf(f) = "dir"
           /\ Children(entries, entries[f]) = {}
           /\ entries[f] \notin Below(entries, DOMAIN inodes, entries[e])
     => ENABLED RenamePosix(e, f)

\* No history of the volume leaves something that can be neither removed nor
\* replaced through the dispatchers.
NothingStuck == AlwaysRemovable /\ AlwaysReplaceable
=============================================================================
