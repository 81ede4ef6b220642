------------------------------ MODULE PathOps ------------------------------
(***************************************************************************)
(* The namespace operations as callers see them, on path strings: recover  *)
(* and checkpoint the journal, resolve the parent through symbolic links,  *)
(* leave the last component unresolved, and hand the entry it selects to   *)
(* the operation (module Namespace).                                       *)
(*                                                                         *)
(* A crash after the commit of an operation leaves home tables that are    *)
(* each old or new (home); until the next recovery the committed tables    *)
(* exist only as home plus journal.                                        *)
(***************************************************************************)
EXTENDS Namespace, PathReference

CONSTANTS
  Targets,   \* the targets symbolic links are created with
  CutShort   \* bound: the kinds of calls whose home writes a crash may cut short

ASSUME TargetAssumption == Targets \subseteq Seq(Piece)
ASSUME NameAssumption == Name \cap {".", ".."} = {}  \* validate_name

VARIABLES
  targets,   \* symbolic link -> its target path
  home,      \* the tables at their home locations
  call       \* the last call that changed the volume: its kind and its paths

tables == <<alloc, inodes, entries, targets, home>>
pathVars == <<tables, call>>

Called(kind, p, q) == [kind |-> kind, path |-> p, source |-> q]

\* The committed tables, as recovery makes them.
Committed == [inodes |-> inodes, entries |-> entries, targets |-> targets]

\* Mutant: the operation reads the home tables without recovering first.
ViewUnrecovered == home

\* The tables an operation reads: it has recovered and checkpointed the journal.
View == Committed

\* The operation has committed.  Its home writes are complete, or a crash has
\* cut them short.
Publish ==
  \/ home' = Committed'
  \/ /\ call'.kind \in CutShort
     /\ home' \in [inodes : {inodes, inodes'}, entries : {entries, entries'},
                   targets : {targets, targets'}]

\* recover_journal_and_checkpoint_checked, as every reader calls it first.
Recover == /\ home # Committed
           /\ home' = Committed
           /\ call' = Called("none", RootPath, RootPath)
           /\ UNCHANGED <<alloc, inodes, entries, targets>>

Resolve(path, follow) == Lookup(View, path, follow)

(***************************************************************************)
(* From a path to the entry it selects.                                    *)
(***************************************************************************)
\* normalize_directory_intent, strip_single_directory_trailing_slash.
Strip(path) == IF WantsDirectory(path) THEN Front(path) ELSE path

\* split_path, split_destination.
CanSplit(path) == IsAbsolute(path) /\ path # RootPath /\ Last(path) # ""
ParentPath(path) == IF Len(path) = 2 THEN RootPath ELSE Front(path)

\* The entry of the resolved parent, if the path has the right form and the
\* parent resolves.  The last component is a name and is not resolved.
Selected(path) ==
  LET parent == Resolve(ParentPath(path), TRUE)
  IN IF CanSplit(path) /\ parent.status = "ok" THEN {<<parent.inode, Last(path)>>} ELSE {}

\* validate_name, for the name of a new entry.
IsNewName(e) == e[2] \in Name

KeepTargets == UNCHANGED targets
ForgetTargets == targets' = Restrict(targets, DOMAIN targets \cap DOMAIN inodes')

(***************************************************************************)
(* Creation.                                                               *)
(***************************************************************************)
CreateEmptyFileAt(p) ==
  \E e \in Selected(p), i \in Id : IsNewName(e) /\ CreateBlockless(e, i, "file") /\ KeepTargets

CreateFileWithBlocksAt(p) ==
  \E e \in Selected(p), i \in Id, n \in 1 .. MaxBlocks : \E s \in Runs(n) :
     IsNewName(e) /\ CreateFile(e, i, s) /\ KeepTargets

CreateDirectoryAt(p) ==
  \E e \in Selected(Strip(p)), i \in Id :
     IsNewName(e) /\ CreateBlockless(e, i, "dir") /\ KeepTargets

\* These three name the new entry e that their path selects.
CreateSymlinkAt(e, t) ==
  \E i \in Id, n \in 1 .. MaxBlocks : \E s \in Runs(n) :
     /\ CreateSymlink(e, i, s)
     /\ targets' = Put(targets, i, t)

\* clone_symlink_at_path_journaled: readlink, then create.
CloneSymlinkAt(p, e) ==
  LET source == Resolve(p, FALSE).inode
  IN source \in DOMAIN targets /\ CreateSymlinkAt(e, targets[source])

\* Mutant: the source is always followed.
HardLinkFollowedAt(p, e, follow) ==
  /\ Resolve(p, TRUE).status = "ok"
  /\ HardLink(e, Resolve(p, TRUE).inode)
  /\ KeepTargets

\* hard_link_at_path_with_source_follow_journaled.
HardLinkAt(p, e, follow) ==
  /\ Resolve(p, follow).status = "ok"
  /\ HardLink(e, Resolve(p, follow).inode)
  /\ KeepTargets

(***************************************************************************)
(* Removal.                                                                *)
(***************************************************************************)
UnlinkAt(p) == \E e \in Selected(p) : Unlink(e) /\ ForgetTargets
RemoveDirectoryAt(p) == \E e \in Selected(Strip(p)) : RemoveDirectory(e) /\ KeepTargets
RemoveTreeAt(p) == \E e \in Selected(Strip(p)) : RemoveTree(e) /\ ForgetTargets

(***************************************************************************)
(* Renames.                                                                *)
(***************************************************************************)
\* Mutant: only a slash after the source asks for a directory.
IntentOfSource(p, q) == WantsDirectory(p)

\* source_directory_intent || destination_directory_intent.
Intent(p, q) == WantsDirectory(p) \/ WantsDirectory(q)

\* The paths p and q select the entries e and f.
RenameAt(p, q, e, f) ==
  /\ Intent(p, q) => IsEntry(e) /\ KindOf(e) = "dir"
  /\ IsNewName(f)
  /\ Rename(e, f)
  /\ KeepTargets

RenameOverwriteAt(p, q, e, f) ==
  /\ Distinct(e, f)
  /\ Intent(p, q) => KindOf(e) = "dir"
  /\ RenameOverwrite(e, f)
  /\ ForgetTargets

\* Files and symbolic links replace each other; the other cases are those of
\* rename and rename-overwrite.  Two names of one inode are left alone.
RenamePosixAt(p, q, e, f) ==
  \/ RenameAt(p, q, e, f)
  \/ /\ Distinct(e, f)
     /\ Intent(p, q) => KindOf(e) = "dir" /\ KindOf(f) = "dir"
     /\ RenameOverwriteDirectory(e, f) \/ RenameOverwriteNondirectory(e, f)
     /\ ForgetTargets

RenameExchangeAt(p, q, e, f) ==
  /\ Distinct(e, f)
  /\ Intent(p, q) => KindOf(e) = "dir"
  /\ RenameExchange(e, f)
  /\ KeepTargets

(***************************************************************************)
(* The specification.                                                      *)
(***************************************************************************)
PathInit == /\ Init
            /\ targets = [i \in {} |-> RootPath]
            /\ home = Committed
            /\ call = Called("none", RootPath, RootPath)

CreateAt(p) ==
  /\ \/ CreateEmptyFileAt(p)
     \/ CreateFileWithBlocksAt(p)
     \/ CreateDirectoryAt(p)
     \/ \E e \in Selected(p), t \in Targets : IsNewName(e) /\ CreateSymlinkAt(e, t)
  /\ call' = Called("create", p, p)

CopyAt(p, q) ==
  \E e \in Selected(p) :
     /\ IsNewName(e)
     /\ MayCreateAt(e)
     /\ \/ CloneSymlinkAt(q, e) /\ call' = Called("clone", p, q)
        \/ HardLinkAt(q, e, FALSE) /\ call' = Called("link", p, q)
        \/ HardLinkAt(q, e, TRUE) /\ call' = Called("link-followed", p, q)

DeleteAt(p) == /\ UnlinkAt(p) \/ RemoveDirectoryAt(p) \/ RemoveTreeAt(p)
               /\ call' = Called("remove", p, p)

MoveAt(p, q) ==
  /\ \E e \in Selected(Strip(q)), f \in Selected(Strip(p)) :
        RenamePosixAt(q, p, e, f) \/ RenameOverwriteAt(q, p, e, f) \/ RenameExchangeAt(q, p, e, f)
  /\ call' = Called("rename", p, q)

PathNext ==
  \/ Recover
  \/ \E p \in PathNames : (CreateAt(p) \/ DeleteAt(p)) /\ Publish
  \/ \E p, q \in PathNames : (CopyAt(p, q) \/ MoveAt(p, q)) /\ Publish

PathSpec == PathInit /\ [][PathNext]_pathVars

(***************************************************************************)
(* Properties.  Each is about one call: the committed tables before it and *)
(* after it.  Paths that a lookup refuses as malformed name nothing.       *)
(***************************************************************************)
Adds == {"create", "clone", "link", "link-followed"}
Succeeds(kinds) == call'.kind \in kinds /\ IsWellFormed(call'.path)

\* A successful create, link or clone makes the path name, without following a
\* final link, an inode where it named nothing before; a removed path is gone, also
\* when the way to it went through what was removed, and nothing else takes its
\* place.  This holds through links, after crashes and with a trailing slash alike.
TakesEffect ==
  LET before == Lookup(Committed, Strip(call'.path), FALSE)
      after == Lookup(Committed', Strip(call'.path), FALSE)
  IN /\ Succeeds(Adds) => before = Failed("NotFound") /\ after.status = "ok"
     /\ Succeeds({"remove"}) => after = Failed("NotFound")

\* Every call of a create, link, clone or remove wrapper that returns Ok takes effect:
\* what its path named before, and names afterwards, is as TakesEffect says.
CallsTakeEffect == [][TakesEffect]_pathVars

\* A hard link names the inode its source names, followed or not as asked, and
\* a clone of a symbolic link reads as its source reads.
NamesTheSource ==
  /\ Succeeds({"link", "link-followed"}) =>
       Lookup(Committed', call'.path, FALSE)
         = Lookup(Committed, call'.source, call'.kind = "link-followed")
  /\ Succeeds({"clone"}) =>
       targets'[Lookup(Committed', call'.path, FALSE).inode]
         = targets[Lookup(Committed, call'.source, FALSE).inode]

\* Every call of a hard link or clone wrapper that returns Ok leaves two paths that
\* name the same inode, or links that read the same, as NamesTheSource says.
CopiesNameTheSource == [][NamesTheSource]_pathVars

\* Creating never changes what a path names, and removing never makes a path
\* name anything new, whatever symbolic links and ".." it goes through.
KeepsNames ==
  LET kept(v, w) == \A x \in PathNames, follow \in BOOLEAN :
                       Lookup(v, x, follow).status = "ok" =>
                         Lookup(w, x, follow) = Lookup(v, x, follow)
  IN /\ Succeeds(Adds) => kept(Committed, Committed')
     /\ Succeeds({"remove"}) => kept(Committed', Committed)

\* Every call of a create, link, clone or remove wrapper that returns Ok keeps what all
\* other paths name, as KeepsNames says.
LookupsAreMonotone == [][KeepsNames]_pathVars

\* A path with a trailing slash never acts on anything but a directory: not on
\* a file, and not through a final symbolic link to a directory.
ActsOnDirectory ==
  LET isDir(w, path) == IsDirectory(w, Lookup(w, Strip(path), FALSE).inode)
      slash == WantsDirectory(call'.path) \/ WantsDirectory(call'.source)
  IN /\ slash /\ Succeeds({"create"}) => isDir(Committed', call'.path)
     /\ slash /\ Succeeds({"remove"}) => isDir(Committed, call'.path)
     /\ slash /\ Succeeds({"rename"}) /\ IsWellFormed(call'.source) =>
          isDir(Committed, call'.source)

\* Every create, remove or rename wrapper given a trailing slash acts on a directory
\* or returns an error, as ActsOnDirectory says.
SlashMeansDirectory == [][ActsOnDirectory]_pathVars
=============================================================================
