----------------------------- MODULE PathLookup -----------------------------
(***************************************************************************)
(* Pathname resolution (path_lookup.rs: resolve_path), one action per turn *)
(* of its loop.  The resolver keeps one queue of components that symbolic- *)
(* link targets are spliced into, one counter of expansions for the whole  *)
(* lookup, and one flag that asks for a directory at the end.              *)
(***************************************************************************)
EXTENDS PathReference

CONSTANT Volumes  \* the volumes [inodes, entries, targets] paths are looked up in

ASSUME VolumesAssumption ==
  \A v \in Volumes : /\ DOMAIN v.inodes \subseteq Nat \ {0}
                     /\ \A link \in DOMAIN v.targets : v.targets[link] \in Seq(Piece)

VARIABLES
  w,            \* the volume
  path,         \* the path string
  follow,       \* follow_final_symlink
  pending,      \* the components still to be walked
  current,      \* the inode reached so far
  expansions,   \* symlink_expansions
  wantDir,      \* require_directory_at_end
  result        \* the outcome, or Running

lookupVars == <<w, path, follow, pending, current, expansions, wantDir, result>>
input == <<w, path, follow>>

Running == [status |-> "running", inode |-> 0]

\* The lookup is called; a malformed path is refused at once.
LookupInit ==
  /\ w \in Volumes
  /\ path \in PathNames
  /\ follow \in BOOLEAN
  /\ current = Root
  /\ expansions = 0
  /\ wantDir = WantsDirectory(path)
  /\ IF IsAbsolute(path) /\ IsWellFormed(path)
     THEN pending = Components(path) /\ result = Running
     ELSE pending = <<>> /\ result = Failed("InvalidInput")

Stop(outcome) == /\ result' = outcome
                 /\ UNCHANGED <<input, pending, current, expansions, wantDir>>

\* Another component is taken from the queue.
Walking == result = Running /\ pending # <<>>
WalkingIn(d) == Walking /\ current = d /\ IsDirectory(w, d)

NotADirectory ==
  /\ Walking
  /\ ~IsDirectory(w, current)
  /\ Stop(Failed(IF current \in DOMAIN w.inodes THEN "InvalidInput" ELSE "InvalidData"))

MoveTo(i) == /\ current' = i
             /\ pending' = Tail(pending)
             /\ UNCHANGED <<input, expansions, wantDir, result>>

Dot == WalkingIn(current) /\ Head(pending) = "." /\ MoveTo(current)

DotDot ==
  /\ WalkingIn(current)
  /\ Head(pending) = ".."
  /\ IF Parent(w, current).status = "ok" THEN MoveTo(Parent(w, current).inode)
                                         ELSE Stop(Parent(w, current))

\* The inode the next component names; 0 if it names none.
NextKey == <<current, Head(pending)>>
Named == IF NextKey \in DOMAIN w.entries THEN w.entries[NextKey] ELSE 0
AtName == WalkingIn(current) /\ Head(pending) \notin {".", ".."}

Missing ==
  /\ AtName
  /\ Named \notin DOMAIN w.inodes
  /\ Stop(Failed(IF NextKey \in DOMAIN w.entries THEN "InvalidData" ELSE "NotFound"))

\* Mutant: a trailing slash does not matter.
AtFinalLinkAnyway == Len(pending) = 1 /\ ~follow

\* A final symbolic link is the answer itself when it is not to be followed.
AtFinalLink == Len(pending) = 1 /\ ~follow /\ ~wantDir

Descend ==
  /\ AtName
  /\ Named \in DOMAIN w.inodes
  /\ ~IsSymlink(w, Named)
  /\ MoveTo(Named)

FinalLink ==
  /\ AtName
  /\ IsSymlink(w, Named)
  /\ AtFinalLink
  /\ Stop(Found(Named))

\* The expansion limit, an unreadable link and a malformed target end it.
LinkRefused ==
  /\ AtName
  /\ IsSymlink(w, Named)
  /\ ~AtFinalLink
  /\ \/ /\ expansions + 1 > MaxExpansions \/ Named \notin DOMAIN w.targets
        /\ Stop(Failed("InvalidData"))
     \/ /\ expansions + 1 <= MaxExpansions /\ Named \in DOMAIN w.targets
        /\ ~IsWellFormed(w.targets[Named])
        /\ Stop(Failed("InvalidInput"))

\* Mutants: expansions are not counted; every target is taken from the root.
ExpandUncounted(target) ==
  /\ pending' = Components(target) \o Tail(pending)
  /\ wantDir' = (wantDir \/ (WantsDirectory(target) /\ Len(pending) = 1))
  /\ current' = IF IsAbsolute(target) THEN Root ELSE current
  /\ UNCHANGED expansions
ExpandFromRoot(target) ==
  /\ pending' = Components(target) \o Tail(pending)
  /\ wantDir' = (wantDir \/ (WantsDirectory(target) /\ Len(pending) = 1))
  /\ current' = Root
  /\ expansions' = expansions + 1

\* The target is spliced in front of what remains.  A relative one goes on from
\* the directory that holds the link, an absolute one from the root.
Expand(target) ==
  /\ pending' = Components(target) \o Tail(pending)
  /\ wantDir' = (wantDir \/ (WantsDirectory(target) /\ Len(pending) = 1))
  /\ current' = IF IsAbsolute(target) THEN Root ELSE current
  /\ expansions' = expansions + 1

FollowLink ==
  /\ AtName
  /\ IsSymlink(w, Named)
  /\ ~AtFinalLink
  /\ expansions + 1 <= MaxExpansions
  /\ Named \in DOMAIN w.targets
  /\ IsWellFormed(w.targets[Named])
  /\ Expand(w.targets[Named])
  /\ UNCHANGED <<input, result>>

\* The queue is empty.
Finish ==
  /\ result = Running
  /\ pending = <<>>
  /\ Stop(IF current \notin DOMAIN w.inodes THEN Failed("InvalidData")
          ELSE IF wantDir /\ ~IsDirectory(w, current) THEN Failed("InvalidInput")
          ELSE Found(current))

LookupNext == NotADirectory \/ Dot \/ DotDot \/ Missing \/ Descend \/ FinalLink
        \/ LinkRefused \/ FollowLink \/ Finish

LookupSpec == LookupInit /\ [][LookupNext]_lookupVars

\* The loop runs until it returns.
FairLookupSpec == LookupSpec /\ WF_lookupVars(LookupNext)

(***************************************************************************)
(* Properties.                                                             *)
(***************************************************************************)
Done == result # Running

\* The walk of resolve_path queues no empty component, its count of expansions
\* stays within MAX_SYMLINK_EXPANSIONS, and it returns an inode just on success.
WalkTypeOK ==
  /\ current \in Nat
  /\ expansions \in 0 .. MaxExpansions
  /\ wantDir \in BOOLEAN
  /\ "" \notin Range(pending)
  /\ result.status \in {"running", "ok", "NotFound", "InvalidInput", "InvalidData"}
  /\ (result.status = "ok") = (result.inode # 0)

\* The lookup returns what the path names, or the error that comes first:
\* splicing targets into one queue, with one counter and one directory flag for
\* the whole walk, amounts to resolving every link on its own.  On the way the
\* walk is as WalkTypeOK says.
ReturnsWhatIsNamed ==
  /\ WalkTypeOK
  /\ Done => result = Lookup(w, path, follow)

\* "p/" is "p/.": a trailing slash follows a final link, also through links
\* that themselves end in a slash, and fails for anything but a directory.
TrailingSlashIsDot ==
  Done /\ WantsDirectory(path) /\ IsWellFormed(path) =>
    result = Lookup(w, Append(Front(path), "."), follow)

\* Whatever links there are, chains and cycles included, the lookup returns.
LookupReturns == <>Done
=============================================================================
