--------------------------- MODULE PathReference ---------------------------
(***************************************************************************)
(* What a path names, by structural recursion: a symbolic link names what  *)
(* its target names, looked up on its own and to its end, and the rest of  *)
(* the path continues from there.  This is the definition the resolver's   *)
(* queue, counter and flag (PathLookup) are checked against, and the one   *)
(* the path-level operations (PathOps) use.                                *)
(***************************************************************************)
EXTENDS Paths

CONSTANTS
  PathNames,     \* the path strings that are looked up, or passed to operations
  MaxExpansions  \* MAX_SYMLINK_EXPANSIONS

ASSUME LimitAssumption == MaxExpansions \in Nat
ASSUME PathAssumption == PathNames \subseteq Seq(Piece)
ASSUME PieceAssumption == {"", "."} \subseteq Piece  \* they are strings

\* A walk has come to inode i with n link expansions left, or is lost.
Reached(i, n) == [status |-> "ok", inode |-> i, left |-> n]
Lost(error) == [status |-> error, inode |-> 0, left |-> 0]

\* Why inode i, not being a directory, cannot be used as one.
NoDirectory(w, i) == IF i \in DOMAIN w.inodes THEN "InvalidInput" ELSE "InvalidData"

\* The walk s enters name in the directory it has come to.
Enter(w, s, name) ==
  LET key == <<s.inode, name>>
  IN IF s.status # "ok" THEN s
     ELSE IF ~IsDirectory(w, s.inode) THEN Lost(NoDirectory(w, s.inode))
     ELSE IF name = "." THEN s
     ELSE IF name = ".."
          THEN IF Parent(w, s.inode).status = "ok" THEN Reached(Parent(w, s.inode).inode, s.left)
               ELSE Lost("InvalidData")
     ELSE IF key \notin DOMAIN w.entries THEN Lost("NotFound")
     ELSE IF w.entries[key] \notin DOMAIN w.inodes THEN Lost("InvalidData")
     ELSE Reached(w.entries[key], s.left)

\* The same and, if it has come to a link, on to what the link names; links[n] has
\* that for each directory and link, with n expansions left.
EnterFollowing(w, links, s, name) ==
  LET end == Enter(w, s, name)
  IN IF end.status = "ok" /\ IsSymlink(w, end.inode) THEN links[end.left][s.inode][end.inode]
     ELSE end

Walk(w, links, s, names) ==
  FoldLeft(LAMBDA t, name : EnterFollowing(w, links, t, name), s, names)

\* The walk has come to a directory, if it is to.
AsDirectory(w, wanted, s) ==
  IF s.status = "ok" /\ wanted /\ ~IsDirectory(w, s.inode)
  THEN Lost(NoDirectory(w, s.inode)) ELSE s

\* What the link names, if the directory holds it and n expansions are left.  A
\* relative target is walked from the directory, an absolute one from the root.
LinkEnds(w, links, n) ==
  [dir \in Dirs(w.inodes) |-> [link \in DOMAIN w.inodes |->
     LET target == w.targets[link]
         start == Reached(IF IsAbsolute(target) THEN Root ELSE dir, n - 1)
     IN IF n = 0 \/ link \notin DOMAIN w.targets THEN Lost("InvalidData")
        ELSE IF ~IsWellFormed(target) THEN Lost("InvalidInput")
        ELSE AsDirectory(w, WantsDirectory(target), Walk(w, links, start, Components(target)))]]

LinkTable(w) == LET links[n \in Nat] == LinkEnds(w, links, n) IN links

\* The walk s goes on along names to the end; a final link is followed or not.
WalkToEnd(w, s, names, follow) ==
  LET parent == Walk(w, LinkTable(w), s, Front(names))
  IN IF names = <<>> THEN s
     ELSE IF follow THEN EnterFollowing(w, LinkTable(w), parent, Last(names))
     ELSE Enter(w, parent, Last(names))

\* What the caller gets of the walk s.
Outcome(w, s) == IF s.status # "ok" THEN Failed(s.status)
                 ELSE IF s.inode \notin DOMAIN w.inodes THEN Failed("InvalidData")
                 ELSE Found(s.inode)

\* What path names in w; a trailing slash makes the last component follow links
\* and asks for a directory.
Lookup(w, path, follow) ==
  LET wanted == WantsDirectory(path)
      end == WalkToEnd(w, Reached(Root, MaxExpansions), Components(path), follow \/ wanted)
  IN IF IsAbsolute(path) /\ IsWellFormed(path) THEN Outcome(w, AsDirectory(w, wanted, end))
     ELSE Failed("InvalidInput")
=============================================================================
