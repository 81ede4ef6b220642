------------------------------- MODULE Paths -------------------------------
(***************************************************************************)
(* Pathnames as values.  A path string is the sequence of pieces between   *)
(* its slashes: "/a/b/" is <<"", "a", "b", "">>, "/" is <<"", "">>, "a" is *)
(* <<"a">>.  Every string without NUL has exactly one such form.           *)
(***************************************************************************)
EXTENDS Volume, SequencesExt

\* What stands between two slashes.
Piece == STRING

RootPath == <<"", "">>

\* starts_with('/') and ends_with('/').
IsAbsolute(path) == Len(path) > 1 /\ path[1] = ""
EndsInSlash(path) == Len(path) > 1 /\ path[Len(path)] = ""

\* parse_components and parse_target_components: one slash is taken off either
\* end; what is left must have no empty component.
Components(path) ==
  LET body == IF IsAbsolute(path) THEN Tail(path) ELSE path
  IN IF path = RootPath THEN <<>> ELSE IF EndsInSlash(body) THEN Front(body) ELSE body

IsWellFormed(path) == "" \notin Range(Components(path))

\* A trailing slash asks for a directory.
WantsDirectory(path) == path # RootPath /\ EndsInSlash(path)

\* The outcome of a lookup.
Found(i) == [status |-> "ok", inode |-> i]
Failed(error) == [status |-> error, inode |-> 0]

(***************************************************************************)
(* A volume as lookups see it is a record                                  *)
(* [inodes, entries, targets]; targets gives the readable symbolic links   *)
(* their target paths.                                                     *)
(***************************************************************************)
IsDirectory(w, i) == i \in Dirs(w.inodes)
IsSymlink(w, i) == i \in DOMAIN w.inodes /\ w.inodes[i].kind = "symlink"

\* parent_directory: the directory's only parent, if it has exactly one name.
Parent(w, d) ==
  IF d = Root THEN Found(Root)
  ELSE IF /\ Cardinality(Refs(w.entries, d)) = 1
          /\ \A e \in Refs(w.entries, d) : IsDirectory(w, e[1])
       THEN Found((CHOOSE e \in Refs(w.entries, d) : TRUE)[1])
       ELSE Failed("InvalidData")
=============================================================================
