---------------------------- MODULE MCPathLookup ----------------------------
(***************************************************************************)
(* A small tree with two symbolic links whose targets vary:                *)
(*                                                                         *)
(*   /d  /d/d  directories; /k a second name of /d/d                       *)
(*   /f  a file                     /g  an entry without an inode          *)
(*   /l  /d/m  symbolic links       /u  a symbolic link without payload    *)
(*                                                                         *)
(* and a volume whose root inode is gone.                                  *)
(***************************************************************************)
EXTENDS PathLookup

Tree == (<<1, "d">> :> 2) @@ (<<2, "d">> :> 4) @@ (<<1, "f">> :> 3)
        @@ (<<1, "l">> :> 5) @@ (<<2, "m">> :> 6)
Damage == (<<1, "k">> :> 4) @@ (<<1, "g">> :> 9) @@ (<<1, "u">> :> 7)

Nodes == [i \in 1 .. 7 |-> [kind |-> IF i \in {1, 2, 4} THEN "dir"
                                    ELSE IF i = 3 THEN "file" ELSE "symlink",
                           blocks |-> <<>>]]

\* Targets of /l and of /d/m: files, directories, links, loops, "..", trailing
\* slashes, missing and malformed ones.
LTargets == {<<"d">>, <<"", "d">>, <<"d", "m">>, <<"", "d", "m", "">>, <<"f">>, <<"f", "">>,
             <<"d", "..", "d", "">>, <<"l">>, <<"", "">>, <<"x">>, <<"d", "", "m">>}
MTargets == {<<"d">>, <<"..">>, <<"..", "l">>, <<"", "l", "">>, <<"", "f">>, <<"..", "f", "">>,
             <<"m">>, <<"d", "..", "m">>, <<"..", "k">>, <<"", "u">>, <<".">>}

MCVolumes ==
  {[inodes |-> Nodes, entries |-> Tree @@ damage, targets |-> (5 :> tl) @@ (6 :> tm)] :
     damage \in {<<>>, Damage}, tl \in LTargets, tm \in MTargets}
  \cup {[inodes |-> Restrict(Nodes, 2 .. 7), entries |-> Tree, targets |-> (5 :> <<"d">>)]}

Letters == {"d", "l", "m", "f", "k", "..", "."}
Bodies == {<<a>> : a \in Letters \cup {"g", "u", "x"}}
          \cup {<<a, b>> : a \in Letters, b \in Letters}
          \cup {<<a, b, c>> : a \in {"d", "l"}, b \in {"d", "m", "..", "l"}, c \in {"m", "l", "..", "d"}}

\* The bodies with and without a trailing slash, and malformed paths.
MCPathNames ==
  {<<"">> \o b : b \in Bodies} \cup {<<"">> \o b \o <<"">> : b \in Bodies}
  \cup {<<"", "">>, <<"">>, <<"d">>, <<"", "", "">>, <<"", "", "d">>, <<"", "d", "", "">>}
=============================================================================
