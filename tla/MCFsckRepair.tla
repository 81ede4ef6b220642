---------------------------- MODULE MCFsckRepair ----------------------------
(***************************************************************************)
(* Every volume of four inodes and up to three entries: lost files, lost   *)
(* trees, trees that share inodes with the reachable one or lead back to   *)
(* the root, cycles, dangling entries, and root names a repair would pick. *)
(***************************************************************************)
EXTENDS FsckRepair, FiniteSetsExt, TLC

Ids == 1 .. 4
RootNames == {<<0, 0>>, <<2, 0>>, <<2, 1>>}
Names(d) == IF d = Root THEN RootNames ELSE IF d = 2 THEN {<<0, 0>>, <<0, 1>>} ELSE {<<0, 0>>}

Keys == UNION {{d} \X Names(d) : d \in Ids}

\* At most three entries; one dangles when it names inode 5.
EntryMaps == UNION {[ks -> Ids] : ks \in UNION {kSubset(n, Keys) : n \in 0 .. 3}}
             \cup [{<<Root, <<0, 0>>>>} -> {5}]

\* Inode 4 is a file; so may be inode 3, under fewer entries, or the root.
Kinds(es) == {<<"dir", "dir", "dir", "file">>}
             \cup IF Cardinality(DOMAIN es) > 2 THEN {} ELSE
                  {<<"dir", "dir", "file", "file">>, <<"file", "dir", "dir", "file">>}

MCNamespaceDamage ==
  UNION {{[alloc |-> {}, inodes |-> [i \in Ids |-> [kind |-> ks[i], blocks |-> <<>>]],
           entries |-> es, payloads |-> TRUE] : ks \in Kinds(es)} : es \in EntryMaps}

\* Two inodes that refer to any of three blocks, with any allocation bitmap.
BlockLists == {<<>>, <<1>>, <<2>>, <<1, 2>>, <<1, 1>>}

MCAllocationDamage ==
  {[alloc |-> al, inodes |-> (1 :> [kind |-> "dir", blocks |-> <<>>])
                          @@ (2 :> [kind |-> "file", blocks |-> b2])
                          @@ (3 :> [kind |-> "symlink", blocks |-> b3]),
    entries |-> es, payloads |-> ps] :
      al \in SUBSET (1 .. 3), b2 \in BlockLists, b3 \in BlockLists, ps \in BOOLEAN,
      es \in {(<<1, <<0, 0>>>> :> 2), (<<1, <<0, 0>>>> :> 2) @@ (<<1, <<0, 1>>>> :> 3)}}

MCDamage == MCNamespaceDamage \cup MCAllocationDamage
=============================================================================
