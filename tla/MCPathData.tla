----------------------------- MODULE MCPathData -----------------------------
(***************************************************************************)
(* Small instances of PathData for TLC.                                    *)
(***************************************************************************)
EXTENDS PathData, TLC

\* Byte writes make the other images.
MCOnes == {<<1, 1>>}
MCSymlink == "l" :> "a"
MCFiles == Permutations(File)

\* The last call is no part of the state that later calls depend on.
WithoutCall == <<vars, names>>
=============================================================================
