---------------------------- MODULE MCNamespace ----------------------------
(***************************************************************************)
(* Small instances of Namespace for TLC.                                   *)
(***************************************************************************)
EXTENDS Namespace, TLC

\* No operation compares names other than for equality.
NameSymmetry == Permutations(Name)
=============================================================================
