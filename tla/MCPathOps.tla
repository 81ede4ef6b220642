----------------------------- MODULE MCPathOps -----------------------------
(***************************************************************************)
(* Small instances of PathOps for TLC.                                     *)
(***************************************************************************)
EXTENDS PathOps

\* Plain paths of depth one and two, with ".." and trailing slashes.
MCPathNames ==
  {<<"", "a">>, <<"", "b">>, <<"", "a", "a">>, <<"", "a", "b">>, <<"", "b", "a">>,
   <<"", "a", "">>, <<"", "b", "">>, <<"", "a", "b", "">>, <<"", "a", "..">>,
   <<"", "b", "..", "a">>, <<"", "">>}

\* Relative and absolute targets, one of them above the link's directory, one
\* with a trailing slash.
MCTargets == {<<"a">>, <<"", "b", "">>, <<".">>}

\* The last call matters to no later step.
WithoutCall == tables
=============================================================================
