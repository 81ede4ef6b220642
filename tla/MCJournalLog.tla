---------------------------- MODULE MCJournalLog ----------------------------
(***************************************************************************)
(* Small instances of JournalLog for TLC.                                  *)
(***************************************************************************)
EXTENDS JournalLog

\* Block 1 is written and restored, block 2 written; block 0 is the superblock.
MCData == {<<1, 0>>, <<1, 1>>, <<2, 1>>, <<0, 1>>}
=============================================================================
