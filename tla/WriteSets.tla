----------------------------- MODULE WriteSets -----------------------------
(***************************************************************************)
(* Sequences of full-block writes, the currency of the journal.  A write   *)
(* is a record [block, val, commit]; commit marks the last write of a      *)
(* transaction (the Commit record that follows it in the journal), so one  *)
(* sequence can hold several transactions.                                 *)
(***************************************************************************)
EXTENDS Integers, Sequences

\* The home blocks a sequence of writes touches.
BlocksOf(log) == {log[i].block : i \in DOMAIN log}

\* The position of the last write to block b.
LastWrite(log, b) == CHOOSE i \in DOMAIN log :
                        /\ log[i].block = b
                        /\ \A j \in DOMAIN log : log[j].block = b => j <= i

\* The home image after the writes have been applied in log order: a later
\* write to a block replaces an earlier one.
Overlay(home, log) ==
  [b \in DOMAIN home |->
     IF b \in BlocksOf(log) THEN log[LastWrite(log, b)].val ELSE home[b]]

\* One complete transaction: non-empty, with its commit mark on the last write.
IsTransaction(t) == /\ t # <<>>
                    /\ \A i \in DOMAIN t : t[i].commit <=> i = Len(t)
=============================================================================
