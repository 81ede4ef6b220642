---------------------------- MODULE AtomicStore ----------------------------
(***************************************************************************)
(* What the write-ahead log promises its callers: a store of home blocks   *)
(* that changes only by whole transactions.  A caller submits at most one  *)
(* transaction at a time; it is then either applied completely, in one     *)
(* step, or dropped without a trace.  Crashes, replays and checkpoints are *)
(* invisible at this level.                                                *)
(***************************************************************************)
EXTENDS WriteSets

CONSTANTS Home,   \* the home blocks
          Value,  \* the contents a block can hold
          Tx      \* the transactions callers submit: sequences of writes

VARIABLES store,  \* the durable contents of every home block
          target  \* the store once the outstanding transaction is applied;
                  \* equal to store when none is outstanding

Init == /\ store \in [Home -> Value]
        /\ target = store

\* A caller hands over a transaction.
Submit(t) == /\ target = store
             /\ target' = Overlay(store, t)
             /\ UNCHANGED store

\* The outstanding transaction takes effect, all of it at once.
Commit == /\ store' = target
          /\ UNCHANGED target

\* The outstanding transaction is lost (crash or failed call).
Drop == /\ target' = store
        /\ UNCHANGED store

Next == (\E t \in Tx : Submit(t)) \/ Commit \/ Drop

Spec == Init /\ [][Next]_<<store, target>>
=============================================================================
