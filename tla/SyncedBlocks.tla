---------------------------- MODULE SyncedBlocks ----------------------------
(***************************************************************************)
(* What the write-back buffer cache (cache.rs) promises: an array of       *)
(* blocks in which reads see the last write, and in which a flush that     *)
(* returned Ok bounds what a crash can undo.                               *)
(***************************************************************************)
CONSTANTS Block, Value

VARIABLES mem,      \* what a read of each block returns
          maybe,    \* the contents a crash may leave each block with
          written   \* the blocks written since the cache was set up

Init == /\ mem \in [Block -> Value]
        /\ maybe \in [Block -> SUBSET Value]
        /\ \A b \in Block : mem[b] \in maybe[b]
        /\ written = {}

Write(b, v) == /\ mem' = [mem EXCEPT ![b] = v]
               /\ maybe' = [maybe EXCEPT ![b] = @ \cup {v}]
               /\ written' = written \cup {b}

\* A flush returns Ok: no written block can be undone any more.
Synced == /\ maybe' = [b \in Block |-> IF b \in written THEN {mem[b]} ELSE maybe[b]]
          /\ UNCHANGED <<mem, written>>

\* The cache is torn down, by its owner or by a crash.  Every block keeps one
\* of the contents that were possible; after a crash that one is final.
Lost(crash) == /\ mem' \in [Block -> Value]
               /\ \A b \in Block : mem'[b] \in maybe[b]
               /\ maybe' = IF crash THEN [b \in Block |-> {mem'[b]}] ELSE maybe
               /\ written' = {}

Next == \/ \E b \in Block, v \in Value : Write(b, v)
        \/ Synced
        \/ \E crash \in BOOLEAN : Lost(crash)

Spec == Init /\ [][Next]_<<mem, maybe, written>>
=============================================================================
