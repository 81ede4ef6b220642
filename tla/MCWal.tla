------------------------------- MODULE MCWal -------------------------------
(***************************************************************************)
(* Small instances of Wal for TLC.                                         *)
(***************************************************************************)
EXTENDS Wal

\* All transactions of one write or of two writes to distinct blocks, in the
\* block order in which the rendered image is compared with home.
MCTx == {<<[block |-> b, val |-> v, commit |-> TRUE]>> : b \in Home, v \in Value}
   \cup {<<[block |-> b, val |-> v, commit |-> FALSE],
           [block |-> c, val |-> w, commit |-> TRUE]>> :
            b \in {1}, c \in Home \ {1}, v \in Value, w \in Value}

\* fsck accepts the images in which all blocks agree.
MCClean == {h \in [Home -> Value] : \A b, c \in Home : h[b] = h[c]}
=============================================================================
