------------------------------- MODULE MCMbox -------------------------------
(* Mbox for TLC: a mailbox on which readers block, one on which writers block *)
(* and, for the discrepancy, one mailbox on which both do.                  *)
EXTENDS Mbox, TLC
CONSTANTS rx, tx, h, m, l

MCSize == rx :> 1 @@ tx :> 2
OneBox == tx :> 1
MCPrio == h :> 0 @@ m :> 1 @@ l :> 1
MCSymmetry == Permutations({m, l})
=============================================================================
