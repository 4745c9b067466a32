--------------------------- MODULE MCBufferCache ---------------------------
(***************************************************************************)
(* An instance of BufferCache for TLC: two sectors of the FAT of a hard    *)
(* disk, a sector of a diskette, and one buffer less than blocks once the  *)
(* additional buffer is gone.                                              *)
(***************************************************************************)
EXTENDS BufferCache, TLC

CONSTANTS hard, diskette

MCDiskOf == [b \in Blocks |-> IF b \in Fat THEN hard ELSE diskette]

\* Bound: the additional buffer is given up while at most two have been used and
\* at most one is valid.
EarlyRequest ==
  Len(ring) > MinBuffers =>
    /\ Cardinality({i \in Positions : ring[i].valid}) <= 1
    /\ Cardinality({i \in Positions : ring[i] # Empty(ring[i].extra)}) <= 2

Symmetry == Permutations(Values)
=============================================================================
