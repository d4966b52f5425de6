--------------------------- MODULE MCCompaction ---------------------------
(***************************************************************************)
(* An unaligned pool of five aligned units that four tensors of two sizes  *)
(* share in every possible way, with one address of the caller below it    *)
(* and the start of the other pool above it.                               *)
(***************************************************************************)
EXTENDS Compaction

MCTensor == 1 .. 4
MCSize == [t \in MCTensor |-> IF t \in {1, 2} THEN 1 ELSE 3]
MCAddr == 3 .. 16

=============================================================================
