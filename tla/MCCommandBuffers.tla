--------------------------- MODULE MCCommandBuffers ---------------------------
(***************************************************************************)
(* Instances of CommandBuffers: one pool whose buffers can be reset one by *)
(* one and one whose buffers cannot.                                       *)
(***************************************************************************)
EXTENDS CommandBuffers, TLC

CONSTANTS p1, p2, c1, c2

Interchangeable == Permutations({c1, c2})
=============================================================================
