--------------------------- MODULE MCCommandRing ----------------------------
(***************************************************************************)
(* Instances of CommandRing, with the threads as model values.             *)
(***************************************************************************)
EXTENDS CommandRing

CONSTANTS t1, t2

Threads == Permutations(Thread)
=============================================================================
