----------------------------- MODULE MCSwapchain -----------------------------
(* Instances of Swapchain for TLC. *)
EXTENDS Swapchain, TLC

\* The driver's handles are interchangeable.
HandleSymmetry == Permutations(Handles)

=============================================================================
