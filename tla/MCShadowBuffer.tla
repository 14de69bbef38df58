--------------------------- MODULE MCShadowBuffer ---------------------------
(***************************************************************************)
(* Instances of ShadowBuffer: one mapping of two adjacent pages, with      *)
(* locations a and b on one page and c on the other.                       *)
(***************************************************************************)
EXTENDS ShadowBuffer, TLC

CONSTANTS m1, a, b, c

OneMapping == [p \in {1, 2} |-> m1]
Locations  == (a :> 1) @@ (b :> 1) @@ (c :> 2)
=============================================================================
