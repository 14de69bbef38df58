-------------------------- MODULE MCResourceBinding --------------------------
(***************************************************************************)
(* Instances of ResourceBinding: two buffers of one unit and an image of   *)
(* two.  One unit is the driver's alignment.  The table of formats has     *)
(* half the bytes of the image's texels, and a guess in units (Fine) is    *)
(* right for buffers and too small for the image; one in pairs of units    *)
(* (Coarse) is more than a buffer needs.                                   *)
(***************************************************************************)
EXTENDS ResourceBinding

CONSTANTS t1, t2, b1, b2, i1, m1, m2

Sizes   == [r \in Buffer \cup Image |-> IF r \in Buffer THEN 1 ELSE 2]
Bytes   == [r \in Buffer \cup Image |-> 1]
Aligned == [r \in Buffer \cup Image |-> 1]
Fine    == [r \in Buffer \cup Image |-> 1]
Coarse  == [r \in Buffer \cup Image |-> 2]

Interchangeable ==
    Permutations({t1, t2}) \cup Permutations({b1, b2})
        \cup Permutations({m1, m2})
=============================================================================
