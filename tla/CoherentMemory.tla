--------------------------- MODULE CoherentMemory ---------------------------
(***************************************************************************)
(* What VK_MEMORY_PROPERTY_HOST_COHERENT promises the application: host    *)
(* and device share one memory.  A location holds the stamp of its latest  *)
(* write, whoever wrote it, and a host read returns that stamp.            *)
(*                                                                         *)
(* The client ICD has no such memory.  It emulates it with a shadow copy   *)
(* on the client and transfers to the server (module ShadowBuffer), and    *)
(* ShadowBuffer is checked to implement this specification.                *)
(***************************************************************************)
EXTENDS Naturals

CONSTANT Loc            \* the locations of host-coherent memory

VARIABLES mem,          \* mem[l]: stamp of the latest write to l
          seen          \* the latest host read: a location and a stamp

vars == <<mem, seen>>

Init ==
    /\ mem = [l \in Loc |-> 0]
    /\ seen \in Loc \X {0}

\* The host or the device writes l: a newer stamp, and no other location moves.
Write(l) ==
    /\ mem'[l] > mem[l]
    /\ mem' = [mem EXCEPT ![l] = mem'[l]]
    /\ UNCHANGED seen

\* The host reads l.
Read(l) ==
    /\ seen' = <<l, mem[l]>>
    /\ UNCHANGED mem

Next == \E l \in Loc : Write(l) \/ Read(l)

Spec == Init /\ [][Next]_vars
=============================================================================
