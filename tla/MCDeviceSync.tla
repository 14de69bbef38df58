----------------------------- MODULE MCDeviceSync -----------------------------
(***************************************************************************)
(* Instances of DeviceSync: two queues, two fences, and one semaphore of   *)
(* each kind.                                                              *)
(***************************************************************************)
EXTENDS DeviceSync

CONSTANTS q1, q2, f1, f2, b1, t1
=============================================================================
