--------------------------- MODULE MCNanoLogQueue ---------------------------
(***************************************************************************)
(* Instances of NanoLogQueue: two threads and buffers of two slots, so     *)
(* that the threads go through several buffers.                            *)
(***************************************************************************)
EXTENDS NanoLogQueue

CONSTANTS p1, p2
=============================================================================
