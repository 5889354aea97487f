--------------------------- MODULE MCMemoryMerge ---------------------------
(* A small instance of MemoryMerge: a session run beside the main agent.   *)
EXTENDS MemoryMerge

CONSTANTS r1
=============================================================================
