---------------------------- MODULE MCPulseFires ----------------------------
(* Small instances of PulseFires.                                          *)
EXTENDS PulseFires

CONSTANTS p1
=============================================================================
