------------------------------- MODULE MCBus -------------------------------
(* A small instance of Bus: a lossless and a lossy subscriber of one route, *)
(* and a route nobody subscribes to.                                        *)
EXTENDS Bus, TLC

CONSTANTS p1, r1, r2, s1, s2

MCRouteOf == s1 :> r1 @@ s2 :> r1
=============================================================================
