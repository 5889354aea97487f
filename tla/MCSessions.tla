----------------------------- MODULE MCSessions -----------------------------
(* Small instances of Sessions.  A conversation address takes chat messages *)
(* and agent messages; a generated address is forked by a prompt, and two   *)
(* prompts share one when their 16-bit suffixes collide.                    *)
EXTENDS Sessions, TLC

CONSTANTS a1, a2, c1, c2, c3, g1, g2, k1, k2

MCDest == [m \in Message |-> a1]

\* Chat goes to a conversation, prompts and agent messages to a spawned session.
MCDestTwo == [m \in Message |-> IF m \in Chat THEN a1 ELSE a2]
=============================================================================
