---------------------------- MODULE MessageLife -----------------------------
(***************************************************************************)
(* What the carriers of messages promise each message, without the places  *)
(* it is held in: it is taken or turned away once, and one that was taken  *)
(* is settled once, for good.  A component that reads a message twice,     *)
(* drops one it has reported read, or reports on one it never took, does   *)
(* not implement this.                                                     *)
(***************************************************************************)
CONSTANTS Message,
          Ending,     \* how a message can be settled
          Refusal     \* endings of a message that was never taken

VARIABLE fate         \* message -> what became of it

Init == fate = [m \in Message |-> "unsent"]

Take(m) ==
    /\ fate[m] = "unsent"
    /\ fate' = [fate EXCEPT ![m] = "pending"]

TurnAway(m) ==
    /\ fate[m] = "unsent"
    /\ \E o \in Refusal : fate' = [fate EXCEPT ![m] = o]

\* Several messages may be settled at once, each in its own way.
Settle(ms) ==
    /\ \A m \in ms : fate[m] = "pending"
    /\ \E how \in [ms -> Ending] :
          fate' = [m \in Message |-> IF m \in ms THEN how[m] ELSE fate[m]]

Next ==
    \/ \E m \in Message : Take(m) \/ TurnAway(m)
    \/ \E ms \in SUBSET Message : Settle(ms)

Spec == Init /\ [][Next]_fate
=============================================================================
