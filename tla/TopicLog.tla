------------------------------ MODULE TopicLog ------------------------------
(***************************************************************************)
(* What the bus promises, without its channels and its broker: every route *)
(* is a log that accepted events are appended to, and a subscriber reads   *)
(* its route's log from where it joined.  A lossless subscriber reads      *)
(* every event in turn; a lossy one may skip, but never goes back.         *)
(***************************************************************************)
EXTENDS Integers, Sequences

CONSTANTS Routes, Subs, RouteOf, Lossless,
          Event    \* pairs of a publisher and the number of its event

VARIABLES
    log,       \* route -> its accepted events, in order
    place,     \* subscriber -> "out", "in" or "left"
    cursor,    \* subscriber -> how far in its log it has read
    received   \* subscriber -> what it was given, in order

vars == <<log, place, cursor, received>>

Init ==
    /\ log = [r \in Routes |-> <<>>]
    /\ place = [s \in Subs |-> "out"]
    /\ cursor = [s \in Subs |-> 0]
    /\ received = [s \in Subs |-> <<>>]

\* An event is accepted once, and after what its publisher published before it, on
\* whatever route.
Accept(r, e) ==
    /\ \A q \in Routes : \A i \in DOMAIN log[q] : log[q][i][1] = e[1] => log[q][i][2] < e[2]
    /\ log' = [log EXCEPT ![r] = Append(@, e)]
    /\ UNCHANGED <<place, cursor, received>>

Join(s) ==
    /\ place[s] = "out"
    /\ place' = [place EXCEPT ![s] = "in"]
    /\ cursor' = [cursor EXCEPT ![s] = Len(log[RouteOf[s]])]
    /\ UNCHANGED <<log, received>>

Read(s, i) ==
    /\ place[s] = "in"
    /\ i \in DOMAIN log[RouteOf[s]]
    /\ IF s \in Lossless THEN i = cursor[s] + 1 ELSE i > cursor[s]
    /\ received' = [received EXCEPT ![s] = Append(@, log[RouteOf[s]][i])]
    /\ cursor' = [cursor EXCEPT ![s] = i]
    /\ UNCHANGED <<log, place>>

Leave(s) ==
    /\ place[s] # "left"
    /\ place' = [place EXCEPT ![s] = "left"]
    /\ cursor' = [cursor EXCEPT ![s] = 0]
    /\ UNCHANGED <<log, received>>

Next ==
    \/ \E r \in Routes, e \in Event : Accept(r, e)
    \/ \E s \in Subs : Join(s) \/ Leave(s) \/ \E i \in DOMAIN log[RouteOf[s]] : Read(s, i)

Spec == Init /\ [][Next]_vars
=============================================================================
