--------------------------- MODULE MainHopsProofs ---------------------------
(***************************************************************************)
(* The hop counts that bound how long agents answer each other: they       *)
(* follow their messages, for every set of messages and every bound.       *)
(***************************************************************************)
EXTENDS MainTurnsProofs

Begun == pc \in {"checkpoint", "model"}

\* The list names a person's messages only, so none that is held or withdrawn has hops.
ListIsPersons ==
    /\ \A m \in Message : entry[m] # "none" => m \in Person
    /\ Agent \cap Range(held) = {}

\* Outside a turn its channel is empty.
ChannelIsTurns == ~InTurn /\ pc # "leaving" => intr = <<>>

HopsPlaced ==
    /\ mainHops = Agent \cap (Range(bus) \cup Range(deferred))
    /\ Agent \cap (Range(intr) \cup Range(leftovers)) \subseteq midHops
    /\ midHops \subseteq Agent

HopsReset ==
    /\ hop \in {0, 1} /\ kickoffHop \in {0, 1}
    /\ pc \in {"idle", "stopping", "exited"} => hop = 0

\* What the turn was given is counted, the message that opens a rerun once it begins.
HopsCounted ==
    Announced =>
       /\ turn \in inputs
       /\ (inputs \ {turn}) \cap Agent # {} => hop = 1
       /\ turn \in Agent /\ (~rerun \/ Begun) => hop = 1
       /\ inputs \cap Agent = {} /\ ~rerun => hop = 0

\* A rerun finds the hops of the turn it repeats.
KickoffKept ==
    /\ Announced /\ (rerun \/ Begun) /\ turn \in Agent => kickoffHop = 1
    /\ failed \in Agent => kickoffHop = 1

HopInv == ListIsPersons /\ ChannelIsTurns /\ HopsPlaced /\ HopsReset /\ HopsCounted /\ KickoffKept

LEMMA Kinds == Person \cap Agent = {} /\ Mine \subseteq Message /\ NoTurn \notin Agent
  BY MainTurnsAssumption DEF Mine, Message

LEMMA HopInvInit == Init => HopInv
  <1> SUFFICES ASSUME Init PROVE HopInv
    OBVIOUS
  <1> USE DEF Init, HopInv
  <1>1. ListIsPersons /\ HopsPlaced
    BY EmptyQueue DEF ListIsPersons, HopsPlaced
  <1> QED
    BY <1>1, Kinds DEF ChannelIsTurns, HopsReset, HopsCounted, KickoffKept, Announced

\* Steps of people, and those that move the loop along within a turn or leave it idle.
LEMMA QuietHops ==
  ASSUME HopInv, UNCHANGED <<entry, bus, deferred, intr, held, leftovers, hopVars>>,
         UNCHANGED <<pc, turn, rerun>>, failed' \in {failed, NoTurn}
  PROVE  HopInv'
  <1> USE DEF HopInv, hopVars
  <1>1. (InTurn' <=> InTurn) /\ (Announced' <=> Announced) /\ (Begun' <=> Begun)
    BY DEF InTurn, Announced, Begun
  <1>2. ListIsPersons' /\ ChannelIsTurns' /\ HopsPlaced' /\ HopsReset'
    BY <1>1 DEF ListIsPersons, ChannelIsTurns, HopsPlaced, HopsReset
  <1>3. HopsCounted' /\ KickoffKept'
    BY <1>1, Kinds DEF HopsCounted, KickoffKept
  <1> QED
    BY <1>2, <1>3

LEMMA SendHops ==
  ASSUME PlaceInv, HopInv, NEW m \in Message, Send(m)
  PROVE  HopInv'
  <1> USE DEF HopInv
  <1>1. UNCHANGED <<pc, failed, entry, deferred, intr, held, leftovers, turn, rerun,
                    midHops, hop, kickoffHop, inputs>>
    BY DEF Send, waitVars, turnVars
  <1>2. \/ UNCHANGED <<bus, mainHops>>
        \/ /\ bus' = Append(bus, m)
           /\ mainHops' = IF m \in Agent THEN mainHops \cup {m} ELSE mainHops
    BY DEF Send
  <1>3. CASE UNCHANGED <<bus, mainHops>>
    BY <1>1, <1>3, QuietHops DEF hopVars
  <1>4. CASE /\ bus' = Append(bus, m)
             /\ mainHops' = IF m \in Agent THEN mainHops \cup {m} ELSE mainHops
    <2>1. Range(bus') = Range(bus) \cup {m}
      <3>1. m \notin Pending
        BY DEF Send, Pending
      <3>2. m \notin Range(bus)
        BY <3>1 DEF PlaceInv, Placed, Partition
      <3> QED
        BY <1>4, <3>2, AppendQueue DEF PlaceInv, QueuesTyped, Once
    <2>2. HopsPlaced'
      BY <1>1, <1>4, <2>1 DEF HopsPlaced
    <2>3. (InTurn' <=> InTurn) /\ (Announced' <=> Announced) /\ (Begun' <=> Begun)
      BY <1>1 DEF InTurn, Announced, Begun
    <2> QED
      BY <1>1, <2>2, <2>3 DEF ListIsPersons, ChannelIsTurns, HopsReset, HopsCounted, KickoffKept
  <1> QED
    BY <1>2, <1>3, <1>4

LEMMA ListHops ==
  ASSUME PlaceInv, HopInv, NEW m \in Message, Withdraw(m) \/ SendNow(m)
  PROVE  HopInv'
  <1> USE DEF HopInv
  <1>1. UNCHANGED <<pc, failed, bus, deferred, intr, held, leftovers, turn, rerun, hopVars>>
    BY DEF Withdraw, SendNow, turnVars, queueVars
  <1>2. m \in Person
    BY DEF Withdraw, SendNow, ListIsPersons
  <1>3. \A n \in Message : n # m => entry'[n] = entry[n]
    BY EntryStep DEF Withdraw, SendNow, PlaceInv, Waiting
  <1>4. ListIsPersons'
    BY <1>1, <1>2, <1>3 DEF ListIsPersons
  <1>5. (InTurn' <=> InTurn) /\ (Announced' <=> Announced) /\ (Begun' <=> Begun)
    BY <1>1 DEF InTurn, Announced, Begun
  <1> QED
    BY <1>1, <1>4, <1>5 DEF ChannelIsTurns, HopsPlaced, HopsReset, HopsCounted, KickoffKept, hopVars

LEMMA PeopleHops == PlaceInv /\ HopInv /\ People => HopInv'
  <1> SUFFICES ASSUME PlaceInv, HopInv, People PROVE HopInv'
    OBVIOUS
  <1> USE DEF turnVars, queueVars, waitVars
  <1>1. ASSUME NEW m \in Message, SendNowStop(m) PROVE HopInv'
    BY <1>1, QuietHops DEF SendNowStop
  <1>2. ASSUME NEW m \in Message, RetryTurn(m) PROVE HopInv'
    BY <1>2, QuietHops DEF RetryTurn
  <1>3. ASSUME NEW t \in Mine \cup {NoTurn}, UserStop(t) PROVE HopInv'
    BY <1>3, QuietHops DEF UserStop
  <1>4. CASE AgentStop
    BY <1>4, QuietHops DEF AgentStop
  <1> QED
    BY <1>1, <1>2, <1>3, <1>4, SendHops, ListHops DEF People
-----------------------------------------------------------------------------
(* Between turns.                                                          *)

\* A waiting message opens a turn: its hops go from the messenger's table to the turn.
LEMMA OpenNewHops ==
  ASSUME HopInv, pc = "idle", NEW t \in Mine, OpenTurn(t, FALSE),
         t \in Range(bus) \cup Range(deferred),
         Range(bus') \cup Range(deferred') = (Range(bus) \cup Range(deferred)) \ {t},
         UNCHANGED <<intr, held, leftovers, failed>>,
         \A n \in Message : entry'[n] # "none" => entry[n] # "none"
  PROVE  HopInv'
  <1> USE DEF HopInv
  <1>1. /\ pc' = "opening" /\ turn' = t /\ rerun' = FALSE /\ inputs' = {t}
        /\ mainHops' = mainHops \ {t} /\ UNCHANGED <<midHops, kickoffHop>>
    BY DEF OpenTurn
  <1>2. hop' = IF t \in Agent THEN 1 ELSE 0
    <2>1. hop = 0 /\ (t \in mainHops <=> t \in Agent)
      BY DEF HopsReset, HopsPlaced
    <2>2. hop' = Bump(HopOf(t, mainHops))
      BY DEF OpenTurn
    <2> QED
      BY <2>1, <2>2 DEF Bump, HopOf
  <1>3. intr = <<>>
    BY DEF ChannelIsTurns, InTurn
  <1>4. ListIsPersons' /\ ChannelIsTurns' /\ HopsPlaced'
    BY <1>1, <1>3 DEF ListIsPersons, ChannelIsTurns, HopsPlaced
  <1>5. HopsReset' /\ HopsCounted' /\ KickoffKept'
    BY <1>1, <1>2 DEF HopsReset, HopsCounted, KickoffKept, Begun
  <1> QED
    BY <1>4, <1>5

LEMMA TakeDeferredHops == PlaceInv /\ HopInv /\ TakeDeferred => HopInv'
  <1> SUFFICES ASSUME PlaceInv, HopInv, TakeDeferred PROVE HopInv'
    OBVIOUS
  <1> USE DEF PlaceInv, HopInv
  <1> DEFINE k == NextDeferred
             m == deferred[k]
  <1>1. k \in DOMAIN deferred
    BY NextDeferredIsThere DEF TakeDeferred, QueuesTyped
  <1>2. /\ UNCHANGED <<bus, intr, held, leftovers, failed>> /\ pc = "idle"
        /\ deferred' = RemoveAt(deferred, k) /\ entry' = [entry EXCEPT ![m] = "none"]
    BY DEF TakeDeferred
  <1>3. \/ entry[m] = "withdrawn" /\ UNCHANGED <<pc, turn, no, rerun, hopVars>>
        \/ OpenTurn(m, FALSE)
    BY DEF TakeDeferred
  <1> HIDE DEF k
  <1>4. Range(deferred') = Range(deferred) \ {m} /\ m \in Mine /\ m \in Range(deferred)
    BY <1>1, <1>2, RemoveQueue DEF QueuesTyped, Once
  <1> HIDE DEF m
  <1>5. m \in Message /\ m \notin Range(bus)
    BY <1>4 DEF Mine, Message, Placed, Partition
  <1>6. \A n \in Message : entry'[n] # "none" => entry[n] # "none"
    BY <1>2, <1>5, EntryStep DEF Waiting
  <1>7. CASE OpenTurn(m, FALSE)
    BY <1>2, <1>4, <1>5, <1>6, <1>7, OpenNewHops
  <1>8. CASE entry[m] = "withdrawn" /\ UNCHANGED <<pc, turn, no, rerun, hopVars>>
    <2>1. m \notin Agent
      BY <1>5, <1>8, Kinds DEF ListIsPersons
    <2>2. ListIsPersons' /\ HopsPlaced'
      BY <1>2, <1>4, <1>5, <1>6, <1>8, <2>1 DEF ListIsPersons, HopsPlaced, hopVars
    <2>3. (InTurn' <=> InTurn) /\ (Announced' <=> Announced) /\ (Begun' <=> Begun)
      BY <1>8 DEF InTurn, Announced, Begun
    <2> QED
      BY <1>2, <1>8, <2>2, <2>3 DEF ChannelIsTurns, HopsReset, HopsCounted, KickoffKept, hopVars
  <1> QED
    BY <1>3, <1>7, <1>8

LEMMA TakeInboundHops == PlaceInv /\ HopInv /\ TakeInbound => HopInv'
  <1> SUFFICES ASSUME PlaceInv, HopInv, TakeInbound PROVE HopInv'
    OBVIOUS
  <1> USE DEF PlaceInv, HopInv
  <1> DEFINE m == Head(bus)
  <1>1. /\ UNCHANGED <<deferred, intr, held, leftovers, failed, entry>> /\ pc = "idle"
        /\ bus # <<>> /\ bus' = Tail(bus)
    BY DEF TakeInbound, waitVars, Idle
  <1>2. \/ m \in Mine /\ OpenTurn(m, FALSE)
        \/ m \notin Mine /\ UNCHANGED <<pc, turn, no, rerun, hopVars>>
    BY DEF TakeInbound
  <1>3. Range(bus') = Range(bus) \ {m} /\ m \in Range(bus)
    BY <1>1, TailQueue DEF QueuesTyped, Once
  <1> HIDE DEF m
  <1>4. m \notin Range(deferred)
    BY <1>3 DEF Placed, Partition
  <1>5. CASE m \in Mine /\ OpenTurn(m, FALSE)
    BY <1>1, <1>3, <1>4, <1>5, OpenNewHops
  <1>6. CASE m \notin Mine /\ UNCHANGED <<pc, turn, no, rerun, hopVars>>
    <2>1. m \notin Agent
      BY <1>6 DEF Mine
    <2>2. HopsPlaced'
      BY <1>1, <1>3, <1>6, <2>1 DEF HopsPlaced, hopVars
    <2>3. (InTurn' <=> InTurn) /\ (Announced' <=> Announced) /\ (Begun' <=> Begun)
      BY <1>6 DEF InTurn, Announced, Begun
    <2> QED
      BY <1>1, <1>6, <2>2, <2>3
         DEF ListIsPersons, ChannelIsTurns, HopsReset, HopsCounted, KickoffKept, hopVars
  <1> QED
    BY <1>2, <1>5, <1>6

LEMMA IdleRetryHops == HopInv /\ IdleRetry => HopInv'
  <1> SUFFICES ASSUME HopInv, IdleRetry PROVE HopInv'
    OBVIOUS
  <1> USE DEF HopInv
  <1>1. UNCHANGED <<entry, bus, deferred, intr, held, leftovers>> /\ pc = "idle"
    BY DEF IdleRetry, Idle, waitVars, queueVars
  <1>2. \/ failed' = NoTurn /\ OpenTurn(failed, TRUE)
        \/ UNCHANGED <<failed, pc, turn, no, rerun, hopVars>>
    BY DEF IdleRetry
  <1>3. CASE failed' = NoTurn /\ OpenTurn(failed, TRUE)
    <2>1. /\ pc' = "opening" /\ turn' = failed /\ rerun' = TRUE /\ inputs' = {failed}
          /\ UNCHANGED <<mainHops, hop, midHops, kickoffHop>>
      BY <1>3 DEF OpenTurn
    <2>2. intr = <<>>
      BY <1>1 DEF ChannelIsTurns, InTurn
    <2>3. ListIsPersons' /\ ChannelIsTurns' /\ HopsPlaced' /\ HopsReset'
      BY <1>1, <2>1, <2>2 DEF ListIsPersons, ChannelIsTurns, HopsPlaced, HopsReset
    <2>4. HopsCounted' /\ KickoffKept'
      BY <1>3, <2>1, Kinds DEF HopsCounted, KickoffKept, Begun
    <2> QED
      BY <2>3, <2>4
  <1>4. CASE UNCHANGED <<failed, pc, turn, no, rerun, hopVars>>
    BY <1>1, <1>4, QuietHops
  <1> QED
    BY <1>2, <1>3, <1>4

LEMMA BetweenTurnsHops == PlaceInv /\ HopInv /\ BetweenTurns => HopInv'
  <1> SUFFICES ASSUME PlaceInv, HopInv, BetweenTurns PROVE HopInv'
    OBVIOUS
  <1> USE DEF turnVars, queueVars, waitVars
  <1>1. CASE IdleStop
    BY <1>1, QuietHops DEF IdleStop
  <1>2. CASE RewriteHistory
    BY <1>2, QuietHops DEF RewriteHistory
  <1>3. CASE IdleAgentStop
    <2>1. /\ pc = "idle" /\ pc' = "stopping"
          /\ UNCHANGED <<entry, bus, deferred, intr, held, leftovers, hopVars, failed>>
      BY <1>3 DEF IdleAgentStop, Idle
    <2>2. ListIsPersons' /\ ChannelIsTurns' /\ HopsPlaced' /\ HopsReset'
      BY <2>1 DEF HopInv, ListIsPersons, ChannelIsTurns, HopsPlaced, HopsReset, hopVars, InTurn
    <2>3. HopsCounted' /\ KickoffKept'
      BY <2>1 DEF HopInv, HopsCounted, KickoffKept, hopVars, Announced
    <2> QED
      BY <2>2, <2>3 DEF HopInv
  <1> QED
    BY <1>1, <1>2, <1>3, TakeDeferredHops, TakeInboundHops, IdleRetryHops DEF BetweenTurns
-----------------------------------------------------------------------------
(* A turn.                                                                 *)

LEMMA BeginHops == HopInv /\ Begin => HopInv'
  <1> SUFFICES ASSUME HopInv, Begin PROVE HopInv'
    OBVIOUS
  <1> USE DEF HopInv
  <1>1. /\ pc = "start" /\ pc' = "checkpoint"
        /\ UNCHANGED <<entry, bus, deferred, intr, held, leftovers, turn, rerun, mainHops,
                       midHops, inputs>>
    BY DEF Begin, waitVars, queueVars, turnVars
  <1>2. /\ rerun => hop' = Bump(kickoffHop) /\ failed' = failed /\ kickoffHop' = kickoffHop
        /\ ~rerun => kickoffHop' = hop /\ failed' = NoTurn /\ hop' = hop
    BY DEF Begin
  <1>3. /\ Announced /\ Announced' /\ Begun' /\ ~Begun /\ InTurn /\ InTurn'
    BY <1>1 DEF Announced, Begun, InTurn
  <1>4. ListIsPersons' /\ ChannelIsTurns' /\ HopsPlaced'
    BY <1>1, <1>3 DEF ListIsPersons, ChannelIsTurns, HopsPlaced
  <1>5. CASE rerun
    <2>1. hop' \in {0, 1} /\ (hop = 1 => hop' = 1) /\ (kickoffHop = 1 => hop' = 1)
      BY <1>2, <1>5 DEF Bump, HopsReset
    <2> QED
      BY <1>1, <1>2, <1>3, <1>4, <1>5, <2>1 DEF HopsReset, HopsCounted, KickoffKept
  <1>6. CASE ~rerun
    BY <1>1, <1>2, <1>3, <1>4, <1>6, Kinds DEF HopsReset, HopsCounted, KickoffKept
  <1> QED
    BY <1>5, <1>6

LEMMA MidTurnMessageHops == PlaceInv /\ HopInv /\ MidTurnMessage => HopInv'
  <1> SUFFICES ASSUME PlaceInv, HopInv, MidTurnMessage PROVE HopInv'
    OBVIOUS
  <1> USE DEF PlaceInv, HopInv
  <1> DEFINE m == Head(bus)
  <1>1. /\ UNCHANGED <<deferred, held, leftovers, failed, pc, turn, rerun, kickoffHop>>
        /\ InTurn /\ bus # <<>> /\ bus' = Tail(bus)
    BY DEF MidTurnMessage
  <1>2. \/ /\ m \in Mine /\ intr' = Append(intr, m)
           /\ entry' = IF m \in Person THEN [entry EXCEPT ![m] = "queued"] ELSE entry
           /\ hop' = Bump(HopOf(m, mainHops))
           /\ midHops' = midHops \cup (mainHops \cap {m})
           /\ mainHops' = mainHops \ {m} /\ inputs' = inputs \cup {m}
        \/ m \notin Mine /\ UNCHANGED <<entry, intr, hop, mainHops, midHops, inputs>>
    BY DEF MidTurnMessage
  <1>3. Range(bus') = Range(bus) \ {m} /\ m \in Range(bus) /\ m \in Message
    BY <1>1, TailQueue DEF QueuesTyped, Once
  <1> HIDE DEF m
  <1>4. m \notin Range(deferred) /\ m \notin Range(intr)
    BY <1>3 DEF Placed, Partition
  <1>5. /\ (InTurn' <=> InTurn) /\ (Announced' <=> Announced) /\ (Begun' <=> Begun)
        /\ ChannelIsTurns'
    BY <1>1 DEF InTurn, Announced, Begun, ChannelIsTurns
  <1>6. CASE /\ m \in Mine /\ intr' = Append(intr, m)
             /\ entry' = IF m \in Person THEN [entry EXCEPT ![m] = "queued"] ELSE entry
             /\ hop' = Bump(HopOf(m, mainHops))
             /\ midHops' = midHops \cup (mainHops \cap {m})
             /\ mainHops' = mainHops \ {m} /\ inputs' = inputs \cup {m}
    <2>1. Range(intr') = Range(intr) \cup {m}
      BY <1>4, <1>6, AppendQueue DEF QueuesTyped, Once
    <2>2. m \in mainHops <=> m \in Agent
      BY <1>3 DEF HopsPlaced
    <2>3. HopsPlaced'
      BY <1>1, <1>3, <1>4, <1>6, <2>1, <2>2 DEF HopsPlaced
    <2>4. \A n \in Message : entry'[n] # "none" => n \in Person
      <3>1. CASE m \in Person
        BY <1>3, <1>6, <3>1, EntryStep DEF ListIsPersons, Waiting
      <3> QED
        BY <1>6, <3>1 DEF ListIsPersons
    <2>5. ListIsPersons'
      BY <1>1, <2>4 DEF ListIsPersons
    <2>6. hop' = IF m \in Agent THEN 1 ELSE hop
      BY <1>6, <2>2 DEF Bump, HopOf, HopsReset
    <2>7. HopsReset' /\ KickoffKept'
      BY <1>1, <1>5, <2>6 DEF HopsReset, KickoffKept, InTurn
    <2>8. HopsCounted'
      BY <1>1, <1>5, <1>6, <2>6 DEF HopsCounted, HopsReset
    <2> QED
      BY <1>5, <2>3, <2>5, <2>7, <2>8
  <1>7. CASE m \notin Mine /\ UNCHANGED <<entry, intr, hop, mainHops, midHops, inputs>>
    <2>1. m \notin Agent
      BY <1>7 DEF Mine
    <2>2. HopsPlaced'
      BY <1>1, <1>3, <1>7, <2>1 DEF HopsPlaced
    <2> QED
      BY <1>1, <1>5, <1>7, <2>2 DEF ListIsPersons, HopsReset, HopsCounted, KickoffKept
  <1> QED
    BY <1>2, <1>6, <1>7

LEMMA ChannelsHops == PlaceInv /\ HopInv /\ Channels => HopInv'
  <1> SUFFICES ASSUME PlaceInv, HopInv, Channels PROVE HopInv'
    OBVIOUS
  <1> USE DEF turnVars, queueVars, waitVars
  <1>1. CASE MidTurnStop
    BY <1>1, QuietHops DEF MidTurnStop
  <1>2. CASE MidTurnRetry
    BY <1>2, QuietHops DEF MidTurnRetry
  <1>3. CASE MidTurnAgentStop
    BY <1>3, QuietHops DEF MidTurnAgentStop
  <1> QED
    BY <1>1, <1>2, <1>3, MidTurnMessageHops DEF Channels

\* Only a listed message is held, so none with hops.
LEMMA TakeInterruptHops == PlaceInv /\ HopInv /\ TakeInterrupt => HopInv'
  <1> SUFFICES ASSUME PlaceInv, HopInv, TakeInterrupt PROVE HopInv'
    OBVIOUS
  <1> USE DEF PlaceInv, HopInv
  <1> DEFINE m == Head(intr)
  <1>1. /\ UNCHANGED <<bus, deferred, leftovers, failed, pc, turn, rerun, hopVars>>
        /\ pc = "checkpoint" /\ intr # <<>> /\ intr' = Tail(intr)
    BY DEF TakeInterrupt, queueVars
  <1>2. \/ entry[m] = "send_now" /\ held' = Append(held, m) /\ entry' = entry
        \/ entry' = [entry EXCEPT ![m] = "none"] /\ held' = held
    BY DEF TakeInterrupt
  <1>3. Range(intr') = Range(intr) \ {m} /\ m \in Range(intr) /\ m \in Mine
    BY <1>1, TailQueue DEF QueuesTyped, Once
  <1> HIDE DEF m
  <1>4. m \in Message /\ m \notin Range(held)
    BY <1>3 DEF Placed, Partition, Mine, Message
  <1>5. ListIsPersons'
    <2>1. CASE entry[m] = "send_now" /\ held' = Append(held, m) /\ entry' = entry
      <3>1. Range(held') = Range(held) \cup {m}
        BY <1>3, <1>4, <2>1, AppendQueue DEF QueuesTyped, Once
      <3>2. m \notin Agent
        BY <1>4, <2>1, Kinds DEF ListIsPersons
      <3> QED
        BY <2>1, <3>1, <3>2 DEF ListIsPersons
    <2>2. CASE entry' = [entry EXCEPT ![m] = "none"] /\ held' = held
      <3>1. \A n \in Message : entry'[n] # "none" => entry[n] # "none"
        BY <1>4, <2>2, EntryStep DEF Waiting
      <3> QED
        BY <2>2, <3>1 DEF ListIsPersons
    <2> QED
      BY <1>2, <2>1, <2>2
  <1>6. HopsPlaced'
    BY <1>1, <1>3 DEF HopsPlaced, hopVars
  <1>7. (InTurn' <=> InTurn) /\ (Announced' <=> Announced) /\ (Begun' <=> Begun) /\ InTurn
    BY <1>1 DEF InTurn, Announced, Begun
  <1> QED
    BY <1>1, <1>5, <1>6, <1>7 DEF ChannelIsTurns, HopsReset, HopsCounted, KickoffKept, hopVars

LEMMA FinishHops ==
  ASSUME PlaceInv, HopInv, NEW ok \in BOOLEAN, Finish(ok), Begun
  PROVE  HopInv'
  <1> USE DEF HopInv
  <1>1. /\ UNCHANGED <<entry, bus, deferred, intr, turn, rerun, hopVars>>
        /\ pc' = "leaving" /\ leftovers' = held /\ held' = <<>>
        /\ failed' \in {failed, turn}
    BY DEF Finish, queueVars, waitVars
  <1>2. Announced /\ ~Announced' /\ leftovers = <<>>
    BY <1>1 DEF Begun, Announced, PlaceInv, LeftoversTaken
  <1>3. ListIsPersons' /\ ChannelIsTurns' /\ HopsPlaced'
    BY <1>1, <1>2, EmptyQueue DEF ListIsPersons, ChannelIsTurns, HopsPlaced, hopVars
  <1>4. HopsReset' /\ HopsCounted' /\ KickoffKept'
    BY <1>1, <1>2 DEF HopsReset, HopsCounted, KickoffKept, hopVars
  <1> QED
    BY <1>3, <1>4

LEMMA IntoLeftoversHops == PlaceInv /\ HopInv /\ IntoLeftovers => HopInv'
  <1> SUFFICES ASSUME PlaceInv, HopInv, IntoLeftovers PROVE HopInv'
    OBVIOUS
  <1> USE DEF PlaceInv, HopInv
  <1> DEFINE m == Head(intr)
  <1>1. /\ UNCHANGED <<bus, deferred, held, failed, pc, turn, rerun, hopVars>>
        /\ pc = "leaving" /\ intr # <<>> /\ intr' = Tail(intr)
    BY DEF IntoLeftovers, queueVars
  <1>2. \/ leftovers' = Append(leftovers, m) /\ entry' = entry
        \/ entry' = [entry EXCEPT ![m] = "none"] /\ leftovers' = leftovers
    BY DEF IntoLeftovers
  <1>3. Range(intr') = Range(intr) \ {m} /\ m \in Range(intr) /\ m \in Mine
    BY <1>1, TailQueue DEF QueuesTyped, Once
  <1> HIDE DEF m
  <1>4. m \in Message /\ m \notin Range(leftovers)
    BY <1>3 DEF Placed, Partition, Mine, Message
  <1>5. Range(leftovers') \subseteq Range(leftovers) \cup {m}
    <2>1. CASE leftovers' = Append(leftovers, m)
      BY <1>3, <1>4, <2>1, AppendQueue DEF QueuesTyped, Once
    <2> QED
      BY <1>2, <2>1
  <1>6. \A n \in Message : entry'[n] # "none" => entry[n] # "none"
    <2>1. CASE entry' = [entry EXCEPT ![m] = "none"]
      BY <1>4, <2>1, EntryStep DEF Waiting
    <2> QED
      BY <1>2, <2>1
  <1>7. ListIsPersons' /\ HopsPlaced'
    BY <1>1, <1>3, <1>5, <1>6 DEF ListIsPersons, HopsPlaced, hopVars
  <1>8. ~Announced /\ ~Announced'
    BY <1>1 DEF Announced
  <1> QED
    BY <1>1, <1>7, <1>8 DEF ChannelIsTurns, HopsReset, HopsCounted, KickoffKept, hopVars

\* The turn moves on with its channel as it is.
LEMMA PhaseHops ==
  ASSUME HopInv, UNCHANGED <<entry, bus, deferred, intr, held, leftovers, hopVars, failed,
                             turn, rerun>>,
         \/ pc = "opening" /\ pc' = "start"
         \/ pc = "checkpoint" /\ pc' = "model"
         \/ pc = "model" /\ pc' = "checkpoint"
         \/ pc = "leaving" /\ pc' = "after" /\ intr = <<>>
  PROVE  HopInv'
  <1> USE DEF HopInv, hopVars
  <1>1. ListIsPersons' /\ HopsPlaced'
    BY DEF ListIsPersons, HopsPlaced
  <1>2. ChannelIsTurns' /\ HopsReset'
    BY DEF ChannelIsTurns, InTurn, HopsReset
  <1>3. (Announced' => Announced) /\ (Announced' => (Begun' <=> Begun))
    BY DEF Announced, Begun
  <1>4. HopsCounted' /\ KickoffKept'
    BY <1>3 DEF HopsCounted, KickoffKept
  <1> QED
    BY <1>1, <1>2, <1>4

LEMMA TurnHops == PlaceInv /\ HopInv /\ Turn => HopInv'
  <1> SUFFICES ASSUME PlaceInv, HopInv, Turn PROVE HopInv'
    OBVIOUS
  <1> USE DEF turnVars, queueVars, waitVars
  <1>1. CASE Opened
    BY <1>1, PhaseHops DEF Opened
  <1>2. CASE CheckStop
    <2>1. CASE Finish(TRUE)
      BY <1>2, <2>1, FinishHops DEF CheckStop, Begun
    <2>2. CASE ~cancelled
      BY <1>2, <2>2, PhaseHops DEF CheckStop
    <2> QED
      BY <1>2, <2>1, <2>2 DEF CheckStop
  <1>3. CASE NextCall
    BY <1>3, PhaseHops DEF NextCall
  <1>4. ASSUME NEW ok \in BOOLEAN, EndTurn(ok) PROVE HopInv'
    BY <1>4, FinishHops DEF EndTurn, Begun
  <1>5. CASE Left
    BY <1>5, PhaseHops DEF Left
  <1> QED
    BY <1>1, <1>2, <1>3, <1>4, <1>5, BeginHops, TakeInterruptHops, IntoLeftoversHops DEF Turn

\* restore_hops: what the turn leaves takes its hops back to the messenger's table.
LEMMA DeferLateHops == PlaceInv /\ HopInv /\ DeferLate => HopInv'
  <1> SUFFICES ASSUME PlaceInv, HopInv, DeferLate PROVE HopInv'
    OBVIOUS
  <1> USE DEF PlaceInv, HopInv
  <1>1. /\ UNCHANGED <<entry, bus, intr, held, kickoffHop>>
        /\ pc = "after" /\ pc' \in {"idle", "stopping"} /\ leftovers' = <<>>
        /\ hop' = 0 /\ midHops' = {} /\ failed' \in {failed, NoTurn}
    BY DEF DeferLate, waitVars
  <1>2. intr = <<>>
    BY <1>1 DEF ChannelIsTurns, InTurn
  <1>3. mainHops' = Agent \cap (Range(bus') \cup Range(deferred'))
    <2>1. CASE deferred' = deferred /\ mainHops' = mainHops
      BY <1>1, <2>1 DEF HopsPlaced
    <2>2. CASE /\ deferred' = deferred \o leftovers
               /\ mainHops' = mainHops \cup (Range(leftovers) \cap midHops)
      <3>1. Range(deferred) \cap Range(leftovers) = {}
        BY DEF Placed, Partition
      <3>2. Range(deferred') = Range(deferred) \cup Range(leftovers)
        BY <2>2, <3>1, ConcatQueue DEF QueuesTyped, Once
      <3> QED
        BY <1>1, <2>2, <3>2 DEF HopsPlaced
    <2> QED
      BY <2>1, <2>2 DEF DeferLate
  <1>4. ListIsPersons' /\ ChannelIsTurns' /\ HopsPlaced'
    BY <1>1, <1>2, <1>3, EmptyQueue DEF ListIsPersons, ChannelIsTurns, HopsPlaced
  <1>5. HopsReset' /\ HopsCounted' /\ KickoffKept'
    BY <1>1, Kinds DEF HopsReset, HopsCounted, KickoffKept, Announced
  <1> QED
    BY <1>4, <1>5

LEMMA ShutdownHops == PlaceInv /\ HopInv /\ Shutdown => HopInv'
  <1> SUFFICES ASSUME PlaceInv, HopInv, Shutdown PROVE HopInv'
    OBVIOUS
  <1> USE DEF PlaceInv, HopInv
  <1> DEFINE gone == Range(deferred) \cup Range(bus)
  <1>1. /\ UNCHANGED <<intr, held, leftovers, midHops, hop, kickoffHop>>
        /\ pc = "stopping" /\ pc' = "exited" /\ bus' = <<>> /\ deferred' = <<>>
        /\ failed' \in {failed, NoTurn}
        /\ entry' = [m \in Message |-> IF m \in Range(deferred) THEN "none" ELSE entry[m]]
    BY DEF Shutdown, turnVars
  <1>2. \A m \in gone : m \in Agent => m \notin mainHops'
    <2> SUFFICES ASSUME NEW m \in gone, m \in Agent PROVE m \notin mainHops'
      OBVIOUS
    <2>1. m \in Message
      BY RangeTyped, Kinds DEF QueuesTyped
    <2>2. entry[m] = "none"
      BY <2>1, Kinds DEF ListIsPersons
    <2>3. fate'[m] = "noted"
      BY <2>1, <2>2 DEF Shutdown
    <2> QED
      BY <2>3 DEF Shutdown
  <1>3. mainHops' \subseteq mainHops
    BY DEF Shutdown
  <1>4. mainHops' = {}
    BY <1>2, <1>3 DEF HopsPlaced
  <1>5. ListIsPersons' /\ ChannelIsTurns' /\ HopsPlaced'
    BY <1>1, <1>4, EmptyQueue DEF ListIsPersons, ChannelIsTurns, InTurn, HopsPlaced
  <1>6. HopsReset' /\ HopsCounted' /\ KickoffKept'
    BY <1>1, Kinds DEF HopsReset, HopsCounted, KickoffKept, Announced
  <1> QED
    BY <1>5, <1>6

-----------------------------------------------------------------------------

LEMMA HopInvStep == PlaceInv /\ HopInv /\ [Next]_vars => HopInv'
  <1>1. HopInv /\ UNCHANGED vars => HopInv'
    BY QuietHops DEF vars, turnVars, waitVars, queueVars
  <1> QED
    BY <1>1, PeopleHops, BetweenTurnsHops, ChannelsHops, TurnHops, DeferLateHops, ShutdownHops
       DEF Next

\* HopsTravel for every instance: a relayed message's hop count is in the table that will
\* be asked for it, and the turn's count is that of what it was given.
THEOREM HopsAlwaysTravel == Spec => []HopsTravel
  <1>1. HopInv => HopsTravel
    <2> SUFFICES ASSUME HopInv PROVE HopsTravel
      OBVIOUS
    <2>1. InTurn => Announced /\ (pc # "start" => Begun)
      BY DEF InTurn, Announced, Begun
    <2> QED
      BY <2>1 DEF HopInv, HopsPlaced, HopsCounted, HopsTravel
  <1>2. Spec => []HopInv
    BY PlaceInvHolds, HopInvInit, HopInvStep, PTL DEF Spec
  <1> QED
    BY <1>1, <1>2, PTL
-----------------------------------------------------------------------------
(* Type correctness.  PlaceInv, StopInv and HopInv type the queues, the    *)
(* stop requests and the hops; this is the rest.                           *)

LoopTyped ==
    /\ pc \in PC /\ turn \in Mine \cup {NoTurn} /\ failed \in Mine \cup {NoTurn}
    /\ inputs \subseteq Mine

FlagsTyped ==
    rerun \in BOOLEAN /\ cancelled \in BOOLEAN /\ stopReq \in BOOLEAN /\ agentStop \in BOOLEAN

ChannelsTyped ==
    /\ Len(stops) <= StopCapacity /\ stopsMade \in 0 .. MaxStops
    /\ retries \in Seq(Mine) /\ retriesMade \in 0 .. MaxRetries

\* What people act on is a person's, and what has started is the agent's own.
PeopleTyped ==
    /\ sending \subseteq Person /\ told \subseteq Person /\ asked \subseteq Person
    /\ \A m \in Message : fate[m] = "started" => m \in Mine

RestTyped == LoopTyped /\ FlagsTyped /\ ChannelsTyped /\ PeopleTyped

LEMMA RestInit == Init => RestTyped
  <1> SUFFICES ASSUME Init PROVE RestTyped
    OBVIOUS
  <1>1. LoopTyped
    BY DEF Init, LoopTyped, PC
  <1>2. FlagsTyped
    BY DEF Init, FlagsTyped
  <1>3. ChannelsTyped
    <2>1. stops = <<>> /\ stopsMade = 0 /\ retries = <<>> /\ retriesMade = 0
      BY DEF Init
    <2>2. Len(<<>>) = 0 /\ <<>> \in Seq(Mine)
      OBVIOUS
    <2>3. StopCapacity \in Nat /\ MaxStops \in Nat /\ MaxRetries \in Nat
      BY MainTurnsAssumption
    <2> QED
      BY ONLY <2>1, <2>2, <2>3 DEF ChannelsTyped
  <1>4. PeopleTyped
    BY DEF Init, PeopleTyped
  <1> QED
    BY <1>1, <1>2, <1>3, <1>4 DEF RestTyped

\* A turn that is opened is the agent's own.
LEMMA OpenTurnTyped ==
  ASSUME NEW t \in Mine, NEW again \in BOOLEAN, OpenTurn(t, again)
  PROVE  /\ pc' \in PC /\ turn' \in Mine \cup {NoTurn} /\ inputs' \subseteq Mine
         /\ rerun' \in BOOLEAN
  BY DEF OpenTurn, PC

LEMMA LoopStep ==
  ASSUME PlaceInv, RestTyped, Next
  PROVE  LoopTyped'
  <1> USE DEF RestTyped, LoopTyped
  <1>1. CASE People
    BY <1>1 DEF People, Send, Withdraw, SendNow, SendNowStop, RetryTurn, UserStop, AgentStop,
                turnVars, hopVars
  <1>2. CASE TakeDeferred
    <2>1. NextDeferred \in DOMAIN deferred /\ deferred \in Seq(Mine)
      BY <1>2, NextDeferredIsThere DEF TakeDeferred, PlaceInv, QueuesTyped
    <2>2. deferred[NextDeferred] \in Mine
      BY <2>1
    <2>3. \/ UNCHANGED <<pc, turn, no, rerun, hopVars>>
          \/ OpenTurn(deferred[NextDeferred], FALSE)
      BY <1>2 DEF TakeDeferred
    <2>4. failed' = failed
      BY <1>2 DEF TakeDeferred
    <2> QED
      BY <2>2, <2>3, <2>4, OpenTurnTyped DEF hopVars
  <1>3. CASE TakeInbound
    <2>1. UNCHANGED <<pc, turn, no, rerun, hopVars>> \/ (Head(bus) \in Mine /\ OpenTurn(Head(bus), FALSE))
      BY <1>3 DEF TakeInbound
    <2>2. failed' = failed
      BY <1>3 DEF TakeInbound
    <2> QED
      BY <2>1, <2>2, OpenTurnTyped DEF hopVars
  <1>4. CASE IdleRetry
    <2>1. Head(retries) \in Mine
      BY <1>4 DEF IdleRetry, ChannelsTyped
    <2>2. \/ UNCHANGED <<failed, pc, turn, no, rerun, hopVars>>
          \/ failed' = NoTurn /\ OpenTurn(Head(retries), TRUE)
      BY <1>4 DEF IdleRetry
    <2> QED
      BY <2>1, <2>2, OpenTurnTyped DEF hopVars
  <1>5. CASE IdleStop \/ RewriteHistory \/ IdleAgentStop
    BY <1>5 DEF IdleStop, RewriteHistory, IdleAgentStop, turnVars, hopVars, PC
  <1>6. CASE MidTurnMessage
    <2>1. UNCHANGED <<pc, turn, failed>>
      BY <1>6 DEF MidTurnMessage
    <2>2. inputs' = inputs \/ (Head(bus) \in Mine /\ inputs' = inputs \cup {Head(bus)})
      BY <1>6 DEF MidTurnMessage
    <2> QED
      BY <2>1, <2>2
  <1>7. CASE MidTurnStop \/ MidTurnRetry \/ MidTurnAgentStop
    BY <1>7 DEF MidTurnStop, MidTurnRetry, MidTurnAgentStop, turnVars, hopVars
  <1>8. CASE Turn
    BY <1>8 DEF Turn, Opened, Begin, TakeInterrupt, CheckStop, NextCall, EndTurn, Finish,
                IntoLeftovers, Left, turnVars, hopVars, PC
  <1>9. CASE DeferLate \/ Shutdown
    BY <1>9 DEF DeferLate, Shutdown, turnVars, PC
  <1> QED
    BY <1>1, <1>2, <1>3, <1>4, <1>5, <1>6, <1>7, <1>8, <1>9 DEF Next, BetweenTurns, Channels

LEMMA FlagsStep ==
  ASSUME FlagsTyped, Next
  PROVE  FlagsTyped'
  <1> USE DEF FlagsTyped
  <1>1. CASE People
    BY ZenonT(60), <1>1 DEF People, Send, Withdraw, SendNow, SendNowStop, RetryTurn, UserStop, AgentStop,
                turnVars
  <1>2. CASE BetweenTurns
    BY <1>2 DEF BetweenTurns, TakeDeferred, TakeInbound, IdleStop, IdleRetry, RewriteHistory,
                IdleAgentStop, OpenTurn, turnVars
  <1>3. CASE Channels
    BY <1>3 DEF Channels, MidTurnMessage, MidTurnStop, MidTurnRetry, MidTurnAgentStop, turnVars
  <1>4. CASE Turn
    BY <1>4 DEF Turn, Opened, Begin, TakeInterrupt, CheckStop, NextCall, EndTurn, Finish,
                IntoLeftovers, Left, turnVars
  <1>5. CASE DeferLate \/ Shutdown
    BY <1>5 DEF DeferLate, Shutdown, turnVars
  <1> QED
    BY <1>1, <1>2, <1>3, <1>4, <1>5 DEF Next

\* The stop channel keeps its capacity, and what is retried has started.
LEMMA ChannelsTypedStep ==
  ASSUME StopInv, RestTyped, Next
  PROVE  ChannelsTyped'
  <1> USE DEF RestTyped, ChannelsTyped
  <1>0. StopCapacity \in Nat /\ MaxStops \in Nat /\ MaxRetries \in Nat /\ stops \in Seq(Stop)
        /\ Len(stops) \in Nat
    BY MainTurnsAssumption DEF StopInv, StopsTyped
  <1>1. ASSUME NEW t \in Mine \cup {NoTurn}, Request(t) PROVE Len(stops') <= StopCapacity
    <2> DEFINE s == [names |-> t, seen |-> IF Announced THEN no ELSE 0]
    <2>1. s \in Stop
      BY DEF StopInv, StopsTyped, Stop
    <2>2. \/ stops' = stops
          \/ Len(stops) < StopCapacity /\ stops' = Append(stops, s)
      BY <1>1 DEF Request
    <2> HIDE DEF s
    <2>3. Len(Append(stops, s)) = Len(stops) + 1
      BY <1>0, <2>1
    <2> QED
      BY <1>0, <2>2, <2>3
  <1>2. ASSUME NEW m \in Message, SendNowStop(m) PROVE ChannelsTyped'
    BY <1>1, <1>2 DEF SendNowStop, retryVars
  <1>3. ASSUME NEW t \in Mine \cup {NoTurn}, UserStop(t) PROVE ChannelsTyped'
    <2>1. Len(stops') <= StopCapacity /\ UNCHANGED retryVars
      BY <1>1, <1>3 DEF UserStop
    <2>2. stopsMade' \in 0 .. MaxStops
      BY <1>0, <1>3 DEF UserStop
    <2> QED
      BY <2>1, <2>2 DEF retryVars
  <1>4. ASSUME NEW t \in Message, RetryTurn(t) PROVE ChannelsTyped'
    <2>1. t \in Mine /\ UNCHANGED stopVars
      BY <1>4 DEF RetryTurn, PeopleTyped
    <2>2. retries' \in Seq(Mine)
      BY <1>4, <2>1 DEF RetryTurn
    <2>3. retriesMade' \in 0 .. MaxRetries
      BY <1>0, <1>4 DEF RetryTurn
    <2> QED
      BY <2>1, <2>2, <2>3 DEF stopVars
  <1>5. ASSUME NEW m \in Message, Send(m) \/ Withdraw(m) \/ SendNow(m) PROVE ChannelsTyped'
    BY <1>5 DEF Send, Withdraw, SendNow, stopVars, retryVars
  <1>6. CASE IdleStop \/ MidTurnStop
    <2>1. stops # <<>> /\ stops' = Tail(stops) /\ UNCHANGED <<stopsMade, retryVars>>
      BY <1>6 DEF IdleStop, MidTurnStop
    <2>2. Len(stops') = Len(stops) - 1
      BY <1>0, <2>1
    <2> QED
      BY <1>0, <2>1, <2>2 DEF retryVars
  <1>7. CASE IdleRetry \/ MidTurnRetry
    <2>1. retries # <<>> /\ retries' = Tail(retries) /\ UNCHANGED <<stopVars, retriesMade>>
      BY <1>7 DEF IdleRetry, MidTurnRetry
    <2>2. retries' \in Seq(Mine)
      BY <2>1
    <2> QED
      BY <2>1, <2>2 DEF stopVars
  <1>8. CASE Opened
    <2>1. stops' = <<>> /\ UNCHANGED <<stopsMade, retryVars>>
      BY <1>8 DEF Opened
    <2> QED
      BY <1>0, <2>1 DEF retryVars
  <1>9. CASE \/ AgentStop \/ TakeDeferred \/ TakeInbound \/ RewriteHistory \/ IdleAgentStop
             \/ MidTurnMessage \/ MidTurnAgentStop \/ Begin \/ TakeInterrupt \/ CheckStop
             \/ NextCall \/ (\E ok \in BOOLEAN : EndTurn(ok)) \/ IntoLeftovers \/ Left
             \/ DeferLate \/ Shutdown
    <2>1. UNCHANGED <<stopVars, retryVars>>
      BY <1>9 DEF AgentStop, TakeDeferred, TakeInbound, RewriteHistory, IdleAgentStop,
                  MidTurnMessage, MidTurnAgentStop, Begin, TakeInterrupt, CheckStop, NextCall,
                  EndTurn, Finish, IntoLeftovers, Left, DeferLate, Shutdown
    <2> QED
      BY <2>1 DEF stopVars, retryVars
  <1> QED
    BY <1>2, <1>3, <1>4, <1>5, <1>6, <1>7, <1>8, <1>9
    DEF Next, People, BetweenTurns, Channels, Turn

LEMMA PeopleTypedStep ==
  ASSUME PlaceInv, HopInv, RestTyped, Next
  PROVE  PeopleTyped'
  <1> USE DEF RestTyped, PeopleTyped
  <1>0. fate \in [Message -> Fate] /\ Mine \subseteq Message
    BY Kinds DEF PlaceInv, QueuesTyped
  <1>1. sending' \subseteq Person /\ told' \subseteq Person /\ asked' \subseteq Person
    <2>1. ASSUME NEW m \in Message, Withdraw(m) \/ SendNow(m)
          PROVE  sending' \subseteq Person /\ told' \subseteq Person /\ asked' \subseteq Person
      <3>1. m \in Person
        BY <2>1 DEF Withdraw, SendNow, HopInv, ListIsPersons
      <3> QED
        BY <2>1, <3>1 DEF Withdraw, SendNow, stopVars
    <2>2. CASE ~(\E m \in Message : Withdraw(m) \/ SendNow(m))
      <3>1. UNCHANGED <<told, asked>> /\ sending' \subseteq sending
        BY <2>2 DEF Next, People, Send, SendNowStop, RetryTurn, UserStop, AgentStop,
           BetweenTurns, TakeDeferred, TakeInbound, IdleStop, IdleRetry, RewriteHistory,
           IdleAgentStop, Channels, MidTurnMessage, MidTurnStop, MidTurnRetry, MidTurnAgentStop,
           Turn, Opened, Begin, TakeInterrupt, CheckStop, NextCall, EndTurn, Finish,
           IntoLeftovers, Left, DeferLate, Shutdown, waitVars, stopVars
      <3> QED
        BY <3>1
    <2> QED
      BY <2>1, <2>2
  <1>2. \A m \in Message : fate'[m] = "started" => m \in Mine
    <2>1. CASE TakeDeferred
      <3>1. NextDeferred \in DOMAIN deferred /\ deferred \in Seq(Mine)
        BY <2>1, NextDeferredIsThere DEF TakeDeferred, PlaceInv, QueuesTyped
      <3>2. deferred[NextDeferred] \in Mine
        BY <3>1
      <3>3. \E f : fate' = [fate EXCEPT ![deferred[NextDeferred]] = f]
        BY <2>1 DEF TakeDeferred
      <3> QED
        BY <1>0, <3>2, <3>3
    <2>2. CASE TakeInbound
      <3>1. \/ Head(bus) \in Mine /\ fate' = [fate EXCEPT ![Head(bus)] = "started"]
            \/ fate' = [fate EXCEPT ![Head(bus)] = "routed"]
        BY <2>2 DEF TakeInbound
      <3> QED
        BY <1>0, <3>1
    <2>3. CASE ~TakeDeferred /\ ~TakeInbound
      <3>1. ASSUME NEW m \in Message PROVE fate'[m] = fate[m] \/ fate'[m] # "started"
        BY <1>0, <2>3 DEF Next, People, Send, Withdraw, SendNow, SendNowStop, RetryTurn, UserStop,
           AgentStop, BetweenTurns, IdleStop, IdleRetry, RewriteHistory,
           IdleAgentStop, Channels, MidTurnMessage, MidTurnStop, MidTurnRetry, MidTurnAgentStop,
           Turn, Opened, Begin, TakeInterrupt, CheckStop, NextCall, EndTurn, Finish,
           IntoLeftovers, Left, DeferLate, Shutdown
      <3> QED
        BY <3>1
    <2> QED
      BY <2>1, <2>2, <2>3
  <1> QED
    BY <1>1, <1>2

LEMMA RestStep == PlaceInv /\ StopInv /\ HopInv /\ RestTyped /\ [Next]_vars => RestTyped'
  <1>1. CASE UNCHANGED vars
    BY <1>1 DEF RestTyped, LoopTyped, FlagsTyped, ChannelsTyped, PeopleTyped, vars, waitVars,
                turnVars, stopVars, retryVars, hopVars
  <1> QED
    BY <1>1, LoopStep, FlagsStep, ChannelsTypedStep, PeopleTypedStep DEF RestTyped

\* TypeOK is what the four invariants say together: held messages are a person's
\* because the list names no others.
LEMMA InvariantsType == PlaceInv /\ StopInv /\ HopInv /\ RestTyped => TypeOK
  <1> SUFFICES ASSUME PlaceInv, StopInv, HopInv, RestTyped PROVE TypeOK
    OBVIOUS
  <1>1. held \in Seq(Person)
    <2>1. held \in Seq(Mine) /\ Agent \cap Range(held) = {}
      BY DEF PlaceInv, QueuesTyped, HopInv, ListIsPersons
    <2>2. \A i \in DOMAIN held : held[i] \in Mine /\ held[i] \in Range(held)
      BY <2>1 DEF Range
    <2>3. \A i \in DOMAIN held : held[i] \in Person
      BY <2>1, <2>2 DEF Mine
    <2>4. held \in [1 .. Len(held) -> Person] /\ Len(held) \in Nat
      BY <2>1, <2>3
    <2> QED
      BY <2>4
  <1>2. mainHops \subseteq Agent /\ midHops \subseteq Agent /\ hop \in {0, 1} /\ kickoffHop \in {0, 1}
    BY DEF HopInv, HopsPlaced, HopsReset
  <1>3. stops \in Seq([names : Mine \cup {NoTurn}, seen : Nat]) /\ no \in Nat
    BY DEF StopInv, StopsTyped, Stop
  <1> QED
    BY <1>1, <1>2, <1>3
    DEF PlaceInv, QueuesTyped, RestTyped, LoopTyped, FlagsTyped, ChannelsTyped, PeopleTyped, TypeOK

\* The types of MainTurns, among them: the stop channel never holds more than its
\* capacity, only a person's messages are held, listed or sent now, only relayed ones
\* have hops, and no other conversation's message opens a turn.
THEOREM TypeCorrect == Spec => []TypeOK
  <1>1. Spec => []StopInv
    BY StopInvInit, StopInvStep, PTL DEF Spec
  <1>2. Spec => []HopInv
    BY PlaceInvHolds, HopInvInit, HopInvStep, PTL DEF Spec
  <1>3. Spec => []RestTyped
    BY <1>1, <1>2, PlaceInvHolds, RestInit, RestStep, PTL DEF Spec
  <1> QED
    BY <1>1, <1>2, <1>3, PlaceInvHolds, InvariantsType, PTL
=============================================================================
