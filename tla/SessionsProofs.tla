--------------------------- MODULE SessionsProofs ---------------------------
(***************************************************************************)
(* Proofs about module Sessions, for any addresses, messages and bounds.   *)
(***************************************************************************)
EXTENDS Sessions, FiniteSetTheorems, TLAPS

-----------------------------------------------------------------------------
(* Type correctness.                                                       *)

\* What an outcome says of the entry it was read from.
LEMMA OutcomeFacts ==
    ASSUME TypeOK, NEW a \in Addresses
    PROVE  /\ Outcome(a) \in {"NotLive", "Completing", "Full", "Delivered"}
           /\ Outcome(a) = "NotLive" <=> entry[a] = NoRun
           /\ Outcome(a) = "Completing" => entry[a] \in Run /\ state[a] = "completing"
           /\ Outcome(a) = "Delivered" =>
                entry[a] \in Run /\ Len(chan[entry[a]]) < Capacity
    BY SessionsAssumption DEF Outcome, TypeOK, Run, NoRun

\* Pushing a message that fits keeps the channels well-typed and bounded.
LEMMA PushType ==
    ASSUME TypeOK, NEW a \in Addresses, NEW m \in Message,
           Outcome(a) = "Delivered", Push(a, m)
    PROVE  chan' \in [Run -> Seq(Message)] /\ \A r \in Run : Len(chan'[r]) <= Capacity
<1>1. entry[a] \in Run /\ Len(chan[entry[a]]) < Capacity
    BY OutcomeFacts
<1>2. Append(chan[entry[a]], m) \in Seq(Message)
      /\ Len(Append(chan[entry[a]], m)) = Len(chan[entry[a]]) + 1
    BY <1>1 DEF TypeOK
<1>3. QED
    BY <1>1, <1>2, SessionsAssumption DEF Push, TypeOK

\* Settling with a fate of the list keeps the fates well-typed.
LEMMA SettleType ==
    ASSUME TypeOK, NEW ms, NEW f \in Fate, Settle(ms, f)
    PROVE  fate' \in [Message -> Fate]
    BY DEF TypeOK, Settle

\* A new detached delivery is well-typed.
LEMMA DeferType ==
    ASSUME TypeOK, NEW from \in {"send", "deferred"}, NEW at \in {"try", "wait", "resume"},
           NEW a \in Addresses, NEW ms \in Batch, Defer(from, at, a, ms)
    PROVE  deferred' \in SUBSET Deferred
<1>1. [from |-> from, pc |-> at, addr |-> a, msgs |-> ms] \in Deferred
    BY DEF Deferred
<1>2. QED
    BY <1>1 DEF Defer, TypeOK

\* The initial state is well-typed.
LEMMA TypeInit == Init => TypeOK
<1> SUFFICES ASSUME Init PROVE TypeOK
    OBVIOUS
<1>1. (CHOOSE a \in Addresses : TRUE) \in Addresses
    BY SessionsAssumption
<1>2. QED
    BY <1>1, SessionsAssumption
    DEF Init, TypeOK, Run, NoRun, NoPoint, SessionState, PC, Fate

\* Each kind of step keeps the types.
LEMMA TypeSender ==
    ASSUME TypeOK, NEW m \in Message, Sender(m)
    PROVE  TypeOK'
<1> DEFINE a == Dest[m]
<1>0. a \in Addresses /\ <<m>> \in Batch
    BY SessionsAssumption DEF Batch
<1> HIDE DEF a
<1>1. CASE Send(m)
  <2>1. CASE Outcome(a) = "Delivered" /\ Push(a, m) /\ Settle({m}, "pending")
             /\ UNCHANGED deferred
    BY <1>1, <1>0, <2>1, PushType, SettleType DEF Send, TypeOK, registry, run, Fate
  <2>2. CASE Settle({m}, "refused") /\ UNCHANGED <<chan, deferred>>
    BY <1>1, <2>2, SettleType DEF Send, TypeOK, registry, run, Fate
  <2>3. CASE /\ \/ Defer("deferred", "try", a, <<m>>)
                \/ Defer("send", "resume", a, <<m>>)
             /\ Settle({m}, "pending") /\ UNCHANGED chan
    <3>1. deferred' \in SUBSET Deferred
        BY <2>3, <1>0, DeferType
    <3>2. QED
        BY <3>1, <1>1, <2>3, SettleType DEF Send, TypeOK, registry, run, Fate
  <2>4. QED
    BY <1>1, <2>1, <2>2, <2>3 DEF Send, a
<1>2. CASE DeliverConversation(m)
  <2>1. CASE Outcome(a) = "Delivered" /\ Push(a, m) /\ UNCHANGED deferred
    BY <1>2, <1>0, <2>1, PushType, SettleType
    DEF DeliverConversation, TypeOK, registry, run, Fate
  <2>2. CASE /\ \/ Defer("deferred", "try", a, <<m>>)
                \/ Defer("send", "resume", a, <<m>>)
             /\ UNCHANGED chan
    <3>1. deferred' \in SUBSET Deferred
        BY <2>2, <1>0, DeferType
    <3>2. QED
        BY <3>1, <1>2, <2>2, SettleType DEF DeliverConversation, TypeOK, registry, run, Fate
  <2>3. QED
    BY <1>2, <2>1, <2>2 DEF DeliverConversation, a
<1>3. CASE RequestTask(m)
  <2>1. [addr |-> a, form |-> "task", msgs |-> <<m>>] \in Request
    BY <1>0 DEF Request
  <2>2. requests' \in Seq(Request)
    BY <1>3, <2>1 DEF RequestTask, TypeOK, a
  <2>3. QED
    BY <1>3, <2>2, SettleType DEF RequestTask, TypeOK, registry, run, Fate
<1>4. QED
    BY <1>1, <1>2, <1>3 DEF Sender

\* A batch starts with a message, and what follows the first is a batch.
LEMMA BatchFacts ==
    ASSUME NEW ms \in Batch
    PROVE  /\ Head(ms) \in Message
           /\ Len(ms) # 1 => Tail(ms) \in Batch
<1>1. ms \in Seq(Message) /\ ms # <<>> /\ Len(ms) \in Nat \ {0}
    BY DEF Batch
<1>2. Head(ms) \in Message
    BY <1>1
<1>3. Tail(ms) \in Seq(Message) /\ Len(Tail(ms)) = Len(ms) - 1
    BY <1>1
<1>4. Len(ms) # 1 => Tail(ms) # <<>>
  <2>1. Len(ms) # 1 => Len(Tail(ms)) # 0
    BY <1>1, <1>3
  <2>2. \A s \in Seq(Message) : s = <<>> => Len(s) = 0
    OBVIOUS
  <2>3. QED
    BY <1>3, <2>1, <2>2
<1>5. QED
    BY <1>2, <1>3, <1>4 DEF Batch

\* A step of a detached delivery keeps the types.
LEMMA TypeDelivery ==
    ASSUME TypeOK, NEW t \in deferred, Delivery(t)
    PROVE  TypeOK'
<1> DEFINE m == Head(t.msgs)
<1>0. t \in Deferred /\ t.addr \in Addresses /\ t.msgs \in Batch /\ m \in Message
    BY BatchFacts DEF TypeOK, Deferred
<1>a. Advance(t) \subseteq Deferred
  <2>1. CASE Len(t.msgs) = 1
    BY <2>1 DEF Advance
  <2>2. CASE Len(t.msgs) # 1
    <3>1. Tail(t.msgs) \in Batch
        BY <1>0, <2>2, BatchFacts
    <3>2. QED
        BY <1>0, <2>2, <3>1 DEF Advance, Deferred
  <2>3. QED
    BY <2>1, <2>2
<1>b. \A new : new \subseteq Deferred /\ Replace(t, new) => deferred' \in SUBSET Deferred
    BY DEF Replace, TypeOK
<1>c. \A l \in {"try", "wait", "resume"} : [t EXCEPT !.pc = l] \in Deferred
    BY <1>0 DEF Deferred
<1> HIDE DEF m
<1>1. CASE TryDeliver(t)
  <2>1. CASE Outcome(t.addr) = "Delivered" /\ Push(t.addr, m) /\ Replace(t, Advance(t))
             /\ UNCHANGED fate
    <3>1. deferred' \in SUBSET Deferred
        BY <2>1, <1>a, <1>b
    <3>2. QED
        BY <3>1, <1>1, <1>0, <2>1, PushType DEF TryDeliver, TypeOK, registry, run
  <2>2. CASE /\ \/ Replace(t, {[t EXCEPT !.pc = "wait"]})
                \/ Replace(t, {[t EXCEPT !.pc = "resume"]})
             /\ UNCHANGED <<chan, fate>>
    <3>1. deferred' \in SUBSET Deferred
      <4>1. CASE Replace(t, {[t EXCEPT !.pc = "wait"]})
        BY <4>1, <1>b, <1>c
      <4>2. CASE Replace(t, {[t EXCEPT !.pc = "resume"]})
        BY <4>2, <1>b, <1>c
      <4>3. QED
        BY <2>2, <4>1, <4>2
    <3>2. QED
        BY <3>1, <1>1, <2>2 DEF TryDeliver, TypeOK, registry, run
  <2>3. CASE Replace(t, Advance(t)) /\ Settle({m}, "refused") /\ UNCHANGED chan
    <3>1. deferred' \in SUBSET Deferred
        BY <2>3, <1>a, <1>b
    <3>2. QED
        BY <3>1, <1>1, <2>3, SettleType DEF TryDeliver, TypeOK, registry, run, Fate
  <2>4. QED
    BY <1>1, <2>1, <2>2, <2>3 DEF TryDeliver, m
<1>2. CASE TryDeliverChat(t)
  <2>1. CASE Outcome(t.addr) = "Delivered" /\ Push(t.addr, m) /\ Replace(t, Advance(t))
    <3>1. deferred' \in SUBSET Deferred
        BY <2>1, <1>a, <1>b
    <3>2. QED
        BY <3>1, <1>2, <1>0, <2>1, PushType DEF TryDeliverChat, TypeOK, registry, run
  <2>2. CASE /\ \/ Replace(t, {[t EXCEPT !.pc = "wait"]})
                \/ Replace(t, {[t EXCEPT !.pc = "resume"]})
             /\ UNCHANGED chan
    <3>1. deferred' \in SUBSET Deferred
      <4>1. CASE Replace(t, {[t EXCEPT !.pc = "wait"]})
        BY <4>1, <1>b, <1>c
      <4>2. CASE Replace(t, {[t EXCEPT !.pc = "resume"]})
        BY <4>2, <1>b, <1>c
      <4>3. QED
        BY <2>2, <4>1, <4>2
    <3>2. QED
        BY <3>1, <1>2, <2>2 DEF TryDeliverChat, TypeOK, registry, run
  <2>3. QED
    BY <1>2, <2>1, <2>2 DEF TryDeliverChat, m
<1>3. CASE WaitClear(t)
  <2>1. deferred' \in SUBSET Deferred
    BY <1>3, <1>b, <1>c DEF WaitClear
  <2>2. QED
    BY <1>3, <2>1 DEF WaitClear, TypeOK, registry, run
<1>d. Resume(t.addr, m) \/ UNCHANGED requests => requests' \in Seq(Request)
  <2>1. [addr |-> t.addr, form |-> "messages", msgs |-> <<m>>] \in Request
    BY <1>0 DEF Request, Batch
  <2>2. requests \in Seq(Request)
    BY DEF TypeOK
  <2>3. QED
    BY <2>1, <2>2 DEF Resume
<1>4. CASE PublishResume(t)
  <2>1. deferred' \in SUBSET Deferred
    BY <1>4, <1>a, <1>b DEF PublishResume
  <2>2. requests' \in Seq(Request)
    BY <1>4, <1>d DEF PublishResume, m
  <2>3. fate' \in [Message -> Fate]
    <3>1. CASE UNCHANGED fate
        BY <3>1 DEF TypeOK
    <3>2. CASE Settle({m}, IF t.from = "send" THEN "unknown" ELSE "no_point")
        BY <3>2, SettleType DEF Fate
    <3>3. QED
        BY <1>4, <3>1, <3>2 DEF PublishResume, m
  <2>4. QED
    BY <1>4, <2>1, <2>2, <2>3 DEF PublishResume, TypeOK, registry, run
<1>5. CASE PublishConversation(t)
  <2>1. deferred' \in SUBSET Deferred
    BY <1>5, <1>a, <1>b DEF PublishConversation
  <2>2. requests' \in Seq(Request)
    BY <1>5, <1>d DEF PublishConversation, m
  <2>3. QED
    BY <1>5, <2>1, <2>2 DEF PublishConversation, TypeOK, registry, run
<1>6. QED
    BY <1>1, <1>2, <1>3, <1>4, <1>5 DEF Delivery

\* Taking a request off the topic keeps the types.
LEMMA TypeListener ==
    ASSUME TypeOK, ListenerRecv
    PROVE  TypeOK'
<1>1. Head(requests) \in Request /\ Tail(requests) \in Seq(Request)
    BY DEF ListenerRecv, TypeOK
<1>2. [by |-> "listener", pc |-> "check", req |-> Head(requests)] \in Handler
    BY <1>1 DEF Handler
<1>3. QED
    BY <1>1, <1>2 DEF ListenerRecv, TypeOK, registry, run

\* A step in the handling of a spawn request keeps the types.
LEMMA TypeHandling ==
    ASSUME TypeOK, NEW h \in handlers, Handling(h)
    PROVE  TypeOK'
<1> DEFINE a == h.req.addr
           m == Head(h.req.msgs)
<1>0. h \in Handler /\ h.req \in Request /\ a \in Addresses /\ h.req.msgs \in Batch
      /\ m \in Message
    BY BatchFacts DEF TypeOK, Handler, Request
<1>b. \A new : new \subseteq Handler /\ Become(h, new) => handlers' \in SUBSET Handler
    BY DEF Become, TypeOK
<1>c. \A l \in {"check", "losing", "build", "wait"} :
        [h EXCEPT !.pc = l] \in Handler /\ [h EXCEPT !.pc = l, !.by = "task"] \in Handler
    BY <1>0 DEF Handler
<1>d. Become(h, {}) => handlers' \in SUBSET Handler
    BY <1>b
<1> HIDE DEF a, m
<1>1. CASE CheckAddress(h)
  <2>1. handlers' \in SUBSET Handler
    BY <1>1, <1>b, <1>c DEF CheckAddress
  <2>2. QED
    BY <1>1, <2>1 DEF CheckAddress, TypeOK, registry, run
<1>2. CASE WaitSpawn(h)
  <2>1. handlers' \in SUBSET Handler
    BY <1>2, <1>b, <1>c DEF WaitSpawn
  <2>2. QED
    BY <1>2, <2>1 DEF WaitSpawn, TypeOK, registry, run
<1>3. CASE DeliverLosing(h)
  <2>r. LosingRest(h) \subseteq Handler
    <3>1. CASE Len(h.req.msgs) = 1
        BY <3>1 DEF LosingRest
    <3>2. CASE Len(h.req.msgs) # 1
      <4>1. Tail(h.req.msgs) \in Batch
        BY <1>0, <3>2, BatchFacts
      <4>2. [h.req EXCEPT !.msgs = Tail(@)] \in Request
        BY <1>0, <4>1 DEF Request
      <4>3. [h EXCEPT !.req.msgs = Tail(@)] \in Handler
        BY <1>0, <4>2 DEF Handler
      <4>4. QED
        BY <3>2, <4>3 DEF LosingRest
    <3>3. QED
        BY <3>1, <3>2
  <2>h. Become(h, LosingRest(h)) \/ Become(h, {}) => handlers' \in SUBSET Handler
    BY <2>r, <1>b, <1>d
  <2>1. CASE Outcome(a) = "Delivered" /\ Push(a, m) /\ Become(h, LosingRest(h))
             /\ UNCHANGED <<deferred, fate>>
    BY <1>3, <1>0, <2>h, <2>1, PushType DEF DeliverLosing, TypeOK, registry, run
  <2>2. CASE Become(h, LosingRest(h)) /\ Settle({m}, "refused") /\ UNCHANGED <<chan, deferred>>
    BY <1>3, <2>h, <2>2, SettleType DEF DeliverLosing, TypeOK, registry, run, Fate
  <2>3. CASE Become(h, {}) /\ Defer("deferred", "try", a, h.req.msgs)
             /\ UNCHANGED <<chan, fate>>
    <3>1. deferred' \in SUBSET Deferred
        BY <1>0, <2>3, DeferType
    <3>2. QED
        BY <1>3, <2>h, <2>3, <3>1 DEF DeliverLosing, TypeOK, registry, run
  <2>4. QED
    BY <1>3, <2>1, <2>2, <2>3 DEF DeliverLosing, a, m
<1>4. CASE BuildFails(h)
    BY <1>4, <1>d, SettleType DEF BuildFails, TypeOK, registry, run, Fate
<1>5. CASE Spawn(h)
  <2>1. nextRun \in Run /\ nextRun + 1 \in 1 .. MaxRuns + 1
    BY <1>5, SessionsAssumption DEF Spawn, TypeOK, Run
  <2>2. entry' \in [Addresses -> Run \cup {NoRun}] /\ state' \in [Addresses -> SessionState]
    <3>1. entry' = [entry EXCEPT ![a] = nextRun] /\ state' = [state EXCEPT ![a] = "forking"]
        BY <1>5 DEF Spawn, a
    <3>2. QED
        BY <3>1, <1>0, <2>1 DEF TypeOK, SessionState
  <2>3. addr' \in [Run -> Addresses] /\ pc' \in [Run -> PC]
        /\ kickoff' \in [Run -> Seq(Message)] /\ nextRun' \in 1 .. MaxRuns + 1
    BY <1>5, <1>0, <2>1 DEF Spawn, TypeOK, PC, Batch, a
  <2>4. handlers' \in SUBSET Handler
    BY <1>5, <1>d DEF Spawn
  <2>5. QED
    BY <1>5, <2>2, <2>3, <2>4 DEF Spawn, TypeOK
<1>6. CASE LoseSpawn(h)
  <2>1. handlers' \in SUBSET Handler
    BY <1>6, <1>b, <1>c DEF LoseSpawn
  <2>2. QED
    BY <1>6, <2>1 DEF LoseSpawn, TypeOK, registry, run
<1>7. QED
    BY <1>1, <1>2, <1>3, <1>4, <1>5, <1>6 DEF Handling

\* set_state keeps the states well-typed.
LEMMA SetStateType ==
    ASSUME TypeOK, NEW a \in Addresses, NEW st \in SessionState, SetState(a, st)
    PROVE  state' \in [Addresses -> SessionState]
    BY DEF TypeOK, SetState

\* A task that moves keeps the places well-typed.
LEMMA GotoType ==
    ASSUME TypeOK, NEW r \in Run, NEW l \in PC, Goto(r, l)
    PROVE  pc' \in [Run -> PC]
    BY DEF TypeOK, Goto

\* record_resume_point keeps the points well-typed.
LEMMA RecordType ==
    ASSUME TypeOK, NEW r \in Run, NEW b \in BOOLEAN, RecordResumePoint(r, b)
    PROVE  point' \in [Addresses -> [run : Run \cup {NoRun}, merged : BOOLEAN]]
<1>1. [run |-> r, merged |-> b] \in [run : Run \cup {NoRun}, merged : BOOLEAN]
    OBVIOUS
<1>2. QED
    BY <1>1 DEF TypeOK, RecordResumePoint

\* The opening of a resumed run is a batch when there is anything left over.
LEMMA OpeningsAreBatches ==
    ASSUME NEW s \in Seq(Message), s # <<>>, NEW t \in Openings(s)
    PROVE  t \in Batch
<1>1. Len(s) \in Nat \ {0} /\ DOMAIN s = 1 .. Len(s) /\ Range(s) \subseteq Message
    BY DEF Range
<1>2. t \in [1 .. Len(s) -> Message]
    BY <1>1 DEF Openings
<1>3. t \in Seq(Message) /\ Len(t) = Len(s)
    BY <1>1, <1>2
<1>4. \A q \in Seq(Message) : q = <<>> => Len(q) = 0
    OBVIOUS
<1>5. QED
    BY <1>1, <1>3, <1>4 DEF Batch

\* A step of a run, a panic included, keeps the types.
LEMMA TypeRunStep ==
    ASSUME TypeOK, NEW r \in Run, RunStep(r) \/ Panic(r)
    PROVE  TypeOK'
<1>0. addr[r] \in Addresses /\ chan[r] \in Seq(Message) /\ kickoff[r] \in Seq(Message)
      /\ leftover[r] \in Seq(Message)
    BY DEF TypeOK
<1>e. [chan EXCEPT ![r] = <<>>] \in [Run -> Seq(Message)]
      /\ \A q \in Run : Len([chan EXCEPT ![r] = <<>>][q]) <= Capacity
    BY SessionsAssumption DEF TypeOK
<1>k. [kickoff EXCEPT ![r] = <<>>] \in [Run -> Seq(Message)]
      /\ [leftover EXCEPT ![r] = <<>>] \in [Run -> Seq(Message)]
    BY DEF TypeOK
<1>1. CASE Begin(r)
    BY <1>0, <1>1, SetStateType, GotoType, RecordType
    DEF Begin, TypeOK, SessionState, PC
<1>2. CASE StopQueued(r)
    BY <1>2, <1>k, GotoType, SettleType DEF StopQueued, TypeOK, registry, PC, Fate
<1>3. CASE StartTurn(r)
    BY <1>0, <1>3, <1>k, SetStateType, GotoType, SettleType
    DEF StartTurn, TypeOK, SessionState, PC, Fate
<1>4. CASE Checkpoint(r)
    BY <1>4, <1>e, SettleType DEF Checkpoint, TypeOK, registry, run, Fate
<1>5. CASE EndTurn(r)
    BY <1>5, GotoType DEF EndTurn, TypeOK, registry, PC
<1>6. CASE GoIdle(r)
    BY <1>0, <1>6, SetStateType, GotoType DEF GoIdle, TypeOK, SessionState, PC
<1>7. CASE StopIdle(r)
    BY <1>7, GotoType DEF StopIdle, TypeOK, registry, PC
<1>8. CASE Wake(r)
  <2>1. Head(chan[r]) \in Message /\ Tail(chan[r]) \in Seq(Message)
        /\ Len(Tail(chan[r])) <= Len(chan[r])
    BY <1>0, <1>8 DEF Wake
  <2>2. chan' \in [Run -> Seq(Message)] /\ \A q \in Run : Len(chan'[q]) <= Capacity
    <3>1. chan' = [chan EXCEPT ![r] = Tail(chan[r])]
        BY <1>8 DEF Wake
    <3>2. Len(Tail(chan[r])) <= Capacity
        BY <1>0, <2>1, SessionsAssumption DEF TypeOK
    <3>3. QED
        BY <2>1, <3>1, <3>2 DEF TypeOK
  <2>3. <<Head(chan[r])>> \in Seq(Message)
    BY <2>1
  <2>4. kickoff' \in [Run -> Seq(Message)]
    BY <1>8, <2>3 DEF Wake, TypeOK
  <2>5. QED
    BY <1>0, <1>8, <2>2, <2>4, SetStateType, GotoType DEF Wake, TypeOK, SessionState, PC
<1>9. CASE IdleTimeout(r)
    BY <1>9, GotoType DEF IdleTimeout, TypeOK, registry, PC
<1>10. CASE Drain(r)
  <2>1. leftover' \in [Run -> Seq(Message)]
    BY <1>0, <1>10 DEF Drain, TypeOK
  <2>2. QED
    BY <1>10, <1>e, <2>1, GotoType DEF Drain, TypeOK, registry, PC
<1>11. CASE SetCompleting(r)
    BY <1>0, <1>11, SetStateType, GotoType DEF SetCompleting, TypeOK, SessionState, PC
<1>12. CASE Panic(r)
    BY <1>12, <1>e, <1>k, GotoType, SettleType DEF Panic, TypeOK, registry, PC, Fate
<1>13. CASE Recover(r)
    BY <1>0, <1>13, SetStateType, GotoType DEF Recover, TypeOK, SessionState, PC
<1>14. CASE RecordPoint(r)
    BY <1>14, RecordType, GotoType DEF RecordPoint, TypeOK, PC
<1>15. CASE Remove(r)
  <2>1. entry' \in [Addresses -> Run \cup {NoRun}] /\ state' \in [Addresses -> SessionState]
    BY <1>0, <1>15 DEF Remove, TypeOK, SessionState
  <2>2. QED
    BY <1>15, <2>1, GotoType DEF Remove, TypeOK, PC
<1>16. CASE ResumeLeftover(r)
  <2>1. requests' \in Seq(Request)
    <3>1. CASE leftover[r] = <<>>
        BY <1>16, <3>1 DEF ResumeLeftover, TypeOK
    <3>2. CASE leftover[r] # <<>>
      <4>1. PICK opening \in Openings(leftover[r]) :
                requests' = Append(requests, [addr |-> addr[r], form |-> "messages",
                                              msgs |-> opening])
        BY <1>16, <3>2 DEF ResumeLeftover
      <4>2. opening \in Batch
        BY <1>0, <3>2, <4>1, OpeningsAreBatches
      <4>3. [addr |-> addr[r], form |-> "messages", msgs |-> opening] \in Request
        BY <1>0, <4>2 DEF Request
      <4>4. requests \in Seq(Request)
        BY DEF TypeOK
      <4>5. QED
        BY <4>1, <4>3, <4>4
    <3>3. QED
        BY <3>1, <3>2
  <2>2. QED
    BY <1>16, <1>e, <1>k, <2>1, GotoType, SettleType
    DEF ResumeLeftover, TypeOK, registry, PC, Fate
<1>17. QED
    BY <1>1, <1>2, <1>3, <1>4, <1>5, <1>6, <1>7, <1>8, <1>9, <1>10, <1>11, <1>12, <1>13,
       <1>14, <1>15, <1>16 DEF RunStep

\* Stopping a run keeps the types.
LEMMA TypeStop ==
    ASSUME TypeOK, NEW a \in Addresses, Stop(a) \/ StopIfRunning(a)
    PROVE  TypeOK'
<1>1. entry[a] \in Run
    BY DEF Stop, StopIfRunning, TypeOK
<1>2. QED
    BY <1>1 DEF Stop, StopIfRunning, TypeOK, registry, run

\* So does stopping every run.
LEMMA TypeStopAll ==
    ASSUME TypeOK, StopAll
    PROVE  TypeOK'
<1>1. \A a \in Addresses : entry[a] # NoRun => entry[a] \in Run
    BY DEF TypeOK
<1>2. cancelled' \subseteq Run
    BY <1>1 DEF StopAll, TypeOK
<1>3. QED
    BY <1>2 DEF StopAll, TypeOK, registry, run

\* The types hold in every state, for any number of addresses, messages and
\* runs: in particular no interrupt channel exceeds its capacity, and no
\* request, handler or deferred delivery is ever left without a message.
THEOREM TypeCorrect == Spec => []TypeOK
<1>1. TypeOK /\ [Next]_vars => TypeOK'
  <2> SUFFICES ASSUME TypeOK, [Next]_vars PROVE TypeOK'
    OBVIOUS
  <2>1. CASE UNCHANGED vars
    BY <2>1 DEF vars, registry, run, TypeOK
  <2>2. CASE Next
    BY <2>2, TypeSender, TypeDelivery, TypeListener, TypeHandling, TypeRunStep, TypeStop,
       TypeStopAll
    DEF Next
  <2>3. QED
    BY <2>1, <2>2
<1>2. QED
    BY TypeInit, <1>1, PTL DEF Spec

-----------------------------------------------------------------------------
(* The registry.  LiveRunIsRegistered is not inductive: a run may register *)
(* where no entry is, so the entries must be known to name every live run, *)
(* and ids must be fresh.  ResumePointIsNewest needs, besides, that the    *)
(* registered run is the newest of its address and that it has recorded    *)
(* its own point by the time it leaves.                                    *)

\* Run ids are handed out in order.
IdsInOrder == \A r \in Run : pc[r] # "unborn" <=> r < nextRun

\* An entry names a live run of its own address.
EntryIsLive == \A a \in Addresses : entry[a] # NoRun => Live(entry[a]) /\ addr[entry[a]] = a

\* No younger run than the live one has been at its address.
LiveIsNewest ==
    \A r, q \in Run : Live(r) /\ pc[q] # "unborn" /\ addr[q] = addr[r] => q <= r

\* A point names a run that exists.
PointIsBorn == \A a \in Addresses : point[a].run < nextRun

\* The run about to leave has recorded its final point, and nobody has
\* overwritten it.
RecordedStands ==
    \A r \in Run : pc[r] = "recorded" => point[addr[r]] = [run |-> r, merged |-> TRUE]

RegistryInv ==
    /\ IdsInOrder
    /\ EntryIsLive
    /\ LiveRunIsRegistered
    /\ LiveIsNewest
    /\ PointIsBorn
    /\ RecordedStands
    /\ ResumePointIsNewest

\* A step that leaves the entries, the points and every pc alone.
LEMMA RegistryUntouched ==
    ASSUME TypeOK, RegistryInv, UNCHANGED <<entry, point, nextRun, addr, pc>>
    PROVE  RegistryInv'
    BY DEF RegistryInv, IdsInOrder, EntryIsLive, LiveRunIsRegistered, LiveIsNewest, PointIsBorn,
           RecordedStands, ResumePointIsNewest, Live, Ended

\* A live run moves to another place in its task, short of leaving and of
\* having recorded its final point.
LEMMA RegistryMove ==
    ASSUME TypeOK, RegistryInv, NEW r \in Run, NEW l \in PC,
           Live(r), l \notin Ended \cup {"unborn", "recorded"}, Goto(r, l),
           UNCHANGED <<entry, point, nextRun, addr>>
    PROVE  RegistryInv'
<1>1. pc' = [pc EXCEPT ![r] = l] /\ pc[r] # "unborn" /\ pc \in [Run -> PC]
    BY DEF Goto, Live, TypeOK
<1>2. \A q \in Run : /\ Live(q)' <=> Live(q)
                     /\ pc'[q] = "unborn" <=> pc[q] = "unborn"
                     /\ pc'[q] = "recorded" => pc[q] = "recorded"
    BY <1>1 DEF Live
<1>3. \A a \in Addresses : entry[a] # NoRun => entry[a] \in Run
    BY DEF TypeOK
<1>4. QED
    BY <1>2, <1>3 DEF RegistryInv, IdsInOrder, EntryIsLive, LiveRunIsRegistered, LiveIsNewest,
           PointIsBorn, RecordedStands, ResumePointIsNewest

\* A live run records a resume point of its own.
LEMMA RegistryRecord ==
    ASSUME TypeOK, RegistryInv, NEW r \in Run, NEW b \in BOOLEAN, NEW l \in PC,
           Live(r), pc[r] # "recorded", RecordResumePoint(r, b), Goto(r, l),
           \/ b = TRUE /\ l = "recorded"
           \/ l \notin Ended \cup {"unborn", "recorded"},
           UNCHANGED <<entry, nextRun, addr>>
    PROVE  RegistryInv'
<1> DEFINE a == addr[r]
<1>0. a \in Addresses /\ entry[a] = r /\ entry[a] # NoRun
    BY DEF TypeOK, RegistryInv, LiveRunIsRegistered, Run, NoRun
<1>1. pc' = [pc EXCEPT ![r] = l] /\ pc[r] # "unborn" /\ pc \in [Run -> PC] /\ r < nextRun
    BY DEF Goto, Live, TypeOK, RegistryInv, IdsInOrder
<1>2. \A q \in Run : /\ Live(q)' <=> Live(q)
                     /\ pc'[q] = "unborn" <=> pc[q] = "unborn"
                     /\ q # r => pc'[q] = pc[q]
    BY <1>1 DEF Live, Ended
<1>3. /\ point'[a] = [run |-> r, merged |-> b]
      /\ \A x \in Addresses \ {a} : point'[x] = point[x]
    BY <1>0 DEF RecordResumePoint, TypeOK
<1>4. IdsInOrder' /\ EntryIsLive' /\ LiveRunIsRegistered' /\ LiveIsNewest'
  <2>1. \A x \in Addresses : entry[x] # NoRun => entry[x] \in Run
    BY DEF TypeOK
  <2>2. QED
    BY <1>2, <2>1 DEF RegistryInv, IdsInOrder, EntryIsLive, LiveRunIsRegistered, LiveIsNewest
<1>5. PointIsBorn'
    BY <1>1, <1>3 DEF RegistryInv, PointIsBorn
<1>6. RecordedStands'
  <2> SUFFICES ASSUME NEW q \in Run, pc'[q] = "recorded"
               PROVE  point'[addr[q]] = [run |-> q, merged |-> TRUE]
    BY DEF RecordedStands
  <2>1. CASE q = r
    BY <1>1, <1>3, <2>1 DEF Ended
  <2>2. CASE q # r
    <3>1. pc[q] = "recorded" /\ Live(q)
        BY <1>2, <2>2 DEF Live, Ended
    <3>2. addr[q] \in Addresses /\ addr[q] # a
        BY <3>1, <1>0, <2>2 DEF RegistryInv, LiveRunIsRegistered, TypeOK
    <3>3. QED
        BY <3>1, <3>2, <1>3 DEF RegistryInv, RecordedStands
  <2>3. QED
    BY <2>1, <2>2
<1>7. ResumePointIsNewest'
    BY <1>0, <1>2, <1>3 DEF RegistryInv, ResumePointIsNewest
<1>8. QED
    BY <1>4, <1>5, <1>6, <1>7 DEF RegistryInv

\* A run leaves the registry.
LEMMA RegistryRemove ==
    ASSUME TypeOK, RegistryInv, NEW r \in Run, Remove(r)
    PROVE  RegistryInv'
<1> DEFINE a == addr[r]
<1>0. a \in Addresses /\ entry[a] = r /\ Live(r)
    BY DEF TypeOK, RegistryInv, LiveRunIsRegistered, Remove, Live, Ended
<1>1. /\ pc' = [pc EXCEPT ![r] = "removed"]
      /\ entry' = [entry EXCEPT ![a] = NoRun]
      /\ UNCHANGED <<point, nextRun, addr>>
    BY <1>0 DEF Remove, Goto
<1>2. /\ \A q \in Run : pc'[q] = "unborn" <=> pc[q] = "unborn"
      /\ \A q \in Run : Live(q)' <=> Live(q) /\ q # r
      /\ \A q \in Run : pc'[q] = "recorded" => pc[q] = "recorded"
      /\ \A x \in Addresses : entry'[x] = IF x = a THEN NoRun ELSE entry[x]
    BY <1>0, <1>1 DEF TypeOK, Live, Ended, Remove
<1>3. IdsInOrder' /\ LiveIsNewest' /\ PointIsBorn' /\ RecordedStands'
    BY <1>1, <1>2 DEF RegistryInv, IdsInOrder, LiveIsNewest, PointIsBorn, RecordedStands
<1>4. EntryIsLive'
  <2> SUFFICES ASSUME NEW x \in Addresses, entry'[x] # NoRun
               PROVE  pc'[entry'[x]] \notin Ended \cup {"unborn"} /\ addr[entry'[x]] = x
    BY <1>1 DEF EntryIsLive, Live, Ended
  <2>1. x # a /\ entry'[x] = entry[x] /\ entry[x] \in Run
    BY <1>2 DEF TypeOK
  <2>2. Live(entry[x]) /\ addr[entry[x]] = x
    BY <2>1 DEF RegistryInv, EntryIsLive
  <2>3. entry[x] # r
    BY <2>1, <2>2
  <2>4. QED
    BY <1>2, <2>1, <2>2, <2>3 DEF Live, Ended
<1>5. LiveRunIsRegistered'
  <2> SUFFICES ASSUME NEW q \in Run, Live(q)'
               PROVE  entry'[addr[q]] = q
    BY <1>1 DEF LiveRunIsRegistered
  <2>1. Live(q) /\ q # r /\ entry[addr[q]] = q /\ addr[q] \in Addresses
    BY <1>2 DEF RegistryInv, LiveRunIsRegistered, TypeOK
  <2>2. QED
    BY <1>0, <1>2, <2>1
<1>6. ResumePointIsNewest'
  <2> SUFFICES ASSUME NEW x \in Addresses, entry'[x] = NoRun,
                      NEW q \in Run, pc'[q] # "unborn", addr[q] = x
               PROVE  point[x].merged /\ point[x].run >= q /\ addr[point[x].run] = x
    BY <1>1 DEF ResumePointIsNewest
  <2>1. CASE x = a
    <3>1. point[a] = [run |-> r, merged |-> TRUE]
        BY DEF RegistryInv, RecordedStands, Remove
    <3>2. q <= r
        BY <1>0, <1>2, <2>1 DEF RegistryInv, LiveIsNewest
    <3>3. QED
        BY <2>1, <3>1, <3>2 DEF Run
  <2>2. CASE x # a
    BY <1>2, <2>2 DEF RegistryInv, ResumePointIsNewest
  <2>3. QED
    BY <2>1, <2>2
<1>7. QED
    BY <1>3, <1>4, <1>5, <1>6 DEF RegistryInv

\* A run that has left ends.
LEMMA RegistryEnd ==
    ASSUME TypeOK, RegistryInv, NEW r \in Run, ResumeLeftover(r)
    PROVE  RegistryInv'
<1>1. /\ pc[r] = "removed" /\ pc' = [pc EXCEPT ![r] = "done"]
      /\ UNCHANGED <<entry, point, nextRun, addr>>
    BY DEF ResumeLeftover, Goto, registry
<1>2. \A q \in Run : /\ Live(q)' <=> Live(q)
                     /\ pc'[q] = "unborn" <=> pc[q] = "unborn"
                     /\ pc'[q] = "recorded" => pc[q] = "recorded"
    BY <1>1 DEF Live, Ended, TypeOK
<1>3. \A a \in Addresses : entry[a] # NoRun => entry[a] \in Run
    BY DEF TypeOK
<1>4. QED
    BY <1>1, <1>2, <1>3 DEF RegistryInv, IdsInOrder, EntryIsLive, LiveRunIsRegistered,
           LiveIsNewest, PointIsBorn, RecordedStands, ResumePointIsNewest

\* A run is registered at a free address.
LEMMA RegistrySpawn ==
    ASSUME TypeOK, RegistryInv, NEW h \in handlers, Spawn(h)
    PROVE  RegistryInv'
<1> DEFINE a == h.req.addr
           n == nextRun
<1>0. a \in Addresses /\ n \in Run /\ entry[a] = NoRun
    BY SessionsAssumption DEF TypeOK, Handler, Request, Spawn, Run
<1>1. /\ entry' = [entry EXCEPT ![a] = n] /\ addr' = [addr EXCEPT ![n] = a]
      /\ pc' = [pc EXCEPT ![n] = "forking"] /\ nextRun' = n + 1 /\ UNCHANGED point
    BY <1>0 DEF Spawn
<1>2. /\ pc'[n] = "forking" /\ addr'[n] = a /\ pc[n] = "unborn"
      /\ \A q \in Run \ {n} : pc'[q] = pc[q] /\ addr'[q] = addr[q]
      /\ \A x \in Addresses : entry'[x] = IF x = a THEN n ELSE entry[x]
    BY <1>0, <1>1 DEF TypeOK, RegistryInv, IdsInOrder, Run
<1>3. \A q \in Run : Live(q) => entry[addr[q]] = q /\ addr[q] # a /\ q # n /\ q < n
    BY <1>0, <1>2 DEF RegistryInv, LiveRunIsRegistered, IdsInOrder, Live, Run, NoRun
<1>4. \A q \in Run : pc'[q] # "unborn" <=> (q = n \/ pc[q] # "unborn")
    BY <1>2
<1>5. \A q \in Run : Live(q)' <=> (q = n \/ Live(q))
    BY <1>2 DEF Live, Ended
<1>6. IdsInOrder'
    BY <1>0, <1>1, <1>4 DEF RegistryInv, IdsInOrder, Run, TypeOK
<1>7. EntryIsLive'
  <2> SUFFICES ASSUME NEW x \in Addresses, entry'[x] # NoRun
               PROVE  pc'[entry'[x]] \notin Ended \cup {"unborn"} /\ addr'[entry'[x]] = x
    BY DEF EntryIsLive, Live, Ended
  <2>1. CASE x = a
    BY <1>2, <2>1 DEF Ended
  <2>2. CASE x # a
    <3>1. entry'[x] = entry[x] /\ entry[x] \in Run /\ Live(entry[x]) /\ addr[entry[x]] = x
        BY <1>2, <2>2 DEF TypeOK, RegistryInv, EntryIsLive
    <3>2. entry[x] # n
        BY <1>3, <3>1
    <3>3. QED
        BY <1>2, <3>1, <3>2 DEF Live, Ended
  <2>3. QED
    BY <2>1, <2>2
<1>8. LiveRunIsRegistered'
  <2> SUFFICES ASSUME NEW q \in Run, Live(q)'
               PROVE  entry'[addr'[q]] = q
    BY DEF LiveRunIsRegistered
  <2>1. CASE q = n
    BY <1>0, <1>2, <2>1
  <2>2. CASE q # n
    <3>1. Live(q) /\ addr[q] \in Addresses
        BY <1>5, <2>2 DEF TypeOK
    <3>2. QED
        BY <1>2, <1>3, <2>2, <3>1
  <2>3. QED
    BY <2>1, <2>2
<1>9. LiveIsNewest'
  <2> SUFFICES ASSUME NEW r \in Run, NEW q \in Run,
                      Live(r)', pc'[q] # "unborn", addr'[q] = addr'[r]
               PROVE  q <= r
    BY DEF LiveIsNewest
  <2>1. CASE r = n
    <3>1. q = n \/ q < n
        BY <1>4 DEF RegistryInv, IdsInOrder
    <3>2. QED
        BY <1>0, <2>1, <3>1 DEF Run
  <2>2. CASE r # n /\ q = n
    BY <1>2, <1>3, <1>5, <2>2
  <2>3. CASE r # n /\ q # n
    BY <1>2, <1>4, <1>5, <2>3 DEF RegistryInv, LiveIsNewest
  <2>4. QED
    BY <2>1, <2>2, <2>3
<1>10. PointIsBorn'
    BY <1>0, <1>1 DEF RegistryInv, PointIsBorn, TypeOK, Run, NoRun
<1>11. RecordedStands'
    BY <1>1, <1>2 DEF RegistryInv, RecordedStands
<1>12. ResumePointIsNewest'
  <2> SUFFICES ASSUME NEW x \in Addresses, entry'[x] = NoRun,
                      NEW q \in Run, pc'[q] # "unborn", addr'[q] = x
               PROVE  point[x].merged /\ point[x].run >= q /\ addr'[point[x].run] = x
    BY <1>1 DEF ResumePointIsNewest
  <2>1. x # a /\ entry[x] = NoRun
    BY <1>0, <1>2 DEF Run, NoRun
  <2>2. q # n /\ pc[q] # "unborn" /\ addr[q] = x
    BY <1>2, <1>4, <2>1
  <2>3. point[x].merged /\ point[x].run >= q /\ addr[point[x].run] = x
    BY <2>1, <2>2 DEF RegistryInv, ResumePointIsNewest
  <2>4. point[x].run \in Run \ {n}
    BY <2>3 DEF RegistryInv, PointIsBorn, TypeOK, Run, NoRun
  <2>5. QED
    BY <1>2, <2>3, <2>4
<1>13. QED
    BY <1>6, <1>7, <1>8, <1>9, <1>10, <1>11, <1>12 DEF RegistryInv

\* Each step of a run is of one of those shapes.
LEMMA RegistryRunStep ==
    ASSUME TypeOK, RegistryInv, NEW r \in Run, RunStep(r) \/ Panic(r)
    PROVE  RegistryInv'
<1>1. CASE Begin(r)
    BY <1>1, RegistryRecord DEF Begin, Live, Ended, PC
<1>2. CASE StopQueued(r)
    BY <1>2, RegistryMove DEF StopQueued, registry, Live, Ended, PC
<1>3. CASE StartTurn(r)
    BY <1>3, RegistryMove DEF StartTurn, Live, Ended, PC
<1>4. CASE Checkpoint(r)
    BY <1>4, RegistryUntouched DEF Checkpoint, registry, run
<1>5. CASE EndTurn(r)
    BY <1>5, RegistryMove DEF EndTurn, registry, Live, Ended, PC
<1>6. CASE GoIdle(r)
    BY <1>6, RegistryMove DEF GoIdle, Live, Ended, PC
<1>7. CASE StopIdle(r)
    BY <1>7, RegistryMove DEF StopIdle, registry, Live, Ended, PC
<1>8. CASE Wake(r)
    BY <1>8, RegistryMove DEF Wake, Live, Ended, PC
<1>9. CASE IdleTimeout(r)
    BY <1>9, RegistryMove DEF IdleTimeout, registry, Live, Ended, PC
<1>10. CASE Drain(r)
    BY <1>10, RegistryMove DEF Drain, registry, Live, Ended, PC
<1>11. CASE SetCompleting(r)
    BY <1>11, RegistryMove DEF SetCompleting, Live, Ended, PC
<1>12. CASE Panic(r)
    BY <1>12, RegistryMove DEF Panic, registry, Live, Ended, PC
<1>13. CASE Recover(r)
    BY <1>13, RegistryMove DEF Recover, Live, Ended, PC
<1>14. CASE RecordPoint(r)
    BY <1>14, RegistryRecord DEF RecordPoint, Live, Ended, PC
<1>15. CASE Remove(r)
    BY <1>15, RegistryRemove
<1>16. CASE ResumeLeftover(r)
    BY <1>16, RegistryEnd
<1>17. QED
    BY <1>1, <1>2, <1>3, <1>4, <1>5, <1>6, <1>7, <1>8, <1>9, <1>10, <1>11, <1>12, <1>13,
       <1>14, <1>15, <1>16 DEF RunStep

\* RegistryInv is inductive.
LEMMA RegistryNext ==
    ASSUME TypeOK, RegistryInv, [Next]_vars
    PROVE  RegistryInv'
<1>1. CASE UNCHANGED vars
    BY <1>1, RegistryUntouched DEF vars, registry, run
<1>2. CASE \E m \in Message : Sender(m)
    BY <1>2, RegistryUntouched
    DEF Sender, Send, DeliverConversation, RequestTask, registry, run
<1>3. CASE \E t \in deferred : Delivery(t)
    BY <1>3, RegistryUntouched
    DEF Delivery, TryDeliver, TryDeliverChat, WaitClear, PublishResume, PublishConversation,
        registry, run
<1>4. CASE ListenerRecv
    BY <1>4, RegistryUntouched DEF ListenerRecv, registry, run
<1>5. ASSUME NEW h \in handlers, Handling(h)
      PROVE  RegistryInv'
  <2>1. CASE Spawn(h)
    BY <2>1, RegistrySpawn
  <2>2. CASE \/ CheckAddress(h) \/ WaitSpawn(h) \/ DeliverLosing(h)
             \/ BuildFails(h) \/ LoseSpawn(h)
    BY <2>2, RegistryUntouched
    DEF CheckAddress, WaitSpawn, DeliverLosing, BuildFails, LoseSpawn, registry, run
  <2>3. QED
    BY <1>5, <2>1, <2>2 DEF Handling
<1>6. CASE \E r \in Run : RunStep(r) \/ Panic(r)
    BY <1>6, RegistryRunStep
<1>7. CASE \E a \in Addresses : Stop(a) \/ StopIfRunning(a)
    BY <1>7, RegistryUntouched DEF Stop, StopIfRunning, registry, run
<1>8. CASE StopAll
    BY <1>8, RegistryUntouched DEF StopAll, registry, run
<1>9. QED
    BY <1>1, <1>2, <1>3, <1>4, <1>5, <1>6, <1>7, <1>8 DEF Next

\* RegistryInv holds initially.
LEMMA RegistryInit == Init => RegistryInv
    BY SessionsAssumption
    DEF Init, RegistryInv, IdsInOrder, EntryIsLive, LiveRunIsRegistered, LiveIsNewest,
        PointIsBorn, RecordedStands, ResumePointIsNewest, Live, Ended, Run, NoRun, NoPoint

\* RegistryInv is an invariant of the specification.
LEMMA RegistryAlways == Spec => []RegistryInv
    BY TypeCorrect, RegistryInit, RegistryNext, PTL DEF Spec

\* A run whose task is alive is the one its address's entry names, whatever
\* the interleaving: set_state, which names only the address, never reaches
\* another run's entry, and remove's check of the run id never fails.
THEOREM LiveRunsAreRegistered == Spec => []LiveRunIsRegistered
<1>1. RegistryInv => LiveRunIsRegistered
    BY DEF RegistryInv
<1>2. QED
    BY <1>1, RegistryAlways, PTL

\* Two runs are never live at one address.
THEOREM SingleRunPerAddress == Spec => []OneRunPerAddress
<1>1. RegistryInv => OneRunPerAddress
    BY DEF RegistryInv, LiveRunIsRegistered, OneRunPerAddress
<1>2. QED
    BY <1>1, RegistryAlways, PTL

\* When an address has no run, its resume point is the merged one of the
\* newest run that was ever there.
THEOREM NewestPointKept == Spec => []ResumePointIsNewest
<1>1. RegistryInv => ResumePointIsNewest
    BY DEF RegistryInv
<1>2. QED
    BY <1>1, RegistryAlways, PTL

-----------------------------------------------------------------------------
(* Resume points only advance.  What a point names must be known to be a   *)
(* run of that address that has begun: the run that overwrites it is live, *)
(* so it is the same run or a younger one.                                 *)

PointIsOwn ==
    \A a \in Addresses : point[a].run # NoRun =>
        /\ point[a].run \in Run /\ addr[point[a].run] = a
        /\ pc[point[a].run] \notin {"unborn", "forking"}

\* A step that records nothing, and takes no run back to its fork.
LEMMA OwnAside ==
    ASSUME PointIsOwn, point' = point,
           \A q \in Run : pc[q] \notin {"unborn", "forking"} =>
               pc'[q] \notin {"unborn", "forking"} /\ addr'[q] = addr[q]
    PROVE  PointIsOwn'
    BY DEF PointIsOwn

\* Going to another place of the task.
LEMMA OwnGoto ==
    ASSUME TypeOK, PointIsOwn, point' = point, addr' = addr, NEW r \in Run,
           NEW l \in PC \ {"unborn", "forking"}, Goto(r, l)
    PROVE  PointIsOwn'
<1>1. \A q \in Run : pc'[q] = IF q = r THEN l ELSE pc[q]
    BY DEF Goto, TypeOK
<1>2. QED
    BY <1>1, OwnAside

\* A run records its own point: what it overwrites is older, or its own.
LEMMA OwnRecord ==
    ASSUME TypeOK, RegistryInv, PointIsOwn, NEW r \in Run, NEW b \in BOOLEAN,
           NEW l \in PC \ {"unborn", "forking"}, Live(r), RecordResumePoint(r, b), Goto(r, l),
           b \/ pc[r] = "forking", addr' = addr
    PROVE  /\ PointIsOwn'
           /\ \A a \in Addresses :
                 \/ point'[a].run > point[a].run
                 \/ point'[a].run = point[a].run /\ (point[a].merged => point'[a].merged)
<1>1. \A q \in Run : pc'[q] = IF q = r THEN l ELSE pc[q]
    BY DEF Goto, TypeOK
<1>2. /\ addr[r] \in Addresses /\ r \in Nat /\ r > 0
      /\ \A a \in Addresses :
            point'[a] = IF a = addr[r] THEN [run |-> r, merged |-> b] ELSE point[a]
    BY SessionsAssumption DEF RecordResumePoint, TypeOK, Run
<1>3. \A a \in Addresses : point[a].run \in Run \cup {NoRun} /\ point[a].merged \in BOOLEAN
    BY DEF TypeOK
<1>4. PointIsOwn'
  <2>1. ASSUME NEW a \in Addresses, point'[a].run # NoRun
        PROVE  /\ point'[a].run \in Run /\ addr'[point'[a].run] = a
               /\ pc'[point'[a].run] \notin {"unborn", "forking"}
    <3>1. CASE a = addr[r]
        BY <1>1, <1>2, <3>1
    <3>2. CASE a # addr[r]
      <4>1. point'[a] = point[a]
        BY <1>2, <3>2
      <4>2. point[a].run \in Run /\ addr[point[a].run] = a /\ pc[point[a].run] \notin {"unborn", "forking"}
        BY <2>1, <4>1 DEF PointIsOwn
      <4>3. QED
        BY <1>1, <4>1, <4>2
    <3>3. QED
        BY <3>1, <3>2
  <2>2. QED
    BY <2>1 DEF PointIsOwn
<1>5. ASSUME NEW a \in Addresses
      PROVE  \/ point'[a].run > point[a].run
             \/ point'[a].run = point[a].run /\ (point[a].merged => point'[a].merged)
  <2>1. CASE a # addr[r]
    BY <1>2, <2>1
  <2>2. CASE a = addr[r]
    <3>1. PICK o \in Run \cup {NoRun} : o = point[a].run
        BY <1>3
    <3>2. point'[a].run = r /\ point'[a].merged = b
        BY <1>2, <2>2
    <3>3. CASE o = NoRun
        BY <1>2, <3>1, <3>2, <3>3 DEF NoRun
    <3>4. CASE o # NoRun
      <4>1. o \in Run /\ addr[o] = addr[r] /\ pc[o] \notin {"unborn", "forking"}
        BY <2>2, <3>1, <3>4 DEF PointIsOwn
      <4>2. o <= r
        BY <4>1 DEF RegistryInv, LiveIsNewest
      <4>3. o = r => b
        BY <4>1
      <4>4. o \in Nat
        BY <4>1, SessionsAssumption DEF Run
      <4>5. o < r \/ (o = r /\ b)
        BY <1>2, <4>2, <4>3, <4>4
      <4>6. QED
        BY <1>2, <3>1, <3>2, <4>4, <4>5
    <3>5. QED
        BY <3>3, <3>4
  <2>3. QED
    BY <2>1, <2>2
<1>6. QED
    BY <1>4, <1>5

\* Every step keeps points their own and moves none back.
LEMMA PointStep ==
    ASSUME TypeOK, RegistryInv, PointIsOwn, [Next]_vars
    PROVE  /\ PointIsOwn'
           /\ \A a \in Addresses :
                 \/ point'[a].run > point[a].run
                 \/ point'[a].run = point[a].run /\ (point[a].merged => point'[a].merged)
<1>1. SUFFICES PointIsOwn' /\ (point' = point \/ \A a \in Addresses :
                 \/ point'[a].run > point[a].run
                 \/ point'[a].run = point[a].run /\ (point[a].merged => point'[a].merged))
    OBVIOUS
<1>2. CASE UNCHANGED <<point, addr, pc>>
    BY <1>2, OwnAside
<1>3. ASSUME NEW r \in Run, RunStep(r) \/ Panic(r), ~Begin(r), ~RecordPoint(r)
      PROVE  PointIsOwn' /\ point' = point
  <2>1. point' = point /\ addr' = addr
    BY <1>3 DEF RunStep, StopQueued, StartTurn, Checkpoint, EndTurn, GoIdle, StopIdle, Wake,
       IdleTimeout, Drain, SetCompleting, Recover, Remove, ResumeLeftover, Panic, registry, run
  <2>2. pc' = pc \/ \E l \in PC \ {"unborn", "forking"} : Goto(r, l)
    BY <1>3 DEF RunStep, StopQueued, StartTurn, Checkpoint, EndTurn, GoIdle, StopIdle, Wake,
       IdleTimeout, Drain, SetCompleting, Recover, Remove, ResumeLeftover, Panic, run, PC
  <2>3. QED
    BY <2>1, <2>2, OwnGoto, OwnAside
<1>4. ASSUME NEW r \in Run, Begin(r) \/ RecordPoint(r)
      PROVE  /\ PointIsOwn'
             /\ \A a \in Addresses :
                   \/ point'[a].run > point[a].run
                   \/ point'[a].run = point[a].run /\ (point[a].merged => point'[a].merged)
  <2>1. PICK b \in BOOLEAN, l \in PC \ {"unborn", "forking"} :
            RecordResumePoint(r, b) /\ Goto(r, l) /\ (b \/ pc[r] = "forking")
    BY <1>4 DEF Begin, RecordPoint, PC
  <2>2. addr' = addr /\ Live(r)
    BY <1>4 DEF Begin, RecordPoint, Live, Ended
  <2>3. QED
    BY <2>1, <2>2, OwnRecord
<1>5. ASSUME NEW h \in handlers, Spawn(h) PROVE PointIsOwn' /\ point' = point
  <2>1. /\ point' = point /\ nextRun <= MaxRuns
        /\ addr' = [addr EXCEPT ![nextRun] = h.req.addr]
        /\ pc' = [pc EXCEPT ![nextRun] = "forking"]
    BY <1>5 DEF Spawn
  <2>2. nextRun \in Run /\ pc[nextRun] = "unborn"
    <3>1. nextRun \in Run
        BY <2>1, SessionsAssumption DEF TypeOK, Run
    <3>2. QED
        BY <3>1 DEF RegistryInv, IdsInOrder, Run
  <2>3. \A q \in Run : q # nextRun => pc'[q] = pc[q] /\ addr'[q] = addr[q]
    BY <2>1 DEF TypeOK
  <2>4. QED
    BY <2>1, <2>2, <2>3, OwnAside
<1>6. ASSUME NEW h \in handlers, Handling(h), ~Spawn(h) PROVE UNCHANGED <<point, addr, pc>>
    BY <1>6 DEF Handling, CheckAddress, WaitSpawn, DeliverLosing, BuildFails, LoseSpawn, registry, run
<1>7. ASSUME NEW m \in Message, Sender(m) PROVE UNCHANGED <<point, addr, pc>>
    BY <1>7 DEF Sender, Send, DeliverConversation, RequestTask, registry, run
<1>8. ASSUME NEW t \in deferred, Delivery(t) PROVE UNCHANGED <<point, addr, pc>>
    BY <1>8 DEF Delivery, TryDeliver, TryDeliverChat, WaitClear, PublishResume, PublishConversation,
       registry, run
<1>9. CASE \/ UNCHANGED vars \/ StopAll \/ ListenerRecv
           \/ \E a \in Addresses : Stop(a) \/ StopIfRunning(a)
  <2>1. UNCHANGED <<point, addr, pc>>
    BY <1>9 DEF vars, Stop, StopIfRunning, StopAll, ListenerRecv, registry, run
  <2>2. QED
    BY <1>2, <2>1
<1>10. QED
    BY <1>2, <1>3, <1>4, <1>5, <1>6, <1>7, <1>8, <1>9 DEF Next

\* An address's resume point never goes back: a run that records one overwrites
\* an older run's, or its own from before its memory was merged.
THEOREM PointsAlwaysAdvance == Spec => PointsOnlyAdvance
<1>1. Init => PointIsOwn
    BY DEF Init, PointIsOwn, NoPoint
<1>2. TypeOK /\ RegistryInv /\ PointIsOwn /\ [Next]_vars => PointIsOwn'
    BY PointStep
<1>3. TypeOK /\ RegistryInv /\ PointIsOwn /\ [Next]_vars =>
        [\A a \in Addresses :
            \/ point'[a].run > point[a].run
            \/ point'[a].run = point[a].run /\ (point[a].merged => point'[a].merged)]_vars
    BY PointStep
<1>4. QED
    BY <1>1, <1>2, <1>3, TypeCorrect, RegistryAlways, PTL DEF Spec, PointsOnlyAdvance

-----------------------------------------------------------------------------
(* Deferred deliveries find a resume point.  A delivery is deferred because *)
(* some run was completing at its address, or because a request that was    *)
(* itself a resume lost its address; the invariant carries the point that   *)
(* one of those runs recorded through every place a message can be held.    *)

HasPoint(a) == point[a] # NoPoint

\* Some of the messages are an agent's.
ForAgent(ms) == \E i \in DOMAIN ms : ms[i] \notin Chat

\* A run records a point before it waits for its first turn.
BegunHasPoint ==
    \A r \in Run : pc[r] \notin {"unborn", "forking"} => HasPoint(addr[r])

CompletingHasPoint == \A a \in Addresses : state[a] = "completing" => HasPoint(a)

Resumable(req) == req.form = "messages" /\ ForAgent(req.msgs) => HasPoint(req.addr)

RequestsHavePoint == \A i \in DOMAIN requests : Resumable(requests[i])

HandlersHavePoint == \A h \in handlers : Resumable(h.req)

\* send may still find that the address has no point, for its one message.
Grounded(t) ==
    IF t.from = "send" THEN Len(t.msgs) = 1 ELSE ForAgent(t.msgs) => HasPoint(t.addr)

DeferredHavePoint == \A t \in deferred : Grounded(t)

PointInv ==
    /\ BegunHasPoint
    /\ CompletingHasPoint
    /\ RequestsHavePoint
    /\ HandlersHavePoint
    /\ DeferredHavePoint
    /\ DeferredFindsPoint

\* The run and registry parts hold after a step that leaves both alone.
LEMMA PointsUntouched ==
    ASSUME PointInv, UNCHANGED <<state, point, addr, pc>>
    PROVE  BegunHasPoint' /\ CompletingHasPoint'
    BY DEF PointInv, BegunHasPoint, CompletingHasPoint, HasPoint

\* The same of the requests on the topic.
LEMMA RequestsUntouched ==
    ASSUME PointInv, UNCHANGED <<point, requests>>
    PROVE  RequestsHavePoint'
    BY DEF PointInv, RequestsHavePoint, Resumable, HasPoint

\* The same of the requests being handled.
LEMMA HandlersUntouched ==
    ASSUME PointInv, UNCHANGED <<point, handlers>>
    PROVE  HandlersHavePoint'
    BY DEF PointInv, HandlersHavePoint, Resumable, HasPoint

\* The same of the detached deliveries.
LEMMA DeferredUntouched ==
    ASSUME PointInv, UNCHANGED <<point, deferred>>
    PROVE  DeferredHavePoint'
    BY DEF PointInv, DeferredHavePoint, Grounded, HasPoint

\* No action but PublishResume calls a point missing.
LEMMA SettleFindsPoint ==
    ASSUME PointInv, NEW ms, NEW f, f # "no_point", Settle(ms, f)
    PROVE  DeferredFindsPoint'
    BY DEF PointInv, DeferredFindsPoint, Settle

\* A step that settles nothing calls no point missing.
LEMMA FateUntouched ==
    ASSUME PointInv, UNCHANGED fate
    PROVE  DeferredFindsPoint'
    BY DEF PointInv, DeferredFindsPoint

\* A batch of one message is an agent's if the message is.
LEMMA SingletonForAgent ==
    ASSUME NEW m
    PROVE  ForAgent(<<m>>) <=> m \notin Chat
    BY DEF ForAgent

\* A new detached delivery is grounded.
LEMMA DeferPoint ==
    ASSUME TypeOK, PointInv, NEW from, NEW at, NEW a, NEW ms, Defer(from, at, a, ms),
           IF from = "send" THEN Len(ms) = 1 ELSE ForAgent(ms) => HasPoint(a),
           UNCHANGED point
    PROVE  DeferredHavePoint'
<1> DEFINE new == [from |-> from, pc |-> at, addr |-> a, msgs |-> ms]
<1>1. deferred' = deferred \cup {new}
    BY DEF Defer
<1>2. Grounded(new)
    BY DEF Grounded
<1>3. \A t : Grounded(t)' <=> Grounded(t)
    BY DEF Grounded, HasPoint
<1> HIDE DEF new
<1>4. QED
    BY <1>1, <1>2, <1>3 DEF PointInv, DeferredHavePoint

\* A request in the queue after an append is the new one or was there before.
LEMMA AppendedRequest ==
    ASSUME TypeOK, NEW req \in Request, requests' = Append(requests, req)
    PROVE  \A i \in DOMAIN requests' : \/ requests'[i] = req
                                       \/ i \in DOMAIN requests /\ requests'[i] = requests[i]
<1>1. requests \in Seq(Request)
    BY DEF TypeOK
<1>2. /\ DOMAIN requests = 1 .. Len(requests) /\ DOMAIN requests' = 1 .. Len(requests) + 1
      /\ \A i \in 1 .. Len(requests) : requests'[i] = requests[i]
      /\ requests'[Len(requests) + 1] = req
    BY <1>1
<1>3. QED
    BY <1>1, <1>2

\* A new request, if it resumes an agent's session, has its point.
LEMMA AppendPoint ==
    ASSUME TypeOK, PointInv, NEW req \in Request, Resumable(req),
           requests' = Append(requests, req), UNCHANGED point
    PROVE  RequestsHavePoint'
<1>1. \A q : Resumable(q)' <=> Resumable(q)
    BY DEF Resumable, HasPoint
<1>2. QED
    BY <1>1, AppendedRequest DEF PointInv, RequestsHavePoint

\* A sender keeps PointInv: what it defers was sent to a completing run.
LEMMA PointSender ==
    ASSUME TypeOK, PointInv, NEW m \in Message, Sender(m)
    PROVE  PointInv'
<1> DEFINE a == Dest[m]
<1>0. a \in Addresses /\ Len(<<m>>) = 1
    BY SessionsAssumption
<1> HIDE DEF a
<1>1. CASE Send(m)
  <2>1. UNCHANGED <<state, point, addr, pc, requests, handlers>>
    BY <1>1 DEF Send, registry, run
  <2>2. DeferredFindsPoint'
    BY <1>1, SettleFindsPoint DEF Send
  <2>3. DeferredHavePoint'
    <3>1. CASE UNCHANGED deferred
        BY <2>1, <3>1, DeferredUntouched
    <3>2. CASE Outcome(a) = "Completing" /\ Defer("deferred", "try", a, <<m>>)
      <4>1. HasPoint(a)
        BY <1>0, <3>2, OutcomeFacts DEF PointInv, CompletingHasPoint
      <4>2. QED
        BY <2>1, <3>2, <4>1, DeferPoint
    <3>3. CASE Defer("send", "resume", a, <<m>>)
        BY <1>0, <2>1, <3>3, DeferPoint
    <3>4. QED
        BY <1>1, <3>1, <3>2, <3>3 DEF Send, a
  <2>4. QED
    BY <2>1, <2>2, <2>3, PointsUntouched, RequestsUntouched, HandlersUntouched DEF PointInv
<1>2. CASE DeliverConversation(m)
  <2>1. UNCHANGED <<state, point, addr, pc, requests, handlers>> /\ ~ForAgent(<<m>>)
    BY <1>2, SingletonForAgent DEF DeliverConversation, registry, run
  <2>2. DeferredFindsPoint'
    BY <1>2, SettleFindsPoint DEF DeliverConversation
  <2>3. DeferredHavePoint'
    <3>1. CASE UNCHANGED deferred
        BY <2>1, <3>1, DeferredUntouched
    <3>2. CASE Defer("deferred", "try", a, <<m>>)
        BY <2>1, <3>2, DeferPoint
    <3>3. CASE Defer("send", "resume", a, <<m>>)
        BY <1>0, <2>1, <3>3, DeferPoint
    <3>4. QED
        BY <1>2, <3>1, <3>2, <3>3 DEF DeliverConversation, a
  <2>4. QED
    BY <2>1, <2>2, <2>3, PointsUntouched, RequestsUntouched, HandlersUntouched DEF PointInv
<1>3. CASE RequestTask(m)
  <2>1. UNCHANGED <<state, point, addr, pc, handlers, deferred>>
    BY <1>3 DEF RequestTask, registry, run
  <2> DEFINE req == [addr |-> a, form |-> "task", msgs |-> <<m>>]
  <2>2. req \in Request /\ Resumable(req)
    BY <1>0 DEF Request, Batch, Resumable
  <2>3. requests' = Append(requests, req)
    BY <1>3 DEF RequestTask, a
  <2> HIDE DEF req
  <2>4. RequestsHavePoint' /\ DeferredFindsPoint'
    BY <1>3, <2>1, <2>2, <2>3, AppendPoint, SettleFindsPoint DEF RequestTask
  <2>5. QED
    BY <2>1, <2>4, PointsUntouched, HandlersUntouched, DeferredUntouched DEF PointInv
<1>4. QED
    BY <1>1, <1>2, <1>3 DEF Sender

\* What is left of a batch holds an agent's message only if the batch did.
LEMMA TailForAgent ==
    ASSUME NEW ms \in Batch
    PROVE  /\ Head(ms) \notin Chat => ForAgent(ms)
           /\ Len(ms) # 1 /\ ForAgent(Tail(ms)) => ForAgent(ms)
<1>1. ms \in Seq(Message) /\ ms # <<>> /\ Len(ms) \in Nat \ {0} /\ DOMAIN ms = 1 .. Len(ms)
    BY DEF Batch
<1>2. Head(ms) = ms[1] /\ 1 \in DOMAIN ms
    BY <1>1
<1>3. \A i \in DOMAIN Tail(ms) : i + 1 \in DOMAIN ms /\ Tail(ms)[i] = ms[i + 1]
    BY <1>1
<1>4. QED
    BY <1>2, <1>3 DEF ForAgent

\* A task that is done with its first message stays grounded.
LEMMA AdvancePoint ==
    ASSUME TypeOK, PointInv, NEW t \in deferred
    PROVE  \A u \in Advance(t) : Grounded(u)
<1>0. t \in Deferred /\ t.msgs \in Batch /\ Grounded(t)
    BY DEF TypeOK, Deferred, PointInv, DeferredHavePoint
<1>1. CASE Len(t.msgs) = 1
    BY <1>1 DEF Advance
<1>2. CASE Len(t.msgs) # 1
  <2> DEFINE u == [t EXCEPT !.from = "deferred", !.pc = "try", !.msgs = Tail(@)]
  <2>1. u.from = "deferred" /\ u.addr = t.addr /\ u.msgs = Tail(t.msgs)
    BY <1>0 DEF Deferred
  <2>2. ForAgent(t.msgs) => HasPoint(t.addr)
    BY <1>0, <1>2 DEF Grounded
  <2>3. ForAgent(u.msgs) => ForAgent(t.msgs)
    BY <1>0, <1>2, <2>1, TailForAgent
  <2>4. Grounded(u)
    BY <2>1, <2>2, <2>3 DEF Grounded
  <2>5. QED
    BY <1>2, <2>4 DEF Advance
<1>3. QED
    BY <1>1, <1>2

\* A detached delivery replaced by grounded ones keeps them all grounded.
LEMMA ReplacePoint ==
    ASSUME TypeOK, PointInv, NEW t \in deferred, NEW new, \A u \in new : Grounded(u),
           Replace(t, new), UNCHANGED point
    PROVE  DeferredHavePoint'
<1>1. \A u : Grounded(u)' <=> Grounded(u)
    BY DEF Grounded, HasPoint
<1>2. QED
    BY <1>1 DEF PointInv, DeferredHavePoint, Replace

\* A detached delivery keeps PointInv, and finds the point it needs.
LEMMA PointDelivery ==
    ASSUME TypeOK, PointInv, NEW t \in deferred, Delivery(t)
    PROVE  PointInv'
<1> DEFINE m == Head(t.msgs)
<1>0. t \in Deferred /\ t.addr \in Addresses /\ t.msgs \in Batch /\ m \in Message /\ Grounded(t)
    BY BatchFacts DEF TypeOK, Deferred, PointInv, DeferredHavePoint
<1>a. UNCHANGED <<state, point, addr, pc, handlers>>
    BY DEF Delivery, TryDeliver, TryDeliverChat, WaitClear, PublishResume, PublishConversation,
           registry, run
<1>b. \A l : Grounded([t EXCEPT !.pc = l])
    BY <1>0 DEF Grounded, Deferred
<1>c. \/ Replace(t, Advance(t))
      \/ \E l \in {"wait", "resume", "try"} : Replace(t, {[t EXCEPT !.pc = l]})
    BY DEF Delivery, TryDeliver, TryDeliverChat, WaitClear, PublishResume, PublishConversation
<1>d. DeferredHavePoint'
  <2>1. CASE Replace(t, Advance(t))
    BY <1>a, <2>1, AdvancePoint, ReplacePoint
  <2>2. ASSUME NEW l \in {"wait", "resume", "try"}, Replace(t, {[t EXCEPT !.pc = l]})
        PROVE  DeferredHavePoint'
    <3>1. \A u \in {[t EXCEPT !.pc = l]} : Grounded(u)
        BY <1>b
    <3>2. QED
        BY <1>a, <2>2, <3>1, ReplacePoint
  <2>3. QED
    BY <1>c, <2>1, <2>2
<1> DEFINE req == [addr |-> t.addr, form |-> "messages", msgs |-> <<m>>]
<1>e. req \in Request /\ (m \in Chat \/ HasPoint(t.addr) => Resumable(req))
    BY <1>0, SingletonForAgent DEF Request, Batch, Resumable
<1> HIDE DEF m, req
<1>f. RequestsHavePoint' /\ DeferredFindsPoint'
  <2>1. CASE TryDeliver(t) \/ TryDeliverChat(t) \/ WaitClear(t)
    <3>1. UNCHANGED requests
        BY <2>1 DEF TryDeliver, TryDeliverChat, WaitClear
    <3>2. DeferredFindsPoint'
      <4>1. CASE UNCHANGED fate
        BY <4>1, FateUntouched
      <4>2. CASE Settle({m}, "refused")
        BY <4>2, SettleFindsPoint
      <4>3. QED
        BY <2>1, <4>1, <4>2 DEF TryDeliver, TryDeliverChat, WaitClear, m
    <3>3. QED
        BY <1>a, <3>1, <3>2, RequestsUntouched
  <2>2. CASE PublishResume(t) /\ HasPoint(t.addr)
    <3>1. requests' = Append(requests, req) /\ UNCHANGED fate
        BY <2>2 DEF PublishResume, Resume, HasPoint, req, m
    <3>2. QED
        BY <1>a, <1>e, <2>2, <3>1, AppendPoint, FateUntouched
  <2>3. CASE PublishResume(t) /\ ~HasPoint(t.addr)
    <3>1. m \notin Chat /\ UNCHANGED requests
          /\ Settle({m}, IF t.from = "send" THEN "unknown" ELSE "no_point")
        BY <2>3 DEF PublishResume, HasPoint, m
    <3>2. ForAgent(t.msgs)
        BY <1>0, <3>1, TailForAgent DEF m
    <3>3. t.from = "send"
        BY <1>0, <2>3, <3>2 DEF Grounded
    <3>4. Settle({m}, "unknown")
        BY <3>1, <3>3
    <3>5. QED
        BY <1>a, <3>1, <3>4, RequestsUntouched, SettleFindsPoint
  <2>4. CASE PublishConversation(t)
    <3>1. requests' = Append(requests, req) /\ UNCHANGED fate /\ m \in Chat
        BY <2>4 DEF PublishConversation, Resume, req, m
    <3>2. QED
        BY <1>a, <1>e, <3>1, AppendPoint, FateUntouched
  <2>5. QED
    BY <2>1, <2>2, <2>3, <2>4 DEF Delivery
<1>g. QED
    BY <1>a, <1>d, <1>f, PointsUntouched, HandlersUntouched DEF PointInv

\* Taking a request off the topic keeps PointInv.
LEMMA PointListener ==
    ASSUME TypeOK, PointInv, ListenerRecv
    PROVE  PointInv'
<1>1. UNCHANGED <<state, point, addr, pc, deferred, fate>>
    BY DEF ListenerRecv, registry, run
<1>2. requests \in Seq(Request) /\ requests # <<>> /\ requests' = Tail(requests)
    BY DEF ListenerRecv, TypeOK
<1>3. \A q : Resumable(q)' <=> Resumable(q)
    BY <1>1 DEF Resumable, HasPoint
<1>4. \A i \in DOMAIN requests' : i + 1 \in DOMAIN requests /\ requests'[i] = requests[i + 1]
    BY <1>2
<1>5. RequestsHavePoint'
    BY <1>3, <1>4 DEF PointInv, RequestsHavePoint
<1>6. Resumable(Head(requests))
  <2>1. 1 \in DOMAIN requests /\ Head(requests) = requests[1]
    BY <1>2
  <2>2. QED
    BY <2>1 DEF PointInv, RequestsHavePoint
<1>7. HandlersHavePoint'
  <2> DEFINE h == [by |-> "listener", pc |-> "check", req |-> Head(requests)]
  <2>1. h.req = Head(requests)
    OBVIOUS
  <2>2. handlers' = handlers \cup {h}
    BY DEF ListenerRecv
  <2> HIDE DEF h
  <2>3. QED
    BY <1>3, <1>6, <2>1, <2>2 DEF PointInv, HandlersHavePoint
<1>8. QED
    BY <1>1, <1>5, <1>7, PointsUntouched, DeferredUntouched, FateUntouched DEF PointInv

\* A handler replaced by resumable ones keeps them all resumable.
LEMMA BecomePoint ==
    ASSUME TypeOK, PointInv, NEW h \in handlers, NEW new, \A g \in new : Resumable(g.req),
           Become(h, new), UNCHANGED point
    PROVE  HandlersHavePoint'
<1>1. \A q : Resumable(q)' <=> Resumable(q)
    BY DEF Resumable, HasPoint
<1>2. QED
    BY <1>1 DEF PointInv, HandlersHavePoint, Become

\* Handling a request keeps PointInv: only a resume is ever deferred.
LEMMA PointHandling ==
    ASSUME TypeOK, PointInv, NEW h \in handlers, Handling(h)
    PROVE  PointInv'
<1> DEFINE a == h.req.addr
           m == Head(h.req.msgs)
<1>0. h \in Handler /\ h.req \in Request /\ h.req.msgs \in Batch /\ Resumable(h.req)
    BY DEF TypeOK, Handler, Request, PointInv, HandlersHavePoint
<1>a. \A l : \A g \in {[h EXCEPT !.pc = l], [h EXCEPT !.pc = l, !.by = "task"]} :
        Resumable(g.req)
    BY <1>0 DEF Handler
<1>1. CASE CheckAddress(h) \/ WaitSpawn(h) \/ LoseSpawn(h)
  <2>1. UNCHANGED <<state, point, addr, pc, requests, deferred, fate>>
    BY <1>1 DEF CheckAddress, WaitSpawn, LoseSpawn, registry, run
  <2>2. \E l \in {"build", "wait", "losing", "check"} :
          \/ Become(h, {[h EXCEPT !.pc = l]})
          \/ Become(h, {[h EXCEPT !.pc = l, !.by = "task"]})
    BY <1>1 DEF CheckAddress, WaitSpawn, LoseSpawn
  <2>3. PICK l : \/ Become(h, {[h EXCEPT !.pc = l]})
                 \/ Become(h, {[h EXCEPT !.pc = l, !.by = "task"]})
    BY <2>2
  <2>4. \A g \in {[h EXCEPT !.pc = l]} : Resumable(g.req)
    BY <1>a
  <2>5. \A g \in {[h EXCEPT !.pc = l, !.by = "task"]} : Resumable(g.req)
    BY <1>a
  <2>6. HandlersHavePoint'
    BY <2>1, <2>3, <2>4, <2>5, BecomePoint
  <2>7. QED
    BY <2>1, <2>6, PointsUntouched, RequestsUntouched, DeferredUntouched, FateUntouched
    DEF PointInv
<1>2. CASE DeliverLosing(h)
  <2>1. UNCHANGED <<state, point, addr, pc, requests>>
    BY <1>2 DEF DeliverLosing, registry, run
  <2>2. \A g \in LosingRest(h) : Resumable(g.req)
    <3>1. CASE Len(h.req.msgs) = 1
        BY <3>1 DEF LosingRest
    <3>2. CASE Len(h.req.msgs) # 1
      <4> DEFINE g == [h EXCEPT !.req.msgs = Tail(@)]
      <4>1. g.req.form = h.req.form /\ g.req.addr = h.req.addr /\ g.req.msgs = Tail(h.req.msgs)
        BY <1>0 DEF Handler, Request
      <4>2. ForAgent(g.req.msgs) => ForAgent(h.req.msgs)
        BY <1>0, <3>2, <4>1, TailForAgent
      <4>3. Resumable(g.req)
        BY <1>0, <4>1, <4>2 DEF Resumable
      <4>4. QED
        BY <3>2, <4>3 DEF LosingRest
    <3>3. QED
        BY <3>1, <3>2
  <2>3. CASE /\ Become(h, LosingRest(h)) /\ UNCHANGED deferred
             /\ UNCHANGED fate \/ Settle({m}, "refused")
    <3>1. HandlersHavePoint' /\ DeferredHavePoint'
        BY <2>1, <2>2, <2>3, BecomePoint, DeferredUntouched
    <3>2. DeferredFindsPoint'
        BY <2>3, FateUntouched, SettleFindsPoint
    <3>3. QED
        BY <2>1, <3>1, <3>2, PointsUntouched, RequestsUntouched DEF PointInv
  <2>4. CASE /\ ~Refuses(h) /\ Become(h, {}) /\ Defer("deferred", "try", a, h.req.msgs)
             /\ UNCHANGED fate
    <3>1. h.req.form = "messages"
        BY <1>0, <2>4 DEF Refuses, Request
    <3>2. ForAgent(h.req.msgs) => HasPoint(a)
        BY <1>0, <3>1 DEF Resumable
    <3>3. DeferredHavePoint'
        BY <2>1, <2>4, <3>2, DeferPoint
    <3>4. HandlersHavePoint'
        BY <2>1, <2>4, BecomePoint
    <3>5. QED
        BY <2>1, <2>4, <3>3, <3>4, PointsUntouched, RequestsUntouched, FateUntouched
        DEF PointInv
  <2>5. QED
    BY <1>2, <2>3, <2>4 DEF DeliverLosing
<1>3. CASE BuildFails(h)
  <2>1. UNCHANGED <<state, point, addr, pc, requests, deferred>>
        /\ Become(h, {}) /\ Settle(Range(h.req.msgs), "fork_failed")
    BY <1>3 DEF BuildFails, registry, run
  <2>2. HandlersHavePoint'
    BY <2>1, BecomePoint
  <2>3. DeferredFindsPoint'
    BY <2>1, SettleFindsPoint
  <2>4. QED
    BY <2>1, <2>2, <2>3, PointsUntouched, RequestsUntouched, DeferredUntouched DEF PointInv
<1>4. CASE Spawn(h)
  <2>1. /\ UNCHANGED <<point, requests, deferred, fate>> /\ Become(h, {})
        /\ state' = [state EXCEPT ![a] = "forking"]
        /\ addr' = [addr EXCEPT ![nextRun] = a] /\ pc' = [pc EXCEPT ![nextRun] = "forking"]
    BY <1>4 DEF Spawn
  <2>2. BegunHasPoint' /\ CompletingHasPoint'
    BY <2>1 DEF PointInv, BegunHasPoint, CompletingHasPoint, HasPoint, TypeOK
  <2>3. HandlersHavePoint'
    BY <2>1, BecomePoint
  <2>4. QED
    BY <2>1, <2>2, <2>3, RequestsUntouched, DeferredUntouched, FateUntouched DEF PointInv
<1>5. QED
    BY <1>1, <1>2, <1>3, <1>4 DEF Handling

\* A run that has its point moves on, and may close its entry to messages.
LEMMA PointMove ==
    ASSUME TypeOK, PointInv, NEW r \in Run, NEW l \in PC,
           pc[r] \notin {"unborn", "forking"}, Goto(r, l),
           UNCHANGED state \/ \E st \in SessionState : SetState(addr[r], st),
           UNCHANGED <<point, addr>>
    PROVE  BegunHasPoint' /\ CompletingHasPoint'
<1>1. HasPoint(addr[r]) /\ addr[r] \in Addresses
    BY DEF PointInv, BegunHasPoint, TypeOK
<1>2. pc' = [pc EXCEPT ![r] = l]
    BY DEF Goto
<1>3. BegunHasPoint'
    BY <1>1, <1>2 DEF PointInv, BegunHasPoint, HasPoint, TypeOK
<1>4. \A a \in Addresses \ {addr[r]} : state'[a] = state[a]
    BY <1>1 DEF SetState, TypeOK
<1>5. CompletingHasPoint'
    BY <1>1, <1>4 DEF PointInv, CompletingHasPoint, HasPoint
<1>6. QED
    BY <1>3, <1>5

\* Recording a point takes none away.
LEMMA PointRecord ==
    ASSUME TypeOK, PointInv, NEW r \in Run, NEW b \in BOOLEAN, NEW l \in PC,
           RecordResumePoint(r, b), Goto(r, l),
           UNCHANGED state \/ \E st \in SessionState : SetState(addr[r], st),
           UNCHANGED <<addr, requests, handlers, deferred, fate>>
    PROVE  PointInv'
<1>1. /\ addr[r] \in Addresses /\ pc' = [pc EXCEPT ![r] = l]
      /\ point' = [point EXCEPT ![addr[r]] = [run |-> r, merged |-> b]]
    BY DEF Goto, TypeOK, RecordResumePoint
<1>2. [run |-> r, merged |-> b] # NoPoint
    BY DEF NoPoint, NoRun, Run
<1>3. HasPoint(addr[r])' /\ \A a \in Addresses : HasPoint(a) => HasPoint(a)'
    BY <1>1, <1>2 DEF HasPoint, TypeOK
<1>4. BegunHasPoint'
  <2> SUFFICES ASSUME NEW q \in Run, pc'[q] \notin {"unborn", "forking"}
               PROVE  HasPoint(addr[q])'
    BY DEF BegunHasPoint
  <2>1. CASE q = r
    BY <1>3, <2>1
  <2>2. CASE q # r
    BY <1>1, <1>3, <2>2 DEF PointInv, BegunHasPoint, TypeOK, HasPoint
  <2>3. QED
    BY <2>1, <2>2
<1>5. CompletingHasPoint'
  <2>1. \A a \in Addresses \ {addr[r]} : state'[a] = state[a]
    BY <1>1 DEF SetState, TypeOK
  <2>2. QED
    BY <1>1, <1>3, <2>1 DEF PointInv, CompletingHasPoint, HasPoint
<1>6. \A req \in Request : Resumable(req) => Resumable(req)'
    BY <1>3 DEF Resumable, Request, HasPoint
<1>7. RequestsHavePoint' /\ HandlersHavePoint'
  <2>1. \A i \in DOMAIN requests : requests[i] \in Request
    BY DEF TypeOK
  <2>2. \A h \in handlers : h.req \in Request
    BY DEF TypeOK, Handler
  <2>3. QED
    BY <1>6, <2>1, <2>2 DEF PointInv, RequestsHavePoint, HandlersHavePoint
<1>8. DeferredHavePoint'
  <2>1. \A t \in Deferred : Grounded(t) => Grounded(t)'
    BY <1>3 DEF Grounded, Deferred, HasPoint
  <2>2. QED
    BY <2>1 DEF PointInv, DeferredHavePoint, TypeOK
<1>9. QED
    BY <1>4, <1>5, <1>7, <1>8, FateUntouched DEF PointInv

\* A step of a run keeps PointInv.
LEMMA PointRunStep ==
    ASSUME TypeOK, PointInv, NEW r \in Run, RunStep(r) \/ Panic(r)
    PROVE  PointInv'
<1>1. CASE Begin(r)
    BY <1>1, PointRecord DEF Begin, PC, SessionState
<1>2. CASE RecordPoint(r)
    BY <1>2, PointRecord DEF RecordPoint, PC
<1>3. CASE StopQueued(r) \/ StartTurn(r) \/ EndTurn(r) \/ GoIdle(r) \/ StopIdle(r) \/ Wake(r)
           \/ IdleTimeout(r) \/ Drain(r) \/ SetCompleting(r) \/ Panic(r) \/ Recover(r)
  <2>1. UNCHANGED <<point, addr, requests, handlers, deferred>>
    BY <1>3 DEF StopQueued, StartTurn, EndTurn, GoIdle, StopIdle, Wake, IdleTimeout, Drain,
                SetCompleting, Panic, Recover, registry
  <2>2. pc[r] \notin {"unborn", "forking"} /\ \E l \in PC : Goto(r, l)
    BY <1>3 DEF StopQueued, StartTurn, EndTurn, GoIdle, StopIdle, Wake, IdleTimeout, Drain,
                SetCompleting, Panic, Recover, PC
  <2>3. UNCHANGED state \/ \E st \in SessionState : SetState(addr[r], st)
    BY <1>3 DEF StopQueued, StartTurn, EndTurn, GoIdle, StopIdle, Wake, IdleTimeout, Drain,
                SetCompleting, Panic, Recover, registry, SessionState
  <2>4. BegunHasPoint' /\ CompletingHasPoint'
    BY <2>1, <2>2, <2>3, PointMove
  <2>5. DeferredFindsPoint'
    <3>1. \/ UNCHANGED fate
          \/ \E ms : \E f \in {"woken_stopped", "stopped", "read", "panicked"} : Settle(ms, f)
        BY <1>3 DEF StopQueued, StartTurn, EndTurn, GoIdle, StopIdle, Wake, IdleTimeout, Drain,
                    SetCompleting, Panic, Recover
    <3>2. QED
        BY <3>1, FateUntouched, SettleFindsPoint
  <2>6. QED
    BY <2>1, <2>4, <2>5, RequestsUntouched, HandlersUntouched, DeferredUntouched DEF PointInv
<1>4. CASE Checkpoint(r)
  <2>1. UNCHANGED <<state, point, addr, pc, requests, handlers, deferred>>
        /\ Settle(Range(chan[r]), "read")
    BY <1>4 DEF Checkpoint, registry, run
  <2>2. DeferredFindsPoint'
    BY <2>1, SettleFindsPoint
  <2>3. QED
    BY <2>1, <2>2, PointsUntouched, RequestsUntouched, HandlersUntouched, DeferredUntouched
    DEF PointInv
<1>5. CASE Remove(r)
  <2>1. /\ pc[r] = "recorded" /\ pc' = [pc EXCEPT ![r] = "removed"]
        /\ UNCHANGED state \/ state' = [state EXCEPT ![addr[r]] = "none"]
        /\ UNCHANGED <<point, addr, requests, handlers, deferred, fate>>
    BY <1>5 DEF Remove, Goto
  <2>2. BegunHasPoint' /\ CompletingHasPoint'
    BY <2>1 DEF PointInv, BegunHasPoint, CompletingHasPoint, HasPoint, TypeOK
  <2>3. QED
    BY <2>1, <2>2, RequestsUntouched, HandlersUntouched, DeferredUntouched, FateUntouched
    DEF PointInv
<1>6. CASE ResumeLeftover(r)
  <2>1. /\ pc[r] = "removed" /\ Goto(r, "done") /\ Settle(Range(chan[r]), "after_drain")
        /\ UNCHANGED <<state, point, addr, handlers, deferred>>
    BY <1>6 DEF ResumeLeftover, registry
  <2>2. BegunHasPoint' /\ CompletingHasPoint'
    BY <2>1, PointMove DEF PC
  <2>3. HasPoint(addr[r]) /\ addr[r] \in Addresses /\ leftover[r] \in Seq(Message)
    BY <2>1 DEF PointInv, BegunHasPoint, TypeOK
  <2>4. RequestsHavePoint'
    <3>1. CASE UNCHANGED requests
        BY <2>1, <3>1, RequestsUntouched
    <3>2. ASSUME leftover[r] # <<>>, NEW opening \in Openings(leftover[r]),
                 requests' = Append(requests, [addr |-> addr[r], form |-> "messages",
                                               msgs |-> opening])
          PROVE  RequestsHavePoint'
      <4> DEFINE req == [addr |-> addr[r], form |-> "messages", msgs |-> opening]
      <4>1. req \in Request
        BY <2>3, <3>2, OpeningsAreBatches DEF Request
      <4>2. Resumable(req)
        BY <2>3 DEF Resumable
      <4>3. QED
        BY <2>1, <3>2, <4>1, <4>2, AppendPoint
    <3>3. QED
        BY <1>6, <3>1, <3>2 DEF ResumeLeftover
  <2>5. DeferredFindsPoint'
    BY <2>1, SettleFindsPoint
  <2>6. QED
    BY <2>1, <2>2, <2>4, <2>5, HandlersUntouched, DeferredUntouched DEF PointInv
<1>7. QED
    BY <1>1, <1>2, <1>3, <1>4, <1>5, <1>6 DEF RunStep

\* PointInv is inductive.
LEMMA PointNext ==
    ASSUME TypeOK, PointInv, [Next]_vars
    PROVE  PointInv'
<1>1. CASE \/ UNCHANGED vars \/ StopAll
           \/ \E a \in Addresses : Stop(a) \/ StopIfRunning(a)
  <2>1. UNCHANGED <<state, point, addr, pc, requests, handlers, deferred, fate>>
    BY <1>1 DEF vars, registry, run, Stop, StopIfRunning, StopAll
  <2>2. QED
    BY <2>1, PointsUntouched, RequestsUntouched, HandlersUntouched, DeferredUntouched,
       FateUntouched DEF PointInv
<1>2. QED
    BY <1>1, PointSender, PointDelivery, PointListener, PointHandling, PointRunStep DEF Next

\* PointInv holds initially.
LEMMA PointInit == Init => PointInv
    BY SessionsAssumption
    DEF Init, PointInv, BegunHasPoint, CompletingHasPoint, RequestsHavePoint,
        HandlersHavePoint, DeferredHavePoint, DeferredFindsPoint

\* Whatever the interleaving, a delivery deferred because a run was completing
\* finds a resume point once the address is clear: the branch that
\* deliver_or_resume_deferred calls an internal inconsistency is dead code.
THEOREM DeferredPointExists == Spec => []DeferredFindsPoint
<1>1. PointInv => DeferredFindsPoint
    BY DEF PointInv
<1>2. QED
    BY <1>1, TypeCorrect, PointInit, PointNext, PTL DEF Spec

-----------------------------------------------------------------------------
(* Chat is never refused.  Refusals are for agent messages and for prompts  *)
(* that lose their address; a prompt's request must not hold chat.          *)

Refusal == {"refused", "unknown", "no_point"}

NoChat(ms) == \A i \in DOMAIN ms : ms[i] \notin Chat

PromptOnly(req) == req.form = "task" => NoChat(req.msgs)

ChatInv ==
    /\ \A i \in DOMAIN requests : PromptOnly(requests[i])
    /\ \A h \in handlers : PromptOnly(h.req)
    /\ ChatNeverRefused

\* A settlement that refuses nothing, or no chat, refuses no chat.
LEMMA SettleSparesChat ==
    ASSUME ChatInv, NEW ms, NEW f, Settle(ms, f), f \notin Refusal \/ ms \cap Chat = {}
    PROVE  ChatNeverRefused'
    BY DEF ChatInv, ChatNeverRefused, Settle, Refusal, Message

\* A new request keeps chat out of prompts if it does so itself.
LEMMA AppendPromptOnly ==
    ASSUME TypeOK, ChatInv, NEW req \in Request, PromptOnly(req),
           requests' = Append(requests, req)
    PROVE  \A i \in DOMAIN requests' : PromptOnly(requests'[i])
    BY AppendedRequest DEF ChatInv

\* A sender keeps ChatInv.
LEMMA ChatSender ==
    ASSUME TypeOK, ChatInv, NEW m \in Message, Sender(m)
    PROVE  ChatInv'
<1>1. CASE Send(m) \/ DeliverConversation(m)
  <2>1. UNCHANGED <<requests, handlers>>
    BY <1>1 DEF Send, DeliverConversation
  <2>2. ChatNeverRefused'
    BY <1>1, SettleSparesChat, SessionsAssumption DEF Send, DeliverConversation, Refusal
  <2>3. QED
    BY <2>1, <2>2 DEF ChatInv, PromptOnly, NoChat
<1>2. CASE RequestTask(m)
  <2> DEFINE req == [addr |-> Dest[m], form |-> "task", msgs |-> <<m>>]
  <2>1. m \in Task /\ m \notin Chat /\ Dest[m] \in Addresses
    BY <1>2, SessionsAssumption DEF RequestTask
  <2>2. req \in Request /\ PromptOnly(req)
    BY <2>1 DEF Request, Batch, PromptOnly, NoChat
  <2>3. requests' = Append(requests, req) /\ UNCHANGED handlers /\ Settle({m}, "pending")
    BY <1>2 DEF RequestTask
  <2> HIDE DEF req
  <2>4. \A i \in DOMAIN requests' : PromptOnly(requests'[i])
    BY <2>2, <2>3, AppendPromptOnly
  <2>5. ChatNeverRefused'
    BY <2>3, SettleSparesChat DEF Refusal
  <2>6. QED
    BY <2>3, <2>4, <2>5 DEF ChatInv, PromptOnly, NoChat
<1>3. QED
    BY <1>1, <1>2 DEF Sender

\* A detached delivery keeps ChatInv: it refuses only agent messages.
LEMMA ChatDelivery ==
    ASSUME TypeOK, ChatInv, NEW t \in deferred, Delivery(t)
    PROVE  ChatInv'
<1> DEFINE m == Head(t.msgs)
           req == [addr |-> t.addr, form |-> "messages", msgs |-> <<m>>]
<1>0. t.addr \in Addresses /\ m \in Message
    BY BatchFacts DEF TypeOK, Deferred
<1>1. req \in Request /\ PromptOnly(req)
    BY <1>0 DEF Request, Batch, PromptOnly
<1>2. UNCHANGED handlers /\ (UNCHANGED requests \/ requests' = Append(requests, req))
    BY DEF Delivery, TryDeliver, TryDeliverChat, WaitClear, PublishResume,
           PublishConversation, Resume
<1>3. UNCHANGED fate \/ (m \notin Chat /\ \E f : Settle({m}, f))
    BY DEF Delivery, TryDeliver, TryDeliverChat, WaitClear, PublishResume,
           PublishConversation
<1> HIDE DEF m, req
<1>4. ChatNeverRefused'
  <2>1. CASE UNCHANGED fate
    BY <2>1 DEF ChatInv, ChatNeverRefused
  <2>2. CASE m \notin Chat /\ \E f : Settle({m}, f)
    BY <2>2, SettleSparesChat
  <2>3. QED
    BY <1>3, <2>1, <2>2
<1>5. \A i \in DOMAIN requests' : PromptOnly(requests'[i])
  <2>1. CASE UNCHANGED requests
    BY <2>1 DEF ChatInv
  <2>2. CASE requests' = Append(requests, req)
    BY <1>1, <2>2, AppendPromptOnly
  <2>3. QED
    BY <1>2, <2>1, <2>2
<1>6. QED
    BY <1>2, <1>4, <1>5 DEF ChatInv, PromptOnly, NoChat

\* Taking a request off the topic keeps ChatInv.
LEMMA ChatListener ==
    ASSUME TypeOK, ChatInv, ListenerRecv
    PROVE  ChatInv'
<1>1. requests \in Seq(Request) /\ requests # <<>> /\ requests' = Tail(requests)
      /\ UNCHANGED fate
    BY DEF ListenerRecv, TypeOK
<1>2. \A i \in DOMAIN requests' : i + 1 \in DOMAIN requests /\ requests'[i] = requests[i + 1]
    BY <1>1
<1>3. 1 \in DOMAIN requests /\ Head(requests) = requests[1]
    BY <1>1
<1> DEFINE h == [by |-> "listener", pc |-> "check", req |-> Head(requests)]
<1>4. h.req = Head(requests) /\ handlers' = handlers \cup {h}
    BY DEF ListenerRecv
<1> HIDE DEF h
<1>5. (\A i \in DOMAIN requests' : PromptOnly(requests'[i]))
      /\ \A g \in handlers' : PromptOnly(g.req)
    BY <1>2, <1>3, <1>4 DEF ChatInv
<1>6. ChatNeverRefused'
    BY <1>1 DEF ChatInv, ChatNeverRefused
<1>7. QED
    BY <1>5, <1>6 DEF ChatInv, PromptOnly, NoChat

\* A handler replaced by prompt-only ones keeps them all prompt-only.
LEMMA BecomePromptOnly ==
    ASSUME ChatInv, NEW h, NEW new, \A g \in new : PromptOnly(g.req), Become(h, new)
    PROVE  \A g \in handlers' : PromptOnly(g.req)
    BY DEF ChatInv, Become

\* Handling a request keeps ChatInv: a loser refuses no chat.
LEMMA ChatHandling ==
    ASSUME TypeOK, ChatInv, NEW h \in handlers, Handling(h)
    PROVE  ChatInv'
<1> DEFINE m == Head(h.req.msgs)
<1>0. h \in Handler /\ h.req \in Request /\ h.req.msgs \in Batch /\ PromptOnly(h.req)
    BY DEF TypeOK, Handler, Request, ChatInv
<1>1. UNCHANGED requests
    BY DEF Handling, CheckAddress, WaitSpawn, DeliverLosing, BuildFails, Spawn, LoseSpawn
<1>2. \A l : /\ PromptOnly([h EXCEPT !.pc = l].req)
             /\ PromptOnly([h EXCEPT !.pc = l, !.by = "task"].req)
    BY <1>0 DEF Handler
<1>a. /\ h.req.msgs \in Seq(Message) /\ m = h.req.msgs[1] /\ 1 \in DOMAIN h.req.msgs
      /\ \A i \in DOMAIN Tail(h.req.msgs) :
            i + 1 \in DOMAIN h.req.msgs /\ Tail(h.req.msgs)[i] = h.req.msgs[i + 1]
  <2>1. h.req.msgs \in Seq(Message) /\ h.req.msgs # <<>>
    BY <1>0 DEF Batch
  <2>2. QED
    BY <2>1
<1>3. \A g \in LosingRest(h) : PromptOnly(g.req)
  <2> DEFINE g == [h EXCEPT !.req.msgs = Tail(@)]
  <2>1. g.req.form = h.req.form /\ g.req.msgs = Tail(h.req.msgs)
    BY <1>0 DEF Handler, Request
  <2>2. PromptOnly(g.req)
    BY <1>0, <1>a, <2>1 DEF PromptOnly, NoChat
  <2> HIDE DEF g
  <2>3. LosingRest(h) \subseteq {g}
    BY DEF LosingRest, g
  <2>4. QED
    BY <2>2, <2>3
<1>4. (\A g \in handlers' : PromptOnly(g.req)) /\ ChatNeverRefused'
  <2>1. CASE CheckAddress(h) \/ WaitSpawn(h) \/ LoseSpawn(h)
    <3>1. \E l \in {"build", "wait", "losing", "check"} :
            \/ Become(h, {[h EXCEPT !.pc = l]})
            \/ Become(h, {[h EXCEPT !.pc = l, !.by = "task"]})
        BY <2>1 DEF CheckAddress, WaitSpawn, LoseSpawn
    <3>2. UNCHANGED fate
        BY <2>1 DEF CheckAddress, WaitSpawn, LoseSpawn
    <3>3. PICK l : \/ Become(h, {[h EXCEPT !.pc = l]})
                   \/ Become(h, {[h EXCEPT !.pc = l, !.by = "task"]})
        BY <3>1
    <3>4. \A g \in handlers' : PromptOnly(g.req)
      <4>1. \A g \in {[h EXCEPT !.pc = l]} : PromptOnly(g.req)
        BY <1>2
      <4>2. \A g \in {[h EXCEPT !.pc = l, !.by = "task"]} : PromptOnly(g.req)
        BY <1>2
      <4>3. CASE Become(h, {[h EXCEPT !.pc = l]})
        BY <4>1, <4>3, BecomePromptOnly
      <4>4. CASE Become(h, {[h EXCEPT !.pc = l, !.by = "task"]})
        BY <4>2, <4>4, BecomePromptOnly
      <4>5. QED
        BY <3>3, <4>3, <4>4
    <3>5. QED
        BY <3>2, <3>4 DEF ChatInv, ChatNeverRefused
  <2>2. CASE Spawn(h) \/ BuildFails(h)
    <3>1. Become(h, {})
        BY <2>2 DEF Spawn, BuildFails
    <3>2. UNCHANGED fate \/ Settle(Range(h.req.msgs), "fork_failed")
        BY <2>2 DEF Spawn, BuildFails
    <3>3. ChatNeverRefused'
      <4>1. CASE UNCHANGED fate
        BY <4>1 DEF ChatInv, ChatNeverRefused
      <4>2. CASE Settle(Range(h.req.msgs), "fork_failed")
        BY <4>2, SettleSparesChat DEF Refusal
      <4>3. QED
        BY <3>2, <4>1, <4>2
    <3>4. QED
        BY <3>1, <3>3, BecomePromptOnly
  <2>3. CASE DeliverLosing(h)
    <3>1. Become(h, LosingRest(h)) \/ Become(h, {})
        BY <2>3 DEF DeliverLosing
    <3>2. UNCHANGED fate \/ (Refuses(h) /\ Settle({m}, "refused"))
        BY <2>3 DEF DeliverLosing
    <3>3. ChatNeverRefused'
      <4>1. CASE UNCHANGED fate
        BY <4>1 DEF ChatInv, ChatNeverRefused
      <4>2. CASE Refuses(h) /\ Settle({m}, "refused")
        <5>1. m \notin Chat
            BY <1>0, <1>a, <4>2 DEF Refuses, PromptOnly, NoChat
        <5>2. QED
            BY <4>2, <5>1, SettleSparesChat
      <4>3. QED
        BY <3>2, <4>1, <4>2
    <3>4. QED
        BY <1>3, <3>1, <3>3, BecomePromptOnly
  <2>4. QED
    BY <2>1, <2>2, <2>3 DEF Handling
<1>5. QED
    BY <1>1, <1>4 DEF ChatInv, PromptOnly, NoChat

\* A step of a run keeps ChatInv: what it settles is not a refusal.
LEMMA ChatRunStep ==
    ASSUME TypeOK, ChatInv, NEW r \in Run, RunStep(r) \/ Panic(r)
    PROVE  ChatInv'
<1>1. UNCHANGED handlers
    BY DEF RunStep, Begin, StopQueued, StartTurn, Checkpoint, EndTurn, GoIdle, StopIdle, Wake,
           IdleTimeout, Drain, SetCompleting, Recover, RecordPoint, Remove, ResumeLeftover, Panic
<1>2. \/ UNCHANGED fate
      \/ \E ms : \E f \in Fate \ Refusal : Settle(ms, f)
    BY DEF RunStep, Begin, StopQueued, StartTurn, Checkpoint, EndTurn, GoIdle, StopIdle, Wake,
           IdleTimeout, Drain, SetCompleting, Recover, RecordPoint, Remove, ResumeLeftover,
           Panic, Fate, Refusal
<1>3. ChatNeverRefused'
  <2>1. CASE UNCHANGED fate
    BY <2>1 DEF ChatInv, ChatNeverRefused
  <2>2. CASE \E ms : \E f \in Fate \ Refusal : Settle(ms, f)
    BY <2>2, SettleSparesChat
  <2>3. QED
    BY <1>2, <2>1, <2>2
<1>4. \A i \in DOMAIN requests' : PromptOnly(requests'[i])
  <2>1. CASE UNCHANGED requests
    BY <2>1 DEF ChatInv
  <2>2. ASSUME leftover[r] # <<>>, NEW opening \in Openings(leftover[r]),
               requests' = Append(requests, [addr |-> addr[r], form |-> "messages",
                                             msgs |-> opening])
        PROVE  \A i \in DOMAIN requests' : PromptOnly(requests'[i])
    <3> DEFINE req == [addr |-> addr[r], form |-> "messages", msgs |-> opening]
    <3>1. addr[r] \in Addresses /\ leftover[r] \in Seq(Message)
        BY DEF TypeOK
    <3>2. req \in Request /\ PromptOnly(req)
        BY <2>2, <3>1, OpeningsAreBatches DEF Request, PromptOnly
    <3>3. QED
        BY <2>2, <3>2, AppendPromptOnly
  <2>3. QED
    BY <2>1, <2>2
    DEF RunStep, Begin, StopQueued, StartTurn, Checkpoint, EndTurn, GoIdle, StopIdle, Wake,
        IdleTimeout, Drain, SetCompleting, Recover, RecordPoint, Remove, ResumeLeftover, Panic
<1>5. QED
    BY <1>1, <1>3, <1>4 DEF ChatInv, PromptOnly, NoChat

\* ChatInv is inductive.
LEMMA ChatNext ==
    ASSUME TypeOK, ChatInv, [Next]_vars
    PROVE  ChatInv'
<1>1. CASE \/ UNCHANGED vars \/ StopAll
           \/ \E a \in Addresses : Stop(a) \/ StopIfRunning(a)
  <2>1. UNCHANGED <<requests, handlers, fate>>
    BY <1>1 DEF vars, Stop, StopIfRunning, StopAll
  <2>2. QED
    BY <2>1 DEF ChatInv, PromptOnly, NoChat, ChatNeverRefused
<1>2. QED
    BY <1>1, ChatSender, ChatDelivery, ChatListener, ChatHandling, ChatRunStep DEF Next

\* ChatInv holds initially.
LEMMA ChatInit == Init => ChatInv
    BY DEF Init, ChatInv, ChatNeverRefused, Message

\* A participant's message is never refused, for capacity or for losing a
\* race, on any of the paths that can carry it.
THEOREM ChatIsNeverRefused == Spec => []ChatNeverRefused
<1>1. ChatInv => ChatNeverRefused
    BY DEF ChatInv
<1>2. QED
    BY <1>1, TypeCorrect, ChatInit, ChatNext, PTL DEF Spec

-----------------------------------------------------------------------------
(* Where a message is held.  Holders of HeldOnce names positions in six    *)
(* kinds of places; the invariant speaks of the places first (Kept) and of *)
(* the positions within one of them apart from that (NoneRepeats).         *)

\* The runs, requests, handlers and detached tasks that hold a message.
RunsWith(f, m) == {r \in Run : m \in Range(f[r])}
RequestsWith(q, m) == {j \in DOMAIN q : m \in Range(q[j].msgs)}
HandlersWith(hs, m) == {h \in hs : m \in Range(h.req.msgs)}
TasksWith(ts, m) == {t \in ts : m \in Range(t.msgs)}

AtMostOne(S) == \A x, y \in S : x = y

\* One of six sets of places has one member if a message is in the system's
\* hands, and none has any otherwise.
Sole(c, k, l, q, h, d, held) ==
    /\ AtMostOne(c) /\ AtMostOne(k) /\ AtMostOne(l)
    /\ AtMostOne(q) /\ AtMostOne(h) /\ AtMostOne(d)
    /\ c # {} => held /\ k = {} /\ l = {} /\ q = {} /\ h = {} /\ d = {}
    /\ k # {} => held /\ l = {} /\ q = {} /\ h = {} /\ d = {}
    /\ l # {} => held /\ q = {} /\ h = {} /\ d = {}
    /\ q # {} => held /\ h = {} /\ d = {}
    /\ h # {} => held /\ d = {}
    /\ d # {} => held
    /\ held => c # {} \/ k # {} \/ l # {} \/ q # {} \/ h # {} \/ d # {}

Kept(m) ==
    Sole(RunsWith(chan, m), RunsWith(kickoff, m), RunsWith(leftover, m),
         RequestsWith(requests, m), HandlersWith(handlers, m), TasksWith(deferred, m),
         fate[m] = "pending")

\* No place holds a message twice.
NoneRepeats ==
    /\ \A r \in Run : IsInjective(chan[r])
    /\ \A r \in Run : IsInjective(kickoff[r])
    /\ \A r \in Run : IsInjective(leftover[r])
    /\ \A j \in DOMAIN requests : IsInjective(requests[j].msgs)
    /\ \A h \in handlers : IsInjective(h.req.msgs)
    /\ \A t \in deferred : IsInjective(t.msgs)

\* A run has an input only before a turn and leftovers only after its drain:
\* what is put there displaces nothing.
EmptyHanded ==
    \A r \in Run :
        /\ pc[r] \notin {"forking", "queued", "woken"} => kickoff[r] = <<>>
        /\ pc[r] \in {"unborn", "forking", "queued", "woken", "running", "after", "idle",
                      "stopping", "drain"} => leftover[r] = <<>>

HeldInv == NoneRepeats /\ EmptyHanded /\ \A m \in Message : Kept(m)

\* Ranges of the sequences a step builds.
LEMMA NothingInEmpty == Range(<<>>) = {} /\ IsInjective(<<>>)
    BY DEF Range, IsInjective

LEMMA OneInSingleton ==
    ASSUME NEW m
    PROVE  Range(<<m>>) = {m} /\ IsInjective(<<m>>)
    BY DEF Range, IsInjective

LEMMA AppendedRange ==
    ASSUME NEW S, NEW s \in Seq(S), NEW m \in S
    PROVE  /\ Range(Append(s, m)) = Range(s) \cup {m}
           /\ IsInjective(s) /\ m \notin Range(s) => IsInjective(Append(s, m))
<1> DEFINE t == Append(s, m)
<1>1. /\ Len(s) \in Nat /\ DOMAIN s = 1 .. Len(s) /\ DOMAIN t = 1 .. Len(s) + 1
      /\ \A i \in DOMAIN s : t[i] = s[i]
      /\ t[Len(s) + 1] = m
    OBVIOUS
<1> HIDE DEF t
<1>2. Range(t) = Range(s) \cup {m}
  <2>1. ASSUME NEW i \in DOMAIN t PROVE t[i] \in Range(s) \cup {m}
    BY <1>1 DEF Range
  <2>2. ASSUME NEW i \in DOMAIN s PROVE s[i] \in Range(t)
    BY <1>1 DEF Range
  <2>3. m \in Range(t)
    BY <1>1 DEF Range
  <2>4. QED
    BY <2>1, <2>2, <2>3 DEF Range
<1>3. ASSUME IsInjective(s), m \notin Range(s) PROVE IsInjective(t)
  <2>1. \A i \in DOMAIN s : s[i] # m
    BY <1>3 DEF Range
  <2>2. QED
    BY <1>1, <1>3, <2>1 DEF IsInjective
<1>4. QED
    BY <1>2, <1>3 DEF t

LEMMA TailRange ==
    ASSUME NEW S, NEW s \in Seq(S), s # <<>>, IsInjective(s)
    PROVE  /\ Head(s) \in Range(s)
           /\ Range(Tail(s)) = Range(s) \ {Head(s)}
           /\ IsInjective(Tail(s))
<1> DEFINE t == Tail(s)
<1>1. /\ Len(s) \in Nat \ {0} /\ DOMAIN s = 1 .. Len(s) /\ DOMAIN t = 1 .. Len(s) - 1
      /\ \A i \in DOMAIN t : t[i] = s[i + 1]
      /\ Head(s) = s[1]
    OBVIOUS
<1> HIDE DEF t
<1>2. Head(s) \in Range(s)
    BY <1>1 DEF Range
<1>3. ASSUME NEW i \in DOMAIN t PROVE t[i] \in Range(s) \ {Head(s)}
    BY <1>1 DEF Range, IsInjective
<1>4. ASSUME NEW i \in DOMAIN s, s[i] # Head(s) PROVE s[i] \in Range(t)
  <2>1. i # 1 /\ i - 1 \in DOMAIN t /\ t[i - 1] = s[i]
    BY <1>1, <1>4
  <2>2. QED
    BY <2>1 DEF Range
<1>5. Range(t) = Range(s) \ {Head(s)}
    BY <1>3, <1>4 DEF Range
<1>6. IsInjective(t)
    BY <1>1 DEF IsInjective
<1>7. QED
    BY <1>2, <1>5, <1>6 DEF t

LEMMA TailOfOne ==
    ASSUME NEW S, NEW s \in Seq(S), Len(s) = 1
    PROVE  Range(Tail(s)) = {}
<1>1. DOMAIN Tail(s) = {}
    OBVIOUS
<1>2. QED
    BY <1>1 DEF Range

\* A run's leftovers and the request that opens the next run with them.
LEMMA OpeningHoldsAll ==
    ASSUME NEW s \in Seq(Message), NEW t \in Openings(s)
    PROVE  Range(t) = Range(s) /\ IsInjective(t)
<1>1. t \in [DOMAIN s -> Range(s)] /\ Range(t) = Range(s)
    BY DEF Openings
<1>2. \A i, j \in DOMAIN s : \A k, l \in DOMAIN s :
        s[i] = t[k] /\ s[j] = t[l] /\ k < l =>
            IF t[k] \in Chat THEN t[l] \in Chat /\ i < j ELSE t[l] \in Chat \/ i < j
    BY DEF Openings
<1>3. DOMAIN s = 1 .. Len(s) /\ Len(s) \in Nat
    OBVIOUS
<1>4. ASSUME NEW k \in DOMAIN s, NEW l \in DOMAIN s, t[k] = t[l], k < l PROVE FALSE
  <2>1. PICK i \in DOMAIN s : s[i] = t[k]
    BY <1>1 DEF Range
  <2>2. i \in Nat /\ ~(i < i)
    BY <1>3
  <2>3. QED
    BY <1>2, <1>4, <2>1, <2>2
<1>5. IsInjective(t)
  <2>1. DOMAIN t = DOMAIN s
    BY <1>1
  <2>2. \A k, l \in DOMAIN s : k = l \/ k < l \/ l < k
    BY <1>3
  <2>3. QED
    BY <1>4, <2>1, <2>2 DEF IsInjective
<1>6. QED
    BY <1>1, <1>5

\* Two sets of places look alike to Sole.
Like(S, T) == (S = {} <=> T = {}) /\ (AtMostOne(S) => AtMostOne(T))

LEMMA LikeItself == \A S : Like(S, S)
    BY DEF Like

\* A holder that is replaced by one that holds the same.
LEMMA SwapLike ==
    ASSUME NEW S, NEW h, NEW N, h \in S <=> N # {}, AtMostOne(N),
           NEW T, T = (S \ {h}) \cup N
    PROVE  Like(S, T)
    BY DEF Like, AtMostOne

\* A message that does not move is kept, wherever its place has moved to.
LEMMA KeptLike ==
    ASSUME NEW x, Kept(x),
           Like(RunsWith(chan, x), RunsWith(chan', x)),
           Like(RunsWith(kickoff, x), RunsWith(kickoff', x)),
           Like(RunsWith(leftover, x), RunsWith(leftover', x)),
           Like(RequestsWith(requests, x), RequestsWith(requests', x)),
           Like(HandlersWith(handlers, x), HandlersWith(handlers', x)),
           Like(TasksWith(deferred, x), TasksWith(deferred', x)),
           fate[x] = "pending" <=> fate'[x] = "pending"
    PROVE  Kept(x)'
<1> DEFINE c == RunsWith(chan, x)
           k == RunsWith(kickoff, x)
           l == RunsWith(leftover, x)
           q == RequestsWith(requests, x)
           h == HandlersWith(handlers, x)
           d == TasksWith(deferred, x)
           p == fate[x] = "pending"
           pp == fate'[x] = "pending"
           cc == RunsWith(chan', x)
           kk == RunsWith(kickoff', x)
           ll == RunsWith(leftover', x)
           qq == RequestsWith(requests', x)
           hh == HandlersWith(handlers', x)
           dd == TasksWith(deferred', x)
<1>1. Sole(c, k, l, q, h, d, p)
    BY DEF Kept
<1>2. Like(c, cc) /\ Like(k, kk) /\ Like(l, ll) /\ Like(q, qq) /\ Like(h, hh) /\ Like(d, dd)
    OBVIOUS
<1>3. p <=> pp
    OBVIOUS
<1> HIDE DEF c, k, l, q, h, d, p, cc, kk, ll, qq, hh, dd, pp
<1>4. Sole(cc, kk, ll, qq, hh, dd, pp)
    BY ONLY <1>1, <1>2, <1>3 DEF Sole, Like
<1>5. QED
    BY <1>4 DEF Kept, cc, kk, ll, qq, hh, dd, pp

\* What a run's channel, input or leftovers become changes one place.
LEMMA InjectiveSet ==
    ASSUME NEW f \in [Run -> Seq(Message)], NEW r \in Run, NEW s, IsInjective(s),
           \A o \in Run : IsInjective(f[o])
    PROVE  \A o \in Run : IsInjective([f EXCEPT ![r] = s][o])
    OBVIOUS

\* A new request is a new place for what it holds.
LEMMA RequestsWithAppended ==
    ASSUME NEW q, NEW t, NEW n \in Nat, DOMAIN q = 1 .. n, DOMAIN t = 1 .. n + 1,
           \A i \in 1 .. n : t[i] = q[i], NEW x
    PROVE  RequestsWith(t, x)
             = IF x \in Range(t[n + 1].msgs) THEN RequestsWith(q, x) \cup {n + 1}
               ELSE RequestsWith(q, x)
    BY DEF RequestsWith

LEMMA InjectiveAppended ==
    ASSUME NEW q \in Seq(Request), NEW e \in Request, IsInjective(e.msgs),
           \A j \in DOMAIN q : IsInjective(q[j].msgs)
    PROVE  \A j \in DOMAIN Append(q, e) : IsInjective(Append(q, e)[j].msgs)
<1> DEFINE t == Append(q, e)
<1>1. /\ Len(q) \in Nat /\ DOMAIN q = 1 .. Len(q) /\ DOMAIN t = 1 .. Len(q) + 1
      /\ \A i \in DOMAIN q : t[i] = q[i]
      /\ t[Len(q) + 1] = e
    OBVIOUS
<1> HIDE DEF t
<1>2. \A j \in DOMAIN t : IsInjective(t[j].msgs)
    BY <1>1
<1>3. QED
    BY <1>2 DEF t

\* Taking the first request moves the others up.
LEMMA RequestsWithTail ==
    ASSUME NEW q \in Seq(Request), q # <<>>, NEW x
    PROVE  /\ x \notin Range(Head(q).msgs) => Like(RequestsWith(q, x), RequestsWith(Tail(q), x))
           /\ x \in Range(Head(q).msgs) /\ AtMostOne(RequestsWith(q, x)) =>
                RequestsWith(q, x) # {} /\ RequestsWith(Tail(q), x) = {}
<1> DEFINE t == Tail(q)
<1>1. /\ Len(q) \in Nat \ {0} /\ DOMAIN q = 1 .. Len(q) /\ DOMAIN t = 1 .. Len(q) - 1
      /\ \A i \in DOMAIN t : t[i] = q[i + 1]
      /\ Head(q) = q[1]
    OBVIOUS
<1> HIDE DEF t
<1>2. \A i : i \in RequestsWith(t, x) <=> i \in DOMAIN t /\ i + 1 \in RequestsWith(q, x)
    BY <1>1 DEF RequestsWith
<1>3. RequestsWith(q, x) \subseteq DOMAIN q /\ RequestsWith(t, x) \subseteq DOMAIN t
    BY DEF RequestsWith
<1>4. 1 \in RequestsWith(q, x) <=> x \in Range(Head(q).msgs)
    BY <1>1 DEF RequestsWith
<1>5. \A j \in RequestsWith(q, x) : j # 1 => j - 1 \in RequestsWith(t, x)
  <2>1. \A j \in DOMAIN q : j # 1 => j - 1 \in DOMAIN t /\ (j - 1) + 1 = j
    BY <1>1
  <2>2. QED
    BY <1>2, <1>3, <2>1
<1>6. ASSUME x \notin Range(Head(q).msgs)
      PROVE  Like(RequestsWith(q, x), RequestsWith(t, x))
  <2>1. RequestsWith(q, x) = {} <=> RequestsWith(t, x) = {}
    BY <1>2, <1>4, <1>5, <1>6
  <2>2. ASSUME AtMostOne(RequestsWith(q, x)), NEW i \in RequestsWith(t, x),
               NEW j \in RequestsWith(t, x)
        PROVE  i = j
    <3>1. i + 1 = j + 1 /\ i \in Int /\ j \in Int
        BY <1>1, <1>2, <1>3, <2>2 DEF AtMostOne
    <3>2. QED
        BY <3>1
  <2>3. QED
    BY <2>1, <2>2 DEF Like, AtMostOne
<1>7. ASSUME x \in Range(Head(q).msgs), AtMostOne(RequestsWith(q, x))
      PROVE  RequestsWith(q, x) # {} /\ RequestsWith(t, x) = {}
  <2>1. ASSUME NEW i \in RequestsWith(t, x) PROVE FALSE
    <3>1. i + 1 = 1 /\ i \in DOMAIN t
        BY <1>2, <1>3, <1>4, <1>7 DEF AtMostOne
    <3>2. QED
        BY <1>1, <3>1
  <2>2. QED
    BY <1>4, <1>7, <2>1
<1>8. QED
    BY <1>6, <1>7 DEF t

LEMMA InjectiveTail ==
    ASSUME NEW q \in Seq(Request), q # <<>>, \A j \in DOMAIN q : IsInjective(q[j].msgs)
    PROVE  /\ IsInjective(Head(q).msgs)
           /\ \A j \in DOMAIN Tail(q) : IsInjective(Tail(q)[j].msgs)
<1> DEFINE t == Tail(q)
<1>1. /\ Len(q) \in Nat \ {0} /\ DOMAIN q = 1 .. Len(q) /\ DOMAIN t = 1 .. Len(q) - 1
      /\ \A i \in DOMAIN t : t[i] = q[i + 1]
      /\ Head(q) = q[1]
    OBVIOUS
<1> HIDE DEF t
<1>2. IsInjective(Head(q).msgs)
    BY <1>1
<1>3. \A j \in DOMAIN t : IsInjective(t[j].msgs)
  <2>1. \A j \in DOMAIN t : j + 1 \in DOMAIN q
    BY <1>1
  <2>2. QED
    BY <1>1, <2>1
<1>4. QED
    BY <1>2, <1>3 DEF t

\* Where a kept message is, it is nowhere else.
LEMMA KeptWhere ==
    ASSUME NEW x, Kept(x)
    PROVE  LET c == RunsWith(chan, x)
               k == RunsWith(kickoff, x)
               l == RunsWith(leftover, x)
               q == RequestsWith(requests, x)
               h == HandlersWith(handlers, x)
               d == TasksWith(deferred, x)
           IN
           /\ AtMostOne(c) /\ AtMostOne(k) /\ AtMostOne(l)
           /\ AtMostOne(q) /\ AtMostOne(h) /\ AtMostOne(d)
           /\ c # {} => fate[x] = "pending" /\ k = {} /\ l = {} /\ q = {} /\ h = {} /\ d = {}
           /\ k # {} => fate[x] = "pending" /\ c = {} /\ l = {} /\ q = {} /\ h = {} /\ d = {}
           /\ l # {} => fate[x] = "pending" /\ c = {} /\ k = {} /\ q = {} /\ h = {} /\ d = {}
           /\ q # {} => fate[x] = "pending" /\ c = {} /\ k = {} /\ l = {} /\ h = {} /\ d = {}
           /\ h # {} => fate[x] = "pending" /\ c = {} /\ k = {} /\ l = {} /\ q = {} /\ d = {}
           /\ d # {} => fate[x] = "pending" /\ c = {} /\ k = {} /\ l = {} /\ q = {} /\ h = {}
           /\ fate[x] # "pending" =>
                c = {} /\ k = {} /\ l = {} /\ q = {} /\ h = {} /\ d = {}
<1> DEFINE c == RunsWith(chan, x)
           k == RunsWith(kickoff, x)
           l == RunsWith(leftover, x)
           q == RequestsWith(requests, x)
           h == HandlersWith(handlers, x)
           d == TasksWith(deferred, x)
           p == fate[x] = "pending"
<1>1. Sole(c, k, l, q, h, d, p)
    BY DEF Kept
<1> HIDE DEF c, k, l, q, h, d, p
<1>2. /\ AtMostOne(c) /\ AtMostOne(k) /\ AtMostOne(l)
      /\ AtMostOne(q) /\ AtMostOne(h) /\ AtMostOne(d)
      /\ c # {} => p /\ k = {} /\ l = {} /\ q = {} /\ h = {} /\ d = {}
      /\ k # {} => p /\ c = {} /\ l = {} /\ q = {} /\ h = {} /\ d = {}
      /\ l # {} => p /\ c = {} /\ k = {} /\ q = {} /\ h = {} /\ d = {}
      /\ q # {} => p /\ c = {} /\ k = {} /\ l = {} /\ h = {} /\ d = {}
      /\ h # {} => p /\ c = {} /\ k = {} /\ l = {} /\ q = {} /\ d = {}
      /\ d # {} => p /\ c = {} /\ k = {} /\ l = {} /\ q = {} /\ h = {}
      /\ ~p => c = {} /\ k = {} /\ l = {} /\ q = {} /\ h = {} /\ d = {}
    BY ONLY <1>1 DEF Sole
<1>3. QED
    BY <1>2 DEF c, k, l, q, h, d, p

\* A message that is now in one place is kept, and so is one that is in none
\* because it is settled.
LEMMA KeptThere ==
    ASSUME NEW x, NEW y, fate'[x] = "pending",
           \E c, k, l, q, h, d :
             /\ RunsWith(chan', x) = c /\ RunsWith(kickoff', x) = k
             /\ RunsWith(leftover', x) = l /\ RequestsWith(requests', x) = q
             /\ HandlersWith(handlers', x) = h /\ TasksWith(deferred', x) = d
             /\ \/ c = {y} /\ k = {} /\ l = {} /\ q = {} /\ h = {} /\ d = {}
                \/ c = {} /\ k = {y} /\ l = {} /\ q = {} /\ h = {} /\ d = {}
                \/ c = {} /\ k = {} /\ l = {y} /\ q = {} /\ h = {} /\ d = {}
                \/ c = {} /\ k = {} /\ l = {} /\ q = {y} /\ h = {} /\ d = {}
                \/ c = {} /\ k = {} /\ l = {} /\ q = {} /\ h = {y} /\ d = {}
                \/ c = {} /\ k = {} /\ l = {} /\ q = {} /\ h = {} /\ d = {y}
    PROVE  Kept(x)'
    BY DEF Kept, Sole, AtMostOne

LEMMA KeptNowhere ==
    ASSUME NEW x, fate'[x] # "pending",
           RunsWith(chan', x) = {}, RunsWith(kickoff', x) = {}, RunsWith(leftover', x) = {},
           RequestsWith(requests', x) = {}, HandlersWith(handlers', x) = {},
           TasksWith(deferred', x) = {}
    PROVE  Kept(x)'
    BY DEF Kept, Sole, AtMostOne

\* A push puts one message into one channel.
LEMMA PushHeld ==
    ASSUME TypeOK, NoneRepeats, NEW a \in Addresses, NEW m \in Message,
           Outcome(a) = "Delivered", Push(a, m)
    PROVE  \E r \in Run :
             /\ RunsWith(chan', m) = RunsWith(chan, m) \cup {r}
             /\ \A x : x # m => RunsWith(chan', x) = RunsWith(chan, x)
             /\ RunsWith(chan, m) = {} => \A o \in Run : IsInjective(chan'[o])
<1> DEFINE r == entry[a]
           s == Append(chan[r], m)
<1>1. r \in Run /\ chan \in [Run -> Seq(Message)]
    BY OutcomeFacts DEF TypeOK
<1>2. chan' = [chan EXCEPT ![r] = s]
    BY DEF Push
<1>3. /\ Range(s) = Range(chan[r]) \cup {m}
      /\ IsInjective(chan[r]) /\ m \notin Range(chan[r]) => IsInjective(s)
    BY <1>1, AppendedRange
<1> HIDE DEF r, s
<1>4. \A x : RunsWith(chan', x)
               = IF x \in Range(s) THEN RunsWith(chan, x) \cup {r} ELSE RunsWith(chan, x) \ {r}
  <2>1. chan'[r] = s /\ \A o \in Run : o # r => chan'[o] = chan[o]
    BY <1>1, <1>2
  <2>2. QED
    BY ONLY <1>1, <2>1 DEF RunsWith
<1>5. \A x : r \in RunsWith(chan, x) <=> x \in Range(chan[r])
    BY <1>1 DEF RunsWith
<1>6. ASSUME RunsWith(chan, m) = {} PROVE \A o \in Run : IsInjective(chan'[o])
  <2>1. IsInjective(s)
    BY <1>1, <1>3, <1>5, <1>6 DEF NoneRepeats
  <2>2. QED
    BY <1>1, <1>2, <2>1, InjectiveSet DEF NoneRepeats
<1>7. RunsWith(chan', m) = RunsWith(chan, m) \cup {r}
    BY <1>3, <1>4
<1>8. ASSUME NEW x, x # m PROVE RunsWith(chan', x) = RunsWith(chan, x)
  <2>1. CASE x \in Range(chan[r])
    <3>1. x \in Range(s) /\ r \in RunsWith(chan, x)
        BY <1>3, <1>5, <2>1
    <3>2. QED
        BY <1>4, <3>1
  <2>2. CASE x \notin Range(chan[r])
    <3>1. x \notin Range(s) /\ r \notin RunsWith(chan, x)
        BY <1>3, <1>5, <1>8, <2>2
    <3>2. QED
        BY <1>4, <3>1
  <2>3. QED
    BY <2>1, <2>2
<1>9. QED
    BY <1>1, <1>6, <1>7, <1>8

\* The fate a settlement gives.
LEMMA SettledFate ==
    ASSUME TypeOK, NEW ms, NEW f, Settle(ms, f)
    PROVE  \A x \in Message : fate'[x] = IF x \in ms THEN f ELSE fate[x]
    BY DEF Settle

\* A sender hands its message to one place, or keeps it.
LEMMA HeldSender ==
    ASSUME TypeOK, HeldInv, NEW m \in Message, Sender(m)
    PROVE  HeldInv'
<1> DEFINE a == Dest[m]
<1>0. a \in Addresses
    BY SessionsAssumption
<1> HIDE DEF a
<1>1. fate[m] = "unsent" /\ UNCHANGED <<kickoff, leftover, handlers, pc>>
    BY DEF Sender, Send, DeliverConversation, RequestTask, run
<1>2. /\ RunsWith(chan, m) = {} /\ RunsWith(kickoff, m) = {} /\ RunsWith(leftover, m) = {}
      /\ RequestsWith(requests, m) = {} /\ HandlersWith(handlers, m) = {}
      /\ TasksWith(deferred, m) = {}
    BY <1>1, KeptWhere DEF HeldInv
<1>3. EmptyHanded'
    BY <1>1 DEF HeldInv, EmptyHanded
<1>4. CASE Settle({m}, "refused") /\ UNCHANGED <<chan, deferred, requests>>
  <2>1. NoneRepeats'
    BY <1>1, <1>4 DEF HeldInv, NoneRepeats
  <2>2. ASSUME NEW x \in Message PROVE Kept(x)'
    <3>1. fate[x] = "pending" <=> fate'[x] = "pending"
        BY <1>1, <1>4, SettledFate
    <3>2. QED
        BY <1>1, <1>4, <3>1, KeptLike, LikeItself DEF HeldInv
  <2>3. QED
    BY <1>3, <2>1, <2>2 DEF HeldInv
<1>5. CASE /\ Outcome(a) = "Delivered" /\ Push(a, m) /\ Settle({m}, "pending")
           /\ UNCHANGED <<deferred, requests>>
  <2>1. PICK r \in Run :
          /\ RunsWith(chan', m) = RunsWith(chan, m) \cup {r}
          /\ \A x : x # m => RunsWith(chan', x) = RunsWith(chan, x)
          /\ RunsWith(chan, m) = {} => \A o \in Run : IsInjective(chan'[o])
    BY <1>0, <1>5, PushHeld DEF HeldInv
  <2>2. NoneRepeats'
    BY <1>1, <1>2, <1>5, <2>1 DEF HeldInv, NoneRepeats
  <2>3. Kept(m)'
    <3>1. fate'[m] = "pending"
        BY <1>5, SettledFate
    <3>2. RunsWith(chan', m) = {r}
        BY <1>2, <2>1
    <3>3. QED
        BY <1>1, <1>2, <1>5, <3>1, <3>2, KeptThere
  <2>4. ASSUME NEW x \in Message, x # m PROVE Kept(x)'
    <3>1. fate[x] = "pending" <=> fate'[x] = "pending"
        BY <1>5, <2>4, SettledFate
    <3>2. QED
        BY <1>1, <1>5, <2>1, <2>4, <3>1, KeptLike, LikeItself DEF HeldInv
  <2>5. QED
    BY <1>3, <2>2, <2>3, <2>4 DEF HeldInv
<1>6. ASSUME NEW from, NEW at, Defer(from, at, a, <<m>>), Settle({m}, "pending"),
             UNCHANGED <<chan, requests>>
      PROVE  HeldInv'
  <2> DEFINE t == [from |-> from, pc |-> at, addr |-> a, msgs |-> <<m>>]
  <2>1. deferred' = deferred \cup {t} /\ t.msgs = <<m>>
    BY <1>6 DEF Defer
  <2> HIDE DEF t
  <2>2. \A x : TasksWith(deferred', x)
                 = IF x = m THEN TasksWith(deferred, x) \cup {t} ELSE TasksWith(deferred, x)
    BY <2>1, OneInSingleton DEF TasksWith
  <2>3. NoneRepeats'
    BY <1>1, <1>6, <2>1, OneInSingleton DEF HeldInv, NoneRepeats
  <2>4. Kept(m)'
    <3>1. fate'[m] = "pending"
        BY <1>6, SettledFate
    <3>2. TasksWith(deferred', m) = {t}
        BY <1>2, <2>2
    <3>3. QED
        BY <1>1, <1>2, <1>6, <3>1, <3>2, KeptThere
  <2>5. ASSUME NEW x \in Message, x # m PROVE Kept(x)'
    <3>1. fate[x] = "pending" <=> fate'[x] = "pending"
        BY <1>6, <2>5, SettledFate
    <3>2. QED
        BY <1>1, <1>6, <2>2, <2>5, <3>1, KeptLike, LikeItself DEF HeldInv
  <2>6. QED
    BY <1>3, <2>3, <2>4, <2>5 DEF HeldInv
<1>7. CASE RequestTask(m)
  <2> DEFINE e == [addr |-> a, form |-> "task", msgs |-> <<m>>]
  <2>1. e \in Request /\ e.msgs = <<m>>
    BY <1>0 DEF Request, Batch
  <2>2. requests' = Append(requests, e) /\ requests \in Seq(Request)
    BY <1>7 DEF RequestTask, TypeOK, a
  <2>3. UNCHANGED <<chan, deferred>> /\ Settle({m}, "pending")
    BY <1>7 DEF RequestTask
  <2> HIDE DEF e
  <2>4. \A x : RequestsWith(requests', x)
                 = IF x = m THEN RequestsWith(requests, x) \cup {Len(requests) + 1}
                   ELSE RequestsWith(requests, x)
    <3>1. /\ Len(requests) \in Nat /\ DOMAIN requests = 1 .. Len(requests)
          /\ DOMAIN requests' = 1 .. Len(requests) + 1
          /\ \A i \in 1 .. Len(requests) : requests'[i] = requests[i]
          /\ requests'[Len(requests) + 1] = e
        BY <2>1, <2>2
    <3>2. Range(e.msgs) = {m}
        BY <2>1, OneInSingleton
    <3>3. QED
        BY <3>1, <3>2, RequestsWithAppended
  <2>5. NoneRepeats'
    <3>1. \A j \in DOMAIN requests' : IsInjective(requests'[j].msgs)
        BY <2>1, <2>2, InjectiveAppended, OneInSingleton DEF HeldInv, NoneRepeats
    <3>2. QED
        BY <1>1, <2>3, <3>1 DEF HeldInv, NoneRepeats
  <2>6. Kept(m)'
    <3>1. fate'[m] = "pending"
        BY <2>3, SettledFate
    <3>2. RequestsWith(requests', m) = {Len(requests) + 1}
        BY <1>2, <2>4
    <3>3. QED
        BY <1>1, <1>2, <2>3, <3>1, <3>2, KeptThere
  <2>7. ASSUME NEW x \in Message, x # m PROVE Kept(x)'
    <3>1. fate[x] = "pending" <=> fate'[x] = "pending"
        BY <2>3, <2>7, SettledFate
    <3>2. QED
        BY <1>1, <2>3, <2>4, <2>7, <3>1, KeptLike, LikeItself DEF HeldInv
  <2>8. QED
    BY <1>3, <2>5, <2>6, <2>7 DEF HeldInv
<1>8. QED
    BY <1>4, <1>5, <1>6, <1>7 DEF Sender, Send, DeliverConversation, a

\* What becomes of a detached task that is done with its first message.
LEMMA AdvanceHeld ==
    ASSUME NEW t \in Deferred, IsInjective(t.msgs)
    PROVE  /\ Head(t.msgs) \in Range(t.msgs)
           /\ \A x : TasksWith(Advance(t), x) # {} <=> x \in Range(t.msgs) \ {Head(t.msgs)}
           /\ AtMostOne(Advance(t))
           /\ \A u \in Advance(t) : IsInjective(u.msgs)
<1> DEFINE s == t.msgs
           u == [t EXCEPT !.from = "deferred", !.pc = "try", !.msgs = Tail(@)]
<1>1. s \in Seq(Message) /\ s # <<>>
    BY DEF Deferred, Batch
<1>2. Head(s) \in Range(s) /\ Range(Tail(s)) = Range(s) \ {Head(s)} /\ IsInjective(Tail(s))
    BY <1>1, TailRange
<1>3. u.msgs = Tail(s)
    BY DEF Deferred
<1>4. Advance(t) = IF Len(s) = 1 THEN {} ELSE {u}
    BY DEF Advance
<1>5. Len(s) = 1 => Range(Tail(s)) = {}
    BY <1>1, TailOfOne
<1> HIDE DEF s, u
<1>6. CASE Len(s) = 1
  <2>1. Range(s) \ {Head(s)} = {}
    BY <1>2, <1>5, <1>6
  <2>2. QED
    BY <1>2, <1>4, <1>6, <2>1 DEF TasksWith, AtMostOne, s
<1>7. CASE Len(s) # 1
    BY <1>2, <1>3, <1>4, <1>7 DEF TasksWith, AtMostOne, s
<1>8. QED
    BY <1>6, <1>7

\* A detached task that only moves on holds what it held.
LEMMA TaskMoves ==
    ASSUME TypeOK, HeldInv, NEW t \in deferred, NEW u, u.msgs = t.msgs, Replace(t, {u}),
           UNCHANGED <<run, chan, requests, handlers, fate>>
    PROVE  HeldInv'
<1>1. deferred' = (deferred \ {t}) \cup {u} /\ UNCHANGED <<pc, kickoff, leftover>>
    BY DEF Replace, run
<1>2. NoneRepeats'
    BY <1>1 DEF HeldInv, NoneRepeats
<1>3. EmptyHanded'
    BY <1>1 DEF HeldInv, EmptyHanded
<1>4. ASSUME NEW x \in Message PROVE Kept(x)'
  <2>1. t \in TasksWith(deferred, x) <=> TasksWith({u}, x) # {}
    BY DEF TasksWith
  <2>2. AtMostOne(TasksWith({u}, x))
    BY DEF TasksWith, AtMostOne
  <2>3. TasksWith(deferred', x) = (TasksWith(deferred, x) \ {t}) \cup TasksWith({u}, x)
    BY <1>1 DEF TasksWith
  <2>4. Like(TasksWith(deferred, x), TasksWith(deferred', x))
    BY <2>1, <2>2, <2>3, SwapLike
  <2>5. QED
    BY <1>1, <2>4, KeptLike, LikeItself DEF HeldInv
<1>5. QED
    BY <1>2, <1>3, <1>4 DEF HeldInv

\* A detached task hands over or gives up its first message.
LEMMA TaskAdvances ==
    ASSUME TypeOK, HeldInv, NEW t \in deferred, Replace(t, Advance(t)),
           UNCHANGED <<run, handlers>>
    PROVE  LET m == Head(t.msgs) IN
           /\ m \in Message
           /\ UNCHANGED <<pc, kickoff, leftover>>
           /\ \A u \in deferred' : IsInjective(u.msgs)
           /\ EmptyHanded'
           /\ TasksWith(deferred', m) = {}
           /\ RunsWith(chan, m) = {} /\ RunsWith(kickoff, m) = {} /\ RunsWith(leftover, m) = {}
           /\ RequestsWith(requests, m) = {} /\ HandlersWith(handlers, m) = {}
           /\ fate[m] = "pending"
           /\ \A x \in Message \ {m} : Like(TasksWith(deferred, x), TasksWith(deferred', x))
<1> DEFINE m == Head(t.msgs)
<1>1. t \in Deferred /\ IsInjective(t.msgs) /\ m \in Message
    BY BatchFacts DEF TypeOK, HeldInv, NoneRepeats, Deferred
<1>2. /\ m \in Range(t.msgs)
      /\ \A x : TasksWith(Advance(t), x) # {} <=> x \in Range(t.msgs) \ {m}
      /\ AtMostOne(Advance(t))
      /\ \A u \in Advance(t) : IsInjective(u.msgs)
    BY <1>1, AdvanceHeld
<1>3. deferred' = (deferred \ {t}) \cup Advance(t) /\ UNCHANGED <<pc, kickoff, leftover>>
    BY DEF Replace, run
<1> HIDE DEF m
<1>4. \A x : TasksWith(deferred', x) = (TasksWith(deferred, x) \ {t}) \cup TasksWith(Advance(t), x)
    BY <1>3 DEF TasksWith
<1>5. \A x : t \in TasksWith(deferred, x) <=> x \in Range(t.msgs)
    BY DEF TasksWith
<1>6. t \in TasksWith(deferred, m) /\ TasksWith(Advance(t), m) = {}
    BY <1>2, <1>5
<1>7. Kept(m)
    BY <1>1 DEF HeldInv
<1>8. /\ RunsWith(chan, m) = {} /\ RunsWith(kickoff, m) = {} /\ RunsWith(leftover, m) = {}
      /\ RequestsWith(requests, m) = {} /\ HandlersWith(handlers, m) = {}
      /\ fate[m] = "pending" /\ AtMostOne(TasksWith(deferred, m))
    BY <1>6, <1>7, KeptWhere
<1>9. TasksWith(deferred', m) = {}
    BY <1>4, <1>6, <1>8 DEF AtMostOne
<1>10. ASSUME NEW x \in Message \ {m}
       PROVE  Like(TasksWith(deferred, x), TasksWith(deferred', x))
  <2>1. t \in TasksWith(deferred, x) <=> TasksWith(Advance(t), x) # {}
    BY <1>2, <1>5
  <2>2. AtMostOne(TasksWith(Advance(t), x))
    BY <1>2 DEF TasksWith, AtMostOne
  <2>3. QED
    BY <1>4, <2>1, <2>2, SwapLike
<1>11. \A u \in deferred' : IsInjective(u.msgs)
    BY <1>2, <1>3 DEF HeldInv, NoneRepeats
<1>12. EmptyHanded'
    BY <1>3 DEF HeldInv, EmptyHanded
<1>13. QED
    BY <1>1, <1>3, <1>8, <1>9, <1>10, <1>11, <1>12 DEF m

\* A step of a detached delivery moves its first message to a channel or a
\* request, settles it, or leaves it where it is.
LEMMA HeldDelivery ==
    ASSUME TypeOK, HeldInv, NEW t \in deferred, Delivery(t)
    PROVE  HeldInv'
<1> DEFINE m == Head(t.msgs)
<1>0. t \in Deferred /\ t.addr \in Addresses /\ t.msgs \in Batch /\ m \in Message
    BY BatchFacts DEF TypeOK, Deferred
<1>1. UNCHANGED <<run, handlers>>
    BY DEF Delivery, TryDeliver, TryDeliverChat, WaitClear, PublishResume, PublishConversation
<1> HIDE DEF m
<1>2. ASSUME NEW l, Replace(t, {[t EXCEPT !.pc = l]}), UNCHANGED <<chan, requests, fate>>
      PROVE  HeldInv'
  <2> DEFINE u == [t EXCEPT !.pc = l]
  <2>1. u.msgs = t.msgs
    BY <1>0 DEF Deferred
  <2>2. Replace(t, {u})
    BY <1>2
  <2> HIDE DEF u
  <2>3. QED
    BY <1>1, <1>2, <2>1, <2>2, TaskMoves
<1>3. ASSUME Replace(t, Advance(t))
      PROVE  /\ UNCHANGED <<pc, kickoff, leftover>>
             /\ \A u \in deferred' : IsInjective(u.msgs)
             /\ EmptyHanded'
             /\ TasksWith(deferred', m) = {}
             /\ RunsWith(chan, m) = {} /\ RunsWith(kickoff, m) = {} /\ RunsWith(leftover, m) = {}
             /\ RequestsWith(requests, m) = {} /\ HandlersWith(handlers, m) = {}
             /\ fate[m] = "pending"
             /\ \A x \in Message \ {m} : Like(TasksWith(deferred, x), TasksWith(deferred', x))
    BY <1>1, <1>3, TaskAdvances DEF m
<1>4. ASSUME Outcome(t.addr) = "Delivered", Push(t.addr, m), Replace(t, Advance(t)),
             UNCHANGED <<requests, fate>>
      PROVE  HeldInv'
  <2>1. PICK r \in Run :
          /\ RunsWith(chan', m) = RunsWith(chan, m) \cup {r}
          /\ \A x : x # m => RunsWith(chan', x) = RunsWith(chan, x)
          /\ RunsWith(chan, m) = {} => \A o \in Run : IsInjective(chan'[o])
    BY <1>0, <1>4, PushHeld DEF HeldInv
  <2>2. NoneRepeats'
    BY <1>1, <1>3, <1>4, <2>1 DEF HeldInv, NoneRepeats
  <2>3. Kept(m)'
    <3>1. RunsWith(chan', m) = {r} /\ fate'[m] = "pending"
        BY <1>3, <1>4, <2>1
    <3>2. QED
        BY <1>1, <1>3, <1>4, <3>1, KeptThere
  <2>4. ASSUME NEW x \in Message, x # m PROVE Kept(x)'
    BY <1>1, <1>3, <1>4, <2>1, <2>4, KeptLike, LikeItself DEF HeldInv
  <2>5. QED
    BY <1>3, <1>4, <2>2, <2>3, <2>4 DEF HeldInv
<1>5. ASSUME NEW f, f # "pending", Settle({m}, f), Replace(t, Advance(t)),
             UNCHANGED <<chan, requests>>
      PROVE  HeldInv'
  <2>1. NoneRepeats'
    BY <1>1, <1>3, <1>5 DEF HeldInv, NoneRepeats
  <2>2. Kept(m)'
    <3>1. fate'[m] # "pending"
        BY <1>0, <1>5, SettledFate
    <3>2. QED
        BY <1>1, <1>3, <1>5, <3>1, KeptNowhere
  <2>3. ASSUME NEW x \in Message, x # m PROVE Kept(x)'
    <3>1. fate[x] = "pending" <=> fate'[x] = "pending"
        BY <1>5, <2>3, SettledFate
    <3>2. QED
        BY <1>1, <1>3, <1>5, <2>3, <3>1, KeptLike, LikeItself DEF HeldInv
  <2>4. QED
    BY <1>3, <1>5, <2>1, <2>2, <2>3 DEF HeldInv
<1>6. ASSUME Resume(t.addr, m), Replace(t, Advance(t)), UNCHANGED <<chan, fate>>
      PROVE  HeldInv'
  <2> DEFINE e == [addr |-> t.addr, form |-> "messages", msgs |-> <<m>>]
  <2>1. e \in Request /\ e.msgs = <<m>>
    BY <1>0 DEF Request, Batch
  <2>2. requests' = Append(requests, e) /\ requests \in Seq(Request)
    BY <1>6 DEF Resume, TypeOK
  <2> HIDE DEF e
  <2>3. \A x : RequestsWith(requests', x)
                 = IF x = m THEN RequestsWith(requests, x) \cup {Len(requests) + 1}
                   ELSE RequestsWith(requests, x)
    <3>1. /\ Len(requests) \in Nat /\ DOMAIN requests = 1 .. Len(requests)
          /\ DOMAIN requests' = 1 .. Len(requests) + 1
          /\ \A i \in 1 .. Len(requests) : requests'[i] = requests[i]
          /\ requests'[Len(requests) + 1] = e
        BY <2>1, <2>2
    <3>2. Range(e.msgs) = {m}
        BY <2>1, OneInSingleton
    <3>3. QED
        BY <3>1, <3>2, RequestsWithAppended
  <2>4. NoneRepeats'
    <3>1. \A j \in DOMAIN requests' : IsInjective(requests'[j].msgs)
        BY <2>1, <2>2, InjectiveAppended, OneInSingleton DEF HeldInv, NoneRepeats
    <3>2. QED
        BY <1>1, <1>3, <1>6, <3>1 DEF HeldInv, NoneRepeats
  <2>5. Kept(m)'
    <3>1. RequestsWith(requests', m) = {Len(requests) + 1} /\ fate'[m] = "pending"
        BY <1>3, <1>6, <2>3
    <3>2. QED
        BY <1>1, <1>3, <1>6, <3>1, KeptThere
  <2>6. ASSUME NEW x \in Message, x # m PROVE Kept(x)'
    BY <1>1, <1>3, <1>6, <2>3, <2>6, KeptLike, LikeItself DEF HeldInv
  <2>7. QED
    BY <1>3, <1>6, <2>4, <2>5, <2>6 DEF HeldInv
<1>7. CASE TryDeliver(t) \/ TryDeliverChat(t) \/ WaitClear(t)
    BY <1>2, <1>4, <1>5, <1>7 DEF TryDeliver, TryDeliverChat, WaitClear, m
<1>8. CASE PublishResume(t) \/ PublishConversation(t)
    BY <1>5, <1>6, <1>8 DEF PublishResume, PublishConversation, m
<1>9. QED
    BY <1>7, <1>8 DEF Delivery

\* The listener takes a request with all it holds.
LEMMA HeldListener ==
    ASSUME TypeOK, HeldInv, ListenerRecv
    PROVE  HeldInv'
<1> DEFINE e == Head(requests)
           g == [by |-> "listener", pc |-> "check", req |-> Head(requests)]
<1>1. requests \in Seq(Request) /\ requests # <<>> /\ requests' = Tail(requests)
    BY DEF ListenerRecv, TypeOK
<1>2. handlers' = handlers \cup {g} /\ g.req.msgs = e.msgs
    BY DEF ListenerRecv
<1>3. UNCHANGED <<pc, kickoff, leftover, chan, deferred, fate>>
    BY DEF ListenerRecv, run
<1>4. /\ IsInjective(e.msgs)
      /\ \A j \in DOMAIN requests' : IsInjective(requests'[j].msgs)
    BY <1>1, InjectiveTail DEF HeldInv, NoneRepeats
<1>5. \A x : /\ x \notin Range(e.msgs) =>
                  Like(RequestsWith(requests, x), RequestsWith(requests', x))
             /\ x \in Range(e.msgs) /\ AtMostOne(RequestsWith(requests, x)) =>
                  RequestsWith(requests, x) # {} /\ RequestsWith(requests', x) = {}
    BY <1>1, RequestsWithTail
<1> HIDE DEF e, g
<1>6. \A x : HandlersWith(handlers', x)
               = IF x \in Range(e.msgs) THEN HandlersWith(handlers, x) \cup {g}
                 ELSE HandlersWith(handlers, x)
    BY <1>2 DEF HandlersWith
<1>7. NoneRepeats'
    BY <1>2, <1>3, <1>4 DEF HeldInv, NoneRepeats
<1>8. EmptyHanded'
    BY <1>3 DEF HeldInv, EmptyHanded
<1>9. ASSUME NEW x \in Message, x \in Range(e.msgs) PROVE Kept(x)'
  <2>1. Kept(x)
    BY DEF HeldInv
  <2>2. AtMostOne(RequestsWith(requests, x))
    BY <2>1, KeptWhere
  <2>3. RequestsWith(requests, x) # {} /\ RequestsWith(requests', x) = {}
    BY <1>5, <1>9, <2>2
  <2>4. /\ RunsWith(chan, x) = {} /\ RunsWith(kickoff, x) = {} /\ RunsWith(leftover, x) = {}
        /\ HandlersWith(handlers, x) = {} /\ TasksWith(deferred, x) = {} /\ fate[x] = "pending"
    BY <2>1, <2>3, KeptWhere
  <2>5. HandlersWith(handlers', x) = {g}
    BY <1>6, <1>9, <2>4
  <2>6. QED
    BY <1>3, <2>3, <2>4, <2>5, KeptThere
<1>10. ASSUME NEW x \in Message, x \notin Range(e.msgs) PROVE Kept(x)'
  <2>1. Like(RequestsWith(requests, x), RequestsWith(requests', x))
    BY <1>5, <1>10
  <2>2. HandlersWith(handlers', x) = HandlersWith(handlers, x)
    BY <1>6, <1>10
  <2>3. QED
    BY <1>3, <2>1, <2>2, KeptLike, LikeItself DEF HeldInv
<1>11. QED
    BY <1>7, <1>8, <1>9, <1>10 DEF HeldInv

\* A handler that only moves on holds what it held.
LEMMA HandlerMoves ==
    ASSUME TypeOK, HeldInv, NEW h \in handlers, NEW g, g.req = h.req, Become(h, {g}),
           UNCHANGED <<run, chan, requests, deferred, fate>>
    PROVE  HeldInv'
<1>1. handlers' = (handlers \ {h}) \cup {g} /\ UNCHANGED <<pc, kickoff, leftover>>
    BY DEF Become, run
<1>2. NoneRepeats'
    BY <1>1 DEF HeldInv, NoneRepeats
<1>3. EmptyHanded'
    BY <1>1 DEF HeldInv, EmptyHanded
<1>4. ASSUME NEW x \in Message PROVE Kept(x)'
  <2>1. h \in HandlersWith(handlers, x) <=> HandlersWith({g}, x) # {}
    BY DEF HandlersWith
  <2>2. AtMostOne(HandlersWith({g}, x))
    BY DEF HandlersWith, AtMostOne
  <2>3. HandlersWith(handlers', x) = (HandlersWith(handlers, x) \ {h}) \cup HandlersWith({g}, x)
    BY <1>1 DEF HandlersWith
  <2>4. Like(HandlersWith(handlers, x), HandlersWith(handlers', x))
    BY <2>1, <2>2, <2>3, SwapLike
  <2>5. QED
    BY <1>1, <2>4, KeptLike, LikeItself DEF HeldInv
<1>5. QED
    BY <1>2, <1>3, <1>4 DEF HeldInv

\* What becomes of a losing request that is done with its first message.
LEMMA LosingRestHeld ==
    ASSUME NEW h \in Handler, IsInjective(h.req.msgs)
    PROVE  /\ Head(h.req.msgs) \in Range(h.req.msgs)
           /\ \A x : HandlersWith(LosingRest(h), x) # {}
                       <=> x \in Range(h.req.msgs) \ {Head(h.req.msgs)}
           /\ AtMostOne(LosingRest(h))
           /\ \A g \in LosingRest(h) : IsInjective(g.req.msgs)
<1> DEFINE s == h.req.msgs
           g == [h EXCEPT !.req.msgs = Tail(@)]
<1>1. s \in Seq(Message) /\ s # <<>>
    BY DEF Handler, Request, Batch
<1>2. Head(s) \in Range(s) /\ Range(Tail(s)) = Range(s) \ {Head(s)} /\ IsInjective(Tail(s))
    BY <1>1, TailRange
<1>3. g.req.msgs = Tail(s)
  <2>1. g.req = [h.req EXCEPT !.msgs = Tail(@)]
    BY DEF Handler
  <2>2. [h.req EXCEPT !.msgs = Tail(@)].msgs = Tail(s)
    BY DEF Handler, Request
  <2>3. QED
    BY <2>1, <2>2
<1>4. LosingRest(h) = IF Len(s) = 1 THEN {} ELSE {g}
    BY DEF LosingRest
<1> HIDE DEF s, g
<1>5. Len(s) = 1 => Range(Tail(s)) = {}
    BY <1>1, TailOfOne
<1>6. CASE Len(s) = 1
  <2>1. Range(s) \ {Head(s)} = {}
    BY <1>2, <1>5, <1>6
  <2>2. QED
    BY <1>2, <1>4, <1>6, <2>1 DEF HandlersWith, AtMostOne, s
<1>7. CASE Len(s) # 1
    BY <1>2, <1>3, <1>4, <1>7 DEF HandlersWith, AtMostOne, s
<1>8. QED
    BY <1>6, <1>7

\* A losing request hands over or gives up its first message.
LEMMA HandlerAdvances ==
    ASSUME TypeOK, HeldInv, NEW h \in handlers, Become(h, LosingRest(h)),
           UNCHANGED <<run, requests>>
    PROVE  LET m == Head(h.req.msgs) IN
           /\ UNCHANGED <<pc, kickoff, leftover>>
           /\ \A g \in handlers' : IsInjective(g.req.msgs)
           /\ EmptyHanded'
           /\ HandlersWith(handlers', m) = {}
           /\ RunsWith(chan, m) = {} /\ RunsWith(kickoff, m) = {} /\ RunsWith(leftover, m) = {}
           /\ RequestsWith(requests, m) = {} /\ TasksWith(deferred, m) = {}
           /\ fate[m] = "pending"
           /\ \A x \in Message \ {m} : Like(HandlersWith(handlers, x), HandlersWith(handlers', x))
<1> DEFINE m == Head(h.req.msgs)
           new == LosingRest(h)
<1>1. h \in Handler /\ IsInjective(h.req.msgs) /\ m \in Message
    BY BatchFacts DEF TypeOK, HeldInv, NoneRepeats, Handler, Request
<1>2. /\ m \in Range(h.req.msgs)
      /\ \A x : HandlersWith(new, x) # {} <=> x \in Range(h.req.msgs) \ {m}
      /\ AtMostOne(new)
      /\ \A g \in new : IsInjective(g.req.msgs)
    BY <1>1, LosingRestHeld
<1>3. handlers' = (handlers \ {h}) \cup new /\ UNCHANGED <<pc, kickoff, leftover>>
    BY DEF Become, run
<1> HIDE DEF m, new
<1>4. \A x : HandlersWith(handlers', x) = (HandlersWith(handlers, x) \ {h}) \cup HandlersWith(new, x)
    BY <1>3 DEF HandlersWith
<1>5. \A x : h \in HandlersWith(handlers, x) <=> x \in Range(h.req.msgs)
    BY DEF HandlersWith
<1>6. h \in HandlersWith(handlers, m) /\ HandlersWith(new, m) = {}
    BY <1>2, <1>5
<1>7. Kept(m)
    BY <1>1 DEF HeldInv
<1>8. /\ RunsWith(chan, m) = {} /\ RunsWith(kickoff, m) = {} /\ RunsWith(leftover, m) = {}
      /\ RequestsWith(requests, m) = {} /\ TasksWith(deferred, m) = {}
      /\ fate[m] = "pending" /\ AtMostOne(HandlersWith(handlers, m))
    BY <1>6, <1>7, KeptWhere
<1>9. HandlersWith(handlers', m) = {}
    BY <1>4, <1>6, <1>8 DEF AtMostOne
<1>10. ASSUME NEW x \in Message \ {m}
       PROVE  Like(HandlersWith(handlers, x), HandlersWith(handlers', x))
  <2>1. h \in HandlersWith(handlers, x) <=> HandlersWith(new, x) # {}
    BY <1>2, <1>5
  <2>2. AtMostOne(HandlersWith(new, x))
    BY <1>2 DEF HandlersWith, AtMostOne
  <2>3. QED
    BY <1>4, <2>1, <2>2, SwapLike
<1>11. \A g \in handlers' : IsInjective(g.req.msgs)
    BY <1>2, <1>3 DEF HeldInv, NoneRepeats
<1>12. EmptyHanded'
    BY <1>3 DEF HeldInv, EmptyHanded
<1>13. QED
    BY <1>3, <1>8, <1>9, <1>10, <1>11, <1>12 DEF m

\* A handler that ends lets go of all it held, which was nowhere else.
LEMMA HandlerEnds ==
    ASSUME TypeOK, HeldInv, NEW h \in handlers, Become(h, {})
    PROVE  /\ IsInjective(h.req.msgs)
           /\ \A g \in handlers' : IsInjective(g.req.msgs)
           /\ \A x \in Message : x \notin Range(h.req.msgs) =>
                HandlersWith(handlers', x) = HandlersWith(handlers, x)
           /\ \A x \in Message : x \in Range(h.req.msgs) =>
                /\ HandlersWith(handlers', x) = {}
                /\ RunsWith(chan, x) = {} /\ RunsWith(kickoff, x) = {}
                /\ RunsWith(leftover, x) = {} /\ RequestsWith(requests, x) = {}
                /\ TasksWith(deferred, x) = {} /\ fate[x] = "pending"
<1>1. handlers' = handlers \ {h}
    BY DEF Become
<1>2. \A x : HandlersWith(handlers', x) = HandlersWith(handlers, x) \ {h}
    BY <1>1 DEF HandlersWith
<1>3. \A x : h \in HandlersWith(handlers, x) <=> x \in Range(h.req.msgs)
    BY DEF HandlersWith
<1>4. ASSUME NEW x \in Message, x \in Range(h.req.msgs)
      PROVE  /\ HandlersWith(handlers', x) = {}
             /\ RunsWith(chan, x) = {} /\ RunsWith(kickoff, x) = {}
             /\ RunsWith(leftover, x) = {} /\ RequestsWith(requests, x) = {}
             /\ TasksWith(deferred, x) = {} /\ fate[x] = "pending"
  <2>1. Kept(x) /\ h \in HandlersWith(handlers, x)
    BY <1>3, <1>4 DEF HeldInv
  <2>2. /\ AtMostOne(HandlersWith(handlers, x))
        /\ RunsWith(chan, x) = {} /\ RunsWith(kickoff, x) = {}
        /\ RunsWith(leftover, x) = {} /\ RequestsWith(requests, x) = {}
        /\ TasksWith(deferred, x) = {} /\ fate[x] = "pending"
    BY <2>1, KeptWhere
  <2>3. HandlersWith(handlers', x) = {}
    BY <1>2, <2>1, <2>2 DEF AtMostOne
  <2>4. QED
    BY <2>2, <2>3
<1>5. ASSUME NEW x \in Message, x \notin Range(h.req.msgs)
      PROVE  HandlersWith(handlers', x) = HandlersWith(handlers, x)
    BY <1>2, <1>3, <1>5
<1>6. IsInjective(h.req.msgs) /\ \A g \in handlers' : IsInjective(g.req.msgs)
    BY <1>1 DEF HeldInv, NoneRepeats
<1>7. QED
    BY <1>4, <1>5, <1>6

\* Handling a request moves its messages to a channel, a detached task or a
\* new run, settles them, or leaves them where they are.
LEMMA HeldHandling ==
    ASSUME TypeOK, RegistryInv, HeldInv, NEW h \in handlers, Handling(h)
    PROVE  HeldInv'
<1> DEFINE m == Head(h.req.msgs)
           a == h.req.addr
           s == h.req.msgs
<1>0. h \in Handler /\ a \in Addresses /\ s \in Batch /\ m \in Message
    BY BatchFacts DEF TypeOK, Handler, Request
<1>1. UNCHANGED requests
    BY DEF Handling, CheckAddress, WaitSpawn, DeliverLosing, BuildFails, Spawn, LoseSpawn
<1> HIDE DEF m, a, s
<1>2. CASE CheckAddress(h) \/ WaitSpawn(h) \/ LoseSpawn(h)
  <2>1. UNCHANGED <<run, chan, deferred, fate>>
    BY <1>2 DEF CheckAddress, WaitSpawn, LoseSpawn
  <2>2. \E l : \/ Become(h, {[h EXCEPT !.pc = l]})
               \/ Become(h, {[h EXCEPT !.pc = l, !.by = "task"]})
    BY <1>2 DEF CheckAddress, WaitSpawn, LoseSpawn
  <2>3. \A l : [h EXCEPT !.pc = l].req = h.req /\ [h EXCEPT !.pc = l, !.by = "task"].req = h.req
    BY <1>0 DEF Handler
  <2>4. PICK g : g.req = h.req /\ Become(h, {g})
    BY <2>2, <2>3
  <2>5. QED
    BY <1>1, <2>1, <2>4, HandlerMoves
<1>3. CASE DeliverLosing(h)
  <2>0. UNCHANGED run
    BY <1>3 DEF DeliverLosing
  <2>a. ASSUME Become(h, LosingRest(h))
        PROVE  /\ UNCHANGED <<pc, kickoff, leftover>>
               /\ \A g \in handlers' : IsInjective(g.req.msgs)
               /\ EmptyHanded'
               /\ HandlersWith(handlers', m) = {}
               /\ RunsWith(chan, m) = {} /\ RunsWith(kickoff, m) = {}
               /\ RunsWith(leftover, m) = {}
               /\ RequestsWith(requests, m) = {} /\ TasksWith(deferred, m) = {}
               /\ fate[m] = "pending"
               /\ \A x \in Message \ {m} :
                    Like(HandlersWith(handlers, x), HandlersWith(handlers', x))
    BY <1>1, <2>0, <2>a, HandlerAdvances DEF m
  <2>1. CASE Outcome(a) = "Delivered" /\ Push(a, m) /\ Become(h, LosingRest(h))
             /\ UNCHANGED <<deferred, fate>>
    <3>1. PICK r \in Run :
            /\ RunsWith(chan', m) = RunsWith(chan, m) \cup {r}
            /\ \A x : x # m => RunsWith(chan', x) = RunsWith(chan, x)
            /\ RunsWith(chan, m) = {} => \A o \in Run : IsInjective(chan'[o])
        BY <1>0, <2>1, PushHeld DEF HeldInv
    <3>2. NoneRepeats'
        BY <1>1, <2>1, <2>a, <3>1 DEF HeldInv, NoneRepeats
    <3>3. Kept(m)'
      <4>1. RunsWith(chan', m) = {r} /\ fate'[m] = "pending"
        BY <2>1, <2>a, <3>1
      <4>2. QED
        BY <1>1, <2>1, <2>a, <4>1, KeptThere
    <3>4. ASSUME NEW x \in Message, x # m PROVE Kept(x)'
        BY <1>1, <2>1, <2>a, <3>1, <3>4, KeptLike, LikeItself DEF HeldInv
    <3>5. QED
        BY <2>1, <2>a, <3>2, <3>3, <3>4 DEF HeldInv
  <2>2. CASE Become(h, LosingRest(h)) /\ Settle({m}, "refused") /\ UNCHANGED <<chan, deferred>>
    <3>1. NoneRepeats'
        BY <1>1, <2>2, <2>a DEF HeldInv, NoneRepeats
    <3>2. Kept(m)'
      <4>1. fate'[m] # "pending"
        BY <1>0, <2>2, SettledFate
      <4>2. QED
        BY <1>1, <2>2, <2>a, <4>1, KeptNowhere
    <3>3. ASSUME NEW x \in Message, x # m PROVE Kept(x)'
      <4>1. fate[x] = "pending" <=> fate'[x] = "pending"
        BY <2>2, <3>3, SettledFate
      <4>2. QED
        BY <1>1, <2>2, <2>a, <3>3, <4>1, KeptLike, LikeItself DEF HeldInv
    <3>4. QED
        BY <2>2, <2>a, <3>1, <3>2, <3>3 DEF HeldInv
  <2>3. CASE Become(h, {}) /\ Defer("deferred", "try", a, s) /\ UNCHANGED <<chan, fate>>
    <3> DEFINE t == [from |-> "deferred", pc |-> "try", addr |-> a, msgs |-> s]
    <3>1. deferred' = deferred \cup {t} /\ t.msgs = s
        BY <2>3 DEF Defer
    <3> HIDE DEF t
    <3>2. \A x : TasksWith(deferred', x)
                   = IF x \in Range(s) THEN TasksWith(deferred, x) \cup {t}
                     ELSE TasksWith(deferred, x)
        BY <3>1 DEF TasksWith
    <3>3. /\ IsInjective(s) /\ \A g \in handlers' : IsInjective(g.req.msgs)
          /\ \A x \in Message : x \notin Range(s) =>
                HandlersWith(handlers', x) = HandlersWith(handlers, x)
          /\ \A x \in Message : x \in Range(s) =>
                /\ HandlersWith(handlers', x) = {}
                /\ RunsWith(chan, x) = {} /\ RunsWith(kickoff, x) = {}
                /\ RunsWith(leftover, x) = {} /\ RequestsWith(requests, x) = {}
                /\ TasksWith(deferred, x) = {} /\ fate[x] = "pending"
        BY <2>3, HandlerEnds DEF s
    <3>4. UNCHANGED <<pc, kickoff, leftover>>
        BY <2>0 DEF run
    <3>5. NoneRepeats'
        BY <1>1, <2>3, <3>1, <3>3, <3>4 DEF HeldInv, NoneRepeats
    <3>6. EmptyHanded'
        BY <3>4 DEF HeldInv, EmptyHanded
    <3>7. ASSUME NEW x \in Message, x \in Range(s) PROVE Kept(x)'
      <4>1. TasksWith(deferred', x) = {t}
        BY <3>2, <3>3, <3>7
      <4>2. QED
        BY <1>1, <2>3, <3>3, <3>4, <3>7, <4>1, KeptThere
    <3>8. ASSUME NEW x \in Message, x \notin Range(s) PROVE Kept(x)'
        BY <1>1, <2>3, <3>2, <3>3, <3>4, <3>8, KeptLike, LikeItself DEF HeldInv
    <3>9. QED
        BY <3>5, <3>6, <3>7, <3>8 DEF HeldInv
  <2>4. QED
    BY <1>3, <2>1, <2>2, <2>3 DEF DeliverLosing, a, m, s
<1>4. CASE BuildFails(h) \/ Spawn(h)
  <2>1. Become(h, {}) /\ UNCHANGED <<chan, leftover, deferred>>
    BY <1>4 DEF BuildFails, Spawn, run
  <2>2. /\ IsInjective(s) /\ \A g \in handlers' : IsInjective(g.req.msgs)
        /\ \A x \in Message : x \notin Range(s) =>
              HandlersWith(handlers', x) = HandlersWith(handlers, x)
        /\ \A x \in Message : x \in Range(s) =>
              /\ HandlersWith(handlers', x) = {}
              /\ RunsWith(chan, x) = {} /\ RunsWith(kickoff, x) = {}
              /\ RunsWith(leftover, x) = {} /\ RequestsWith(requests, x) = {}
              /\ TasksWith(deferred, x) = {} /\ fate[x] = "pending"
    BY <2>1, HandlerEnds DEF s
  <2>3. CASE BuildFails(h)
    <3>1. UNCHANGED <<pc, kickoff>> /\ Settle(Range(s), "fork_failed")
        BY <2>3 DEF BuildFails, run, s
    <3>2. NoneRepeats'
        BY <1>1, <2>1, <2>2, <3>1 DEF HeldInv, NoneRepeats
    <3>3. EmptyHanded'
        BY <2>1, <3>1 DEF HeldInv, EmptyHanded
    <3>4. ASSUME NEW x \in Message, x \in Range(s) PROVE Kept(x)'
      <4>1. fate'[x] # "pending"
        BY <3>1, <3>4, SettledFate
      <4>2. QED
        BY <1>1, <2>1, <2>2, <3>1, <3>4, <4>1, KeptNowhere
    <3>5. ASSUME NEW x \in Message, x \notin Range(s) PROVE Kept(x)'
      <4>1. fate[x] = "pending" <=> fate'[x] = "pending"
        BY <3>1, <3>5, SettledFate
      <4>2. QED
        BY <1>1, <2>1, <2>2, <3>1, <3>5, <4>1, KeptLike, LikeItself DEF HeldInv
    <3>6. QED
        BY <3>2, <3>3, <3>4, <3>5 DEF HeldInv
  <2>4. CASE Spawn(h)
    <3> DEFINE r == nextRun
    <3>1. r \in Run /\ pc[r] = "unborn"
        BY <2>4, SessionsAssumption DEF Spawn, TypeOK, Run, RegistryInv, IdsInOrder
    <3>2. kickoff[r] = <<>> /\ leftover[r] = <<>>
        BY <3>1 DEF HeldInv, EmptyHanded
    <3>3. kickoff' = [kickoff EXCEPT ![r] = s] /\ pc' = [pc EXCEPT ![r] = "forking"]
          /\ UNCHANGED fate
        BY <2>4 DEF Spawn, s
    <3>t. kickoff \in [Run -> Seq(Message)] /\ pc \in [Run -> PC]
        BY DEF TypeOK
    <3> HIDE DEF r
    <3>4. \A x : RunsWith(kickoff', x) = IF x \in Range(s) THEN RunsWith(kickoff, x) \cup {r}
                                         ELSE RunsWith(kickoff, x) \ {r}
      <4>1. kickoff'[r] = s /\ \A o \in Run : o # r => kickoff'[o] = kickoff[o]
        BY <3>1, <3>3, <3>t
      <4>2. QED
        BY ONLY <3>1, <4>1 DEF RunsWith
    <3>5. \A x : r \notin RunsWith(kickoff, x)
        BY <3>2, NothingInEmpty DEF RunsWith
    <3>6. \A o \in Run : IsInjective(kickoff'[o])
        BY <2>2, <3>1, <3>3, <3>t, InjectiveSet DEF HeldInv, NoneRepeats
    <3>7. NoneRepeats'
        BY <1>1, <2>1, <2>2, <3>6 DEF HeldInv, NoneRepeats
    <3>8. EmptyHanded'
        BY <2>1, <3>1, <3>2, <3>3, <3>t DEF HeldInv, EmptyHanded
    <3>9. ASSUME NEW x \in Message, x \in Range(s) PROVE Kept(x)'
      <4>1. RunsWith(kickoff', x) = {r}
        BY <2>2, <3>4, <3>9
      <4>2. QED
        BY <1>1, <2>1, <2>2, <3>3, <3>9, <4>1, KeptThere
    <3>10. ASSUME NEW x \in Message, x \notin Range(s) PROVE Kept(x)'
      <4>1. RunsWith(kickoff', x) = RunsWith(kickoff, x)
        BY <3>4, <3>5, <3>10
      <4>2. QED
        BY <1>1, <2>1, <2>2, <3>3, <3>10, <4>1, KeptLike, LikeItself DEF HeldInv
    <3>11. QED
        BY <3>7, <3>8, <3>9, <3>10 DEF HeldInv
  <2>5. QED
    BY <1>4, <2>3, <2>4
<1>5. QED
    BY <1>2, <1>3, <1>4 DEF Handling

\* A task that moves changes what its own run may hold.
LEMMA EmptyHandedMove ==
    ASSUME TypeOK, EmptyHanded, NEW r \in Run, NEW l, Goto(r, l),
           \A o \in Run \ {r} : kickoff'[o] = kickoff[o] /\ leftover'[o] = leftover[o],
           l \notin {"forking", "queued", "woken"} => kickoff'[r] = <<>>,
           l \in {"unborn", "forking", "queued", "woken", "running", "after", "idle",
                  "stopping", "drain"} => leftover'[r] = <<>>
    PROVE  EmptyHanded'
<1>1. pc'[r] = l /\ \A o \in Run \ {r} : pc'[o] = pc[o]
    BY DEF Goto, TypeOK
<1>2. QED
    BY <1>1 DEF EmptyHanded

\* The steps of a run that move no message.
LEMMA HeldQuietStep ==
    ASSUME TypeOK, HeldInv, NEW r \in Run,
           \/ Begin(r) \/ EndTurn(r) \/ GoIdle(r) \/ StopIdle(r) \/ IdleTimeout(r)
           \/ SetCompleting(r) \/ Recover(r) \/ RecordPoint(r) \/ Remove(r)
    PROVE  HeldInv'
<1>1. UNCHANGED <<kickoff, leftover, chan, requests, handlers, deferred, fate>>
    BY DEF Begin, EndTurn, GoIdle, StopIdle, IdleTimeout, SetCompleting, Recover, RecordPoint,
           Remove
<1>2. NoneRepeats'
    BY <1>1 DEF HeldInv, NoneRepeats
<1>3. ASSUME NEW x \in Message PROVE Kept(x)'
    BY <1>1, KeptLike, LikeItself DEF HeldInv
<1>4. EmptyHanded'
  <2>1. EmptyHanded
    BY DEF HeldInv
  <2>2. CASE Begin(r)
    <3>1. pc[r] = "forking" /\ Goto(r, "queued")
        BY <2>2 DEF Begin
    <3>2. QED
        BY <1>1, <2>1, <3>1, EmptyHandedMove DEF EmptyHanded
  <2>3. CASE EndTurn(r)
    <3>1. pc[r] = "running" /\ (Goto(r, "stopping") \/ Goto(r, "after"))
        BY <2>3 DEF EndTurn
    <3>2. kickoff[r] = <<>> /\ leftover[r] = <<>>
        BY <2>1, <3>1 DEF EmptyHanded
    <3>3. QED
        BY <1>1, <2>1, <3>1, <3>2, EmptyHandedMove
  <2>4. CASE GoIdle(r) \/ StopIdle(r) \/ IdleTimeout(r)
    <3>1. pc[r] \in {"after", "idle"} /\ (Goto(r, "idle") \/ Goto(r, "drain"))
        BY <2>4 DEF GoIdle, StopIdle, IdleTimeout
    <3>2. kickoff[r] = <<>> /\ leftover[r] = <<>>
        BY <2>1, <3>1 DEF EmptyHanded
    <3>3. QED
        BY <1>1, <2>1, <3>1, <3>2, EmptyHandedMove
  <2>5. CASE SetCompleting(r) \/ Recover(r) \/ RecordPoint(r) \/ Remove(r)
    <3>1. pc[r] \in {"drained", "panicked", "completing", "recovering", "recorded"}
        BY <2>5 DEF SetCompleting, Recover, RecordPoint, Remove
    <3>2. \E l \in {"completing", "recovering", "recorded", "removed"} : Goto(r, l)
        BY <2>5 DEF SetCompleting, Recover, RecordPoint, Remove
    <3>3. kickoff[r] = <<>>
        BY <2>1, <3>1 DEF EmptyHanded
    <3>4. QED
        BY <1>1, <2>1, <3>2, <3>3, EmptyHandedMove
  <2>6. QED
    BY <2>2, <2>3, <2>4, <2>5
<1>5. QED
    BY <1>2, <1>3, <1>4 DEF HeldInv

\* What one run's channel, input or leftovers hold is nowhere else.
LEMMA HeldByRun ==
    ASSUME HeldInv, NEW r \in Run, NEW x \in Message
    PROVE  /\ x \in Range(chan[r]) =>
                /\ RunsWith(chan, x) = {r} /\ RunsWith(kickoff, x) = {}
                /\ RunsWith(leftover, x) = {} /\ RequestsWith(requests, x) = {}
                /\ HandlersWith(handlers, x) = {} /\ TasksWith(deferred, x) = {}
                /\ fate[x] = "pending"
           /\ x \in Range(kickoff[r]) =>
                /\ RunsWith(chan, x) = {} /\ RunsWith(kickoff, x) = {r}
                /\ RunsWith(leftover, x) = {} /\ RequestsWith(requests, x) = {}
                /\ HandlersWith(handlers, x) = {} /\ TasksWith(deferred, x) = {}
                /\ fate[x] = "pending"
           /\ x \in Range(leftover[r]) =>
                /\ RunsWith(chan, x) = {} /\ RunsWith(kickoff, x) = {}
                /\ RunsWith(leftover, x) = {r} /\ RequestsWith(requests, x) = {}
                /\ HandlersWith(handlers, x) = {} /\ TasksWith(deferred, x) = {}
                /\ fate[x] = "pending"
<1>1. Kept(x)
    BY DEF HeldInv
<1>2. /\ x \in Range(chan[r]) => r \in RunsWith(chan, x)
      /\ x \in Range(kickoff[r]) => r \in RunsWith(kickoff, x)
      /\ x \in Range(leftover[r]) => r \in RunsWith(leftover, x)
    BY DEF RunsWith
<1>3. \A S : r \in S /\ AtMostOne(S) => S = {r}
    BY DEF AtMostOne
<1>4. CASE x \in Range(chan[r])
  <2>1. RunsWith(chan, x) # {} /\ RunsWith(chan, x) = {r}
    BY <1>1, <1>2, <1>3, <1>4, KeptWhere
  <2>2. x \notin Range(kickoff[r]) /\ x \notin Range(leftover[r])
    BY <1>1, <1>2, <2>1, KeptWhere
  <2>3. QED
    BY <1>1, <2>1, <2>2, KeptWhere
<1>5. CASE x \notin Range(chan[r]) /\ x \in Range(kickoff[r])
  <2>1. RunsWith(kickoff, x) # {} /\ RunsWith(kickoff, x) = {r}
    BY <1>1, <1>2, <1>3, <1>5, KeptWhere
  <2>2. x \notin Range(leftover[r])
    BY <1>1, <1>2, <2>1, KeptWhere
  <2>3. QED
    BY <1>1, <1>5, <2>1, <2>2, KeptWhere
<1>6. CASE x \notin Range(chan[r]) /\ x \notin Range(kickoff[r]) /\ x \in Range(leftover[r])
  <2>1. RunsWith(leftover, x) # {} /\ RunsWith(leftover, x) = {r}
    BY <1>1, <1>2, <1>3, <1>6, KeptWhere
  <2>2. QED
    BY <1>1, <1>6, <2>1, KeptWhere
<1>7. QED
    BY <1>4, <1>5, <1>6

\* Emptying one of a run's sequences takes the run off the holders.
LEMMA RunsWithEmptied ==
    ASSUME NEW f \in [Run -> Seq(Message)], NEW r \in Run, NEW x,
           NEW g, g = [f EXCEPT ![r] = <<>>]
    PROVE  /\ RunsWith(g, x) = RunsWith(f, x) \ {r}
           /\ x \notin Range(f[r]) => RunsWith(g, x) = RunsWith(f, x)
           /\ (\A o \in Run : IsInjective(f[o])) => \A o \in Run : IsInjective(g[o])
<1>1. RunsWith(g, x) = RunsWith(f, x) \ {r}
    BY NothingInEmpty DEF RunsWith
<1>2. x \notin Range(f[r]) => r \notin RunsWith(f, x)
    BY DEF RunsWith
<1>3. (\A o \in Run : IsInjective(f[o])) => \A o \in Run : IsInjective(g[o])
    BY InjectiveSet, NothingInEmpty
<1>4. QED
    BY <1>1, <1>2, <1>3

\* A turn starts or is stopped before it does: its input is settled.
LEMMA HeldInput ==
    ASSUME TypeOK, HeldInv, NEW r \in Run, StopQueued(r) \/ StartTurn(r)
    PROVE  HeldInv'
<1>1. PICK f, l : /\ f # "pending" /\ Settle(Range(kickoff[r]), f)
                  /\ l \in {"stopping", "running"} /\ Goto(r, l)
  <2>1. CASE StopQueued(r)
    <3>1. \E f : f # "pending" /\ Settle(Range(kickoff[r]), f)
        BY <2>1 DEF StopQueued
    <3>2. QED
        BY <2>1, <3>1 DEF StopQueued
  <2>2. CASE StartTurn(r)
    BY <2>2 DEF StartTurn
  <2>3. QED
    BY <2>1, <2>2
<1>2. kickoff' = [kickoff EXCEPT ![r] = <<>>] /\ kickoff \in [Run -> Seq(Message)]
      /\ pc[r] \in {"queued", "woken"}
    BY DEF StopQueued, StartTurn, TypeOK
<1>3. UNCHANGED <<chan, leftover, requests, handlers, deferred>>
    BY DEF StopQueued, StartTurn
<1>4. NoneRepeats'
  <2>1. \A o \in Run : IsInjective(kickoff'[o])
    BY <1>2, RunsWithEmptied DEF HeldInv, NoneRepeats
  <2>2. QED
    BY <1>3, <2>1 DEF HeldInv, NoneRepeats
<1>5. EmptyHanded'
  <2>1. EmptyHanded /\ leftover[r] = <<>>
    BY <1>2 DEF HeldInv, EmptyHanded
  <2>2. kickoff'[r] = <<>> /\ \A o \in Run \ {r} : kickoff'[o] = kickoff[o]
    BY <1>2
  <2>3. QED
    BY <1>1, <1>3, <2>1, <2>2, EmptyHandedMove
<1>6. ASSUME NEW x \in Message, x \in Range(kickoff[r]) PROVE Kept(x)'
  <2>1. RunsWith(kickoff', x) = RunsWith(kickoff, x) \ {r}
    BY <1>2, NothingInEmpty DEF RunsWith
  <2>2. /\ RunsWith(chan, x) = {} /\ RunsWith(kickoff, x) = {r}
        /\ RunsWith(leftover, x) = {} /\ RequestsWith(requests, x) = {}
        /\ HandlersWith(handlers, x) = {} /\ TasksWith(deferred, x) = {}
    BY <1>6, HeldByRun
  <2>3. fate'[x] # "pending"
    BY <1>1, <1>6, SettledFate
  <2>4. RunsWith(kickoff', x) = {}
    BY <2>1, <2>2
  <2>5. QED
    BY <1>3, <2>2, <2>3, <2>4, KeptNowhere
<1>7. ASSUME NEW x \in Message, x \notin Range(kickoff[r]) PROVE Kept(x)'
  <2>1. RunsWith(kickoff', x) = RunsWith(kickoff, x)
    BY <1>2, <1>7, NothingInEmpty DEF RunsWith
  <2>2. fate'[x] = fate[x]
    BY <1>1, <1>7, SettledFate
  <2>3. QED
    BY <1>3, <2>1, <2>2, KeptLike, LikeItself DEF HeldInv
<1>8. QED
    BY <1>4, <1>5, <1>6, <1>7 DEF HeldInv

\* A checkpoint reads the channel.
LEMMA HeldCheckpoint ==
    ASSUME TypeOK, HeldInv, NEW r \in Run, Checkpoint(r)
    PROVE  HeldInv'
<1>1. Settle(Range(chan[r]), "read")
    BY DEF Checkpoint
<1>2. chan' = [chan EXCEPT ![r] = <<>>] /\ chan \in [Run -> Seq(Message)]
    BY DEF Checkpoint, TypeOK
<1>3. UNCHANGED <<pc, kickoff, leftover, requests, handlers, deferred>>
    BY DEF Checkpoint, run
<1>4. NoneRepeats'
  <2>1. \A o \in Run : IsInjective(chan'[o])
    BY <1>2, RunsWithEmptied DEF HeldInv, NoneRepeats
  <2>2. QED
    BY <1>3, <2>1 DEF HeldInv, NoneRepeats
<1>5. EmptyHanded'
    BY <1>3 DEF HeldInv, EmptyHanded
<1>6. ASSUME NEW x \in Message, x \in Range(chan[r]) PROVE Kept(x)'
  <2>1. RunsWith(chan', x) = RunsWith(chan, x) \ {r}
    BY <1>2, NothingInEmpty DEF RunsWith
  <2>2. /\ RunsWith(chan, x) = {r} /\ RunsWith(kickoff, x) = {}
        /\ RunsWith(leftover, x) = {} /\ RequestsWith(requests, x) = {}
        /\ HandlersWith(handlers, x) = {} /\ TasksWith(deferred, x) = {}
    BY <1>6, HeldByRun
  <2>3. fate'[x] # "pending"
    BY <1>1, <1>6, SettledFate
  <2>4. RunsWith(chan', x) = {}
    BY <2>1, <2>2
  <2>5. QED
    BY <1>3, <2>2, <2>3, <2>4, KeptNowhere
<1>7. ASSUME NEW x \in Message, x \notin Range(chan[r]) PROVE Kept(x)'
  <2>1. RunsWith(chan', x) = RunsWith(chan, x)
    BY <1>2, <1>7, NothingInEmpty DEF RunsWith
  <2>2. fate'[x] = fate[x]
    BY <1>1, <1>7, SettledFate
  <2>3. QED
    BY <1>3, <2>1, <2>2, KeptLike, LikeItself DEF HeldInv
<1>8. QED
    BY <1>4, <1>5, <1>6, <1>7 DEF HeldInv

\* An idle run wakes with the first message of its channel as its input.
LEMMA HeldWake ==
    ASSUME TypeOK, HeldInv, NEW r \in Run, Wake(r)
    PROVE  HeldInv'
<1>1. /\ chan \in [Run -> Seq(Message)] /\ kickoff \in [Run -> Seq(Message)]
      /\ chan[r] \in Seq(Message) /\ chan[r] # <<>> /\ IsInjective(chan[r])
    BY DEF Wake, TypeOK, HeldInv, NoneRepeats
<1>3. PICK m \in Message, s \in Seq(Message) : m = Head(chan[r]) /\ s = Tail(chan[r])
  <2>1. \A u \in Seq(Message) : u # <<>> => Head(u) \in Message /\ Tail(u) \in Seq(Message)
    OBVIOUS
  <2>2. QED
    BY <1>1, <2>1
<1>2. m \in Range(chan[r]) /\ Range(s) = Range(chan[r]) \ {m} /\ IsInjective(s)
    BY <1>1, <1>3, TailRange
<1>4. chan' = [chan EXCEPT ![r] = s] /\ kickoff' = [kickoff EXCEPT ![r] = <<m>>]
    BY <1>3 DEF Wake
<1>5. Goto(r, "woken") /\ UNCHANGED <<leftover, requests, handlers, deferred, fate>>
    BY DEF Wake
<1>6. pc[r] = "idle" /\ kickoff[r] = <<>> /\ leftover[r] = <<>>
    BY DEF Wake, HeldInv, EmptyHanded
<1>7. \A x : RunsWith(chan', x) = IF x \in Range(s) THEN RunsWith(chan, x) \cup {r}
                                  ELSE RunsWith(chan, x) \ {r}
    BY <1>1, <1>4 DEF RunsWith
<1>8. \A x : RunsWith(kickoff', x) = IF x = m THEN RunsWith(kickoff, x) \cup {r}
                                     ELSE RunsWith(kickoff, x) \ {r}
  <2>1. \A x : RunsWith(kickoff', x)
                 = IF x \in Range(<<m>>) THEN RunsWith(kickoff, x) \cup {r}
                   ELSE RunsWith(kickoff, x) \ {r}
    BY <1>1, <1>4 DEF RunsWith
  <2>2. QED
    BY <2>1, OneInSingleton
<1>9. NoneRepeats'
  <2>1. \A o \in Run : IsInjective(chan'[o])
    BY <1>1, <1>2, <1>4, InjectiveSet DEF HeldInv, NoneRepeats
  <2>2. \A o \in Run : IsInjective(kickoff'[o])
    BY <1>1, <1>4, OneInSingleton, InjectiveSet DEF HeldInv, NoneRepeats
  <2>3. QED
    BY <1>5, <2>1, <2>2 DEF HeldInv, NoneRepeats
<1>10. EmptyHanded'
  <2>1. EmptyHanded
    BY DEF HeldInv
  <2>2. \A o \in Run \ {r} : kickoff'[o] = kickoff[o]
    BY <1>1, <1>4
  <2>3. QED
    BY <1>5, <1>6, <2>1, <2>2, EmptyHandedMove
<1>11. Kept(m)'
  <2>1. /\ RunsWith(chan, m) = {r} /\ RunsWith(kickoff, m) = {}
        /\ RunsWith(leftover, m) = {} /\ RequestsWith(requests, m) = {}
        /\ HandlersWith(handlers, m) = {} /\ TasksWith(deferred, m) = {}
        /\ fate[m] = "pending"
    BY <1>2, <1>3, HeldByRun
  <2>2. RunsWith(chan', m) = {} /\ RunsWith(kickoff', m) = {r}
    BY <1>2, <1>7, <1>8, <2>1
  <2>3. QED
    BY <1>5, <2>1, <2>2, KeptThere
<1>12. ASSUME NEW x \in Message, x # m PROVE Kept(x)'
  <2>1. r \in RunsWith(chan, x) <=> x \in Range(s)
    BY <1>2, <1>12 DEF RunsWith
  <2>2. r \notin RunsWith(kickoff, x)
    BY <1>6, NothingInEmpty DEF RunsWith
  <2>3. RunsWith(chan', x) = RunsWith(chan, x)
    <3>1. CASE x \in Range(s)
        BY <1>7, <2>1, <3>1
    <3>2. CASE x \notin Range(s)
        BY <1>7, <2>1, <3>2
    <3>3. QED
        BY <3>1, <3>2
  <2>4. RunsWith(kickoff', x) = RunsWith(kickoff, x)
    BY <1>8, <1>12, <2>2
  <2>5. QED
    BY <1>5, <2>3, <2>4, KeptLike, LikeItself DEF HeldInv
<1>13. QED
    BY <1>9, <1>10, <1>11, <1>12 DEF HeldInv

\* The drain moves what the channel holds to the leftovers.
LEMMA HeldDrain ==
    ASSUME TypeOK, HeldInv, NEW r \in Run, Drain(r)
    PROVE  HeldInv'
<1> DEFINE s == chan[r]
<1>1. /\ chan \in [Run -> Seq(Message)] /\ leftover \in [Run -> Seq(Message)]
      /\ IsInjective(s)
    BY DEF TypeOK, HeldInv, NoneRepeats
<1>2. chan' = [chan EXCEPT ![r] = <<>>] /\ leftover' = [leftover EXCEPT ![r] = s]
    BY DEF Drain
<1>3. Goto(r, "drained") /\ UNCHANGED <<kickoff, requests, handlers, deferred, fate>>
    BY DEF Drain
<1>4. pc[r] \in {"stopping", "drain"} /\ kickoff[r] = <<>> /\ leftover[r] = <<>>
    BY DEF Drain, HeldInv, EmptyHanded
<1> HIDE DEF s
<1>5. \A x : RunsWith(leftover', x) = IF x \in Range(s) THEN RunsWith(leftover, x) \cup {r}
                                      ELSE RunsWith(leftover, x) \ {r}
    BY <1>1, <1>2 DEF RunsWith
<1>6. NoneRepeats'
  <2>1. \A o \in Run : IsInjective(chan'[o])
    BY <1>1, <1>2, RunsWithEmptied DEF HeldInv, NoneRepeats
  <2>2. \A o \in Run : IsInjective(leftover'[o])
    BY <1>1, <1>2, InjectiveSet DEF HeldInv, NoneRepeats
  <2>3. QED
    BY <1>3, <2>1, <2>2 DEF HeldInv, NoneRepeats
<1>7. EmptyHanded'
  <2>1. EmptyHanded
    BY DEF HeldInv
  <2>2. \A o \in Run \ {r} : leftover'[o] = leftover[o]
    BY <1>1, <1>2
  <2>3. QED
    BY <1>3, <1>4, <2>1, <2>2, EmptyHandedMove
<1>8. ASSUME NEW x \in Message, x \in Range(s) PROVE Kept(x)'
  <2>1. /\ RunsWith(chan, x) = {r} /\ RunsWith(kickoff, x) = {}
        /\ RunsWith(leftover, x) = {} /\ RequestsWith(requests, x) = {}
        /\ HandlersWith(handlers, x) = {} /\ TasksWith(deferred, x) = {}
        /\ fate[x] = "pending"
    BY <1>8, HeldByRun DEF s
  <2>2. RunsWith(chan', x) = RunsWith(chan, x) \ {r}
    BY <1>1, <1>2, NothingInEmpty DEF RunsWith
  <2>3. RunsWith(chan', x) = {} /\ RunsWith(leftover', x) = {r}
    BY <1>5, <1>8, <2>1, <2>2
  <2>4. QED
    BY <1>3, <2>1, <2>3, KeptThere
<1>9. ASSUME NEW x \in Message, x \notin Range(s) PROVE Kept(x)'
  <2>1. RunsWith(chan', x) = RunsWith(chan, x)
    BY <1>1, <1>2, <1>9, NothingInEmpty DEF RunsWith, s
  <2>2. r \notin RunsWith(leftover, x)
    BY <1>4, NothingInEmpty DEF RunsWith
  <2>3. RunsWith(leftover', x) = RunsWith(leftover, x)
    BY <1>5, <1>9, <2>2
  <2>4. QED
    BY <1>3, <2>1, <2>3, KeptLike, LikeItself DEF HeldInv
<1>10. QED
    BY <1>6, <1>7, <1>8, <1>9 DEF HeldInv

\* A panic settles what the run held.
LEMMA HeldPanic ==
    ASSUME TypeOK, HeldInv, NEW r \in Run, Panic(r)
    PROVE  HeldInv'
<1>1. chan \in [Run -> Seq(Message)] /\ leftover \in [Run -> Seq(Message)]
    BY DEF TypeOK
<1>2. chan' = [chan EXCEPT ![r] = <<>>] /\ leftover' = [leftover EXCEPT ![r] = <<>>]
    BY DEF Panic
<1>3. Goto(r, "panicked") /\ UNCHANGED <<kickoff, requests, handlers, deferred>>
      /\ Settle(Range(chan[r]) \cup Range(leftover[r]), "panicked")
    BY DEF Panic
<1>4. kickoff[r] = <<>>
    BY DEF Panic, HeldInv, EmptyHanded
<1>5. \A x : /\ RunsWith(chan', x) = RunsWith(chan, x) \ {r}
             /\ RunsWith(leftover', x) = RunsWith(leftover, x) \ {r}
    BY <1>1, <1>2, NothingInEmpty DEF RunsWith
<1>6. NoneRepeats'
  <2>1. \A o \in Run : IsInjective(chan'[o])
    BY <1>1, <1>2, RunsWithEmptied DEF HeldInv, NoneRepeats
  <2>2. \A o \in Run : IsInjective(leftover'[o])
    BY <1>1, <1>2, RunsWithEmptied DEF HeldInv, NoneRepeats
  <2>3. QED
    BY <1>3, <2>1, <2>2 DEF HeldInv, NoneRepeats
<1>7. EmptyHanded'
  <2>1. EmptyHanded
    BY DEF HeldInv
  <2>2. \A o \in Run \ {r} : leftover'[o] = leftover[o]
    BY <1>1, <1>2
  <2>3. QED
    BY <1>3, <1>4, <2>1, <2>2, EmptyHandedMove
<1>8. ASSUME NEW x \in Message, x \in Range(chan[r]) \cup Range(leftover[r]) PROVE Kept(x)'
  <2>1. fate'[x] # "pending"
    BY <1>3, <1>8, SettledFate
  <2>2. /\ RunsWith(chan, x) \subseteq {r} /\ RunsWith(kickoff, x) = {}
        /\ RunsWith(leftover, x) \subseteq {r} /\ RequestsWith(requests, x) = {}
        /\ HandlersWith(handlers, x) = {} /\ TasksWith(deferred, x) = {}
    <3>1. CASE x \in Range(chan[r])
        BY <3>1, HeldByRun
    <3>2. CASE x \in Range(leftover[r])
        BY <3>2, HeldByRun
    <3>3. QED
        BY <1>8, <3>1, <3>2
  <2>3. RunsWith(chan', x) = {} /\ RunsWith(leftover', x) = {}
    BY <1>5, <2>2
  <2>4. QED
    BY <1>3, <2>1, <2>2, <2>3, KeptNowhere
<1>9. ASSUME NEW x \in Message, x \notin Range(chan[r]) \cup Range(leftover[r]) PROVE Kept(x)'
  <2>1. fate'[x] = fate[x]
    BY <1>3, <1>9, SettledFate
  <2>2. r \notin RunsWith(chan, x) /\ r \notin RunsWith(leftover, x)
    BY <1>9 DEF RunsWith
  <2>3. RunsWith(chan', x) = RunsWith(chan, x) /\ RunsWith(leftover', x) = RunsWith(leftover, x)
    BY <1>5, <2>2
  <2>4. QED
    BY <1>3, <2>1, <2>3, KeptLike, LikeItself DEF HeldInv
<1>10. QED
    BY <1>6, <1>7, <1>8, <1>9 DEF HeldInv

\* A run that ends opens a request with its leftovers, and what came after
\* its drain is settled.
LEMMA HeldResumeLeftover ==
    ASSUME TypeOK, HeldInv, NEW r \in Run, ResumeLeftover(r)
    PROVE  HeldInv'
<1>1. /\ chan \in [Run -> Seq(Message)] /\ leftover \in [Run -> Seq(Message)]
      /\ leftover[r] \in Seq(Message) /\ requests \in Seq(Request) /\ addr[r] \in Addresses
    BY DEF TypeOK
<1>2. chan' = [chan EXCEPT ![r] = <<>>] /\ leftover' = [leftover EXCEPT ![r] = <<>>]
    BY DEF ResumeLeftover
<1>3. Goto(r, "done") /\ UNCHANGED <<kickoff, handlers, deferred>>
      /\ Settle(Range(chan[r]), "after_drain")
    BY DEF ResumeLeftover
<1>4. kickoff[r] = <<>>
    BY DEF ResumeLeftover, HeldInv, EmptyHanded
<1>5. \A x : /\ RunsWith(chan', x) = RunsWith(chan, x) \ {r}
             /\ RunsWith(leftover', x) = RunsWith(leftover, x) \ {r}
    BY <1>1, <1>2, NothingInEmpty DEF RunsWith
<1>6. /\ \A j \in DOMAIN requests' : IsInjective(requests'[j].msgs)
      /\ \E y : \A x : RequestsWith(requests', x)
                   = IF x \in Range(leftover[r]) THEN RequestsWith(requests, x) \cup {y}
                     ELSE RequestsWith(requests, x)
  <2>0. \A j \in DOMAIN requests : IsInjective(requests[j].msgs)
    BY DEF HeldInv, NoneRepeats
  <2>1. CASE leftover[r] = <<>> /\ UNCHANGED requests
    <3>1. Range(leftover[r]) = {}
        BY <2>1, NothingInEmpty
    <3>2. QED
        BY <2>0, <2>1, <3>1
  <2>2. ASSUME leftover[r] # <<>>, NEW opening \in Openings(leftover[r]),
               requests' = Append(requests, [addr |-> addr[r], form |-> "messages",
                                             msgs |-> opening])
        PROVE  /\ \A j \in DOMAIN requests' : IsInjective(requests'[j].msgs)
               /\ \E y : \A x : RequestsWith(requests', x)
                     = IF x \in Range(leftover[r]) THEN RequestsWith(requests, x) \cup {y}
                       ELSE RequestsWith(requests, x)
    <3>1. PICK e : e = [addr |-> addr[r], form |-> "messages", msgs |-> opening]
        OBVIOUS
    <3>2. e \in Request /\ e.msgs = opening
        BY <1>1, <2>2, <3>1, OpeningsAreBatches DEF Request
    <3>3. Range(opening) = Range(leftover[r]) /\ IsInjective(opening)
        BY <1>1, <2>2, OpeningHoldsAll
    <3>4. requests' = Append(requests, e)
        BY <2>2, <3>1
    <3>5. \A j \in DOMAIN requests' : IsInjective(requests'[j].msgs)
        BY <1>1, <2>0, <3>2, <3>3, <3>4, InjectiveAppended
    <3>6. \A x : RequestsWith(requests', x)
                   = IF x \in Range(e.msgs) THEN RequestsWith(requests, x) \cup {Len(requests) + 1}
                     ELSE RequestsWith(requests, x)
      <4>1. /\ Len(requests) \in Nat /\ DOMAIN requests = 1 .. Len(requests)
            /\ DOMAIN requests' = 1 .. Len(requests) + 1
            /\ \A i \in 1 .. Len(requests) : requests'[i] = requests[i]
            /\ requests'[Len(requests) + 1] = e
        BY <1>1, <3>2, <3>4
      <4>2. QED
        BY <4>1, RequestsWithAppended
    <3>7. \A x : RequestsWith(requests', x)
                   = IF x \in Range(leftover[r])
                     THEN RequestsWith(requests, x) \cup {Len(requests) + 1}
                     ELSE RequestsWith(requests, x)
        BY <3>2, <3>3, <3>6
    <3>8. QED
        BY <3>5, <3>7
  <2>3. QED
    BY <2>1, <2>2 DEF ResumeLeftover
<1>7. PICK y : \A x : RequestsWith(requests', x)
                   = IF x \in Range(leftover[r]) THEN RequestsWith(requests, x) \cup {y}
                     ELSE RequestsWith(requests, x)
    BY <1>6
<1>8. NoneRepeats'
  <2>1. \A o \in Run : IsInjective(chan'[o])
    BY <1>1, <1>2, RunsWithEmptied DEF HeldInv, NoneRepeats
  <2>2. \A o \in Run : IsInjective(leftover'[o])
    BY <1>1, <1>2, RunsWithEmptied DEF HeldInv, NoneRepeats
  <2>3. QED
    BY <1>3, <1>6, <2>1, <2>2 DEF HeldInv, NoneRepeats
<1>9. EmptyHanded'
  <2>1. EmptyHanded
    BY DEF HeldInv
  <2>2. \A o \in Run \ {r} : leftover'[o] = leftover[o]
    BY <1>1, <1>2
  <2>3. QED
    BY <1>3, <1>4, <2>1, <2>2, EmptyHandedMove
<1>10. ASSUME NEW x \in Message, x \in Range(chan[r]) PROVE Kept(x)'
  <2>1. fate'[x] # "pending"
    BY <1>3, <1>10, SettledFate
  <2>2. /\ RunsWith(chan, x) = {r} /\ RunsWith(kickoff, x) = {}
        /\ RunsWith(leftover, x) = {} /\ RequestsWith(requests, x) = {}
        /\ HandlersWith(handlers, x) = {} /\ TasksWith(deferred, x) = {}
    BY <1>10, HeldByRun
  <2>3. x \notin Range(leftover[r])
    BY <2>2 DEF RunsWith
  <2>4. RunsWith(chan', x) = {} /\ RunsWith(leftover', x) = {} /\ RequestsWith(requests', x) = {}
    BY <1>5, <1>7, <2>2, <2>3
  <2>5. QED
    BY <1>3, <2>1, <2>2, <2>4, KeptNowhere
<1>11. ASSUME NEW x \in Message, x \notin Range(chan[r]), x \in Range(leftover[r])
       PROVE  Kept(x)'
  <2>1. /\ RunsWith(chan, x) = {} /\ RunsWith(kickoff, x) = {}
        /\ RunsWith(leftover, x) = {r} /\ RequestsWith(requests, x) = {}
        /\ HandlersWith(handlers, x) = {} /\ TasksWith(deferred, x) = {}
        /\ fate[x] = "pending"
    BY <1>11, HeldByRun
  <2>2. fate'[x] = "pending"
    BY <1>3, <1>11, <2>1, SettledFate
  <2>3. RunsWith(chan', x) = {} /\ RunsWith(leftover', x) = {} /\ RequestsWith(requests', x) = {y}
    BY <1>5, <1>7, <1>11, <2>1
  <2>4. QED
    BY <1>3, <2>1, <2>2, <2>3, KeptThere
<1>12. ASSUME NEW x \in Message, x \notin Range(chan[r]), x \notin Range(leftover[r])
       PROVE  Kept(x)'
  <2>1. fate'[x] = fate[x]
    BY <1>3, <1>12, SettledFate
  <2>2. r \notin RunsWith(chan, x) /\ r \notin RunsWith(leftover, x)
    BY <1>12 DEF RunsWith
  <2>3. /\ RunsWith(chan', x) = RunsWith(chan, x)
        /\ RunsWith(leftover', x) = RunsWith(leftover, x)
        /\ RequestsWith(requests', x) = RequestsWith(requests, x)
    BY <1>5, <1>7, <1>12, <2>2
  <2>4. QED
    BY <1>3, <2>1, <2>3, KeptLike, LikeItself DEF HeldInv
<1>13. QED
    BY <1>8, <1>9, <1>10, <1>11, <1>12 DEF HeldInv

\* HeldInv is inductive, given what the registry says of new ids.
LEMMA HeldNext ==
    ASSUME TypeOK, RegistryInv, HeldInv, [Next]_vars
    PROVE  HeldInv'
<1>1. CASE \/ UNCHANGED vars \/ StopAll
           \/ \E a \in Addresses : Stop(a) \/ StopIfRunning(a)
  <2>1. UNCHANGED <<pc, kickoff, leftover, chan, requests, handlers, deferred, fate>>
    BY <1>1 DEF vars, run, Stop, StopIfRunning, StopAll
  <2>2. NoneRepeats' /\ EmptyHanded'
    BY <2>1 DEF HeldInv, NoneRepeats, EmptyHanded
  <2>3. ASSUME NEW x \in Message PROVE Kept(x)'
    BY <2>1, KeptLike, LikeItself DEF HeldInv
  <2>4. QED
    BY <2>2, <2>3 DEF HeldInv
<1>2. ASSUME NEW r \in Run, RunStep(r) \/ Panic(r) PROVE HeldInv'
    BY <1>2, HeldQuietStep, HeldInput, HeldCheckpoint, HeldWake, HeldDrain, HeldPanic,
       HeldResumeLeftover DEF RunStep
<1>3. QED
    BY <1>1, <1>2, HeldSender, HeldDelivery, HeldListener, HeldHandling DEF Next

\* Nothing is held initially.
LEMMA HeldInit == Init => HeldInv
<1> SUFFICES ASSUME Init PROVE HeldInv
    OBVIOUS
<1>1. NoneRepeats /\ EmptyHanded
    BY NothingInEmpty DEF Init, NoneRepeats, EmptyHanded
<1>2. ASSUME NEW m \in Message PROVE Kept(m)
  <2>1. /\ RunsWith(chan, m) = {} /\ RunsWith(kickoff, m) = {} /\ RunsWith(leftover, m) = {}
        /\ RequestsWith(requests, m) = {} /\ HandlersWith(handlers, m) = {}
        /\ TasksWith(deferred, m) = {} /\ fate[m] # "pending"
    BY NothingInEmpty DEF Init, RunsWith, RequestsWith, HandlersWith, TasksWith
  <2>2. QED
    BY <2>1 DEF Kept, Sole, AtMostOne
<1>3. QED
    BY <1>1, <1>2 DEF HeldInv

\* A sequence without repetition has at most one position for a message.
LEMMA OnePosition ==
    ASSUME NEW s, IsInjective(s), NEW m
    PROVE  /\ m \notin Range(s) => Positions(s, m) = {}
           /\ m \in Range(s) => \E i : Positions(s, m) = {i}
<1>1. m \notin Range(s) => Positions(s, m) = {}
    BY DEF Range, Positions
<1>2. ASSUME m \in Range(s) PROVE \E i : Positions(s, m) = {i}
  <2>1. PICK i \in DOMAIN s : s[i] = m
    BY <1>2 DEF Range
  <2>2. Positions(s, m) = {i}
    BY <2>1 DEF Positions, IsInjective
  <2>3. QED
    BY <2>2
<1>3. QED
    BY <1>1, <1>2

\* The positions of a message in one kind of place: none if no place holds
\* it, and one if one does.
PosInRuns(tag, f, m) == UNION { {<<tag, r, i>> : i \in Positions(f[r], m)} : r \in Run }

LEMMA PositionsOfRuns ==
    ASSUME NEW f, NEW tag, NEW m, \A r \in Run : IsInjective(f[r])
    PROVE  LET A == PosInRuns(tag, f, m) IN
           /\ RunsWith(f, m) = {} => A = {}
           /\ \A q : RunsWith(f, m) = {q} => \E z : A = {z}
<1> DEFINE A == PosInRuns(tag, f, m)
<1>1. \A z : z \in A <=> \E r \in Run : \E i \in Positions(f[r], m) : z = <<tag, r, i>>
    BY DEF PosInRuns
<1>2. \A r \in Run : r \notin RunsWith(f, m) => Positions(f[r], m) = {}
    BY OnePosition DEF RunsWith
<1> HIDE DEF A
<1>3. RunsWith(f, m) = {} => A = {}
    BY <1>1, <1>2
<1>4. ASSUME NEW q, RunsWith(f, m) = {q} PROVE \E z : A = {z}
  <2>1. q \in Run /\ m \in Range(f[q])
    BY <1>4 DEF RunsWith
  <2>2. PICK i : Positions(f[q], m) = {i}
    BY <2>1, OnePosition
  <2>3. \A z : z \in A <=> z = <<tag, q, i>>
    BY <1>1, <1>2, <1>4, <2>1, <2>2
  <2>4. A = {<<tag, q, i>>}
    BY <2>3
  <2>5. QED
    BY <2>4
<1>5. QED
    BY <1>3, <1>4 DEF A

LEMMA PositionsOfRequests ==
    ASSUME NEW f, NEW m, \A j \in DOMAIN f : IsInjective(f[j].msgs)
    PROVE  LET A == UNION { {<<"request", j, i>> : i \in Positions(f[j].msgs, m)} : j \in DOMAIN f }
           IN
           /\ RequestsWith(f, m) = {} => A = {}
           /\ \A q : RequestsWith(f, m) = {q} => \E z : A = {z}
<1> DEFINE A == UNION { {<<"request", j, i>> : i \in Positions(f[j].msgs, m)} : j \in DOMAIN f }
<1>1. \A z : z \in A <=> \E j \in DOMAIN f : \E i \in Positions(f[j].msgs, m) :
                            z = <<"request", j, i>>
    OBVIOUS
<1>2. \A j \in DOMAIN f : j \notin RequestsWith(f, m) => Positions(f[j].msgs, m) = {}
    BY OnePosition DEF RequestsWith
<1> HIDE DEF A
<1>3. RequestsWith(f, m) = {} => A = {}
    BY <1>1, <1>2
<1>4. ASSUME NEW q, RequestsWith(f, m) = {q} PROVE \E z : A = {z}
  <2>1. q \in DOMAIN f /\ m \in Range(f[q].msgs)
    BY <1>4 DEF RequestsWith
  <2>2. PICK i : Positions(f[q].msgs, m) = {i}
    BY <2>1, OnePosition
  <2>3. \A z : z \in A <=> z = <<"request", q, i>>
    BY <1>1, <1>2, <1>4, <2>1, <2>2
  <2>4. A = {<<"request", q, i>>}
    BY <2>3
  <2>5. QED
    BY <2>4
<1>5. QED
    BY <1>3, <1>4 DEF A

LEMMA PositionsOfHandlers ==
    ASSUME NEW hs, NEW m, \A h \in hs : IsInjective(h.req.msgs)
    PROVE  LET A == UNION { {<<"handler", h, i>> : i \in Positions(h.req.msgs, m)} : h \in hs } IN
           /\ HandlersWith(hs, m) = {} => A = {}
           /\ \A q : HandlersWith(hs, m) = {q} => \E z : A = {z}
<1> DEFINE A == UNION { {<<"handler", h, i>> : i \in Positions(h.req.msgs, m)} : h \in hs }
<1>1. \A z : z \in A <=> \E h \in hs : \E i \in Positions(h.req.msgs, m) : z = <<"handler", h, i>>
    OBVIOUS
<1>2. \A h \in hs : h \notin HandlersWith(hs, m) => Positions(h.req.msgs, m) = {}
    BY OnePosition DEF HandlersWith
<1> HIDE DEF A
<1>3. HandlersWith(hs, m) = {} => A = {}
    BY <1>1, <1>2
<1>4. ASSUME NEW q, HandlersWith(hs, m) = {q} PROVE \E z : A = {z}
  <2>1. q \in hs /\ m \in Range(q.req.msgs)
    BY <1>4 DEF HandlersWith
  <2>2. PICK i : Positions(q.req.msgs, m) = {i}
    BY <2>1, OnePosition
  <2>3. \A z : z \in A <=> z = <<"handler", q, i>>
    BY <1>1, <1>2, <1>4, <2>1, <2>2
  <2>4. A = {<<"handler", q, i>>}
    BY <2>3
  <2>5. QED
    BY <2>4
<1>5. QED
    BY <1>3, <1>4 DEF A

LEMMA PositionsOfTasks ==
    ASSUME NEW ts, NEW m, \A t \in ts : IsInjective(t.msgs)
    PROVE  LET A == UNION { {<<"deferred", t, i>> : i \in Positions(t.msgs, m)} : t \in ts } IN
           /\ TasksWith(ts, m) = {} => A = {}
           /\ \A q : TasksWith(ts, m) = {q} => \E z : A = {z}
<1> DEFINE A == UNION { {<<"deferred", t, i>> : i \in Positions(t.msgs, m)} : t \in ts }
<1>1. \A z : z \in A <=> \E t \in ts : \E i \in Positions(t.msgs, m) : z = <<"deferred", t, i>>
    OBVIOUS
<1>2. \A t \in ts : t \notin TasksWith(ts, m) => Positions(t.msgs, m) = {}
    BY OnePosition DEF TasksWith
<1> HIDE DEF A
<1>3. TasksWith(ts, m) = {} => A = {}
    BY <1>1, <1>2
<1>4. ASSUME NEW q, TasksWith(ts, m) = {q} PROVE \E z : A = {z}
  <2>1. q \in ts /\ m \in Range(q.msgs)
    BY <1>4 DEF TasksWith
  <2>2. PICK i : Positions(q.msgs, m) = {i}
    BY <2>1, OnePosition
  <2>3. \A z : z \in A <=> z = <<"deferred", q, i>>
    BY <1>1, <1>2, <1>4, <2>1, <2>2
  <2>4. A = {<<"deferred", q, i>>}
    BY <2>3
  <2>5. QED
    BY <2>4
<1>5. QED
    BY <1>3, <1>4 DEF A

\* Six sets of places, one of which has one member, and their positions.
LEMMA HeldInvImpliesHeldOnce == HeldInv => HeldOnce
<1> SUFFICES ASSUME HeldInv, NEW m \in Message
             PROVE  Cardinality(Holders(m)) = IF fate[m] = "pending" THEN 1 ELSE 0
    BY DEF HeldOnce
<1> DEFINE c == RunsWith(chan, m)
           k == RunsWith(kickoff, m)
           l == RunsWith(leftover, m)
           q == RequestsWith(requests, m)
           h == HandlersWith(handlers, m)
           d == TasksWith(deferred, m)
           C == PosInRuns("chan", chan, m)
           K == PosInRuns("kickoff", kickoff, m)
           L == PosInRuns("leftover", leftover, m)
           Q == UNION { {<<"request", j, i>> : i \in Positions(requests[j].msgs, m)} :
                        j \in DOMAIN requests }
           H == UNION { {<<"handler", g, i>> : i \in Positions(g.req.msgs, m)} : g \in handlers }
           D == UNION { {<<"deferred", t, i>> : i \in Positions(t.msgs, m)} : t \in deferred }
<1>1. Holders(m) = C \cup K \cup L \cup Q \cup H \cup D
    BY DEF Holders, PosInRuns
<1>2. NoneRepeats /\ Sole(c, k, l, q, h, d, fate[m] = "pending")
    BY DEF HeldInv, Kept
<1>3. (c = {} => C = {}) /\ \A o : c = {o} => \E z : C = {z}
    BY <1>2, PositionsOfRuns DEF NoneRepeats
<1>4. (k = {} => K = {}) /\ \A o : k = {o} => \E z : K = {z}
    BY <1>2, PositionsOfRuns DEF NoneRepeats
<1>5. (l = {} => L = {}) /\ \A o : l = {o} => \E z : L = {z}
    BY <1>2, PositionsOfRuns DEF NoneRepeats
<1>6. (q = {} => Q = {}) /\ \A o : q = {o} => \E z : Q = {z}
    BY <1>2, PositionsOfRequests DEF NoneRepeats
<1>7. (h = {} => H = {}) /\ \A o : h = {o} => \E z : H = {z}
    BY <1>2, PositionsOfHandlers DEF NoneRepeats
<1>8. (d = {} => D = {}) /\ \A o : d = {o} => \E z : D = {z}
    BY <1>2, PositionsOfTasks DEF NoneRepeats
<1> HIDE DEF c, k, l, q, h, d, C, K, L, Q, H, D
<1>9. \A S : AtMostOne(S) /\ S # {} => \E o : S = {o}
  <2>1. ASSUME NEW S, AtMostOne(S), S # {} PROVE \E o : S = {o}
    <3>1. PICK o : o \in S
        BY <2>1
    <3>2. S = {o}
        BY <2>1, <3>1 DEF AtMostOne
    <3>3. QED
        BY <3>2
  <2>2. QED
    BY <2>1
<1>10. CASE fate[m] # "pending"
  <2>1. c = {} /\ k = {} /\ l = {} /\ q = {} /\ h = {} /\ d = {}
    BY <1>2, <1>10 DEF Sole
  <2>2. Holders(m) = {}
    BY <1>1, <1>3, <1>4, <1>5, <1>6, <1>7, <1>8, <2>1
  <2>3. QED
    BY <1>10, <2>2, FS_EmptySet
<1>11. CASE fate[m] = "pending"
  <2>1. \E z : Holders(m) = {z}
    <3>1. CASE c # {}
      <4>1. k = {} /\ l = {} /\ q = {} /\ h = {} /\ d = {} /\ AtMostOne(c)
        BY <1>2, <3>1 DEF Sole
      <4>2. K = {} /\ L = {} /\ Q = {} /\ H = {} /\ D = {} /\ \E z : C = {z}
        BY <1>3, <1>4, <1>5, <1>6, <1>7, <1>8, <1>9, <3>1, <4>1
      <4>3. QED
        BY <1>1, <4>2
    <3>2. CASE k # {}
      <4>1. c = {} /\ l = {} /\ q = {} /\ h = {} /\ d = {} /\ AtMostOne(k)
        BY <1>2, <3>2 DEF Sole
      <4>2. C = {} /\ L = {} /\ Q = {} /\ H = {} /\ D = {} /\ \E z : K = {z}
        BY <1>3, <1>4, <1>5, <1>6, <1>7, <1>8, <1>9, <3>2, <4>1
      <4>3. QED
        BY <1>1, <4>2
    <3>3. CASE l # {}
      <4>1. c = {} /\ k = {} /\ q = {} /\ h = {} /\ d = {} /\ AtMostOne(l)
        BY <1>2, <3>3 DEF Sole
      <4>2. C = {} /\ K = {} /\ Q = {} /\ H = {} /\ D = {} /\ \E z : L = {z}
        BY <1>3, <1>4, <1>5, <1>6, <1>7, <1>8, <1>9, <3>3, <4>1
      <4>3. QED
        BY <1>1, <4>2
    <3>4. CASE q # {}
      <4>1. c = {} /\ k = {} /\ l = {} /\ h = {} /\ d = {} /\ AtMostOne(q)
        BY <1>2, <3>4 DEF Sole
      <4>2. C = {} /\ K = {} /\ L = {} /\ H = {} /\ D = {} /\ \E z : Q = {z}
        BY <1>3, <1>4, <1>5, <1>6, <1>7, <1>8, <1>9, <3>4, <4>1
      <4>3. QED
        BY <1>1, <4>2
    <3>5. CASE h # {}
      <4>1. c = {} /\ k = {} /\ l = {} /\ q = {} /\ d = {} /\ AtMostOne(h)
        BY <1>2, <3>5 DEF Sole
      <4>2. C = {} /\ K = {} /\ L = {} /\ Q = {} /\ D = {} /\ \E z : H = {z}
        BY <1>3, <1>4, <1>5, <1>6, <1>7, <1>8, <1>9, <3>5, <4>1
      <4>3. QED
        BY <1>1, <4>2
    <3>6. CASE d # {}
      <4>1. c = {} /\ k = {} /\ l = {} /\ q = {} /\ h = {} /\ AtMostOne(d)
        BY <1>2, <3>6 DEF Sole
      <4>2. C = {} /\ K = {} /\ L = {} /\ Q = {} /\ H = {} /\ \E z : D = {z}
        BY <1>3, <1>4, <1>5, <1>6, <1>7, <1>8, <1>9, <3>6, <4>1
      <4>3. QED
        BY <1>1, <4>2
    <3>7. QED
        BY <1>2, <1>11, <3>1, <3>2, <3>3, <3>4, <3>5, <3>6 DEF Sole
  <2>2. QED
    BY <1>11, <2>1, FS_Singleton
<1>12. QED
    BY <1>10, <1>11

\* A message the system has taken is in exactly one of its channels, inputs,
\* leftovers, requests, handlers and detached tasks, and in one position there,
\* until it is read or dropped: retries, races, stops and panics neither
\* duplicate one nor lose it without a trace.
THEOREM MessagesAreHeldOnce == Spec => []HeldOnce
    BY HeldInvImpliesHeldOnce, TypeCorrect, RegistryAlways, HeldInit, HeldNext, PTL DEF Spec

-----------------------------------------------------------------------------
(* A message's life: what holds a message holds a pending one, so a step   *)
(* that settles what some place holds settles pending messages only.       *)

\* Whatever a run, a handler or a detached task holds is pending.
LEMMA HeldIsPending ==
    ASSUME TypeOK, HeldInv
    PROVE  /\ \A r \in Run : \A m \in Range(chan[r]) \cup Range(kickoff[r]) \cup Range(leftover[r]) :
                m \in Message /\ fate[m] = "pending"
           /\ \A h \in handlers : \A m \in Range(h.req.msgs) : m \in Message /\ fate[m] = "pending"
           /\ \A t \in deferred : \A m \in Range(t.msgs) : m \in Message /\ fate[m] = "pending"
<1>1. ASSUME NEW s \in Seq(Message), NEW m \in Range(s) PROVE m \in Message
    BY <1>1 DEF Range
<1>2. ASSUME NEW r \in Run, NEW m \in Range(chan[r]) \cup Range(kickoff[r]) \cup Range(leftover[r])
      PROVE  m \in Message /\ fate[m] = "pending"
  <2>1. chan[r] \in Seq(Message) /\ kickoff[r] \in Seq(Message) /\ leftover[r] \in Seq(Message)
    BY <1>2 DEF TypeOK
  <2>2. m \in Message
    BY <1>1, <1>2, <2>1
  <2>3. r \in RunsWith(chan, m) \cup RunsWith(kickoff, m) \cup RunsWith(leftover, m)
    BY <1>2 DEF RunsWith
  <2>4. Kept(m)
    BY <2>2 DEF HeldInv
  <2>5. \/ RunsWith(chan, m) # {} \/ RunsWith(kickoff, m) # {} \/ RunsWith(leftover, m) # {}
    BY <2>3
  <2>6. QED
    BY <2>2, <2>4, <2>5, KeptWhere
<1>3. ASSUME NEW h \in handlers, NEW m \in Range(h.req.msgs)
      PROVE  m \in Message /\ fate[m] = "pending"
  <2>1. h.req.msgs \in Seq(Message)
    BY <1>3 DEF TypeOK, Handler, Request, Batch
  <2>2. m \in Message /\ h \in HandlersWith(handlers, m)
    BY <1>1, <1>3, <2>1 DEF HandlersWith
  <2>3. Kept(m)
    BY <2>2 DEF HeldInv
  <2>4. QED
    BY <2>2, <2>3, KeptWhere
<1>4. ASSUME NEW t \in deferred, NEW m \in Range(t.msgs)
      PROVE  m \in Message /\ fate[m] = "pending"
  <2>1. t.msgs \in Seq(Message)
    BY <1>4 DEF TypeOK, Deferred, Batch
  <2>2. m \in Message /\ t \in TasksWith(deferred, m)
    BY <1>1, <1>4, <2>1 DEF TasksWith
  <2>3. Kept(m)
    BY <2>2 DEF HeldInv
  <2>4. QED
    BY <2>2, <2>3, KeptWhere
<1>5. QED
    BY <1>2, <1>3, <1>4

\* Settling pending messages is a step of a message's life.
LEMMA SettleIsLife ==
    ASSUME NEW ms, NEW f \in Fate \ {"unsent", "pending"}, Settle(ms, f),
           \A m \in ms : m \in Message /\ fate[m] = "pending"
    PROVE  Life!Next
<1>1. [m \in ms |-> f] \in [ms -> Fate \ {"unsent", "pending"}]
    OBVIOUS
<1>2. fate' = [m \in Message |-> IF m \in ms THEN [x \in ms |-> f][m] ELSE fate[m]]
    BY DEF Settle
<1>3. Life!Settle(ms) /\ ms \in SUBSET Message
    BY <1>1, <1>2 DEF Life!Settle
<1>4. QED
    BY <1>3 DEF Life!Next

\* So is accepting or refusing a message that was never sent before.
LEMMA SendIsLife ==
    ASSUME TypeOK, NEW m \in Message, fate[m] = "unsent",
           Settle({m}, "pending") \/ Settle({m}, "refused")
    PROVE  Life!Next
<1>1. \/ fate' = [fate EXCEPT ![m] = "pending"]
      \/ fate' = [fate EXCEPT ![m] = "refused"]
    BY DEF Settle, TypeOK
<1>2. QED
    BY <1>1 DEF Life!Next, Life!Take, Life!TurnAway

\* A detached task or a handler is done with its first message, which is pending.
LEMMA HeadIsPending ==
    ASSUME NEW s \in Batch, NEW f \in Fate \ {"unsent", "pending"}, Settle({Head(s)}, f),
           \A m \in Range(s) : m \in Message /\ fate[m] = "pending"
    PROVE  Life!Next
<1>1. Head(s) \in Range(s)
    BY DEF Batch, Range
<1>2. QED
    BY <1>1, SettleIsLife

\* Every step of the sessions is a step of each message's life, or changes no fate.
LEMMA LifeStep ==
    ASSUME TypeOK, HeldInv, [Next]_vars
    PROVE  Life!Next \/ UNCHANGED fate
<1>1. ASSUME NEW m \in Message, Sender(m) PROVE Life!Next
  <2>1. fate[m] = "unsent" /\ (Settle({m}, "pending") \/ Settle({m}, "refused"))
    BY <1>1 DEF Sender, Send, DeliverConversation, RequestTask
  <2>2. QED
    BY <2>1, SendIsLife
<1>2. ASSUME NEW t \in deferred, Delivery(t) PROVE Life!Next \/ UNCHANGED fate
  <2>1. t.msgs \in Batch /\ \A m \in Range(t.msgs) : m \in Message /\ fate[m] = "pending"
    BY <1>2, HeldIsPending DEF TypeOK, Deferred
  <2>2. \/ UNCHANGED fate
        \/ \E f \in {"refused", "unknown", "no_point"} : Settle({Head(t.msgs)}, f)
    BY <1>2 DEF Delivery, TryDeliver, TryDeliverChat, WaitClear, PublishResume, PublishConversation
  <2>3. QED
    BY <2>1, <2>2, HeadIsPending DEF Fate
<1>3. ASSUME NEW h \in handlers, Handling(h) PROVE Life!Next \/ UNCHANGED fate
  <2>1. h.req.msgs \in Batch /\ \A m \in Range(h.req.msgs) : m \in Message /\ fate[m] = "pending"
    BY <1>3, HeldIsPending DEF TypeOK, Handler, Request
  <2>2. \/ UNCHANGED fate
        \/ Settle({Head(h.req.msgs)}, "refused")
        \/ Settle(Range(h.req.msgs), "fork_failed")
    BY <1>3 DEF Handling, CheckAddress, WaitSpawn, DeliverLosing, BuildFails, Spawn, LoseSpawn
  <2>3. QED
    BY <2>1, <2>2, HeadIsPending, SettleIsLife DEF Fate
<1>4. ASSUME NEW r \in Run, RunStep(r) \/ Panic(r) PROVE Life!Next \/ UNCHANGED fate
  <2>1. \/ UNCHANGED fate
        \/ \E f \in {"read", "stopped", "woken_stopped"} : Settle(Range(kickoff[r]), f)
        \/ \E f \in {"read", "after_drain"} : Settle(Range(chan[r]), f)
        \/ Settle(Range(chan[r]) \cup Range(leftover[r]), "panicked")
    BY <1>4 DEF RunStep, Begin, StopQueued, StartTurn, Checkpoint, EndTurn, GoIdle, StopIdle,
       Wake, IdleTimeout, Drain, SetCompleting, Recover, RecordPoint, Remove, ResumeLeftover, Panic
  <2>2. \A m \in Range(chan[r]) \cup Range(kickoff[r]) \cup Range(leftover[r]) :
            m \in Message /\ fate[m] = "pending"
    BY <1>4, HeldIsPending
  <2>3. QED
    BY <2>1, <2>2, SettleIsLife DEF Fate
<1>5. CASE \/ UNCHANGED vars \/ StopAll \/ ListenerRecv
           \/ \E a \in Addresses : Stop(a) \/ StopIfRunning(a)
    BY <1>5 DEF vars, Stop, StopIfRunning, StopAll, ListenerRecv
<1>6. QED
    BY <1>1, <1>2, <1>3, <1>4, <1>5 DEF Next

\* Whoever sends, retries, stops or panics, a message is accepted or refused once,
\* and one that was accepted is read or dropped once, in a way that is final: the
\* sessions implement MessageLife.
THEOREM SessionsImplementMessageLife == Spec => ImplementsMessageLife
<1>1. Init => Life!Init
    BY DEF Init, Life!Init
<1>2. TypeOK /\ HeldInv /\ [Next]_vars => [Life!Next]_fate
    BY LifeStep
<1>3. QED
    BY <1>1, <1>2, TypeCorrect, RegistryAlways, HeldInit, HeldNext, PTL
       DEF Spec, ImplementsMessageLife, Life!Spec
=============================================================================
