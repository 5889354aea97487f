------------------------------ MODULE BusProofs ------------------------------
(***************************************************************************)
(* What holds of the bus for every set of publishers, subscribers and      *)
(* routes and every capacity: its types, its backlog counters, and that it *)
(* implements the log of each route.                                       *)
(***************************************************************************)
EXTENDS Bus, SequenceTheorems, WellFoundedInduction, TLAPS

-----------------------------------------------------------------------------
(* What retain keeps.                                                      *)

\* Every set of naturals has a least element.
LEMMA LeastNatural ==
  ASSUME NEW T, T \subseteq Nat, T # {}
  PROVE  \E n \in T : \A m \in T : n <= m
  <1>1. PICK n \in T : \A m \in T : ~ (<<m, n>> \in OpToRel(<, Nat))
    BY WFMin, NatLessThanWellFounded
  <1>2. \A m \in T : ~ (m < n)
    BY <1>1 DEF OpToRel
  <1> QED
    BY <1>2

\* f solves the recursion in Without for the first n elements.
Retains(seq, s, n, f) ==
    f = [m \in 0 .. n |-> IF m = 0 THEN <<>>
                          ELSE IF seq[m] # s THEN Append(f[m - 1], seq[m])
                          ELSE f[m - 1]]

LEMMA RetainsExists ==
  ASSUME NEW S, NEW seq \in Seq(S), NEW s
  PROVE  \E f : Retains(seq, s, Len(seq), f)
  <1> DEFINE Bad == {n \in 0 .. Len(seq) : ~ \E f : Retains(seq, s, n, f)}
  <1>0. Len(seq) \in Nat /\ Bad \subseteq Nat
    OBVIOUS
  <1> SUFFICES ASSUME Bad # {} PROVE FALSE
    BY <1>0
  <1>1. PICK n \in Bad : \A m \in Bad : n <= m
    BY <1>0, LeastNatural
  <1>2. CASE n = 0
    <2> DEFINE f == [m \in 0 .. 0 |-> <<>>]
    <2>1. Retains(seq, s, 0, f)
      BY DEF Retains
    <2> QED
      BY <1>1, <1>2, <2>1
  <1>3. CASE n # 0
    <2>1. n \in Nat /\ n - 1 \in 0 .. Len(seq) /\ n - 1 \notin Bad
      <3>1. n \in 1 .. Len(seq)
        BY <1>0, <1>3
      <3>2. n \in Nat /\ n - 1 \in 0 .. Len(seq) /\ ~ (n <= n - 1)
        BY ONLY <1>0, <3>1
      <3> QED
        BY <1>1, <3>2
    <2>2. PICK f : Retains(seq, s, n - 1, f)
      BY <2>1
    <2> DEFINE g == [m \in 0 .. n |->
                       IF m = n THEN IF seq[n] # s THEN Append(f[n - 1], seq[n]) ELSE f[n - 1]
                       ELSE f[m]]
    <2>3. \A m \in 0 .. n - 1 : g[m] = f[m]
      BY <2>1
    <2>4. ASSUME NEW m \in 0 .. n
          PROVE  g[m] = IF m = 0 THEN <<>>
                        ELSE IF seq[m] # s THEN Append(g[m - 1], seq[m])
                        ELSE g[m - 1]
      <3>1. CASE m = n
        BY <1>3, <2>1, <2>3, <3>1
      <3>2. CASE m # n
        <4>1. m \in 0 .. n - 1 /\ (m # 0 => m - 1 \in 0 .. n - 1)
          BY <2>1, <3>2
        <4>2. f[m] = IF m = 0 THEN <<>>
                     ELSE IF seq[m] # s THEN Append(f[m - 1], seq[m])
                     ELSE f[m - 1]
          BY <2>2, <4>1 DEF Retains
        <4> QED
          BY <2>3, <4>1, <4>2
      <3> QED
        BY <3>1, <3>2
    <2>5. Retains(seq, s, n, g)
      BY <2>4 DEF Retains
    <2> QED
      BY <1>1, <2>5
  <1> QED
    BY <1>2, <1>3

Members(seq) == {seq[i] : i \in DOMAIN seq}
NoRepeat(seq) == \A i, j \in DOMAIN seq : seq[i] = seq[j] => i = j

\* Appending a new element.
LEMMA AppendMember ==
  ASSUME NEW S, NEW seq \in Seq(S), NEW x \in S
  PROVE  /\ Append(seq, x) \in Seq(S) /\ Members(Append(seq, x)) = Members(seq) \cup {x}
         /\ NoRepeat(seq) /\ x \notin Members(seq) => NoRepeat(Append(seq, x))
  <1>1. /\ Len(seq) \in Nat /\ Append(seq, x) \in Seq(S) /\ Len(Append(seq, x)) = Len(seq) + 1
        /\ DOMAIN seq = 1 .. Len(seq) /\ DOMAIN Append(seq, x) = 1 .. Len(seq) + 1
        /\ Append(seq, x)[Len(seq) + 1] = x
        /\ \A i \in 1 .. Len(seq) : Append(seq, x)[i] = seq[i]
    OBVIOUS
  <1>2. PICK t : t = Append(seq, x)
    OBVIOUS
  <1>3. Members(t) = Members(seq) \cup {x}
    BY ONLY <1>1, <1>2 DEF Members
  <1>4. NoRepeat(seq) /\ x \notin Members(seq) => NoRepeat(t)
    BY ONLY <1>1, <1>2 DEF Members, NoRepeat
  <1> QED
    BY <1>1, <1>2, <1>3, <1>4

\* Without is retain: the other elements, each as often as it was there.
LEMMA WithoutKeeps ==
  ASSUME NEW S, NEW seq \in Seq(S), NEW s
  PROVE  /\ Without(seq, s) \in Seq(S)
         /\ Members(Without(seq, s)) = Members(seq) \ {s}
         /\ NoRepeat(seq) => NoRepeat(Without(seq, s))
  <1> DEFINE f == CHOOSE g : Retains(seq, s, Len(seq), g)
  <1>1. Retains(seq, s, Len(seq), f)
    BY RetainsExists
  <1>2. Without(seq, s) = f[Len(seq)]
    BY DEF Without, Retains
  <1> HIDE DEF f
  <1> DEFINE First(n) == {seq[i] : i \in 1 .. n}
             Right(n) == /\ f[n] \in Seq(S) /\ Members(f[n]) = First(n) \ {s}
                         /\ NoRepeat(seq) => NoRepeat(f[n])
             Bad == {n \in 0 .. Len(seq) : ~Right(n)}
  <1>3. Len(seq) \in Nat /\ DOMAIN seq = 1 .. Len(seq) /\ Bad \subseteq Nat
    OBVIOUS
  <1>4. \A n \in 0 .. Len(seq) : f[n] = IF n = 0 THEN <<>>
                                        ELSE IF seq[n] # s THEN Append(f[n - 1], seq[n])
                                        ELSE f[n - 1]
    BY <1>1 DEF Retains
  <1>5. Right(0)
    <2>1. f[0] = <<>>
      BY <1>3, <1>4
    <2> QED
      BY <2>1 DEF Members, NoRepeat
  <1>6. ASSUME NEW n \in 1 .. Len(seq), Right(n - 1) PROVE Right(n)
    <2>1. seq[n] \in S /\ n \in Nat /\ First(n) = First(n - 1) \cup {seq[n]}
      BY <1>3
    <2>2. f[n] = IF seq[n] # s THEN Append(f[n - 1], seq[n]) ELSE f[n - 1]
      BY <1>3, <1>4
    <2>3. NoRepeat(seq) => seq[n] \notin First(n - 1)
      BY <1>3 DEF NoRepeat
    <2> HIDE DEF First
    <2>4. CASE seq[n] # s
      <3>1. f[n] \in Seq(S) /\ Members(f[n]) = Members(f[n - 1]) \cup {seq[n]}
            /\ (NoRepeat(f[n - 1]) /\ seq[n] \notin Members(f[n - 1]) => NoRepeat(f[n]))
        BY <1>6, <2>1, <2>2, <2>4, AppendMember
      <3> QED
        BY <1>6, <2>1, <2>3, <2>4, <3>1
    <2>5. CASE seq[n] = s
      BY <1>6, <2>1, <2>2, <2>5
    <2> QED
      BY <2>4, <2>5
  <1> HIDE DEF Right
  <1>7. ASSUME Bad # {} PROVE FALSE
    <2>1. PICK n \in Bad : \A m \in Bad : n <= m
      BY <1>3, <1>7, LeastNatural
    <2>2. n \in 1 .. Len(seq)
      BY <1>3, <1>5
    <2>3. n - 1 \in 0 .. Len(seq) /\ n - 1 \notin Bad
      BY <1>3, <2>1, <2>2
    <2> QED
      BY <1>6, <2>2, <2>3
  <1>8. Right(Len(seq))
    BY <1>3, <1>7
  <1> QED
    BY <1>2, <1>3, <1>8 DEF Right, Members
-----------------------------------------------------------------------------
(* The type of every variable.                                             *)

Job == [pc : {"send", "add", "len"}, todo : Seq(Subs), route : Routes, event : Event]

LEMMA EventIsNotNone == \A e \in Event : e # NoEvent
  BY DEF Event, NoEvent

\* What a job that is under way knows.
LEMMA JobTyped ==
  ASSUME TypeOK, job.pc # "recv"
  PROVE  /\ job \in Job /\ job # Idle /\ job.todo \in Seq(Subs) /\ job.todo # <<>>
         /\ job.route \in Routes /\ job.event \in Event
         /\ Head(job.todo) \in Subs /\ Tail(job.todo) \in Seq(Subs)
         /\ 1 \in DOMAIN job.todo /\ Head(job.todo) = job.todo[1]
  BY DEF TypeOK, Job, Idle

\* The job ends or goes on to the rest of its list.
LEMMA NextTodoTyped ==
  ASSUME TypeOK, job.pc # "recv"
  PROVE  \/ /\ NextTodo = Idle /\ Len(job.todo) = 1 /\ Tail(job.todo) = <<>>
         \/ /\ NextTodo \in Job /\ NextTodo.pc = "send"
            /\ NextTodo.todo = Tail(job.todo) /\ Tail(job.todo) # <<>>
            /\ NextTodo.route = job.route /\ NextTodo.event = job.event
  <1>1. job \in Job /\ job.todo \in Seq(Subs) /\ job.todo # <<>>
    BY JobTyped
  <1>t. PICK t \in Seq(Subs) : t = job.todo
    BY <1>1
  <1>l. Len(t) \in Nat /\ Len(t) # 0 /\ Tail(t) \in Seq(Subs) /\ Len(Tail(t)) = Len(t) - 1
    BY <1>1, <1>t
  <1>e. Tail(t) = <<>> <=> Len(t) = 1
    <2>1. Tail(t) = <<>> <=> Len(Tail(t)) = 0
      <3>1. PICK u \in Seq(Subs) : u = Tail(t)
        BY <1>l
      <3>2. u = <<>> <=> Len(u) = 0
        BY EmptySeq
      <3> QED
        BY <3>1, <3>2
    <2> QED
      BY ONLY <1>l, <2>1
  <1>2. CASE Len(job.todo) = 1
    <2>1. NextTodo = Idle
      BY <1>2 DEF NextTodo
    <2> QED
      BY <1>2, <1>t, <1>e, <2>1
  <1>3. CASE Len(job.todo) # 1
    <2>1. Tail(job.todo) \in Seq(Subs) /\ Tail(job.todo) # <<>>
      BY <1>3, <1>t, <1>l, <1>e
    <2>2. NextTodo = [job EXCEPT !.pc = "send", !.todo = Tail(job.todo)]
      BY <1>3 DEF NextTodo
    <2> QED
      BY <1>1, <2>1, <2>2 DEF Job
  <1> QED
    BY <1>2, <1>3

LEMMA InitTyped == Init => TypeOK
  BY BusAssumption DEF Init, TypeOK, Idle

LEMMA PublishTyped ==
  ASSUME TypeOK, NEW p \in Publishers, NEW r \in Routes, Publish(p, r)
  PROVE  TypeOK'
  <1> DEFINE e == <<p, published[p] + 1>>
             c == [op |-> "publish", route |-> r, event |-> e]
  <1>1. published[p] + 1 \in 1 .. MaxPublish
    BY BusAssumption DEF Publish, TypeOK
  <1>2. e \in Event /\ c \in Command
    BY <1>1 DEF Command, Event
  <1>3. cmds' = Append(cmds, c) /\ Len(cmds) < CmdCapacity
    BY DEF Publish, SendCommand
  <1>4. published' \in [Publishers -> 0 .. MaxPublish]
    BY <1>1, BusAssumption DEF Publish, TypeOK
  <1>5. promised' \in SUBSET (Subs \X Event)
    <2>1. promised' = promised \cup
            {<<s, e>> : s \in {t \in Lossless : RouteOf[t] = r /\ handle[t] = "open"}}
      BY DEF Publish
    <2> HIDE DEF e
    <2> QED
      BY <1>2, <2>1, BusAssumption DEF TypeOK
  <1> HIDE DEF c
  <1>6. cmds' \in Seq(Command) /\ Len(cmds') <= CmdCapacity
    BY <1>2, <1>3, BusAssumption DEF TypeOK
  <1> QED
    BY <1>4, <1>5, <1>6 DEF Publish, TypeOK, broker

LEMMA HandlesTyped ==
  ASSUME TypeOK, NEW s \in Subs,
         Subscribe(s) \/ DropSubscriber(s) \/ CloseReceiver(s) \/ RecvTake(s) \/ RecvCount(s)
  PROVE  TypeOK'
  <1>1. CASE Subscribe(s)
    <2>1. PICK c \in Command : cmds' = Append(cmds, c) /\ Len(cmds) < CmdCapacity
      BY <1>1 DEF Subscribe, SendCommand, Command
    <2>2. cmds' \in Seq(Command) /\ Len(cmds') <= CmdCapacity
      BY <2>1, BusAssumption DEF TypeOK
    <2> QED
      BY <1>1, <2>2 DEF Subscribe, TypeOK, broker, history
  <1>2. CASE DropSubscriber(s)
    <2>1. PICK c \in Command : c = [op |-> "unsubscribe", sub |-> s]
      BY DEF Command
    <2>2. \/ cmds' = cmds
          \/ cmds' = Append(cmds, c) /\ Len(cmds) < CmdCapacity
      BY <1>2, <2>1 DEF DropSubscriber
    <2>3. cmds' \in Seq(Command) /\ Len(cmds') <= CmdCapacity
      <3>1. cmds \in Seq(Command) /\ Len(cmds) <= CmdCapacity
        BY DEF TypeOK
      <3>2. CASE cmds' = Append(cmds, c) /\ Len(cmds) < CmdCapacity
        BY <3>1, <3>2, BusAssumption
      <3> QED
        BY <2>2, <3>1, <3>2
    <2> QED
      BY <1>2, <2>3 DEF DropSubscriber, TypeOK, broker, history
  <1>3. CASE CloseReceiver(s)
    BY <1>3 DEF CloseReceiver, TypeOK, broker, history
  <1>4. CASE RecvTake(s)
    <2>1. Head(chan[s]) \in Event /\ Tail(chan[s]) \in Seq(Event)
      BY <1>4 DEF RecvTake, TypeOK
    <2>2. chan' \in [Subs -> Seq(Event)]
      BY <1>4, <2>1 DEF RecvTake, TypeOK
    <2>3. Append(got[s], Head(chan[s])) \in Seq(Event)
      BY <2>1 DEF TypeOK
    <2>4. hand' \in [Subs -> Event \cup {NoEvent}] /\ got' \in [Subs -> Seq(Event)]
      BY <1>4, <2>1, <2>3 DEF RecvTake, TypeOK
    <2> QED
      BY <1>4, <2>2, <2>4 DEF RecvTake, TypeOK, broker
  <1>5. CASE RecvCount(s)
    <2>1. hand[s] \in Event /\ got[s] \in Seq(Event)
      BY <1>5 DEF RecvCount, TypeOK
    <2>2. Append(got[s], hand[s]) \in Seq(Event)
      BY <2>1
    <2>3. got' \in [Subs -> Seq(Event)] /\ hand' \in [Subs -> Event \cup {NoEvent}]
          /\ backlog' \in [Subs -> Int]
      BY <1>5, <2>2 DEF RecvCount, TypeOK
    <2> QED
      BY <1>5, <2>3 DEF RecvCount, TypeOK, broker
  <1> QED
    BY <1>1, <1>2, <1>3, <1>4, <1>5

\* The command the broker takes next.
LEMMA CommandTyped ==
  ASSUME TypeOK, cmds # <<>>
  PROVE  /\ Head(cmds) \in Command /\ Tail(cmds) \in Seq(Command)
         /\ Len(Tail(cmds)) <= CmdCapacity
         /\ Head(cmds).op = "publish" => Head(cmds).route \in Routes /\ Head(cmds).event \in Event
         /\ Head(cmds).op # "publish" => Head(cmds).sub \in Subs
  <1>1. Head(cmds) \in Command /\ Tail(cmds) \in Seq(Command) /\ Len(Tail(cmds)) <= CmdCapacity
    BY BusAssumption DEF TypeOK
  <1> QED
    BY <1>1 DEF Command

LEMMA CommandsTyped ==
  ASSUME TypeOK, BrokerPublish \/ BrokerSubscribe \/ BrokerUnsubscribe
  PROVE  TypeOK'
  <1>0. cmds # <<>> /\ cmds' = Tail(cmds)
    BY DEF BrokerPublish, BrokerSubscribe, BrokerUnsubscribe
  <1>1. CASE BrokerPublish
    <2>1. PICK r \in Routes, e \in Event : r = Head(cmds).route /\ e = Head(cmds).event
      BY <1>0, <1>1, CommandTyped DEF BrokerPublish
    <2>2. Append(routed[r], e) \in Seq(Event)
      BY DEF TypeOK
    <2>3. routed' \in [Routes -> Seq(Event)]
      BY <1>1, <2>1, <2>2 DEF BrokerPublish, TypeOK
    <2>4. job' = Idle \/ (job' \in Job /\ job'.todo # <<>>)
      <3>1. CASE subscriptions[r] = <<>>
        BY <1>1, <2>1, <3>1 DEF BrokerPublish
      <3>2. CASE subscriptions[r] # <<>>
        <4>1. PICK t \in Seq(Subs) : t = subscriptions[r]
          BY DEF TypeOK
        <4>2. job' = [pc |-> "send", todo |-> t, route |-> r, event |-> e]
          BY <1>1, <2>1, <3>2, <4>1 DEF BrokerPublish
        <4> QED
          BY <3>2, <4>1, <4>2 DEF Job
      <3> QED
        BY <3>1, <3>2
    <2> QED
      BY <1>0, <1>1, <2>3, <2>4, CommandTyped DEF BrokerPublish, TypeOK, Job
  <1>2. CASE BrokerSubscribe
    <2>1. PICK s \in Subs : s = Head(cmds).sub
      BY <1>0, <1>2, CommandTyped DEF BrokerSubscribe
    <2>2. RouteOf[s] \in Routes
      BY BusAssumption
    <2>3. Append(subscriptions[RouteOf[s]], s) \in Seq(Subs) /\ Len(routed[RouteOf[s]]) \in Nat
      BY <2>2 DEF TypeOK
    <2>4. subscriptions' \in [Routes -> Seq(Subs)] /\ since' \in [Subs -> Nat]
      BY <1>2, <2>1, <2>3 DEF BrokerSubscribe, TypeOK
    <2> QED
      BY <1>0, <1>2, <2>4, CommandTyped DEF BrokerSubscribe, TypeOK
  <1>3. CASE BrokerUnsubscribe
    <2>1. PICK s \in Subs : s = Head(cmds).sub
      BY <1>0, <1>3, CommandTyped DEF BrokerUnsubscribe
    <2>2. RouteOf[s] \in Routes
      BY BusAssumption
    <2>3. Without(subscriptions[RouteOf[s]], s) \in Seq(Subs)
      BY <2>2, WithoutKeeps DEF TypeOK
    <2>4. subscriptions' \in [Routes -> Seq(Subs)] /\ dropping' \in [Subs -> Nat]
          /\ largeBacklogs' \in SUBSET Subs
      BY <1>3, <2>1, <2>3 DEF BrokerUnsubscribe, TypeOK
    <2> QED
      BY <1>0, <1>3, <2>4, CommandTyped DEF BrokerUnsubscribe, TypeOK, history
  <1> QED
    BY <1>1, <1>2, <1>3

LEMMA FanOutTyped ==
  ASSUME TypeOK,
         BrokerSendClosed \/ BrokerSendDropped \/ BrokerSend \/ BrokerAdd \/ BrokerRecordSent
  PROVE  TypeOK'
  <1>0. job.pc # "recv"
    BY DEF BrokerSendClosed, BrokerSendDropped, BrokerSend, BrokerAdd, BrokerRecordSent
  <1>1. PICK s \in Subs : s = Head(job.todo)
    BY <1>0, JobTyped
  <1>2. job \in Job /\ job.route \in Routes /\ job.event \in Event /\ job.todo # <<>>
    BY <1>0, JobTyped
  <1>3. NextTodo = Idle \/ (NextTodo \in Job /\ NextTodo.todo # <<>>)
    BY <1>0, NextTodoTyped
  <1>4. CASE BrokerSendClosed
    <2>1. Without(subscriptions[job.route], s) \in Seq(Subs)
      BY <1>2, WithoutKeeps DEF TypeOK
    <2>2. subscriptions' \in [Routes -> Seq(Subs)] /\ dropping' \in [Subs -> Nat]
          /\ largeBacklogs' \in SUBSET Subs
      BY <1>1, <1>2, <1>4, <2>1 DEF BrokerSendClosed, TypeOK
    <2> QED
      BY <1>3, <1>4, <2>2 DEF BrokerSendClosed, TypeOK, Job, history
  <1>5. CASE BrokerSendDropped
    BY <1>1, <1>3, <1>5 DEF BrokerSendDropped, TypeOK, Job, history
  <1>6. CASE BrokerSend
    <2>1. Append(chan[s], job.event) \in Seq(Event)
      BY <1>2 DEF TypeOK
    <2>2. chan' \in [Subs -> Seq(Event)]
      BY <1>1, <1>6, <2>1 DEF BrokerSend, TypeOK
    <2>3. job' \in Job /\ job'.todo # <<>>
      BY <1>1, <1>2, <1>6 DEF BrokerSend, Job
    <2> QED
      BY <1>6, <2>2, <2>3 DEF BrokerSend, TypeOK, Job, history
  <1>7. CASE BrokerAdd
    <2>1. backlog' \in [Subs -> Int]
      BY <1>1, <1>7 DEF BrokerAdd, TypeOK
    <2>2. job' \in Job /\ job'.todo # <<>>
      BY <1>2, <1>7 DEF BrokerAdd, Job
    <2> QED
      BY <1>7, <2>1, <2>2 DEF BrokerAdd, TypeOK, Job, history
  <1>8. CASE BrokerRecordSent
    <2>1. dropping' \in [Subs -> Nat] /\ largeBacklogs' \in SUBSET Subs
      BY <1>1, <1>8 DEF BrokerRecordSent, TypeOK
    <2> QED
      BY <1>3, <1>8, <2>1 DEF BrokerRecordSent, TypeOK, Job, history
  <1> QED
    BY <1>4, <1>5, <1>6, <1>7, <1>8

LEMMA TypeStep == TypeOK /\ [Next]_vars => TypeOK'
  <1> SUFFICES ASSUME TypeOK, [Next]_vars PROVE TypeOK'
    OBVIOUS
  <1>1. ASSUME NEW p \in Publishers, DropPublisher(p) PROVE TypeOK'
    BY <1>1 DEF DropPublisher, TypeOK, broker, history
  <1>2. CASE BrokerExit
    BY <1>2 DEF BrokerExit, TypeOK, history
  <1>3. CASE UNCHANGED vars
    BY <1>3 DEF vars, broker, history, TypeOK
  <1> QED
    BY <1>1, <1>2, <1>3, PublishTyped, HandlesTyped, CommandsTyped, FanOutTyped
       DEF Next, BrokerStep

\* TypeOK for every instance: the command channel keeps its capacity, and a fan-out always
\* has a next subscriber while it is under way.
THEOREM TypeCorrect == Spec => []TypeOK
  BY InitTyped, TypeStep, PTL DEF Spec

-----------------------------------------------------------------------------
(* The backlog counters.                                                   *)

\* The send to s is in its channel and not yet in its counter.
Uncounted(s) == IF job.pc = "add" /\ Head(job.todo) = s THEN 1 ELSE 0

\* Whatever is in the channel or in the receiver's hand is counted, but for a
\* send whose increment is outstanding: the counter may be below the length,
\* and so below zero, by that one only.
CountedAt(s) == backlog[s] = Len(chan[s]) + Len(Held(s)) - Uncounted(s)

Counted == \A s \in Lossless : handle[s] # "gone" => CountedAt(s)

CounterInv == TypeOK /\ Counted

LEMMA CountedInit == Init => Counted
  <1> SUFFICES ASSUME Init, NEW s \in Lossless PROVE CountedAt(s)
    BY DEF Counted
  <1>1. s \in Subs
    BY BusAssumption DEF BusAssumption
  <1>2. chan[s] = <<>> /\ backlog[s] = 0 /\ Held(s) = <<>>
    BY <1>1 DEF Init, Held
  <1>3. Uncounted(s) = 0
    BY DEF Init, Idle, Uncounted
  <1> QED
    BY <1>2, <1>3 DEF CountedAt

\* A step that leaves the subscriber's channel, counter and hand alone.
LEMMA UntouchedStep ==
  ASSUME NEW q, CountedAt(q), chan'[q] = chan[q], backlog'[q] = backlog[q],
         hand'[q] = hand[q], Uncounted(q)' = Uncounted(q)
  PROVE  CountedAt(q)'
  BY DEF CountedAt, Held

\* The job moves on from a subscriber that is sent or counted.
LEMMA NextTodoCounts ==
  ASSUME NEW q, TypeOK, job.pc \in {"send", "len"}, job' = NextTodo
  PROVE  Uncounted(q) = 0 /\ Uncounted(q)' = 0
  <1>1. Uncounted(q) = 0
    BY DEF Uncounted
  <1>2. job' = Idle \/ job'.pc = "send"
    BY NextTodoTyped
  <1>3. Uncounted(q)' = 0
    BY <1>2 DEF Uncounted, Idle
  <1> QED
    BY <1>1, <1>3

LEMMA CountedStep == CounterInv /\ [Next]_vars => Counted'
  <1> SUFFICES ASSUME CounterInv, [Next]_vars, NEW q \in Lossless, handle'[q] # "gone"
               PROVE  CountedAt(q)'
    BY DEF Counted
  <1> USE DEF CounterInv
  <1>q. q \in Subs
    BY BusAssumption DEF BusAssumption
  <1>t. /\ chan[q] \in Seq(Event) /\ Len(chan[q]) \in Nat /\ backlog[q] \in Int
        /\ hand[q] \in Event \cup {NoEvent}
    BY <1>q DEF TypeOK
  <1>h. TypeOK /\ (handle[q] # "gone" => CountedAt(q))
    BY DEF Counted
  <1>1. ASSUME NEW p \in Publishers, NEW r \in Routes, Publish(p, r) PROVE CountedAt(q)'
    BY <1>1, <1>h, UntouchedStep DEF Publish, broker, Uncounted
  <1>2. ASSUME NEW p \in Publishers, DropPublisher(p) PROVE CountedAt(q)'
    BY <1>2, <1>h, UntouchedStep DEF DropPublisher, broker, Uncounted
  <1>3. ASSUME NEW s \in Subs, Subscribe(s) PROVE CountedAt(q)'
    <2>1. handle[q] # "gone"
      BY <1>3, <1>q DEF Subscribe, TypeOK
    <2> QED
      BY <1>3, <1>h, <2>1, UntouchedStep DEF Subscribe, broker, Uncounted
  <1>4. ASSUME NEW s \in Subs, RecvTake(s) PROVE CountedAt(q)'
    <2>1. Uncounted(q)' = Uncounted(q) /\ handle[q] # "gone" /\ CountedAt(q)
      BY <1>4, <1>h DEF RecvTake, broker, Uncounted
    <2>2. CASE s = q
      <3>1. /\ chan[q] # <<>> /\ hand[q] = NoEvent
            /\ chan'[q] = Tail(chan[q]) /\ hand'[q] = Head(chan[q])
            /\ backlog'[q] = backlog[q]
        BY <1>4, <1>q, <2>2 DEF RecvTake, TypeOK
      <3>2. Head(chan[q]) # NoEvent /\ Len(Tail(chan[q])) = Len(chan[q]) - 1
        BY <1>t, <3>1, EventIsNotNone
      <3>3. Len(Held(q)) = 0 /\ Len(Held(q)') = 1
        BY <3>1, <3>2 DEF Held
      <3>4. Uncounted(q) \in Int
        BY DEF Uncounted
      <3> QED
        BY <1>t, <2>1, <3>1, <3>2, <3>3, <3>4 DEF CountedAt
    <2>3. CASE s # q
      BY <1>4, <1>q, <2>1, <2>3, UntouchedStep DEF RecvTake, TypeOK
    <2> QED
      BY <2>2, <2>3
  <1>5. ASSUME NEW s \in Subs, RecvCount(s) PROVE CountedAt(q)'
    <2>1. Uncounted(q)' = Uncounted(q) /\ handle[q] # "gone" /\ CountedAt(q)
      BY <1>5, <1>h DEF RecvCount, broker, Uncounted
    <2>2. CASE s = q
      <3>1. /\ hand[q] # NoEvent /\ hand'[q] = NoEvent
            /\ chan'[q] = chan[q] /\ backlog'[q] = backlog[q] - 1
        BY <1>5, <1>q, <2>2 DEF RecvCount, TypeOK
      <3>2. Len(Held(q)) = 1 /\ Len(Held(q)') = 0
        BY <3>1 DEF Held
      <3>3. Uncounted(q) \in Int
        BY DEF Uncounted
      <3> QED
        BY <1>t, <2>1, <3>1, <3>2, <3>3 DEF CountedAt
    <2>3. CASE s # q
      BY <1>5, <1>q, <2>1, <2>3, UntouchedStep DEF RecvCount, TypeOK
    <2> QED
      BY <2>2, <2>3
  <1>6. ASSUME NEW s \in Subs, DropSubscriber(s) PROVE CountedAt(q)'
    <2>1. handle[q] # "gone"
      BY <1>6, <1>q DEF DropSubscriber, TypeOK
    <2> QED
      BY <1>6, <1>h, <2>1, UntouchedStep DEF DropSubscriber, broker, Uncounted
  <1>7. ASSUME NEW s \in Subs, CloseReceiver(s) PROVE CountedAt(q)'
    <2>1. q # s /\ handle[q] # "gone"
      BY <1>7, <1>q DEF CloseReceiver, TypeOK
    <2> QED
      BY <1>7, <1>q, <1>h, <2>1, UntouchedStep DEF CloseReceiver, broker, Uncounted, TypeOK
  <1>8. CASE BrokerStep
    <2>0. handle[q] # "gone"
      BY <1>8 DEF BrokerStep, BrokerPublish, BrokerSubscribe, BrokerUnsubscribe,
                  BrokerSendClosed, BrokerSendDropped, BrokerSend, BrokerAdd,
                  BrokerRecordSent, BrokerExit
    <2>1. CASE BrokerPublish
      <3>1. Uncounted(q) = 0 /\ Uncounted(q)' = 0
        BY <2>1 DEF BrokerPublish, Uncounted, Idle
      <3> QED
        BY <1>h, <2>0, <2>1, <3>1, UntouchedStep DEF BrokerPublish
    <2>2. CASE BrokerSubscribe \/ BrokerUnsubscribe \/ BrokerExit
      BY <1>h, <2>0, <2>2, UntouchedStep
         DEF BrokerSubscribe, BrokerUnsubscribe, BrokerExit, Uncounted
    <2>3. CASE BrokerSendClosed \/ BrokerSendDropped \/ BrokerRecordSent
      <3>1. job.pc \in {"send", "len"} /\ job' = NextTodo
        BY <2>3 DEF BrokerSendClosed, BrokerSendDropped, BrokerRecordSent
      <3>2. Uncounted(q) = 0 /\ Uncounted(q)' = 0
        BY <1>h, <3>1, NextTodoCounts
      <3> QED
        BY <1>h, <2>0, <2>3, <3>2, UntouchedStep
           DEF BrokerSendClosed, BrokerSendDropped, BrokerRecordSent
    <2>4. CASE BrokerSend
      <3> DEFINE s == Head(job.todo)
      <3>1. job.pc = "send" /\ job \in Job /\ job.event \in Event
        BY <1>h, <2>4, JobTyped DEF BrokerSend
      <3>2. job.event \in Event /\ job.pc = "send" /\ job'.todo = job.todo
        BY <2>4, <3>1 DEF BrokerSend, Job
      <3>3. job'.pc = IF s \in Lossless THEN "add" ELSE "len"
        BY <2>4, <3>1 DEF BrokerSend, Job
      <3>4. Uncounted(q) = 0 /\ Uncounted(q)' = IF q = s THEN 1 ELSE 0
        BY <3>2, <3>3 DEF Uncounted
      <3>5. CASE q = s
        <4>1. /\ chan'[q] = Append(chan[q], job.event)
              /\ backlog'[q] = backlog[q] /\ hand'[q] = hand[q]
          BY <1>q, <2>4, <3>5 DEF BrokerSend, TypeOK
        <4>2. Len(chan'[q]) = Len(chan[q]) + 1
          BY <1>t, <3>2, <4>1
        <4>3. Len(Held(q)') = Len(Held(q)) /\ Len(Held(q)) \in Int
          BY <4>1 DEF Held
        <4>4. backlog[q] = Len(chan[q]) + Len(Held(q))
          BY <1>t, <1>h, <2>0, <3>4, <4>3 DEF CountedAt
        <4> QED
          <5>1. Uncounted(q)' = 1
            BY <3>4, <3>5
          <5> QED
            BY <1>t, <4>1, <4>2, <4>3, <4>4, <5>1 DEF CountedAt
      <3>6. CASE q # s
        BY <1>q, <1>h, <2>0, <2>4, <3>4, <3>6, UntouchedStep DEF BrokerSend, TypeOK
      <3> QED
        BY <3>5, <3>6
    <2>5. CASE BrokerAdd
      <3> DEFINE s == Head(job.todo)
      <3>1. job.pc = "add" /\ job \in Job
        BY <1>h, <2>5, JobTyped DEF BrokerAdd
      <3>2. job.pc = "add" /\ job'.pc = "len"
        BY <2>5, <3>1 DEF BrokerAdd, Job
      <3>3. Uncounted(q)' = 0 /\ Uncounted(q) = IF q = s THEN 1 ELSE 0
        BY <3>2 DEF Uncounted
      <3>4. CASE q = s
        <4>1. /\ chan'[q] = chan[q] /\ hand'[q] = hand[q]
              /\ backlog'[q] = backlog[q] + 1
          BY <1>q, <2>5, <3>4 DEF BrokerAdd, TypeOK
        <4>2. Len(Held(q)') = Len(Held(q)) /\ Len(Held(q)) \in Int
          BY <4>1 DEF Held
        <4>3. backlog[q] = Len(chan[q]) + Len(Held(q)) - 1
          BY <1>h, <2>0, <3>3, <3>4 DEF CountedAt
        <4> QED
          BY <1>t, <3>3, <4>1, <4>2, <4>3 DEF CountedAt
      <3>5. CASE q # s
        BY <1>q, <1>h, <2>0, <2>5, <3>3, <3>5, UntouchedStep DEF BrokerAdd, TypeOK
      <3> QED
        BY <3>4, <3>5
    <2> QED
      BY <1>8, <2>1, <2>2, <2>3, <2>4, <2>5 DEF BrokerStep
  <1>9. CASE UNCHANGED vars
    BY <1>9, <1>h, UntouchedStep DEF vars, broker, Uncounted
  <1> QED
    BY <1>1, <1>2, <1>3, <1>4, <1>5, <1>6, <1>7, <1>8, <1>9 DEF Next

\* BacklogReadIsQueueLength for every instance: whenever run_broker reads a lossless
\* subscriber's counter, it is the length of the queue, with the event the receiver has
\* taken and not yet counted.
THEOREM BacklogReadIsRight == Spec => []BacklogReadIsQueueLength
  <1>1. Init => CounterInv
    BY InitTyped, CountedInit DEF CounterInv
  <1>2. CounterInv /\ [Next]_vars => CounterInv'
    BY TypeStep, CountedStep DEF CounterInv
  <1>3. CounterInv => BacklogReadIsQueueLength
    <2> SUFFICES ASSUME CounterInv, NEW s \in Lossless, job.pc = "len",
                        Head(job.todo) = s, handle[s] = "open"
                 PROVE  backlog[s] = Len(chan[s]) + Len(Held(s))
      BY DEF BacklogReadIsQueueLength
    <2>1. backlog[s] = Len(chan[s]) + Len(Held(s)) - Uncounted(s) /\ Uncounted(s) = 0
      BY DEF CounterInv, Counted, CountedAt, Uncounted
    <2>2. Len(chan[s]) \in Nat /\ Len(Held(s)) \in Nat
      BY BusAssumption DEF CounterInv, TypeOK, Held, BusAssumption
    <2> QED
      BY <2>1, <2>2
  <1> QED
    BY <1>1, <1>2, <1>3, PTL DEF Spec
-----------------------------------------------------------------------------
(* The log of each route.                                                  *)

Sends(i, op, s) == cmds[i].op = op /\ cmds[i].sub = s
Asked(s) == \E i \in DOMAIN cmds : Sends(i, "subscribe", s)
AskedOnce(s) ==
    \A i, j \in DOMAIN cmds : Sends(i, "subscribe", s) /\ Sends(j, "subscribe", s) => i = j
Leaving(s) == \E i \in DOMAIN cmds : Sends(i, "unsubscribe", s)
Todo == IF job.pc = "recv" THEN {} ELSE Members(job.todo)

\* A subscriber is registered once, after it asked for it once; while it has not been
\* dropped it stays registered, and nothing reaches it before.
SubKept(s) ==
    /\ handle[s] = "none" => ~Asked(s) /\ ~Registered(s)
    /\ Asked(s) => ~Registered(s)
    /\ AskedOnce(s)
    /\ Leaving(s) => handle[s] \in {"dropping", "gone"}
    /\ handle[s] \in {"none", "open"} /\ ~Registered(s) =>
          chan[s] = <<>> /\ hand[s] = NoEvent /\ got[s] = <<>>
    /\ handle[s] \in {"none", "open"} /\ s \in Todo => Registered(s)

RegKept ==
    \A r \in Routes : NoRepeat(subscriptions[r])
                      /\ \A s \in Members(subscriptions[r]) : RouteOf[s] = r

\* A fan-out is of the last event of its route.
JobKept ==
    job.pc # "recv" =>
       /\ NoRepeat(job.todo) /\ \A s \in Members(job.todo) : RouteOf[s] = job.route
       /\ routed[job.route] # <<>> /\ job.event = routed[job.route][Len(routed[job.route])]

\* Publishers' events keep their order from the command channel to the logs.
Before(e, f) == e[1] = f[1] => e[2] < f[2]
Publishes(i) == cmds[i].op = "publish"

OrderKept ==
    /\ \A i \in DOMAIN cmds : Publishes(i) => cmds[i].event[2] <= published[cmds[i].event[1]]
    /\ \A i, j \in DOMAIN cmds :
          i < j /\ Publishes(i) /\ Publishes(j) => Before(cmds[i].event, cmds[j].event)
    /\ \A r \in Routes : \A k \in DOMAIN routed[r] :
          /\ routed[r][k][2] <= published[routed[r][k][1]]
          /\ \A i \in DOMAIN cmds : Publishes(i) => Before(routed[r][k], cmds[i].event)
          /\ \A m \in DOMAIN routed[r] : k < m => Before(routed[r][k], routed[r][m])

\* The fan-out has not come to s yet.
Owed(s) == s \in Todo /\ (job.pc = "send" \/ s # Head(job.todo))
Given(s) == Len(routed[RouteOf[s]]) - IF Owed(s) THEN 1 ELSE 0

\* A lossless subscriber has been given all of the log since it was registered.
Base(s) == since[s] + Len(got[s]) + Len(Held(s))

LosslessFed(s) ==
    LET l == routed[RouteOf[s]] IN
    /\ Base(s) + Len(chan[s]) = Given(s)
    /\ \A k \in DOMAIN chan[s] : chan[s][k] = l[Base(s) + k]
    /\ hand[s] # NoEvent => hand[s] = l[Base(s)]

\* A lossy one has in its channel some of the log after what it read, in order.
Reached(s) ==
    IF got[s] = <<>> THEN since[s]
    ELSE CHOOSE i \in DOMAIN routed[RouteOf[s]] : routed[RouteOf[s]][i] = got[s][Len(got[s])]

LossyFed(s) ==
    LET l == routed[RouteOf[s]] IN
    /\ hand[s] = NoEvent
    /\ got[s] # <<>> => got[s][Len(got[s])] \in Members(l)
    /\ Reached(s) <= Given(s)
    /\ \A k \in DOMAIN chan[s] :
          /\ chan[s][k] \in Members(l)
          /\ \A i \in DOMAIN l : l[i] = chan[s][k] => Reached(s) < i /\ i <= Given(s)
          /\ \A m \in DOMAIN chan[s], i, j \in DOMAIN l :
                k < m /\ l[i] = chan[s][k] /\ l[j] = chan[s][m] => i < j

In(s) == handle[s] = "open" /\ Registered(s)

Fed(s) == In(s) => IF s \in Lossless THEN LosslessFed(s) ELSE LossyFed(s)

\* What a send to the command channel and a receive from it do to its places.
LEMMA CommandSent ==
  ASSUME TypeOK, NEW c \in Command, cmds' = Append(cmds, c)
  PROVE  /\ Len(cmds) \in Nat /\ DOMAIN cmds = 1 .. Len(cmds)
         /\ DOMAIN cmds' = 1 .. Len(cmds) + 1
         /\ cmds'[Len(cmds) + 1] = c
         /\ \A i \in DOMAIN cmds : i \in DOMAIN cmds' /\ cmds'[i] = cmds[i]
  BY DEF TypeOK

LEMMA CommandTaken ==
  ASSUME TypeOK, cmds # <<>>, cmds' = Tail(cmds)
  PROVE  /\ Len(cmds) \in Nat \ {0} /\ DOMAIN cmds = 1 .. Len(cmds)
         /\ DOMAIN cmds' = 1 .. Len(cmds) - 1
         /\ 1 \in DOMAIN cmds /\ cmds[1] = Head(cmds)
         /\ \A i \in DOMAIN cmds' : i \in Nat \ {0} /\ i + 1 \in DOMAIN cmds /\ cmds'[i] = cmds[i + 1]
  BY DEF TypeOK

LEMMA PublishedTyped ==
  ASSUME TypeOK
  PROVE  /\ \A e \in Event : e[1] \in Publishers /\ e[2] \in Nat /\ published[e[1]] \in Nat
         /\ \A i \in DOMAIN cmds : Publishes(i) => cmds[i].event \in Event
         /\ \A r \in Routes : \A k \in DOMAIN routed[r] : routed[r][k] \in Event
  <1>1. \A e \in Event : e[1] \in Publishers /\ e[2] \in Nat /\ published[e[1]] \in Nat
    BY BusAssumption DEF TypeOK, Event
  <1>2. \A i \in DOMAIN cmds : cmds[i] \in Command
    BY DEF TypeOK
  <1>3. \A i \in DOMAIN cmds : Publishes(i) => cmds[i].event \in Event
    BY <1>2 DEF Publishes, Command
  <1>4. \A r \in Routes : \A k \in DOMAIN routed[r] : routed[r][k] \in Event
    BY DEF TypeOK
  <1> QED
    BY <1>1, <1>3, <1>4

\* Any step that sends no publication and takes none.
LEMMA OrderAside ==
  ASSUME TypeOK, OrderKept, UNCHANGED <<published, routed>>,
         \/ UNCHANGED cmds
         \/ \E c \in Command : c.op # "publish" /\ cmds' = Append(cmds, c)
         \/ cmds # <<>> /\ cmds' = Tail(cmds)
  PROVE  OrderKept'
  <1>1. CASE UNCHANGED cmds
    BY <1>1 DEF OrderKept, Publishes
  <1>2. ASSUME NEW c \in Command, c.op # "publish", cmds' = Append(cmds, c) PROVE OrderKept'
    <2>1. \A i \in DOMAIN cmds' : Publishes(i)' => i \in DOMAIN cmds /\ Publishes(i) /\ cmds'[i] = cmds[i]
      BY <1>2, CommandSent DEF Publishes
    <2> QED
      BY ONLY OrderKept, UNCHANGED <<published, routed>>, <2>1 DEF OrderKept
  <1>3. CASE cmds # <<>> /\ cmds' = Tail(cmds)
    <2>1. \A i \in DOMAIN cmds' : i \in Nat \ {0} /\ i + 1 \in DOMAIN cmds /\ cmds'[i] = cmds[i + 1]
      BY <1>3, CommandTaken
    <2>2. \A i \in DOMAIN cmds' : Publishes(i)' => Publishes(i + 1)
      BY ONLY <2>1 DEF Publishes
    <2> QED
      BY ONLY OrderKept, UNCHANGED <<published, routed>>, <2>1, <2>2 DEF OrderKept
  <1> QED
    BY <1>1, <1>2, <1>3

LEMMA OrderPublish ==
  ASSUME TypeOK, OrderKept, NEW p \in Publishers, NEW r \in Routes, Publish(p, r)
  PROVE  OrderKept'
  <1>0. published[p] + 1 \in 1 .. MaxPublish
    BY BusAssumption DEF TypeOK, Publish
  <1>1. PICK e \in Event : e = <<p, published[p] + 1>>
    BY <1>0 DEF Event
  <1>a. PICK c : c = [op |-> "publish", route |-> r, event |-> e]
    OBVIOUS
  <1>b. c \in Command /\ cmds' = Append(cmds, c)
    BY <1>1, <1>a DEF Publish, SendCommand, Command
  <1>2. e[1] = p /\ e[2] = published[p] + 1 /\ c.op = "publish" /\ c.event = e
    BY <1>1, <1>a
  <1>3. published' = [published EXCEPT ![p] = @ + 1] /\ routed' = routed
    BY DEF Publish
  <1>4. \A q \in Publishers : published[q] \in Nat /\ published'[q] = IF q = p THEN published[q] + 1 ELSE published[q]
    BY <1>3 DEF TypeOK
  <1> DEFINE n == Len(cmds) + 1
  <1>5. /\ n \in Nat /\ n \in DOMAIN cmds' /\ cmds'[n] = c
        /\ \A i \in DOMAIN cmds' : i # n => i \in DOMAIN cmds /\ cmds'[i] = cmds[i]
        /\ \A i \in DOMAIN cmds' : i \in Nat /\ i <= n
    BY <1>b, CommandSent
  <1> HIDE DEF n
  <1>6. \A i \in DOMAIN cmds' : i # n => Publishes(i)' = Publishes(i)
    BY <1>5 DEF Publishes
  <1>7. \A f \in Event : f[2] <= published[f[1]] => f[2] <= published'[f[1]] /\ Before(f, e)
    BY <1>2, <1>4, PublishedTyped DEF Before
  <1>8. e[2] <= published'[e[1]]
    BY <1>2, <1>4
  <1>9. \A i \in DOMAIN cmds' : Publishes(i)' => cmds'[i].event[2] <= published'[cmds'[i].event[1]]
    BY <1>2, <1>5, <1>6, <1>7, <1>8, PublishedTyped DEF OrderKept
  <1>10. ASSUME NEW i \in DOMAIN cmds', NEW j \in DOMAIN cmds', i < j, Publishes(i)', Publishes(j)'
         PROVE  Before(cmds'[i].event, cmds'[j].event)
    <2>1. i # n /\ i \in DOMAIN cmds /\ Publishes(i) /\ cmds'[i] = cmds[i]
      BY <1>5, <1>6, <1>10
    <2>2. CASE j = n
      BY <1>2, <1>5, <1>7, <2>1, <2>2, PublishedTyped DEF OrderKept
    <2>3. CASE j # n
      BY <1>5, <1>6, <1>10, <2>1, <2>3 DEF OrderKept
    <2> QED
      BY <2>2, <2>3
  <1>11. ASSUME NEW q \in Routes, NEW k \in DOMAIN routed[q]
         PROVE  /\ routed[q][k][2] <= published'[routed[q][k][1]]
                /\ \A i \in DOMAIN cmds' : Publishes(i)' => Before(routed[q][k], cmds'[i].event)
                /\ \A m \in DOMAIN routed[q] : k < m => Before(routed[q][k], routed[q][m])
    <2>1. routed[q][k] \in Event /\ routed[q][k][2] <= published[routed[q][k][1]]
      BY PublishedTyped DEF OrderKept
    <2>2. \A i \in DOMAIN cmds' : Publishes(i)' => Before(routed[q][k], cmds'[i].event)
      BY <1>2, <1>5, <1>6, <1>7, <2>1 DEF OrderKept
    <2> QED
      BY <1>7, <2>1, <2>2 DEF OrderKept
  <1> QED
    BY <1>3, <1>9, <1>10, <1>11 DEF OrderKept
\* The event the broker takes goes after everything its publisher has in a log.
LEMMA OrderBrokerPublish ==
  ASSUME TypeOK, OrderKept, BrokerPublish
  PROVE  OrderKept'
  <1>1. cmds # <<>> /\ cmds' = Tail(cmds) /\ Head(cmds).op = "publish" /\ published' = published
    BY DEF BrokerPublish
  <1>2. PICK r \in Routes, e \in Event : r = Head(cmds).route /\ e = Head(cmds).event
    BY <1>1, CommandTyped
  <1>3. routed' = [routed EXCEPT ![r] = Append(routed[r], e)]
    BY <1>2 DEF BrokerPublish
  <1>4. /\ 1 \in DOMAIN cmds /\ Publishes(1) /\ cmds[1].event = e
        /\ \A i \in DOMAIN cmds' : i \in Nat /\ 1 < i + 1 /\ i + 1 \in DOMAIN cmds /\ cmds'[i] = cmds[i + 1]
    BY <1>1, <1>2, CommandTaken DEF Publishes
  <1>5. \A i \in DOMAIN cmds' : Publishes(i)' => Publishes(i + 1)
    BY ONLY <1>4 DEF Publishes
  <1>6. /\ \A q \in Routes : q # r => routed'[q] = routed[q]
        /\ routed'[r] = Append(routed[r], e) /\ routed[r] \in Seq(Event)
    BY <1>3 DEF TypeOK
  <1> DEFINE n == Len(routed[r]) + 1
  <1>7. /\ DOMAIN routed'[r] = 1 .. n /\ n \in Nat /\ n \in DOMAIN routed'[r] /\ routed'[r][n] = e
        /\ \A k \in DOMAIN routed'[r] : k # n => k \in DOMAIN routed[r] /\ routed'[r][k] = routed[r][k]
    BY <1>6
  <1> HIDE DEF n
  <1>8. \A q \in Routes : \A k \in DOMAIN routed'[q] :
            \/ q = r /\ k = n /\ routed'[q][k] = e
            \/ k \in DOMAIN routed[q] /\ routed'[q][k] = routed[q][k]
    BY <1>6, <1>7
  <1>9. \A q \in Routes : \A k \in DOMAIN routed[q] : Before(routed[q][k], e)
    BY <1>4 DEF OrderKept
  <1>10. e[2] <= published[e[1]] /\ \A i \in DOMAIN cmds' : Publishes(i)' => Before(e, cmds'[i].event)
    BY ONLY OrderKept, <1>4, <1>5 DEF OrderKept
  <1>11. /\ \A i \in DOMAIN cmds' : Publishes(i)' => cmds'[i].event[2] <= published[cmds'[i].event[1]]
         /\ \A i, j \in DOMAIN cmds' :
              i < j /\ Publishes(i)' /\ Publishes(j)' => Before(cmds'[i].event, cmds'[j].event)
    BY ONLY OrderKept, <1>4, <1>5 DEF OrderKept
  <1>12. ASSUME NEW q \in Routes, NEW k \in DOMAIN routed'[q]
         PROVE  /\ routed'[q][k][2] <= published[routed'[q][k][1]]
                /\ \A i \in DOMAIN cmds' : Publishes(i)' => Before(routed'[q][k], cmds'[i].event)
    BY <1>4, <1>5, <1>8, <1>10 DEF OrderKept
  <1>13. ASSUME NEW q \in Routes, NEW k \in DOMAIN routed'[q], NEW m \in DOMAIN routed'[q], k < m
         PROVE  Before(routed'[q][k], routed'[q][m])
    <2>1. CASE q = r
      <3>1. k # n
        BY <1>7, <1>13, <2>1
      <3>2. k \in DOMAIN routed[q] /\ routed'[q][k] = routed[q][k]
        BY <1>7, <2>1, <3>1
      <3> QED
        BY <1>7, <1>9, <1>13, <2>1, <3>2 DEF OrderKept
    <2>2. CASE q # r
      BY <1>6, <1>13, <2>2 DEF OrderKept
    <2> QED
      BY <2>1, <2>2
  <1> QED
    BY <1>1, <1>11, <1>12, <1>13 DEF OrderKept

LEMMA OrderStep == TypeOK /\ OrderKept /\ [Next]_vars => OrderKept'
  <1> SUFFICES ASSUME TypeOK, OrderKept, [Next]_vars PROVE OrderKept'
    OBVIOUS
  <1>1. ASSUME NEW p \in Publishers, NEW r \in Routes, Publish(p, r) PROVE OrderKept'
    BY <1>1, OrderPublish
  <1>2. CASE BrokerPublish
    BY <1>2, OrderBrokerPublish
  <1>3. ASSUME NEW s \in Subs, Subscribe(s) PROVE OrderKept'
    <2>1. PICK c : c = [op |-> "subscribe", sub |-> s]
      OBVIOUS
    <2>2. c \in Command /\ c.op # "publish" /\ cmds' = Append(cmds, c) /\ UNCHANGED <<published, routed>>
      BY <1>3, <2>1 DEF Subscribe, SendCommand, Command, history
    <2> QED
      BY <2>2, OrderAside
  <1>4. ASSUME NEW s \in Subs, DropSubscriber(s) PROVE OrderKept'
    <2>1. PICK c : c = [op |-> "unsubscribe", sub |-> s]
      OBVIOUS
    <2>2. c \in Command /\ c.op # "publish" /\ (UNCHANGED cmds \/ cmds' = Append(cmds, c))
          /\ UNCHANGED <<published, routed>>
      BY <1>4, <2>1 DEF DropSubscriber, Command, history
    <2> QED
      BY <2>2, OrderAside
  <1>5. CASE BrokerSubscribe \/ BrokerUnsubscribe
    <2>1. cmds # <<>> /\ cmds' = Tail(cmds) /\ UNCHANGED <<published, routed>>
      BY <1>5 DEF BrokerSubscribe, BrokerUnsubscribe, history
    <2> QED
      BY <2>1, OrderAside
  <1>6. CASE UNCHANGED <<cmds, published, routed>>
    BY <1>6, OrderAside
  <1>7. CASE \/ \E p \in Publishers : DropPublisher(p)
             \/ \E s \in Subs : RecvTake(s) \/ RecvCount(s) \/ CloseReceiver(s)
             \/ BrokerSendClosed \/ BrokerSendDropped \/ BrokerSend \/ BrokerAdd
             \/ BrokerRecordSent \/ BrokerExit \/ UNCHANGED vars
    <2>1. UNCHANGED <<cmds, published, routed>>
      BY <1>7 DEF DropPublisher, RecvTake, RecvCount, CloseReceiver, BrokerSendClosed,
                  BrokerSendDropped, BrokerSend, BrokerAdd, BrokerRecordSent, BrokerExit, vars, history
    <2> QED
      BY <2>1, <1>6
  <1> QED
    BY <1>1, <1>2, <1>3, <1>4, <1>5, <1>7 DEF Next, BrokerStep
-----------------------------------------------------------------------------
(* Who is registered.                                                     *)

LEMMA TailMembers ==
  ASSUME NEW S, NEW seq \in Seq(S), seq # <<>>, NoRepeat(seq)
  PROVE  NoRepeat(Tail(seq)) /\ Members(Tail(seq)) = Members(seq) \ {Head(seq)}
         /\ Head(seq) \in Members(seq)
  <1>1. /\ Len(seq) \in Nat \ {0} /\ DOMAIN seq = 1 .. Len(seq) /\ Head(seq) = seq[1]
        /\ DOMAIN Tail(seq) = 1 .. Len(seq) - 1
        /\ \A i \in 1 .. Len(seq) - 1 : Tail(seq)[i] = seq[i + 1]
    OBVIOUS
  <1>2. PICK t : t = Tail(seq)
    OBVIOUS
  <1>3. NoRepeat(t)
    BY ONLY <1>1, <1>2, NoRepeat(seq) DEF NoRepeat
  <1>4. Members(t) \subseteq Members(seq) \ {seq[1]}
    BY ONLY <1>1, <1>2, NoRepeat(seq) DEF NoRepeat, Members
  <1>5. ASSUME NEW x \in Members(seq), x # seq[1] PROVE x \in Members(t)
    <2>1. PICK i \in 1 .. Len(seq) : x = seq[i]
      BY <1>1 DEF Members
    <2>2. i - 1 \in DOMAIN t /\ t[i - 1] = x
      BY ONLY <1>1, <1>2, <1>5, <2>1
    <2> QED
      BY <2>2 DEF Members
  <1>6. Head(seq) \in Members(seq)
    BY <1>1 DEF Members
  <1>7. Members(t) = Members(seq) \ {Head(seq)}
    BY ONLY <1>1, <1>4, <1>5
  <1> QED
    BY <1>2, <1>3, <1>6, <1>7

LEMMA RegisteredIs == \A s \in Subs : Registered(s) <=> s \in Members(subscriptions[RouteOf[s]])
  BY DEF Registered, Members

\* The step sends no such command of s.
SendsNo(op, s) ==
    \/ UNCHANGED cmds
    \/ cmds # <<>> /\ cmds' = Tail(cmds)
    \/ \E c \in Command : cmds' = Append(cmds, c) /\ (c.op # op \/ c.sub # s)

LEMMA CommandsKept ==
  ASSUME TypeOK, NEW s \in Subs, NEW op, SendsNo(op, s)
  PROVE  /\ \A i \in DOMAIN cmds' : Sends(i, op, s)' => \E k \in DOMAIN cmds : Sends(k, op, s)
         /\ (\A i, j \in DOMAIN cmds : Sends(i, op, s) /\ Sends(j, op, s) => i = j) =>
            (\A i, j \in DOMAIN cmds' : Sends(i, op, s)' /\ Sends(j, op, s)' => i = j)
  <1>1. CASE UNCHANGED cmds
    BY <1>1 DEF Sends
  <1>2. ASSUME NEW c \in Command, cmds' = Append(cmds, c), c.op # op \/ c.sub # s
        PROVE \A i \in DOMAIN cmds' : Sends(i, op, s)' => i \in DOMAIN cmds /\ Sends(i, op, s)
    <2>1. \A i \in DOMAIN cmds' : cmds'[i] = c \/ (i \in DOMAIN cmds /\ cmds'[i] = cmds[i])
      BY <1>2, CommandSent
    <2> QED
      BY ONLY <1>2, <2>1 DEF Sends
  <1>3. CASE cmds # <<>> /\ cmds' = Tail(cmds)
    <2>1. \A i \in DOMAIN cmds' : i \in Nat \ {0} /\ i + 1 \in DOMAIN cmds /\ cmds'[i] = cmds[i + 1]
      BY <1>3, CommandTaken
    <2> QED
      BY ONLY <2>1 DEF Sends
  <1> QED
    BY <1>1, <1>2, <1>3 DEF SendsNo

LEMMA NotAsked ==
  ASSUME TypeOK, NEW s \in Subs, SendsNo("subscribe", s)
  PROVE  (Asked(s)' => Asked(s)) /\ (AskedOnce(s) => AskedOnce(s)')
  BY CommandsKept DEF Asked, AskedOnce

LEMMA NotLeaving ==
  ASSUME TypeOK, NEW s \in Subs, SendsNo("unsubscribe", s)
  PROVE  Leaving(s)' => Leaving(s)
  BY CommandsKept DEF Leaving

\* A step that is not about s.
LEMMA SubAside ==
  ASSUME TypeOK, NEW s \in Subs, SubKept(s), SendsNo("subscribe", s), SendsNo("unsubscribe", s),
         handle'[s] = handle[s], Registered(s)' = Registered(s),
         handle[s] \in {"none", "open"} /\ ~Registered(s) =>
             chan'[s] = chan[s] /\ hand'[s] = hand[s] /\ got'[s] = got[s],
         s \in Todo' => s \in Todo \/ Registered(s)
  PROVE  SubKept(s)'
  BY NotAsked, NotLeaving DEF SubKept

\* A subscriber that is being dropped, or is gone.
LEMMA SubLeft ==
  ASSUME TypeOK, NEW s \in Subs, SubKept(s), SendsNo("subscribe", s),
         handle'[s] \in {"dropping", "gone"}, Registered(s)' => Registered(s)
  PROVE  SubKept(s)'
  BY NotAsked DEF SubKept

RegInv == TypeOK /\ RegKept /\ JobKept /\ \A s \in Subs : SubKept(s)

\* The fan-out goes on: one subscriber fewer is left.
LEMMA TodoNext ==
  ASSUME TypeOK, JobKept, job.pc # "recv", job' = NextTodo, routed' = routed
  PROVE  Todo' = Todo \ {Head(job.todo)} /\ Head(job.todo) \in Todo /\ JobKept'
         /\ (job'.pc = "recv" \/ (job'.pc = "send" /\ job'.route = job.route /\ job'.event = job.event))
  <1>1. /\ job.todo \in Seq(Subs) /\ job.todo # <<>> /\ NoRepeat(job.todo)
    BY JobTyped DEF JobKept
  <1>2. NoRepeat(Tail(job.todo)) /\ Members(Tail(job.todo)) = Members(job.todo) \ {Head(job.todo)}
        /\ Head(job.todo) \in Members(job.todo)
    BY <1>1, TailMembers
  <1>3. Todo = Members(job.todo)
    BY DEF Todo
  <1>4. CASE NextTodo = Idle /\ Tail(job.todo) = <<>>
    <2>1. job'.pc = "recv" /\ Todo' = {}
      BY <1>4 DEF Idle, Todo
    <2>2. Members(<<>>) = {}
      BY DEF Members
    <2> QED
      BY <1>2, <1>3, <1>4, <2>1, <2>2 DEF JobKept
  <1>5. CASE /\ NextTodo.pc = "send" /\ NextTodo.todo = Tail(job.todo)
             /\ NextTodo.route = job.route /\ NextTodo.event = job.event
    <2>1. job'.pc = "send" /\ job'.todo = Tail(job.todo) /\ job'.route = job.route /\ job'.event = job.event
      BY <1>5
    <2>2. Todo' = Members(Tail(job.todo))
      BY <2>1 DEF Todo
    <2>3. JobKept'
      BY <1>2, <2>1 DEF JobKept
    <2> QED
      BY <1>2, <1>3, <2>1, <2>2, <2>3
  <1> QED
    BY <1>4, <1>5, NextTodoTyped
\* Registration and the fan-out are the broker's: a handle's step leaves them alone.
LEMMA RegHandles ==
  ASSUME RegInv, TypeOK', UNCHANGED <<subscriptions, job, routed>>,
         \A s \in Subs : SubKept(s)'
  PROVE  RegInv'
  BY DEF RegInv, RegKept, JobKept

LEMMA RegisteredStays ==
  ASSUME NEW s \in Subs, UNCHANGED <<subscriptions, job>>
  PROVE  Registered(s)' = Registered(s) /\ Todo' = Todo
  BY DEF Registered, Todo, Members

LEMMA RegPublish ==
  ASSUME RegInv, TypeOK', NEW p \in Publishers, NEW r \in Routes, Publish(p, r)
  PROVE  RegInv'
  <1>1. PICK c : c = [op |-> "publish", route |-> r, event |-> <<p, published[p] + 1>>]
    OBVIOUS
  <1>2. published[p] + 1 \in 1 .. MaxPublish
    BY BusAssumption DEF Publish, RegInv, TypeOK
  <1>3. c \in Command /\ c.op = "publish" /\ cmds' = Append(cmds, c)
    BY <1>1, <1>2 DEF Publish, SendCommand, Command, Event
  <1>4. UNCHANGED <<subscriptions, job, routed, handle, chan, hand, got>>
    BY DEF Publish, broker
  <1>5. ASSUME NEW s \in Subs PROVE SubKept(s)'
    BY <1>3, <1>4, SubAside, RegisteredStays DEF RegInv, SendsNo
  <1> QED
    BY <1>4, <1>5, RegHandles

LEMMA RegSubscribe ==
  ASSUME RegInv, TypeOK', NEW t \in Subs, Subscribe(t)
  PROVE  RegInv'
  <1>1. PICK c : c = [op |-> "subscribe", sub |-> t]
    OBVIOUS
  <1>2. c \in Command /\ c.op = "subscribe" /\ c.sub = t /\ cmds' = Append(cmds, c)
    BY <1>1 DEF Subscribe, SendCommand, Command
  <1>3. UNCHANGED <<subscriptions, job, routed, chan, hand, got>> /\ handle[t] = "none"
        /\ handle' = [handle EXCEPT ![t] = "open"]
    BY DEF Subscribe, broker, history
  <1>4. TypeOK /\ handle \in [Subs -> {"none", "open", "dropping", "gone"}]
    BY DEF RegInv, TypeOK
  <1>5. ASSUME NEW s \in Subs, s # t PROVE SubKept(s)'
    <2>1. handle'[s] = handle[s]
      BY <1>3, <1>4, <1>5
    <2> QED
      BY <1>2, <1>3, <1>5, <2>1, SubAside, RegisteredStays DEF RegInv, SendsNo
  <1>6. SubKept(t)'
    <2>1. SubKept(t) /\ ~Asked(t) /\ ~Registered(t) /\ ~Leaving(t)
      BY <1>3 DEF RegInv, SubKept
    <2>2. ~Registered(t)' /\ Todo' = Todo /\ handle'[t] = "open"
      BY <1>3, <1>4, <2>1, RegisteredStays
    <2>3. ~Leaving(t)'
      BY <1>2, <1>4, <2>1, NotLeaving DEF SendsNo
    <2>4. AskedOnce(t)'
      <3>1. \A i \in DOMAIN cmds' : i = Len(cmds) + 1 \/ (i \in DOMAIN cmds /\ cmds'[i] = cmds[i])
        BY <1>2, <1>4, CommandSent
      <3> QED
        BY ONLY <2>1, <3>1 DEF Asked, AskedOnce, Sends
    <2> QED
      BY <1>3, <2>1, <2>2, <2>3, <2>4 DEF SubKept
  <1> QED
    BY <1>3, <1>5, <1>6, RegHandles
LEMMA RegLeave ==
  ASSUME RegInv, TypeOK', NEW t \in Subs, DropSubscriber(t) \/ CloseReceiver(t)
  PROVE  RegInv'
  <1>1. PICK c : c = [op |-> "unsubscribe", sub |-> t]
    OBVIOUS
  <1>2. c \in Command /\ c.op = "unsubscribe" /\ c.sub = t /\ (UNCHANGED cmds \/ cmds' = Append(cmds, c))
    BY <1>1 DEF DropSubscriber, CloseReceiver, Command
  <1>3. /\ UNCHANGED <<subscriptions, job, routed, hand, got>>
        /\ handle'[t] \in {"dropping", "gone"}
        /\ \A s \in Subs : s # t => handle'[s] = handle[s] /\ chan'[s] = chan[s]
    BY DEF DropSubscriber, CloseReceiver, broker, history, RegInv, TypeOK
  <1>4. ASSUME NEW s \in Subs PROVE SubKept(s)'
    <2>0. TypeOK /\ SubKept(s) /\ Registered(s)' = Registered(s) /\ Todo' = Todo
      BY <1>3, RegisteredStays DEF RegInv
    <2>1. SendsNo("subscribe", s)
      BY <1>2 DEF SendsNo
    <2>2. CASE s = t
      BY <1>3, <2>0, <2>1, <2>2, SubLeft
    <2>3. CASE s # t
      <3>1. SendsNo("unsubscribe", s)
        BY <1>2, <2>3 DEF SendsNo
      <3> QED
        BY <1>3, <2>0, <2>1, <2>3, <3>1, SubAside
    <2> QED
      BY <2>2, <2>3
  <1> QED
    BY <1>3, <1>4, RegHandles

\* A receiver takes only what was sent to it.
LEMMA RegReceive ==
  ASSUME RegInv, TypeOK', NEW t \in Subs, RecvTake(t) \/ RecvCount(t)
  PROVE  RegInv'
  <1>1. UNCHANGED <<cmds, subscriptions, job, routed, handle>>
    BY DEF RecvTake, RecvCount, broker
  <1>2. \A s \in Subs : s # t => chan'[s] = chan[s] /\ hand'[s] = hand[s] /\ got'[s] = got[s]
    BY ZenonT(60) DEF RecvTake, RecvCount, RegInv, TypeOK
  <1>3. handle[t] \in {"none", "open"} => Registered(t)
    BY DEF RecvTake, RecvCount, RegInv, SubKept
  <1>4. ASSUME NEW s \in Subs PROVE SubKept(s)'
    BY <1>1, <1>2, <1>3, SubAside, RegisteredStays DEF RegInv, SendsNo
  <1> QED
    BY <1>1, <1>4, RegHandles

LEMMA RegUntouched ==
  ASSUME RegInv, TypeOK', UNCHANGED <<cmds, subscriptions, job, routed, handle, chan, hand, got>>
  PROVE  RegInv'
  <1>1. ASSUME NEW s \in Subs PROVE SubKept(s)'
    BY SubAside, RegisteredStays DEF RegInv, SendsNo
  <1> QED
    BY <1>1, RegHandles

LEMMA RegBrokerPublish ==
  ASSUME RegInv, TypeOK', BrokerPublish
  PROVE  RegInv' /\ Todo = {} /\ Todo' = Members(subscriptions[Head(cmds).route])
  <1>0. TypeOK /\ RegKept
    BY DEF RegInv
  <1>1. cmds # <<>> /\ cmds' = Tail(cmds) /\ Head(cmds).op = "publish"
        /\ UNCHANGED <<subscriptions, handle, chan, hand, got>> /\ job = Idle
    BY DEF BrokerPublish
  <1>2. PICK r \in Routes, e \in Event : r = Head(cmds).route /\ e = Head(cmds).event
    BY <1>0, <1>1, CommandTyped
  <1>3. routed' = [routed EXCEPT ![r] = Append(routed[r], e)]
        /\ job' = IF subscriptions[r] = <<>> THEN Idle
                   ELSE [pc |-> "send", todo |-> subscriptions[r], route |-> r, event |-> e]
    BY <1>2 DEF BrokerPublish
  <1>4. routed[r] \in Seq(Event) /\ routed'[r] = Append(routed[r], e)
    BY <1>0, <1>3 DEF TypeOK
  <1>5. routed'[r] # <<>> /\ e = routed'[r][Len(routed'[r])]
    BY <1>4
  <1>6. RegKept'
    BY <1>0, <1>1 DEF RegKept
  <1>7. Todo = {}
    BY <1>1 DEF Todo, Idle
  <1>10. JobKept' /\ Todo' = Members(subscriptions[r])
    <2>8. CASE subscriptions[r] = <<>>
      <3>1. job' = Idle
        BY <1>3, <2>8
      <3>2. JobKept' /\ Todo' = {} /\ Members(subscriptions[r]) = {}
        BY <2>8, <3>1 DEF JobKept, Idle, Todo, Members
      <3> QED
        BY <3>2
    <2>9. CASE subscriptions[r] # <<>>
      <3>1. job'.pc = "send" /\ job'.todo = subscriptions[r] /\ job'.route = r /\ job'.event = e
        BY <1>3, <2>9
      <3>2. Todo' = Members(subscriptions[r])
        BY <3>1 DEF Todo
      <3>3. JobKept'
        BY <1>0, <1>5, <3>1 DEF JobKept, RegKept
      <3> QED
        BY <3>2, <3>3
    <2> QED
      BY <2>8, <2>9
  <1>11. ASSUME NEW s \in Subs PROVE SubKept(s)'
    <2>1. s \in Todo' => Registered(s)
      BY <1>0, <1>10, RegisteredIs DEF RegKept
    <2>2. Registered(s)' = Registered(s)
      BY <1>1 DEF Registered
    <2>3. SendsNo("subscribe", s) /\ SendsNo("unsubscribe", s) /\ SubKept(s)
      BY <1>1 DEF SendsNo, RegInv
    <2> QED
      BY <1>0, <1>1, <2>1, <2>2, <2>3, SubAside
  <1> QED
    BY <1>2, <1>6, <1>7, <1>10, <1>11 DEF RegInv

LEMMA RegBrokerSubscribe ==
  ASSUME RegInv, TypeOK', BrokerSubscribe
  PROVE  RegInv' /\ UNCHANGED job
  <1>0. TypeOK /\ RegKept
    BY DEF RegInv
  <1>1. cmds # <<>> /\ cmds' = Tail(cmds) /\ Head(cmds).op = "subscribe"
        /\ UNCHANGED <<handle, chan, hand, got, job, routed>>
    BY DEF BrokerSubscribe
  <1>2. PICK t \in Subs : t = Head(cmds).sub
    BY <1>0, <1>1, CommandTyped
  <1>3. PICK r \in Routes : r = RouteOf[t]
    BY BusAssumption
  <1>4. subscriptions' = [subscriptions EXCEPT ![r] = Append(subscriptions[r], t)]
    BY <1>2, <1>3 DEF BrokerSubscribe
  <1>5. subscriptions[r] \in Seq(Subs) /\ subscriptions'[r] = Append(subscriptions[r], t)
        /\ \A q \in Routes : q # r => subscriptions'[q] = subscriptions[q]
    BY <1>0, <1>4 DEF TypeOK
  <1>6. SubKept(t) /\ Asked(t) /\ ~Registered(t)
    <2>1. Asked(t)
      BY <1>0, <1>1, <1>2, CommandTaken DEF Asked, Sends
    <2> QED
      BY <2>1 DEF RegInv, SubKept
  <1>7. t \notin Members(subscriptions[r])
    BY <1>3, <1>6, RegisteredIs
  <1>8. NoRepeat(subscriptions'[r]) /\ Members(subscriptions'[r]) = Members(subscriptions[r]) \cup {t}
    BY <1>0, <1>5, <1>7, AppendMember DEF RegKept
  <1>9. RegKept'
    BY <1>0, <1>3, <1>5, <1>8 DEF RegKept
  <1>10. JobKept'
    BY <1>1 DEF RegInv, JobKept
  <1>11. \A s \in Subs : s # t => Registered(s)' = Registered(s)
    <2>1. \A s \in Subs : Registered(s)' <=> s \in Members(subscriptions'[RouteOf[s]])
      BY DEF Registered, Members
    <2>2. \A s \in Subs : RouteOf[s] \in Routes
      BY BusAssumption
    <2>3. ASSUME NEW s \in Subs, s # t
          PROVE  s \in Members(subscriptions'[RouteOf[s]]) <=> s \in Members(subscriptions[RouteOf[s]])
      <3>1. CASE RouteOf[s] = r
        BY ONLY <1>8, <2>3, <3>1
      <3>2. CASE RouteOf[s] # r
        BY ONLY <1>5, <2>2, <3>2
      <3> QED
        BY <3>1, <3>2
    <2> QED
      BY <2>1, <2>3, RegisteredIs DEF Registered
  <1>12. Registered(t)'
    <2>1. t \in Members(subscriptions'[RouteOf[t]])
      BY <1>3, <1>8
    <2> QED
      BY <2>1 DEF Registered, Members
  <1>13. ASSUME NEW s \in Subs, s # t PROVE SubKept(s)'
    <2>1. SendsNo("subscribe", s) /\ SendsNo("unsubscribe", s) /\ SubKept(s) /\ Registered(s)' = Registered(s)
      BY <1>1, <1>11, <1>13 DEF SendsNo, RegInv
    <2>2. Todo' = Todo
      BY <1>1 DEF Todo
    <2> QED
      BY <1>0, <1>1, <2>1, <2>2, SubAside
  <1>14. SubKept(t)'
    <2>1. ~Asked(t)' /\ AskedOnce(t)'
      <3>1. \A i \in DOMAIN cmds' : i \in Nat \ {0} /\ i + 1 \in DOMAIN cmds /\ cmds'[i] = cmds[i + 1]
        BY <1>0, <1>1, CommandTaken
      <3>2. 1 \in DOMAIN cmds /\ Sends(1, "subscribe", t)
        BY <1>0, <1>1, <1>2, CommandTaken DEF Sends
      <3>3. \A i \in DOMAIN cmds' : Sends(i, "subscribe", t)' => Sends(i + 1, "subscribe", t)
        BY ONLY <3>1 DEF Sends
      <3>4. \A i \in DOMAIN cmds' : ~Sends(i, "subscribe", t)'
        <4>1. AskedOnce(t)
          BY <1>6 DEF SubKept
        <4>2. \A i \in DOMAIN cmds' : i + 1 # 1
          BY <3>1
        <4> QED
          BY ONLY <3>1, <3>2, <3>3, <4>1, <4>2 DEF AskedOnce
      <3> QED
        BY <3>4 DEF Asked, AskedOnce
    <2>2. Leaving(t)' => Leaving(t)
      BY <1>0, <1>1, NotLeaving DEF SendsNo
    <2>3. handle[t] # "none"
      BY <1>6 DEF SubKept
    <2> QED
      BY <1>1, <1>6, <1>12, <2>1, <2>2, <2>3 DEF SubKept
  <1> QED
    BY <1>1, <1>9, <1>10, <1>13, <1>14 DEF RegInv
\* retain on the route of t takes t out and nobody else.
LEMMA Pruned ==
  ASSUME TypeOK, RegKept, NEW t \in Subs, NEW r \in Routes, r = RouteOf[t],
         subscriptions' = [subscriptions EXCEPT ![r] = Without(subscriptions[r], t)]
  PROVE  RegKept' /\ ~Registered(t)' /\ \A s \in Subs : s # t => Registered(s)' = Registered(s)
  <1>1. subscriptions[r] \in Seq(Subs) /\ subscriptions'[r] = Without(subscriptions[r], t)
        /\ \A q \in Routes : q # r => subscriptions'[q] = subscriptions[q]
    BY DEF TypeOK
  <1>2. NoRepeat(subscriptions'[r]) /\ Members(subscriptions'[r]) = Members(subscriptions[r]) \ {t}
    BY <1>1, WithoutKeeps DEF RegKept
  <1>3. RegKept'
    BY <1>1, <1>2 DEF RegKept
  <1>4. \A s \in Subs : RouteOf[s] \in Routes /\ (Registered(s)' <=> s \in Members(subscriptions'[RouteOf[s]]))
    BY BusAssumption DEF Registered, Members
  <1>5. ASSUME NEW s \in Subs, s # t
        PROVE  s \in Members(subscriptions'[RouteOf[s]]) <=> s \in Members(subscriptions[RouteOf[s]])
    <2>1. CASE RouteOf[s] = r
      BY ONLY <1>2, <1>5, <2>1
    <2>2. CASE RouteOf[s] # r
      BY ONLY <1>1, <1>4, <2>2
    <2> QED
      BY <2>1, <2>2
  <1> QED
    BY <1>2, <1>3, <1>4, <1>5, RegisteredIs DEF Registered

LEMMA RegBrokerUnsubscribe ==
  ASSUME RegInv, TypeOK', BrokerUnsubscribe
  PROVE  /\ RegInv' /\ Todo' = Todo
         /\ \A s \in Subs : handle[s] = "open" => Registered(s)' = Registered(s)
  <1>0. TypeOK /\ RegKept
    BY DEF RegInv
  <1>1. cmds # <<>> /\ cmds' = Tail(cmds) /\ Head(cmds).op = "unsubscribe"
        /\ UNCHANGED <<handle, chan, hand, got, job, routed>>
    BY DEF BrokerUnsubscribe, history
  <1>2. PICK t \in Subs : t = Head(cmds).sub
    BY <1>0, <1>1, CommandTyped
  <1>3. PICK r \in Routes : r = RouteOf[t]
    BY BusAssumption
  <1>4. subscriptions' = [subscriptions EXCEPT ![r] = Without(subscriptions[r], t)]
    BY <1>2, <1>3 DEF BrokerUnsubscribe
  <1>5. RegKept' /\ ~Registered(t)' /\ \A s \in Subs : s # t => Registered(s)' = Registered(s)
    BY <1>0, <1>3, <1>4, Pruned
  <1>6. handle[t] \in {"dropping", "gone"}
    <2>1. Leaving(t)
      BY <1>0, <1>1, <1>2, CommandTaken DEF Leaving, Sends
    <2> QED
      BY <2>1 DEF RegInv, SubKept
  <1>7. JobKept' /\ Todo' = Todo
    BY <1>1 DEF RegInv, JobKept, Todo
  <1>8. ASSUME NEW s \in Subs PROVE SubKept(s)'
    <2>1. SendsNo("subscribe", s) /\ SendsNo("unsubscribe", s) /\ SubKept(s)
      BY <1>1 DEF SendsNo, RegInv
    <2>2. CASE s = t
      BY <1>0, <1>1, <1>5, <1>6, <2>1, <2>2, SubLeft
    <2>3. CASE s # t
      BY <1>0, <1>1, <1>5, <1>7, <2>1, <2>3, SubAside
    <2> QED
      BY <2>2, <2>3
  <1> QED
    BY <1>5, <1>6, <1>7, <1>8 DEF RegInv

LEMMA RegBrokerSendClosed ==
  ASSUME RegInv, TypeOK', BrokerSendClosed
  PROVE  /\ RegInv' /\ handle[Head(job.todo)] = "gone"
         /\ \A s \in Subs : handle[s] = "open" => Registered(s)' = Registered(s)
  <1>0. TypeOK /\ RegKept /\ JobKept
    BY DEF RegInv
  <1>1. job.pc # "recv" /\ job' = NextTodo /\ UNCHANGED <<cmds, handle, chan, hand, got, routed>>
        /\ handle[Head(job.todo)] = "gone"
        /\ subscriptions' = [subscriptions EXCEPT ![job.route] = Without(subscriptions[job.route], Head(job.todo))]
    BY DEF BrokerSendClosed, history
  <1>2. PICK t \in Subs, r \in Routes : t = Head(job.todo) /\ r = job.route
    BY <1>0, <1>1, JobTyped
  <1>3. Todo' = Todo \ {t} /\ t \in Todo /\ JobKept'
    BY <1>0, <1>1, <1>2, TodoNext
  <1>4. r = RouteOf[t]
    BY <1>0, <1>1, <1>2, <1>3 DEF JobKept, Todo
  <1>5. RegKept' /\ ~Registered(t)' /\ \A s \in Subs : s # t => Registered(s)' = Registered(s)
    BY <1>0, <1>1, <1>2, <1>4, Pruned
  <1>6. ASSUME NEW s \in Subs PROVE SubKept(s)'
    <2>1. SendsNo("subscribe", s) /\ SendsNo("unsubscribe", s) /\ SubKept(s)
      BY <1>1 DEF SendsNo, RegInv
    <2>2. CASE s = t
      BY <1>0, <1>1, <1>2, <1>5, <2>1, <2>2, SubLeft
    <2>3. CASE s # t
      BY <1>0, <1>1, <1>3, <1>5, <2>1, <2>3, SubAside
    <2> QED
      BY <2>2, <2>3
  <1> QED
    BY <1>1, <1>2, <1>3, <1>5, <1>6 DEF RegInv

LEMMA RegNextTodo ==
  ASSUME RegInv, TypeOK', BrokerSendDropped \/ BrokerRecordSent
  PROVE  RegInv'
  <1>0. TypeOK /\ RegKept /\ JobKept
    BY DEF RegInv
  <1>1. job.pc # "recv" /\ job' = NextTodo
        /\ UNCHANGED <<cmds, subscriptions, handle, chan, hand, got, routed>>
    BY DEF BrokerSendDropped, BrokerRecordSent, history
  <1>2. Todo' \subseteq Todo /\ JobKept'
    BY <1>0, <1>1, TodoNext
  <1>3. ASSUME NEW s \in Subs PROVE SubKept(s)'
    <2>1. SendsNo("subscribe", s) /\ SendsNo("unsubscribe", s) /\ SubKept(s)
      BY <1>1 DEF SendsNo, RegInv
    <2>2. Registered(s)' = Registered(s)
      BY <1>1 DEF Registered
    <2> QED
      BY <1>0, <1>1, <1>2, <2>1, <2>2, SubAside
  <1>4. RegKept'
    BY <1>0, <1>1 DEF RegKept
  <1> QED
    BY <1>2, <1>3, <1>4 DEF RegInv

\* The step keeps the fan-out at its subscriber.
LEMMA SameTodo ==
  ASSUME TypeOK, JobKept, job.pc # "recv", NEW p \in {"add", "len"},
         job' = [job EXCEPT !.pc = p], routed' = routed
  PROVE  Todo' = Todo /\ JobKept' /\ job'.pc = p /\ job'.todo = job.todo
         /\ job'.route = job.route /\ job'.event = job.event
  <1>1. job'.pc = p /\ job'.todo = job.todo /\ job'.route = job.route /\ job'.event = job.event
    BY JobTyped DEF Job
  <1> QED
    BY <1>1 DEF Todo, JobKept

LEMMA RegSameTodo ==
  ASSUME RegInv, TypeOK', BrokerSend \/ BrokerAdd
  PROVE  RegInv' /\ Todo' = Todo
  <1>0. TypeOK /\ RegKept /\ JobKept
    BY DEF RegInv
  <1>1. PICK p \in {"add", "len"} : job.pc # "recv" /\ job' = [job EXCEPT !.pc = p]
        /\ UNCHANGED <<cmds, subscriptions, handle, hand, got, routed>>
    BY DEF BrokerSend, BrokerAdd, history
  <1>2. Todo' = Todo /\ JobKept'
    BY <1>0, <1>1, SameTodo
  <1>3. PICK t \in Subs : t = Head(job.todo) /\ t \in Todo
    BY <1>0, <1>1, JobTyped DEF Todo, Members
  <1>4. \A s \in Subs : s # t => chan'[s] = chan[s]
    BY <1>0, <1>3 DEF BrokerSend, BrokerAdd, TypeOK
  <1>5. ASSUME NEW s \in Subs PROVE SubKept(s)'
    <2>1. SendsNo("subscribe", s) /\ SendsNo("unsubscribe", s) /\ SubKept(s)
      BY <1>1 DEF SendsNo, RegInv
    <2>2. Registered(s)' = Registered(s)
      BY <1>1 DEF Registered
    <2>3. handle[s] \in {"none", "open"} /\ ~Registered(s) => s # t
      BY <1>3, <2>1 DEF SubKept
    <2> QED
      BY <1>0, <1>1, <1>2, <1>4, <2>1, <2>2, <2>3, SubAside
  <1>6. RegKept'
    BY <1>0, <1>1 DEF RegKept
  <1> QED
    BY <1>2, <1>5, <1>6 DEF RegInv

LEMMA RegStep == RegInv /\ [Next]_vars => RegInv'
  <1> SUFFICES ASSUME RegInv, [Next]_vars PROVE RegInv'
    OBVIOUS
  <1>1. TypeOK'
    BY TypeStep DEF RegInv
  <1>2. ASSUME NEW p \in Publishers, NEW r \in Routes, Publish(p, r) PROVE RegInv'
    BY <1>1, <1>2, RegPublish
  <1>3. ASSUME NEW p \in Publishers, DropPublisher(p) PROVE RegInv'
    BY <1>1, <1>3, RegUntouched DEF DropPublisher, broker, history
  <1>4. ASSUME NEW s \in Subs,
               Subscribe(s) \/ RecvTake(s) \/ RecvCount(s) \/ DropSubscriber(s) \/ CloseReceiver(s)
        PROVE  RegInv'
    BY <1>1, <1>4, RegSubscribe, RegReceive, RegLeave
  <1>5. CASE BrokerPublish \/ BrokerSubscribe \/ BrokerUnsubscribe
    BY <1>1, <1>5, RegBrokerPublish, RegBrokerSubscribe, RegBrokerUnsubscribe
  <1>6. CASE BrokerSendClosed \/ BrokerSendDropped \/ BrokerRecordSent
    BY <1>1, <1>6, RegBrokerSendClosed, RegNextTodo
  <1>7. CASE BrokerSend \/ BrokerAdd
    BY <1>1, <1>7, RegSameTodo
  <1>8. CASE BrokerExit \/ UNCHANGED vars
    BY <1>1, <1>8, RegUntouched DEF BrokerExit, vars, broker, history
  <1> QED
    BY <1>2, <1>3, <1>4, <1>5, <1>6, <1>7, <1>8 DEF Next, BrokerStep
-----------------------------------------------------------------------------
(* What each subscriber has been given.                                    *)

\* No event is twice in a log.
LEMMA LogNoRepeat ==
  ASSUME NEW l \in Seq(Event), \A k, m \in DOMAIN l : k < m => Before(l[k], l[m])
  PROVE  NoRepeat(l)
  <1>1. DOMAIN l \subseteq Nat /\ \A k \in DOMAIN l : l[k] \in Event
    OBVIOUS
  <1>2. \A e \in Event : e[2] \in Nat
    BY BusAssumption DEF Event
  <1>3. ASSUME NEW k \in DOMAIN l, NEW m \in DOMAIN l, l[k] = l[m], k < m PROVE FALSE
    <2>1. Before(l[k], l[k]) /\ l[k][2] \in Nat
      BY <1>1, <1>2, <1>3
    <2> QED
      BY ONLY <2>1 DEF Before
  <1> QED
    BY <1>1, <1>3 DEF NoRepeat

\* The types behind what s was given.
LEMMA FedTyped ==
  ASSUME TypeOK, NEW s \in Subs
  PROVE  /\ RouteOf[s] \in Routes
         /\ routed[RouteOf[s]] \in Seq(Event) /\ Len(routed[RouteOf[s]]) \in Nat
         /\ DOMAIN routed[RouteOf[s]] = 1 .. Len(routed[RouteOf[s]])
         /\ chan[s] \in Seq(Event) /\ Len(chan[s]) \in Nat /\ DOMAIN chan[s] = 1 .. Len(chan[s])
         /\ got[s] \in Seq(Event) /\ Len(got[s]) \in Nat /\ since[s] \in Nat
         /\ hand[s] \in Event \cup {NoEvent}
         /\ hand[s] = NoEvent => Len(Held(s)) = 0
         /\ hand[s] # NoEvent => Len(Held(s)) = 1
         /\ Given(s) = Len(routed[RouteOf[s]]) - IF Owed(s) THEN 1 ELSE 0
         /\ Given(s) \in Int
  <1>1. RouteOf[s] \in Routes
    BY BusAssumption
  <1>2. routed[RouteOf[s]] \in Seq(Event) /\ chan[s] \in Seq(Event) /\ got[s] \in Seq(Event)
        /\ since[s] \in Nat /\ hand[s] \in Event \cup {NoEvent}
    BY <1>1 DEF TypeOK
  <1>3. (hand[s] = NoEvent => Len(Held(s)) = 0) /\ (hand[s] # NoEvent => Len(Held(s)) = 1)
    BY DEF Held
  <1>4. Len(routed[RouteOf[s]]) \in Nat /\ Len(chan[s]) \in Nat /\ Len(got[s]) \in Nat
        /\ DOMAIN routed[RouteOf[s]] = 1 .. Len(routed[RouteOf[s]]) /\ DOMAIN chan[s] = 1 .. Len(chan[s])
    BY <1>2
  <1>5. Given(s) = Len(routed[RouteOf[s]]) - (IF Owed(s) THEN 1 ELSE 0) /\ Given(s) \in Int
    BY <1>4 DEF Given
  <1> QED
    BY <1>1, <1>2, <1>3, <1>4, <1>5

\* What the fan-out owes s is one event at most.
LEMMA GivenIs ==
  ASSUME TypeOK, NEW s \in Subs
  PROVE  (Owed(s) => Given(s) = Len(routed[RouteOf[s]]) - 1) /\ (~Owed(s) => Given(s) = Len(routed[RouteOf[s]]))
  <1>1. PICK n \in Nat : n = Len(routed[RouteOf[s]])
    BY FedTyped
  <1>2. CASE Owed(s)
    BY <1>2 DEF Given
  <1>3. CASE ~Owed(s)
    <2>1. Given(s) = n - 0
      BY <1>1, <1>3 DEF Given
    <2> QED
      BY <1>1, <1>3, <2>1
  <1> QED
    BY <1>2, <1>3

LEMMA ReachedTyped ==
  ASSUME TypeOK, NEW s \in Subs, LossyFed(s)
  PROVE  /\ Reached(s) \in Nat
         /\ got[s] = <<>> => Reached(s) = since[s]
         /\ got[s] # <<>> => /\ Reached(s) \in DOMAIN routed[RouteOf[s]]
                             /\ routed[RouteOf[s]][Reached(s)] = got[s][Len(got[s])]
  <1>1. CASE got[s] = <<>>
    <2>1. since[s] \in Nat
      BY FedTyped
    <2> QED
      BY <1>1, <2>1 DEF Reached
  <1>2. CASE got[s] # <<>>
    <2>1. got[s][Len(got[s])] \in Members(routed[RouteOf[s]])
      BY <1>2 DEF LossyFed
    <2>2. Reached(s) \in DOMAIN routed[RouteOf[s]] /\ routed[RouteOf[s]][Reached(s)] = got[s][Len(got[s])]
      BY <1>2, <2>1 DEF Reached, Members
    <2>3. DOMAIN routed[RouteOf[s]] \subseteq Nat
      <3>1. routed[RouteOf[s]] \in Seq(Event)
        BY FedTyped
      <3> QED
        BY <3>1
    <2> QED
      BY <1>2, <2>2, <2>3
  <1> QED
    BY <1>1, <1>2

LEMMA BaseTyped ==
  ASSUME TypeOK, NEW s \in Subs
  PROVE  /\ Base(s) \in Nat
         /\ hand[s] = NoEvent => Base(s) = since[s] + Len(got[s])
         /\ hand[s] # NoEvent => Base(s) = since[s] + Len(got[s]) + 1 /\ Base(s) # 0
  <1>1. PICK a, b \in Nat : a = since[s] /\ b = Len(got[s])
    BY FedTyped
  <1>2. CASE hand[s] = NoEvent
    <2>1. Len(Held(s)) = 0
      BY <1>2, FedTyped
    <2> QED
      BY <1>1, <1>2, <2>1 DEF Base
  <1>3. CASE hand[s] # NoEvent
    <2>1. Len(Held(s)) = 1
      BY <1>3, FedTyped
    <2> QED
      BY <1>1, <1>3, <2>1 DEF Base
  <1> QED
    BY <1>2, <1>3

\* A step that gives s nothing and takes nothing from it.
LEMMA FedAside ==
  ASSUME NEW s \in Subs, Fed(s), In(s)' => In(s), Owed(s)' = Owed(s),
         chan'[s] = chan[s], hand'[s] = hand[s], got'[s] = got[s], since'[s] = since[s],
         routed'[RouteOf[s]] = routed[RouteOf[s]]
  PROVE  Fed(s)'
  <1>1. Held(s)' = Held(s) /\ Reached(s)' = Reached(s)
    BY DEF Held, Reached
  <1>2. Base(s)' = Base(s) /\ Given(s)' = Given(s)
    BY <1>1 DEF Base, Given
  <1> HIDE DEF In, Owed, Base, Given, Reached
  <1>3. LosslessFed(s) => LosslessFed(s)'
    BY <1>2 DEF LosslessFed
  <1>4. LossyFed(s) => LossyFed(s)'
    BY <1>1, <1>2 DEF LossyFed
  <1> QED
    BY <1>3, <1>4 DEF Fed

\* A position of an event in a log without repetition is its only one.
LEMMA OnlyIndex ==
  ASSUME NEW l, NoRepeat(l), NEW i \in DOMAIN l, NEW x, x = l[i]
  PROVE  (CHOOSE j \in DOMAIN l : l[j] = x) = i
  <1>1. \A j \in DOMAIN l : l[j] = x => j = i
    BY DEF NoRepeat
  <1> QED
    BY <1>1

LEMMA NotOwed == ASSUME job.pc = "recv" PROVE \A s \in Subs : ~Owed(s)
  BY DEF Owed, Todo

\* The broker's next event makes the log longer and is owed to everyone registered.
LEMMA FedBrokerPublish ==
  ASSUME RegInv, RegInv', OrderKept, OrderKept', BrokerPublish, NEW s \in Subs, Fed(s)
  PROVE  Fed(s)'
  <1>0. TypeOK /\ RegKept /\ TypeOK'
    BY DEF RegInv
  <1>1. cmds # <<>> /\ Head(cmds).op = "publish" /\ job = Idle
        /\ UNCHANGED <<subscriptions, handle, chan, hand, got, since>>
    BY DEF BrokerPublish
  <1>2. PICK r \in Routes, e \in Event : r = Head(cmds).route /\ e = Head(cmds).event
    BY <1>0, <1>1, CommandTyped
  <1>3. routed' = [routed EXCEPT ![r] = Append(routed[r], e)]
        /\ job' = IF subscriptions[r] = <<>> THEN Idle
                   ELSE [pc |-> "send", todo |-> subscriptions[r], route |-> r, event |-> e]
    BY <1>2 DEF BrokerPublish
  <1>4. ~Owed(s)
    BY <1>1, NotOwed DEF Idle
  <1>5. Owed(s)' <=> s \in Members(subscriptions[r])
    <2>1. CASE subscriptions[r] = <<>>
      <3>1. job'.pc = "recv" /\ Members(subscriptions[r]) = {}
        BY <1>3, <2>1 DEF Idle, Members
      <3> QED
        BY <3>1 DEF Owed, Todo
    <2>2. CASE subscriptions[r] # <<>>
      <3>1. job'.pc = "send" /\ job'.todo = subscriptions[r]
        BY <1>3, <2>2
      <3> QED
        BY <3>1 DEF Owed, Todo
    <2> QED
      BY <2>1, <2>2
  <1>6. In(s)' = In(s) /\ Held(s)' = Held(s)
    BY <1>1 DEF In, Registered, Held
  <1>7. CASE RouteOf[s] # r
    <2>1. ~Owed(s)'
      BY <1>0, <1>5, <1>7 DEF RegKept
    <2>2. routed'[RouteOf[s]] = routed[RouteOf[s]]
      BY <1>0, <1>3, <1>7, FedTyped DEF TypeOK
    <2>3. Owed(s)' = Owed(s)
      BY <1>4, <2>1 DEF Owed
    <2> QED
      BY <1>1, <1>6, <2>2, <2>3, FedAside
  <1>8. CASE RouteOf[s] = r /\ In(s)
    <2>1. Owed(s)'
      BY <1>5, <1>8, RegisteredIs DEF In
    <2>2. PICK l \in Seq(Event), m \in Seq(Event) :
             l = routed[RouteOf[s]] /\ m = routed'[RouteOf[s]] /\ m = Append(l, e)
      BY <1>0, <1>3, <1>8 DEF TypeOK
    <2>3. /\ Len(l) \in Nat /\ Len(m) = Len(l) + 1 /\ DOMAIN l = 1 .. Len(l) /\ DOMAIN m = 1 .. Len(l) + 1
          /\ \A i \in DOMAIN l : i \in DOMAIN m /\ m[i] = l[i]
      BY <2>2
    <2>4. Given(s) = Len(l) /\ Given(s)' = Len(l)
      BY <1>4, <2>1, <2>2, <2>3 DEF Given
    <2>5. NoRepeat(m) /\ NoRepeat(l)
      <3>1. /\ \A k, n \in DOMAIN l : k < n => Before(l[k], l[n])
            /\ \A k, n \in DOMAIN m : k < n => Before(m[k], m[n])
        BY <1>2, <1>8, <2>2 DEF OrderKept
      <3> QED
        BY <3>1, LogNoRepeat
    <2>t. chan[s] \in Seq(Event) /\ Len(chan[s]) \in Nat /\ DOMAIN chan[s] = 1 .. Len(chan[s])
          /\ Len(got[s]) \in Nat /\ since[s] \in Nat /\ got[s] \in Seq(Event)
          /\ (hand[s] = NoEvent => Len(Held(s)) = 0)  /\ (hand[s] # NoEvent => Len(Held(s)) = 1)
      BY <1>0, FedTyped
    <2>6. CASE s \in Lossless
      <3>1. LosslessFed(s)
        BY <1>8, <2>6 DEF Fed
      <3>2. Base(s)' = Base(s) /\ Base(s) \in Nat /\ (hand[s] # NoEvent => Base(s) # 0)
        <4>1. Base(s)' = Base(s)
          BY <1>1, <1>6 DEF Base
        <4> QED
          BY <1>0, <4>1, BaseTyped
      <3>3. Base(s) + Len(chan[s]) = Len(l) /\ (\A k \in DOMAIN chan[s] : chan[s][k] = l[Base(s) + k])
            /\ (hand[s] # NoEvent => hand[s] = l[Base(s)])
        BY <2>2, <2>4, <3>1 DEF LosslessFed
      <3>4. (\A k \in DOMAIN chan[s] : Base(s) + k \in DOMAIN l) /\ (hand[s] # NoEvent => Base(s) \in DOMAIN l)
        BY ONLY <2>3, <2>t, <3>2, <3>3
      <3>5. (\A k \in DOMAIN chan[s] : chan[s][k] = m[Base(s) + k]) /\ (hand[s] # NoEvent => hand[s] = m[Base(s)])
        BY ONLY <2>3, <3>3, <3>4
      <3> QED
        BY <1>1, <2>2, <2>4, <2>6, <3>2, <3>3, <3>5 DEF LosslessFed, Fed
    <2>7. CASE s \notin Lossless
      <3>1. LossyFed(s)
        BY <1>8, <2>7 DEF Fed
      <3> DEFINE z == got[s][Len(got[s])]
      <3>2. /\ hand[s] = NoEvent
            /\ got[s] # <<>> => z \in Members(l)
            /\ Reached(s) <= Len(l)
            /\ \A k \in DOMAIN chan[s] : chan[s][k] \in Members(l)
            /\ \A k \in DOMAIN chan[s], i \in DOMAIN l : l[i] = chan[s][k] => Reached(s) < i /\ i <= Len(l)
            /\ \A k, n \in DOMAIN chan[s], i, j \in DOMAIN l :
                k < n /\ l[i] = chan[s][k] /\ l[j] = chan[s][n] => i < j
        BY ONLY <2>2, <2>4, <3>1 DEF LossyFed
      <3>3. Members(l) \subseteq Members(m) /\ \A x \in Members(l), i \in DOMAIN m : m[i] = x => i \in DOMAIN l /\ l[i] = x
        BY ONLY <2>3, <2>5 DEF Members, NoRepeat
      <3>4. Reached(s)' = Reached(s)
        <4>1. CASE got[s] = <<>>
          BY <1>1, <4>1 DEF Reached
        <4>2. CASE got[s] # <<>>
          <5>1. PICK i \in DOMAIN l : z = l[i]
            BY <3>2, <4>2 DEF Members
          <5>2. i \in DOMAIN m /\ z = m[i]
            BY <2>3, <5>1
          <5>3. (CHOOSE j \in DOMAIN l : l[j] = z) = i /\ (CHOOSE j \in DOMAIN m : m[j] = z) = i
            BY ONLY <2>5, <5>1, <5>2, OnlyIndex
          <5>4. Reached(s) = (CHOOSE j \in DOMAIN l : l[j] = z)
            BY <2>2, <4>2 DEF Reached
          <5>5. Reached(s)' = (CHOOSE j \in DOMAIN m : m[j] = z)
            BY <1>1, <2>2, <4>2 DEF Reached
          <5> QED
            BY <5>3, <5>4, <5>5
        <4> QED
          BY <4>1, <4>2
      <3> HIDE DEF z
      <3>5. LossyFed(s)'
        <4>1. /\ got[s] # <<>> => z \in Members(m)
              /\ \A k \in DOMAIN chan[s] : chan[s][k] \in Members(m)
              /\ \A k \in DOMAIN chan[s], i \in DOMAIN m : m[i] = chan[s][k] => Reached(s) < i /\ i <= Len(l)
              /\ \A k, n \in DOMAIN chan[s], i, j \in DOMAIN m :
                  k < n /\ m[i] = chan[s][k] /\ m[j] = chan[s][n] => i < j
          BY ONLY <3>2, <3>3
        <4> QED
          BY SMTT(30), <1>1, <2>2, <2>4, <3>2, <3>4, <4>1 DEF LossyFed, z
      <3> QED
        BY <2>7, <3>5 DEF Fed
    <2> QED
      BY <2>6, <2>7
  <1> QED
    BY <1>6, <1>7, <1>8 DEF Fed
\* A subscriber starts at the end of the log.
LEMMA FedBrokerSubscribe ==
  ASSUME RegInv, RegInv', BrokerSubscribe, NEW s \in Subs, Fed(s)
  PROVE  Fed(s)'
  <1>0. TypeOK /\ TypeOK'
    BY DEF RegInv
  <1>1. cmds # <<>> /\ Head(cmds).op = "subscribe" /\ job = Idle
        /\ UNCHANGED <<handle, chan, hand, got, job, routed>>
    BY DEF BrokerSubscribe
  <1>2. PICK t \in Subs : t = Head(cmds).sub
    BY <1>0, <1>1, CommandTyped
  <1>3. since' = [since EXCEPT ![t] = Len(routed[RouteOf[t]])]
        /\ subscriptions' = [subscriptions EXCEPT ![RouteOf[t]] = Append(subscriptions[RouteOf[t]], t)]
    BY <1>2 DEF BrokerSubscribe
  <1>4. ~Owed(s) /\ ~Owed(s)'
    <2>1. job.pc = "recv" /\ job'.pc = "recv"
      BY <1>1 DEF Idle
    <2> QED
      BY <2>1 DEF Owed, Todo
  <1>5. CASE s # t
    <2>1. since'[s] = since[s]
      BY <1>0, <1>3, <1>5 DEF TypeOK
    <2>2. Registered(s)' => Registered(s)
      <3>1. subscriptions[RouteOf[t]] \in Seq(Subs) /\ RouteOf[t] \in Routes /\ RouteOf[s] \in Routes
        BY <1>0, FedTyped DEF TypeOK
      <3>2. CASE RouteOf[s] = RouteOf[t]
        <4>1. subscriptions'[RouteOf[s]] = Append(subscriptions[RouteOf[s]], t)
          BY <1>0, <1>3, <3>1, <3>2 DEF TypeOK
        <4>2. Members(subscriptions'[RouteOf[s]]) = Members(subscriptions[RouteOf[s]]) \cup {t}
          BY <3>1, <3>2, <4>1, AppendMember
        <4>3. Registered(s)' <=> s \in Members(subscriptions'[RouteOf[s]])
          BY DEF Registered, Members
        <4> QED
          BY <1>5, <4>2, <4>3, RegisteredIs
      <3>3. CASE RouteOf[s] # RouteOf[t]
        <4>1. subscriptions'[RouteOf[s]] = subscriptions[RouteOf[s]]
          BY <1>0, <1>3, <3>1, <3>3 DEF TypeOK
        <4> QED
          BY <4>1 DEF Registered
      <3> QED
        BY <3>2, <3>3
    <2>3. (In(s)' => In(s)) /\ Owed(s)' = Owed(s)
      BY <1>1, <1>4, <2>2 DEF In, Owed
    <2> QED
      BY <1>1, <2>1, <2>3, FedAside
  <1>6. CASE s = t /\ In(s)'
    <2>1. handle[s] = "open"
      BY <1>1, <1>6 DEF In
    <2>2. ~Registered(s)
      <3>1. Asked(s)
        BY <1>0, <1>1, <1>2, <1>6, CommandTaken DEF BrokerSubscribe, Asked, Sends
      <3> QED
        BY <3>1 DEF RegInv, SubKept
    <2>3. chan'[s] = <<>> /\ hand'[s] = NoEvent /\ got'[s] = <<>>
      BY <1>1, <2>1, <2>2 DEF RegInv, SubKept
    <2>4. since'[s] = Len(routed'[RouteOf[s]]) /\ Len(routed'[RouteOf[s]]) \in Nat
      BY <1>0, <1>1, <1>3, <1>6, FedTyped DEF TypeOK
    <2>5. Given(s)' = Len(routed'[RouteOf[s]])
      BY <1>4, <2>4 DEF Given
    <2>6. Base(s)' = Len(routed'[RouteOf[s]])
      <3>1. Held(s)' = <<>>
        BY <2>3 DEF Held
      <3> QED
        BY <2>3, <2>4, <3>1 DEF Base
    <2>7. Reached(s)' = Len(routed'[RouteOf[s]])
      BY <2>3, <2>4 DEF Reached
    <2>8. LosslessFed(s)'
      BY <2>3, <2>4, <2>5, <2>6 DEF LosslessFed
    <2>9. LossyFed(s)'
      BY <2>3, <2>4, <2>5, <2>7 DEF LossyFed
    <2> QED
      BY <2>8, <2>9 DEF Fed
  <1> QED
    BY <1>5, <1>6 DEF Fed

\* The drop of an event from a full channel.
LEMMA FedSendDropped ==
  ASSUME RegInv, RegInv', BrokerSendDropped, NEW s \in Subs, Fed(s)
  PROVE  Fed(s)'
  <1>0. TypeOK /\ TypeOK' /\ JobKept
    BY DEF RegInv
  <1>1. job.pc = "send" /\ job' = NextTodo /\ Head(job.todo) \notin Lossless
        /\ UNCHANGED <<cmds, subscriptions, handle, chan, hand, got, routed, since>>
    BY DEF BrokerSendDropped, history
  <1>2. Todo' = Todo \ {Head(job.todo)} /\ (job'.pc = "recv" \/ job'.pc = "send")
    BY <1>0, <1>1, TodoNext
  <1>3. In(s)' = In(s)
    BY <1>1 DEF In, Registered
  <1>4. s # Head(job.todo) => Owed(s)' = Owed(s)
    BY <1>1, <1>2 DEF Owed, Todo
  <1>5. CASE s # Head(job.todo)
    BY <1>1, <1>3, <1>4, <1>5, FedAside
  <1>6. CASE s = Head(job.todo) /\ In(s)
    <2>1. LossyFed(s) /\ s \notin Lossless
      BY <1>1, <1>6 DEF Fed
    <2>2. Reached(s)' = Reached(s)
      BY <1>1 DEF Reached
    <2>3. ~Owed(s)'
      BY <1>2, <1>6 DEF Owed
    <2>4. Given(s)' = Len(routed[RouteOf[s]]) /\ Given(s) <= Given(s)'
          /\ Given(s) \in Int /\ Given(s)' \in Int
      <3>1. Given(s)' = Len(routed[RouteOf[s]])
        BY <1>0, <1>1, <2>3, FedTyped DEF Given
      <3>2. Len(routed[RouteOf[s]]) \in Nat
        BY <1>0, FedTyped
      <3>3. Given(s) = Len(routed[RouteOf[s]]) - 1 \/ Given(s) = Len(routed[RouteOf[s]])
        BY <1>0, GivenIs
      <3> QED
        BY ONLY <3>1, <3>2, <3>3
    <2>5. Reached(s) \in Int /\ DOMAIN routed[RouteOf[s]] \subseteq Int
      <3>1. Reached(s) \in Nat /\ routed[RouteOf[s]] \in Seq(Event)
        BY <1>0, <2>1, FedTyped, ReachedTyped
      <3> QED
        BY <3>1
    <2>6. LossyFed(s)'
      <3>1. PICK g, h, R : g = Given(s) /\ h = Given(s)' /\ R = Reached(s)
        OBVIOUS
      <3>2. PICK l : l = routed[RouteOf[s]]
        OBVIOUS
      <3>3. /\ hand[s] = NoEvent /\ (got[s] # <<>> => got[s][Len(got[s])] \in Members(l))
            /\ R <= h
            /\ \A k \in DOMAIN chan[s] :
                 /\ chan[s][k] \in Members(l)
                 /\ \A i \in DOMAIN l : l[i] = chan[s][k] => R < i /\ i <= h
                 /\ \A m \in DOMAIN chan[s], i, j \in DOMAIN l :
                      k < m /\ l[i] = chan[s][k] /\ l[j] = chan[s][m] => i < j
        <4>1. g \in Int /\ h \in Int /\ R \in Int /\ g <= h /\ DOMAIN l \subseteq Int
          BY <2>4, <2>5, <3>1, <3>2
        <4>2. /\ hand[s] = NoEvent /\ (got[s] # <<>> => got[s][Len(got[s])] \in Members(l))
              /\ R <= g
              /\ \A k \in DOMAIN chan[s] :
                 /\ chan[s][k] \in Members(l)
                 /\ \A i \in DOMAIN l : l[i] = chan[s][k] => R < i /\ i <= g
                 /\ \A m \in DOMAIN chan[s], i, j \in DOMAIN l :
                      k < m /\ l[i] = chan[s][k] /\ l[j] = chan[s][m] => i < j
          BY ONLY <2>1, <3>1, <3>2 DEF LossyFed
        <4> QED
          BY ONLY <4>1, <4>2
      <3>4. UNCHANGED <<chan, hand, got, routed>>
        BY <1>1
      <3> QED
        BY ONLY <2>2, <3>1, <3>2, <3>3, <3>4 DEF LossyFed
    <2> QED
      BY <2>1, <2>6 DEF Fed
  <1> QED
    BY <1>3, <1>5, <1>6 DEF Fed
\* The broker sends s the last event of its log.
LEMMA FedSend ==
  ASSUME RegInv, RegInv', OrderKept, BrokerSend, NEW s \in Subs, Fed(s)
  PROVE  Fed(s)'
  <1>0. TypeOK /\ TypeOK' /\ JobKept
    BY DEF RegInv
  <1>1. job.pc = "send" /\ job.pc # "recv" /\ UNCHANGED <<subscriptions, handle, hand, got, routed, since>>
    BY DEF BrokerSend, history
  <1>2. PICK t \in Subs, e \in Event : t = Head(job.todo) /\ e = job.event
    BY <1>0, <1>1, JobTyped
  <1>3. chan' = [chan EXCEPT ![t] = Append(chan[t], e)]
    BY <1>2 DEF BrokerSend
  <1>4. PICK p \in {"add", "len"} : job' = [job EXCEPT !.pc = p]
    BY DEF BrokerSend
  <1>5. Todo' = Todo /\ job'.pc = p /\ job'.todo = job.todo
    BY <1>0, <1>1, <1>4, SameTodo
  <1>6. In(s)' = In(s)
    BY <1>1 DEF In, Registered
  <1>7. CASE s # t
    <2>1. Owed(s)' = Owed(s)
      BY <1>1, <1>2, <1>5, <1>7 DEF Owed
    <2>2. chan'[s] = chan[s]
      BY <1>0, <1>3, <1>7 DEF TypeOK
    <2> QED
      BY <1>1, <1>6, <2>1, <2>2, FedAside
  <1>8. CASE s = t /\ In(s)
    <2>1. s \in Todo /\ s = Head(job.todo) /\ RouteOf[s] = job.route
      <3>1. Head(job.todo) \in Members(job.todo)
        BY <1>0, <1>1, JobTyped DEF Members
      <3> QED
        BY <1>0, <1>1, <1>2, <1>8, <3>1 DEF JobKept, Todo
    <2>2. Owed(s) /\ ~Owed(s)'
      BY <1>1, <1>5, <2>1 DEF Owed
    <2>3. PICK l \in Seq(Event) : l = routed[RouteOf[s]]
      BY <1>0, FedTyped
    <2>4. e = l[Len(l)] /\ l # <<>>
      BY <1>0, <1>1, <1>2, <2>1, <2>3 DEF JobKept
    <2>5. Len(l) \in Nat \ {0} /\ DOMAIN l = 1 .. Len(l)
      BY <2>4
    <2>6. Given(s) = Len(l) - 1 /\ Given(s)' = Len(l)
      <3>1. Given(s)' = Len(routed'[RouteOf[s]])
        BY <1>1, <2>2, <2>3, <2>5 DEF Given
      <3> QED
        BY <1>0, <1>1, <2>2, <2>3, <3>1, GivenIs
    <2>7. NoRepeat(l)
      <3>1. \A k, n \in DOMAIN l : k < n => Before(l[k], l[n])
        BY <1>0, <2>3, FedTyped DEF OrderKept
      <3> QED
        BY <3>1, LogNoRepeat
    <2>8. PICK c \in Seq(Event), d \in Seq(Event) : c = chan[s] /\ d = chan'[s] /\ d = Append(c, e)
      BY <1>0, <1>3, <1>8 DEF TypeOK
    <2>9. /\ Len(c) \in Nat /\ Len(d) = Len(c) + 1 /\ DOMAIN c = 1 .. Len(c) /\ DOMAIN d = 1 .. Len(c) + 1
          /\ d[Len(c) + 1] = e /\ \A k \in 1 .. Len(c) : d[k] = c[k]
      BY <2>8
    <2>10. Held(s)' = Held(s) /\ Base(s)' = Base(s) /\ Reached(s)' = Reached(s)
      BY <1>1 DEF Held, Base, Reached
    <2>11. CASE s \in Lossless
      <3>1. LosslessFed(s)
        BY <1>8, <2>11 DEF Fed
      <3>2. PICK b \in Nat : b = Base(s)
        BY <1>0, BaseTyped
      <3>3. b + Len(c) = Len(l) - 1 /\ (\A k \in DOMAIN c : c[k] = l[b + k]) /\ (hand[s] # NoEvent => hand[s] = l[b])
        BY <2>3, <2>6, <2>8, <3>1, <3>2 DEF LosslessFed
      <3>4. b + Len(d) = Len(l) /\ b + (Len(c) + 1) = Len(l)
        BY ONLY <2>5, <2>9, <3>2, <3>3
      <3>5. \A k \in DOMAIN d : d[k] = l[b + k]
        <4>1. \A k \in 1 .. Len(c) : d[k] = l[b + k]
          BY ONLY <2>9, <3>3
        <4>2. d[Len(c) + 1] = l[b + (Len(c) + 1)]
          BY ONLY <2>4, <2>9, <3>4
        <4>3. \A k \in DOMAIN d : k \in 1 .. Len(c) \/ k = Len(c) + 1
          BY ONLY <2>9
        <4> QED
          BY ONLY <4>1, <4>2, <4>3
      <3>6. LosslessFed(s)'
        BY <1>1, <2>3, <2>6, <2>8, <2>10, <3>2, <3>3, <3>4, <3>5 DEF LosslessFed
      <3> QED
        BY <2>11, <3>6 DEF Fed
    <2>12. CASE s \notin Lossless
      <3>1. LossyFed(s)
        BY <1>8, <2>12 DEF Fed
      <3>2. PICK R \in Nat : R = Reached(s)
        BY <1>0, <3>1, ReachedTyped
      <3>3. /\ hand[s] = NoEvent /\ (got[s] # <<>> => got[s][Len(got[s])] \in Members(l))
            /\ R <= Len(l) - 1
            /\ \A k \in DOMAIN c : c[k] \in Members(l)
            /\ \A k \in DOMAIN c, i \in DOMAIN l : l[i] = c[k] => R < i /\ i <= Len(l) - 1
            /\ \A k, m \in DOMAIN c, i, j \in DOMAIN l : k < m /\ l[i] = c[k] /\ l[j] = c[m] => i < j
        BY ONLY <2>3, <2>6, <2>8, <3>1, <3>2 DEF LossyFed
      <3>4. e \in Members(l) /\ \A i \in DOMAIN l : l[i] = e => i = Len(l)
        BY ONLY <2>4, <2>5, <2>7 DEF Members, NoRepeat
      <3>5. \A k \in DOMAIN d : d[k] \in Members(l)
        BY ONLY <2>9, <3>3, <3>4
      <3>6. ASSUME NEW k \in DOMAIN d, NEW i \in DOMAIN l, l[i] = d[k] PROVE R < i /\ i <= Len(l)
        <4>1. CASE k = Len(c) + 1
          <5>1. i = Len(l)
            BY <2>9, <3>4, <3>6, <4>1
          <5> QED
            BY ONLY <2>5, <3>2, <3>3, <5>1
        <4>2. CASE k # Len(c) + 1
          <5>1. k \in DOMAIN c /\ l[i] = c[k]
            BY ONLY <2>9, <3>6, <4>2
          <5> QED
            BY ONLY <2>5, <3>2, <3>3, <5>1, i \in DOMAIN l
        <4> QED
          BY <4>1, <4>2
      <3>7. ASSUME NEW k \in DOMAIN d, NEW m \in DOMAIN d, NEW i \in DOMAIN l, NEW j \in DOMAIN l,
                   k < m, l[i] = d[k], l[j] = d[m]
            PROVE  i < j
        <4>1. k \in DOMAIN c /\ l[i] = c[k] /\ i <= Len(l) - 1
          <5>1. k \in DOMAIN c /\ l[i] = c[k]
            BY ONLY <2>9, <3>7, k \in DOMAIN d, m \in DOMAIN d
          <5> QED
            BY ONLY <3>3, <5>1, i \in DOMAIN l
        <4>2. CASE m = Len(c) + 1
          <5>1. j = Len(l)
            BY <2>9, <3>4, <3>7, <4>2
          <5> QED
            BY ONLY <2>5, <4>1, <5>1, i \in DOMAIN l
        <4>3. CASE m # Len(c) + 1
          <5>1. m \in DOMAIN c /\ l[j] = c[m]
            BY ONLY <2>9, <3>7, <4>3, m \in DOMAIN d
          <5> QED
            BY <3>3, <3>7, <4>1, <5>1
        <4> QED
          BY <4>2, <4>3
      <3>8. R <= Len(l)
        BY ONLY <2>5, <3>2, <3>3
      <3>9. LossyFed(s)'
        <4>1. got' = got /\ hand' = hand /\ routed' = routed
          BY <1>1
        <4>2. PICK h : h = Len(l)
          OBVIOUS
        <4>3. /\ hand[s] = NoEvent /\ (got[s] # <<>> => got[s][Len(got[s])] \in Members(l))
              /\ R <= h
              /\ \A k \in DOMAIN d :
                 /\ d[k] \in Members(l)
                 /\ \A i \in DOMAIN l : l[i] = d[k] => R < i /\ i <= h
                 /\ \A m \in DOMAIN d, i, j \in DOMAIN l : k < m /\ l[i] = d[k] /\ l[j] = d[m] => i < j
          BY ONLY <3>3, <3>5, <3>6, <3>7, <3>8, <4>2
        <4>4. Given(s)' = h /\ Reached(s)' = R /\ chan'[s] = d /\ routed'[RouteOf[s]] = l
          BY <2>3, <2>6, <2>8, <2>10, <3>2, <4>1, <4>2
        <4> QED
          BY ONLY <4>1, <4>3, <4>4 DEF LossyFed
      <3> QED
        BY <2>12, <3>9 DEF Fed
    <2> QED
      BY <2>11, <2>12
  <1> QED
    BY <1>6, <1>7, <1>8 DEF Fed
\* The receiver takes the first event of its channel.
LEMMA FedTake ==
  ASSUME RegInv, RegInv', OrderKept, NEW t \in Subs, RecvTake(t), NEW s \in Subs, Fed(s)
  PROVE  Fed(s)'
  <1>0. TypeOK /\ TypeOK'
    BY DEF RegInv
  <1>1. hand[t] = NoEvent /\ chan[t] # <<>> /\ chan' = [chan EXCEPT ![t] = Tail(chan[t])]
        /\ UNCHANGED <<subscriptions, job, handle, routed, since>>
    BY DEF RecvTake, broker
  <1>2. In(s)' = In(s) /\ Owed(s)' = Owed(s) /\ Given(s)' = Given(s)
    BY <1>1 DEF In, Registered, Owed, Todo, Given
  <1>3. CASE s # t
    <2>1. chan'[s] = chan[s] /\ hand'[s] = hand[s] /\ got'[s] = got[s]
      BY <1>0, <1>3 DEF RecvTake, TypeOK
    <2> QED
      BY <1>1, <1>2, <2>1, FedAside
  <1>4. CASE s = t /\ In(s)
    <2>1. PICK l \in Seq(Event), c \in Seq(Event), d \in Seq(Event) :
             l = routed[RouteOf[s]] /\ c = chan[s] /\ d = chan'[s] /\ d = Tail(c) /\ c # <<>>
      BY ZenonT(60), <1>0, <1>1, <1>4, FedTyped DEF TypeOK
    <2>2. /\ Len(c) \in Nat \ {0} /\ Len(d) = Len(c) - 1 /\ DOMAIN c = 1 .. Len(c)
          /\ DOMAIN d = 1 .. Len(c) - 1 /\ Head(c) = c[1] /\ c[1] \in Event
          /\ \A k \in 1 .. Len(c) - 1 : d[k] = c[k + 1]
      BY <2>1
    <2>3. routed'[RouteOf[s]] = l
      BY <1>1, <2>1
    <2>4. CASE s \in Lossless
      <3>1. LosslessFed(s)
        BY <1>4, <2>4 DEF Fed
      <3>2. PICK b \in Nat : b = Base(s)
        BY <1>0, BaseTyped
      <3>3. hand'[s] = c[1] /\ got'[s] = got[s] /\ hand[s] = NoEvent
        BY <1>0, <1>1, <1>4, <2>1, <2>2, <2>4 DEF RecvTake, TypeOK
      <3>4. Base(s)' = b + 1
        <4>1. Held(s) = <<>> /\ Held(s)' = <<c[1]>>
          BY <2>2, <3>3, EventIsNotNone DEF Held
        <4>2. PICK u \in Nat, v \in Nat : u = since[s] /\ v = Len(got[s])
          BY <1>0, FedTyped
        <4>3. b = u + v + 0 /\ Base(s)' = u + v + 1
          BY <1>1, <3>2, <3>3, <4>1, <4>2 DEF Base
        <4> QED
          BY <4>2, <4>3
      <3>5. b + Len(c) = Given(s) /\ \A k \in DOMAIN c : c[k] = l[b + k]
        BY <2>1, <3>1, <3>2 DEF LosslessFed
      <3>6. (b + 1) + Len(d) = Given(s)
        BY ONLY <2>2, <3>2, <3>5
      <3>7. \A k \in DOMAIN d : d[k] = l[(b + 1) + k]
        <4>1. \A k \in DOMAIN d : k \in Nat /\ k + 1 \in DOMAIN c /\ d[k] = c[k + 1]
          BY ONLY <2>2
        <4>2. \A k \in DOMAIN d : b + (k + 1) = (b + 1) + k
          BY ONLY <3>2, <4>1
        <4>3. \A k \in DOMAIN d : c[k + 1] = l[b + (k + 1)]
          BY ONLY <3>5, <4>1
        <4> QED
          BY ONLY <4>1, <4>2, <4>3
      <3>8. c[1] = l[b + 1]
        BY ONLY <2>2, <3>5
      <3>9. LosslessFed(s)'
        BY <1>2, <2>1, <2>3, <3>3, <3>4, <3>6, <3>7, <3>8 DEF LosslessFed
      <3> QED
        BY <2>4, <3>9 DEF Fed
    <2>5. CASE s \notin Lossless
      <3>1. LossyFed(s)
        BY <1>4, <2>5 DEF Fed
      <3>2. hand'[s] = NoEvent /\ got'[s] = Append(got[s], c[1])
        BY <1>0, <1>1, <1>4, <2>1, <2>2, <2>5 DEF RecvTake, TypeOK
      <3>3. got'[s] # <<>> /\ got'[s][Len(got'[s])] = c[1]
        <4>1. got[s] \in Seq(Event)
          BY <1>0, FedTyped
        <4>2. PICK e \in Event, u \in Seq(Event) : e = c[1] /\ u = got[s]
          BY <2>2, <4>1
        <4>3. Append(u, e) # <<>> /\ Append(u, e)[Len(Append(u, e))] = e
          BY ONLY <4>2
        <4> QED
          BY <3>2, <4>2, <4>3
      <3>4. PICK g, R : g = Given(s) /\ R = Reached(s)
        OBVIOUS
      <3>5. /\ \A k \in DOMAIN c : c[k] \in Members(l)
            /\ \A k \in DOMAIN c, i \in DOMAIN l : l[i] = c[k] => R < i /\ i <= g
            /\ \A k, m \in DOMAIN c, i, j \in DOMAIN l : k < m /\ l[i] = c[k] /\ l[j] = c[m] => i < j
        BY ONLY <2>1, <3>1, <3>4 DEF LossyFed
      <3>6. 1 \in DOMAIN c
        BY ONLY <2>2
      <3>7. PICK n \in DOMAIN l : l[n] = c[1]
        BY <3>5, <3>6 DEF Members
      <3>8. Reached(s)' = n
        <4>1. \A k, m \in DOMAIN l : k < m => Before(l[k], l[m])
          BY <1>0, <2>1, FedTyped DEF OrderKept
        <4>2. (CHOOSE j \in DOMAIN l : l[j] = c[1]) = n
          BY <3>7, <4>1, LogNoRepeat, OnlyIndex
        <4> QED
          BY <2>3, <3>3, <4>2 DEF Reached
      <3>9. n <= g
        BY <3>5, <3>6, <3>7
      <3>10. \A k \in DOMAIN d : k \in Nat /\ k + 1 \in DOMAIN c /\ 1 < k + 1 /\ d[k] = c[k + 1]
        BY ONLY <2>2
      <3>11. \A k \in DOMAIN d :
               /\ d[k] \in Members(l)
               /\ \A i \in DOMAIN l : l[i] = d[k] => n < i /\ i <= g
               /\ \A m \in DOMAIN d, i, j \in DOMAIN l : k < m /\ l[i] = d[k] /\ l[j] = d[m] => i < j
        <4>1. \A k, m \in DOMAIN d : k < m => k + 1 < m + 1
          BY ONLY <3>10
        <4> QED
          BY ONLY <3>5, <3>6, <3>7, <3>10, <4>1
      <3>12. LossyFed(s)'
        <4>1. c[1] \in Members(l)
          BY <3>5, <3>6
        <4>2. Given(s)' = g /\ chan'[s] = d
          BY <1>2, <2>1, <3>4
        <4> QED
          BY ONLY <2>3, <3>2, <3>3, <3>8, <3>9, <3>11, <4>1, <4>2 DEF LossyFed
      <3> QED
        BY <2>5, <3>12 DEF Fed
    <2> QED
      BY <2>4, <2>5
  <1> QED
    BY <1>2, <1>3, <1>4 DEF Fed

\* The taken event is counted and handed over.
LEMMA FedCount ==
  ASSUME RegInv, RegInv', NEW t \in Subs, RecvCount(t), NEW s \in Subs, Fed(s)
  PROVE  Fed(s)'
  <1>0. TypeOK /\ TypeOK'
    BY DEF RegInv
  <1>1. hand[t] # NoEvent /\ hand' = [hand EXCEPT ![t] = NoEvent]
        /\ got' = [got EXCEPT ![t] = Append(got[t], hand[t])]
        /\ UNCHANGED <<subscriptions, job, handle, routed, since, chan>>
    BY DEF RecvCount, broker
  <1>2. In(s)' = In(s) /\ Owed(s)' = Owed(s) /\ Given(s)' = Given(s)
    BY <1>1 DEF In, Registered, Owed, Todo, Given
  <1>3. CASE s # t
    <2>1. hand'[s] = hand[s] /\ got'[s] = got[s]
      BY <1>0, <1>1, <1>3 DEF TypeOK
    <2> QED
      BY <1>1, <1>2, <2>1, FedAside
  <1>4. CASE s = t /\ In(s)
    <2>1. s \in Lossless /\ LosslessFed(s)
      BY <1>1, <1>4 DEF Fed, LossyFed
    <2>2. hand'[s] = NoEvent /\ got'[s] = Append(got[s], hand[s]) /\ got[s] \in Seq(Event)
      BY <1>0, <1>1, <1>4 DEF TypeOK
    <2>3. Len(got'[s]) = Len(got[s]) + 1 /\ Held(s)' = <<>>
      BY <1>0, <1>1, <1>4, <2>2, FedTyped DEF Held
    <2>4. Base(s)' = Base(s)
      <3>1. PICK u \in Nat, v \in Nat : u = since[s] /\ v = Len(got[s])
        BY <1>0, FedTyped
      <3>2. Base(s) = u + v + 1
        BY <1>0, <1>1, <1>4, <3>1, BaseTyped
      <3>3. Base(s)' = u + (v + 1) + 0
        BY <1>1, <2>3, <3>1 DEF Base
      <3> QED
        BY <3>1, <3>2, <3>3
    <2>5. LosslessFed(s)'
      BY <1>1, <1>2, <2>1, <2>2, <2>4 DEF LosslessFed
    <2> QED
      BY <2>1, <2>5 DEF Fed
  <1> QED
    BY <1>2, <1>3, <1>4 DEF Fed
LEMMA FedStep ==
  ASSUME RegInv, RegInv', OrderKept, OrderKept', [Next]_vars, NEW s \in Subs, Fed(s)
  PROVE  Fed(s)'
  <1>0. TypeOK /\ JobKept
    BY DEF RegInv
  <1>1. ASSUME NEW p \in Publishers, \/ \E r \in Routes : Publish(p, r)
                                     \/ DropPublisher(p)
        PROVE  Fed(s)'
    <2>1. UNCHANGED <<subscriptions, job, handle, chan, hand, got, since, routed>>
      BY <1>1 DEF Publish, DropPublisher, broker, history
    <2> QED
      BY <2>1, FedAside DEF In, Registered, Owed, Todo
  <1>2. ASSUME NEW t \in Subs, Subscribe(t) \/ DropSubscriber(t) \/ CloseReceiver(t)
        PROVE  Fed(s)'
    <2>1. UNCHANGED <<subscriptions, job, hand, got, since, routed>>
      BY <1>2 DEF Subscribe, DropSubscriber, CloseReceiver, broker, history
    <2>2. Owed(s)' = Owed(s) /\ Registered(s)' = Registered(s)
      BY <2>1 DEF Owed, Todo, Registered
    <2>3. CASE s # t
      <3>1. handle'[s] = handle[s] /\ chan'[s] = chan[s]
        BY <1>0, <1>2, <2>3 DEF Subscribe, DropSubscriber, CloseReceiver, TypeOK
      <3> QED
        BY <2>1, <2>2, <3>1, FedAside DEF In
    <2>4. CASE s = t
      <3>1. ~In(s)'
        <4>1. CASE Subscribe(t)
          BY <2>2, <2>4, <4>1 DEF Subscribe, RegInv, SubKept, In
        <4>2. CASE DropSubscriber(t) \/ CloseReceiver(t)
          BY <1>0, <2>4, <4>2 DEF DropSubscriber, CloseReceiver, TypeOK, In
        <4> QED
          BY <1>2, <4>1, <4>2
      <3> QED
        BY <3>1 DEF Fed
    <2> QED
      BY <2>3, <2>4
  <1>3. ASSUME NEW t \in Subs, RecvTake(t) \/ RecvCount(t) PROVE Fed(s)'
    BY <1>3, FedTake, FedCount
  <1>4. CASE BrokerPublish
    BY <1>4, FedBrokerPublish
  <1>5. CASE BrokerSubscribe
    BY <1>5, FedBrokerSubscribe
  <1>6. CASE BrokerUnsubscribe
    <2>1. UNCHANGED <<job, handle, chan, hand, got, since, routed>>
      BY <1>6 DEF BrokerUnsubscribe, history
    <2>2. In(s)' => In(s)
      BY <1>6, <2>1, RegBrokerUnsubscribe DEF In, RegInv
    <2> QED
      BY <2>1, <2>2, FedAside DEF Owed, Todo
  <1>7. CASE BrokerSendClosed
    <2>1. job.pc = "send" /\ job' = NextTodo /\ UNCHANGED <<handle, chan, hand, got, since, routed>>
      BY <1>7 DEF BrokerSendClosed, history
    <2>2. handle[Head(job.todo)] = "gone" /\ (handle[s] = "open" => Registered(s)' = Registered(s))
      BY <1>7, RegBrokerSendClosed DEF RegInv
    <2>3. CASE s # Head(job.todo)
      <3>1. Todo' = Todo \ {Head(job.todo)} /\ (job'.pc = "recv" \/ job'.pc = "send")
        BY <1>0, <2>1, TodoNext
      <3>2. Owed(s)' = Owed(s)
        BY <2>1, <2>3, <3>1 DEF Owed, Todo
      <3>3. In(s)' => In(s)
        BY <2>1, <2>2 DEF In
      <3> QED
        BY <2>1, <3>2, <3>3, FedAside
    <2>4. CASE s = Head(job.todo)
      BY <2>1, <2>2, <2>4 DEF Fed, In
    <2> QED
      BY <2>3, <2>4
  <1>8. CASE BrokerSendDropped
    BY <1>8, FedSendDropped
  <1>9. CASE BrokerSend
    BY <1>9, FedSend
  <1>10. CASE BrokerAdd
    <2>1. job.pc = "add" /\ job' = [job EXCEPT !.pc = "len"]
          /\ UNCHANGED <<subscriptions, handle, chan, hand, got, since, routed>>
      BY <1>10 DEF BrokerAdd, history
    <2>2. Todo' = Todo /\ job'.pc = "len" /\ job'.todo = job.todo
      BY <1>0, <2>1, SameTodo
    <2>3. Owed(s)' = Owed(s) /\ In(s)' = In(s)
      BY <2>1, <2>2 DEF Owed, In, Registered
    <2> QED
      BY <2>1, <2>3, FedAside
  <1>11. CASE BrokerRecordSent
    <2>1. job.pc = "len" /\ job' = NextTodo
          /\ UNCHANGED <<subscriptions, handle, chan, hand, got, since, routed>>
      BY <1>11 DEF BrokerRecordSent, history
    <2>2. Todo' = Todo \ {Head(job.todo)} /\ (job'.pc = "recv" \/ job'.pc = "send")
      BY <1>0, <2>1, TodoNext
    <2>3. Owed(s)' = Owed(s) /\ In(s)' = In(s)
      BY <2>1, <2>2 DEF Owed, In, Registered, Todo
    <2> QED
      BY <2>1, <2>3, FedAside
  <1>12. CASE BrokerExit \/ UNCHANGED vars
    <2>1. UNCHANGED <<subscriptions, job, handle, chan, hand, got, since, routed>>
      BY <1>12 DEF BrokerExit, vars, broker, history
    <2> QED
      BY <2>1, FedAside DEF In, Registered, Owed, Todo
  <1> QED
    BY <1>1, <1>2, <1>3, <1>4, <1>5, <1>6, <1>7, <1>8, <1>9, <1>10, <1>11, <1>12 DEF Next, BrokerStep

\* A receiver is dropped only between two receives.
HandKept == \A s \in Subs : hand[s] # NoEvent => handle[s] = "open"

LEMMA HandStep == TypeOK /\ HandKept /\ [Next]_vars => HandKept'
  <1> SUFFICES ASSUME TypeOK, HandKept, [Next]_vars PROVE HandKept'
    OBVIOUS
  <1>1. ASSUME NEW s \in Subs,
               Subscribe(s) \/ RecvTake(s) \/ RecvCount(s) \/ DropSubscriber(s) \/ CloseReceiver(s)
        PROVE  HandKept'
    BY <1>1 DEF Subscribe, RecvTake, RecvCount, DropSubscriber, CloseReceiver, HandKept, TypeOK
  <1>2. CASE \/ \E p \in Publishers : DropPublisher(p) \/ \E r \in Routes : Publish(p, r)
             \/ BrokerStep \/ UNCHANGED vars
    <2>1. UNCHANGED <<hand, handle>>
      BY <1>2 DEF Publish, DropPublisher, BrokerStep, BrokerPublish, BrokerSubscribe, BrokerUnsubscribe,
                  BrokerSendClosed, BrokerSendDropped, BrokerSend, BrokerAdd, BrokerRecordSent, BrokerExit, vars
    <2> QED
      BY <2>1 DEF HandKept
  <1> QED
    BY <1>1, <1>2 DEF Next

LogInv == RegInv /\ OrderKept /\ HandKept /\ \A s \in Subs : Fed(s)

LEMMA LogInit == Init => LogInv
  <1> SUFFICES ASSUME Init PROVE LogInv
    OBVIOUS
  <1>1. TypeOK
    BY InitTyped
  <1>2. cmds = <<>> /\ job.pc = "recv" /\ \A s \in Subs : handle[s] = "none" /\ hand[s] = NoEvent
        /\ chan[s] = <<>> /\ got[s] = <<>>
    BY DEF Init, Idle
  <1>3. \A r \in Routes : subscriptions[r] = <<>> /\ routed[r] = <<>>
    BY DEF Init
  <1>4. \A s \in Subs : ~Registered(s) /\ ~Asked(s) /\ ~Leaving(s) /\ AskedOnce(s)
    BY <1>2, <1>3, BusAssumption DEF Registered, Asked, Leaving, AskedOnce
  <1>5. RegKept /\ JobKept
    BY <1>2, <1>3 DEF RegKept, JobKept, NoRepeat, Members
  <1>6. OrderKept
    BY <1>2, <1>3 DEF OrderKept
  <1>7. \A s \in Subs : SubKept(s)
    BY <1>2, <1>4 DEF SubKept, Todo
  <1>8. \A s \in Subs : Fed(s)
    BY <1>4 DEF Fed, In
  <1> QED
    BY <1>1, <1>2, <1>5, <1>6, <1>7, <1>8 DEF LogInv, RegInv, HandKept

LEMMA LogStep == LogInv /\ [Next]_vars => LogInv'
  <1> SUFFICES ASSUME LogInv, [Next]_vars PROVE LogInv'
    OBVIOUS
  <1>1. RegInv /\ TypeOK /\ OrderKept /\ HandKept /\ \A s \in Subs : Fed(s)
    BY DEF LogInv, RegInv
  <1>2. RegInv' /\ OrderKept' /\ HandKept'
    BY <1>1, RegStep, OrderStep, HandStep
  <1>3. \A s \in Subs : Fed(s)'
    BY <1>1, <1>2, FedStep
  <1> QED
    BY <1>2, <1>3 DEF LogInv
-----------------------------------------------------------------------------
(* Every step of the bus is a step of the logs, or leaves them alone.      *)

\* A subscriber is in its log from its registration until it is dropped.
LEMMA PlaceIs ==
  ASSUME LogInv, NEW s \in Subs
  PROVE  /\ LogPlace(s) = "in" <=> In(s)
         /\ LogPlace(s) = "left" <=> handle[s] \in {"dropping", "gone"}
         /\ LogPlace(s) = "out" <=> ~In(s) /\ handle[s] \notin {"dropping", "gone"}
         /\ ~In(s) => LogCursor(s) = 0
         /\ In(s) /\ (s \in Lossless \/ got[s] = <<>>) => LogCursor(s) = since[s] + Len(got[s])
         /\ In(s) /\ s \notin Lossless => LogCursor(s) = Reached(s)
  <1>0. TypeOK
    BY DEF LogInv, RegInv
  <1>1. handle[s] \in {"none", "open", "dropping", "gone"} /\ (handle[s] = "none" => ~Registered(s))
    BY DEF LogInv, RegInv, SubKept, TypeOK
  <1>2. /\ LogPlace(s) = "in" <=> In(s)
        /\ LogPlace(s) = "left" <=> handle[s] \in {"dropping", "gone"}
        /\ LogPlace(s) = "out" <=> ~In(s) /\ handle[s] \notin {"dropping", "gone"}
    BY <1>1 DEF LogPlace, In
  <1>3. ~In(s) => LogCursor(s) = 0
    BY <1>2 DEF LogCursor
  <1>4. In(s) /\ (s \in Lossless \/ got[s] = <<>>) => LogCursor(s) = since[s] + Len(got[s])
    BY <1>2 DEF LogCursor
  <1>5. ASSUME In(s), s \notin Lossless PROVE LogCursor(s) = Reached(s)
    <2>1. CASE got[s] = <<>>
      <3>1. since[s] \in Nat
        BY <1>0, FedTyped
      <3>2. LogCursor(s) = since[s] + Len(got[s]) /\ Len(got[s]) = 0 /\ Reached(s) = since[s]
        BY <1>4, <1>5, <2>1 DEF Reached
      <3> QED
        BY ONLY <3>1, <3>2
    <2>2. CASE got[s] # <<>>
      BY <1>2, <1>5, <2>2 DEF LogCursor, Reached
    <2> QED
      BY <2>1, <2>2
  <1> QED
    BY <1>2, <1>3, <1>4, <1>5

\* The same of the next state.
LEMMA PlaceIsNext ==
  ASSUME LogInv', NEW s \in Subs
  PROVE  /\ LogPlace(s)' = "in" <=> In(s)'
         /\ LogPlace(s)' = "left" <=> handle'[s] \in {"dropping", "gone"}
         /\ LogPlace(s)' = "out" <=> ~In(s)' /\ handle'[s] \notin {"dropping", "gone"}
         /\ ~In(s)' => LogCursor(s)' = 0
         /\ In(s)' /\ (s \in Lossless \/ got'[s] = <<>>) => LogCursor(s)' = since'[s] + Len(got'[s])
         /\ In(s)' /\ s \notin Lossless => LogCursor(s)' = Reached(s)'
  <1>0. TypeOK'
    BY DEF LogInv, RegInv
  <1>1. handle'[s] \in {"none", "open", "dropping", "gone"} /\ (handle'[s] = "none" => ~Registered(s)')
    BY DEF LogInv, RegInv, SubKept, TypeOK
  <1>2. /\ LogPlace(s)' = "in" <=> In(s)'
        /\ LogPlace(s)' = "left" <=> handle'[s] \in {"dropping", "gone"}
        /\ LogPlace(s)' = "out" <=> ~In(s)' /\ handle'[s] \notin {"dropping", "gone"}
    BY <1>1 DEF LogPlace, In
  <1>3. ~In(s)' => LogCursor(s)' = 0
    BY <1>2 DEF LogCursor
  <1>4. In(s)' /\ (s \in Lossless \/ got'[s] = <<>>) => LogCursor(s)' = since'[s] + Len(got'[s])
    BY <1>2 DEF LogCursor
  <1>5. ASSUME In(s)', s \notin Lossless PROVE LogCursor(s)' = Reached(s)'
    <2>1. CASE got'[s] = <<>>
      <3>1. since'[s] \in Nat
        BY <1>0 DEF TypeOK
      <3>2. LogCursor(s)' = since'[s] + Len(got'[s]) /\ Len(got'[s]) = 0 /\ Reached(s)' = since'[s]
        BY <1>4, <1>5, <2>1 DEF Reached
      <3> QED
        BY ONLY <3>1, <3>2
    <2>2. CASE got'[s] # <<>>
      BY <1>2, <1>5, <2>2 DEF LogCursor, Reached
    <2> QED
      BY <2>1, <2>2
  <1> QED
    BY <1>2, <1>3, <1>4, <1>5

LogSame(s) == LogPlace(s)' = LogPlace(s) /\ LogCursor(s)' = LogCursor(s)

LEMMA SameLog ==
  ASSUME NEW s \in Subs, LogInv, LogInv',
         \/ In(s)' = In(s) /\ handle'[s] = handle[s] /\ got'[s] = got[s] /\ since'[s] = since[s]
            /\ routed'[RouteOf[s]] = routed[RouteOf[s]]
         \/ handle[s] \in {"dropping", "gone"} /\ handle'[s] \in {"dropping", "gone"}
         \/ handle[s] = "none" /\ handle'[s] = "open" /\ ~In(s)'
  PROVE  LogSame(s)
  <1>0. LogPlace(s) \in {"in", "out", "left"} /\ LogPlace(s)' \in {"in", "out", "left"}
    BY DEF LogPlace
  <1>1. CASE In(s)' = In(s) /\ handle'[s] = handle[s] /\ got'[s] = got[s] /\ since'[s] = since[s]
             /\ routed'[RouteOf[s]] = routed[RouteOf[s]]
    <2>1. LogPlace(s)' = LogPlace(s)
      BY <1>0, <1>1, PlaceIs, PlaceIsNext
    <2>2. LogCursor(s)' = LogCursor(s)
      BY <1>1, <2>1 DEF LogCursor
    <2> QED
      BY <2>1, <2>2 DEF LogSame
  <1>2. CASE handle[s] \in {"dropping", "gone"} /\ handle'[s] \in {"dropping", "gone"}
    <2>1. ~In(s) /\ ~In(s)'
      BY <1>2 DEF In
    <2> QED
      BY <1>2, <2>1, PlaceIs, PlaceIsNext DEF LogSame
  <1>3. CASE handle[s] = "none" /\ handle'[s] = "open" /\ ~In(s)'
    <2>1. ~In(s)
      BY <1>3 DEF In
    <2> QED
      BY <1>3, <2>1, PlaceIs, PlaceIsNext DEF LogSame
  <1> QED
    BY <1>1, <1>2, <1>3

LEMMA LogStutters ==
  ASSUME UNCHANGED <<routed, got>>, \A s \in Subs : LogSame(s)
  PROVE  UNCHANGED Log!vars
  BY DEF LogSame, Log!vars

\* The functions of the mapping, when one subscriber moves.
LEMMA LogMoves ==
  ASSUME NEW t \in Subs, \A s \in Subs : s # t => LogSame(s)
  PROVE  /\ [s \in Subs |-> LogPlace(s)'] = [[s \in Subs |-> LogPlace(s)] EXCEPT ![t] = LogPlace(t)']
         /\ [s \in Subs |-> LogCursor(s)'] = [[s \in Subs |-> LogCursor(s)] EXCEPT ![t] = LogCursor(t)']
  BY DEF LogSame
\* An event the broker takes is accepted by its log.
LEMMA LogAccepts ==
  ASSUME LogInv, LogInv', BrokerPublish
  PROVE  \E r \in Routes, e \in Event : Log!Accept(r, e)
  <1>0. TypeOK /\ OrderKept /\ OrderKept'
    BY DEF LogInv, RegInv
  <1>1. cmds # <<>> /\ cmds' = Tail(cmds) /\ Head(cmds).op = "publish"
        /\ UNCHANGED <<subscriptions, handle, got, since>>
    BY DEF BrokerPublish
  <1>2. PICK r \in Routes, e \in Event : r = Head(cmds).route /\ e = Head(cmds).event
    BY <1>0, <1>1, CommandTyped
  <1>3. routed' = [routed EXCEPT ![r] = Append(routed[r], e)]
    BY <1>2 DEF BrokerPublish
  <1>4. \A q \in Routes : \A i \in DOMAIN routed[q] : Before(routed[q][i], e)
    <2>1. 1 \in DOMAIN cmds /\ Publishes(1) /\ cmds[1].event = e
      BY <1>0, <1>1, <1>2, CommandTaken DEF Publishes
    <2> QED
      BY <1>0, <2>1 DEF OrderKept
  <1>5. ASSUME NEW s \in Subs PROVE LogSame(s)
    <2>1. In(s)' = In(s)
      BY <1>1 DEF In, Registered
    <2>2. CASE RouteOf[s] # r
      <3>1. routed'[RouteOf[s]] = routed[RouteOf[s]]
        BY <1>0, <1>3, <2>2, FedTyped DEF TypeOK
      <3> QED
        BY <1>1, <2>1, <3>1, SameLog
    <2>3. CASE RouteOf[s] = r
      <3>0. LogPlace(s)' = LogPlace(s)
        BY <1>1 DEF LogPlace, Registered
      <3>1. CASE ~In(s) \/ s \in Lossless
        <4>1. LogCursor(s)' = LogCursor(s)
          BY <1>1, <2>1, <3>1, PlaceIs, PlaceIsNext
        <4> QED
          BY <3>0, <4>1 DEF LogSame
      <3>2. CASE In(s) /\ s \notin Lossless
        <4>1. LossyFed(s)
          BY <3>2 DEF LogInv, Fed
        <4>2. Reached(s)' = Reached(s)
          <5>1. CASE got[s] = <<>>
            BY <1>1, <5>1 DEF Reached
          <5>2. CASE got[s] # <<>>
            <6>1. PICK l \in Seq(Event), m \in Seq(Event) :
                     l = routed[RouteOf[s]] /\ m = routed'[RouteOf[s]] /\ m = Append(l, e)
              BY <1>0, <1>3, <2>3 DEF LogInv, RegInv, TypeOK
            <6>2. PICK z : z = got[s][Len(got[s])]
              OBVIOUS
            <6>3. PICK i \in DOMAIN l : l[i] = z
              BY <4>1, <5>2, <6>1, <6>2 DEF LossyFed, Members
            <6>4. i \in DOMAIN m /\ m[i] = z
              BY <6>1, <6>3
            <6>5. NoRepeat(l) /\ NoRepeat(m)
              <7>1. /\ \A k, n \in DOMAIN l : k < n => Before(l[k], l[n])
                    /\ \A k, n \in DOMAIN m : k < n => Before(m[k], m[n])
                BY <1>0, <1>2, <2>3, <6>1 DEF OrderKept
              <7> QED
                BY <7>1, LogNoRepeat
            <6>6. (CHOOSE j \in DOMAIN l : l[j] = z) = i /\ (CHOOSE j \in DOMAIN m : m[j] = z) = i
              BY ONLY <6>3, <6>4, <6>5, OnlyIndex
            <6>7. Reached(s) = (CHOOSE j \in DOMAIN l : l[j] = z)
              BY <5>2, <6>1, <6>2 DEF Reached
            <6>8. Reached(s)' = (CHOOSE j \in DOMAIN m : m[j] = z)
              BY <1>1, <5>2, <6>1, <6>2 DEF Reached
            <6> QED
              BY <6>6, <6>7, <6>8
          <5> QED
            BY <5>1, <5>2
        <4> QED
          BY <2>1, <3>0, <3>2, <4>2, PlaceIs, PlaceIsNext DEF LogSame
      <3> QED
        BY <3>1, <3>2
    <2> QED
      BY <2>2, <2>3
  <1>6. Log!Accept(r, e)
    <2>1. \A q \in Routes : \A i \in DOMAIN routed[q] : routed[q][i][1] = e[1] => routed[q][i][2] < e[2]
      BY ONLY <1>4 DEF Before
    <2>2. [s \in Subs |-> LogPlace(s)'] = [s \in Subs |-> LogPlace(s)]
          /\ [s \in Subs |-> LogCursor(s)'] = [s \in Subs |-> LogCursor(s)]
      BY <1>5 DEF LogSame
    <2> QED
      BY <1>1, <1>3, <2>1, <2>2 DEF Log!Accept
  <1> QED
    BY <1>6

\* A registration the broker makes for an open handle is a join.
LEMMA LogJoins ==
  ASSUME LogInv, LogInv', BrokerSubscribe
  PROVE  UNCHANGED Log!vars \/ \E s \in Subs : Log!Join(s)
  <1>0. TypeOK /\ RegInv
    BY DEF LogInv, RegInv
  <1>1. cmds # <<>> /\ cmds' = Tail(cmds) /\ Head(cmds).op = "subscribe"
        /\ UNCHANGED <<handle, got, routed>>
    BY DEF BrokerSubscribe
  <1>2. PICK t \in Subs : t = Head(cmds).sub
    BY <1>0, <1>1, CommandTyped
  <1>3. since' = [since EXCEPT ![t] = Len(routed[RouteOf[t]])]
        /\ subscriptions' = [subscriptions EXCEPT ![RouteOf[t]] = Append(subscriptions[RouteOf[t]], t)]
    BY <1>2 DEF BrokerSubscribe
  <1>4. subscriptions[RouteOf[t]] \in Seq(Subs) /\ RouteOf[t] \in Routes
    BY <1>0, FedTyped DEF TypeOK
  <1>5. subscriptions'[RouteOf[t]] = Append(subscriptions[RouteOf[t]], t)
        /\ \A r \in Routes : r # RouteOf[t] => subscriptions'[r] = subscriptions[r]
    BY <1>0, <1>3, <1>4 DEF TypeOK
  <1>6. Members(subscriptions'[RouteOf[t]]) = Members(subscriptions[RouteOf[t]]) \cup {t}
    BY <1>4, <1>5, AppendMember
  <1>7. ASSUME NEW s \in Subs PROVE Registered(s)' <=> Registered(s) \/ s = t
    <2>1. Registered(s)' <=> s \in Members(subscriptions'[RouteOf[s]])
      BY DEF Registered, Members
    <2>2. CASE RouteOf[s] = RouteOf[t]
      BY <1>6, <2>1, <2>2, RegisteredIs
    <2>3. CASE RouteOf[s] # RouteOf[t]
      <3>1. subscriptions'[RouteOf[s]] = subscriptions[RouteOf[s]]
        BY <1>0, <1>5, <2>3, FedTyped
      <3> QED
        BY <2>1, <2>3, <3>1, RegisteredIs
    <2> QED
      BY <2>2, <2>3
  <1>8. ASSUME NEW s \in Subs, s # t PROVE LogSame(s)
    <2>1. In(s)' = In(s)
      BY <1>1, <1>7, <1>8 DEF In
    <2>2. since'[s] = since[s]
      BY <1>0, <1>3, <1>8 DEF TypeOK
    <2> QED
      BY <1>1, <2>1, <2>2, SameLog
  <1>9. ~Registered(t) /\ handle[t] # "none"
    <2>1. Asked(t)
      BY <1>0, <1>1, <1>2, CommandTaken DEF Asked, Sends
    <2> QED
      BY <1>0, <2>1 DEF RegInv, SubKept
  <1>10. CASE handle[t] = "open"
    <2>1. ~In(t) /\ In(t)' /\ got'[t] = <<>> /\ since'[t] = Len(routed[RouteOf[t]])
      BY <1>0, <1>1, <1>3, <1>7, <1>9, <1>10 DEF In, RegInv, SubKept, TypeOK
    <2>2. LogPlace(t) = "out" /\ LogPlace(t)' = "in"
      BY <1>10, <2>1, PlaceIs, PlaceIsNext
    <2>3. LogCursor(t)' = Len(routed[RouteOf[t]])
      <3>1. LogCursor(t)' = since'[t] + Len(got'[t]) /\ Len(got'[t]) = 0
        BY <2>1, PlaceIsNext
      <3>2. Len(routed[RouteOf[t]]) \in Nat
        BY <1>0, FedTyped
      <3> QED
        BY ONLY <2>1, <3>1, <3>2
    <2>4. Log!Join(t)
      BY <1>1, <1>8, <2>2, <2>3, LogMoves DEF Log!Join
    <2> QED
      BY <2>4
  <1>11. CASE handle[t] # "open"
    <2>1. handle[t] \in {"dropping", "gone"} /\ handle'[t] = handle[t]
      BY <1>0, <1>1, <1>9, <1>11 DEF TypeOK
    <2>2. LogSame(t)
      BY <2>1, SameLog
    <2> QED
      BY <1>1, <1>8, <2>2, LogStutters
  <1> QED
    BY <1>10, <1>11
\* A subscriber that is dropped leaves.
LEMMA LogLeaves ==
  ASSUME LogInv, LogInv', NEW t \in Subs, DropSubscriber(t)
  PROVE  Log!Leave(t)
  <1>1. handle[t] = "open" /\ handle' = [handle EXCEPT ![t] = "dropping"]
        /\ UNCHANGED <<subscriptions, routed, got, since>>
    BY DEF DropSubscriber, broker, history
  <1>2. handle'[t] = "dropping" /\ \A s \in Subs : s # t => handle'[s] = handle[s]
    BY <1>1 DEF LogInv, RegInv, TypeOK
  <1>3. ASSUME NEW s \in Subs, s # t PROVE LogSame(s)
    <2>1. In(s)' = In(s)
      BY <1>1, <1>2, <1>3 DEF In, Registered
    <2> QED
      BY <1>1, <1>2, <1>3, <2>1, SameLog
  <1>4. LogPlace(t) # "left" /\ LogPlace(t)' = "left" /\ LogCursor(t)' = 0
    BY <1>1, <1>2, PlaceIs, PlaceIsNext DEF In
  <1> QED
    BY <1>1, <1>3, <1>4, LogMoves DEF Log!Leave

\* A lossless subscriber reads on where it is, when its event has been counted.
LEMMA LogReadsCounted ==
  ASSUME LogInv, LogInv', NEW t \in Subs, RecvCount(t)
  PROVE  \E i \in DOMAIN routed[RouteOf[t]] : Log!Read(t, i)
  <1>0. TypeOK /\ RegInv /\ Fed(t)
    BY DEF LogInv, RegInv
  <1>1. hand[t] # NoEvent /\ got' = [got EXCEPT ![t] = Append(got[t], hand[t])]
        /\ UNCHANGED <<subscriptions, handle, routed, since>>
    BY DEF RecvCount, broker
  <1>2. In(t) /\ In(t)'
    <2>1. handle[t] = "open"
      BY <1>1 DEF LogInv, HandKept
    <2>2. Registered(t)
      BY <1>0, <1>1, <2>1 DEF RegInv, SubKept
    <2> QED
      BY <1>1, <2>1, <2>2 DEF In, Registered
  <1>3. t \in Lossless /\ LosslessFed(t)
    BY <1>0, <1>1, <1>2 DEF Fed, LossyFed
  <1>4. PICK b \in Nat : b = Base(t) /\ b = since[t] + Len(got[t]) + 1 /\ b # 0
    BY <1>0, <1>1, BaseTyped
  <1>5. hand[t] = routed[RouteOf[t]][b] /\ b + Len(chan[t]) = Given(t)
    BY <1>1, <1>3, <1>4 DEF LosslessFed
  <1>6. b \in DOMAIN routed[RouteOf[t]]
    <2>1. PICK n, c \in Nat : n = Len(routed[RouteOf[t]]) /\ c = Len(chan[t]) /\ DOMAIN routed[RouteOf[t]] = 1 .. n
      BY <1>0, FedTyped
    <2>2. Given(t) = n - 1 \/ Given(t) = n
      BY <1>0, <2>1, GivenIs
    <2> QED
      BY ONLY SMTT(30), <1>4, <1>5, <2>1, <2>2
  <1>7. got'[t] = Append(got[t], hand[t]) /\ got[t] \in Seq(Event) /\ hand[t] \in Event
        /\ \A s \in Subs : s # t => got'[s] = got[s]
    BY <1>0, <1>1 DEF TypeOK
  <1>8. LogCursor(t) = since[t] + Len(got[t]) /\ LogCursor(t)' = b /\ LogCursor(t) + 1 = b
    <2>1. LogCursor(t) = since[t] + Len(got[t]) /\ LogCursor(t)' = since[t] + Len(got'[t])
      BY <1>1, <1>2, <1>3, PlaceIs, PlaceIsNext
    <2>2. Len(got[t]) \in Nat /\ Len(got'[t]) = Len(got[t]) + 1 /\ since[t] \in Nat
      <3>1. since[t] \in Nat
        BY <1>0, FedTyped
      <3>2. PICK u \in Seq(Event), e \in Event : u = got[t] /\ e = hand[t]
        BY <1>7
      <3>3. Len(u) \in Nat /\ Len(Append(u, e)) = Len(u) + 1
        BY ONLY <3>2
      <3> QED
        BY <1>7, <3>1, <3>2, <3>3
    <2> QED
      BY ONLY <1>4, <2>1, <2>2
  <1>9. ASSUME NEW s \in Subs, s # t PROVE LogSame(s)
    <2>1. In(s)' = In(s)
      BY <1>1 DEF In, Registered
    <2> QED
      BY <1>1, <1>7, <1>9, <2>1, SameLog
  <1>10. LogPlace(t) = "in" /\ LogPlace(t)' = "in"
    BY <1>2, PlaceIs, PlaceIsNext
  <1>11. [s \in Subs |-> LogPlace(s)'] = [s \in Subs |-> LogPlace(s)]
    BY <1>9, <1>10 DEF LogSame
  <1>12. got' = [got EXCEPT ![t] = Append(@, routed[RouteOf[t]][b])]
    BY <1>1, <1>5
  <1>13. Log!Read(t, b)
    BY <1>1, <1>3, <1>6, <1>8, <1>9, <1>10, <1>11, <1>12, LogMoves DEF Log!Read
  <1> QED
    BY <1>6, <1>13

\* A lossy one reads on to what it takes, and a lossless one is not yet given it.
LEMMA LogReadsTaken ==
  ASSUME LogInv, LogInv', NEW t \in Subs, RecvTake(t)
  PROVE  UNCHANGED Log!vars \/ \E i \in DOMAIN routed[RouteOf[t]] : Log!Read(t, i)
  <1>0. TypeOK /\ RegInv /\ Fed(t) /\ OrderKept
    BY DEF LogInv, RegInv
  <1>1. handle[t] = "open" /\ chan[t] # <<>> /\ UNCHANGED <<subscriptions, handle, routed, since>>
    BY DEF RecvTake, broker
  <1>2. \A s \in Subs : In(s)' = In(s)
    BY <1>1 DEF In, Registered
  <1>3. CASE t \in Lossless
    <2>1. UNCHANGED <<routed, got>>
      BY <1>1, <1>3 DEF RecvTake
    <2>2. \A s \in Subs : LogSame(s)
      BY <1>1, <1>2, <2>1, SameLog
    <2> QED
      BY <2>1, <2>2, LogStutters
  <1>4. CASE t \notin Lossless
    <2>1. In(t)
      BY <1>0, <1>1 DEF RegInv, SubKept, In
    <2>2. LossyFed(t)
      BY <1>0, <1>4, <2>1 DEF Fed
    <2>3. PICK l \in Seq(Event), c \in Seq(Event) : l = routed[RouteOf[t]] /\ c = chan[t] /\ c # <<>>
      BY <1>0, <1>1, FedTyped
    <2>4. Head(c) = c[1] /\ 1 \in DOMAIN c /\ c[1] \in Event
      BY <2>3
    <2>5. got' = [got EXCEPT ![t] = Append(got[t], c[1])]
      BY <1>4, <2>3, <2>4 DEF RecvTake
    <2>6. got'[t] = Append(got[t], c[1]) /\ got[t] \in Seq(Event)
          /\ \A s \in Subs : s # t => got'[s] = got[s]
      BY <1>0, <2>5 DEF TypeOK
    <2>7. PICK R \in Nat : R = Reached(t)
      BY <1>0, <2>2, ReachedTyped
    <2>8. PICK n \in DOMAIN l : l[n] = c[1] /\ R < n
      BY <2>2, <2>3, <2>4, <2>7 DEF LossyFed, Members
    <2>9. Reached(t)' = n
      <3>1. \A k, m \in DOMAIN l : k < m => Before(l[k], l[m])
        BY <1>0, <2>3, FedTyped DEF OrderKept
      <3>2. (CHOOSE j \in DOMAIN l : l[j] = c[1]) = n
        BY <2>8, <3>1, LogNoRepeat, OnlyIndex
      <3>3. got'[t] # <<>> /\ got'[t][Len(got'[t])] = c[1]
        <4>1. PICK e \in Event, u \in Seq(Event) : e = c[1] /\ u = got[t]
          BY <2>4, <2>6
        <4>2. Append(u, e) # <<>> /\ Append(u, e)[Len(Append(u, e))] = e
          BY ONLY <4>1
        <4> QED
          BY <2>6, <4>1, <4>2
      <3>4. routed'[RouteOf[t]] = l
        BY <1>1, <2>3
      <3> QED
        BY <3>2, <3>3, <3>4 DEF Reached
    <2>10. LogCursor(t) = R /\ LogCursor(t)' = n /\ LogPlace(t) = "in" /\ LogPlace(t)' = "in"
      BY <1>2, <1>4, <2>1, <2>7, <2>9, PlaceIs, PlaceIsNext
    <2>11. ASSUME NEW s \in Subs, s # t PROVE LogSame(s)
      BY <1>1, <1>2, <2>6, <2>11, SameLog
    <2>12. [s \in Subs |-> LogPlace(s)'] = [s \in Subs |-> LogPlace(s)]
      BY <2>10, <2>11 DEF LogSame
    <2>13. n > R
      BY <2>3, <2>7, <2>8
    <2>14. Log!Read(t, n)
      BY <1>1, <1>4, <2>3, <2>5, <2>8, <2>10, <2>11, <2>12, <2>13, LogMoves DEF Log!Read
    <2> QED
      BY <2>3, <2>14
  <1> QED
    BY <1>3, <1>4

LEMMA LogRefines == LogInv /\ LogInv' /\ [Next]_vars => [Log!Next]_(Log!vars)
  <1> SUFFICES ASSUME LogInv, LogInv', [Next]_vars PROVE Log!Next \/ UNCHANGED Log!vars
    OBVIOUS
  <1>0. TypeOK /\ RegInv /\ TypeOK'
    BY DEF LogInv, RegInv
  <1>1. CASE BrokerPublish
    BY <1>1, LogAccepts DEF Log!Next
  <1>2. CASE BrokerSubscribe
    BY <1>2, LogJoins DEF Log!Next
  <1>3. ASSUME NEW s \in Subs, DropSubscriber(s) PROVE Log!Next
    BY <1>3, LogLeaves DEF Log!Next
  <1>4. ASSUME NEW s \in Subs, RecvCount(s) PROVE Log!Next
    BY <1>4, LogReadsCounted DEF Log!Next
  <1>5. ASSUME NEW s \in Subs, RecvTake(s) PROVE Log!Next \/ UNCHANGED Log!vars
    BY <1>5, LogReadsTaken DEF Log!Next
  <1>6. ASSUME NEW t \in Subs, Subscribe(t) \/ CloseReceiver(t) PROVE UNCHANGED Log!vars
    <2>1. UNCHANGED <<subscriptions, routed, got, since>>
      BY <1>6 DEF Subscribe, CloseReceiver, broker, history
    <2>2. ASSUME NEW s \in Subs PROVE LogSame(s)
      <3>0. Registered(s)' = Registered(s)
        BY <2>1 DEF Registered
      <3>1. CASE s # t
        <4>1. handle'[s] = handle[s]
          BY <1>0, <1>6, <3>1 DEF Subscribe, CloseReceiver, TypeOK
        <4>2. In(s)' = In(s)
          BY <3>0, <4>1 DEF In
        <4> QED
          BY <2>1, <4>1, <4>2, SameLog
      <3>2. CASE s = t /\ Subscribe(t)
        <4>1. handle[s] = "none" /\ handle'[s] = "open" /\ ~Registered(s)
          BY <1>0, <3>2 DEF Subscribe, RegInv, SubKept, TypeOK
        <4>2. ~In(s)'
          BY <3>0, <4>1 DEF In
        <4> QED
          BY <4>1, <4>2, SameLog
      <3>3. CASE s = t /\ CloseReceiver(t)
        <4>1. handle[s] = "dropping" /\ handle'[s] = "gone"
          BY <1>0, <3>3 DEF CloseReceiver, TypeOK
        <4> QED
          BY <4>1, SameLog
      <3> QED
        BY <1>6, <3>1, <3>2, <3>3
    <2> QED
      BY <2>1, <2>2, LogStutters
  <1>7. CASE BrokerUnsubscribe \/ BrokerSendClosed
    <2>1. UNCHANGED <<handle, routed, got, since>>
      BY <1>7 DEF BrokerUnsubscribe, BrokerSendClosed, history
    <2>2. \A s \in Subs : handle[s] = "open" => Registered(s)' = Registered(s)
      BY <1>0, <1>7, RegBrokerUnsubscribe, RegBrokerSendClosed
    <2>3. ASSUME NEW s \in Subs PROVE LogSame(s)
      <3>1. In(s)' = In(s)
        BY <2>1, <2>2 DEF In
      <3> QED
        BY <2>1, <3>1, SameLog
    <2> QED
      BY <2>1, <2>3, LogStutters
  <1>8. CASE \/ \E p \in Publishers : DropPublisher(p) \/ \E r \in Routes : Publish(p, r)
             \/ BrokerSendDropped \/ BrokerSend \/ BrokerAdd \/ BrokerRecordSent \/ BrokerExit
             \/ UNCHANGED vars
    <2>1. UNCHANGED <<subscriptions, handle, routed, got, since>>
      BY <1>8 DEF Publish, DropPublisher, BrokerSendDropped, BrokerSend, BrokerAdd,
                  BrokerRecordSent, BrokerExit, vars, broker, history
    <2>2. ASSUME NEW s \in Subs PROVE LogSame(s)
      <3>1. In(s)' = In(s)
        BY <2>1 DEF In, Registered
      <3> QED
        BY <2>1, <3>1, SameLog
    <2> QED
      BY <2>1, <2>2, LogStutters
  <1> QED
    BY <1>1, <1>2, <1>3, <1>4, <1>5, <1>6, <1>7, <1>8 DEF Next, BrokerStep

LEMMA LogRefinesInit == Init => Log!Init
  <1> SUFFICES ASSUME Init PROVE Log!Init
    OBVIOUS
  <1>1. LogInv
    BY LogInit
  <1>2. \A s \in Subs : handle[s] = "none"
    BY DEF Init
  <1>3. \A s \in Subs : LogPlace(s) = "out" /\ LogCursor(s) = 0
    BY <1>1, <1>2, PlaceIs DEF In
  <1> QED
    BY <1>3 DEF Init, Log!Init

\* The broker, its channels and its handles implement the log of each route, for any
\* number of publishers, subscribers and routes and whatever the capacities
\* (broker.rs:180-277, handle.rs:53-118).
THEOREM BusImplementsTopicLog == Spec => ImplementsTopicLog
  <1>1. Spec => []LogInv
    <2>1. Init => LogInv
      BY LogInit
    <2>2. LogInv /\ [Next]_vars => LogInv'
      BY LogStep
    <2> QED
      BY <2>1, <2>2, PTL DEF Spec
  <1>2. Init => Log!Init
    BY LogRefinesInit
  <1>3. LogInv /\ LogInv' /\ [Next]_vars => [Log!Next]_(Log!vars)
    BY LogRefines
  <1> QED
    BY <1>1, <1>2, <1>3, PTL DEF Spec, ImplementsTopicLog, Log!Spec

-----------------------------------------------------------------------------
(* What subscribers of one log agree on.  A subscriber has read events of  *)
(* its log in the order of their positions, none past its cursor.          *)

ReadInOrder(s) ==
    LET l == routed[RouteOf[s]] IN
    /\ \A i \in DOMAIN got[s] : got[s][i] \in Members(l)
    /\ \A i, j \in DOMAIN got[s] : \A a, b \in DOMAIN l :
          l[a] = got[s][i] /\ l[b] = got[s][j] /\ i < j => a < b
    /\ In(s) => \A i \in DOMAIN got[s] : \A a \in DOMAIN l :
                  l[a] = got[s][i] => a <= LogCursor(s)

\* A step of the logs, as one subscriber sees it.
LogGrows(s) ==
    LET l == routed[RouteOf[s]] IN
    /\ got'[s] = got[s]
    /\ routed'[RouteOf[s]] = l \/ \E e \in Event : routed'[RouteOf[s]] = Append(l, e)
    /\ In(s)' => \/ In(s) /\ LogCursor(s)' = LogCursor(s)
                 \/ LogCursor(s)' = Len(routed'[RouteOf[s]])

LogRead(s) ==
    LET l == routed[RouteOf[s]] IN
    \E i \in DOMAIN l :
       /\ In(s) /\ i > LogCursor(s) /\ LogCursor(s)' = i
       /\ got'[s] = Append(got[s], l[i]) /\ routed'[RouteOf[s]] = l

LEMMA CursorTyped ==
  ASSUME LogInv, NEW s \in Subs
  PROVE  LogCursor(s) \in Nat
  <1>0. TypeOK
    BY DEF LogInv, RegInv
  <1>1. CASE ~In(s)
    BY <1>1, PlaceIs
  <1>2. CASE In(s) /\ s \in Lossless
    <2>1. since[s] \in Nat /\ Len(got[s]) \in Nat
      BY <1>0, FedTyped
    <2> QED
      BY <1>2, <2>1, PlaceIs
  <1>3. CASE In(s) /\ s \notin Lossless
    <2>1. LossyFed(s)
      BY <1>3 DEF LogInv, Fed
    <2> QED
      BY <1>0, <1>3, <2>1, PlaceIs, ReachedTyped
  <1> QED
    BY <1>1, <1>2, <1>3

LEMMA LogSeen ==
  ASSUME LogInv, LogInv', [Log!Next]_(Log!vars), NEW s \in Subs
  PROVE  LogGrows(s) \/ LogRead(s)
  <1>0. /\ TypeOK /\ RouteOf[s] \in Routes /\ LogCursor(s) \in Nat
        /\ routed \in [Routes -> Seq(Event)] /\ got \in [Subs -> Seq(Event)]
    BY CursorTyped, BusAssumption DEF LogInv, RegInv, TypeOK
  <1>1. (In(s) <=> LogPlace(s) = "in") /\ (In(s)' <=> LogPlace(s)' = "in")
    BY PlaceIs, PlaceIsNext
  <1> DEFINE place == [x \in Subs |-> LogPlace(x)]
             cursor == [x \in Subs |-> LogCursor(x)]
  <1>2. /\ place[s] = LogPlace(s) /\ cursor[s] = LogCursor(s)
        /\ place'[s] = LogPlace(s)' /\ cursor'[s] = LogCursor(s)'
    OBVIOUS
  <1>3. DOMAIN place = Subs /\ DOMAIN cursor = Subs
    OBVIOUS
  <1>4. ASSUME NEW r \in Routes, NEW e \in Event, Log!Accept(r, e) PROVE LogGrows(s)
    <2>1. routed' = [routed EXCEPT ![r] = Append(@, e)] /\ place' = place /\ cursor' = cursor /\ got' = got
      BY <1>4 DEF Log!Accept
    <2>2. LogPlace(s)' = LogPlace(s) /\ LogCursor(s)' = LogCursor(s)
      BY <1>2, <2>1
    <2> QED
      BY <1>0, <1>1, <2>1, <2>2 DEF LogGrows
  <1>5. ASSUME NEW t \in Subs, Log!Join(t) PROVE LogGrows(s)
    <2>1. /\ routed' = routed /\ got' = got
          /\ place' = [place EXCEPT ![t] = "in"]
          /\ cursor' = [cursor EXCEPT ![t] = Len(routed[RouteOf[t]])]
      BY <1>5 DEF Log!Join
    <2> HIDE DEF place, cursor
    <2>2. IF s = t THEN cursor'[s] = Len(routed[RouteOf[s]])
          ELSE place'[s] = place[s] /\ cursor'[s] = cursor[s]
      BY <1>3, <2>1
    <2> QED
      BY <1>1, <1>2, <2>1, <2>2 DEF LogGrows
  <1>6. ASSUME NEW t \in Subs, Log!Leave(t) PROVE LogGrows(s)
    <2>1. /\ routed' = routed /\ got' = got
          /\ place' = [place EXCEPT ![t] = "left"]
          /\ cursor' = [cursor EXCEPT ![t] = 0]
      BY <1>6 DEF Log!Leave
    <2> HIDE DEF place, cursor
    <2>2. IF s = t THEN place'[s] = "left"
          ELSE place'[s] = place[s] /\ cursor'[s] = cursor[s]
      BY <1>3, <2>1
    <2> QED
      BY <1>1, <1>2, <2>1, <2>2 DEF LogGrows
  <1>7. ASSUME NEW t \in Subs, NEW i \in DOMAIN routed[RouteOf[t]], Log!Read(t, i)
        PROVE  LogGrows(s) \/ LogRead(s)
    <2>1. /\ routed' = routed /\ place' = place /\ place[t] = "in"
          /\ cursor' = [cursor EXCEPT ![t] = i]
          /\ got' = [got EXCEPT ![t] = Append(got[t], routed[RouteOf[t]][i])]
          /\ i = cursor[t] + 1 \/ i > cursor[t]
      BY <1>7 DEF Log!Read
    <2> HIDE DEF place, cursor
    <2>2. CASE s # t
      <3>1. cursor'[s] = cursor[s] /\ got'[s] = got[s]
        BY <1>0, <1>3, <2>1, <2>2
      <3> QED
        BY <1>1, <1>2, <2>1, <3>1 DEF LogGrows
    <2>3. CASE s = t
      <3>1. cursor'[s] = i /\ got'[s] = Append(got[s], routed[RouteOf[s]][i])
        BY <1>0, <1>3, <2>1, <2>3
      <3>2. i > LogCursor(s)
        <4>1. i \in Nat
          BY <1>0, <1>7, <2>3
        <4> QED
          BY <1>0, <1>2, <2>1, <2>3, <4>1
      <3> QED
        BY <1>1, <1>2, <1>7, <2>1, <2>3, <3>1, <3>2 DEF LogRead
    <2> QED
      BY <2>2, <2>3
  <1>8. CASE UNCHANGED Log!vars
    <2>1. routed' = routed /\ place' = place /\ cursor' = cursor /\ got' = got
      BY <1>8 DEF Log!vars
    <2> HIDE DEF place, cursor
    <2> QED
      BY <1>1, <1>2, <2>1 DEF LogGrows
  <1> QED
    BY <1>4, <1>5, <1>6, <1>7, <1>8 DEF Log!Next

\* No log holds an event twice.
LEMMA LogsNoRepeat ==
  ASSUME LogInv, NEW s \in Subs
  PROVE  routed[RouteOf[s]] \in Seq(Event) /\ NoRepeat(routed[RouteOf[s]])
  <1>1. routed[RouteOf[s]] \in Seq(Event) /\ RouteOf[s] \in Routes
    BY FedTyped DEF LogInv, RegInv
  <1>2. \A k, m \in DOMAIN routed[RouteOf[s]] : k < m => Before(routed[RouteOf[s]][k], routed[RouteOf[s]][m])
    BY <1>1 DEF LogInv, OrderKept
  <1> QED
    BY <1>1, <1>2, LogNoRepeat

LEMMA ReadGrows ==
  ASSUME LogInv, LogInv', NEW s \in Subs, ReadInOrder(s), LogGrows(s)
  PROVE  ReadInOrder(s)'
  <1> DEFINE l == routed[RouteOf[s]]
             n == routed'[RouteOf[s]]
             g == got[s]
  <1>1. g \in Seq(Event) /\ l \in Seq(Event) /\ got'[s] = g
    BY FedTyped DEF LogInv, RegInv, LogGrows
  <1>2. n \in Seq(Event) /\ NoRepeat(n)
    <2>1. \A r \in Routes : routed'[r] \in Seq(Event)
      BY DEF LogInv, RegInv, TypeOK
    <2>2. RouteOf[s] \in Routes
      BY BusAssumption
    <2>3. \A k, m \in DOMAIN n : k < m => Before(n[k], n[m])
      BY <2>2 DEF LogInv, OrderKept
    <2> QED
      BY <2>1, <2>2, <2>3, LogNoRepeat
  <1>3. DOMAIN l \subseteq DOMAIN n /\ \A a \in DOMAIN l : n[a] = l[a]
    <2>1. n = l \/ \E e \in Event : n = Append(l, e)
      BY DEF LogGrows
    <2> HIDE DEF l, n
    <2> QED
      BY <1>1, <2>1
  <1>4. /\ \A i \in DOMAIN g : g[i] \in Members(l)
        /\ \A i, j \in DOMAIN g : \A a, b \in DOMAIN l : l[a] = g[i] /\ l[b] = g[j] /\ i < j => a < b
        /\ In(s) => \A i \in DOMAIN g : \A a \in DOMAIN l : l[a] = g[i] => a <= LogCursor(s)
    BY DEF ReadInOrder
  <1>5. In(s)' => (In(s) /\ LogCursor(s)' = LogCursor(s)) \/ LogCursor(s)' = Len(n)
    BY DEF LogGrows
  <1> HIDE DEF l, n, g
  \* What was read is where it was.
  <1>6. ASSUME NEW i \in DOMAIN g, NEW a \in DOMAIN n, n[a] = g[i] PROVE a \in DOMAIN l /\ l[a] = g[i]
    <2>1. PICK c \in DOMAIN l : l[c] = g[i]
      BY <1>4, <1>6 DEF Members
    <2>2. c = a
      BY <1>2, <1>3, <1>6, <2>1 DEF NoRepeat
    <2> QED
      BY <2>1, <2>2
  <1>7. \A i \in DOMAIN g : g[i] \in Members(n)
    BY <1>3, <1>4 DEF Members
  <1>8. \A i, j \in DOMAIN g : \A a, b \in DOMAIN n : n[a] = g[i] /\ n[b] = g[j] /\ i < j => a < b
    BY <1>4, <1>6
  <1>9. ASSUME In(s)', NEW i \in DOMAIN g, NEW a \in DOMAIN n, n[a] = g[i] PROVE a <= LogCursor(s)'
    <2>1. a <= Len(n)
      BY <1>2, <1>9
    <2> QED
      BY <1>4, <1>5, <1>6, <1>9, <2>1
  <1> QED
    BY <1>1, <1>7, <1>8, <1>9 DEF ReadInOrder, n, g

LEMMA ReadReads ==
  ASSUME LogInv, NEW s \in Subs, ReadInOrder(s), LogRead(s)
  PROVE  ReadInOrder(s)'
  <1> DEFINE l == routed[RouteOf[s]]
             g == got[s]
             h == got'[s]
  <1>1. /\ g \in Seq(Event) /\ l \in Seq(Event) /\ NoRepeat(l)
        /\ LogCursor(s) \in Nat /\ routed'[RouteOf[s]] = l /\ In(s)
    BY FedTyped, LogsNoRepeat, CursorTyped DEF LogInv, RegInv, LogRead
  <1>2. PICK c \in DOMAIN l : c > LogCursor(s) /\ LogCursor(s)' = c /\ h = Append(g, l[c])
    BY DEF LogRead
  <1>3. /\ \A i \in DOMAIN g : g[i] \in Members(l)
        /\ \A i, j \in DOMAIN g : \A a, b \in DOMAIN l : l[a] = g[i] /\ l[b] = g[j] /\ i < j => a < b
        /\ \A i \in DOMAIN g : \A a \in DOMAIN l : l[a] = g[i] => a <= LogCursor(s)
    BY <1>1 DEF ReadInOrder
  <1> HIDE DEF l, g, h
  <1>4. c \in Nat /\ DOMAIN l \subseteq Nat /\ l[c] \in Event
    BY <1>1
  <1>5. PICK m \in Nat : m = Len(g) + 1
    BY <1>1
  <1>6. /\ DOMAIN h = DOMAIN g \cup {m} /\ h[m] = l[c] /\ \A i \in DOMAIN g : i < m /\ h[i] = g[i]
    BY ONLY <1>1, <1>2, <1>4, <1>5
  <1>7. \A a \in DOMAIN l : l[a] = l[c] => a = c
    BY <1>1 DEF NoRepeat
  <1>8. \A i \in DOMAIN h : h[i] \in Members(l)
    BY <1>3, <1>6 DEF Members
  <1>9. ASSUME NEW i \in DOMAIN h, NEW a \in DOMAIN l, l[a] = h[i] PROVE a <= c
    BY <1>1, <1>2, <1>3, <1>4, <1>6, <1>7, <1>9
  <1>10. ASSUME NEW i \in DOMAIN h, NEW j \in DOMAIN h, i < j, NEW a \in DOMAIN l, NEW b \in DOMAIN l,
                l[a] = h[i], l[b] = h[j]
         PROVE  a < b
    <2>1. i \in DOMAIN g
      <3>1. \A x \in DOMAIN h : x <= m /\ x \in Nat
        BY <1>1, <1>5, <1>6
      <3> QED
        BY <1>5, <1>6, <1>10, <3>1
    <2>2. CASE j \in DOMAIN g
      BY <1>3, <1>6, <1>10, <2>1, <2>2
    <2>3. CASE j = m
      <3>1. b = c /\ a <= LogCursor(s)
        BY <1>3, <1>6, <1>7, <1>10, <2>1, <2>3
      <3> QED
        BY <1>1, <1>2, <1>4, <1>10, <3>1
    <2> QED
      BY <1>6, <1>10, <2>2, <2>3
  <1> QED
    BY <1>1, <1>2, <1>8, <1>9, <1>10 DEF ReadInOrder, h

\* Positions in a log without repetition decide the order in which two read it.
LEMMA OneOrder ==
  ASSUME LogInv, \A s \in Subs : ReadInOrder(s)
  PROVE  SubscribersAgree
  <1>1. \A s \in Subs : got[s] \in Seq(Event)
    BY FedTyped DEF LogInv, RegInv
  <1>2. ASSUME NEW s \in Subs, NEW t \in Subs, RouteOf[s] = RouteOf[t],
               NEW i \in DOMAIN got[s], NEW j \in DOMAIN got[s],
               NEW k \in DOMAIN got[t], NEW m \in DOMAIN got[t],
               got[s][i] = got[t][k], got[s][j] = got[t][m], i < j
        PROVE  k < m
    <2> DEFINE l == routed[RouteOf[s]]
    <2>1. PICK a, b \in DOMAIN l : l[a] = got[s][i] /\ l[b] = got[s][j]
      BY <1>2 DEF ReadInOrder, Members
    <2>2. a < b
      BY <1>2, <2>1 DEF ReadInOrder
    <2>3. k \in Nat /\ m \in Nat /\ a \in Nat /\ b \in Nat
      <3>1. l \in Seq(Event) /\ got[t] \in Seq(Event)
        BY <1>1, <1>2, LogsNoRepeat
      <3>2. \A q \in Seq(Event) : DOMAIN q \subseteq Nat
        OBVIOUS
      <3>3. DOMAIN l \subseteq Nat /\ DOMAIN got[t] \subseteq Nat
        BY <3>1, <3>2
      <3> QED
        BY <1>2, <2>1, <3>3
    <2>4. m < k => b < a
      BY <1>2, <2>1 DEF ReadInOrder
    <2>5. k # m
      <3>1. k = m => l[a] = l[b]
        BY <1>2, <2>1
      <3>2. l[a] = l[b] => a = b
        BY LogsNoRepeat DEF NoRepeat
      <3> QED
        BY <2>2, <2>3, <3>1, <3>2
    <2> QED
      BY ONLY <2>2, <2>3, <2>4, <2>5
  <1>3. ASSUME NEW s \in Subs, NEW i \in DOMAIN got[s], NEW j \in DOMAIN got[s],
               got[s][i][1] = got[s][j][1], i < j
        PROVE  got[s][i][2] < got[s][j][2]
    <2> DEFINE l == routed[RouteOf[s]]
    <2>1. PICK a, b \in DOMAIN l : l[a] = got[s][i] /\ l[b] = got[s][j]
      BY <1>3 DEF ReadInOrder, Members
    <2>2. a < b
      BY <1>3, <2>1 DEF ReadInOrder
    <2>3. Before(l[a], l[b])
      BY <2>1, <2>2, BusAssumption DEF LogInv, OrderKept
    <2> QED
      BY <1>3, <2>1, <2>3 DEF Before
  <1> QED
    BY <1>2, <1>3 DEF SubscribersAgree

\* Whatever the interleaving of publishers, broker and subscribers, two subscribers of a
\* route never disagree on the order of two events, lossy or not, none is given an event
\* twice, and each publisher's events come in the order it published them: it follows
\* from the logs the bus implements.
THEOREM SubscribersAlwaysAgree == Spec => []SubscribersAgree
  <1> DEFINE Inv == LogInv /\ \A s \in Subs : ReadInOrder(s)
  <1>1. Init => Inv
    <2>1. Init => \A s \in Subs : ReadInOrder(s)
      BY DEF Init, ReadInOrder
    <2> QED
      BY <2>1, LogInit
  <1>2. Inv /\ [Next]_vars => Inv'
    <2> SUFFICES ASSUME Inv, [Next]_vars PROVE Inv'
      OBVIOUS
    <2>1. LogInv'
      BY LogStep
    <2>2. [Log!Next]_(Log!vars)
      BY <2>1, LogRefines
    <2>3. \A s \in Subs : LogGrows(s) \/ LogRead(s)
      BY <2>1, <2>2, LogSeen
    <2>4. \A s \in Subs : ReadInOrder(s)'
      BY <2>1, <2>3, ReadGrows, ReadReads
    <2> QED
      BY <2>1, <2>4
  <1>3. Inv => SubscribersAgree
    BY OneOrder
  <1> HIDE DEF Inv
  <1> QED
    BY <1>1, <1>2, <1>3, PTL DEF Spec
=============================================================================
