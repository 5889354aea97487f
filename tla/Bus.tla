-------------------------------- MODULE Bus --------------------------------
(***************************************************************************)
(* The in-process topic broker (crates/bus: broker.rs and handle.rs).      *)
(*                                                                         *)
(* Publishers and subscribers are handles on other threads; they reach the *)
(* single broker task through one bounded command channel.  The broker     *)
(* routes a published event to every subscriber registered on its route (a *)
(* topic and an event type).  A lossless subscriber has an unbounded       *)
(* channel, and a shared atomic counter beside it that the broker          *)
(* increments after each send and the receiver decrements after each       *)
(* receive; a lossy one has a bounded channel, and an event that finds it  *)
(* full is dropped.                                                        *)
(*                                                                         *)
(* The threads really run in parallel, so a send, the increment that       *)
(* follows it and the read of the counter are steps of their own.          *)
(***************************************************************************)
EXTENDS Integers, Sequences, FiniteSets

CONSTANTS Publishers,     \* clones of the Publisher handle
          Subs,           \* subscriber ids, each used by one subscribe call
          Routes,         \* RouteKey: (TopicId, TypeId)
          RouteOf,        \* the route each subscriber asks for
          Lossless,       \* the subscribers whose route is DeliveryMode::Lossless
          CmdCapacity,    \* BROKER_COMMAND_CAPACITY
          LossyCapacity,  \* LOSSY_SUBSCRIBER_CAPACITY
          BacklogWarn,    \* LOSSLESS_BACKLOG_WARN_THRESHOLD
          UsizeModulus,   \* 2^w for the width of AtomicUsize
          MaxPublish      \* bound: events one publisher publishes

ASSUME BusAssumption ==
    /\ RouteOf \in [Subs -> Routes]
    /\ Lossless \subseteq Subs
    /\ CmdCapacity \in Nat \ {0}
    /\ LossyCapacity \in Nat \ {0}
    /\ BacklogWarn \in Nat \ {0}
    /\ UsizeModulus \in Nat \ {0}
    /\ MaxPublish \in Nat

Event == Publishers \X (1 .. MaxPublish)

NoEvent == <<>>

\* The commands handles send the broker.
Command ==
    [op : {"publish"}, route : Routes, event : Event]
        \cup [op : {"subscribe", "unsubscribe"}, sub : Subs]

VARIABLES
    cmds,           \* the command channel, a FIFO shared by every handle
    subscriptions,  \* route -> subscribers in registration order
    job,            \* the publish the broker is fanning out, or Idle
    chan,           \* subscriber -> events sent and not yet taken
    backlog,        \* subscriber -> the shared counter, before wrapping
    dropping,       \* subscriber -> length of its current drop run
    largeBacklogs,  \* subscribers flagged for a large backlog
    handle,         \* subscriber -> "none", "open", "dropping" or "gone"
    hand,           \* subscriber -> event taken whose decrement is pending
    published,      \* publisher -> events published so far
    live,           \* publishers not dropped yet
    running,        \* the broker task has not exited
    routed,         \* history: route -> events the broker took, in order
    since,          \* history: subscriber -> Len(routed) when registered
    got,            \* history: subscriber -> events received, in order
    promised        \* history: <<sub, event>> published after subscribing

broker == <<subscriptions, job, dropping, largeBacklogs, running>>
history == <<routed, since, got, promised>>
vars == <<cmds, broker, chan, backlog, handle, hand, published, live, history>>

Idle == [pc |-> "recv", todo |-> <<>>]

Init ==
    /\ cmds = <<>>
    /\ subscriptions = [r \in Routes |-> <<>>]
    /\ job = Idle
    /\ chan = [s \in Subs |-> <<>>]
    /\ backlog = [s \in Subs |-> 0]
    /\ dropping = [s \in Subs |-> 0]
    /\ largeBacklogs = {}
    /\ handle = [s \in Subs |-> "none"]
    /\ hand = [s \in Subs |-> NoEvent]
    /\ published = [p \in Publishers |-> 0]
    /\ live = Publishers
    /\ running = TRUE
    /\ routed = [r \in Routes |-> <<>>]
    /\ since = [s \in Subs |-> 0]
    /\ got = [s \in Subs |-> <<>>]
    /\ promised = {}

-----------------------------------------------------------------------------
(* Handles, each on its own thread.                                        *)

\* Mutant: a send that does not wait for room.
SendCommandUnbounded(c) == cmds' = Append(cmds, c)

\* cmd_tx.send(..).await: waits for room in the command channel.
SendCommand(c) ==
    /\ Len(cmds) < CmdCapacity
    /\ cmds' = Append(cmds, c)

Publish(p, r) ==
    /\ p \in live
    /\ published[p] < MaxPublish
    /\ LET e == <<p, published[p] + 1>> IN
         /\ SendCommand([op |-> "publish", route |-> r, event |-> e])
         /\ promised' = promised \cup
                {<<s, e>> : s \in {t \in Lossless : RouteOf[t] = r /\ handle[t] = "open"}}
    /\ published' = [published EXCEPT ![p] = @ + 1]
    /\ UNCHANGED <<broker, chan, backlog, handle, hand, live, routed, since, got>>

DropPublisher(p) ==
    /\ p \in live
    /\ live' = live \ {p}
    /\ UNCHANGED <<cmds, broker, chan, backlog, handle, hand, published, history>>

\* subscribe returns once its command is in the channel, before the broker
\* has seen it.  A BusHandle is needed, so some handle must still be live.
Subscribe(s) ==
    /\ live # {}
    /\ handle[s] = "none"
    /\ SendCommand([op |-> "subscribe", sub |-> s])
    /\ handle' = [handle EXCEPT ![s] = "open"]
    /\ UNCHANGED <<broker, chan, backlog, hand, published, live, history>>

\* EventReceiver::recv and try_recv take an event; on a lossless channel the
\* counter is decremented afterwards, in RecvCount.
RecvTake(s) ==
    /\ handle[s] = "open"
    /\ hand[s] = NoEvent
    /\ chan[s] # <<>>
    /\ chan' = [chan EXCEPT ![s] = Tail(@)]
    /\ IF s \in Lossless
       THEN /\ hand' = [hand EXCEPT ![s] = Head(chan[s])]
            /\ UNCHANGED got
       ELSE /\ got' = [got EXCEPT ![s] = Append(@, Head(chan[s]))]
            /\ UNCHANGED hand
    /\ UNCHANGED <<cmds, broker, backlog, handle, published, live, routed, since, promised>>

\* Mutant: the receive forgets the counter.
RecvCountForgotten(s) ==
    /\ hand[s] # NoEvent
    /\ got' = [got EXCEPT ![s] = Append(@, hand[s])]
    /\ hand' = [hand EXCEPT ![s] = NoEvent]
    /\ UNCHANGED <<cmds, broker, chan, backlog, handle, published, live, routed, since, promised>>

RecvCount(s) ==
    /\ hand[s] # NoEvent
    /\ backlog' = [backlog EXCEPT ![s] = @ - 1]
    /\ got' = [got EXCEPT ![s] = Append(@, hand[s])]
    /\ hand' = [hand EXCEPT ![s] = NoEvent]
    /\ UNCHANGED <<cmds, broker, chan, handle, published, live, routed, since, promised>>

\* Drop for Subscriber: try_send of Unsubscribe, whose failure on a full
\* channel is ignored; the receiver itself is dropped afterwards.
DropSubscriber(s) ==
    /\ handle[s] = "open"
    /\ hand[s] = NoEvent
    /\ IF Len(cmds) < CmdCapacity
       THEN cmds' = Append(cmds, [op |-> "unsubscribe", sub |-> s])
       ELSE UNCHANGED cmds
    /\ handle' = [handle EXCEPT ![s] = "dropping"]
    /\ UNCHANGED <<broker, chan, backlog, hand, published, live, history>>

CloseReceiver(s) ==
    /\ handle[s] = "dropping"
    /\ handle' = [handle EXCEPT ![s] = "gone"]
    /\ chan' = [chan EXCEPT ![s] = <<>>]
    /\ UNCHANGED <<cmds, broker, backlog, hand, published, live, history>>

-----------------------------------------------------------------------------
(* The broker task.                                                        *)

\* retain: the others, in their order.
Without(seq, s) ==
    LET upTo[n \in 0 .. Len(seq)] ==
            IF n = 0 THEN <<>>
            ELSE IF seq[n] # s THEN Append(upTo[n - 1], seq[n])
            ELSE upTo[n - 1]
    IN  upTo[Len(seq)]

\* The publish loop moves on to its next subscriber, or ends.
NextTodo == IF Len(job.todo) = 1 THEN Idle
            ELSE [job EXCEPT !.pc = "send", !.todo = Tail(@)]

BrokerPublish ==
    /\ running
    /\ job = Idle
    /\ cmds # <<>>
    /\ Head(cmds).op = "publish"
    /\ LET c == Head(cmds) IN
         /\ routed' = [routed EXCEPT ![c.route] = Append(@, c.event)]
         /\ job' = IF subscriptions[c.route] = <<>> THEN Idle
                   ELSE [pc |-> "send", todo |-> subscriptions[c.route],
                         route |-> c.route, event |-> c.event]
    /\ cmds' = Tail(cmds)
    /\ UNCHANGED <<subscriptions, dropping, largeBacklogs, running, chan, backlog,
                   handle, hand, published, live, since, got, promised>>

BrokerSubscribe ==
    /\ running
    /\ job = Idle
    /\ cmds # <<>>
    /\ Head(cmds).op = "subscribe"
    /\ LET s == Head(cmds).sub IN
         /\ subscriptions' = [subscriptions EXCEPT ![RouteOf[s]] = Append(@, s)]
         /\ since' = [since EXCEPT ![s] = Len(routed[RouteOf[s]])]
    /\ cmds' = Tail(cmds)
    /\ UNCHANGED <<job, dropping, largeBacklogs, running, chan, backlog, handle, hand,
                   published, live, routed, got, promised>>

BrokerUnsubscribe ==
    /\ running
    /\ job = Idle
    /\ cmds # <<>>
    /\ Head(cmds).op = "unsubscribe"
    /\ LET s == Head(cmds).sub IN
         /\ subscriptions' = [subscriptions EXCEPT ![RouteOf[s]] = Without(@, s)]
         /\ dropping' = [dropping EXCEPT ![s] = 0]
         /\ largeBacklogs' = largeBacklogs \ {s}
    /\ cmds' = Tail(cmds)
    /\ UNCHANGED <<job, running, chan, backlog, handle, hand, published, live, history>>

\* SendOutcome::Closed: the receiver is gone, so retain prunes it.
BrokerSendClosed ==
    /\ job.pc = "send"
    /\ LET s == Head(job.todo) IN
         /\ handle[s] = "gone"
         /\ subscriptions' = [subscriptions EXCEPT ![job.route] = Without(@, s)]
         /\ dropping' = [dropping EXCEPT ![s] = 0]
         /\ largeBacklogs' = largeBacklogs \ {s}
    /\ job' = NextTodo
    /\ UNCHANGED <<cmds, running, chan, backlog, handle, hand, published, live, history>>

\* Mutant: every route is bounded.
BrokerSendDroppedAny ==
    /\ job.pc = "send"
    /\ LET s == Head(job.todo) IN
         /\ handle[s] # "gone"
         /\ Len(chan[s]) >= LossyCapacity
         /\ dropping' = [dropping EXCEPT ![s] = @ + 1]
    /\ job' = NextTodo
    /\ UNCHANGED <<cmds, subscriptions, largeBacklogs, running, chan, backlog, handle,
                   hand, published, live, history>>

\* SendOutcome::Dropped: a lossy channel is full; the subscriber is kept.
BrokerSendDropped ==
    /\ job.pc = "send"
    /\ LET s == Head(job.todo) IN
         /\ handle[s] # "gone"
         /\ s \notin Lossless
         /\ Len(chan[s]) >= LossyCapacity
         /\ dropping' = [dropping EXCEPT ![s] = @ + 1]
    /\ job' = NextTodo
    /\ UNCHANGED <<cmds, subscriptions, largeBacklogs, running, chan, backlog, handle,
                   hand, published, live, history>>

\* Mutant: the event goes ahead of those waiting.
BrokerSendAhead ==
    /\ job.pc = "send"
    /\ LET s == Head(job.todo) IN
         /\ handle[s] # "gone"
         /\ s \in Lossless \/ Len(chan[s]) < LossyCapacity
         /\ chan' = [chan EXCEPT ![s] = <<job.event>> \o @]
         /\ job' = [job EXCEPT !.pc = IF s \in Lossless THEN "add" ELSE "len"]
    /\ UNCHANGED <<cmds, subscriptions, dropping, largeBacklogs, running, backlog, handle,
                   hand, published, live, history>>

\* The event is queued; a lossless sender increments the counter next.
BrokerSend ==
    /\ job.pc = "send"
    /\ LET s == Head(job.todo) IN
         /\ handle[s] # "gone"
         /\ s \in Lossless \/ Len(chan[s]) < LossyCapacity
         /\ chan' = [chan EXCEPT ![s] = Append(@, job.event)]
         /\ job' = [job EXCEPT !.pc = IF s \in Lossless THEN "add" ELSE "len"]
    /\ UNCHANGED <<cmds, subscriptions, dropping, largeBacklogs, running, backlog, handle,
                   hand, published, live, history>>

BrokerAdd ==
    /\ job.pc = "add"
    /\ backlog' = [backlog EXCEPT ![Head(job.todo)] = @ + 1]
    /\ job' = [job EXCEPT !.pc = "len"]
    /\ UNCHANGED <<cmds, subscriptions, dropping, largeBacklogs, running, chan, handle,
                   hand, published, live, history>>

\* EventSender::len: the counter as the wrapping atomic holds it, or the used
\* slots of a bounded channel.
QueueLen(s) == IF s \in Lossless THEN backlog[s] % UsizeModulus ELSE Len(chan[s])

\* record_drop_outcome and record_backlog_len for SendOutcome::Sent.
BrokerRecordSent ==
    /\ job.pc = "len"
    /\ LET s == Head(job.todo) IN
         /\ dropping' = [dropping EXCEPT ![s] = 0]
         /\ largeBacklogs' = IF QueueLen(s) >= BacklogWarn
                             THEN largeBacklogs \cup {s} ELSE largeBacklogs \ {s}
    /\ job' = NextTodo
    /\ UNCHANGED <<cmds, subscriptions, running, chan, backlog, handle, hand, published,
                   live, history>>

\* cmd_rx.recv() is None once every sender is gone: publishers, and the
\* sender each subscriber keeps for its own unsubscription.
BrokerExit ==
    /\ running
    /\ job = Idle
    /\ cmds = <<>>
    /\ live = {}
    /\ \A s \in Subs : handle[s] \in {"none", "gone"}
    /\ running' = FALSE
    /\ UNCHANGED <<cmds, subscriptions, job, dropping, largeBacklogs, chan, backlog,
                   handle, hand, published, live, history>>

BrokerStep ==
    \/ BrokerPublish \/ BrokerSubscribe \/ BrokerUnsubscribe
    \/ BrokerSendClosed \/ BrokerSendDropped \/ BrokerSend
    \/ BrokerAdd \/ BrokerRecordSent \/ BrokerExit

Next ==
    \/ \E p \in Publishers, r \in Routes : Publish(p, r)
    \/ \E p \in Publishers : DropPublisher(p)
    \/ \E s \in Subs : \/ Subscribe(s) \/ RecvTake(s) \/ RecvCount(s)
                       \/ DropSubscriber(s) \/ CloseReceiver(s)
    \/ BrokerStep

Spec == Init /\ [][Next]_vars

\* The broker task and a subscriber's receive loop are always scheduled
\* again; publishers need never publish.
FairSpec ==
    /\ Spec
    /\ WF_vars(BrokerStep)
    /\ \A s \in Subs : WF_vars(RecvTake(s)) /\ WF_vars(RecvCount(s))

-----------------------------------------------------------------------------
(* Properties.                                                             *)

TypeOK ==
    /\ cmds \in Seq(Command) /\ Len(cmds) <= CmdCapacity
    /\ subscriptions \in [Routes -> Seq(Subs)]
    /\ \/ job = Idle
       \/ /\ job \in [pc : {"send", "add", "len"}, todo : Seq(Subs),
                      route : Routes, event : Event]
          /\ job.todo # <<>>
    /\ chan \in [Subs -> Seq(Event)]
    /\ backlog \in [Subs -> Int]
    /\ dropping \in [Subs -> Nat]
    /\ largeBacklogs \in SUBSET Subs
    /\ handle \in [Subs -> {"none", "open", "dropping", "gone"}]
    /\ hand \in [Subs -> Event \cup {NoEvent}]
    /\ published \in [Publishers -> 0 .. MaxPublish]
    /\ live \in SUBSET Publishers
    /\ running \in BOOLEAN
    /\ routed \in [Routes -> Seq(Event)]
    /\ since \in [Subs -> Nat]
    /\ got \in [Subs -> Seq(Event)]
    /\ promised \in SUBSET (Subs \X Event)

Registered(s) == \E i \in DOMAIN subscriptions[RouteOf[s]] : subscriptions[RouteOf[s]][i] = s

Held(s) == IF hand[s] = NoEvent THEN <<>> ELSE <<hand[s]>>

\* The counter is wrong by one while a send's increment or a receive's
\* decrement is outstanding, and can be below zero between the two; but when
\* the broker reads it, it is the queue's length, plus one for an event taken
\* whose decrement is outstanding.  The warning never sees a wrapped value.
BacklogReadIsQueueLength ==
    \A s \in Lossless :
        job.pc = "len" /\ Head(job.todo) = s /\ handle[s] = "open" =>
            backlog[s] = Len(chan[s]) + Len(Held(s))

\* Where a subscriber is in its route's log: past the events it was given, or the
\* last of them for a lossy one.
LogPlace(s) ==
    IF handle[s] \in {"dropping", "gone"} THEN "left"
    ELSE IF Registered(s) THEN "in" ELSE "out"

LogCursor(s) ==
    IF LogPlace(s) # "in" THEN 0
    ELSE IF s \in Lossless \/ got[s] = <<>> THEN since[s] + Len(got[s])
    ELSE CHOOSE i \in DOMAIN routed[RouteOf[s]] :
            routed[RouteOf[s]][i] = got[s][Len(got[s])]

Log == INSTANCE TopicLog WITH
    log <- routed,
    place <- [s \in Subs |-> LogPlace(s)],
    cursor <- [s \in Subs |-> LogCursor(s)],
    received <- got

\* The broker, its channels and its handles implement the log of each route: what
\* run_broker takes is appended once and in each publisher's order, and a subscriber
\* is given its route's log from its registration on, without a gap if it is lossless
\* (broker.rs:180-277, handle.rs:53-118).
ImplementsTopicLog == Log!Spec

\* Two subscribers of a route never see two events in opposite orders, none sees one
\* twice, and each publisher's events come in the order it published them, whoever joins,
\* lags or loses some (broker.rs:180-277).
SubscribersAgree ==
    /\ \A s, t \in Subs : RouteOf[s] = RouteOf[t] =>
          \A i, j \in DOMAIN got[s] : \A k, l \in DOMAIN got[t] :
              got[s][i] = got[t][k] /\ got[s][j] = got[t][l] /\ i < j => k < l
    /\ \A s \in Subs : \A i, j \in DOMAIN got[s] :
          got[s][i][1] = got[s][j][1] /\ i < j => got[s][i][2] < got[s][j][2]

\* What was promised to a subscriber that stays is received: an event published after
\* subscribe returned, which is before the broker has seen the registration.
PromisedIsReceived ==
    \A s \in Subs, e \in Event :
        <<s, e>> \in promised ~>
            \/ handle[s] # "open"
            \/ \E i \in DOMAIN got[s] : got[s][i] = e
=============================================================================
