----------------------------- MODULE MainTurns ------------------------------
(***************************************************************************)
(* The main agent's turns: the event loop (crates/gateway event_loop       *)
(* run_loop.rs and turns.rs), the tool loop's checkpoints (crates/agent    *)
(* turn.rs), and the list of waiting messages that web connections act on  *)
(* from tasks of their own (queued_messages.rs, ws.rs).                    *)
(*                                                                         *)
(* The event loop is one task.  While a turn runs, its select polls the    *)
(* turn itself and four channels, so each action below of the loop is what *)
(* it does between two awaits; the people's actions come at any time.      *)
(*                                                                         *)
(* A turn is named by the message that opened it: its correlation id.      *)
(* Interrupt::Stopped is left out: it is only ever queued together with    *)
(* the cancelling of the turn's token, which every checkpoint reads too.   *)
(* A subconscious note has no sender and no entry in the list: left out.   *)
(***************************************************************************)
EXTENDS Integers, Sequences, SequencesExt

CONSTANTS Person,        \* messages of the owner: listed while they wait
          Agent,         \* messages a session or a teammate sends main
          Other,         \* messages of other conversations, on the same topic
          NoTurn,
          StopCapacity,  \* capacity of the stop channel
          MaxStops,      \* bound: stop requests of people
          MaxRetries     \* bound: retry requests

Message == Person \cup Agent \cup Other
Mine == Person \cup Agent

ASSUME MainTurnsAssumption ==
    /\ StopCapacity \in Nat \ {0} /\ MaxStops \in Nat /\ MaxRetries \in Nat
    /\ Person \cap Agent = {} /\ Mine \cap Other = {} /\ NoTurn \notin Message

Waiting == {"none", "queued", "send_now", "withdrawn"}
Fate == {"unsent", "pending", "started", "folded", "routed", "dropped", "noted", "unheard"}
PC == {"idle", "opening", "start", "checkpoint", "model", "leaving", "after", "stopping",
       "exited"}

VARIABLES
    fate,       \* message -> what became of it
    bus,        \* rt.agent_subscriber
    deferred,   \* rt.deferred_inbound
    entry,      \* QueuedMessages.entries: message -> what may still happen to it
    intr,       \* the turn's interrupt channel
    held,       \* MainInterrupts.held
    leftovers,  \* what the turn that ended left
    pc,         \* where the event loop is
    turn,       \* the turn's correlation id
    no,         \* ghost: the turn's number
    rerun,      \* the turn is a rerun
    cancelled,  \* the turn's stop token
    stopReq,    \* stop_requested: the hub's stop reached the turn
    agentStop,  \* the hub's stop is in agent_stop_rx
    stops,      \* stop_rx
    sending,    \* messages sent now whose stop is not dispatched yet
    stopsMade,
    failed,     \* Agent.failed_turn
    retries,    \* retry_rx
    retriesMade,
    mainHops,   \* pending_main_hops: its keys
    midHops,    \* mid_turn_hops: its keys
    hop,        \* Agent.hop_counter
    kickoffHop, \* the hop count the turn recorded for a rerun
    inputs,     \* ghost: the messages the turn was given
    told,       \* ghost: messages whose withdrawal was confirmed
    asked       \* ghost: messages whose send-now was confirmed

waitVars == <<entry, told, asked>>
queueVars == <<bus, deferred>>
turnVars == <<intr, held, leftovers, turn, no, rerun, cancelled, stopReq>>
stopVars == <<stops, sending, stopsMade>>
retryVars == <<retries, retriesMade>>
hopVars == <<mainHops, midHops, hop, kickoffHop, inputs>>
vars == <<fate, pc, agentStop, failed, waitVars, queueVars, turnVars, stopVars,
          retryVars, hopVars>>

Init ==
    /\ fate = [m \in Message |-> "unsent"]
    /\ bus = <<>> /\ deferred = <<>>
    /\ entry = [m \in Message |-> "none"]
    /\ intr = <<>> /\ held = <<>> /\ leftovers = <<>>
    /\ pc = "idle"
    /\ turn = NoTurn /\ no = 0 /\ rerun = FALSE
    /\ cancelled = FALSE /\ stopReq = FALSE /\ agentStop = FALSE
    /\ stops = <<>> /\ sending = {} /\ stopsMade = 0
    /\ failed = NoTurn
    /\ retries = <<>> /\ retriesMade = 0
    /\ mainHops = {} /\ midHops = {} /\ hop = 0 /\ kickoffHop = 0
    /\ inputs = {} /\ told = {} /\ asked = {}

\* A relayed message carries one hop, a person's none.
HopOf(m, S) == IF m \in S THEN 1 ELSE 0

Bump(h) == IF h > hop THEN h ELSE hop

\* Clients have been told of the turn, and its future is not ready yet.
Announced == pc \in {"opening", "start", "checkpoint", "model"}

\* The select loop of run_agent_turn_with_interrupts polls its channels.
InTurn == pc \in {"start", "checkpoint", "model"}

Idle == pc = "idle" /\ deferred = <<>>

-----------------------------------------------------------------------------
(* Senders.                                                                *)

\* A message reaches the topic; deliver_to_main records a relayed one's hops
\* first.  From the shutdown's drain on, nobody reads the topic.
Send(m) ==
    /\ fate[m] = "unsent"
    /\ fate' = [fate EXCEPT ![m] = IF pc = "exited" THEN "unheard" ELSE "pending"]
    /\ IF pc = "exited"
       THEN UNCHANGED <<bus, mainHops>>
       ELSE /\ bus' = Append(bus, m)
            /\ mainHops' = IF m \in Agent THEN mainHops \cup {m} ELSE mainHops
    /\ UNCHANGED <<pc, agentStop, failed, waitVars, deferred, turnVars, stopVars, retryVars,
                   midHops, hop, kickoffHop, inputs>>

-----------------------------------------------------------------------------
(* The web connections and the hub.                                        *)

\* withdraw_queued; one no longer waiting is answered unavailable.
Withdraw(m) ==
    /\ entry[m] \in {"queued", "send_now"}
    /\ entry' = [entry EXCEPT ![m] = "withdrawn"]
    /\ told' = told \cup {m}
    /\ UNCHANGED <<fate, pc, agentStop, failed, asked, queueVars, turnVars, stopVars,
                   retryVars, hopVars>>

\* send_queued_now up to the stop it dispatches.
SendNow(m) ==
    /\ entry[m] \in {"queued", "send_now"} /\ m \notin sending
    /\ entry' = [entry EXCEPT ![m] = "send_now"]
    /\ asked' = asked \cup {m}
    /\ sending' = sending \cup {m}
    /\ UNCHANGED <<fate, pc, agentStop, failed, told, queueVars, turnVars, stops, stopsMade,
                   retryVars, hopVars>>

\* Mutant: the channel takes more than its capacity.
RequestUnbounded(t) ==
    stops' = IF pc # "exited"
             THEN Append(stops, [names |-> t, seen |-> IF Announced THEN no ELSE 0])
             ELSE stops

\* A stop request that names a turn, or none; with the number of the turn that
\* was announced when it was made.  try_send drops it when the channel is full.
Request(t) ==
    stops' = IF Len(stops) < StopCapacity /\ pc # "exited"
             THEN Append(stops, [names |-> t, seen |-> IF Announced THEN no ELSE 0])
             ELSE stops

SendNowStop(m) ==
    /\ m \in sending
    /\ Request(NoTurn)
    /\ sending' = sending \ {m}
    /\ UNCHANGED <<fate, pc, agentStop, failed, waitVars, queueVars, turnVars, stopsMade,
                   retryVars, hopVars>>

\* A web client's cancel names a turn it was told of; /stop in a chat names none.
UserStop(t) ==
    /\ stopsMade < MaxStops
    /\ t \in {NoTurn} \cup {m \in Mine : fate[m] = "started"}
    /\ Request(t)
    /\ stopsMade' = stopsMade + 1
    /\ UNCHANGED <<fate, pc, agentStop, failed, waitVars, queueVars, turnVars, sending,
                   retryVars, hopVars>>

RetryTurn(t) ==
    /\ retriesMade < MaxRetries
    /\ fate[t] = "started"
    /\ retries' = Append(retries, t)
    /\ retriesMade' = retriesMade + 1
    /\ UNCHANGED <<fate, pc, agentStop, failed, waitVars, queueVars, turnVars, stopVars, hopVars>>

\* The hub asks the agent to stop.
AgentStop ==
    /\ ~agentStop /\ ~stopReq /\ pc \notin {"stopping", "exited"}
    /\ agentStop' = TRUE
    /\ UNCHANGED <<fate, pc, failed, waitVars, queueVars, turnVars, stopVars, retryVars, hopVars>>

-----------------------------------------------------------------------------
(* The event loop between turns.                                           *)

\* run_main_turn up to the prompt files it loads: the turn is announced and,
\* for a new message, its hops are taken.
OpenTurn(t, again) ==
    /\ pc' = "opening"
    /\ turn' = t /\ no' = no + 1 /\ rerun' = again
    /\ IF again
       THEN UNCHANGED <<mainHops, hop>>
       ELSE /\ hop' = Bump(HopOf(t, mainHops))
            /\ mainHops' = mainHops \ {t}
    /\ inputs' = {t}
    /\ UNCHANGED <<midHops, kickoffHop>>

\* Where next_deferred_message looks: one to send now goes ahead of the rest.
NextDeferred ==
    LET now == {i \in DOMAIN deferred : entry[deferred[i]] = "send_now"}
    IN  IF now = {} THEN 1 ELSE CHOOSE i \in now : \A j \in now : i <= j

\* Mutant: a deferred message starts its turn without asking the list.
TakeDeferredUnclaimed ==
    /\ pc = "idle" /\ deferred # <<>>
    /\ LET m == deferred[NextDeferred] IN
           /\ deferred' = RemoveAt(deferred, NextDeferred)
           /\ fate' = [fate EXCEPT ![m] = "started"]
           /\ OpenTurn(m, FALSE)
    /\ UNCHANGED <<agentStop, failed, waitVars, bus, intr, held, leftovers,
                   cancelled, stopReq, stopVars, retryVars>>

\* One pass of next_deferred_message, with claim_turn_start: a withdrawn message is
\* dropped and the loop looks again.
TakeDeferred ==
    /\ pc = "idle" /\ deferred # <<>>
    /\ LET m == deferred[NextDeferred] IN
           /\ deferred' = RemoveAt(deferred, NextDeferred)
           /\ entry' = [entry EXCEPT ![m] = "none"]
           /\ IF entry[m] = "withdrawn"
              THEN /\ fate' = [fate EXCEPT ![m] = "dropped"]
                   /\ UNCHANGED <<pc, turn, no, rerun, hopVars>>
              ELSE /\ fate' = [fate EXCEPT ![m] = "started"]
                   /\ OpenTurn(m, FALSE)
    /\ UNCHANGED <<agentStop, failed, told, asked, bus, intr, held, leftovers,
                   cancelled, stopReq, stopVars, retryVars>>

\* handle_bus_event: a message of another conversation goes to its session.
TakeInbound ==
    /\ Idle /\ bus # <<>>
    /\ bus' = Tail(bus)
    /\ LET m == Head(bus) IN
           IF m \in Mine
           THEN fate' = [fate EXCEPT ![m] = "started"] /\ OpenTurn(m, FALSE)
           ELSE /\ fate' = [fate EXCEPT ![m] = "routed"]
                /\ UNCHANGED <<pc, turn, no, rerun, hopVars>>
    /\ UNCHANGED <<agentStop, failed, waitVars, deferred, intr, held, leftovers,
                   cancelled, stopReq, stopVars, retryVars>>

\* handle_idle_stop_request: answered that nothing is running.
IdleStop ==
    /\ Idle /\ stops # <<>>
    /\ stops' = Tail(stops)
    /\ UNCHANGED <<fate, pc, agentStop, failed, waitVars, queueVars, turnVars, sending,
                   stopsMade, retryVars, hopVars>>

\* handle_retry_request: only the failed latest turn runs again.
IdleRetry ==
    /\ Idle /\ retries # <<>>
    /\ retries' = Tail(retries)
    /\ IF failed = Head(retries)
       THEN failed' = NoTurn /\ OpenTurn(Head(retries), TRUE)
       ELSE UNCHANGED <<failed, pc, turn, no, rerun, hopVars>>
    /\ UNCHANGED <<fate, agentStop, waitVars, queueVars, intr, held, leftovers, cancelled,
                   stopReq, stopVars, retriesMade>>

\* clear_messages and rotate_messages_after_observation, when a memory cycle's
\* result is applied.
RewriteHistory ==
    /\ Idle /\ failed # NoTurn
    /\ failed' = NoTurn
    /\ UNCHANGED <<fate, pc, agentStop, waitVars, queueVars, turnVars, stopVars, retryVars,
                   hopVars>>

IdleAgentStop ==
    /\ Idle /\ agentStop
    /\ agentStop' = FALSE
    /\ pc' = "stopping"
    /\ UNCHANGED <<fate, failed, waitVars, queueVars, turnVars, stopVars, retryVars, hopVars>>

\* Mutant: the messages still on the bus are left there.
ShutdownDeferredOnly ==
    /\ pc = "stopping"
    /\ fate' = [m \in Message |->
                  IF m \in Range(deferred)
                  THEN IF entry[m] = "withdrawn" THEN "dropped" ELSE "noted"
                  ELSE fate[m]]
    /\ entry' = [m \in Message |-> IF m \in Range(deferred) THEN "none" ELSE entry[m]]
    /\ mainHops' = mainHops \ Range(deferred)
    /\ failed' = IF \E m \in Message : fate'[m] = "noted" THEN NoTurn ELSE failed
    /\ deferred' = <<>>
    /\ pc' = "exited"
    /\ UNCHANGED <<agentStop, told, asked, bus, turnVars, stopVars, retryVars,
                   midHops, hop, kickoffHop, inputs>>

\* graceful_shutdown, as far as messages go: what still waits becomes history,
\* another conversation's message on the topic included.
Shutdown ==
    LET waiting == Range(deferred) \cup Range(bus)
    IN  /\ pc = "stopping"
        /\ fate' = [m \in Message |->
                      IF m \in waiting
                      THEN IF m \in Range(deferred) /\ entry[m] = "withdrawn"
                           THEN "dropped" ELSE "noted"
                      ELSE fate[m]]
        /\ entry' = [m \in Message |-> IF m \in Range(deferred) THEN "none" ELSE entry[m]]
        /\ mainHops' = mainHops \ {m \in waiting : fate'[m] = "noted"}
        /\ failed' = IF \E m \in waiting : fate'[m] = "noted" THEN NoTurn ELSE failed
        /\ deferred' = <<>> /\ bus' = <<>>
        /\ pc' = "exited"
        /\ UNCHANGED <<agentStop, told, asked, turnVars, stopVars, retryVars,
                       midHops, hop, kickoffHop, inputs>>

-----------------------------------------------------------------------------
(* A turn.                                                                 *)

\* Mutant: requests made before the turn are left for it.
OpenedUndrained ==
    /\ pc = "opening"
    /\ pc' = "start"
    /\ UNCHANGED <<fate, agentStop, failed, waitVars, queueVars, turnVars, stopVars, retryVars,
                   hopVars>>

\* run_agent_turn_with_interrupts up to its select: drain_stale_stop_requests.
Opened ==
    /\ pc = "opening"
    /\ pc' = "start"
    /\ stops' = <<>>
    /\ UNCHANGED <<fate, agentStop, failed, waitVars, queueVars, turnVars, sending, stopsMade,
                   retryVars, hopVars>>

\* process_message or rerun_turn up to the first checkpoint.
Begin ==
    /\ pc = "start"
    /\ pc' = "checkpoint"
    /\ IF rerun
       THEN hop' = Bump(kickoffHop) /\ UNCHANGED <<failed, kickoffHop>>
       ELSE kickoffHop' = hop /\ failed' = NoTurn /\ UNCHANGED hop
    /\ UNCHANGED <<fate, agentStop, waitVars, queueVars, turnVars, stopVars, retryVars,
                   mainHops, midHops, inputs>>

\* Mutant: the message's own hops are not noted for the case that the turn leaves it.
MidTurnMessageUnnoted ==
    /\ InTurn /\ bus # <<>>
    /\ bus' = Tail(bus)
    /\ LET m == Head(bus) IN
           IF m \in Mine
           THEN /\ entry' = IF m \in Person THEN [entry EXCEPT ![m] = "queued"] ELSE entry
                /\ intr' = Append(intr, m)
                /\ hop' = Bump(HopOf(m, mainHops))
                /\ mainHops' = mainHops \ {m}
                /\ inputs' = inputs \cup {m}
                /\ UNCHANGED <<fate, midHops>>
           ELSE /\ fate' = [fate EXCEPT ![m] = "routed"]
                /\ UNCHANGED <<entry, intr, hop, mainHops, midHops, inputs>>
    /\ UNCHANGED <<pc, agentStop, failed, told, asked, deferred, held, leftovers, turn, no,
                   rerun, cancelled, stopReq, stopVars, retryVars, kickoffHop>>

\* handle_mid_turn_message: a person's message is listed as it starts to wait.
MidTurnMessage ==
    /\ InTurn /\ bus # <<>>
    /\ bus' = Tail(bus)
    /\ LET m == Head(bus) IN
           IF m \in Mine
           THEN /\ entry' = IF m \in Person THEN [entry EXCEPT ![m] = "queued"] ELSE entry
                /\ intr' = Append(intr, m)
                /\ hop' = Bump(HopOf(m, mainHops))
                /\ midHops' = midHops \cup (mainHops \cap {m})
                /\ mainHops' = mainHops \ {m}
                /\ inputs' = inputs \cup {m}
                /\ UNCHANGED fate
           ELSE /\ fate' = [fate EXCEPT ![m] = "routed"]
                /\ UNCHANGED <<entry, intr, hop, mainHops, midHops, inputs>>
    /\ UNCHANGED <<pc, agentStop, failed, told, asked, deferred, held, leftovers, turn, no,
                   rerun, cancelled, stopReq, stopVars, retryVars, kickoffHop>>

\* handle_mid_turn_stop_request.
MidTurnStop ==
    /\ InTurn /\ stops # <<>>
    /\ stops' = Tail(stops)
    /\ cancelled' = (cancelled \/ Head(stops).names \in {NoTurn, turn})
    /\ UNCHANGED <<fate, pc, agentStop, failed, waitVars, queueVars, intr, held, leftovers,
                   turn, no, rerun, stopReq, sending, stopsMade, retryVars, hopVars>>

\* refuse_retry_mid_turn.
MidTurnRetry ==
    /\ InTurn /\ retries # <<>>
    /\ retries' = Tail(retries)
    /\ UNCHANGED <<fate, pc, agentStop, failed, waitVars, queueVars, turnVars, stopVars,
                   retriesMade, hopVars>>

\* Mutant: the turn is cancelled and the agent's stop forgotten.
MidTurnAgentStopForgotten ==
    /\ InTurn /\ agentStop
    /\ agentStop' = FALSE
    /\ cancelled' = TRUE
    /\ UNCHANGED <<fate, pc, failed, waitVars, queueVars, intr, held, leftovers, turn, no,
                   rerun, stopReq, stopVars, retryVars, hopVars>>

\* stop_turn_for_agent_stop, and stop_requested.
MidTurnAgentStop ==
    /\ InTurn /\ agentStop
    /\ agentStop' = FALSE /\ stopReq' = TRUE
    /\ cancelled' = TRUE
    /\ UNCHANGED <<fate, pc, failed, waitVars, queueVars, intr, held, leftovers, turn, no,
                   rerun, stopVars, retryVars, hopVars>>

\* Mutant: a message to send now is held and left in the channel.
TakeInterruptTwice ==
    /\ pc = "checkpoint" /\ intr # <<>>
    /\ LET m == Head(intr) IN
           IF entry[m] = "send_now"
           THEN /\ held' = Append(held, m)
                /\ intr' = IF m \in Range(held) THEN Tail(intr) ELSE intr
                /\ UNCHANGED <<fate, entry>>
           ELSE /\ fate' = [fate EXCEPT ![m] = IF entry[m] = "withdrawn" THEN "dropped" ELSE "folded"]
                /\ entry' = [entry EXCEPT ![m] = "none"]
                /\ intr' = Tail(intr)
                /\ UNCHANGED held
    /\ UNCHANGED <<pc, agentStop, failed, told, asked, queueVars, leftovers, turn, no,
                   rerun, cancelled, stopReq, stopVars, retryVars, hopVars>>

\* drain_interrupts over MainInterrupts::try_recv and take_at_checkpoint, one
\* message at a time: publishing each is an await.
TakeInterrupt ==
    /\ pc = "checkpoint" /\ intr # <<>>
    /\ intr' = Tail(intr)
    /\ LET m == Head(intr) IN
           IF entry[m] = "send_now"
           THEN held' = Append(held, m) /\ UNCHANGED <<fate, entry>>
           ELSE /\ fate' = [fate EXCEPT ![m] = IF entry[m] = "withdrawn" THEN "dropped" ELSE "folded"]
                /\ entry' = [entry EXCEPT ![m] = "none"]
                /\ UNCHANGED held
    /\ UNCHANGED <<pc, agentStop, failed, told, asked, queueVars, leftovers, turn, no,
                   rerun, cancelled, stopReq, stopVars, retryVars, hopVars>>

\* The turn's future is ready.  into_leftovers begins with the held messages; a
\* failure is recorded for a retry.
Finish(ok) ==
    /\ pc' = "leaving"
    /\ leftovers' = held /\ held' = <<>> /\ cancelled' = FALSE
    /\ failed' = IF ok THEN failed ELSE turn
    /\ UNCHANGED <<fate, agentStop, waitVars, queueVars, intr, turn, no, rerun, stopReq,
                   stopVars, retryVars, hopVars>>

\* into_leftovers goes through the rest of the channel; keep_after_turn takes the
\* list's lock for each message, and a withdrawn one is dropped.
IntoLeftovers ==
    /\ pc = "leaving" /\ intr # <<>>
    /\ intr' = Tail(intr)
    /\ LET m == Head(intr) IN
           IF entry[m] = "withdrawn"
           THEN /\ fate' = [fate EXCEPT ![m] = "dropped"]
                /\ entry' = [entry EXCEPT ![m] = "none"]
                /\ UNCHANGED leftovers
           ELSE /\ leftovers' = Append(leftovers, m)
                /\ UNCHANGED <<fate, entry>>
    /\ UNCHANGED <<pc, agentStop, failed, told, asked, queueVars, held, turn, no, rerun,
                   cancelled, stopReq, stopVars, retryVars, hopVars>>

\* run_agent_turn_with_interrupts returns.
Left ==
    /\ pc = "leaving" /\ intr = <<>>
    /\ pc' = "after"
    /\ UNCHANGED <<fate, agentStop, failed, waitVars, queueVars, turnVars, stopVars, retryVars,
                   hopVars>>

\* check_interrupts_and_stop, once the channel is empty.
CheckStop ==
    /\ pc = "checkpoint" /\ intr = <<>>
    /\ IF cancelled
       THEN Finish(TRUE)
       ELSE /\ pc' = "model"
            /\ UNCHANGED <<fate, agentStop, failed, waitVars, queueVars, turnVars, stopVars,
                           retryVars, hopVars>>

\* A model call and its tools, then the next checkpoint.
NextCall ==
    /\ pc = "model"
    /\ pc' = "checkpoint"
    /\ UNCHANGED <<fate, agentStop, failed, waitVars, queueVars, turnVars, stopVars, retryVars,
                   hopVars>>

\* The call answers, is stopped, or fails; or the turn reaches a limit.
EndTurn(ok) == pc = "model" /\ Finish(ok)

\* defer_late_messages, after the turn was persisted and its end published: what
\* it left starts turns of its own, or becomes history when the agent stops.
DeferLate ==
    /\ pc = "after"
    /\ hop' = 0 /\ midHops' = {}
    /\ IF stopReq
       THEN /\ fate' = [m \in Message |-> IF m \in Range(leftovers) THEN "noted" ELSE fate[m]]
            /\ failed' = IF leftovers = <<>> THEN failed ELSE NoTurn
            /\ pc' = "stopping"
            /\ UNCHANGED <<deferred, mainHops>>
       ELSE /\ deferred' = deferred \o leftovers
            /\ mainHops' = mainHops \cup (Range(leftovers) \cap midHops)
            /\ pc' = "idle"
            /\ UNCHANGED <<fate, failed>>
    /\ leftovers' = <<>> /\ turn' = NoTurn /\ inputs' = {}
    /\ UNCHANGED <<agentStop, waitVars, bus, intr, held, no, rerun, cancelled, stopReq,
                   stopVars, retryVars, kickoffHop>>

-----------------------------------------------------------------------------

People ==
    \/ \E m \in Message : Send(m) \/ Withdraw(m) \/ SendNow(m) \/ SendNowStop(m) \/ RetryTurn(m)
    \/ \E t \in Mine \cup {NoTurn} : UserStop(t)
    \/ AgentStop

BetweenTurns ==
    TakeDeferred \/ TakeInbound \/ IdleStop \/ IdleRetry \/ RewriteHistory \/ IdleAgentStop

Channels == MidTurnMessage \/ MidTurnStop \/ MidTurnRetry \/ MidTurnAgentStop

Turn ==
    \/ Opened \/ Begin \/ TakeInterrupt \/ CheckStop \/ NextCall
    \/ \E ok \in BOOLEAN : EndTurn(ok)
    \/ IntoLeftovers \/ Left

Next == People \/ BetweenTurns \/ Channels \/ Turn \/ DeferLate \/ Shutdown

Spec == Init /\ [][Next]_vars

\* The event loop's task is scheduled.  Its select takes no arm for ever at the
\* cost of another, and a turn's calls to the model come to an end: the tool loop
\* is limited and a call that does not answer times out.
FairSpec ==
    /\ Spec
    /\ WF_vars(BetweenTurns)
    /\ WF_vars(Turn) /\ SF_vars(\E ok \in BOOLEAN : EndTurn(ok))
    /\ WF_vars(DeferLate) /\ WF_vars(Shutdown)
    /\ SF_vars(IdleAgentStop)

-----------------------------------------------------------------------------
(* Properties.                                                             *)

\* The type invariant: every variable keeps its type, and the stop channel its
\* capacity.
TypeOK ==
    /\ fate \in [Message -> Fate]
    /\ bus \in Seq(Message) /\ deferred \in Seq(Mine)
    /\ entry \in [Message -> Waiting]
    /\ intr \in Seq(Mine) /\ held \in Seq(Person) /\ leftovers \in Seq(Mine)
    /\ pc \in PC
    /\ turn \in Mine \cup {NoTurn} /\ no \in Nat /\ rerun \in BOOLEAN
    /\ cancelled \in BOOLEAN /\ stopReq \in BOOLEAN /\ agentStop \in BOOLEAN
    /\ stops \in Seq([names : Mine \cup {NoTurn}, seen : Nat]) /\ Len(stops) <= StopCapacity
    /\ sending \subseteq Person /\ stopsMade \in 0 .. MaxStops
    /\ failed \in Mine \cup {NoTurn}
    /\ retries \in Seq(Mine) /\ retriesMade \in 0 .. MaxRetries
    /\ mainHops \subseteq Agent /\ midHops \subseteq Agent
    /\ hop \in {0, 1} /\ kickoffHop \in {0, 1}
    /\ inputs \subseteq Mine /\ told \subseteq Person /\ asked \subseteq Person

\* Every message sent and not yet read, routed, dropped or noted sits in exactly one
\* queue, once: none is lost or doubled between the bus, the turn's channel, the held
\* ones, what the turn left and the deferred ones (turns.rs:304-358, 955-969).
InOnePlace ==
    LET all == bus \o intr \o held \o leftovers \o deferred
    IN  Range(all) = {m \in Message : fate[m] = "pending"} /\ IsInjective(all)

\* What the event loop promises a message, whatever queue holds it.
Life == INSTANCE MessageLife WITH
    Ending <- Fate \ {"unsent", "pending"}, Refusal <- {"unheard"}

\* A message is taken from its sender once, unless nobody listens any more, and opens a
\* turn, joins one, is routed, dropped or noted once, for good: no message opens two turns,
\* and none that a turn has read is dropped or noted later (run_loop.rs:1158-1220, 1301-1316;
\* turns.rs:304-358).
ImplementsMessageLife == Life!Spec

\* The list of waiting messages is obeyed wherever a message waits when its owner acts
\* on it: one whose withdrawal was confirmed opens no turn and joins none, and one whose
\* send-now was confirmed never joins a turn but opens its own (queued_messages.rs:64-143).
ListIsObeyed ==
    /\ \A m \in told : fate[m] \notin {"started", "folded"}
    /\ \A m \in asked : fate[m] # "folded"

\* A relayed message's hop count travels with it: it is in the messenger's table while
\* the message waits for a turn, in the turn's table while it waits in one, and nowhere
\* else; and a turn counts the hops of what it was given, no others unless it is a rerun
\* (messaging.rs:190-252, turns.rs:86-132, 368-428, 1081-1094).
HopsTravel ==
    /\ mainHops = Agent \cap (Range(bus) \cup Range(deferred))
    /\ Agent \cap (Range(intr) \cup Range(leftovers)) \subseteq midHops
    /\ InTurn =>
          /\ (inputs \cap Agent # {} /\ pc # "start") => hop = 1
          /\ (inputs \cap Agent = {} /\ ~rerun) => hop = 0

\* A stop request only cancels the turn that ran when the request was made
\* (turns.rs:437-469, 214-223).
StopHitsItsTurn ==
    [][(cancelled' /\ ~cancelled /\ Len(stops') < Len(stops)) => Head(stops).seen = no]_vars

\* Every message that reaches the topic before the shutdown's drain is read, routed,
\* dropped or noted in the end.
EveryMessageSettles == \A m \in Message : fate[m] = "pending" ~> fate[m] # "pending"

\* The hub's stop ends the agent, turn or no turn (run_loop.rs:1346-1350,
\* turns.rs:287-299).
AgentStopEnds == agentStop ~> pc = "exited"

\* A message whose withdrawal was confirmed never enters the agent's history
\* (queued_messages.rs:13-17).
WithdrawnIsNeverRead == \A m \in told : fate[m] \notin {"started", "folded", "noted"}

\* What is drained before a turn was made before it (turns.rs:210-212).
DrainedStopIsStale ==
    [][(pc = "opening" /\ pc' = "start") => \A i \in DOMAIN stops : stops[i].seen # no]_vars
=============================================================================
