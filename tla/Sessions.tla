------------------------------ MODULE Sessions ------------------------------
(***************************************************************************)
(* Agent sessions (crates/background): the registry of live runs, the      *)
(* runtime that drives a run through its turns, the messenger that gets a  *)
(* message to an address whatever its run is doing, and the spawn listener *)
(* that forks runs.                                                        *)
(*                                                                         *)
(* An address outlives its runs.  A message to a live run goes into that   *)
(* run's bounded interrupt channel; one to a run that is completing waits, *)
(* on a detached task, for the run to leave the registry; one to an        *)
(* address with no run publishes a spawn request that resumes it.  The     *)
(* runtime is multi-threaded: every lock acquisition of the registry is a  *)
(* step, and anything may happen between two of them.                      *)
(*                                                                         *)
(* The message texts, the memory merge and the session store are left out; *)
(* the spawn-request topic is the lossless FIFO that module Bus describes. *)
(***************************************************************************)
EXTENDS Naturals, Sequences, FiniteSets, Functions

CONSTANTS Addresses,      \* session addresses
          Chat,           \* messages from a conversation (Interrupt::UserMessage)
          Agent,          \* messages from an agent (Interrupt::AgentMessage)
          Task,           \* prompts that fork a session (subagent_spawn, pulses)
          Dest,           \* the address each message is for
          Capacity,       \* INTERRUPT_CHANNEL_CAPACITY
          MaxConcurrent,  \* permits of the hub's session budget
          MaxRuns,        \* bound: runs ever registered
          MaxStops        \* bound: no stop once this many runs are stopped

Message == Chat \cup Agent \cup Task

ASSUME SessionsAssumption ==
    /\ Addresses # {}
    /\ Chat \cap Agent = {} /\ Chat \cap Task = {} /\ Agent \cap Task = {}
    /\ Dest \in [Message -> Addresses]
    /\ Capacity \in Nat \ {0}
    /\ MaxConcurrent \in Nat \ {0}
    /\ MaxRuns \in Nat
    /\ MaxStops \in Nat

Run == 1 .. MaxRuns
NoRun == 0

\* A run's place in run_session, finish_run and recover_from_panic.
PC == {"unborn", "forking", "queued", "woken", "running", "after", "idle", "stopping", "drain",
       "drained", "completing", "panicked", "recovering", "recorded", "removed", "done"}

\* SessionState, for the entry of a live run.
SessionState == {"none", "forking", "queued", "running", "idle", "completing"}

\* What became of a message.  A refusal is told to the sender or logged; the
\* others name how a message in the system's hands came to be dropped.
Fate == {"unsent", "pending", "read", "refused", "unknown", "no_point",
         "fork_failed", "stopped", "woken_stopped", "after_drain", "panicked"}

VARIABLES
    entry,      \* registry: address -> the run registered there
    state,      \* registry: address -> SessionState of its entry
    point,      \* registry: address -> its resume point
    cancelled,  \* runs whose stop token is cancelled
    nextRun,    \* the next run id
    addr,       \* run -> its address
    pc,         \* run -> where its task is
    chan,       \* run -> its interrupt channel
    kickoff,    \* run -> input of its next turn
    leftover,   \* run -> messages drained at its teardown
    requests,   \* spawn requests published and not yet received
    handlers,   \* spawn requests being handled
    deferred,   \* detached deliveries, and sends between two steps
    fate        \* history: message -> what became of it

registry == <<entry, state, point>>
run == <<nextRun, addr, pc, kickoff, leftover>>
vars == <<registry, cancelled, run, chan, requests, handlers, deferred, fate>>

NoPoint == [run |-> NoRun, merged |-> FALSE]

\* Whatever carries messages from one place to another carries some.
Batch == Seq(Message) \ {<<>>}

Request == [addr : Addresses, form : {"task", "messages"}, msgs : Batch]

\* The listener handles one request at a time; one that meets a completing
\* run moves to a task of its own.
Handler == [by : {"listener", "task"}, pc : {"check", "losing", "build", "wait"},
            req : Request]

Deferred == [from : {"send", "deferred"}, pc : {"try", "wait", "resume"},
             addr : Addresses, msgs : Batch]

Init ==
    /\ entry = [a \in Addresses |-> NoRun]
    /\ state = [a \in Addresses |-> "none"]
    /\ point = [a \in Addresses |-> NoPoint]
    /\ cancelled = {}
    /\ nextRun = 1
    /\ addr = [r \in Run |-> CHOOSE a \in Addresses : TRUE]
    /\ pc = [r \in Run |-> "unborn"]
    /\ chan = [r \in Run |-> <<>>]
    /\ kickoff = [r \in Run |-> <<>>]
    /\ leftover = [r \in Run |-> <<>>]
    /\ requests = <<>>
    /\ handlers = {}
    /\ deferred = {}
    /\ fate = [m \in Message |-> "unsent"]

Settle(ms, f) == fate' = [m \in Message |-> IF m \in ms THEN f ELSE fate[m]]

-----------------------------------------------------------------------------
(* The registry.                                                           *)

\* Mutant: the interrupt channel is unbounded.
OutcomeUnbounded(a) ==
    IF entry[a] = NoRun THEN "NotLive"
    ELSE IF state[a] = "completing" THEN "Completing"
    ELSE "Delivered"

\* SessionRegistry::deliver under the lock.  A panicked run has dropped its
\* receiver, and a closed channel refuses like a full one.
Outcome(a) ==
    IF entry[a] = NoRun THEN "NotLive"
    ELSE IF state[a] = "completing" THEN "Completing"
    ELSE IF pc[entry[a]] = "panicked" \/ Len(chan[entry[a]]) >= Capacity THEN "Full"
    ELSE "Delivered"

Push(a, m) == chan' = [chan EXCEPT ![entry[a]] = Append(@, m)]

\* set_state names an address, not a run: it changes whatever entry is there.
SetState(a, st) ==
    state' = IF entry[a] = NoRun THEN state ELSE [state EXCEPT ![a] = st]

\* Mutant: the point is written to disk but not kept in memory.
RecordOnDiskOnly(r, merged) == UNCHANGED point

RecordResumePoint(r, merged) ==
    point' = [point EXCEPT ![addr[r]] = [run |-> r, merged |-> merged]]

Stop(a) ==
    /\ entry[a] # NoRun
    /\ state[a] # "completing"
    /\ entry[a] \notin cancelled
    /\ Cardinality(cancelled) < MaxStops
    /\ cancelled' = cancelled \cup {entry[a]}
    /\ UNCHANGED <<registry, run, chan, requests, handlers, deferred, fate>>

\* A chat interface's /stop: only a running turn is meant.
StopIfRunning(a) ==
    /\ entry[a] # NoRun
    /\ state[a] = "running"
    /\ entry[a] \notin cancelled
    /\ Cardinality(cancelled) < MaxStops
    /\ cancelled' = cancelled \cup {entry[a]}
    /\ UNCHANGED <<registry, run, chan, requests, handlers, deferred, fate>>

\* SessionRuntime::shutdown stops every run that is not completing; it then
\* only waits for the registry to empty, up to its deadline.
StopAll ==
    LET live == {entry[a] : a \in {b \in Addresses :
                                    entry[b] # NoRun /\ state[b] # "completing"}}
    IN
    /\ ~(live \subseteq cancelled)
    /\ Cardinality(cancelled) < MaxStops
    /\ cancelled' = cancelled \cup live
    /\ UNCHANGED <<registry, run, chan, requests, handlers, deferred, fate>>

-----------------------------------------------------------------------------
(* Senders.                                                                *)

Defer(from, at, a, ms) ==
    deferred' = deferred \cup {[from |-> from, pc |-> at, addr |-> a, msgs |-> ms]}

\* AgentMessenger::send to a session address.  A message past the hard hop
\* limit is refused before the registry is looked at.
Send(m) ==
    /\ m \in Agent
    /\ fate[m] = "unsent"
    /\ LET a == Dest[m] IN
       \/ Settle({m}, "refused") /\ UNCHANGED <<chan, deferred>>
       \/ /\ Outcome(a) = "Delivered"
          /\ Push(a, m) /\ Settle({m}, "pending") /\ UNCHANGED deferred
       \/ /\ Outcome(a) = "Full"
          /\ Settle({m}, "refused") /\ UNCHANGED <<chan, deferred>>
       \/ /\ Outcome(a) = "Completing"
          /\ Defer("deferred", "try", a, <<m>>) /\ Settle({m}, "pending") /\ UNCHANGED chan
       \/ /\ Outcome(a) = "NotLive"
          /\ Defer("send", "resume", a, <<m>>) /\ Settle({m}, "pending") /\ UNCHANGED chan
    /\ UNCHANGED <<registry, cancelled, run, requests, handlers>>

\* AgentMessenger::deliver_conversation: a full channel is retried.
DeliverConversation(m) ==
    /\ m \in Chat
    /\ fate[m] = "unsent"
    /\ LET a == Dest[m] IN
       \/ /\ Outcome(a) = "Delivered"
          /\ Push(a, m) /\ UNCHANGED deferred
       \/ /\ Outcome(a) \in {"Full", "Completing"}
          /\ Defer("deferred", "try", a, <<m>>) /\ UNCHANGED chan
       \/ /\ Outcome(a) = "NotLive"
          /\ Defer("send", "resume", a, <<m>>) /\ UNCHANGED chan
    /\ Settle({m}, "pending")
    /\ UNCHANGED <<registry, cancelled, run, requests, handlers>>

\* A spawn request for a prompt: subagent_spawn, a pulse, a due action.
RequestTask(m) ==
    /\ m \in Task
    /\ fate[m] = "unsent"
    /\ requests' = Append(requests, [addr |-> Dest[m], form |-> "task", msgs |-> <<m>>])
    /\ Settle({m}, "pending")
    /\ UNCHANGED <<registry, cancelled, run, chan, handlers, deferred>>

-----------------------------------------------------------------------------
(* Detached deliveries: deferred_resume for agent messages and             *)
(* deferred_conversation_resume for chat.  A task holding several messages *)
(* delivers them in order.                                                 *)

\* The task is done with its first message.
Advance(t) ==
    IF Len(t.msgs) = 1 THEN {}
    ELSE {[t EXCEPT !.from = "deferred", !.pc = "try", !.msgs = Tail(@)]}

Replace(t, new) == deferred' = (deferred \ {t}) \cup new

\* deliver_or_resume_deferred.
TryDeliver(t) ==
    /\ t.pc = "try"
    /\ LET m == Head(t.msgs) IN
       /\ m \notin Chat
       /\ \/ /\ Outcome(t.addr) = "Delivered"
             /\ Push(t.addr, m) /\ Replace(t, Advance(t)) /\ UNCHANGED fate
          \/ /\ Outcome(t.addr) = "Completing"
             /\ Replace(t, {[t EXCEPT !.pc = "wait"]}) /\ UNCHANGED <<chan, fate>>
          \/ /\ Outcome(t.addr) = "Full"
             /\ Replace(t, Advance(t)) /\ Settle({m}, "refused") /\ UNCHANGED chan
          \/ /\ Outcome(t.addr) = "NotLive"
             /\ Replace(t, {[t EXCEPT !.pc = "resume"]}) /\ UNCHANGED <<chan, fate>>
    /\ UNCHANGED <<registry, cancelled, run, requests, handlers>>

\* Mutant: chat is refused by a full channel like any message.
TryDeliverChatBusy(t) ==
    /\ t.pc = "try"
    /\ LET m == Head(t.msgs) IN
       /\ m \in Chat
       /\ \/ /\ Outcome(t.addr) = "Delivered"
             /\ Push(t.addr, m) /\ Replace(t, Advance(t)) /\ UNCHANGED fate
          \/ /\ Outcome(t.addr) = "Completing"
             /\ Replace(t, {[t EXCEPT !.pc = "wait"]}) /\ UNCHANGED <<chan, fate>>
          \/ /\ Outcome(t.addr) = "Full"
             /\ Replace(t, Advance(t)) /\ Settle({m}, "refused") /\ UNCHANGED chan
          \/ /\ Outcome(t.addr) = "NotLive"
             /\ Replace(t, {[t EXCEPT !.pc = "resume"]}) /\ UNCHANGED <<chan, fate>>
    /\ UNCHANGED <<registry, cancelled, run, requests, handlers>>

\* resume_or_start_conversation_after_clear: a full channel is tried again,
\* so nothing happens until it has room or its run is closing.
TryDeliverChat(t) ==
    /\ t.pc = "try"
    /\ LET m == Head(t.msgs) IN
       /\ m \in Chat
       /\ \/ /\ Outcome(t.addr) = "Delivered"
             /\ Push(t.addr, m) /\ Replace(t, Advance(t))
          \/ /\ Outcome(t.addr) = "Completing"
             /\ Replace(t, {[t EXCEPT !.pc = "wait"]}) /\ UNCHANGED chan
          \/ /\ Outcome(t.addr) = "NotLive"
             /\ Replace(t, {[t EXCEPT !.pc = "resume"]}) /\ UNCHANGED chan
    /\ UNCHANGED <<registry, cancelled, run, requests, handlers, fate>>

\* wait_until_clear returned; the address may be live again by the next try.
WaitClear(t) ==
    /\ t.pc = "wait"
    /\ entry[t.addr] = NoRun
    /\ Replace(t, {[t EXCEPT !.pc = "try"]})
    /\ UNCHANGED <<registry, cancelled, run, chan, requests, handlers, fate>>

Resume(a, m) ==
    requests' = Append(requests, [addr |-> a, form |-> "messages", msgs |-> <<m>>])

\* An agent message resumes the address from its resume point.  Without one
\* it goes nowhere: send reports it unknown, and a deferred delivery calls
\* it an inconsistency.
PublishResume(t) ==
    /\ t.pc = "resume"
    /\ LET m == Head(t.msgs) IN
       /\ m \notin Chat
       /\ \/ point[t.addr] # NoPoint /\ Resume(t.addr, m) /\ UNCHANGED fate
          \/ /\ point[t.addr] = NoPoint
             /\ Settle({m}, IF t.from = "send" THEN "unknown" ELSE "no_point")
             /\ UNCHANGED requests
    /\ Replace(t, Advance(t))
    /\ UNCHANGED <<registry, cancelled, run, chan, handlers>>

\* Chat resumes the address, or starts it if it never had a run.
PublishConversation(t) ==
    /\ t.pc = "resume"
    /\ Head(t.msgs) \in Chat
    /\ Resume(t.addr, Head(t.msgs))
    /\ Replace(t, Advance(t))
    /\ UNCHANGED <<registry, cancelled, run, chan, handlers, fate>>

-----------------------------------------------------------------------------
(* The spawn listener.                                                     *)

Become(h, new) == handlers' = (handlers \ {h}) \cup new

ListenerRecv ==
    /\ requests # <<>>
    /\ \A h \in handlers : h.by # "listener"
    /\ handlers' = handlers \cup {[by |-> "listener", pc |-> "check", req |-> Head(requests)]}
    /\ requests' = Tail(requests)
    /\ UNCHANGED <<registry, cancelled, run, chan, deferred, fate>>

\* handle_spawn_request looks at the address once and acts on what it saw.
CheckAddress(h) ==
    /\ h.pc = "check"
    /\ LET a == h.req.addr IN
         Become(h, {IF entry[a] = NoRun THEN [h EXCEPT !.pc = "build"]
                    ELSE IF state[a] = "completing"
                    THEN [h EXCEPT !.pc = "wait", !.by = "task"]
                    ELSE [h EXCEPT !.pc = "losing"]})
    /\ UNCHANGED <<registry, cancelled, run, chan, requests, deferred, fate>>

WaitSpawn(h) ==
    /\ h.pc = "wait"
    /\ entry[h.req.addr] = NoRun
    /\ Become(h, {[h EXCEPT !.pc = "check"]})
    /\ UNCHANGED <<registry, cancelled, run, chan, requests, deferred, fate>>

\* Mutant: the loser delivers its message and defers it as well.
DeliverLosingTwice(h) ==
    /\ h.pc = "losing"
    /\ LET a == h.req.addr IN
       /\ IF Outcome(a) = "Delivered" THEN Push(a, Head(h.req.msgs)) ELSE UNCHANGED chan
       /\ Become(h, {}) /\ Defer("deferred", "try", a, h.req.msgs)
    /\ UNCHANGED <<registry, cancelled, run, requests, fate>>

\* What the winner cannot take now moves to a detached task, except a prompt,
\* and an agent message its full channel refuses.
Refuses(h) ==
    \/ h.req.form = "task"
    \/ Head(h.req.msgs) \notin Chat /\ Outcome(h.req.addr) = "Full"

\* The request goes on with its other messages, in order.
LosingRest(h) ==
    IF Len(h.req.msgs) = 1 THEN {} ELSE {[h EXCEPT !.req.msgs = Tail(@)]}

\* One message of a request that lost its address.
DeliverLosing(h) ==
    /\ h.pc = "losing"
    /\ LET a == h.req.addr
           m == Head(h.req.msgs)
       IN
       \/ /\ Outcome(a) = "Delivered"
          /\ Push(a, m) /\ Become(h, LosingRest(h)) /\ UNCHANGED <<deferred, fate>>
       \/ /\ Outcome(a) # "Delivered" /\ Refuses(h)
          /\ Become(h, LosingRest(h)) /\ Settle({m}, "refused") /\ UNCHANGED <<chan, deferred>>
       \/ /\ Outcome(a) # "Delivered" /\ ~Refuses(h)
          /\ Become(h, {}) /\ Defer("deferred", "try", a, h.req.msgs) /\ UNCHANGED <<chan, fate>>
    /\ UNCHANGED <<registry, cancelled, run, requests>>

\* build_spawn_resources failed: nothing is forked.
BuildFails(h) ==
    /\ h.pc = "build"
    /\ Become(h, {})
    /\ Settle(Range(h.req.msgs), "fork_failed")
    /\ UNCHANGED <<registry, cancelled, run, chan, requests, deferred>>

\* Mutant: register inserts whatever the address holds.
SpawnClobbering(h) ==
    /\ h.pc = "build"
    /\ nextRun <= MaxRuns
    /\ LET a == h.req.addr IN
         /\ entry' = [entry EXCEPT ![a] = nextRun]
         /\ state' = [state EXCEPT ![a] = "forking"]
         /\ addr' = [addr EXCEPT ![nextRun] = a]
         /\ pc' = [pc EXCEPT ![nextRun] = "forking"]
         /\ kickoff' = [kickoff EXCEPT ![nextRun] = h.req.msgs]
         /\ nextRun' = nextRun + 1
         /\ Become(h, {})
    /\ UNCHANGED <<point, cancelled, leftover, chan, requests, deferred, fate>>

\* SessionRuntime::spawn: register is a compare-and-swap on the address.
Spawn(h) ==
    /\ h.pc = "build"
    /\ nextRun <= MaxRuns
    /\ LET a == h.req.addr IN
         /\ entry[a] = NoRun
         /\ entry' = [entry EXCEPT ![a] = nextRun]
         /\ state' = [state EXCEPT ![a] = "forking"]
         /\ addr' = [addr EXCEPT ![nextRun] = a]
         /\ pc' = [pc EXCEPT ![nextRun] = "forking"]
         /\ kickoff' = [kickoff EXCEPT ![nextRun] = h.req.msgs]
         /\ nextRun' = nextRun + 1
         /\ Become(h, {})
    /\ UNCHANGED <<point, cancelled, leftover, chan, requests, deferred, fate>>

\* The address was taken while the resources were built.
LoseSpawn(h) ==
    /\ h.pc = "build"
    /\ entry[h.req.addr] # NoRun
    /\ Become(h, {[h EXCEPT !.pc = "losing"]})
    /\ UNCHANGED <<registry, cancelled, run, chan, requests, deferred, fate>>

-----------------------------------------------------------------------------
(* A run's task: run_session, finish_run and recover_from_panic.           *)

Goto(r, l) == pc' = [pc EXCEPT ![r] = l]

\* The resume point is recorded at the start too, for a crash mid-run.
Begin(r) ==
    /\ pc[r] = "forking"
    /\ RecordResumePoint(r, FALSE)
    /\ SetState(addr[r], "queued")
    /\ Goto(r, "queued")
    /\ UNCHANGED <<entry, cancelled, nextRun, addr, kickoff, leftover, chan, requests,
                   handlers, deferred, fate>>

\* The stop wins the select: the turn never starts, and its input goes with
\* it, be it the fork's own or a message that woke the run.
StopQueued(r) ==
    /\ pc[r] \in {"queued", "woken"}
    /\ r \in cancelled
    /\ Settle(Range(kickoff[r]), IF pc[r] = "woken" THEN "woken_stopped" ELSE "stopped")
    /\ kickoff' = [kickoff EXCEPT ![r] = <<>>]
    /\ Goto(r, "stopping")
    /\ UNCHANGED <<registry, cancelled, nextRun, addr, leftover, chan, requests, handlers,
                   deferred>>

\* Mutant: a run that has ended still has its permit.
StartTurnLeaked(r) ==
    /\ pc[r] \in {"queued", "woken"}
    /\ r \notin cancelled
    /\ Cardinality({q \in Run : pc[q] \in {"running", "done"}}) < MaxConcurrent
    /\ SetState(addr[r], "running")
    /\ Settle(Range(kickoff[r]), "read")
    /\ kickoff' = [kickoff EXCEPT ![r] = <<>>]
    /\ Goto(r, "running")
    /\ UNCHANGED <<entry, point, cancelled, nextRun, addr, leftover, chan, requests,
                   handlers, deferred>>

\* A permit: the turn starts and takes its input into the transcript.
StartTurn(r) ==
    /\ pc[r] \in {"queued", "woken"}
    /\ r \notin cancelled
    /\ Cardinality({q \in Run : pc[q] = "running"}) < MaxConcurrent
    /\ SetState(addr[r], "running")
    /\ Settle(Range(kickoff[r]), "read")
    /\ kickoff' = [kickoff EXCEPT ![r] = <<>>]
    /\ Goto(r, "running")
    /\ UNCHANGED <<entry, point, cancelled, nextRun, addr, leftover, chan, requests,
                   handlers, deferred>>

\* drain_interrupts at a tool-loop checkpoint.
Checkpoint(r) ==
    /\ pc[r] = "running"
    /\ chan[r] # <<>>
    /\ Settle(Range(chan[r]), "read")
    /\ chan' = [chan EXCEPT ![r] = <<>>]
    /\ UNCHANGED <<registry, cancelled, run, requests, handlers, deferred>>

\* The turn ends and frees its permit.  A stopped turn is cancelled unless
\* its last model call failed, and the registry still says running.
EndTurn(r) ==
    /\ pc[r] = "running"
    /\ \/ r \in cancelled /\ Goto(r, "stopping")
       \/ Goto(r, "after")
    /\ UNCHANGED <<registry, cancelled, nextRun, addr, kickoff, leftover, chan, requests,
                   handlers, deferred, fate>>

\* after_turn is over.
GoIdle(r) ==
    /\ pc[r] = "after"
    /\ SetState(addr[r], "idle")
    /\ Goto(r, "idle")
    /\ UNCHANGED <<entry, point, cancelled, nextRun, addr, kickoff, leftover, chan, requests,
                   handlers, deferred, fate>>

StopIdle(r) ==
    /\ pc[r] = "idle"
    /\ r \in cancelled
    /\ Goto(r, "drain")
    /\ UNCHANGED <<registry, cancelled, nextRun, addr, kickoff, leftover, chan, requests,
                   handlers, deferred, fate>>

Wake(r) ==
    /\ pc[r] = "idle"
    /\ r \notin cancelled
    /\ chan[r] # <<>>
    /\ kickoff' = [kickoff EXCEPT ![r] = <<Head(chan[r])>>]
    /\ chan' = [chan EXCEPT ![r] = Tail(@)]
    /\ SetState(addr[r], "queued")
    /\ Goto(r, "woken")
    /\ UNCHANGED <<entry, point, cancelled, nextRun, addr, leftover, requests, handlers,
                   deferred, fate>>

\* The idle timeout, with the try_recv that looks once more.
IdleTimeout(r) ==
    /\ pc[r] = "idle"
    /\ r \notin cancelled
    /\ chan[r] = <<>>
    /\ Goto(r, "drain")
    /\ UNCHANGED <<registry, cancelled, nextRun, addr, kickoff, leftover, chan, requests,
                   handlers, deferred, fate>>

\* drain_pending_interrupts; a cancelled turn comes here after after_turn.
Drain(r) ==
    /\ pc[r] \in {"stopping", "drain"}
    /\ leftover' = [leftover EXCEPT ![r] = chan[r]]
    /\ chan' = [chan EXCEPT ![r] = <<>>]
    /\ Goto(r, "drained")
    /\ UNCHANGED <<registry, cancelled, nextRun, addr, kickoff, requests, handlers, deferred,
                   fate>>

\* finish_run closes the run to messages only now, after the drain.
SetCompleting(r) ==
    /\ pc[r] = "drained"
    /\ SetState(addr[r], "completing")
    /\ Goto(r, "completing")
    /\ UNCHANGED <<entry, point, cancelled, nextRun, addr, kickoff, leftover, chan, requests,
                   handlers, deferred, fate>>

\* A turn, after_turn or the memory merge panics: unwinding drops the
\* receiver and everything run_session held.
Panic(r) ==
    /\ pc[r] \in {"running", "after", "stopping", "completing"}
    /\ Settle(Range(chan[r]) \cup Range(leftover[r]), "panicked")
    /\ chan' = [chan EXCEPT ![r] = <<>>]
    /\ leftover' = [leftover EXCEPT ![r] = <<>>]
    /\ Goto(r, "panicked")
    /\ UNCHANGED <<registry, cancelled, nextRun, addr, kickoff, requests, handlers, deferred>>

\* Mutant: a panic ends the task, and nothing clears the entry.
RecoverNothing(r) ==
    /\ pc[r] = "panicked"
    /\ Goto(r, "done")
    /\ UNCHANGED <<registry, cancelled, nextRun, addr, kickoff, leftover, chan, requests,
                   handlers, deferred, fate>>

Recover(r) ==
    /\ pc[r] = "panicked"
    /\ SetState(addr[r], "completing")
    /\ Goto(r, "recovering")
    /\ UNCHANGED <<entry, point, cancelled, nextRun, addr, kickoff, leftover, chan, requests,
                   handlers, deferred, fate>>

\* After the memory merge, with the episode it produced.
RecordPoint(r) ==
    /\ pc[r] \in {"completing", "recovering"}
    /\ RecordResumePoint(r, TRUE)
    /\ Goto(r, "recorded")
    /\ UNCHANGED <<entry, state, cancelled, nextRun, addr, kickoff, leftover, chan, requests,
                   handlers, deferred, fate>>

\* Mutant: the run leaves before its final point is recorded.
RemoveEarly(r) ==
    /\ pc[r] \in {"completing", "recovering", "recorded"}
    /\ entry' = [entry EXCEPT ![addr[r]] = NoRun]
    /\ state' = [state EXCEPT ![addr[r]] = "none"]
    /\ Goto(r, "removed")
    /\ UNCHANGED <<point, cancelled, nextRun, addr, kickoff, leftover, chan, requests,
                   handlers, deferred, fate>>

\* remove checks that the entry is still this run's.
Remove(r) ==
    /\ pc[r] = "recorded"
    /\ IF entry[addr[r]] = r
       THEN /\ entry' = [entry EXCEPT ![addr[r]] = NoRun]
            /\ state' = [state EXCEPT ![addr[r]] = "none"]
       ELSE UNCHANGED <<entry, state>>
    /\ Goto(r, "removed")
    /\ UNCHANGED <<point, cancelled, nextRun, addr, kickoff, leftover, chan, requests,
                   handlers, deferred, fate>>

\* resume_with_pending: the same messages, agent messages first and then
\* chat, each in the order the channel held them.
Openings(s) ==
    {t \in [DOMAIN s -> Range(s)] :
        /\ Range(t) = Range(s)
        /\ \A i, j \in DOMAIN s : \A k, l \in DOMAIN s :
              s[i] = t[k] /\ s[j] = t[l] /\ k < l =>
                IF t[k] \in Chat THEN t[l] \in Chat /\ i < j
                ELSE t[l] \in Chat \/ i < j}

\* The run ends; whatever its channel was given after the drain goes with it.
ResumeLeftover(r) ==
    /\ pc[r] = "removed"
    /\ \/ leftover[r] = <<>> /\ UNCHANGED requests
       \/ /\ leftover[r] # <<>>
          /\ \E opening \in Openings(leftover[r]) :
                requests' = Append(requests, [addr |-> addr[r], form |-> "messages",
                                              msgs |-> opening])
    /\ Settle(Range(chan[r]), "after_drain")
    /\ leftover' = [leftover EXCEPT ![r] = <<>>]
    /\ chan' = [chan EXCEPT ![r] = <<>>]
    /\ Goto(r, "done")
    /\ UNCHANGED <<registry, cancelled, nextRun, addr, kickoff, handlers, deferred>>

-----------------------------------------------------------------------------
Sender(m) == Send(m) \/ DeliverConversation(m) \/ RequestTask(m)

\* retry_race_guard_user_message takes the same steps for a chat message
\* whose request lost its address.
Delivery(t) ==
    \/ TryDeliver(t) \/ TryDeliverChat(t) \/ WaitClear(t)
    \/ PublishResume(t) \/ PublishConversation(t)

Handling(h) ==
    \/ CheckAddress(h) \/ WaitSpawn(h) \/ DeliverLosing(h)
    \/ BuildFails(h) \/ Spawn(h) \/ LoseSpawn(h)

\* What a run's task does by itself; a panic is not something it must do.
RunStep(r) ==
    \/ Begin(r) \/ StopQueued(r) \/ StartTurn(r) \/ Checkpoint(r) \/ EndTurn(r)
    \/ GoIdle(r) \/ StopIdle(r) \/ Wake(r) \/ IdleTimeout(r) \/ Drain(r)
    \/ SetCompleting(r) \/ Recover(r) \/ RecordPoint(r) \/ Remove(r) \/ ResumeLeftover(r)

Next ==
    \/ \E m \in Message : Sender(m)
    \/ \E t \in deferred : Delivery(t)
    \/ ListenerRecv
    \/ \E h \in handlers : Handling(h)
    \/ \E r \in Run : RunStep(r) \/ Panic(r)
    \/ \E a \in Addresses : Stop(a) \/ StopIfRunning(a)
    \/ StopAll

Spec == Init /\ [][Next]_vars

\* Every task is scheduled again, turns end (they are bounded by the tool
\* iteration limit and the model timeouts), resources get built or fail, and
\* the idle timer fires.  Nobody need send, stop or panic.
FairSpec ==
    /\ Spec
    /\ WF_vars(ListenerRecv)
    /\ WF_vars(\E h \in handlers : Handling(h))
    /\ WF_vars(\E t \in deferred : Delivery(t))
    /\ \A r \in Run : WF_vars(RunStep(r))

-----------------------------------------------------------------------------
(* Properties.                                                             *)

TypeOK ==
    /\ entry \in [Addresses -> Run \cup {NoRun}]
    /\ state \in [Addresses -> SessionState]
    /\ point \in [Addresses -> [run : Run \cup {NoRun}, merged : BOOLEAN]]
    /\ cancelled \in SUBSET Run
    /\ nextRun \in 1 .. MaxRuns + 1
    /\ addr \in [Run -> Addresses]
    /\ pc \in [Run -> PC]
    /\ chan \in [Run -> Seq(Message)] /\ \A r \in Run : Len(chan[r]) <= Capacity
    /\ kickoff \in [Run -> Seq(Message)]
    /\ leftover \in [Run -> Seq(Message)]
    /\ requests \in Seq(Request)
    /\ handlers \in SUBSET Handler
    /\ deferred \in SUBSET Deferred
    /\ fate \in [Message -> Fate]

Ended == {"removed", "done"}

\* A run's task may still change its address's entry.
Live(r) == pc[r] \notin Ended \cup {"unborn"}

\* Two runs are never live at one address, although four paths fork runs
\* and each decides on an address it looked at earlier.
OneRunPerAddress ==
    \A r, q \in Run : Live(r) /\ Live(q) /\ addr[r] = addr[q] => r = q

\* A run's state changes reach its own entry: set_state names only the
\* address, so this is what keeps one run from closing another.
LiveRunIsRegistered == \A r \in Run : Live(r) => entry[addr[r]] = r

\* An address whose runs have all left holds the resume point of the newest
\* of them, with its merged episode: a message that resumes the address is
\* pointed at what the last run produced.
ResumePointIsNewest ==
    \A a \in Addresses : entry[a] = NoRun =>
        \A r \in Run : pc[r] # "unborn" /\ addr[r] = a =>
            point[a].merged /\ point[a].run >= r /\ addr[point[a].run] = a

\* record_resume_point inserts what it is given over whatever is there, yet an
\* address's point never goes back to an older run, nor from a run's merged
\* episode to the point it recorded when it began (registry.rs:324-341).
PointsOnlyAdvance ==
    [][\A a \in Addresses :
          \/ point'[a].run > point[a].run
          \/ point'[a].run = point[a].run /\ (point[a].merged => point'[a].merged)]_vars

\* A deferred delivery that finds the address clear always finds a resume
\* point too (deliver_or_resume_deferred calls a missing one an internal
\* inconsistency).
DeferredFindsPoint == \A m \in Message : fate[m] # "no_point"

\* Where a message is held: channels, inputs, leftovers, requests, tasks.
Positions(s, m) == {i \in DOMAIN s : s[i] = m}

Holders(m) ==
    (UNION { {<<"chan", r, i>> : i \in Positions(chan[r], m)} : r \in Run })
    \cup (UNION { {<<"kickoff", r, i>> : i \in Positions(kickoff[r], m)} : r \in Run })
    \cup (UNION { {<<"leftover", r, i>> : i \in Positions(leftover[r], m)} : r \in Run })
    \cup (UNION { {<<"request", j, i>> : i \in Positions(requests[j].msgs, m)} :
                  j \in DOMAIN requests })
    \cup (UNION { {<<"handler", h, i>> : i \in Positions(h.req.msgs, m)} : h \in handlers })
    \cup (UNION { {<<"deferred", t, i>> : i \in Positions(t.msgs, m)} : t \in deferred })

\* A message in the system's hands is in exactly one place, and one that was
\* read, refused or lost is in none: retries and races neither duplicate a
\* message nor let one vanish without a trace.
HeldOnce ==
    \A m \in Message :
        Cardinality(Holders(m)) = IF fate[m] = "pending" THEN 1 ELSE 0

\* What the sessions promise a message, whatever run, request or task holds it.
Life == INSTANCE MessageLife WITH
    Ending <- Fate \ {"unsent", "pending"}, Refusal <- {"refused"}

\* Whoever sends, retries, stops or panics, a message is accepted or refused once
\* (messaging.rs:268-330, 549-600), and one that was accepted is read or dropped once: its
\* fate is then final, and none is read after it was refused or refused after it was
\* read.
ImplementsMessageLife == Life!Spec

\* A chat message is never refused, for capacity or for losing a race.
ChatNeverRefused == \A m \in Chat : fate[m] \notin {"refused", "unknown", "no_point"}

\* A message accepted into a run's channel is not lost when the run tears
\* down: the drain finds it and the next run opens with it.
NothingAfterDrain == \A m \in Message : fate[m] # "after_drain"

\* A message that woke an idle run becomes the input of a turn, even when a
\* stop lands before the turn starts.
WokenMessageIsRead == \A m \in Message : fate[m] # "woken_stopped"

\* /stop touches a session only while its turn is running.
StopFindsTurn ==
    [][\A a \in Addresses : StopIfRunning(a) => pc[entry[a]] = "running"]_vars

\* Every message the system took is read, or dropped in one of the ways
\* Fate names: none waits for ever in a channel, a queue or a task.
EveryMessageSettles == \A m \in Message : fate[m] = "pending" ~> fate[m] # "pending"

\* A stopped run leaves the registry.
StopEndsRun == \A r \in Run : r \in cancelled ~> entry[addr[r]] # r
=============================================================================
