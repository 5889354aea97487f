# Verification of residuum

Residuum runs personal AI agents. One process, the hub, hosts several agents;
each agent has a gateway that runs its main turns, sessions that run beside
them, a memory, a schedule, and chat interfaces. The process is a
multi-threaded tokio runtime (`src/src/main.rs:11`), so tasks that look
sequential in the source run in parallel and interleave at every lock, channel
and await.

This directory models the parts where that matters most, checks them with TLC
on small instances and proves their central invariants with TLAPS for all
instances. `PROJECT.json` holds the machine-readable side: the components, the
runs, the mutants, the lines each definition models, the findings, the hazards
and the theorems.

## Inventory

| Component | State | Operations | Hard behaviours | What makes it correct |
|---|---|---|---|---|
| **bus** (`crates/bus`) | subscriptions per (topic, type), per-subscriber channels, drop runs, backlog flags | publish, subscribe, receive, drop | parallel receivers and fan-out; a counter beside a channel; bounded and unbounded routes | no gap and no repetition on lossless routes; subscribe-then-publish is seen |
| **sessions** (`crates/background`: registry, runtime, messaging, listener) | the registry of live runs, resume points, interrupt channels, the permit budget, spawn requests | fork, deliver, wake, stop, complete, recover, resume | every path decides on an address it looked at earlier; detached retries; stops and panics at any point | one run per address; no message lost, duplicated or left waiting; resume points of the newest run |
| **session store and memory merge** (`background/store.rs`, `session_memory.rs`, `crates/memory`) | run records, staged observations, episodes, the observation log, the merged-run log, recent messages | begin, complete, recover at start-up, merge, reflect | crash, panic or failed write between two writes; a merge repeated after a crash; a compression of the log beside appends | a recorded run is merged once; no observation lost; a marker certifies its episode |
| **gateway: main turns** (`event_loop/run_loop.rs`, `turns.rs`, `queued_messages.rs`, `ws.rs`) | the main turn, its interrupt channel, the waiting list, deferred messages, stop and retry channels | start a turn, fold in, defer, withdraw, send now, stop, retry, shut down | a stop racing the end of its turn; a message that arrives after the last checkpoint; people acting on a message that moves | every message is read once or accounted for; a stop never hits a later turn |
| **gateway: post-turn workers** (`post_turn.rs`, `idle.rs`, `memory.rs`) | queued work, a coalescer per worker, the result channel | trigger, cycle, apply, idle transition, shut down | a trigger racing the end of a cycle; results applied to a context that moved on | no trigger lost, one cycle at a time, nothing observed twice |
| **gateway: pulse fires** (`pulse_fires.rs`, `event_loop/pulse_fire.rs`, `background/fire_stops.rs`) | the tracker of fires, stop tokens, the announce lock | begin, script, request a session, claim, follow, stop, end | a stop between a request, its claim and the session | a stopped fire leaves nothing running; the last event shown is current |
| **gateway: the rest** (turn journal, actions, reload) | the journal file, due times | record, replay, fire, reload | a crash in a turn | - |
| **agent** (`crates/agent`) | the transcript of a turn, tool results | model call, tool call, checkpoint, drain interrupts | interrupts and stops at tool boundaries | an interrupt is seen at the next boundary or starts the next turn |
| **proactivity** (`crates/proactivity`) | pulse and action schedules, last fires | due, fire, skip, overlap | restart between due and fired; overlapping fires | no fire lost or doubled |
| **hub: agent host** (`host.rs`, `runtime.rs`, `provision.rs`) | a slot per agent with its lock, state and run; runs and supervisors; Teams ports; the team router | start, stop, restart, patch, create, delete, restore, boot, shut down | requests for one agent that wait on each other; a name deleted and taken again; an HTTP client that leaves; an event loop that ignores its stop | one event loop per agent; nothing runs on after a shutdown; a running agent can be reached; every operation ends |
| **hub: the rest** (`crates/hub`) | configuration, last known good | reload, update | a reload that fails half way | a failing reload rolls back |
| **checkpoints** (`crates/checkpoints`) | snapshots of the workspace | begin, end, restore | writers during a snapshot | restore gives back what was there |
| **inference** (`crates/inference`) | failover chain, retry budget | attempt, retry, fail over | a stream that fails after output was shown | bounded attempts, no duplicated output |
| **a2a** (`crates/a2a`) | tasks of remote agents | create, update, cancel | updates out of order | terminal states stay terminal |
| **net** (`crates/net`) | tunnel streams, pairings | open, send, window update, close, pair | flow control, reconnects | windows never negative, no stream reused |
| **mcp, workspace, notify, interfaces, tools** | server registry, inbox, notice batches, adapters | connect, claim, batch, send | concurrent claims, timers | an inbox item is claimed once |
| **config, skills, protocol, core, tracing, CLI, web, mac** | files and views | parse, render | - | no protocol of their own |

How they interact: chat interfaces call `AgentMessenger::deliver_conversation`
and the registry's `stop_if_running`; tools call `AgentMessenger::send` and
publish spawn requests; pulses and due actions publish spawn requests too. The
requests travel over the bus to the one spawn listener of an agent, which forks
runs through the session runtime. A run tells the world about itself over the
bus, merges its memory when it ends and leaves a resume point behind.

## Modules

| Module | Models |
|---|---|
| `Bus` | `crates/bus/src/broker.rs`, `handle.rs` |
| `TopicLog` | the abstract specification of the bus: one log per route |
| `MessageLife` | the abstract specification of both message carriers: what becomes of one message |
| `Sessions` | `crates/background/src/registry.rs`, `runtime.rs`, `messaging.rs`, `listener.rs` |
| `MemoryMerge` | `crates/memory` (`merge_writer.rs`, `episode_store.rs`, `log_store.rs`, `recent_messages.rs`, `reflector`), `background/store.rs`, `session_memory.rs`, `gateway/memory.rs` |
| `PostTurn` | `crates/gateway/src/post_turn.rs`, `idle.rs`, what the event loop does with their results |
| `PulseFires` | `crates/gateway/src/pulse_fires.rs`, `event_loop/pulse_fire.rs`, `background/fire_stops.rs` |
| `MainTurns` | `crates/gateway/src/event_loop/run_loop.rs`, `turns.rs`, `queued_messages.rs`, `ws.rs`, the checkpoints of `crates/agent/src/turn.rs` and `core.rs` |
| `AgentHost` | `crates/hub/src/host.rs`, `provision.rs`, `runtime.rs`, `http/lifecycle.rs`, the start and end of an agent in `gateway/src/event_loop/run_loop.rs` |
| `MCBus`, `MCSessions`, `MCMemoryMerge`, `MCPostTurn`, `MCPulseFires`, `MCMainTurns`, `MCAgentHost` | instances for TLC |
| `SessionsProofs` | the registry, resume points, chat delivery, where every message is held, and that `Sessions` implements `MessageLife`, for every instance |
| `BusProofs` | the bus: its types, its backlog counters, that it implements `TopicLog`, and the order its subscribers see |
| `MainTurnsProofs` | where a message of the main agent is, the list people act on, stop requests and the turns they hit, and that `MainTurns` implements `MessageLife` |
| `MainHopsProofs` | the hop counts of relayed messages, and the types of `MainTurns` |
| `PulseFiresProofs` | stops, sessions and events of pulse fires |
| `MemoryMergeProofs` | what markers, run records and recent messages promise |
| `AgentHostProofs` | event loops, the shutdown and the router of the hub |
| `PostTurnProofs` | the workers' cycles, what they observe, and that no turn is lost |

Definitions that begin with the comment *Mutant* are deliberate faults, used to
show that a property can fail; no specification refers to them.

### Bus

Handles on other threads send commands through one bounded channel (`cmds`).
The broker takes a command at a time; a publish is fanned out subscriber by
subscriber (`job`), and for each the send, the increment of the lossless
counter and the read of the counter are steps of their own, because the
receiver runs in parallel. `handle` is a subscriber's handle: dropping it first
tries to send the unsubscription (and ignores a full channel) and then closes
the receiver. `backlog` is kept as an integer and wrapped only where it is read
(`QueueLen`), which lets a property say that no wrapped value is ever read.
`routed`, `since`, `got` and `promised` are history.

### Sessions

`entry`, `state` and `point` are the registry; its lock makes each operation on
it one step. A run is a number; `pc` is where its task stands:

    forking -> queued -> running -> after -> idle -> drain -> drained
                  ^                            |                 |
                  +----------- woken <---------+                 v
       done <- removed <- recorded <------------------------ completing

with `stopping` for the after-turn work of a cancelled turn and `panicked`,
`recovering` for the task's panic handler. `chan` is the run's interrupt
channel, `kickoff` the input of its next turn, `leftover` what the drain found.

A sender looks at the address once (`Outcome`) and either pushes, is refused,
hands the message to a detached task (`deferred`), or publishes a resume
request. `requests` is the listener's subscription, a lossless route of `Bus`.
The listener handles a request at a time (`handlers`), checks the address,
builds resources and registers; a request that meets a completing run waits in
a task of its own, one that meets a live run gives its messages to it.
`fate` is history: it records what became of a message, each way of being
dropped under its own name, so that a property can say which of them must not
happen.

Abstractions: texts, images, hop counts (a refusal for too many hops may happen
to any agent message), usage totals and events are left out; addresses are
model values, and two prompts may share one because `generate_address` draws a
16-bit suffix. A detached chat retry waits for room instead of polling for it.
Relays of results to a spawner are sends like any other. Delivery to `main` is `MainTurns!Send`; pulse-fire stop
tokens are in `PulseFires`.

### TopicLog, and how Bus implements it

`TopicLog` forgets the broker: a route is a log that events are appended to, a
subscriber joins at its end, a lossless one reads it event by event, a lossy one
may skip forward and never goes back. `Bus` instantiates it with the events the
broker took as the log, and a subscriber's registration, its receives and its
drop as join, read and leave (`LogPlace`, `LogCursor`); the property
`ImplementsTopicLog` is the abstract specification itself. Everything between
(command channel, fan-out, counters) is a stutter.

### MessageLife, which Sessions and MainTurns implement

`MessageLife` forgets every queue and task: a message is taken or turned away
once, and one that was taken is settled once, for good. `Sessions` and
`MainTurns` keep what became of each message in `fate`, and map it to itself;
they differ in how a message is turned away (`refused` when a channel is full or
a hop limit is reached, `unheard` when nobody subscribes any more) and in how it
can be settled. The property of both is `ImplementsMessageLife`.

### MemoryMerge

Every session run and the main agent's memory worker are writers, each a small
program counter over the steps of `merge`: check the merged-run log, take
`merge_lock`, allocate an episode id from the disk, write the artifacts one
after the other, record the run, write the marker, release; then, without the
lock, perhaps compress the log. The variables named *disk* survive a `Crash`,
which resets the rest and puts start-up in `recovering`; any write may fail, and
a run's task may panic and start over in `recover_from_panic`. An observation is
the id of its episode, an entry of the log the set of episodes it speaks for, so
a compression that loses one shows. `MaxFaults` bounds failures, panics and
crashes together.

### PostTurn

Queueing work and triggering the coalescer are two critical sections on the
event loop's thread, and a worker's run loop acts between them on another: they
are two steps. A loop's cycle takes what is queued, works, reports over the
result channel and asks the coalescer whether to go round again; the signal a
loop sends as its last act comes after it gave up running, when another loop may
already have begun. Results are applied only between turns.

`recent_messages.json` is written from two places, and either write may fail, which
the code only logs. A turn whose append failed (`memory.rs:44-55`) is in the agent's
context and in no file (`unsaved`); messages whose removal failed
(`memory.rs:258-262`) stay in the file and are loaded and observed again by a later
cycle (`unremoved`). Both variables are history, which no action reads. The merge and
the removal are two steps (`Observe`, `RemoveObserved`): turns are appended, and the
shutdown may abort the loop, between them.

### PulseFires

A fire's task, the listener that claims its token and builds its session, the
session and the people who stop it are interleaved between their awaits. An
announcement is a read of the run in flight and a publish, under a lock.
A fire's session is that of `Sessions`, reduced to the events a fire hears.

Left out: a fire whose generated address is another session's, whose request is then
delivered into that session without a claim (`pulse_fire.rs:276-278`,
`listener.rs:287-362`): a fire's number stands for its address here, and
`StoppedFireIsOver` is claimed of addresses that differ.

### MainTurns

The event loop is one task, so an action is what it does between two awaits.
`pc` is where it is:

    idle -> opening -> start -> checkpoint <-> model -> leaving -> after -> idle
      |                             |                     ^          |
      |                             +---------------------+          v
      +------------------------------------------------------> stopping -> exited

In `leaving` the turn is over and its channel is drained into the leftovers.

While a turn runs its `select!` also takes messages, stop requests, retries and
the hub's stop, in any order. A message is in exactly one of `bus`, `intr`,
`held`, `leftovers` and `deferred`; `entry` is the list that connections act on
from their own threads. A turn is named by the message that opened it, as in the
code, and `no` numbers turns only so that a property can tell a rerun from the
turn it repeats. A stop request carries the turn it names and, as history, the
number of the turn that was announced when it was made.

Left out: `Interrupt::Stopped` (always sent together with the cancelled token,
which each checkpoint reads as well), subconscious notes (no sender, no entry),
reloads, ticks and output endpoints. A failed publish to clients changes no
state here.

### AgentHost

A request looks its slot up and then waits for the slot's `op_lock`; what it does
under the lock is cut at its awaits (`task[t].pc`). Boot and shutdown have one
such future per agent. A name has had several slots when it was deleted and taken
again, and a slot several runs; a run's event loop and its supervisor are tasks
that no lock holds back. `set_state` is one step under the slot's mutex, and its
release of the port another one where no lock is held around both.

    waiting -> start -> reserve -> launch -> attach -> announce -> done
       |                   |         |
       |                   +---------+---> failing -> done
       +-> stop -> sending -> stopping -> aborting -> (start | deprovision | done)
       +-> patch -> done                                         |
                                                                 v
    naming -> making -> paging -> lookup                      forget -> unport -> done

The launcher runs in a task of its own, so a request dropped during it leaves the
launch going (`detached`). Faults are a crashed event loop, a client that leaves
and a stop that gives up (`ABORT_SETTLE`). The stop channel holds one message
(`run_loop.rs:64`) and the send to it has no timeout (`host.rs:1191`): a run is `told`
while its loop has not taken the message, and a second stop, whose predecessor's
client left, waits in `sending` with the slot's lock until it does. A stop that gives up calls an agent
stopped whose event loop may be running, so the safety properties leave its name
out (`abandoned`). Of other agents only their Teams ports are followed.

Left out: hub events, notices, activity and watchers, the team wiki's embedding
model, the record of deletions, shown names (a name is the folder's), the agent a
setup adds (`discover` runs once), and `POST /api/hub/stop-all`, which is a stop
per agent. The servers `HubRuntime` starts and ends are left out as well:
requests may come at any time, also after the sweep.

## Runs

| Run | Instance | Shows |
|---|---|---|
| `bus` | a publisher of 3 events on 2 routes, a lossless and a lossy subscriber of one, command channel of 2 | `BacklogReadIsQueueLength`, `PromisedIsReceived`; refinement: `ImplementsTopicLog` |
| `sessions` | one conversation, 2 chat and 2 agent messages, channel of 1, a stop, panics | `LiveRunIsRegistered`, `HeldOnce`, `ChatNeverRefused`, `ResumePointIsNewest`, `DeferredFindsPoint` |
| `sessions_live` | a conversation and a generated address two prompts collide on, one permit | `EveryMessageSettles`, `StopEndsRun` |
| `memory_merge` | a session run beside the main agent, 5 episodes, 2 main messages, 2 faults | `MarkerCertifies`, `RecordNamesMergedEpisode`, `RecentUntilObserved`, `MergedRunIsFinal`, `RecoveryCompletes` |
| `post_turn` | 2 turns of which the first may be judged, a command, timer or idle transition, both workers with two run loops each, shutdown | `OneCyclePerWorker`, `NoTurnIsLost`, `TriggersAreTaken`, `IdleContinuationReturns` |
| `pulse_fires` | two fires of a pulse, every form, a resume, stops, a panic, the end of the bus | `StoppedFireIsOver`, `LastEventIsCurrent`, `FollowedIsComing`, `EndedFireForksNothing` |
| `main_turns` | 2 messages of a person (symmetric), one of a session, one of another conversation, stop channel of 1, a stop, a retry | `InOnePlace`, `ListIsObeyed`, `HopsTravel`, `StopHitsItsTurn` |
| `main_turns_live` | one message of each kind | `EveryMessageSettles`, `AgentStopEnds` |
| `hub` | one agent on the disk, 3 requests (symmetric) of any kind, a fault, a port another agent wants | `NothingOutlivesShutdown`, `OneLoopPerAgent`, `RunningIsReachable` |
| `hub_live` | one agent on the disk, 2 requests, a fault, a reload | `OperationsEnd` |
| `drain_race`, `post_turn_idle` | see Findings | violated |

Each passing run of a safety property checks its module's `TypeOK` as well.

Bounds. Every `Max...` constant bounds an otherwise unbounded counter. A channel
of one or two messages is full, empty and in between within two sends. Two
racing messages of each kind let one be in the channel, one retry and one resume
an address. Two faults are what a failure during the recovery from a failure
takes; an interrupted merge and its repetition take an episode each, and five
episodes leave room for the main agent's beside them. Two turns and one
command are enough for a trigger before, during and after a cycle and for a turn that
is appended while a cycle works on the one before it, and two run loops per
worker for one that ends while the next begins; that only the first turn may be
evaluated (`MaxJudged`) bounds the other worker. Two fires overlap or follow each
other; a third would only repeat that. Two messages of a person make one overtake
the other, be held beside it, or be withdrawn while the other is sent now; with
the session's and the other conversation's they fill every queue at once. Three
requests beside the boot's and the shutdown's futures are enough for a start that
waits through a delete while the name is taken again, for a third run of an agent
whose first is still being cleaned up, and for a start whose client leaves, a delete
and a create while its launch goes on: with two, no run met the last of these, and
only the proof did.
Deadlock checking is off: these systems rest when there is nothing to do.

Fairness (`FairSpec`). The tokio scheduler polls every ready task again, so the
broker, the listener, each handler and detached task, each run's task, each
worker's run loop and the event loop are weakly fair. A turn ends because its
tool iterations and model calls are bounded and timed: in `MainTurns` the end of
the model call is strongly fair, since a turn passes many checkpoints before it.
The event loop's `select!` starts at a random arm, so the hub's stop is taken in
the end however many other arms are ready (`IdleAgentStop` is strongly fair). In
`MemoryMerge` the pipelines and the recovery at start-up proceed, and
`RecoveryCompletes` speaks of the time after the last fault. In `PostTurn` one
weak fairness is enough, for some step of the workers or of the event loop while there
is one (`Background`). In `AgentHost` some task goes on while one can, and both timers,
`STOP_TIMEOUT` and `ABORT_SETTLE`, are steps of the tasks that wait; an aborted event
loop ends at its next await or the supervisor of another moves, unless that is one of
the `MaxFaults` stops that give up. An event loop need never take a stop, nor finish
winding down. Nobody has to send, ask, stop, fail or panic.

## Proofs

`SessionsProofs` proves, for every set of addresses and messages and every
capacity, budget and bound:

* `TypeCorrect`: `TypeOK`. It is inductive because a batch in a request, a
  handler or a detached task is typed as non-empty: `Head` of it is a message.
* `LiveRunsAreRegistered`, `SingleRunPerAddress`, `NewestPointKept`:
  `LiveRunIsRegistered`, `OneRunPerAddress` and `ResumePointIsNewest`.
* `DeferredPointExists`: `DeferredFindsPoint`.
* `ChatIsNeverRefused`: `ChatNeverRefused`.
* `MessagesAreHeldOnce`: `HeldOnce`.

The inductive invariant for the registry's three is `RegistryInv`.
`LiveRunIsRegistered` alone is not inductive: registering a run must not
displace one, so the entries have to name live runs of their own address
(`EntryIsLive`), and a new id has to be fresh (`IdsInOrder`). For the resume
points, the run that leaves must be the newest of its address (`LiveIsNewest`)
and must find its own final point still standing (`RecordedStands`), which in
turn holds because only the registered run writes there. Run steps fall into a
few shapes, each with a lemma: a step that leaves the registry alone, a live
run that moves, one that records a point, one that leaves, one that ends, and a
registration.

`DeferredFindsPoint` speaks of what became of a message, so its invariant,
`PointInv`, has to follow the messages: a run past its fork has recorded a point
(`BegunHasPoint`), so a completing entry has one (`CompletingHasPoint`), and
whatever holds an agent's message because of such a run or such a resume has one
as well: a request (`RequestsHavePoint`), a request being handled
(`HandlersHavePoint`) and a detached delivery (`DeferredHavePoint`). Only a
plain `send` may meet an address without a point, and it holds one message.
Points are never taken away (`PointRecord`). For `ChatNeverRefused` the
strengthening (`ChatInv`) is that a prompt's request, the one kind a loser may
drop whole, holds no chat.

`HeldOnce` counts places over the whole system, which no step does, so its
invariant (`HeldInv`) says of each message which of six kinds of place has it
(`Kept`): a run's channel, its input or its leftovers, a request, a request being
handled or a detached delivery; exactly one of one kind while the message is
pending, none otherwise. No place repeats a message (`NoneRepeats`), although
the openings of a request are reordered before they are forked. And a run has an
input only before a turn and leftovers only after its drain (`EmptyHanded`), so
what is put there displaces nothing. The count follows from these with the
theorems on finite sets.

Two theorems go beyond what a run lists. `SessionsImplementMessageLife`
(`ImplementsMessageLife`): a step settles only messages it holds, and what is
held is pending (`HeldIsPending`, from `HeldInv`), so whatever a run, a request,
a handler or a detached task reads or drops was in no settled state before; and
only a send touches a message that was never sent. `PointsAlwaysAdvance`
(`PointsOnlyAdvance`, an action property): `record_resume_point` inserts over
whatever is there, and what keeps an older run from recording over a newer is
that a point names a run of its address that has begun (`PointIsOwn`), while the
run that records still has the address, so it is that run or a younger one.

`BusProofs` proves three things of the bus, for any handles, publishers, topics and
capacities:

* `TypeCorrect`: `TypeOK`. What `retain` keeps of the routing table (`Without`, a
  recursive function) is a sequence of the same routes, none repeated, in their
  order.
* `BacklogReadIsRight`: whatever the broker reads of a lossless counter
  (`BacklogReadIsQueueLength`) is the queue's length. The property speaks of one
  moment; the invariant (`CounterInv`) says at every moment by how much the counter
  is off: everything in the channel or in the receiver's hand is counted, but for
  the send whose increment is outstanding.
* `BusImplementsTopicLog`: the bus implements `TopicLog` (`ImplementsTopicLog`). The
  broker's publish is the log's `Accept`, its handling of a subscribe whose handle is
  open a `Join`, a lossless count and a lossy take a `Read`, a dropped handle a
  `Leave`, and every other step stutters. The invariant (`LogInv`) says of the
  registry that a handle is routed at most once, and after it asked (`RegInv`); of
  the publishers that their order is kept from the command channel to the logs
  (`OrderKept`); of a receiver that it is dropped only between two receives
  (`HandKept`); and of every subscription what its channel holds (`Fed`): for a
  lossless one, what it was given and has not read, to the last event; for a lossy
  one, events of the log after the last it read, in the log's order. A fan-out in
  progress is the hard part: between two of its sends some subscriptions have an
  event that others, registered as long, still lack.
* `SubscribersAlwaysAgree` (`SubscribersAgree`): what follows from the refinement for
  those who read a route. It is proved of `TopicLog`'s steps, seen through the
  mapping: a log repeats no event (`LogsNoRepeat`), is only appended to (`LogGrows`),
  and what a subscriber received is read from it at growing places (`ReadInOrder`).
  Two events a subscriber saw in some order are in the log in that order, so another
  cannot have seen them in the other.

`MainTurnsProofs` proves `MessagesAreInOnePlace` (`InOnePlace`) and
`ListIsAlwaysObeyed` (`ListIsObeyed`) from one invariant, `PlaceInv`: the five
queues repeat nothing, share nothing and together are the pending messages
(`Once`, `Placed`); leftovers exist only while a turn is leaving
(`LeftoversTaken`), without which a second turn's would displace them; and what
the list says of a message, and what was confirmed to a person, agrees with its
fate (`ListKept`). Lemmas about ranges of sequences carry a message from one queue
to another; the message a turn takes out of turn is found as a least index, whose
existence is the well-foundedness of the naturals.

It also proves `StopsHitTheirTurn` (`StopHitsItsTurn`, an action
property): while a turn polls the stop channel, all that is in it was made while
that turn was announced (`StopsAreFresh`), because the turn drained it as it began.
And `MainTurnsImplementMessageLife` (`ImplementsMessageLife`), from `PlaceInv`: what a
turn reads, routes, drops or notes was in a queue, so it was pending.

`MainHopsProofs` proves `HopsAlwaysTravel` (`HopsTravel`) on top of it. `HopInv`:
the list names only people's messages, so none that is held or withdrawn carries
hops; the channel is empty outside a turn; a count is in the table of the queue its
message is in; the turn's own count covers its inputs and is reset between turns;
and a rerun finds the count of the turn it repeats. `TypeCorrect` (`TypeOK` of
`MainTurns`) takes all three invariants and the types of the rest (`RestTyped`):
what is held is a person's because the list names only people's messages, and a
turn that is retried is the agent's own because it has started.

`PulseFiresProofs` proves all the safety properties of `PulseFires`:
`TypeCorrect` (`TypeOK`), `StoppedFiresAreOver` (`StoppedFireIsOver`),
`EndedFiresForkNothing` (`EndedFireForksNothing`, an action property),
`FollowedSessionsCome` (`FollowedIsComing`) and `LastEventsAreCurrent`
(`LastEventIsCurrent`). The first four follow from `FireInv`: a fire's request is
in the listener's queue at most once (`RequestedOnce`), and where a fire's task, its
offer, its request and its session stand relative to each other (`Ordered`, one
fire at a time, so a step has to be looked at for its own fire only). A stop is
honoured at whichever of the three places it is met, and `Ordered` is what says
that one of them is still to come. For the last event, `ShowInv` adds that whoever
is about to publish holds the announce lock (`LockHeld`), and that at every moment
when nothing of a pulse is due, the event about to be published, or else the last
one, shows the run in flight (`ShownOrDue`): without the first half two announcers
could publish in the wrong order what they read in the right one.

`MemoryMergeProofs` proves the safety properties of `MemoryMerge`, with any number
of crashes, panics and failed writes: `TypeCorrect` (`TypeOK`), `MarkersCertify`
(`MarkerCertifies`), `RecordsNameMergedEpisodes` (`RecordNamesMergedEpisode`),
`RecentKeptUntilObserved` (`RecentUntilObserved`) and `MergedRunsAreFinal`
(`MergedRunIsFinal`, an action property). The invariant follows three things. Of
the writers: who is past `merge_lock` holds it, alone, and its program counter says
which artifacts of its episode are written and what the disk says of its run
(`EpisodeAt`, `OutcomeAt`). Of the disk, which has to make sense at every moment
because a crash may come at any: an episode nobody writes is complete, or without
marker and record (`EpisodeKept`), and a recorded run has one episode (`RunKept`).
Of the main agent: what its cycle loaded is the beginning of the recent messages,
so the removal after it drops exactly that (`LoadedFirst`). That compressing the log
keeps every episode it speaks for is a lemma of its own (`ReplacedLog`).

`AgentHostProofs` proves the safety properties of `AgentHost` for any names,
requests, ports and numbers of faults: `TypeCorrect` (`TypeOK`), `AgentsHaveOneLoop`
(`OneLoopPerAgent`), `ShutdownLeavesNothing` (`NothingOutlivesShutdown`) and
`RunningAgentsAreReachable` (`RunningIsReachable`). None of them is inductive: each
speaks of event loops, while what keeps them apart is who holds a slot's lock. So
the invariant says first where tasks and slots are (`Placed`): a task past its wait
holds the lock of its slot, and the only slot of a name not marked removed is the
one the host knows, so that no two tasks are at work for one name. On top of that,
for every name no stop gave up (`Kept`): a live event loop, or one that is watched,
is its slot's run (`RunKept`); a slot's run has its slot's generation, and a
supervisor or a start that is about to spawn one (`SlotKept`); and a task knows what
it left its slot and its run in (`TaskKept`). A run that is stopped has let the
supervisor go before its next start, which is why no old supervisor unregisters a
new run. `LoopsAreKnown` (`LoopIsKnown`) follows from the same parts: a live loop is the
run of the slot the host knows, in the state `starting` or `running`. For the shutdown
(`HubKept`), what is live or being started once the sweep
has begun is on the slot its name's future waits for or holds (`Swept`): the flag is
set before the sweep looks, and every start reads it under the lock.

This proof changed a property. `RunningIsReachable` used to say that the router
names the running run, and TLC agreed with two requests; the proof could not rule
out that a launch whose client left registers after its slot was deleted and the
name was taken by a new agent (`host.rs:766-769` spawns it, `run_loop.rs:142`
registers), which takes a third. The property now says that what may stand in a
running agent's place is only such a dropped agent, and `hub` has three requests.

`PostTurnProofs` proves the safety properties of `PostTurn`: `TypeCorrect` (`TypeOK`),
`WorkersHaveOneCycle` (`OneCyclePerWorker`), `TurnsAreNeverLost` (`NoTurnIsLost`) and
`TurnsAreObservedOnce` (`ObservedOnce`). A worker's cycle is the only one because a
command run in place and the worker's loop are kept apart by who awaits whom
(`CycleInv`: `OnlyCycle` of each worker, and nothing called before a call is made). The
other two hold whichever appends and removals fail, and are proved from `ObserveInv`:
what a cycle loaded is still the beginning of the file when it removes it
(`LoadedFirst`), although turns are appended meanwhile, and the file accounts for every
turn (`FileInv`). Each turn is held or could not be saved, the file is in order, what is
observed comes before what is not (`ObservedFirst`), and an observed turn in the file is
there because a removal failed, or is on its way out of it (`OnTheirWay`).
`TurnsAreObservedOnce` is thus not a promise that no message is observed twice: it says
that nothing but a failed removal brings that about.

What a recursive function of the models computes (`Exchanges` of `PostTurn`, `Without`
of `Bus`) is proved by least counterexample: the set of lengths at which the claim
fails has, were it not empty, a least element, which the recursion's step refutes.

The assumptions are `SessionsAssumption`, `BusAssumption`, `MainTurnsAssumption`,
`PulseFiresAssumption`, `MergeAssumption`, `PostTurnAssumption` and
`AgentHostAssumption` (kinds of messages, writers and names that are apart,
destinations that are addresses, positive capacities and budgets), which TLC
evaluates on every run. Every invariant and action
property that a passing run checks is proved. `ImplementsMessageLife` (of `Sessions` and of
`MainTurns`), `PointsOnlyAdvance`, `SubscribersAgree`, `ObservedOnce` and `LoopIsKnown` are
proved and no run lists them; added to the module's cfg, TLC agrees with each of them
on the instance of the run. Model-checked only is liveness (the
leads-to properties), which is out of TLAPS's reach.

## Findings

Runs that show the code doing what a comment says it does not:

* `drain_race`: the teardown drains the channel and then marks the run
  completing. A message delivered between the two is accepted and never read,
  which the comment on the drain says cannot happen.
* `post_turn_idle`: the idle transition clears the agent's messages when its
  cycle's result arrives, with a turn that ended while the cycle ran
  (`idle.rs:43`: "a message that hasn't yet been observed is never wiped out").

### Other divergences

Met while modelling and stated as definitions no run lists; as an `INVARIANT`
(or `PROPERTY`, where it is an action formula) of the module's cfg each is
violated.

* `Sessions!WokenMessageIsRead`: a message that woke an idle run is only in a
  local variable until its turn starts; a stop in between drops it.
* `Sessions!StopFindsTurn`: the registry says running until the work after a
  turn is done, so `/stop` can end a session whose turn is already over.
* `MemoryMerge!InterruptedIsDetected`: the absence of a marker "is what lets
  reconciliation detect an interrupted write" (`episode_store.rs:146`), but an
  observation archive alone makes an episode pass for complete (`:198-200`).
* `PostTurn!CycleFindsWork`: a trigger that queues before a running cycle takes
  its work and marks a follow-up after it makes a cycle with nothing to do.
* `PostTurn!IndicatorShowsCycle`: the last signal of a loop that ended can come
  after the first of its successor, so the indicator is off during a cycle;
  `post_turn.rs:209-211` says two cycles never "show the busy indicator over each
  other".
* `PostTurn!NoteReachesNextTurn`: a note "for the next turn"
  (`post_turn.rs:504`) is rotated away when an observation's result is applied
  before that turn.
* `PulseFires!StoppedFireNeverFails`: a start failure is reported "as stopped
  when the fire had been stopped by then" (`pulse_fire.rs:319-320`); the flag is
  what the select loop has seen, so a stop it has not yet seen counts for nothing.
* `MainTurns!WithdrawnIsNeverRead`: what a turn leaves when the agent stops
  becomes history without asking the list, though "whoever takes a message out of
  either asks the list first" (`queued_messages.rs:12-13`).
* `MainTurns!DrainedStopIsStale`: a turn is announced to clients before the stop
  channel is drained for it, so a cancel of that very turn can be drained as stale
  (`turns.rs:210`: "necessarily predates the turn about to run").
* `AgentHost!StartingIsBeingBuilt`: the HTTP handlers await `start` in the
  request's own future (`lifecycle.rs:111`), which is dropped with the connection.
  The agent then stays `starting` with nobody at work on it, and `start`, `stop`
  and `restart` leave it so; `docs/systems-usage/hub.md:27` says "The runtime is
  being built". The agents' own tools create in a task of its own for this reason
  (`agent_lifecycle.rs:171`).
* `AgentHost!StopIsBounded`: a stop "can take up to `STOP_TIMEOUT` plus
  `ABORT_SETTLE`" (`host.rs:1186`), but before either it awaits room in a channel of one
  message (`host.rs:1191`, `run_loop.rs:64`). After a stop whose client left, with an
  event loop that has not taken it, the next stop or the shutdown's sweep waits there
  for as long as the loop does, holds `op_lock` and never aborts. `OperationsEnd` names
  this as its exception (`Clogged`).
* `AgentHost!PortsAreInUse`: "held by agents that are starting or running"
  (`host.rs:352`), but the task that hears of reloads may move a port after the
  agent has stopped, and a dropped start keeps its own. A supervisor's release,
  after the mutex of `set_state`, can also take the port a new start reserved.
* A delete that removes the directory and fails on the role page, or whose client
  leaves then, keeps the slot (`provision.rs:375`). A later start of it may succeed
  on the last known good config and make the directory again;
  `docs/systems-usage/hub.md:53` says a deleted agent's is never recreated.
* A launch goes on when the client of its request leaves, and registers its agent
  with the team router although nobody will run it; after a delete and a create of
  the name it registers over the agent that runs (`run_loop.rs:142`), and teammates'
  messages go to a messenger nobody reads until that agent is started again.
* A create whose client leaves after the directory is in place makes an agent the
  host does not know until the hub starts again.
* A stop that gave up lets a new run start beside the old one. The old
  supervisor compares generations and records without a lock between the two, and
  unregisters by name, so it can mark the new run stopped and unreachable.
* `publish_state` reads the state it announces after the slot's mutex is let go, so
  events may repeat a later state, though published "in order" (`host.rs:10`).
* `send_queued_now` marks its message and then sends a stop that names no turn
  (`ws.rs:586-612`). The turn may end in between, and the stop then hits the turn
  the message opened.
* The shutdown's drain of the topic keeps other conversations' messages in the
  main agent's history (`run_loop.rs:977`), and a message published after it is
  read by nobody.
* "Anything queued on the bus arrived after them" (`run_loop.rs:1332-1334`) holds
  of the deferred messages, but a message folded into a turn may overtake one
  deferred before it.

## Not modelled, and the plan

What is left out is listed per component in `PROJECT.json`. The HTTP handlers,
provider wire formats, chat adapters, tools and clients, which are most of the
repository's lines, are I/O and formatting around the protocols above. Of the
rest, in order:

1. **Hub configuration**: a reload that fails half way, rollback to the last known
   good.
2. **Schedules**: pulses and actions that fall due across restarts; the turn
   journal and its recovery.
3. **Smaller protocols**: inbox claims, inference failover, tunnel flow control,
   the Notify protocol of `wait_until_clear`.
4. **Composition**: `Sessions` and `MainTurns` over the abstract `TopicLog`, so
   that a relayed message is followed from one agent's turn to the other's.
5. **Proofs**: of the models above no safety property is left. `MessageLife` is what
   the composition would be proved with: a relay is settled in one carrier as it is
   taken in the other.
