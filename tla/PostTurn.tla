------------------------------ MODULE PostTurn ------------------------------
(***************************************************************************)
(* The background work after a main turn (crates/gateway post_turn.rs,     *)
(* memory.rs, idle.rs): the memory worker, which observes recent messages  *)
(* and reflects, and the subconscious worker, which evaluates turns.       *)
(*                                                                         *)
(* Only the event loop's thread queues work, but a worker's run loop runs  *)
(* on another thread: queueing takes one lock and triggering the coalescer *)
(* another, so a run loop may act in between.  Whatever needs the agent    *)
(* itself comes back over a result channel that the event loop drains.     *)
(*                                                                         *)
(* A turn is a number.  The agent's context is a sequence of turns and of  *)
(* the notes injected between them; every turn is a text exchange.         *)
(***************************************************************************)
EXTENDS Integers, Sequences, SequencesExt, FiniteSets

CONSTANTS KeptExchanges,  \* exchanges a rotation keeps (3 in the code)
          Loops,          \* bound: run loops of one worker alive at a time
          MaxTurns,       \* bound: main turns
          MaxJudged,      \* bound: the last turn the subconscious may evaluate
          MaxCommands     \* bound: commands, timers and idle transitions

Workers == {"memory", "subconscious"}
NoWorker == "none"
NoLoop == "none"

ASSUME PostTurnAssumption ==
    /\ KeptExchanges \in Nat
    /\ Loops # {} /\ NoLoop \notin Loops
    /\ MaxTurns \in Nat /\ MaxJudged \in Nat
    /\ MaxCommands \in Nat

VARIABLES
    turns,      \* main turns ended
    commands,   \* commands, timers and idle transitions so far
    context,    \* Agent.recent_messages
    recent,     \* recent_messages.json
    observed,   \* turns the episodes hold whose merge completed
    unsaved,    \* history: turns recent_messages.json could not be written for
    unremoved,  \* history: turns the file could not be rid of once observed
    hook,       \* the turn whose end-of-turn hook has not run, or 0
    calling,    \* the worker the event loop has queued for and not triggered
    queued,     \* MemoryWorker.queued
    idle,       \* an IdleContinuation waits in MemoryWorker.idle_continuation
    latest,     \* SubconsciousWorker.latest: turns waiting for evaluation
    running, pending, handle,  \* RunState of each worker
    cancelled,  \* workers whose shutdown token is cancelled
    stopped,    \* workers whose shutdown has returned
    loop,       \* worker -> run loop -> its step
    work,       \* worker -> run loop -> what its cycle took
    results,    \* the result channel
    shown       \* worker -> the last activity signal published

files == <<recent, observed, unsaved, unremoved>>
loopState == <<running, pending, handle, cancelled, stopped, loop, work>>
vars == <<hook, turns, commands, context, files, calling, queued, idle, latest,
          loopState, results, shown>>

NoWork == [observe |-> "none", reflect |-> FALSE, mem |-> FALSE]
NoCycle == [loaded |-> <<>>, merged |-> FALSE, reflect |-> FALSE, turns |-> {}]

Init ==
    /\ turns = 0
    /\ commands = 0
    /\ context = <<>>
    /\ recent = <<>>
    /\ observed = {}
    /\ unsaved = {}
    /\ unremoved = {}
    /\ hook = 0
    /\ calling = NoWorker
    /\ queued = NoWork
    /\ idle = FALSE
    /\ latest = {}
    /\ running = [w \in Workers |-> FALSE]
    /\ pending = [w \in Workers |-> FALSE]
    /\ handle = [w \in Workers |-> NoLoop]
    /\ cancelled = {}
    /\ stopped = {}
    /\ loop = [w \in Workers |-> [l \in Loops |-> "free"]]
    /\ work = [w \in Workers |-> [l \in Loops |-> NoCycle]]
    /\ results = <<>>
    /\ shown = [w \in Workers |-> FALSE]

Turn(n) == [kind |-> "turn", of |-> n]
Note(n) == [kind |-> "note", of |-> n]

EventLoopFree == hook = 0 /\ calling = NoWorker /\ cancelled = {}

-----------------------------------------------------------------------------
(* The event loop.                                                         *)

\* Mutant: work is queued without the snapshot to run it with.
QueueAutomaticBare ==
    queued' = [queued EXCEPT !.observe = IF @ = "none" THEN "automatic" ELSE @]

\* MemoryWorker::trigger: a forced observation already queued outranks it.
QueueAutomatic ==
    queued' = [queued EXCEPT !.mem = TRUE,
                             !.observe = IF @ = "none" THEN "automatic" ELSE @]

\* persist_and_check_thresholds of the turn n: its messages join the file and,
\* depending on how much there is, an observation is queued.
Persist(n) ==
    /\ recent' = Append(recent, n)
    /\ \/ UNCHANGED <<calling, queued>>
       \/ calling' = "memory" /\ QueueAutomatic
    /\ UNCHANGED unsaved

\* ... or cannot be written, which is only logged: the turn is in the agent's
\* context and in no file.
PersistFails(n) ==
    /\ unsaved' = unsaved \cup {n}
    /\ UNCHANGED <<recent, calling, queued>>

\* persist_and_maybe_observe.
EndTurn ==
    /\ EventLoopFree
    /\ turns < MaxTurns
    /\ turns' = turns + 1
    /\ context' = Append(context, Turn(turns + 1))
    /\ hook' = turns + 1
    /\ Persist(turns + 1) \/ PersistFails(turns + 1)
    /\ UNCHANGED <<commands, observed, unremoved, idle, latest, loopState, results, shown>>

\* run_end_of_turn_subconscious: the turn waits for evaluation, with any that
\* waits already, unless there is nothing to judge.
EndOfTurnHook ==
    /\ hook # 0
    /\ calling = NoWorker
    /\ hook' = 0
    /\ \/ UNCHANGED <<calling, latest>>
       \/ /\ hook <= MaxJudged
          /\ calling' = "subconscious"
          /\ latest' = latest \cup {hook}
    /\ UNCHANGED <<turns, commands, context, files, queued, idle, loopState,
                   results, shown>>

\* The observation's cooldown timer fires (run_observation).
ObserveDeadline ==
    /\ EventLoopFree
    /\ commands < MaxCommands
    /\ commands' = commands + 1
    /\ QueueAutomatic
    /\ calling' = "memory"
    /\ UNCHANGED <<hook, turns, context, files, idle, latest, loopState,
                   results, shown>>

\* /observe.
ForceObserve ==
    /\ EventLoopFree
    /\ commands < MaxCommands
    /\ commands' = commands + 1
    /\ queued' = [queued EXCEPT !.mem = TRUE, !.observe = "forced"]
    /\ calling' = "memory"
    /\ UNCHANGED <<hook, turns, context, files, idle, latest, loopState, results,
                   shown>>

\* /reflect.
ForceReflect ==
    /\ EventLoopFree
    /\ commands < MaxCommands
    /\ commands' = commands + 1
    /\ queued' = [queued EXCEPT !.mem = TRUE, !.reflect = TRUE]
    /\ calling' = "memory"
    /\ UNCHANGED <<hook, turns, context, files, idle, latest, loopState, results,
                   shown>>

\* execute_idle_transition, trigger_for_idle.
IdleTransition ==
    /\ EventLoopFree
    /\ commands < MaxCommands
    /\ commands' = commands + 1
    /\ idle' = TRUE
    /\ QueueAutomatic
    /\ calling' = "memory"
    /\ UNCHANGED <<hook, turns, context, files, latest, loopState, results, shown>>

\* A new task; which of the free names it gets is immaterial.
Spawn(w) ==
    LET l == CHOOSE k \in Loops : loop[w][k] = "free"
    IN  /\ \E k \in Loops : loop[w][k] = "free"
        /\ loop' = [loop EXCEPT ![w][l] = "start"]
        /\ handle' = [handle EXCEPT ![w] = l]

\* Mutant: a trigger spawns whether or not a loop is running.
TriggerAlways ==
    LET w == calling IN
    /\ w # NoWorker
    /\ calling' = NoWorker
    /\ running' = [running EXCEPT ![w] = TRUE]
    /\ Spawn(w)
    /\ UNCHANGED <<hook, turns, commands, context, files, queued, idle, latest,
                   pending, cancelled, stopped, work, results, shown>>

\* Mutant: a trigger that finds a loop running leaves nothing behind.
TriggerForgotten ==
    LET w == calling IN
    /\ w # NoWorker
    /\ calling' = NoWorker
    /\ IF running[w]
         THEN UNCHANGED <<running, handle, loop>>
         ELSE running' = [running EXCEPT ![w] = TRUE] /\ Spawn(w)
    /\ UNCHANGED <<hook, turns, commands, context, files, queued, idle, latest,
                   pending, cancelled, stopped, work, results, shown>>

\* Coalescer::trigger, under the coalescer's lock.
Trigger ==
    LET w == calling IN
    /\ w # NoWorker
    /\ calling' = NoWorker
    /\ IF running[w]
         THEN /\ pending' = [pending EXCEPT ![w] = TRUE]
              /\ UNCHANGED <<running, handle, loop>>
         ELSE /\ running' = [running EXCEPT ![w] = TRUE]
              /\ pending' = [pending EXCEPT ![w] = FALSE]
              /\ Spawn(w)
    /\ UNCHANGED <<hook, turns, commands, context, files, queued, idle, latest,
                   cancelled, stopped, work, results, shown>>

TurnsIn(items) == {i.of : i \in {j \in ToSet(items) : j.kind = "turn"}}

\* The turns among the items, in order.
Exchanges(items) ==
    LET upTo[n \in 0 .. Len(items)] ==
            IF n = 0 THEN <<>>
            ELSE IF items[n].kind = "turn" THEN Append(upTo[n - 1], items[n])
            ELSE upTo[n - 1]
    IN  upTo[Len(items)]

\* rotate_messages_after_observation: the last exchanges, and nothing else.
Rotated(items) ==
    LET exchanges == Exchanges(items)
        kept == IF Len(exchanges) < KeptExchanges THEN Len(exchanges) ELSE KeptExchanges
    IN  SubSeq(exchanges, Len(exchanges) - kept + 1, Len(exchanges))

\* apply_post_turn_result of an observation's end.
ApplyObservation ==
    /\ results # <<>>
    /\ Head(results).kind = "observation"
    /\ context' = Rotated(context)

\* apply_post_turn_result of the idle transition's cycle.
ApplyIdle ==
    /\ results # <<>>
    /\ Head(results).kind = "idle"
    /\ context' = <<>>

\* A reflection reloads observations only; notes are injected.
ApplyOther ==
    /\ results # <<>>
    /\ \/ Head(results).kind = "reflection" /\ UNCHANGED context
       \/ /\ Head(results).kind = "notes"
          /\ context' = Append(context, Note(Head(results).of))

ApplyResult ==
    /\ EventLoopFree
    /\ ApplyObservation \/ ApplyIdle \/ ApplyOther
    /\ results' = Tail(results)
    /\ UNCHANGED <<hook, turns, commands, files, calling, queued, idle, latest,
                   loopState, shown>>

\* Coalescer::shutdown begins, for the memory worker first.
Shutdown(w) ==
    /\ hook = 0 /\ calling = NoWorker
    /\ w = "subconscious" => "memory" \in stopped
    /\ w \notin cancelled
    /\ cancelled' = cancelled \cup {w}
    /\ UNCHANGED <<hook, turns, commands, context, files, calling, queued, idle,
                   latest, running, pending, handle, stopped, loop, work, results, shown>>

\* ... and returns when the loop it holds the handle of has ended, or aborts
\* that loop after the grace period.
ShutdownReturns(w) ==
    /\ w \in cancelled \ stopped
    /\ stopped' = stopped \cup {w}
    /\ handle' = [handle EXCEPT ![w] = NoLoop]
    /\ IF handle[w] = NoLoop \/ loop[w][handle[w]] = "free"
         THEN UNCHANGED <<loop, work>>
         ELSE /\ loop' = [loop EXCEPT ![w][handle[w]] = "free"]
              /\ work' = [work EXCEPT ![w][handle[w]] = NoCycle]
    /\ UNCHANGED <<hook, turns, commands, context, files, calling, queued, idle,
                   latest, running, pending, cancelled, results, shown>>

-----------------------------------------------------------------------------
(* A worker's run loop.                                                    *)

At(w, l, step) == loop[w][l] = step
Goto(w, l, step) == loop' = [loop EXCEPT ![w][l] = step]

\* publish_activity(.., true).
LoopStarts(w, l) ==
    /\ At(w, l, "start")
    /\ shown' = [shown EXCEPT ![w] = TRUE]
    /\ Goto(w, l, "take")
    /\ UNCHANGED <<hook, turns, commands, context, files, calling, queued, idle,
                   latest, running, pending, handle, cancelled, stopped, work, results>>

\* MemoryWorker::run_one_cycle takes what is queued and loads the messages.
TakeMemoryWork(l) ==
    /\ At("memory", l, "take")
    /\ queued' = NoWork
    /\ IF queued.mem
         THEN /\ work' = [work EXCEPT !["memory"][l] =
                            [NoCycle EXCEPT !.reflect = queued.reflect,
                                            !.loaded = IF queued.observe = "none"
                                                       THEN <<>> ELSE recent]]
              /\ Goto("memory", l, "work")
         ELSE Goto("memory", l, "owes") /\ UNCHANGED work
    /\ UNCHANGED <<hook, turns, commands, context, files, calling, idle, latest,
                   running, pending, handle, cancelled, stopped, results, shown>>

\* execute_observation or execute_forced_observation up to the merge.  The load
\* or the extraction may fail or be backed off, and so may the merge; shutdown
\* drops the extraction before anything is written.
Observe(l) ==
    LET c == work["memory"][l] IN
    /\ At("memory", l, "work")
    /\ \/ /\ c.loaded # <<>> /\ "memory" \notin cancelled
          /\ observed' = observed \cup ToSet(c.loaded)
          /\ work' = [work EXCEPT !["memory"][l].merged = TRUE]
          /\ Goto("memory", l, "remove")
       \/ UNCHANGED <<observed, work>> /\ Goto("memory", l, "report")
    /\ UNCHANGED <<hook, turns, commands, context, recent, unsaved, unremoved, calling, queued, idle,
                   latest, running, pending, handle, cancelled, stopped, results, shown>>

\* Mutant: the file is emptied, as though nothing had been appended meanwhile.
ClearRecent(l) ==
    /\ recent' = <<>>
    /\ UNCHANGED unremoved

\* remove_observed_recent_messages: as many messages as the cycle loaded go.
RemoveLoaded(l) ==
    /\ recent' = SubSeq(recent, Len(work["memory"][l].loaded) + 1, Len(recent))
    /\ UNCHANGED unremoved

\* ... or the file cannot be read or rewritten, which is only logged: they stay.
RemovalFails(l) ==
    /\ unremoved' = unremoved \cup ToSet(work["memory"][l].loaded)
    /\ UNCHANGED recent

\* persist_observation_outcome.
RemoveObserved(l) ==
    /\ At("memory", l, "remove")
    /\ RemoveLoaded(l) \/ RemovalFails(l)
    /\ Goto("memory", l, "report")
    /\ UNCHANGED <<hook, turns, commands, context, observed, unsaved, calling, queued, idle,
                   latest, running, pending, handle, cancelled, stopped, work, results, shown>>

\* execute_forced_reflection: only if one was asked for; it may fail, and
\* shutdown drops it.
MayReflect(l) == work["memory"][l].reflect /\ "memory" \notin cancelled

\* Mutant: an idle transition is only reported when something was observed.
ReportMemoryObserved(l) ==
    /\ At("memory", l, "report")
    /\ idle' = FALSE
    /\ results' = IF work["memory"][l].merged
                  THEN Append(results, [kind |-> IF idle THEN "idle" ELSE "observation", of |-> 0])
                  ELSE results
    /\ work' = [work EXCEPT !["memory"][l] = NoCycle]
    /\ Goto("memory", l, "owes")
    /\ UNCHANGED <<hook, turns, commands, context, files, calling, queued, latest, running,
                   pending, handle, cancelled, stopped, shown>>

\* The reflection and the end of the cycle: the continuation in the slot,
\* whichever trigger left it there, goes with this cycle's result.
ReportMemoryWork(l) ==
    LET merged == work["memory"][l].merged
        Send(kind) == results' = Append(results, [kind |-> kind, of |-> 0])
    IN
    /\ At("memory", l, "report")
    /\ idle' = FALSE
    /\ \/ idle /\ Send("idle")
       \/ ~idle /\ merged /\ Send("observation")
       \/ ~idle /\ ~merged /\ MayReflect(l) /\ Send("reflection")
       \/ ~idle /\ ~merged /\ UNCHANGED results
    /\ work' = [work EXCEPT !["memory"][l] = NoCycle]
    /\ Goto("memory", l, "owes")
    /\ UNCHANGED <<hook, turns, commands, context, files, calling, queued, latest, running,
                   pending, handle, cancelled, stopped, shown>>

\* SubconsciousWorker::run_one_cycle takes every turn waiting.
TakeTurns(l) ==
    /\ At("subconscious", l, "take")
    /\ latest' = {}
    /\ work' = [work EXCEPT !["subconscious"][l] = [NoCycle EXCEPT !.turns = latest]]
    /\ Goto("subconscious", l, IF latest = {} THEN "owes" ELSE "work")
    /\ UNCHANGED <<hook, turns, commands, context, files, calling, queued, idle,
                   running, pending, handle, cancelled, stopped, results, shown>>

\* The evaluation: it may find something to note, and a failed one falls back
\* to the notes queued mid-turn; shutdown drops it.
Evaluate(l) ==
    /\ At("subconscious", l, "work")
    /\ \/ UNCHANGED results
       \/ /\ "subconscious" \notin cancelled
          /\ \E n \in work["subconscious"][l].turns :
               results' = Append(results, [kind |-> "notes", of |-> n])
    /\ work' = [work EXCEPT !["subconscious"][l] = NoCycle]
    /\ Goto("subconscious", l, "owes")
    /\ UNCHANGED <<hook, turns, commands, context, files, calling, queued, idle, latest,
                   running, pending, handle, cancelled, stopped, shown>>

\* Coalescer::owes_another_cycle, under the coalescer's lock.
OwesAnotherCycle(w, l) ==
    /\ At(w, l, "owes")
    /\ pending' = [pending EXCEPT ![w] = FALSE]
    /\ IF pending[w] /\ w \notin cancelled
         THEN Goto(w, l, "take") /\ UNCHANGED running
         ELSE Goto(w, l, "tail") /\ running' = [running EXCEPT ![w] = FALSE]
    /\ UNCHANGED <<hook, turns, commands, context, files, calling, queued, idle,
                   latest, handle, cancelled, stopped, work, results, shown>>

\* publish_activity(.., false); the task ends.
LoopEnds(w, l) ==
    /\ At(w, l, "tail")
    /\ shown' = [shown EXCEPT ![w] = FALSE]
    /\ Goto(w, l, "free")
    /\ UNCHANGED <<hook, turns, commands, context, files, calling, queued, idle, latest,
                   running, pending, handle, cancelled, stopped, work, results>>

LoopStep(w, l) ==
    \/ LoopStarts(w, l)
    \/ w = "memory" /\ (\/ TakeMemoryWork(l) \/ Observe(l) \/ RemoveObserved(l)
                       \/ ReportMemoryWork(l))
    \/ w = "subconscious" /\ (TakeTurns(l) \/ Evaluate(l))
    \/ OwesAnotherCycle(w, l)
    \/ LoopEnds(w, l)

Next ==
    \/ EndTurn
    \/ EndOfTurnHook
    \/ ObserveDeadline
    \/ ForceObserve
    \/ ForceReflect
    \/ IdleTransition
    \/ Trigger
    \/ ApplyResult
    \/ \E w \in Workers : Shutdown(w) \/ ShutdownReturns(w)
    \/ \E w \in Workers, l \in Loops : LoopStep(w, l)

Spec == Init /\ [][Next]_vars

\* What goes on without a new turn, command or shutdown.
Background ==
    \/ EndOfTurnHook
    \/ Trigger
    \/ ApplyResult
    \/ \E w \in Workers, l \in Loops : LoopStep(w, l)

\* The executor runs some task while there is one to run.
FairSpec == Spec /\ WF_vars(Background)

-----------------------------------------------------------------------------
(* Properties.                                                             *)

Item == [kind : {"turn", "note"}, of : 1 .. MaxTurns]
Result == [kind : {"observation", "idle", "reflection"}, of : {0}]
            \cup [kind : {"notes"}, of : 1 .. MaxTurns]
Work == [loaded : Seq(1 .. MaxTurns), merged : BOOLEAN, reflect : BOOLEAN,
         turns : SUBSET (1 .. MaxTurns)]

\* The type of every variable; nothing is queued without a snapshot to run it
\* with.
TypeOK ==
    /\ turns \in 0 .. MaxTurns
    /\ commands \in 0 .. MaxCommands
    /\ context \in Seq(Item)
    /\ recent \in Seq(1 .. MaxTurns)
    /\ observed \subseteq 1 .. MaxTurns
    /\ unsaved \subseteq 1 .. MaxTurns /\ unremoved \subseteq 1 .. MaxTurns
    /\ hook \in 0 .. MaxTurns
    /\ calling \in Workers \cup {NoWorker}
    /\ queued \in [observe : {"none", "automatic", "forced"}, reflect : BOOLEAN,
                   mem : BOOLEAN]
    /\ queued.mem <=> (queued.observe # "none" \/ queued.reflect)
    /\ idle \in BOOLEAN
    /\ latest \subseteq 1 .. MaxTurns
    /\ running \in [Workers -> BOOLEAN]
    /\ pending \in [Workers -> BOOLEAN]
    /\ handle \in [Workers -> Loops \cup {NoLoop}]
    /\ stopped \subseteq cancelled /\ cancelled \subseteq Workers
    /\ loop \in [Workers -> [Loops -> {"free", "start", "take", "work", "remove",
                                       "report", "owes", "tail"}]]
    /\ work \in [Workers -> [Loops -> Work]]
    /\ results \in Seq(Result)
    /\ shown \in [Workers -> BOOLEAN]

InCycle(w) ==
    {l \in Loops : loop[w][l] \in {"start", "take", "work", "remove", "report", "owes"}}

\* At most one cycle of a worker is in flight, and exactly while the coalescer
\* says so: a loop that has given up running only has its last signal to send.
\* None outlives the shutdown of its worker.
OneCyclePerWorker ==
    \A w \in Workers :
        Cardinality(InCycle(w)) = IF running[w] /\ w \notin stopped THEN 1 ELSE 0

\* Only a removal that failed has messages observed again: what a cycle works on is in
\* no completed episode, but for turns the file could not be rid of (memory.rs:258-262).
ObservedOnce ==
    \A l \in Loops : loop["memory"][l] = "work" =>
        ToSet(work["memory"][l].loaded) \cap observed \subseteq unremoved

\* The turns the memory worker has merged and not removed yet.
Leaving ==
    UNION {ToSet(work["memory"][l].loaded) :
              l \in {k \in Loops : loop["memory"][k] = "remove"}}

EveryTurnIsHeld == observed \cup ToSet(recent) = (1 .. turns) \ unsaved

RecentInOrder == \A i, j \in DOMAIN recent : i < j => recent[i] < recent[j]

ObservedFirst ==
    \A i \in DOMAIN recent : recent[i] \notin observed => \A t \in observed : t < recent[i]

ObservedLeave ==
    "memory" \notin stopped =>
        observed \cap ToSet(recent) \subseteq unremoved \cup Leaving

\* Observation loses no turn and skips none, although turns are appended while a cycle
\* works on what it loaded and both writes of the file may fail (memory.rs:44-55, 116-262):
\*   - every turn is in a completed episode or in recent_messages.json, or its append failed;
\*   - the file holds its turns in order and once, and no episode went past one of them;
\*   - of the turns an episode holds the file holds those it could not be rid of, and those
\*     on their way out, unless the shutdown aborted the cycle between the two.
NoTurnIsLost == EveryTurnIsHeld /\ RecentInOrder /\ ObservedFirst /\ ObservedLeave

\* A trigger is never lost between queueing and the coalescer's lock: queued
\* memory work is taken by some cycle, and every turn handed to the subconscious
\* for evaluation, unless the worker is shut down.
TriggersAreTaken ==
    /\ []<>(~queued.mem \/ "memory" \in cancelled)
    /\ []<>(latest = {} \/ "subconscious" \in cancelled)

\* An idle transition always gets its continuation back on the event loop,
\* whichever cycle finishes first and whether or not it observed anything.
IdleContinuationReturns ==
    idle ~> (\/ "memory" \in cancelled
             \/ \E i \in DOMAIN results : results[i].kind = "idle")

\* run_one_cycle's comment: a run loop always finds a snapshot.  Violated when
\* a trigger queues before a running cycle takes and marks a follow-up after.
CycleFindsWork == \A l \in Loops : loop["memory"][l] = "take" => queued.mem

\* The busy indicator is on while a cycle is in flight.  Violated when the
\* signal of a loop that ended comes after that of the loop that followed.
IndicatorShowsCycle ==
    \A l \in Loops : loop["memory"][l] \notin {"free", "start", "tail", "owes"} => shown["memory"]

\* idle.rs: a message that has not been observed is never wiped out by the
\* clear racing ahead of it.  Violated by a turn that ends while the idle
\* cycle is in flight.
IdleClearsObserved ==
    [][ApplyResult /\ ApplyIdle => TurnsIn(context) \subseteq observed]_vars

UnseenNotes ==
    {i \in DOMAIN context :
        context[i].kind = "note" /\ \A j \in i .. Len(context) : context[j].kind = "note"}

\* A note is injected for the next turn to see.  Violated when an observation's
\* rotation is applied after it and before that turn.
NoteReachesNextTurn ==
    [][\A i \in UnseenNotes : context[i] \in ToSet(context')]_vars
=============================================================================
