----------------------------- MODULE AgentHost -----------------------------
(* The hub's agent host (crates/hub/src/host.rs): the agents it knows, and   *)
(* what start, stop, restart, patch, create, delete and restore, the boot    *)
(* and the shutdown do to them.                                              *)
(*                                                                           *)
(* A request looks an agent's slot up and then waits for the slot's lock; by *)
(* then the agent may be deleted and its name taken again, so a slot is one  *)
(* of several a name has had. An agent that was started has an event loop    *)
(* and a supervisor, tasks of their own that no lock holds back. A request   *)
(* over HTTP is dropped at whatever it awaits when its client goes away.     *)
EXTENDS Integers, Sequences, FiniteSets

CONSTANTS
    Names,      \* folder names agents may have
    Found,      \* the agents on the disk when the hub starts
    Others,     \* further agents, of which only the ports are followed
    Requests,   \* requests for one operation each
    Ports,      \* ports a Teams section may name
    None,       \* no holder of a lock, no port
    MaxFaults,  \* bound on crashes, clients that leave and stops given up
    MaxReloads  \* bound on reloads followed

ASSUME AgentHostAssumption ==
    /\ Found \subseteq Names
    /\ Names \cap (Requests \cup Others) = {}
    /\ None \notin Names \cup Requests \cup Ports
    /\ MaxFaults \in Nat
    /\ MaxReloads \in Nat

VARIABLES
    slot,       \* name -> the slots it has had
    slots,      \* name -> the slot the host knows it by, 0 when it knows none
    dir,        \* the names whose directory is on the disk
    creating,   \* who holds creation_lock
    stopping,   \* begin_shutdown was called
    ports,      \* teams_ports: name -> the port it reserved
    router,     \* team_router: name -> the run whose messenger it has, or 0
    run,        \* name -> its runs, in the order their launches succeeded
    task,       \* requests, and the futures that boot and shutdown join
    hub,        \* where HubRuntime is
    abandoned,  \* history: names a stop gave up waiting for
    faults,     \* how many faults there were, at most MaxFaults
    reloads     \* how many reloads there were, at most MaxReloads

counted == <<faults, reloads>>

vars ==
    <<slot, slots, dir, creating, stopping, ports, router, run, task, hub, abandoned, counted>>

\* Besides requests, boot and shutdown have one future for each name.
Tasks == Requests \cup Names

Ops == {"start", "stop", "restart", "patch", "delete", "create", "restore"}

NewSlot ==
    [removed |-> FALSE, op |-> None, state |-> "stopped", running |-> 0, generation |-> 0]

Untasked == [op |-> "none", name |-> None, slot |-> 0, run |-> 0, pc |-> "new"]

Finished == [Untasked EXCEPT !.pc = "done"]

\* discover has registered the agents found on the disk.
Init ==
    /\ dir = Found
    /\ slot = [n \in Names |-> IF n \in Found THEN <<NewSlot>> ELSE <<>>]
    /\ slots = [n \in Names |-> IF n \in Found THEN 1 ELSE 0]
    /\ creating = None
    /\ stopping = FALSE
    /\ ports = [n \in Names \cup Others |-> None]
    /\ router = [n \in Names |-> 0]
    /\ run = [n \in Names |-> <<>>]
    /\ task = [t \in Tasks |-> Untasked]
    /\ hub = "boot"
    /\ abandoned = {}
    /\ faults = 0
    /\ reloads = 0

-----------------------------------------------------------------------------
(* What the steps of a task are made of.                                     *)

At(t, l) == task[t].pc = l

Goto(t, l) ==
    task' = [task EXCEPT ![t] = IF l = "done" THEN Finished ELSE [@ EXCEPT !.pc = l]]

SlotOf(t) == slot[task[t].name][task[t].slot]

\* The task goes on from l with its slot as s; at its end it lets op_lock go.
SlotBecomes(t, s, l) ==
    /\ slot' = [slot EXCEPT ![task[t].name][task[t].slot] =
                  [s EXCEPT !.op = IF l \in {"done", "detached"} THEN None ELSE t]]
    /\ Goto(t, l)

\* An early return or the end of an operation that holds op_lock.
Return(t) == SlotBecomes(t, SlotOf(t), "done")

\* set_state under the slot's state mutex: anything but running forgets the run.
InState(s, state) ==
    [s EXCEPT !.state = state, !.running = IF state = "running" THEN @ ELSE 0]

ReleasePort(n) == ports' = [ports EXCEPT ![n] = None]

Fault ==
    /\ faults < MaxFaults
    /\ faults' = faults + 1
    /\ UNCHANGED reloads

HeldByOther(n, p) == p # None /\ \E m \in (Names \cup Others) \ {n} : ports[m] = p

-----------------------------------------------------------------------------
(* Requests: the look-ups before any lock.                                   *)

\* start, stop, patch and delete find the slot or answer that there is none;
\* restart also refuses once the hub is shutting down.
AskForAgent(q, op, n) ==
    /\ At(q, "new")
    /\ op \in {"start", "stop", "restart", "patch", "delete"}
    /\ task' = [task EXCEPT ![q] =
                  IF slots[n] = 0 \/ (op = "restart" /\ stopping)
                  THEN Finished
                  ELSE [op |-> op, name |-> n, slot |-> slots[n], run |-> 0, pc |-> "waiting"]]
    /\ UNCHANGED <<slot, slots, dir, creating, stopping, ports, router, run, hub, abandoned, counted>>

\* create and restore go for creation_lock; restore refuses a known name first.
AskForNew(q, op, n) ==
    /\ At(q, "new")
    /\ op \in {"create", "restore"}
    /\ task' = [task EXCEPT ![q] =
                  IF stopping \/ (op = "restore" /\ slots[n] # 0)
                  THEN Finished
                  ELSE [op |-> op, name |-> n, slot |-> 0, run |-> 0, pc |-> "naming"]]
    /\ UNCHANGED <<slot, slots, dir, creating, stopping, ports, router, run, hub, abandoned, counted>>

\* The slot's op_lock, which every operation takes before its first step.
LockSlot(t) ==
    /\ At(t, "waiting")
    /\ SlotOf(t).op = None
    /\ SlotBecomes(t, SlotOf(t),
         CASE task[t].op \in {"start", "create", "restore"} -> "start"
           [] task[t].op \in {"stop", "restart", "delete"}  -> "stop"
           [] task[t].op = "patch"                          -> "patch")
    /\ UNCHANGED <<slots, dir, creating, stopping, ports, router, run, hub, abandoned, counted>>

-----------------------------------------------------------------------------
(* start_locked.                                                             *)

\* Mutant: a start that waited for the slot's lock does not look at the shutdown.
StartWhileStopping(t) ==
    /\ At(t, "start")
    /\ IF SlotOf(t).removed \/ SlotOf(t).state \in {"running", "starting"}
       THEN Return(t)
       ELSE SlotBecomes(t, InState(SlotOf(t), "starting"), "reserve")
    /\ UNCHANGED <<slots, dir, creating, stopping, ports, router, run, hub, abandoned, counted>>

\* Mutant: nor at the slot's removal.
StartRemoved(t) ==
    /\ At(t, "start")
    /\ IF stopping \/ SlotOf(t).state \in {"running", "starting"}
       THEN Return(t)
       ELSE SlotBecomes(t, InState(SlotOf(t), "starting"), "reserve")
    /\ UNCHANGED <<slots, dir, creating, stopping, ports, router, run, hub, abandoned, counted>>

\* ensure_present, ensure_not_stopping and the state, then set_state(Starting).
StartLocked(t) ==
    /\ At(t, "start")
    /\ IF SlotOf(t).removed \/ stopping \/ SlotOf(t).state \in {"running", "starting"}
       THEN Return(t)
       ELSE SlotBecomes(t, InState(SlotOf(t), "starting"), "reserve")
    /\ UNCHANGED <<slots, dir, creating, stopping, ports, router, run, hub, abandoned, counted>>

\* The config as it reads now names a port or none (or does not load, which is
\* the launcher's to report): reserve_teams_port fails if another agent has it.
ReserveTeamsPort(t) ==
    /\ At(t, "reserve")
    /\ \E p \in Ports \cup {None} :
         IF HeldByOther(task[t].name, p)
         THEN Goto(t, "failing") /\ UNCHANGED ports
         ELSE /\ ports' = [ports EXCEPT ![task[t].name] = IF p = None THEN @ ELSE p]
              /\ Goto(t, "launch")
    /\ UNCHANGED <<slot, slots, dir, creating, stopping, router, run, hub, abandoned, counted>>

\* An agent that is not followed starts, stops or reloads.
OtherAgent(o) ==
    /\ \E p \in Ports \cup {None} : ~HeldByOther(o, p) /\ ports' = [ports EXCEPT ![o] = p]
    /\ UNCHANGED <<slot, slots, dir, creating, stopping, router, run, task, hub, abandoned, counted>>

NewRun(t, loop) ==
    [slot |-> task[t].slot, generation |-> 0, loop |-> loop, requested |-> FALSE,
     told |-> FALSE, forced |-> FALSE, supervisor |-> "none", reloaded |-> FALSE]

\* The launcher's own task ends, and registers the agent's messenger last. Without
\* a directory it may succeed on the last known good config, and makes one.
Launched(t, loop) ==
    LET n == task[t].name  r == Len(run[n]) + 1 IN
    /\ run' = [run EXCEPT ![n] = Append(@, NewRun(t, loop))]
    /\ router' = [router EXCEPT ![n] = r]
    /\ dir' = dir \cup {n}

Launch(t) ==
    /\ At(t, "launch")
    /\ \/ /\ Launched(t, "built")
          /\ task' = [task EXCEPT ![t].run = Len(run[task[t].name]) + 1, ![t].pc = "attach"]
       \/ Goto(t, "failing") /\ UNCHANGED <<run, router, dir>>
    /\ UNCHANGED <<slot, slots, creating, stopping, ports, hub, abandoned, counted>>

\* attach, once the watcher listens: the event loop's task is spawned and the
\* run becomes the slot's, of a new generation.
Attach(t) ==
    /\ At(t, "attach")
    /\ LET n == task[t].name  r == task[t].run  s == SlotOf(t) IN
       /\ run' = [run EXCEPT ![n][r].loop = "on", ![n][r].generation = s.generation + 1]
       /\ SlotBecomes(t, [s EXCEPT !.generation = @ + 1, !.running = r], "announce")
    /\ UNCHANGED <<slots, dir, creating, stopping, ports, router, hub, abandoned, counted>>

\* attach goes on: set_state(Running), and the supervisor is spawned.
Announce(t) ==
    /\ At(t, "announce")
    /\ run' = [run EXCEPT ![task[t].name][task[t].run].supervisor = "join"]
    /\ SlotBecomes(t, InState(SlotOf(t), "running"), "done")
    /\ UNCHANGED <<slots, dir, creating, stopping, ports, router, hub, abandoned, counted>>

\* record_failure for a start. The caller holds op_lock, so no start of this
\* agent comes between set_state's mutex and its release of the port.
FailStart(t) ==
    /\ At(t, "failing")
    /\ SlotBecomes(t, InState(SlotOf(t), "failed"), "done")
    /\ ReleasePort(task[t].name)
    /\ UNCHANGED <<slots, dir, creating, stopping, router, run, hub, abandoned, counted>>
-----------------------------------------------------------------------------
(* stop_locked, and what restart and delete do after it.                     *)

\* Where an event loop is no more, and its stop channel closed.
Ended == {"stopped", "crashed", "aborted", "dropped"}

AfterStop(t) ==
    CASE task[t].op = "restart" -> "start"
      [] task[t].op = "delete"  -> "deprovision"
      [] OTHER                  -> "done"

\* ensure_present; without a run there is nothing to stop. Otherwise the stop is
\* marked and the messenger unregistered before the event loop is told.
StopLocked(t) ==
    /\ At(t, "stop")
    /\ LET n == task[t].name  s == SlotOf(t) IN
       \/ s.removed /\ Return(t) /\ UNCHANGED <<run, router>>
       \/ /\ ~s.removed /\ s.running = 0
          /\ SlotBecomes(t, s, AfterStop(t))
          /\ UNCHANGED <<run, router>>
       \/ /\ ~s.removed /\ s.running # 0
          /\ run' = [run EXCEPT ![n][s.running].requested = TRUE]
          /\ router' = [router EXCEPT ![n] = 0]
          /\ task' = [task EXCEPT ![t].run = s.running, ![t].pc = "sending"]
          /\ UNCHANGED slot
    /\ UNCHANGED <<slots, dir, creating, stopping, ports, hub, abandoned, counted>>

RunOf(t) == run[task[t].name][task[t].run]

\* stop_tx.send waits for room in a channel that holds one message, and no timeout is
\* running yet. It returns at once when the loop is gone and the channel closed.
SendStop(t) ==
    /\ At(t, "sending")
    /\ ~RunOf(t).told
    /\ run' = [run EXCEPT ![task[t].name][task[t].run].told = RunOf(t).loop \notin Ended]
    /\ Goto(t, "stopping")
    /\ UNCHANGED <<slot, slots, dir, creating, stopping, ports, router, hub, abandoned, counted>>

\* The supervisor has recorded the agent's exit, in time or after the abort.
StopSeesExit(t) ==
    /\ At(t, "stopping") \/ At(t, "aborting")
    /\ RunOf(t).supervisor = "done"
    /\ SlotBecomes(t, SlotOf(t), AfterStop(t))
    /\ UNCHANGED <<slots, dir, creating, stopping, ports, router, run, hub, abandoned, counted>>

\* Mutant: the wait for the exit has no timeout.
AwaitExit(t) ==
    /\ At(t, "stopping")
    /\ RunOf(t).supervisor = "done"
    /\ run' = [run EXCEPT ![task[t].name][task[t].run].forced = TRUE]
    /\ Goto(t, "aborting")
    /\ UNCHANGED <<slot, slots, dir, creating, stopping, ports, router, hub, abandoned, counted>>

\* STOP_TIMEOUT: the event loop's task is aborted.
StopTimeout(t) ==
    /\ At(t, "stopping")
    /\ RunOf(t).supervisor # "done"
    /\ run' = [run EXCEPT ![task[t].name][task[t].run].forced = TRUE]
    /\ Goto(t, "aborting")
    /\ UNCHANGED <<slot, slots, dir, creating, stopping, ports, router, hub, abandoned, counted>>

\* ABORT_SETTLE: the host calls the agent stopped and stops waiting.
AbortTimeout(t) ==
    /\ At(t, "aborting")
    /\ RunOf(t).supervisor # "done"
    /\ Fault
    /\ SlotBecomes(t, InState(SlotOf(t), "stopped"), AfterStop(t))
    /\ ReleasePort(task[t].name)
    /\ abandoned' = abandoned \cup {task[t].name}
    /\ UNCHANGED <<slots, dir, creating, stopping, router, run, hub>>

-----------------------------------------------------------------------------
(* patch and delete, under op_lock.                                          *)

\* apply_patch writes the config and waits a while for a reload, which an event
\* loop may do at any time. A deleted or missing agent has no file to patch.
Patch(t) ==
    /\ At(t, "patch")
    /\ Return(t)
    /\ UNCHANGED <<slots, dir, creating, stopping, ports, router, run, hub, abandoned, counted>>

\* deprovision_agent moves the directory away. It may fail before that, or after
\* it, on the role page: the host then keeps the slot of an agent that is gone.
Deprovision(t) ==
    /\ At(t, "deprovision")
    /\ LET n == task[t].name IN
       \/ Return(t) /\ UNCHANGED dir
       \/ n \in dir /\ dir' = dir \ {n} /\ Return(t)
       \/ n \in dir /\ dir' = dir \ {n} /\ Goto(t, "forget") /\ UNCHANGED slot
    /\ UNCHANGED <<slots, creating, stopping, ports, router, run, hub, abandoned, counted>>

\* The deletion is recorded; the slot is marked and then forgotten.
Forget(t) ==
    /\ At(t, "forget")
    /\ SlotBecomes(t, [SlotOf(t) EXCEPT !.removed = TRUE], "unport")
    /\ slots' = [slots EXCEPT ![task[t].name] = 0]
    /\ UNCHANGED <<dir, creating, stopping, ports, router, run, hub, abandoned, counted>>

\* forget's last act.
ForgetPort(t) ==
    /\ At(t, "unport")
    /\ ReleasePort(task[t].name)
    /\ Return(t)
    /\ UNCHANGED <<slots, dir, creating, stopping, router, run, hub, abandoned, counted>>

-----------------------------------------------------------------------------
(* create and restore.                                                       *)

LockCreation(t) ==
    /\ At(t, "naming")
    /\ creating = None
    /\ creating' = t
    /\ Goto(t, "making")
    /\ UNCHANGED <<slot, slots, dir, stopping, ports, router, run, hub, abandoned, counted>>

\* ensure_name_free and the look for a directory; then the files are written
\* aside and renamed into place, or restored with the config last.
Provision(t) ==
    /\ At(t, "making")
    /\ LET n == task[t].name IN
       \/ Goto(t, "done") /\ creating' = None /\ UNCHANGED dir
       \/ /\ slots[n] = 0 /\ n \notin dir
          /\ dir' = dir \cup {n}
          /\ Goto(t, "paging")
          /\ UNCHANGED creating
    /\ UNCHANGED <<slot, slots, stopping, ports, router, run, hub, abandoned, counted>>

\* Mutant: the name is entered, its slot is not.
AdoptWithoutSlot(t) ==
    /\ At(t, "paging")
    /\ slots' = [slots EXCEPT ![task[t].name] = Len(slot[task[t].name]) + 1]
    /\ Goto(t, "lookup")
    /\ creating' = None
    /\ UNCHANGED <<slot, dir, stopping, ports, router, run, hub, abandoned, counted>>

\* The role page is written and adopt makes the slot. When it cannot be written a
\* create takes the directory away again; a restore leaves it.
Adopt(t) ==
    /\ At(t, "paging")
    /\ LET n == task[t].name IN
       \/ /\ slots[n] = 0
          /\ slot' = [slot EXCEPT ![n] = Append(@, NewSlot)]
          /\ slots' = [slots EXCEPT ![n] = Len(slot[n]) + 1]
          /\ Goto(t, "lookup")
          /\ UNCHANGED dir
       \/ /\ dir' = IF task[t].op = "create" THEN dir \ {n} ELSE dir
          /\ Goto(t, "done")
          /\ UNCHANGED <<slot, slots>>
    /\ creating' = None
    /\ UNCHANGED <<stopping, ports, router, run, hub, abandoned, counted>>

\* The new agent is looked up again to be started; restore starts it only if its
\* settings say so.
LookUpNew(t) ==
    /\ At(t, "lookup")
    /\ LET n == task[t].name IN
       \/ slots[n] # 0 /\ task' = [task EXCEPT ![t].slot = slots[n], ![t].pc = "waiting"]
       \/ (slots[n] = 0 \/ task[t].op = "restore") /\ Goto(t, "done")
    /\ UNCHANGED <<slot, slots, dir, creating, stopping, ports, router, run, hub, abandoned, counted>>

-----------------------------------------------------------------------------
(* A client that goes away.                                                  *)

\* What a request may be awaiting.
AwaitsLocked == {"failing", "sending", "stopping", "aborting", "patch", "deprovision", "forget"}
AwaitsUnlocked == {"naming", "making", "paging", "waiting"}

\* The handler's future is dropped, and a lock it holds with it.
ClientLeaves(q) ==
    /\ Fault
    /\ \/ task[q].pc \in AwaitsLocked /\ Return(q) /\ UNCHANGED creating
       \/ /\ task[q].pc \in AwaitsUnlocked
          /\ creating' = IF creating = q THEN None ELSE creating
          /\ Goto(q, "done")
          /\ UNCHANGED slot
    /\ UNCHANGED <<slots, dir, stopping, ports, router, run, hub, abandoned>>

\* The launcher's task outlives the request that spawned it.
ClientLeavesLaunch(q) ==
    /\ Fault
    /\ At(q, "launch")
    /\ SlotBecomes(q, SlotOf(q), "detached")
    /\ UNCHANGED <<slots, dir, creating, stopping, ports, router, run, hub, abandoned>>

LaunchDetached(q) ==
    /\ At(q, "detached")
    /\ Launched(q, "dropped") \/ UNCHANGED <<run, router, dir>>
    /\ Goto(q, "done")
    /\ UNCHANGED <<slot, slots, creating, stopping, ports, hub, abandoned, counted>>

\* Before attach a launched agent's event loop is a value nobody has run.
ClientLeavesAttach(q) ==
    /\ Fault
    /\ At(q, "attach")
    /\ run' = [run EXCEPT ![task[q].name][task[q].run].loop = "dropped"]
    /\ Return(q)
    /\ UNCHANGED <<slots, dir, creating, stopping, ports, router, hub, abandoned>>

-----------------------------------------------------------------------------
(* A run: its event loop, its supervisor and its reloads.                    *)

\* The loop takes the stop: graceful_shutdown begins by unregistering the agent. It
\* never looks at the channel again.
LoopWindsDown(n, r) ==
    /\ run[n][r].loop = "on"
    /\ run[n][r].told
    /\ run' = [run EXCEPT ![n][r] = [@ EXCEPT !.loop = "leaving", !.told = FALSE]]
    /\ router' = [router EXCEPT ![n] = 0]
    /\ UNCHANGED <<slot, slots, dir, creating, stopping, ports, task, hub, abandoned, counted>>

\* It ends as it should, or because it was aborted, and its channel with it.
LoopEnds(n, r) ==
    /\ \E end \in {"stopped", "aborted"} :
         /\ \/ end = "stopped" /\ run[n][r].loop = "leaving"
            \/ end = "aborted" /\ run[n][r].loop \in {"on", "leaving"} /\ run[n][r].forced
         /\ run' = [run EXCEPT ![n][r] = [@ EXCEPT !.loop = end, !.told = FALSE]]
    /\ UNCHANGED <<slot, slots, dir, creating, stopping, ports, router, task, hub, abandoned, counted>>

\* It panics, or its message channel closes under it.
LoopCrashes(n, r) ==
    /\ Fault
    /\ run[n][r].loop \in {"on", "leaving"}
    /\ run' = [run EXCEPT ![n][r] = [@ EXCEPT !.loop = "crashed", !.told = FALSE]]
    /\ UNCHANGED <<slot, slots, dir, creating, stopping, ports, router, task, hub, abandoned>>

\* supervise: the join, and the cleanup of a run that did not shut itself down.
SuperviseJoin(n, r) ==
    /\ run[n][r].supervisor = "join"
    /\ run[n][r].loop \in Ended
    /\ run' = [run EXCEPT ![n][r].supervisor =
                 IF run[n][r].loop = "crashed" \/ run[n][r].forced THEN "cleanup" ELSE "leave"]
    /\ UNCHANGED <<slot, slots, dir, creating, stopping, ports, router, task, hub, abandoned, counted>>

SuperviseCleanup(n, r) ==
    /\ run[n][r].supervisor = "cleanup"
    /\ run' = [run EXCEPT ![n][r].supervisor = "leave"]
    /\ UNCHANGED <<slot, slots, dir, creating, stopping, ports, router, task, hub, abandoned, counted>>

\* The watcher is stopped; the agent leaves sibling discovery and the router.
SuperviseLeave(n, r) ==
    /\ run[n][r].supervisor = "leave"
    /\ run' = [run EXCEPT ![n][r].supervisor = "check"]
    /\ router' = [router EXCEPT ![n] = 0]
    /\ UNCHANGED <<slot, slots, dir, creating, stopping, ports, task, hub, abandoned, counted>>

\* Only the slot's newest run records how it ended.
SuperviseCheck(n, r) ==
    /\ run[n][r].supervisor = "check"
    /\ run' = [run EXCEPT ![n][r].supervisor =
                 IF slot[n][run[n][r].slot].generation = run[n][r].generation
                 THEN "record" ELSE "done"]
    /\ UNCHANGED <<slot, slots, dir, creating, stopping, ports, router, task, hub, abandoned, counted>>

\* set_state, after the report of a failure: no lock is held since the check, nor
\* between the slot's mutex and the release of the port.
SuperviseRecord(n, r) ==
    /\ run[n][r].supervisor = "record"
    /\ slot' = [slot EXCEPT ![n][run[n][r].slot] =
                  InState(@, IF run[n][r].loop = "crashed" THEN "failed" ELSE "stopped")]
    /\ run' = [run EXCEPT ![n][r].supervisor = "unport"]
    /\ UNCHANGED <<slots, dir, creating, stopping, ports, router, task, hub, abandoned, counted>>

\* Mutant: the agent leaves the router only once its end is recorded.
SuperviseLeaveLate(n, r) ==
    /\ run[n][r].supervisor = "unport"
    /\ ReleasePort(n)
    /\ router' = [router EXCEPT ![n] = 0]
    /\ run' = [run EXCEPT ![n][r].supervisor = "done"]
    /\ UNCHANGED <<slot, slots, dir, creating, stopping, task, hub, abandoned, counted>>

SuperviseUnport(n, r) ==
    /\ run[n][r].supervisor = "unport"
    /\ ReleasePort(n)
    /\ run' = [run EXCEPT ![n][r].supervisor = "done"]
    /\ UNCHANGED <<slot, slots, dir, creating, stopping, router, task, hub, abandoned, counted>>

\* The loop has reloaded its config, because of a patch, an edit or the hub's
\* config.
Reload(n, r) ==
    /\ reloads < MaxReloads
    /\ reloads' = reloads + 1
    /\ run[n][r].loop = "on"
    /\ run' = [run EXCEPT ![n][r].reloaded = TRUE]
    /\ UNCHANGED <<slot, slots, dir, creating, stopping, ports, router, task, hub, abandoned, faults>>

\* A task that attach spawned hears of it, however late, and moves the port.
RefreshTeamsPort(n, r) ==
    /\ run[n][r].reloaded
    /\ run' = [run EXCEPT ![n][r].reloaded = FALSE]
    /\ \/ UNCHANGED ports
       \/ n \in dir /\ \E p \in Ports \cup {None} :
            ~HeldByOther(n, p) /\ ports' = [ports EXCEPT ![n] = p]
    /\ UNCHANGED <<slot, slots, dir, creating, stopping, router, task, hub, abandoned, counted>>
-----------------------------------------------------------------------------
(* HubRuntime: boot, and shut_down.                                          *)

\* A future per slot known now, which takes the slot's lock and starts or stops it.
JoinAll(op, chosen) ==
    task' = [t \in Tasks |->
               IF t \in chosen
               THEN [op |-> op, name |-> t, slot |-> slots[t], run |-> 0, pc |-> "waiting"]
               ELSE task[t]]

Known == {n \in Names : slots[n] # 0}

Joined == \A n \in Names : task[n].pc \in {"new", "done"}

\* start_autostart: whichever agents are set to start with the hub.
StartAutostart ==
    /\ hub = "boot"
    /\ \E chosen \in SUBSET Known : JoinAll("start", chosen)
    /\ hub' = "starting"
    /\ UNCHANGED <<slot, slots, dir, creating, stopping, ports, router, run, abandoned, counted>>

\* A signal or a request ends the hub's loop once the boot is over.
BeginShutdown ==
    /\ hub = "starting"
    /\ Joined
    /\ stopping' = TRUE
    /\ hub' = "closing"
    /\ UNCHANGED <<slot, slots, dir, creating, ports, router, run, task, abandoned, counted>>

StopAll ==
    /\ hub = "closing"
    /\ JoinAll("stop", Known)
    /\ hub' = "stopping"
    /\ UNCHANGED <<slot, slots, dir, creating, stopping, ports, router, run, abandoned, counted>>

\* stop_all returns and the servers go down.
ShutDown ==
    /\ hub = "stopping"
    /\ Joined
    /\ hub' = "down"
    /\ UNCHANGED <<slot, slots, dir, creating, stopping, ports, router, run, task, abandoned, counted>>

-----------------------------------------------------------------------------

\* The steps a task takes by itself.
Step(t) ==
    \/ LockSlot(t) \/ StartLocked(t) \/ ReserveTeamsPort(t) \/ Launch(t) \/ Attach(t)
    \/ Announce(t) \/ FailStart(t)
    \/ StopLocked(t) \/ SendStop(t) \/ StopSeesExit(t) \/ StopTimeout(t) \/ AbortTimeout(t)
    \/ Patch(t) \/ Deprovision(t) \/ Forget(t) \/ ForgetPort(t)
    \/ LockCreation(t) \/ Provision(t) \/ Adopt(t) \/ LookUpNew(t) \/ LaunchDetached(t)

Supervise(n, r) ==
    \/ SuperviseJoin(n, r) \/ SuperviseCleanup(n, r) \/ SuperviseLeave(n, r)
    \/ SuperviseCheck(n, r) \/ SuperviseRecord(n, r) \/ SuperviseUnport(n, r)

Request(q) ==
    \/ \E op \in Ops, n \in Names : AskForAgent(q, op, n) \/ AskForNew(q, op, n)
    \/ ClientLeaves(q) \/ ClientLeavesLaunch(q) \/ ClientLeavesAttach(q)

RunGoesOn ==
    \E n \in Names : \E r \in DOMAIN run[n] :
        Supervise(n, r) \/ (run[n][r].forced /\ LoopEnds(n, r))

HubStep == StartAutostart \/ StopAll \/ ShutDown

Next ==
    \/ \E t \in Tasks : Step(t)
    \/ \E q \in Requests : Request(q)
    \/ \E n \in Names : \E r \in DOMAIN run[n] :
         \/ LoopWindsDown(n, r) \/ LoopEnds(n, r) \/ LoopCrashes(n, r) \/ Supervise(n, r)
         \/ Reload(n, r) \/ RefreshTeamsPort(n, r)
    \/ \E o \in Others : OtherAgent(o)
    \/ HubStep
    \/ BeginShutdown

Spec == Init /\ [][Next]_vars

\* Some task that can go on does, timeouts included, and so does some supervisor or
\* abort, unless it is one of the MaxFaults aborts a stop gives up on. That is enough,
\* as each has an end. An event loop may ignore its stop or wind down for ever, nobody
\* has to ask for anything and nothing has to fail.
FairSpec ==
    /\ Spec
    /\ WF_vars(\E t \in Tasks : Step(t))
    /\ WF_vars(RunGoesOn)
    /\ WF_vars(HubStep)

-----------------------------------------------------------------------------
(* Properties.                                                               *)

Loops == {"built", "on", "leaving"} \cup Ended

Slot ==
    [removed : BOOLEAN, op : Tasks \cup {None},
     state : {"stopped", "starting", "running", "failed"}, running : Nat, generation : Nat]

Run ==
    [slot : Nat, generation : Nat, loop : Loops, requested : BOOLEAN, told : BOOLEAN,
     forced : BOOLEAN,
     supervisor : {"none", "join", "cleanup", "leave", "check", "record", "unport", "done"},
     reloaded : BOOLEAN]

Task ==
    [op : Ops \cup {"none"}, name : Names \cup {None}, slot : Nat, run : Nat,
     pc : {"new", "naming", "making", "paging", "lookup", "waiting", "start", "reserve",
           "launch", "attach", "announce", "failing", "stop", "sending", "stopping", "aborting",
           "patch", "deprovision", "forget", "unport", "detached", "done"}]

\* Every variable has its type, and what names a slot or a run names one there is.
TypeOK ==
    /\ slot \in [Names -> Seq(Slot)]
    /\ slots \in [Names -> Nat]
    /\ \A n \in Names : slots[n] # 0 => slots[n] \in DOMAIN slot[n]
    /\ dir \subseteq Names
    /\ creating \in Tasks \cup {None}
    /\ stopping \in BOOLEAN
    /\ ports \in [Names \cup Others -> Ports \cup {None}]
    /\ router \in [Names -> Nat]
    /\ run \in [Names -> Seq(Run)]
    /\ \A n \in Names : \A r \in DOMAIN run[n] : run[n][r].slot \in DOMAIN slot[n]
    /\ task \in [Tasks -> Task]
    /\ hub \in {"boot", "starting", "closing", "stopping", "down"}
    /\ abandoned \subseteq Names
    /\ faults \in 0..MaxFaults
    /\ reloads \in 0..MaxReloads

Live(n, r) == run[n][r].loop \in {"on", "leaving"}

\* Once stop_all has returned, no agent's event loop runs, and none begins to,
\* except where a stop gave up waiting: shut_down refuses starts first "so nothing
\* can start after the sweep and be left running" (runtime.rs:706-707).
NothingOutlivesShutdown ==
    hub = "down" => \A n \in Names \ abandoned : \A r \in DOMAIN run[n] : ~Live(n, r)

\* An agent never has two event loops, whichever slots its name has had, unless a
\* stop gave one up: op_lock, the removed mark and creation_lock keep them apart.
OneLoopPerAgent ==
    \A n \in Names \ abandoned : \A q, r \in DOMAIN run[n] :
        Live(n, q) /\ Live(n, r) => q = r

\* Teammates reach an agent whose loop runs and whose stop was not asked for: no
\* task of an earlier run unregisters it (team_router knows agents by name only).
\* What may take its place is an agent nobody runs, launched for a slot that was
\* since deleted: the launch outlives the request whose client left.
RunningIsReachable ==
    \A n \in Names \ abandoned : \A r \in DOMAIN run[n] :
        run[n][r].loop = "on" /\ ~run[n][r].requested =>
            \E q \in DOMAIN run[n] : router[n] = q /\ (q = r \/ run[n][q].loop = "dropped")

\* What the host tells of an agent is true of its event loop: a loop that runs is the one of
\* the slot the host knows, whose state is starting or running, so an agent that is shown
\* stopped or failed, or is deleted, runs no more, unless a stop gave it up
\* (host.rs:924-974, 1143-1209, 1343-1382).
LoopIsKnown ==
    \A n \in Names \ abandoned : \A r \in DOMAIN run[n] : Live(n, r) =>
        /\ slots[n] = run[n][r].slot
        /\ slot[n][slots[n]].running = r
        /\ slot[n][slots[n]].state \in {"starting", "running"}

\* A stop waits to be sent, behind one that the agent's loop has not taken.
Clogged(n) ==
    \E t \in Tasks : task[t].name = n /\ At(t, "sending") /\ RunOf(t).told

\* Every operation that was begun ends, and so does the shutdown, though event loops
\* may ignore their stop and their abort: no lock's holder waits for one who waits for
\* the lock, and what waits for a loop has a timeout (host.rs:1192-1207). The one
\* exception is a stop sent to a loop that never takes the stop before it, whose client
\* has left (host.rs:1191): it holds up its agent's operations and the shutdown.
OperationsEnd ==
    /\ \A n \in Names :
          \/ <>[](faults > 0 /\ Clogged(n))
          \/ []<>(\A t \in Tasks : task[t].name # n)
    /\ \/ \E n \in Names : <>[](faults > 0 /\ Clogged(n))
       \/ []<>(hub \notin {"closing", "stopping"})

\* Not so: a stop "can take up to STOP_TIMEOUT plus ABORT_SETTLE" (host.rs:1186).
StopIsBounded ==
    \A t \in Tasks :
        At(t, "stop") ~> task[t].pc \notin {"stop", "sending", "stopping", "aborting"}

\* Not so: an agent that is starting is being built, so some operation is at work
\* on it ("The runtime is being built", docs/systems-usage/hub.md:27).
StartingIsBeingBuilt ==
    \A n \in Names : \A s \in DOMAIN slot[n] :
        slot[n][s].state = "starting" => slot[n][s].op # None

\* Not so: only agents that are starting or running hold a Teams port
\* (host.rs:352).
PortsAreInUse ==
    \A n \in Names : ports[n] # None =>
        slots[n] # 0 /\ slot[n][slots[n]].state \in {"starting", "running"}
=============================================================================
