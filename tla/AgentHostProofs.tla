-------------------------- MODULE AgentHostProofs --------------------------
(***************************************************************************)
(* The agent host for every set of agents and requests: no two event loops *)
(* of an agent, no loop after the shutdown, no agent unregistered by a     *)
(* task of an earlier run.                                                 *)
(***************************************************************************)
EXTENDS AgentHost, SequenceTheorems, TLAPS

-----------------------------------------------------------------------------
(* The inductive invariant.                                                *)

\* Where a task holds its slot's op_lock, has a slot, has a name, has a run.
Holding == {"start", "reserve", "launch", "attach", "announce", "failing", "stop", "sending",
            "stopping", "aborting", "patch", "deprovision", "forget", "unport"}
OnSlot == Holding \cup {"waiting", "detached"}
Named == OnSlot \cup {"naming", "making", "paging", "lookup"}
OnRun == {"attach", "announce", "sending", "stopping", "aborting"}

\* Where a task has found its slot present and holds the lock since.
Present == {"reserve", "launch", "attach", "announce", "failing", "sending", "stopping",
            "aborting", "deprovision", "forget"}

\* Where a start is on its way to an event loop.
Starting == {"reserve", "launch", "attach", "announce"}

\* Where a supervisor has still to record how its run ended.
Watching == {"join", "cleanup", "leave", "check", "record"}

\* What a task names exists, and the lock it holds is its own.
TaskPlaced(t) ==
    /\ task[t].pc \in {"new", "done"} => task[t].name = None
    /\ task[t].pc \in Named => task[t].name \in Names /\ task[t].op \in Ops
    /\ task[t].pc \in OnSlot => task[t].slot \in DOMAIN slot[task[t].name]
    /\ task[t].pc \in OnRun => task[t].run \in DOMAIN run[task[t].name]
    /\ task[t].pc \in Holding => SlotOf(t).op = t
    /\ task[t].pc \in Present => ~SlotOf(t).removed
    /\ task[t].op = "stop" => task[t].pc \in {"waiting", "stop", "sending", "stopping", "aborting"}

\* Of the slots a name has had only the one the host knows is not removed.
SlotPlaced(n, i) ==
    /\ ~slot[n][i].removed => slots[n] = i
    /\ slot[n][i].running # 0 => slot[n][i].running \in DOMAIN run[n]

\* The run a slot has is watched, or about to be.
SlotKept(n, i) ==
    LET s == slot[n][i] IN
    /\ s.state = "running" => s.running # 0
    /\ s.running # 0 =>
         /\ s.running \in DOMAIN run[n]
         /\ run[n][s.running].slot = i
         /\ run[n][s.running].generation = s.generation
         /\ ~s.removed
         /\ \/ s.state = "running" /\ run[n][s.running].supervisor \in Watching
            \/ /\ s.state = "starting" /\ run[n][s.running].supervisor = "none"
               /\ s.op \in Tasks /\ task[s.op].pc = "announce" /\ task[s.op].run = s.running
               /\ task[s.op].name = n /\ task[s.op].slot = i

\* Run r's messenger is registered, or one of an agent nobody runs.
Reached(n, r) ==
    \E q \in DOMAIN run[n] : router[n] = q /\ (q = r \/ run[n][q].loop = "dropped")

\* A run that is live or watched is its slot's.
RunKept(n, r) ==
    /\ Live(n, r) \/ run[n][r].supervisor \in Watching => slot[n][run[n][r].slot].running = r
    /\ run[n][r].supervisor \notin {"none", "join"} => run[n][r].loop \in Ended
    /\ run[n][r].loop = "on" /\ ~run[n][r].requested => Reached(n, r)

\* What a task that holds op_lock knows of its slot and of its run.
TaskKept(t) ==
    /\ task[t].pc \in {"reserve", "launch", "failing", "attach"} =>
          SlotOf(t).state = "starting" /\ SlotOf(t).running = 0
    /\ task[t].pc = "attach" =>
          /\ RunOf(t).loop = "built" /\ RunOf(t).supervisor = "none"
          /\ RunOf(t).slot = task[t].slot /\ Reached(task[t].name, task[t].run)
    /\ task[t].pc = "announce" => SlotOf(t).state = "starting" /\ SlotOf(t).running = task[t].run
    /\ task[t].pc \in {"sending", "stopping", "aborting"} =>
          /\ SlotOf(t).running \in {0, task[t].run}
          /\ RunOf(t).supervisor # "none"
    /\ task[t].pc \in {"deprovision", "forget"} => SlotOf(t).running = 0

Kept(n) ==
    /\ \A i \in DOMAIN slot[n] : SlotKept(n, i)
    /\ \A r \in DOMAIN run[n] : RunKept(n, r)
    /\ \A t \in Tasks : task[t].name = n => TaskKept(t)

\* Once the agents are being stopped, what is live or starting is on a slot whose
\* future has still to stop it.
Swept(n) ==
    /\ \A r \in DOMAIN run[n] : Live(n, r) =>
          task[n].pc \notin {"new", "done"} /\ run[n][r].slot = task[n].slot
    /\ \A t \in Tasks : task[t].name = n /\ task[t].pc \in Starting =>
          task[n].pc \notin {"new", "done"} /\ task[t].slot = task[n].slot

\* The futures of boot and shutdown.
FutureKept(n) ==
    /\ task[n].pc \notin {"new", "done"} => task[n].name = n
    /\ hub \in {"boot", "closing", "down"} => task[n].pc \in {"new", "done"}
    /\ hub \in {"stopping", "down"} /\ task[n].pc \notin {"new", "done"} => task[n].op = "stop"
    /\ hub \in {"stopping", "down"} /\ n \notin abandoned => Swept(n)

Placed ==
    /\ \A t \in Tasks : TaskPlaced(t)
    /\ \A n \in Names : \A i \in DOMAIN slot[n] : SlotPlaced(n, i)

HubKept ==
    /\ hub \in {"closing", "stopping", "down"} => stopping
    /\ \A n \in Names : FutureKept(n)

Inv == TypeOK /\ Placed /\ (\A n \in Names \ abandoned : Kept(n)) /\ HubKept
-----------------------------------------------------------------------------
(* What the steps are made of.                                             *)

Pcs == Named \cup {"new", "done"}

LEMMA NamesApart ==
  /\ None \notin Names /\ None \notin Tasks /\ Names \subseteq Tasks /\ Requests \subseteq Tasks
  /\ \A q \in Requests : q \notin Names
  /\ Present \subseteq Holding /\ Holding \subseteq OnSlot /\ OnSlot \subseteq Named
  /\ Starting \subseteq Present /\ OnRun \subseteq Present
  BY AgentHostAssumption DEF Tasks, Present, Holding, OnSlot, Named, Starting, OnRun

LEMMA SeqWritten ==
  ASSUME NEW S, NEW s \in Seq(S), NEW i \in DOMAIN s, NEW v \in S
  PROVE  /\ [s EXCEPT ![i] = v] \in Seq(S) /\ DOMAIN [s EXCEPT ![i] = v] = DOMAIN s
         /\ [s EXCEPT ![i] = v][i] = v
         /\ \A j \in DOMAIN s : j # i => [s EXCEPT ![i] = v][j] = s[j]
  OBVIOUS

LEMMA SeqGrown ==
  ASSUME NEW S, NEW s \in Seq(S), NEW v \in S
  PROVE  /\ Append(s, v) \in Seq(S) /\ Len(s) + 1 \in DOMAIN Append(s, v)
         /\ DOMAIN s \subseteq DOMAIN Append(s, v) /\ Len(s) + 1 \notin DOMAIN s
         /\ DOMAIN Append(s, v) \subseteq DOMAIN s \cup {Len(s) + 1}
         /\ Append(s, v)[Len(s) + 1] = v
         /\ \A j \in DOMAIN s : Append(s, v)[j] = s[j]
         /\ Len(s) + 1 \in Nat \ {0}
  <1>1. /\ Append(s, v) \in Seq(S) /\ Len(Append(s, v)) = Len(s) + 1 /\ Len(s) \in Nat
        /\ \A j \in 1 .. Len(s) : Append(s, v)[j] = s[j]
        /\ Append(s, v)[Len(s) + 1] = v
    BY AppendProperties
  <1>2. DOMAIN s = 1 .. Len(s) /\ DOMAIN Append(s, v) = 1 .. Len(s) + 1
    BY <1>1
  <1> QED
    BY <1>1, <1>2

LEMMA InDomain ==
  ASSUME NEW S, NEW s \in Seq(S), NEW i \in DOMAIN s
  PROVE  s[i] \in S /\ i \in Nat /\ i # 0
  OBVIOUS

\* f with v for what f[n] has at i, and for f[t].
Put(f, n, i, v) == [f EXCEPT ![n][i] = v]
PutAt(f, t, v) == [f EXCEPT ![t] = v]

\* Of the slots, of the runs, only slot i of n, run r of n, is another one.
SlotSet(n, i) ==
    \A m \in Names : /\ DOMAIN slot'[m] = DOMAIN slot[m]
                     /\ \A j \in DOMAIN slot[m] : m # n \/ j # i => slot'[m][j] = slot[m][j]
RunSet(n, r) ==
    \A m \in Names : /\ DOMAIN run'[m] = DOMAIN run[m]
                     /\ \A q \in DOMAIN run[m] : m # n \/ q # r => run'[m][q] = run[m][q]

LEMMA SlotWritten ==
  ASSUME TypeOK, NEW n \in Names, NEW i \in DOMAIN slot[n], NEW v \in Slot,
         slot' = Put(slot, n, i, v)
  PROVE  /\ slot' \in [Names -> Seq(Slot)] /\ slot'[n][i] = v /\ SlotSet(n, i)
         /\ \A m \in Names : m # n => slot'[m] = slot[m]
  <1>1. slot \in [Names -> Seq(Slot)]
    BY DEF TypeOK
  <1>2. slot'[n] = [slot[n] EXCEPT ![i] = v] /\ \A m \in Names : m # n => slot'[m] = slot[m]
    BY <1>1 DEF Put
  <1>3. slot[n] \in Seq(Slot)
    BY <1>1
  <1>4. /\ slot'[n] \in Seq(Slot) /\ DOMAIN slot'[n] = DOMAIN slot[n] /\ slot'[n][i] = v
        /\ \A j \in DOMAIN slot[n] : j # i => slot'[n][j] = slot[n][j]
    BY <1>2, <1>3, SeqWritten
  <1>5. slot' \in [Names -> Seq(Slot)]
    BY <1>1, <1>2, <1>4 DEF Put
  <1> QED
    BY <1>2, <1>4, <1>5 DEF SlotSet

LEMMA RunWritten ==
  ASSUME TypeOK, NEW n \in Names, NEW r \in DOMAIN run[n], NEW v \in Run,
         run' = Put(run, n, r, v)
  PROVE  /\ run' \in [Names -> Seq(Run)] /\ run'[n][r] = v /\ RunSet(n, r)
         /\ \A m \in Names : m # n => run'[m] = run[m]
  <1>1. run \in [Names -> Seq(Run)]
    BY DEF TypeOK
  <1>2. run'[n] = [run[n] EXCEPT ![r] = v] /\ \A m \in Names : m # n => run'[m] = run[m]
    BY <1>1 DEF Put
  <1>3. run[n] \in Seq(Run)
    BY <1>1
  <1>4. /\ run'[n] \in Seq(Run) /\ DOMAIN run'[n] = DOMAIN run[n] /\ run'[n][r] = v
        /\ \A j \in DOMAIN run[n] : j # r => run'[n][j] = run[n][j]
    BY <1>2, <1>3, SeqWritten
  <1>5. run' \in [Names -> Seq(Run)]
    BY <1>1, <1>2, <1>4 DEF Put
  <1> QED
    BY <1>2, <1>4, <1>5 DEF RunSet

LEMMA TaskWritten ==
  ASSUME TypeOK, NEW t \in Tasks, NEW v \in Task, task' = PutAt(task, t, v)
  PROVE  /\ task' \in [Tasks -> Task] /\ task'[t] = v
         /\ \A u \in Tasks : u # t => task'[u] = task[u]
  BY DEF TypeOK, PutAt

LEMMA FinishedIsTask ==
  /\ Finished \in Task /\ Untasked \in Task
  /\ Finished.pc = "done" /\ Finished.op = "none" /\ Finished.name = None
  /\ Untasked.pc = "new" /\ Untasked.op = "none" /\ Untasked.name = None
  BY DEF Finished, Untasked, Task

LEMMA PcIsTask ==
  ASSUME NEW v \in Task, NEW l \in Pcs
  PROVE  /\ [v EXCEPT !.pc = l] \in Task
         /\ LET w == [v EXCEPT !.pc = l] IN
            w.pc = l /\ w.op = v.op /\ w.name = v.name /\ w.slot = v.slot /\ w.run = v.run
  BY DEF Task, Pcs, Named, OnSlot, Holding

\* What Goto makes of its task.
LEMMA GotoStep ==
  ASSUME TypeOK, NEW t \in Tasks, NEW l \in Pcs, Goto(t, l)
  PROVE  /\ task' \in [Tasks -> Task] /\ \A u \in Tasks : u # t => task'[u] = task[u]
         /\ task'[t].pc = l
         /\ l = "done" => task'[t] = Finished
         /\ l # "done" => /\ task'[t].op = task[t].op /\ task'[t].name = task[t].name
                          /\ task'[t].slot = task[t].slot /\ task'[t].run = task[t].run
  <1>1. task[t] \in Task
    BY DEF TypeOK
  <1>2. PICK v : v = IF l = "done" THEN Finished ELSE [task[t] EXCEPT !.pc = l]
    OBVIOUS
  <1>3. /\ v \in Task /\ v.pc = l /\ (l = "done" => v = Finished)
        /\ l # "done" => v.op = task[t].op /\ v.name = task[t].name
                          /\ v.slot = task[t].slot /\ v.run = task[t].run
    BY <1>1, <1>2, FinishedIsTask, PcIsTask
  <1>4. task' = PutAt(task, t, v)
    BY <1>2 DEF Goto, PutAt
  <1> QED
    BY <1>3, <1>4, TaskWritten

\* What SlotBecomes makes of its task and of its slot.
LEMMA BecomesStep ==
  ASSUME TypeOK, NEW t \in Tasks, NEW n \in Names, n = task[t].name,
         NEW i \in DOMAIN slot[n], i = task[t].slot, NEW s \in Slot, NEW l \in Pcs,
         SlotBecomes(t, s, l)
  PROVE  /\ slot' \in [Names -> Seq(Slot)] /\ SlotSet(n, i)
         /\ \A m \in Names : m # n => slot'[m] = slot[m]
         /\ slot'[n][i].op = IF l \in {"done", "detached"} THEN None ELSE t
         /\ slot'[n][i].removed = s.removed /\ slot'[n][i].state = s.state
         /\ slot'[n][i].running = s.running /\ slot'[n][i].generation = s.generation
         /\ Goto(t, l)
  <1>1. PICK o \in Tasks \cup {None} : o = IF l \in {"done", "detached"} THEN None ELSE t
    OBVIOUS
  <1>2. PICK v : v = [s EXCEPT !.op = o]
    OBVIOUS
  <1>3. /\ v \in Slot /\ v.op = o /\ v.removed = s.removed /\ v.state = s.state
        /\ v.running = s.running /\ v.generation = s.generation
    BY <1>2 DEF Slot
  <1>4. slot' = Put(slot, n, i, v)
    BY <1>1, <1>2 DEF SlotBecomes, Put
  <1>5. Goto(t, l)
    BY DEF SlotBecomes
  <1>6. /\ slot' \in [Names -> Seq(Slot)] /\ slot'[n][i] = v /\ SlotSet(n, i)
        /\ \A m \in Names : m # n => slot'[m] = slot[m]
    BY <1>3, <1>4, SlotWritten
  <1> QED
    BY <1>1, <1>3, <1>5, <1>6
-----------------------------------------------------------------------------
(* What a step leaves of the tasks and the agents it is not about.         *)

\* Of an agent's tasks one at most has found the slot present.
LEMMA OnePresent ==
  ASSUME TypeOK, Placed, NEW t \in Tasks, NEW u \in Tasks, task[t].name = task[u].name,
         task[t].pc \in Present, task[u].pc \in Present
  PROVE  t = u
  <1>1. TaskPlaced(t) /\ TaskPlaced(u)
    BY DEF Placed
  <1>2. PICK n, i, j : n = task[t].name /\ i = task[t].slot /\ j = task[u].slot
    OBVIOUS
  <1>3. /\ n \in Names /\ i \in DOMAIN slot[n] /\ j \in DOMAIN slot[n]
        /\ slot[n][i].op = t /\ slot[n][j].op = u /\ ~slot[n][i].removed /\ ~slot[n][j].removed
    BY <1>1, <1>2, NamesApart DEF TaskPlaced, SlotOf
  <1>4. i = j
    BY <1>3 DEF Placed, SlotPlaced
  <1> QED
    BY <1>3, <1>4

\* A task's place is not disturbed by a step of another task.
LEMMA PlaceKept ==
  ASSUME Placed, NEW t, NEW u \in Tasks, u # t, task'[u] = task[u],
         \A m \in Names : DOMAIN slot[m] \subseteq DOMAIN slot'[m]
                          /\ DOMAIN run[m] \subseteq DOMAIN run'[m],
         \A m \in Names : \A j \in DOMAIN slot[m] :
            \/ slot'[m][j].op = slot[m][j].op /\ slot'[m][j].removed = slot[m][j].removed
            \/ slot[m][j].op \in {t, None}
  PROVE  TaskPlaced(u)'
  <1>1. TaskPlaced(u)
    BY DEF Placed
  <1>2. PICK m, j : m = task[u].name /\ j = task[u].slot
    OBVIOUS
  <1>3. task[u].pc \in Holding =>
          /\ m \in Names /\ j \in DOMAIN slot[m] /\ slot[m][j].op = u
          /\ slot'[m][j].op = slot[m][j].op /\ slot'[m][j].removed = slot[m][j].removed
    BY <1>1, <1>2, NamesApart DEF TaskPlaced, SlotOf
  <1> QED
    BY <1>1, <1>2, <1>3, NamesApart DEF TaskPlaced, SlotOf

LEMMA KeptAside ==
  ASSUME NEW m \in Names, Kept(m), NEW t,
         slot'[m] = slot[m], run'[m] = run[m], router'[m] = router[m],
         \A u \in Tasks : u # t => task'[u] = task[u],
         t \in Tasks => task[t].name # m \/ task[t].pc \notin Present,
         t \in Tasks => task'[t].name # m \/ task'[t].pc \notin Present
  PROVE  Kept(m)'
  <1>1. ASSUME NEW i \in DOMAIN slot[m] PROVE SlotKept(m, i)'
    <2>1. SlotKept(m, i)
      BY DEF Kept
    <2>2. slot[m][i].op \in Tasks /\ task[slot[m][i].op].pc = "announce"
            /\ task[slot[m][i].op].name = m => task'[slot[m][i].op] = task[slot[m][i].op]
      BY DEF Present
    <2> QED
      BY <2>1, <2>2 DEF SlotKept
  <1>2. ASSUME NEW r \in DOMAIN run[m] PROVE RunKept(m, r)'
    <2>1. RunKept(m, r)
      BY DEF Kept
    <2> QED
      BY <2>1 DEF RunKept, Live, Reached
  <1>3. ASSUME NEW u \in Tasks, task'[u].name = m PROVE TaskKept(u)'
    <2>1. CASE u = t
      BY <1>3, <2>1 DEF TaskKept, Present
    <2>2. CASE u # t
      <3>1. TaskKept(u) /\ task'[u] = task[u] /\ task[u].name = m
        BY <1>3, <2>2 DEF Kept
      <3> QED
        BY <3>1 DEF TaskKept, SlotOf, RunOf, Reached
    <2> QED
      BY <2>1, <2>2
  <1> QED
    BY <1>1, <1>2, <1>3 DEF Kept

LEMMA FutureAside ==
  ASSUME NEW m \in Names, FutureKept(m), NEW t, m # t, run'[m] = run[m],
         UNCHANGED hub, abandoned \subseteq abandoned',
         \A u \in Tasks : u # t => task'[u] = task[u],
         t \in Tasks => task'[t].name # m \/ task'[t].pc \notin Starting
  PROVE  FutureKept(m)'
  <1>1. task'[m] = task[m]
    BY NamesApart
  <1>2. Swept(m) => Swept(m)'
    BY <1>1 DEF Swept, Live
  <1> QED
    BY <1>1, <1>2 DEF FutureKept

\* A step about agent n, by task t if t is one.
LEMMA StepKeeps ==
  ASSUME Inv, TypeOK', NEW t, NEW n \in Names,
         t \in Tasks => task[t].name \in {n, None} /\ task'[t].name \in {n, None},
         t \in Names => t = n,
         \A m \in Names : m # n => /\ slot'[m] = slot[m] /\ slots'[m] = slots[m]
                                   /\ run'[m] = run[m] /\ router'[m] = router[m],
         \A u \in Tasks : u # t => task'[u] = task[u],
         UNCHANGED <<hub, stopping>>, abandoned \subseteq abandoned',
         DOMAIN slot[n] \subseteq DOMAIN slot'[n], DOMAIN run[n] \subseteq DOMAIN run'[n],
         \A j \in DOMAIN slot[n] :
            \/ slot'[n][j].op = slot[n][j].op /\ slot'[n][j].removed = slot[n][j].removed
            \/ slot[n][j].op \in {t, None},
         t \in Tasks => TaskPlaced(t)',
         \A j \in DOMAIN slot'[n] : SlotPlaced(n, j)',
         n \notin abandoned' => Kept(n)',
         FutureKept(n)'
  PROVE  Inv'
  <1>1. Placed'
    <2>1. ASSUME NEW u \in Tasks PROVE TaskPlaced(u)'
      <3>1. \A m \in Names : DOMAIN slot[m] \subseteq DOMAIN slot'[m]
                             /\ DOMAIN run[m] \subseteq DOMAIN run'[m]
        OBVIOUS
      <3>2. \A m \in Names : \A j \in DOMAIN slot[m] :
              \/ slot'[m][j].op = slot[m][j].op /\ slot'[m][j].removed = slot[m][j].removed
              \/ slot[m][j].op \in {t, None}
        OBVIOUS
      <3> QED
        BY <3>1, <3>2, PlaceKept DEF Inv
    <2>2. ASSUME NEW m \in Names, NEW j \in DOMAIN slot'[m] PROVE SlotPlaced(m, j)'
      BY <2>2 DEF Inv, Placed, SlotPlaced
    <2> QED
      BY <2>1, <2>2 DEF Placed
  <1>2. ASSUME NEW m \in Names \ abandoned' PROVE Kept(m)'
    <2>1. CASE m = n
      BY <1>2, <2>1
    <2>2. CASE m # n
      <3>1. t \in Tasks => task[t].name # m /\ task'[t].name # m
        BY <1>2, <2>2, NamesApart
      <3>2. Kept(m)
        BY <1>2 DEF Inv
      <3> QED
        BY <1>2, <2>2, <3>1, <3>2, KeptAside
    <2> QED
      BY <2>1, <2>2
  <1>3. ASSUME NEW m \in Names PROVE FutureKept(m)'
    <2>1. CASE m = n
      BY <2>1
    <2>2. CASE m # n
      <3>1. t \in Tasks => task'[t].name # m
        BY <2>2, NamesApart
      <3>2. FutureKept(m) /\ m # t
        BY <2>2 DEF Inv, HubKept
      <3> QED
        BY <2>2, <3>1, <3>2, FutureAside
    <2> QED
      BY <2>1, <2>2
  <1>4. HubKept'
    BY <1>3 DEF HubKept, Inv
  <1> QED
    BY <1>1, <1>2, <1>4 DEF Inv
LEMMA Located ==
  ASSUME Inv, NEW t \in Tasks, task[t].pc \in OnSlot
  PROVE  \E n \in Names : \E i \in DOMAIN slot[n] :
           /\ n = task[t].name /\ i = task[t].slot /\ SlotOf(t) = slot[n][i]
           /\ slot[n][i] \in Slot /\ TaskPlaced(t) /\ (t \in Names => t = n)
           /\ task[t].pc \in Holding => slot[n][i].op = t
  <1>1. TaskPlaced(t)
    BY DEF Inv, Placed
  <1>2. PICK n, i : n = task[t].name /\ i = task[t].slot
    OBVIOUS
  <1>3. n \in Names /\ i \in DOMAIN slot[n] /\ SlotOf(t) = slot[n][i]
    BY <1>1, <1>2, NamesApart DEF TaskPlaced, SlotOf
  <1>4. slot[n] \in Seq(Slot)
    BY <1>3 DEF Inv, TypeOK
  <1>5. slot[n][i] \in Slot
    BY <1>3, <1>4, InDomain
  <1>6. task[t].pc \notin {"new", "done"}
    BY DEF OnSlot, Holding
  <1>7. t \in Names => t = n
    BY <1>2, <1>6 DEF Inv, HubKept, FutureKept
  <1>8. task[t].pc \in Holding => slot[n][i].op = t
    BY <1>1, <1>3 DEF TaskPlaced
  <1> QED
    BY <1>1, <1>2, <1>3, <1>5, <1>7, <1>8

\* The types, where no slot and no run comes or goes.
LEMMA TypeKept ==
  ASSUME TypeOK, slot' \in [Names -> Seq(Slot)], run' \in [Names -> Seq(Run)],
         \A m \in Names : DOMAIN slot'[m] = DOMAIN slot[m],
         \A m \in Names : DOMAIN run'[m] = DOMAIN run[m],
         \A m \in Names : \A r \in DOMAIN run[m] : run'[m][r].slot = run[m][r].slot,
         task' \in [Tasks -> Task], router' \in [Names -> Nat],
         ports' \in [Names \cup Others -> Ports \cup {None}], dir' \subseteq Names,
         creating' \in Tasks \cup {None},
         \A m \in Names : slots'[m] \in {slots[m], 0}, slots' \in [Names -> Nat],
         UNCHANGED <<stopping, hub>>, abandoned' \subseteq Names,
         faults' \in 0 .. MaxFaults, reloads' \in 0 .. MaxReloads
  PROVE  TypeOK'
  BY DEF TypeOK

LEMMA FaultTyped ==
  ASSUME TypeOK, Fault \/ UNCHANGED counted
  PROVE  faults' \in 0 .. MaxFaults /\ reloads' \in 0 .. MaxReloads
  BY AgentHostAssumption DEF TypeOK, Fault, counted

\* The shutdown's view of a step of task t.
LEMMA FutureStep ==
  ASSUME Inv, NEW t \in Tasks, NEW n \in Names, task[t].name = n, task[t].pc \in OnSlot,
         UNCHANGED hub, abandoned \subseteq abandoned',
         \A u \in Tasks : u # t => task'[u] = task[u],
         \/ task'[t].pc = "done" /\ task'[t].name = None
         \/ /\ task'[t].pc \notin {"new", "done"} /\ task'[t].name = n
            /\ task'[t].slot = task[t].slot /\ task'[t].op = task[t].op,
         n \notin abandoned' => \A r \in DOMAIN run'[n] : Live(n, r)' =>
            \/ r \in DOMAIN run[n] /\ Live(n, r) /\ run'[n][r].slot = run[n][r].slot
            \/ task[t].pc \in Starting /\ run'[n][r].slot = task[t].slot,
         task'[t].pc \in Starting => task[t].pc \in Starting \/ ~stopping,
         n \notin abandoned' /\ task'[t].pc = "done" /\ task[t].op = "stop" /\ t \in Names =>
            /\ task[t].pc \in Holding
            /\ \A r \in DOMAIN run'[n] : Live(n, r)' => run'[n][r].slot # task[t].slot
  PROVE  FutureKept(n)'
  <1>0. FutureKept(n) /\ TypeOK /\ Placed /\ (hub \in {"closing", "stopping", "down"} => stopping)
    BY DEF Inv, HubKept
  <1>1. task[t].pc \notin {"new", "done"}
    BY DEF OnSlot, Holding
  <1>2. t \in Names => t = n
    BY <1>1 DEF Inv, HubKept, FutureKept
  <1>3. n \in Tasks /\ None \notin Names
    BY NamesApart
  <1>4. CASE t # n
    <2>1. task'[n] = task[n]
      BY <1>3, <1>4
    <2>2. ASSUME hub \in {"stopping", "down"}, n \notin abandoned' PROVE Swept(n)'
      <3>1. Swept(n) /\ stopping
        BY <1>0, <2>2 DEF FutureKept
      <3>2. ASSUME NEW r \in DOMAIN run'[n], Live(n, r)'
            PROVE  task[n].pc \notin {"new", "done"} /\ run'[n][r].slot = task[n].slot
        BY <2>2, <3>1, <3>2 DEF Swept
      <3>3. ASSUME NEW u \in Tasks, task'[u].name = n, task'[u].pc \in Starting
            PROVE  task[n].pc \notin {"new", "done"} /\ task'[u].slot = task[n].slot
        <4>1. task[u].name = n /\ task[u].pc \in Starting /\ task'[u].slot = task[u].slot
          BY <1>3, <3>1, <3>3 DEF Starting
        <4> QED
          BY <3>1, <4>1 DEF Swept
      <3> QED
        BY <2>1, <3>2, <3>3 DEF Swept
    <2> QED
      BY <1>0, <2>1, <2>2 DEF FutureKept
  <1>5. CASE t = n
    <2>1. hub \notin {"boot", "closing", "down"}
      BY <1>0, <1>1, <1>5 DEF FutureKept
    <2>2. ASSUME hub = "stopping", n \notin abandoned' PROVE Swept(n)'
      <3>1. Swept(n) /\ task[n].op = "stop" /\ stopping
        BY <1>0, <1>1, <1>5, <2>2 DEF FutureKept
      <3>2. task[n].pc \notin Starting
        BY <1>0, <1>3, <3>1 DEF Placed, TaskPlaced, Starting
      <3>3. ASSUME NEW r \in DOMAIN run'[n], Live(n, r)'
            PROVE  task'[n].pc \notin {"new", "done"} /\ run'[n][r].slot = task'[n].slot
        <4>1. r \in DOMAIN run[n] /\ Live(n, r) /\ run'[n][r].slot = run[n][r].slot
          BY <1>5, <2>2, <3>2, <3>3
        <4>2. run[n][r].slot = task[n].slot
          BY <3>1, <4>1 DEF Swept
        <4> QED
          BY <1>5, <2>2, <3>1, <3>3, <4>1, <4>2
      <3>4. ASSUME NEW u \in Tasks, task'[u].name = n, task'[u].pc \in Starting
            PROVE  task'[n].pc \notin {"new", "done"} /\ task'[u].slot = task'[n].slot
        <4>1. u # t
          BY <1>5, <3>1, <3>2, <3>4
        <4>2. task'[u] = task[u] /\ task[u].slot = task[n].slot
          BY <3>1, <3>4, <4>1 DEF Swept
        <4>3. SlotOf(u).op = u /\ SlotOf(u) = SlotOf(t)
          BY <1>0, <1>5, <3>4, <4>2, NamesApart DEF Placed, TaskPlaced, SlotOf
        <4>4. task[t].pc \in Holding => SlotOf(t).op = t
          BY <1>0 DEF Placed, TaskPlaced
        <4> QED
          BY <1>5, <2>2, <3>1, <4>1, <4>2, <4>3, <4>4
      <3> QED
        BY <3>3, <3>4 DEF Swept
    <2>3. task[n].op = task'[n].op \/ task'[n].pc = "done"
      BY <1>5
    <2> QED
      BY <1>0, <1>1, <1>5, <2>1, <2>2, <2>3 DEF FutureKept
  <1> QED
    BY <1>4, <1>5

\* Task t writes its slot; the slot's run stays.
LEMMA SlotStep ==
  ASSUME Inv, TypeOK', NEW t \in Tasks, NEW n \in Names, NEW i \in DOMAIN slot[n],
         task[t].name = n, task[t].slot = i, t \in Names => t = n,
         SlotSet(n, i), \A m \in Names : m # n => slot'[m] = slot[m],
         slot[n][i].op \in {t, None}, slot'[n][i].running \in {0, slot[n][i].running},
         n \notin abandoned => slot'[n][i].running = slot[n][i].running,
         UNCHANGED <<run, router, hub, stopping, abandoned>>,
         \A m \in Names : m # n => slots'[m] = slots[m],
         \/ slots'[n] = slots[n] /\ slot'[n][i].removed = slot[n][i].removed
         \/ slots[n] = i /\ slot'[n][i].removed,
         \A u \in Tasks : u # t => task'[u] = task[u],
         task'[t].name \in {n, None}, TaskPlaced(t)', FutureKept(n)',
         n \notin abandoned => SlotKept(n, i)' /\ (task'[t].name = n => TaskKept(t)')
  PROVE  Inv'
  <1>0. TypeOK /\ Placed /\ (n \notin abandoned => Kept(n))
    BY DEF Inv
  <1>1. /\ DOMAIN slot'[n] = DOMAIN slot[n]
        /\ \A j \in DOMAIN slot[n] : j # i => slot'[n][j] = slot[n][j]
    BY DEF SlotSet
  <1>2. ASSUME NEW j \in DOMAIN slot'[n] PROVE SlotPlaced(n, j)'
    <2>1. SlotPlaced(n, j)
      BY <1>0, <1>1 DEF Placed
    <2>2. CASE j # i
      BY <1>1, <2>1, <2>2 DEF SlotPlaced
    <2>3. CASE j = i
      BY <2>1, <2>3 DEF SlotPlaced
    <2> QED
      BY <2>2, <2>3
  <1>3. ASSUME n \notin abandoned PROVE Kept(n)'
    <2>1. ASSUME NEW j \in DOMAIN slot'[n] PROVE SlotKept(n, j)'
      <3>1. CASE j = i
        BY <1>3, <3>1
      <3>2. CASE j # i
        <4>1. SlotKept(n, j) /\ slot'[n][j] = slot[n][j]
          BY <1>0, <1>1, <1>3, <2>1, <3>2 DEF Kept
        <4>2. slot[n][j].op \in Tasks /\ task[slot[n][j].op].slot = j =>
                task'[slot[n][j].op] = task[slot[n][j].op]
          BY <3>2
        <4> QED
          BY ONLY run' = run, <4>1, <4>2 DEF SlotKept
      <3> QED
        BY <3>1, <3>2
    <2>2. ASSUME NEW r \in DOMAIN run[n] PROVE RunKept(n, r)'
      <3>1. RunKept(n, r) /\ run[n][r].slot \in DOMAIN slot[n]
        BY <1>0, <1>3 DEF Kept, TypeOK
      <3>2. slot'[n][run[n][r].slot].running = slot[n][run[n][r].slot].running
        BY <1>1, <1>3, <3>1
      <3> QED
        BY <3>1, <3>2 DEF RunKept, Live, Reached
    <2>3. ASSUME NEW u \in Tasks, task'[u].name = n PROVE TaskKept(u)'
      <3>1. CASE u = t
        BY <1>3, <2>3, <3>1
      <3>2. CASE u # t
        <4>1. task'[u] = task[u] /\ TaskKept(u) /\ TaskPlaced(u) /\ task[u].name = n
          BY <1>0, <1>3, <2>3, <3>2 DEF Kept, Placed
        <4>2. task[u].pc \in Present => task[u].slot # i /\ task[u].slot \in DOMAIN slot[n]
          BY <3>2, <4>1, NamesApart DEF TaskPlaced, SlotOf
        <4>3. task[u].pc \in Present => slot'[n][task[u].slot] = slot[n][task[u].slot]
          BY <1>1, <4>2
        <4> QED
          BY ONLY run' = run, router' = router, <4>1, <4>3
             DEF TaskKept, SlotOf, RunOf, Reached, Present
      <3> QED
        BY <3>1, <3>2
    <2> QED
      BY <2>1, <2>2, <2>3 DEF Kept
  <1>4. \A j \in DOMAIN slot[n] :
            \/ slot'[n][j].op = slot[n][j].op /\ slot'[n][j].removed = slot[n][j].removed
            \/ slot[n][j].op \in {t, None}
    BY <1>1
  <1> QED
    BY <1>1, <1>2, <1>3, <1>4, StepKeeps
-----------------------------------------------------------------------------
(* Tasks that write their slot.                                            *)

\* A task goes on, or ends, with the run of its slot as it was.
LEMMA BecomesKeeps ==
  ASSUME Inv, NEW t \in Tasks, NEW n \in Names, NEW i \in DOMAIN slot[n],
         n = task[t].name, i = task[t].slot, task[t].pc \in OnSlot,
         slot[n][i].op \in {t, None},
         NEW s \in Slot, NEW l \in (OnSlot \cup {"done"}) \ OnRun, SlotBecomes(t, s, l),
         s.running \in {0, slot[n][i].running}, s.removed = slot[n][i].removed,
         n \notin abandoned => s.running = slot[n][i].running,
         UNCHANGED <<slots, run, router, hub, stopping, abandoned>>,
         ports' \in [Names \cup Others -> Ports \cup {None}], dir' \subseteq Names,
         creating' \in Tasks \cup {None}, Fault \/ UNCHANGED counted,
         l \in Holding \cup {"detached", "done"},
         l \in Present => ~s.removed,
         task[t].op = "stop" => l \in {"stop", "done"},
         l \in Starting => task[t].pc \in Starting \/ ~stopping,
         n \notin abandoned =>
            /\ s.running # 0 => /\ s.state = slot[n][i].state /\ s.generation = slot[n][i].generation
                                /\ task[t].pc # "announce"
            /\ s.state = "running" => s.running # 0
            /\ l \in {"reserve", "launch", "failing"} => s.state = "starting" /\ s.running = 0
            /\ l \in {"deprovision", "forget"} => s.running = 0
            /\ l = "done" /\ task[t].op = "stop" /\ t \in Names =>
                  task[t].pc \in Holding /\ s.running = 0
  PROVE  Inv'
  <1>0. TypeOK /\ TaskPlaced(t) /\ l \in Pcs /\ l # "new" /\ (n \notin abandoned => Kept(n))
    BY DEF Inv, Placed, Pcs, Named, OnSlot, Holding
  <1>1. /\ slot' \in [Names -> Seq(Slot)] /\ SlotSet(n, i)
        /\ \A m \in Names : m # n => slot'[m] = slot[m]
        /\ slot'[n][i].op = IF l \in {"done", "detached"} THEN None ELSE t
        /\ slot'[n][i].removed = s.removed /\ slot'[n][i].state = s.state
        /\ slot'[n][i].running = s.running /\ slot'[n][i].generation = s.generation
        /\ Goto(t, l)
    BY <1>0, BecomesStep
  <1>2. /\ task' \in [Tasks -> Task] /\ \A u \in Tasks : u # t => task'[u] = task[u]
        /\ task'[t].pc = l
        /\ l = "done" => task'[t] = Finished
        /\ l # "done" => /\ task'[t].op = task[t].op /\ task'[t].name = task[t].name
                         /\ task'[t].slot = task[t].slot /\ task'[t].run = task[t].run
    BY <1>0, <1>1, GotoStep
  <1>3. task'[t].name \in {n, None} /\ (l = "done" => task'[t].name = None /\ task'[t].op = "none")
    BY <1>2, FinishedIsTask
  <1>4. TypeOK'
    <2>1. faults' \in 0 .. MaxFaults /\ reloads' \in 0 .. MaxReloads
      BY <1>0, FaultTyped
    <2>2. \A m \in Names : DOMAIN slot'[m] = DOMAIN slot[m]
      BY <1>1 DEF SlotSet
    <2>3. run' \in [Names -> Seq(Run)] /\ router' \in [Names -> Nat] /\ slots' \in [Names -> Nat]
          /\ abandoned' \subseteq Names
      BY <1>0 DEF TypeOK
    <2> QED
      BY <1>0, <1>1, <1>2, <2>1, <2>2, <2>3, TypeKept
  <1>5. TaskPlaced(t)'
    <2>1. CASE l = "done"
      BY <1>2, <1>3, <2>1 DEF TaskPlaced, Named, OnSlot, Holding, OnRun, Present
    <2>2. CASE l # "done"
      <3>1. DOMAIN slot'[n] = DOMAIN slot[n] /\ l \notin OnRun
        BY <1>1 DEF SlotSet
      <3>2. l \in Holding => slot'[n][i].op = t
        BY <1>1, <2>2 DEF Holding
      <3>3. task[t].op \in Ops
        BY <1>0, NamesApart DEF TaskPlaced
      <3>4. SlotOf(t)' = slot'[n][i]
        BY <1>2, <2>2 DEF SlotOf
      <3> QED
        BY <1>0, <1>1, <1>2, <2>2, <3>1, <3>2, <3>3, <3>4 DEF TaskPlaced
    <2> QED
      BY <2>1, <2>2
  <1>6. n \notin abandoned => SlotKept(n, i)'
    <2>1. n \notin abandoned => SlotKept(n, i)
      BY <1>0 DEF Kept
    <2>2. None \notin Tasks
      BY NamesApart
    <2>3. ASSUME n \notin abandoned, s.running # 0
          PROVE  /\ s.running \in DOMAIN run[n] /\ run[n][s.running].slot = i
                 /\ run[n][s.running].generation = s.generation /\ ~s.removed
                 /\ s.state = "running" /\ run[n][s.running].supervisor \in Watching
      <3>1. slot[n][i].running = s.running /\ slot[n][i].generation = s.generation
            /\ slot[n][i].state = s.state /\ slot[n][i].removed = s.removed
        BY <2>3
      <3>2. ~(slot[n][i].op \in Tasks /\ task[slot[n][i].op].pc = "announce")
        BY <2>2, <2>3
      <3> QED
        BY ONLY <2>1, <2>3, <3>1, <3>2 DEF SlotKept
    <2> QED
      BY <1>1, <2>3 DEF SlotKept
  <1>7. n \notin abandoned /\ task'[t].name = n => TaskKept(t)'
    <2>1. task'[t].name = n => SlotOf(t)' = slot'[n][i]
      BY <1>2, <1>3, NamesApart DEF SlotOf
    <2> QED
      BY <1>1, <1>2, <2>1 DEF TaskKept, OnRun
  <1>8. ASSUME n \notin abandoned', task'[t].pc = "done", task[t].op = "stop", t \in Names
        PROVE  /\ task[t].pc \in Holding
               /\ \A r \in DOMAIN run'[n] : Live(n, r)' => run'[n][r].slot # task[t].slot
    <2>1. task[t].pc \in Holding /\ slot[n][i].running = 0
      BY <1>2, <1>8
    <2>2. ASSUME NEW r \in DOMAIN run[n], Live(n, r), run[n][r].slot = i PROVE FALSE
      <3>1. slot[n][i].running = r
        BY <1>0, <1>8, <2>2 DEF Kept, RunKept
      <3>2. run[n] \in Seq(Run)
        BY <1>0 DEF TypeOK
      <3> QED
        BY <2>1, <2>2, <3>1, <3>2, InDomain
    <2> QED
      BY <2>1, <2>2 DEF Live
  <1>9. FutureKept(n)'
    <2>1. \/ task'[t].pc = "done" /\ task'[t].name = None
          \/ /\ task'[t].pc \notin {"new", "done"} /\ task'[t].name = n
             /\ task'[t].slot = task[t].slot /\ task'[t].op = task[t].op
      BY <1>0, <1>2, <1>3
    <2>2. \A r \in DOMAIN run'[n] : Live(n, r)' =>
            \/ r \in DOMAIN run[n] /\ Live(n, r) /\ run'[n][r].slot = run[n][r].slot
            \/ task[t].pc \in Starting /\ run'[n][r].slot = task[t].slot
      BY DEF Live
    <2> QED
      BY ZenonT(60), <1>2, <1>8, <2>1, <2>2, FutureStep
  <1>10. t \in Names => t = n
    BY DEF Inv, HubKept, FutureKept, OnSlot, Holding
  <1> QED
    BY <1>1, <1>2, <1>3, <1>4, <1>5, <1>6, <1>7, <1>9, <1>10, SlotStep

LEMMA StepsIncluded ==
  /\ {"start", "stop", "patch"} \subseteq (OnSlot \cup {"done"}) \ OnRun
  /\ {"reserve", "failing", "launch", "deprovision", "forget", "unport", "detached", "done"}
        \subseteq (OnSlot \cup {"done"}) \ OnRun
  BY DEF OnSlot, Holding, OnRun

LEMMA LockKeeps ==
  ASSUME Inv, NEW t \in Tasks, LockSlot(t)
  PROVE  Inv'
  <1>0. TypeOK /\ task[t].pc = "waiting"
    BY DEF Inv, LockSlot, At
  <1>1. PICK n \in Names : \E j \in DOMAIN slot[n] :
           /\ n = task[t].name /\ j = task[t].slot /\ SlotOf(t) = slot[n][j]
           /\ slot[n][j] \in Slot /\ TaskPlaced(t) /\ (t \in Names => t = n)
    BY <1>0, Located DEF OnSlot
  <1>2. PICK i \in DOMAIN slot[n] : i = task[t].slot
    BY <1>1
  <1>3. PICK l : l = CASE task[t].op \in {"start", "create", "restore"} -> "start"
                      [] task[t].op \in {"stop", "restart", "delete"}  -> "stop"
                      [] task[t].op = "patch"                          -> "patch"
    OBVIOUS
  <1>4. task[t].op \in Ops
    BY <1>0, <1>1 DEF TaskPlaced, Named, OnSlot
  <1>5. l \in {"start", "stop", "patch"} /\ (task[t].op = "stop" => l = "stop")
    BY <1>3, <1>4 DEF Ops
  <1>6. /\ SlotBecomes(t, slot[n][i], l) /\ slot[n][i].op = None
        /\ UNCHANGED <<slots, run, router, hub, stopping, abandoned, ports, dir, creating, counted>>
    BY <1>1, <1>2, <1>3 DEF LockSlot
  <1>7. n \notin abandoned => SlotKept(n, i)
    BY DEF Inv, Kept
  <1>8. /\ ports' \in [Names \cup Others -> Ports \cup {None}] /\ dir' \subseteq Names
        /\ creating' \in Tasks \cup {None}
    BY <1>0, <1>6 DEF TypeOK
  <1>9. l \in Holding /\ l \notin Present /\ l \notin Starting
        /\ l \notin {"reserve", "launch", "failing", "deprovision", "forget", "done"}
    BY <1>5 DEF Holding, Present, Starting
  <1> QED
    BY <1>0, <1>1, <1>2, <1>5, <1>6, <1>7, <1>8, <1>9, BecomesKeeps, StepsIncluded
       DEF OnSlot, SlotKept

\* What most steps of a task leave alone, and the types of the rest.
Around ==
    /\ UNCHANGED <<slots, run, router, hub, stopping, abandoned>>
    /\ ports' \in [Names \cup Others -> Ports \cup {None}]
    /\ dir' \subseteq Names
    /\ creating' \in Tasks \cup {None}
    /\ Fault \/ UNCHANGED counted

LEMMA AroundOf ==
  ASSUME TypeOK, UNCHANGED <<slots, router, run, hub, abandoned, stopping>>,
         Fault \/ UNCHANGED counted,
         dir' \subseteq Names, creating' \in {creating, None},
         UNCHANGED ports \/ \E m \in Names \cup Others, p \in Ports \cup {None} :
                              ports' = [ports EXCEPT ![m] = p]
  PROVE  Around
  BY DEF TypeOK, Around

LEMMA ReturnKeeps ==
  ASSUME Inv, NEW t \in Tasks, task[t].pc \in Holding, task[t].pc # "announce",
         Return(t), Around,
         task[t].op = "stop" /\ t \in Names /\ task[t].name \notin abandoned =>
            SlotOf(t).running = 0
  PROVE  Inv'
  <1>1. PICK n \in Names : \E j \in DOMAIN slot[n] :
           /\ n = task[t].name /\ j = task[t].slot /\ SlotOf(t) = slot[n][j]
           /\ slot[n][j] \in Slot /\ TaskPlaced(t) /\ (t \in Names => t = n)
           /\ slot[n][j].op = t
    BY Located, NamesApart
  <1>2. PICK i \in DOMAIN slot[n] : i = task[t].slot
    BY <1>1
  <1>3. n \notin abandoned => SlotKept(n, i)
    BY DEF Inv, Kept
  <1>4. PICK l : l = "done"
    OBVIOUS
  <1>5. PICK s \in Slot : s = slot[n][i]
    BY <1>1, <1>2
  <1>6. SlotBecomes(t, s, l) /\ s.op = t /\ SlotOf(t) = s
    BY <1>1, <1>2, <1>4, <1>5 DEF Return
  <1>7. /\ l \notin Present /\ l \notin Starting /\ l \in Holding \cup {"detached", "done"}
        /\ l \notin {"reserve", "launch", "failing", "deprovision", "forget"}
        /\ l \in (OnSlot \cup {"done"}) \ OnRun /\ task[t].pc \in OnSlot
    BY <1>4, NamesApart, StepsIncluded DEF Present, Starting
  <1>8. n \notin abandoned =>
            /\ s.state = "running" => s.running # 0
            /\ task[t].op = "stop" /\ t \in Names => task[t].pc \in Holding /\ s.running = 0
    BY <1>1, <1>3, <1>5, <1>6 DEF SlotKept
  <1> QED
    BY ZenonT(60), <1>1, <1>2, <1>4, <1>5, <1>6, <1>7, <1>8, BecomesKeeps DEF Around

\* A task that goes on with its slot as it is has not written it.
LEMMA GoesOnKeeps ==
  ASSUME Inv, NEW t \in Tasks, task[t].pc \in Holding, task[t].pc # "announce",
         NEW l \in Holding \ OnRun, Goto(t, l), UNCHANGED slot, Around,
         l \in Present => task[t].pc \in Present,
         task[t].op # "stop",
         l \in Starting => task[t].pc \in Starting,
         task[t].name \notin abandoned =>
           /\ l \in {"reserve", "launch", "failing"} =>
                SlotOf(t).state = "starting" /\ SlotOf(t).running = 0
           /\ l \in {"deprovision", "forget"} => SlotOf(t).running = 0
  PROVE  Inv'
  <1>1. PICK n \in Names : \E j \in DOMAIN slot[n] :
           /\ n = task[t].name /\ j = task[t].slot /\ SlotOf(t) = slot[n][j]
           /\ slot[n][j] \in Slot /\ TaskPlaced(t) /\ (t \in Names => t = n)
           /\ slot[n][j].op = t
    BY Located, NamesApart
  <1>2. PICK i \in DOMAIN slot[n] : i = task[t].slot
    BY <1>1
  <1>3. n \notin abandoned => SlotKept(n, i)
    BY DEF Inv, Kept
  <1>4. slot[n][i] \in Slot /\ slot[n][i].op = t /\ SlotOf(t) = slot[n][i]
    BY <1>1, <1>2
  <1>5. l \notin {"done", "detached"}
    BY DEF Holding
  <1>6. slot \in [Names -> Seq(Slot)] /\ slot[n] \in Seq(Slot)
    BY DEF Inv, TypeOK
  <1>7. [slot[n][i] EXCEPT !.op = t] = slot[n][i]
    BY <1>4 DEF Slot
  <1>8. slot = [slot EXCEPT ![n][i] = slot[n][i]]
    BY <1>6
  <1>9. SlotBecomes(t, slot[n][i], l)
    BY <1>1, <1>2, <1>5, <1>7, <1>8 DEF SlotBecomes
  <1>10. task[t].pc \in Present => ~slot[n][i].removed
    BY <1>1, <1>4 DEF TaskPlaced
  <1>11. l \in (OnSlot \cup {"done"}) \ OnRun /\ l \in OnSlot /\ task[t].pc \in OnSlot
    BY NamesApart
  <1> QED
    BY <1>1, <1>2, <1>3, <1>4, <1>5, <1>9, <1>10, <1>11, BecomesKeeps DEF SlotKept, Around

\* A task that holds no slot's lock takes a step outside them.
LEMMA UnlockedKeeps ==
  ASSUME Inv, NEW t \in Tasks, NEW n \in Names, UNCHANGED slot, Around,
         task[t].name \in {n, None}, task'[t].name \in {n, None}, t \in Names => t = n,
         task[t].pc \notin Holding, task'[t].pc \notin Holding,
         t \in Names => task[t].pc \notin {"new", "done", "waiting"},
         task'[t].pc # "done" => task'[t].name = n, task'[t].pc # "new",
         task' \in [Tasks -> Task], \A u \in Tasks : u # t => task'[u] = task[u],
         TaskPlaced(t)'
  PROVE  Inv'
  <1>0. TypeOK /\ Placed /\ FutureKept(n) /\ (n \notin abandoned => Kept(n))
    BY DEF Inv, HubKept
  <1>1. TypeOK'
    <2>1. faults' \in 0 .. MaxFaults /\ reloads' \in 0 .. MaxReloads
      BY <1>0, FaultTyped DEF Around
    <2>2. /\ slot' \in [Names -> Seq(Slot)] /\ run' \in [Names -> Seq(Run)]
          /\ router' \in [Names -> Nat] /\ slots' \in [Names -> Nat] /\ abandoned' \subseteq Names
      BY <1>0 DEF TypeOK, Around
    <2> QED
      BY <1>0, <2>1, <2>2, TypeKept DEF Around
  <1>2. n \notin abandoned => Kept(n)'
    BY <1>0, KeptAside, NamesApart DEF Around
  <1>3. FutureKept(n)'
    <2>1. CASE t # n
      BY <1>0, <2>1, FutureAside, NamesApart DEF Around
    <2>2. CASE t = n
      <3>1. TaskPlaced(n) /\ task[n].pc \in Pcs
        BY <1>0, NamesApart DEF Placed, TypeOK, Task, Pcs, Named, OnSlot, Holding
      <3>2. hub = "starting"
        BY <1>0, <2>2, <3>1 DEF FutureKept, TaskPlaced, TypeOK, Holding
      <3> QED
        BY <2>2, <3>2 DEF FutureKept, Around
    <2> QED
      BY <2>1, <2>2
  <1>4. \A j \in DOMAIN slot'[n] : SlotPlaced(n, j)'
    BY <1>0 DEF Placed, SlotPlaced, Around
  <1> QED
    BY <1>1, <1>2, <1>3, <1>4, StepKeeps DEF Around
-----------------------------------------------------------------------------
(* The actions of a task that holds its slot's lock, the run as it was.    *)

LEMMA InStateOf ==
  ASSUME NEW s \in Slot, NEW st \in {"stopped", "starting", "running", "failed"}
  PROVE  /\ InState(s, st) \in Slot /\ InState(s, st).state = st
         /\ InState(s, st).removed = s.removed /\ InState(s, st).op = s.op
         /\ InState(s, st).generation = s.generation
         /\ InState(s, st).running = IF st = "running" THEN s.running ELSE 0
  BY DEF InState, Slot

\* A task at l that holds its lock: its agent, its slot, its place.
HoldsAt(t, n, i) ==
    /\ n \in Names /\ i \in DOMAIN slot[n] /\ n = task[t].name /\ i = task[t].slot
    /\ SlotOf(t) = slot[n][i] /\ slot[n][i] \in Slot /\ slot[n][i].op = t
    /\ TaskPlaced(t) /\ (t \in Names => t = n)
    /\ n \notin abandoned => SlotKept(n, i) /\ TaskKept(t)

LEMMA Holds ==
  ASSUME Inv, NEW t \in Tasks, task[t].pc \in Holding
  PROVE  \E n \in Names : \E i \in DOMAIN slot[n] : HoldsAt(t, n, i)
  BY Located, NamesApart DEF HoldsAt, Inv, Kept

LEMMA StartLockedKeeps ==
  ASSUME Inv, NEW t \in Tasks, StartLocked(t)
  PROVE  Inv'
  <1>0. TypeOK /\ task[t].pc = "start" /\ task[t].pc \in Holding /\ task[t].pc \in OnSlot
    BY DEF Inv, StartLocked, At, Holding, OnSlot
  <1>1. Around
    BY <1>0, AroundOf DEF StartLocked, TypeOK
  <1>2. PICK n \in Names : \E j \in DOMAIN slot[n] : HoldsAt(t, n, j)
    BY <1>0, Holds
  <1>3. PICK i \in DOMAIN slot[n] : HoldsAt(t, n, i)
    BY <1>2
  <1>4. task[t].op # "stop"
    BY <1>0, <1>3 DEF HoldsAt, TaskPlaced
  <1>5. CASE Return(t)
    BY <1>0, <1>1, <1>4, <1>5, ReturnKeeps
  <1>6. CASE /\ ~SlotOf(t).removed /\ ~stopping /\ SlotOf(t).state \notin {"running", "starting"}
             /\ SlotBecomes(t, InState(SlotOf(t), "starting"), "reserve")
    <2>1. PICK l : l = "reserve"
      OBVIOUS
    <2>2. PICK s \in Slot : s = InState(slot[n][i], "starting")
      BY <1>3, InStateOf DEF HoldsAt
    <2>3. /\ SlotBecomes(t, s, l) /\ s.running = 0 /\ ~s.removed /\ s.state = "starting"
          /\ s.removed = slot[n][i].removed
      <3>1. slot[n][i] \in Slot /\ SlotOf(t) = slot[n][i]
        BY <1>3 DEF HoldsAt
      <3>2. s.running = 0 /\ s.state = "starting" /\ s.removed = slot[n][i].removed
        BY ONLY <2>2, <3>1, InStateOf
      <3>3. SlotBecomes(t, s, l) /\ ~slot[n][i].removed
        BY ONLY <1>6, <2>1, <2>2, <3>1
      <3> QED
        BY ONLY <3>2, <3>3
    <2>4. n \notin abandoned => slot[n][i].running = 0
      BY <1>3, <1>6 DEF HoldsAt, SlotKept
    <2>5. l \in Holding /\ l \in (OnSlot \cup {"done"}) \ OnRun /\ l # "done"
          /\ l \notin {"deprovision", "forget"}
      BY <2>1, StepsIncluded DEF Holding
    <2> QED
      BY <1>0, <1>1, <1>3, <1>4, <1>6, <2>2, <2>3, <2>4, <2>5, BecomesKeeps
         DEF HoldsAt, Around
  <1> QED
    BY <1>5, <1>6 DEF StartLocked

LEMMA FailStartKeeps ==
  ASSUME Inv, NEW t \in Tasks, FailStart(t)
  PROVE  Inv'
  <1>0. TypeOK /\ task[t].pc = "failing" /\ task[t].pc \in Holding /\ task[t].pc \in OnSlot
    BY DEF Inv, FailStart, At, Holding, OnSlot
  <1>2. PICK n \in Names : \E j \in DOMAIN slot[n] : HoldsAt(t, n, j)
    BY <1>0, Holds
  <1>3. PICK i \in DOMAIN slot[n] : HoldsAt(t, n, i)
    BY <1>2
  <1>1. Around
    <2>1. ports' = [ports EXCEPT ![n] = None]
      BY <1>3 DEF FailStart, ReleasePort, HoldsAt
    <2> QED
      BY <1>0, <2>1, AroundOf DEF FailStart, TypeOK
  <1>4. task[t].op # "stop"
    BY <1>0, <1>3 DEF HoldsAt, TaskPlaced
  <1>5. PICK l : l = "done"
    OBVIOUS
  <1>6. PICK s \in Slot : s = InState(slot[n][i], "failed")
    BY <1>3, InStateOf DEF HoldsAt
  <1>7. /\ SlotBecomes(t, s, l) /\ s.running = 0 /\ s.state = "failed"
        /\ s.removed = slot[n][i].removed
    BY ZenonT(60), <1>3, <1>5, <1>6, InStateOf DEF HoldsAt, FailStart
  <1>8. n \notin abandoned => slot[n][i].running = 0
    BY <1>0, <1>3 DEF HoldsAt, TaskKept
  <1>9. /\ l \in (OnSlot \cup {"done"}) \ OnRun /\ l \notin Present /\ l \notin Starting
        /\ l \notin {"reserve", "launch", "failing", "deprovision", "forget"}
    BY <1>5, StepsIncluded DEF Present, Starting
  <1> QED
    <2>1. /\ Inv /\ t \in Tasks /\ n \in Names /\ i \in DOMAIN slot[n] /\ n = task[t].name
          /\ i = task[t].slot /\ slot[n][i].op \in {t, None}
      BY <1>3 DEF HoldsAt
    <2>2. /\ UNCHANGED <<slots, run, router, hub, stopping, abandoned>>
          /\ ports' \in [Names \cup Others -> Ports \cup {None}] /\ dir' \subseteq Names
          /\ creating' \in Tasks \cup {None} /\ (Fault \/ UNCHANGED counted)
      BY <1>1 DEF Around
    <2> QED
      BY ONLY ZenonT(60), <1>0, <1>4, <1>5, <1>6, <1>7, <1>8, <1>9, <2>1, <2>2, BecomesKeeps

LEMMA PatchKeeps ==
  ASSUME Inv, NEW t \in Tasks, Patch(t)
  PROVE  Inv'
  <1>0. TypeOK /\ task[t].pc = "patch" /\ task[t].pc \in Holding /\ TaskPlaced(t)
    BY DEF Inv, Patch, At, Holding, Placed
  <1>1. Around
    BY <1>0, AroundOf DEF Patch, TypeOK
  <1>2. task[t].op # "stop"
    BY <1>0 DEF TaskPlaced
  <1> QED
    BY <1>0, <1>1, <1>2, ReturnKeeps DEF Patch

LEMMA ForgetPortKeeps ==
  ASSUME Inv, NEW t \in Tasks, ForgetPort(t)
  PROVE  Inv'
  <1>0. TypeOK /\ task[t].pc = "unport" /\ task[t].pc \in Holding /\ task[t].pc \in Named /\ TaskPlaced(t)
    BY DEF Inv, ForgetPort, At, Holding, Placed, Named, OnSlot
  <1>1. Around
    <2>1. PICK n \in Names : ports' = [ports EXCEPT ![n] = None]
      BY <1>0 DEF ForgetPort, ReleasePort, TaskPlaced
    <2> QED
      BY <1>0, <2>1, AroundOf DEF ForgetPort, TypeOK
  <1>2. task[t].op # "stop"
    BY <1>0 DEF TaskPlaced
  <1> QED
    BY <1>0, <1>1, <1>2, ReturnKeeps DEF ForgetPort

LEMMA DeprovisionKeeps ==
  ASSUME Inv, NEW t \in Tasks, Deprovision(t)
  PROVE  Inv'
  <1>0. TypeOK /\ task[t].pc = "deprovision" /\ task[t].pc \in Holding /\ task[t].pc \in Present
        /\ TaskPlaced(t)
    BY DEF Inv, Deprovision, At, Holding, Placed, Present
  <1>1. Around
    <2>1. dir' \subseteq Names
      BY <1>0 DEF Deprovision, TypeOK
    <2> QED
      BY <1>0, <2>1, AroundOf DEF Deprovision
  <1>2. task[t].op # "stop"
    BY <1>0 DEF TaskPlaced
  <1>3. CASE Return(t)
    BY <1>0, <1>1, <1>2, <1>3, ReturnKeeps
  <1>4. CASE Goto(t, "forget") /\ UNCHANGED slot
    <2>1. PICK l : l = "forget"
      OBVIOUS
    <2>2. l \in Holding \ OnRun /\ l \notin Starting /\ l \notin {"reserve", "launch", "failing"}
      BY <2>1 DEF Holding, OnRun, Starting
    <2>3. PICK n \in Names : \E j \in DOMAIN slot[n] : HoldsAt(t, n, j)
      BY <1>0, Holds
    <2>4. task[t].name \notin abandoned => SlotOf(t).running = 0
      BY <1>0, <2>3 DEF HoldsAt, TaskKept
    <2>5. Goto(t, l)
      BY <1>4, <2>1
    <2> QED
      BY <1>0, <1>1, <1>2, <1>4, <2>2, <2>4, <2>5, GoesOnKeeps
  <1> QED
    BY <1>3, <1>4 DEF Deprovision

LEMMA ReserveKeeps ==
  ASSUME Inv, NEW t \in Tasks, ReserveTeamsPort(t)
  PROVE  Inv'
  <1>0. TypeOK /\ task[t].pc = "reserve" /\ task[t].pc \in Holding /\ task[t].pc \in Present
        /\ task[t].pc \in Starting /\ TaskPlaced(t)
    BY DEF Inv, ReserveTeamsPort, At, Holding, Placed, Present, Starting
  <1>1. PICK n \in Names : \E j \in DOMAIN slot[n] : HoldsAt(t, n, j)
    BY <1>0, Holds
  <1>2. Around
    <2>1. n = task[t].name /\ ports \in [Names \cup Others -> Ports \cup {None}]
      BY <1>0, <1>1 DEF HoldsAt, TypeOK
    <2>2. UNCHANGED ports \/ \E p \in Ports \cup {None} : ports' = [ports EXCEPT ![n] = p]
      BY <2>1 DEF ReserveTeamsPort
    <2> QED
      BY <1>0, <2>2, AroundOf DEF ReserveTeamsPort, TypeOK
  <1>3. task[t].op # "stop"
    BY <1>0 DEF TaskPlaced
  <1>4. PICK l \in {"failing", "launch"} : Goto(t, l)
    BY DEF ReserveTeamsPort
  <1>5. l \in Holding \ OnRun /\ l \notin {"deprovision", "forget"}
    BY <1>4 DEF Holding, OnRun
  <1>6. task[t].name \notin abandoned => SlotOf(t).state = "starting" /\ SlotOf(t).running = 0
    BY <1>0, <1>1 DEF HoldsAt, TaskKept
  <1> QED
    BY <1>0, <1>2, <1>3, <1>4, <1>5, <1>6, GoesOnKeeps DEF ReserveTeamsPort

LEMMA AfterStopOf ==
  ASSUME NEW t \in Tasks
  PROVE  /\ AfterStop(t) \in {"start", "deprovision", "done"}
         /\ task[t].op = "stop" => AfterStop(t) = "done"
  BY DEF AfterStop

\* The slot has no run, so the stop goes on to what follows it.
LEMMA StoppedKeeps ==
  ASSUME Inv, NEW t \in Tasks, task[t].pc \in {"stop", "stopping", "aborting"},
         ~SlotOf(t).removed, task[t].name \notin abandoned => SlotOf(t).running = 0,
         SlotBecomes(t, SlotOf(t), AfterStop(t)), Around
  PROVE  Inv'
  <1>0. task[t].pc \in Holding /\ task[t].pc \in OnSlot
    BY DEF Holding, OnSlot
  <1>1. PICK n \in Names : \E j \in DOMAIN slot[n] : HoldsAt(t, n, j)
    BY <1>0, Holds
  <1>2. PICK i \in DOMAIN slot[n] : HoldsAt(t, n, i)
    BY <1>1
  <1>3. PICK l : l = AfterStop(t)
    OBVIOUS
  <1>4. PICK s \in Slot : s = slot[n][i]
    BY <1>2 DEF HoldsAt
  <1>5. SlotBecomes(t, s, l) /\ ~s.removed /\ (n \notin abandoned => s.running = 0)
        /\ (n \notin abandoned => s.state # "running")
    BY <1>2, <1>3, <1>4 DEF HoldsAt, SlotKept
  <1>6. /\ l \in (OnSlot \cup {"done"}) \ OnRun /\ l \in Holding \cup {"detached", "done"}
        /\ l \notin {"reserve", "launch", "failing"} /\ l \notin Starting
        /\ task[t].op = "stop" => l = "done"
    BY <1>3, AfterStopOf, StepsIncluded DEF Holding, Starting
  <1> QED
    BY <1>0, <1>2, <1>4, <1>5, <1>6, BecomesKeeps DEF HoldsAt, Around

LEMMA StopSeesExitKeeps ==
  ASSUME Inv, NEW t \in Tasks, StopSeesExit(t)
  PROVE  Inv'
  <1>0. TypeOK /\ task[t].pc \in {"stopping", "aborting"} /\ task[t].pc \in Holding
        /\ task[t].pc \in Present
    BY DEF Inv, StopSeesExit, At, Holding, Present
  <1>1. Around
    BY <1>0, AroundOf DEF StopSeesExit, TypeOK
  <1>2. PICK n \in Names : \E j \in DOMAIN slot[n] : HoldsAt(t, n, j)
    BY <1>0, Holds
  <1>3. PICK i \in DOMAIN slot[n] : HoldsAt(t, n, i)
    BY <1>2
  <1>4. ~SlotOf(t).removed
    BY <1>0, <1>3 DEF HoldsAt, TaskPlaced
  <1>5. n \notin abandoned => slot[n][i].running = 0
    BY <1>0, <1>3 DEF HoldsAt, TaskKept, SlotKept, StopSeesExit, RunOf, Watching
  <1> QED
    BY <1>0, <1>1, <1>3, <1>4, <1>5, StoppedKeeps DEF HoldsAt, StopSeesExit

LEMMA ClientLeavesLaunchKeeps ==
  ASSUME Inv, NEW q \in Requests, ClientLeavesLaunch(q)
  PROVE  Inv'
  <1>0. /\ TypeOK /\ task[q].pc = "launch" /\ task[q].pc \in Holding /\ task[q].pc \in OnSlot
        /\ q \in Tasks
    BY DEF Inv, ClientLeavesLaunch, At, Holding, OnSlot, Tasks
  <1>1. Around
    BY <1>0, AroundOf DEF ClientLeavesLaunch, TypeOK
  <1>2. PICK n \in Names : \E j \in DOMAIN slot[n] : HoldsAt(q, n, j)
    BY <1>0, Holds
  <1>3. PICK i \in DOMAIN slot[n] : HoldsAt(q, n, i)
    BY <1>2
  <1>4. PICK l : l = "detached"
    OBVIOUS
  <1>5. PICK s \in Slot : s = slot[n][i]
    BY <1>3 DEF HoldsAt
  <1>6. SlotBecomes(q, s, l) /\ task[q].op # "stop"
    BY <1>0, <1>3, <1>4, <1>5 DEF HoldsAt, ClientLeavesLaunch, TaskPlaced
  <1>7. /\ l \in (OnSlot \cup {"done"}) \ OnRun /\ l \notin Present /\ l \notin Starting
        /\ l \notin {"reserve", "launch", "failing", "deprovision", "forget", "done"}
    BY <1>4, StepsIncluded DEF Present, Starting
  <1>8. n \notin abandoned => s.state # "running" /\ s.running = 0
    BY <1>0, <1>3, <1>5 DEF HoldsAt, TaskKept
  <1> QED
    BY <1>0, <1>1, <1>3, <1>4, <1>5, <1>6, <1>7, <1>8, BecomesKeeps DEF HoldsAt, Around
-----------------------------------------------------------------------------
(* Steps outside the locks of the slots.                                   *)

LEMMA NotLocked ==
  ASSUME NEW l \in {"new", "naming", "making", "paging", "lookup", "waiting", "detached", "done"}
  PROVE  l \notin Holding /\ l \notin OnRun /\ l \notin Present /\ l \in Pcs
  BY DEF Holding, OnRun, Present, Pcs, Named, OnSlot

LEMMA NamingIsPlaced ==
  ASSUME NEW t, task'[t].pc \in {"naming", "making", "paging", "lookup"},
         task'[t].name \in Names, task'[t].op \in Ops \ {"stop"}
  PROVE  TaskPlaced(t)'
  BY DEF TaskPlaced, OnSlot, OnRun, Holding, Present

LEMMA FinishedIsPlaced ==
  ASSUME NEW t, task'[t] = Finished
  PROVE  TaskPlaced(t)'
  BY FinishedIsTask DEF TaskPlaced, Named, OnSlot, OnRun, Holding, Present

LEMMA WaitingIsPlaced ==
  ASSUME NEW t, task'[t].pc = "waiting", task'[t].op \in Ops, task'[t].name \in Names,
         task'[t].slot \in DOMAIN slot'[task'[t].name]
  PROVE  TaskPlaced(t)'
  BY DEF TaskPlaced, OnSlot, OnRun, Holding, Present

LEMMA AskForAgentKeeps ==
  ASSUME Inv, NEW q \in Requests, NEW op \in Ops, NEW n \in Names, AskForAgent(q, op, n)
  PROVE  Inv'
  <1>0. /\ TypeOK /\ task[q].pc = "new" /\ q \in Tasks /\ q \notin Names
        /\ task[q].name = None /\ task[q].pc \notin Holding
    BY NamesApart DEF Inv, AskForAgent, At, Placed, TaskPlaced, Tasks, Holding
  <1>1. Around /\ UNCHANGED slot
    BY <1>0, AroundOf DEF AskForAgent, TypeOK
  <1>2. PICK v : /\ task' = PutAt(task, q, v)
                 /\ \/ v = Finished
                    \/ /\ slots[n] # 0
                       /\ v = [op |-> op, name |-> n, slot |-> slots[n], run |-> 0, pc |-> "waiting"]
    BY DEF AskForAgent, PutAt
  <1>3. /\ v \in Task
        /\ \/ v = Finished
           \/ v.pc = "waiting" /\ v.op = op /\ v.name = n /\ v.slot \in DOMAIN slot[n]
    <2>1. CASE v = Finished
      BY <2>1, FinishedIsTask
    <2>2. CASE /\ slots[n] # 0
               /\ v = [op |-> op, name |-> n, slot |-> slots[n], run |-> 0, pc |-> "waiting"]
      <3>1. slots[n] \in Nat /\ slots[n] \in DOMAIN slot[n]
        BY <1>0, <2>2 DEF TypeOK
      <3> QED
        BY <2>2, <3>1 DEF Task
    <2> QED
      BY <1>2, <2>1, <2>2
  <1>4. task' \in [Tasks -> Task] /\ task'[q] = v /\ \A u \in Tasks : u # q => task'[u] = task[u]
    BY <1>0, <1>2, <1>3, TaskWritten
  <1>5. /\ task'[q].name \in {n, None} /\ task'[q].pc \in {"done", "waiting"}
        /\ task'[q].pc # "done" => task'[q].name = n
    BY <1>3, <1>4, FinishedIsTask
  <1>6. TaskPlaced(q)'
    BY <1>1, <1>3, <1>4, FinishedIsPlaced, WaitingIsPlaced
  <1>7. task'[q].pc \notin Holding /\ task'[q].pc # "new"
    BY <1>5, NotLocked
  <1> QED
    BY <1>0, <1>1, <1>4, <1>5, <1>6, <1>7, UnlockedKeeps

LEMMA AskForNewKeeps ==
  ASSUME Inv, NEW q \in Requests, NEW op \in Ops, NEW n \in Names, AskForNew(q, op, n)
  PROVE  Inv'
  <1>0. /\ TypeOK /\ task[q].pc = "new" /\ q \in Tasks /\ q \notin Names
        /\ task[q].name = None /\ task[q].pc \notin Holding /\ op # "stop"
    BY NamesApart DEF Inv, AskForNew, At, Placed, TaskPlaced, Tasks, Holding
  <1>1. Around /\ UNCHANGED slot
    BY <1>0, AroundOf DEF AskForNew, TypeOK
  <1>2. PICK v : /\ task' = PutAt(task, q, v)
                 /\ \/ v = Finished
                    \/ v = [op |-> op, name |-> n, slot |-> 0, run |-> 0, pc |-> "naming"]
    BY DEF AskForNew, PutAt
  <1>3. /\ v \in Task
        /\ \/ v = Finished
           \/ v.pc = "naming" /\ v.op = op /\ v.name = n
    <2>1. CASE v = Finished
      BY <2>1, FinishedIsTask
    <2>2. CASE v = [op |-> op, name |-> n, slot |-> 0, run |-> 0, pc |-> "naming"]
      BY <2>2 DEF Task
    <2> QED
      BY <1>2, <2>1, <2>2
  <1>4. task' \in [Tasks -> Task] /\ task'[q] = v /\ \A u \in Tasks : u # q => task'[u] = task[u]
    BY <1>0, <1>2, <1>3, TaskWritten
  <1>5. /\ task'[q].name \in {n, None} /\ task'[q].pc \in {"done", "naming"}
        /\ task'[q].pc # "done" => task'[q].name = n
    BY <1>3, <1>4, FinishedIsTask
  <1>6. TaskPlaced(q)'
    BY <1>0, <1>3, <1>4, FinishedIsPlaced, NamingIsPlaced
  <1>7. task'[q].pc \notin Holding /\ task'[q].pc # "new"
    BY <1>5, NotLocked
  <1> QED
    BY <1>0, <1>1, <1>4, <1>5, <1>6, <1>7, UnlockedKeeps

\* A task at l that holds no slot's lock goes on to k.
LEMMA UnlockedGoto ==
  ASSUME Inv, NEW t \in Tasks,
         task[t].pc \in {"naming", "making", "paging", "lookup", "waiting", "detached"},
         NEW k \in {"making", "paging", "lookup", "done"}, Goto(t, k), UNCHANGED slot, Around,
         t \in Names => task[t].pc # "waiting",
         k # "done" => task[t].op # "stop"
  PROVE  Inv'
  <1>0. /\ TypeOK /\ TaskPlaced(t) /\ task[t].pc \notin Holding /\ k \notin Holding
        /\ k \in Pcs /\ task[t].pc \in Named /\ task[t].pc \notin {"new", "done"}
    BY NotLocked DEF Inv, Placed, Named, OnSlot
  <1>1. PICK n \in Names : n = task[t].name /\ (t \in Names => t = n) /\ task[t].op \in Ops
    BY <1>0 DEF TaskPlaced, Inv, HubKept, FutureKept
  <1>2. /\ task' \in [Tasks -> Task] /\ \A u \in Tasks : u # t => task'[u] = task[u]
        /\ task'[t].pc = k
        /\ k = "done" => task'[t] = Finished
        /\ k # "done" => /\ task'[t].op = task[t].op /\ task'[t].name = task[t].name
                         /\ task'[t].slot = task[t].slot /\ task'[t].run = task[t].run
    BY <1>0, GotoStep
  <1>3. TaskPlaced(t)'
    BY <1>1, <1>2, FinishedIsPlaced, NamingIsPlaced
  <1>4. task'[t].name \in {n, None} /\ (k # "done" => task'[t].name = n)
    BY <1>1, <1>2, FinishedIsTask
  <1> QED
    BY <1>0, <1>1, <1>2, <1>3, <1>4, UnlockedKeeps

LEMMA LockCreationKeeps ==
  ASSUME Inv, NEW t \in Tasks, LockCreation(t)
  PROVE  Inv'
  <1>0. TypeOK /\ task[t].pc = "naming" /\ TaskPlaced(t) /\ task[t].op # "stop"
    BY DEF Inv, LockCreation, At, Placed, TaskPlaced
  <1>1. Around /\ UNCHANGED slot
    BY <1>0 DEF LockCreation, TypeOK, Around
  <1>2. Goto(t, "making")
    BY DEF LockCreation
  <1> QED
    BY <1>0, <1>1, <1>2, UnlockedGoto

LEMMA ProvisionKeeps ==
  ASSUME Inv, NEW t \in Tasks, Provision(t)
  PROVE  Inv'
  <1>0. TypeOK /\ task[t].pc = "making" /\ TaskPlaced(t) /\ task[t].op # "stop"
        /\ task[t].name \in Names
    BY DEF Inv, Provision, At, Placed, TaskPlaced, Named
  <1>1. Around /\ UNCHANGED slot
    <2>1. dir' \subseteq Names /\ creating' \in {creating, None}
      BY <1>0 DEF Provision, TypeOK
    <2> QED
      BY <1>0, <2>1, AroundOf DEF Provision
  <1>2. Goto(t, "done") \/ Goto(t, "paging")
    BY DEF Provision
  <1> QED
    BY <1>0, <1>1, <1>2, UnlockedGoto

LEMMA LookUpNewKeeps ==
  ASSUME Inv, NEW t \in Tasks, LookUpNew(t)
  PROVE  Inv'
  <1>0. /\ TypeOK /\ task[t].pc = "lookup" /\ TaskPlaced(t) /\ task[t].op # "stop"
        /\ task[t].op \in Ops /\ task[t].pc \notin Holding /\ task[t] \in Task
    BY DEF Inv, LookUpNew, At, Placed, TaskPlaced, Named, Holding, OnSlot, TypeOK
  <1>1. Around /\ UNCHANGED slot
    BY <1>0, AroundOf DEF LookUpNew, TypeOK
  <1>2. CASE Goto(t, "done")
    BY <1>0, <1>1, <1>2, UnlockedGoto
  <1>3. PICK n \in Names : n = task[t].name /\ (t \in Names => t = n)
    BY <1>0 DEF TaskPlaced, Named, Inv, HubKept, FutureKept
  <1>4. CASE slots[n] # 0 /\ task' = [task EXCEPT ![t].slot = slots[n], ![t].pc = "waiting"]
    <2>1. PICK v : v = [task[t] EXCEPT !.slot = slots[n], !.pc = "waiting"]
      OBVIOUS
    <2>2. slots[n] \in Nat /\ slots[n] \in DOMAIN slot[n]
      BY <1>0, <1>4 DEF TypeOK
    <2>3. /\ v \in Task /\ v.pc = "waiting" /\ v.op = task[t].op /\ v.name = n
          /\ v.slot \in DOMAIN slot[n]
      BY <1>0, <1>3, <2>1, <2>2 DEF Task
    <2>4. task' = PutAt(task, t, v)
      BY <1>0, <1>4, <2>1 DEF PutAt, TypeOK
    <2>5. /\ task' \in [Tasks -> Task] /\ task'[t] = v
          /\ \A u \in Tasks : u # t => task'[u] = task[u]
      BY <1>0, <2>3, <2>4, TaskWritten
    <2>6. TaskPlaced(t)'
      BY <1>0, <1>1, <2>3, <2>5, WaitingIsPlaced
    <2>7. task'[t].pc \notin Holding /\ task'[t].pc \notin {"new", "done"}
      BY <2>3, <2>5, NotLocked
    <2> QED
      BY <1>0, <1>1, <1>3, <2>3, <2>5, <2>6, <2>7, UnlockedKeeps
  <1> QED
    BY <1>2, <1>3, <1>4 DEF LookUpNew

LEMMA ClientLeavesKeeps ==
  ASSUME Inv, NEW q \in Requests, ClientLeaves(q)
  PROVE  Inv'
  <1>0. TypeOK /\ q \in Tasks /\ q \notin Names
    BY NamesApart DEF Inv
  <1>1. Around
    <2>1. creating' \in {creating, None}
      BY DEF ClientLeaves
    <2> QED
      BY <1>0, <2>1, AroundOf DEF ClientLeaves, TypeOK
  <1>2. CASE task[q].pc \in AwaitsLocked /\ Return(q)
    <2>1. task[q].pc \in Holding /\ task[q].pc # "announce"
      BY <1>2 DEF AwaitsLocked, Holding
    <2> QED
      BY <1>0, <1>1, <1>2, <2>1, ReturnKeeps
  <1>3. CASE task[q].pc \in AwaitsUnlocked /\ Goto(q, "done") /\ UNCHANGED slot
    <2>1. task[q].pc \in {"naming", "making", "paging", "lookup", "waiting", "detached"}
      BY <1>3 DEF AwaitsUnlocked
    <2> QED
      BY <1>0, <1>1, <1>3, <2>1, UnlockedGoto
  <1> QED
    BY <1>2, <1>3 DEF ClientLeaves
-----------------------------------------------------------------------------
(* Steps that write a run.                                                 *)

LEMMA RunIsOne ==
  ASSUME TypeOK, NEW n \in Names, NEW r \in DOMAIN run[n]
  PROVE  r \in Nat /\ r # 0 /\ run[n][r] \in Run /\ run[n][r].slot \in DOMAIN slot[n]
  <1>1. run[n] \in Seq(Run)
    BY DEF TypeOK
  <1>2. r \in Nat /\ r # 0 /\ run[n][r] \in Run
    BY <1>1, InDomain
  <1> QED
    BY <1>2 DEF TypeOK

\* Where a slot has a run no other run of the agent is live or watched, and no start
\* of the agent is about to attach one.
LEMMA OneRun ==
  ASSUME Inv, NEW n \in Names, n \notin abandoned, NEW i \in DOMAIN slot[n],
         slot[n][i].running # 0
  PROVE  /\ slots[n] = i
         /\ \A q \in DOMAIN run[n] :
              Live(n, q) \/ run[n][q].supervisor \in Watching => q = slot[n][i].running
         /\ \A u \in Tasks : task[u].name = n =>
              task[u].pc \notin {"attach", "reserve", "launch", "failing", "deprovision", "forget"}
  <1>0. TypeOK /\ Placed /\ Kept(n)
    BY DEF Inv
  <1>1. ASSUME NEW j \in DOMAIN slot[n], slot[n][j].running # 0 PROVE slots[n] = j
    BY <1>0, <1>1 DEF Kept, SlotKept, Placed, SlotPlaced
  <1>2. ASSUME NEW q \in DOMAIN run[n], Live(n, q) \/ run[n][q].supervisor \in Watching
        PROVE  q = slot[n][i].running
    <2>1. q # 0 /\ run[n][q].slot \in DOMAIN slot[n]
      BY <1>0, RunIsOne
    <2>2. slot[n][run[n][q].slot].running = q
      BY <1>0, <1>2 DEF Kept, RunKept
    <2>3. slots[n] = run[n][q].slot /\ slots[n] = i
      BY <1>1, <2>1, <2>2
    <2> QED
      BY <2>2, <2>3
  <1>3. ASSUME NEW u \in Tasks, task[u].name = n,
               task[u].pc \in {"attach", "reserve", "launch", "failing", "deprovision", "forget"}
        PROVE  FALSE
    <2>1. TaskPlaced(u) /\ TaskKept(u) /\ task[u].pc \in Present
      BY <1>0, <1>3 DEF Kept, Placed, Present
    <2>2. /\ task[u].slot \in DOMAIN slot[n] /\ ~slot[n][task[u].slot].removed
          /\ slot[n][task[u].slot].running = 0
      BY <1>3, <2>1, NamesApart DEF TaskPlaced, TaskKept, SlotOf
    <2>3. slots[n] = task[u].slot
      BY <1>0, <2>2 DEF Placed, SlotPlaced
    <2> QED
      BY <1>1, <2>2, <2>3
  <1> QED
    BY <1>1, <1>2, <1>3

\* Run r of agent n is written, by task t if t is one, and the agent leaves the
\* router only where no other run is reached by it.
LEMMA RunStep ==
  ASSUME Inv, NEW n \in Names, NEW r \in DOMAIN run[n], NEW v \in Run, NEW t,
         run' = Put(run, n, r, v), UNCHANGED <<slot, slots, hub, stopping, abandoned>>,
         v.slot = run[n][r].slot, v.generation = run[n][r].generation,
         v.loop \in {"on", "leaving"} => Live(n, r),
         run[n][r].loop \in {"built", "dropped"} => v.loop = run[n][r].loop,
         v.supervisor = "none" <=> run[n][r].supervisor = "none",
         n \notin abandoned /\ run[n][r].supervisor \in Watching => v.supervisor \in Watching,
         n \notin abandoned => RunKept(n, r)',
         \/ router' = router
         \/ /\ router' = [router EXCEPT ![n] = 0]
            /\ n \notin abandoned => /\ \A q \in DOMAIN run[n] : Live(n, q) => q = r
                                     /\ \A u \in Tasks : task[u].name = n => task[u].pc # "attach",
         ports' \in [Names \cup Others -> Ports \cup {None}], dir' \subseteq Names,
         creating' \in Tasks \cup {None}, faults' \in 0 .. MaxFaults, reloads' \in 0 .. MaxReloads,
         task' \in [Tasks -> Task], \A u \in Tasks : u # t => task'[u] = task[u],
         t \in Tasks =>
            /\ task[t].name = n /\ task'[t].name = n
            /\ task'[t].slot = task[t].slot /\ task'[t].op = task[t].op
            /\ task[t].pc \in {"stop", "sending", "stopping"}
            /\ task'[t].pc \in {"sending", "stopping", "aborting"}
            /\ TaskPlaced(t)' /\ (n \notin abandoned => TaskKept(t)')
  PROVE  Inv'
  <1>0. TypeOK /\ Placed /\ FutureKept(n) /\ (n \notin abandoned => Kept(n))
    BY DEF Inv, HubKept
  <1>1. /\ run' \in [Names -> Seq(Run)] /\ run'[n][r] = v /\ RunSet(n, r)
        /\ \A m \in Names : m # n => run'[m] = run[m]
    BY <1>0, RunWritten
  <1>2. /\ DOMAIN run'[n] = DOMAIN run[n]
        /\ \A q \in DOMAIN run[n] : q # r => run'[n][q] = run[n][q]
    BY <1>1 DEF RunSet
  <1>3. router' \in [Names -> Nat] /\ \A m \in Names : m # n => router'[m] = router[m]
    <2>1. router \in [Names -> Nat]
      BY <1>0 DEF TypeOK
    <2>2. CASE router' = router
      BY <2>1, <2>2
    <2>3. CASE router' = [router EXCEPT ![n] = 0]
      BY <2>1, <2>3
    <2> QED
      BY <2>2, <2>3
  <1>4. TypeOK'
    <2>1. /\ slot' \in [Names -> Seq(Slot)] /\ slots' \in [Names -> Nat] /\ abandoned' \subseteq Names
      BY <1>0 DEF TypeOK
    <2>2. \A m \in Names : /\ DOMAIN run'[m] = DOMAIN run[m]
                           /\ \A q \in DOMAIN run[m] : run'[m][q].slot = run[m][q].slot
      BY ZenonT(60), <1>1, <1>2
    <2> QED
      BY <1>0, <1>1, <1>3, <2>1, <2>2, TypeKept
  <1>5. ASSUME n \notin abandoned PROVE Kept(n)'
    <2>0. ASSUME NEW q \in DOMAIN run[n], Reached(n, q), router' = router PROVE Reached(n, q)'
      BY <1>1, <1>2, <2>0 DEF Reached
    <2>1. ASSUME NEW i \in DOMAIN slot[n] PROVE SlotKept(n, i)'
      <3>1. SlotKept(n, i)
        BY <1>0, <1>5 DEF Kept
      <3>2. slot[n][i].op \in Tasks /\ task[slot[n][i].op].pc = "announce" =>
              task'[slot[n][i].op] = task[slot[n][i].op]
        OBVIOUS
      <3>3. CASE slot[n][i].running # r
        BY <1>2, <3>1, <3>2, <3>3 DEF SlotKept
      <3>4. CASE slot[n][i].running = r
        BY <1>1, <1>2, <1>5, <3>1, <3>2, <3>4 DEF SlotKept
      <3> QED
        BY <3>3, <3>4
    <2>2. ASSUME NEW q \in DOMAIN run[n] PROVE RunKept(n, q)'
      <3>1. CASE q = r
        BY <1>5, <3>1
      <3>2. CASE q # r
        <4>1. RunKept(n, q) /\ run'[n][q] = run[n][q]
          BY <1>0, <1>2, <1>5, <3>2 DEF Kept
        <4>2. CASE router' = router
          BY <2>0, <4>1, <4>2 DEF RunKept, Live
        <4>3. CASE ~Live(n, q)
          BY <4>1, <4>3 DEF RunKept, Live
        <4> QED
          BY <1>5, <3>2, <4>2, <4>3
      <3> QED
        BY <3>1, <3>2
    <2>3. ASSUME NEW u \in Tasks, task'[u].name = n PROVE TaskKept(u)'
      <3>1. CASE u = t
        BY <1>5, <3>1
      <3>2. CASE u # t
        <4>1. task'[u] = task[u] /\ TaskKept(u) /\ TaskPlaced(u) /\ task[u].name = n
          BY <1>0, <1>5, <2>3, <3>2 DEF Kept, Placed
        <4>2. PICK q : q = task[u].run
          OBVIOUS
        <4>3. task[u].pc \in OnRun => q \in DOMAIN run[n]
          BY <4>1, <4>2 DEF TaskPlaced
        <4>4. task[u].pc = "attach" =>
                /\ run'[n][q].loop = "built" /\ run'[n][q].supervisor = "none"
                /\ run'[n][q].slot = task[u].slot
          BY ZenonT(60), <1>1, <1>2, <4>1, <4>2, <4>3 DEF TaskKept, RunOf, OnRun
        <4>5. task[u].pc = "attach" => Reached(n, q)'
          BY <1>5, <2>0, <4>1, <4>2, <4>3 DEF TaskKept, OnRun
        <4>6. ASSUME task[u].pc \in {"sending", "stopping", "aborting"}
              PROVE  run'[n][q].supervisor # "none"
          <5>1. q \in DOMAIN run[n] /\ run[n][q].supervisor # "none"
            BY <4>1, <4>2, <4>3, <4>6 DEF TaskKept, RunOf, OnRun
          <5>2. CASE q = r
            BY <1>1, <5>1, <5>2
          <5>3. CASE q # r
            BY <1>2, <5>1, <5>3
          <5> QED
            BY <5>2, <5>3
        <4> QED
          BY ZenonT(60), <4>1, <4>2, <4>4, <4>5, <4>6 DEF TaskKept, SlotOf, RunOf
      <3> QED
        BY <3>1, <3>2
    <2> QED
      BY <1>2, <2>1, <2>2, <2>3 DEF Kept
  <1>6. \A u \in Tasks :
          /\ task'[u].name = task[u].name /\ task'[u].slot = task[u].slot /\ task'[u].op = task[u].op
          /\ task'[u].pc \in {"new", "done"} <=> task[u].pc \in {"new", "done"}
          /\ task'[u].pc \in Starting <=> task[u].pc \in Starting
    BY DEF Starting
  <1>7. FutureKept(n)'
    <2>1. n \in Tasks
      BY NamesApart
    <2>2. \A q \in DOMAIN run'[n] : Live(n, q)' =>
            q \in DOMAIN run[n] /\ Live(n, q) /\ run'[n][q].slot = run[n][q].slot
      BY <1>1, <1>2 DEF Live
    <2>3. Swept(n) => Swept(n)'
      BY <1>6, <2>1, <2>2 DEF Swept
    <2> QED
      BY <1>0, <1>6, <2>1, <2>3 DEF FutureKept
  <1>8. \A j \in DOMAIN slot'[n] : SlotPlaced(n, j)'
    BY <1>0, <1>2 DEF Placed, SlotPlaced
  <1>9. t \in Names => t = n
    BY DEF Inv, HubKept, FutureKept, Tasks
  <1>10. /\ DOMAIN slot[n] \subseteq DOMAIN slot'[n] /\ DOMAIN run[n] \subseteq DOMAIN run'[n]
         /\ \A j \in DOMAIN slot[n] :
              slot'[n][j].op = slot[n][j].op /\ slot'[n][j].removed = slot[n][j].removed
         /\ \A m \in Names : m # n => /\ slot'[m] = slot[m] /\ slots'[m] = slots[m]
                                      /\ run'[m] = run[m] /\ router'[m] = router[m]
    BY <1>1, <1>2, <1>3
  <1>11. t \in Tasks => /\ task[t].name \in {n, None} /\ task'[t].name \in {n, None}
                        /\ TaskPlaced(t)'
    OBVIOUS
  <1>12. /\ Inv /\ n \in Names /\ UNCHANGED <<hub, stopping>> /\ abandoned \subseteq abandoned'
         /\ \A u \in Tasks : u # t => task'[u] = task[u]
         /\ n \notin abandoned' => Kept(n)'
    BY <1>5
  <1> QED
    BY ONLY <1>4, <1>7, <1>8, <1>9, <1>10, <1>11, <1>12, StepKeeps

\* A run takes a step of its own.
LEMMA RunAlone ==
  ASSUME Inv, NEW n \in Names, NEW r \in DOMAIN run[n], NEW v \in Run,
         run' = Put(run, n, r, v),
         UNCHANGED <<slot, slots, dir, creating, stopping, task, hub, abandoned>>,
         v.slot = run[n][r].slot, v.generation = run[n][r].generation,
         v.loop \in {"on", "leaving"} => Live(n, r),
         run[n][r].loop \in {"built", "dropped"} => v.loop = run[n][r].loop,
         v.supervisor = "none" <=> run[n][r].supervisor = "none",
         v.supervisor \in Watching => run[n][r].supervisor \in Watching,
         n \notin abandoned /\ run[n][r].supervisor \in Watching => v.supervisor \in Watching,
         n \notin abandoned /\ v.supervisor \notin {"none", "join"} => v.loop \in Ended,
         n \notin abandoned /\ v.loop = "on" /\ ~v.requested =>
            router' = router /\ run[n][r].loop = "on" /\ ~run[n][r].requested,
         \/ router' = router
         \/ /\ router' = [router EXCEPT ![n] = 0]
            /\ Live(n, r) \/ run[n][r].supervisor \in Watching,
         ports' \in [Names \cup Others -> Ports \cup {None}],
         faults' \in 0 .. MaxFaults, reloads' \in 0 .. MaxReloads
  PROVE  Inv'
  <1>0. TypeOK /\ (n \notin abandoned => RunKept(n, r)) /\ run[n][r].slot \in DOMAIN slot[n] /\ r # 0
    BY RunIsOne DEF Inv, Kept
  <1>1. PICK t : t = None /\ t \notin Tasks
    BY NamesApart
  <1>2. /\ run'[n][r] = v /\ DOMAIN run'[n] = DOMAIN run[n]
        /\ \A q \in DOMAIN run[n] : q # r => run'[n][q] = run[n][q]
    BY <1>0, RunWritten DEF RunSet
  <1>3. n \notin abandoned => RunKept(n, r)'
    <2>1. ASSUME n \notin abandoned, v.loop = "on", ~v.requested PROVE Reached(n, r)'
      BY <1>0, <1>2, <2>1 DEF RunKept, Reached
    <2> QED
      BY <1>0, <1>2, <2>1 DEF RunKept, Live
  <1>4. ASSUME n \notin abandoned, Live(n, r) \/ run[n][r].supervisor \in Watching
        PROVE  /\ \A q \in DOMAIN run[n] : Live(n, q) => q = r
               /\ \A u \in Tasks : task[u].name = n => task[u].pc # "attach"
    <2>1. slot[n][run[n][r].slot].running = r
      BY <1>0, <1>4 DEF RunKept
    <2> QED
      BY <1>0, <1>4, <2>1, OneRun
  <1>5. \/ router' = router
        \/ /\ router' = [router EXCEPT ![n] = 0]
           /\ n \notin abandoned => /\ \A q \in DOMAIN run[n] : Live(n, q) => q = r
                                    /\ \A u \in Tasks : task[u].name = n => task[u].pc # "attach"
    BY <1>4
  <1>6. /\ dir' \subseteq Names /\ creating' \in Tasks \cup {None} /\ task' \in [Tasks -> Task]
        /\ \A u \in Tasks : u # t => task'[u] = task[u]
    BY <1>0 DEF TypeOK
  <1> QED
    BY <1>1, <1>3, <1>5, <1>6, RunStep

\* Its fields, one of them written.
LEMMA LoopSet ==
  ASSUME NEW w \in Run, NEW l \in Loops
  PROVE  LET v == [w EXCEPT !.loop = l, !.told = FALSE] IN
         /\ v \in Run /\ v.loop = l /\ v.slot = w.slot /\ v.generation = w.generation
         /\ v.requested = w.requested /\ v.forced = w.forced /\ v.supervisor = w.supervisor
  BY DEF Run

LEMMA FlagSet ==
  ASSUME NEW w \in Run, NEW b \in BOOLEAN
  PROVE  /\ LET v == [w EXCEPT !.requested = b] IN
            /\ v \in Run /\ v.loop = w.loop /\ v.slot = w.slot /\ v.generation = w.generation
            /\ v.requested = b /\ v.forced = w.forced /\ v.supervisor = w.supervisor
         /\ LET v == [w EXCEPT !.forced = b] IN
            /\ v \in Run /\ v.loop = w.loop /\ v.slot = w.slot /\ v.generation = w.generation
            /\ v.requested = w.requested /\ v.forced = b /\ v.supervisor = w.supervisor
         /\ LET v == [w EXCEPT !.reloaded = b] IN
            /\ v \in Run /\ v.loop = w.loop /\ v.slot = w.slot /\ v.generation = w.generation
            /\ v.requested = w.requested /\ v.forced = w.forced /\ v.supervisor = w.supervisor
  BY DEF Run

LEMMA ToldSet ==
  ASSUME NEW w \in Run, NEW b \in BOOLEAN
  PROVE  LET v == [w EXCEPT !.told = b] IN
         /\ v \in Run /\ v.loop = w.loop /\ v.slot = w.slot /\ v.generation = w.generation
         /\ v.requested = w.requested /\ v.forced = w.forced /\ v.supervisor = w.supervisor
  BY DEF Run

\* A run's event loop moves on.
LEMMA LoopKeeps ==
  ASSUME Inv, NEW n \in Names, NEW r \in DOMAIN run[n],
         LoopWindsDown(n, r) \/ LoopEnds(n, r) \/ LoopCrashes(n, r)
  PROVE  Inv'
  <1>0. TypeOK /\ run[n][r] \in Run /\ (n \notin abandoned => RunKept(n, r))
    BY RunIsOne DEF Inv, Kept
  <1>1. /\ UNCHANGED <<slot, slots, dir, creating, stopping, task, hub, abandoned, ports>>
        /\ (Fault \/ UNCHANGED counted) /\ Live(n, r)
    BY DEF LoopWindsDown, LoopEnds, LoopCrashes, Live
  <1>2. /\ ports' \in [Names \cup Others -> Ports \cup {None}]
        /\ faults' \in 0 .. MaxFaults /\ reloads' \in 0 .. MaxReloads
    BY <1>0, <1>1, FaultTyped DEF TypeOK
  <1>3. PICK l \in {"leaving", "stopped", "aborted", "crashed"} :
          /\ run' = [run EXCEPT ![n][r] = [@ EXCEPT !.loop = l, !.told = FALSE]]
          /\ \/ router' = router
             \/ router' = [router EXCEPT ![n] = 0]
          /\ l = "leaving" => run[n][r].loop = "on"
    BY DEF LoopWindsDown, LoopEnds, LoopCrashes
  <1>4. PICK v : v = [run[n][r] EXCEPT !.loop = l, !.told = FALSE]
    OBVIOUS
  <1>5. /\ v \in Run /\ v.loop = l /\ v.slot = run[n][r].slot
        /\ v.generation = run[n][r].generation /\ v.supervisor = run[n][r].supervisor
    <2>1. l \in Loops
      BY <1>3 DEF Loops, Ended
    <2> QED
      BY ONLY <1>0, <1>4, <2>1, LoopSet
  <1>6. run' = Put(run, n, r, v)
    BY <1>0, <1>3, <1>4 DEF Put, TypeOK
  <1>7. n \notin abandoned /\ v.supervisor \notin {"none", "join"} => v.loop \in Ended
    BY <1>0, <1>1, <1>5 DEF RunKept, Live, Ended
  <1>8. v.loop \in {"on", "leaving"} => Live(n, r)
    BY <1>1
  <1>9. run[n][r].loop \notin {"built", "dropped"} /\ v.loop # "on"
    BY <1>1, <1>3, <1>5 DEF Live
  <1> QED
    BY <1>1, <1>2, <1>3, <1>5, <1>6, <1>7, <1>8, <1>9, RunAlone

\* A run's supervisor moves on, up to its look at the slot.
LEMMA SuperviseKeeps ==
  ASSUME Inv, NEW n \in Names, NEW r \in DOMAIN run[n],
         SuperviseJoin(n, r) \/ SuperviseCleanup(n, r) \/ SuperviseLeave(n, r)
           \/ SuperviseCheck(n, r) \/ SuperviseUnport(n, r)
  PROVE  Inv'
  <1>0. /\ TypeOK /\ run[n][r] \in Run /\ (n \notin abandoned => RunKept(n, r))
        /\ run[n][r].slot \in DOMAIN slot[n] /\ r # 0
    BY RunIsOne DEF Inv, Kept
  <1>1. /\ UNCHANGED <<slot, slots, dir, creating, stopping, task, hub, abandoned>>
        /\ UNCHANGED counted /\ (UNCHANGED ports \/ ports' = [ports EXCEPT ![n] = None])
    BY DEF SuperviseJoin, SuperviseCleanup, SuperviseLeave, SuperviseCheck, SuperviseUnport,
           ReleasePort
  <1>2. /\ ports' \in [Names \cup Others -> Ports \cup {None}]
        /\ faults' \in 0 .. MaxFaults /\ reloads' \in 0 .. MaxReloads
    BY <1>0, <1>1, FaultTyped DEF TypeOK
  <1>3. PICK p \in {"cleanup", "leave", "check", "record", "done"} :
          /\ run' = [run EXCEPT ![n][r].supervisor = p]
          /\ run[n][r].supervisor # "none"
          /\ p # "done" => run[n][r].supervisor \in {"join", "cleanup", "leave", "check"}
          /\ \/ router' = router
             \/ router' = [router EXCEPT ![n] = 0] /\ run[n][r].supervisor = "leave"
          /\ run[n][r].supervisor = "join" => run[n][r].loop \in Ended
          /\ p = "done" => \/ run[n][r].supervisor = "unport"
                           \/ /\ run[n][r].supervisor = "check"
                              /\ slot[n][run[n][r].slot].generation # run[n][r].generation
    <2>1. CASE SuperviseJoin(n, r)
      BY <2>1 DEF SuperviseJoin
    <2>2. CASE SuperviseCleanup(n, r)
      BY <2>2 DEF SuperviseCleanup
    <2>3. CASE SuperviseLeave(n, r)
      BY <2>3 DEF SuperviseLeave
    <2>4. CASE SuperviseCheck(n, r)
      BY <2>4 DEF SuperviseCheck
    <2>5. CASE SuperviseUnport(n, r)
      BY <2>5 DEF SuperviseUnport
    <2> QED
      BY <2>1, <2>2, <2>3, <2>4, <2>5
  <1>4. PICK v : v = [run[n][r] EXCEPT !.supervisor = p]
    OBVIOUS
  <1>5. /\ v \in Run /\ v.loop = run[n][r].loop /\ v.slot = run[n][r].slot
        /\ v.generation = run[n][r].generation /\ v.supervisor = p
        /\ v.requested = run[n][r].requested
    <2>1. p \in {"none", "join", "cleanup", "leave", "check", "record", "unport", "done"}
      BY <1>3
    <2> QED
      BY <1>0, <1>4, <2>1 DEF Run
  <1>6. run' = Put(run, n, r, v)
    BY <1>0, <1>3, <1>4 DEF Put, TypeOK
  <1>7. ASSUME n \notin abandoned, run[n][r].supervisor = "check" PROVE p # "done"
    <2>1. slot[n][run[n][r].slot].running = r
      BY <1>0, <1>7 DEF RunKept, Watching
    <2>2. SlotKept(n, run[n][r].slot)
      BY <1>0, <1>7 DEF Inv, Kept
    <2> QED
      BY <1>0, <1>3, <1>7, <2>1, <2>2 DEF SlotKept
  <1>8. /\ v.supervisor \in Watching => run[n][r].supervisor \in Watching
        /\ n \notin abandoned /\ run[n][r].supervisor \in Watching => v.supervisor \in Watching
        /\ v.supervisor # "none" /\ run[n][r].supervisor # "none"
    BY <1>3, <1>5, <1>7 DEF Watching
  <1>9. n \notin abandoned /\ v.supervisor \notin {"none", "join"} => v.loop \in Ended
    BY <1>0, <1>3, <1>5 DEF RunKept
  <1>10. \/ router' = router
         \/ router' = [router EXCEPT ![n] = 0] /\ run[n][r].supervisor \in Watching
    BY <1>3 DEF Watching
  <1>11. n \notin abandoned /\ v.loop = "on" => FALSE
    BY <1>3, <1>5, <1>8, <1>9, <1>0 DEF RunKept, Ended, Watching
  <1> QED
    BY <1>1, <1>2, <1>5, <1>6, <1>8, <1>9, <1>10, <1>11, RunAlone DEF Live

LEMMA ReloadKeeps ==
  ASSUME Inv, NEW n \in Names, NEW r \in DOMAIN run[n], Reload(n, r) \/ RefreshTeamsPort(n, r)
  PROVE  Inv'
  <1>0. TypeOK /\ run[n][r] \in Run /\ (n \notin abandoned => RunKept(n, r))
    BY RunIsOne DEF Inv, Kept
  <1>1. /\ UNCHANGED <<slot, slots, dir, creating, stopping, task, hub, abandoned, router, faults>>
        /\ UNCHANGED reloads \/ (reloads < MaxReloads /\ reloads' = reloads + 1)
        /\ UNCHANGED ports \/ \E p \in Ports \cup {None} : ports' = [ports EXCEPT ![n] = p]
    BY DEF Reload, RefreshTeamsPort, counted
  <1>2. /\ ports' \in [Names \cup Others -> Ports \cup {None}]
        /\ faults' \in 0 .. MaxFaults /\ reloads' \in 0 .. MaxReloads
    <2>1. ports' \in [Names \cup Others -> Ports \cup {None}]
      BY <1>0, <1>1 DEF TypeOK
    <2>2. /\ faults \in 0 .. MaxFaults /\ reloads \in 0 .. MaxReloads /\ MaxReloads \in Nat
          /\ UNCHANGED reloads \/ (reloads < MaxReloads /\ reloads' = reloads + 1)
      BY <1>0, <1>1, AgentHostAssumption DEF TypeOK
    <2>3. reloads' \in 0 .. MaxReloads
      BY ONLY <2>2
    <2> QED
      BY <1>1, <2>1, <2>2, <2>3
  <1>3. PICK b \in BOOLEAN : run' = [run EXCEPT ![n][r].reloaded = b]
    BY DEF Reload, RefreshTeamsPort
  <1>4. PICK v : v = [run[n][r] EXCEPT !.reloaded = b]
    OBVIOUS
  <1>5. /\ v \in Run /\ v.loop = run[n][r].loop /\ v.slot = run[n][r].slot
        /\ v.generation = run[n][r].generation /\ v.supervisor = run[n][r].supervisor
        /\ v.requested = run[n][r].requested
    BY <1>0, <1>3, <1>4 DEF Run
  <1>6. run' = Put(run, n, r, v)
    BY <1>0, <1>3, <1>4 DEF Put, TypeOK
  <1>7. n \notin abandoned /\ v.supervisor \notin {"none", "join"} => v.loop \in Ended
    BY <1>0, <1>5 DEF RunKept
  <1> QED
    BY <1>1, <1>2, <1>5, <1>6, <1>7, RunAlone DEF Live

\* A stop's task marks its run and goes on.
LEMMA MarkKeeps ==
  ASSUME Inv, NEW t \in Tasks, task[t].pc \in {"sending", "stopping"},
         NEW l \in {"stopping", "aborting"}, Goto(t, l),
         UNCHANGED <<slot, slots, dir, creating, stopping, ports, router, hub, abandoned, counted>>,
         NEW n, n = task[t].name, NEW r, r = task[t].run, NEW v \in Run,
         run' = Put(run, n, r, v), v.loop = run[n][r].loop, v.slot = run[n][r].slot,
         v.generation = run[n][r].generation, v.supervisor = run[n][r].supervisor,
         v.requested = run[n][r].requested
  PROVE  Inv'
  <1>0. TypeOK /\ task[t].pc \in Holding /\ task[t].pc \in OnRun /\ n \in Names
    BY NamesApart DEF Inv, Holding, OnRun, Placed, TaskPlaced
  <1>1. PICK i \in DOMAIN slot[n] : HoldsAt(t, n, i)
    BY <1>0, Holds DEF HoldsAt
  <1>2. r \in DOMAIN run[n] /\ task[t].op \in Ops /\ ~SlotOf(t).removed
    BY ONLY <1>0, <1>1, r = task[t].run, n = task[t].name, NamesApart DEF HoldsAt, TaskPlaced
  <1>3. /\ task' \in [Tasks -> Task] /\ \A u \in Tasks : u # t => task'[u] = task[u]
        /\ task'[t].pc = l /\ task'[t].op = task[t].op /\ task'[t].name = n
        /\ task'[t].slot = i /\ task'[t].run = r /\ task[t].name = n /\ task[t].slot = i
    <2>1. l \in Pcs
      BY DEF Pcs, Named, OnSlot, Holding
    <2> QED
      BY <1>0, <1>1, <2>1, GotoStep DEF HoldsAt
  <1>4. /\ run'[n][r] = v /\ DOMAIN run'[n] = DOMAIN run[n]
        /\ \A q \in DOMAIN run[n] : q # r => run'[n][q] = run[n][q]
    BY <1>0, <1>2, RunWritten DEF RunSet
  <1>5. TaskPlaced(t)'
    <2>1. /\ SlotOf(t)' = slot[n][i] /\ slot[n][i].op = t /\ ~slot[n][i].removed
          /\ DOMAIN slot'[n] = DOMAIN slot[n]
      BY ONLY <1>1, <1>2, <1>3, slot' = slot DEF SlotOf, HoldsAt
    <2>2. r \in DOMAIN run'[n] /\ task'[t].op \in Ops
      BY ONLY <1>2, <1>3, <1>4
    <2>3. /\ task'[t].pc \in {"waiting", "stop", "sending", "stopping", "aborting"}
          /\ task'[t].pc \notin {"new", "done"}
      BY ONLY <1>3, l \in {"stopping", "aborting"}
    <2> QED
      BY ONLY <1>0, <1>1, <1>3, <2>1, <2>2, <2>3 DEF TaskPlaced
  <1>6. n \notin abandoned => TaskKept(t)'
    <2>1. n \notin abandoned => slot[n][i].running \in {0, r} /\ run[n][r].supervisor # "none"
      BY ONLY <1>0, <1>1, <1>3, r = task[t].run, task[t].pc \in {"sending", "stopping"}
         DEF HoldsAt, TaskKept, RunOf
    <2>2. SlotOf(t)' = slot[n][i] /\ RunOf(t)' = v
      BY ONLY <1>3, <1>4, slot' = slot DEF SlotOf, RunOf
    <2> QED
      BY ONLY <1>3, <2>1, <2>2, l \in {"stopping", "aborting"}, v.supervisor = run[n][r].supervisor
         DEF TaskKept
  <1>7. n \notin abandoned => RunKept(n, r)'
    <2>1. n \notin abandoned => RunKept(n, r)
      BY <1>0, <1>2 DEF Inv, Kept
    <2>2. Reached(n, r) => Reached(n, r)'
      <3>1. \A q \in DOMAIN run[n] : run'[n][q].loop = run[n][q].loop
        BY <1>4
      <3> QED
        BY ONLY <1>4, <3>1, router' = router DEF Reached
    <2> QED
      BY ONLY <1>4, <2>1, <2>2, slot' = slot, v.loop = run[n][r].loop, v.slot = run[n][r].slot,
         v.supervisor = run[n][r].supervisor, v.requested = run[n][r].requested
         DEF RunKept, Live
  <1>8. /\ ports' \in [Names \cup Others -> Ports \cup {None}] /\ dir' \subseteq Names
        /\ creating' \in Tasks \cup {None} /\ faults' \in 0 .. MaxFaults
        /\ reloads' \in 0 .. MaxReloads
    BY <1>0, FaultTyped DEF TypeOK
  <1>9. v.loop \in {"on", "leaving"} => Live(n, r)
    BY DEF Live
  <1> QED
    BY <1>0, <1>2, <1>3, <1>5, <1>6, <1>7, <1>8, <1>9, RunStep

\* Where a stop's run is.
LEMMA StopsRun ==
  ASSUME Inv, NEW t \in Tasks, task[t].pc \in OnRun
  PROVE  \E n \in Names, r \in Nat :
           n = task[t].name /\ r = task[t].run /\ r \in DOMAIN run[n] /\ run[n][r] \in Run
  <1>1. TypeOK /\ TaskPlaced(t) /\ task[t].pc \in Named
    BY NamesApart DEF Inv, Placed
  <1>2. PICK n \in Names : n = task[t].name
    BY <1>1 DEF TaskPlaced
  <1>3. PICK r \in DOMAIN run[n] : r = task[t].run
    BY <1>1, <1>2 DEF TaskPlaced
  <1>4. run[n] \in Seq(Run)
    BY <1>1 DEF TypeOK
  <1>5. run[n][r] \in Run /\ r \in Nat
    BY <1>4, InDomain
  <1> QED
    BY <1>2, <1>3, <1>5

\* The stop is in the channel, or the loop it was for is gone.
LEMMA SendStopKeeps ==
  ASSUME Inv, NEW t \in Tasks, SendStop(t)
  PROVE  Inv'
  <1>0. task[t].pc = "sending" /\ task[t].pc \in OnRun
    BY DEF SendStop, At, OnRun
  <1>1. PICK n \in Names, r \in Nat :
          n = task[t].name /\ r = task[t].run /\ r \in DOMAIN run[n] /\ run[n][r] \in Run
    BY <1>0, StopsRun
  <1>b. PICK b \in BOOLEAN : run' = [run EXCEPT ![n][r].told = b]
    BY <1>1 DEF SendStop
  <1>2. PICK v : v = [run[n][r] EXCEPT !.told = b] /\ run' = Put(run, n, r, v)
    <2>1. run \in [Names -> Seq(Run)] /\ run[n] \in Seq(Run)
      BY DEF Inv, TypeOK
    <2> QED
      BY <2>1, <1>b DEF Put
  <1>3. /\ v \in Run /\ v.loop = run[n][r].loop /\ v.slot = run[n][r].slot
        /\ v.generation = run[n][r].generation /\ v.supervisor = run[n][r].supervisor
        /\ v.requested = run[n][r].requested
    BY ONLY <1>1, <1>2, ToldSet
  <1>4. PICK l : l = "stopping"
    OBVIOUS
  <1>5. /\ UNCHANGED <<slot, slots, dir, creating, stopping, ports, router, hub, abandoned, counted>>
        /\ Goto(t, l)
    BY <1>4 DEF SendStop
  <1> QED
    BY <1>0, <1>1, <1>2, <1>3, <1>4, <1>5, MarkKeeps

\* STOP_TIMEOUT, by the stop's task.
LEMMA StopTimeoutKeeps ==
  ASSUME Inv, NEW t \in Tasks, StopTimeout(t)
  PROVE  Inv'
  <1>0. task[t].pc = "stopping" /\ task[t].pc \in OnRun
    BY DEF StopTimeout, At, OnRun
  <1>1. PICK n \in Names, r \in Nat :
          n = task[t].name /\ r = task[t].run /\ r \in DOMAIN run[n] /\ run[n][r] \in Run
    BY <1>0, StopsRun
  <1>2. PICK v : v = [run[n][r] EXCEPT !.forced = TRUE] /\ run' = Put(run, n, r, v)
    <2>1. run \in [Names -> Seq(Run)] /\ run[n] \in Seq(Run)
      BY DEF Inv, TypeOK
    <2>2. run' = [run EXCEPT ![n][r].forced = TRUE]
      BY <1>1 DEF StopTimeout
    <2> QED
      BY <2>1, <2>2 DEF Put
  <1>3. /\ v \in Run /\ v.loop = run[n][r].loop /\ v.slot = run[n][r].slot
        /\ v.generation = run[n][r].generation /\ v.supervisor = run[n][r].supervisor
        /\ v.requested = run[n][r].requested
    BY ONLY <1>1, <1>2, FlagSet
  <1>4. PICK l : l = "aborting"
    OBVIOUS
  <1>5. /\ UNCHANGED <<slot, slots, dir, creating, stopping, ports, router, hub, abandoned, counted>>
        /\ Goto(t, l)
    BY <1>4 DEF StopTimeout
  <1> QED
    BY <1>0, <1>1, <1>2, <1>3, <1>4, <1>5, MarkKeeps

\* A slot's present run is told to stop.
LEMMA StopLockedKeeps ==
  ASSUME Inv, NEW t \in Tasks, StopLocked(t)
  PROVE  Inv'
  <1>0. TypeOK /\ task[t].pc = "stop" /\ task[t].pc \in Holding /\ task[t] \in Task
    BY DEF Inv, StopLocked, At, Holding, TypeOK
  <1>1. PICK n \in Names : \E j \in DOMAIN slot[n] : HoldsAt(t, n, j)
    BY <1>0, Holds
  <1>2. PICK i \in DOMAIN slot[n] : HoldsAt(t, n, i)
    BY <1>1
  <1>3. UNCHANGED <<slots, dir, creating, stopping, ports, hub, abandoned, counted>>
    BY DEF StopLocked
  <1>4. CASE SlotOf(t).removed /\ Return(t) /\ UNCHANGED <<run, router>>
    <2>1. Around
      BY <1>0, <1>3, <1>4, AroundOf DEF TypeOK
    <2>2. n \notin abandoned => SlotOf(t).running = 0
      BY <1>2, <1>4 DEF HoldsAt, SlotKept
    <2> QED
      BY <1>0, <1>2, <1>4, <2>1, <2>2, ReturnKeeps DEF HoldsAt
  <1>5. CASE /\ ~SlotOf(t).removed /\ SlotOf(t).running = 0
             /\ SlotBecomes(t, SlotOf(t), AfterStop(t)) /\ UNCHANGED <<run, router>>
    <2>1. Around
      BY <1>0, <1>3, <1>5, AroundOf DEF TypeOK
    <2> QED
      BY <1>0, <1>5, <2>1, StoppedKeeps
  <1>6. ASSUME ~slot[n][i].removed, slot[n][i].running # 0,
               run' = [run EXCEPT ![n][slot[n][i].running].requested = TRUE],
               router' = [router EXCEPT ![n] = 0],
               task' = [task EXCEPT ![t].run = slot[n][i].running, ![t].pc = "sending"],
               UNCHANGED slot
        PROVE  Inv'
    <2>1. PICK r \in DOMAIN run[n] : r = slot[n][i].running
      BY <1>6 DEF Inv, Placed, SlotPlaced
    <2>2. PICK v : v = [run[n][r] EXCEPT !.requested = TRUE]
      OBVIOUS
    <2>3. /\ v \in Run /\ v.loop = run[n][r].loop /\ v.slot = run[n][r].slot
          /\ v.generation = run[n][r].generation /\ v.supervisor = run[n][r].supervisor
          /\ v.requested
      BY <1>0, <2>2, RunIsOne, FlagSet
    <2>4. run' = Put(run, n, r, v)
      BY <1>0, <1>6, <2>1, <2>2 DEF Put, TypeOK
    <2>5. PICK w : w = [task[t] EXCEPT !.run = r, !.pc = "sending"]
      OBVIOUS
    <2>6. /\ w \in Task /\ w.run = r /\ w.pc = "sending" /\ w.op = task[t].op
          /\ w.name = n /\ w.slot = i /\ task[t].name = n /\ task[t].slot = i
      BY <1>0, <1>2, <2>5, RunIsOne DEF Task, HoldsAt
    <2>7. task' = PutAt(task, t, w)
      BY <1>0, <1>6, <2>1, <2>5 DEF PutAt, TypeOK
    <2>8. /\ task' \in [Tasks -> Task] /\ task'[t] = w
          /\ \A u \in Tasks : u # t => task'[u] = task[u]
      BY <1>0, <2>6, <2>7, TaskWritten
    <2>9. run'[n][r] = v /\ DOMAIN run'[n] = DOMAIN run[n]
      BY <1>0, <2>3, <2>4, RunWritten DEF RunSet
    <2>10. TaskPlaced(t)'
      <3>1. SlotOf(t)' = slot[n][i] /\ SlotOf(t) = slot[n][i] /\ slot[n][i].op = t
        BY <1>2, <1>6, <2>6, <2>8 DEF SlotOf, HoldsAt
      <3>2. task[t].op \in Ops
        BY <1>0, <1>2, NamesApart DEF HoldsAt, TaskPlaced
      <3> QED
        BY <1>6, <2>6, <2>8, <2>9, <3>1, <3>2 DEF TaskPlaced
    <2>11. n \notin abandoned => TaskKept(t)'
      <3>1. n \notin abandoned => run[n][r].supervisor # "none"
        BY <1>0, <1>2, <1>6, <2>1 DEF HoldsAt, SlotKept, Watching
      <3> QED
        BY ZenonT(60), <1>6, <2>1, <2>3, <2>6, <2>8, <2>9, <3>1 DEF TaskKept, SlotOf, RunOf
    <2>12. n \notin abandoned => RunKept(n, r)'
      <3>1. n \notin abandoned => RunKept(n, r)
        BY DEF Inv, Kept
      <3> QED
        BY <1>6, <2>3, <2>9, <3>1 DEF RunKept, Live
    <2>13. /\ ports' \in [Names \cup Others -> Ports \cup {None}] /\ dir' \subseteq Names
           /\ creating' \in Tasks \cup {None} /\ faults' \in 0 .. MaxFaults
           /\ reloads' \in 0 .. MaxReloads
      BY <1>0, <1>3, FaultTyped DEF TypeOK
    <2>14. v.loop \in {"on", "leaving"} => Live(n, r)
      BY <2>3 DEF Live
    <2>15. n \notin abandoned => /\ \A q \in DOMAIN run[n] : Live(n, q) => q = r
                                 /\ \A u \in Tasks : task[u].name = n => task[u].pc # "attach"
      BY <1>6, <2>1, OneRun
    <2>16. /\ Inv /\ n \in Names /\ r \in DOMAIN run[n] /\ router' = [router EXCEPT ![n] = 0]
           /\ UNCHANGED <<slot, slots, hub, stopping, abandoned>> /\ v \in Run
           /\ task[t].pc = "stop" /\ task'[t].pc = "sending" /\ task[t].name = n
           /\ task'[t].name = n /\ task'[t].slot = task[t].slot /\ task'[t].op = task[t].op
      BY <1>0, <1>3, <1>6, <2>3, <2>6, <2>8
    <2> QED
      BY ONLY ZenonT(60), <2>3, <2>4, <2>8, <2>10, <2>11, <2>12, <2>13, <2>14, <2>15, <2>16, RunStep
  <1> QED
    BY <1>2, <1>4, <1>5, <1>6 DEF StopLocked, HoldsAt
-----------------------------------------------------------------------------
(* Steps that write a run and its slot.                                    *)

\* Of the slots of an agent for which a task has found its slot present, the others
\* have no run; nor is any run live or watched that is not this slot's.
LEMMA OnlyHere ==
  ASSUME Inv, NEW t \in Tasks, task[t].pc \in Present, NEW n \in Names, NEW i \in DOMAIN slot[n],
         HoldsAt(t, n, i), n \notin abandoned
  PROVE  /\ slots[n] = i
         /\ \A j \in DOMAIN slot[n] : j # i =>
              slot[n][j].running = 0 /\ slot[n][j].state # "running"
         /\ \A q \in DOMAIN run[n] :
              Live(n, q) \/ run[n][q].supervisor \in Watching => slot[n][i].running = q
         /\ \A u \in Tasks : u # t /\ task[u].name = n => task[u].pc \notin Present
  <1>0. TypeOK /\ Placed /\ Kept(n)
    BY DEF Inv
  <1>1. slots[n] = i
    BY <1>0 DEF HoldsAt, TaskPlaced, Placed, SlotPlaced
  <1>2. ASSUME NEW j \in DOMAIN slot[n], j # i
        PROVE  slot[n][j].running = 0 /\ slot[n][j].state # "running"
    BY <1>0, <1>1, <1>2 DEF Kept, SlotKept, Placed, SlotPlaced
  <1>3. ASSUME NEW q \in DOMAIN run[n], Live(n, q) \/ run[n][q].supervisor \in Watching
        PROVE  slot[n][i].running = q
    <2>1. q # 0 /\ run[n][q].slot \in DOMAIN slot[n]
      BY <1>0, RunIsOne
    <2>2. slot[n][run[n][q].slot].running = q
      BY <1>0, <1>3 DEF Kept, RunKept
    <2> QED
      BY <1>2, <2>1, <2>2
  <1>4. ASSUME NEW u \in Tasks, u # t, task[u].name = n, task[u].pc \in Present PROVE FALSE
    BY <1>0, <1>4, OnePresent DEF HoldsAt
  <1> QED
    BY <1>1, <1>2, <1>3, <1>4

LEMMA BothStep ==
  ASSUME Inv, NEW t \in Tasks, NEW n \in Names, NEW i \in DOMAIN slot[n], HoldsAt(t, n, i),
         task[t].pc \in Starting,
         NEW r \in DOMAIN run[n], NEW v \in Run, run' = Put(run, n, r, v),
         NEW s \in Slot, NEW l \in {"announce", "done"}, SlotBecomes(t, s, l),
         UNCHANGED <<slots, dir, creating, stopping, ports, router, hub, abandoned>>,
         Fault \/ UNCHANGED counted, task'[t].run = task[t].run \/ l = "done",
         v.slot = run[n][r].slot, s.removed = slot[n][i].removed,
         s.running \in {r, slot[n][i].running}, l = "announce" => task[t].run = r,
         n \notin abandoned =>
            /\ slot[n][i].running \in {0, r}
            /\ v.loop \in {"on", "leaving"} => v.slot = i
            /\ SlotKept(n, i)' /\ RunKept(n, r)'
            /\ l = "announce" => s.state = "starting" /\ s.running = r
  PROVE  Inv'
  <1>0. /\ TypeOK /\ Placed /\ (n \notin abandoned => Kept(n)) /\ l \in Pcs
        /\ task[t].pc \in Present /\ task[t].pc \in OnSlot
        /\ (t \in Names => t = n) /\ n = task[t].name /\ i = task[t].slot /\ TaskPlaced(t)
    BY NamesApart DEF Inv, HoldsAt, Pcs, Named, OnSlot, Holding
  <1>1. /\ slot' \in [Names -> Seq(Slot)] /\ SlotSet(n, i)
        /\ \A m \in Names : m # n => slot'[m] = slot[m]
        /\ slot'[n][i].op = IF l \in {"done", "detached"} THEN None ELSE t
        /\ slot'[n][i].removed = s.removed /\ slot'[n][i].state = s.state
        /\ slot'[n][i].running = s.running /\ slot'[n][i].generation = s.generation
        /\ Goto(t, l)
    BY <1>0, BecomesStep
  <1>2. /\ task' \in [Tasks -> Task] /\ \A u \in Tasks : u # t => task'[u] = task[u]
        /\ task'[t].pc = l
        /\ l = "done" => task'[t] = Finished
        /\ l # "done" => /\ task'[t].op = task[t].op /\ task'[t].name = task[t].name
                         /\ task'[t].slot = task[t].slot /\ task'[t].run = task[t].run
    BY <1>0, <1>1, GotoStep
  <1>3. /\ run' \in [Names -> Seq(Run)] /\ run'[n][r] = v /\ RunSet(n, r)
        /\ \A m \in Names : m # n => run'[m] = run[m]
    BY <1>0, RunWritten
  <1>4. /\ DOMAIN slot'[n] = DOMAIN slot[n] /\ DOMAIN run'[n] = DOMAIN run[n]
        /\ \A j \in DOMAIN slot[n] : j # i => slot'[n][j] = slot[n][j]
        /\ \A q \in DOMAIN run[n] : q # r => run'[n][q] = run[n][q]
    BY <1>1, <1>3 DEF SlotSet, RunSet
  <1>5. task'[t].name \in {n, None} /\ (l = "done" => task'[t].name = None)
    BY <1>0, <1>2, FinishedIsTask
  <1>6. TypeOK'
    <2>1. /\ faults' \in 0 .. MaxFaults /\ reloads' \in 0 .. MaxReloads
          /\ slots' \in [Names -> Nat] /\ abandoned' \subseteq Names /\ router' \in [Names -> Nat]
          /\ ports' \in [Names \cup Others -> Ports \cup {None}] /\ dir' \subseteq Names
          /\ creating' \in Tasks \cup {None}
      BY <1>0, FaultTyped DEF TypeOK
    <2>2. /\ \A m \in Names : DOMAIN slot'[m] = DOMAIN slot[m]
          /\ \A m \in Names : DOMAIN run'[m] = DOMAIN run[m]
          /\ \A m \in Names : \A q \in DOMAIN run[m] : run'[m][q].slot = run[m][q].slot
      BY ZenonT(60), <1>1, <1>3, <1>4
    <2> QED
      BY <1>0, <1>1, <1>2, <1>3, <2>1, <2>2, TypeKept
  <1>7. TaskPlaced(t)'
    <2>1. CASE l = "done"
      BY <1>2, <2>1, FinishedIsPlaced
    <2>2. CASE l = "announce"
      <3>1. SlotOf(t)' = slot'[n][i] /\ slot'[n][i].op = t
        BY <1>0, <1>1, <1>2, <2>2 DEF SlotOf
      <3>2. ~slot[n][i].removed /\ task[t].op \in Ops \ {"stop"}
        BY <1>0, NamesApart DEF TaskPlaced, SlotOf, Starting
      <3> QED
        <4>1. task'[t].pc = "announce" /\ task'[t].name = n /\ task'[t].op \in Ops \ {"stop"}
          BY ONLY <1>0, <1>2, <2>2, <3>2
        <4>2. task'[t].slot \in DOMAIN slot'[n] /\ task'[t].run \in DOMAIN run'[n]
          BY ONLY i \in DOMAIN slot[n], r \in DOMAIN run[n], l = "announce" => task[t].run = r,
                  <1>0, <1>2, <1>4, <2>2
        <4>3. SlotOf(t)'.op = t /\ ~SlotOf(t)'.removed
          BY ONLY s.removed = slot[n][i].removed, <1>1, <3>1, <3>2
        <4> QED
          BY ONLY n \in Names, <4>1, <4>2, <4>3 DEF TaskPlaced
    <2> QED
      BY <2>1, <2>2
  <1>8. \A j \in DOMAIN slot'[n] : SlotPlaced(n, j)'
    <2>1. ASSUME NEW j \in DOMAIN slot[n] PROVE SlotPlaced(n, j)'
      <3>1. SlotPlaced(n, j)
        BY <1>0 DEF Placed
      <3>2. CASE j # i
        BY <1>4, <3>1, <3>2 DEF SlotPlaced
      <3>3. CASE j = i
        BY <1>1, <1>4, <3>1, <3>3 DEF SlotPlaced
      <3> QED
        BY <3>2, <3>3
    <2> QED
      BY <1>4, <2>1
  <1>9. ASSUME n \notin abandoned PROVE Kept(n)'
    <2>0. /\ \A j \in DOMAIN slot[n] : j # i =>
                slot[n][j].running = 0 /\ slot[n][j].state # "running"
          /\ \A q \in DOMAIN run[n] :
                Live(n, q) \/ run[n][q].supervisor \in Watching => slot[n][i].running = q
          /\ \A u \in Tasks : u # t /\ task[u].name = n => task[u].pc \notin Present
      BY ONLY Inv, t \in Tasks, i \in DOMAIN slot[n], n \in Names, HoldsAt(t, n, i), <1>0, <1>9,
              OnlyHere
    <2>1. ASSUME NEW j \in DOMAIN slot[n] PROVE SlotKept(n, j)'
      <3>1. CASE j = i
        BY <1>9, <3>1
      <3>2. CASE j # i
        BY <1>4, <2>0, <3>2 DEF SlotKept
      <3> QED
        BY <3>1, <3>2
    <2>2. ASSUME NEW q \in DOMAIN run[n] PROVE RunKept(n, q)'
      <3>1. CASE q = r
        BY <1>9, <3>1
      <3>2. CASE q # r
        <4>1. RunKept(n, q) /\ run'[n][q] = run[n][q] /\ q # 0
          BY <1>0, <1>4, <1>9, <3>2, RunIsOne DEF Kept
        <4>2. ~Live(n, q) /\ run[n][q].supervisor \notin Watching
          BY <1>9, <2>0, <3>2, <4>1
        <4> QED
          BY <4>1, <4>2 DEF RunKept, Live
      <3> QED
        BY <3>1, <3>2
    <2>3. ASSUME NEW u \in Tasks, task'[u].name = n PROVE TaskKept(u)'
      <3>1. CASE u = t
        <4>1. l = "announce"
          BY <1>5, <2>3, <3>1, NamesApart
        <4> QED
          BY <1>0, <1>1, <1>2, <1>9, <3>1, <4>1 DEF TaskKept, SlotOf
      <3>2. CASE u # t
        BY <1>2, <2>0, <2>3, <3>2 DEF TaskKept, Present
      <3> QED
        BY <3>1, <3>2
    <2> QED
      BY <1>4, <2>1, <2>2, <2>3 DEF Kept
  <1>10. FutureKept(n)'
    <2>1. task[t].op # "stop"
      BY <1>0 DEF TaskPlaced, Starting
    <2>2. ASSUME n \notin abandoned', NEW q \in DOMAIN run'[n], Live(n, q)'
          PROVE  \/ q \in DOMAIN run[n] /\ Live(n, q) /\ run'[n][q].slot = run[n][q].slot
                 \/ task[t].pc \in Starting /\ run'[n][q].slot = task[t].slot
      BY ZenonT(60), <1>0, <1>3, <1>4, <2>2 DEF Live
    <2>3. \/ task'[t].pc = "done" /\ task'[t].name = None
          \/ /\ task'[t].pc \notin {"new", "done"} /\ task'[t].name = n
             /\ task'[t].slot = task[t].slot /\ task'[t].op = task[t].op
      BY <1>0, <1>2, <1>5
    <2>4. Inv /\ task[t].name = n /\ UNCHANGED hub /\ abandoned \subseteq abandoned' /\ t \in Tasks
          /\ n \in Names /\ task[t].pc \in Starting
      BY <1>0
    <2> QED
      BY ONLY <1>0, <1>2, <2>1, <2>2, <2>3, <2>4, FutureStep
  <1>11. /\ DOMAIN slot[n] \subseteq DOMAIN slot'[n] /\ DOMAIN run[n] \subseteq DOMAIN run'[n]
         /\ \A j \in DOMAIN slot[n] :
              \/ slot'[n][j].op = slot[n][j].op /\ slot'[n][j].removed = slot[n][j].removed
              \/ slot[n][j].op \in {t, None}
         /\ \A m \in Names : m # n => /\ slot'[m] = slot[m] /\ slots'[m] = slots[m]
                                      /\ run'[m] = run[m] /\ router'[m] = router[m]
         /\ Inv /\ n \in Names /\ UNCHANGED <<hub, stopping>> /\ abandoned \subseteq abandoned'
         /\ n \notin abandoned' => Kept(n)'
         /\ task[t].name \in {n, None}
    BY <1>0, <1>1, <1>3, <1>4, <1>9 DEF HoldsAt
  <1> QED
    BY ONLY <1>0, <1>2, <1>5, <1>6, <1>7, <1>8, <1>10, <1>11, StepKeeps

LEMMA AttachKeeps ==
  ASSUME Inv, NEW t \in Tasks, Attach(t)
  PROVE  Inv'
  <1>0. /\ TypeOK /\ task[t].pc = "attach" /\ task[t].pc \in Holding /\ task[t].pc \in OnRun
        /\ task[t].pc \in Starting
    BY DEF Inv, Attach, At, Holding, OnRun, Starting
  <1>1. PICK n \in Names : \E j \in DOMAIN slot[n] : HoldsAt(t, n, j)
    BY <1>0, Holds
  <1>2. PICK i \in DOMAIN slot[n] : HoldsAt(t, n, i)
    BY <1>1
  <1>3. PICK r \in DOMAIN run[n] : r = task[t].run
    BY <1>0, <1>2 DEF HoldsAt, TaskPlaced
  <1>4. PICK v : v = [run[n][r] EXCEPT !.loop = "on", !.generation = slot[n][i].generation + 1]
    OBVIOUS
  <1>5. PICK s : s = [slot[n][i] EXCEPT !.generation = slot[n][i].generation + 1, !.running = r]
    OBVIOUS
  <1>6. /\ v \in Run /\ v.loop = "on" /\ v.slot = run[n][r].slot
        /\ v.generation = slot[n][i].generation + 1 /\ v.supervisor = run[n][r].supervisor
    <2>1. PICK g \in Nat : g = slot[n][i].generation + 1
      BY <1>2 DEF HoldsAt, Slot
    <2>2. v = [run[n][r] EXCEPT !.loop = "on", !.generation = g] /\ run[n][r] \in Run
      BY <1>0, <1>4, <2>1, RunIsOne
    <2>3. /\ v \in Run /\ v.loop = "on" /\ v.slot = run[n][r].slot /\ v.generation = g
          /\ v.supervisor = run[n][r].supervisor
      BY <2>2 DEF Run, Loops
    <2> QED
      BY <2>1, <2>3
  <1>7. /\ s \in Slot /\ s.running = r /\ s.generation = slot[n][i].generation + 1
        /\ s.removed = slot[n][i].removed /\ s.state = slot[n][i].state
    <2>1. slot[n][i] \in Slot /\ r \in Nat
      BY <1>0, <1>2, RunIsOne DEF HoldsAt
    <2>2. PICK g \in Nat : g = slot[n][i].generation + 1
      BY <2>1 DEF Slot
    <2>3. s = [slot[n][i] EXCEPT !.generation = g, !.running = r]
      BY <1>5, <2>2
    <2>4. /\ s \in Slot /\ s.running = r /\ s.generation = g
          /\ s.removed = slot[n][i].removed /\ s.state = slot[n][i].state
      BY <2>1, <2>3 DEF Slot
    <2> QED
      BY <2>2, <2>4
  <1>8. run' = Put(run, n, r, v)
    BY <1>0, <1>2, <1>3, <1>4 DEF Put, TypeOK, Attach, HoldsAt
  <1>9. SlotBecomes(t, s, "announce")
    BY <1>2, <1>3, <1>5 DEF Attach, HoldsAt
  <1>10. UNCHANGED <<slots, dir, creating, stopping, ports, router, hub, abandoned, counted>>
    BY DEF Attach
  <1>11. /\ task'[t].pc = "announce" /\ task'[t].name = n /\ task'[t].slot = i /\ task'[t].run = r
         /\ task'[t].run = task[t].run
         /\ slot'[n][i].op = t /\ slot'[n][i].running = r /\ slot'[n][i].state = s.state
         /\ slot'[n][i].removed = s.removed /\ slot'[n][i].generation = s.generation
    <2>1. "announce" \in Pcs /\ n = task[t].name /\ i = task[t].slot
      BY <1>2 DEF Pcs, Named, OnSlot, Holding, HoldsAt
    <2>2. /\ slot'[n][i].op = t /\ slot'[n][i].running = r /\ slot'[n][i].state = s.state
          /\ slot'[n][i].removed = s.removed /\ slot'[n][i].generation = s.generation
          /\ Goto(t, "announce")
      BY <1>0, <1>7, <1>9, <2>1, BecomesStep
    <2> QED
      BY <1>0, <1>3, <2>1, <2>2, GotoStep
  <1>12. /\ run'[n][r] = v /\ DOMAIN run'[n] = DOMAIN run[n]
         /\ \A q \in DOMAIN run[n] : q # r => run'[n][q] = run[n][q]
    BY <1>0, <1>6, <1>8, RunWritten DEF RunSet
  <1>13. ASSUME n \notin abandoned
         PROVE  /\ slot[n][i].running = 0 /\ slot[n][i].state = "starting" /\ v.slot = i
                /\ SlotKept(n, i)' /\ RunKept(n, r)'
    <2>1. /\ slot[n][i].running = 0 /\ slot[n][i].state = "starting" /\ run[n][r].slot = i
          /\ run[n][r].supervisor = "none" /\ Reached(n, r) /\ ~slot[n][i].removed
      BY <1>0, <1>2, <1>3, <1>13, NamesApart DEF HoldsAt, TaskKept, TaskPlaced, RunOf
    <2>2. Reached(n, r)'
      BY <1>10, <1>12, <2>1 DEF Reached
    <2>3. RunKept(n, r)'
      BY <1>6, <1>11, <1>12, <2>1, <2>2 DEF RunKept, Watching
    <2>4. SlotKept(n, i)'
      BY ZenonT(60), <1>6, <1>7, <1>11, <1>12, <2>1 DEF SlotKept
    <2> QED
      BY <1>6, <2>1, <2>3, <2>4
  <1> QED
    BY <1>0, <1>2, <1>3, <1>6, <1>7, <1>8, <1>9, <1>10, <1>11, <1>13, BothStep

LEMMA AnnounceKeeps ==
  ASSUME Inv, NEW t \in Tasks, Announce(t)
  PROVE  Inv'
  <1>0. /\ TypeOK /\ task[t].pc = "announce" /\ task[t].pc \in Holding /\ task[t].pc \in OnRun
        /\ task[t].pc \in Starting
    BY DEF Inv, Announce, At, Holding, OnRun, Starting
  <1>1. PICK n \in Names : \E j \in DOMAIN slot[n] : HoldsAt(t, n, j)
    BY <1>0, Holds
  <1>2. PICK i \in DOMAIN slot[n] : HoldsAt(t, n, i)
    BY <1>1
  <1>3. PICK r \in DOMAIN run[n] : r = task[t].run
    BY <1>0, <1>2 DEF HoldsAt, TaskPlaced
  <1>4. PICK v : v = [run[n][r] EXCEPT !.supervisor = "join"]
    OBVIOUS
  <1>5. PICK s : s = InState(slot[n][i], "running")
    OBVIOUS
  <1>6. /\ v \in Run /\ v.loop = run[n][r].loop /\ v.slot = run[n][r].slot
        /\ v.generation = run[n][r].generation /\ v.supervisor = "join"
        /\ v.requested = run[n][r].requested
    BY <1>0, <1>4, RunIsOne DEF Run
  <1>7. /\ s \in Slot /\ s.running = slot[n][i].running /\ s.generation = slot[n][i].generation
        /\ s.removed = slot[n][i].removed /\ s.state = "running"
    BY <1>2, <1>5, InStateOf DEF HoldsAt
  <1>8. run' = Put(run, n, r, v)
    BY <1>0, <1>2, <1>3, <1>4 DEF Put, TypeOK, Announce, HoldsAt
  <1>9. SlotBecomes(t, s, "done")
    BY <1>2, <1>5 DEF Announce, HoldsAt
  <1>10. UNCHANGED <<slots, dir, creating, stopping, ports, router, hub, abandoned, counted>>
    BY DEF Announce
  <1>11. /\ slot'[n][i].running = s.running /\ slot'[n][i].state = s.state
         /\ slot'[n][i].removed = s.removed /\ slot'[n][i].generation = s.generation
         /\ DOMAIN slot'[n] = DOMAIN slot[n]
         /\ \A j \in DOMAIN slot[n] : j # i => slot'[n][j] = slot[n][j]
    <2>1. "done" \in Pcs /\ n = task[t].name /\ i = task[t].slot
      BY <1>2 DEF Pcs, HoldsAt
    <2> QED
      BY <1>0, <1>7, <1>9, <2>1, BecomesStep DEF SlotSet
  <1>12. /\ run'[n][r] = v /\ DOMAIN run'[n] = DOMAIN run[n]
         /\ \A q \in DOMAIN run[n] : q # r => run'[n][q] = run[n][q]
    BY <1>0, <1>6, <1>8, RunWritten DEF RunSet
  <1>13. ASSUME n \notin abandoned
         PROVE  /\ slot[n][i].running = r /\ v.slot = i /\ SlotKept(n, i)' /\ RunKept(n, r)'
    <2>1. /\ slot[n][i].running = r /\ ~slot[n][i].removed /\ r # 0 /\ RunKept(n, r)
          /\ SlotKept(n, i)
      BY <1>0, <1>2, <1>3, <1>13, NamesApart, RunIsOne
         DEF HoldsAt, TaskKept, TaskPlaced, Inv, Kept
    <2>2. Reached(n, r) => Reached(n, r)'
      BY <1>10, <1>12 DEF Reached
    <2>3. run[n][r].slot = i
      BY <2>1 DEF SlotKept
    <2>4. RunKept(n, r)'
      BY <1>6, <1>7, <1>11, <1>12, <2>1, <2>2, <2>3 DEF RunKept, Live
    <2>5. SlotKept(n, i)'
      BY <1>6, <1>7, <1>11, <1>12, <2>1 DEF SlotKept, Watching
    <2> QED
      BY <1>6, <2>1, <2>3, <2>4, <2>5
  <1> QED
    BY <1>0, <1>2, <1>3, <1>6, <1>7, <1>8, <1>9, <1>10, <1>13, BothStep

LEMMA ClientLeavesAttachKeeps ==
  ASSUME Inv, NEW t \in Requests, ClientLeavesAttach(t)
  PROVE  Inv'
  <1>0. /\ TypeOK /\ task[t].pc = "attach" /\ task[t].pc \in Holding /\ task[t].pc \in OnRun
        /\ task[t].pc \in Starting /\ t \in Tasks
    BY DEF Inv, ClientLeavesAttach, At, Holding, OnRun, Starting, Tasks
  <1>1. PICK n \in Names : \E j \in DOMAIN slot[n] : HoldsAt(t, n, j)
    BY <1>0, Holds
  <1>2. PICK i \in DOMAIN slot[n] : HoldsAt(t, n, i)
    BY <1>1
  <1>3. PICK r \in DOMAIN run[n] : r = task[t].run
    BY <1>0, <1>2 DEF HoldsAt, TaskPlaced
  <1>4. PICK v : v = [run[n][r] EXCEPT !.loop = "dropped"]
    OBVIOUS
  <1>5. PICK s : s = slot[n][i]
    OBVIOUS
  <1>6. /\ v \in Run /\ v.loop = "dropped" /\ v.slot = run[n][r].slot
        /\ v.supervisor = run[n][r].supervisor
    BY <1>0, <1>4, RunIsOne DEF Run, Loops, Ended
  <1>7. s \in Slot /\ s.running = slot[n][i].running /\ s.removed = slot[n][i].removed
    BY <1>2, <1>5 DEF HoldsAt
  <1>8. run' = Put(run, n, r, v)
    BY <1>0, <1>2, <1>3, <1>4 DEF Put, TypeOK, ClientLeavesAttach, HoldsAt
  <1>9. SlotBecomes(t, s, "done")
    BY <1>2, <1>5 DEF ClientLeavesAttach, HoldsAt, Return
  <1>10. UNCHANGED <<slots, dir, creating, stopping, ports, router, hub, abandoned>> /\ Fault
    BY DEF ClientLeavesAttach
  <1>11. slot'[n][i].running = s.running /\ slot'[n][i].state = s.state
    <2>1. "done" \in Pcs /\ n = task[t].name /\ i = task[t].slot
      BY <1>2 DEF Pcs, HoldsAt
    <2> QED
      BY <1>0, <1>7, <1>9, <2>1, BecomesStep
  <1>12. run'[n][r] = v
    BY <1>0, <1>6, <1>8, RunWritten
  <1>13. ASSUME n \notin abandoned
         PROVE  slot[n][i].running = 0 /\ SlotKept(n, i)' /\ RunKept(n, r)'
    <2>1. /\ slot[n][i].running = 0 /\ slot[n][i].state = "starting" /\ run[n][r].supervisor = "none"
      BY <1>0, <1>2, <1>3, <1>13 DEF HoldsAt, TaskKept, RunOf
    <2>2. RunKept(n, r)'
      BY <1>6, <1>12, <2>1 DEF RunKept, Live, Watching
    <2>3. SlotKept(n, i)'
      BY <1>5, <1>11, <2>1 DEF SlotKept
    <2> QED
      BY <2>1, <2>2, <2>3
  <1> QED
    BY <1>0, <1>2, <1>3, <1>6, <1>7, <1>8, <1>9, <1>10, <1>13, BothStep

\* The supervisor records how its run ended: from then on the slot has none.
LEMMA SuperviseRecordKeeps ==
  ASSUME Inv, NEW n \in Names, NEW r \in DOMAIN run[n], SuperviseRecord(n, r)
  PROVE  Inv'
  <1>0. /\ TypeOK /\ Placed /\ FutureKept(n) /\ run[n][r] \in Run /\ r # 0
        /\ (n \notin abandoned => Kept(n)) /\ run[n][r].supervisor = "record"
    BY RunIsOne DEF Inv, HubKept, SuperviseRecord
  <1>1. PICK i \in DOMAIN slot[n] : i = run[n][r].slot /\ slot[n][i] \in Slot
    <2>1. run[n][r].slot \in DOMAIN slot[n] /\ slot[n] \in Seq(Slot)
      BY <1>0, RunIsOne DEF TypeOK
    <2> QED
      BY <2>1, InDomain
  <1>2. PICK st \in {"failed", "stopped"} :
          slot' = [slot EXCEPT ![n][i] = InState(slot[n][i], st)]
    BY <1>0, <1>1 DEF SuperviseRecord, TypeOK
  <1>3. PICK s : s = InState(slot[n][i], st)
    OBVIOUS
  <1>4. s \in Slot /\ s.removed = slot[n][i].removed /\ s.op = slot[n][i].op /\ s.state = st /\ s.running = 0
    BY ONLY st \in {"failed", "stopped"}, <1>1, <1>3, InStateOf
  <1>5. slot' = Put(slot, n, i, s)
    BY <1>2, <1>3 DEF Put
  <1>6. /\ slot' \in [Names -> Seq(Slot)] /\ slot'[n][i] = s /\ SlotSet(n, i)
        /\ \A m \in Names : m # n => slot'[m] = slot[m]
    BY <1>0, <1>4, <1>5, SlotWritten
  <1>7. PICK v : v = [run[n][r] EXCEPT !.supervisor = "unport"]
    OBVIOUS
  <1>8. /\ v \in Run /\ v.loop = run[n][r].loop /\ v.slot = i /\ v.supervisor = "unport"
        /\ v.requested = run[n][r].requested
    BY <1>0, <1>1, <1>7 DEF Run
  <1>9. run' = Put(run, n, r, v)
    BY <1>0, <1>7 DEF Put, TypeOK, SuperviseRecord
  <1>10. /\ run' \in [Names -> Seq(Run)] /\ run'[n][r] = v /\ RunSet(n, r)
         /\ \A m \in Names : m # n => run'[m] = run[m]
    BY <1>0, <1>8, <1>9, RunWritten
  <1>11. /\ DOMAIN slot'[n] = DOMAIN slot[n] /\ DOMAIN run'[n] = DOMAIN run[n]
         /\ \A j \in DOMAIN slot[n] : j # i => slot'[n][j] = slot[n][j]
         /\ \A q \in DOMAIN run[n] : q # r => run'[n][q] = run[n][q]
    BY <1>6, <1>10 DEF SlotSet, RunSet
  <1>12. UNCHANGED <<slots, dir, creating, stopping, ports, router, task, hub, abandoned, counted>>
    BY DEF SuperviseRecord
  <1>13. TypeOK'
    <2>1. /\ faults' \in 0 .. MaxFaults /\ reloads' \in 0 .. MaxReloads
          /\ slots' \in [Names -> Nat] /\ abandoned' \subseteq Names /\ router' \in [Names -> Nat]
          /\ ports' \in [Names \cup Others -> Ports \cup {None}] /\ dir' \subseteq Names
          /\ creating' \in Tasks \cup {None} /\ task' \in [Tasks -> Task]
      BY <1>0, <1>12, FaultTyped DEF TypeOK
    <2>2. /\ \A m \in Names : DOMAIN slot'[m] = DOMAIN slot[m]
          /\ \A m \in Names : DOMAIN run'[m] = DOMAIN run[m]
          /\ \A m \in Names : \A q \in DOMAIN run[m] : run'[m][q].slot = run[m][q].slot
      BY <1>1, <1>6, <1>8, <1>10, <1>11
    <2> QED
      BY <1>0, <1>6, <1>10, <1>12, <2>1, <2>2, TypeKept
  <1>14. ASSUME n \notin abandoned PROVE Kept(n)'
    <2>0. RunKept(n, r) /\ SlotKept(n, i) /\ slot[n][i].running = r
      BY <1>0, <1>1, <1>14 DEF Kept, RunKept, Watching
    <2>1. /\ slots[n] = i
          /\ \A q \in DOMAIN run[n] : Live(n, q) \/ run[n][q].supervisor \in Watching => q = r
          /\ \A u \in Tasks : task[u].name = n =>
               task[u].pc \notin {"attach", "reserve", "launch", "failing", "deprovision", "forget"}
      BY <1>0, <1>14, <2>0, OneRun
    <2>2. slot[n][i].state = "running"
      BY <1>0, <2>0 DEF SlotKept
    <2>3. ASSUME NEW j \in DOMAIN slot[n] PROVE SlotKept(n, j)'
      <3>1. CASE j = i
        BY <1>2, <1>4, <1>6, <3>1 DEF SlotKept
      <3>2. CASE j # i
        <4>1. SlotKept(n, j) /\ slot'[n][j] = slot[n][j]
          BY <1>0, <1>11, <1>14, <3>2 DEF Kept
        <4>2. slot[n][j].running # 0 => slot[n][j].running # r
          BY <1>1, <3>2, <4>1 DEF SlotKept
        <4>3. slot[n][j].running \in DOMAIN run[n] /\ slot[n][j].running # 0 =>
                run'[n][slot[n][j].running] = run[n][slot[n][j].running]
          BY <1>11, <4>2
        <4> QED
          BY <1>11, <1>12, <4>1, <4>3 DEF SlotKept
      <3> QED
        BY <3>1, <3>2
    <2>4. ASSUME NEW q \in DOMAIN run[n] PROVE RunKept(n, q)'
      <3>1. RunKept(n, q) /\ (run[n][r].loop \in Ended)
        BY <1>0, <1>14, <2>0 DEF Kept, RunKept
      <3>2. CASE q = r
        BY <1>8, <1>10, <3>1, <3>2 DEF RunKept, Live, Watching, Ended
      <3>3. CASE q # r
        BY <1>11, <2>1, <3>1, <3>3 DEF RunKept, Live
      <3> QED
        BY <3>2, <3>3
    <2>5. ASSUME NEW u \in Tasks, task'[u].name = n PROVE TaskKept(u)'
      <3>1. task'[u] = task[u] /\ TaskKept(u) /\ TaskPlaced(u) /\ task[u].name = n
        BY <1>0, <1>12, <1>14, <2>5 DEF Kept, Placed
      <3>2. task[u].pc \in Present => task[u].slot = i /\ SlotOf(u) = slot[n][i]
        BY <1>0, <2>1, <3>1, NamesApart DEF TaskPlaced, Placed, SlotPlaced, SlotOf
      <3>3. task[u].pc # "announce"
        BY <2>2, <3>1, <3>2 DEF TaskKept, Present
      <3>4. task[u].pc \in {"sending", "stopping", "aborting"} =>
              SlotOf(u)'.running = 0 /\ RunOf(u)'.supervisor # "none"
        <4>1. task[u].pc \in {"sending", "stopping", "aborting"} => task[u].run \in DOMAIN run[n]
          BY <3>1 DEF TaskPlaced, OnRun
        <4> QED
          BY <1>4, <1>6, <1>8, <1>10, <1>11, <1>12, <3>1, <3>2, <4>1
             DEF TaskKept, SlotOf, RunOf, Present
      <3> QED
        BY <2>1, <3>1, <3>3, <3>4 DEF TaskKept
    <2> QED
      BY <1>11, <2>3, <2>4, <2>5 DEF Kept
  <1>15. FutureKept(n)'
    <2>1. \A q \in DOMAIN run'[n] : Live(n, q)' =>
            q \in DOMAIN run[n] /\ Live(n, q) /\ run'[n][q].slot = run[n][q].slot
      BY <1>1, <1>8, <1>10, <1>11 DEF Live
    <2>2. Swept(n) => Swept(n)'
      BY <1>12, <2>1 DEF Swept
    <2> QED
      BY <1>0, <1>12, <2>2 DEF FutureKept
  <1>16. \A j \in DOMAIN slot'[n] : SlotPlaced(n, j)'
    BY <1>0, <1>4, <1>6, <1>11, <1>12 DEF Placed, SlotPlaced
  <1>17. PICK t : t = None /\ t \notin Tasks /\ t \notin Names
    BY NamesApart
  <1>18. /\ DOMAIN slot[n] \subseteq DOMAIN slot'[n] /\ DOMAIN run[n] \subseteq DOMAIN run'[n]
         /\ \A j \in DOMAIN slot[n] :
              slot'[n][j].op = slot[n][j].op /\ slot'[n][j].removed = slot[n][j].removed
         /\ \A m \in Names : m # n => /\ slot'[m] = slot[m] /\ slots'[m] = slots[m]
                                      /\ run'[m] = run[m] /\ router'[m] = router[m]
         /\ Inv /\ n \in Names /\ UNCHANGED <<hub, stopping>> /\ abandoned \subseteq abandoned'
         /\ n \notin abandoned' => Kept(n)'
         /\ \A u \in Tasks : u # t => task'[u] = task[u]
    BY <1>4, <1>6, <1>10, <1>11, <1>12, <1>14
  <1> QED
    BY ONLY <1>13, <1>15, <1>16, <1>17, <1>18, StepKeeps
-----------------------------------------------------------------------------
(* Steps that make a run or a slot, or forget one.                         *)

\* A launch succeeds: of an agent about to attach it, or of one nobody runs.
LEMMA GrownKeeps ==
  ASSUME Inv, NEW t \in Tasks, NEW n \in Names, n = task[t].name,
         task[t].pc \in {"launch", "detached"},
         NEW v \in Run, v.slot = task[t].slot, v.loop \in {"built", "dropped"},
         v.supervisor = "none",
         run' = PutAt(run, n, Append(run[n], v)),
         router' = [router EXCEPT ![n] = Len(run[n]) + 1],
         UNCHANGED <<slot, slots, creating, stopping, ports, hub, abandoned, counted>>,
         dir' \subseteq Names,
         task' \in [Tasks -> Task], \A u \in Tasks : u # t => task'[u] = task[u],
         \/ task'[t] = Finished /\ v.loop = "dropped"
         \/ /\ task[t].pc = "launch" /\ task'[t].pc = "attach"
            /\ task'[t].name = n /\ task'[t].slot = task[t].slot /\ task'[t].op = task[t].op
            /\ task'[t].run = Len(run[n]) + 1 /\ v.loop = "built"
  PROVE  Inv'
  <1>0. /\ TypeOK /\ Placed /\ (n \notin abandoned => Kept(n)) /\ TaskPlaced(t)
        /\ task[t].pc \in OnSlot /\ task[t].op # "stop" /\ task[t].op \in Ops
        /\ task[t].slot \in DOMAIN slot[n]
    BY DEF Inv, Placed, TaskPlaced, OnSlot, Named, Holding
  <1>1. PICK k : k = Len(run[n]) + 1
    OBVIOUS
  <1>2. run \in [Names -> Seq(Run)] /\ run[n] \in Seq(Run)
    BY <1>0 DEF TypeOK
  <1>3. run'[n] = Append(run[n], v) /\ \A m \in Names : m # n => run'[m] = run[m]
    BY <1>2 DEF PutAt
  <1>4. /\ run'[n] \in Seq(Run) /\ k \in DOMAIN run'[n] /\ DOMAIN run[n] \subseteq DOMAIN run'[n]
        /\ k \notin DOMAIN run[n] /\ DOMAIN run'[n] \subseteq DOMAIN run[n] \cup {k}
        /\ run'[n][k] = v /\ k \in Nat \ {0}
        /\ \A q \in DOMAIN run[n] : run'[n][q] = run[n][q]
    BY <1>1, <1>2, <1>3, SeqGrown
  <1>5. run' \in [Names -> Seq(Run)]
    BY <1>2, <1>3, <1>4 DEF PutAt
  <1>6. router' \in [Names -> Nat] /\ router'[n] = k /\ \A m \in Names : m # n => router'[m] = router[m]
    BY <1>0, <1>1, <1>4 DEF TypeOK
  <1>7. TypeOK'
    <2>1. /\ faults' \in 0 .. MaxFaults /\ reloads' \in 0 .. MaxReloads
      BY <1>0, FaultTyped
    <2>2. ASSUME NEW m \in Names, NEW q \in DOMAIN run'[m] PROVE run'[m][q].slot \in DOMAIN slot[m]
      <3>1. CASE m # n
        BY <1>0, <1>3, <2>2, <3>1 DEF TypeOK
      <3>2. CASE m = n /\ q = k
        BY <1>0, <1>4, <3>2
      <3>3. CASE m = n /\ q # k
        BY <1>0, <1>4, <2>2, <3>3 DEF TypeOK
      <3> QED
        BY <3>1, <3>2, <3>3
    <2> QED
      BY <1>0, <1>5, <1>6, <2>1, <2>2 DEF TypeOK
  <1>8. TaskPlaced(t)'
    <2>1. CASE task'[t] = Finished
      BY <2>1, FinishedIsPlaced
    <2>2. CASE /\ task[t].pc = "launch" /\ task'[t].pc = "attach"
               /\ task'[t].name = n /\ task'[t].slot = task[t].slot /\ task'[t].op = task[t].op
               /\ task'[t].run = k
      <3>1. SlotOf(t)' = SlotOf(t)
        BY <2>2 DEF SlotOf
      <3>2. SlotOf(t).op = t /\ ~SlotOf(t).removed
        BY <1>0, <2>2 DEF TaskPlaced, Holding, Present
      <3> QED
        BY <1>0, <1>4, <2>2, <3>1, <3>2 DEF TaskPlaced
    <2> QED
      BY <1>1, <2>1, <2>2
  <1>9. ASSUME n \notin abandoned PROVE Kept(n)'
    <2>0. ASSUME v.loop = "built"
          PROVE  /\ \A q \in DOMAIN run[n] : ~Live(n, q)
                 /\ \A u \in Tasks : u # t /\ task[u].name = n => task[u].pc \notin Present
      <3>1. task[t].pc = "launch" /\ task[t].pc \in Holding /\ task[t].pc \in Present
        BY <2>0, FinishedIsTask DEF Holding, Present
      <3>2. PICK m \in Names : \E j \in DOMAIN slot[m] : HoldsAt(t, m, j)
        BY <3>1, Holds
      <3>3. PICK i \in DOMAIN slot[n] : HoldsAt(t, n, i)
        BY <3>2 DEF HoldsAt
      <3>4. slot[n][i].running = 0
        BY <1>9, <3>1, <3>3 DEF HoldsAt, TaskKept
      <3>5. \A q \in DOMAIN run[n] : q # 0
        BY <1>0, RunIsOne
      <3> QED
        BY <1>9, <3>1, <3>3, <3>4, <3>5, OnlyHere
    <2>1. ASSUME NEW i \in DOMAIN slot[n] PROVE SlotKept(n, i)'
      <3>1. SlotKept(n, i)
        BY <1>0, <1>9 DEF Kept
      <3>2. slot[n][i].op \in Tasks /\ task[slot[n][i].op].pc = "announce" =>
              task'[slot[n][i].op] = task[slot[n][i].op]
        OBVIOUS
      <3> QED
        BY ZenonT(60), <1>4, <3>1, <3>2 DEF SlotKept
    <2>2. ASSUME NEW q \in DOMAIN run'[n] PROVE RunKept(n, q)'
      <3>1. CASE q = k
        BY <1>4, <3>1 DEF RunKept, Live, Watching
      <3>2. CASE q # k
        <4>1. q \in DOMAIN run[n] /\ run'[n][q] = run[n][q] /\ RunKept(n, q)
          BY <1>0, <1>4, <1>9, <2>2, <3>2 DEF Kept
        <4>2. run[n][q].loop = "on" => v.loop = "dropped"
          BY <2>0, <4>1 DEF Live
        <4>3. v.loop = "dropped" => Reached(n, q)'
          BY <1>4, <1>6 DEF Reached
        <4> QED
          BY <4>1, <4>2, <4>3 DEF RunKept, Live
      <3> QED
        BY <3>1, <3>2
    <2>3. ASSUME NEW u \in Tasks, task'[u].name = n PROVE TaskKept(u)'
      <3>1. CASE u = t
        <4>1. /\ task[t].pc = "launch" /\ task'[t].pc = "attach" /\ task'[t].run = k
              /\ task'[t].name = n /\ task'[t].slot = task[t].slot /\ v.loop = "built"
          BY <1>1, <2>3, <3>1, FinishedIsTask, NamesApart
        <4>2. TaskKept(t) /\ SlotOf(t)' = SlotOf(t)
          BY <1>0, <1>9, <4>1 DEF Kept, SlotOf
        <4>3. Reached(n, k)'
          BY <1>4, <1>6 DEF Reached
        <4> QED
          BY <1>4, <3>1, <4>1, <4>2, <4>3 DEF TaskKept, RunOf
      <3>2. CASE u # t
        <4>1. task'[u] = task[u] /\ TaskKept(u) /\ TaskPlaced(u) /\ task[u].name = n
          BY <1>0, <1>9, <2>3, <3>2 DEF Kept, Placed
        <4>2. PICK q : q = task[u].run
          OBVIOUS
        <4>3. task[u].pc \in OnRun => q \in DOMAIN run[n] /\ run'[n][q] = run[n][q]
          BY <1>4, <4>1, <4>2 DEF TaskPlaced
        <4>4. task[u].pc = "attach" => Reached(n, q)'
          <5>1. task[u].pc = "attach" => v.loop = "dropped"
            BY <2>0, <3>2, <4>1 DEF Present
          <5> QED
            BY ZenonT(60), <1>4, <1>6, <5>1 DEF Reached
        <4> QED
          BY ZenonT(60), <4>1, <4>2, <4>3, <4>4 DEF TaskKept, SlotOf, RunOf, OnRun
      <3> QED
        BY <3>1, <3>2
    <2> QED
      BY <2>1, <2>2, <2>3 DEF Kept
  <1>10. FutureKept(n)'
    <2>1. ASSUME n \notin abandoned', NEW q \in DOMAIN run'[n], Live(n, q)'
          PROVE  q \in DOMAIN run[n] /\ Live(n, q) /\ run'[n][q].slot = run[n][q].slot
      BY <1>4, <2>1 DEF Live
    <2>2. \/ task'[t].pc = "done" /\ task'[t].name = None
          \/ /\ task'[t].pc \notin {"new", "done"} /\ task'[t].name = n
             /\ task'[t].slot = task[t].slot /\ task'[t].op = task[t].op
      BY FinishedIsTask
    <2>3. /\ Inv /\ task[t].name = n /\ UNCHANGED hub /\ abandoned \subseteq abandoned'
          /\ t \in Tasks /\ n \in Names /\ \A u \in Tasks : u # t => task'[u] = task[u]
          /\ task'[t].pc \in Starting => task[t].pc \in Starting
      BY FinishedIsTask DEF Starting
    <2> QED
      BY ONLY <1>0, <2>1, <2>2, <2>3, FutureStep
  <1>11. \A j \in DOMAIN slot'[n] : SlotPlaced(n, j)'
    BY <1>0, <1>4 DEF Placed, SlotPlaced
  <1>12. /\ DOMAIN slot[n] \subseteq DOMAIN slot'[n] /\ DOMAIN run[n] \subseteq DOMAIN run'[n]
         /\ \A j \in DOMAIN slot[n] :
              slot'[n][j].op = slot[n][j].op /\ slot'[n][j].removed = slot[n][j].removed
         /\ \A m \in Names : m # n => /\ slot'[m] = slot[m] /\ slots'[m] = slots[m]
                                      /\ run'[m] = run[m] /\ router'[m] = router[m]
         /\ Inv /\ n \in Names /\ UNCHANGED <<hub, stopping>> /\ abandoned \subseteq abandoned'
         /\ n \notin abandoned' => Kept(n)'
         /\ \A u \in Tasks : u # t => task'[u] = task[u]
         /\ task[t].name \in {n, None} /\ task'[t].name \in {n, None}
    BY <1>3, <1>4, <1>6, <1>9, FinishedIsTask
  <1>13. t \in Names => t = n
    BY <1>0, Located
  <1> QED
    BY ONLY <1>7, <1>8, <1>10, <1>11, <1>12, <1>13, StepKeeps

LEMMA NewRunOf ==
  ASSUME TypeOK, NEW t \in Tasks, NEW loop \in {"built", "dropped"}
  PROVE  /\ NewRun(t, loop) \in Run /\ NewRun(t, loop).slot = task[t].slot
         /\ NewRun(t, loop).loop = loop /\ NewRun(t, loop).supervisor = "none"
  <1>1. task[t].slot \in Nat
    BY DEF TypeOK, Task
  <1> QED
    BY <1>1 DEF NewRun, Run, Loops, Ended

LEMMA LaunchKeeps ==
  ASSUME Inv, NEW t \in Tasks, Launch(t)
  PROVE  Inv'
  <1>0. /\ TypeOK /\ task[t].pc = "launch" /\ task[t].pc \in Holding /\ task[t].pc \in Present
        /\ task[t].pc \in Starting /\ TaskPlaced(t) /\ task[t] \in Task
    BY DEF Inv, Launch, At, Holding, Placed, Present, Starting, TypeOK
  <1>1. PICK n \in Names : \E j \in DOMAIN slot[n] : HoldsAt(t, n, j)
    BY <1>0, Holds
  <1>2. task[t].op # "stop" /\ n = task[t].name
    BY <1>0, <1>1 DEF TaskPlaced, HoldsAt
  <1>3. UNCHANGED <<slot, slots, creating, stopping, ports, hub, abandoned, counted>>
    BY DEF Launch
  <1>4. CASE Goto(t, "failing") /\ UNCHANGED <<run, router, dir>>
    <2>1. Around
      BY <1>0, <1>3, <1>4, AroundOf DEF TypeOK
    <2>2. PICK l : l = "failing"
      OBVIOUS
    <2>3. l \in Holding \ OnRun /\ l \notin {"deprovision", "forget"} /\ l \notin Starting
      BY <2>2 DEF Holding, OnRun, Starting
    <2>4. task[t].name \notin abandoned => SlotOf(t).state = "starting" /\ SlotOf(t).running = 0
      BY <1>0, <1>1 DEF HoldsAt, TaskKept
    <2>5. Goto(t, l) /\ UNCHANGED slot
      BY <1>3, <1>4, <2>2
    <2> QED
      BY <1>0, <1>2, <2>1, <2>3, <2>4, <2>5, GoesOnKeeps
  <1>5. CASE /\ Launched(t, "built")
             /\ task' = [task EXCEPT ![t].run = Len(run[task[t].name]) + 1, ![t].pc = "attach"]
    <2>1. PICK k \in Nat : k = Len(run[n]) + 1
      <3>1. run[n] \in Seq(Run)
        BY <1>0 DEF TypeOK
      <3> QED
        BY <3>1
    <2>2. PICK w : w = [task[t] EXCEPT !.run = k, !.pc = "attach"]
      OBVIOUS
    <2>3. /\ w \in Task /\ w.run = k /\ w.pc = "attach" /\ w.name = n /\ w.op = task[t].op
          /\ w.slot = task[t].slot
      BY <1>0, <1>2, <2>2 DEF Task
    <2>4. task' = PutAt(task, t, w)
      BY <1>0, <1>2, <1>5, <2>1, <2>2 DEF PutAt, TypeOK
    <2>5. /\ task' \in [Tasks -> Task] /\ task'[t] = w
          /\ \A u \in Tasks : u # t => task'[u] = task[u]
      BY <1>0, <2>3, <2>4, TaskWritten
    <2>6. PICK v \in Run : /\ v = NewRun(t, "built") /\ v.slot = task[t].slot /\ v.loop = "built"
                           /\ v.supervisor = "none"
      BY <1>0, NewRunOf
    <2>7. /\ run' = PutAt(run, n, Append(run[n], v))
          /\ router' = [router EXCEPT ![n] = Len(run[n]) + 1] /\ dir' \subseteq Names
      BY <1>0, <1>2, <1>5, <2>6 DEF Launched, PutAt, TypeOK
    <2> QED
      BY ZenonT(60), <1>0, <1>2, <1>3, <2>1, <2>3, <2>5, <2>6, <2>7, GrownKeeps
  <1> QED
    BY <1>4, <1>5 DEF Launch

LEMMA LaunchDetachedKeeps ==
  ASSUME Inv, NEW t \in Tasks, LaunchDetached(t)
  PROVE  Inv'
  <1>0. /\ TypeOK /\ task[t].pc = "detached" /\ task[t].pc \in OnSlot /\ TaskPlaced(t)
        /\ task[t].pc \notin {"new", "done"}
    BY DEF Inv, LaunchDetached, At, OnSlot, Placed
  <1>1. UNCHANGED <<slot, slots, creating, stopping, ports, hub, abandoned, counted>> /\ Goto(t, "done")
    BY DEF LaunchDetached
  <1>2. CASE UNCHANGED <<run, router, dir>>
    <2>1. Around
      BY <1>0, <1>1, <1>2, AroundOf DEF TypeOK
    <2> QED
      BY <1>0, <1>1, <2>1, UnlockedGoto
  <1>3. CASE Launched(t, "dropped")
    <2>1. PICK n \in Names : n = task[t].name
      BY <1>0, NamesApart DEF TaskPlaced
    <2>2. /\ task' \in [Tasks -> Task] /\ \A u \in Tasks : u # t => task'[u] = task[u]
          /\ task'[t] = Finished
      <3>1. "done" \in Pcs
        BY DEF Pcs
      <3> QED
        BY <1>0, <1>1, <3>1, GotoStep
    <2>3. PICK v \in Run : /\ v = NewRun(t, "dropped") /\ v.slot = task[t].slot
                           /\ v.loop = "dropped" /\ v.supervisor = "none"
      BY <1>0, NewRunOf
    <2>4. /\ run' = PutAt(run, n, Append(run[n], v))
          /\ router' = [router EXCEPT ![n] = Len(run[n]) + 1] /\ dir' \subseteq Names
      BY <1>0, <1>3, <2>1, <2>3 DEF Launched, PutAt, TypeOK
    <2> QED
      BY <1>0, <1>1, <2>1, <2>2, <2>3, <2>4, GrownKeeps
  <1> QED
    BY <1>2, <1>3 DEF LaunchDetached

\* ABORT_SETTLE: what the host knew of the agent's runs is given up.
LEMMA AbortTimeoutKeeps ==
  ASSUME Inv, NEW t \in Tasks, AbortTimeout(t)
  PROVE  Inv'
  <1>0. /\ TypeOK /\ Placed /\ task[t].pc = "aborting" /\ task[t].pc \in Holding
        /\ task[t].pc \in Present /\ task[t].pc \in OnSlot
    BY DEF Inv, AbortTimeout, At, Holding, Present, OnSlot
  <1>1. PICK n \in Names : \E j \in DOMAIN slot[n] : HoldsAt(t, n, j)
    BY <1>0, Holds
  <1>2. PICK i \in DOMAIN slot[n] : HoldsAt(t, n, i)
    BY <1>1
  <1>3. /\ n = task[t].name /\ i = task[t].slot /\ (t \in Names => t = n) /\ TaskPlaced(t)
        /\ slot[n][i] \in Slot /\ SlotOf(t) = slot[n][i] /\ slot[n][i].op = t
        /\ ~slot[n][i].removed /\ task[t].op \in Ops
    BY <1>0, <1>2, NamesApart DEF HoldsAt, TaskPlaced
  <1>4. PICK l : l = AfterStop(t)
    OBVIOUS
  <1>5. PICK s : s = InState(slot[n][i], "stopped")
    OBVIOUS
  <1>6. s \in Slot /\ ~s.removed /\ s.running = 0
    BY <1>3, <1>5, InStateOf
  <1>7. /\ l \in {"start", "deprovision", "done"} /\ l \in Pcs /\ (task[t].op = "stop" => l = "done")
        /\ l # "new" /\ l \notin Starting /\ l \notin OnRun
    BY <1>4, AfterStopOf DEF Pcs, Named, OnSlot, Holding, Starting, OnRun
  <1>8. /\ SlotBecomes(t, s, l) /\ abandoned' = abandoned \cup {n}
        /\ UNCHANGED <<slots, dir, creating, stopping, router, run, hub>> /\ Fault
        /\ ports' = [ports EXCEPT ![n] = None]
    BY <1>3, <1>4, <1>5 DEF AbortTimeout, ReleasePort
  <1>9. /\ slot' \in [Names -> Seq(Slot)] /\ SlotSet(n, i)
        /\ \A m \in Names : m # n => slot'[m] = slot[m]
        /\ slot'[n][i].op = IF l \in {"done", "detached"} THEN None ELSE t
        /\ slot'[n][i].removed = s.removed /\ slot'[n][i].running = s.running
        /\ Goto(t, l)
    BY <1>0, <1>3, <1>6, <1>7, <1>8, BecomesStep
  <1>10. /\ task' \in [Tasks -> Task] /\ \A u \in Tasks : u # t => task'[u] = task[u]
         /\ task'[t].pc = l
         /\ l = "done" => task'[t] = Finished
         /\ l # "done" => /\ task'[t].op = task[t].op /\ task'[t].name = task[t].name
                          /\ task'[t].slot = task[t].slot /\ task'[t].run = task[t].run
    BY <1>0, <1>7, <1>9, GotoStep
  <1>11. /\ DOMAIN slot'[n] = DOMAIN slot[n]
         /\ \A j \in DOMAIN slot[n] : j # i => slot'[n][j] = slot[n][j]
    BY <1>9 DEF SlotSet
  <1>12. task'[t].name \in {n, None} /\ (l = "done" => task'[t].name = None)
    BY <1>3, <1>10, FinishedIsTask
  <1>13. TypeOK'
    <2>1. /\ faults' \in 0 .. MaxFaults /\ reloads' \in 0 .. MaxReloads
      BY <1>0, <1>8, FaultTyped
    <2>2. /\ slots' \in [Names -> Nat] /\ abandoned' \subseteq Names /\ router' \in [Names -> Nat]
          /\ ports' \in [Names \cup Others -> Ports \cup {None}] /\ dir' \subseteq Names
          /\ creating' \in Tasks \cup {None} /\ run' \in [Names -> Seq(Run)]
      BY <1>0, <1>8 DEF TypeOK
    <2>3. \A m \in Names : DOMAIN slot'[m] = DOMAIN slot[m]
      BY <1>9, <1>11
    <2> QED
      BY <1>0, <1>8, <1>9, <1>10, <2>1, <2>2, <2>3, TypeKept
  <1>14. TaskPlaced(t)'
    <2>1. CASE l = "done"
      BY <1>10, <2>1, FinishedIsPlaced
    <2>2. CASE l # "done"
      <3>1. SlotOf(t)' = slot'[n][i] /\ slot'[n][i].op = t
        BY <1>3, <1>7, <1>9, <1>10, <2>2 DEF SlotOf
      <3> QED
        BY <1>3, <1>6, <1>7, <1>9, <1>10, <1>11, <2>2, <3>1 DEF TaskPlaced
    <2> QED
      BY <2>1, <2>2
  <1>15. \A j \in DOMAIN slot'[n] : SlotPlaced(n, j)'
    <2>1. ASSUME NEW j \in DOMAIN slot[n] PROVE SlotPlaced(n, j)'
      <3>1. SlotPlaced(n, j) /\ UNCHANGED <<slots, run>>
        BY <1>0, <1>8 DEF Placed
      <3>2. CASE j # i
        BY <1>11, <3>1, <3>2 DEF SlotPlaced
      <3>3. CASE j = i
        BY <1>3, <1>6, <1>9, <3>1, <3>3 DEF SlotPlaced
      <3> QED
        BY <3>2, <3>3
    <2> QED
      BY <1>11, <2>1
  <1>16. /\ n \in abandoned' /\ Inv /\ task[t].name = n /\ UNCHANGED <<hub, stopping>>
         /\ abandoned \subseteq abandoned' /\ t \in Tasks /\ n \in Names
         /\ \A u \in Tasks : u # t => task'[u] = task[u]
    BY <1>3, <1>8, <1>10
  <1>17. FutureKept(n)'
    <2>1. \/ task'[t].pc = "done" /\ task'[t].name = None
          \/ /\ task'[t].pc \notin {"new", "done"} /\ task'[t].name = n
             /\ task'[t].slot = task[t].slot /\ task'[t].op = task[t].op
      BY <1>3, <1>7, <1>10, <1>12
    <2> QED
      BY ONLY <1>0, <1>7, <1>10, <1>16, <2>1, FutureStep
  <1>18. /\ DOMAIN slot[n] \subseteq DOMAIN slot'[n] /\ DOMAIN run[n] \subseteq DOMAIN run'[n]
         /\ \A j \in DOMAIN slot[n] :
              \/ slot'[n][j].op = slot[n][j].op /\ slot'[n][j].removed = slot[n][j].removed
              \/ slot[n][j].op \in {t, None}
         /\ \A m \in Names : m # n => /\ slot'[m] = slot[m] /\ slots'[m] = slots[m]
                                      /\ run'[m] = run[m] /\ router'[m] = router[m]
         /\ (t \in Names => t = n)
    BY <1>3, <1>8, <1>9, <1>11
  <1> QED
    BY ONLY <1>12, <1>13, <1>14, <1>15, <1>16, <1>17, <1>18, StepKeeps

LEMMA ForgetKeeps ==
  ASSUME Inv, NEW t \in Tasks, Forget(t)
  PROVE  Inv'
  <1>0. /\ TypeOK /\ Placed /\ task[t].pc = "forget" /\ task[t].pc \in Holding
        /\ task[t].pc \in Present /\ task[t].pc \in OnSlot
    BY DEF Inv, Forget, At, Holding, Present, OnSlot
  <1>1. PICK n \in Names : \E j \in DOMAIN slot[n] : HoldsAt(t, n, j)
    BY <1>0, Holds
  <1>2. PICK i \in DOMAIN slot[n] : HoldsAt(t, n, i)
    BY <1>1
  <1>3. /\ n = task[t].name /\ i = task[t].slot /\ (t \in Names => t = n) /\ TaskPlaced(t)
        /\ slot[n][i] \in Slot /\ SlotOf(t) = slot[n][i] /\ slot[n][i].op = t
        /\ slots[n] = i /\ task[t].op \in Ops \ {"stop"}
    BY <1>0, <1>2, NamesApart DEF HoldsAt, TaskPlaced, Placed, SlotPlaced
  <1>4. n \notin abandoned => slot[n][i].running = 0 /\ slot[n][i].state # "running"
    BY <1>0, <1>2 DEF HoldsAt, TaskKept, SlotKept
  <1>5. PICK s : s = [slot[n][i] EXCEPT !.removed = TRUE]
    OBVIOUS
  <1>6. s \in Slot /\ s.removed /\ s.running = slot[n][i].running /\ s.state = slot[n][i].state
    BY <1>3, <1>5 DEF Slot
  <1>7. PICK l : l = "unport"
    OBVIOUS
  <1>8. /\ l \in Pcs /\ l \in Holding /\ l \notin Present /\ l \notin OnRun /\ l \notin Starting
        /\ l \notin {"new", "done", "detached"}
    BY <1>7 DEF Pcs, Named, OnSlot, Holding, Present, OnRun, Starting
  <1>9. /\ SlotBecomes(t, s, l) /\ slots' = [slots EXCEPT ![n] = 0]
        /\ UNCHANGED <<dir, creating, stopping, ports, router, run, hub, abandoned, counted>>
    BY <1>3, <1>5, <1>7 DEF Forget
  <1>10. /\ slot' \in [Names -> Seq(Slot)] /\ SlotSet(n, i)
         /\ \A m \in Names : m # n => slot'[m] = slot[m]
         /\ slot'[n][i].op = t /\ slot'[n][i].removed /\ slot'[n][i].state = s.state
         /\ slot'[n][i].running = s.running /\ Goto(t, l)
    BY ONLY t \in Tasks, n \in Names, i \in DOMAIN slot[n], <1>0, <1>3, <1>6, <1>8, <1>9, BecomesStep
  <1>11. /\ task' \in [Tasks -> Task] /\ \A u \in Tasks : u # t => task'[u] = task[u]
         /\ task'[t].pc = l /\ task'[t].op = task[t].op /\ task'[t].name = n
         /\ task'[t].slot = i /\ task'[t].run = task[t].run
    BY <1>0, <1>3, <1>8, <1>10, GotoStep
  <1>12. TypeOK'
    <2>1. /\ faults' \in 0 .. MaxFaults /\ reloads' \in 0 .. MaxReloads
      BY <1>0, <1>9, FaultTyped
    <2>2. /\ slots' \in [Names -> Nat] /\ abandoned' \subseteq Names /\ router' \in [Names -> Nat]
          /\ ports' \in [Names \cup Others -> Ports \cup {None}] /\ dir' \subseteq Names
          /\ creating' \in Tasks \cup {None} /\ run' \in [Names -> Seq(Run)]
          /\ \A m \in Names : slots'[m] \in {slots[m], 0}
      BY <1>0, <1>9 DEF TypeOK
    <2>3. \A m \in Names : DOMAIN slot'[m] = DOMAIN slot[m]
      BY <1>10 DEF SlotSet
    <2> QED
      BY <1>0, <1>9, <1>10, <1>11, <2>1, <2>2, <2>3, TypeKept
  <1>13. TaskPlaced(t)'
    <2>1. SlotOf(t)' = slot'[n][i] /\ i \in DOMAIN slot'[n]
      BY <1>10, <1>11 DEF SlotOf, SlotSet
    <2> QED
      BY <1>3, <1>8, <1>10, <1>11, <2>1 DEF TaskPlaced
  <1>14. n \notin abandoned => SlotKept(n, i)' /\ TaskKept(t)'
    BY <1>4, <1>6, <1>7, <1>10, <1>11 DEF SlotKept, TaskKept
  <1>15. FutureKept(n)'
    <2>1. \A q \in DOMAIN run'[n] : Live(n, q)' =>
            q \in DOMAIN run[n] /\ Live(n, q) /\ run'[n][q].slot = run[n][q].slot
      BY <1>9 DEF Live
    <2>2. /\ Inv /\ task[t].name = n /\ UNCHANGED hub /\ abandoned \subseteq abandoned'
          /\ t \in Tasks /\ n \in Names /\ task'[t].slot = task[t].slot
      BY <1>3, <1>9, <1>11
    <2> QED
      BY ONLY <1>0, <1>8, <1>11, <2>1, <2>2, FutureStep
  <1>16. /\ UNCHANGED <<run, router, hub, stopping, abandoned>>
         /\ \A m \in Names : m # n => slots'[m] = slots[m]
         /\ slot'[n][i].running = slot[n][i].running /\ slot[n][i].op \in {t, None}
         /\ Inv /\ n \in Names /\ i \in DOMAIN slot[n] /\ t \in Tasks
         /\ task[t].name = n /\ task[t].slot = i
    BY <1>0, <1>3, <1>6, <1>9, <1>10 DEF TypeOK
  <1> QED
    BY ONLY <1>3, <1>10, <1>11, <1>12, <1>13, <1>14, <1>15, <1>16, SlotStep

LEMMA AdoptKeeps ==
  ASSUME Inv, NEW t \in Tasks, Adopt(t)
  PROVE  Inv'
  <1>0. /\ TypeOK /\ Placed /\ task[t].pc = "paging" /\ TaskPlaced(t)
        /\ task[t].op \in Ops \ {"stop"} /\ creating' = None
        /\ UNCHANGED <<stopping, ports, router, run, hub, abandoned, counted>>
    BY DEF Inv, Adopt, At, Placed, TaskPlaced, Named
  <1>1. PICK n \in Names : n = task[t].name /\ (t \in Names => t = n)
    BY <1>0 DEF TaskPlaced, Named, Inv, HubKept, FutureKept
  <1>2. CASE Goto(t, "done") /\ UNCHANGED <<slot, slots>> /\ dir' \subseteq dir
    <2>1. Around
      BY <1>0, <1>2, AroundOf DEF TypeOK
    <2> QED
      BY <1>0, <1>2, <2>1, UnlockedGoto
  <1>3. CASE /\ slots[n] = 0 /\ slot' = [slot EXCEPT ![n] = Append(slot[n], NewSlot)]
             /\ slots' = [slots EXCEPT ![n] = Len(slot[n]) + 1] /\ Goto(t, "lookup") /\ UNCHANGED dir
    <2>0. FutureKept(n) /\ (n \notin abandoned => Kept(n))
      BY DEF Inv, HubKept
    <2>1. PICK k : k = Len(slot[n]) + 1
      OBVIOUS
    <2>2. /\ NewSlot \in Slot /\ ~NewSlot.removed /\ NewSlot.running = 0
          /\ NewSlot.state = "stopped"
      BY DEF NewSlot, Slot
    <2>3. slot \in [Names -> Seq(Slot)] /\ slot[n] \in Seq(Slot)
      BY <1>0 DEF TypeOK
    <2>4. slot'[n] = Append(slot[n], NewSlot) /\ \A m \in Names : m # n => slot'[m] = slot[m]
      BY <1>3, <2>3
    <2>5. /\ slot'[n] \in Seq(Slot) /\ k \in DOMAIN slot'[n] /\ DOMAIN slot[n] \subseteq DOMAIN slot'[n]
          /\ DOMAIN slot'[n] \subseteq DOMAIN slot[n] \cup {k}
          /\ slot'[n][k] = NewSlot /\ k \in Nat \ {0}
          /\ \A j \in DOMAIN slot[n] : slot'[n][j] = slot[n][j]
      BY <2>1, <2>2, <2>3, <2>4, SeqGrown
    <2>6. slot' \in [Names -> Seq(Slot)]
      BY <1>3, <2>3, <2>4, <2>5
    <2>7. /\ task' \in [Tasks -> Task] /\ \A u \in Tasks : u # t => task'[u] = task[u]
          /\ task'[t].pc = "lookup" /\ task'[t].op = task[t].op /\ task'[t].name = n
      <3>1. "lookup" \in Pcs
        BY DEF Pcs, Named
      <3> QED
        BY <1>0, <1>1, <1>3, <3>1, GotoStep
    <2>8. slots' \in [Names -> Nat] /\ slots'[n] = k /\ \A m \in Names : m # n => slots'[m] = slots[m]
      BY <1>0, <1>3, <2>1, <2>5 DEF TypeOK
    <2>9. TypeOK'
      <3>1. /\ faults' \in 0 .. MaxFaults /\ reloads' \in 0 .. MaxReloads
        BY <1>0, FaultTyped
      <3>2. \A m \in Names : slots'[m] # 0 => slots'[m] \in DOMAIN slot'[m]
        BY <1>0, <2>4, <2>5, <2>8 DEF TypeOK
      <3>3. \A m \in Names : \A r \in DOMAIN run'[m] : run'[m][r].slot \in DOMAIN slot'[m]
        BY <1>0, <2>4, <2>5 DEF TypeOK
      <3> QED
        BY <1>0, <1>3, <2>6, <2>7, <2>8, <3>1, <3>2, <3>3 DEF TypeOK
    <2>10. TaskPlaced(t)'
      BY <1>0, <1>1, <2>7, NamingIsPlaced
    <2>11. \A j \in DOMAIN slot'[n] : SlotPlaced(n, j)'
      <3>1. ASSUME NEW j \in DOMAIN slot[n] PROVE SlotPlaced(n, j)'
        <4>1. SlotPlaced(n, j) /\ j # 0
          BY <1>0, <2>3, InDomain DEF Placed
        <4> QED
          BY <1>0, <1>3, <2>5, <4>1 DEF SlotPlaced
      <3>2. SlotPlaced(n, k)'
        BY <2>2, <2>5, <2>8 DEF SlotPlaced
      <3> QED
        BY <2>5, <3>1, <3>2
    <2>12. ASSUME n \notin abandoned PROVE Kept(n)'
      <3>1. ASSUME NEW j \in DOMAIN slot'[n] PROVE SlotKept(n, j)'
        <4>1. CASE j = k
          BY <2>2, <2>5, <4>1 DEF SlotKept
        <4>2. CASE j # k
          <5>1. SlotKept(n, j) /\ j \in DOMAIN slot[n] /\ slot'[n][j] = slot[n][j]
            BY <2>0, <2>5, <2>12, <3>1, <4>2 DEF Kept
          <5>2. slot[n][j].op \in Tasks /\ task[slot[n][j].op].pc = "announce" =>
                  task'[slot[n][j].op] = task[slot[n][j].op]
            BY <1>0, <2>7
          <5> QED
            BY <1>0, <5>1, <5>2 DEF SlotKept
        <4> QED
          BY <4>1, <4>2
      <3>2. ASSUME NEW r \in DOMAIN run[n] PROVE RunKept(n, r)'
        <4>1. RunKept(n, r) /\ run[n][r].slot \in DOMAIN slot[n]
          BY <1>0, <2>0, <2>12 DEF Kept, TypeOK
        <4> QED
          BY <1>0, <2>5, <4>1 DEF RunKept, Live, Reached
      <3>3. ASSUME NEW u \in Tasks, task'[u].name = n PROVE TaskKept(u)'
        <4>1. CASE u = t
          BY <2>7, <4>1 DEF TaskKept
        <4>2. CASE u # t
          <5>1. task'[u] = task[u] /\ TaskKept(u) /\ TaskPlaced(u) /\ task[u].name = n
            BY <1>0, <2>0, <2>7, <2>12, <3>3, <4>2 DEF Kept, Placed
          <5>2. task[u].pc \in Present => SlotOf(u)' = SlotOf(u)
            BY <2>5, <5>1, NamesApart DEF TaskPlaced, SlotOf
          <5> QED
            BY <1>0, <5>1, <5>2 DEF TaskKept, RunOf, Reached, Present
        <4> QED
          BY <4>1, <4>2
      <3> QED
        BY <1>0, <3>1, <3>2, <3>3 DEF Kept
    <2>13. FutureKept(n)'
      <3>1. CASE t # n
        <4>1. task'[t].pc \notin Starting
          BY <2>7 DEF Starting
        <4> QED
          BY <1>0, <2>0, <2>7, <3>1, <4>1, FutureAside
      <3>2. CASE t = n
        <4>1. hub = "starting"
          BY <1>0, <2>0, <3>2 DEF FutureKept, TypeOK
        <4> QED
          BY <1>0, <2>7, <3>2, <4>1 DEF FutureKept
      <3> QED
        BY <3>1, <3>2
    <2>14. /\ \A j \in DOMAIN slot[n] :
                slot'[n][j].op = slot[n][j].op /\ slot'[n][j].removed = slot[n][j].removed
           /\ \A m \in Names : m # n => /\ slot'[m] = slot[m] /\ slots'[m] = slots[m]
                                        /\ run'[m] = run[m] /\ router'[m] = router[m]
           /\ Inv /\ n \in Names /\ UNCHANGED <<hub, stopping>> /\ abandoned \subseteq abandoned'
           /\ n \notin abandoned' => Kept(n)'
           /\ DOMAIN run[n] \subseteq DOMAIN run'[n] /\ DOMAIN slot[n] \subseteq DOMAIN slot'[n]
           /\ task[t].name \in {n, None} /\ task'[t].name \in {n, None} /\ (t \in Names => t = n)
      BY <1>0, <1>1, <2>4, <2>5, <2>7, <2>8, <2>12
    <2> QED
      BY ONLY <2>7, <2>9, <2>10, <2>11, <2>13, <2>14, StepKeeps
  <1> QED
    BY <1>1, <1>2, <1>3 DEF Adopt
-----------------------------------------------------------------------------
(* The hub's own steps, and those of agents that are not followed.         *)

\* Futures are joined: of the agents known, and none has one at work.
LEMMA JoinStep ==
  ASSUME Inv, NEW op \in {"start", "stop"}, NEW chosen \in SUBSET Known, JoinAll(op, chosen),
         hub \in {"boot", "closing"}
  PROVE  /\ task' \in [Tasks -> Task] /\ \A u \in Tasks : u \notin chosen => task'[u] = task[u]
         /\ \A n \in chosen : /\ n \in Names /\ n \in Tasks /\ slots[n] # 0
                              /\ task'[n].op = op /\ task'[n].name = n /\ task'[n].slot = slots[n]
                              /\ task'[n].pc = "waiting" /\ task[n].pc \in {"new", "done"}
  <1>0. TypeOK
    BY DEF Inv
  <1>1. ASSUME NEW n \in chosen
        PROVE  /\ n \in Names /\ n \in Tasks /\ slots[n] # 0 /\ slots[n] \in Nat
               /\ task[n].pc \in {"new", "done"}
    BY <1>0, NamesApart DEF Known, Inv, HubKept, FutureKept, TypeOK
  <1>2. ASSUME NEW n \in chosen
        PROVE  /\ task'[n] = [op |-> op, name |-> n, slot |-> slots[n], run |-> 0, pc |-> "waiting"]
               /\ task'[n] \in Task
    <2>1. task'[n] = [op |-> op, name |-> n, slot |-> slots[n], run |-> 0, pc |-> "waiting"]
      BY <1>1 DEF JoinAll
    <2>2. [op |-> op, name |-> n, slot |-> slots[n], run |-> 0, pc |-> "waiting"] \in Task
      BY <1>1 DEF Task, Ops
    <2> QED
      BY <2>1, <2>2
  <1>3. \A u \in Tasks : u \notin chosen => task'[u] = task[u]
    BY DEF JoinAll
  <1>4. task' \in [Tasks -> Task]
    <2>1. \A u \in Tasks : task'[u] \in Task
      BY <1>0, <1>2, <1>3 DEF TypeOK
    <2>2. task' = [u \in Tasks |-> task'[u]]
      BY DEF JoinAll
    <2> QED
      BY <2>1, <2>2
  <1>5. ASSUME NEW n \in chosen
        PROVE  /\ task'[n].op = op /\ task'[n].name = n /\ task'[n].slot = slots[n]
               /\ task'[n].pc = "waiting"
    <2>1. PICK v : v = task'[n]
      OBVIOUS
    <2>2. v = [op |-> op, name |-> n, slot |-> slots[n], run |-> 0, pc |-> "waiting"]
      BY <1>2, <2>1
    <2>3. v.op = op /\ v.name = n /\ v.slot = slots[n] /\ v.pc = "waiting"
      BY ONLY <2>2
    <2> QED
      BY <2>1, <2>3
  <1> QED
    BY <1>1, <1>3, <1>4, <1>5

LEMMA JoinKeeps ==
  ASSUME Inv, NEW op \in {"start", "stop"}, NEW chosen \in SUBSET Known, JoinAll(op, chosen),
         UNCHANGED <<slot, slots, dir, creating, stopping, ports, router, run, abandoned, counted>>,
         \/ hub = "boot" /\ hub' = "starting" /\ op = "start"
         \/ hub = "closing" /\ hub' = "stopping" /\ op = "stop" /\ chosen = Known
  PROVE  Inv'
  <1>0. TypeOK /\ Placed /\ HubKept
    BY DEF Inv
  <1>1. /\ task' \in [Tasks -> Task] /\ \A u \in Tasks : u \notin chosen => task'[u] = task[u]
        /\ \A n \in chosen : /\ n \in Names /\ n \in Tasks /\ slots[n] # 0
                             /\ task'[n].op = op /\ task'[n].name = n /\ task'[n].slot = slots[n]
                             /\ task'[n].pc = "waiting" /\ task[n].pc \in {"new", "done"}
    BY JoinStep
  <1>2. TypeOK'
    <2>1. hub' \in {"boot", "starting", "closing", "stopping", "down"}
      OBVIOUS
    <2> QED
      BY <1>0, <1>1, <2>1 DEF TypeOK, counted
  <1>3. Placed'
    <2>1. ASSUME NEW u \in Tasks PROVE TaskPlaced(u)'
      <3>1. CASE u \in chosen
        <4>1. slots[u] \in DOMAIN slot[u]
          BY <1>0, <1>1, <3>1 DEF TypeOK
        <4> QED
          BY <1>1, <3>1, <4>1, WaitingIsPlaced DEF Ops
      <3>2. CASE u \notin chosen
        <4>1. TaskPlaced(u) /\ task'[u] = task[u]
          BY <1>0, <1>1, <3>2 DEF Placed
        <4> QED
          BY <4>1 DEF TaskPlaced, SlotOf
      <3> QED
        BY <3>1, <3>2
    <2> QED
      BY <1>0, <2>1 DEF Placed, SlotPlaced
  <1>4. ASSUME NEW n \in Names \ abandoned' PROVE Kept(n)'
    <2>0. Kept(n)
      BY <1>4 DEF Inv
    <2>1. ASSUME NEW i \in DOMAIN slot[n] PROVE SlotKept(n, i)'
      <3>1. SlotKept(n, i)
        BY <2>0 DEF Kept
      <3>2. slot[n][i].op \in Tasks /\ task[slot[n][i].op].pc = "announce" =>
              task'[slot[n][i].op] = task[slot[n][i].op]
        BY <1>1
      <3> QED
        BY <3>1, <3>2 DEF SlotKept
    <2>2. ASSUME NEW r \in DOMAIN run[n] PROVE RunKept(n, r)'
      <3>1. RunKept(n, r)
        BY <2>0 DEF Kept
      <3> QED
        BY <3>1 DEF RunKept, Live, Reached
    <2>3. ASSUME NEW u \in Tasks, task'[u].name = n PROVE TaskKept(u)'
      <3>1. CASE u \in chosen
        BY <1>1, <3>1 DEF TaskKept
      <3>2. CASE u \notin chosen
        <4>1. task'[u] = task[u] /\ TaskKept(u)
          BY <1>1, <2>0, <2>3, <3>2 DEF Kept
        <4> QED
          BY <4>1 DEF TaskKept, SlotOf, RunOf, Reached
      <3> QED
        BY <3>1, <3>2
    <2> QED
      BY <2>1, <2>2, <2>3 DEF Kept
  <1>5. ASSUME NEW n \in Names PROVE FutureKept(n)'
    <2>1. FutureKept(n) /\ n \in Tasks /\ task[n].pc \in {"new", "done"}
      BY <1>0, NamesApart DEF HubKept, FutureKept
    <2>2. task'[n].pc \notin {"new", "done"} => task'[n].name = n /\ task'[n].op = op
      BY <1>1, <2>1
    <2>3. ASSUME hub' \in {"stopping", "down"}, n \notin abandoned' PROVE Swept(n)'
      <3>0. chosen = Known /\ Kept(n) /\ UNCHANGED <<run, slots, slot>>
        BY <2>3 DEF Inv
      <3>1. ASSUME NEW i \in DOMAIN slot[n], slots[n] = i
            PROVE  task'[n].pc \notin {"new", "done"} /\ task'[n].slot = i
        <4>1. slots[n] # 0
          <5>1. slot[n] \in Seq(Slot)
            BY <1>0 DEF TypeOK
          <5> QED
            BY <3>1, <5>1, InDomain
        <4>2. n \in chosen
          BY <3>0, <4>1 DEF Known
        <4> QED
          BY <1>1, <3>1, <4>2
      <3>2. ASSUME NEW r \in DOMAIN run[n], Live(n, r)
            PROVE  task'[n].pc \notin {"new", "done"} /\ run[n][r].slot = task'[n].slot
        <4>1. r # 0 /\ run[n][r].slot \in DOMAIN slot[n]
          BY <1>0, RunIsOne
        <4>2. slot[n][run[n][r].slot].running = r
          BY <3>0, <3>2 DEF Kept, RunKept
        <4>3. slots[n] = run[n][r].slot
          BY <2>3, <4>1, <4>2, OneRun
        <4> QED
          BY <3>1, <4>1, <4>3
      <3>3. ASSUME NEW u \in Tasks, task'[u].name = n, task'[u].pc \in Starting
            PROVE  task'[n].pc \notin {"new", "done"} /\ task'[u].slot = task'[n].slot
        <4>1. task'[u] = task[u]
          BY <1>1, <3>3 DEF Starting
        <4>2. TaskPlaced(u) /\ task[u].pc \in Present
          BY <1>0, <3>3, <4>1, NamesApart DEF Placed
        <4>3. task[u].slot \in DOMAIN slot[n] /\ ~slot[n][task[u].slot].removed
          BY <3>3, <4>1, <4>2, NamesApart DEF TaskPlaced, SlotOf
        <4>4. slots[n] = task[u].slot
          BY <1>0, <4>3 DEF Placed, SlotPlaced
        <4> QED
          BY <3>1, <4>1, <4>3, <4>4
      <3> QED
        BY <3>0, <3>2, <3>3 DEF Swept, Live
    <2> QED
      BY <2>1, <2>2, <2>3 DEF FutureKept
  <1>6. HubKept'
    BY <1>0, <1>5 DEF HubKept
  <1> QED
    BY <1>2, <1>3, <1>4, <1>6 DEF Inv

\* The hub moves on while every task stands where it stood.
LEMMA HubMoves ==
  ASSUME Inv,
         UNCHANGED <<slot, slots, dir, creating, router, run, task, abandoned, counted>>,
         ports' \in [Names \cup Others -> Ports \cup {None}],
         \/ UNCHANGED <<hub, stopping>>
         \/ hub = "starting" /\ hub' = "closing" /\ stopping' /\ stopping' \in BOOLEAN /\ Joined
         \/ hub = "stopping" /\ hub' = "down" /\ UNCHANGED stopping /\ Joined
  PROVE  Inv'
  <1>0. TypeOK /\ Placed /\ HubKept
    BY DEF Inv
  <1>1. TypeOK'
    <2>1. hub' \in {"boot", "starting", "closing", "stopping", "down"} /\ stopping' \in BOOLEAN
      BY <1>0 DEF TypeOK
    <2> QED
      BY <1>0, <2>1 DEF TypeOK, counted
  <1>2. Placed'
    BY <1>0 DEF Placed, TaskPlaced, SlotPlaced, SlotOf
  <1>3. ASSUME NEW n \in Names \ abandoned' PROVE Kept(n)'
    <2>1. Kept(n)
      BY <1>3 DEF Inv
    <2>2. PICK t : t \notin Tasks
      BY NamesApart
    <2> QED
      BY <2>1, <2>2, KeptAside
  <1>4. ASSUME NEW n \in Names PROVE FutureKept(n)'
    <2>1. FutureKept(n)
      BY <1>0 DEF HubKept
    <2>2. Swept(n) => Swept(n)'
      BY DEF Swept, Live
    <2>3. UNCHANGED <<hub, task, abandoned>> \/ (hub' = "closing" /\ Joined) \/ (hub = "stopping" /\ hub' = "down" /\ Joined)
      OBVIOUS
    <2> QED
      BY <2>1, <2>2, <2>3 DEF FutureKept, Joined
  <1>5. HubKept'
    BY <1>0, <1>4 DEF HubKept
  <1> QED
    BY <1>1, <1>2, <1>3, <1>5 DEF Inv

LEMMA HubKeeps ==
  ASSUME Inv, HubStep \/ BeginShutdown \/ (\E o \in Others : OtherAgent(o)) \/ UNCHANGED vars
  PROVE  Inv'
  <1>0. TypeOK
    BY DEF Inv
  <1>1. CASE StartAutostart
    BY <1>1, JoinKeeps DEF StartAutostart
  <1>2. CASE StopAll
    <2>1. Known \in SUBSET Known
      OBVIOUS
    <2> QED
      BY <1>2, <2>1, JoinKeeps DEF StopAll
  <1>3. CASE ShutDown
    <2>1. ports' \in [Names \cup Others -> Ports \cup {None}]
      BY <1>0, <1>3 DEF TypeOK, ShutDown
    <2> QED
      BY <1>3, <2>1, HubMoves DEF ShutDown
  <1>4. CASE BeginShutdown
    <2>1. ports' \in [Names \cup Others -> Ports \cup {None}]
      BY <1>0, <1>4 DEF TypeOK, BeginShutdown
    <2> QED
      BY <1>4, <2>1, HubMoves DEF BeginShutdown
  <1>5. CASE \E o \in Others : OtherAgent(o)
    <2>1. ports' \in [Names \cup Others -> Ports \cup {None}]
      BY <1>0, <1>5 DEF TypeOK, OtherAgent
    <2> QED
      BY <1>5, <2>1, HubMoves DEF OtherAgent
  <1>6. CASE UNCHANGED vars
    <2>1. ports' \in [Names \cup Others -> Ports \cup {None}]
      BY <1>0, <1>6 DEF TypeOK, vars
    <2> QED
      BY <1>6, <2>1, HubMoves DEF vars
  <1> QED
    BY <1>1, <1>2, <1>3, <1>4, <1>5, <1>6 DEF HubStep
-----------------------------------------------------------------------------
(* The invariant holds, and what follows from it.                          *)

LEMMA InvInit ==
  ASSUME Init
  PROVE  Inv
  <1>1. NewSlot \in Slot /\ ~NewSlot.removed /\ NewSlot.running = 0 /\ NewSlot.state = "stopped"
    BY DEF NewSlot, Slot
  <1>2. \A n \in Names : \/ slot[n] = <<NewSlot>> /\ slots[n] = 1
                         \/ slot[n] = <<>> /\ slots[n] = 0
    BY DEF Init
  <1>3. \A n \in Names : /\ slot[n] \in Seq(Slot) /\ slots[n] \in Nat
                         /\ slots[n] # 0 => slots[n] \in DOMAIN slot[n]
                         /\ \A i \in DOMAIN slot[n] : i = 1 /\ slots[n] = 1 /\ slot[n][i] = NewSlot
    <2>1. PICK s : s = NewSlot /\ s \in Slot
      BY <1>1
    <2>2. ASSUME NEW n \in Names, slot[n] = <<s>>
          PROVE  /\ slot[n] \in Seq(Slot) /\ 1 \in DOMAIN slot[n]
                 /\ \A i \in DOMAIN slot[n] : i = 1 /\ slot[n][i] = s
      BY <2>1, <2>2
    <2>3. ASSUME NEW n \in Names, slot[n] = <<>>
          PROVE  slot[n] \in Seq(Slot) /\ DOMAIN slot[n] = {}
      BY <2>3
    <2> QED
      BY <1>2, <2>1, <2>2, <2>3
  <1>4. TypeOK
    <2>1. slot \in [Names -> Seq(Slot)] /\ slots \in [Names -> Nat]
      BY <1>3 DEF Init
    <2>2. run \in [Names -> Seq(Run)] /\ \A n \in Names : DOMAIN run[n] = {}
      BY DEF Init
    <2>3. task \in [Tasks -> Task]
      BY FinishedIsTask DEF Init
    <2>4. faults \in 0 .. MaxFaults /\ reloads \in 0 .. MaxReloads
      BY AgentHostAssumption DEF Init
    <2>5. /\ dir \subseteq Names /\ ports \in [Names \cup Others -> Ports \cup {None}]
          /\ router \in [Names -> Nat] /\ creating \in Tasks \cup {None} /\ stopping \in BOOLEAN
          /\ abandoned \subseteq Names /\ hub = "boot"
      BY AgentHostAssumption DEF Init
    <2> QED
      BY <1>3, <2>1, <2>2, <2>3, <2>4, <2>5 DEF TypeOK
  <1>5. \A t \in Tasks : task[t].pc = "new" /\ task[t].op = "none" /\ task[t].name = None
    BY FinishedIsTask DEF Init
  <1>6. Placed
    <2>1. ASSUME NEW t \in Tasks PROVE TaskPlaced(t)
      BY <1>5 DEF TaskPlaced, Named, OnSlot, Holding, OnRun, Present
    <2>2. ASSUME NEW n \in Names, NEW i \in DOMAIN slot[n] PROVE SlotPlaced(n, i)
      BY <1>1, <1>3 DEF SlotPlaced
    <2> QED
      BY <2>1, <2>2 DEF Placed
  <1>7. ASSUME NEW n \in Names PROVE Kept(n)
    <2>1. \A i \in DOMAIN slot[n] : SlotKept(n, i)
      BY <1>1, <1>3 DEF SlotKept
    <2>2. DOMAIN run[n] = {}
      BY DEF Init
    <2>3. \A t \in Tasks : task[t].name # n
      BY <1>5, NamesApart
    <2> QED
      BY <2>1, <2>2, <2>3 DEF Kept
  <1>8. HubKept
    BY <1>5, NamesApart DEF HubKept, FutureKept, Init
  <1> QED
    BY <1>4, <1>6, <1>7, <1>8 DEF Inv

LEMMA InvNext ==
  ASSUME Inv, [Next]_vars
  PROVE  Inv'
  <1>1. ASSUME NEW t \in Tasks, Step(t) PROVE Inv'
    BY <1>1, LockKeeps, StartLockedKeeps, ReserveKeeps, LaunchKeeps, AttachKeeps, AnnounceKeeps,
       FailStartKeeps, StopLockedKeeps, SendStopKeeps, StopSeesExitKeeps, StopTimeoutKeeps, PatchKeeps,
       DeprovisionKeeps, ForgetKeeps, ForgetPortKeeps, LockCreationKeeps, ProvisionKeeps,
       AdoptKeeps, LookUpNewKeeps, LaunchDetachedKeeps, AbortTimeoutKeeps DEF Step
  <1>2. ASSUME NEW q \in Requests, Request(q) PROVE Inv'
    BY <1>2, AskForAgentKeeps, AskForNewKeeps, ClientLeavesKeeps, ClientLeavesLaunchKeeps,
       ClientLeavesAttachKeeps DEF Request
  <1>3. ASSUME NEW n \in Names, NEW r \in DOMAIN run[n],
               \/ LoopWindsDown(n, r) \/ LoopEnds(n, r) \/ LoopCrashes(n, r) \/ Supervise(n, r)
               \/ Reload(n, r) \/ RefreshTeamsPort(n, r)
        PROVE  Inv'
    BY <1>3, LoopKeeps, SuperviseKeeps, SuperviseRecordKeeps, ReloadKeeps DEF Supervise
  <1>4. CASE HubStep \/ BeginShutdown \/ (\E o \in Others : OtherAgent(o)) \/ UNCHANGED vars
    BY <1>4, HubKeeps
  <1> QED
    BY <1>1, <1>2, <1>3, <1>4 DEF Next

LEMMA InvAlways == Spec => []Inv
  <1>1. Init => Inv
    BY InvInit
  <1>2. Inv /\ [Next]_vars => Inv'
    BY InvNext
  <1> QED
    BY <1>1, <1>2, PTL DEF Spec

\* The variables keep their types, and what names a slot or a run names one there is,
\* whatever the requests, the clients that leave and the stops given up.
THEOREM TypeCorrect == Spec => []TypeOK
  <1>1. Inv => TypeOK
    BY DEF Inv
  <1> QED
    BY <1>1, InvAlways, PTL

\* An agent never has two event loops, unless a stop gave one up: the run whose loop
\* is on is the run of its slot, and only the slot the host knows is not removed.
THEOREM AgentsHaveOneLoop == Spec => []OneLoopPerAgent
  <1>1. ASSUME Inv PROVE OneLoopPerAgent
    <2>1. ASSUME NEW n \in Names \ abandoned, NEW q \in DOMAIN run[n], NEW r \in DOMAIN run[n],
                 Live(n, q), Live(n, r)
          PROVE  q = r
      <3>1. TypeOK /\ RunKept(n, r) /\ r # 0 /\ run[n][r].slot \in DOMAIN slot[n]
        BY <1>1, RunIsOne DEF Inv, Kept
      <3>2. slot[n][run[n][r].slot].running = r
        BY <2>1, <3>1 DEF RunKept
      <3> QED
        BY <1>1, <2>1, <3>1, <3>2, OneRun
    <2> QED
      BY <2>1 DEF OneLoopPerAgent
  <1> QED
    BY <1>1, InvAlways, PTL

\* Once stop_all has returned no event loop runs, unless a stop gave one up: while the
\* agents are being stopped, whatever is live or on its way to be is on the slot its
\* future waits for, and no start passes the hub's stopping flag.
THEOREM ShutdownLeavesNothing == Spec => []NothingOutlivesShutdown
  <1>1. ASSUME Inv PROVE NothingOutlivesShutdown
    BY <1>1 DEF Inv, HubKept, FutureKept, Swept, NothingOutlivesShutdown
  <1> QED
    BY <1>1, InvAlways, PTL

\* Teammates reach an agent whose loop runs and was not told to stop, or an agent
\* nobody runs in its place: no task of an earlier run unregisters it.
THEOREM RunningAgentsAreReachable == Spec => []RunningIsReachable
  <1>1. ASSUME Inv PROVE RunningIsReachable
    BY <1>1 DEF Inv, Kept, RunKept, Reached, RunningIsReachable
  <1> QED
    BY <1>1, InvAlways, PTL

\* The host knows every event loop that runs, unless a stop gave it up: its slot is the
\* one not removed, has the loop's run, and is shown starting or running.  No agent that is
\* shown stopped or failed, or was deleted, is at work.
THEOREM LoopsAreKnown == Spec => []LoopIsKnown
  <1>1. ASSUME Inv PROVE LoopIsKnown
    <2>1. ASSUME NEW n \in Names \ abandoned, NEW r \in DOMAIN run[n], Live(n, r)
          PROVE  /\ slots[n] = run[n][r].slot
                 /\ slot[n][slots[n]].running = r
                 /\ slot[n][slots[n]].state \in {"starting", "running"}
      <3> DEFINE i == run[n][r].slot
      <3>1. /\ RunKept(n, r) /\ r # 0 /\ i \in DOMAIN slot[n] /\ SlotKept(n, i)
            /\ SlotPlaced(n, i)
        BY <1>1, RunIsOne DEF Inv, Kept, Placed
      <3>2. slot[n][i].running = r
        BY <2>1, <3>1 DEF RunKept
      <3>3. ~slot[n][i].removed /\ slot[n][i].state \in {"starting", "running"}
        BY <3>1, <3>2 DEF SlotKept
      <3> QED
        BY <3>1, <3>2, <3>3 DEF SlotPlaced
    <2> QED
      BY <2>1 DEF LoopIsKnown
  <1> QED
    BY <1>1, InvAlways, PTL
=============================================================================
