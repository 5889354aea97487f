--------------------------- MODULE PostTurnProofs ---------------------------
(***************************************************************************)
(* The memory worker and the subconscious worker, for any number of run     *)
(* loops, turns and commands.                                               *)
(***************************************************************************)
EXTENDS PostTurn, FiniteSetTheorems, SequenceTheorems, WellFoundedInduction, TLAPS

\* Most steps leave the files alone.
USE DEF files

-----------------------------------------------------------------------------
(* The type of every variable.                                             *)

\* Every set of naturals has a least element.
LEMMA LeastNatural ==
  ASSUME NEW T, T \subseteq Nat, T # {}
  PROVE  \E n \in T : \A m \in T : n <= m
  <1>1. PICK n \in T : \A m \in T : ~ (<<m, n>> \in OpToRel(<, Nat))
    BY WFMin, NatLessThanWellFounded
  <1>2. \A m \in T : ~ (m < n)
    BY <1>1 DEF OpToRel
  <1> QED
    BY <1>2

\* What the recursion in Exchanges defines exists, and yields items of the sequence.
Picks(items, n, f) ==
    f = [m \in 0 .. n |-> IF m = 0 THEN <<>>
                          ELSE IF items[m].kind = "turn" THEN Append(f[m - 1], items[m])
                          ELSE f[m - 1]]

LEMMA PicksExist ==
  ASSUME NEW S, NEW items \in Seq(S)
  PROVE  \E f : Picks(items, Len(items), f)
  <1> DEFINE Bad == {n \in 0 .. Len(items) : ~ \E f : Picks(items, n, f)}
  <1>0. Len(items) \in Nat /\ Bad \subseteq Nat
    OBVIOUS
  <1> SUFFICES ASSUME Bad # {} PROVE FALSE
    BY <1>0
  <1>1. PICK n \in Bad : \A m \in Bad : n <= m
    BY <1>0, LeastNatural
  <1>2. CASE n = 0
    <2> DEFINE f == [m \in 0 .. 0 |-> <<>>]
    <2>1. Picks(items, 0, f)
      BY DEF Picks
    <2> QED
      BY <1>1, <1>2, <2>1
  <1>3. CASE n # 0
    <2>1. n \in Nat /\ n - 1 \in 0 .. Len(items) /\ n - 1 \notin Bad
      BY <1>1, <1>3, LenProperties
    <2>2. PICK f : Picks(items, n - 1, f)
      BY <2>1
    <2> DEFINE g == [m \in 0 .. n |->
                       IF m = n THEN IF items[n].kind = "turn" THEN Append(f[n - 1], items[n])
                                     ELSE f[n - 1]
                       ELSE f[m]]
    <2>3. \A m \in 0 .. n - 1 : g[m] = f[m]
      BY <2>1
    <2>4. ASSUME NEW m \in 0 .. n
          PROVE  g[m] = IF m = 0 THEN <<>>
                        ELSE IF items[m].kind = "turn" THEN Append(g[m - 1], items[m])
                        ELSE g[m - 1]
      <3>1. CASE m = n
        BY <1>3, <2>1, <2>3, <3>1
      <3>2. CASE m # n
        <4>1. m \in 0 .. n - 1 /\ (m # 0 => m - 1 \in 0 .. n - 1)
          BY <2>1, <3>2
        <4>2. f[m] = IF m = 0 THEN <<>>
                     ELSE IF items[m].kind = "turn" THEN Append(f[m - 1], items[m])
                     ELSE f[m - 1]
          BY <2>2, <4>1 DEF Picks
        <4> QED
          BY <2>3, <4>1, <4>2
      <3> QED
        BY <3>1, <3>2
    <2>5. Picks(items, n, g)
      BY <2>4 DEF Picks
    <2> QED
      BY <1>1, <2>5
  <1> QED
    BY <1>2, <1>3

\* The turns among items are items.
LEMMA ExchangesTyped ==
  ASSUME NEW S, NEW items \in Seq(S)
  PROVE  Exchanges(items) \in Seq(S)
  <1> DEFINE f == CHOOSE g : Picks(items, Len(items), g)
  <1>1. Picks(items, Len(items), f)
    BY PicksExist
  <1>2. Exchanges(items) = f[Len(items)]
    BY DEF Exchanges, Picks
  <1> HIDE DEF f
  <1> DEFINE Bad == {n \in 0 .. Len(items) : f[n] \notin Seq(S)}
  <1>0. Len(items) \in Nat /\ Bad \subseteq Nat
    OBVIOUS
  <1>3. ASSUME Bad # {} PROVE FALSE
    <2>1. PICK n \in Bad : \A m \in Bad : n <= m
      BY <1>3, <1>0, LeastNatural
    <2>2. f[n] = IF n = 0 THEN <<>>
                 ELSE IF items[n].kind = "turn" THEN Append(f[n - 1], items[n])
                 ELSE f[n - 1]
      BY <1>1 DEF Picks
    <2>3. n # 0
      <3>1. f[n] \notin Seq(S) /\ <<>> \in Seq(S)
        OBVIOUS
      <3> QED
        BY ONLY <2>2, <3>1
    <2>4. n \in Nat /\ n \in 1 .. Len(items) /\ n - 1 \in 0 .. Len(items)
      BY <1>0, <2>3
    <2>5. n - 1 \notin Bad /\ items[n] \in S
      BY <2>1, <2>4
    <2>6. f[n - 1] \in Seq(S) /\ f[n] \notin Seq(S)
      BY <2>4, <2>5
    <2> QED
      BY <2>2, <2>3, <2>5, <2>6
  <1> QED
    BY <1>2, <1>3, LenProperties

LEMMA RotatedTyped ==
  ASSUME NEW S, NEW items \in Seq(S)
  PROVE  Rotated(items) \in Seq(S)
  <1>1. PICK e \in Seq(S) : e = Exchanges(items)
    BY ExchangesTyped
  <1>2. PICK k \in Nat : k = (IF Len(e) < KeptExchanges THEN Len(e) ELSE KeptExchanges) /\ k <= Len(e)
    BY PostTurnAssumption
  <1>3. Len(e) - k + 1 \in 1 .. Len(e) + 1
    BY <1>2
  <1>4. SubSeq(e, Len(e) - k + 1, Len(e)) \in Seq(S)
    BY <1>3
  <1> QED
    BY <1>1, <1>2, <1>4 DEF Rotated

Steps == {"free", "start", "take", "work", "remove", "report", "owes", "tail"}
LoopsTyped == loop \in [Workers -> [Loops -> Steps]]

\* A run loop that takes a step, and what it took.
LEMMA GotoTyped ==
  ASSUME LoopsTyped, NEW w \in Workers, NEW l \in Loops, NEW s \in Steps, Goto(w, l, s)
  PROVE  /\ LoopsTyped' /\ loop'[w][l] = s
         /\ \A v \in Workers, k \in Loops : v # w \/ k # l => loop'[v][k] = loop[v][k]
  BY DEF LoopsTyped, Goto

LEMMA WorkTyped ==
  ASSUME work \in [Workers -> [Loops -> Work]], NEW w \in Workers, NEW l \in Loops,
         NEW c \in Work, work' = [work EXCEPT ![w][l] = c]
  PROVE  /\ work' \in [Workers -> [Loops -> Work]] /\ work'[w][l] = c
         /\ \A v \in Workers, k \in Loops : v # w \/ k # l => work'[v][k] = work[v][k]
  OBVIOUS

LEMMA NoCycleTyped == NoCycle \in Work
  BY DEF NoCycle, Work

\* What a cycle takes.
LEMMA CycleTyped ==
  ASSUME NEW c \in Work, NEW b \in BOOLEAN, NEW s \in Seq(1 .. MaxTurns),
         NEW t \in SUBSET (1 .. MaxTurns)
  PROVE  /\ [c EXCEPT !.reflect = b, !.loaded = s] \in Work
         /\ [c EXCEPT !.turns = t] \in Work
         /\ [c EXCEPT !.merged = b] \in Work
         /\ [c EXCEPT !.reflect = b, !.loaded = s].loaded = s
  BY DEF Work

LEMMA InitTyped == Init => TypeOK
  <1> SUFFICES ASSUME Init PROVE TypeOK
    OBVIOUS
  <1>2. work \in [Workers -> [Loops -> Work]]
    BY NoCycleTyped DEF Init
  <1>3. queued \in [observe : {"none", "automatic", "forced"}, reflect : BOOLEAN, mem : BOOLEAN]
        /\ (queued.mem <=> (queued.observe # "none" \/ queued.reflect))
    BY DEF Init, NoWork
  <1>4. context \in Seq(Item) /\ recent \in Seq(1 .. MaxTurns) /\ results \in Seq(Result)
    BY DEF Init
  <1>5. turns \in 0 .. MaxTurns /\ commands \in 0 .. MaxCommands /\ hook \in 0 .. MaxTurns
    BY PostTurnAssumption DEF Init
  <1>6. /\ loop \in [Workers -> [Loops -> Steps]] /\ handle \in [Workers -> Loops \cup {NoLoop}]
        /\ running \in [Workers -> BOOLEAN] /\ pending \in [Workers -> BOOLEAN]
        /\ shown \in [Workers -> BOOLEAN]
    BY DEF Init, Steps
  <1> QED
    BY <1>2, <1>3, <1>4, <1>5, <1>6 DEF Init, TypeOK, Steps

\* Queueing for the memory worker: what is queued comes with a snapshot.
LEMMA QueueTyped ==
  ASSUME TypeOK, \/ QueueAutomatic
                 \/ queued' = [queued EXCEPT !.mem = TRUE, !.observe = "forced"]
                 \/ queued' = [queued EXCEPT !.mem = TRUE, !.reflect = TRUE]
  PROVE  /\ queued' \in [observe : {"none", "automatic", "forced"}, reflect : BOOLEAN,
                         mem : BOOLEAN]
         /\ queued'.mem <=> (queued'.observe # "none" \/ queued'.reflect)
  BY DEF TypeOK, QueueAutomatic

LEMMA QueueStepTyped ==
  ASSUME TypeOK, EndTurn \/ ObserveDeadline \/ ForceObserve \/ ForceReflect \/ IdleTransition
  PROVE  TypeOK'
  <1>1. CASE EndTurn
    <2>1. turns + 1 \in 1 .. MaxTurns
      BY <1>1, PostTurnAssumption DEF EndTurn, TypeOK
    <2>2. Turn(turns + 1) \in Item
      BY <2>1 DEF Turn, Item
    <2>3. context' \in Seq(Item) /\ recent' \in Seq(1 .. MaxTurns) /\ unsaved' \subseteq 1 .. MaxTurns
      <3>1. PICK n \in 1 .. MaxTurns : n = turns + 1
        BY <2>1
      <3>2. context \in Seq(Item) /\ recent \in Seq(1 .. MaxTurns) /\ unsaved \subseteq 1 .. MaxTurns
        BY DEF TypeOK
      <3>3. Persist(n) \/ PersistFails(n)
        BY <1>1, <3>1 DEF EndTurn
      <3>4. recent' \in Seq(1 .. MaxTurns)
        <4>1. recent' = Append(recent, n) \/ recent' = recent
          BY <3>3 DEF Persist, PersistFails
        <4>2. Append(recent, n) \in Seq(1 .. MaxTurns)
          BY <3>2, AppendProperties
        <4>3. recent \in Seq(1 .. MaxTurns)
          BY <3>2
        <4> QED
          BY ONLY <4>1, <4>2, <4>3
      <3>5. unsaved' \subseteq 1 .. MaxTurns
        BY <3>2, <3>3 DEF Persist, PersistFails
      <3>6. context' \in Seq(Item)
        BY <1>1, <2>2, <3>2, AppendProperties DEF EndTurn
      <3> QED
        BY <3>4, <3>5, <3>6
    <2>4. CASE UNCHANGED <<calling, queued>>
      BY <1>1, <2>1, <2>3, <2>4 DEF EndTurn, TypeOK, loopState
    <2>5. CASE calling' = "memory" /\ QueueAutomatic
      <3>1. /\ queued' \in [observe : {"none", "automatic", "forced"}, reflect : BOOLEAN,
                              mem : BOOLEAN]
            /\ queued'.mem <=> (queued'.observe # "none" \/ queued'.reflect)
            /\ calling' \in Workers \cup {NoWorker}
        BY <2>5, QueueTyped DEF Workers
      <3>2. UNCHANGED <<commands, observed, unremoved, idle, latest, loopState, results, shown>>
            /\ turns' \in 0 .. MaxTurns /\ hook' \in 0 .. MaxTurns
        BY <1>1, <2>1 DEF EndTurn
      <3>3. TypeOK
        OBVIOUS
      <3> QED
        BY ONLY <2>3, <3>1, <3>2, <3>3 DEF TypeOK, loopState
    <2>6. UNCHANGED <<calling, queued>> \/ (calling' = "memory" /\ QueueAutomatic)
      <3>1. PICK n : Persist(n) \/ PersistFails(n)
        BY <1>1 DEF EndTurn
      <3> QED
        BY ONLY <3>1 DEF Persist, PersistFails
    <2> QED
      BY <2>4, <2>5, <2>6
  <1>2. CASE ObserveDeadline \/ ForceObserve \/ ForceReflect \/ IdleTransition
    <2>1. commands' \in 0 .. MaxCommands
      <3>1. commands < MaxCommands /\ commands' = commands + 1
        BY <1>2 DEF ObserveDeadline, ForceObserve, ForceReflect, IdleTransition
      <3>2. commands \in 0 .. MaxCommands /\ MaxCommands \in Nat
        BY PostTurnAssumption DEF TypeOK
      <3> QED
        BY ONLY <3>1, <3>2
    <2>2. /\ calling' \in Workers \cup {NoWorker}
          /\ idle' \in BOOLEAN
      BY <1>2 DEF ObserveDeadline, ForceObserve, ForceReflect, IdleTransition, TypeOK, Workers
    <2>3. \/ QueueAutomatic
          \/ queued' = [queued EXCEPT !.mem = TRUE, !.observe = "forced"]
          \/ queued' = [queued EXCEPT !.mem = TRUE, !.reflect = TRUE]
      BY <1>2 DEF ObserveDeadline, ForceObserve, ForceReflect, IdleTransition
    <2>4. UNCHANGED <<hook, turns, context, files, latest, loopState, results, shown>>
      BY <1>2 DEF ObserveDeadline, ForceObserve, ForceReflect, IdleTransition
    <2>5. TypeOK
      OBVIOUS
    <2> QED
      BY ONLY <2>1, <2>2, <2>3, <2>4, <2>5, QueueTyped DEF TypeOK, loopState
  <1> QED
    BY <1>1, <1>2

LEMMA HookTyped ==
  ASSUME TypeOK, EndOfTurnHook
  PROVE  TypeOK'
  <1>0. hook \in 0 .. MaxTurns /\ hook # 0 /\ MaxTurns \in Nat
    BY PostTurnAssumption DEF EndOfTurnHook, TypeOK
  <1>1. hook \in 1 .. MaxTurns
    BY ONLY <1>0
  <1>2. hook' \in 0 .. MaxTurns
    BY <1>0 DEF EndOfTurnHook
  <1>3. latest' \subseteq 1 .. MaxTurns
    <2>1. latest' \subseteq latest \cup {hook} /\ latest \subseteq 1 .. MaxTurns
      BY DEF EndOfTurnHook, TypeOK
    <2> QED
      BY ONLY <1>1, <2>1
  <1> QED
    BY <1>2, <1>3 DEF EndOfTurnHook, TypeOK, loopState, Workers

\* A task that is spawned gets a name no other task has.
LEMMA SpawnsOne ==
  ASSUME NEW w, Spawn(w)
  PROVE  \E l \in Loops : /\ loop[w][l] = "free"
                          /\ loop' = [loop EXCEPT ![w][l] = "start"]
                          /\ handle' = [handle EXCEPT ![w] = l]
  BY DEF Spawn

LEMMA TriggerTyped ==
  ASSUME TypeOK, Trigger
  PROVE  TypeOK'
  <1>1. calling \in Workers /\ calling' = NoWorker
    BY DEF Trigger, TypeOK
  <1>2. loop' \in [Workers -> [Loops -> Steps]] /\ handle' \in [Workers -> Loops \cup {NoLoop}]
    <2>1. CASE running[calling]
      BY <2>1 DEF Trigger, TypeOK, Steps
    <2>2. CASE ~running[calling]
      <3>1. PICK l \in Loops : /\ loop' = [loop EXCEPT ![calling][l] = "start"]
                               /\ handle' = [handle EXCEPT ![calling] = l]
        BY <2>2, SpawnsOne DEF Trigger
      <3> QED
        BY <1>1, <3>1 DEF TypeOK, Steps
    <2> QED
      BY <2>1, <2>2
  <1>3. running' \in [Workers -> BOOLEAN] /\ pending' \in [Workers -> BOOLEAN]
    BY <1>1 DEF Trigger, TypeOK
  <1> QED
    BY <1>1, <1>2, <1>3 DEF Trigger, TypeOK, Steps

LEMMA ApplyTyped ==
  ASSUME TypeOK, ApplyResult
  PROVE  TypeOK'
  <1>1. results \in Seq(Result) /\ results # <<>> /\ context \in Seq(Item)
    BY DEF ApplyResult, ApplyObservation, ApplyIdle, ApplyOther, TypeOK
  <1>2. Head(results) \in Result /\ results' \in Seq(Result)
    BY <1>1 DEF ApplyResult
  <1>3. context' \in Seq(Item)
    <2>1. CASE ApplyObservation
      BY <1>1, <2>1, RotatedTyped DEF ApplyObservation
    <2>2. CASE ApplyIdle
      BY <2>2 DEF ApplyIdle
    <2>3. CASE ApplyOther
      <3>1. CASE context' = Append(context, Note(Head(results).of)) /\ Head(results).kind = "notes"
        <4>1. Head(results).of \in 1 .. MaxTurns
          BY <1>2, <3>1 DEF Result
        <4>2. Note(Head(results).of) \in Item
          BY <4>1 DEF Note, Item
        <4> QED
          BY <1>1, <3>1, <4>2
      <3> QED
        BY <1>1, <2>3, <3>1 DEF ApplyOther
    <2> QED
      BY <2>1, <2>2, <2>3 DEF ApplyResult
  <1> QED
    BY <1>2, <1>3 DEF ApplyResult, TypeOK, loopState

LEMMA ShutdownTyped ==
  ASSUME TypeOK, NEW w \in Workers, Shutdown(w) \/ ShutdownReturns(w)
  PROVE  TypeOK'
  <1>1. CASE Shutdown(w)
    BY <1>1 DEF Shutdown, TypeOK
  <1>2. CASE ShutdownReturns(w)
    <2>1. loop' \in [Workers -> [Loops -> Steps]] /\ work' \in [Workers -> [Loops -> Work]]
      <3>1. CASE handle[w] = NoLoop \/ loop[w][handle[w]] = "free"
        BY <1>2, <3>1 DEF ShutdownReturns, TypeOK, Steps
      <3>2. CASE ~(handle[w] = NoLoop \/ loop[w][handle[w]] = "free")
        <4>1. PICK l \in Loops : l = handle[w]
          BY <3>2 DEF TypeOK
        <4>2. loop' = [loop EXCEPT ![w][l] = "free"] /\ work' = [work EXCEPT ![w][l] = NoCycle]
          BY <1>2, <3>2, <4>1 DEF ShutdownReturns
        <4> QED
          BY <4>2, NoCycleTyped, WorkTyped DEF TypeOK, Steps
      <3> QED
        BY <3>1, <3>2
    <2>2. handle' \in [Workers -> Loops \cup {NoLoop}]
      BY <1>2 DEF ShutdownReturns, TypeOK
    <2> QED
      BY <1>2, <2>1, <2>2 DEF ShutdownReturns, TypeOK, Steps
  <1> QED
    BY <1>1, <1>2

LEMMA ElementsTyped ==
  ASSUME NEW S, NEW s \in Seq(S)
  PROVE  ToSet(s) \subseteq S
  BY DEF ToSet

\* What is left of a sequence when its first n elements are taken.
LEMMA RestOf ==
  ASSUME NEW S, NEW s \in Seq(S), NEW n \in Nat
  PROVE  /\ SubSeq(s, n + 1, Len(s)) \in Seq(S)
         /\ n <= Len(s) => Len(SubSeq(s, n + 1, Len(s))) = Len(s) - n
         /\ \A k \in 1 .. Len(s) - n : SubSeq(s, n + 1, Len(s))[k] = s[n + k]
  <1>1. /\ Len(s) \in Nat /\ n + 1 \in Int /\ Len(s) \in Int
        /\ \A i \in n + 1 .. Len(s) : s[i] \in S
    OBVIOUS
  <1>2. /\ SubSeq(s, n + 1, Len(s)) \in Seq(S)
        /\ Len(SubSeq(s, n + 1, Len(s))) =
              IF n + 1 <= Len(s) THEN Len(s) - (n + 1) + 1 ELSE 0
        /\ \A i \in 1 .. Len(s) - (n + 1) + 1 :
              SubSeq(s, n + 1, Len(s))[i] = s[n + 1 + i - 1]
    BY <1>1, SubSeqProperties
  <1> QED
    BY ONLY <1>1, <1>2, n \in Nat

\* What of the memory worker's cycle is typed as it works.
LEMMA MemoryStepTyped ==
  ASSUME TypeOK, NEW l \in Loops,
         TakeMemoryWork(l) \/ Observe(l) \/ RemoveObserved(l) \/ ReportMemoryWork(l)
  PROVE  TypeOK'
  <1>0. LoopsTyped /\ "memory" \in Workers /\ work["memory"][l] \in Work /\ recent \in Seq(1 .. MaxTurns)
    BY DEF TypeOK, LoopsTyped, Steps, Workers
  <1>1. CASE TakeMemoryWork(l)
    <2>1. /\ queued' \in [observe : {"none", "automatic", "forced"}, reflect : BOOLEAN,
                          mem : BOOLEAN]
          /\ queued'.mem <=> (queued'.observe # "none" \/ queued'.reflect)
      BY <1>1 DEF TakeMemoryWork, NoWork
    <2>2. LoopsTyped'
      BY <1>0, <1>1, GotoTyped DEF TakeMemoryWork, Steps
    <2>3. work' \in [Workers -> [Loops -> Work]]
      <3>1. CASE queued.mem
        <4> DEFINE c == [NoCycle EXCEPT !.reflect = queued.reflect,
                                        !.loaded = IF queued.observe = "none" THEN <<>> ELSE recent]
        <4>1. c \in Work
          <5>1. queued.reflect \in BOOLEAN
            BY DEF TypeOK
          <5>0. <<>> \in Seq(1 .. MaxTurns) /\ recent \in Seq(1 .. MaxTurns)
            BY <1>0
          <5>2. PICK s \in Seq(1 .. MaxTurns) : s = IF queued.observe = "none" THEN <<>> ELSE recent
            BY ONLY <5>0
          <5>3. c = [NoCycle EXCEPT !.reflect = queued.reflect, !.loaded = s]
            BY <5>2
          <5> HIDE DEF c
          <5> QED
            BY <5>1, <5>3, NoCycleTyped, CycleTyped
        <4>2. work' = [work EXCEPT !["memory"][l] = c]
          BY <1>1, <3>1 DEF TakeMemoryWork
        <4> HIDE DEF c
        <4> QED
          BY <1>0, <4>1, <4>2, WorkTyped DEF TypeOK
      <3>2. CASE ~queued.mem
        BY <1>1, <3>2 DEF TakeMemoryWork, TypeOK
      <3> QED
        BY <3>1, <3>2
    <2> QED
      BY <1>1, <2>1, <2>2, <2>3 DEF TakeMemoryWork, TypeOK, LoopsTyped, Steps
  <1>2. CASE Observe(l)
    <2>1. PICK c \in Seq(1 .. MaxTurns) : c = work["memory"][l].loaded
      BY <1>0 DEF Work
    <2>2. ToSet(c) \subseteq 1 .. MaxTurns
      BY ElementsTyped
    <2>3. observed' \subseteq 1 .. MaxTurns
      BY <1>2, <2>1, <2>2 DEF Observe, TypeOK
    <2>4. work' \in [Workers -> [Loops -> Work]]
      <3>1. PICK w \in Work : w = [work["memory"][l] EXCEPT !.merged = TRUE]
        BY <1>0, CycleTyped
      <3>2. work' = work \/ work' = [work EXCEPT !["memory"][l] = w]
        BY <1>2, <3>1 DEF Observe
      <3> QED
        BY <1>0, <3>2, WorkTyped DEF TypeOK
    <2>5. LoopsTyped'
      BY <1>0, <1>2, GotoTyped DEF Observe, Steps
    <2> QED
      BY <1>2, <2>3, <2>4, <2>5 DEF Observe, TypeOK, LoopsTyped, Steps
  <1>3. CASE RemoveObserved(l)
    <2>1. PICK c \in Seq(1 .. MaxTurns) : c = work["memory"][l].loaded
      BY <1>0 DEF Work
    <2>2. ToSet(c) \subseteq 1 .. MaxTurns /\ Len(c) \in Nat
      <3>1. Len(c) \in Nat
        OBVIOUS
      <3> QED
        BY <3>1, ElementsTyped
    <2>3. recent' \in Seq(1 .. MaxTurns) /\ unremoved' \subseteq 1 .. MaxTurns
      <3>1. CASE RemoveLoaded(l)
        <4>1. recent' = SubSeq(recent, Len(c) + 1, Len(recent)) /\ unremoved' = unremoved
          BY <2>1, <3>1 DEF RemoveLoaded
        <4> QED
          BY <1>0, <2>2, <4>1, RestOf DEF TypeOK
      <3>2. CASE RemovalFails(l)
        BY <2>1, <2>2, <3>2 DEF RemovalFails, TypeOK
      <3> QED
        BY <1>3, <3>1, <3>2 DEF RemoveObserved
    <2>4. LoopsTyped'
      BY <1>0, <1>3, GotoTyped DEF RemoveObserved, Steps
    <2> QED
      BY <1>3, <2>3, <2>4 DEF RemoveObserved, TypeOK, LoopsTyped, Steps
  <1>4. CASE ReportMemoryWork(l)
    <2>1. LoopsTyped'
      BY <1>0, <1>4, GotoTyped DEF ReportMemoryWork, Steps
    <2>2. work' \in [Workers -> [Loops -> Work]]
      BY <1>0, <1>4, NoCycleTyped, WorkTyped DEF ReportMemoryWork, TypeOK
    <2>3. results' \in Seq(Result)
      <3>0. results \in Seq(Result)
        BY DEF TypeOK
      <3>1. \/ results' = results
            \/ \E k \in {"observation", "idle", "reflection"} :
                  results' = Append(results, [kind |-> k, of |-> 0])
        BY <1>4 DEF ReportMemoryWork
      <3>2. \A k \in {"observation", "idle", "reflection"} : [kind |-> k, of |-> 0] \in Result
        BY DEF Result
      <3> QED
        BY ZenonT(60), <3>0, <3>1, <3>2, AppendProperties
    <2> QED
      BY <1>4, <2>1, <2>2, <2>3 DEF ReportMemoryWork, TypeOK, LoopsTyped, Steps
  <1> QED
    BY <1>1, <1>2, <1>3, <1>4

LEMMA SubconsciousStepTyped ==
  ASSUME TypeOK, NEW l \in Loops, TakeTurns(l) \/ Evaluate(l)
  PROVE  TypeOK'
  <1>0. LoopsTyped /\ "subconscious" \in Workers /\ work["subconscious"][l] \in Work
    BY DEF TypeOK, LoopsTyped, Steps, Workers
  <1>1. CASE TakeTurns(l)
    <2>1. LoopsTyped'
      BY <1>0, <1>1, GotoTyped DEF TakeTurns, Steps
    <2> DEFINE c == [NoCycle EXCEPT !.turns = latest]
    <2>2. c \in Work
      BY NoCycleTyped, CycleTyped DEF TypeOK
    <2>3. work' = [work EXCEPT !["subconscious"][l] = c]
      BY <1>1 DEF TakeTurns
    <2> HIDE DEF c
    <2>4. work' \in [Workers -> [Loops -> Work]]
      BY <1>0, <2>2, <2>3, WorkTyped DEF TypeOK
    <2> QED
      BY <1>1, <2>1, <2>4 DEF TakeTurns, TypeOK, LoopsTyped, Steps
  <1>2. CASE Evaluate(l)
    <2>1. LoopsTyped'
      BY <1>0, <1>2, GotoTyped DEF Evaluate, Steps
    <2>2. results' \in Seq(Result)
      <3>0. results \in Seq(Result)
        BY DEF TypeOK
      <3>1. \/ results' = results
            \/ \E n \in 1 .. MaxTurns : results' = Append(results, [kind |-> "notes", of |-> n])
        BY <1>0, <1>2 DEF Evaluate, Work
      <3>2. \A n \in 1 .. MaxTurns : [kind |-> "notes", of |-> n] \in Result
        BY DEF Result
      <3> QED
        BY ZenonT(60), <3>0, <3>1, <3>2, AppendProperties
    <2>3. work' \in [Workers -> [Loops -> Work]]
      BY <1>0, <1>2, NoCycleTyped, WorkTyped DEF Evaluate, TypeOK
    <2> QED
      BY <1>2, <2>1, <2>2, <2>3 DEF Evaluate, TypeOK, LoopsTyped, Steps
  <1> QED
    BY <1>1, <1>2

LEMMA LoopStepTyped ==
  ASSUME TypeOK, NEW w \in Workers, NEW l \in Loops,
         LoopStarts(w, l) \/ OwesAnotherCycle(w, l) \/ LoopEnds(w, l)
  PROVE  TypeOK'
  <1>0. LoopsTyped
    BY DEF TypeOK, LoopsTyped, Steps
  <1>1. CASE LoopStarts(w, l)
    <2>1. LoopsTyped'
      BY <1>0, <1>1, GotoTyped DEF LoopStarts, Steps
    <2> QED
      BY <1>1, <2>1 DEF LoopStarts, TypeOK, LoopsTyped, Steps
  <1>2. CASE OwesAnotherCycle(w, l)
    <2>1. LoopsTyped'
      BY <1>0, <1>2, GotoTyped DEF OwesAnotherCycle, Steps
    <2>2. running' \in [Workers -> BOOLEAN] /\ pending' \in [Workers -> BOOLEAN]
      BY <1>2 DEF OwesAnotherCycle, TypeOK
    <2> QED
      BY <1>2, <2>1, <2>2 DEF OwesAnotherCycle, TypeOK, LoopsTyped, Steps
  <1>3. CASE LoopEnds(w, l)
    <2>1. LoopsTyped'
      BY <1>0, <1>3, GotoTyped DEF LoopEnds, Steps
    <2> QED
      BY <1>3, <2>1 DEF LoopEnds, TypeOK, LoopsTyped, Steps
  <1> QED
    BY <1>1, <1>2, <1>3

\* TypeOK for every instance: among others that the memory worker's queue never holds
\* work without the snapshot run_one_cycle takes it by.
THEOREM TypeCorrect == Spec => []TypeOK
  <1>1. ASSUME TypeOK, [Next]_vars PROVE TypeOK'
    <2>1. CASE UNCHANGED vars
      BY <1>1, <2>1 DEF vars, loopState, TypeOK
    <2>2. ASSUME NEW w \in Workers, NEW l \in Loops, LoopStep(w, l) PROVE TypeOK'
      BY <1>1, <2>2, MemoryStepTyped, SubconsciousStepTyped, LoopStepTyped DEF LoopStep
    <2> QED
      BY <1>1, <2>1, <2>2, QueueStepTyped, HookTyped, TriggerTyped, ApplyTyped, ShutdownTyped DEF Next
  <1> QED
    BY <1>1, InitTyped, PTL DEF Spec
-----------------------------------------------------------------------------
(* One cycle of a worker at a time.                                        *)

Busy == {"start", "take", "work", "remove", "report", "owes"}

\* The shutdown begins when the event loop has nothing left to trigger.
NothingCalled == cancelled # {} => hook = 0 /\ calling = NoWorker

\* The loop in a cycle is the one the coalescer spawned last and calls running.
OnlyCycle(w) ==
    /\ running[w] /\ w \notin stopped => handle[w] \in Loops
    /\ \A l \in Loops : loop[w][l] \in Busy <=> running[w] /\ w \notin stopped /\ l = handle[w]

CycleInv == TypeOK /\ NothingCalled /\ \A w \in Workers : OnlyCycle(w)

LEMMA CycleInvInit == Init => CycleInv
  <1> SUFFICES ASSUME Init PROVE CycleInv
    OBVIOUS
  <1>1. NothingCalled /\ \A w \in Workers : OnlyCycle(w)
    BY DEF Init, NothingCalled, OnlyCycle, Busy
  <1> QED
    BY <1>1, InitTyped DEF CycleInv

\* A step that leaves the coalescers and the run loops alone.
LEMMA CycleAside ==
  ASSUME CycleInv, TypeOK', UNCHANGED <<running, handle, stopped, loop>>, NothingCalled'
  PROVE  CycleInv'
  BY DEF CycleInv, OnlyCycle

\* A step of one run loop that stays in its cycle or stays out of it.
LEMMA CycleGoes ==
  ASSUME CycleInv, TypeOK', UNCHANGED <<hook, calling, running, handle, cancelled, stopped>>,
         NEW w \in Workers, NEW l \in Loops, NEW s \in Steps, Goto(w, l, s),
         loop[w][l] \in Busy <=> s \in Busy
  PROVE  CycleInv'
  <1>1. /\ loop'[w][l] = s
        /\ \A v \in Workers, k \in Loops : v # w \/ k # l => loop'[v][k] = loop[v][k]
    BY GotoTyped DEF CycleInv, TypeOK, LoopsTyped, Steps
  <1>2. ASSUME NEW v \in Workers PROVE OnlyCycle(v)'
    <2>1. OnlyCycle(v)
      BY DEF CycleInv
    <2>2. \A k \in Loops : loop'[v][k] \in Busy <=> loop[v][k] \in Busy
      BY <1>1
    <2> QED
      BY <2>1, <2>2 DEF OnlyCycle
  <1> QED
    BY <1>2 DEF CycleInv, NothingCalled

LEMMA CycleTrigger ==
  ASSUME CycleInv, Trigger
  PROVE  CycleInv'
  <1>0. TypeOK /\ TypeOK' /\ calling \in Workers /\ cancelled = {} /\ stopped = {}
    BY TriggerTyped DEF CycleInv, NothingCalled, Trigger, TypeOK
  <1>1. NothingCalled' /\ stopped' = stopped
    BY <1>0 DEF NothingCalled, Trigger
  <1>2. CASE running[calling]
    BY <1>0, <1>1, <1>2, CycleAside DEF Trigger
  <1>3. CASE ~running[calling]
    <2>1. PICK l \in Loops : /\ loop[calling][l] = "free"
                             /\ loop' = [loop EXCEPT ![calling][l] = "start"]
                             /\ handle' = [handle EXCEPT ![calling] = l]
      BY <1>3, SpawnsOne DEF Trigger
    <2>2. running' = [running EXCEPT ![calling] = TRUE]
      BY <1>3 DEF Trigger
    <2>3. ASSUME NEW v \in Workers PROVE OnlyCycle(v)'
      <3>1. OnlyCycle(v)
        BY DEF CycleInv
      <3>2. CASE v = calling
        <4>1. running'[v] /\ handle'[v] = l /\ \A k \in Loops : k # l => loop'[v][k] = loop[v][k]
          BY <1>0, <2>1, <2>2, <3>2 DEF TypeOK
        <4>2. loop'[v][l] = "start"
          BY <1>0, <2>1, <3>2 DEF TypeOK
        <4> QED
          BY <1>0, <1>1, <1>3, <3>1, <3>2, <4>1, <4>2 DEF OnlyCycle, Busy
      <3>3. CASE v # calling
        <4>1. running'[v] = running[v] /\ handle'[v] = handle[v] /\ loop'[v] = loop[v]
          BY <1>0, <2>1, <2>2, <3>3 DEF TypeOK
        <4> QED
          BY <1>1, <3>1, <4>1 DEF OnlyCycle
      <3> QED
        BY <3>2, <3>3
    <2> QED
      BY <1>0, <1>1, <2>3 DEF CycleInv
  <1> QED
    BY <1>2, <1>3

LEMMA CycleShutdown ==
  ASSUME CycleInv, NEW w \in Workers, ShutdownReturns(w)
  PROVE  CycleInv'
  <1>0. TypeOK /\ TypeOK' /\ stopped' = stopped \cup {w}
    BY ShutdownTyped DEF CycleInv, ShutdownReturns
  <1>1. ASSUME NEW l \in Loops PROVE loop'[w][l] \notin Busy
    <2>1. OnlyCycle(w)
      BY DEF CycleInv
    <2>2. CASE handle[w] = NoLoop \/ loop[w][handle[w]] = "free"
      <3>1. loop' = loop /\ handle[w] \notin {k \in Loops : loop[w][k] \in Busy}
        BY <2>2, PostTurnAssumption DEF ShutdownReturns, Busy
      <3> QED
        BY <2>1, <3>1 DEF OnlyCycle
    <2>3. CASE ~(handle[w] = NoLoop \/ loop[w][handle[w]] = "free")
      <3>1. PICK k \in Loops : k = handle[w]
        BY <1>0, <2>3 DEF TypeOK
      <3>2. loop' = [loop EXCEPT ![w][k] = "free"]
        BY <2>3, <3>1 DEF ShutdownReturns
      <3>3. loop'[w][k] = "free" /\ (l # k => loop'[w][l] = loop[w][l])
        BY <1>0, <3>2 DEF TypeOK
      <3>4. l # k => loop[w][l] \notin Busy
        BY <2>1, <3>1 DEF OnlyCycle
      <3> QED
        BY <3>3, <3>4 DEF Busy
    <2> QED
      BY <2>2, <2>3
  <1>2. ASSUME NEW v \in Workers, v # w PROVE OnlyCycle(v)'
    <2>1. OnlyCycle(v) /\ running'[v] = running[v]
      BY DEF CycleInv, ShutdownReturns
    <2>2. handle'[v] = handle[v] /\ loop'[v] = loop[v]
      BY <1>0, <1>2 DEF ShutdownReturns, TypeOK
    <2> QED
      BY <1>0, <1>2, <2>1, <2>2 DEF OnlyCycle
  <1>3. OnlyCycle(w)'
    BY <1>0, <1>1 DEF OnlyCycle
  <1>4. NothingCalled'
    BY DEF CycleInv, NothingCalled, ShutdownReturns
  <1> QED
    BY <1>0, <1>2, <1>3, <1>4 DEF CycleInv

LEMMA CycleOwes ==
  ASSUME CycleInv, NEW w \in Workers, NEW l \in Loops, OwesAnotherCycle(w, l)
  PROVE  CycleInv'
  <1>0. TypeOK /\ TypeOK'
    BY LoopStepTyped DEF CycleInv
  <1>1. CASE pending[w] /\ w \notin cancelled
    <2>1. Goto(w, l, "take") /\ UNCHANGED <<hook, calling, running, handle, cancelled, stopped>>
      BY <1>1 DEF OwesAnotherCycle
    <2> QED
      BY <1>0, <2>1, CycleGoes DEF OwesAnotherCycle, At, Busy, Steps
  <1>2. CASE ~(pending[w] /\ w \notin cancelled)
    <2>1. /\ Goto(w, l, "tail") /\ running' = [running EXCEPT ![w] = FALSE]
          /\ UNCHANGED <<hook, calling, handle, cancelled, stopped>>
      BY <1>2 DEF OwesAnotherCycle
    <2>2. /\ loop'[w][l] = "tail"
          /\ \A v \in Workers, k \in Loops : v # w \/ k # l => loop'[v][k] = loop[v][k]
      BY <1>0, <2>1, GotoTyped DEF TypeOK, LoopsTyped, Steps
    <2>3. ASSUME NEW v \in Workers PROVE OnlyCycle(v)'
      <3>1. OnlyCycle(v) /\ running'[v] = IF v = w THEN FALSE ELSE running[v]
        BY <1>0, <2>1 DEF CycleInv, TypeOK
      <3>2. v = w => l = handle[v]
        BY <3>1 DEF OnlyCycle, OwesAnotherCycle, At, Busy
      <3>3. \A k \in Loops : loop'[v][k] \in Busy <=> loop[v][k] \in Busy /\ ~(v = w /\ k = l)
        BY <2>2 DEF Busy
      <3> QED
        BY <2>1, <3>1, <3>2, <3>3 DEF OnlyCycle
    <2> QED
      BY <1>0, <2>1, <2>3 DEF CycleInv, NothingCalled
  <1> QED
    BY <1>1, <1>2

LEMMA CycleLoopStep ==
  ASSUME CycleInv, NEW w \in Workers, NEW l \in Loops, LoopStep(w, l)
  PROVE  CycleInv'
  <1>0. TypeOK /\ TypeOK'
    BY MemoryStepTyped, SubconsciousStepTyped, LoopStepTyped DEF LoopStep, CycleInv
  <1> USE DEF At, Busy, Steps
  <1>1. CASE LoopStarts(w, l)
    BY <1>0, <1>1, CycleGoes DEF LoopStarts
  <1>2. CASE w = "memory" /\ TakeMemoryWork(l)
    BY <1>0, <1>2, CycleGoes DEF TakeMemoryWork
  <1>3. CASE w = "memory" /\ Observe(l)
    BY <1>0, <1>3, CycleGoes DEF Observe
  <1>8. CASE w = "memory" /\ RemoveObserved(l)
    BY <1>0, <1>8, CycleGoes DEF RemoveObserved
  <1>4. CASE w = "memory" /\ ReportMemoryWork(l)
    BY <1>0, <1>4, CycleGoes DEF ReportMemoryWork
  <1>5. CASE w = "subconscious" /\ TakeTurns(l)
    BY <1>0, <1>5, CycleGoes DEF TakeTurns
  <1>6. CASE w = "subconscious" /\ Evaluate(l)
    BY <1>0, <1>6, CycleGoes DEF Evaluate
  <1>7. CASE LoopEnds(w, l)
    BY <1>0, <1>7, CycleGoes DEF LoopEnds
  <1> QED
    BY <1>1, <1>2, <1>3, <1>4, <1>5, <1>6, <1>7, <1>8, CycleOwes DEF LoopStep

LEMMA CycleInvStep == CycleInv /\ [Next]_vars => CycleInv'
  <1> SUFFICES ASSUME CycleInv, [Next]_vars PROVE CycleInv'
    OBVIOUS
  <1>0. TypeOK
    BY DEF CycleInv
  <1>1. CASE UNCHANGED vars
    <2>1. TypeOK' /\ NothingCalled'
      BY <1>0, <1>1 DEF vars, loopState, TypeOK, CycleInv, NothingCalled
    <2> QED
      BY <1>1, <2>1, CycleAside DEF vars, loopState
  <1>2. CASE EndTurn \/ ObserveDeadline \/ ForceObserve \/ ForceReflect \/ IdleTransition
    <2>1. cancelled' = {} /\ UNCHANGED <<running, handle, stopped, loop>>
      BY <1>2 DEF EndTurn, ObserveDeadline, ForceObserve, ForceReflect, IdleTransition,
                  EventLoopFree, loopState
    <2> QED
      BY <1>0, <1>2, <2>1, QueueStepTyped, CycleAside DEF NothingCalled
  <1>3. CASE EndOfTurnHook
    <2>1. cancelled = {} /\ UNCHANGED <<running, handle, stopped, loop, cancelled>>
      BY <1>3 DEF EndOfTurnHook, loopState, CycleInv, NothingCalled
    <2> QED
      BY <1>0, <1>3, <2>1, HookTyped, CycleAside DEF NothingCalled
  <1>4. CASE ApplyResult
    BY <1>0, <1>4, ApplyTyped, CycleAside DEF ApplyResult, loopState, CycleInv, NothingCalled
  <1>5. ASSUME NEW w \in Workers, Shutdown(w) PROVE CycleInv'
    BY <1>0, <1>5, ShutdownTyped, CycleAside DEF Shutdown, NothingCalled
  <1> QED
    BY <1>1, <1>2, <1>3, <1>4, <1>5, CycleTrigger, CycleShutdown, CycleLoopStep DEF Next

\* OneCyclePerWorker for every instance: Coalescer::trigger and owes_another_cycle never
\* let two run loops of a worker work at once, and a shutdown leaves none behind.
THEOREM WorkersHaveOneCycle == Spec => []OneCyclePerWorker
  <1>1. CycleInv => OneCyclePerWorker
    <2> SUFFICES ASSUME CycleInv, NEW w \in Workers
                 PROVE  Cardinality(InCycle(w)) = IF running[w] /\ w \notin stopped THEN 1 ELSE 0
      BY DEF OneCyclePerWorker
    <2>1. OnlyCycle(w)
      BY DEF CycleInv
    <2>2. CASE running[w] /\ w \notin stopped
      <3>1. InCycle(w) = {handle[w]}
        BY <2>1, <2>2 DEF InCycle, OnlyCycle, Busy
      <3> QED
        BY <2>2, <3>1, FS_Singleton
    <2>3. CASE ~(running[w] /\ w \notin stopped)
      <3>1. InCycle(w) = {}
        BY <2>1, <2>3 DEF InCycle, OnlyCycle, Busy
      <3> QED
        BY <2>3, <3>1, FS_EmptySet
    <2> QED
      BY <2>2, <2>3
  <1> QED
    BY <1>1, CycleInvInit, CycleInvStep, PTL DEF Spec

-----------------------------------------------------------------------------
(* What becomes of the turns in the file.                                  *)

\* EveryTurnIsHeld, turn by turn.
Held ==
    /\ observed \subseteq 1 .. turns /\ unsaved \subseteq 1 .. turns
    /\ observed \cap unsaved = {}
    /\ \A i \in DOMAIN recent : recent[i] \in 1 .. turns /\ recent[i] \notin unsaved
    /\ \A t \in 1 .. turns : t \in observed \/ t \in unsaved \/ \E i \in DOMAIN recent : recent[i] = t

\* ObservedLeave, turn by turn.
OnTheirWay ==
    "memory" \notin stopped =>
        \A i \in DOMAIN recent : recent[i] \in observed =>
            \/ recent[i] \in unremoved
            \/ \E l \in Loops : /\ loop["memory"][l] = "remove"
                              /\ \E j \in DOMAIN work["memory"][l].loaded :
                                    recent[i] = work["memory"][l].loaded[j]

\* What a cycle loaded still starts the file: turns are only added at its end.
LoadedFirst(l) ==
    LET c == work["memory"][l].loaded IN
    /\ loop["memory"][l] \in {"work", "remove"} =>
          Len(c) <= Len(recent) /\ \A i \in 1 .. Len(c) : c[i] = recent[i]
    /\ loop["memory"][l] = "remove" => \A i \in 1 .. Len(c) : c[i] \in observed

FileInv == Held /\ RecentInOrder /\ ObservedFirst /\ OnTheirWay

ObserveInv == CycleInv /\ FileInv /\ \A l \in Loops : LoadedFirst(l)

\* The elements of a sequence.
LEMMA ElementsOf ==
  ASSUME NEW s
  PROVE  \A x : x \in ToSet(s) <=> \E i \in DOMAIN s : s[i] = x
  BY DEF ToSet

LEMMA FileInvImplies == TypeOK /\ FileInv => NoTurnIsLost
  <1> SUFFICES ASSUME TypeOK, FileInv PROVE NoTurnIsLost
    OBVIOUS
  <1>1. \A x : x \in ToSet(recent) <=> \E i \in DOMAIN recent : recent[i] = x
    BY ElementsOf
  <1>2. EveryTurnIsHeld
    <2>1. Held
      BY DEF FileInv
    <2> QED
      BY <1>1, <2>1 DEF EveryTurnIsHeld, Held
  <1>3. ObservedLeave
    <2> SUFFICES ASSUME "memory" \notin stopped, NEW i \in DOMAIN recent, recent[i] \in observed
                 PROVE  recent[i] \in unremoved \cup Leaving
      BY <1>1 DEF ObservedLeave
    <2>1. \/ recent[i] \in unremoved
          \/ \E l \in Loops : /\ loop["memory"][l] = "remove"
                            /\ \E j \in DOMAIN work["memory"][l].loaded :
                                  recent[i] = work["memory"][l].loaded[j]
      BY DEF FileInv, OnTheirWay
    <2>2. ASSUME NEW l \in Loops, loop["memory"][l] = "remove",
                 NEW j \in DOMAIN work["memory"][l].loaded, recent[i] = work["memory"][l].loaded[j]
          PROVE  recent[i] \in Leaving
      <3>1. recent[i] \in ToSet(work["memory"][l].loaded)
        BY <2>2, ElementsOf
      <3> QED
        BY <2>2, <3>1 DEF Leaving
    <2> QED
      BY <2>1, <2>2
  <1> QED
    BY <1>2, <1>3 DEF FileInv, NoTurnIsLost

\* Two run loops are never in a cycle together.
LEMMA OneInCycle ==
  ASSUME CycleInv, NEW k \in Loops, NEW l \in Loops,
         loop["memory"][k] \in Busy, loop["memory"][l] \in Busy
  PROVE  k = l
  BY DEF CycleInv, OnlyCycle, Workers

LEMMA ObserveInvInit == Init => ObserveInv
  <1> SUFFICES ASSUME Init PROVE ObserveInv
    OBVIOUS
  <1>1. FileInv
    BY DEF Init, FileInv, Held, RecentInOrder, ObservedFirst, OnTheirWay
  <1>2. \A l \in Loops : LoadedFirst(l)
    BY DEF Init, LoadedFirst, Workers
  <1> QED
    BY <1>1, <1>2, CycleInvInit DEF ObserveInv

\* A step that neither writes the files nor brings a loop to its work on them, nor takes
\* one off it unless the memory worker has stopped.
LEMMA ObserveAside ==
  ASSUME ObserveInv, CycleInv', UNCHANGED <<turns, files>>,
         \A l \in Loops : loop'["memory"][l] \in {"work", "remove"} =>
            loop["memory"][l] = loop'["memory"][l] /\ work'["memory"][l] = work["memory"][l],
         "memory" \notin stopped' =>
            /\ "memory" \notin stopped
            /\ \A l \in Loops : loop["memory"][l] = "remove" => loop'["memory"][l] = "remove"
  PROVE  ObserveInv'
  <1>1. Held' /\ RecentInOrder' /\ ObservedFirst'
    BY DEF ObserveInv, FileInv, Held, RecentInOrder, ObservedFirst
  <1>2. OnTheirWay'
    <2> SUFFICES ASSUME "memory" \notin stopped', NEW i \in DOMAIN recent, recent[i] \in observed,
                        recent[i] \notin unremoved
                 PROVE  \E l \in Loops :
                           /\ loop'["memory"][l] = "remove"
                           /\ \E j \in DOMAIN work'["memory"][l].loaded :
                                 recent[i] = work'["memory"][l].loaded[j]
      BY DEF OnTheirWay
    <2>1. PICK l \in Loops : /\ loop["memory"][l] = "remove"
                             /\ \E j \in DOMAIN work["memory"][l].loaded :
                                   recent[i] = work["memory"][l].loaded[j]
      BY DEF ObserveInv, FileInv, OnTheirWay
    <2>2. loop'["memory"][l] = "remove" /\ work'["memory"][l] = work["memory"][l]
      BY <2>1
    <2> QED
      BY <2>1, <2>2
  <1>3. ASSUME NEW l \in Loops PROVE LoadedFirst(l)'
    BY DEF ObserveInv, LoadedFirst
  <1> QED
    BY <1>1, <1>2, <1>3 DEF ObserveInv, FileInv

LEMMA ObserveEndTurn ==
  ASSUME ObserveInv, CycleInv', EndTurn
  PROVE  ObserveInv'
  <1>0. /\ turns \in Nat /\ turns < MaxTurns /\ MaxTurns \in Nat
        /\ recent \in Seq(1 .. MaxTurns) /\ turns' = turns + 1
        /\ UNCHANGED <<observed, unremoved, loop, work, stopped>>
    BY PostTurnAssumption DEF ObserveInv, CycleInv, TypeOK, EndTurn, loopState
  <1>1. PICK n \in 1 .. MaxTurns : n = turns + 1
    BY <1>0
  <1>2. PICK m \in Nat : m = Len(recent) /\ DOMAIN recent = 1 .. m
    BY <1>0
  <1>3. /\ \A i \in 1 .. m : recent'[i] = recent[i]
        /\ \/ /\ DOMAIN recent' = 1 .. m + 1 /\ recent'[m + 1] = n /\ Len(recent') = m + 1
              /\ unsaved' = unsaved
           \/ /\ DOMAIN recent' = 1 .. m /\ Len(recent') = m
              /\ unsaved' = unsaved \cup {n}
    <2>1. \/ recent' = Append(recent, n) /\ unsaved' = unsaved
          \/ recent' = recent /\ unsaved' = unsaved \cup {n}
      BY <1>1 DEF EndTurn, Persist, PersistFails
    <2>2. CASE recent' = Append(recent, n) /\ unsaved' = unsaved
      <3>1. /\ Len(Append(recent, n)) = m + 1 /\ DOMAIN Append(recent, n) = 1 .. m + 1
            /\ Append(recent, n)[m + 1] = n
            /\ \A i \in 1 .. m : Append(recent, n)[i] = recent[i]
        BY ONLY <1>0, <1>2, n \in 1 .. MaxTurns
      <3> QED
        BY ONLY <2>2, <3>1
    <2> QED
      BY <1>2, <2>1, <2>2
  <1>4. Held /\ RecentInOrder /\ ObservedFirst /\ OnTheirWay
    BY DEF ObserveInv, FileInv
  <1>5. Held'
    <2>0. /\ observed \subseteq 1 .. turns /\ unsaved \subseteq 1 .. turns /\ observed \cap unsaved = {}
          /\ \A i \in 1 .. m : recent[i] \in 1 .. turns /\ recent[i] \notin unsaved
      BY <1>2, <1>4 DEF Held
    <2>a. /\ turns \in Nat /\ turns' = n /\ n = turns + 1 /\ observed' = observed
          /\ (unsaved' = unsaved \/ unsaved' = unsaved \cup {n})
      BY <1>0, <1>1, <1>3
    <2>b. n \notin 1 .. turns /\ 1 .. turns \subseteq 1 .. n /\ n \in 1 .. n
      BY ONLY <2>a
    <2>1. observed' \subseteq 1 .. turns' /\ unsaved' \subseteq 1 .. turns' /\ observed' \cap unsaved' = {}
      BY ONLY <2>0, <2>a, <2>b
    <2>2. ASSUME NEW i \in DOMAIN recent'
          PROVE  recent'[i] \in 1 .. turns' /\ recent'[i] \notin unsaved'
      <3>1. CASE i \in 1 .. m
        <4>1. recent'[i] \in 1 .. turns /\ recent'[i] \notin unsaved
          BY <1>3, <2>0, <3>1
        <4> QED
          BY ONLY <2>a, <2>b, <4>1
      <3>2. CASE i \notin 1 .. m
        <4>1. recent'[i] = n /\ unsaved' = unsaved
          <5>1. i \in 1 .. m + 1 /\ i = m + 1
            BY <1>3, <3>2
          <5> QED
            BY <1>3, <3>2, <5>1
        <4> QED
          BY ONLY <2>0, <2>a, <2>b, <4>1
      <3> QED
        BY <3>1, <3>2
    <2>3. ASSUME NEW t \in 1 .. turns'
          PROVE  t \in observed' \/ t \in unsaved' \/ \E i \in DOMAIN recent' : recent'[i] = t
      <3>1. t \in 1 .. turns \/ t = n
        BY <1>0, <1>1
      <3>2. CASE t = n
        BY <1>2, <1>3, <3>2
      <3>3. CASE t \in 1 .. turns
        <4>1. t \in observed \/ t \in unsaved \/ \E i \in 1 .. m : recent[i] = t
          BY <1>2, <1>4, <3>3 DEF Held
        <4>2. CASE t \in observed \/ t \in unsaved
          BY <2>a, <4>2
        <4>3. ASSUME NEW i \in 1 .. m, recent[i] = t
              PROVE  \E k \in DOMAIN recent' : recent'[k] = t
          BY <1>3, <4>3
        <4> QED
          BY <4>1, <4>2, <4>3
      <3> QED
        BY <3>1, <3>2, <3>3
    <2> QED
      BY <2>1, <2>2, <2>3 DEF Held
  <1>6. RecentInOrder'
    <2> SUFFICES ASSUME NEW i \in DOMAIN recent', NEW j \in DOMAIN recent', i < j
                 PROVE  recent'[i] < recent'[j]
      BY DEF RecentInOrder
    <2>1. i \in 1 .. m /\ (j \in 1 .. m \/ (j = m + 1 /\ recent'[j] = n))
      BY <1>2, <1>3
    <2>2. recent'[i] = recent[i] /\ recent[i] \in 1 .. turns
      BY <1>2, <1>3, <1>4, <2>1 DEF Held
    <2>3. CASE j \in 1 .. m
      BY <1>2, <1>3, <1>4, <2>1, <2>3 DEF RecentInOrder
    <2> QED
      BY <1>0, <1>1, <2>1, <2>2, <2>3
  <1>7. ObservedFirst'
    <2> SUFFICES ASSUME NEW i \in DOMAIN recent', recent'[i] \notin observed, NEW t \in observed
                 PROVE  t < recent'[i]
      BY <1>0 DEF ObservedFirst
    <2>1. i \in 1 .. m \/ recent'[i] = n
      BY <1>2, <1>3
    <2>2. t \in 1 .. turns
      BY <1>4 DEF Held
    <2>3. CASE i \in 1 .. m
      BY <1>2, <1>3, <1>4, <2>3 DEF ObservedFirst
    <2> QED
      BY <1>0, <1>1, <2>1, <2>2, <2>3
  <1>8. OnTheirWay'
    <2>1. ASSUME NEW i \in DOMAIN recent', recent'[i] \in observed
          PROVE  i \in DOMAIN recent /\ recent'[i] = recent[i]
      <3>1. observed \subseteq 1 .. turns /\ n \notin 1 .. turns
        BY <1>0, <1>1, <1>4 DEF Held
      <3> QED
        BY <1>2, <1>3, <2>1, <3>1
    <2>2. ASSUME "memory" \notin stopped, NEW i \in DOMAIN recent', recent'[i] \in observed
          PROVE  \/ recent'[i] \in unremoved
                 \/ \E l \in Loops : /\ loop["memory"][l] = "remove"
                                   /\ \E j \in DOMAIN work["memory"][l].loaded :
                                         recent'[i] = work["memory"][l].loaded[j]
      BY <1>4, <2>1, <2>2 DEF OnTheirWay
    <2> QED
      BY <1>0, <2>2 DEF OnTheirWay
  <1>9. ASSUME NEW l \in Loops PROVE LoadedFirst(l)'
    <2>0. work["memory"][l] \in Work
      BY DEF ObserveInv, CycleInv, TypeOK, Workers
    <2>1. PICK c \in Seq(1 .. MaxTurns) : c = work["memory"][l].loaded
      BY <2>0 DEF Work
    <2>2. PICK d \in Nat : d = Len(c)
      OBVIOUS
    <2>3. /\ loop["memory"][l] \in {"work", "remove"} =>
                d <= m /\ \A i \in 1 .. d : c[i] = recent[i]
          /\ loop["memory"][l] = "remove" => \A i \in 1 .. d : c[i] \in observed
      BY <1>2, <2>1, <2>2 DEF ObserveInv, LoadedFirst
    <2>4. loop["memory"][l] \in {"work", "remove"} =>
             d <= Len(recent') /\ \A i \in 1 .. d : c[i] = recent'[i]
      BY <1>3, <2>3
    <2> QED
      BY <1>0, <2>1, <2>2, <2>3, <2>4 DEF LoadedFirst
  <1> QED
    BY <1>5, <1>6, <1>7, <1>8, <1>9 DEF ObserveInv, FileInv

\* A cycle begins with all the file holds, or with nothing of it.
LEMMA ObserveTake ==
  ASSUME ObserveInv, CycleInv', NEW l \in Loops, TakeMemoryWork(l)
  PROVE  ObserveInv'
  <1>0. /\ LoopsTyped /\ "memory" \in Workers /\ UNCHANGED <<turns, files, stopped>>
        /\ recent \in Seq(1 .. MaxTurns) /\ work \in [Workers -> [Loops -> Work]]
        /\ loop["memory"][l] = "take"
    BY DEF ObserveInv, CycleInv, TypeOK, LoopsTyped, Steps, Workers, TakeMemoryWork, At
  <1>1. CASE ~queued.mem
    <2>1. Goto("memory", l, "owes") /\ work' = work
      BY <1>1 DEF TakeMemoryWork
    <2>2. loop'["memory"][l] = "owes" /\ \A k \in Loops : k # l => loop'["memory"][k] = loop["memory"][k]
      BY <1>0, <2>1, GotoTyped DEF Steps
    <2> QED
      BY <1>0, <2>1, <2>2, ObserveAside
  <1>2. CASE queued.mem
    <2> DEFINE c == [NoCycle EXCEPT !.reflect = queued.reflect,
                                    !.loaded = IF queued.observe = "none" THEN <<>> ELSE recent]
    <2>1. Goto("memory", l, "work") /\ work' = [work EXCEPT !["memory"][l] = c]
      BY <1>2 DEF TakeMemoryWork
    <2>2. c.loaded \in {<<>>, recent}
      BY DEF NoCycle
    <2> HIDE DEF c
    <2>3. work'["memory"][l] = c /\ \A k \in Loops : k # l => work'["memory"][k] = work["memory"][k]
      BY <1>0, <2>1
    <2>4. /\ loop'["memory"][l] = "work"
          /\ \A k \in Loops : k # l => loop'["memory"][k] = loop["memory"][k]
      BY <1>0, <2>1, GotoTyped DEF Steps
    <2>5. Held' /\ RecentInOrder' /\ ObservedFirst'
      BY <1>0 DEF ObserveInv, FileInv, Held, RecentInOrder, ObservedFirst
    <2>6. OnTheirWay'
      <3>1. \A k \in Loops : loop["memory"][k] = "remove" =>
               loop'["memory"][k] = "remove" /\ work'["memory"][k] = work["memory"][k]
        BY <1>0, <2>3, <2>4
      <3>2. OnTheirWay
        BY DEF ObserveInv, FileInv
      <3> QED
        BY <1>0, <3>1, <3>2 DEF OnTheirWay
    <2>7. ASSUME NEW k \in Loops PROVE LoadedFirst(k)'
      <3>1. CASE k # l
        BY <1>0, <2>3, <2>4, <3>1 DEF ObserveInv, LoadedFirst
      <3>2. CASE k = l
        BY <1>0, <2>2, <2>3, <2>4, <3>2 DEF LoadedFirst
      <3> QED
        BY <3>1, <3>2
    <2> QED
      BY <2>5, <2>6, <2>7 DEF ObserveInv, FileInv
  <1> QED
    BY <1>1, <1>2

\* The cycle at work on the files: what it loaded, and that no other is.
LEMMA AtWork ==
  ASSUME ObserveInv, NEW l \in Loops, loop["memory"][l] \in {"work", "remove"}
  PROVE  \E c \in Seq(1 .. MaxTurns), d \in Nat, m \in Nat :
            /\ c = work["memory"][l].loaded /\ d = Len(c) /\ DOMAIN c = 1 .. d
            /\ m = Len(recent) /\ DOMAIN recent = 1 .. m
            /\ d <= m /\ \A i \in 1 .. d : c[i] = recent[i]
            /\ loop["memory"][l] = "remove" => \A i \in 1 .. d : c[i] \in observed
            /\ \A x : x \in ToSet(c) <=> \E i \in 1 .. d : recent[i] = x
            /\ \A k \in Loops : loop["memory"][k] \in {"work", "remove"} => k = l
  <1>1. recent \in Seq(1 .. MaxTurns) /\ work["memory"][l] \in Work
    BY DEF ObserveInv, CycleInv, TypeOK, Workers
  <1>2. PICK c \in Seq(1 .. MaxTurns) : c = work["memory"][l].loaded
    BY <1>1 DEF Work
  <1>3. PICK d \in Nat : d = Len(c) /\ DOMAIN c = 1 .. d
    OBVIOUS
  <1>4. PICK m \in Nat : m = Len(recent) /\ DOMAIN recent = 1 .. m
    BY <1>1
  <1>5. /\ d <= m /\ \A i \in 1 .. d : c[i] = recent[i]
        /\ loop["memory"][l] = "remove" => \A i \in 1 .. d : c[i] \in observed
    BY <1>2, <1>3, <1>4 DEF ObserveInv, LoadedFirst
  <1>6. \A x : x \in ToSet(c) <=> \E i \in 1 .. d : recent[i] = x
    <2>1. \A x : x \in ToSet(c) <=> \E i \in DOMAIN c : c[i] = x
      BY ElementsOf
    <2> QED
      BY ONLY <1>3, <1>5, <2>1
  <1>7. \A k \in Loops : loop["memory"][k] \in {"work", "remove"} => k = l
    BY OneInCycle DEF ObserveInv, Busy
  <1> QED
    BY <1>2, <1>3, <1>4, <1>5, <1>6, <1>7

\* The merge takes what the cycle loaded into an episode.
LEMMA ObserveMerge ==
  ASSUME ObserveInv, CycleInv', NEW l \in Loops, Observe(l)
  PROVE  ObserveInv'
  <1>0. /\ CycleInv /\ LoopsTyped /\ "memory" \in Workers /\ loop["memory"][l] = "work"
        /\ turns' = turns /\ UNCHANGED <<recent, unsaved, unremoved, stopped>>
        /\ work \in [Workers -> [Loops -> Work]] /\ work["memory"][l] \in Work
        /\ turns \in Nat /\ recent \in Seq(1 .. MaxTurns)
    BY PostTurnAssumption DEF ObserveInv, CycleInv, TypeOK, LoopsTyped, Steps, Workers, Observe, At
  <1>1. PICK c \in Seq(1 .. MaxTurns), d \in Nat, m \in Nat :
            /\ c = work["memory"][l].loaded /\ d = Len(c) /\ DOMAIN c = 1 .. d
            /\ m = Len(recent) /\ DOMAIN recent = 1 .. m
            /\ d <= m /\ \A i \in 1 .. d : c[i] = recent[i]
            /\ \A x : x \in ToSet(c) <=> \E i \in 1 .. d : recent[i] = x
            /\ \A k \in Loops : loop["memory"][k] \in {"work", "remove"} => k = l
    BY <1>0, AtWork
  <1>2. CASE UNCHANGED <<observed, work>> /\ Goto("memory", l, "report")
    <2>1. loop'["memory"][l] = "report" /\ \A k \in Loops : k # l => loop'["memory"][k] = loop["memory"][k]
      BY <1>0, <1>2, GotoTyped DEF Steps
    <2> QED
      BY <1>0, <1>2, <2>1, ObserveAside
  <1>3. CASE /\ observed' = observed \cup ToSet(c) /\ Goto("memory", l, "remove")
             /\ work' = [work EXCEPT !["memory"][l].merged = TRUE]
    <2>1. loop'["memory"][l] = "remove" /\ \A k \in Loops : k # l => loop'["memory"][k] = loop["memory"][k]
      BY <1>0, <1>3, GotoTyped DEF Steps
    <2>2. work'["memory"][l].loaded = c
      BY <1>0, <1>1, <1>3 DEF Work
    <2>3. Held /\ RecentInOrder /\ ObservedFirst /\ OnTheirWay
      BY DEF ObserveInv, FileInv
    <2>4. /\ \A i \in 1 .. d : i \in DOMAIN recent /\ recent[i] \in 1 .. turns /\ recent[i] \notin unsaved
          /\ \A x : x \in observed' <=> x \in observed \/ \E i \in 1 .. d : recent[i] = x
      BY <1>1, <1>3, <2>3 DEF Held
    <2>5. Held'
      <3>1. \A x \in observed' : x \in 1 .. turns /\ x \notin unsaved
        BY <2>3, <2>4 DEF Held
      <3> QED
        BY <1>0, <2>3, <2>4, <3>1 DEF Held
    <2>6. RecentInOrder'
      BY <1>0, <2>3 DEF RecentInOrder
    <2>7. ObservedFirst'
      <3> SUFFICES ASSUME NEW i \in DOMAIN recent, recent[i] \notin observed', NEW t \in observed'
                   PROVE  t < recent[i]
        BY <1>0 DEF ObservedFirst
      <3>1. recent[i] \notin observed /\ i \notin 1 .. d
        BY <2>4
      <3>2. CASE t \in observed
        BY <2>3, <3>1, <3>2 DEF ObservedFirst
      <3>3. ASSUME NEW j \in 1 .. d, recent[j] = t PROVE t < recent[i]
        <4>1. j < i /\ j \in DOMAIN recent
          BY <1>1, <3>1
        <4> QED
          BY <2>3, <3>3, <4>1 DEF RecentInOrder
      <3> QED
        BY <2>4, <3>2, <3>3
    <2>8. OnTheirWay'
      <3> SUFFICES ASSUME "memory" \notin stopped, NEW i \in DOMAIN recent, recent[i] \in observed'
                   PROVE  \/ recent[i] \in unremoved
                          \/ \E j \in DOMAIN c : recent[i] = c[j]
        BY <1>0, <2>1, <2>2 DEF OnTheirWay
      <3>1. CASE recent[i] \in observed
        <4>1. \A k \in Loops : loop["memory"][k] # "remove"
          BY <1>0, <1>1
        <4> QED
          BY <2>3, <3>1, <4>1 DEF OnTheirWay
      <3>2. ASSUME NEW j \in 1 .. d, recent[j] = recent[i] PROVE \E k \in DOMAIN c : recent[i] = c[k]
        BY <1>1, <3>2
      <3> QED
        BY <2>4, <3>1, <3>2
    <2>9. ASSUME NEW k \in Loops PROVE LoadedFirst(k)'
      <3>1. CASE k = l
        BY <1>0, <1>1, <2>1, <2>2, <2>4, <3>1 DEF LoadedFirst
      <3>2. CASE k # l
        <4>1. loop'["memory"][k] \notin {"work", "remove"}
          BY <1>1, <2>1, <3>2
        <4> QED
          BY <4>1 DEF LoadedFirst
      <3> QED
        BY <3>1, <3>2
    <2> QED
      BY <2>5, <2>6, <2>7, <2>8, <2>9 DEF ObserveInv, FileInv
  <1> QED
    BY <1>1, <1>2, <1>3 DEF Observe

\* The removal takes them off the front of the file, or leaves them and is known to have.
LEMMA ObserveRemove ==
  ASSUME ObserveInv, CycleInv', NEW l \in Loops, RemoveObserved(l)
  PROVE  ObserveInv'
  <1>0. /\ LoopsTyped /\ "memory" \in Workers /\ loop["memory"][l] = "remove"
        /\ turns' = turns /\ UNCHANGED <<observed, unsaved, work, stopped>>
        /\ Goto("memory", l, "report")
        /\ turns \in Nat /\ recent \in Seq(1 .. MaxTurns)
    BY PostTurnAssumption DEF ObserveInv, CycleInv, TypeOK, LoopsTyped, Steps, Workers, RemoveObserved, At
  <1>1. PICK c \in Seq(1 .. MaxTurns), d \in Nat, m \in Nat :
            /\ c = work["memory"][l].loaded /\ d = Len(c) /\ DOMAIN c = 1 .. d
            /\ m = Len(recent) /\ DOMAIN recent = 1 .. m
            /\ d <= m /\ \A i \in 1 .. d : c[i] = recent[i]
            /\ \A i \in 1 .. d : c[i] \in observed
            /\ \A x : x \in ToSet(c) <=> \E i \in 1 .. d : recent[i] = x
            /\ \A k \in Loops : loop["memory"][k] \in {"work", "remove"} => k = l
    BY <1>0, AtWork
  <1>2. \A k \in Loops : loop'["memory"][k] \notin {"work", "remove"}
    BY <1>0, <1>1, GotoTyped DEF Steps
  <1>3. \A k \in Loops : LoadedFirst(k)'
    BY <1>2 DEF LoadedFirst
  <1>4. Held /\ RecentInOrder /\ ObservedFirst /\ OnTheirWay
    BY DEF ObserveInv, FileInv
  <1>5. ASSUME "memory" \notin stopped, NEW i \in DOMAIN recent, recent[i] \in observed
        PROVE  recent[i] \in unremoved \/ \E j \in 1 .. d : recent[i] = recent[j]
    <2>1. \/ recent[i] \in unremoved
          \/ \E k \in Loops : /\ loop["memory"][k] = "remove"
                            /\ \E j \in DOMAIN work["memory"][k].loaded :
                                  recent[i] = work["memory"][k].loaded[j]
      BY <1>4, <1>5 DEF OnTheirWay
    <2>2. ASSUME NEW k \in Loops, loop["memory"][k] = "remove",
                 NEW j \in DOMAIN work["memory"][k].loaded, recent[i] = work["memory"][k].loaded[j]
          PROVE  j \in 1 .. d /\ recent[i] = recent[j]
      <3>1. k = l
        BY <1>1, <2>2
      <3>2. work["memory"][k].loaded = c
        BY <1>1, <3>1
      <3> QED
        BY <1>1, <2>2, <3>2
    <2> QED
      BY <2>1, <2>2
  <1>6. CASE RemovalFails(l)
    <2>1. recent' = recent /\ unremoved' = unremoved \cup ToSet(c)
      BY <1>1, <1>6 DEF RemovalFails
    <2>2. Held' /\ RecentInOrder' /\ ObservedFirst'
      BY <1>0, <1>4, <2>1 DEF Held, RecentInOrder, ObservedFirst
    <2>3. ASSUME "memory" \notin stopped, NEW i \in DOMAIN recent, recent[i] \in observed
          PROVE  recent[i] \in unremoved'
      BY <1>1, <1>5, <2>1, <2>3
    <2>4. OnTheirWay'
      BY <1>0, <2>1, <2>3 DEF OnTheirWay
    <2> QED
      BY <1>3, <2>2, <2>4 DEF ObserveInv, FileInv
  <1>7. CASE RemoveLoaded(l)
    <2>1. unremoved' = unremoved /\ recent' = SubSeq(recent, d + 1, Len(recent))
      BY <1>1, <1>7 DEF RemoveLoaded
    <2>2. /\ recent' \in Seq(1 .. MaxTurns) /\ Len(recent') = m - d
          /\ \A k \in 1 .. m - d : recent'[k] = recent[d + k]
      <3>1. m = Len(recent) /\ d <= Len(recent)
        BY <1>1
      <3>2. /\ SubSeq(recent, d + 1, Len(recent)) \in Seq(1 .. MaxTurns)
            /\ Len(SubSeq(recent, d + 1, Len(recent))) = Len(recent) - d
            /\ \A k \in 1 .. Len(recent) - d : SubSeq(recent, d + 1, Len(recent))[k] = recent[d + k]
        BY <1>0, <3>1, RestOf
      <3> QED
        BY ONLY <2>1, <3>1, <3>2
    <2>0. d \in Nat /\ m \in Nat /\ d <= m
      BY <1>1
    <2>3. DOMAIN recent' = 1 .. m - d
      BY <1>1, <2>2
    <2>4. \A k \in DOMAIN recent' : d + k \in DOMAIN recent /\ recent'[k] = recent[d + k]
      <3>1. \A k \in 1 .. m - d : d + k \in 1 .. m
        BY ONLY <2>0
      <3>2. DOMAIN recent = 1 .. m
        BY <1>1
      <3> QED
        BY ONLY <2>2, <2>3, <3>1, <3>2
    <2>5. Held'
      <3>1. \A k \in DOMAIN recent' : recent'[k] \in 1 .. turns /\ recent'[k] \notin unsaved
        BY <1>4, <2>4 DEF Held
      <3>2. ASSUME NEW t \in 1 .. turns
            PROVE  t \in observed \/ t \in unsaved \/ \E k \in DOMAIN recent' : recent'[k] = t
        <4>1. t \in observed \/ t \in unsaved \/ \E i \in DOMAIN recent : recent[i] = t
          BY <1>4 DEF Held
        <4>2. ASSUME NEW i \in DOMAIN recent, recent[i] = t, t \notin observed
              PROVE  \E k \in DOMAIN recent' : recent'[k] = t
          <5>1. i \in 1 .. m /\ i \notin 1 .. d
            BY <1>1, <4>2
          <5>2. i - d \in 1 .. m - d /\ d + (i - d) = i
            BY ONLY <2>0, <5>1
          <5>3. i - d \in DOMAIN recent' /\ recent'[i - d] = t
            BY <2>2, <2>3, <4>2, <5>2
          <5> QED
            BY <5>3
        <4> QED
          BY <4>1, <4>2
      <3> QED
        BY <1>0, <1>4, <3>1, <3>2 DEF Held
    <2>6. RecentInOrder'
      <3> SUFFICES ASSUME NEW i \in DOMAIN recent', NEW j \in DOMAIN recent', i < j
                   PROVE  recent'[i] < recent'[j]
        BY DEF RecentInOrder
      <3>1. d + i < d + j
        BY <2>3
      <3> QED
        BY <1>4, <2>4, <3>1 DEF RecentInOrder
    <2>7. ObservedFirst'
      BY <1>0, <1>4, <2>4 DEF ObservedFirst
    <2>8. OnTheirWay'
      <3> SUFFICES ASSUME "memory" \notin stopped, NEW i \in DOMAIN recent', recent'[i] \in observed
                   PROVE  recent'[i] \in unremoved
        BY <1>0, <2>1 DEF OnTheirWay
      <3>1. recent[d + i] \in unremoved \/ \E j \in 1 .. d : recent[d + i] = recent[j]
        BY <1>5, <2>4
      <3>2. ASSUME NEW j \in 1 .. d, recent[d + i] = recent[j] PROVE FALSE
        <4>1. j < d + i /\ j \in DOMAIN recent /\ d + i \in DOMAIN recent
          BY <1>1, <2>3, <2>4
        <4>2. recent[j] < recent[d + i] /\ recent[j] \in 1 .. turns
          BY <1>4, <4>1 DEF RecentInOrder, Held
        <4> QED
          BY <1>0, <3>2, <4>2
      <3> QED
        BY <2>4, <3>1, <3>2
    <2> QED
      BY <1>3, <2>5, <2>6, <2>7, <2>8 DEF ObserveInv, FileInv
  <1> QED
    BY <1>6, <1>7 DEF RemoveObserved

\* A step of a run loop that is not at work on the files, or gives up on them.
LEMMA ObserveOther ==
  ASSUME ObserveInv, CycleInv', UNCHANGED <<turns, files, stopped>>,
         NEW w \in Workers, NEW l \in Loops, NEW s \in Steps \ {"work", "remove"}, Goto(w, l, s),
         loop[w][l] # "remove",
         work' = work \/ work' = [work EXCEPT ![w][l] = NoCycle]
  PROVE  ObserveInv'
  <1>0. LoopsTyped /\ work \in [Workers -> [Loops -> Work]] /\ "memory" \in Workers
    BY DEF ObserveInv, CycleInv, TypeOK, LoopsTyped, Steps, Workers
  <1>1. /\ loop'[w][l] = s
        /\ \A v \in Workers, k \in Loops : v # w \/ k # l => loop'[v][k] = loop[v][k]
    BY <1>0, GotoTyped
  <1>2. \A v \in Workers, k \in Loops : v # w \/ k # l => work'[v][k] = work[v][k]
    BY <1>0, NoCycleTyped, WorkTyped
  <1>3. ASSUME NEW k \in Loops, loop'["memory"][k] \in {"work", "remove"}
        PROVE  loop["memory"][k] = loop'["memory"][k] /\ work'["memory"][k] = work["memory"][k]
    BY <1>0, <1>1, <1>2, <1>3
  <1>4. ASSUME NEW k \in Loops, loop["memory"][k] = "remove"
        PROVE  loop'["memory"][k] = "remove"
    BY <1>0, <1>1, <1>4
  <1> QED
    BY <1>3, <1>4, ObserveAside

LEMMA ObserveLoopStep ==
  ASSUME ObserveInv, CycleInv', NEW w \in Workers, NEW l \in Loops, LoopStep(w, l)
  PROVE  ObserveInv'
  <1>0. LoopsTyped /\ work \in [Workers -> [Loops -> Work]] /\ "memory" \in Workers
        /\ "subconscious" \in Workers
    BY DEF ObserveInv, CycleInv, TypeOK, LoopsTyped, Steps, Workers
  <1> USE DEF At
  <1>1. CASE LoopStarts(w, l)
    BY <1>1, ObserveOther DEF LoopStarts, Steps
  <1>2. CASE w = "memory" /\ ReportMemoryWork(l)
    BY <1>2, ObserveOther DEF ReportMemoryWork, Steps
  <1>3. CASE w = "subconscious" /\ TakeTurns(l)
    <2>1. UNCHANGED <<turns, files, stopped>> /\ loop'["memory"] = loop["memory"]
          /\ work'["memory"] = work["memory"]
      BY <1>0, <1>3 DEF TakeTurns, Goto, LoopsTyped, Workers
    <2> QED
      BY <2>1, ObserveAside
  <1>4. CASE w = "subconscious" /\ Evaluate(l)
    BY <1>4, ObserveOther DEF Evaluate, Steps
  <1>5. CASE OwesAnotherCycle(w, l)
    BY <1>5, ObserveOther DEF OwesAnotherCycle, Steps
  <1>6. CASE LoopEnds(w, l)
    BY <1>6, ObserveOther DEF LoopEnds, Steps
  <1> QED
    BY <1>1, <1>2, <1>3, <1>4, <1>5, <1>6, ObserveTake, ObserveMerge, ObserveRemove DEF LoopStep

LEMMA ObserveInvStep == ObserveInv /\ [Next]_vars => ObserveInv'
  <1> SUFFICES ASSUME ObserveInv, [Next]_vars PROVE ObserveInv'
    OBVIOUS
  <1>0. CycleInv /\ CycleInv' /\ TypeOK
    BY CycleInvStep DEF ObserveInv, CycleInv
  <1>1. CASE \/ EndOfTurnHook \/ ObserveDeadline \/ ForceObserve \/ ForceReflect \/ IdleTransition
             \/ ApplyResult \/ UNCHANGED vars
    <2>1. UNCHANGED <<turns, files, work, loop, stopped>>
      BY <1>1 DEF EndOfTurnHook, ObserveDeadline, ForceObserve, ForceReflect, IdleTransition,
                  ApplyResult, vars, loopState
    <2> QED
      BY <1>0, <2>1, ObserveAside
  <1>2. CASE Trigger
    <2>1. UNCHANGED <<turns, files, work, stopped>> /\ calling \in Workers
      BY <1>0, <1>2 DEF Trigger, TypeOK
    <2>2. CASE running[calling]
      BY <1>0, <1>2, <2>1, <2>2, ObserveAside DEF Trigger
    <2>3. CASE ~running[calling]
      <3>1. PICK l \in Loops : loop[calling][l] = "free" /\ Goto(calling, l, "start")
        BY <1>2, <2>3, SpawnsOne DEF Trigger, Goto
      <3> QED
        BY <1>0, <2>1, <3>1, ObserveOther DEF Steps
    <2> QED
      BY <2>2, <2>3
  <1>3. ASSUME NEW w \in Workers, Shutdown(w) PROVE ObserveInv'
    BY <1>0, <1>3, ObserveAside DEF Shutdown
  <1>4. ASSUME NEW w \in Workers, ShutdownReturns(w) PROVE ObserveInv'
    <2>0. /\ loop \in [Workers -> [Loops -> Steps]] /\ work \in [Workers -> [Loops -> Work]]
          /\ handle[w] \in Loops \cup {NoLoop}
      BY <1>0 DEF TypeOK, Steps
    <2>1. UNCHANGED <<turns, files>> /\ stopped' = stopped \cup {w}
      BY <1>4 DEF ShutdownReturns
    <2>2. \/ UNCHANGED <<loop, work>>
          \/ \E l \in Loops : /\ loop' = [loop EXCEPT ![w][l] = "free"]
                              /\ work' = [work EXCEPT ![w][l] = NoCycle]
      BY <2>0, <1>4 DEF ShutdownReturns
    <2>3. ASSUME NEW k \in Loops, loop'["memory"][k] \in {"work", "remove"}
          PROVE  loop["memory"][k] = loop'["memory"][k] /\ work'["memory"][k] = work["memory"][k]
      BY <2>0, <2>2, <2>3 DEF Workers
    <2>4. "memory" \notin stopped' => loop'["memory"] = loop["memory"] /\ "memory" \notin stopped
      BY <2>0, <2>1, <2>2 DEF Workers
    <2> QED
      BY <1>0, <2>1, <2>3, <2>4, ObserveAside
  <1> QED
    BY <1>0, <1>1, <1>2, <1>3, <1>4, ObserveEndTurn, ObserveLoopStep DEF Next

\* ObservedOnce for every instance: what execute_observation extracts from is in no
\* completed episode, but for messages an earlier cycle could not remove, however turns,
\* triggers, failing writes and shutdowns interleave with its cycle.
THEOREM TurnsAreObservedOnce == Spec => []ObservedOnce
  <1>1. ObserveInv => ObservedOnce
    <2> SUFFICES ASSUME ObserveInv, NEW l \in Loops, loop["memory"][l] = "work",
                        NEW x \in ToSet(work["memory"][l].loaded), x \in observed
                 PROVE  x \in unremoved
      BY DEF ObservedOnce
    <2>1. PICK c \in Seq(1 .. MaxTurns), d \in Nat, m \in Nat :
              /\ c = work["memory"][l].loaded /\ d = Len(c) /\ DOMAIN c = 1 .. d
              /\ m = Len(recent) /\ DOMAIN recent = 1 .. m
              /\ d <= m
              /\ \A y : y \in ToSet(c) <=> \E i \in 1 .. d : recent[i] = y
              /\ \A k \in Loops : loop["memory"][k] \in {"work", "remove"} => k = l
      BY AtWork
    <2>2. PICK i \in 1 .. d : recent[i] = x
      BY <2>1
    <2>3. i \in DOMAIN recent
      BY <2>1
    <2>4. "memory" \notin stopped
      BY DEF ObserveInv, CycleInv, OnlyCycle, Busy, Workers
    <2>5. \A k \in Loops : loop["memory"][k] # "remove"
      BY <2>1
    <2>6. OnTheirWay
      BY DEF ObserveInv, FileInv
    <2> QED
      BY <2>2, <2>3, <2>4, <2>5, <2>6 DEF OnTheirWay
  <1> QED
    BY <1>1, ObserveInvInit, ObserveInvStep, PTL DEF Spec

\* NoTurnIsLost for every instance: each turn is in an episode or still in the file, unless
\* appending it failed, and what is observed leaves the file unless that failed too.
THEOREM TurnsAreNeverLost == Spec => []NoTurnIsLost
  <1>1. ObserveInv => NoTurnIsLost
    BY FileInvImplies DEF ObserveInv, CycleInv
  <1> QED
    BY <1>1, ObserveInvInit, ObserveInvStep, PTL DEF Spec
=============================================================================
