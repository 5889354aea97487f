------------------------- MODULE MemoryMergeProofs -------------------------
(***************************************************************************)
(* What the global memory holds across failed writes, panics and crashes,  *)
(* for every number of runs, episodes, messages and faults.                *)
(***************************************************************************)
EXTENDS MemoryMerge, SequenceTheorems, WellFoundedInduction, TLAPS

-----------------------------------------------------------------------------
(* The inductive invariant.                                                *)

\* Where merge_lock, log_lock and reflection_lock are held.
Persisting == {"transcript", "obs", "log", "append", "idx", "run", "done"}
InLog == {"append", "replace"}
Reflecting == {"compress", "replace"}

\* Who holds a lock is told by the step it is at, and nobody else writes the log
\* its holder has loaded.
LocksHeld(w) ==
    /\ mergeLock = w <=> pc[w] \in Persisting
    /\ logLock = w <=> pc[w] \in InLog
    /\ reflectionLock = w <=> pc[w] \in Reflecting
    /\ logLock = w => local[w].seen = log

\* What record_merged_run may name.
Whole == {"transcript", "obs", "log", "idx"}

\* Writer w's episode e is whole and, for a run, recorded.
Accounted(w, e) ==
    /\ e \in EpisodeIds
    /\ Whole \subseteq files[e]
    /\ owner[e] = w
    /\ w \in Runs => merged[w] = e

\* What an episode has on disk at each step of persist_episode, and that a run which
\* is persisting one has none recorded.
EpisodeAt(w) ==
    LET e == local[w].ep IN
    /\ pc[w] \in Persisting => e \in EpisodeIds
    /\ pc[w] = "transcript" => files[e] = {}
    /\ pc[w] \in Persisting \ {"transcript"} =>
          owner[e] = w /\ covers[e] = ToSet(local[w].recent)
    /\ pc[w] = "obs" => files[e] = {"transcript"}
    /\ pc[w] \in {"log", "append"} => files[e] = {"transcript", "obs"}
    /\ pc[w] = "idx" => files[e] = {"transcript", "obs", "log"}
    /\ pc[w] \in {"run", "done"} => files[e] = Whole
    /\ pc[w] = "run" => w \in Runs
    /\ (pc[w] \in Persisting \ {"done"} /\ w \in Runs) => merged[w] = NoEpisode

\* What merge returns, from its last write on.
OutcomeAt(w) ==
    /\ pc[w] = "done" => Accounted(w, local[w].ep)
    /\ (pc[w] \in {"reflect?"} \cup Reflecting /\ ~local[w].forced) =>
          Accounted(w, local[w].ep) /\ ToSet(local[w].recent) \subseteq covers[local[w].ep]
    /\ local[w].forced => w = Main /\ pc[w] \in Reflecting
    /\ w \in Runs => local[w].recent = <<>>
    /\ local[w].out # NoEpisode =>
          /\ pc[w] = "merged"
          /\ Accounted(w, local[w].out)
          /\ ToSet(local[w].recent) \subseteq covers[local[w].out]

MergeAt(w) == EpisodeAt(w) /\ OutcomeAt(w)

\* An episode that was never begun has nothing; the artifacts of one that was tell
\* what else the disk says of it.
EpisodeKept(e) ==
    /\ files[e] = {} => owner[e] = Nobody /\ covers[e] = {}
    /\ files[e] # {} => "transcript" \in files[e]
    /\ "log" \in files[e] => Logged(e)
    /\ "done" \in files[e] => files[e] = Artifacts /\ (owner[e] \in Runs => merged[owner[e]] = e)

\* merged_runs and the run's own record name a whole episode of the run.
RunKept(r) ==
    /\ merged[r] # NoEpisode => Accounted(r, merged[r])
    /\ recordEp[r] # NoEpisode => merged[r] = recordEp[r]

\* The messages a cycle of the main agent loaded are still the first of the file.
LoadedFirst ==
    /\ Len(local[Main].recent) <= Len(recent)
    /\ \A i \in DOMAIN local[Main].recent : local[Main].recent[i] = recent[i]

WritersKept == \A w \in Writers : LocksHeld(w) /\ MergeAt(w)
DiskKept == (\A e \in EpisodeIds : EpisodeKept(e)) /\ \A r \in Runs : RunKept(r)
RecentKept == LoadedFirst /\ RecentUntilObserved

Inv == TypeOK /\ WritersKept /\ DiskKept /\ RecentKept

-----------------------------------------------------------------------------
(* The shape of the state.                                                 *)

LEMMA NobodyIsNoWriter ==
  /\ Nobody \notin Writers /\ Main \in Writers /\ Main \notin Runs
  /\ Runs \subseteq Writers /\ NoEpisode \notin EpisodeIds
  BY MergeAssumption DEF Writers, NoEpisode, EpisodeIds

LEMMA GotoStep ==
  ASSUME TypeOK, NEW w \in Writers, NEW step \in Steps, Goto(w, step)
  PROVE  /\ pc' \in [Writers -> Steps] /\ pc'[w] = step
         /\ \A x \in Writers : x # w => pc'[x] = pc[x]
  BY DEF TypeOK, Goto

LEMMA SetStep ==
  ASSUME TypeOK, NEW w \in Writers, NEW new \in Locals, Set(w, new)
  PROVE  /\ local' \in [Writers -> Locals] /\ local'[w] = new
         /\ \A x \in Writers : x # w => local'[x] = local[x]
  BY DEF TypeOK, Set

LEMMA FreshIsLocal ==
  /\ Fresh \in Locals /\ [Fresh EXCEPT !.panicked = TRUE] \in Locals
  /\ \A e \in EpisodeIds \cup {NoEpisode} : [Fresh EXCEPT !.out = e] \in Locals
  /\ \A s \in Seq(1 .. MaxRecent) : [Fresh EXCEPT !.recent = s] \in Locals
  /\ \A s \in LogEntries : [Fresh EXCEPT !.snapshot = s, !.forced = TRUE] \in Locals
  <1>1. <<>> \in LogEntries /\ <<>> \in Seq(1 .. MaxRecent)
    BY DEF LogEntries
  <1> USE DEF Fresh, Locals
  <1>2. Fresh \in Locals
    BY <1>1
  <1>3. [Fresh EXCEPT !.panicked = TRUE] \in Locals
    BY <1>1
  <1>4. ASSUME NEW e \in EpisodeIds \cup {NoEpisode} PROVE [Fresh EXCEPT !.out = e] \in Locals
    BY <1>1
  <1>5. ASSUME NEW s \in Seq(1 .. MaxRecent) PROVE [Fresh EXCEPT !.recent = s] \in Locals
    BY <1>1
  <1>6. ASSUME NEW s \in LogEntries
        PROVE  [Fresh EXCEPT !.snapshot = s, !.forced = TRUE] \in Locals
    BY <1>1
  <1> QED
    BY <1>2, <1>3, <1>4, <1>5, <1>6

LEMMA ChangedIsLocal ==
  ASSUME NEW l \in Locals
  PROVE  /\ [l EXCEPT !.staged = TRUE] \in Locals
         /\ \A e \in EpisodeIds \cup {NoEpisode} :
               [l EXCEPT !.out = e] \in Locals /\ [l EXCEPT !.ep = e] \in Locals
         /\ \A s \in LogEntries :
               [l EXCEPT !.seen = s] \in Locals /\ [l EXCEPT !.snapshot = s] \in Locals
         /\ [l EXCEPT !.seen = <<>>] \in Locals
         /\ [l EXCEPT !.out = l.ep, !.snapshot = <<>>, !.seen = <<>>] \in Locals
  <1>1. <<>> \in LogEntries
    BY DEF LogEntries
  <1> USE DEF Locals
  <1>2. [l EXCEPT !.staged = TRUE] \in Locals
    OBVIOUS
  <1>3. ASSUME NEW e \in EpisodeIds \cup {NoEpisode}
        PROVE  [l EXCEPT !.out = e] \in Locals /\ [l EXCEPT !.ep = e] \in Locals
    OBVIOUS
  <1>4. ASSUME NEW s \in LogEntries
        PROVE  [l EXCEPT !.seen = s] \in Locals /\ [l EXCEPT !.snapshot = s] \in Locals
    OBVIOUS
  <1>5. [l EXCEPT !.out = l.ep, !.snapshot = <<>>, !.seen = <<>>] \in Locals
    BY <1>1
  <1> QED
    BY <1>1, <1>2, <1>3, <1>4, <1>5

LEMMA TypeInit == Init => TypeOK
  <1> SUFFICES ASSUME Init PROVE TypeOK
    OBVIOUS
  <1>1. log \in LogEntries /\ recent \in Seq(1 .. MaxRecent)
    BY DEF Init, LogEntries
  <1>2. said \in 0 .. MaxRecent /\ faults \in 0 .. MaxFaults
    BY MergeAssumption DEF Init
  <1>3. pc \in [Writers -> Steps] /\ local \in [Writers -> Locals]
    BY FreshIsLocal DEF Init, Steps
  <1> QED
    BY <1>1, <1>2, <1>3 DEF Init, TypeOK

LEMMA FaultTyped ==
  ASSUME TypeOK, Faulty \/ faults' = faults
  PROVE  faults' \in 0 .. MaxFaults
  BY MergeAssumption DEF TypeOK, Faulty

LEMMA ReleaseTyped ==
  ASSUME TypeOK, NEW w \in Writers, ReleaseAll(w)
  PROVE  {mergeLock', logLock', reflectionLock'} \subseteq Writers \cup {Nobody}
  BY DEF TypeOK, ReleaseAll, Released

\* A step of writer w that leaves the disk alone.
LEMMA TypeLocal ==
  ASSUME TypeOK, NEW w \in Writers, NEW step \in Steps, NEW l \in Locals,
         pc' = [pc EXCEPT ![w] = step], local' = [local EXCEPT ![w] = l],
         {mergeLock', logLock', reflectionLock'} \subseteq Writers \cup {Nobody},
         UNCHANGED <<disk, said, phase, todo>>, Faulty \/ faults' = faults
  PROVE  TypeOK'
  <1>1. pc' \in [Writers -> Steps] /\ local' \in [Writers -> Locals]
    BY DEF TypeOK
  <1> QED
    BY <1>1, FaultTyped DEF TypeOK, disk

LEMMA TypePipeline ==
  ASSUME TypeOK, NEW w \in Writers,
         \/ CheckMerged(w) \/ TakeMergeLock(w) \/ LoadLog(w)
         \/ SkipReflection(w) \/ StartReflection(w) \/ Compress(w)
  PROVE  TypeOK'
  <1> USE DEF locks, Goto, Set
  <1>0. local[w] \in Locals /\ log \in LogEntries
        /\ mergeLock \in Writers \cup {Nobody} /\ logLock \in Writers \cup {Nobody}
        /\ reflectionLock \in Writers \cup {Nobody}
    BY DEF TypeOK
  <1>1. CASE CheckMerged(w)
    <2>1. CASE AlreadyMerged(w)
      <3>1. merged[w] \in EpisodeIds \cup {NoEpisode}
        BY <2>1 DEF AlreadyMerged, TypeOK
      <3>2. [local[w] EXCEPT !.out = merged[w]] \in Locals /\ "merged" \in Steps
        BY <1>0, <3>1, ChangedIsLocal DEF Steps
      <3> QED
        BY <1>0, <1>1, <2>1, <3>2, TypeLocal DEF CheckMerged
    <2>2. CASE ~AlreadyMerged(w)
      <3>1. pc' \in [Writers -> Steps]
        BY <1>1, <2>2 DEF CheckMerged, TypeOK, Steps
      <3> QED
        BY <1>1, <2>2, <3>1 DEF CheckMerged, TypeOK, disk
    <2> QED
      BY <2>1, <2>2
  <1>2. CASE TakeMergeLock(w)
    <2>1. CASE AlreadyMerged(w)
      <3>1. merged[w] \in EpisodeIds \cup {NoEpisode}
        BY <2>1 DEF AlreadyMerged, TypeOK
      <3>2. [local[w] EXCEPT !.out = merged[w]] \in Locals /\ "merged" \in Steps
        BY <1>0, <3>1, ChangedIsLocal DEF Steps
      <3> QED
        BY <1>0, <1>2, <2>1, <3>2, TypeLocal DEF TakeMergeLock
    <2>2. CASE ~AlreadyMerged(w)
      <3>1. [local[w] EXCEPT !.ep = NextEpisodeId] \in Locals /\ "transcript" \in Steps
        BY <1>0, <1>2, <2>2, ChangedIsLocal DEF TakeMergeLock, Steps, Writing
      <3> QED
        BY <1>0, <1>2, <2>2, <3>1, TypeLocal DEF TakeMergeLock
    <2> QED
      BY <2>1, <2>2
  <1>3. CASE LoadLog(w)
    <2>1. [local[w] EXCEPT !.seen = log] \in Locals /\ "append" \in Steps
      BY <1>0, ChangedIsLocal DEF Steps, Writing
    <2> QED
      BY <1>0, <1>3, <2>1, TypeLocal DEF LoadLog
  <1>4. ASSUME ReflectDone(w), {mergeLock', logLock', reflectionLock'} \subseteq Writers \cup {Nobody},
               UNCHANGED <<disk, said, phase, todo, faults>>
        PROVE  TypeOK'
    <2>1. Outcome(w) \in Locals /\ Fresh \in Locals /\ {"idle", "merged"} \subseteq Steps
      BY <1>0, ChangedIsLocal, FreshIsLocal DEF Steps, Outcome
    <2> QED
      BY <1>4, <2>1, TypeLocal DEF ReflectDone
  <1>5. CASE SkipReflection(w)
    BY <1>0, <1>4, <1>5 DEF SkipReflection
  <1>6. CASE StartReflection(w)
    <2>1. [local[w] EXCEPT !.snapshot = log] \in Locals /\ "compress" \in Steps
      BY <1>0, ChangedIsLocal DEF Steps
    <2> QED
      BY <1>0, <1>6, <2>1, TypeLocal DEF StartReflection
  <1>7. CASE Compress(w)
    <2>1. [local[w] EXCEPT !.seen = log] \in Locals /\ "replace" \in Steps
      BY <1>0, ChangedIsLocal DEF Steps
    <2>2. Released(reflectionLock, w) \in Writers \cup {Nobody}
      BY <1>0 DEF Released
    <2> QED
      BY <1>0, <1>4, <1>7, <2>1, <2>2, TypeLocal DEF Compress
  <1> QED
    BY <1>1, <1>2, <1>3, <1>5, <1>6, <1>7
LEMMA DroppedFirst ==
  ASSUME NEW S, NEW s \in Seq(S), NEW n \in Nat
  PROVE  /\ SubSeq(s, n + 1, Len(s)) \in Seq(S)
         /\ n <= Len(s) => Len(SubSeq(s, n + 1, Len(s))) = Len(s) - n
         /\ \A k \in 1 .. Len(s) - n : SubSeq(s, n + 1, Len(s))[k] = s[n + k]
  <1> DEFINE r == SubSeq(s, n + 1, Len(s))
  <1>0. n + 1 \in Int /\ Len(s) \in Int /\ Len(s) \in Nat
    OBVIOUS
  <1>1. \A i \in n + 1 .. Len(s) : s[i] \in S
    OBVIOUS
  <1>2. /\ r \in Seq(S)
        /\ Len(r) = IF n + 1 <= Len(s) THEN Len(s) - (n + 1) + 1 ELSE 0
        /\ \A i \in 1 .. Len(s) - (n + 1) + 1 : r[i] = s[n + 1 + i - 1]
    BY <1>0, <1>1, SubSeqProperties
  <1> HIDE DEF r
  <1>3. /\ r \in Seq(S) /\ (n <= Len(s) => Len(r) = Len(s) - n)
        /\ \A k \in 1 .. Len(s) - n : r[k] = s[n + k]
    BY <1>0, <1>2
  <1> QED
    BY <1>3 DEF r

LEMMA ToSetTyped ==
  ASSUME NEW S, NEW s \in Seq(S)
  PROVE  ToSet(s) \subseteq S
  BY DEF ToSet

\* Compression keeps what the log speaks for: the entries it was made from start the
\* log it is put into.
LEMMA ReplacedLog ==
  ASSUME NEW w, local[w].snapshot \in LogEntries, local[w].seen \in LogEntries,
         IsPrefix(local[w].snapshot, local[w].seen)
  PROVE  /\ Replaced(w) \in LogEntries
         /\ \A e : (\E i \in DOMAIN local[w].seen : e \in local[w].seen[i])
                     => \E j \in DOMAIN Replaced(w) : e \in Replaced(w)[j]
  <1> DEFINE s == local[w].snapshot
             t == local[w].seen
             n == Len(s)
             u == UNION ToSet(s)
             rest == SubSeq(t, n + 1, Len(t))
             out == <<u>> \o rest
  <1>0. /\ s \in Seq(SUBSET EpisodeIds) /\ t \in Seq(SUBSET EpisodeIds) /\ n \in Nat
        /\ Len(t) \in Nat /\ n <= Len(t) /\ SubSeq(s, 1, n) = SubSeq(t, 1, n)
        /\ DOMAIN s = 1 .. n /\ DOMAIN t = 1 .. Len(t)
    BY DEF LogEntries, IsPrefix
  <1>1. out = Replaced(w)
    BY DEF Replaced, Compressed
  <1>2. u \subseteq EpisodeIds
    <2>1. \A i \in DOMAIN s : s[i] \subseteq EpisodeIds
      BY <1>0
    <2> QED
      BY <2>1 DEF ToSet
  <1> HIDE DEF s, t, n
  <1>3. \A i \in 1 .. n : s[i] = t[i]
    <2>1. \A i \in 1 .. n : SubSeq(s, 1, n)[i] = s[i] /\ SubSeq(t, 1, n)[i] = t[i]
      BY <1>0
    <2> QED
      BY <1>0, <2>1
  <1>4. ASSUME NEW i \in 1 .. n PROVE s[i] \subseteq u
    BY <1>0, <1>4 DEF ToSet
  <1> HIDE DEF u
  <1>5. /\ rest \in Seq(SUBSET EpisodeIds) /\ Len(rest) = Len(t) - n
        /\ \A k \in 1 .. Len(t) - n : rest[k] = t[n + k]
    BY <1>0, DroppedFirst
  <1> HIDE DEF rest
  <1>6. <<u>> \in Seq(SUBSET EpisodeIds) /\ Len(<<u>>) = 1 /\ <<u>>[1] = u
    BY <1>2
  <1>7. /\ out \in Seq(SUBSET EpisodeIds) /\ DOMAIN out = 1 .. 1 + (Len(t) - n)
        /\ out[1] = u /\ \A k \in 1 .. Len(t) - n : out[1 + k] = t[n + k]
    <2>1. out \in Seq(SUBSET EpisodeIds) /\ Len(out) = 1 + Len(rest)
      BY <1>5, <1>6
    <2>2. out[1] = u
      BY <1>5, <1>6
    <2>3. \A k \in 1 .. Len(rest) : out[1 + k] = rest[k]
      BY <1>5, <1>6
    <2> QED
      BY <1>0, <1>5, <2>1, <2>2, <2>3
  <1> HIDE DEF out
  <1>8. ASSUME NEW e, NEW i \in DOMAIN t, e \in t[i]
        PROVE  \E j \in DOMAIN out : e \in out[j]
    <2>1. CASE i <= n
      <3>1. e \in u /\ 1 \in DOMAIN out
        BY <1>0, <1>3, <1>4, <1>7, <1>8, <2>1
      <3> QED
        BY <1>7, <3>1
    <2>2. CASE i > n
      <3>1. i - n \in 1 .. Len(t) - n /\ n + (i - n) = i /\ 1 + (i - n) \in DOMAIN out
        BY <1>0, <1>7, <1>8, <2>2
      <3>2. out[1 + (i - n)] = t[i]
        BY <1>7, <3>1
      <3> QED
        BY <1>8, <3>1, <3>2
    <2> QED
      BY <1>0, <1>8, <2>1, <2>2
  <1> QED
    BY <1>1, <1>7, <1>8 DEF LogEntries, t

LEMMA TypeWrite ==
  ASSUME TypeOK, NEW w \in Writers, MergeAt(w),
         \/ WriteTranscript(w) \/ WriteObsArchive(w) \/ WriteChunkIndex(w)
         \/ WriteCompletionMarker(w) \/ AppendObservations(w) \/ ReplaceLog(w)
         \/ PersistFails(w)
  PROVE  TypeOK'
  <1> USE DEF locks
  <1>0. /\ local[w] \in Locals /\ log \in LogEntries /\ files \in [EpisodeIds -> SUBSET Artifacts]
        /\ {mergeLock, logLock, reflectionLock} \subseteq Writers \cup {Nobody}
    BY DEF TypeOK
  <1>1. CASE WriteTranscript(w)
    <2>1. ToSet(local[w].recent) \subseteq 1 .. MaxRecent
      BY <1>0, ToSetTyped DEF Locals
    <2>2. /\ files' \in [EpisodeIds -> SUBSET Artifacts]
          /\ owner' \in [EpisodeIds -> Writers \cup {Nobody}]
          /\ covers' \in [EpisodeIds -> SUBSET (1 .. MaxRecent)]
      BY <1>1, <2>1 DEF WriteTranscript, TypeOK, Artifacts
    <2>3. pc' \in [Writers -> Steps]
      BY <1>1, GotoStep DEF WriteTranscript, Steps, Writing
    <2> QED
      BY <1>1, <2>2, <2>3 DEF WriteTranscript, TypeOK
  <1>2. ASSUME NEW name \in Artifacts, NEW next \in Steps, WriteArtifact(w, name, next),
               mergeLock' \in {mergeLock, Nobody}
        PROVE  TypeOK'
    <2>1. files' \in [EpisodeIds -> SUBSET Artifacts]
      BY <1>0, <1>2 DEF WriteArtifact
    <2>2. pc' \in [Writers -> Steps]
      BY <1>2, GotoStep DEF WriteArtifact
    <2> QED
      BY <1>2, <2>1, <2>2 DEF WriteArtifact, TypeOK
  <1>3. CASE WriteObsArchive(w) \/ WriteChunkIndex(w) \/ WriteCompletionMarker(w)
    BY <1>2, <1>3
       DEF WriteObsArchive, WriteChunkIndex, WriteCompletionMarker, Artifacts, Steps, Writing,
           Released
  <1>4. CASE AppendObservations(w)
    <2>1. local[w].ep \in EpisodeIds /\ local[w].seen \in LogEntries
      BY <1>0, <1>4 DEF MergeAt, EpisodeAt, Persisting, AppendObservations, Locals
    <2>2. log' \in LogEntries
      BY <1>4, <2>1 DEF AppendObservations, LogEntries
    <2>3. files' \in [EpisodeIds -> SUBSET Artifacts]
      BY <1>0, <1>4 DEF AppendObservations, Artifacts
    <2>4. pc' \in [Writers -> Steps] /\ local' \in [Writers -> Locals]
      BY <1>0, <1>4, GotoStep, SetStep, ChangedIsLocal DEF AppendObservations, Steps, Writing
    <2> QED
      BY <1>4, <2>2, <2>3, <2>4 DEF AppendObservations, TypeOK, Released
  <1>5. CASE ReplaceLog(w)
    <2>1. local[w].snapshot \in LogEntries /\ local[w].seen \in LogEntries
      BY <1>0 DEF Locals
    <2>2. log' \in LogEntries
      BY <1>0, <1>5, <2>1, ReplacedLog DEF ReplaceLog
    <2>3. Outcome(w) \in Locals /\ Fresh \in Locals /\ {"idle", "merged"} \subseteq Steps
      BY <1>0, ChangedIsLocal, FreshIsLocal DEF Steps, Outcome
    <2>4. pc' \in [Writers -> Steps] /\ local' \in [Writers -> Locals]
      BY <1>5, <2>3, GotoStep, SetStep DEF ReplaceLog, ReflectDone
    <2> QED
      BY <1>5, <2>2, <2>4, FaultTyped, ReleaseTyped DEF ReplaceLog, TypeOK
  <1>6. CASE PersistFails(w)
    <2>1. files' \in [EpisodeIds -> SUBSET Artifacts]
      BY <1>0, <1>6 DEF PersistFails, Artifacts
    <2>2. owner' \in [EpisodeIds -> Writers \cup {Nobody}] /\ covers' = covers
      BY <1>6 DEF PersistFails, TypeOK
    <2>3. pc' \in [Writers -> Steps] /\ local' \in [Writers -> Locals]
      BY <1>0, <1>6, GotoStep, SetStep, ChangedIsLocal DEF PersistFails, Steps
    <2> QED
      BY <1>6, <2>1, <2>2, <2>3, FaultTyped, ReleaseTyped DEF PersistFails, TypeOK
  <1> QED
    BY <1>1, <1>3, <1>4, <1>5, <1>6

LEMMA TypeRun ==
  ASSUME TypeOK, NEW r \in Runs,
         \/ BeginRun(r) \/ MaybeStage(r) \/ CompleteSessionMemory(r) \/ RecordMergedRun(r)
         \/ FinishRun(r) \/ Panic(r) \/ RecoverIfIncomplete(r)
  PROVE  TypeOK'
  <1> USE DEF locks
  <1>0. r \in Writers /\ local[r] \in Locals
        /\ {mergeLock, logLock, reflectionLock} \subseteq Writers \cup {Nobody}
    BY NobodyIsNoWriter DEF TypeOK
  <1>1. CASE BeginRun(r)
    <2>1. record' \in [Runs -> {"none", "running", "completed"}]
      BY <1>1 DEF BeginRun, TypeOK
    <2>2. pc' \in [Writers -> Steps]
      BY <1>0, <1>1, GotoStep DEF BeginRun, Steps
    <2> QED
      BY <1>1, <2>1, <2>2, FaultTyped DEF BeginRun, TypeOK
  <1>2. CASE MaybeStage(r)
    <2>1. local' \in [Writers -> Locals]
      BY <1>0, <1>2, SetStep, ChangedIsLocal DEF MaybeStage
    <2> QED
      BY <1>2, <2>1 DEF MaybeStage, TypeOK, disk
  <1>3. CASE CompleteSessionMemory(r)
    <2>1. pc' \in [Writers -> Steps]
      BY <1>0, <1>3, GotoStep DEF CompleteSessionMemory, Steps
    <2> QED
      BY <1>3, <2>1 DEF CompleteSessionMemory, TypeOK, disk
  <1>4. CASE RecordMergedRun(r)
    <2>1. local[r].ep \in EpisodeIds \cup {NoEpisode}
      BY <1>0 DEF Locals
    <2>2. merged' \in [Runs -> EpisodeIds \cup {NoEpisode}]
      BY <1>4, <2>1 DEF RecordMergedRun, TypeOK
    <2>3. pc' \in [Writers -> Steps]
      BY <1>0, <1>4, GotoStep DEF RecordMergedRun, Steps, Writing
    <2> QED
      BY <1>4, <2>2, <2>3 DEF RecordMergedRun, TypeOK
  <1>5. CASE FinishRun(r)
    <2>1. local[r].out \in EpisodeIds \cup {NoEpisode}
      BY <1>0 DEF Locals
    <2>2. /\ record' \in [Runs -> {"none", "running", "completed"}]
          /\ recordEp' \in [Runs -> EpisodeIds \cup {NoEpisode}]
      BY <1>5, <2>1 DEF FinishRun, TypeOK
    <2>3. pc' \in [Writers -> Steps] /\ local' \in [Writers -> Locals]
      BY <1>0, <1>5, GotoStep, SetStep, FreshIsLocal DEF FinishRun, Steps
    <2> QED
      BY <1>5, <2>2, <2>3, FaultTyped DEF FinishRun, TypeOK
  <1>6. CASE Panic(r)
    <2>1. pc' \in [Writers -> Steps] /\ local' \in [Writers -> Locals]
      BY <1>0, <1>6, GotoStep, SetStep, FreshIsLocal DEF Panic, Steps
    <2> QED
      BY <1>0, <1>6, <2>1, FaultTyped, ReleaseTyped DEF Panic, TypeOK, disk
  <1>7. CASE RecoverIfIncomplete(r)
    <2>1. merged[r] \in EpisodeIds \cup {NoEpisode}
      BY DEF TypeOK
    <2>2. pc' \in [Writers -> Steps] /\ local' \in [Writers -> Locals]
      BY <1>0, <1>7, <2>1, GotoStep, SetStep, FreshIsLocal DEF RecoverIfIncomplete, Steps
    <2> QED
      BY <1>7, <2>2 DEF RecoverIfIncomplete, TypeOK, disk
  <1> QED
    BY <1>1, <1>2, <1>3, <1>4, <1>5, <1>6, <1>7

LEMMA TypeMain ==
  ASSUME TypeOK,
         \/ AppendRecent \/ Observe \/ RemoveObserved \/ ForceReflect \/ Crash \/ StartupDone
         \/ UNCHANGED vars
  PROVE  TypeOK'
  <1> USE DEF locks
  <1>0. /\ Main \in Writers /\ local[Main] \in Locals /\ log \in LogEntries
        /\ recent \in Seq(1 .. MaxRecent) /\ said \in 0 .. MaxRecent
        /\ {mergeLock, logLock, reflectionLock} \subseteq Writers \cup {Nobody}
    BY NobodyIsNoWriter DEF TypeOK
  <1>1. CASE AppendRecent
    <2>1. said' \in 0 .. MaxRecent /\ said + 1 \in 1 .. MaxRecent
      BY <1>0, <1>1, MergeAssumption DEF AppendRecent
    <2>2. recent' \in Seq(1 .. MaxRecent)
      BY <1>0, <1>1, <2>1 DEF AppendRecent
    <2> QED
      BY <1>1, <2>1, <2>2 DEF AppendRecent, TypeOK, volatile
  <1>2. CASE Observe
    <2>1. pc' \in [Writers -> Steps] /\ local' \in [Writers -> Locals]
      BY <1>0, <1>2, GotoStep, SetStep, FreshIsLocal DEF Observe, Steps
    <2> QED
      BY <1>2, <2>1 DEF Observe, TypeOK, disk
  <1>3. CASE RemoveObserved
    <2>1. pc' \in [Writers -> Steps] /\ local' \in [Writers -> Locals]
      BY <1>0, <1>3, GotoStep, SetStep, FreshIsLocal DEF RemoveObserved, Steps
    <2>2. ASSUME NEW n \in Nat PROVE SubSeq(recent, n + 1, Len(recent)) \in Seq(1 .. MaxRecent)
      BY <1>0, DroppedFirst
    <2>3. Len(local[Main].recent) \in Nat
      BY <1>0 DEF Locals
    <2>4. recent' \in Seq(1 .. MaxRecent)
      BY <1>0, <1>3, <2>2, <2>3 DEF RemoveObserved
    <2> QED
      BY <1>3, <2>1, <2>4, FaultTyped DEF RemoveObserved, TypeOK
  <1>4. CASE ForceReflect
    <2>1. pc' \in [Writers -> Steps] /\ local' \in [Writers -> Locals]
      BY <1>0, <1>4, GotoStep, SetStep, FreshIsLocal DEF ForceReflect, Steps
    <2> QED
      BY <1>0, <1>4, <2>1 DEF ForceReflect, TypeOK, disk
  <1>5. CASE Crash
    <2>1. pc' \in [Writers -> Steps] /\ local' \in [Writers -> Locals]
      BY <1>5, FreshIsLocal DEF Crash, Steps
    <2> QED
      BY <1>5, <2>1, FaultTyped DEF Crash, TypeOK, disk
  <1>6. CASE StartupDone
    BY <1>6 DEF StartupDone, TypeOK, disk
  <1>7. CASE UNCHANGED vars
    BY <1>7 DEF vars, TypeOK, disk, volatile
  <1> QED
    BY <1>1, <1>2, <1>3, <1>4, <1>5, <1>6, <1>7

LEMMA TypeNext ==
  ASSUME TypeOK, WritersKept, [Next]_vars
  PROVE  TypeOK'
  BY TypePipeline, TypeWrite, TypeRun, TypeMain DEF Next, MergeStep, WritersKept
-----------------------------------------------------------------------------
(* What a step of one writer leaves of the others.                         *)

\* Files are only added to, an episode that was begun keeps its owner and its
\* messages, and a run that was recorded as merged stays so.
Grown ==
    /\ \A e \in EpisodeIds :
          /\ files[e] \subseteq files'[e]
          /\ files[e] # {} => owner'[e] = owner[e] /\ covers'[e] = covers[e]
    /\ \A r \in Runs : merged[r] # NoEpisode => merged'[r] = merged[r]

\* A step that is not writer x's.
Aside(x) ==
    /\ pc'[x] = pc[x] /\ local'[x] = local[x]
    /\ mergeLock' = x <=> mergeLock = x
    /\ logLock' = x <=> logLock = x
    /\ reflectionLock' = x <=> reflectionLock = x
    /\ mergeLock = x => UNCHANGED <<files, owner, covers>>
    /\ logLock = x => UNCHANGED log
    /\ x \in Runs => merged'[x] = merged[x]

LEMMA AccountedKept ==
  ASSUME NEW w, NEW e, Accounted(w, e), Grown
  PROVE  Accounted(w, e)' /\ covers'[e] = covers[e]
  <1>1. files[e] # {} /\ e # NoEpisode
    BY NobodyIsNoWriter DEF Accounted, Whole
  <1> QED
    BY <1>1 DEF Accounted, Grown

LEMMA AsideKept ==
  ASSUME NEW x \in Writers, LocksHeld(x), MergeAt(x), Aside(x), Grown
  PROVE  LocksHeld(x)' /\ MergeAt(x)'
  <1> USE DEF Aside
  <1>1. LocksHeld(x)'
    BY DEF LocksHeld
  <1>a. PICK e, o : e = local[x].ep /\ o = local[x].out
    OBVIOUS
  <1>2. /\ local'[x].ep = e /\ local'[x].out = o /\ local'[x].recent = local[x].recent
        /\ local'[x].forced = local[x].forced /\ pc'[x] = pc[x]
    BY <1>a
  <1>3. pc[x] \in Persisting => files' = files /\ owner' = owner /\ covers' = covers
    BY DEF LocksHeld
  <1>4. pc[x] = "done" => Accounted(x, e)'
    BY <1>a, AccountedKept DEF MergeAt, OutcomeAt
  <1>5. pc[x] \in {"reflect?"} \cup Reflecting /\ ~local[x].forced =>
            Accounted(x, e)' /\ ToSet(local[x].recent) \subseteq covers'[e]
    BY <1>a, AccountedKept DEF MergeAt, OutcomeAt
  <1>6. o # NoEpisode => /\ pc[x] = "merged"
                         /\ Accounted(x, o)'
                         /\ ToSet(local[x].recent) \subseteq covers'[o]
    BY <1>a, AccountedKept DEF MergeAt, OutcomeAt
  <1>7. /\ Accounted(x, local[x].ep)' <=> Accounted(x, e)'
        /\ Accounted(x, local[x].out)' <=> Accounted(x, o)'
    BY <1>2 DEF Accounted
  <1>8. EpisodeAt(x)'
    BY <1>a, <1>2, <1>3 DEF MergeAt, EpisodeAt, Persisting
  <1>9. OutcomeAt(x)'
    BY <1>a, <1>2, <1>4, <1>5, <1>6, <1>7 DEF MergeAt, OutcomeAt
  <1> QED
    BY <1>1, <1>8, <1>9 DEF MergeAt

LEMMA WritersKeptBy ==
  ASSUME WritersKept, Grown, NEW w, w \in Writers => LocksHeld(w)' /\ MergeAt(w)',
         \A x \in Writers : x # w => Aside(x)
  PROVE  WritersKept'
  BY AsideKept DEF WritersKept

LEMMA UnwrittenGrown ==
  ASSUME UNCHANGED <<files, owner, covers, merged>>
  PROVE  Grown
  BY DEF Grown

LEMMA UnwrittenDisk ==
  ASSUME DiskKept, UNCHANGED <<recordEp, files, owner, covers, log, merged>>
  PROVE  DiskKept'
  BY DEF DiskKept, EpisodeKept, RunKept, Logged, Accounted

LEMMA UnwrittenRecent ==
  ASSUME TypeOK, RecentKept, UNCHANGED <<recent, said>>,
         \A e \in EpisodeIds : covers[e] \subseteq covers'[e],
         local'[Main].recent \in {local[Main].recent, <<>>, recent}
  PROVE  RecentKept'
  <1>1. LoadedFirst'
    <2>1. recent \in Seq(1 .. MaxRecent)
      BY DEF TypeOK
    <2>2. CASE local'[Main].recent = <<>>
      BY <2>1, <2>2 DEF LoadedFirst
    <2>3. CASE local'[Main].recent = recent
      BY <2>1, <2>3 DEF LoadedFirst
    <2>4. CASE local'[Main].recent = local[Main].recent
      BY <2>4 DEF RecentKept, LoadedFirst
    <2> QED
      BY <2>2, <2>3, <2>4
  <1>2. RecentUntilObserved'
    BY DEF RecentKept, RecentUntilObserved
  <1> QED
    BY <1>1, <1>2 DEF RecentKept

\* A step of writer w in memory.
LEMMA LocalStep ==
  ASSUME Inv, TypeOK', NEW w \in Writers,
         UNCHANGED <<recordEp, files, owner, covers, log, merged, recent, said>>,
         \A x \in Writers : x # w => pc'[x] = pc[x] /\ local'[x] = local[x],
         mergeLock' \in {mergeLock, w} \/ (mergeLock = w /\ mergeLock' = Nobody),
         mergeLock' = w => mergeLock \in {w, Nobody},
         logLock' \in {logLock, w} \/ (logLock = w /\ logLock' = Nobody),
         logLock' = w => logLock \in {w, Nobody},
         reflectionLock' \in {reflectionLock, w} \/ (reflectionLock = w /\ reflectionLock' = Nobody),
         reflectionLock' = w => reflectionLock \in {w, Nobody},
         LocksHeld(w)', MergeAt(w)',
         local'[w].recent \in {local[w].recent, <<>>, recent}
  PROVE  Inv'
  <1>1. \A x \in Writers : x # w => Aside(x)
    BY NobodyIsNoWriter DEF Aside
  <1>2. WritersKept'
    BY <1>1, WritersKeptBy, UnwrittenGrown DEF Inv
  <1>3. DiskKept'
    BY UnwrittenDisk DEF Inv
  <1>4. RecentKept'
    BY UnwrittenRecent, NobodyIsNoWriter DEF Inv
  <1> QED
    BY <1>2, <1>3, <1>4 DEF Inv
-----------------------------------------------------------------------------
(* Steps in memory.                                                        *)

\* next_episode_id is above every transcript on disk.
LEMMA NextIsFresh ==
  \A e \in Transcripts : e < NextEpisodeId
  <1> DEFINE P(n) == (\A e \in Transcripts : e < n) /\ (n = 1 \/ n - 1 \in Transcripts)
  <1>0. Transcripts \subseteq EpisodeIds /\ MaxEpisodes \in Nat /\ MaxEpisodes > 0
    BY MergeAssumption DEF Transcripts
  <1>1. \E n \in 1 .. MaxEpisodes + 1 : P(n)
    <2>1. CASE Transcripts = {}
      <3>1. 1 \in 1 .. MaxEpisodes + 1 /\ P(1)
        BY <1>0, <2>1
      <3> QED
        BY <3>1
    <2>2. CASE Transcripts # {}
      <3> DEFINE T == {MaxEpisodes - e : e \in Transcripts}
      <3>1. \A e \in Transcripts : e \in Int /\ 1 <= e /\ e <= MaxEpisodes
        BY <1>0 DEF EpisodeIds
      <3>2. T \subseteq Nat /\ T # {}
        BY <1>0, <2>2, <3>1
      <3>3. PICK t \in T : \A u \in T : ~ (<<u, t>> \in OpToRel(<, Nat))
        <4> HIDE DEF T
        <4> QED
          BY <3>2, WFMin, NatLessThanWellFounded
      <3>4. PICK m \in Transcripts : t = MaxEpisodes - m
        OBVIOUS
      <3>5. \A u \in T : ~ (u < t)
        BY <3>2, <3>3 DEF OpToRel
      <3>6. ASSUME NEW e \in Transcripts PROVE e < m + 1
        <4>1. ~ (MaxEpisodes - e < MaxEpisodes - m)
          BY <3>4, <3>5
        <4> QED
          BY <1>0, <3>1, <4>1
      <3>7. m + 1 \in 1 .. MaxEpisodes + 1 /\ P(m + 1)
        BY <1>0, <3>1, <3>4, <3>6
      <3> QED
        BY <3>7
    <2> QED
      BY <2>1, <2>2
  <1>2. P(CHOOSE n \in 1 .. MaxEpisodes + 1 : P(n))
    <2> HIDE DEF P
    <2> QED
      BY <1>1
  <1> QED
    BY <1>2 DEF NextEpisodeId

\* The steps of merge up to the lock: what was merged before is returned.
LEMMA CheckKeeps ==
  ASSUME Inv, TypeOK', NEW w \in Writers, CheckMerged(w) \/ TakeMergeLock(w)
  PROVE  Inv'
  <1> USE DEF disk, locks
  <1>0. TypeOK /\ LocksHeld(w) /\ MergeAt(w) /\ local[w] \in Locals
    BY DEF Inv, WritersKept, TypeOK
  <1>1. /\ pc[w] \in {"check", "lock"} /\ UNCHANGED <<disk, said, phase, todo, logLock, reflectionLock>>
    BY DEF CheckMerged, TakeMergeLock
  <1>2. local[w].out = NoEpisode /\ ~local[w].forced
    BY <1>0, <1>1 DEF MergeAt, OutcomeAt, Reflecting, Locals
  <1>3. CASE AlreadyMerged(w)
    <2>1. /\ local' = [local EXCEPT ![w] = [local[w] EXCEPT !.out = merged[w]]]
          /\ pc' = [pc EXCEPT ![w] = "merged"] /\ mergeLock' = mergeLock
      BY <1>3 DEF CheckMerged, TakeMergeLock, Goto, Set
    <2>2. /\ pc'[w] = "merged" /\ local'[w] = [local[w] EXCEPT !.out = merged[w]]
          /\ \A x \in Writers : x # w => pc'[x] = pc[x] /\ local'[x] = local[x]
      BY <1>0, <2>1 DEF TypeOK
    <2>3. /\ local'[w].out = merged[w] /\ local'[w].recent = local[w].recent
          /\ local'[w].forced = FALSE
      BY <1>0, <1>2, <2>2 DEF Locals
    <2>4. w \in Runs /\ Accounted(w, merged[w])
      BY <1>3 DEF AlreadyMerged, Inv, DiskKept, RunKept
    <2>5. Accounted(w, local[w].out)'
      BY <1>1, <2>3, <2>4 DEF Accounted
    <2>6. ToSet(local[w].recent) = {}
      BY <1>0, <2>4 DEF MergeAt, OutcomeAt, ToSet
    <2>7. LocksHeld(w)' /\ EpisodeAt(w)'
      BY <1>0, <1>1, <2>1, <2>2 DEF LocksHeld, EpisodeAt, Persisting, InLog, Reflecting
    <2>8. OutcomeAt(w)'
      BY <1>0, <2>2, <2>3, <2>5, <2>6 DEF MergeAt, OutcomeAt, Reflecting
    <2> QED
      BY <1>1, <2>1, <2>2, <2>3, <2>7, <2>8, LocalStep DEF MergeAt
  <1>4. CASE CheckMerged(w) /\ ~AlreadyMerged(w)
    <2>1. local' = local /\ mergeLock' = mergeLock /\ pc' = [pc EXCEPT ![w] = "lock"]
          /\ pc[w] = "check"
      BY <1>4 DEF CheckMerged, Goto
    <2>2. pc'[w] = "lock" /\ \A x \in Writers : x # w => pc'[x] = pc[x]
      BY <1>0, <2>1 DEF TypeOK
    <2>3. LocksHeld(w)' /\ EpisodeAt(w)'
      BY <1>0, <1>1, <2>1, <2>2 DEF LocksHeld, EpisodeAt, Persisting, InLog, Reflecting
    <2>4. OutcomeAt(w)'
      BY <1>0, <1>2, <2>1, <2>2 DEF MergeAt, OutcomeAt, Reflecting
    <2> QED
      BY <1>1, <2>1, <2>2, <2>3, <2>4, LocalStep DEF MergeAt
  <1>5. CASE TakeMergeLock(w) /\ ~AlreadyMerged(w)
    <2>1. /\ mergeLock = Nobody /\ mergeLock' = w /\ NextEpisodeId \in EpisodeIds
          /\ local' = [local EXCEPT ![w] = [local[w] EXCEPT !.ep = NextEpisodeId]]
          /\ pc' = [pc EXCEPT ![w] = "transcript"] /\ pc[w] = "lock"
      BY <1>5 DEF TakeMergeLock, Goto, Set
    <2>2. /\ pc'[w] = "transcript" /\ local'[w] = [local[w] EXCEPT !.ep = NextEpisodeId]
          /\ \A x \in Writers : x # w => pc'[x] = pc[x] /\ local'[x] = local[x]
      BY <1>0, <2>1 DEF TypeOK
    <2>3. PICK e \in EpisodeIds : e = NextEpisodeId
      BY <2>1
    <2>4. /\ local'[w].ep = e /\ local'[w].out = NoEpisode
          /\ local'[w].recent = local[w].recent /\ local'[w].forced = FALSE
      BY <1>0, <1>2, <2>2, <2>3 DEF Locals
    <2>5. files[e] = {}
      <3>1. e \notin Transcripts
        BY <2>3, NextIsFresh DEF EpisodeIds
      <3> QED
        BY <3>1 DEF Transcripts, Inv, DiskKept, EpisodeKept
    <2>6. w \in Runs => merged[w] = NoEpisode
      BY <1>5 DEF AlreadyMerged
    <2>7. LocksHeld(w)' /\ EpisodeAt(w)'
      BY <1>0, <1>1, <2>1, <2>2, <2>4, <2>5, <2>6
         DEF LocksHeld, EpisodeAt, Persisting, InLog, Reflecting
    <2>8. OutcomeAt(w)'
      BY <1>0, <2>2, <2>4 DEF MergeAt, OutcomeAt, Reflecting
    <2> QED
      BY <1>1, <2>1, <2>2, <2>4, <2>7, <2>8, LocalStep DEF MergeAt
  <1> QED
    BY <1>3, <1>4, <1>5

LEMMA LoadKeeps ==
  ASSUME Inv, TypeOK', NEW w \in Writers, LoadLog(w)
  PROVE  Inv'
  <1> USE DEF disk, locks
  <1>0. TypeOK /\ LocksHeld(w) /\ MergeAt(w) /\ local[w] \in Locals
    BY DEF Inv, WritersKept, TypeOK
  <1>1. /\ pc[w] = "log" /\ pc' = [pc EXCEPT ![w] = "append"]
        /\ logLock = Nobody /\ logLock' = w
        /\ local' = [local EXCEPT ![w] = [local[w] EXCEPT !.seen = log]]
        /\ UNCHANGED <<disk, said, mergeLock, reflectionLock>>
    BY DEF LoadLog, Goto, Set
  <1>2. /\ pc'[w] = "append" /\ local'[w] = [local[w] EXCEPT !.seen = log]
        /\ \A x \in Writers : x # w => pc'[x] = pc[x] /\ local'[x] = local[x]
    BY <1>0, <1>1 DEF TypeOK
  <1>3. /\ local'[w].ep = local[w].ep /\ local'[w].out = local[w].out /\ local'[w].seen = log
        /\ local'[w].recent = local[w].recent /\ local'[w].forced = local[w].forced
    BY <1>0, <1>2 DEF Locals
  <1>4. LocksHeld(w)'
    BY <1>0, <1>1, <1>2, <1>3 DEF LocksHeld, Persisting, InLog, Reflecting
  <1>5. EpisodeAt(w)'
    BY <1>0, <1>1, <1>2, <1>3 DEF MergeAt, EpisodeAt, Persisting
  <1>6. OutcomeAt(w)'
    BY <1>0, <1>1, <1>2, <1>3 DEF MergeAt, OutcomeAt, Reflecting
  <1> QED
    BY <1>1, <1>2, <1>3, <1>4, <1>5, <1>6, LocalStep DEF MergeAt

\* A reflection begins, by a merge or by /reflect.
LEMMA ReflectKeeps ==
  ASSUME Inv, TypeOK', NEW w \in Writers, StartReflection(w) \/ (w = Main /\ ForceReflect)
  PROVE  Inv'
  <1> USE DEF disk, locks
  <1>0. TypeOK /\ LocksHeld(w) /\ MergeAt(w) /\ local[w] \in Locals
    BY DEF Inv, WritersKept, TypeOK
  <1>1. PICK l \in Locals :
          /\ local' = [local EXCEPT ![w] = l]
          /\ \/ /\ pc[w] = "reflect?" /\ l.ep = local[w].ep /\ l.out = local[w].out
                /\ l.recent = local[w].recent /\ l.forced = local[w].forced
             \/ /\ pc[w] = "idle" /\ w = Main /\ l.out = NoEpisode /\ l.recent = <<>>
                /\ l.forced = TRUE
    <2>1. log \in LogEntries
      BY <1>0 DEF TypeOK
    <2>2. CASE StartReflection(w)
      <3>1. [local[w] EXCEPT !.snapshot = log] \in Locals
        BY <1>0, <2>1, ChangedIsLocal
      <3> QED
        BY <1>0, <2>2, <3>1 DEF StartReflection, Set, Locals
    <2>3. CASE w = Main /\ ForceReflect
      <3>1. [Fresh EXCEPT !.snapshot = log, !.forced = TRUE] \in Locals
        BY <2>1, FreshIsLocal
      <3> QED
        BY <2>3, <3>1 DEF ForceReflect, Set, Fresh
    <2> QED
      BY <2>2, <2>3
  <1>2. /\ pc' = [pc EXCEPT ![w] = "compress"] /\ reflectionLock = Nobody /\ reflectionLock' = w
        /\ UNCHANGED <<disk, said, mergeLock, logLock>>
    BY DEF StartReflection, ForceReflect, Goto
  <1>3. /\ pc'[w] = "compress" /\ local'[w] = l
        /\ \A x \in Writers : x # w => pc'[x] = pc[x] /\ local'[x] = local[x]
    BY <1>0, <1>1, <1>2 DEF TypeOK
  <1>4. LocksHeld(w)' /\ EpisodeAt(w)'
    BY <1>0, <1>1, <1>2, <1>3 DEF LocksHeld, EpisodeAt, Persisting, InLog, Reflecting
  <1>5. Accounted(w, local[w].ep) /\ local'[w].ep = local[w].ep => Accounted(w, local[w].ep)'
    BY <1>2 DEF Accounted
  <1>6. OutcomeAt(w)'
    BY <1>0, <1>1, <1>2, <1>3, <1>5, NobodyIsNoWriter DEF MergeAt, OutcomeAt, Reflecting
  <1> QED
    BY <1>1, <1>2, <1>3, <1>4, <1>6, LocalStep DEF MergeAt
\* merge returns its episode, and /reflect nothing.
LEMMA ReflectDoneAt ==
  ASSUME Inv, NEW w \in Writers, ReflectDone(w), pc[w] \in {"reflect?", "compress", "replace"},
         UNCHANGED <<files, owner, covers, merged>>
  PROVE  /\ pc'[w] \in {"idle", "merged"} /\ EpisodeAt(w)' /\ OutcomeAt(w)'
         /\ \A x \in Writers : x # w => pc'[x] = pc[x] /\ local'[x] = local[x]
         /\ local'[w].recent \in {local[w].recent, <<>>}
  <1>0. TypeOK /\ MergeAt(w) /\ local[w] \in Locals
    BY DEF Inv, WritersKept, TypeOK
  <1>1. CASE local[w].forced
    <2>1. /\ pc'[w] = "idle" /\ local'[w] = Fresh
          /\ \A x \in Writers : x # w => pc'[x] = pc[x] /\ local'[x] = local[x]
      BY <1>0, <1>1 DEF ReflectDone, Goto, Set, TypeOK
    <2>2. /\ local'[w].out = NoEpisode /\ local'[w].recent = <<>> /\ local'[w].forced = FALSE
      BY <2>1 DEF Fresh
    <2> QED
      BY <2>1, <2>2 DEF EpisodeAt, OutcomeAt, Persisting, Reflecting
  <1>2. CASE ~local[w].forced
    <2>1. /\ pc'[w] = "merged" /\ local'[w] = Outcome(w)
          /\ \A x \in Writers : x # w => pc'[x] = pc[x] /\ local'[x] = local[x]
      BY <1>0, <1>2 DEF ReflectDone, Goto, Set, TypeOK
    <2>2. PICK e : e = local[w].ep
      OBVIOUS
    <2>3. /\ local'[w].out = e /\ local'[w].recent = local[w].recent /\ local'[w].forced = FALSE
      BY <1>0, <1>2, <2>1, <2>2 DEF Outcome, Locals
    <2>4. Accounted(w, e) /\ ToSet(local[w].recent) \subseteq covers[e]
      BY <1>0, <1>2, <2>2 DEF MergeAt, OutcomeAt, Reflecting
    <2>5. Accounted(w, local[w].out)'
      BY <2>3, <2>4 DEF Accounted
    <2>6. EpisodeAt(w)'
      BY <2>1 DEF EpisodeAt, Persisting
    <2>7. OutcomeAt(w)'
      BY <1>0, <2>1, <2>3, <2>4, <2>5 DEF MergeAt, OutcomeAt, Reflecting
    <2> QED
      BY <2>1, <2>3, <2>6, <2>7
  <1> QED
    BY <1>1, <1>2

LEMMA CompressKeeps ==
  ASSUME Inv, TypeOK', NEW w \in Writers, SkipReflection(w) \/ Compress(w)
  PROVE  Inv'
  <1> USE DEF disk, locks
  <1>0. TypeOK /\ LocksHeld(w) /\ MergeAt(w) /\ local[w] \in Locals
    BY DEF Inv, WritersKept, TypeOK
  <1>1. UNCHANGED <<disk, said, mergeLock>>
    BY DEF SkipReflection, Compress
  <1>2. CASE ReflectDone(w)
             /\ \/ pc[w] = "reflect?" /\ UNCHANGED <<logLock, reflectionLock>>
                \/ /\ pc[w] = "compress" /\ logLock' = logLock
                   /\ reflectionLock' = Released(reflectionLock, w)
    <2>1. /\ pc'[w] \in {"idle", "merged"} /\ EpisodeAt(w)' /\ OutcomeAt(w)'
          /\ \A x \in Writers : x # w => pc'[x] = pc[x] /\ local'[x] = local[x]
          /\ local'[w].recent \in {local[w].recent, <<>>}
      BY <1>1, <1>2, ReflectDoneAt
    <2>2. reflectionLock' # w /\ logLock' # w /\ mergeLock' # w
      BY <1>0, <1>1, <1>2, NobodyIsNoWriter
         DEF LocksHeld, Persisting, InLog, Reflecting, Released
    <2>3. LocksHeld(w)'
      BY <2>1, <2>2 DEF LocksHeld, Persisting, InLog, Reflecting
    <2> QED
      BY <1>1, <1>2, <2>1, <2>3, LocalStep DEF MergeAt, Released
  <1>3. CASE /\ pc[w] = "compress" /\ logLock = Nobody /\ logLock' = w
             /\ Set(w, [local[w] EXCEPT !.seen = log]) /\ Goto(w, "replace")
             /\ UNCHANGED reflectionLock
    <2>1. /\ pc'[w] = "replace" /\ local'[w] = [local[w] EXCEPT !.seen = log]
          /\ \A x \in Writers : x # w => pc'[x] = pc[x] /\ local'[x] = local[x]
      BY <1>0, <1>3 DEF Goto, Set, TypeOK
    <2>2. /\ local'[w].ep = local[w].ep /\ local'[w].out = local[w].out /\ local'[w].seen = log
          /\ local'[w].recent = local[w].recent /\ local'[w].forced = local[w].forced
      BY <1>0, <2>1 DEF Locals
    <2>3. LocksHeld(w)' /\ EpisodeAt(w)'
      BY <1>0, <1>1, <1>3, <2>1, <2>2 DEF LocksHeld, EpisodeAt, Persisting, InLog, Reflecting
    <2>4. Accounted(w, local[w].ep)' <=> Accounted(w, local[w].ep)
      BY <1>1, <2>2 DEF Accounted
    <2>5. OutcomeAt(w)'
      BY <1>0, <1>1, <1>3, <2>1, <2>2, <2>4 DEF MergeAt, OutcomeAt, Reflecting
    <2> QED
      BY <1>1, <1>3, <2>1, <2>2, <2>3, <2>5, LocalStep DEF MergeAt
  <1> QED
    BY <1>2, <1>3 DEF SkipReflection, Compress

\* A pipeline that begins, or begins again, holds nothing.
LEMMA FreshKeeps ==
  ASSUME Inv, TypeOK', NEW w \in Writers, ReleaseAll(w),
         NEW step, step \notin Persisting \cup InLog \cup Reflecting \cup {"reflect?"},
         NEW l \in Locals, l.out = NoEpisode, l.forced = FALSE,
         l.recent = <<>> \/ (w = Main /\ l.recent = recent),
         pc' = [pc EXCEPT ![w] = step], local' = [local EXCEPT ![w] = l],
         UNCHANGED <<recordEp, files, owner, covers, log, merged, recent, said>>
  PROVE  Inv'
  <1>0. TypeOK /\ LocksHeld(w)
    BY DEF Inv, WritersKept, TypeOK
  <1>1. /\ pc'[w] = step /\ local'[w] = l
        /\ \A x \in Writers : x # w => pc'[x] = pc[x] /\ local'[x] = local[x]
    BY <1>0 DEF TypeOK
  <1>2. reflectionLock' # w /\ logLock' # w /\ mergeLock' # w
    BY NobodyIsNoWriter DEF ReleaseAll, Released
  <1>3. LocksHeld(w)' /\ EpisodeAt(w)'
    BY <1>1, <1>2 DEF LocksHeld, EpisodeAt, Persisting
  <1>4. OutcomeAt(w)'
    BY <1>1, NobodyIsNoWriter DEF OutcomeAt, Persisting
  <1> QED
    <2>1. /\ mergeLock' = mergeLock \/ (mergeLock = w /\ mergeLock' = Nobody)
          /\ logLock' = logLock \/ (logLock = w /\ logLock' = Nobody)
          /\ reflectionLock' = reflectionLock \/ (reflectionLock = w /\ reflectionLock' = Nobody)
      BY DEF ReleaseAll, Released
    <2>2. local'[w].recent \in {local[w].recent, <<>>, recent} /\ MergeAt(w)'
      BY <1>1, <1>3, <1>4 DEF MergeAt
    <2> QED
      BY <1>1, <1>2, <1>3, <2>1, <2>2, LocalStep

\* A writer at a step without a lock.
LEMMA NothingHeld ==
  ASSUME NEW w \in Writers, LocksHeld(w), pc[w] \notin Persisting \cup InLog \cup Reflecting
  PROVE  mergeLock # w /\ logLock # w /\ reflectionLock # w
  BY DEF LocksHeld

LEMMA NothingReleased ==
  ASSUME NEW w, mergeLock # w, logLock # w, reflectionLock # w, UNCHANGED locks
  PROVE  ReleaseAll(w)
  BY DEF ReleaseAll, Released, locks

LEMMA ObserveKeeps ==
  ASSUME Inv, TypeOK', Observe
  PROVE  Inv'
  <1> USE DEF disk, locks
  <1>0. TypeOK /\ LocksHeld(Main) /\ Main \in Writers /\ recent \in Seq(1 .. MaxRecent)
    BY NobodyIsNoWriter DEF Inv, WritersKept, TypeOK
  <1>1. ReleaseAll(Main)
    BY <1>0, NothingHeld, NothingReleased DEF Observe, Persisting, InLog, Reflecting
  <1> DEFINE l == [Fresh EXCEPT !.recent = recent]
  <1>2. l \in Locals
    BY <1>0, FreshIsLocal
  <1>3. l.out = NoEpisode /\ l.forced = FALSE /\ l.recent = recent
    BY DEF Fresh
  <1>4. pc' = [pc EXCEPT ![Main] = "check"] /\ local' = [local EXCEPT ![Main] = l]
        /\ UNCHANGED <<disk, said>>
    BY DEF Observe, Goto, Set
  <1> HIDE DEF l
  <1> QED
    BY <1>0, <1>1, <1>2, <1>3, <1>4, FreshKeeps DEF Persisting, InLog, Reflecting

LEMMA PanicKeeps ==
  ASSUME Inv, TypeOK', NEW r \in Runs, Panic(r)
  PROVE  Inv'
  <1> USE DEF disk
  <1> DEFINE l == IF local[r].panicked THEN Fresh ELSE [Fresh EXCEPT !.panicked = TRUE]
             s == IF local[r].panicked THEN "over" ELSE "panicked"
  <1>1. l \in Locals
    BY FreshIsLocal
  <1>2. l.out = NoEpisode /\ l.forced = FALSE /\ l.recent = <<>>
    BY DEF Fresh
  <1>3. s \notin Persisting \cup InLog \cup Reflecting \cup {"reflect?"}
    BY DEF Persisting, InLog, Reflecting
  <1>4. /\ pc' = [pc EXCEPT ![r] = s] /\ local' = [local EXCEPT ![r] = l]
        /\ ReleaseAll(r) /\ UNCHANGED <<disk, said>>
    BY DEF Panic, Goto, Set
  <1> HIDE DEF l, s
  <1> QED
    BY <1>1, <1>2, <1>3, <1>4, FreshKeeps, NobodyIsNoWriter

\* The steps of a run outside merge.
LEMMA RunKeeps ==
  ASSUME Inv, TypeOK', NEW r \in Runs,
         BeginRun(r) \/ MaybeStage(r) \/ CompleteSessionMemory(r) \/ RecoverIfIncomplete(r)
  PROVE  Inv'
  <1> USE DEF disk, locks
  <1>0. /\ TypeOK /\ r \in Writers /\ LocksHeld(r) /\ MergeAt(r) /\ local[r] \in Locals
        /\ RunKept(r)
    BY NobodyIsNoWriter DEF Inv, WritersKept, TypeOK, DiskKept
  <1>1. /\ UNCHANGED <<recordEp, files, owner, covers, log, merged, recent, said, locks>>
    BY DEF BeginRun, MaybeStage, CompleteSessionMemory, RecoverIfIncomplete
  <1>2. ASSUME pc[r] \in {"idle", "running", "panicked", "recovering", "over"},
               local'[r] \in Locals, local'[r].forced = FALSE, local'[r].recent = <<>>,
               \/ local'[r].out = NoEpisode
               \/ local'[r].out = merged[r] /\ AlreadyMerged(r) /\ pc'[r] = "merged",
               pc'[r] \in {"running", "check", "merged", "recovering"},
               \A x \in Writers : x # r => pc'[x] = pc[x] /\ local'[x] = local[x]
        PROVE  Inv'
    <2>1. mergeLock # r /\ logLock # r /\ reflectionLock # r
      BY <1>0, <1>2, NothingHeld DEF Persisting, InLog, Reflecting
    <2>2. LocksHeld(r)' /\ EpisodeAt(r)'
      BY <1>1, <1>2, <2>1 DEF LocksHeld, EpisodeAt, Persisting, InLog, Reflecting
    <2>3. local'[r].out # NoEpisode => Accounted(r, local[r].out)'
      <3>1. AlreadyMerged(r) => Accounted(r, merged[r])
        BY <1>0 DEF RunKept, AlreadyMerged
      <3> QED
        BY <1>1, <1>2, <3>1 DEF Accounted
    <2>4. ToSet(local'[r].recent) = {}
      BY <1>2 DEF ToSet
    <2>5. OutcomeAt(r)'
      BY <1>2, <2>3, <2>4 DEF OutcomeAt, Reflecting
    <2> QED
      BY <1>0, <1>1, <1>2, <2>2, <2>5, LocalStep DEF MergeAt
  <1>3. pc[r] \in {"running", "idle", "panicked", "recovering"} =>
          local[r].out = NoEpisode /\ local[r].forced = FALSE /\ local[r].recent = <<>>
    BY <1>0 DEF MergeAt, OutcomeAt, Reflecting, Locals
  <1>4. CASE BeginRun(r) \/ CompleteSessionMemory(r)
    <2>1. /\ local' = local /\ pc[r] \in {"idle", "running", "panicked", "recovering"}
          /\ pc'[r] \in {"running", "check", "merged"}
          /\ \A x \in Writers : x # r => pc'[x] = pc[x]
      BY <1>0, <1>4 DEF BeginRun, CompleteSessionMemory, Goto, TypeOK
    <2> QED
      BY <1>0, <1>2, <1>3, <2>1
  <1>5. CASE MaybeStage(r)
    <2>1. /\ pc' = pc /\ pc[r] = "running" /\ local'[r] = [local[r] EXCEPT !.staged = TRUE]
          /\ \A x \in Writers : x # r => local'[x] = local[x]
      BY <1>0, <1>5 DEF MaybeStage, Set, TypeOK
    <2>2. /\ local'[r].out = local[r].out /\ local'[r].forced = local[r].forced
          /\ local'[r].recent = local[r].recent
      BY <1>0, <2>1 DEF Locals
    <2>3. local'[r] \in Locals
      BY <1>0, <2>1, ChangedIsLocal
    <2> QED
      BY <1>2, <1>3, <2>1, <2>2, <2>3
  <1>6. CASE RecoverIfIncomplete(r)
    <2>0. pc[r] \in {"idle", "over"}
      BY <1>6 DEF RecoverIfIncomplete, Recovering
    <2>1. /\ \A x \in Writers : x # r => pc'[x] = pc[x] /\ local'[x] = local[x]
          /\ \/ /\ AlreadyMerged(r) /\ pc'[r] = "merged"
                /\ local'[r] = [Fresh EXCEPT !.out = merged[r]]
             \/ pc'[r] = "recovering" /\ local'[r] = Fresh
      BY <1>0, <1>6 DEF RecoverIfIncomplete, Goto, Set, TypeOK
    <2>2. local'[r] \in Locals
      BY <1>0, NobodyIsNoWriter DEF TypeOK
    <2>3. /\ local'[r].forced = FALSE /\ local'[r].recent = <<>>
          /\ local'[r].out = NoEpisode
             \/ (local'[r].out = merged[r] /\ AlreadyMerged(r) /\ pc'[r] = "merged")
      BY <2>1 DEF Fresh
    <2> QED
      BY <1>2, <2>0, <2>1, <2>2, <2>3
  <1> QED
    BY <1>4, <1>5, <1>6

\* complete_run names what merge returned.
LEMMA FinishKeeps ==
  ASSUME Inv, TypeOK', NEW r \in Runs, FinishRun(r)
  PROVE  Inv'
  <1> USE DEF locks
  <1>0. /\ TypeOK /\ r \in Writers /\ LocksHeld(r) /\ MergeAt(r) /\ pc[r] = "merged"
    BY NobodyIsNoWriter DEF Inv, WritersKept, FinishRun
  <1>1. /\ UNCHANGED <<files, owner, covers, log, merged, recent, said, locks>>
        /\ pc'[r] = "over" /\ local'[r] = Fresh
        /\ \A x \in Writers : x # r => pc'[x] = pc[x] /\ local'[x] = local[x]
    BY <1>0 DEF FinishRun, Goto, Set, TypeOK
  <1>2. mergeLock # r /\ logLock # r /\ reflectionLock # r
    BY <1>0, NothingHeld DEF Persisting, InLog, Reflecting
  <1>3. local'[r].out = NoEpisode /\ local'[r].forced = FALSE /\ local'[r].recent = <<>>
    BY <1>1 DEF Fresh
  <1>4. LocksHeld(r)' /\ MergeAt(r)'
    BY <1>1, <1>2, <1>3
       DEF LocksHeld, MergeAt, EpisodeAt, OutcomeAt, Persisting, InLog, Reflecting
  <1>5. \A x \in Writers : x # r => Aside(x)
    BY <1>1 DEF Aside
  <1>6. WritersKept'
    BY <1>1, <1>4, <1>5, WritersKeptBy, UnwrittenGrown DEF Inv
  <1>7. RecentKept'
    BY <1>1, UnwrittenRecent, NobodyIsNoWriter DEF Inv
  <1>8. ASSUME NEW q \in Runs PROVE RunKept(q)'
    <2>1. recordEp'[q] = recordEp[q] \/ (q = r /\ recordEp'[q] = local[r].out)
      BY <1>0 DEF FinishRun, TypeOK
    <2>2. local[r].out # NoEpisode => merged[r] = local[r].out
      BY <1>0 DEF MergeAt, OutcomeAt, Accounted
    <2>3. RunKept(q)
      BY DEF Inv, DiskKept
    <2> QED
      BY <1>1, <2>1, <2>2, <2>3 DEF RunKept, Accounted
  <1>9. \A e \in EpisodeIds : EpisodeKept(e)'
    BY <1>1 DEF Inv, DiskKept, EpisodeKept, Logged
  <1> QED
    BY <1>6, <1>7, <1>8, <1>9 DEF Inv, DiskKept

\* A crash keeps the disk and forgets the rest.
LEMMA CrashKeeps ==
  ASSUME Inv, TypeOK', Crash \/ StartupDone \/ UNCHANGED vars
  PROVE  Inv'
  <1> USE DEF disk, locks, volatile
  <1>1. CASE Crash
    <2>1. UNCHANGED <<disk, said>>
      BY <1>1 DEF Crash
    <2>2. ASSUME NEW w \in Writers PROVE LocksHeld(w)' /\ MergeAt(w)'
      <3>1. /\ pc'[w] \in {"idle", "over"} /\ local'[w] = Fresh
            /\ mergeLock' # w /\ logLock' # w /\ reflectionLock' # w
        BY <1>1, NobodyIsNoWriter DEF Crash
      <3>2. local'[w].out = NoEpisode /\ local'[w].forced = FALSE /\ local'[w].recent = <<>>
        BY <3>1 DEF Fresh
      <3> QED
        BY <3>1, <3>2
           DEF LocksHeld, MergeAt, EpisodeAt, OutcomeAt, Persisting, InLog, Reflecting
    <2>3. DiskKept'
      BY <2>1, UnwrittenDisk DEF Inv
    <2>4. local'[Main].recent = <<>>
      BY <1>1, NobodyIsNoWriter DEF Crash, Fresh
    <2>5. RecentKept'
      BY <2>1, <2>4, UnwrittenRecent DEF Inv
    <2> QED
      BY <2>2, <2>3, <2>5 DEF Inv, WritersKept
  <1>2. CASE StartupDone \/ UNCHANGED vars
    <2>1. UNCHANGED <<disk, said, pc, local, locks>>
      BY <1>2 DEF StartupDone, vars
    <2>2. \A x \in Writers : Aside(x)
      BY <2>1 DEF Aside
    <2>3. WritersKept'
      BY <2>1, <2>2, WritersKeptBy, UnwrittenGrown, NobodyIsNoWriter DEF Inv
    <2>4. DiskKept' /\ RecentKept'
      BY <2>1, UnwrittenDisk, UnwrittenRecent DEF Inv
    <2> QED
      BY <2>3, <2>4 DEF Inv
  <1> QED
    BY <1>1, <1>2
-----------------------------------------------------------------------------
(* Steps that write.                                                       *)

LEMMA DiskStep ==
  ASSUME Inv, TypeOK', NEW w \in Writers, Grown, \A x \in Writers : x # w => Aside(x),
         LocksHeld(w)', MergeAt(w)', DiskKept', UNCHANGED <<recent, said>>,
         local'[w].recent \in {local[w].recent, <<>>}
  PROVE  Inv'
  <1>1. WritersKept'
    BY WritersKeptBy DEF Inv
  <1>2. \A e \in EpisodeIds : covers[e] \subseteq covers'[e]
    BY DEF Inv, DiskKept, EpisodeKept, Grown
  <1>3. local'[Main].recent \in {local[Main].recent, <<>>}
    BY NobodyIsNoWriter DEF Aside
  <1>4. RecentKept'
    BY <1>2, <1>3, UnwrittenRecent DEF Inv
  <1> QED
    BY <1>1, <1>4 DEF Inv

LEMMA RunsKept ==
  ASSUME DiskKept, Grown, UNCHANGED <<merged, recordEp>>
  PROVE  \A r \in Runs : RunKept(r)'
  <1> SUFFICES ASSUME NEW r \in Runs PROVE RunKept(r)'
    OBVIOUS
  <1>1. PICK e : e = merged[r]
    OBVIOUS
  <1>2. RunKept(r)
    BY DEF DiskKept
  <1>3. e # NoEpisode => Accounted(r, e)'
    BY <1>1, <1>2, AccountedKept DEF RunKept
  <1>4. Accounted(r, merged[r])' <=> Accounted(r, e)'
    BY <1>1 DEF Accounted
  <1> QED
    BY <1>1, <1>2, <1>3, <1>4 DEF RunKept

\* Episode e is written, no other.
LEMMA EpisodeWritten ==
  ASSUME DiskKept, Grown, NEW e, UNCHANGED <<merged, recordEp>>,
         \A f \in EpisodeIds : f # e =>
            files'[f] = files[f] /\ owner'[f] = owner[f] /\ covers'[f] = covers[f],
         \A f \in EpisodeIds : Logged(f) => Logged(f)',
         e \in EpisodeIds => EpisodeKept(e)'
  PROVE  DiskKept'
  <1>1. ASSUME NEW f \in EpisodeIds, f # e PROVE EpisodeKept(f)'
    BY <1>1 DEF DiskKept, EpisodeKept
  <1> QED
    BY <1>1, RunsKept DEF DiskKept

\* A transcript is begun, whole or cut short.
LEMMA TranscriptBegun ==
  ASSUME Inv, NEW w \in Writers, NEW e, e = local[w].ep, pc[w] = "transcript",
         files'[e] = {"transcript"}, owner'[e] = w,
         \A f \in EpisodeIds : f # e =>
            files'[f] = files[f] /\ owner'[f] = owner[f] /\ covers'[f] = covers[f],
         UNCHANGED <<log, merged, recordEp>>
  PROVE  Grown /\ DiskKept'
  <1>0. TypeOK /\ MergeAt(w)
    BY DEF Inv, WritersKept
  <1>1. e \in EpisodeIds /\ files[e] = {}
    BY <1>0 DEF MergeAt, EpisodeAt, Persisting
  <1>2. Grown
    BY <1>1 DEF Grown
  <1>3. EpisodeKept(e)'
    BY DEF EpisodeKept
  <1>4. DiskKept'
    BY <1>2, <1>3, EpisodeWritten DEF Inv, Logged
  <1> QED
    BY <1>2, <1>4

LEMMA TranscriptKeeps ==
  ASSUME Inv, TypeOK', NEW w \in Writers, WriteTranscript(w)
  PROVE  Inv'
  <1> USE DEF locks
  <1>0. TypeOK /\ LocksHeld(w) /\ MergeAt(w) /\ local[w] \in Locals
    BY DEF Inv, WritersKept, TypeOK
  <1>1. PICK e, c : e = local[w].ep /\ c = ToSet(local[w].recent)
    OBVIOUS
  <1>2. /\ pc[w] = "transcript" /\ pc' = [pc EXCEPT ![w] = "obs"]
        /\ files' = [files EXCEPT ![e] = {"transcript"}] /\ owner' = [owner EXCEPT ![e] = w]
        /\ covers' = [covers EXCEPT ![e] = c]
        /\ UNCHANGED <<recordEp, log, merged, recent, said, local, locks>>
    BY <1>1 DEF WriteTranscript, Goto
  <1>3. /\ e \in EpisodeIds /\ Grown /\ DiskKept'
        /\ files'[e] = {"transcript"} /\ owner'[e] = w /\ covers'[e] = c
    <2>1. e \in EpisodeIds
      BY <1>0, <1>1, <1>2 DEF MergeAt, EpisodeAt, Persisting
    <2>2. /\ files'[e] = {"transcript"} /\ owner'[e] = w /\ covers'[e] = c
          /\ \A f \in EpisodeIds : f # e =>
                files'[f] = files[f] /\ owner'[f] = owner[f] /\ covers'[f] = covers[f]
      BY <1>0, <1>2, <2>1 DEF TypeOK
    <2> QED
      BY <1>1, <1>2, <2>1, <2>2, TranscriptBegun
  <1>4. pc'[w] = "obs" /\ \A x \in Writers : x # w => pc'[x] = pc[x]
    BY <1>0, <1>2 DEF TypeOK
  <1>5. mergeLock = w
    BY <1>0, <1>2 DEF LocksHeld, Persisting
  <1>6. \A x \in Writers : x # w => Aside(x)
    BY <1>2, <1>4, <1>5 DEF Aside
  <1>7. LocksHeld(w)' /\ EpisodeAt(w)'
    BY <1>0, <1>1, <1>2, <1>3, <1>4
       DEF LocksHeld, MergeAt, EpisodeAt, Persisting, InLog, Reflecting
  <1>8. OutcomeAt(w)'
    BY <1>0, <1>2, <1>4 DEF MergeAt, OutcomeAt, Reflecting
  <1> QED
    BY <1>2, <1>3, <1>6, <1>7, <1>8, DiskStep DEF MergeAt

\* The archive, the index and the marker; the marker is the last.
LEMMA ArtifactKeeps ==
  ASSUME Inv, TypeOK', NEW w \in Writers,
         WriteObsArchive(w) \/ WriteChunkIndex(w) \/ WriteCompletionMarker(w)
  PROVE  Inv'
  <1>0. TypeOK /\ LocksHeld(w) /\ MergeAt(w) /\ local[w] \in Locals
    BY DEF Inv, WritersKept, TypeOK
  <1>1. PICK e : e = local[w].ep
    OBVIOUS
  <1>2. PICK a, next :
          /\ \/ a = "obs" /\ next = "log" /\ mergeLock' = mergeLock
             \/ a = "idx" /\ next = "run" /\ w \in Runs /\ mergeLock' = mergeLock
             \/ a = "idx" /\ next = "done" /\ w \notin Runs /\ mergeLock' = mergeLock
             \/ a = "done" /\ next = "reflect?" /\ mergeLock' = Released(mergeLock, w)
          /\ pc[w] = a /\ files' = [files EXCEPT ![e] = @ \cup {a}]
          /\ pc' = [pc EXCEPT ![w] = next]
          /\ UNCHANGED <<recordEp, owner, covers, log, merged, recent, said, local, logLock,
                         reflectionLock>>
    BY <1>1 DEF WriteObsArchive, WriteChunkIndex, WriteCompletionMarker, WriteArtifact, Goto
  <1>3. /\ e \in EpisodeIds /\ owner[e] = w /\ covers[e] = ToSet(local[w].recent)
        /\ mergeLock = w
    BY <1>0, <1>1, <1>2 DEF MergeAt, EpisodeAt, LocksHeld, Persisting
  <1>4. /\ files'[e] = files[e] \cup {a} /\ pc'[w] = next
        /\ \A f \in EpisodeIds : f # e => files'[f] = files[f]
        /\ \A x \in Writers : x # w => pc'[x] = pc[x]
    BY <1>0, <1>2, <1>3 DEF TypeOK
  <1>5. Grown
    BY <1>2, <1>4 DEF Grown
  <1>6. \A x \in Writers : x # w => Aside(x)
    BY <1>2, <1>3, <1>4, NobodyIsNoWriter DEF Aside, Released
  <1>7. /\ a = "obs" => files[e] = {"transcript"}
        /\ a = "idx" => files[e] = {"transcript", "obs", "log"}
        /\ a = "done" => files[e] = Whole /\ Accounted(w, e)
    BY <1>0, <1>1, <1>2 DEF MergeAt, EpisodeAt, OutcomeAt
  <1>8. EpisodeKept(e)'
    <2>1. EpisodeKept(e)
      BY <1>3 DEF Inv, DiskKept
    <2>2. \/ files'[e] = {"transcript", "obs"}
          \/ files'[e] = Whole /\ "log" \in files[e]
          \/ files'[e] = Artifacts /\ "log" \in files[e] /\ a = "done"
      BY <1>2, <1>4, <1>7 DEF Whole, Artifacts
    <2>3. "log" \in files'[e] => Logged(e)'
      BY <1>2, <2>1, <2>2 DEF EpisodeKept, Logged
    <2>4. "done" \in files'[e] => files'[e] = Artifacts /\ (owner'[e] \in Runs => merged'[owner'[e]] = e)
      BY <1>2, <1>3, <1>7, <2>2 DEF Whole, Accounted
    <2> QED
      BY <2>2, <2>3, <2>4 DEF EpisodeKept, Whole, Artifacts
  <1>9. DiskKept'
    BY <1>2, <1>4, <1>5, <1>8, EpisodeWritten DEF Inv, Logged
  <1>10. LocksHeld(w)'
    BY <1>0, <1>2, <1>3, <1>4, NobodyIsNoWriter
       DEF LocksHeld, Persisting, InLog, Reflecting, Released
  <1>11. EpisodeAt(w)'
    <2>1. w \in Runs /\ next # "reflect?" => merged[w] = NoEpisode
      BY <1>0, <1>2 DEF MergeAt, EpisodeAt, Persisting
    <2> QED
      BY <1>1, <1>2, <1>3, <1>4, <1>7, <2>1 DEF EpisodeAt, Persisting, Whole
  <1>12. OutcomeAt(w)'
    <2>1. next \in {"done", "reflect?"} => Accounted(w, e)'
      <3>1. CASE next = "done"
        BY <1>2, <1>3, <1>4, <1>7, <3>1 DEF Accounted, Whole
      <3>2. CASE next = "reflect?"
        BY <1>2, <1>5, <1>7, <3>2, AccountedKept
      <3> QED
        BY <3>1, <3>2
    <2>2. Accounted(w, local[w].ep)' <=> Accounted(w, e)'
      BY <1>1, <1>2 DEF Accounted
    <2> QED
      BY <1>0, <1>1, <1>2, <1>3, <1>4, <2>1, <2>2 DEF MergeAt, OutcomeAt, Reflecting
  <1> QED
    BY <1>2, <1>5, <1>6, <1>9, <1>10, <1>11, <1>12, DiskStep DEF MergeAt
\* The append to the global log, from the log loaded under the same lock.
LEMMA AppendKeeps ==
  ASSUME Inv, TypeOK', NEW w \in Writers, AppendObservations(w)
  PROVE  Inv'
  <1>0. TypeOK /\ LocksHeld(w) /\ MergeAt(w) /\ local[w] \in Locals
    BY DEF Inv, WritersKept, TypeOK
  <1>1. PICK e : e = local[w].ep
    OBVIOUS
  <1>2. /\ pc[w] = "append" /\ pc' = [pc EXCEPT ![w] = "idx"]
        /\ log' = Append(local[w].seen, {e}) /\ files' = [files EXCEPT ![e] = @ \cup {"log"}]
        /\ logLock' = Released(logLock, w)
        /\ local' = [local EXCEPT ![w] = [local[w] EXCEPT !.seen = <<>>]]
        /\ UNCHANGED <<recordEp, owner, covers, merged, recent, said, mergeLock, reflectionLock>>
    BY <1>1 DEF AppendObservations, Goto, Set
  <1>3. /\ e \in EpisodeIds /\ owner[e] = w /\ covers[e] = ToSet(local[w].recent)
        /\ files[e] = {"transcript", "obs"} /\ mergeLock = w /\ logLock = w
        /\ local[w].seen = log
    BY <1>0, <1>1, <1>2 DEF MergeAt, EpisodeAt, LocksHeld, Persisting, InLog
  <1>4. /\ files'[e] = {"transcript", "obs", "log"} /\ pc'[w] = "idx"
        /\ local'[w] = [local[w] EXCEPT !.seen = <<>>]
        /\ \A f \in EpisodeIds : f # e => files'[f] = files[f]
        /\ \A x \in Writers : x # w => pc'[x] = pc[x] /\ local'[x] = local[x]
    BY <1>0, <1>2, <1>3 DEF TypeOK
  <1>5. /\ local'[w].ep = e /\ local'[w].out = local[w].out
        /\ local'[w].recent = local[w].recent /\ local'[w].forced = local[w].forced
    BY <1>0, <1>1, <1>4 DEF Locals
  <1>6. Grown
    BY <1>2, <1>3, <1>4 DEF Grown
  <1>7. \A x \in Writers : x # w => Aside(x)
    BY <1>2, <1>3, <1>4, NobodyIsNoWriter DEF Aside, Released
  <1>8. Logged(e)' /\ \A f \in EpisodeIds : Logged(f) => Logged(f)'
    <2>1. log \in Seq(SUBSET EpisodeIds) /\ log' = Append(log, {e})
      BY <1>0, <1>2, <1>3 DEF TypeOK, LogEntries
    <2>2. /\ DOMAIN log = 1 .. Len(log) /\ DOMAIN log' = 1 .. Len(log) + 1 /\ Len(log) \in Nat
          /\ log'[Len(log) + 1] = {e} /\ \A i \in 1 .. Len(log) : log'[i] = log[i]
      BY <1>3, <2>1
    <2> QED
      BY <2>2 DEF Logged
  <1>9. EpisodeKept(e)'
    BY <1>4, <1>8 DEF EpisodeKept
  <1>10. DiskKept'
    BY <1>2, <1>4, <1>6, <1>8, <1>9, EpisodeWritten DEF Inv
  <1>11. LocksHeld(w)'
    BY <1>0, <1>2, <1>3, <1>4, NobodyIsNoWriter
       DEF LocksHeld, Persisting, InLog, Reflecting, Released
  <1>12. EpisodeAt(w)'
    BY <1>0, <1>1, <1>2, <1>3, <1>4, <1>5 DEF MergeAt, EpisodeAt, Persisting
  <1>13. OutcomeAt(w)'
    BY <1>0, <1>2, <1>4, <1>5 DEF MergeAt, OutcomeAt, Reflecting
  <1> QED
    BY <1>2, <1>5, <1>6, <1>7, <1>10, <1>11, <1>12, <1>13, DiskStep DEF MergeAt

\* record_merged_run: the run had nothing recorded, so nothing is overwritten.
LEMMA RecordKeeps ==
  ASSUME Inv, TypeOK', NEW r \in Runs, RecordMergedRun(r)
  PROVE  Inv'
  <1> USE DEF locks
  <1>0. TypeOK /\ r \in Writers /\ LocksHeld(r) /\ MergeAt(r)
    BY NobodyIsNoWriter DEF Inv, WritersKept
  <1>1. PICK e : e = local[r].ep
    OBVIOUS
  <1>2. /\ pc[r] = "run" /\ pc' = [pc EXCEPT ![r] = "done"]
        /\ merged' = [merged EXCEPT ![r] = e]
        /\ UNCHANGED <<recordEp, files, owner, covers, log, recent, said, local, locks>>
    BY <1>1 DEF RecordMergedRun, Goto
  <1>3. /\ e \in EpisodeIds /\ owner[e] = r /\ covers[e] = ToSet(local[r].recent)
        /\ files[e] = Whole /\ merged[r] = NoEpisode
    BY <1>0, <1>1, <1>2 DEF MergeAt, EpisodeAt, Persisting
  <1>4. /\ merged'[r] = e /\ \A q \in Runs : q # r => merged'[q] = merged[q]
        /\ pc'[r] = "done" /\ \A x \in Writers : x # r => pc'[x] = pc[x]
    BY <1>0, <1>2 DEF TypeOK
  <1>5. Grown
    BY <1>2, <1>3, <1>4 DEF Grown
  <1>6. \A x \in Writers : x # r => Aside(x)
    BY <1>2, <1>4 DEF Aside
  <1>7. ASSUME NEW f \in EpisodeIds PROVE EpisodeKept(f)'
    <2>1. EpisodeKept(f)
      BY DEF Inv, DiskKept
    <2>2. "done" \in files[f] => owner[f] # r
      BY <1>3, <2>1, NobodyIsNoWriter DEF EpisodeKept
    <2> QED
      BY <1>2, <1>4, <2>1, <2>2 DEF EpisodeKept, Logged
  <1>8. Accounted(r, e)'
    BY <1>2, <1>3, <1>4 DEF Accounted
  <1>9. ASSUME NEW q \in Runs PROVE RunKept(q)'
    <2>1. RunKept(q)
      BY DEF Inv, DiskKept
    <2>2. CASE q = r
      <3>1. Accounted(q, merged[q])'
        BY <1>4, <1>8, <2>2 DEF Accounted
      <3>2. recordEp'[q] = NoEpisode
        BY <1>2, <1>3, <2>1, <2>2 DEF RunKept
      <3> QED
        BY <3>1, <3>2 DEF RunKept
    <2>3. CASE q # r
      BY <1>2, <1>4, <2>1, <2>3 DEF RunKept, Accounted
    <2> QED
      BY <2>2, <2>3
  <1>10. DiskKept'
    BY <1>7, <1>9 DEF DiskKept
  <1>11. LocksHeld(r)' /\ EpisodeAt(r)'
    BY <1>0, <1>1, <1>2, <1>3, <1>4
       DEF LocksHeld, EpisodeAt, Persisting, InLog, Reflecting
  <1>12. Accounted(r, local[r].ep)'
    BY <1>1, <1>2, <1>8 DEF Accounted
  <1>13. OutcomeAt(r)'
    BY <1>0, <1>2, <1>4, <1>12 DEF MergeAt, OutcomeAt, Reflecting
  <1> QED
    BY <1>0, <1>2, <1>5, <1>6, <1>10, <1>11, <1>13, DiskStep DEF MergeAt

\* A failed write: the episode stays as far as it came, and the run unrecorded.
LEMMA PersistFailsKeeps ==
  ASSUME Inv, TypeOK', NEW w \in Writers, PersistFails(w)
  PROVE  Inv'
  <1>0. TypeOK /\ LocksHeld(w) /\ MergeAt(w) /\ local[w] \in Locals
    BY DEF Inv, WritersKept, TypeOK
  <1>1. PICK e : e = local[w].ep
    OBVIOUS
  <1>2. /\ pc[w] \in Writing /\ pc' = [pc EXCEPT ![w] = "merged"] /\ ReleaseAll(w)
        /\ local' = [local EXCEPT ![w] = [local[w] EXCEPT !.seen = <<>>]]
        /\ UNCHANGED <<recordEp, covers, log, merged, recent, said>>
        /\ \/ UNCHANGED <<files, owner>>
           \/ /\ pc[w] = "transcript" /\ files' = [files EXCEPT ![e] = {"transcript"}]
              /\ owner' = [owner EXCEPT ![e] = w]
    BY <1>1 DEF PersistFails, Goto, Set
  <1>3. /\ pc'[w] = "merged" /\ local'[w] = [local[w] EXCEPT !.seen = <<>>]
        /\ \A x \in Writers : x # w => pc'[x] = pc[x] /\ local'[x] = local[x]
    BY <1>0, <1>2 DEF TypeOK
  <1>4. /\ local'[w].out = local[w].out /\ local[w].out = NoEpisode
        /\ local'[w].recent = local[w].recent
        /\ local'[w].forced = local[w].forced /\ local[w].forced = FALSE
    BY <1>0, <1>2, <1>3 DEF MergeAt, OutcomeAt, Locals, Writing, Reflecting
  <1>5. mergeLock = w /\ mergeLock' # w /\ logLock' # w /\ reflectionLock' # w
    BY <1>0, <1>2, NobodyIsNoWriter
       DEF LocksHeld, Persisting, Writing, ReleaseAll, Released
  <1>6. Grown /\ DiskKept'
    <2>1. CASE UNCHANGED <<files, owner>>
      BY <1>2, <2>1, UnwrittenGrown, UnwrittenDisk DEF Inv
    <2>2. CASE /\ pc[w] = "transcript" /\ files' = [files EXCEPT ![e] = {"transcript"}]
               /\ owner' = [owner EXCEPT ![e] = w]
      <3>1. e \in EpisodeIds
        BY <1>0, <1>1, <2>2 DEF MergeAt, EpisodeAt, Persisting
      <3>2. /\ files'[e] = {"transcript"} /\ owner'[e] = w
            /\ \A f \in EpisodeIds : f # e =>
                  files'[f] = files[f] /\ owner'[f] = owner[f] /\ covers'[f] = covers[f]
        BY <1>0, <1>2, <2>2, <3>1 DEF TypeOK
      <3> QED
        BY <1>1, <1>2, <2>2, <3>2, TranscriptBegun
    <2> QED
      BY <1>2, <2>1, <2>2
  <1>7. \A x \in Writers : x # w => Aside(x)
    BY <1>2, <1>3, <1>5, NobodyIsNoWriter DEF Aside, ReleaseAll, Released
  <1>8. LocksHeld(w)' /\ EpisodeAt(w)'
    BY <1>3, <1>5 DEF LocksHeld, EpisodeAt, Persisting, InLog, Reflecting
  <1>9. OutcomeAt(w)'
    BY <1>0, <1>3, <1>4 DEF MergeAt, OutcomeAt, Reflecting
  <1> QED
    BY <1>2, <1>4, <1>6, <1>7, <1>8, <1>9, DiskStep DEF MergeAt

\* The compressed log takes the place of the log it was put together from.
LEMMA ReplaceKeeps ==
  ASSUME Inv, TypeOK', NEW w \in Writers, ReplaceLog(w)
  PROVE  Inv'
  <1>0. TypeOK /\ LocksHeld(w) /\ MergeAt(w) /\ local[w] \in Locals
    BY DEF Inv, WritersKept, TypeOK
  <1>1. /\ pc[w] = "replace" /\ ReflectDone(w) /\ ReleaseAll(w)
        /\ UNCHANGED <<recordEp, files, owner, covers, merged, recent, said>>
        /\ \/ log' = log
           \/ IsPrefix(local[w].snapshot, local[w].seen) /\ log' = Replaced(w)
    BY DEF ReplaceLog
  <1>2. logLock = w /\ local[w].seen = log /\ mergeLock' # w /\ logLock' # w /\ reflectionLock' # w
    BY <1>0, <1>1, NobodyIsNoWriter DEF LocksHeld, InLog, ReleaseAll, Released
  <1>3. \A f : Logged(f) => Logged(f)'
    <2>1. CASE log' = log
      BY <2>1 DEF Logged
    <2>2. CASE IsPrefix(local[w].snapshot, local[w].seen) /\ log' = Replaced(w)
      <3>1. local[w].snapshot \in LogEntries /\ local[w].seen \in LogEntries
        BY <1>0 DEF Locals
      <3>2. \A f : (\E i \in DOMAIN log : f \in log[i]) => \E j \in DOMAIN log' : f \in log'[j]
        BY <1>2, <2>2, <3>1, ReplacedLog
      <3> QED
        BY <3>2 DEF Logged
    <2> QED
      BY <1>1, <2>1, <2>2
  <1>4. Grown
    BY <1>1, UnwrittenGrown
  <1>5. DiskKept'
    BY <1>1, <1>3, <1>4, EpisodeWritten, NobodyIsNoWriter DEF Inv
  <1>6. /\ pc'[w] \in {"idle", "merged"} /\ EpisodeAt(w)' /\ OutcomeAt(w)'
        /\ \A x \in Writers : x # w => pc'[x] = pc[x] /\ local'[x] = local[x]
        /\ local'[w].recent \in {local[w].recent, <<>>}
    BY <1>1, ReflectDoneAt
  <1>7. \A x \in Writers : x # w => Aside(x)
    BY <1>1, <1>2, <1>6, NobodyIsNoWriter DEF Aside, ReleaseAll, Released
  <1>8. LocksHeld(w)'
    BY <1>2, <1>6 DEF LocksHeld, Persisting, InLog, Reflecting
  <1> QED
    BY <1>1, <1>4, <1>5, <1>6, <1>7, <1>8, DiskStep DEF MergeAt-----------------------------------------------------------------------------
(* The file of recent messages.                                            *)

\* A message appended while a cycle is under way comes after those it loaded.
LEMMA AppendRecentKeeps ==
  ASSUME Inv, TypeOK', AppendRecent
  PROVE  Inv'
  <1> USE DEF volatile, locks
  <1>0. TypeOK /\ recent \in Seq(1 .. MaxRecent) /\ said \in Nat
    BY DEF Inv, TypeOK
  <1>1. /\ said' = said + 1 /\ recent' = Append(recent, said + 1)
        /\ UNCHANGED <<recordEp, files, owner, covers, log, merged, pc, local, locks>>
    BY DEF AppendRecent
  <1>2. /\ Len(recent) \in Nat /\ Len(recent') = Len(recent) + 1 /\ DOMAIN recent = 1 .. Len(recent)
        /\ DOMAIN recent' = 1 .. Len(recent) + 1 /\ recent'[Len(recent) + 1] = said + 1
        /\ \A i \in 1 .. Len(recent) : recent'[i] = recent[i]
    BY <1>0, <1>1
  <1>3. WritersKept'
    <2>1. \A x \in Writers : Aside(x)
      BY <1>1 DEF Aside
    <2> QED
      BY <1>1, <2>1, WritersKeptBy, UnwrittenGrown, NobodyIsNoWriter DEF Inv
  <1>4. DiskKept'
    BY <1>1, UnwrittenDisk DEF Inv
  <1>5. LoadedFirst'
    <2>1. local[Main].recent \in Seq(1 .. MaxRecent)
      BY <1>0, NobodyIsNoWriter DEF TypeOK, Locals
    <2>2. /\ Len(local[Main].recent) <= Len(recent) /\ Len(local[Main].recent) \in Nat
          /\ DOMAIN local[Main].recent = 1 .. Len(local[Main].recent)
          /\ \A i \in DOMAIN local[Main].recent : local[Main].recent[i] = recent[i]
      BY <2>1 DEF Inv, RecentKept, LoadedFirst
    <2> QED
      BY <1>1, <1>2, <2>2 DEF LoadedFirst
  <1>6. RecentUntilObserved'
    <2> SUFFICES ASSUME NEW m \in 1 .. said + 1
                 PROVE  m \in ToSet(recent') \/ \E e \in EpisodeIds : m \in covers'[e]
      BY <1>1 DEF RecentUntilObserved
    <2>1. CASE m = said + 1
      BY <1>2, <2>1 DEF ToSet
    <2>2. CASE m # said + 1
      <3>1. m \in ToSet(recent) \/ \E e \in EpisodeIds : m \in covers[e]
        BY <1>0, <2>2 DEF Inv, RecentKept, RecentUntilObserved
      <3> QED
        BY <1>1, <1>2, <3>1 DEF ToSet
    <2> QED
      BY <2>1, <2>2
  <1> QED
    BY <1>3, <1>4, <1>5, <1>6 DEF Inv, RecentKept

\* Only the messages of a merged episode leave the file.
LEMMA RemoveObservedKeeps ==
  ASSUME Inv, TypeOK', RemoveObserved
  PROVE  Inv'
  <1> USE DEF locks
  <1>0. /\ TypeOK /\ Main \in Writers /\ LocksHeld(Main) /\ MergeAt(Main)
        /\ local[Main] \in Locals /\ pc[Main] = "merged"
    BY NobodyIsNoWriter DEF Inv, WritersKept, TypeOK, RemoveObserved
  <1>1. /\ pc' = [pc EXCEPT ![Main] = "idle"] /\ local' = [local EXCEPT ![Main] = Fresh]
        /\ UNCHANGED <<recordEp, files, owner, covers, log, merged, said, locks>>
        /\ \/ recent' = recent
           \/ /\ local[Main].out # NoEpisode
              /\ recent' = SubSeq(recent, Len(local[Main].recent) + 1, Len(recent))
    BY DEF RemoveObserved, Goto, Set
  <1>2. mergeLock # Main /\ logLock # Main /\ reflectionLock # Main
    BY <1>0, NothingHeld DEF Persisting, InLog, Reflecting
  <1>3. /\ pc'[Main] = "idle" /\ local'[Main] = Fresh
        /\ \A x \in Writers : x # Main => pc'[x] = pc[x] /\ local'[x] = local[x]
    BY <1>0, <1>1 DEF TypeOK
  <1>4. local'[Main].out = NoEpisode /\ local'[Main].forced = FALSE /\ local'[Main].recent = <<>>
    BY <1>3 DEF Fresh
  <1>5. WritersKept'
    <2>1. LocksHeld(Main)' /\ MergeAt(Main)'
      BY <1>1, <1>2, <1>3, <1>4, NobodyIsNoWriter
         DEF LocksHeld, MergeAt, EpisodeAt, OutcomeAt, Persisting, InLog, Reflecting
    <2>2. \A x \in Writers : x # Main => Aside(x)
      BY <1>1, <1>3 DEF Aside
    <2> QED
      BY <1>1, <2>1, <2>2, WritersKeptBy, UnwrittenGrown DEF Inv
  <1>6. DiskKept'
    BY <1>1, UnwrittenDisk DEF Inv
  <1>7. RecentKept'
    <2>1. CASE recent' = recent
      BY <1>1, <1>4, <2>1, UnwrittenRecent DEF Inv
    <2>2. CASE /\ local[Main].out # NoEpisode
               /\ recent' = SubSeq(recent, Len(local[Main].recent) + 1, Len(recent))
      <3>1. PICK n, o : n = Len(local[Main].recent) /\ o = local[Main].out
        OBVIOUS
      <3>2. /\ recent \in Seq(1 .. MaxRecent) /\ local[Main].recent \in Seq(1 .. MaxRecent)
            /\ n \in Nat /\ n <= Len(recent) /\ Len(recent) \in Nat
            /\ DOMAIN local[Main].recent = 1 .. n /\ DOMAIN recent = 1 .. Len(recent)
            /\ \A i \in 1 .. n : local[Main].recent[i] = recent[i]
        <4>1. recent \in Seq(1 .. MaxRecent) /\ local[Main].recent \in Seq(1 .. MaxRecent)
          BY <1>0 DEF TypeOK, Locals
        <4>2. LoadedFirst
          BY DEF Inv, RecentKept
        <4> QED
          BY <3>1, <4>1, <4>2 DEF LoadedFirst
      <3>3. /\ recent' \in Seq(1 .. MaxRecent) /\ Len(recent') = Len(recent) - n
            /\ \A k \in 1 .. Len(recent) - n : recent'[k] = recent[n + k]
        BY <2>2, <3>1, <3>2, DroppedFirst
      <3>4. o \in EpisodeIds /\ ToSet(local[Main].recent) \subseteq covers[o]
        BY <1>0, <2>2, <3>1 DEF MergeAt, OutcomeAt, Accounted
      <3>5. ASSUME NEW m \in ToSet(recent), m \notin ToSet(recent')
            PROVE  m \in covers[o]
        <4>1. PICK i \in 1 .. Len(recent) : m = recent[i]
          BY <3>2 DEF ToSet
        <4>2. CASE i <= n
          BY <3>2, <3>4, <4>1, <4>2 DEF ToSet
        <4>3. CASE i > n
          <5>1. i - n \in 1 .. Len(recent) - n /\ n + (i - n) = i
            BY <3>2, <4>1, <4>3
          <5>2. recent'[i - n] = m /\ i - n \in DOMAIN recent'
            BY <3>3, <4>1, <5>1
          <5> QED
            BY <3>5, <5>2 DEF ToSet
        <4> QED
          BY <3>2, <4>1, <4>2, <4>3
      <3>6. RecentUntilObserved'
        BY <1>1, <3>4, <3>5 DEF Inv, RecentKept, RecentUntilObserved
      <3>7. LoadedFirst'
        BY <1>4, <3>3 DEF LoadedFirst
      <3> QED
        BY <3>6, <3>7 DEF RecentKept
    <2> QED
      BY <1>1, <2>1, <2>2
  <1> QED
    BY <1>5, <1>6, <1>7 DEF Inv

-----------------------------------------------------------------------------
(* The theorems.                                                           *)

LEMMA InvInit == Init => Inv
  <1> SUFFICES ASSUME Init PROVE Inv
    OBVIOUS
  <1>1. ASSUME NEW w \in Writers PROVE LocksHeld(w) /\ MergeAt(w)
    <2>1. /\ pc[w] = "idle" /\ mergeLock # w /\ logLock # w /\ reflectionLock # w
          /\ local[w].out = NoEpisode /\ local[w].forced = FALSE /\ local[w].recent = <<>>
      BY NobodyIsNoWriter DEF Init, Fresh
    <2> QED
      BY <2>1 DEF LocksHeld, MergeAt, EpisodeAt, OutcomeAt, Persisting, InLog, Reflecting
  <1>2. DiskKept
    BY DEF Init, DiskKept, EpisodeKept, RunKept
  <1>3. local[Main].recent = <<>> /\ recent = <<>> /\ said = 0
    BY NobodyIsNoWriter DEF Init, Fresh
  <1>4. RecentKept
    BY <1>3 DEF RecentKept, LoadedFirst, RecentUntilObserved
  <1> QED
    BY <1>1, <1>2, <1>4, TypeInit DEF Inv, WritersKept

LEMMA InvNext ==
  ASSUME Inv, [Next]_vars
  PROVE  Inv'
  <1>0. TypeOK'
    BY TypeNext DEF Inv
  <1>1. CASE AppendRecent
    BY <1>0, <1>1, AppendRecentKeeps
  <1>2. CASE Observe
    BY <1>0, <1>2, ObserveKeeps
  <1>3. CASE RemoveObserved
    BY <1>0, <1>3, RemoveObservedKeeps
  <1>4. CASE ForceReflect
    BY <1>0, <1>4, ReflectKeeps, NobodyIsNoWriter
  <1>5. CASE Crash \/ StartupDone \/ UNCHANGED vars
    BY <1>0, <1>5, CrashKeeps
  <1>6. ASSUME NEW w \in Writers, MergeStep(w) \/ PersistFails(w) PROVE Inv'
    BY <1>0, <1>6, CheckKeeps, LoadKeeps, ReflectKeeps, CompressKeeps, TranscriptKeeps,
       ArtifactKeeps, AppendKeeps, PersistFailsKeeps, ReplaceKeeps DEF MergeStep
  <1>7. ASSUME NEW r \in Runs,
               \/ BeginRun(r) \/ MaybeStage(r) \/ CompleteSessionMemory(r)
               \/ RecordMergedRun(r) \/ FinishRun(r) \/ Panic(r) \/ RecoverIfIncomplete(r)
        PROVE  Inv'
    BY <1>0, <1>7, RunKeeps, RecordKeeps, FinishKeeps, PanicKeeps
  <1> QED
    BY <1>1, <1>2, <1>3, <1>4, <1>5, <1>6, <1>7 DEF Next

LEMMA InvAlways == Spec => []Inv
  <1>1. Inv /\ [Next]_vars => Inv'
    BY InvNext
  <1> QED
    BY <1>1, InvInit, PTL DEF Spec

\* The stores, the steps of the writers and the holders of the three locks keep
\* their types, however many runs merge at once.
THEOREM TypeCorrect == Spec => []TypeOK
  <1>1. Inv => TypeOK
    BY DEF Inv
  <1> QED
    BY <1>1, InvAlways, PTL

\* A completion marker (write_completion_marker) keeps its promise through every
\* compression of the log, failed write, panic and crash: the episode has all its
\* artifacts, the global log speaks for it, and its run is recorded as merged.
THEOREM MarkersCertify == Spec => []MarkerCertifies
  <1>1. Inv => MarkerCertifies
    <2> SUFFICES ASSUME Inv, NEW e \in EpisodeIds, "done" \in files[e]
                 PROVE  /\ files[e] = Artifacts /\ Logged(e)
                        /\ owner[e] \in Runs => merged[owner[e]] = e
      BY DEF MarkerCertifies
    <2>1. EpisodeKept(e)
      BY DEF Inv, DiskKept
    <2> QED
      BY <2>1 DEF EpisodeKept, Artifacts
  <1> QED
    BY <1>1, InvAlways, PTL

\* The episode a completed run's record names (complete_run and the end of
\* recover_if_incomplete) is the one merged_runs names, is the run's own, and has
\* its transcript, its observations and its chunk index.
THEOREM RecordsNameMergedEpisodes == Spec => []RecordNamesMergedEpisode
  <1>1. Inv => RecordNamesMergedEpisode
    <2> SUFFICES ASSUME Inv, NEW r \in Runs, recordEp[r] # NoEpisode
                 PROVE  /\ merged[r] = recordEp[r] /\ owner[recordEp[r]] = r
                        /\ {"transcript", "obs", "log", "idx"} \subseteq files[recordEp[r]]
      BY DEF RecordNamesMergedEpisode
    <2>1. RunKept(r)
      BY DEF Inv, DiskKept
    <2> QED
      BY <2>1 DEF RunKept, Accounted, Whole
  <1> QED
    BY <1>1, InvAlways, PTL

\* remove_observed_recent_messages takes a message out of recent_messages.json only
\* when some episode holds it, whatever was appended while the cycle was under way.
THEOREM RecentKeptUntilObserved == Spec => []RecentUntilObserved
  <1>1. Inv => RecentUntilObserved
    BY DEF Inv, RecentKept
  <1> QED
    BY <1>1, InvAlways, PTL

\* An episode gets another owner only from a writer that has none recorded.
LEMMA OwnersKept ==
  ASSUME Inv, [Next]_vars, NEW e \in EpisodeIds, owner'[e] # owner[e]
  PROVE  /\ owner[e] = Nobody /\ owner'[e] \in Writers
         /\ owner'[e] \in Runs => merged[owner'[e]] = NoEpisode
  <1>1. PICK w \in Writers : /\ WriteTranscript(w) \/ PersistFails(w)
                             /\ owner' = [owner EXCEPT ![local[w].ep] = w]
                             /\ pc[w] = "transcript"
    <2> USE DEF disk, volatile, vars
    <2>1. CASE \E w \in Writers : WriteTranscript(w) \/ PersistFails(w)
      BY <2>1 DEF WriteTranscript, PersistFails
    <2>2. CASE \E w \in Writers : WriteObsArchive(w) \/ WriteChunkIndex(w) \/ WriteCompletionMarker(w)
      BY <2>2 DEF WriteObsArchive, WriteChunkIndex, WriteCompletionMarker, WriteArtifact
    <2>3. CASE \E w \in Writers : \/ CheckMerged(w) \/ TakeMergeLock(w) \/ LoadLog(w)
                                  \/ SkipReflection(w) \/ StartReflection(w) \/ Compress(w)
                                  \/ AppendObservations(w) \/ ReplaceLog(w)
      BY <2>3 DEF CheckMerged, TakeMergeLock, LoadLog, SkipReflection, StartReflection, Compress,
                  AppendObservations, ReplaceLog
    <2>4. CASE \E r \in Runs : \/ BeginRun(r) \/ MaybeStage(r) \/ CompleteSessionMemory(r)
                               \/ RecordMergedRun(r) \/ FinishRun(r) \/ Panic(r)
                               \/ RecoverIfIncomplete(r)
      BY <2>4 DEF BeginRun, MaybeStage, CompleteSessionMemory, RecordMergedRun, FinishRun, Panic,
                  RecoverIfIncomplete
    <2>5. CASE \/ AppendRecent \/ Observe \/ RemoveObserved \/ ForceReflect \/ Crash
               \/ StartupDone \/ UNCHANGED vars
      BY <2>5 DEF AppendRecent, Observe, RemoveObserved, ForceReflect, Crash, StartupDone
    <2> QED
      BY <2>1, <2>2, <2>3, <2>4, <2>5 DEF Next, MergeStep
  <1>2. TypeOK /\ MergeAt(w) /\ EpisodeKept(e)
    BY DEF Inv, WritersKept, DiskKept
  <1>3. e = local[w].ep /\ owner'[e] = w
    BY <1>1, <1>2 DEF TypeOK
  <1>4. files[e] = {} /\ (w \in Runs => merged[w] = NoEpisode)
    BY <1>1, <1>2, <1>3 DEF MergeAt, EpisodeAt, Persisting
  <1> QED
    BY <1>2, <1>3, <1>4 DEF EpisodeKept

\* A run is recorded as merged once: afterwards no attempt of the run, of panic
\* recovery or of a start-up (merge's two checks of merged_runs, the second under
\* merge_lock) records another episode for it or writes one in its name.
THEOREM MergedRunsAreFinal == Spec => MergedRunIsFinal
  <1> DEFINE Final == \A r \in Runs : merged[r] # NoEpisode =>
                        merged'[r] = merged[r] /\ EpisodesOf(r)' = EpisodesOf(r)
  <1>1. Inv /\ [Next]_vars => [Final]_vars
    <2> SUFFICES ASSUME Inv, [Next]_vars, NEW r \in Runs, merged[r] # NoEpisode
                 PROVE  merged'[r] = merged[r] /\ EpisodesOf(r)' = EpisodesOf(r)
      OBVIOUS
    <2>1. merged'[r] = merged[r]
      <3> USE DEF disk, volatile, vars
      <3>1. CASE \E q \in Runs : RecordMergedRun(q)
        <4>1. PICK q \in Runs : RecordMergedRun(q)
          BY <3>1
        <4>2. MergeAt(q) /\ TypeOK
          BY NobodyIsNoWriter DEF Inv, WritersKept
        <4>3. merged[q] = NoEpisode
          BY <4>1, <4>2 DEF RecordMergedRun, MergeAt, EpisodeAt, Persisting
        <4> QED
          BY <4>1, <4>2, <4>3 DEF RecordMergedRun, TypeOK
      <3>2. CASE \E w \in Writers : MergeStep(w) \/ PersistFails(w)
        BY <3>2 DEF MergeStep, PersistFails, WriteTranscript, WriteObsArchive, WriteChunkIndex,
                    WriteCompletionMarker, WriteArtifact, CheckMerged, TakeMergeLock, LoadLog,
                    SkipReflection, StartReflection, Compress, AppendObservations, ReplaceLog
      <3>3. CASE \E q \in Runs : \/ BeginRun(q) \/ MaybeStage(q) \/ CompleteSessionMemory(q)
                                 \/ FinishRun(q) \/ Panic(q) \/ RecoverIfIncomplete(q)
        BY <3>3 DEF BeginRun, MaybeStage, CompleteSessionMemory, FinishRun, Panic,
                    RecoverIfIncomplete
      <3>4. CASE \/ AppendRecent \/ Observe \/ RemoveObserved \/ ForceReflect \/ Crash
                 \/ StartupDone \/ UNCHANGED vars
        BY <3>4 DEF AppendRecent, Observe, RemoveObserved, ForceReflect, Crash, StartupDone
      <3> QED
        BY <3>1, <3>2, <3>3, <3>4 DEF Next
    <2>2. ASSUME NEW e \in EpisodeIds PROVE owner'[e] = r <=> owner[e] = r
      <3>1. r # Nobody
        BY NobodyIsNoWriter
      <3> QED
        BY <3>1, OwnersKept
    <2> QED
      BY <2>1, <2>2 DEF EpisodesOf
  <1> QED
    BY <1>1, InvAlways, PTL DEF Spec, MergedRunIsFinal
=============================================================================
