----------------------------- MODULE MemoryMerge -----------------------------
(***************************************************************************)
(* Merging finished work into the agent's global memory, across crashes    *)
(* (crates/memory merge_writer.rs and the stores under it; crates/         *)
(* background store.rs and session_memory.rs; crates/gateway memory.rs).   *)
(*                                                                         *)
(* Every session run and the main agent's memory worker are writers that   *)
(* call merge() concurrently.  A merge allocates an episode, writes six    *)
(* artifacts one after the other under merge_lock, and then, with no merge *)
(* lock held, may compress the observation log: the reflector reads the    *)
(* log, waits on a model and writes the result back.  Any write may fail,  *)
(* a run's task may panic, and the process may crash between any two       *)
(* steps; at the next start every run record left incomplete is recovered  *)
(* before normal operation begins.                                         *)
(*                                                                         *)
(* An observation is named by the episode it came from.  An entry of the   *)
(* observation log is the set of episodes it speaks for, so that a         *)
(* compressed entry speaks for all it was made from.  Reading an intact    *)
(* file succeeds; a model call may fail at no cost to the fault budget.    *)
(***************************************************************************)
EXTENDS Integers, Sequences, SequencesExt, FiniteSets

CONSTANTS Runs,         \* session run ids, each used by one run
          Main,         \* the main agent's memory worker (a tag without run id)
          MaxEpisodes,  \* bound: episodes on disk
          MaxRecent,    \* bound: messages of the main conversation
          MaxFaults     \* bound: failed writes, panics and crashes

Writers == Runs \cup {Main}
EpisodeIds == 1 .. MaxEpisodes
NoEpisode == 0
Nobody == "nobody"

ASSUME MergeAssumption ==
    /\ Main \notin Runs
    /\ Nobody \notin Writers
    /\ MaxEpisodes \in Nat \ {0}
    /\ MaxRecent \in Nat
    /\ MaxFaults \in Nat

\* The artifacts persist_episode writes, in its order; "run" is merged_runs.
Artifacts == {"transcript", "obs", "log", "idx", "done"}

VARIABLES
    record,     \* disk: run -> state of its RunRecord ("none" is no file)
    recordEp,   \* disk: run -> episode_id of its RunRecord
    files,      \* disk: episode id -> the artifacts it has
    owner,      \* disk: episode id -> the writer its transcript names
    covers,     \* disk: episode id -> main messages its transcript holds
    log,        \* disk: observations.json
    merged,     \* disk: merged_runs.json, run -> episode
    recent,     \* disk: recent_messages.json
    said,       \* main messages appended so far
    phase,      \* "recovering" until start-up has recovered, then "up"
    todo,       \* runs start-up has still to recover
    pc,         \* writer -> the step it is at
    local,      \* writer -> its local variables
    mergeLock, logLock, reflectionLock,  \* holder, or Nobody
    faults      \* failed writes, panics and crashes so far

disk == <<record, recordEp, files, owner, covers, log, merged, recent>>
locks == <<mergeLock, logLock, reflectionLock>>
volatile == <<phase, todo, pc, local, locks>>
vars == <<disk, said, volatile, faults>>

\* The local variables of a pipeline: staged observations, whether it runs in
\* recover_from_panic, its episode, the outcome of merge, the log it loaded,
\* the recent messages it observed, and whether it is /reflect alone.
Fresh == [staged |-> FALSE, panicked |-> FALSE, ep |-> NoEpisode, out |-> NoEpisode,
          seen |-> <<>>, snapshot |-> <<>>, recent |-> <<>>, forced |-> FALSE]

Init ==
    /\ record = [r \in Runs |-> "none"]
    /\ recordEp = [r \in Runs |-> NoEpisode]
    /\ files = [e \in EpisodeIds |-> {}]
    /\ owner = [e \in EpisodeIds |-> Nobody]
    /\ covers = [e \in EpisodeIds |-> {}]
    /\ log = <<>>
    /\ merged = [r \in Runs |-> NoEpisode]
    /\ recent = <<>>
    /\ said = 0
    /\ phase = "up"
    /\ todo = {}
    /\ pc = [w \in Writers |-> "idle"]
    /\ local = [w \in Writers |-> Fresh]
    /\ mergeLock = Nobody
    /\ logLock = Nobody
    /\ reflectionLock = Nobody
    /\ faults = 0

Goto(w, step) == pc' = [pc EXCEPT ![w] = step]
Set(w, new) == local' = [local EXCEPT ![w] = new]
Faulty == faults < MaxFaults /\ faults' = faults + 1

\* Locks are guards: dropped when their holder returns, panics or is aborted.
Released(lock, w) == IF lock = w THEN Nobody ELSE lock
ReleaseAll(w) ==
    /\ mergeLock' = Released(mergeLock, w)
    /\ logLock' = Released(logLock, w)
    /\ reflectionLock' = Released(reflectionLock, w)

-----------------------------------------------------------------------------
(* The main conversation and the main agent's memory worker.               *)

\* A main turn ends: append_recent_messages.
AppendRecent ==
    /\ phase = "up"
    /\ said < MaxRecent
    /\ said' = said + 1
    /\ recent' = Append(recent, said + 1)
    /\ UNCHANGED <<record, recordEp, files, owner, covers, log, merged, volatile, faults>>

\* execute_observation: the messages on disk are extracted.  A failed
\* extraction writes nothing, which is this action not being taken.
Observe ==
    /\ phase = "up"
    /\ pc[Main] = "idle"
    /\ recent # <<>>
    /\ Set(Main, [Fresh EXCEPT !.recent = recent])
    /\ Goto(Main, "check")
    /\ UNCHANGED <<disk, said, phase, todo, locks, faults>>

\* Mutant: the file is cleared, whatever was appended meanwhile.
RemoveObservedAll ==
    /\ pc[Main] = "merged"
    /\ Set(Main, Fresh)
    /\ Goto(Main, "idle")
    /\ \/ recent' = <<>> /\ UNCHANGED faults
       \/ UNCHANGED recent /\ Faulty
    /\ UNCHANGED <<record, recordEp, files, owner, covers, log, merged, said,
                   phase, todo, locks>>

\* persist_observation_outcome: the messages the cycle loaded leave the file,
\* when the merge returned an episode; the rewrite may fail.
RemoveObserved ==
    /\ pc[Main] = "merged"
    /\ Set(Main, Fresh)
    /\ Goto(Main, "idle")
    /\ LET observed == Len(local[Main].recent) IN
         \/ /\ recent' = IF local[Main].out = NoEpisode THEN recent
                         ELSE SubSeq(recent, observed + 1, Len(recent))
            /\ UNCHANGED faults
         \/ UNCHANGED recent /\ Faulty
    /\ UNCHANGED <<record, recordEp, files, owner, covers, log, merged, said,
                   phase, todo, locks>>

\* force_reflect: waits for a reflection already running, then loads the log.
ForceReflect ==
    /\ phase = "up"
    /\ pc[Main] = "idle"
    /\ log # <<>>
    /\ reflectionLock = Nobody
    /\ reflectionLock' = Main
    /\ Set(Main, [Fresh EXCEPT !.snapshot = log, !.forced = TRUE])
    /\ Goto(Main, "compress")
    /\ UNCHANGED <<disk, said, phase, todo, mergeLock, logLock, faults>>

-----------------------------------------------------------------------------
(* A session run, up to its completion pipeline.                           *)

\* begin_run is best-effort: a failed write leaves no record of the run.
BeginRun(r) ==
    /\ phase = "up"
    /\ pc[r] = "idle"
    /\ Goto(r, "running")
    /\ \/ record' = [record EXCEPT ![r] = "running"] /\ UNCHANGED faults
       \/ UNCHANGED record /\ Faulty
    /\ UNCHANGED <<recordEp, files, owner, covers, log, merged, recent, said,
                   phase, todo, local, locks>>

\* maybe_stage: observations extracted while the run is going on.
MaybeStage(r) ==
    /\ pc[r] = "running"
    /\ ~local[r].staged
    /\ Set(r, [local[r] EXCEPT !.staged = TRUE])
    /\ UNCHANGED <<disk, said, phase, todo, pc, locks, faults>>

\* complete_session_memory up to the merge.  A run that staged nothing may be
\* skipped (a quiet ending, a short transcript) or yield no observations.
CompleteSessionMemory(r) ==
    /\ pc[r] \in {"running", "panicked", "recovering"}
    /\ \/ Goto(r, "check")
       \/ ~local[r].staged /\ Goto(r, "merged")
    /\ UNCHANGED <<disk, said, phase, todo, local, locks, faults>>

-----------------------------------------------------------------------------
(* MemoryMergeWriter::merge.                                               *)

\* Mutant: check_already_merged finds no run.
AlreadyMergedNever(w) == FALSE

\* merged_runs.json names the run (load_merged_runs).
AlreadyMerged(w) == w \in Runs /\ merged[w] # NoEpisode

\* check_already_merged, before the lock.
CheckMerged(w) ==
    /\ pc[w] = "check"
    /\ IF AlreadyMerged(w)
         THEN /\ Set(w, [local[w] EXCEPT !.out = merged[w]])
              /\ Goto(w, "merged")
         ELSE Goto(w, "lock") /\ UNCHANGED local
    /\ UNCHANGED <<disk, said, phase, todo, locks, faults>>

\* next_episode_id: one more than the highest transcript on disk.
Transcripts == {e \in EpisodeIds : "transcript" \in files[e]}
NextEpisodeId ==
    CHOOSE n \in 1 .. MaxEpisodes + 1 :
        /\ \A e \in Transcripts : e < n
        /\ n = 1 \/ n - 1 \in Transcripts

\* Mutant: merges are not serialized.
TakeMergeLockUnheld(w) ==
    /\ pc[w] = "lock"
    /\ UNCHANGED mergeLock
    /\ NextEpisodeId \in EpisodeIds
    /\ Set(w, [local[w] EXCEPT !.ep = NextEpisodeId])
    /\ Goto(w, "transcript")
    /\ UNCHANGED <<disk, said, phase, todo, logLock, reflectionLock, faults>>

\* merge_lock, the check again under it, and the episode's id.
TakeMergeLock(w) ==
    /\ pc[w] = "lock"
    /\ mergeLock = Nobody
    /\ IF AlreadyMerged(w)
         THEN /\ Set(w, [local[w] EXCEPT !.out = merged[w]])
              /\ Goto(w, "merged")
              /\ UNCHANGED mergeLock
         ELSE /\ NextEpisodeId \in EpisodeIds
              /\ mergeLock' = w
              /\ Set(w, [local[w] EXCEPT !.ep = NextEpisodeId])
              /\ Goto(w, "transcript")
    /\ UNCHANGED <<disk, said, phase, todo, logLock, reflectionLock, faults>>

\* write_episode_transcript_tagged: creates or overwrites the file.
WriteTranscript(w) ==
    LET e == local[w].ep IN
    /\ pc[w] = "transcript"
    /\ files' = [files EXCEPT ![e] = {"transcript"}]
    /\ owner' = [owner EXCEPT ![e] = w]
    /\ covers' = [covers EXCEPT ![e] = ToSet(local[w].recent)]
    /\ Goto(w, "obs")
    /\ UNCHANGED <<record, recordEp, log, merged, recent, said, phase, todo, local,
                   locks, faults>>

\* One artifact written whole, by a rename.
WriteArtifact(w, name, next) ==
    /\ pc[w] = name
    /\ files' = [files EXCEPT ![local[w].ep] = @ \cup {name}]
    /\ Goto(w, next)
    /\ UNCHANGED <<record, recordEp, owner, covers, log, merged, recent, said, phase,
                   todo, local, logLock, reflectionLock, faults>>

\* Mutant: the completion marker is written before the chunk index.
WriteObsArchiveMarked(w) ==
    /\ pc[w] = "obs"
    /\ files' = [files EXCEPT ![local[w].ep] = @ \cup {"obs", "done"}]
    /\ Goto(w, "log")
    /\ UNCHANGED <<record, recordEp, owner, covers, log, merged, recent, said, phase,
                   todo, local, locks, faults>>

\* save_episode_observations.
WriteObsArchive(w) == WriteArtifact(w, "obs", "log") /\ UNCHANGED mergeLock

\* write_idx_jsonl.  The main agent has no run id to record.
WriteChunkIndex(w) ==
    /\ WriteArtifact(w, "idx", IF w \in Runs THEN "run" ELSE "done")
    /\ UNCHANGED mergeLock

\* write_completion_marker; persist_episode returns and merge_lock is dropped.
WriteCompletionMarker(w) ==
    /\ WriteArtifact(w, "done", "reflect?")
    /\ mergeLock' = Released(mergeLock, w)

\* log_lock, and append_observations' load of the log.
LoadLog(w) ==
    /\ pc[w] = "log"
    /\ logLock = Nobody
    /\ logLock' = w
    /\ Set(w, [local[w] EXCEPT !.seen = log])
    /\ Goto(w, "append")
    /\ UNCHANGED <<disk, said, phase, todo, mergeLock, reflectionLock, faults>>

\* append_observations' save.
AppendObservations(w) ==
    /\ pc[w] = "append"
    /\ log' = Append(local[w].seen, {local[w].ep})
    /\ files' = [files EXCEPT ![local[w].ep] = @ \cup {"log"}]
    /\ logLock' = Released(logLock, w)
    /\ Set(w, [local[w] EXCEPT !.seen = <<>>])
    /\ Goto(w, "idx")
    /\ UNCHANGED <<record, recordEp, owner, covers, merged, recent, said, phase, todo,
                   mergeLock, reflectionLock, faults>>

\* record_merged_run.
RecordMergedRun(r) ==
    /\ pc[r] = "run"
    /\ merged' = [merged EXCEPT ![r] = local[r].ep]
    /\ Goto(r, "done")
    /\ UNCHANGED <<record, recordEp, files, owner, covers, log, recent, said, phase,
                   todo, local, locks, faults>>

Writing == {"transcript", "obs", "append", "idx", "run", "done"}

\* A write of persist_episode fails: merge returns the error, nothing later is
\* written.  Only the transcript's plain write can leave a partial file.
PersistFails(w) ==
    /\ pc[w] \in Writing
    /\ Faulty
    /\ \/ UNCHANGED <<files, owner, covers>>
       \/ /\ pc[w] = "transcript"
          /\ files' = [files EXCEPT ![local[w].ep] = {"transcript"}]
          /\ owner' = [owner EXCEPT ![local[w].ep] = w]
          /\ UNCHANGED covers
    /\ ReleaseAll(w)
    /\ Set(w, [local[w] EXCEPT !.seen = <<>>])
    /\ Goto(w, "merged")
    /\ UNCHANGED <<record, recordEp, log, merged, recent, said, phase, todo>>

-----------------------------------------------------------------------------
(* Reflection: index_embed_and_reflect and reflect_and_replace.  Whether   *)
(* the log is long enough, and whether the reflector is backing off, is a  *)
(* choice.                                                                 *)

Outcome(w) == [local[w] EXCEPT !.out = local[w].ep, !.snapshot = <<>>, !.seen = <<>>]

ReflectDone(w) ==
    IF local[w].forced THEN Set(w, Fresh) /\ Goto(w, "idle")
                       ELSE Set(w, Outcome(w)) /\ Goto(w, "merged")

\* Another reflection is running, none is due, or the reflector backs off.
SkipReflection(w) ==
    /\ pc[w] = "reflect?"
    /\ ReflectDone(w)
    /\ UNCHANGED <<disk, said, phase, todo, locks, faults>>

\* reflection_lock.try_lock, and the log read without log_lock.
StartReflection(w) ==
    /\ pc[w] = "reflect?"
    /\ reflectionLock = Nobody
    /\ reflectionLock' = w
    /\ Set(w, [local[w] EXCEPT !.snapshot = log])
    /\ Goto(w, "compress")
    /\ UNCHANGED <<disk, said, phase, todo, mergeLock, logLock, faults>>

\* compress: a model call that may fail, and log_lock once it returns, with
\* the load of the log as it is by then.
Compress(w) ==
    /\ pc[w] = "compress"
    /\ \/ /\ logLock = Nobody
          /\ logLock' = w
          /\ Set(w, [local[w] EXCEPT !.seen = log])
          /\ Goto(w, "replace")
          /\ UNCHANGED reflectionLock
       \/ /\ ReflectDone(w)
          /\ reflectionLock' = Released(reflectionLock, w)
          /\ UNCHANGED logLock
    /\ UNCHANGED <<disk, said, phase, todo, mergeLock, faults>>

Compressed(entries) == <<UNION ToSet(entries)>>

\* The compressed entries, and everything appended since they were read.
Replaced(w) ==
    Compressed(local[w].snapshot)
        \o SubSeq(local[w].seen, Len(local[w].snapshot) + 1, Len(local[w].seen))

\* replace_with_compressed: left alone when it does not start with what was
\* reflected, or when the write fails.
ReplaceLog(w) ==
    /\ pc[w] = "replace"
    /\ \/ /\ IF IsPrefix(local[w].snapshot, local[w].seen)
               THEN log' = Replaced(w) ELSE UNCHANGED log
          /\ UNCHANGED faults
       \/ UNCHANGED log /\ Faulty
    /\ ReflectDone(w)
    /\ ReleaseAll(w)
    /\ UNCHANGED <<record, recordEp, files, owner, covers, merged, recent, said, phase,
                   todo>>

-----------------------------------------------------------------------------
(* The end of a run, panics, crashes and recovery.                         *)

\* Mutant: the run's outcome is written where its state belongs.
FinishRunWithOutcome(r) ==
    /\ pc[r] = "merged"
    /\ record' = [record EXCEPT ![r] = "failed"]
    /\ Set(r, Fresh)
    /\ Goto(r, "over")
    /\ todo' = todo \ {r}
    /\ UNCHANGED <<recordEp, files, owner, covers, log, merged, recent, said, phase,
                   locks, faults>>

\* complete_run, or the rewrite at the end of recover_if_incomplete.  A failed
\* write leaves the record as it was.
FinishRun(r) ==
    /\ pc[r] = "merged"
    /\ \/ /\ record' = [record EXCEPT ![r] = "completed"]
          /\ recordEp' = [recordEp EXCEPT ![r] = local[r].out]
          /\ UNCHANGED faults
       \/ UNCHANGED <<record, recordEp>> /\ Faulty
    /\ Set(r, Fresh)
    /\ Goto(r, "over")
    /\ todo' = todo \ {r}
    /\ UNCHANGED <<files, owner, covers, log, merged, recent, said, phase, locks>>

\* A run's task panics: recover_from_panic runs the pipeline again from the
\* transcript with nothing staged.  A second panic is not caught.
Panic(r) ==
    /\ phase = "up"
    /\ pc[r] \notin {"idle", "over"}
    /\ Faulty
    /\ ReleaseAll(r)
    /\ Set(r, IF local[r].panicked THEN Fresh ELSE [Fresh EXCEPT !.panicked = TRUE])
    /\ Goto(r, IF local[r].panicked THEN "over" ELSE "panicked")
    /\ UNCHANGED <<disk, said, phase, todo>>

\* The process stops anywhere and starts again: what is on disk stays, and
\* recover_incomplete_runs lists the records that are not completed.  A run
\* id is never used again.
Crash ==
    /\ Faulty
    /\ phase' = "recovering"
    /\ todo' = {r \in Runs : record[r] = "running"}
    /\ pc' = [w \in Writers |-> IF w = Main \/ (pc[w] = "idle" /\ record[w] = "none")
                                THEN "idle" ELSE "over"]
    /\ local' = [w \in Writers |-> Fresh]
    /\ mergeLock' = Nobody
    /\ logLock' = Nobody
    /\ reflectionLock' = Nobody
    /\ UNCHANGED <<disk, said>>

Recovering == {r \in Runs : pc[r] \notin {"idle", "over"}}

\* Mutant: a record whose run was never merged is passed over.
RecoverIfIncompleteMerged(r) ==
    /\ phase = "recovering"
    /\ Recovering = {}
    /\ r \in todo
    /\ IF AlreadyMerged(r)
         THEN /\ Set(r, [Fresh EXCEPT !.out = merged[r]])
              /\ Goto(r, "merged")
              /\ UNCHANGED todo
         ELSE /\ todo' = todo \ {r}
              /\ UNCHANGED <<local, pc>>
    /\ UNCHANGED <<disk, said, phase, locks, faults>>

\* recover_if_incomplete, one record at a time: a run recorded as merged is
\* backfilled, any other goes through the completion pipeline.
RecoverIfIncomplete(r) ==
    /\ phase = "recovering"
    /\ Recovering = {}
    /\ r \in todo
    /\ IF AlreadyMerged(r)
         THEN /\ Set(r, [Fresh EXCEPT !.out = merged[r]])
              /\ Goto(r, "merged")
         ELSE Set(r, Fresh) /\ Goto(r, "recovering")
    /\ UNCHANGED <<disk, said, phase, todo, locks, faults>>

StartupDone ==
    /\ phase = "recovering"
    /\ todo = {}
    /\ Recovering = {}
    /\ phase' = "up"
    /\ UNCHANGED <<disk, said, todo, pc, local, locks, faults>>

MergeStep(w) ==
    \/ CheckMerged(w)
    \/ TakeMergeLock(w)
    \/ WriteTranscript(w)
    \/ WriteObsArchive(w)
    \/ LoadLog(w)
    \/ AppendObservations(w)
    \/ WriteChunkIndex(w)
    \/ WriteCompletionMarker(w)
    \/ SkipReflection(w)
    \/ StartReflection(w)
    \/ Compress(w)
    \/ ReplaceLog(w)

Next ==
    \/ AppendRecent
    \/ Observe
    \/ RemoveObserved
    \/ ForceReflect
    \/ Crash
    \/ StartupDone
    \/ \E w \in Writers : MergeStep(w) \/ PersistFails(w)
    \/ \E r \in Runs :
         \/ BeginRun(r)
         \/ MaybeStage(r)
         \/ CompleteSessionMemory(r)
         \/ RecordMergedRun(r)
         \/ FinishRun(r)
         \/ Panic(r)
         \/ RecoverIfIncomplete(r)

Spec == Init /\ [][Next]_vars

\* Start-up and every pipeline go on as long as the process lives.
FairSpec ==
    /\ Spec
    /\ WF_vars(StartupDone)
    /\ \A r \in Runs :
         /\ WF_vars(RecoverIfIncomplete(r))
         /\ WF_vars(CompleteSessionMemory(r) \/ RecordMergedRun(r) \/ FinishRun(r))
    /\ \A w \in Writers : WF_vars(MergeStep(w))

-----------------------------------------------------------------------------
(* Properties.                                                             *)

Steps == {"idle", "running", "panicked", "recovering", "check", "lock", "log",
          "reflect?", "compress", "replace", "merged", "over"} \cup Writing

LogEntries == Seq(SUBSET EpisodeIds)

Locals == [staged : BOOLEAN, panicked : BOOLEAN, ep : EpisodeIds \cup {NoEpisode},
           out : EpisodeIds \cup {NoEpisode}, seen : LogEntries, snapshot : LogEntries,
           recent : Seq(1 .. MaxRecent), forced : BOOLEAN]

\* The type of every variable: what the stores hold, the steps of the writers
\* and the holders of merge_lock, log_lock and reflection_lock.
TypeOK ==
    /\ record \in [Runs -> {"none", "running", "completed"}]
    /\ recordEp \in [Runs -> EpisodeIds \cup {NoEpisode}]
    /\ files \in [EpisodeIds -> SUBSET Artifacts]
    /\ owner \in [EpisodeIds -> Writers \cup {Nobody}]
    /\ covers \in [EpisodeIds -> SUBSET (1 .. MaxRecent)]
    /\ log \in LogEntries
    /\ merged \in [Runs -> EpisodeIds \cup {NoEpisode}]
    /\ recent \in Seq(1 .. MaxRecent)
    /\ said \in 0 .. MaxRecent
    /\ phase \in {"recovering", "up"}
    /\ todo \subseteq Runs
    /\ pc \in [Writers -> Steps]
    /\ local \in [Writers -> Locals]
    /\ {mergeLock, logLock, reflectionLock} \subseteq Writers \cup {Nobody}
    /\ faults \in 0 .. MaxFaults

Logged(e) == \E i \in DOMAIN log : e \in log[i]

\* The marker's promise (persist_episode, write_completion_marker): a marked
\* episode has every artifact, its observations are in the global log however
\* often that was compressed since, and a session's run id is recorded.
MarkerCertifies ==
    \A e \in EpisodeIds : "done" \in files[e] =>
        /\ files[e] = Artifacts
        /\ Logged(e)
        /\ owner[e] \in Runs => merged[owner[e]] = e

\* A run's record names the episode merged_runs names, and never an episode
\* cut short before its observations and its chunk index were written.
RecordNamesMergedEpisode ==
    \A r \in Runs : recordEp[r] # NoEpisode =>
        /\ merged[r] = recordEp[r]
        /\ owner[recordEp[r]] = r
        /\ {"transcript", "obs", "log", "idx"} \subseteq files[recordEp[r]]

\* A main message leaves recent_messages.json only into an episode
\* (remove_observed_recent_messages drops exactly what the cycle loaded).
RecentUntilObserved ==
    \A m \in 1 .. said : m \in ToSet(recent) \/ \E e \in EpisodeIds : m \in covers[e]

EpisodesOf(r) == {e \in EpisodeIds : owner[e] = r}

\* Once a run is recorded as merged no later attempt, by the run, by panic
\* recovery or by a start-up, gives it another episode.
MergedRunIsFinal ==
    [][\A r \in Runs : merged[r] # NoEpisode =>
         merged'[r] = merged[r] /\ EpisodesOf(r)' = EpisodesOf(r)]_vars

\* With no further fault, every record start-up found incomplete is completed.
RecoveryCompletes ==
    \A r \in Runs :
        (r \in todo /\ faults = MaxFaults) ~> (record[r] = "completed")

\* find_interrupted_episodes, as start-up runs it.
FindInterruptedEpisodes ==
    {e \in Transcripts : "done" \notin files[e] /\ "obs" \notin files[e]}

\* The completion marker's comments: its absence is what lets reconciliation
\* detect an interrupted write.  Violated: an observation archive is enough
\* for an episode without a marker to pass for a complete one.
InterruptedIsDetected ==
    phase = "recovering" /\ Recovering = {} =>
        {e \in Transcripts : "done" \notin files[e]} \subseteq FindInterruptedEpisodes
=============================================================================
