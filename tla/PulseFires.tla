----------------------------- MODULE PulseFires -----------------------------
(***************************************************************************)
(* Pulse fires (crates/gateway pulse_fires.rs, event_loop/pulse_fire.rs)   *)
(* and the stop tokens they offer their sessions (crates/background        *)
(* fire_stops.rs).                                                         *)
(*                                                                         *)
(* Each fire runs on a task of its own: its scripts, then its result or    *)
(* its session.  The spawn listener forks the session on a second task,    *)
(* the session runs on a third, and the owner's Stop and the agent's       *)
(* shutdown come from others still.  An action is what one of them does    *)
(* between two awaits.                                                     *)
(*                                                                         *)
(* The registry and the session's life are those of Sessions, reduced to   *)
(* what a fire sees of them.  Fires are numbered in the order they begin;  *)
(* a fire's number is its id, its seq and its session's address.           *)
(***************************************************************************)
EXTENDS Integers, Sequences

CONSTANTS Pulses,
          MaxFires,     \* bound: fires over the agent's life
          MaxResumes    \* bound: runs resumed by a message to a fire's session

ASSUME PulseFiresAssumption == MaxFires \in Nat /\ MaxResumes \in Nat /\ Pulses # {}

Fire == 1 .. MaxFires
None == 0

Form == {"session", "script", "script_only"}
Outcome == {"none", "ok", "stopped", "failed", "ended"}

VARIABLES
    begun,      \* PulseFires.next_seq
    pulse,      \* fire -> its pulse
    form,       \* fire -> whether its pulse has scripts, or nothing else
    tracked,    \* the keys of PulseFires.fires
    phase,      \* FireEntry.phase
    asked,      \* fires whose FireEntry has the session's address
    known,      \* fires whose FireEntry has the session's run id
    overlap,    \* FireEntry.overlap: the earlier fire it names
    stops,      \* fires the owner stopped
    agentStop,  \* PulseFires.agent_stop is cancelled
    pc,         \* fire -> where its task is
    then,       \* fire -> where its task goes on after the announcement
    noticed,    \* fires whose select loop has seen the stop
    lock,       \* who holds PulseFires.announce
    saying,     \* fire -> the run in flight its announcement read
    last,       \* pulse -> the run in flight its last event carried
    outcome,    \* fire -> how it ended
    offers,     \* FireStops.fires
    requests,   \* spawn requests the listener has not taken
    building,   \* the fire whose session the listener is building
    sess,       \* fire -> the life of the session it asked for
    resumed,    \* fires whose session's address a message resumed
    resumes,    \* resumed runs so far
    heard,      \* fire -> session events not read
    failure,    \* fires whose start failure is not read
    busUp       \* the broker runs

tracker == <<begun, pulse, form, tracked, phase, asked, known, overlap>>
task == <<pc, then, noticed, outcome>>
stopping == <<stops, agentStop>>
saidVars == <<lock, saying, last>>
listener == <<requests, building>>
session == <<sess, resumed, resumes>>
inboxes == <<heard, failure>>
vars == <<tracker, task, stopping, saidVars, offers, listener, session, inboxes, busUp>>

NoRun == [kind |-> "none"]

Init ==
    /\ begun = 0
    /\ pulse \in [Fire -> Pulses]
    /\ form = [f \in Fire |-> "session"]
    /\ tracked = {}
    /\ phase = [f \in Fire |-> "script"]
    /\ asked = {}
    /\ known = {}
    /\ overlap = [f \in Fire |-> None]
    /\ stops = {}
    /\ agentStop = FALSE
    /\ pc = [f \in Fire |-> "unborn"]
    /\ then = [f \in Fire |-> "done"]
    /\ noticed = {}
    /\ lock = None
    /\ saying = [f \in Fire |-> NoRun]
    /\ last = [p \in Pulses |-> NoRun]
    /\ outcome = [f \in Fire |-> "none"]
    /\ offers = [f \in Fire |-> "none"]
    /\ requests = <<>>
    /\ building = None
    /\ sess = [f \in Fire |-> "none"]
    /\ resumed = {}
    /\ resumes = 0
    /\ heard = [f \in Fire |-> <<>>]
    /\ failure = {}
    /\ busUp = TRUE

\* A fire's stop token is a child of the agent's, its session's a child of both.
Cancelled(f) == agentStop \/ f \in stops

\* The session's registry entry, from register until remove.
Registered == {f \in Fire : sess[f] \in {"registered", "running"}} \cup resumed

InFlight(p) == {f \in tracked : pulse[f] = p}

Newest(S) == CHOOSE f \in S : \A g \in S : g <= f
Oldest(S) == CHOOSE f \in S : \A g \in S : f <= g

\* PulseFires::current_run, with FireEntry::run: the registry knows a run id
\* before the fire does.
CurrentRun(p) ==
    IF InFlight(p) # {}
    THEN LET f == Newest(InFlight(p))
         IN  [kind |-> "fire", fire |-> f, phase |-> phase[f],
              run |-> f \in known \/ (f \in asked /\ f \in Registered)]
    ELSE IF \E f \in Registered : pulse[f] = p THEN [kind |-> "session"] ELSE NoRun

-----------------------------------------------------------------------------
(* The event loop, the owner and the agent's shutdown.                     *)

\* untracked_sessions: resumed sessions of the pulse whose fire is over.
Untracked(p) == {f \in Registered \ tracked : pulse[f] = p}

\* PulseFires::overlap, for fires: the oldest in flight, unless an untracked session
\* is older, or all there is. One that overlaps a session names no fire.
OverlapsOf(p) ==
    IF InFlight(p) = {} THEN {None}
    ELSE {Oldest(InFlight(p))} \cup (IF Untracked(p) = {} THEN {} ELSE {None})

\* start_pulse_fire: only the event loop starts fires, so no other begins between
\* its look at the overlap and its insert.
StartPulseFire(f, k) ==
    /\ ~agentStop
    /\ f = begun + 1
    /\ begun' = f
    /\ form' = [form EXCEPT ![f] = k]
    /\ tracked' = tracked \cup {f}
    /\ phase' = [phase EXCEPT ![f] = IF k = "session" THEN "session" ELSE "script"]
    /\ \E o \in OverlapsOf(pulse[f]) : overlap' = [overlap EXCEPT ![f] = o]
    /\ pc' = [pc EXCEPT ![f] = "start"]
    /\ UNCHANGED <<pulse, asked, known, then, noticed, outcome, stopping, saidVars,
                   offers, listener, session, inboxes, busUp>>

\* PulseFires::stop: a fire that has left the tracker is not found.
Stop(f) ==
    /\ f \in tracked \ stops
    /\ stops' = stops \cup {f}
    /\ UNCHANGED <<tracker, task, agentStop, saidVars, offers, listener, session, inboxes, busUp>>

StopAll ==
    /\ ~agentStop
    /\ agentStop' = TRUE
    /\ UNCHANGED <<tracker, task, stops, saidVars, offers, listener, session, inboxes, busUp>>

\* The broker is gone: whoever publishes or subscribes gets an error, whoever
\* receives reads what is queued and then the end.
BusCloses ==
    /\ busUp
    /\ busUp' = FALSE
    /\ UNCHANGED <<tracker, task, stopping, saidVars, offers, listener, session, inboxes>>

-----------------------------------------------------------------------------
(* The fire's own task.                                                    *)

\* The task publishes a change and goes on at l.
AnnounceThen(f, l) ==
    /\ pc' = [pc EXCEPT ![f] = "announce"]
    /\ then' = [then EXCEPT ![f] = l]

\* Mutant: a fire that ends leaves its offer behind.
LeaveTrackerOffered(f) ==
    /\ tracked' = tracked \ {f}
    /\ UNCHANGED offers

\* PulseFire::leave_tracker.
LeaveTracker(f) ==
    /\ tracked' = tracked \ {f}
    /\ offers' = [offers EXCEPT ![f] = "none"]

\* PulseFire::finish, and PulseFire::end, which has no outcome to show.  The entry,
\* the subscriptions and the loop's own variables are gone.
Finish(f, o) ==
    /\ LeaveTracker(f)
    /\ outcome' = [outcome EXCEPT ![f] = o]
    /\ AnnounceThen(f, "done")
    /\ phase' = [phase EXCEPT ![f] = "script"]
    /\ asked' = asked \ {f}
    /\ known' = known \ {f}
    /\ overlap' = [overlap EXCEPT ![f] = None]
    /\ noticed' = noticed \ {f}
    /\ heard' = [heard EXCEPT ![f] = <<>>]
    /\ failure' = failure \ {f}
    /\ form' = [form EXCEPT ![f] = "session"]
    /\ UNCHANGED <<begun, pulse>>

\* end_stopped_fire.
EndStopped(f) == Finish(f, IF agentStop THEN "ended" ELSE "stopped")

\* Mutant: the entry's phase moves on without the session's address.
RequestSessionUnaddressed(f) ==
    /\ phase' = [phase EXCEPT ![f] = "session"]
    /\ UNCHANGED <<begun, pulse, form, tracked, asked, known, overlap>>

\* PulseFire::request_session.
RequestSession(f) ==
    /\ phase' = [phase EXCEPT ![f] = "session"]
    /\ asked' = asked \cup {f}
    /\ UNCHANGED <<begun, pulse, form, tracked, known, overlap>>

\* run_pulse_fire up to its first await.
Begin(f) ==
    /\ pc[f] = "start"
    /\ \/ form[f] = "session" /\ RequestSession(f) /\ AnnounceThen(f, "subscribe")
       \/ form[f] # "session" /\ UNCHANGED tracker /\ AnnounceThen(f, "scripts")
    /\ UNCHANGED <<noticed, outcome, stopping, saidVars, offers, listener, session, inboxes, busUp>>

\* The scripts are over, or a stop killed the one running: run_pulse_scripts,
\* deliver_scripted_fire (whose own look at the token comes right after) and
\* deliver_script_only, which finishes whether or not the bus takes the result.
RunScripts(f) ==
    /\ pc[f] = "scripts"
    /\ \/ Cancelled(f) /\ EndStopped(f)
       \/ /\ ~Cancelled(f)
          /\ form[f] = "script_only"
          /\ \E o \in {"ok", "failed"} : Finish(f, o)
       \/ /\ ~Cancelled(f)
          /\ form[f] = "script"
          /\ RequestSession(f)
          /\ AnnounceThen(f, "subscribe")
          /\ UNCHANGED <<noticed, outcome, offers, inboxes>>
    /\ UNCHANGED <<stopping, saidVars, listener, session, busUp>>

\* run_session_phase up to its loop.  A stop that landed while it subscribed ends
\* the fire; without a subscription it asks for a session it does not follow, with
\* no fire id, and the broker that refused the one refuses the other.  Else it
\* offers its token and publishes the request, or ends when the broker refuses it
\* (publish_pulse_spawn, end_unrequested_fire).
AskForSession(f) ==
    /\ pc[f] = "subscribe"
    /\ \/ Cancelled(f) /\ EndStopped(f) /\ UNCHANGED requests
       \/ /\ ~busUp
          /\ \E o \in {"ended"} \cup (IF agentStop THEN {} ELSE {"failed"}) : Finish(f, o)
          /\ UNCHANGED requests
       \/ /\ ~Cancelled(f) /\ busUp
          /\ offers' = [offers EXCEPT ![f] = "offered"]
          /\ requests' = Append(requests, f)
          /\ pc' = [pc EXCEPT ![f] = "follow"]
          /\ UNCHANGED <<tracker, then, noticed, outcome, inboxes>>
    /\ UNCHANGED <<stopping, saidVars, building, session, busUp>>

\* Mutant: a fire that is stopped ends, whatever became of its request.
NoticeStopAtOnce(f) ==
    /\ pc[f] = "follow" /\ Cancelled(f) /\ f \notin noticed
    /\ EndStopped(f)
    /\ UNCHANGED <<stopping, saidVars, listener, session, busUp>>

\* The loop's stop arm: withdraw tells whether the session was claimed.
NoticeStop(f) ==
    /\ pc[f] = "follow" /\ Cancelled(f) /\ f \notin noticed
    /\ \/ offers[f] # "claimed" /\ EndStopped(f)
       \/ /\ offers[f] = "claimed"
          /\ offers' = [offers EXCEPT ![f] = "none"]
          /\ noticed' = noticed \cup {f}
          /\ UNCHANGED <<tracker, pc, then, outcome, inboxes>>
    /\ UNCHANGED <<stopping, saidVars, listener, session, busUp>>

\* The loop's arm for session events: the first Started, and Completed.
HearSession(f) ==
    /\ pc[f] = "follow"
    /\ heard[f] # <<>>
    /\ \/ /\ Head(heard[f]) = "started"
          /\ heard' = [heard EXCEPT ![f] = Tail(@)]
          /\ known' = known \cup {f}
          /\ AnnounceThen(f, "follow")
          /\ UNCHANGED <<begun, pulse, form, tracked, phase, asked, overlap, noticed, outcome,
                         offers, failure>>
       \/ Head(heard[f]) # "started" /\ Finish(f, Head(heard[f]))
    /\ UNCHANGED <<stopping, saidVars, listener, session, busUp>>

\* end_unstarted_fire.
HearFailure(f) ==
    /\ pc[f] = "follow"
    /\ f \in failure
    /\ \/ f \in noticed /\ EndStopped(f)
       \/ f \notin noticed /\ Finish(f, "failed")
    /\ UNCHANGED <<stopping, saidVars, listener, session, busUp>>

\* Either subscription ends: nothing more will be heard.
HearEnd(f) ==
    /\ pc[f] = "follow"
    /\ ~busUp
    /\ heard[f] = <<>> \/ f \notin failure
    /\ Finish(f, "ended")
    /\ UNCHANGED <<stopping, saidVars, listener, session, busUp>>

\* PulseFire::drop: the task panicked, and a task of its own announces the end.
Panic(f) ==
    /\ pc[f] \in {"scripts", "subscribe", "follow"}
    /\ Finish(f, "ended")
    /\ UNCHANGED <<stopping, saidVars, listener, session, busUp>>

\* Mutant: the run in flight is read outside the lock the event is sent under.
AnnounceReadUnlocked(f) ==
    /\ pc[f] = "announce"
    /\ lock' = f
    /\ saying' = [saying EXCEPT ![f] = CurrentRun(pulse[f])]
    /\ pc' = [pc EXCEPT ![f] = "publish"]
    /\ UNCHANGED <<tracker, then, noticed, outcome, stopping, last, offers, listener, session,
                   inboxes, busUp>>

\* announce: under its lock, read the run in flight ...
AnnounceRead(f) ==
    /\ pc[f] = "announce"
    /\ lock = None
    /\ lock' = f
    /\ saying' = [saying EXCEPT ![f] = CurrentRun(pulse[f])]
    /\ pc' = [pc EXCEPT ![f] = "publish"]
    /\ UNCHANGED <<tracker, then, noticed, outcome, stopping, last, offers, listener, session,
                   inboxes, busUp>>

\* ... and publish it.
AnnouncePublish(f) ==
    /\ pc[f] = "publish"
    /\ lock' = None
    /\ saying' = [saying EXCEPT ![f] = NoRun]
    /\ last' = IF busUp THEN [last EXCEPT ![pulse[f]] = saying[f]] ELSE last
    /\ pc' = [pc EXCEPT ![f] = then[f]]
    /\ then' = [then EXCEPT ![f] = "done"]
    /\ UNCHANGED <<tracker, noticed, outcome, stopping, offers, listener, session,
                   inboxes, busUp>>

-----------------------------------------------------------------------------
(* The spawn listener.                                                     *)

\* fork_and_spawn to its first await: FireStops::claim.
Claim ==
    /\ requests # <<>> /\ building = None
    /\ requests' = Tail(requests)
    /\ LET f == Head(requests)
       IN  \/ /\ offers[f] # "none" /\ ~Cancelled(f)
              /\ offers' = [offers EXCEPT ![f] = "claimed"]
              /\ building' = f
           \/ /\ offers[f] = "none" \/ Cancelled(f)
              /\ UNCHANGED <<offers, building>>
    /\ UNCHANGED <<tracker, task, stopping, saidVars, session, inboxes, busUp>>

\* Mutant: the failure is only logged.
BuildFailsSilently ==
    /\ building # None
    /\ building' = None
    /\ UNCHANGED <<tracker, task, stopping, saidVars, offers, requests, session, inboxes, busUp>>

\* Building the session's resources fails: publish_pulse_start_failed.
BuildFails ==
    /\ building # None
    /\ building' = None
    /\ failure' = IF busUp /\ building \in tracked THEN failure \cup {building} ELSE failure
    /\ UNCHANGED <<tracker, task, stopping, saidVars, offers, requests, session, heard, busUp>>

\* SessionRuntime::spawn.
Register ==
    /\ building # None
    /\ building' = None
    /\ sess' = [sess EXCEPT ![building] = "registered"]
    /\ UNCHANGED <<tracker, task, stopping, saidVars, offers, requests, resumed, resumes, inboxes,
                   busUp>>

-----------------------------------------------------------------------------
(* The session's task.                                                     *)

\* A follower that has gone has dropped its subscription.
Hear(f, e) ==
    heard' = IF busUp /\ f \in tracked THEN [heard EXCEPT ![f] = Append(@, e)] ELSE heard

SessionStarts(f) ==
    /\ sess[f] = "registered"
    /\ sess' = [sess EXCEPT ![f] = "running"]
    /\ Hear(f, "started")
    /\ UNCHANGED <<tracker, task, stopping, saidVars, offers, listener, resumed, resumes, failure,
                   busUp>>

\* The run is over, by itself or because its token is cancelled, and leaves the
\* registry ...
SessionEnds(f) ==
    /\ sess[f] = "running"
    /\ sess' = [sess EXCEPT ![f] = "removed"]
    /\ UNCHANGED <<tracker, task, stopping, saidVars, offers, listener, resumed, resumes, inboxes,
                   busUp>>

\* ... and then publishes Completed with its status, as fire_outcome reads it. It is
\* cancelled by a stop of the fire or the agent, or of the session itself.
SessionCompleted(f) ==
    /\ sess[f] = "removed"
    /\ sess' = [sess EXCEPT ![f] = "over"]
    /\ \E s \in {"ok", "failed", "stopped"} : Hear(f, s)
    /\ UNCHANGED <<tracker, task, stopping, saidVars, offers, listener, resumed, resumes, failure,
                   busUp>>

\* A message to the address of a session that is over resumes it as a run of its
\* own, which no fire's token stops.  Its events name a run no fire follows.
MessageResumes(f) ==
    /\ sess[f] = "over" /\ f \notin resumed
    /\ resumes < MaxResumes
    /\ resumes' = resumes + 1
    /\ resumed' = resumed \cup {f}
    /\ UNCHANGED <<tracker, task, stopping, saidVars, offers, listener, sess, inboxes, busUp>>

ResumedEnds(f) ==
    /\ f \in resumed
    /\ resumed' = resumed \ {f}
    /\ UNCHANGED <<tracker, task, stopping, saidVars, offers, listener, sess, resumes, inboxes, busUp>>

-----------------------------------------------------------------------------

Following(f) == NoticeStop(f) \/ HearSession(f) \/ HearFailure(f) \/ HearEnd(f)

TaskStep(f) ==
    \/ Begin(f) \/ RunScripts(f) \/ AskForSession(f)
    \/ Following(f) \/ AnnouncePublish(f)

Listening == Claim \/ BuildFails \/ Register

SessionStep(f) == SessionStarts(f) \/ SessionEnds(f) \/ SessionCompleted(f)

Next ==
    \/ \E f \in Fire :
          \/ (\E k \in Form : StartPulseFire(f, k)) \/ Stop(f) \/ Panic(f)
          \/ TaskStep(f) \/ AnnounceRead(f)
          \/ SessionStep(f) \/ MessageResumes(f) \/ ResumedEnds(f)
    \/ StopAll
    \/ BusCloses
    \/ Listening

Spec == Init /\ [][Next]_vars

-----------------------------------------------------------------------------
(* Properties.                                                             *)

PC == {"unborn", "start", "announce", "publish", "scripts", "subscribe", "follow", "done"}

Shown == {NoRun, [kind |-> "session"]}
         \cup [kind : {"fire"}, fire : Fire, phase : {"script", "session"}, run : BOOLEAN]

\* The shape of the state; a fire in the tracker has a task, and a run id only
\* where it asked for a session.
TypeOK ==
    /\ begun \in 0 .. MaxFires
    /\ pulse \in [Fire -> Pulses]
    /\ form \in [Fire -> Form]
    /\ tracked \subseteq 1 .. begun
    /\ phase \in [Fire -> {"script", "session"}]
    /\ asked \subseteq Fire
    /\ known \subseteq asked
    /\ overlap \in [Fire -> Fire \cup {None}]
    /\ stops \subseteq Fire
    /\ agentStop \in BOOLEAN
    /\ pc \in [Fire -> PC]
    /\ then \in [Fire -> {"scripts", "subscribe", "follow", "done"}]
    /\ noticed \subseteq Fire
    /\ lock \in Fire \cup {None}
    /\ saying \in [Fire -> Shown]
    /\ last \in [Pulses -> Shown]
    /\ outcome \in [Fire -> Outcome]
    /\ offers \in [Fire -> {"none", "offered", "claimed"}]
    /\ requests \in Seq(Fire)
    /\ building \in Fire \cup {None}
    /\ sess \in [Fire -> {"none", "registered", "running", "removed", "over"}]
    /\ resumed \subseteq Fire
    /\ resumes \in 0 .. MaxResumes
    /\ heard \in [Fire -> Seq({"started", "ok", "stopped", "failed"})]
    /\ failure \subseteq Fire
    /\ busUp \in BOOLEAN

\* A fire recorded as stopped has no session that is going or still to come: the
\* stop either kept it from being forked or was heard to have ended it
\* (fire_stops.rs, run_session_phase).
StoppedFireIsOver ==
    \A f \in Fire : outcome[f] = "stopped" =>
        building # f /\ sess[f] \notin {"registered", "running"}

\* A fire that has left the tracker with nothing claimed never gets a session,
\* though its request may still be waiting (leave_tracker withdraws the offer).
EndedFireForksNothing ==
    [][\A f \in Fire :
         (begun >= f /\ f \notin tracked /\ building # f /\ sess[f] = "none")
            => sess'[f] = "none" /\ building' # f]_vars

\* Nothing of pulse p is between a change and its announcement.
Quiet(p) ==
    /\ busUp
    /\ \A f \in Fire : pulse[f] = p =>
          /\ pc[f] \notin {"start", "announce", "publish"}
          /\ heard[f] = <<>>
          /\ sess[f] # "registered"

\* The last event a pulse's fires published shows the run in flight: a fire that is
\* going is shown in its phase, and one that is over no more (the announce lock).
LastEventIsCurrent ==
    \A p \in Pulses : Quiet(p) =>
        LET run == CurrentRun(p)
        IN  IF run.kind = "fire" THEN last[p] = run ELSE last[p].kind # "fire"

\* A fire that follows its session has something to hear: its request waits, its
\* session is being built, is live or owes its Completed, or an event is unread.
\* Only a fire that can still be refused at the claim has its stop to notice.
\* So no fire, stopped or not, waits for ever on a session that will not come.
FollowedIsComing ==
    \A f \in Fire : (pc[f] = "follow" /\ busUp) =>
        \/ \E i \in DOMAIN requests : requests[i] = f
        \/ building = f
        \/ sess[f] \in {"registered", "running", "removed"}
        \/ heard[f] # <<>>
        \/ f \in failure
        \/ Cancelled(f) /\ f \notin noticed /\ offers[f] # "claimed"

\* "as stopped when the fire had been stopped by then": a start failure read after
\* the stop ends the fire as stopped (end_unstarted_fire's comment).
StoppedFireNeverFails ==
    [][\A f \in Fire : (Cancelled(f) /\ HearFailure(f)) => outcome'[f] # "failed"]_vars
=============================================================================
