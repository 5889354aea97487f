-------------------------- MODULE PulseFiresProofs --------------------------
(***************************************************************************)
(* The stop tokens of pulse fires and the events that show a fire, for     *)
(* every set of pulses and every number of fires.                          *)
(***************************************************************************)
EXTENDS PulseFires, WellFoundedInduction, TLAPS

-----------------------------------------------------------------------------
(* The inductive invariant.                                                *)

\* Where a fire's task is, or goes on when its announcement is out.
Place(f) == IF pc[f] \in {"announce", "publish"} THEN then[f] ELSE pc[f]

Waiting(f) == \E i \in DOMAIN requests : requests[i] = f

\* The tracker holds the fires whose task is going; the address is written on the
\* way to the session.
TaskPlaced(f) ==
    /\ f > begun <=> pc[f] = "unborn"
    /\ f \in tracked <=> Place(f) \in {"start", "scripts", "subscribe", "follow"}
    /\ f \in asked <=> Place(f) \in {"subscribe", "follow"}
    /\ outcome[f] # "none" => Place(f) = "done"

\* A request is in one place at a time: in the listener's queue, being built, or
\* become a session or a failure; and the offer's state tells which of them it is.
SpawnOrdered(f) ==
    /\ Waiting(f) =>
          /\ building # f /\ sess[f] = "none" /\ f \notin failure
          /\ Place(f) = "done" \/ (Place(f) = "follow" /\ offers[f] = "offered")
    /\ building = f => sess[f] = "none" /\ f \notin failure
    /\ building = f \/ sess[f] # "none" =>
          Place(f) \in {"follow", "done"} /\ offers[f] # "offered"
    /\ f \in failure => sess[f] = "none" /\ Place(f) = "follow" /\ offers[f] # "offered"
    /\ offers[f] # "none" => Place(f) = "follow"
    /\ f \in noticed => Place(f) = "follow" /\ offers[f] = "none"
    /\ Place(f) = "follow" /\ offers[f] = "none" => f \in noticed
    /\ f \in resumed => sess[f] = "over"

Ran(f) == sess[f] \in {"running", "removed", "over"}

\* A fire hears of its session what the session has done by then.
HeardOrdered(f) ==
    /\ heard[f] # <<>> => Place(f) = "follow" /\ Ran(f)
    /\ \A i \in DOMAIN heard[f] : heard[f][i] # "started" => sess[f] = "over"
    /\ busUp /\ f \in tracked /\ Ran(f) => f \in known \/ heard[f] # <<>>

\* The outcome "stopped" is not shown before the session is over.
StoppedOver(f) ==
    outcome[f] = "stopped" => building # f /\ sess[f] \notin {"registered", "running"}

\* What FollowedIsComing says, of a fire that is announcing too, and with the
\* Completed of a session that is over among the unread events.
Coming(f) ==
    busUp /\ Place(f) = "follow" =>
        \/ Waiting(f)
        \/ building = f
        \/ sess[f] \in {"registered", "running", "removed"}
        \/ \E i \in DOMAIN heard[f] : heard[f][i] # "started"
        \/ f \in failure
        \/ Cancelled(f) /\ f \notin noticed /\ offers[f] # "claimed"

Ordered(f) ==
    TaskPlaced(f) /\ SpawnOrdered(f) /\ HeardOrdered(f) /\ StoppedOver(f) /\ Coming(f)

RequestedOnce == \A i, j \in DOMAIN requests : requests[i] = requests[j] => i = j

FireInv == TypeOK /\ RequestedOnce /\ \A f \in Fire : Ordered(f)

LockHeld == \A f \in Fire : pc[f] = "publish" <=> lock = f

\* Event x shows run.
Shows(x, run) == IF run.kind = "fire" THEN x = run ELSE x.kind # "fire"

\* Fire f has a change that is not announced, or an announcement to come.
Due(f) ==
    \/ pc[f] \in {"start", "announce"}
    \/ heard[f] # <<>>
    \/ f \in tracked /\ sess[f] = "registered"

\* Where nothing is due, the event about to be published, or else the last one,
\* shows the run in flight.
ShownOrDue(p) ==
    \/ \E f \in Fire : pulse[f] = p /\ Due(f)
    \/ \E f \in Fire : pulse[f] = p /\ pc[f] = "publish" /\ Shows(saying[f], CurrentRun(p))
    \/ /\ \A f \in Fire : pulse[f] = p => pc[f] # "publish"
       /\ Shows(last[p], CurrentRun(p))

ShowInv == LockHeld /\ (busUp => \A p \in Pulses : ShownOrDue(p))

-----------------------------------------------------------------------------
(* The fires of a pulse.                                                   *)

LEMMA NoneIsNoFire == Fire \subseteq Nat /\ None \notin Fire
  BY PulseFiresAssumption DEF Fire, None

LEMMA OldestIsThere ==
  ASSUME NEW S \in SUBSET Fire, S # {}
  PROVE  Oldest(S) \in S /\ \A g \in S : Oldest(S) <= g
  <1>1. S \subseteq Nat
    BY NoneIsNoFire
  <1>2. PICK f \in S : \A g \in S : ~ (<<g, f>> \in OpToRel(<, Nat))
    BY <1>1, WFMin, NatLessThanWellFounded
  <1>3. \A g \in S : ~ (g < f)
    BY <1>1, <1>2 DEF OpToRel
  <1>4. \A g \in S : f <= g
    BY <1>1, <1>3
  <1> QED
    BY <1>4 DEF Oldest

LEMMA NewestIsThere ==
  ASSUME NEW S \in SUBSET Fire, S # {}
  PROVE  Newest(S) \in S /\ \A g \in S : g <= Newest(S)
  <1> DEFINE T == {MaxFires - g : g \in S}
  <1>1. T \subseteq Nat /\ T # {} /\ \A g \in S : g \in Int /\ g <= MaxFires
    BY PulseFiresAssumption DEF Fire
  <1>2. \A g \in S : MaxFires - g \in T
    OBVIOUS
  <1>3. PICK t \in T : \A u \in T : ~ (<<u, t>> \in OpToRel(<, Nat))
    <2> HIDE DEF T
    <2> QED
      BY <1>1, WFMin, NatLessThanWellFounded
  <1>4. PICK f \in S : t = MaxFires - f
    OBVIOUS
  <1>5. \A u \in T : ~ (u < t)
    BY <1>1, <1>3 DEF OpToRel
  <1>6. ASSUME NEW g \in S PROVE g <= f
    <2>1. ~ (MaxFires - g < MaxFires - f)
      BY <1>2, <1>4, <1>5
    <2> QED
      BY <1>1, <2>1, PulseFiresAssumption
  <1> QED
    BY <1>6 DEF Newest

LEMMA TrackedIsFire ==
  ASSUME TypeOK
  PROVE  tracked \subseteq Fire
  <1>1. begun \in Nat /\ begun <= MaxFires
    BY PulseFiresAssumption DEF TypeOK
  <1>2. tracked \subseteq 1 .. begun
    BY DEF TypeOK
  <1> QED
    BY <1>1, <1>2, PulseFiresAssumption DEF Fire

LEMMA CurrentRunShown ==
  ASSUME TypeOK, NEW p
  PROVE  CurrentRun(p) \in Shown
  <1>1. InFlight(p) \subseteq Fire
    BY TrackedIsFire DEF InFlight
  <1>2. CASE InFlight(p) # {}
    <2> DEFINE f == Newest(InFlight(p))
    <2>1. f \in Fire
      BY <1>1, <1>2, NewestIsThere
    <2>2. phase[f] \in {"script", "session"}
      BY <2>1 DEF TypeOK
    <2> HIDE DEF f
    <2>3. [kind |-> "fire", fire |-> f, phase |-> phase[f],
           run |-> f \in known \/ (f \in asked /\ f \in Registered)]
          \in [kind : {"fire"}, fire : Fire, phase : {"script", "session"}, run : BOOLEAN]
      BY <2>1, <2>2
    <2> QED
      BY <1>2, <2>3 DEF CurrentRun, Shown, f
  <1>3. CASE InFlight(p) = {}
    BY <1>3 DEF CurrentRun, Shown
  <1> QED
    BY <1>2, <1>3

-----------------------------------------------------------------------------
(* The shape of the state.                                                 *)

LEMMA UpdateTyped ==
  ASSUME NEW S, NEW V, NEW f \in [S -> V], NEW x, NEW v \in V
  PROVE  [f EXCEPT ![x] = v] \in [S -> V]
  OBVIOUS

LEMMA TypeInit == Init => TypeOK
  <1> SUFFICES ASSUME Init PROVE TypeOK
    OBVIOUS
  <1> USE DEF Init
  <1>1. begun \in 0 .. MaxFires /\ resumes \in 0 .. MaxResumes
    BY PulseFiresAssumption
  <1>2. NoRun \in Shown
    BY DEF Shown
  <1>3. saying \in [Fire -> Shown] /\ last \in [Pulses -> Shown]
    BY <1>2
  <1>4. /\ form \in [Fire -> Form] /\ pc \in [Fire -> PC] /\ outcome \in [Fire -> Outcome]
        /\ overlap \in [Fire -> Fire \cup {None}]
        /\ heard \in [Fire -> Seq({"started", "ok", "stopped", "failed"})]
        /\ requests \in Seq(Fire)
    BY DEF Form, PC, Outcome
  <1> QED
    BY <1>1, <1>3, <1>4 DEF TypeOK

\* What the end of a fire does to the variables it writes.
LEMMA TypeFinish ==
  ASSUME TypeOK, NEW f \in Fire, NEW o \in Outcome, Finish(f, o)
  PROVE  /\ begun' = begun /\ pulse' = pulse
         /\ tracked' \subseteq tracked
         /\ form' \in [Fire -> Form]
         /\ phase' \in [Fire -> {"script", "session"}]
         /\ asked' = asked \ {f} /\ known' = known \ {f} /\ noticed' = noticed \ {f}
         /\ overlap' \in [Fire -> Fire \cup {None}]
         /\ pc' \in [Fire -> PC]
         /\ then' \in [Fire -> {"scripts", "subscribe", "follow", "done"}]
         /\ outcome' \in [Fire -> Outcome]
         /\ offers' \in [Fire -> {"none", "offered", "claimed"}]
         /\ heard' \in [Fire -> Seq({"started", "ok", "stopped", "failed"})]
         /\ failure' = failure \ {f}
  BY UpdateTyped DEF TypeOK, Finish, LeaveTracker, AnnounceThen, Form, PC

\* An end is a whole step but for what the fire's task does not touch.
LEMMA TypeEnd ==
  ASSUME TypeOK, NEW f \in Fire, NEW o \in Outcome, Finish(f, o),
         UNCHANGED <<stopping, saidVars, listener, session, busUp>>
  PROVE  TypeOK'
  BY TypeFinish DEF TypeOK, stopping, saidVars, listener, session

LEMMA StoppedOutcome ==
  ASSUME NEW f, EndStopped(f)
  PROVE  \E o \in {"ended", "stopped"} : Finish(f, o) /\ (o = "stopped" <=> ~agentStop)
  BY DEF EndStopped

LEMMA TypeStart ==
  ASSUME TypeOK, NEW f \in Fire, NEW k \in Form, StartPulseFire(f, k)
  PROVE  TypeOK'
  <1>1. begun' \in 0 .. MaxFires /\ tracked' \subseteq 1 .. begun'
    <2>1. begun \in Nat /\ begun' = begun + 1 /\ begun' \in 1 .. MaxFires
          /\ tracked \subseteq 1 .. begun
      BY DEF TypeOK, StartPulseFire, Fire
    <2>2. tracked' = tracked \cup {begun + 1}
      BY DEF StartPulseFire
    <2> QED
      BY <2>1, <2>2, PulseFiresAssumption
  <1>2. OverlapsOf(pulse[f]) \subseteq Fire \cup {None}
    BY TrackedIsFire, OldestIsThere DEF OverlapsOf, InFlight
  <1>3. /\ form' \in [Fire -> Form] /\ phase' \in [Fire -> {"script", "session"}]
        /\ overlap' \in [Fire -> Fire \cup {None}] /\ pc' \in [Fire -> PC]
    BY <1>2 DEF TypeOK, StartPulseFire, PC
  <1> QED
    BY <1>1, <1>3 DEF TypeOK, StartPulseFire, stopping, saidVars, listener, session, inboxes

LEMMA TypeRequest ==
  ASSUME TypeOK, NEW f \in Fire, NEW l \in {"scripts", "subscribe", "follow"},
         RequestSession(f) \/ UNCHANGED tracker, AnnounceThen(f, l),
         UNCHANGED <<noticed, outcome, stopping, saidVars, offers, listener, session, inboxes,
                     busUp>>
  PROVE  TypeOK'
  <1>1. /\ begun' = begun /\ pulse' = pulse /\ form' = form /\ tracked' = tracked
        /\ known' = known /\ overlap' = overlap
        /\ asked \subseteq asked' /\ asked' \subseteq Fire
        /\ phase' \in [Fire -> {"script", "session"}]
    BY UpdateTyped DEF TypeOK, RequestSession, tracker
  <1>2. /\ pc' \in [Fire -> PC]
        /\ then' \in [Fire -> {"scripts", "subscribe", "follow", "done"}]
    BY UpdateTyped DEF TypeOK, AnnounceThen, PC
  <1> QED
    BY <1>1, <1>2 DEF TypeOK, stopping, saidVars, listener, session, inboxes

LEMMA TypeAsk ==
  ASSUME TypeOK, NEW f \in Fire, AskForSession(f)
  PROVE  TypeOK'
  <1>1. CASE Cancelled(f) /\ EndStopped(f) /\ UNCHANGED requests
    BY <1>1, StoppedOutcome, TypeEnd DEF AskForSession, Outcome, listener
  <1>2. ASSUME NEW o \in {"ended", "failed"}, Finish(f, o), UNCHANGED requests
        PROVE  TypeOK'
    BY <1>2, TypeEnd DEF AskForSession, Outcome, listener
  <1>3. ASSUME offers' = [offers EXCEPT ![f] = "offered"], requests' = Append(requests, f),
               pc' = [pc EXCEPT ![f] = "follow"],
               UNCHANGED <<tracker, then, noticed, outcome, inboxes>>
        PROVE  TypeOK'
    <2>1. /\ offers' \in [Fire -> {"none", "offered", "claimed"}]
          /\ requests' \in Seq(Fire) /\ pc' \in [Fire -> PC]
      BY <1>3 DEF TypeOK, PC
    <2> QED
      BY <1>3, <2>1
         DEF AskForSession, TypeOK, tracker, stopping, saidVars, session, inboxes
  <1> QED
    BY <1>1, <1>2, <1>3 DEF AskForSession
LEMMA TypeFollow ==
  ASSUME TypeOK, NEW f \in Fire, Ordered(f), Following(f) \/ Panic(f) \/ RunScripts(f)
  PROVE  TypeOK'
  <1> USE DEF Outcome
  <1>1. ASSUME NEW o \in Outcome, Finish(f, o),
               UNCHANGED <<stopping, saidVars, listener, session, busUp>>
        PROVE  TypeOK'
    BY <1>1, TypeEnd
  <1>2. ASSUME EndStopped(f), UNCHANGED <<stopping, saidVars, listener, session, busUp>>
        PROVE  TypeOK'
    BY <1>1, <1>2, StoppedOutcome
  <1>3. CASE NoticeStop(f)
    <2>1. CASE EndStopped(f)
      BY <1>2, <1>3, <2>1 DEF NoticeStop
    <2>2. ASSUME offers' = [offers EXCEPT ![f] = "none"], noticed' = noticed \cup {f},
                 UNCHANGED <<tracker, pc, then, outcome, inboxes>>
          PROVE  TypeOK'
      <3>1. offers' \in [Fire -> {"none", "offered", "claimed"}]
        BY <2>2, UpdateTyped DEF TypeOK
      <3> QED
        BY <1>3, <2>2, <3>1
           DEF NoticeStop, TypeOK, tracker, stopping, saidVars, listener, session, inboxes
    <2> QED
      BY <1>3, <2>1, <2>2 DEF NoticeStop
  <1>4. CASE HearSession(f)
    <2>0. /\ heard[f] \in Seq({"started", "ok", "stopped", "failed"}) /\ heard[f] # <<>>
          /\ pc[f] = "follow" /\ UNCHANGED <<stopping, saidVars, listener, session, busUp>>
      BY <1>4 DEF HearSession, TypeOK
    <2>1. CASE Head(heard[f]) # "started"
      <3>1. Head(heard[f]) \in Outcome
        BY <2>0, <2>1
      <3> QED
        BY <1>1, <1>4, <2>0, <2>1, <3>1 DEF HearSession
    <2>2. CASE Head(heard[f]) = "started"
      <3>1. /\ heard' = [heard EXCEPT ![f] = Tail(@)] /\ known' = known \cup {f}
            /\ AnnounceThen(f, "follow")
            /\ UNCHANGED <<begun, pulse, form, tracked, phase, asked, overlap, noticed, outcome,
                           offers, failure>>
        BY <1>4, <2>2 DEF HearSession
      <3>2. heard' \in [Fire -> Seq({"started", "ok", "stopped", "failed"})]
        BY <2>0, <3>1, UpdateTyped DEF TypeOK
      <3>3. /\ pc' \in [Fire -> PC]
            /\ then' \in [Fire -> {"scripts", "subscribe", "follow", "done"}]
        BY <3>1, UpdateTyped DEF TypeOK, AnnounceThen, PC
      <3>4. f \in asked
        BY <2>0 DEF Ordered, TaskPlaced, Place
      <3> QED
        BY <2>0, <3>1, <3>2, <3>3, <3>4 DEF TypeOK, stopping, saidVars, listener, session
    <2> QED
      BY <2>1, <2>2
  <1>5. CASE HearFailure(f) \/ HearEnd(f) \/ Panic(f)
    BY <1>1, <1>2, <1>5 DEF HearFailure, HearEnd, Panic
  <1>6. CASE RunScripts(f)
    <2>1. CASE EndStopped(f) \/ \E o \in {"ok", "failed"} : Finish(f, o)
      BY <1>1, <1>2, <1>6, <2>1 DEF RunScripts
    <2>2. CASE RequestSession(f) /\ AnnounceThen(f, "subscribe")
               /\ UNCHANGED <<noticed, outcome, offers, inboxes>>
      BY <1>6, <2>2, TypeRequest DEF RunScripts
    <2> QED
      BY <1>6, <2>1, <2>2 DEF RunScripts
  <1> QED
    BY <1>3, <1>4, <1>5, <1>6 DEF Following

LEMMA TypeAnnounce ==
  ASSUME TypeOK, NEW f \in Fire, AnnounceRead(f) \/ AnnouncePublish(f)
  PROVE  TypeOK'
  <1>1. CASE AnnounceRead(f)
    <2>1. saying' \in [Fire -> Shown] /\ pc' \in [Fire -> PC]
      BY <1>1, CurrentRunShown, UpdateTyped DEF AnnounceRead, TypeOK, PC
    <2> QED
      BY <1>1, <2>1
         DEF AnnounceRead, TypeOK, tracker, stopping, listener, session, inboxes
  <1>2. CASE AnnouncePublish(f)
    <2>1. NoRun \in Shown /\ saying[f] \in Shown /\ then[f] \in PC /\ pulse[f] \in Pulses
      BY DEF Shown, TypeOK, PC
    <2>2. /\ saying' \in [Fire -> Shown] /\ last' \in [Pulses -> Shown] /\ pc' \in [Fire -> PC]
          /\ then' \in [Fire -> {"scripts", "subscribe", "follow", "done"}]
      BY <1>2, <2>1, UpdateTyped DEF AnnouncePublish, TypeOK
    <2> QED
      BY <1>2, <2>2
         DEF AnnouncePublish, TypeOK, tracker, stopping, listener, session, inboxes
  <1> QED
    BY <1>1, <1>2

LEMMA TypeListening ==
  ASSUME TypeOK, Listening
  PROVE  TypeOK'
  <1> USE DEF TypeOK, tracker, task, stopping, saidVars, session, inboxes
  <1>1. CASE Claim
    <2>1. requests' \in Seq(Fire) /\ Head(requests) \in Fire
      BY <1>1 DEF Claim
    <2>2. /\ offers' \in [Fire -> {"none", "offered", "claimed"}]
          /\ building' \in Fire \cup {None}
      BY <1>1, <2>1, UpdateTyped DEF Claim
    <2> QED
      BY <1>1, <2>1, <2>2 DEF Claim
  <1>2. CASE BuildFails
    <2>1. failure' \subseteq Fire
      BY <1>2 DEF BuildFails
    <2> QED
      BY <1>2, <2>1 DEF BuildFails
  <1>3. CASE Register
    <2>1. sess' \in [Fire -> {"none", "registered", "running", "removed", "over"}]
      BY <1>3, UpdateTyped DEF Register
    <2> QED
      BY <1>3, <2>1 DEF Register
  <1> QED
    BY <1>1, <1>2, <1>3 DEF Listening

LEMMA TypeSession ==
  ASSUME TypeOK, NEW f \in Fire, SessionStep(f) \/ MessageResumes(f) \/ ResumedEnds(f)
  PROVE  TypeOK'
  <1> USE DEF TypeOK, tracker, task, stopping, saidVars, listener, inboxes
  <1>1. ASSUME NEW e \in {"started", "ok", "stopped", "failed"}, Hear(f, e)
        PROVE  heard' \in [Fire -> Seq({"started", "ok", "stopped", "failed"})]
    BY <1>1 DEF Hear
  <1>2. ASSUME NEW s \in {"running", "removed", "over"}, sess' = [sess EXCEPT ![f] = s]
        PROVE  sess' \in [Fire -> {"none", "registered", "running", "removed", "over"}]
    BY <1>2, UpdateTyped
  <1>3. CASE SessionStarts(f)
    BY <1>1, <1>2, <1>3 DEF SessionStarts
  <1>4. CASE SessionEnds(f)
    BY <1>2, <1>4 DEF SessionEnds
  <1>5. CASE SessionCompleted(f)
    <2>1. \E s \in {"ok", "failed", "stopped"} : Hear(f, s)
      BY <1>5 DEF SessionCompleted
    <2> QED
      BY <1>1, <1>2, <1>5, <2>1 DEF SessionCompleted
  <1>6. CASE MessageResumes(f)
    <2>1. resumes' \in 0 .. MaxResumes
      BY <1>6, PulseFiresAssumption DEF MessageResumes
    <2> QED
      BY <1>6, <2>1 DEF MessageResumes
  <1>7. CASE ResumedEnds(f)
    BY <1>7 DEF ResumedEnds
  <1> QED
    BY <1>3, <1>4, <1>5, <1>6, <1>7 DEF SessionStep

LEMMA TypeNext ==
  ASSUME TypeOK, \A f \in Fire : Ordered(f), [Next]_vars
  PROVE  TypeOK'
  <1> USE DEF tracker, task, stopping, saidVars, listener, session, inboxes
  <1>1. ASSUME NEW f \in Fire, Begin(f) PROVE TypeOK'
    BY <1>1, TypeRequest DEF Begin
  <1>2. ASSUME NEW f \in Fire, Stop(f) PROVE TypeOK'
    BY <1>2 DEF Stop, TypeOK
  <1>3. CASE StopAll
    BY <1>3 DEF StopAll, TypeOK
  <1>4. CASE BusCloses
    BY <1>4 DEF BusCloses, TypeOK
  <1>5. CASE UNCHANGED vars
    BY <1>5 DEF vars, TypeOK
  <1> QED
    BY <1>1, <1>2, <1>3, <1>4, <1>5, TypeStart, TypeAsk, TypeFollow, TypeAnnounce,
       TypeListening, TypeSession DEF Next, TaskStep
-----------------------------------------------------------------------------
(* A fire, its request and its session.                                    *)

\* A step leaves fire f alone: its task, its entry, its request, its session and
\* what it has to read.
Untouched(f) ==
    /\ pc'[f] = pc[f] /\ then'[f] = then[f] /\ outcome'[f] = outcome[f]
    /\ f \in tracked' <=> f \in tracked
    /\ f \in asked' <=> f \in asked
    /\ f \in known' <=> f \in known
    /\ f \in noticed' <=> f \in noticed
    /\ offers'[f] = offers[f]
    /\ Waiting(f)' <=> Waiting(f)
    /\ building' = f <=> building = f
    /\ sess'[f] = sess[f]
    /\ f \in resumed' <=> f \in resumed
    /\ heard'[f] = heard[f]
    /\ f \in failure' <=> f \in failure

\* What every step does: fires only begin, stops stay, the broker does not return.
Onward ==
    /\ busUp' => busUp
    /\ agentStop => agentStop'
    /\ stops \subseteq stops'

LEMMA UntouchedOrdered ==
  ASSUME NEW f \in Fire, Ordered(f), Untouched(f), Onward, f > begun' <=> f > begun
  PROVE  Ordered(f)'
  <1>1. Place(f)' = Place(f) /\ Ran(f)' = Ran(f)
    BY DEF Untouched, Place, Ran
  <1>2. TaskPlaced(f)'
    BY <1>1 DEF Ordered, TaskPlaced, Untouched
  <1>3. SpawnOrdered(f)'
    BY <1>1 DEF Ordered, SpawnOrdered, Untouched
  <1>4. HeardOrdered(f)'
    BY <1>1 DEF Ordered, HeardOrdered, Untouched, Onward
  <1>5. StoppedOver(f)'
    BY DEF Ordered, StoppedOver, Untouched
  <1>6. Coming(f)'
    BY <1>1 DEF Ordered, Coming, Untouched, Onward, Cancelled
  <1> QED
    BY <1>2, <1>3, <1>4, <1>5, <1>6 DEF Ordered

\* One fire is touched, or none, and the requests stay distinct.
LEMMA OneFire ==
  ASSUME FireInv, TypeOK', RequestedOnce', NEW f, Onward,
         f \in Fire => Ordered(f)',
         \A g \in Fire : g # f => Untouched(g) /\ (g > begun' <=> g > begun)
  PROVE  FireInv'
  BY UntouchedOrdered DEF FireInv

LEMMA SameRequests ==
  ASSUME RequestedOnce, UNCHANGED requests
  PROVE  RequestedOnce' /\ \A f \in Fire : Waiting(f)' <=> Waiting(f)
  BY DEF RequestedOnce, Waiting

\* The end of a fire: it is untracked, its offer withdrawn, its inboxes dropped.
LEMMA FinishOrdered ==
  ASSUME FireInv, TypeOK', NEW f \in Fire, NEW o \in Outcome, Finish(f, o),
         Place(f) \in {"start", "scripts", "subscribe", "follow"},
         o = "stopped" => building # f /\ sess[f] \notin {"registered", "running"},
         UNCHANGED <<stopping, saidVars, listener, session, busUp>>
  PROVE  FireInv'
  <1> USE DEF stopping, saidVars, listener, session
  <1>0. Ordered(f) /\ TypeOK
    BY DEF FireInv
  <1>1. Onward
    BY DEF Onward
  <1>2. RequestedOnce' /\ \A g \in Fire : Waiting(g)' <=> Waiting(g)
    BY SameRequests DEF FireInv
  <1>3. ASSUME NEW g \in Fire, g # f PROVE Untouched(g) /\ (g > begun' <=> g > begun)
    BY <1>0, <1>2, <1>3 DEF Untouched, Finish, LeaveTracker, AnnounceThen, TypeOK
  <1>4. /\ pc'[f] = "announce" /\ then'[f] = "done" /\ outcome'[f] = o /\ f \notin tracked'
        /\ f \notin asked' /\ f \notin noticed' /\ f \notin failure' /\ offers'[f] = "none"
        /\ heard'[f] = <<>> /\ begun' = begun /\ building' = building /\ sess' = sess
        /\ resumed' = resumed
    BY <1>0 DEF Finish, LeaveTracker, AnnounceThen, TypeOK
  <1>5. Place(f)' = "done"
    BY <1>4 DEF Place
  <1>6. TaskPlaced(f)'
    BY <1>0, <1>4, <1>5 DEF Ordered, TaskPlaced, Place
  <1>7. SpawnOrdered(f)'
    BY <1>0, <1>2, <1>4, <1>5 DEF Ordered, SpawnOrdered
  <1>8. HeardOrdered(f)' /\ StoppedOver(f)' /\ Coming(f)'
    BY <1>4, <1>5 DEF HeardOrdered, StoppedOver, Coming
  <1> QED
    BY <1>1, <1>2, <1>3, <1>6, <1>7, <1>8, OneFire DEF Ordered
LEMMA StartOrdered ==
  ASSUME FireInv, TypeOK', NEW f \in Fire, NEW k \in Form, StartPulseFire(f, k)
  PROVE  FireInv'
  <1> USE DEF stopping, saidVars, listener, session, inboxes
  <1>a. Ordered(f) /\ TypeOK
    BY DEF FireInv
  <1>b. begun \in 0 .. MaxFires /\ f = begun + 1 /\ begun' = f
    BY <1>a DEF StartPulseFire, TypeOK
  <1>0. Ordered(f) /\ TypeOK /\ begun \in Nat /\ f = begun + 1 /\ begun' = begun + 1
    BY <1>a, <1>b, PulseFiresAssumption
  <1>1. Onward
    BY DEF Onward, StartPulseFire
  <1>2. RequestedOnce' /\ \A g \in Fire : Waiting(g)' <=> Waiting(g)
    BY SameRequests DEF FireInv, StartPulseFire
  <1>3. ASSUME NEW g \in Fire, g # f PROVE Untouched(g) /\ (g > begun' <=> g > begun)
    <2>1. g > begun' <=> g > begun
      BY <1>0, <1>3, NoneIsNoFire
    <2> QED
      BY <1>0, <1>2, <1>3, <2>1 DEF Untouched, StartPulseFire, TypeOK
  <1>4. pc[f] = "unborn" /\ Place(f) = "unborn"
    BY <1>0 DEF Ordered, TaskPlaced, Place
  <1>5. pc'[f] = "start" /\ Place(f)' = "start" /\ f \in tracked'
    BY <1>0 DEF Place, StartPulseFire, TypeOK
  <1>6. TaskPlaced(f)'
    BY <1>0, <1>4, <1>5 DEF Ordered, TaskPlaced, StartPulseFire
  <1>7. SpawnOrdered(f)' /\ HeardOrdered(f)' /\ StoppedOver(f)' /\ Coming(f)'
    BY <1>0, <1>2, <1>4, <1>5
       DEF Ordered, SpawnOrdered, HeardOrdered, StoppedOver, Coming, TaskPlaced, StartPulseFire, Ran
  <1> QED
    BY <1>1, <1>2, <1>3, <1>6, <1>7, OneFire DEF Ordered

\* A fire on its way to its session's request, or to its scripts.
LEMMA RequestOrdered ==
  ASSUME FireInv, TypeOK', NEW f \in Fire, pc[f] \in {"start", "scripts"},
         \/ RequestSession(f) /\ AnnounceThen(f, "subscribe")
         \/ UNCHANGED tracker /\ AnnounceThen(f, "scripts"),
         UNCHANGED <<noticed, outcome, stopping, saidVars, offers, listener, session, inboxes,
                     busUp>>
  PROVE  FireInv'
  <1> USE DEF stopping, saidVars, listener, session, inboxes, tracker
  <1>0. Ordered(f) /\ TypeOK
    BY DEF FireInv
  <1>1. Onward
    BY DEF Onward
  <1>2. RequestedOnce' /\ \A g \in Fire : Waiting(g)' <=> Waiting(g)
    BY SameRequests DEF FireInv
  <1>3. ASSUME NEW g \in Fire, g # f PROVE Untouched(g) /\ (g > begun' <=> g > begun)
    BY <1>0, <1>2, <1>3 DEF Untouched, RequestSession, AnnounceThen, TypeOK
  <1>4. /\ pc'[f] = "announce" /\ Place(f) = pc[f]
        /\ \/ Place(f)' = "subscribe" /\ f \in asked'
           \/ Place(f)' = "scripts" /\ asked' = asked
        /\ tracked' = tracked /\ begun' = begun
    BY <1>0 DEF Place, RequestSession, AnnounceThen, TypeOK
  <1>5. TaskPlaced(f)'
    BY <1>0, <1>4 DEF Ordered, TaskPlaced
  <1>6. SpawnOrdered(f)' /\ HeardOrdered(f)' /\ StoppedOver(f)' /\ Coming(f)'
    BY <1>0, <1>2, <1>4
       DEF Ordered, SpawnOrdered, HeardOrdered, StoppedOver, Coming, TaskPlaced, Ran
  <1> QED
    BY <1>1, <1>2, <1>3, <1>5, <1>6, OneFire DEF Ordered

LEMMA BeginOrdered ==
  ASSUME FireInv, TypeOK', NEW f \in Fire, Begin(f)
  PROVE  FireInv'
  BY RequestOrdered DEF Begin

LEMMA ScriptsOrdered ==
  ASSUME FireInv, TypeOK', NEW f \in Fire, RunScripts(f)
  PROVE  FireInv'
  <1>0. Ordered(f) /\ pc[f] = "scripts" /\ Place(f) = "scripts"
    BY DEF FireInv, RunScripts, Place
  <1>1. building # f /\ sess[f] = "none"
    BY <1>0 DEF Ordered, SpawnOrdered
  <1>2. CASE EndStopped(f)
    BY <1>0, <1>1, <1>2, StoppedOutcome, FinishOrdered DEF RunScripts, Outcome
  <1>3. CASE \E o \in {"ok", "failed"} : Finish(f, o)
    BY <1>0, <1>1, <1>3, FinishOrdered DEF RunScripts, Outcome
  <1>4. CASE RequestSession(f) /\ AnnounceThen(f, "subscribe")
             /\ UNCHANGED <<noticed, outcome, offers, inboxes>>
    BY <1>0, <1>4, RequestOrdered DEF RunScripts
  <1> QED
    BY <1>2, <1>3, <1>4 DEF RunScripts

\* One request more, at the end.
LEMMA MoreRequests ==
  ASSUME requests \in Seq(Fire), RequestedOnce, NEW f \in Fire, ~Waiting(f),
         requests' = Append(requests, f)
  PROVE  /\ RequestedOnce' /\ Waiting(f)'
         /\ \A g \in Fire : g # f => (Waiting(g)' <=> Waiting(g))
  <1>1. /\ Len(requests) \in Nat /\ DOMAIN requests = 1 .. Len(requests)
        /\ DOMAIN requests' = 1 .. Len(requests) + 1
        /\ requests'[Len(requests) + 1] = f
        /\ \A i \in DOMAIN requests : requests'[i] = requests[i] /\ requests[i] # f
    BY DEF Waiting
  <1>2. \A i \in DOMAIN requests' : i \in DOMAIN requests \/ i = Len(requests) + 1
    BY <1>1
  <1>3. DOMAIN requests \subseteq DOMAIN requests' /\ Len(requests) + 1 \in DOMAIN requests'
    BY <1>1
  <1>4. RequestedOnce'
    BY <1>1, <1>2 DEF RequestedOnce
  <1> QED
    BY <1>1, <1>2, <1>3, <1>4 DEF Waiting

\* The first request is taken.
LEMMA FewerRequests ==
  ASSUME requests \in Seq(Fire), RequestedOnce, requests # <<>>, requests' = Tail(requests),
         NEW h, h = Head(requests)
  PROVE  /\ RequestedOnce' /\ h \in Fire
         /\ Waiting(h) /\ ~Waiting(h)'
         /\ \A g \in Fire : g # h => (Waiting(g)' <=> Waiting(g))
  <1>1. /\ Len(requests) \in Nat /\ Len(requests) > 0 /\ DOMAIN requests = 1 .. Len(requests)
        /\ DOMAIN requests' = 1 .. Len(requests) - 1 /\ h = requests[1]
        /\ \A i \in DOMAIN requests' : requests'[i] = requests[i + 1]
    OBVIOUS
  <1>2. /\ \A i \in DOMAIN requests' : i + 1 \in DOMAIN requests /\ i + 1 # 1
        /\ \A i \in DOMAIN requests : i = 1 \/ (i - 1 \in DOMAIN requests' /\ i = (i - 1) + 1)
        /\ \A i, j \in DOMAIN requests' : i + 1 = j + 1 => i = j
        /\ 1 \in DOMAIN requests
    BY <1>1
  <1>3. RequestedOnce'
    BY <1>1, <1>2 DEF RequestedOnce
  <1>4. h \in Fire /\ Waiting(h)
    BY <1>1, <1>2 DEF Waiting
  <1>5. ~Waiting(h)'
    BY <1>1, <1>2 DEF Waiting, RequestedOnce
  <1>6. ASSUME NEW g \in Fire, g # h PROVE Waiting(g)' <=> Waiting(g)
    <2>1. Waiting(g)' => Waiting(g)
      BY <1>1, <1>2 DEF Waiting
    <2>2. ASSUME NEW i \in DOMAIN requests, requests[i] = g PROVE Waiting(g)'
      <3>1. i - 1 \in DOMAIN requests' /\ requests'[i - 1] = requests[i]
        BY <1>1, <1>2, <1>6, <2>2
      <3> QED
        BY <2>2, <3>1 DEF Waiting
    <2> QED
      BY <2>1, <2>2 DEF Waiting
  <1> QED
    BY <1>3, <1>4, <1>5, <1>6

LEMMA AskOrdered ==
  ASSUME FireInv, TypeOK', NEW f \in Fire, AskForSession(f)
  PROVE  FireInv'
  <1> USE DEF stopping, saidVars, session, inboxes, tracker
  <1>0. Ordered(f) /\ TypeOK /\ pc[f] = "subscribe" /\ Place(f) = "subscribe"
    BY DEF FireInv, AskForSession, Place
  <1>1. /\ building # f /\ sess[f] = "none" /\ f \notin failure /\ f \notin noticed
        /\ ~Waiting(f) /\ f \notin resumed
    BY <1>0 DEF Ordered, SpawnOrdered
  <1>2. CASE EndStopped(f) /\ UNCHANGED requests
    BY <1>0, <1>1, <1>2, StoppedOutcome, FinishOrdered DEF AskForSession, Outcome, listener
  <1>3. ASSUME NEW o \in {"ended", "failed"}, Finish(f, o), UNCHANGED requests PROVE FireInv'
    BY <1>0, <1>1, <1>3, FinishOrdered DEF AskForSession, Outcome, listener
  <1>4. ASSUME offers' = [offers EXCEPT ![f] = "offered"], requests' = Append(requests, f),
               pc' = [pc EXCEPT ![f] = "follow"],
               UNCHANGED <<tracker, then, noticed, outcome, inboxes>>
        PROVE  FireInv'
    <2>1. Onward
      BY DEF Onward, AskForSession
    <2>2. /\ RequestedOnce' /\ Waiting(f)'
          /\ \A g \in Fire : g # f => (Waiting(g)' <=> Waiting(g))
      BY <1>0, <1>1, <1>4, MoreRequests DEF TypeOK, FireInv
    <2>3. ASSUME NEW g \in Fire, g # f PROVE Untouched(g) /\ (g > begun' <=> g > begun)
      BY <1>0, <1>4, <2>2, <2>3 DEF Untouched, AskForSession, TypeOK
    <2>4. pc'[f] = "follow" /\ Place(f)' = "follow" /\ offers'[f] = "offered"
      BY <1>0, <1>4 DEF Place, TypeOK
    <2>5. Ordered(f)'
      BY <1>0, <1>1, <1>4, <2>2, <2>4
         DEF Ordered, TaskPlaced, SpawnOrdered, HeardOrdered, StoppedOver, Coming, Ran,
             AskForSession
    <2> QED
      BY <2>1, <2>2, <2>3, <2>5, OneFire
  <1> QED
    BY <1>2, <1>3, <1>4 DEF AskForSession
LEMMA NoticeOrdered ==
  ASSUME FireInv, TypeOK', NEW f \in Fire, NoticeStop(f)
  PROVE  FireInv'
  <1> USE DEF stopping, saidVars, session, listener, inboxes, tracker
  <1>0. Ordered(f) /\ TypeOK /\ pc[f] = "follow" /\ Place(f) = "follow" /\ f \notin noticed
    BY DEF FireInv, NoticeStop, Place
  <1>1. CASE offers[f] # "claimed" /\ EndStopped(f)
    <2>1. offers[f] = "offered"
      BY <1>0, <1>1 DEF Ordered, SpawnOrdered, TypeOK
    <2>2. building # f /\ sess[f] = "none"
      BY <1>0, <2>1 DEF Ordered, SpawnOrdered
    <2> QED
      BY <1>0, <1>1, <2>2, StoppedOutcome, FinishOrdered DEF NoticeStop, Outcome
  <1>2. ASSUME offers[f] = "claimed", offers' = [offers EXCEPT ![f] = "none"],
               noticed' = noticed \cup {f}, UNCHANGED <<tracker, pc, then, outcome, inboxes>>
        PROVE  FireInv'
    <2>1. Onward
      BY DEF Onward, NoticeStop
    <2>2. RequestedOnce' /\ \A g \in Fire : Waiting(g)' <=> Waiting(g)
      BY SameRequests DEF FireInv, NoticeStop
    <2>3. ASSUME NEW g \in Fire, g # f PROVE Untouched(g) /\ (g > begun' <=> g > begun)
      BY <1>0, <1>2, <2>2, <2>3 DEF Untouched, NoticeStop, TypeOK
    <2>4. offers'[f] = "none" /\ f \in noticed' /\ Place(f)' = "follow" /\ Ran(f)' = Ran(f)
      BY <1>0, <1>2 DEF Place, TypeOK, NoticeStop, Ran
    <2>5. TaskPlaced(f)' /\ HeardOrdered(f)' /\ StoppedOver(f)'
      BY <1>0, <1>2, <2>4
         DEF Ordered, TaskPlaced, HeardOrdered, StoppedOver, NoticeStop
    <2>6. SpawnOrdered(f)' /\ Coming(f)'
      BY <1>0, <1>2, <2>2, <2>4 DEF Ordered, SpawnOrdered, Coming, NoticeStop
    <2> QED
      BY <2>1, <2>2, <2>3, <2>5, <2>6, OneFire DEF Ordered
  <1> QED
    BY <1>1, <1>2 DEF NoticeStop

LEMMA HearOrdered ==
  ASSUME FireInv, TypeOK', NEW f \in Fire, HearSession(f)
  PROVE  FireInv'
  <1> USE DEF stopping, saidVars, session, listener
  <1>0. Ordered(f) /\ TypeOK /\ pc[f] = "follow" /\ Place(f) = "follow" /\ heard[f] # <<>>
    BY DEF FireInv, HearSession, Place
  <1>1. /\ heard[f] \in Seq({"started", "ok", "stopped", "failed"})
        /\ Head(heard[f]) = heard[f][1] /\ 1 \in DOMAIN heard[f]
    BY <1>0 DEF TypeOK
  <1>2. CASE Head(heard[f]) # "started"
    <2>1. Head(heard[f]) \in Outcome /\ Finish(f, Head(heard[f]))
      BY <1>1, <1>2 DEF HearSession, Outcome
    <2>2. sess[f] = "over" /\ building # f
      BY <1>0, <1>1, <1>2 DEF Ordered, HeardOrdered, SpawnOrdered
    <2>3. UNCHANGED <<stopping, saidVars, listener, session, busUp>>
      BY DEF HearSession
    <2> QED
      BY <1>0, <2>1, <2>2, <2>3, FinishOrdered
  <1>3. CASE Head(heard[f]) = "started"
    <2>1. /\ heard' = [heard EXCEPT ![f] = Tail(@)] /\ known' = known \cup {f}
          /\ AnnounceThen(f, "follow")
          /\ UNCHANGED <<begun, tracked, asked, noticed, outcome, offers, failure>>
          /\ UNCHANGED <<stopping, listener, session, busUp>>
      BY <1>3 DEF HearSession
    <2>2. Onward
      BY <2>1 DEF Onward
    <2>3. RequestedOnce' /\ \A g \in Fire : Waiting(g)' <=> Waiting(g)
      BY <2>1, SameRequests DEF FireInv
    <2>4. ASSUME NEW g \in Fire, g # f PROVE Untouched(g) /\ (g > begun' <=> g > begun)
      BY <1>0, <2>1, <2>3, <2>4 DEF Untouched, AnnounceThen, TypeOK
    <2>5. /\ heard'[f] = Tail(heard[f]) /\ f \in known' /\ pc'[f] = "announce"
          /\ Place(f)' = "follow" /\ Ran(f)' = Ran(f)
      BY <1>0, <2>1 DEF AnnounceThen, TypeOK, Place, Ran
    <2>6. /\ \A i \in DOMAIN heard'[f] : i + 1 \in DOMAIN heard[f] /\ heard'[f][i] = heard[f][i + 1]
          /\ \A i \in DOMAIN heard[f] : i = 1 \/ (i - 1 \in DOMAIN heard'[f]
                                                    /\ heard'[f][i - 1] = heard[f][i])
      <3> DEFINE s == heard[f]
                 t == heard'[f]
      <3>1. s \in Seq({"started", "ok", "stopped", "failed"}) /\ s # <<>> /\ t = Tail(s)
        BY <1>0, <1>1, <2>5
      <3> HIDE DEF s, t
      <3>2. /\ \A i \in DOMAIN t : i + 1 \in DOMAIN s /\ t[i] = s[i + 1]
            /\ \A i \in DOMAIN s : i = 1 \/ (i - 1 \in DOMAIN t /\ t[i - 1] = s[i])
        BY <3>1
      <3> QED
        BY <3>2 DEF s, t
    <2>7. TaskPlaced(f)' /\ StoppedOver(f)' /\ SpawnOrdered(f)'
      BY <1>0, <2>1, <2>3, <2>5 DEF Ordered, TaskPlaced, StoppedOver, SpawnOrdered
    <2>8. HeardOrdered(f)'
      BY <1>0, <2>1, <2>5, <2>6 DEF Ordered, HeardOrdered
    <2>9. Coming(f)'
      <3>1. ASSUME NEW i \in DOMAIN heard[f], heard[f][i] # "started"
            PROVE  \E j \in DOMAIN heard'[f] : heard'[f][j] # "started"
        BY <1>1, <1>3, <2>6, <3>1
      <3> QED
        BY <1>0, <2>1, <2>3, <2>5, <3>1 DEF Ordered, Coming, Cancelled
    <2> QED
      BY <2>2, <2>3, <2>4, <2>7, <2>8, <2>9, OneFire DEF Ordered
  <1> QED
    BY <1>2, <1>3

LEMMA EndOrdered ==
  ASSUME FireInv, TypeOK', NEW f \in Fire, HearFailure(f) \/ HearEnd(f) \/ Panic(f)
  PROVE  FireInv'
  <1>0. /\ Ordered(f) /\ pc[f] \in {"scripts", "subscribe", "follow"} /\ Place(f) = pc[f]
        /\ UNCHANGED <<stopping, saidVars, listener, session, busUp>>
    BY DEF FireInv, HearFailure, HearEnd, Panic, Place
  <1>1. CASE HearFailure(f)
    <2>1. building # f /\ sess[f] = "none"
      BY <1>0, <1>1 DEF HearFailure, Ordered, SpawnOrdered
    <2> QED
      BY <1>0, <1>1, <2>1, StoppedOutcome, FinishOrdered DEF HearFailure, Outcome
  <1>2. CASE HearEnd(f) \/ Panic(f)
    BY <1>0, <1>2, FinishOrdered DEF HearEnd, Panic, Outcome
  <1> QED
    BY <1>1, <1>2

LEMMA AnnounceOrdered ==
  ASSUME FireInv, TypeOK', NEW f \in Fire, AnnounceRead(f) \/ AnnouncePublish(f)
  PROVE  FireInv'
  <1> USE DEF stopping, session, listener, inboxes, tracker
  <1>0. Ordered(f) /\ TypeOK
    BY DEF FireInv
  <1>1. UNCHANGED <<tracker, noticed, outcome, stopping, offers, listener, session, inboxes, busUp>>
    BY DEF AnnounceRead, AnnouncePublish
  <1>2. Onward
    BY <1>1 DEF Onward
  <1>3. RequestedOnce' /\ \A g \in Fire : Waiting(g)' <=> Waiting(g)
    BY <1>1, SameRequests DEF FireInv
  <1>4. ASSUME NEW g \in Fire, g # f PROVE pc'[g] = pc[g] /\ then'[g] = then[g]
    BY <1>0, <1>4 DEF AnnounceRead, AnnouncePublish, TypeOK
  <1>5. ASSUME NEW g \in Fire, g # f PROVE Untouched(g) /\ (g > begun' <=> g > begun)
    BY <1>1, <1>3, <1>4, <1>5 DEF Untouched
  <1>6. Place(f)' = Place(f) /\ pc[f] # "unborn" /\ pc'[f] # "unborn"
    <2>1. then[f] \in {"scripts", "subscribe", "follow", "done"}
      BY <1>0 DEF TypeOK
    <2>2. CASE AnnounceRead(f)
      <3>1. pc[f] = "announce" /\ pc'[f] = "publish" /\ then'[f] = then[f]
        BY <1>0, <2>2 DEF AnnounceRead, TypeOK
      <3> QED
        BY <3>1 DEF Place
    <2>3. CASE AnnouncePublish(f)
      <3>1. pc[f] = "publish" /\ pc'[f] = then[f]
        BY <1>0, <2>3 DEF AnnouncePublish, TypeOK
      <3> QED
        BY <2>1, <3>1 DEF Place
    <2> QED
      BY <2>2, <2>3
  <1>7. Ran(f)' = Ran(f) /\ Cancelled(f)' = Cancelled(f)
    BY <1>1 DEF Ran, Cancelled
  <1>8. TaskPlaced(f)' /\ SpawnOrdered(f)' /\ StoppedOver(f)'
    BY <1>0, <1>1, <1>3, <1>6 DEF Ordered, TaskPlaced, SpawnOrdered, StoppedOver
  <1>9. HeardOrdered(f)' /\ Coming(f)'
    BY <1>0, <1>1, <1>3, <1>6, <1>7 DEF Ordered, HeardOrdered, Coming
  <1> QED
    BY <1>2, <1>3, <1>5, <1>8, <1>9, OneFire DEF Ordered
LEMMA ClaimOrdered ==
  ASSUME FireInv, TypeOK', Claim
  PROVE  FireInv'
  <1> USE DEF stopping, saidVars, session, inboxes, tracker, task
  <1> DEFINE h == Head(requests)
  <1>1. PICK f : f = h
    OBVIOUS
  <1>2. /\ requests' = Tail(requests) /\ requests # <<>> /\ building = None
        /\ UNCHANGED <<tracker, task, stopping, session, inboxes, busUp>>
    BY DEF Claim
  <1>3. /\ RequestedOnce' /\ f \in Fire /\ Waiting(f) /\ ~Waiting(f)'
        /\ \A g \in Fire : g # f => (Waiting(g)' <=> Waiting(g))
    BY <1>1, <1>2, FewerRequests DEF FireInv, TypeOK
  <1>4. Ordered(f) /\ TypeOK
    BY <1>3 DEF FireInv
  <1>5. \/ /\ offers[f] # "none" /\ ~Cancelled(f)
           /\ offers' = [offers EXCEPT ![f] = "claimed"] /\ building' = f
        \/ (offers[f] = "none" \/ Cancelled(f)) /\ offers' = offers /\ building' = building
    BY <1>1 DEF Claim
  <1>6. Onward
    BY <1>2 DEF Onward
  <1>7. ASSUME NEW g \in Fire, g # f PROVE Untouched(g) /\ (g > begun' <=> g > begun)
    <2>1. offers'[g] = offers[g] /\ (building' = g <=> building = g)
      BY <1>2, <1>4, <1>5, <1>7, NoneIsNoFire DEF TypeOK
    <2> QED
      BY <1>2, <1>3, <1>7, <2>1 DEF Untouched
  <1>8. /\ Place(f)' = Place(f) /\ sess'[f] = "none" /\ f \notin failure' /\ f \notin noticed'
        /\ building # f /\ (Place(f) = "done" \/ (Place(f) = "follow" /\ offers[f] = "offered"))
        /\ heard'[f] = <<>> /\ f \notin resumed'
    BY <1>2, <1>3, <1>4 DEF Ordered, SpawnOrdered, HeardOrdered, Place, Ran
  <1>9. \/ /\ Place(f) = "follow" /\ offers'[f] = "claimed" /\ building' = f
        \/ /\ building' # f /\ offers'[f] = offers[f]
           /\ Place(f) = "follow" => Cancelled(f)'
    <2>1. offers[f] # "none" => Place(f) = "follow"
      BY <1>4 DEF Ordered, SpawnOrdered
    <2> QED
      BY <1>2, <1>4, <1>5, <1>8, <2>1 DEF TypeOK, Cancelled
  <1>10. TaskPlaced(f)' /\ HeardOrdered(f)'
    BY <1>2, <1>4, <1>8 DEF Ordered, TaskPlaced, HeardOrdered, Ran
  <1>11. SpawnOrdered(f)'
    BY <1>3, <1>4, <1>8, <1>9 DEF Ordered, SpawnOrdered
  <1>12. StoppedOver(f)'
    BY <1>2, <1>4, <1>8, <1>9 DEF Ordered, StoppedOver, TaskPlaced
  <1>13. Coming(f)'
    BY <1>2, <1>8, <1>9 DEF Coming
  <1> QED
    BY <1>3, <1>6, <1>7, <1>10, <1>11, <1>12, <1>13, OneFire DEF Ordered

LEMMA BuiltOrdered ==
  ASSUME FireInv, TypeOK', BuildFails \/ Register
  PROVE  FireInv'
  <1> USE DEF stopping, saidVars, session, inboxes, tracker, task
  <1>1. PICK f : f = building
    OBVIOUS
  <1>2. /\ building' = None /\ f # None
        /\ UNCHANGED <<tracker, task, stopping, offers, requests, resumed, heard, busUp>>
        /\ \/ failure' = failure /\ sess' = [sess EXCEPT ![f] = "registered"]
           \/ /\ sess' = sess
              /\ failure' = IF busUp /\ f \in tracked THEN failure \cup {f} ELSE failure
    BY <1>1 DEF BuildFails, Register
  <1>3. f \in Fire
    BY <1>1, <1>2 DEF FireInv, TypeOK
  <1>4. Ordered(f) /\ TypeOK
    BY <1>3 DEF FireInv
  <1>5. RequestedOnce' /\ \A g \in Fire : Waiting(g)' <=> Waiting(g)
    BY <1>2, SameRequests DEF FireInv
  <1>6. Onward
    BY <1>2 DEF Onward
  <1>7. ASSUME NEW g \in Fire, g # f PROVE Untouched(g) /\ (g > begun' <=> g > begun)
    <2>1. sess'[g] = sess[g] /\ (g \in failure' <=> g \in failure)
          /\ (building' = g <=> building = g)
      BY <1>1, <1>2, <1>4, <1>7, NoneIsNoFire DEF TypeOK
    <2> QED
      BY <1>2, <1>5, <1>7, <2>1 DEF Untouched
  <1>8. /\ ~Waiting(f)' /\ sess[f] = "none" /\ f \notin failure /\ heard[f] = <<>>
        /\ Place(f) \in {"follow", "done"} /\ offers[f] # "offered" /\ f \notin resumed
        /\ outcome[f] # "stopped"
    BY <1>1, <1>3, <1>4, <1>5
       DEF Ordered, SpawnOrdered, HeardOrdered, StoppedOver, Ran
  <1>9. Place(f)' = Place(f) /\ building' # f
    BY <1>2, <1>3, NoneIsNoFire DEF Place
  <1>10. CASE failure' = failure /\ sess' = [sess EXCEPT ![f] = "registered"]
    <2>1. sess'[f] = "registered"
      BY <1>3, <1>4, <1>10 DEF TypeOK
    <2>2. Ordered(f)'
      BY <1>2, <1>4, <1>8, <1>9, <1>10, <2>1
         DEF Ordered, TaskPlaced, SpawnOrdered, HeardOrdered, StoppedOver, Coming, Ran
    <2> QED
      BY <1>5, <1>6, <1>7, <2>2, OneFire
  <1>11. CASE sess' = sess
              /\ failure' = IF busUp /\ f \in tracked THEN failure \cup {f} ELSE failure
    <2>1. Place(f) = "follow" <=> f \in tracked
      BY <1>4, <1>8 DEF Ordered, TaskPlaced
    <2>2. Ordered(f)'
      BY <1>2, <1>4, <1>8, <1>9, <1>11, <2>1
         DEF Ordered, TaskPlaced, SpawnOrdered, HeardOrdered, StoppedOver, Coming, Ran
    <2> QED
      BY <1>5, <1>6, <1>7, <2>2, OneFire
  <1> QED
    BY <1>2, <1>10, <1>11

LEMMA SessionOrdered ==
  ASSUME FireInv, TypeOK', NEW f \in Fire, SessionStarts(f) \/ SessionCompleted(f)
  PROVE  FireInv'
  <1> USE DEF stopping, saidVars, listener, tracker, task
  <1>1. /\ UNCHANGED <<tracker, task, stopping, offers, listener, resumed, failure, busUp>>
    BY DEF SessionStarts, SessionCompleted
  <1>2. Ordered(f) /\ TypeOK
    BY DEF FireInv
  <1>3. PICK e, s :
          /\ \/ e = "started" /\ s = "running" /\ sess[f] = "registered"
             \/ e \in {"ok", "stopped", "failed"} /\ s = "over" /\ sess[f] = "removed"
          /\ sess' = [sess EXCEPT ![f] = s]
          /\ heard' = IF busUp /\ f \in tracked THEN [heard EXCEPT ![f] = Append(@, e)] ELSE heard
    BY DEF SessionStarts, SessionCompleted, Hear
  <1>4. RequestedOnce' /\ \A g \in Fire : Waiting(g)' <=> Waiting(g)
    BY <1>1, SameRequests DEF FireInv
  <1>5. Onward
    BY <1>1 DEF Onward
  <1>6. ASSUME NEW g \in Fire, g # f PROVE Untouched(g) /\ (g > begun' <=> g > begun)
    <2>1. sess'[g] = sess[g] /\ heard'[g] = heard[g]
      BY <1>2, <1>3, <1>6 DEF TypeOK
    <2> QED
      BY <1>1, <1>4, <1>6, <2>1 DEF Untouched
  <1>7. /\ ~Waiting(f)' /\ building # f /\ f \notin failure
        /\ Place(f) \in {"follow", "done"} /\ offers[f] # "offered" /\ f \notin resumed
        /\ Place(f) = "follow" <=> f \in tracked
    BY <1>2, <1>3, <1>4 DEF Ordered, SpawnOrdered, TaskPlaced
  <1>8. Place(f)' = Place(f) /\ sess'[f] = s
    BY <1>1, <1>2, <1>3 DEF Place, TypeOK
  <1>9. /\ ~(busUp /\ f \in tracked) => heard'[f] = heard[f]
        /\ busUp /\ f \in tracked =>
             /\ heard'[f] # <<>>
             /\ \E i \in DOMAIN heard'[f] : heard'[f][i] = e
             /\ \A i \in DOMAIN heard'[f] : heard'[f][i] = e
                                            \/ (i \in DOMAIN heard[f] /\ heard'[f][i] = heard[f][i])
    <2> DEFINE a == heard[f]
               b == heard'[f]
    <2>1. /\ a \in Seq({"started", "ok", "stopped", "failed"})
          /\ IF busUp /\ f \in tracked THEN b = Append(a, e) ELSE b = a
          /\ e \in {"started", "ok", "stopped", "failed"}
      BY <1>2, <1>3 DEF TypeOK
    <2> HIDE DEF a, b
    <2>2. ASSUME busUp /\ f \in tracked
          PROVE  /\ b # <<>> /\ Len(a) + 1 \in DOMAIN b /\ b[Len(a) + 1] = e
                 /\ \A i \in DOMAIN b : b[i] = e \/ (i \in DOMAIN a /\ b[i] = a[i])
      BY <2>1, <2>2
    <2> QED
      BY <2>1, <2>2 DEF a, b
  <1>10. TaskPlaced(f)' /\ SpawnOrdered(f)'
    BY <1>1, <1>2, <1>3, <1>7, <1>8 DEF Ordered, TaskPlaced, SpawnOrdered
  <1>11. StoppedOver(f)'
    BY <1>1, <1>2, <1>3, <1>7, <1>8 DEF Ordered, StoppedOver
  <1>12. HeardOrdered(f)'
    BY <1>1, <1>2, <1>3, <1>7, <1>8, <1>9 DEF Ordered, HeardOrdered, Ran
  <1>13. Coming(f)'
    BY <1>1, <1>3, <1>7, <1>8, <1>9 DEF Coming
  <1> QED
    BY <1>4, <1>5, <1>6, <1>10, <1>11, <1>12, <1>13, OneFire DEF Ordered

LEMMA ResumeOrdered ==
  ASSUME FireInv, TypeOK', NEW f \in Fire,
         SessionEnds(f) \/ MessageResumes(f) \/ ResumedEnds(f)
  PROVE  FireInv'
  <1> USE DEF stopping, saidVars, listener, tracker, task, inboxes
  <1>1. /\ UNCHANGED <<tracker, task, stopping, offers, listener, inboxes, busUp>>
        /\ \/ sess[f] = "running" /\ sess' = [sess EXCEPT ![f] = "removed"] /\ resumed' = resumed
           \/ sess' = sess /\ sess[f] = "over" /\ resumed' = resumed \cup {f}
           \/ sess' = sess /\ f \in resumed /\ resumed' = resumed \ {f}
    BY DEF SessionEnds, MessageResumes, ResumedEnds
  <1>2. Ordered(f) /\ TypeOK
    BY DEF FireInv
  <1>3. RequestedOnce' /\ \A g \in Fire : Waiting(g)' <=> Waiting(g)
    BY <1>1, SameRequests DEF FireInv
  <1>4. Onward
    BY <1>1 DEF Onward
  <1>5. ASSUME NEW g \in Fire, g # f PROVE Untouched(g) /\ (g > begun' <=> g > begun)
    <2>1. sess'[g] = sess[g] /\ (g \in resumed' <=> g \in resumed)
      BY <1>1, <1>2, <1>5 DEF TypeOK
    <2> QED
      BY <1>1, <1>3, <1>5, <2>1 DEF Untouched
  <1>6. /\ Place(f)' = Place(f) /\ Ran(f) /\ Ran(f)' /\ Cancelled(f)' = Cancelled(f)
        /\ \/ sess[f] = "running" /\ sess'[f] = "removed" /\ f \notin resumed'
           \/ sess[f] = "over" /\ sess'[f] = "over"
    BY <1>1, <1>2 DEF Place, Ran, Cancelled, TypeOK, Ordered, SpawnOrdered
  <1>7. TaskPlaced(f)' /\ SpawnOrdered(f)' /\ StoppedOver(f)'
    BY <1>1, <1>2, <1>3, <1>6 DEF Ordered, TaskPlaced, SpawnOrdered, StoppedOver
  <1>8. HeardOrdered(f)' /\ Coming(f)'
    BY <1>1, <1>2, <1>3, <1>6 DEF Ordered, HeardOrdered, Coming
  <1> QED
    BY <1>3, <1>4, <1>5, <1>7, <1>8, OneFire DEF Ordered

\* Stop, stop_all, the broker's end and stuttering touch no fire.
LEMMA OutsideOrdered ==
  ASSUME FireInv, TypeOK',
         (\E f \in Fire : Stop(f)) \/ StopAll \/ BusCloses \/ UNCHANGED vars
  PROVE  FireInv'
  <1> USE DEF stopping, saidVars, listener, tracker, task, inboxes, session, vars
  <1>1. UNCHANGED <<tracker, task, offers, listener, session, inboxes>>
    BY DEF Stop, StopAll, BusCloses
  <1>2. Onward
    BY DEF Onward, Stop, StopAll, BusCloses
  <1>3. RequestedOnce' /\ \A g \in Fire : Waiting(g)' <=> Waiting(g)
    BY <1>1, SameRequests DEF FireInv
  <1>4. ASSUME NEW g \in Fire PROVE Untouched(g) /\ (g > begun' <=> g > begun)
    BY <1>1, <1>3 DEF Untouched
  <1> QED
    BY <1>2, <1>3, <1>4, OneFire, NoneIsNoFire

LEMMA FireNext == FireInv /\ [Next]_vars => FireInv'
  <1> SUFFICES ASSUME FireInv, [Next]_vars PROVE FireInv'
    OBVIOUS
  <1>1. TypeOK'
    BY TypeNext DEF FireInv
  <1> QED
    BY <1>1, StartOrdered, BeginOrdered, ScriptsOrdered, AskOrdered, NoticeOrdered, HearOrdered,
       EndOrdered, AnnounceOrdered, ClaimOrdered, BuiltOrdered, SessionOrdered, ResumeOrdered,
       OutsideOrdered
       DEF Next, TaskStep, Following, Listening, SessionStep
-----------------------------------------------------------------------------
(* The events that show a fire.                                            *)

\* FireEntry::run has a run id to show.
RunShown(f) == f \in known \/ (f \in asked /\ f \in Registered)

\* A step changes nothing that fire f's pulse shows of it, and nothing it owes is lost.
Alike(f) ==
    /\ f \in tracked' <=> f \in tracked
    /\ f \in tracked => phase'[f] = phase[f] /\ (RunShown(f)' <=> RunShown(f))
    /\ pc'[f] = "publish" <=> pc[f] = "publish"
    /\ saying'[f] = saying[f]
    /\ Due(f) => Due(f)'

LEMMA SameRun ==
  ASSUME TypeOK, TypeOK', NEW p, pulse' = pulse,
         \A f \in Fire : pulse[f] = p => Alike(f),
         NEW x
  PROVE  Shows(x, CurrentRun(p)) <=> Shows(x, CurrentRun(p)')
  <1>1. InFlight(p) \subseteq Fire /\ InFlight(p)' \subseteq Fire
    <2>1. begun' \in Nat /\ begun' <= MaxFires /\ tracked' \subseteq 1 .. begun'
      BY PulseFiresAssumption DEF TypeOK
    <2>2. tracked' \subseteq Fire
      BY <2>1, PulseFiresAssumption DEF Fire
    <2> QED
      BY <2>2, TrackedIsFire DEF InFlight
  <1>2. InFlight(p)' = InFlight(p)
    BY <1>1 DEF InFlight, Alike
  <1>3. CASE InFlight(p) # {}
    <2>1. PICK f \in Fire : f = Newest(InFlight(p)) /\ f \in InFlight(p)
      BY <1>1, <1>3, NewestIsThere
    <2>2. phase'[f] = phase[f] /\ (RunShown(f)' <=> RunShown(f))
      BY <2>1 DEF Alike, InFlight
    <2>3. CurrentRun(p) = [kind |-> "fire", fire |-> f, phase |-> phase[f], run |-> RunShown(f)]
      BY <1>3, <2>1 DEF CurrentRun, RunShown
    <2>4. CurrentRun(p)' = [kind |-> "fire", fire |-> f, phase |-> phase'[f], run |-> RunShown(f)']
      BY <1>2, <1>3, <2>1 DEF CurrentRun, RunShown
    <2>5. RunShown(f)' = RunShown(f)
      BY <2>2 DEF RunShown
    <2>6. CurrentRun(p)' = CurrentRun(p)
      BY <2>2, <2>3, <2>4, <2>5
    <2> QED
      BY <2>6 DEF Shows
  <1>4. CASE InFlight(p) = {}
    BY <1>2, <1>4 DEF CurrentRun, Shows, NoRun
  <1> QED
    BY <1>3, <1>4
\* Every step but an announcement's own: fire f has something due after it, or shows
\* as before; the others show as before.
LEMMA ShowStep ==
  ASSUME ShowInv, TypeOK, TypeOK', NEW f,
         UNCHANGED <<pulse, last, lock>>, busUp' => busUp,
         \A g \in Fire : pc'[g] = "publish" <=> pc[g] = "publish",
         busUp' /\ f \in Fire => Due(f)' \/ Alike(f),
         \A g \in Fire : g # f => Alike(g)
  PROVE  ShowInv'
  <1>1. LockHeld'
    BY DEF ShowInv, LockHeld
  <1>2. ASSUME busUp', NEW p \in Pulses PROVE ShownOrDue(p)'
    <2>0. ShownOrDue(p)
      BY <1>2 DEF ShowInv
    <2>1. CASE f \in Fire /\ pulse[f] = p /\ Due(f)'
      BY <2>1 DEF ShownOrDue
    <2>2. CASE ~(f \in Fire /\ pulse[f] = p /\ Due(f)')
      <3>1. \A g \in Fire : pulse[g] = p => Alike(g)
        BY <1>2, <2>2
      <3>2. \A x : Shows(x, CurrentRun(p)) <=> Shows(x, CurrentRun(p)')
        BY <3>1, SameRun
      <3>3. CASE \E g \in Fire : pulse[g] = p /\ Due(g)
        BY <3>1, <3>3 DEF Alike, ShownOrDue
      <3>4. ASSUME NEW g \in Fire, pulse[g] = p, pc[g] = "publish",
                   Shows(saying[g], CurrentRun(p))
            PROVE  ShownOrDue(p)'
        <4>1. saying'[g] = saying[g] /\ pc'[g] = "publish"
          BY <3>1, <3>4 DEF Alike
        <4>2. Shows(saying[g], CurrentRun(p)')
          BY <3>2, <3>4
        <4>3. Shows(saying[g], CurrentRun(p))'
          BY <4>1, <4>2 DEF Shows
        <4> QED
          BY <3>4, <4>1, <4>3 DEF ShownOrDue
      <3>5. ASSUME \A g \in Fire : pulse[g] = p => pc[g] # "publish", Shows(last[p], CurrentRun(p))
            PROVE  ShownOrDue(p)'
        <4>1. Shows(last[p], CurrentRun(p)')
          BY <3>2, <3>5
        <4>2. Shows(last[p], CurrentRun(p))'
          BY <4>1 DEF Shows
        <4> QED
          BY <3>5, <4>2 DEF ShownOrDue
      <3> QED
        BY <2>0, <3>3, <3>4, <3>5 DEF ShownOrDue
    <2> QED
      BY <2>1, <2>2
  <1> QED
    BY <1>1, <1>2 DEF ShowInv

\* What a pulse shows of fire f depends on nothing else.
LEMMA AlikeUnwritten ==
  ASSUME NEW f \in Fire, f \in tracked' <=> f \in tracked, f \in asked' <=> f \in asked,
         f \in known' <=> f \in known, phase'[f] = phase[f], saying'[f] = saying[f],
         pc'[f] = pc[f], heard'[f] = heard[f], sess'[f] = sess[f],
         f \in resumed' <=> f \in resumed
  PROVE  Alike(f)
  BY DEF Alike, RunShown, Registered, Due

LEMMA AnnounceReadShows ==
  ASSUME FireInv, ShowInv, TypeOK', NEW f \in Fire, AnnounceRead(f)
  PROVE  ShowInv'
  <1> USE DEF tracker, session, inboxes
  <1>0. /\ UNCHANGED <<tracker, last, session, inboxes, busUp>> /\ pc[f] = "announce"
        /\ lock = None /\ lock' = f /\ pc'[f] = "publish" /\ saying'[f] = CurrentRun(pulse[f])
        /\ \A g \in Fire : g # f => pc'[g] = pc[g] /\ saying'[g] = saying[g]
    BY DEF AnnounceRead, FireInv, TypeOK
  <1>1. LockHeld'
    BY <1>0, NoneIsNoFire DEF ShowInv, LockHeld
  <1>2. ASSUME NEW p PROVE CurrentRun(p)' = CurrentRun(p)
    BY <1>0 DEF CurrentRun, InFlight, Registered
  <1>3. ASSUME busUp', NEW p \in Pulses PROVE ShownOrDue(p)'
    <2>1. CASE pulse[f] = p
      <3>1. Shows(saying[f], CurrentRun(p))'
        <4>1. saying'[f] = CurrentRun(p)'
          BY <1>0, <1>2, <2>1
        <4> QED
          BY <4>1 DEF Shows
      <3> QED
        BY <1>0, <2>1, <3>1 DEF ShownOrDue
    <2>2. CASE pulse[f] # p
      <3>1. \A g \in Fire : g # f => (Due(g)' <=> Due(g))
        BY <1>0 DEF Due
      <3>2. ShownOrDue(p)
        BY <1>0, <1>3 DEF ShowInv
      <3> QED
        BY <1>0, <1>2, <2>2, <3>1, <3>2 DEF ShownOrDue, Shows
    <2> QED
      BY <2>1, <2>2
  <1> QED
    BY <1>1, <1>3 DEF ShowInv

LEMMA AnnouncePublishShows ==
  ASSUME FireInv, ShowInv, TypeOK', NEW f \in Fire, AnnouncePublish(f)
  PROVE  ShowInv'
  <1> USE DEF tracker, session, inboxes
  <1>0. /\ UNCHANGED <<tracker, session, inboxes, busUp>> /\ pc[f] = "publish"
        /\ lock' = None /\ pc'[f] = then[f]
        /\ \A g \in Fire : g # f => pc'[g] = pc[g] /\ saying'[g] = saying[g]
    BY DEF AnnouncePublish, FireInv, TypeOK
  <1>1. lock = f /\ \A g \in Fire : g # f => pc[g] # "publish"
    BY <1>0 DEF ShowInv, LockHeld
  <1>2. then[f] \in {"scripts", "subscribe", "follow", "done"} /\ pulse[f] \in Pulses
    BY DEF FireInv, TypeOK
  <1>3. \A g \in Fire : pc'[g] # "publish"
    BY <1>0, <1>1, <1>2
  <1>4. LockHeld'
    BY <1>0, <1>3, NoneIsNoFire DEF LockHeld
  <1>5. ASSUME NEW p PROVE CurrentRun(p)' = CurrentRun(p)
    BY <1>0 DEF CurrentRun, InFlight, Registered
  <1>6. \A g \in Fire : Due(g) => Due(g)'
    BY <1>0 DEF Due
  <1>7. ASSUME busUp', NEW p \in Pulses PROVE ShownOrDue(p)'
    <2>0. ShownOrDue(p)
      BY <1>0, <1>7 DEF ShowInv
    <2>1. CASE \E g \in Fire : pulse[g] = p /\ Due(g)
      BY <1>0, <1>6, <2>1 DEF ShownOrDue
    <2>2. CASE pulse[f] = p /\ Shows(saying[f], CurrentRun(p))
      <3>1. last'[p] = saying[f]
        BY <1>0, <1>2, <1>7, <2>2 DEF AnnouncePublish, FireInv, TypeOK
      <3> QED
        BY <1>3, <1>5, <2>2, <3>1 DEF ShownOrDue, Shows
    <2>3. CASE (\A g \in Fire : pulse[g] = p => pc[g] # "publish") /\ Shows(last[p], CurrentRun(p))
      <3>1. last'[p] = last[p]
        BY <1>0, <2>3 DEF AnnouncePublish, FireInv, TypeOK
      <3> QED
        BY <1>3, <1>5, <2>3, <3>1 DEF ShownOrDue, Shows
    <2> QED
      BY <1>1, <2>0, <2>1, <2>2, <2>3 DEF ShownOrDue
  <1> QED
    BY <1>4, <1>7 DEF ShowInv

\* A step of a fire's task after which it has its announcement to make.
LEMMA AnnouncingShows ==
  ASSUME FireInv, ShowInv, TypeOK', NEW f \in Fire,
         pc[f] # "publish", pc'[f] \in {"start", "announce"},
         \A g \in Fire : g # f =>
            /\ g \in tracked' <=> g \in tracked
            /\ g \in asked' <=> g \in asked
            /\ g \in known' <=> g \in known
            /\ phase'[g] = phase[g] /\ pc'[g] = pc[g] /\ heard'[g] = heard[g],
         UNCHANGED <<pulse, saidVars, session, busUp>>
  PROVE  ShowInv'
  <1> USE DEF saidVars, session
  <1>1. Due(f)'
    BY DEF Due
  <1>2. ASSUME NEW g \in Fire, g # f PROVE Alike(g)
    BY <1>2, AlikeUnwritten
  <1> QED
    BY <1>1, <1>2, ShowStep DEF FireInv

LEMMA FinishShows ==
  ASSUME FireInv, ShowInv, TypeOK', NEW f \in Fire, NEW o, Finish(f, o), pc[f] # "publish",
         UNCHANGED <<saidVars, session, busUp>>
  PROVE  ShowInv'
  <1>1. pc'[f] = "announce" /\ pulse' = pulse
    BY DEF Finish, AnnounceThen, FireInv, TypeOK
  <1>2. ASSUME NEW g \in Fire, g # f
        PROVE  /\ g \in tracked' <=> g \in tracked
               /\ g \in asked' <=> g \in asked
               /\ g \in known' <=> g \in known
               /\ phase'[g] = phase[g] /\ pc'[g] = pc[g] /\ heard'[g] = heard[g]
    BY <1>2 DEF Finish, LeaveTracker, AnnounceThen, FireInv, TypeOK
  <1> QED
    BY <1>1, <1>2, AnnouncingShows
LEMMA TaskShows ==
  ASSUME FireInv, ShowInv, TypeOK', NEW f \in Fire,
         \/ \E k \in Form : StartPulseFire(f, k)
         \/ Begin(f) \/ RunScripts(f) \/ AskForSession(f) \/ Following(f) \/ Panic(f)
  PROVE  ShowInv'
  <1> USE DEF saidVars, session, tracker, inboxes
  <1>0. Ordered(f) /\ TypeOK
    BY DEF FireInv
  <1>1. ASSUME NEW o, Finish(f, o), pc[f] # "publish", UNCHANGED <<saidVars, session, busUp>>
        PROVE  ShowInv'
    BY <1>1, FinishShows
  <1>2. ASSUME EndStopped(f), pc[f] # "publish", UNCHANGED <<saidVars, session, busUp>>
        PROVE  ShowInv'
    BY <1>1, <1>2 DEF EndStopped
  <1>3. ASSUME NEW l, RequestSession(f) \/ UNCHANGED tracker, AnnounceThen(f, l),
               pc[f] # "publish", UNCHANGED <<saidVars, session, inboxes, busUp>>
        PROVE  ShowInv'
    <2>1. pc'[f] = "announce" /\ pulse' = pulse
      BY <1>0, <1>3 DEF RequestSession, AnnounceThen, TypeOK
    <2>2. ASSUME NEW g \in Fire, g # f
          PROVE  /\ g \in tracked' <=> g \in tracked
                 /\ g \in asked' <=> g \in asked
                 /\ g \in known' <=> g \in known
                 /\ phase'[g] = phase[g] /\ pc'[g] = pc[g] /\ heard'[g] = heard[g]
      BY <1>0, <1>3, <2>2 DEF RequestSession, AnnounceThen, TypeOK
    <2> QED
      BY <1>3, <2>1, <2>2, AnnouncingShows
  <1>4. ASSUME NEW k \in Form, StartPulseFire(f, k) PROVE ShowInv'
    <2>1. pc[f] # "publish" /\ pc'[f] = "start" /\ pulse' = pulse
          /\ UNCHANGED <<saidVars, session, busUp>>
      <3>1. f = begun + 1 /\ begun \in Int
        BY <1>0, <1>4, PulseFiresAssumption DEF StartPulseFire, TypeOK
      <3>2. pc[f] = "unborn"
        BY <1>0, <3>1 DEF Ordered, TaskPlaced
      <3> QED
        BY <1>0, <1>4, <3>2 DEF StartPulseFire, TypeOK
    <2>2. ASSUME NEW g \in Fire, g # f
          PROVE  /\ g \in tracked' <=> g \in tracked
                 /\ g \in asked' <=> g \in asked
                 /\ g \in known' <=> g \in known
                 /\ phase'[g] = phase[g] /\ pc'[g] = pc[g] /\ heard'[g] = heard[g]
      BY <1>0, <1>4, <2>2 DEF StartPulseFire, TypeOK
    <2> QED
      BY <2>1, <2>2, AnnouncingShows
  <1>5. CASE Begin(f)
    BY <1>3, <1>5 DEF Begin
  <1>6. CASE RunScripts(f)
    BY <1>1, <1>2, <1>3, <1>6 DEF RunScripts
  \* Neither the request nor a withdrawn offer shows.
  <1>7. ASSUME pc[f] # "publish", pc[f] \notin {"start", "announce"},
               pc' = [pc EXCEPT ![f] = "follow"] \/ pc' = pc,
               UNCHANGED <<tracker, saidVars, session, inboxes, busUp>>
        PROVE  ShowInv'
    <2>1. ASSUME NEW g \in Fire, g # f PROVE Alike(g)
      <3>1. pc'[g] = pc[g]
        BY <1>0, <1>7, <2>1 DEF TypeOK
      <3> QED
        BY <1>7, <3>1, AlikeUnwritten
    <2>2. pc'[f] # "publish" /\ pc'[f] \notin {"start", "announce"}
      BY <1>0, <1>7 DEF TypeOK
    <2>3. Alike(f)
      BY <1>7, <2>2 DEF Alike, RunShown, Registered, Due
    <2>4. \A g \in Fire : pc'[g] = "publish" <=> pc[g] = "publish"
      BY <2>1, <2>3 DEF Alike
    <2> QED
      BY <1>0, <1>7, <2>1, <2>3, <2>4, ShowStep
  <1>8. CASE AskForSession(f)
    <2>1. CASE EndStopped(f) \/ \E o \in {"ended", "failed"} : Finish(f, o)
      BY <1>1, <1>2, <1>8, <2>1 DEF AskForSession
    <2>2. CASE pc' = [pc EXCEPT ![f] = "follow"]
               /\ UNCHANGED <<tracker, then, noticed, outcome, inboxes>>
      BY <1>7, <1>8, <2>2 DEF AskForSession
    <2> QED
      BY <1>8, <2>1, <2>2 DEF AskForSession
  <1>9. CASE NoticeStop(f)
    BY <1>2, <1>7, <1>9 DEF NoticeStop
  <1>10. CASE HearSession(f)
    <2>1. CASE Head(heard[f]) # "started"
      BY <1>1, <1>10, <2>1 DEF HearSession
    <2>2. CASE Head(heard[f]) = "started"
      <3>1. /\ pc[f] = "follow" /\ pc'[f] = "announce" /\ pulse' = pulse
            /\ UNCHANGED <<saidVars, session, busUp>>
        BY SMTT(30), <1>0, <1>10, <2>2 DEF HearSession, AnnounceThen, TypeOK
      <3>2. ASSUME NEW g \in Fire, g # f
            PROVE  /\ g \in tracked' <=> g \in tracked
                   /\ g \in asked' <=> g \in asked
                   /\ g \in known' <=> g \in known
                   /\ phase'[g] = phase[g] /\ pc'[g] = pc[g] /\ heard'[g] = heard[g]
        BY SMTT(30), <1>0, <1>10, <2>2, <3>2 DEF HearSession, AnnounceThen, TypeOK
      <3> QED
        BY <3>1, <3>2, AnnouncingShows
    <2> QED
      BY <2>1, <2>2
  <1>11. CASE HearFailure(f) \/ HearEnd(f) \/ Panic(f)
    BY <1>1, <1>2, <1>11 DEF HearFailure, HearEnd, Panic
  <1> QED
    BY <1>4, <1>5, <1>6, <1>8, <1>9, <1>10, <1>11 DEF Following

\* The listener shows a fire's run by registering its session, which is then to start.
LEMMA ListeningShows ==
  ASSUME FireInv, ShowInv, TypeOK', Listening
  PROVE  ShowInv'
  <1> USE DEF saidVars, session, tracker, task, inboxes
  <1>0. TypeOK
    BY DEF FireInv
  <1>1. CASE Claim \/ BuildFails
    <2>1. UNCHANGED <<tracker, task, saidVars, session, heard, busUp>>
      BY <1>1 DEF Claim, BuildFails
    <2>2. \A g \in Fire : Alike(g)
      BY <2>1, AlikeUnwritten
    <2> QED
      BY <1>0, <2>1, <2>2, ShowStep
  <1>2. CASE Register
    <2>1. PICK f : f = building
      OBVIOUS
    <2>2. /\ UNCHANGED <<tracker, task, saidVars, resumed, inboxes, busUp>>
          /\ sess' = [sess EXCEPT ![f] = "registered"]
      BY <1>2, <2>1 DEF Register
    <2>3. ASSUME NEW g \in Fire, g # f PROVE Alike(g)
      <3>1. sess'[g] = sess[g]
        BY <1>0, <2>2, <2>3 DEF TypeOK
      <3> QED
        BY <2>2, <3>1, AlikeUnwritten
    <2>4. ASSUME f \in Fire PROVE Due(f)' \/ Alike(f)
      <3>1. sess'[f] = "registered"
        BY <1>0, <2>2, <2>4 DEF TypeOK
      <3> QED
        BY <2>2, <3>1 DEF Due, Alike
    <2> QED
      BY <1>0, <2>2, <2>3, <2>4, ShowStep
  <1> QED
    BY <1>1, <1>2 DEF Listening

\* The session's steps leave what is shown, or an event for the fire to hear.
LEMMA SessionShows ==
  ASSUME FireInv, ShowInv, TypeOK', NEW f \in Fire,
         SessionStep(f) \/ MessageResumes(f) \/ ResumedEnds(f)
  PROVE  ShowInv'
  <1> USE DEF saidVars, tracker, task
  <1>0. Ordered(f) /\ TypeOK
    BY DEF FireInv
  <1>1. UNCHANGED <<tracker, task, saidVars, busUp>>
    BY DEF SessionStep, SessionStarts, SessionEnds, SessionCompleted, MessageResumes, ResumedEnds
  <1>2. ASSUME NEW g \in Fire, g # f PROVE Alike(g)
    <2>1. sess'[g] = sess[g] /\ (g \in resumed' <=> g \in resumed)
      BY SMTT(30), <1>0, <1>2 DEF SessionStep, SessionStarts, SessionEnds, SessionCompleted,
                        MessageResumes, ResumedEnds, TypeOK, inboxes
    <2>2. heard'[g] = heard[g]
      <3>1. heard' = heard \/ \E e \in {"started", "ok", "stopped", "failed"} : Hear(f, e)
        BY DEF SessionStep, SessionStarts, SessionEnds, SessionCompleted, MessageResumes,
               ResumedEnds, inboxes
      <3>2. ASSUME NEW e, Hear(f, e) PROVE heard'[g] = heard[g]
        <4>1. heard \in [Fire -> Seq({"started", "ok", "stopped", "failed"})]
          BY <1>0 DEF TypeOK
        <4> QED
          BY ONLY <1>2, <3>2, <4>1 DEF Hear
      <3> QED
        BY <3>1, <3>2
    <2> QED
      BY <1>1, <1>2, <2>1, <2>2, AlikeUnwritten
  <1>3. ASSUME SessionStarts(f) \/ SessionCompleted(f), busUp' PROVE Due(f)' \/ Alike(f)
    <2>1. PICK e \in {"started", "ok", "stopped", "failed"} : Hear(f, e)
      BY <1>3 DEF SessionStarts, SessionCompleted
    <2>2. CASE f \in tracked
      <3>1. heard'[f] = Append(heard[f], e) /\ heard[f] \in Seq({"started", "ok", "stopped", "failed"})
        BY ZenonT(60), <1>0, <1>1, <1>3, <2>1, <2>2 DEF Hear, TypeOK
      <3>2. heard'[f] # <<>>
        BY <3>1
      <3> QED
        BY <3>2 DEF Due
    <2>3. CASE f \notin tracked
      BY <1>1, <2>1, <2>3 DEF Hear, Alike, Due
    <2> QED
      BY <2>2, <2>3
  <1>4. ASSUME SessionEnds(f) \/ MessageResumes(f) \/ ResumedEnds(f), busUp'
        PROVE  Due(f)' \/ Alike(f)
    <2>1. Ran(f) /\ heard' = heard
      BY <1>0, <1>4
         DEF SessionEnds, MessageResumes, ResumedEnds, Ran, Ordered, SpawnOrdered, inboxes
    <2>2. CASE heard[f] # <<>>
      BY <2>1, <2>2 DEF Due
    <2>3. CASE f \notin tracked
      BY <1>1, <2>1, <2>3 DEF Alike, Due
    <2>4. CASE f \in tracked /\ heard[f] = <<>>
      <3>1. f \in known /\ sess[f] # "registered"
        BY <1>0, <1>1, <1>4, <2>1, <2>4 DEF Ordered, HeardOrdered, Ran
      <3> QED
        BY <1>1, <2>1, <2>4, <3>1 DEF Alike, RunShown, Due
    <2> QED
      BY <2>2, <2>3, <2>4
  <1> QED
    BY <1>0, <1>1, <1>2, <1>3, <1>4, ShowStep DEF SessionStep

LEMMA OutsideShows ==
  ASSUME FireInv, ShowInv, TypeOK',
         (\E f \in Fire : Stop(f)) \/ StopAll \/ BusCloses \/ UNCHANGED vars
  PROVE  ShowInv'
  <1> USE DEF saidVars, tracker, task, session, inboxes, vars
  <1>1. UNCHANGED <<tracker, task, saidVars, session, inboxes>> /\ (busUp' => busUp)
    BY DEF Stop, StopAll, BusCloses
  <1>2. \A g \in Fire : Alike(g)
    BY <1>1, AlikeUnwritten
  <1> QED
    BY <1>1, <1>2, ShowStep DEF FireInv

LEMMA ShowNext == FireInv /\ ShowInv /\ [Next]_vars => ShowInv'
  <1> SUFFICES ASSUME FireInv, ShowInv, [Next]_vars PROVE ShowInv'
    OBVIOUS
  <1>1. TypeOK'
    BY TypeNext DEF FireInv
  <1> QED
    BY <1>1, TaskShows, AnnounceReadShows, AnnouncePublishShows, ListeningShows, SessionShows,
       OutsideShows DEF Next, TaskStep

-----------------------------------------------------------------------------
(* The theorems.                                                           *)

LEMMA InvInit == Init => FireInv /\ ShowInv
  <1> SUFFICES ASSUME Init PROVE FireInv /\ ShowInv
    OBVIOUS
  <1> USE DEF Init
  <1>1. RequestedOnce /\ \A f \in Fire : ~Waiting(f)
    BY DEF RequestedOnce, Waiting
  <1>2. ASSUME NEW f \in Fire PROVE Ordered(f)
    <2>1. Place(f) = "unborn" /\ f > begun /\ building # f
      BY NoneIsNoFire DEF Place, Fire
    <2> QED
      BY <1>1, <2>1
         DEF Ordered, TaskPlaced, SpawnOrdered, HeardOrdered, StoppedOver, Coming, Ran
  <1>3. LockHeld
    BY NoneIsNoFire DEF LockHeld
  <1>4. ASSUME NEW p \in Pulses PROVE ShownOrDue(p)
    <2>1. CurrentRun(p) = NoRun
      BY DEF CurrentRun, InFlight, Registered
    <2> QED
      BY <2>1 DEF ShownOrDue, Shows, NoRun
  <1> QED
    BY <1>1, <1>2, <1>3, <1>4, TypeInit DEF FireInv, ShowInv

LEMMA InvAlways == Spec => [](FireInv /\ ShowInv)
  <1>1. FireInv /\ ShowInv /\ [Next]_vars => (FireInv /\ ShowInv)'
    BY FireNext, ShowNext
  <1> QED
    BY <1>1, InvInit, PTL DEF Spec

\* The state keeps its shape, and only a fire that asked for a session has a run id.
THEOREM TypeCorrect == Spec => []TypeOK
  BY InvAlways, PTL DEF FireInv

\* Whatever the order of an owner's stop, the listener's claim and the session's own
\* events, a fire recorded as stopped has no session going or to come
\* (FireStops::claim and withdraw, run_session_phase).
THEOREM StoppedFiresAreOver == Spec => []StoppedFireIsOver
  <1>1. FireInv => StoppedFireIsOver
    BY DEF FireInv, Ordered, StoppedOver, StoppedFireIsOver
  <1> QED
    BY <1>1, InvAlways, PTL

\* No step forks a session for a fire that is over and had none: its offer went with
\* its entry in the tracker (PulseFire::leave_tracker).
THEOREM EndedFiresForkNothing == Spec => EndedFireForksNothing
  <1> DEFINE Kept(f) ==
        (begun >= f /\ f \notin tracked /\ building # f /\ sess[f] = "none")
           => sess'[f] = "none" /\ building' # f
  <1>1. ASSUME FireInv, [Next]_vars, NEW f \in Fire,
               begun >= f, f \notin tracked, building # f, sess[f] = "none"
        PROVE  sess'[f] = "none" /\ building' # f
    <2> USE DEF session, listener, vars
    <2>0. TypeOK /\ Ordered(f)
      BY <1>1 DEF FireInv
    <2>1. offers[f] = "none"
      BY <1>1, <2>0 DEF Ordered, TaskPlaced, SpawnOrdered
    <2>2. CASE Listening
      <3>1. f # None
        BY NoneIsNoFire
      <3>2. CASE Claim
        BY <1>1, <2>1, <3>2 DEF Claim
      <3>3. CASE BuildFails
        BY <1>1, <3>1, <3>3 DEF BuildFails
      <3>4. CASE Register
        BY <1>1, <2>0, <3>1, <3>4 DEF Register, TypeOK
      <3> QED
        BY <2>2, <3>2, <3>3, <3>4 DEF Listening
    <2>3. ASSUME NEW g \in Fire, SessionStep(g) PROVE sess'[f] = "none" /\ building' = building
      BY <1>1, <2>0, <2>3
         DEF SessionStep, SessionStarts, SessionEnds, SessionCompleted, TypeOK
    <2>4. ASSUME NEW g \in Fire,
                 \/ \E k \in Form : StartPulseFire(g, k)
                 \/ Stop(g) \/ Panic(g) \/ TaskStep(g) \/ AnnounceRead(g)
                 \/ MessageResumes(g) \/ ResumedEnds(g)
          PROVE  sess' = sess /\ building' = building
      BY <2>4 DEF StartPulseFire, Stop, Panic, TaskStep, AnnounceRead, MessageResumes,
                  ResumedEnds, Begin, RunScripts, AskForSession, Following, NoticeStop,
                  HearSession, HearFailure, HearEnd, AnnouncePublish
    <2>5. CASE StopAll \/ BusCloses \/ UNCHANGED vars
      BY <1>1, <2>5 DEF StopAll, BusCloses
    <2> QED
      BY <1>1, <2>2, <2>3, <2>4, <2>5 DEF Next
  <1>2. FireInv /\ [Next]_vars => [\A f \in Fire : Kept(f)]_vars
    BY <1>1
  <1> QED
    BY <1>2, InvAlways, PTL DEF Spec, EndedFireForksNothing

\* The last event of a quiet pulse shows its run in flight, in whatever order its
\* fires changed, announced and were superseded (PulseFires.announce).
THEOREM LastEventsAreCurrent == Spec => []LastEventIsCurrent
  <1>1. ASSUME FireInv, ShowInv, NEW p \in Pulses, Quiet(p)
        PROVE  Shows(last[p], CurrentRun(p))
    <2>1. busUp /\ ShownOrDue(p)
      BY <1>1 DEF Quiet, ShowInv
    <2> QED
      BY <1>1, <2>1 DEF ShownOrDue, Due, Quiet
  <1>2. FireInv /\ ShowInv => LastEventIsCurrent
    BY <1>1 DEF LastEventIsCurrent, Shows
  <1> QED
    BY <1>2, InvAlways, PTL

\* A fire that follows its session has something to hear or a stop to notice: a lost
\* claim, a failed build and a stop racing the claim all leave it one
\* (run_session_phase, publish_pulse_start_failed).
THEOREM FollowedSessionsCome == Spec => []FollowedIsComing
  <1>1. ASSUME FireInv PROVE FollowedIsComing
    <2>1. ASSUME NEW f \in Fire, pc[f] = "follow", busUp, heard[f] = <<>>
          PROVE  \A i \in DOMAIN heard[f] : FALSE
      BY <2>1
    <2>2. \A f \in Fire : pc[f] = "follow" => Place(f) = "follow"
      BY DEF Place
    <2> QED
      BY <1>1, <2>1, <2>2 DEF FireInv, Ordered, Coming, Waiting, FollowedIsComing
  <1> QED
    BY <1>1, InvAlways, PTL
=============================================================================
