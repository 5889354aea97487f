--------------------------- MODULE MainTurnsProofs ---------------------------
(***************************************************************************)
(* The main agent's turns, for every set of messages and every bound: where *)
(* its messages are, what the list of waiting messages says of them, and    *)
(* which turns a stop request hits.                                         *)
(***************************************************************************)
EXTENDS MainTurns, SequenceTheorems, WellFoundedInduction, TLAPS

-----------------------------------------------------------------------------
(* Sequences without repetition.                                           *)

LEMMA EmptyQueue == Range(<<>>) = {} /\ IsInjective(<<>>)
  BY DEF Range, IsInjective

LEMMA RangeTyped ==
  ASSUME NEW S, NEW s \in Seq(S)
  PROVE  Range(s) \subseteq S
  BY DEF Range

LEMMA AppendQueue ==
  ASSUME NEW S, NEW s \in Seq(S), NEW m \in S, IsInjective(s), m \notin Range(s)
  PROVE  /\ Append(s, m) \in Seq(S)
         /\ Range(Append(s, m)) = Range(s) \cup {m}
         /\ IsInjective(Append(s, m))
  <1> DEFINE t == Append(s, m)
  <1>1. /\ t \in Seq(S) /\ Len(t) = Len(s) + 1 /\ t[Len(s) + 1] = m
        /\ \A i \in 1 .. Len(s) : t[i] = s[i]
    OBVIOUS
  <1>2. DOMAIN s = 1 .. Len(s) /\ DOMAIN t = 1 .. Len(s) + 1 /\ Len(s) \in Nat
    BY <1>1
  <1> HIDE DEF t
  <1>3. Range(t) = Range(s) \cup {m}
    <2>1. ASSUME NEW i \in DOMAIN t PROVE t[i] \in Range(s) \cup {m}
      BY <1>1, <1>2 DEF Range
    <2>2. ASSUME NEW i \in DOMAIN s PROVE s[i] \in Range(t)
      BY <1>1, <1>2 DEF Range
    <2>3. m \in Range(t)
      BY <1>1, <1>2 DEF Range
    <2> QED
      BY <2>1, <2>2, <2>3 DEF Range
  <1>4. ASSUME NEW i \in DOMAIN t, NEW j \in DOMAIN t, t[i] = t[j] PROVE i = j
    <2>1. \A k \in DOMAIN s : t[k] = s[k] /\ s[k] # m
      BY <1>1, <1>2 DEF Range
    <2>2. (i \in DOMAIN s \/ i = Len(s) + 1) /\ (j \in DOMAIN s \/ j = Len(s) + 1)
      BY <1>2
    <2> QED
      BY <1>1, <1>4, <2>1, <2>2 DEF IsInjective
  <1> QED
    BY <1>1, <1>3, <1>4 DEF t, IsInjective

\* t is s without its k-th message.
IsWithout(t, s, k) ==
    /\ Len(t) = Len(s) - 1
    /\ \A i \in 1 .. Len(t) : t[i] = s[IF i < k THEN i ELSE i + 1]

LEMMA ShorterQueue ==
  ASSUME NEW S, NEW s \in Seq(S), NEW t \in Seq(S), IsInjective(s), NEW k \in DOMAIN s,
         IsWithout(t, s, k)
  PROVE  /\ Range(t) = Range(s) \ {s[k]}
         /\ IsInjective(t)
         /\ s[k] \in S /\ s[k] \in Range(s)
  <1> DEFINE pos(i) == IF i < k THEN i ELSE i + 1
  <1>0. k \in 1 .. Len(s) /\ Len(s) \in Nat /\ DOMAIN s = 1 .. Len(s)
    OBVIOUS
  <1>1. \A i \in 1 .. Len(t) : t[i] = s[pos(i)]
    BY DEF IsWithout
  <1>2. DOMAIN t = 1 .. Len(s) - 1
    BY DEF IsWithout
  <1>3. \A i \in DOMAIN t : pos(i) \in DOMAIN s /\ pos(i) # k /\ t[i] = s[pos(i)]
    BY <1>0, <1>1, <1>2
  <1>4. \A j \in DOMAIN s : j # k => \E i \in DOMAIN t : pos(i) = j
    <2> TAKE j \in DOMAIN s
    <2> HAVE j # k
    <2>1. CASE j < k
      BY <2>1, <1>0, <1>2
    <2>2. CASE j > k
      <3>1. j - 1 \in DOMAIN t /\ pos(j - 1) = j
        BY <2>2, <1>0, <1>2
      <3> QED
        BY <3>1
    <2> QED
      BY <2>1, <2>2, <1>0
  <1>5. \A i, j \in DOMAIN t : pos(i) = pos(j) => i = j
    BY <1>0, <1>2
  <1> HIDE DEF pos
  <1>6. Range(t) = Range(s) \ {s[k]}
    <2>1. ASSUME NEW i \in DOMAIN t PROVE t[i] \in Range(s) \ {s[k]}
      BY <1>3 DEF Range, IsInjective
    <2>2. ASSUME NEW j \in DOMAIN s, s[j] # s[k] PROVE s[j] \in Range(t)
      <3>1. PICK i \in DOMAIN t : pos(i) = j
        BY <1>4, <2>2
      <3> QED
        BY <3>1, <1>3 DEF Range
    <2> QED
      BY <2>1, <2>2 DEF Range
  <1>7. IsInjective(t)
    <2> SUFFICES ASSUME NEW i \in DOMAIN t, NEW j \in DOMAIN t, t[i] = t[j] PROVE i = j
      BY DEF IsInjective
    <2>1. pos(i) = pos(j)
      BY <1>3 DEF IsInjective
    <2> QED
      BY <2>1, <1>5
  <1>8. s[k] \in Range(s)
    BY DEF Range
  <1> QED
    BY <1>6, <1>7, <1>8

LEMMA RemoveQueue ==
  ASSUME NEW S, NEW s \in Seq(S), IsInjective(s), NEW k \in DOMAIN s
  PROVE  /\ RemoveAt(s, k) \in Seq(S)
         /\ Range(RemoveAt(s, k)) = Range(s) \ {s[k]}
         /\ IsInjective(RemoveAt(s, k))
         /\ s[k] \in S /\ s[k] \in Range(s)
  <1> DEFINE l == SubSeq(s, 1, k - 1)
             r == SubSeq(s, k + 1, Len(s))
             t == l \o r
  <1>0. k \in 1 .. Len(s) /\ k \in Int /\ Len(s) \in Nat
    OBVIOUS
  <1>1. l \in Seq(S) /\ Len(l) = k - 1 /\ \A i \in 1 .. k - 1 : l[i] = s[i]
    <2>1. \A i \in 1 .. k - 1 : s[i] \in S
      BY <1>0
    <2> QED
      BY <1>0, <2>1, SubSeqProperties
  <1>2. r \in Seq(S) /\ Len(r) = Len(s) - k /\ \A i \in 1 .. Len(s) - k : r[i] = s[k + i]
    <2>1. \A i \in k + 1 .. Len(s) : s[i] \in S
      BY <1>0
    <2>2. k + 1 \in Int /\ Len(s) \in Int
      BY <1>0
    <2>3. /\ r \in Seq(S)
          /\ Len(r) = IF k + 1 <= Len(s) THEN Len(s) - (k + 1) + 1 ELSE 0
          /\ \A i \in 1 .. Len(s) - (k + 1) + 1 : r[i] = s[k + 1 + i - 1]
      BY <2>1, <2>2, SubSeqProperties
    <2> HIDE DEF r
    <2> QED
      BY <1>0, <2>3
  <1> HIDE DEF l, r
  <1>3. /\ t \in Seq(S) /\ Len(t) = Len(l) + Len(r)
        /\ \A i \in 1 .. Len(l) + Len(r) : t[i] = IF i <= Len(l) THEN l[i] ELSE r[i - Len(l)]
    BY SMTT(30), <1>1, <1>2
  <1> HIDE DEF t
  <1>4. Len(t) = Len(s) - 1
    BY <1>0, <1>1, <1>2, <1>3
  <1>5. \A i \in 1 .. Len(t) : t[i] = s[IF i < k THEN i ELSE i + 1]
    <2> TAKE i \in 1 .. Len(t)
    <2>1. CASE i < k
      BY <2>1, <1>0, <1>1, <1>3, <1>4
    <2>2. CASE ~ (i < k)
      <3>1. i - (k - 1) \in 1 .. Len(s) - k /\ k + (i - (k - 1)) = i + 1
        BY <2>2, <1>0, <1>4
      <3>2. t[i] = r[i - (k - 1)]
        BY <2>2, <1>0, <1>1, <1>2, <1>3, <1>4
      <3> QED
        BY <2>2, <3>1, <3>2, <1>2
    <2> QED
      BY <2>1, <2>2
  <1>6. t = RemoveAt(s, k) /\ IsWithout(t, s, k)
    BY <1>4, <1>5 DEF t, l, r, RemoveAt, IsWithout
  <1> QED
    BY <1>3, <1>6, ShorterQueue

LEMMA TailQueue ==
  ASSUME NEW S, NEW s \in Seq(S), IsInjective(s), s # <<>>
  PROVE  /\ Tail(s) \in Seq(S)
         /\ Range(Tail(s)) = Range(s) \ {Head(s)}
         /\ IsInjective(Tail(s))
         /\ Head(s) \in S /\ Head(s) \in Range(s)
  <1> DEFINE t == Tail(s)
             h == Head(s)
  <1>1. PICK k \in DOMAIN s : k = 1 /\ h = s[k]
    OBVIOUS
  <1>2. t \in Seq(S) /\ IsWithout(t, s, k)
    BY <1>1 DEF IsWithout
  <1> HIDE DEF t, h
  <1>3. Range(t) = Range(s) \ {s[k]} /\ IsInjective(t) /\ s[k] \in S /\ s[k] \in Range(s)
    BY <1>1, <1>2, ShorterQueue
  <1> QED
    BY <1>1, <1>2, <1>3 DEF t, h

LEMMA ConcatQueue ==
  ASSUME NEW S, NEW s \in Seq(S), NEW t \in Seq(S), IsInjective(s), IsInjective(t),
         Range(s) \cap Range(t) = {}
  PROVE  /\ s \o t \in Seq(S)
         /\ Range(s \o t) = Range(s) \cup Range(t)
         /\ IsInjective(s \o t)
  <1> DEFINE u == s \o t
  <1>0. Len(s) \in Nat /\ Len(t) \in Nat /\ DOMAIN s = 1 .. Len(s) /\ DOMAIN t = 1 .. Len(t)
    OBVIOUS
  <1>1. /\ u \in Seq(S) /\ Len(u) = Len(s) + Len(t)
        /\ \A i \in 1 .. Len(u) : u[i] = IF i <= Len(s) THEN s[i] ELSE t[i - Len(s)]
    OBVIOUS
  <1>2. DOMAIN u = 1 .. Len(s) + Len(t)
    BY <1>1
  <1> HIDE DEF u
  <1>3. \A i \in DOMAIN u : \/ i \in DOMAIN s /\ u[i] = s[i]
                            \/ i - Len(s) \in DOMAIN t /\ u[i] = t[i - Len(s)]
    BY <1>0, <1>1, <1>2
  <1>4. \A i \in DOMAIN s : i \in DOMAIN u /\ u[i] = s[i]
    BY <1>0, <1>1, <1>2
  <1>5. \A i \in DOMAIN t : i + Len(s) \in DOMAIN u /\ u[i + Len(s)] = t[i]
    BY <1>0, <1>1, <1>2
  <1>6. Range(u) = Range(s) \cup Range(t)
    <2>1. ASSUME NEW i \in DOMAIN u PROVE u[i] \in Range(s) \cup Range(t)
      BY <1>3 DEF Range
    <2>2. ASSUME NEW i \in DOMAIN s PROVE s[i] \in Range(u)
      BY <1>4 DEF Range
    <2>3. ASSUME NEW i \in DOMAIN t PROVE t[i] \in Range(u)
      <3>1. i + Len(s) \in DOMAIN u /\ u[i + Len(s)] = t[i]
        BY <1>5
      <3> QED
        BY <3>1 DEF Range
    <2> QED
      BY <2>1, <2>2, <2>3 DEF Range
  <1>7. IsInjective(u)
    <2> SUFFICES ASSUME NEW i \in DOMAIN u, NEW j \in DOMAIN u, u[i] = u[j] PROVE i = j
      BY DEF IsInjective
    <2>1. i \in Int /\ j \in Int
      BY <1>2, <1>0
    <2>2. CASE i \in DOMAIN s /\ u[i] = s[i] /\ j \in DOMAIN s /\ u[j] = s[j]
      BY <2>2 DEF IsInjective
    <2>3. CASE /\ i - Len(s) \in DOMAIN t /\ u[i] = t[i - Len(s)]
               /\ j - Len(s) \in DOMAIN t /\ u[j] = t[j - Len(s)]
      <3>1. i - Len(s) = j - Len(s)
        BY <2>3 DEF IsInjective
      <3> QED
        BY <3>1, <2>1, <1>0
    <2>4. ASSUME NEW a \in DOMAIN s, NEW b \in DOMAIN t PROVE s[a] # t[b]
      BY <2>4 DEF Range
    <2> QED
      BY <1>3, <2>2, <2>3, <2>4
  <1> QED
    BY <1>1, <1>6, <1>7 DEF u

\* next_deferred_message finds a place in the queue.
LEMMA NextDeferredIsThere ==
  ASSUME deferred \in Seq(Mine), deferred # <<>>
  PROVE  NextDeferred \in DOMAIN deferred
  <1> DEFINE now == {i \in DOMAIN deferred : entry[deferred[i]] = "send_now"}
  <1>1. 1 \in DOMAIN deferred /\ now \subseteq Nat /\ now \subseteq DOMAIN deferred
    OBVIOUS
  <1> HIDE DEF now
  <1>2. ASSUME now # {} PROVE \E i \in now : \A j \in now : i <= j
    <2>1. PICK i \in now : \A j \in now : ~ (<<j, i>> \in OpToRel(<, Nat))
      BY <1>1, <1>2, WFMin, NatLessThanWellFounded
    <2>2. \A j \in now : ~ (j < i)
      BY <1>1, <2>1 DEF OpToRel
    <2> QED
      BY <1>1, <2>2
  <1>3. now # {} => (CHOOSE i \in now : \A j \in now : i <= j) \in now
    BY <1>2
  <1> QED
    BY <1>1, <1>3 DEF NextDeferred, now

-----------------------------------------------------------------------------
(* The invariant.                                                          *)

Pending == {m \in Message : fate[m] = "pending"}

QueuesTyped ==
    /\ fate \in [Message -> Fate] /\ entry \in [Message -> Waiting]
    /\ bus \in Seq(Message) /\ deferred \in Seq(Mine)
    /\ intr \in Seq(Mine) /\ held \in Seq(Mine) /\ leftovers \in Seq(Mine)

Once ==
    /\ IsInjective(bus) /\ IsInjective(intr) /\ IsInjective(held)
    /\ IsInjective(leftovers) /\ IsInjective(deferred)

\* B, I, H, L and D share nothing, and together are P.
Partition(B, I, H, L, D, P) ==
    /\ B \cup I \cup H \cup L \cup D = P
    /\ B \cap I = {} /\ B \cap H = {} /\ B \cap L = {} /\ B \cap D = {}
    /\ I \cap H = {} /\ I \cap L = {} /\ I \cap D = {}
    /\ H \cap L = {} /\ H \cap D = {} /\ L \cap D = {}

Placed ==
    Partition(Range(bus), Range(intr), Range(held), Range(leftovers), Range(deferred), Pending)

\* The turn's leftovers are handed over before another turn can leave any.
LeftoversTaken == pc \notin {"leaving", "after"} => leftovers = <<>>

\* What the list says of m, and what was confirmed, agrees with where m is.
Listed(m) ==
    /\ entry[m] # "none" => fate[m] \in {"pending", "noted"} /\ m \notin Range(bus)
    /\ m \in told => \/ fate[m] \in {"dropped", "noted"}
                     \/ fate[m] = "pending" /\ entry[m] = "withdrawn"
    /\ m \in asked => \/ fate[m] \in {"started", "dropped", "noted"}
                      \/ fate[m] = "pending" /\ entry[m] \in {"send_now", "withdrawn"}

ListKept == (told \cup asked \subseteq Message) /\ \A m \in Message : Listed(m)

PlaceInv == QueuesTyped /\ Once /\ Placed /\ LeftoversTaken /\ ListKept

LEMMA PlaceInvInit == Init => PlaceInv
  <1> SUFFICES ASSUME Init PROVE PlaceInv
    OBVIOUS
  <1>1. Pending = {} /\ QueuesTyped /\ LeftoversTaken
    BY DEF Init, Pending, QueuesTyped, LeftoversTaken, Fate, Waiting
  <1>2. Once /\ Placed
    BY <1>1, EmptyQueue DEF Init, Once, Placed, Partition
  <1>3. ListKept
    BY DEF Init, ListKept, Listed
  <1> QED
    BY <1>1, <1>2, <1>3 DEF PlaceInv

placeVars == <<fate, waitVars, queueVars, intr, held, leftovers>>

LEMMA QuietStep ==
  ASSUME PlaceInv, UNCHANGED placeVars,
         pc' = pc \/ pc \notin {"leaving", "after"} \/ pc' \in {"leaving", "after"}
  PROVE  PlaceInv'
  <1> USE DEF PlaceInv, placeVars, waitVars, queueVars
  <1>1. QueuesTyped' /\ Once'
    BY DEF QueuesTyped, Once
  <1>2. Pending' = Pending /\ LeftoversTaken'
    BY DEF Pending, LeftoversTaken
  <1>3. Placed'
    BY <1>2 DEF Placed
  <1>4. ListKept'
    BY DEF ListKept, Listed
  <1> QED
    BY <1>1, <1>2, <1>3, <1>4

\* A waiting message gets another fate.
LEMMA FateStep ==
  ASSUME QueuesTyped, NEW m \in Message, NEW f \in Fate, fate' = [fate EXCEPT ![m] = f]
  PROVE  /\ fate' \in [Message -> Fate] /\ fate'[m] = f
         /\ \A n \in Message : n # m => fate'[n] = fate[n]
         /\ f # "pending" => Pending' = Pending \ {m}
         /\ f = "pending" => Pending' = Pending \cup {m}
  BY DEF QueuesTyped, Pending

LEMMA EntryStep ==
  ASSUME QueuesTyped, NEW m \in Message, NEW w \in Waiting, entry' = [entry EXCEPT ![m] = w]
  PROVE  /\ entry' \in [Message -> Waiting] /\ entry'[m] = w
         /\ \A n \in Message : n # m => entry'[n] = entry[n]
  BY DEF QueuesTyped
-----------------------------------------------------------------------------
(* People.                                                                 *)

LEMMA SendStep ==
  ASSUME PlaceInv, NEW m \in Message, Send(m)
  PROVE  PlaceInv'
  <1> USE DEF PlaceInv, waitVars, turnVars
  <1>1. /\ deferred' = deferred /\ intr' = intr /\ held' = held /\ leftovers' = leftovers
        /\ entry' = entry /\ told' = told /\ asked' = asked /\ pc' = pc /\ fate[m] = "unsent"
    BY DEF Send
  <1>2. LeftoversTaken'
    BY <1>1 DEF LeftoversTaken
  <1>3. m \notin Pending /\ entry[m] = "none" /\ m \notin told /\ m \notin asked
    BY <1>1 DEF Pending, ListKept, Listed
  <1>4. m \notin Range(bus)
    BY <1>3 DEF Placed, Partition
  <1>5. CASE pc = "exited"
    <2>1. fate' = [fate EXCEPT ![m] = "unheard"] /\ bus' = bus
      BY <1>5 DEF Send
    <2>2. /\ fate' \in [Message -> Fate] /\ Pending' = Pending \ {m}
          /\ \A n \in Message : n # m => fate'[n] = fate[n]
      BY <2>1, FateStep DEF Fate
    <2>3. QueuesTyped' /\ Once'
      BY <1>1, <2>1, <2>2 DEF QueuesTyped, Once
    <2>4. Placed'
      BY <1>1, <1>3, <2>1, <2>2 DEF Placed
    <2>5. ListKept'
      BY <1>1, <1>3, <2>1, <2>2 DEF ListKept, Listed
    <2> QED
      BY <1>2, <2>3, <2>4, <2>5
  <1>6. CASE pc # "exited"
    <2>1. fate' = [fate EXCEPT ![m] = "pending"] /\ bus' = Append(bus, m)
      BY <1>6 DEF Send
    <2>2. /\ fate' \in [Message -> Fate] /\ Pending' = Pending \cup {m}
          /\ \A n \in Message : n # m => fate'[n] = fate[n]
      BY <2>1, FateStep DEF Fate
    <2>3. bus' \in Seq(Message) /\ Range(bus') = Range(bus) \cup {m} /\ IsInjective(bus')
      BY <1>4, <2>1, AppendQueue DEF QueuesTyped, Once
    <2>4. QueuesTyped' /\ Once'
      BY <1>1, <2>2, <2>3 DEF QueuesTyped, Once
    <2>5. Placed'
      BY <1>1, <1>3, <2>2, <2>3 DEF Placed, Partition
    <2>6. ListKept'
      BY <1>1, <1>3, <2>2, <2>3 DEF ListKept, Listed
    <2> QED
      BY <1>2, <2>4, <2>5, <2>6
  <1> QED
    BY <1>5, <1>6

\* withdraw_queued and send_queued_now act on the list alone.
LEMMA ListStep ==
  ASSUME PlaceInv, NEW m \in Message, Withdraw(m) \/ SendNow(m)
  PROVE  PlaceInv'
  <1> USE DEF PlaceInv, queueVars, turnVars
  <1>1. /\ bus' = bus /\ deferred' = deferred /\ intr' = intr /\ held' = held
        /\ leftovers' = leftovers /\ fate' = fate /\ pc' = pc
        /\ entry[m] \in {"queued", "send_now"}
    BY DEF Withdraw, SendNow
  <1>2. \/ /\ entry' = [entry EXCEPT ![m] = "withdrawn"]
           /\ told' = told \cup {m} /\ asked' = asked
        \/ /\ entry' = [entry EXCEPT ![m] = "send_now"]
           /\ asked' = asked \cup {m} /\ told' = told
    BY DEF Withdraw, SendNow
  <1>3. /\ entry' \in [Message -> Waiting] /\ entry'[m] \in {"withdrawn", "send_now"}
        /\ told' # told => entry'[m] = "withdrawn"
        /\ \A n \in Message : n # m => entry'[n] = entry[n]
    <2>1. CASE entry' = [entry EXCEPT ![m] = "withdrawn"]
      BY <2>1, EntryStep DEF Waiting
    <2>2. CASE entry' = [entry EXCEPT ![m] = "send_now"] /\ told' = told
      BY <2>2, EntryStep DEF Waiting
    <2> QED
      BY <1>2, <2>1, <2>2
  <1>4. QueuesTyped' /\ Once' /\ LeftoversTaken'
    BY <1>1, <1>3 DEF QueuesTyped, Once, LeftoversTaken
  <1>5. Placed'
    BY <1>1 DEF Placed, Pending
  <1>6. ListKept'
    <2>1. fate[m] \in {"pending", "noted"} /\ m \notin Range(bus)
      BY <1>1 DEF ListKept, Listed
    <2>2. m \in told => fate[m] = "noted"
      BY <1>1, <2>1 DEF ListKept, Listed
    <2>3. m \in told' => fate[m] = "noted" \/ (fate[m] = "pending" /\ entry'[m] = "withdrawn")
      BY <1>2, <1>3, <2>1, <2>2
    <2>4. m \in asked' => \/ fate[m] = "noted"
                          \/ fate[m] = "pending" /\ entry'[m] \in {"send_now", "withdrawn"}
      BY <1>3, <2>1
    <2>5. Listed(m)'
      BY <1>1, <2>1, <2>3, <2>4 DEF Listed
    <2>6. \A n \in Message : n # m => Listed(n)'
      BY <1>1, <1>2, <1>3 DEF ListKept, Listed
    <2>7. (told \cup asked \subseteq Message)'
      BY <1>2 DEF ListKept
    <2> QED
      BY <2>5, <2>6, <2>7 DEF ListKept
  <1> QED
    BY <1>4, <1>5, <1>6

LEMMA PeopleStep == PlaceInv /\ People => PlaceInv'
  <1> SUFFICES ASSUME PlaceInv, People PROVE PlaceInv'
    OBVIOUS
  <1> USE DEF turnVars, placeVars
  <1>1. ASSUME NEW m \in Message, SendNowStop(m) PROVE PlaceInv'
    BY <1>1, QuietStep DEF SendNowStop
  <1>2. ASSUME NEW m \in Message, RetryTurn(m) PROVE PlaceInv'
    BY <1>2, QuietStep DEF RetryTurn
  <1>3. ASSUME NEW t \in Mine \cup {NoTurn}, UserStop(t) PROVE PlaceInv'
    BY <1>3, QuietStep DEF UserStop
  <1>4. CASE AgentStop
    BY <1>4, QuietStep DEF AgentStop
  <1> QED
    BY <1>1, <1>2, <1>3, <1>4, SendStep, ListStep DEF People

-----------------------------------------------------------------------------
(* Between turns.                                                          *)

\* Message m leaves the queues: a turn begins with it or reads it, or it is routed
\* or dropped; the list forgets it.
LEMMA GoneIsListed ==
  ASSUME PlaceInv, NEW m \in Message, fate[m] = "pending",
         NEW f \in {"started", "folded", "routed", "dropped"},
         fate' = [fate EXCEPT ![m] = f],
         entry' = [entry EXCEPT ![m] = "none"] \/ (entry' = entry /\ entry[m] = "none"),
         entry[m] = "withdrawn" => f = "dropped",
         entry[m] = "send_now" => f \in {"started", "dropped"},
         told' = told, asked' = asked, Range(bus') \subseteq Range(bus)
  PROVE  /\ fate' \in [Message -> Fate] /\ entry' \in [Message -> Waiting]
         /\ Pending' = Pending \ {m}
         /\ ListKept'
  <1> USE DEF PlaceInv
  <1>1. /\ fate' \in [Message -> Fate] /\ fate'[m] = f /\ Pending' = Pending \ {m}
        /\ \A n \in Message : n # m => fate'[n] = fate[n]
    BY FateStep DEF Fate
  <1>2. /\ entry' \in [Message -> Waiting] /\ entry'[m] = "none"
        /\ \A n \in Message : n # m => entry'[n] = entry[n]
    <2>1. CASE entry' = [entry EXCEPT ![m] = "none"]
      BY <2>1, EntryStep DEF Waiting
    <2> QED
      BY <2>1 DEF QueuesTyped
  <1>3. Listed(m)'
    <2>1. /\ m \in told => f = "dropped"
          /\ m \in asked => f \in {"started", "dropped"}
      BY DEF ListKept, Listed
    <2>2. m \in told' => fate'[m] \in {"dropped", "noted"}
      BY <1>1, <2>1
    <2>3. m \in asked' => fate'[m] \in {"started", "dropped", "noted"}
      BY <1>1, <2>1
    <2>4. entry'[m] = "none"
      BY <1>2
    <2> QED
      BY <2>2, <2>3, <2>4 DEF Listed
  <1>4. \A n \in Message : n # m => Listed(n)'
    BY <1>1, <1>2 DEF ListKept, Listed
  <1> QED
    BY <1>1, <1>2, <1>3, <1>4 DEF ListKept

LEMMA TakeDeferredStep == PlaceInv /\ TakeDeferred => PlaceInv'
  <1> SUFFICES ASSUME PlaceInv, TakeDeferred PROVE PlaceInv'
    OBVIOUS
  <1> USE DEF PlaceInv
  <1> DEFINE k == NextDeferred
             m == deferred[k]
  <1>1. k \in DOMAIN deferred
    BY NextDeferredIsThere DEF TakeDeferred, QueuesTyped
  <1>2. /\ bus' = bus /\ intr' = intr /\ held' = held /\ leftovers' = leftovers
        /\ told' = told /\ asked' = asked /\ pc = "idle"
        /\ deferred' = RemoveAt(deferred, k) /\ entry' = [entry EXCEPT ![m] = "none"]
    BY DEF TakeDeferred
  <1>3. PICK f \in {"started", "dropped"} : /\ fate' = [fate EXCEPT ![m] = f]
                                            /\ entry[m] = "withdrawn" => f = "dropped"
    BY DEF TakeDeferred
  <1> HIDE DEF k
  <1>4. /\ deferred' \in Seq(Mine) /\ Range(deferred') = Range(deferred) \ {m}
        /\ IsInjective(deferred') /\ m \in Mine /\ m \in Range(deferred)
    BY <1>1, <1>2, RemoveQueue DEF QueuesTyped, Once
  <1> HIDE DEF m
  <1>5. m \in Message /\ fate[m] = "pending"
    BY <1>4 DEF Mine, Message, Placed, Partition, Pending
  <1>6. /\ fate' \in [Message -> Fate] /\ entry' \in [Message -> Waiting]
        /\ Pending' = Pending \ {m} /\ ListKept'
    BY <1>2, <1>3, <1>5, GoneIsListed
  <1>7. QueuesTyped' /\ Once' /\ LeftoversTaken'
    BY <1>2, <1>4, <1>6 DEF QueuesTyped, Once, LeftoversTaken
  <1>8. Placed'
    BY <1>2, <1>4, <1>6 DEF Placed, Partition
  <1> QED
    BY <1>6, <1>7, <1>8

LEMMA TakeInboundStep == PlaceInv /\ TakeInbound => PlaceInv'
  <1> SUFFICES ASSUME PlaceInv, TakeInbound PROVE PlaceInv'
    OBVIOUS
  <1> USE DEF PlaceInv
  <1> DEFINE m == Head(bus)
  <1>1. /\ deferred' = deferred /\ intr' = intr /\ held' = held /\ leftovers' = leftovers
        /\ entry' = entry /\ told' = told /\ asked' = asked /\ pc = "idle"
        /\ bus # <<>> /\ bus' = Tail(bus)
    BY DEF TakeInbound, waitVars, Idle
  <1>2. PICK f \in {"started", "routed"} : fate' = [fate EXCEPT ![m] = f]
    BY DEF TakeInbound
  <1>3. /\ bus' \in Seq(Message) /\ Range(bus') = Range(bus) \ {m}
        /\ IsInjective(bus') /\ m \in Message /\ m \in Range(bus)
    BY <1>1, TailQueue DEF QueuesTyped, Once
  <1> HIDE DEF m
  <1>4. fate[m] = "pending" /\ entry[m] = "none"
    BY <1>3 DEF Placed, Partition, Pending, ListKept, Listed
  <1>5. /\ fate' \in [Message -> Fate] /\ entry' \in [Message -> Waiting]
        /\ Pending' = Pending \ {m} /\ ListKept'
    BY <1>1, <1>2, <1>3, <1>4, GoneIsListed
  <1>6. QueuesTyped' /\ Once' /\ LeftoversTaken'
    BY <1>1, <1>3, <1>5 DEF QueuesTyped, Once, LeftoversTaken
  <1>7. Placed'
    BY <1>1, <1>3, <1>5 DEF Placed, Partition
  <1> QED
    BY <1>5, <1>6, <1>7
LEMMA BetweenTurnsStep == PlaceInv /\ BetweenTurns => PlaceInv'
  <1> SUFFICES ASSUME PlaceInv, BetweenTurns PROVE PlaceInv'
    OBVIOUS
  <1> USE DEF turnVars, placeVars, Idle
  <1>1. CASE IdleStop
    BY <1>1, QuietStep DEF IdleStop
  <1>2. CASE IdleRetry
    BY <1>2, QuietStep DEF IdleRetry
  <1>3. CASE RewriteHistory
    BY <1>3, QuietStep DEF RewriteHistory
  <1>4. CASE IdleAgentStop
    BY <1>4, QuietStep DEF IdleAgentStop
  <1> QED
    BY <1>1, <1>2, <1>3, <1>4, TakeDeferredStep, TakeInboundStep DEF BetweenTurns

-----------------------------------------------------------------------------
(* A turn.                                                                 *)

\* Messages move from queue to queue and keep their fate and their entry.
LEMMA MovedIsListed ==
  ASSUME PlaceInv, fate' = fate, entry' = entry, told' = told, asked' = asked,
         Range(bus') \subseteq Range(bus)
  PROVE  Pending' = Pending /\ ListKept'
  BY DEF PlaceInv, Pending, ListKept, Listed

LEMMA MidTurnMessageStep == PlaceInv /\ MidTurnMessage => PlaceInv'
  <1> SUFFICES ASSUME PlaceInv, MidTurnMessage PROVE PlaceInv'
    OBVIOUS
  <1> USE DEF PlaceInv
  <1> DEFINE m == Head(bus)
  <1>1. /\ deferred' = deferred /\ held' = held /\ leftovers' = leftovers
        /\ told' = told /\ asked' = asked /\ pc' = pc
        /\ bus # <<>> /\ bus' = Tail(bus)
    BY DEF MidTurnMessage
  <1>2. \/ /\ m \in Mine /\ fate' = fate /\ intr' = Append(intr, m)
           /\ entry' = IF m \in Person THEN [entry EXCEPT ![m] = "queued"] ELSE entry
        \/ fate' = [fate EXCEPT ![m] = "routed"] /\ entry' = entry /\ intr' = intr
    BY DEF MidTurnMessage
  <1>3. /\ bus' \in Seq(Message) /\ Range(bus') = Range(bus) \ {m}
        /\ IsInjective(bus') /\ m \in Message /\ m \in Range(bus)
    BY <1>1, TailQueue DEF QueuesTyped, Once
  <1> HIDE DEF m
  <1>4. fate[m] = "pending" /\ entry[m] = "none" /\ m \notin Range(intr)
    BY <1>3 DEF Placed, Partition, Pending, ListKept, Listed
  <1>5. LeftoversTaken'
    BY <1>1 DEF LeftoversTaken
  <1>6. CASE /\ m \in Mine /\ fate' = fate /\ intr' = Append(intr, m)
             /\ entry' = IF m \in Person THEN [entry EXCEPT ![m] = "queued"] ELSE entry
    <2>1. intr' \in Seq(Mine) /\ Range(intr') = Range(intr) \cup {m} /\ IsInjective(intr')
      BY <1>4, <1>6, AppendQueue DEF QueuesTyped, Once
    <2>2. /\ entry' \in [Message -> Waiting]
          /\ \A n \in Message : n # m => entry'[n] = entry[n]
      <3>1. CASE entry' = [entry EXCEPT ![m] = "queued"]
        BY <1>3, <3>1, EntryStep DEF Waiting
      <3> QED
        BY <1>6, <3>1 DEF QueuesTyped
    <2>3. Pending' = Pending
      BY <1>6 DEF Pending
    <2>4. QueuesTyped' /\ Once'
      BY <1>1, <1>3, <1>6, <2>1, <2>2 DEF QueuesTyped, Once
    <2>5. Placed'
      BY <1>1, <1>3, <2>1, <2>3 DEF Placed, Partition
    <2>6. \A n \in Message : n = m => Listed(n)'
      BY <1>1, <1>3, <1>4, <1>6 DEF ListKept, Listed
    <2>7. \A n \in Message : n # m => Listed(n)'
      BY <1>1, <1>3, <1>6, <2>2 DEF ListKept, Listed
    <2>8. ListKept'
      BY <1>1, <2>6, <2>7 DEF ListKept
    <2> QED
      BY <1>5, <2>4, <2>5, <2>8
  <1>7. CASE fate' = [fate EXCEPT ![m] = "routed"] /\ entry' = entry /\ intr' = intr
    <2>1. /\ fate' \in [Message -> Fate] /\ entry' \in [Message -> Waiting]
          /\ Pending' = Pending \ {m} /\ ListKept'
      BY <1>1, <1>3, <1>4, <1>7, GoneIsListed
    <2>2. QueuesTyped' /\ Once'
      BY <1>1, <1>3, <1>7, <2>1 DEF QueuesTyped, Once
    <2>3. Placed'
      BY <1>1, <1>3, <1>7, <2>1 DEF Placed, Partition
    <2> QED
      BY <1>5, <2>1, <2>2, <2>3
  <1> QED
    BY <1>2, <1>6, <1>7

LEMMA TakeInterruptStep == PlaceInv /\ TakeInterrupt => PlaceInv'
  <1> SUFFICES ASSUME PlaceInv, TakeInterrupt PROVE PlaceInv'
    OBVIOUS
  <1> USE DEF PlaceInv
  <1> DEFINE m == Head(intr)
  <1>1. /\ bus' = bus /\ deferred' = deferred /\ leftovers' = leftovers
        /\ told' = told /\ asked' = asked /\ pc' = pc
        /\ intr # <<>> /\ intr' = Tail(intr)
    BY DEF TakeInterrupt, queueVars
  <1>2. \/ held' = Append(held, m) /\ fate' = fate /\ entry' = entry
        \/ /\ fate' = [fate EXCEPT ![m] = IF entry[m] = "withdrawn" THEN "dropped" ELSE "folded"]
           /\ entry' = [entry EXCEPT ![m] = "none"] /\ held' = held
           /\ entry[m] # "send_now"
    BY DEF TakeInterrupt
  <1>3. /\ intr' \in Seq(Mine) /\ Range(intr') = Range(intr) \ {m}
        /\ IsInjective(intr') /\ m \in Mine /\ m \in Range(intr)
    BY <1>1, TailQueue DEF QueuesTyped, Once
  <1> HIDE DEF m
  <1>4. m \in Message /\ fate[m] = "pending" /\ m \notin Range(held)
    BY <1>3 DEF Mine, Message, Placed, Partition, Pending
  <1>5. LeftoversTaken'
    BY <1>1 DEF LeftoversTaken
  <1>6. CASE held' = Append(held, m) /\ fate' = fate /\ entry' = entry
    <2>1. held' \in Seq(Mine) /\ Range(held') = Range(held) \cup {m} /\ IsInjective(held')
      BY <1>3, <1>4, <1>6, AppendQueue DEF QueuesTyped, Once
    <2>2. Pending' = Pending /\ ListKept'
      BY <1>1, <1>6, MovedIsListed
    <2>3. QueuesTyped' /\ Once'
      BY <1>1, <1>3, <1>6, <2>1 DEF QueuesTyped, Once
    <2>4. Placed'
      BY <1>1, <1>3, <2>1, <2>2 DEF Placed, Partition
    <2> QED
      BY <1>5, <2>2, <2>3, <2>4
  <1>7. CASE /\ fate' = [fate EXCEPT ![m] = IF entry[m] = "withdrawn" THEN "dropped" ELSE "folded"]
             /\ entry' = [entry EXCEPT ![m] = "none"] /\ held' = held
             /\ entry[m] # "send_now"
    <2>1. PICK f \in {"folded", "dropped"} : /\ fate' = [fate EXCEPT ![m] = f]
                                             /\ entry[m] = "withdrawn" => f = "dropped"
      BY <1>7
    <2>2. /\ fate' \in [Message -> Fate] /\ entry' \in [Message -> Waiting]
          /\ Pending' = Pending \ {m} /\ ListKept'
      BY <1>1, <1>4, <1>7, <2>1, GoneIsListed
    <2>3. QueuesTyped' /\ Once'
      BY <1>1, <1>3, <1>7, <2>2 DEF QueuesTyped, Once
    <2>4. Placed'
      BY <1>1, <1>3, <1>7, <2>2 DEF Placed, Partition
    <2> QED
      BY <1>5, <2>2, <2>3, <2>4
  <1> QED
    BY <1>2, <1>6, <1>7

LEMMA FinishStep ==
  ASSUME PlaceInv, NEW ok \in BOOLEAN, Finish(ok), pc \in {"checkpoint", "model"}
  PROVE  PlaceInv'
  <1> USE DEF PlaceInv, waitVars, queueVars
  <1>1. /\ bus' = bus /\ deferred' = deferred /\ intr' = intr /\ leftovers' = held /\ held' = <<>>
        /\ fate' = fate /\ entry' = entry /\ told' = told /\ asked' = asked /\ pc' = "leaving"
    BY DEF Finish
  <1>2. leftovers = <<>> /\ LeftoversTaken'
    BY <1>1 DEF LeftoversTaken
  <1>3. QueuesTyped' /\ Once'
    BY <1>1, EmptyQueue DEF QueuesTyped, Once
  <1>4. Pending' = Pending /\ ListKept'
    BY <1>1, MovedIsListed
  <1>5. Placed'
    BY <1>1, <1>2, <1>4, EmptyQueue DEF Placed, Partition
  <1> QED
    BY <1>2, <1>3, <1>4, <1>5

LEMMA IntoLeftoversStep == PlaceInv /\ IntoLeftovers => PlaceInv'
  <1> SUFFICES ASSUME PlaceInv, IntoLeftovers PROVE PlaceInv'
    OBVIOUS
  <1> USE DEF PlaceInv
  <1> DEFINE m == Head(intr)
  <1>1. /\ bus' = bus /\ deferred' = deferred /\ held' = held
        /\ told' = told /\ asked' = asked /\ pc' = "leaving"
        /\ intr # <<>> /\ intr' = Tail(intr)
    BY DEF IntoLeftovers, queueVars
  <1>2. \/ leftovers' = Append(leftovers, m) /\ fate' = fate /\ entry' = entry
        \/ /\ fate' = [fate EXCEPT ![m] = "dropped"] /\ entry' = [entry EXCEPT ![m] = "none"]
           /\ leftovers' = leftovers
    BY DEF IntoLeftovers
  <1>3. /\ intr' \in Seq(Mine) /\ Range(intr') = Range(intr) \ {m}
        /\ IsInjective(intr') /\ m \in Mine /\ m \in Range(intr)
    BY <1>1, TailQueue DEF QueuesTyped, Once
  <1> HIDE DEF m
  <1>4. m \in Message /\ fate[m] = "pending" /\ m \notin Range(leftovers)
    BY <1>3 DEF Mine, Message, Placed, Partition, Pending
  <1>5. LeftoversTaken'
    BY <1>1 DEF LeftoversTaken
  <1>6. CASE leftovers' = Append(leftovers, m) /\ fate' = fate /\ entry' = entry
    <2>1. /\ leftovers' \in Seq(Mine) /\ Range(leftovers') = Range(leftovers) \cup {m}
          /\ IsInjective(leftovers')
      BY <1>3, <1>4, <1>6, AppendQueue DEF QueuesTyped, Once
    <2>2. Pending' = Pending /\ ListKept'
      BY <1>1, <1>6, MovedIsListed
    <2>3. QueuesTyped' /\ Once'
      BY <1>1, <1>3, <1>6, <2>1 DEF QueuesTyped, Once
    <2>4. Placed'
      BY <1>1, <1>3, <2>1, <2>2 DEF Placed, Partition
    <2> QED
      BY <1>5, <2>2, <2>3, <2>4
  <1>7. CASE /\ fate' = [fate EXCEPT ![m] = "dropped"] /\ entry' = [entry EXCEPT ![m] = "none"]
             /\ leftovers' = leftovers
    <2>1. /\ fate' \in [Message -> Fate] /\ entry' \in [Message -> Waiting]
          /\ Pending' = Pending \ {m} /\ ListKept'
      BY <1>1, <1>4, <1>7, GoneIsListed
    <2>2. QueuesTyped' /\ Once'
      BY <1>1, <1>3, <1>7, <2>1 DEF QueuesTyped, Once
    <2>3. Placed'
      BY <1>1, <1>3, <1>7, <2>1 DEF Placed, Partition
    <2> QED
      BY <1>5, <2>1, <2>2, <2>3
  <1> QED
    BY <1>2, <1>6, <1>7
LEMMA TurnStep == PlaceInv /\ Turn => PlaceInv'
  <1> SUFFICES ASSUME PlaceInv, Turn PROVE PlaceInv'
    OBVIOUS
  <1> USE DEF turnVars, placeVars
  <1>1. CASE Opened
    BY <1>1, QuietStep DEF Opened
  <1>2. CASE Begin
    BY <1>2, QuietStep DEF Begin
  <1>3. CASE CheckStop
    <2>1. CASE Finish(TRUE)
      BY <1>3, <2>1, FinishStep DEF CheckStop
    <2>2. CASE pc' = "model" /\ UNCHANGED placeVars
      BY <1>3, <2>2, QuietStep DEF CheckStop
    <2> QED
      BY <1>3, <2>1, <2>2 DEF CheckStop
  <1>4. CASE NextCall
    BY <1>4, QuietStep DEF NextCall
  <1>5. ASSUME NEW ok \in BOOLEAN, EndTurn(ok) PROVE PlaceInv'
    BY <1>5, FinishStep DEF EndTurn
  <1>6. CASE Left
    BY <1>6, QuietStep DEF Left
  <1> QED
    BY <1>1, <1>2, <1>3, <1>4, <1>5, <1>6, TakeInterruptStep, IntoLeftoversStep DEF Turn

LEMMA ChannelsStep == PlaceInv /\ Channels => PlaceInv'
  <1> SUFFICES ASSUME PlaceInv, Channels PROVE PlaceInv'
    OBVIOUS
  <1> USE DEF turnVars, placeVars
  <1>1. CASE MidTurnStop
    BY <1>1, QuietStep DEF MidTurnStop
  <1>2. CASE MidTurnRetry
    BY <1>2, QuietStep DEF MidTurnRetry
  <1>3. CASE MidTurnAgentStop
    BY <1>3, QuietStep DEF MidTurnAgentStop
  <1> QED
    BY <1>1, <1>2, <1>3, MidTurnMessageStep DEF Channels

LEMMA DeferLateStep == PlaceInv /\ DeferLate => PlaceInv'
  <1> SUFFICES ASSUME PlaceInv, DeferLate PROVE PlaceInv'
    OBVIOUS
  <1> USE DEF PlaceInv, waitVars
  <1>1. /\ bus' = bus /\ intr' = intr /\ held' = held /\ leftovers' = <<>>
        /\ entry' = entry /\ told' = told /\ asked' = asked
    BY DEF DeferLate
  <1>2. LeftoversTaken'
    BY <1>1 DEF LeftoversTaken
  <1>3. CASE stopReq
    <2>1. /\ deferred' = deferred
          /\ fate' = [m \in Message |-> IF m \in Range(leftovers) THEN "noted" ELSE fate[m]]
      BY <1>3 DEF DeferLate
    <2>2. fate' \in [Message -> Fate] /\ Pending' = Pending \ Range(leftovers)
      BY <2>1 DEF QueuesTyped, Fate, Pending
    <2>3. QueuesTyped' /\ Once'
      BY <1>1, <2>1, <2>2, EmptyQueue DEF QueuesTyped, Once
    <2>4. Placed'
      BY <1>1, <2>1, <2>2, EmptyQueue DEF Placed, Partition
    <2>5. ListKept'
      BY <1>1, <2>1 DEF ListKept, Listed
    <2> QED
      BY <1>2, <2>3, <2>4, <2>5
  <1>4. CASE ~ stopReq
    <2>1. deferred' = deferred \o leftovers /\ fate' = fate
      BY <1>4 DEF DeferLate
    <2>2. /\ deferred' \in Seq(Mine) /\ Range(deferred') = Range(deferred) \cup Range(leftovers)
          /\ IsInjective(deferred')
      <3>1. Range(deferred) \cap Range(leftovers) = {}
        BY DEF Placed, Partition
      <3> QED
        BY <2>1, <3>1, ConcatQueue DEF QueuesTyped, Once
    <2>3. Pending' = Pending /\ ListKept'
      BY <1>1, <2>1, MovedIsListed
    <2>4. QueuesTyped' /\ Once'
      BY <1>1, <2>1, <2>2, EmptyQueue DEF QueuesTyped, Once
    <2>5. Placed'
      BY <1>1, <2>2, <2>3, EmptyQueue DEF Placed, Partition
    <2> QED
      BY <1>2, <2>3, <2>4, <2>5
  <1> QED
    BY <1>3, <1>4

LEMMA ShutdownStep == PlaceInv /\ Shutdown => PlaceInv'
  <1> SUFFICES ASSUME PlaceInv, Shutdown PROVE PlaceInv'
    OBVIOUS
  <1> USE DEF PlaceInv, turnVars
  <1> DEFINE gone == Range(deferred) \cup Range(bus)
  <1>1. /\ bus' = <<>> /\ deferred' = <<>> /\ intr' = intr /\ held' = held
        /\ leftovers' = leftovers /\ told' = told /\ asked' = asked /\ pc = "stopping"
        /\ entry' = [m \in Message |-> IF m \in Range(deferred) THEN "none" ELSE entry[m]]
    BY DEF Shutdown
  <1>2. fate' = [m \in Message |-> IF m \in gone
                                   THEN IF m \in Range(deferred) /\ entry[m] = "withdrawn"
                                        THEN "dropped" ELSE "noted"
                                   ELSE fate[m]]
    BY DEF Shutdown
  <1>3. \A m \in Message : /\ m \in gone => fate'[m] \in {"dropped", "noted"}
                           /\ m \notin gone => fate'[m] = fate[m]
    BY <1>2
  <1>4. fate' \in [Message -> Fate] /\ entry' \in [Message -> Waiting]
    BY <1>1, <1>2 DEF QueuesTyped, Fate, Waiting
  <1>5. Pending' = Pending \ gone
    BY <1>3 DEF Pending
  <1>6. QueuesTyped' /\ Once' /\ LeftoversTaken'
    BY <1>1, <1>4, EmptyQueue DEF QueuesTyped, Once, LeftoversTaken
  <1>7. Placed'
    BY <1>1, <1>5, EmptyQueue DEF Placed, Partition
  <1>8. ListKept'
    <2> SUFFICES ASSUME NEW m \in Message PROVE Listed(m)'
      BY <1>1 DEF ListKept
    <2>1. CASE m \in gone
      <3>1. entry'[m] = "none"
        BY <1>1, <2>1 DEF ListKept, Listed
      <3> QED
        BY <1>3, <2>1, <3>1 DEF Listed
    <2>2. CASE m \notin gone
      <3>1. entry'[m] = entry[m] /\ fate'[m] = fate[m] /\ m \notin Range(bus')
        BY <1>1, <1>3, <2>2, EmptyQueue
      <3> QED
        BY <1>1, <3>1 DEF ListKept, Listed
    <2> QED
      BY <2>1, <2>2
  <1> QED
    BY <1>6, <1>7, <1>8

-----------------------------------------------------------------------------

LEMMA PlaceInvStep == PlaceInv /\ [Next]_vars => PlaceInv'
  <1>1. PlaceInv /\ UNCHANGED vars => PlaceInv'
    BY QuietStep DEF vars, turnVars, placeVars
  <1> QED
    BY <1>1, PeopleStep, BetweenTurnsStep, ChannelsStep, TurnStep, DeferLateStep, ShutdownStep
       DEF Next

LEMMA PlaceInvHolds == Spec => []PlaceInv
  BY PlaceInvInit, PlaceInvStep, PTL DEF Spec

\* InOnePlace for every instance: in every state of the event loop the five queues hold
\* each message that was sent and is not settled exactly once, and no other.
THEOREM MessagesAreInOnePlace == Spec => []InOnePlace
  <1>1. PlaceInv => InOnePlace
    <2> SUFFICES ASSUME PlaceInv PROVE InOnePlace
      OBVIOUS
    <2> USE DEF PlaceInv
    <2> DEFINE two == bus \o intr
               three == two \o held
               four == three \o leftovers
               all == four \o deferred
    <2>1. /\ bus \in Seq(Message) /\ intr \in Seq(Message) /\ held \in Seq(Message)
          /\ leftovers \in Seq(Message) /\ deferred \in Seq(Message)
      BY DEF QueuesTyped, Mine, Message
    <2>2. /\ two \in Seq(Message) /\ IsInjective(two)
          /\ Range(two) = Range(bus) \cup Range(intr)
      BY <2>1, ConcatQueue DEF Once, Placed, Partition
    <2> HIDE DEF two
    <2>3. /\ three \in Seq(Message) /\ IsInjective(three)
          /\ Range(three) = Range(two) \cup Range(held)
      <3>1. Range(two) \cap Range(held) = {}
        BY <2>2 DEF Placed, Partition
      <3> QED
        BY <2>1, <2>2, <3>1, ConcatQueue DEF Once
    <2> HIDE DEF three
    <2>4. /\ four \in Seq(Message) /\ IsInjective(four)
          /\ Range(four) = Range(three) \cup Range(leftovers)
      <3>1. Range(three) \cap Range(leftovers) = {}
        BY <2>2, <2>3 DEF Placed, Partition
      <3> QED
        BY <2>1, <2>3, <3>1, ConcatQueue DEF Once
    <2> HIDE DEF four
    <2>5. /\ IsInjective(all)
          /\ Range(all) = Range(four) \cup Range(deferred)
      <3>1. Range(four) \cap Range(deferred) = {}
        BY <2>2, <2>3, <2>4 DEF Placed, Partition
      <3> QED
        BY <2>1, <2>4, <3>1, ConcatQueue DEF Once
    <2> HIDE DEF all
    <2>6. Range(all) = Pending
      BY <2>2, <2>3, <2>4, <2>5 DEF Placed, Partition
    <2> QED
      BY <2>5, <2>6 DEF InOnePlace, Pending, all, four, three, two
  <1> QED
    BY <1>1, PlaceInvHolds, PTL

\* ListIsObeyed for every instance: a confirmed withdrawal or send-now holds wherever the
\* message was and however the owner's clicks interleave with the turn's checkpoints.
THEOREM ListIsAlwaysObeyed == Spec => []ListIsObeyed
  <1>1. PlaceInv => ListIsObeyed
    <2> SUFFICES ASSUME PlaceInv PROVE ListIsObeyed
      OBVIOUS
    <2>1. ASSUME NEW m \in told PROVE fate[m] \notin {"started", "folded"}
      BY <2>1 DEF PlaceInv, ListKept, Listed
    <2>2. ASSUME NEW m \in asked PROVE fate[m] # "folded"
      BY <2>2 DEF PlaceInv, ListKept, Listed
    <2> QED
      BY <2>1, <2>2 DEF ListIsObeyed
  <1> QED
    BY <1>1, PlaceInvHolds, PTL

-----------------------------------------------------------------------------
(* A message's life: a queue holds pending messages only, and a step that  *)
(* settles some settles what it takes from a queue.                        *)

\* Settling one message that a queue holds is a step of a message's life.
LEMMA SettleIsLife ==
  ASSUME PlaceInv, NEW m \in Message, fate[m] = "pending",
         NEW f \in Fate \ {"unsent", "pending"}, fate' = [fate EXCEPT ![m] = f]
  PROVE  Life!Next
  <1>1. [x \in {m} |-> f] \in [{m} -> Fate \ {"unsent", "pending"}]
    OBVIOUS
  <1>2. fate' = [x \in Message |-> IF x \in {m} THEN [y \in {m} |-> f][x] ELSE fate[x]]
    BY DEF PlaceInv, QueuesTyped
  <1>3. Life!Settle({m}) /\ {m} \in SUBSET Message
    BY <1>1, <1>2 DEF Life!Settle
  <1> QED
    BY <1>3 DEF Life!Next

\* So is settling all that some queues hold, each message in its own way.
LEMMA SettleAllIsLife ==
  ASSUME NEW ms \in SUBSET Pending, NEW how \in [ms -> Fate \ {"unsent", "pending"}],
         fate' = [m \in Message |-> IF m \in ms THEN how[m] ELSE fate[m]]
  PROVE  Life!Next
  <1>1. Life!Settle(ms) /\ ms \in SUBSET Message
    BY DEF Life!Settle, Pending
  <1> QED
    BY <1>1 DEF Life!Next

\* What a queue holds is pending.
LEMMA QueuedIsPending ==
  ASSUME PlaceInv
  PROVE  /\ Range(bus) \subseteq Pending /\ Range(intr) \subseteq Pending
         /\ Range(leftovers) \subseteq Pending /\ Range(deferred) \subseteq Pending
         /\ bus # <<>> => Head(bus) \in Pending
         /\ intr # <<>> => Head(intr) \in Pending
         /\ deferred # <<>> => deferred[NextDeferred] \in Pending
  <1>1. /\ Range(bus) \subseteq Pending /\ Range(intr) \subseteq Pending
        /\ Range(leftovers) \subseteq Pending /\ Range(deferred) \subseteq Pending
    BY DEF PlaceInv, Placed, Partition
  <1>2. \A s \in Seq(Message) : s # <<>> => Head(s) \in Range(s)
    BY DEF Range
  <1>3. bus \in Seq(Message) /\ intr \in Seq(Message)
    BY DEF PlaceInv, QueuesTyped, Mine, Message
  <1>4. deferred # <<>> => NextDeferred \in DOMAIN deferred
    BY NextDeferredIsThere DEF PlaceInv, QueuesTyped
  <1>5. deferred # <<>> => deferred[NextDeferred] \in Range(deferred)
    BY <1>4 DEF Range
  <1> QED
    BY <1>1, <1>2, <1>3, <1>5

\* Every step of the event loop, of people and of the hub is a step of each message's
\* life, or changes no fate.
LEMMA LifeStep ==
  ASSUME PlaceInv, [Next]_vars
  PROVE  Life!Next \/ UNCHANGED fate
  <1>1. ASSUME NEW m \in Message, Send(m) PROVE Life!Next
    <2>1. /\ fate[m] = "unsent"
          /\ \/ fate' = [fate EXCEPT ![m] = "pending"]
             \/ fate' = [fate EXCEPT ![m] = "unheard"]
      BY <1>1 DEF Send
    <2> QED
      BY <2>1 DEF Life!Next, Life!Take, Life!TurnAway
  <1>2. CASE TakeDeferred
    <2>1. PICK m \in Pending : \E f \in {"started", "dropped"} : fate' = [fate EXCEPT ![m] = f]
      BY <1>2, QueuedIsPending DEF TakeDeferred
    <2> QED
      BY <2>1, SettleIsLife DEF Pending, Fate
  <1>3. CASE TakeInbound \/ MidTurnMessage
    <2>1. \/ UNCHANGED fate
          \/ \E m \in Pending : \E f \in {"started", "routed"} : fate' = [fate EXCEPT ![m] = f]
      BY <1>3, QueuedIsPending DEF TakeInbound, MidTurnMessage
    <2> QED
      BY <2>1, SettleIsLife DEF Pending, Fate
  <1>4. CASE TakeInterrupt \/ IntoLeftovers
    <2>1. \/ UNCHANGED fate
          \/ \E m \in Pending : \E f \in {"dropped", "folded"} : fate' = [fate EXCEPT ![m] = f]
      BY <1>4, QueuedIsPending DEF TakeInterrupt, IntoLeftovers
    <2> QED
      BY <2>1, SettleIsLife DEF Pending, Fate
  <1>5. CASE DeferLate
    <2> DEFINE ms == Range(leftovers)
               how == [m \in ms |-> "noted"]
    <2>1. \/ UNCHANGED fate
          \/ fate' = [m \in Message |-> IF m \in ms THEN how[m] ELSE fate[m]]
      BY <1>5 DEF DeferLate
    <2>2. ms \in SUBSET Pending /\ how \in [ms -> Fate \ {"unsent", "pending"}]
      BY QueuedIsPending DEF Fate
    <2> HIDE DEF ms, how
    <2> QED
      BY <2>1, <2>2, SettleAllIsLife
  <1>6. CASE Shutdown
    <2> DEFINE ms == Range(deferred) \cup Range(bus)
               how == [m \in ms |-> IF m \in Range(deferred) /\ entry[m] = "withdrawn"
                                    THEN "dropped" ELSE "noted"]
    <2>1. fate' = [m \in Message |-> IF m \in ms THEN how[m] ELSE fate[m]]
      BY <1>6 DEF Shutdown
    <2>2. ms \in SUBSET Pending /\ how \in [ms -> Fate \ {"unsent", "pending"}]
      BY QueuedIsPending DEF Fate
    <2> HIDE DEF ms, how
    <2> QED
      BY <2>1, <2>2, SettleAllIsLife
  <1>7. ASSUME NEW m \in Message, Withdraw(m) \/ SendNow(m) \/ SendNowStop(m) \/ RetryTurn(m)
        PROVE  UNCHANGED fate
    BY <1>7 DEF Withdraw, SendNow, SendNowStop, RetryTurn
  <1>8. ASSUME NEW t \in Mine \cup {NoTurn}, UserStop(t) PROVE UNCHANGED fate
    BY <1>8 DEF UserStop
  <1>9. CASE UNCHANGED vars \/ AgentStop \/ IdleStop \/ IdleRetry \/ RewriteHistory \/ IdleAgentStop
    BY <1>9 DEF vars, AgentStop, IdleStop, IdleRetry, RewriteHistory, IdleAgentStop
  <1>10. CASE \/ MidTurnStop \/ MidTurnRetry \/ MidTurnAgentStop \/ Opened \/ Begin \/ CheckStop
              \/ NextCall \/ Left \/ \E ok \in BOOLEAN : EndTurn(ok)
    BY <1>10 DEF MidTurnStop, MidTurnRetry, MidTurnAgentStop, Opened, Begin, CheckStop, NextCall,
       Left, EndTurn, Finish
  <1> QED
    BY <1>1, <1>2, <1>3, <1>4, <1>5, <1>6, <1>7, <1>8, <1>9, <1>10
       DEF Next, People, BetweenTurns, Channels, Turn

\* A message is taken once, unless the loop has exited, and is then read, routed, dropped
\* or noted once, for good: the event loop implements MessageLife, whatever people, the
\* hub and the turn do meanwhile.
THEOREM MainTurnsImplementMessageLife == Spec => ImplementsMessageLife
  <1>1. Init => Life!Init
    BY DEF Init, Life!Init
  <1>2. PlaceInv /\ [Next]_vars => [Life!Next]_fate
    BY LifeStep
  <1> QED
    BY <1>1, <1>2, PlaceInvHolds, PTL DEF Spec, ImplementsMessageLife, Life!Spec

-----------------------------------------------------------------------------
(* Stop requests.                                                          *)

Stop == [names : Mine \cup {NoTurn}, seen : Nat]

StopsTyped == stops \in Seq(Stop) /\ no \in Nat

\* While a turn polls the stop channel, all that is in it was made while that
\* turn was announced: older requests were drained as it began.
StopsAreFresh == InTurn => \A i \in DOMAIN stops : stops[i].seen = no

StopInv == StopsTyped /\ StopsAreFresh

LEMMA StopInvInit == Init => StopInv
  BY DEF Init, StopInv, StopsTyped, StopsAreFresh, InTurn

\* A step that touches neither the channel nor the turn's number, and starts
\* polling only where it polled.
LEMMA StopsQuiet ==
  ASSUME StopInv, stops' = stops, no' = no, InTurn' => InTurn
  PROVE  StopInv'
  BY DEF StopInv, StopsTyped, StopsAreFresh

\* A step that opens a turn: the channel is not polled before it is drained.
LEMMA StopsAtOpening ==
  ASSUME StopInv, stops' = stops, no' \in Nat, pc' = "opening"
  PROVE  StopInv'
  BY DEF StopInv, StopsTyped, StopsAreFresh, InTurn

\* try_send of a stop request, whatever the event loop is doing.
LEMMA StopRequested ==
  ASSUME StopInv, NEW t \in Mine \cup {NoTurn}, Request(t), no' = no, pc' = pc
  PROVE  StopInv'
  <1> DEFINE s == [names |-> t, seen |-> IF Announced THEN no ELSE 0]
  <1>1. CASE stops' = stops
    BY <1>1, StopsQuiet DEF InTurn
  <1>2. CASE stops' = Append(stops, s)
    <2>1. s \in Stop
      BY DEF StopInv, StopsTyped, Stop
    <2>2. stops \in Seq(Stop) /\ stops' \in Seq(Stop)
      BY <1>2, <2>1 DEF StopInv, StopsTyped
    <2>3. /\ Len(stops') = Len(stops) + 1
          /\ stops'[Len(stops) + 1] = s
          /\ \A i \in 1 .. Len(stops) : stops'[i] = stops[i]
      BY <1>2, <2>1, <2>2
    <2>4. ASSUME InTurn', NEW i \in DOMAIN stops' PROVE stops'[i].seen = no'
      <3>1. InTurn /\ Announced
        BY <2>4 DEF InTurn, Announced
      <3>2. i = Len(stops) + 1 \/ i \in DOMAIN stops
        BY <2>2, <2>3, <2>4
      <3> QED
        BY <2>2, <2>3, <3>1, <3>2 DEF StopInv, StopsAreFresh
    <2> QED
      BY <2>2, <2>4 DEF StopInv, StopsTyped, StopsAreFresh
  <1> QED
    BY <1>1, <1>2 DEF Request

\* A step that takes the first request from the channel.
LEMMA TakeStep ==
  ASSUME StopInv, stops # <<>>, stops' = Tail(stops), no' = no, pc' = pc
  PROVE  StopInv'
  <1>1. /\ stops \in Seq(Stop) /\ stops' \in Seq(Stop)
        /\ Len(stops') = Len(stops) - 1
        /\ \A i \in DOMAIN stops' : i + 1 \in DOMAIN stops /\ stops'[i] = stops[i + 1]
    BY DEF StopInv, StopsTyped
  <1> QED
    BY <1>1 DEF StopInv, StopsTyped, StopsAreFresh, InTurn

LEMMA StopsOfPeople == StopInv /\ People => StopInv'
  <1> SUFFICES ASSUME StopInv, People PROVE StopInv'
    OBVIOUS
  <1> USE DEF turnVars, stopVars
  <1>1. ASSUME NEW m \in Message, Send(m) PROVE StopInv'
    BY <1>1, StopsQuiet DEF Send, InTurn
  <1>2. ASSUME NEW m \in Message, Withdraw(m) PROVE StopInv'
    BY <1>2, StopsQuiet DEF Withdraw, InTurn
  <1>3. ASSUME NEW m \in Message, SendNow(m) PROVE StopInv'
    BY <1>3, StopsQuiet DEF SendNow, InTurn
  <1>4. ASSUME NEW m \in Message, SendNowStop(m) PROVE StopInv'
    BY <1>4, StopRequested DEF SendNowStop
  <1>5. ASSUME NEW m \in Message, RetryTurn(m) PROVE StopInv'
    BY <1>5, StopsQuiet DEF RetryTurn, InTurn
  <1>6. ASSUME NEW t \in Mine \cup {NoTurn}, UserStop(t) PROVE StopInv'
    BY <1>6, StopRequested DEF UserStop
  <1>7. CASE AgentStop
    BY <1>7, StopsQuiet DEF AgentStop, InTurn
  <1> QED
    BY <1>1, <1>2, <1>3, <1>4, <1>5, <1>6, <1>7 DEF People

LEMMA OpenTurnStep ==
  ASSUME StopInv, NEW t, NEW again \in BOOLEAN, OpenTurn(t, again), stops' = stops
  PROVE  StopInv'
  BY StopsAtOpening DEF OpenTurn, StopInv, StopsTyped

LEMMA StopsBetweenTurns == StopInv /\ BetweenTurns => StopInv'
  <1> SUFFICES ASSUME StopInv, BetweenTurns PROVE StopInv'
    OBVIOUS
  <1> USE DEF turnVars, stopVars
  <1>1. CASE TakeDeferred
    <2>1. \/ OpenTurn(deferred[NextDeferred], FALSE) /\ stops' = stops
          \/ stops' = stops /\ no' = no /\ pc' = pc
      BY <1>1 DEF TakeDeferred
    <2> QED
      BY <2>1, OpenTurnStep, StopsQuiet DEF InTurn
  <1>2. CASE TakeInbound
    <2>1. \/ OpenTurn(Head(bus), FALSE) /\ stops' = stops
          \/ stops' = stops /\ no' = no /\ pc' = pc
      BY <1>2 DEF TakeInbound
    <2> QED
      BY <2>1, OpenTurnStep, StopsQuiet DEF InTurn
  <1>3. CASE IdleStop
    BY <1>3, TakeStep DEF IdleStop
  <1>4. CASE IdleRetry
    <2>1. \/ OpenTurn(Head(retries), TRUE) /\ stops' = stops
          \/ stops' = stops /\ no' = no /\ pc' = pc
      BY <1>4 DEF IdleRetry
    <2> QED
      BY <2>1, OpenTurnStep, StopsQuiet DEF InTurn
  <1>5. CASE RewriteHistory
    BY <1>5, StopsQuiet DEF RewriteHistory, InTurn
  <1>6. CASE IdleAgentStop
    BY <1>6, StopsQuiet DEF IdleAgentStop, InTurn
  <1> QED
    BY <1>1, <1>2, <1>3, <1>4, <1>5, <1>6 DEF BetweenTurns

LEMMA StopsOverChannels == StopInv /\ Channels => StopInv'
  <1> SUFFICES ASSUME StopInv, Channels PROVE StopInv'
    OBVIOUS
  <1> USE DEF turnVars, stopVars
  <1>1. CASE MidTurnMessage
    BY <1>1, StopsQuiet DEF MidTurnMessage, InTurn
  <1>2. CASE MidTurnStop
    BY <1>2, TakeStep DEF MidTurnStop
  <1>3. CASE MidTurnRetry
    BY <1>3, StopsQuiet DEF MidTurnRetry, InTurn
  <1>4. CASE MidTurnAgentStop
    BY <1>4, StopsQuiet DEF MidTurnAgentStop, InTurn
  <1> QED
    BY <1>1, <1>2, <1>3, <1>4 DEF Channels

LEMMA StopsAtFinish ==
  ASSUME StopInv, NEW ok \in BOOLEAN, Finish(ok)
  PROVE  StopInv'
  <1>1. stops' = stops /\ no' = no /\ pc' = "leaving"
    BY DEF Finish, stopVars
  <1> QED
    BY <1>1, StopsQuiet DEF InTurn

LEMMA StopsInTurn == StopInv /\ Turn => StopInv'
  <1> SUFFICES ASSUME StopInv, Turn PROVE StopInv'
    OBVIOUS
  <1> USE DEF turnVars, stopVars
  <1>1. CASE Opened
    <2>1. stops' = <<>> /\ no' = no
      BY <1>1 DEF Opened
    <2> QED
      BY <2>1 DEF StopInv, StopsTyped, StopsAreFresh
  <1>2. CASE Begin
    BY <1>2, StopsQuiet DEF Begin, InTurn
  <1>3. CASE TakeInterrupt
    BY <1>3, StopsQuiet DEF TakeInterrupt, InTurn
  <1>4. CASE CheckStop
    <2>1. \/ Finish(TRUE)
          \/ stops' = stops /\ no' = no /\ InTurn
      BY <1>4 DEF CheckStop, InTurn
    <2> QED
      BY <2>1, StopsAtFinish, StopsQuiet
  <1>5. CASE NextCall
    BY <1>5, StopsQuiet DEF NextCall, InTurn
  <1>6. ASSUME NEW ok \in BOOLEAN, EndTurn(ok) PROVE StopInv'
    BY <1>6, StopsAtFinish DEF EndTurn
  <1>7. CASE IntoLeftovers
    BY <1>7, StopsQuiet DEF IntoLeftovers, InTurn
  <1>8. CASE Left
    BY <1>8, StopsQuiet DEF Left, InTurn
  <1> QED
    BY <1>1, <1>2, <1>3, <1>4, <1>5, <1>6, <1>7, <1>8 DEF Turn

LEMMA StopInvStep == StopInv /\ [Next]_vars => StopInv'
  <1> SUFFICES ASSUME StopInv, [Next]_vars PROVE StopInv'
    OBVIOUS
  <1>1. CASE DeferLate
    <2>1. stops' = stops /\ no' = no /\ pc' \in {"stopping", "idle"}
      BY <1>1 DEF DeferLate, stopVars
    <2> QED
      BY <2>1, StopsQuiet DEF InTurn
  <1>2. CASE Shutdown
    <2>1. stops' = stops /\ no' = no /\ pc' = "exited"
      BY <1>2 DEF Shutdown, stopVars, turnVars
    <2> QED
      BY <2>1, StopsQuiet DEF InTurn
  <1>3. CASE UNCHANGED vars
    BY <1>3, StopsQuiet DEF vars, stopVars, turnVars, InTurn
  <1> QED
    BY <1>1, <1>2, <1>3, StopsOfPeople, StopsBetweenTurns, StopsOverChannels, StopsInTurn
       DEF Next

\* The only steps that cancel a turn are a stop request's and the hub's, and the
\* hub's leaves the channel alone.
LEMMA StopCancels ==
  ASSUME StopInv, [Next]_vars, cancelled', ~cancelled, Len(stops') < Len(stops)
  PROVE  MidTurnStop
  <1> USE DEF turnVars, stopVars
  <1>0. Len(stops) \in Nat
    BY DEF StopInv, StopsTyped
  <1>1. stops' # stops
    BY <1>0
  <1>2. ASSUME People PROVE FALSE
    BY <1>2 DEF People, Send, Withdraw, SendNow, SendNowStop, RetryTurn, UserStop, AgentStop
  <1>3. ASSUME BetweenTurns PROVE FALSE
    BY <1>3 DEF BetweenTurns, TakeDeferred, TakeInbound, IdleStop, IdleRetry,
                RewriteHistory, IdleAgentStop
  <1>4. ASSUME Turn PROVE FALSE
    <2>1. ASSUME NEW ok \in BOOLEAN, Finish(ok) PROVE FALSE
      BY <2>1 DEF Finish
    <2> QED
      BY <1>1, <1>4, <2>1 DEF Turn, Opened, Begin, TakeInterrupt, CheckStop, NextCall,
                                   EndTurn, IntoLeftovers, Left
  <1>5. ASSUME Channels PROVE MidTurnStop
    BY <1>1, <1>5 DEF Channels, MidTurnMessage, MidTurnRetry, MidTurnAgentStop
  <1>6. ASSUME DeferLate \/ Shutdown PROVE FALSE
    BY <1>6 DEF DeferLate, Shutdown
  <1> QED
    BY <1>1, <1>2, <1>3, <1>4, <1>5, <1>6 DEF Next, vars

\* StopHitsItsTurn for every instance: handle_mid_turn_stop_request never cancels a turn
\* for a request made before the turn was announced, though the request may name none.
THEOREM StopsHitTheirTurn == Spec => StopHitsItsTurn
  <1> DEFINE Hits == (cancelled' /\ ~cancelled /\ Len(stops') < Len(stops))
                        => Head(stops).seen = no
  <1>1. StopInv /\ [Next]_vars => [Hits]_vars
    <2> SUFFICES ASSUME StopInv, [Next]_vars,
                        cancelled', ~cancelled, Len(stops') < Len(stops)
                 PROVE  Head(stops).seen = no
      OBVIOUS
    <2>1. InTurn /\ stops # <<>>
      BY StopCancels DEF MidTurnStop
    <2>2. stops \in Seq(Stop) /\ 1 \in DOMAIN stops /\ Head(stops) = stops[1]
      BY <2>1 DEF StopInv, StopsTyped
    <2> QED
      BY <2>1, <2>2 DEF StopInv, StopsAreFresh
  <1> QED
    BY <1>1, StopInvInit, StopInvStep, PTL DEF Spec, StopHitsItsTurn
=============================================================================
