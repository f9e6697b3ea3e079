-------------------------- MODULE PollTimersProofs --------------------------
(***************************************************************************)
(* Proofs about PollTimers, for any number of timers and tasklets.         *)
(***************************************************************************)
EXTENDS PollTimers, CircleLemmas, WellFoundedInduction, TLAPS

(* The invariant of the list: what OneCircle says, and what the thread     *)
(* keeps of it while it holds the mutex.                                   *)
Linked ==
    /\ Armed = Awaited
    /\ Circle(Armed, next, prev, timers, NoTimer)
    /\ pc = "dispatch" => cursor \in Armed

ClockOK == dispatchNow <= now

WakesOK == sawWake => Backend = "poll" /\ wakes > 0

IInv == TypeOK /\ Linked /\ ClockOK /\ WakesOK

LEMMA LinkedIsOneCircle == Linked => OneCircle
BY DEF Linked, Circle, OneCircle

LEMMA ArmedTimers ==
    ASSUME TypeOK
    PROVE  Armed \in SUBSET Timer /\ \A t \in Armed : next[t] \in Timer
BY DEF TypeOK, Armed, IsSet

LEMMA InitIInv == Init => IInv
<1> SUFFICES ASSUME Init PROVE IInv
  OBVIOUS
<1>1. TypeOK
  BY ConstantsAssumption DEF Init, TypeOK, Forever
<1>2. Armed = {} /\ Awaited = {} /\ timers = NoTimer /\ pc = "top"
  BY DEF Init, Armed, Awaited
<1>3. Circle({}, next, prev, NoTimer, NoTimer)
  BY DEF Circle
<1>4. ClockOK /\ WakesOK
  BY DEF Init, ClockOK, WakesOK
<1> QED
  BY <1>1, <1>2, <1>3, <1>4 DEF IInv, Linked

(* Taking a timer that is live off the list. *)
Unlinks(t) ==
    /\ next' = [NextWithout(t) EXCEPT ![t] = NoTimer]
    /\ prev' = PrevWithout(t)
    /\ timers' = HeadWithout(t)

LEMMA UnlinkTypes ==
    ASSUME TypeOK, Circle(Armed, next, prev, timers, NoTimer), NEW t \in live
    PROVE  /\ NextWithout(t) \in [Timer -> Timer \cup {NoTimer}]
           /\ PrevWithout(t) \in [Timer -> Timer \cup {NoTimer}]
           /\ HeadWithout(t) \in Timer \cup {NoTimer}
BY DEF TypeOK, NextWithout, PrevWithout, HeadWithout

LEMMA UnlinkCircle ==
    ASSUME TypeOK, Circle(Armed, next, prev, timers, NoTimer), NEW t \in live,
           NEW n1 \in [Timer -> Timer \cup {NoTimer}],
           \A u \in Armed \ {t} : n1[u] = NextWithout(t)[u]
    PROVE  Circle(Armed \ {t}, n1, PrevWithout(t), HeadWithout(t), NoTimer)
<1>1. Armed \in SUBSET Timer /\ next \in [Timer -> Timer \cup {NoTimer}]
      /\ prev \in [Timer -> Timer \cup {NoTimer}]
  BY ArmedTimers DEF TypeOK
<1>2. CASE t \in Armed
  <2>1. IsSet(t)
    BY <1>2 DEF Armed
  <2>2. prev[t] \in Armed /\ next[t] \in Armed
    BY <1>2 DEF Circle
  <2>3. \A u \in Armed \ {t} : n1[u] = IF u = prev[t] THEN next[t] ELSE next[u]
    BY <1>1, <2>1, <2>2 DEF NextWithout
  <2>4. \A u \in Armed \ {t} :
           PrevWithout(t)[u] = IF u = next[t] THEN prev[t] ELSE prev[u]
    BY <1>1, <2>1, <2>2 DEF PrevWithout
  <2>5. HeadWithout(t) = IF next[t] = t THEN NoTimer
                         ELSE IF timers = t THEN next[t] ELSE timers
    BY <2>1 DEF HeadWithout
  <2> DEFINE A == Armed
             p1 == PrevWithout(t)
             h1 == HeadWithout(t)
  <2> HIDE DEF A, p1, h1
  <2>6. Circle(A, next, prev, timers, NoTimer)
    BY DEF A
  <2>7. Unlinked(A, next, prev, timers, NoTimer, t, n1, p1, h1)
    BY <1>2, <2>3, <2>4, <2>5 DEF Unlinked, A, p1, h1
  <2>8. Circle(A \ {t}, n1, p1, h1, NoTimer)
    BY <2>6, <2>7, CircleWithout
  <2> QED
    BY <2>8 DEF A, p1, h1
<1>3. CASE t \notin Armed
  <2>1. ~IsSet(t) /\ Armed \ {t} = Armed
    BY <1>3 DEF Armed
  <2>2. PrevWithout(t) = prev /\ HeadWithout(t) = timers /\ NextWithout(t) = next
    BY <2>1 DEF PrevWithout, HeadWithout, NextWithout
  <2>3. \A u \in Armed : n1[u] = next[u]
    BY <2>1, <2>2
  <2> QED
    BY <2>1, <2>2, <2>3 DEF Circle
<1> QED
  BY <1>2, <1>3

(* Only the links of armed timers matter. *)
LEMMA UnlinkedArmed ==
    ASSUME TypeOK, Circle(Armed, next, prev, timers, NoTimer), NEW t \in live
    PROVE  \A u \in live \ {t} : NextWithout(t)[u] # NoTimer <=> u \in Armed
<1>1. CASE IsSet(t)
  <2>1. t \in Armed
    BY <1>1 DEF Armed
  <2>2. prev[t] \in Armed /\ next[t] \in Armed
    BY <2>1 DEF Circle
  <2> QED
    BY <1>1, <2>2, ConstantsAssumption DEF NextWithout, TypeOK, Armed, IsSet
<1>2. CASE ~IsSet(t)
  BY <1>2 DEF NextWithout, Armed, IsSet
<1> QED
  BY <1>1, <1>2

-----------------------------------------------------------------------------
(* The operations on timers. *)

LEMMA WakeThreadTypes ==
    ASSUME TypeOK, WakeThread
    PROVE  /\ woken' \in BOOLEAN /\ wakes' \in Nat
           /\ Backend = "poll" => wakes' >= wakes
<1>1. woken \in BOOLEAN /\ wakes \in Nat
  BY DEF TypeOK
<1>2. CASE woken
  BY <1>1, <1>2 DEF WakeThread, wakeVars
<1>3. CASE ~woken
  <2>1. woken' = TRUE /\ wakes' = IF Backend = "poll" THEN wakes + 1 ELSE 1
    BY <1>3 DEF WakeThread, PollWake
  <2> QED
    BY <1>1, <2>1
<1> QED
  BY <1>2, <1>3

LEMMA TimerInitKeepsIInv ==
    ASSUME IInv, NEW t \in Timer, TimerInit(t)
    PROVE  IInv'
<1>1. /\ t \notin live /\ live' = live \cup {t}
      /\ next' = [next EXCEPT ![t] = NoTimer]
      /\ fired' = [fired EXCEPT ![t] = FALSE]
      /\ waiting' = [waiting EXCEPT ![t] = {}]
      /\ UNCHANGED <<wanted, earliest, latest, prev, timers, pc, until, sawWake,
                     cursor, dispatchNow, woken, wakes, pending, running,
                     stopping, now>>
  BY DEF TimerInit, threadVars, wakeVars
<1>2. TypeOK /\ wanted \subseteq live
  BY DEF IInv, TypeOK
<1>3. TypeOK'
  BY <1>1, <1>2 DEF TypeOK
<1>4. \A u \in live : next'[u] = next[u] /\ fired'[u] = fired[u]
  BY <1>1, <1>2 DEF TypeOK
<1>5. Armed' = Armed /\ Awaited' = Awaited
  <2>1. next'[t] = NoTimer
    BY <1>1, <1>2 DEF TypeOK
  <2> QED
    BY <1>1, <1>2, <1>4, <2>1 DEF Armed, Awaited, IsSet
<1>6. Linked'
  <2>1. \A u \in Armed : next'[u] = next[u]
    BY <1>4 DEF Armed
  <2> QED
    BY <1>1, <1>5, <2>1 DEF IInv, Linked, Circle
<1> QED
  BY <1>1, <1>3, <1>6 DEF IInv, ClockOK, WakesOK

LEMMA TimerFiniKeepsIInv ==
    ASSUME IInv, NEW t \in Timer, TimerFini(t)
    PROVE  IInv'
<1>1. /\ Unlocked /\ t \in live /\ live' = live \ {t} /\ wanted' = wanted \ {t}
      /\ next' = NextWithout(t) /\ prev' = PrevWithout(t) /\ timers' = HeadWithout(t)
      /\ WakeThread
      /\ waiting' = [waiting EXCEPT ![t] = {}]
      /\ pending' = pending \cup waiting[t]
      /\ UNCHANGED <<earliest, latest, fired, running, pc, until, sawWake,
                     cursor, dispatchNow, stopping, now>>
  BY DEF TimerFini, threadVars
<1>2. TypeOK /\ Linked /\ Circle(Armed, next, prev, timers, NoTimer)
  BY DEF IInv, Linked
<1>3. TypeOK'
  BY <1>1, <1>2, UnlinkTypes, WakeThreadTypes DEF TypeOK
<1>4. Armed' = Armed \ {t} /\ Awaited' = Awaited \ {t}
  <2>1. \A u \in live \ {t} : next'[u] # NoTimer <=> u \in Armed
    BY <1>1, <1>2, UnlinkedArmed
  <2> QED
    BY <1>1, <2>1 DEF Armed, Awaited, IsSet
<1>5. Circle(Armed', next', prev', timers', NoTimer)
  <2>1. next' \in [Timer -> Timer \cup {NoTimer}]
    BY <1>3 DEF TypeOK
  <2>2. Circle(Armed \ {t}, next', PrevWithout(t), HeadWithout(t), NoTimer)
    BY <1>1, <1>2, <2>1, UnlinkCircle
  <2> QED
    BY <1>1, <1>4, <2>2
<1>6. Linked'
  BY <1>1, <1>2, <1>4, <1>5 DEF Linked, Unlocked
<1> QED
  BY <1>1, <1>2, <1>3, <1>6, WakeThreadTypes DEF IInv, ClockOK, WakesOK, TypeOK

LEMMA TimerCancelKeepsIInv ==
    ASSUME IInv, NEW t \in Timer, TimerCancel(t)
    PROVE  IInv'
<1>1. /\ Unlocked /\ t \in live /\ wanted' = wanted \ {t}
      /\ next' = [NextWithout(t) EXCEPT ![t] = NoTimer]
      /\ prev' = PrevWithout(t) /\ timers' = HeadWithout(t)
      /\ fired' = [fired EXCEPT ![t] = FALSE]
      /\ WakeThread
      /\ UNCHANGED <<live, earliest, latest, pc, until, sawWake, cursor,
                     dispatchNow, waiting, pending, running, stopping, now>>
  BY DEF TimerCancel, threadVars, taskVars
<1>2. TypeOK /\ Linked /\ Circle(Armed, next, prev, timers, NoTimer)
  BY DEF IInv, Linked
<1>3. TypeOK'
  BY <1>1, <1>2, UnlinkTypes, WakeThreadTypes DEF TypeOK
<1>4. NextWithout(t) \in [Timer -> Timer \cup {NoTimer}]
  BY <1>1, <1>2, UnlinkTypes
<1>5. Armed' = Armed \ {t} /\ Awaited' = Awaited \ {t}
  <2>1. \A u \in live \ {t} : NextWithout(t)[u] # NoTimer <=> u \in Armed
    BY <1>1, <1>2, UnlinkedArmed
  <2>2. /\ \A u \in live \ {t} : next'[u] = NextWithout(t)[u] /\ fired'[u] = fired[u]
        /\ next'[t] = NoTimer
    BY <1>1, <1>2, <1>4 DEF TypeOK
  <2> QED
    BY <1>1, <2>1, <2>2 DEF Armed, Awaited, IsSet
<1>6. Circle(Armed', next', prev', timers', NoTimer)
  <2>1. /\ next' \in [Timer -> Timer \cup {NoTimer}]
        /\ \A u \in Armed \ {t} : next'[u] = NextWithout(t)[u]
    BY <1>1, <1>2, <1>3, <1>4, ArmedTimers DEF TypeOK
  <2>2. Circle(Armed \ {t}, next', PrevWithout(t), HeadWithout(t), NoTimer)
    BY <1>1, <1>2, <2>1, UnlinkCircle
  <2> QED
    BY <1>1, <1>5, <2>2
<1>7. Linked'
  BY <1>1, <1>2, <1>5, <1>6 DEF Linked, Unlocked
<1> QED
  BY <1>1, <1>2, <1>3, <1>7, WakeThreadTypes DEF IInv, ClockOK, WakesOK, TypeOK

LEMMA LinkLastCircle ==
    ASSUME TypeOK, Linked, NEW t \in live, LinkLast(t)
    PROVE  /\ next' \in [Timer -> Timer \cup {NoTimer}]
           /\ prev' \in [Timer -> Timer \cup {NoTimer}]
           /\ timers' \in Timer
           /\ \A u \in live : next'[u] # NoTimer <=> u \in Armed \cup {t}
           /\ Circle(Armed \cup {t}, next', prev', timers', NoTimer)
<1>1. /\ next \in [Timer -> Timer \cup {NoTimer}]
      /\ prev \in [Timer -> Timer \cup {NoTimer}]
      /\ t \in Timer /\ live \subseteq Timer /\ t # NoTimer
      /\ Circle(Armed, next, prev, timers, NoTimer)
      /\ Armed \in SUBSET Timer /\ NoTimer \notin Timer
  BY ConstantsAssumption, ArmedTimers DEF TypeOK, Linked
<1>2. CASE IsSet(t)
  <2>1. Armed \cup {t} = Armed /\ t \in Armed
    BY <1>2 DEF Armed
  <2>2. timers \in Timer
    BY <1>1, <2>1 DEF Circle
  <2> QED
    BY <1>1, <1>2, <2>1, <2>2 DEF LinkLast, listVars, Armed, IsSet
<1>3. CASE ~IsSet(t) /\ timers = NoTimer
  <2>1. Armed = {}
    BY <1>1, <1>3 DEF Circle
  <2>2. /\ next' = [next EXCEPT ![t] = t] /\ prev' = [prev EXCEPT ![t] = t]
        /\ timers' = t
    BY <1>3 DEF LinkLast
  <2>3. Circle({t}, next', prev', timers', NoTimer)
    BY <1>1, <2>2 DEF Circle
  <2>4. \A u \in live : next'[u] # NoTimer <=> u = t
    BY <1>1, <2>1, <2>2 DEF Armed, IsSet
  <2> QED
    BY <1>1, <2>1, <2>2, <2>3, <2>4
<1>4. CASE ~IsSet(t) /\ timers # NoTimer
  <2>1. Armed # {} /\ t \notin Armed /\ timers \in Armed /\ prev[timers] \in Armed
    BY <1>1, <1>4 DEF Circle, Armed
  <2>2. /\ next' = [next EXCEPT ![t] = timers, ![prev[timers]] = t]
        /\ prev' = [prev EXCEPT ![t] = prev[timers], ![timers] = t]
        /\ timers' = timers
    BY <1>4 DEF LinkLast
  <2>3. /\ \A u \in Armed : next'[u] = IF u = prev[timers] THEN t ELSE next[u]
        /\ \A u \in Armed : prev'[u] = IF u = timers THEN t ELSE prev[u]
        /\ next'[t] = timers /\ prev'[t] = prev[timers]
    BY <1>1, <2>1, <2>2
  <2>4. Circle(Armed \cup {t}, next', prev', timers, NoTimer)
    <3> DEFINE A == Armed
               n1 == next'
               p1 == prev'
    <3>1. A # {} /\ Circle(A, next, prev, timers, NoTimer)
      BY <1>1, <2>1
    <3>2. LinkedLast(A, next, prev, timers, t, n1, p1)
      BY <1>1, <2>1, <2>3 DEF LinkedLast
    <3> HIDE DEF A, n1, p1
    <3>3. Circle(A \cup {t}, n1, p1, timers, NoTimer)
      BY <3>1, <3>2, CircleWith
    <3> QED
      BY <3>3 DEF A, n1, p1
  <2>5. \A u \in live : next'[u] # NoTimer <=> u \in Armed \cup {t}
    BY <1>1, <2>1, <2>2 DEF Armed, IsSet
  <2> QED
    BY <1>1, <2>1, <2>2, <2>4, <2>5
<1> QED
  BY <1>2, <1>3, <1>4

LEMMA TimerSetKeepsIInv ==
    ASSUME IInv, NEW t \in Timer, NEW w \in Window, TimerSet(t, w)
    PROVE  IInv'
<1>1. /\ Unlocked /\ t \in live /\ wanted' = wanted \cup {t}
      /\ earliest' = [earliest EXCEPT ![t] = w.earliest]
      /\ latest' = [latest EXCEPT ![t] = w.latest]
      /\ fired' = [fired EXCEPT ![t] = FALSE]
      /\ LinkLast(t) /\ WakeThread
      /\ UNCHANGED <<live, pc, until, sawWake, cursor, dispatchNow, waiting,
                     pending, running, stopping, now>>
  BY DEF TimerSet, threadVars, taskVars
<1>2. TypeOK /\ Linked
  BY DEF IInv
<1>3. w.earliest \in Nat /\ w.latest \in Nat
  BY ConstantsAssumption
<1>4. TypeOK'
  BY <1>1, <1>2, <1>3, LinkLastCircle, WakeThreadTypes DEF TypeOK
<1>5. Armed' = Armed \cup {t} /\ Awaited' = Awaited \cup {t}
  <2>1. \A u \in live : next'[u] # NoTimer <=> u \in Armed \cup {t}
    BY <1>1, <1>2, LinkLastCircle
  <2>2. Armed' = Armed \cup {t}
    BY <1>1, <2>1 DEF Armed, IsSet
  <2>3. Awaited' = Awaited \cup {t}
    BY <1>1, <1>2 DEF Awaited, TypeOK
  <2> QED
    BY <2>2, <2>3
<1>6. Linked'
  <2>1. Circle(Armed', next', prev', timers', NoTimer)
    BY <1>1, <1>2, <1>5, LinkLastCircle
  <2> QED
    BY <1>1, <1>2, <1>5, <2>1 DEF Linked, Unlocked
<1> QED
  BY <1>1, <1>2, <1>4, <1>6, WakeThreadTypes DEF IInv, ClockOK, WakesOK, TypeOK

-----------------------------------------------------------------------------
(* The poll thread. *)

(* A step that leaves alone the timers, and the mutex with who has it.     *)
LEMMA ListUntouched ==
    ASSUME TypeOK, Linked, UNCHANGED timerVars,
           pc' = "dispatch" => cursor' \in Armed
    PROVE  Linked' /\ Armed' = Armed /\ Awaited' = Awaited
<1>1. UNCHANGED <<live, wanted, fired, next, prev, timers>>
  BY DEF timerVars, listVars
<1>2. Armed' = Armed /\ Awaited' = Awaited
  BY <1>1 DEF Armed, Awaited, IsSet
<1> QED
  BY <1>1, <1>2 DEF Linked, Circle

LEMMA PollUntilType ==
    ASSUME TypeOK, until = Forever \/ until > now
    PROVE  PollUntil \in Nat \cup {Forever}
<1>1. CASE until = Forever
  BY <1>1 DEF PollUntil
<1>2. CASE until # Forever
  <2> DEFINE d == (until - now) \div Millisecond
             ms == AsInt(d)
  <2>1. until - now \in Nat /\ now \in Nat /\ Millisecond \in Nat \ {0}
    BY <1>2, ConstantsAssumption DEF TypeOK, Forever
  <2>2. d \in Int
    BY <2>1
  <2>3. ms \in Int
    <3> HIDE DEF d
    <3>1. 2 * IntMax + 2 \in Nat \ {0} /\ d + IntMax + 1 \in Int
      BY <2>2, ConstantsAssumption
    <3>2. (d + IntMax + 1) % (2 * IntMax + 2) \in Int
      BY <3>1
    <3> QED
      BY <3>2, ConstantsAssumption DEF AsInt
  <2>4. PollUntil = IF ms < 0 THEN Forever ELSE now + ms * Millisecond
    BY <1>2 DEF PollUntil
  <2> HIDE DEF d, ms
  <2>5. ms >= 0 => ms * Millisecond \in Nat
    BY <2>1, <2>3
  <2> QED
    BY <2>1, <2>3, <2>4, <2>5
<1> QED
  BY <1>1, <1>2

LEMMA NatMinimum ==
    ASSUME NEW S \in SUBSET Nat, S # {}
    PROVE  Min(S) \in S /\ \A x \in S : Min(S) <= x
<1>1. PICK x \in S : \A y \in S : ~ (<<y, x>> \in OpToRel(<, Nat))
  BY NatLessThanWellFounded, WFMin
<1>2. ASSUME NEW y \in S
      PROVE  x <= y
  <2>1. x \in Nat /\ y \in Nat
    OBVIOUS
  <2>2. y < x => <<y, x>> \in OpToRel(<, Nat)
    BY <2>1 DEF OpToRel
  <2>3. ~ (y < x)
    BY <1>1, <2>2
  <2> QED
    BY <2>1, <2>3
<1> QED
  BY <1>2 DEF Min

(* The timeout is before the latest time of every timer that is set. *)
LEMMA EarliestLatestBounds ==
    ASSUME TypeOK, Linked
    PROVE  /\ EarliestLatest \in Nat \cup {Forever}
           /\ \A t \in Awaited : EarliestLatest \in 0 .. latest[t]
           /\ EarliestLatest # Forever => \E t \in Timer : EarliestLatest = latest[t]
<1>1. /\ Armed = Awaited /\ Armed \in SUBSET Timer
      /\ timers = NoTimer <=> Armed = {}
  BY ArmedTimers, ConstantsAssumption DEF Linked, Circle
<1>2. CASE Armed = {}
  BY <1>1, <1>2 DEF EarliestLatest
<1>3. CASE Armed # {}
  <2> DEFINE S == {latest[t] : t \in Armed}
  <2>1. S \in SUBSET Nat /\ S # {}
    BY <1>1, <1>3 DEF TypeOK
  <2>2. EarliestLatest = Min(S)
    BY <1>1, <1>3 DEF EarliestLatest
  <2>3. Min(S) \in S /\ \A x \in S : Min(S) <= x
    BY <2>1, NatMinimum
  <2>4. \A t \in Armed : latest[t] \in Nat /\ Min(S) <= latest[t]
    BY <1>1, <2>3 DEF TypeOK
  <2>5. \E t \in Timer : Min(S) = latest[t]
    BY <1>1, <2>3
  <2>6. Min(S) \in Nat
    BY <2>1, <2>3
  <2> HIDE DEF S
  <2> QED
    BY <1>1, <2>2, <2>4, <2>5, <2>6
<1> QED
  BY <1>2, <1>3

(* The steps of the poll thread before it has the mutex to dispatch. *)
PollStep == Prepare \/ Poll \/ SkipPoll \/ PollWoken \/ PollEnds

LEMMA PollStepKeepsIInv ==
    ASSUME IInv, PollStep
    PROVE  IInv'
<1>1. /\ UNCHANGED <<timerVars, cursor, dispatchNow, taskVars, stopping, now>>
      /\ pc' \in {"prepared", "polling", "polled"}
      /\ woken' \in {woken, FALSE}
  BY DEF PollStep, Prepare, Poll, SkipPoll, PollWoken, PollEnds, wakeVars
<1>2. TypeOK /\ Linked /\ WakesOK
  BY DEF IInv
<1>3. until' \in Nat \cup {Forever}
  BY <1>2, PollUntilType, EarliestLatestBounds
     DEF PollStep, Prepare, Poll, SkipPoll, PollWoken, PollEnds, TypeOK
<1>4. /\ sawWake' \in BOOLEAN /\ wakes' \in Nat
      /\ sawWake' => Backend = "poll" /\ wakes' > 0
  <2>1. CASE Prepare \/ Poll
    BY <1>2, <2>1 DEF WakesOK, Prepare, Poll, wakeVars, TypeOK
  <2>2. CASE SkipPoll
    BY <1>2, <2>2 DEF SkipPoll, wakeVars, TypeOK
  <2>3. CASE PollWoken
    <3>1. wakes \in Nat /\ wakes > 0 /\ sawWake' = (Backend = "poll")
          /\ wakes' = IF Backend = "poll" THEN wakes ELSE 0
      BY <1>2, <2>3 DEF PollWoken, TypeOK
    <3>2. sawWake' \in BOOLEAN
      BY <3>1
    <3>3. wakes' \in Nat /\ (Backend = "poll" => wakes' > 0)
      BY <3>1
    <3>4. sawWake' => Backend = "poll"
      BY <3>1
    <3> QED
      BY <3>2, <3>3, <3>4
  <2>4. CASE PollEnds
    BY <1>2, <2>4 DEF PollEnds, wakeVars, TypeOK
  <2> QED
    BY <2>1, <2>2, <2>3, <2>4 DEF PollStep
<1>5. TypeOK'
  BY <1>1, <1>2, <1>3, <1>4 DEF TypeOK, timerVars, listVars, taskVars
<1>6. Linked'
  BY <1>1, <1>2, ListUntouched
<1> QED
  BY <1>1, <1>4, <1>5, <1>6 DEF IInv, ClockOK, WakesOK

LEMMA DispatchKeepsIInv ==
    ASSUME IInv, Dispatch
    PROVE  IInv'
<1>1. /\ UNCHANGED <<timerVars, taskVars, stopping, now>>
      /\ woken' = TRUE /\ until' = Forever /\ sawWake' = FALSE
      /\ wakes' = IF sawWake THEN wakes - 1 ELSE wakes
      /\ IF timers = NoTimer
         THEN pc' = "run" /\ UNCHANGED <<cursor, dispatchNow>>
         ELSE pc' = "dispatch" /\ cursor' = timers /\ dispatchNow' = now
  BY DEF Dispatch, DispatchTimers
<1>2. TypeOK /\ Linked
  BY DEF IInv
<1>3. wakes' \in Nat
  BY <1>1, <1>2 DEF IInv, WakesOK, TypeOK
<1>4. pc' = "dispatch" => cursor' \in Armed
  BY <1>1, <1>2 DEF Linked, Circle
<1>5. TypeOK' /\ ClockOK'
  <2>1. ClockOK /\ now \in Nat
    BY <1>2 DEF IInv, TypeOK
  <2>2. CASE timers = NoTimer
    <3>1. pc' = "run" /\ cursor' = cursor /\ dispatchNow' = dispatchNow
      BY <1>1, <2>2
    <3> QED
      BY <1>1, <1>2, <1>3, <2>1, <3>1 DEF ClockOK, TypeOK, timerVars, listVars, taskVars
  <2>3. CASE timers # NoTimer
    <3>1. /\ pc' = "dispatch" /\ cursor' = timers /\ dispatchNow' = now
          /\ timers \in Timer \cup {NoTimer}
      BY <1>1, <1>2, <2>3 DEF TypeOK
    <3>2. ClockOK'
      BY <1>1, <2>1, <3>1 DEF ClockOK
    <3>3. TypeOK'
      BY <1>1, <1>2, <1>3, <2>1, <3>1 DEF TypeOK, timerVars, listVars, taskVars
    <3> QED
      BY <3>2, <3>3
  <2> QED
    BY <2>2, <2>3
<1>6. Linked'
  BY <1>1, <1>2, <1>4, ListUntouched
<1> QED
  BY <1>1, <1>5, <1>6 DEF IInv, WakesOK

LEMMA DispatchDueKeepsIInv ==
    ASSUME IInv, DispatchDue
    PROVE  IInv'
<1> DEFINE t == cursor
<1>1. /\ pc = "dispatch"
      /\ fired' = [fired EXCEPT ![t] = TRUE]
      /\ pending' = pending \cup waiting[t]
      /\ next' = [NextWithout(t) EXCEPT ![t] = NoTimer]
      /\ prev' = PrevWithout(t) /\ timers' = HeadWithout(t)
      /\ UNCHANGED <<live, wanted, earliest, latest, until, sawWake, woken, wakes,
                     waiting, running, stopping, now>>
      /\ \/ /\ next[t] # t /\ timers # next[t]
            /\ cursor' = next[t] /\ UNCHANGED <<pc, dispatchNow>>
         \/ pc' = "run" /\ cursor' = NoTimer /\ dispatchNow' = 0
  BY DEF DispatchDue, GoOn, End, wakeVars
<1>2. /\ TypeOK /\ Linked /\ Circle(Armed, next, prev, timers, NoTimer)
      /\ t \in Armed /\ Armed = Awaited /\ t \in live /\ t \in Timer
      /\ next[t] \in Armed
  BY <1>1 DEF IInv, Linked, Circle, Armed, TypeOK
<1> HIDE DEF t
<1>3. TypeOK'
  BY <1>1, <1>2, UnlinkTypes, ArmedTimers DEF TypeOK
<1>4. NextWithout(t) \in [Timer -> Timer \cup {NoTimer}]
  BY <1>2, UnlinkTypes
<1>5. Armed' = Armed \ {t} /\ Awaited' = Awaited \ {t}
  <2>1. \A u \in live \ {t} : NextWithout(t)[u] # NoTimer <=> u \in Armed
    BY <1>2, UnlinkedArmed
  <2>2. /\ \A u \in live \ {t} : next'[u] = NextWithout(t)[u] /\ fired'[u] = fired[u]
        /\ next'[t] = NoTimer /\ fired'[t] = TRUE
    BY <1>1, <1>2, <1>4 DEF TypeOK
  <2>3. Armed' = Armed \ {t}
    BY <1>1, <2>1, <2>2 DEF Armed, IsSet
  <2>4. Awaited' = Awaited \ {t}
    BY <1>1, <2>2 DEF Awaited
  <2> QED
    BY <2>3, <2>4
<1>6. Circle(Armed', next', prev', timers', NoTimer)
  <2>1. /\ next' \in [Timer -> Timer \cup {NoTimer}]
        /\ \A u \in Armed \ {t} : next'[u] = NextWithout(t)[u]
    BY <1>1, <1>2, <1>3, <1>4, ArmedTimers DEF TypeOK
  <2>2. Circle(Armed \ {t}, next', PrevWithout(t), HeadWithout(t), NoTimer)
    BY <1>2, <2>1, UnlinkCircle
  <2> QED
    BY <1>1, <1>5, <2>2
<1>7. Linked'
  BY <1>1, <1>2, <1>5, <1>6 DEF Linked
<1>8. ClockOK'
  BY <1>1, <1>2 DEF IInv, ClockOK, TypeOK
<1>9. WakesOK'
  BY <1>1 DEF IInv, WakesOK
<1> QED
  BY <1>3, <1>7, <1>8, <1>9 DEF IInv

LEMMA DispatchNotDueKeepsIInv ==
    ASSUME IInv, DispatchNotDue
    PROVE  IInv'
<1>1. /\ pc = "dispatch"
      /\ UNCHANGED <<timerVars, until, sawWake, wakeVars, taskVars, stopping, now>>
      /\ \/ cursor' = next[cursor] /\ UNCHANGED <<pc, dispatchNow>>
         \/ pc' = "run" /\ cursor' = NoTimer /\ dispatchNow' = 0
  BY DEF DispatchNotDue, GoOn, End
<1>2. TypeOK /\ Linked /\ cursor \in Armed /\ next[cursor] \in Armed
  BY <1>1 DEF IInv, Linked, Circle
<1>3. TypeOK' /\ ClockOK'
  BY <1>1, <1>2, ArmedTimers
     DEF IInv, ClockOK, TypeOK, timerVars, listVars, taskVars, wakeVars
<1>4. Linked'
  BY <1>1, <1>2, ListUntouched
<1> QED
  BY <1>1, <1>3, <1>4 DEF IInv, WakesOK, wakeVars

(* The steps that take no timer on or off the list. *)
OtherStep ==
    \/ RunTasklets \/ ThreadEnds \/ PollStop \/ Tick
    \/ \E k \in Tasklet : \/ Later(k) \/ Start(k) \/ Return(k) \/ WaitElsewhere(k) \/ Stop(k)
                          \/ \E t \in Timer : TimerWait(k, t)

LEMMA OtherStepKeepsIInv ==
    ASSUME IInv, OtherStep
    PROVE  IInv'
<1>1. TypeOK /\ Linked /\ ClockOK /\ WakesOK
  BY DEF IInv
<1>2. /\ UNCHANGED <<timerVars, until, sawWake, cursor, dispatchNow>>
      /\ pc' \in {pc, "top", "done"}
  BY DEF OtherStep, RunTasklets, ThreadEnds, PollStop, Tick, Later, Start, Return,
         WaitElsewhere, Stop, TimerWait, threadVars
<1>3. Linked'
  BY <1>1, <1>2, ListUntouched DEF Linked
<1>4. now' \in Nat /\ now' >= now
  BY <1>1 DEF OtherStep, RunTasklets, ThreadEnds, PollStop, Tick, Later, Start, Return,
              WaitElsewhere, Stop, TimerWait, TypeOK
<1>5. /\ woken' \in BOOLEAN /\ wakes' \in Nat /\ stopping' \in BOOLEAN
      /\ Backend = "poll" => wakes' >= wakes
  <2>1. CASE PollStop
    BY <1>1, <2>1, WakeThreadTypes DEF PollStop, TypeOK
  <2>2. CASE UNCHANGED <<wakeVars, stopping>>
    BY <1>1, <2>2 DEF wakeVars, TypeOK
  <2> QED
    BY <2>1, <2>2 DEF OtherStep, RunTasklets, ThreadEnds, Tick, Later, Start, Return,
                      WaitElsewhere, Stop, TimerWait
<1>6. /\ waiting' \in [Timer -> SUBSET Tasklet]
      /\ pending' \subseteq Tasklet /\ running' \subseteq Tasklet
  BY <1>1 DEF OtherStep, RunTasklets, ThreadEnds, PollStop, Tick, Later, Start, Return,
              WaitElsewhere, Stop, TimerWait, Waiting, taskVars, TypeOK
<1>7. TypeOK'
  BY <1>1, <1>2, <1>4, <1>5, <1>6 DEF TypeOK, timerVars, listVars
<1>8. ClockOK' /\ WakesOK'
  BY <1>1, <1>2, <1>4, <1>5 DEF ClockOK, WakesOK, TypeOK
<1> QED
  BY <1>3, <1>7, <1>8 DEF IInv

LEMMA NextKeepsIInv == IInv /\ [Next]_vars => IInv'
<1> SUFFICES ASSUME IInv, [Next]_vars PROVE IInv'
  OBVIOUS
<1>1. CASE PollStep
  BY <1>1, PollStepKeepsIInv
<1>2. CASE Dispatch \/ DispatchDue \/ DispatchNotDue
  BY <1>2, DispatchKeepsIInv, DispatchDueKeepsIInv, DispatchNotDueKeepsIInv
<1>3. CASE OtherStep
  BY <1>3, OtherStepKeepsIInv
<1>4. ASSUME NEW t \in Timer, TimerInit(t) \/ TimerFini(t) \/ TimerCancel(t)
      PROVE  IInv'
  BY <1>4, TimerInitKeepsIInv, TimerFiniKeepsIInv, TimerCancelKeepsIInv
<1>5. ASSUME NEW t \in Timer, NEW w \in Window, TimerSet(t, w)
      PROVE  IInv'
  BY <1>5, TimerSetKeepsIInv
<1>6. CASE UNCHANGED vars
  <2>1. UNCHANGED <<timerVars, threadVars, wakeVars, taskVars, stopping, now>>
    BY <1>6 DEF vars
  <2>2. TypeOK /\ Linked /\ (pc' = "dispatch" => cursor' \in Armed)
    BY <2>1 DEF IInv, Linked, threadVars
  <2>3. Linked'
    BY <2>1, <2>2, ListUntouched
  <2>4. TypeOK' /\ ClockOK' /\ WakesOK'
    BY <2>1 DEF IInv, TypeOK, ClockOK, WakesOK, timerVars, listVars, threadVars,
                wakeVars, taskVars
  <2> QED
    BY <2>3, <2>4 DEF IInv
<1> QED
  BY <1>1, <1>2, <1>3, <1>4, <1>5, <1>6
     DEF Next, PollThread, PollReturns, PollFindsEvent, PollTimesOut, TimerOp,
         PollStep, OtherStep

LEMMA IInvAlways == Spec => []IInv
BY InitIInv, NextKeepsIInv, PTL DEF Spec

(* The variables have their types: in particular no byte is read from the  *)
(* pipe that is not there, and no time that the poll ends at is negative.  *)
THEOREM TypeCorrect == Spec => []TypeOK
<1>1. IInv => TypeOK
  BY DEF IInv
<1> QED
  BY <1>1, IInvAlways, PTL

(* The timers that are to fire form one circle, whatever order they are    *)
(* set, cancelled, finished and dispatched in.                             *)
THEOREM TimersFormOneCircle == Spec => []OneCircle
<1>1. IInv => OneCircle
  BY LinkedIsOneCircle DEF IInv
<1> QED
  BY <1>1, IInvAlways, PTL

-----------------------------------------------------------------------------
(* What happens to the timers is what timer.h promises. *)

StatusOf(t) ==
    IF t \notin live THEN "none"
    ELSE IF fired[t] THEN "fired"
    ELSE IF t \in wanted THEN "armed" ELSE "idle"

Status == [t \in Timer |-> StatusOf(t)]
Windows == [t \in Timer |-> [earliest |-> earliest[t], latest |-> latest[t]]]

(* Which steps of the service there are, in terms of the timers.           *)
ServiceNext ==
    \/ now' = now + 1 /\ UNCHANGED <<Status, Windows>>
    \/ \E t \in Timer :
         /\ UNCHANGED now
         /\ \/ /\ StatusOf(t) = "none"
               /\ Status' = [Status EXCEPT ![t] = "idle"]
               /\ UNCHANGED Windows
            \/ /\ StatusOf(t) # "none"
               /\ Status' = [Status EXCEPT ![t] = "armed"]
               /\ \E w \in Window : Windows' = [Windows EXCEPT ![t] = w]
            \/ /\ StatusOf(t) # "none"
               /\ Status' = [Status EXCEPT ![t] = "idle"]
               /\ UNCHANGED Windows
            \/ /\ StatusOf(t) = "armed"
               /\ earliest[t] <= now
               /\ Status' = [Status EXCEPT ![t] = "fired"]
               /\ UNCHANGED Windows
            \/ /\ StatusOf(t) # "none"
               /\ Status' = [Status EXCEPT ![t] = "none"]
               /\ UNCHANGED Windows

LEMMA ServiceNextImplies == ServiceNext => Service!Next
<1> SUFFICES ASSUME ServiceNext PROVE Service!Next
  OBVIOUS
<1>1. CASE now' = now + 1 /\ UNCHANGED <<Status, Windows>>
  BY <1>1 DEF Service!Next, Service!Tick, Status, Windows, StatusOf
<1>2. CASE ~ (now' = now + 1 /\ UNCHANGED <<Status, Windows>>)
  <2>1. PICK t \in Timer :
         /\ UNCHANGED now
         /\ \/ /\ StatusOf(t) = "none"
               /\ Status' = [Status EXCEPT ![t] = "idle"]
               /\ UNCHANGED Windows
            \/ /\ StatusOf(t) # "none"
               /\ Status' = [Status EXCEPT ![t] = "armed"]
               /\ \E w \in Window : Windows' = [Windows EXCEPT ![t] = w]
            \/ /\ StatusOf(t) # "none"
               /\ Status' = [Status EXCEPT ![t] = "idle"]
               /\ UNCHANGED Windows
            \/ /\ StatusOf(t) = "armed"
               /\ earliest[t] <= now
               /\ Status' = [Status EXCEPT ![t] = "fired"]
               /\ UNCHANGED Windows
            \/ /\ StatusOf(t) # "none"
               /\ Status' = [Status EXCEPT ![t] = "none"]
               /\ UNCHANGED Windows
    BY <1>2 DEF ServiceNext
  <2>2. Status[t] = StatusOf(t) /\ Windows[t].earliest = earliest[t]
    BY DEF Status, Windows
  <2>3. \/ Service!Create(t) \/ Service!Set(t) \/ Service!Cancel(t)
        \/ Service!Fire(t) \/ Service!Finish(t)
    BY <2>1, <2>2
       DEF Service!Create, Service!Set, Service!Cancel, Service!Fire,
           Service!Finish, Service!Become, Status, Windows, StatusOf
  <2> QED
    BY <2>3 DEF Service!Next
<1> QED
  BY <1>1, <1>2

(* A step that changes the status of t only. *)
LEMMA StatusChanges ==
    ASSUME NEW t \in Timer, \A u \in Timer \ {t} : StatusOf(u)' = StatusOf(u)
    PROVE  Status' = [Status EXCEPT ![t] = StatusOf(t)']
BY DEF Status

LEMMA InitMaps == Init => Service!Init
<1> SUFFICES ASSUME Init PROVE Service!Init
  OBVIOUS
<1>1. PICK w \in Window : /\ earliest = [t \in Timer |-> w.earliest]
                          /\ latest = [t \in Timer |-> w.latest]
  BY DEF Init
<1>2. w = [earliest |-> w.earliest, latest |-> w.latest]
  BY ConstantsAssumption
<1>3. \A t \in Timer : [earliest |-> earliest[t], latest |-> latest[t]] = w
  BY <1>1, <1>2
<1>4. Windows \in [Timer -> Window]
  BY <1>3 DEF Windows
<1>5. Status = [t \in Timer |-> "none"]
  BY DEF Init, Status, StatusOf
<1> QED
  BY <1>4, <1>5 DEF Init, Service!Init, Status, Windows, StatusOf

(* Steps that have nothing to do with the status of timers. *)
LEMMA StepsThatStutter ==
    ASSUME UNCHANGED timerVars
    PROVE  UNCHANGED <<Status, Windows>>
BY DEF timerVars, Status, StatusOf, Windows

LEMMA DispatchDueMaps ==
    ASSUME IInv, DispatchDue
    PROVE  ServiceNext
<1>0. PICK t \in Timer : t = cursor
  BY DEF DispatchDue, IInv, Linked, Awaited, TypeOK
<1>1. /\ pc = "dispatch" /\ earliest[t] <= dispatchNow
      /\ fired' = [fired EXCEPT ![t] = TRUE]
      /\ UNCHANGED <<live, wanted, earliest, latest, now>>
  BY <1>0 DEF DispatchDue
<1>2. TypeOK /\ t \in Awaited /\ dispatchNow <= now
  BY <1>0, <1>1 DEF IInv, Linked, ClockOK
<1>3. t \in live /\ t \in wanted /\ fired[t] = FALSE
  BY <1>2 DEF Awaited, TypeOK
<1>4. StatusOf(t) = "armed" /\ StatusOf(t)' = "fired"
  BY <1>1, <1>2, <1>3 DEF StatusOf, TypeOK
<1>5. \A u \in Timer \ {t} : StatusOf(u)' = StatusOf(u)
  BY <1>1, <1>2, <1>3 DEF StatusOf, TypeOK
<1>6. Status' = [Status EXCEPT ![t] = "fired"]
  BY <1>3, <1>4, <1>5, StatusChanges
<1>7. UNCHANGED Windows
  BY <1>1 DEF Windows
<1>8. earliest[t] <= now
  BY <1>1, <1>2, <1>3 DEF TypeOK
<1> QED
  BY <1>1, <1>3, <1>4, <1>6, <1>7, <1>8 DEF ServiceNext

LEMMA TimerSetMaps ==
    ASSUME IInv, NEW t \in Timer, NEW w \in Window, TimerSet(t, w)
    PROVE  ServiceNext
<1>1. /\ t \in live /\ wanted' = wanted \cup {t}
      /\ earliest' = [earliest EXCEPT ![t] = w.earliest]
      /\ latest' = [latest EXCEPT ![t] = w.latest]
      /\ fired' = [fired EXCEPT ![t] = FALSE]
      /\ UNCHANGED <<live, now>>
  BY DEF TimerSet
<1>2. TypeOK
  BY DEF IInv
<1>3. StatusOf(t) # "none" /\ StatusOf(t)' = "armed"
  BY <1>1, <1>2 DEF StatusOf, TypeOK
<1>4. \A u \in Timer \ {t} : StatusOf(u)' = StatusOf(u)
  BY <1>1, <1>2 DEF StatusOf, TypeOK
<1>5. Status' = [Status EXCEPT ![t] = "armed"]
  BY <1>3, <1>4, StatusChanges
<1>6. Windows' = [Windows EXCEPT ![t] = w]
  <2>1. w = [earliest |-> w.earliest, latest |-> w.latest]
    BY ConstantsAssumption
  <2> QED
    BY <1>1, <1>2, <2>1 DEF Windows, TypeOK
<1> QED
  BY <1>1, <1>3, <1>5, <1>6 DEF ServiceNext

(* timer_init, timer_cancel and timer_fini. *)
LEMMA TimerOpMaps ==
    ASSUME IInv, NEW t \in Timer, TimerInit(t) \/ TimerCancel(t) \/ TimerFini(t)
    PROVE  ServiceNext
<1>1. UNCHANGED <<earliest, latest, now>>
  BY DEF TimerInit, TimerCancel, TimerFini
<1>2. TypeOK
  BY DEF IInv
<1>3. UNCHANGED Windows
  BY <1>1 DEF Windows
<1>4. CASE TimerInit(t)
  <2>1. /\ t \notin live /\ live' = live \cup {t} /\ wanted' = wanted
        /\ fired' = [fired EXCEPT ![t] = FALSE]
    BY <1>4 DEF TimerInit
  <2>2. StatusOf(t) = "none" /\ StatusOf(t)' = "idle"
    BY <1>2, <2>1 DEF StatusOf, TypeOK
  <2>3. \A u \in Timer \ {t} : StatusOf(u)' = StatusOf(u)
    BY <1>2, <2>1 DEF StatusOf, TypeOK
  <2>4. Status' = [Status EXCEPT ![t] = "idle"]
    BY <2>2, <2>3, StatusChanges
  <2> QED
    BY <1>1, <1>3, <2>2, <2>4 DEF ServiceNext
<1>5. CASE TimerCancel(t)
  <2>1. /\ t \in live /\ live' = live /\ wanted' = wanted \ {t}
        /\ fired' = [fired EXCEPT ![t] = FALSE]
    BY <1>5 DEF TimerCancel
  <2>2. StatusOf(t) # "none" /\ StatusOf(t)' = "idle"
    BY <1>2, <2>1 DEF StatusOf, TypeOK
  <2>3. \A u \in Timer \ {t} : StatusOf(u)' = StatusOf(u)
    BY <1>2, <2>1 DEF StatusOf, TypeOK
  <2>4. Status' = [Status EXCEPT ![t] = "idle"]
    BY <2>2, <2>3, StatusChanges
  <2> QED
    BY <1>1, <1>3, <2>2, <2>4 DEF ServiceNext
<1>6. CASE TimerFini(t)
  <2>1. t \in live /\ live' = live \ {t} /\ wanted' = wanted \ {t} /\ fired' = fired
    BY <1>6 DEF TimerFini
  <2>2. StatusOf(t) # "none" /\ StatusOf(t)' = "none"
    BY <1>2, <2>1 DEF StatusOf, TypeOK
  <2>3. \A u \in Timer \ {t} : StatusOf(u)' = StatusOf(u)
    BY <1>2, <2>1 DEF StatusOf, TypeOK
  <2>4. Status' = [Status EXCEPT ![t] = "none"]
    BY <2>2, <2>3, StatusChanges
  <2> QED
    BY <1>1, <1>3, <2>2, <2>4 DEF ServiceNext
<1> QED
  BY <1>4, <1>5, <1>6

LEMMA NextMaps == IInv /\ [Next]_vars => [Service!Next]_(Service!vars)
<1> SUFFICES ASSUME IInv, [Next]_vars
             PROVE  ServiceNext \/ UNCHANGED <<Status, Windows, now>>
  BY ServiceNextImplies DEF Service!vars, Status, Windows, StatusOf
<1>1. CASE PollStep \/ Dispatch \/ DispatchNotDue
  BY <1>1, StepsThatStutter
     DEF PollStep, Prepare, Poll, SkipPoll, PollWoken, PollEnds, Dispatch,
         DispatchNotDue
<1>2. CASE DispatchDue
  BY <1>2, DispatchDueMaps
<1>3. CASE OtherStep
  <2>1. UNCHANGED timerVars /\ now' \in {now, now + 1}
    BY <1>3 DEF OtherStep, RunTasklets, ThreadEnds, PollStop, Tick, Later, Start,
                Return, WaitElsewhere, Stop, TimerWait
  <2> QED
    BY <2>1, StepsThatStutter DEF ServiceNext
<1>4. ASSUME NEW t \in Timer, TimerInit(t) \/ TimerFini(t) \/ TimerCancel(t)
      PROVE  ServiceNext
  BY <1>4, TimerOpMaps
<1>5. ASSUME NEW t \in Timer, NEW w \in Window, TimerSet(t, w)
      PROVE  ServiceNext
  BY <1>5, TimerSetMaps
<1>6. CASE UNCHANGED vars
  BY <1>6, StepsThatStutter DEF vars
<1> QED
  BY <1>1, <1>2, <1>3, <1>4, <1>5, <1>6
     DEF Next, PollThread, PollReturns, PollFindsEvent, PollTimesOut, TimerOp,
         PollStep, OtherStep

(* A timer that is set fires at most once, not before its window begins,   *)
(* and not after it was cancelled or set again: whatever the poll thread   *)
(* is doing meanwhile.                                                     *)
THEOREM TimersKeepPromise == Spec => ImplementsService
BY InitMaps, NextMaps, IInvAlways, PTL DEF Spec, ImplementsService, Service!Spec

-----------------------------------------------------------------------------
(* The thread does not sleep too long, if no timer is further ahead than   *)
(* an int has milliseconds.                                                *)

NoOverflow == \A w \in Window : w.latest <= IntMax * Millisecond

LatestOK == \A t \in Timer : latest[t] <= IntMax * Millisecond

(* Whoever finds woken set relies on a wake-up that is on its way; until   *)
(* woken is set, what the thread has found out still holds.                *)
Handshake ==
    pc \in {"prepared", "polling"} =>
        IF woken THEN wakes > 0
        ELSE ~stopping /\ \A t \in Awaited : until \in 0 .. latest[t]

Sleep == LatestOK /\ Handshake

LEMMA SleepNoOversleep == TypeOK /\ Sleep => NoOversleep
BY DEF TypeOK, Sleep, Handshake, NoOversleep

(* What rounding down to milliseconds does. *)
LEMMA Rounding ==
    ASSUME NEW x \in Nat, NEW m \in Nat \ {0}, NEW i \in Nat, x <= i * m
    PROVE  x \div m \in 0 .. i /\ (x \div m) * m <= x
<1> DEFINE d == x \div m
<1>1. d \in Int /\ d >= 0 /\ m * d <= x
  BY SMTT(30)
<1> HIDE DEF d
<1>2. d <= i
  <2> SUFFICES ASSUME d >= i + 1 PROVE FALSE
    BY <1>1
  <2> PICK e \in Nat : d = i + 1 + e
    BY <1>1
  <2>1. m * d = m * i + m + m * e
    BY <1>1
  <2>2. m * e \in Nat /\ m * i \in Nat /\ m * i = i * m
    OBVIOUS
  <2> QED
    BY <1>1, <2>1, <2>2
<1> QED
  BY <1>1, <1>2 DEF d

LEMMA PollUntilNotLater ==
    ASSUME NoOverflow, TypeOK, LatestOK, until > now, NEW t \in Timer,
           until \in 0 .. latest[t]
    PROVE  PollUntil \in 0 .. until
<1> DEFINE x == until - now
           d == x \div Millisecond
<1>1. /\ x \in Nat /\ now \in Nat /\ until \in Nat /\ until # Forever
      /\ Millisecond \in Nat \ {0} /\ IntMax \in Nat
      /\ latest[t] \in Nat /\ latest[t] <= IntMax * Millisecond
  BY ConstantsAssumption DEF TypeOK, LatestOK, Forever
<1>2. IntMax * Millisecond \in Nat
  BY <1>1
<1>3. x <= IntMax * Millisecond
  <2> DEFINE most == IntMax * Millisecond
  <2> HIDE DEF most
  <2> QED
    BY <1>1, <1>2 DEF most
<1> HIDE DEF x
<1>4. d \in 0 .. IntMax /\ d * Millisecond <= x
  BY <1>1, <1>3, Rounding
<1> HIDE DEF d
<1>5. AsInt(d) = d
  <2>1. d + IntMax + 1 \in 0 .. 2 * IntMax + 1
    BY <1>1, <1>4
  <2>2. (d + IntMax + 1) % (2 * IntMax + 2) = d + IntMax + 1
    BY <1>1, <2>1
  <2> QED
    BY <1>1, <1>4, <2>2 DEF AsInt
<1>6. PollUntil = now + d * Millisecond
  BY <1>1, <1>4, <1>5 DEF PollUntil, d, x
<1>7. d * Millisecond \in Nat
  BY <1>1, <1>4
<1> QED
  BY <1>1, <1>4, <1>6, <1>7 DEF x

LEMMA InitSleep == NoOverflow /\ Init => Sleep
BY DEF NoOverflow, Init, Sleep, LatestOK, Handshake

(* Waking the thread. *)
LEMMA WakingKeepsHandshake ==
    ASSUME TypeOK, Handshake, WakeThread, UNCHANGED pc
    PROVE  Handshake'
BY DEF TypeOK, Handshake, WakeThread, PollWake, wakeVars

(* Steps that leave alone what the handshake is about. *)
LEMMA HandshakeUntouched ==
    ASSUME Handshake, UNCHANGED <<pc, woken, wakes, stopping, until, latest>>,
           Awaited' = Awaited
    PROVE  Handshake'
BY DEF Handshake

LEMMA NextKeepsLatestOK ==
    ASSUME NoOverflow, TypeOK, LatestOK, [Next]_vars
    PROVE  LatestOK'
<1>1. CASE UNCHANGED latest
  BY <1>1 DEF LatestOK
<1>2. ASSUME NEW t \in Timer, NEW w \in Window, TimerSet(t, w)
      PROVE  LatestOK'
  BY <1>2 DEF NoOverflow, TypeOK, LatestOK, TimerSet
<1> QED
  BY <1>1, <1>2
     DEF Next, PollThread, PollReturns, PollFindsEvent, PollTimesOut, TimerOp,
         Prepare, Poll, SkipPoll, PollWoken, PollEnds, Dispatch, DispatchDue,
         DispatchNotDue, RunTasklets, ThreadEnds, PollStop, Tick, Later, Start,
         Return, WaitElsewhere, Stop, TimerWait, TimerInit, TimerFini, TimerCancel,
         timerVars, vars

LEMMA NextKeepsSleep == NoOverflow /\ IInv /\ Sleep /\ [Next]_vars => Sleep'
<1> SUFFICES ASSUME NoOverflow, IInv, Sleep, [Next]_vars PROVE Sleep'
  OBVIOUS
<1>1. TypeOK /\ Linked /\ LatestOK /\ Handshake
  BY DEF IInv, Sleep
<1>2. LatestOK'
  BY <1>1, NextKeepsLatestOK
<1>3. CASE pc' \notin {"prepared", "polling"}
  BY <1>2, <1>3 DEF Sleep, Handshake
<1>4. CASE Prepare
  <2>1. Awaited' = Awaited /\ latest' = latest /\ ~stopping' /\ ~woken'
        /\ until' = EarliestLatest
    BY <1>4 DEF Prepare, Awaited, timerVars
  <2> QED
    BY <1>1, <1>2, <2>1, EarliestLatestBounds DEF Sleep, Handshake
<1>5. CASE Poll
  <2>1. /\ Awaited' = Awaited /\ UNCHANGED <<latest, stopping, woken, wakes>>
        /\ pc = "prepared" /\ until' = PollUntil
        /\ until = Forever \/ until > now
    BY <1>5 DEF Poll, Awaited, timerVars, wakeVars
  <2>2. ASSUME ~woken, NEW t \in Awaited
        PROVE  until' \in 0 .. latest[t]
    <3>1. until \in 0 .. latest[t] /\ t \in Timer /\ latest[t] \in Nat
      BY <1>1, <2>1, <2>2 DEF Handshake, Awaited, TypeOK
    <3>2. until > now
      BY <2>1, <3>1 DEF Forever
    <3>3. PollUntil \in 0 .. until
      BY <1>1, <3>1, <3>2, PollUntilNotLater
    <3> QED
      BY <2>1, <3>1, <3>3
  <2> QED
    BY <1>1, <1>2, <2>1, <2>2 DEF Sleep, Handshake
<1>6. CASE UNCHANGED <<pc, wakes, woken, stopping, until, latest>> /\ Awaited' = Awaited
  BY <1>1, <1>2, <1>6, HandshakeUntouched DEF Sleep
<1>7. CASE WakeThread /\ UNCHANGED pc
  BY <1>1, <1>2, <1>7, WakingKeepsHandshake DEF Sleep
<1>8. ASSUME NEW t \in Timer, TimerInit(t)
      PROVE  Sleep'
  <2>1. Awaited' = Awaited
    BY <1>1, <1>8 DEF TimerInit, Awaited, TypeOK
  <2> QED
    BY <1>6, <1>8, <2>1 DEF TimerInit, threadVars, wakeVars
<1>9. ASSUME NEW t \in Timer,
             \/ TimerFini(t) \/ TimerCancel(t) \/ \E w \in Window : TimerSet(t, w)
      PROVE  Sleep'
  BY <1>7, <1>9 DEF TimerFini, TimerCancel, TimerSet, threadVars
<1>10. CASE PollStop
  BY <1>7, <1>10 DEF PollStop, threadVars
<1>11. CASE \/ Tick \/ UNCHANGED vars
            \/ \E k \in Tasklet :
                 \/ Later(k) \/ Start(k) \/ Return(k) \/ WaitElsewhere(k) \/ Stop(k)
                 \/ \E t \in Timer : TimerWait(k, t)
  <2>1. UNCHANGED <<timerVars, threadVars, wakeVars, stopping>>
    BY <1>11 DEF Tick, vars, Later, Start, Return, WaitElsewhere, Stop, TimerWait
  <2> QED
    BY <1>6, <2>1 DEF timerVars, threadVars, wakeVars, Awaited
<1>12. CASE \/ SkipPoll \/ PollWoken \/ PollEnds \/ Dispatch \/ DispatchDue
            \/ DispatchNotDue \/ RunTasklets \/ ThreadEnds
  BY <1>3, <1>12 DEF SkipPoll, PollWoken, PollEnds, Dispatch, DispatchTimers,
                     DispatchDue, DispatchNotDue, GoOn, End, RunTasklets, ThreadEnds
<1> QED
  BY <1>4, <1>5, <1>8, <1>9, <1>10, <1>11, <1>12
     DEF Next, PollThread, PollReturns, PollFindsEvent, PollTimesOut, TimerOp

(* The poll thread does not sleep past a timer or through poll_common_stop *)
(* without a wake-up on its way, provided that the times asked for fit in  *)
(* an int of milliseconds.  Without that proviso it does: poll_poll casts. *)
THEOREM SleepsInTime ==
    ASSUME NoOverflow
    PROVE  Spec => []NoOversleep
<1>1. Init => Sleep
  BY InitSleep
<1>2. IInv /\ Sleep /\ [Next]_vars => Sleep'
  BY NextKeepsSleep
<1>3. IInv /\ Sleep => NoOversleep
  BY SleepNoOversleep DEF IInv
<1> QED
  BY <1>1, <1>2, <1>3, IInvAlways, PTL DEF Spec

-----------------------------------------------------------------------------
(* The tasklets that wait. *)

LEMMA InitAwake == Init => WaitersAwake
BY DEF Init, WaitersAwake

LEMMA NextKeepsAwake == IInv /\ WaitersAwake /\ [Next]_vars => WaitersAwake'
<1> SUFFICES ASSUME IInv, WaitersAwake, [Next]_vars PROVE WaitersAwake'
  OBVIOUS
<1>1. TypeOK
  BY DEF IInv
<1>2. CASE UNCHANGED <<live, fired, waiting, pending, running>>
  BY <1>2 DEF WaitersAwake
<1>3. CASE DispatchDue
  <2>1. PICK t \in Timer : t = cursor
    BY <1>3 DEF DispatchDue, IInv, Linked, Awaited, TypeOK
  <2> QED
    BY <1>1, <1>3, <2>1 DEF DispatchDue, WaitersAwake, TypeOK
<1>4. ASSUME NEW t \in Timer,
             \/ TimerInit(t) \/ TimerFini(t) \/ TimerCancel(t)
             \/ \E w \in Window : TimerSet(t, w)
      PROVE  WaitersAwake'
  BY <1>1, <1>4 DEF TimerInit, TimerFini, TimerCancel, TimerSet, taskVars,
                    WaitersAwake, TypeOK
<1>5. ASSUME NEW k \in Tasklet, NEW t \in Timer, TimerWait(k, t)
      PROVE  WaitersAwake'
  BY <1>1, <1>5 DEF TimerWait, Waiting, timerVars, WaitersAwake, TypeOK
<1>6. ASSUME NEW k \in Tasklet,
             Later(k) \/ Start(k) \/ Return(k) \/ WaitElsewhere(k) \/ Stop(k)
      PROVE  WaitersAwake'
  BY <1>1, <1>6 DEF Later, Start, Return, WaitElsewhere, Stop, timerVars, WaitersAwake, TypeOK
<1> QED
  BY <1>2, <1>3, <1>4, <1>5, <1>6
     DEF Next, PollThread, PollReturns, PollFindsEvent, PollTimesOut, TimerOp,
         Prepare, Poll, SkipPoll, PollWoken, PollEnds, Dispatch, DispatchNotDue,
         RunTasklets, ThreadEnds, PollStop, Tick, timerVars, taskVars, vars

(* No tasklet is left asleep on the wait list of a timer that has fired,   *)
(* although wait_list_broadcast empties no list and timer_wait looks at    *)
(* fired without having waited first.                                      *)
THEOREM NoWaiterForgotten == Spec => []WaitersAwake
BY InitAwake, NextKeepsAwake, IInvAlways, PTL DEF Spec

-----------------------------------------------------------------------------
(* The walk of dispatch_timers along the circle that it takes timers from. *)

(* V is what lies between the head and the timer that the walk is at: none *)
(* of it is due.                                                           *)
WalkedOver(V) ==
    /\ cursor \notin V
    /\ timers \in V \cup {cursor}
    /\ \A t \in V : next[t] \in V \cup {cursor} /\ earliest[t] > dispatchNow
    /\ \A t \in V \cup {cursor} : t = timers \/ prev[t] \in V

Walk == pc = "dispatch" => \E V \in SUBSET Armed : WalkedOver(V)

(* The end of the walk. *)
LeavesNoneDue ==
    pc = "dispatch" /\ pc' # "dispatch" =>
        \A t \in Awaited' : earliest[t] > dispatchNow

LEMMA WalkOverNotDue ==
    ASSUME IInv, Walk, DispatchNotDue
    PROVE  Walk' /\ LeavesNoneDue
<1>1. /\ pc = "dispatch" /\ TypeOK /\ Armed = Awaited /\ cursor \in Armed
      /\ \A t \in Armed : /\ next[t] \in Armed /\ prev[t] \in Armed
                          /\ prev[next[t]] = t /\ next[prev[t]] = t
      /\ \A S \in SUBSET Armed : S = {} \/ S = Armed \/ \E t \in S : next[t] \notin S
  BY DEF DispatchNotDue, IInv, Linked, Circle
<1>2. PICK V \in SUBSET Armed : WalkedOver(V)
  BY <1>1 DEF Walk
<1>3. /\ UNCHANGED <<live, wanted, fired, next, prev, timers, earliest>>
      /\ Armed' = Armed /\ Awaited' = Awaited
  BY DEF DispatchNotDue, timerVars, listVars, Armed, Awaited, IsSet
<1>4. earliest[cursor] > dispatchNow
  BY DEF DispatchNotDue
<1>5. PICK W \in SUBSET Armed : W = V \cup {cursor}
  BY <1>1
<1>8. \A t \in W : earliest[t] > dispatchNow
  BY <1>2, <1>4, <1>5 DEF WalkedOver
<1>6. CASE next[cursor] = timers
  <2>1. pc' = "run"
    BY <1>6 DEF DispatchNotDue, End
  <2>2. \A t \in W : next[t] \in W
    BY <1>2, <1>5, <1>6 DEF WalkedOver
  <2>3. W = Armed
    BY <1>1, <1>5, <2>2
  <2> QED
    BY <1>1, <1>3, <1>8, <2>1, <2>3 DEF Walk, LeavesNoneDue
<1>7. CASE next[cursor] # timers
  <2>1. cursor' = next[cursor] /\ pc' = pc /\ dispatchNow' = dispatchNow
    BY <1>7 DEF DispatchNotDue, GoOn
  <2>2. timers \in W /\ \A t \in W : next[t] \in W \cup {next[cursor]}
    BY <1>2, <1>5 DEF WalkedOver
  <2>3. next[cursor] \notin W
    <3>1. next[cursor] \notin V
      BY <1>1, <1>2, <1>7 DEF WalkedOver
    <3>2. next[cursor] # cursor
      <4>1. SUFFICES ASSUME next[cursor] = cursor PROVE FALSE
        OBVIOUS
      <4>2. {cursor} \in SUBSET Armed
        BY <1>1
      <4>3. {cursor} = Armed
        BY <1>1, <4>1, <4>2
      <4> QED
        BY <1>5, <1>7, <2>2, <4>1, <4>3
    <3> QED
      BY <1>5, <3>1, <3>2
  <2>4. \A t \in W \cup {next[cursor]} : t = timers \/ prev[t] \in W
    BY <1>1, <1>2, <1>5 DEF WalkedOver
  <2>5. WalkedOver(W)'
    BY <1>3, <1>8, <2>1, <2>2, <2>3, <2>4 DEF WalkedOver
  <2> QED
    BY <1>1, <1>3, <1>5, <2>1, <2>5 DEF Walk, LeavesNoneDue
<1> QED
  BY <1>6, <1>7

LEMMA WalkOverDue ==
    ASSUME IInv, Walk, DispatchDue
    PROVE  Walk' /\ LeavesNoneDue
<1>1. /\ pc = "dispatch" /\ TypeOK /\ Armed = Awaited /\ cursor \in Armed
      /\ Armed \in SUBSET Timer
      /\ \A t \in Armed : /\ next[t] \in Armed /\ prev[t] \in Armed
                          /\ prev[next[t]] = t /\ next[prev[t]] = t
      /\ \A S \in SUBSET Armed : S = {} \/ S = Armed \/ \E t \in S : next[t] \notin S
  BY ArmedTimers DEF DispatchDue, IInv, Linked, Circle
<1>2. PICK V \in SUBSET Armed : WalkedOver(V)
  BY <1>1 DEF Walk
<1>3. PICK c \in Armed : c = cursor
  BY <1>1
<1>4. IsSet(c) /\ c \in Timer /\ c \in live
  BY <1>1, <1>3 DEF Armed
<1>5. /\ next' = [NextWithout(c) EXCEPT ![c] = NoTimer]
      /\ prev' = PrevWithout(c)
      /\ timers' = HeadWithout(c)
      /\ fired' = [fired EXCEPT ![c] = TRUE]
      /\ UNCHANGED <<live, wanted, earliest>>
  BY <1>3 DEF DispatchDue
<1>6. /\ \A u \in Armed \ {c} : next'[u] = IF u = prev[c] THEN next[c] ELSE next[u]
      /\ \A u \in Armed \ {c} : prev'[u] = IF u = next[c] THEN prev[c] ELSE prev[u]
  <2>1. next \in [Timer -> Timer \cup {NoTimer}] /\ prev \in [Timer -> Timer \cup {NoTimer}]
    BY <1>1 DEF TypeOK
  <2>2. prev[c] \in Timer /\ next[c] \in Timer
    BY <1>1
  <2> QED
    BY <1>1, <1>4, <1>5, <2>1, <2>2 DEF NextWithout, PrevWithout
<1>7. /\ Armed' = Armed \ {c} /\ Awaited' = Armed'
      /\ Circle(Armed', next', prev', timers', NoTimer)
  <2>1. IInv'
    BY DispatchDueKeepsIInv
  <2>2. Awaited' = Awaited \ {c}
    BY <1>1, <1>4, <1>5 DEF Awaited, TypeOK
  <2> QED
    BY <1>1, <2>1, <2>2 DEF IInv, Linked
<1>8. CASE next[c] = c
  <2>1. pc' = "run"
    BY <1>3, <1>8 DEF DispatchDue, End
  <2>2. {c} \in SUBSET Armed
    OBVIOUS
  <2>3. Armed = {c}
    BY <1>1, <1>8, <2>2
  <2> QED
    BY <1>7, <2>1, <2>3 DEF Walk, LeavesNoneDue
<1>9. CASE next[c] # c /\ timers = next[c]
  <2>1. pc' = "run"
    BY <1>3, <1>9 DEF DispatchDue, End
  <2>2. timers \in V /\ c \notin V
    BY <1>2, <1>3, <1>9 DEF WalkedOver
  <2>3. \A t \in V : next'[t] \in V
    <3> SUFFICES ASSUME NEW t \in V PROVE next'[t] \in V
      OBVIOUS
    <3>1. next[t] \in V \cup {c} /\ t \in Armed \ {c}
      BY <1>2, <1>3, <2>2 DEF WalkedOver
    <3>2. next[t] = c => t = prev[c]
      BY <1>1, <3>1
    <3> QED
      BY <1>6, <1>9, <2>2, <3>1, <3>2
  <2>4. V \in SUBSET Armed'
    BY <1>7, <2>2
  <2>5. V = Armed'
    BY <1>7, <2>2, <2>3, <2>4 DEF Circle
  <2>6. \A t \in V : earliest[t] > dispatchNow
    BY <1>2 DEF WalkedOver
  <2> QED
    BY <1>7, <2>1, <2>5, <2>6 DEF Walk, LeavesNoneDue
<1>10. CASE next[c] # c /\ timers # next[c]
  <2>1. cursor' = next[c] /\ pc' = pc /\ dispatchNow' = dispatchNow
    BY <1>3, <1>10 DEF DispatchDue, GoOn
  <2>2. CASE c = timers
    <3>1. timers' = next[c]
      BY <1>4, <1>5, <1>10, <2>2 DEF HeadWithout
    <3>2. WalkedOver({})'
      BY <2>1, <3>1 DEF WalkedOver
    <3> QED
      BY <1>1, <2>1, <3>2 DEF Walk, LeavesNoneDue
  <2>3. CASE c # timers
    <3>1. timers' = timers /\ timers \in V /\ c \notin V /\ prev[c] \in V
      BY <1>2, <1>3, <1>4, <1>5, <1>10, <2>3 DEF HeadWithout, WalkedOver
    <3>2. next[c] \notin V
      BY <1>1, <1>2, <1>3, <1>10, <3>1 DEF WalkedOver
    <3>3. \A t \in V : next'[t] \in V \cup {next[c]} /\ earliest'[t] > dispatchNow
      <4> SUFFICES ASSUME NEW t \in V
                   PROVE  next'[t] \in V \cup {next[c]} /\ earliest'[t] > dispatchNow
        OBVIOUS
      <4>1. next[t] \in V \cup {c} /\ t \in Armed \ {c} /\ earliest[t] > dispatchNow
        BY <1>2, <1>3, <3>1 DEF WalkedOver
      <4>2. next[t] = c => t = prev[c]
        BY <1>1, <4>1
      <4> QED
        BY <1>5, <1>6, <4>1, <4>2
    <3>4. \A t \in V \cup {next[c]} : t = timers \/ prev'[t] \in V
      <4>1. prev'[next[c]] = prev[c]
        BY <1>1, <1>6, <1>10
      <4>2. \A t \in V : prev'[t] = prev[t]
        BY <1>6, <3>1, <3>2
      <4> QED
        BY <1>2, <3>1, <4>1, <4>2 DEF WalkedOver
    <3>5. WalkedOver(V)'
      BY <2>1, <3>1, <3>2, <3>3, <3>4 DEF WalkedOver
    <3>6. V \in SUBSET Armed'
      BY <1>7, <3>1
    <3> QED
      BY <1>1, <2>1, <3>5, <3>6 DEF Walk, LeavesNoneDue
  <2> QED
    BY <2>2, <2>3
<1> QED
  BY <1>8, <1>9, <1>10

(* While the walk is going on no one else touches the timers on the list. *)
LEMMA WalkUntouched ==
    ASSUME IInv, Walk, UNCHANGED <<pc, cursor, dispatchNow, timers, earliest, prev>>,
           Armed' = Armed, \A t \in Armed : next'[t] = next[t]
    PROVE  Walk' /\ LeavesNoneDue
<1>1. CASE pc # "dispatch"
  BY <1>1 DEF Walk, LeavesNoneDue
<1>2. CASE pc = "dispatch"
  <2>1. PICK V \in SUBSET Armed : WalkedOver(V)
    BY <1>2 DEF Walk
  <2>2. \A t \in V : next'[t] = next[t]
    OBVIOUS
  <2>3. WalkedOver(V)'
    BY <2>1, <2>2 DEF WalkedOver
  <2> QED
    BY <1>2, <2>3 DEF Walk, LeavesNoneDue
<1> QED
  BY <1>1, <1>2

LEMMA NextKeepsWalk == IInv /\ Walk /\ [Next]_vars => Walk' /\ LeavesNoneDue
<1> SUFFICES ASSUME IInv, Walk, [Next]_vars PROVE Walk' /\ LeavesNoneDue
  OBVIOUS
<1>1. CASE pc # "dispatch" /\ pc' # "dispatch"
  BY <1>1 DEF Walk, LeavesNoneDue
<1>2. CASE Dispatch
  <2>1. pc # "dispatch"
    BY <1>2 DEF Dispatch
  <2>2. CASE pc' # "dispatch"
    BY <1>1, <2>1, <2>2
  <2>3. CASE pc' = "dispatch"
    <3>1. cursor' = timers /\ timers' = timers
      BY <1>2, <2>3 DEF Dispatch, DispatchTimers, timerVars, listVars
    <3>2. WalkedOver({})'
      BY <3>1 DEF WalkedOver
    <3> QED
      BY <2>1, <3>2 DEF Walk, LeavesNoneDue
  <2> QED
    BY <2>2, <2>3
<1>3. CASE DispatchDue \/ DispatchNotDue
  BY <1>3, WalkOverDue, WalkOverNotDue
<1>4. CASE \/ PollStep \/ RunTasklets \/ ThreadEnds
  BY <1>1, <1>4 DEF PollStep, Prepare, Poll, SkipPoll, PollWoken, PollEnds,
                    RunTasklets, ThreadEnds
<1>5. ASSUME NEW t \in Timer,
             \/ TimerFini(t) \/ TimerCancel(t)
             \/ \E w \in Window : TimerSet(t, w)
             \/ \E k \in Tasklet : TimerWait(k, t)
      PROVE  Walk' /\ LeavesNoneDue
  BY <1>1, <1>5 DEF TimerFini, TimerCancel, TimerSet, TimerWait, Unlocked, threadVars
<1>6. ASSUME NEW t \in Timer, TimerInit(t)
      PROVE  Walk' /\ LeavesNoneDue
  <2>1. /\ t \notin live /\ live' = live \cup {t}
        /\ next' = [next EXCEPT ![t] = NoTimer]
        /\ UNCHANGED <<pc, cursor, dispatchNow, timers, earliest, prev>>
    BY <1>6 DEF TimerInit, threadVars
  <2>2. TypeOK
    BY DEF IInv
  <2>3. next'[t] = NoTimer /\ \A u \in live : next'[u] = next[u]
    BY <2>1, <2>2 DEF TypeOK
  <2>4. Armed' = Armed /\ \A u \in Armed : next'[u] = next[u]
    BY <2>1, <2>3 DEF Armed, IsSet
  <2> QED
    BY <2>1, <2>4, WalkUntouched
<1>7. CASE PollStop
  BY <1>1, <1>7 DEF PollStop, Unlocked, threadVars
<1>8. CASE \/ Tick \/ UNCHANGED vars
           \/ \E k \in Tasklet : \/ Later(k) \/ Start(k) \/ Return(k)
                                 \/ WaitElsewhere(k) \/ Stop(k)
  <2>1. UNCHANGED <<timerVars, threadVars>>
    BY <1>8 DEF Tick, vars, Later, Start, Return, WaitElsewhere, Stop
  <2>2. UNCHANGED <<pc, cursor, dispatchNow, live, timers, earliest, next, prev>>
    BY <2>1 DEF timerVars, listVars, threadVars
  <2>3. Armed' = Armed
    BY <2>2 DEF Armed, IsSet
  <2> QED
    BY <2>2, <2>3, WalkUntouched
<1> QED
  BY <1>2, <1>3, <1>4, <1>5, <1>6, <1>7, <1>8
     DEF Next, PollThread, PollReturns, PollFindsEvent, PollTimesOut, TimerOp, PollStep

(* When dispatch_timers is through, no timer that was due at the time it   *)
(* looked is left, however many it has taken off the list on its way.      *)
THEOREM DispatchReachesAll == Spec => DispatchesAllDue
<1>1. Init => Walk
  BY DEF Init, Walk
<1>2. IInv /\ Walk /\ [Next]_vars => Walk'
  BY NextKeepsWalk
<1>3. IInv /\ Walk /\ [Next]_vars =>
         [pc = "dispatch" /\ pc' # "dispatch" =>
            \A t \in Awaited' : earliest[t] > dispatchNow]_vars
  BY NextKeepsWalk DEF LeavesNoneDue
<1> QED
  BY <1>1, <1>2, <1>3, IInvAlways, PTL DEF Spec, DispatchesAllDue
=============================================================================
