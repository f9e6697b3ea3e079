----------------------------- MODULE PollTimers -----------------------------
(***************************************************************************)
(* Timers and the loop of the poll thread: src/poll_common.c, with what    *)
(* the loop needs of poll_poll and poll_wake in the two back ends.         *)
(*                                                                         *)
(* The timers that are set form a circular list, under the poll mutex.  An *)
(* operation on a timer holds the mutex from beginning to end and is one   *)
(* action; the poll thread holds it while it dispatches the timers, one    *)
(* action for each timer.                                                  *)
(***************************************************************************)
EXTENDS Integers, FiniteSetsExt

CONSTANTS
    Timer, Tasklet,
    Window,         \* earliest and latest, as timers are set
    Backend,        \* "poll" or "epoll"
    Millisecond,    \* in units of xtime_t: 1000 in the code
    IntMax,         \* the largest int
    MaxTime,        \* bounds the clock
    MaxWakes,       \* bounds the wake-ups that have not been taken
    NoTimer

ASSUME ConstantsAssumption ==
    /\ Window \subseteq {w \in [earliest : Nat, latest : Nat] : w.earliest < w.latest}
    /\ Window # {}
    /\ Backend \in {"poll", "epoll"}
    /\ Millisecond \in Nat \ {0}
    /\ IntMax \in Nat
    /\ NoTimer \notin Timer

VARIABLES
    live,               \* the timers between timer_init and timer_fini
    wanted,             \* history: the timers set since, and not cancelled
    earliest, latest, fired, next, prev,    \* struct timer
    waiting,            \* the tasklets on the wait list of each timer
    timers, woken, stopping,                \* struct poll_common
    pc,                 \* of the poll thread
    until,              \* timeout, and then when the poll times out
    sawWake,            \* the poll found a byte in the pipe
    cursor, dispatchNow,                    \* t and now, in dispatch_timers
    wakes,              \* bytes in the pipe, or the signal that is pending
    now,
    pending, running    \* the tasklets to be run, and those that run

listVars == <<next, prev, timers>>
timerVars == <<live, wanted, earliest, latest, fired, listVars>>
threadVars == <<pc, until, sawWake, cursor, dispatchNow>>
wakeVars == <<woken, wakes>>
taskVars == <<waiting, pending, running>>
vars == <<timerVars, threadVars, wakeVars, taskVars, stopping, now>>

(* The timeout when there is no timer. *)
Forever == -1

Init ==
    /\ live = {}
    /\ wanted = {}
    /\ \E w \in Window :
         /\ earliest = [t \in Timer |-> w.earliest]
         /\ latest = [t \in Timer |-> w.latest]
    /\ fired = [t \in Timer |-> FALSE]
    /\ next = [t \in Timer |-> NoTimer]
    /\ prev = [t \in Timer |-> NoTimer]
    /\ waiting = [t \in Timer |-> {}]
    /\ timers = NoTimer
    /\ woken = TRUE
    /\ stopping = FALSE
    /\ pc = "top"
    /\ until = Forever
    /\ sawWake = FALSE
    /\ cursor = NoTimer
    /\ dispatchNow = 0
    /\ wakes = 0
    /\ now = 0
    /\ pending = {}
    /\ running = {}

(* The poll mutex is free. *)
Unlocked == pc # "dispatch"

IsSet(t) == next[t] # NoTimer

Armed == {t \in live : IsSet(t)}

(* The timers that are to fire, by what was asked of them. *)
Awaited == {t \in live \cap wanted : ~fired[t]}

-----------------------------------------------------------------------------
(* Waking the poll thread. *)

(* poll_wake: a byte for the pipe, or a signal, of which one is pending at *)
(* most.                                                                   *)
PollWake ==
    /\ wakes < MaxWakes
    /\ wakes' = IF Backend = "poll" THEN wakes + 1 ELSE 1

(* Seeded defect: a wake-up is thought to be needed for timers only. *)
WakeThreadIfTimers ==
    IF woken \/ timers = NoTimer THEN UNCHANGED wakeVars
    ELSE woken' = TRUE /\ PollWake

(* poll_common_wake *)
WakeThread ==
    IF woken THEN UNCHANGED wakeVars ELSE woken' = TRUE /\ PollWake

-----------------------------------------------------------------------------
(* Operations on timers. *)

TimerInit(t) ==
    /\ t \notin live
    /\ ~stopping
    /\ live' = live \cup {t}
    /\ next' = [next EXCEPT ![t] = NoTimer]
    /\ fired' = [fired EXCEPT ![t] = FALSE]
    /\ waiting' = [waiting EXCEPT ![t] = {}]
    /\ UNCHANGED <<wanted, earliest, latest, prev, timers>>
    /\ UNCHANGED <<threadVars, wakeVars, pending, running, stopping, now>>

(* Seeded defect: the timer before t is still taken to be before it. *)
PrevUnchanged(t) == prev

(* The links of the others, when t is taken off the list. *)
NextWithout(t) == IF IsSet(t) THEN [next EXCEPT ![prev[t]] = next[t]] ELSE next
PrevWithout(t) == IF IsSet(t) THEN [prev EXCEPT ![next[t]] = prev[t]] ELSE prev

HeadWithout(t) ==
    IF IsSet(t)
    THEN IF next[t] = t THEN NoTimer
         ELSE IF timers = t THEN next[t]
         ELSE timers
    ELSE timers

TimerFini(t) ==
    /\ Unlocked
    /\ t \in live
    /\ live' = live \ {t}
    /\ wanted' = wanted \ {t}
    /\ next' = NextWithout(t)
    /\ prev' = PrevWithout(t)
    /\ timers' = HeadWithout(t)
    /\ WakeThread
    /\ waiting' = [waiting EXCEPT ![t] = {}]
    /\ pending' = pending \cup waiting[t]
    /\ UNCHANGED <<earliest, latest, fired, running, threadVars, stopping, now>>

(* A timer that is not set goes to the end of the list. *)
LinkLast(t) ==
    IF IsSet(t) THEN UNCHANGED listVars
    ELSE IF timers = NoTimer
    THEN /\ next' = [next EXCEPT ![t] = t]
         /\ prev' = [prev EXCEPT ![t] = t]
         /\ timers' = t
    ELSE /\ next' = [next EXCEPT ![t] = timers, ![prev[timers]] = t]
         /\ prev' = [prev EXCEPT ![t] = prev[timers], ![timers] = t]
         /\ UNCHANGED timers

TimerSet(t, w) ==
    /\ Unlocked
    /\ t \in live
    /\ wanted' = wanted \cup {t}
    /\ earliest' = [earliest EXCEPT ![t] = w.earliest]
    /\ latest' = [latest EXCEPT ![t] = w.latest]
    /\ fired' = [fired EXCEPT ![t] = FALSE]
    /\ LinkLast(t)
    /\ WakeThread
    /\ UNCHANGED <<live, threadVars, taskVars, stopping, now>>

(* Seeded defect: the timer is left on the list. *)
TimerCancelOnlyFired(t) ==
    /\ Unlocked
    /\ t \in live
    /\ wanted' = wanted \ {t}
    /\ fired' = [fired EXCEPT ![t] = FALSE]
    /\ WakeThread
    /\ UNCHANGED <<live, earliest, latest, listVars, threadVars, taskVars, stopping, now>>

TimerCancel(t) ==
    /\ Unlocked
    /\ t \in live
    /\ wanted' = wanted \ {t}
    /\ next' = [NextWithout(t) EXCEPT ![t] = NoTimer]
    /\ prev' = PrevWithout(t)
    /\ timers' = HeadWithout(t)
    /\ fired' = [fired EXCEPT ![t] = FALSE]
    /\ WakeThread
    /\ UNCHANGED <<live, earliest, latest, threadVars, taskVars, stopping, now>>

(* A wait list has each tasklet once, and a tasklet is on one wait list.   *)
Waiting(k, t) == [u \in Timer |-> IF u = t THEN waiting[u] \cup {k} ELSE waiting[u] \ {k}]

(* Seeded defect: fired is not looked at. *)
TimerWaitBlindly(k, t) ==
    /\ Unlocked
    /\ t \in live
    /\ k \in running
    /\ waiting' = Waiting(k, t)
    /\ running' = running \ {k}
    /\ UNCHANGED <<timerVars, threadVars, wakeVars, pending, stopping, now>>

(* timer_wait, for a timer that has not fired: the handler returns.  For   *)
(* one that has, the handler goes on and nothing changes.                  *)
TimerWait(k, t) ==
    /\ Unlocked
    /\ t \in live
    /\ ~fired[t]
    /\ k \in running
    /\ waiting' = Waiting(k, t)
    /\ running' = running \ {k}
    /\ UNCHANGED <<timerVars, threadVars, wakeVars, pending, stopping, now>>

-----------------------------------------------------------------------------
(* The poll thread. *)

(* Seeded defect: the list is taken to be in order of latest. *)
HeadLatest == IF timers = NoTimer THEN Forever ELSE latest[timers]

(* earliest_latest *)
EarliestLatest ==
    IF timers = NoTimer THEN Forever ELSE Min({latest[t] : t \in Armed})

Prepare ==
    /\ pc = "top"
    /\ ~stopping
    /\ until' = EarliestLatest
    /\ woken' = FALSE
    /\ pc' = "prepared"
    /\ UNCHANGED <<timerVars, sawWake, cursor, dispatchNow, wakes, taskVars, stopping, now>>

(* The conversion of a timeout to an int. *)
AsInt(n) == ((n + IntMax + 1) % (2 * IntMax + 2)) - IntMax - 1

(* poll_poll: the timeout is rounded down to milliseconds, and a negative  *)
(* one is for ever.                                                        *)
PollUntil ==
    IF until = Forever THEN Forever
    ELSE LET ms == AsInt((until - now) \div Millisecond)
         IN  IF ms < 0 THEN Forever ELSE now + ms * Millisecond

(* The clock is read, and the poll begins. *)
Poll ==
    /\ pc = "prepared"
    /\ until = Forever \/ until > now
    /\ until' = PollUntil
    /\ pc' = "polling"
    /\ UNCHANGED <<timerVars, sawWake, cursor, dispatchNow, wakeVars, taskVars, stopping, now>>

(* A timer is due: there is no poll, and its results are those of no poll. *)
SkipPoll ==
    /\ pc = "prepared"
    /\ until # Forever
    /\ until <= now
    /\ sawWake' = FALSE
    /\ pc' = "polled"
    /\ UNCHANGED <<timerVars, until, cursor, dispatchNow, wakeVars, taskVars, stopping, now>>

(* What is in the pipe stays there until poll_dispatch reads it; a signal  *)
(* is gone when epoll_pwait returns with EINTR.                            *)
PollWoken ==
    /\ pc = "polling"
    /\ wakes > 0
    /\ sawWake' = (Backend = "poll")
    /\ wakes' = IF Backend = "poll" THEN wakes ELSE 0
    /\ pc' = "polled"
    /\ UNCHANGED <<timerVars, until, cursor, dispatchNow, woken, taskVars, stopping, now>>

PollEnds ==
    /\ pc = "polling"
    /\ sawWake' = (Backend = "poll" /\ wakes > 0)
    /\ pc' = "polled"
    /\ UNCHANGED <<timerVars, until, cursor, dispatchNow, wakeVars, taskVars, stopping, now>>

PollTimesOut == until # Forever /\ until <= now /\ PollEnds

(* There is an event for a watched descriptor. *)
PollFindsEvent == PollEnds

(* dispatch_timers, as far as its loop.  Of the variables of the thread,   *)
(* those that are of no more use get their first values back.              *)
DispatchTimers ==
    /\ IF timers = NoTimer
       THEN pc' = "run" /\ UNCHANGED <<cursor, dispatchNow>>
       ELSE pc' = "dispatch" /\ cursor' = timers /\ dispatchNow' = now
    /\ until' = Forever
    /\ sawWake' = FALSE

(* Seeded defect: a byte is read from the pipe even after no poll. *)
DispatchReads ==
    /\ pc = "polled"
    /\ ~stopping
    /\ woken' = TRUE
    /\ wakes' = wakes - 1
    /\ DispatchTimers
    /\ UNCHANGED <<timerVars, taskVars, stopping, now>>

(* poll_dispatch, and the beginning of dispatch_timers. *)
Dispatch ==
    /\ pc = "polled"
    /\ ~stopping
    /\ woken' = TRUE
    /\ wakes' = IF sawWake THEN wakes - 1 ELSE wakes
    /\ DispatchTimers
    /\ UNCHANGED <<timerVars, taskVars, stopping, now>>

(* The loop goes on at t, or ends. *)
GoOn(t) == cursor' = t /\ UNCHANGED <<pc, dispatchNow>>
End == pc' = "run" /\ cursor' = NoTimer /\ dispatchNow' = 0

(* Seeded defect: the loop also ends when the head has been removed. *)
DispatchDueOnce ==
    /\ pc = "dispatch"
    /\ earliest[cursor] <= dispatchNow
    /\ fired' = [fired EXCEPT ![cursor] = TRUE]
    /\ pending' = pending \cup waiting[cursor]
    /\ next' = [NextWithout(cursor) EXCEPT ![cursor] = NoTimer]
    /\ prev' = PrevWithout(cursor)
    /\ timers' = HeadWithout(cursor)
    /\ IF timers' \in {next[cursor], NoTimer} THEN End ELSE GoOn(next[cursor])
    /\ UNCHANGED <<live, wanted, earliest, latest, until, sawWake, wakeVars,
                   waiting, running, stopping, now>>

(* When the head is removed the loop goes on at the new head. *)
DispatchDue ==
    /\ pc = "dispatch"
    /\ earliest[cursor] <= dispatchNow
    /\ fired' = [fired EXCEPT ![cursor] = TRUE]
    /\ pending' = pending \cup waiting[cursor]
    /\ next' = [NextWithout(cursor) EXCEPT ![cursor] = NoTimer]
    /\ prev' = PrevWithout(cursor)
    /\ timers' = HeadWithout(cursor)
    /\ IF next[cursor] = cursor \/ timers = next[cursor]
       THEN End ELSE GoOn(next[cursor])
    /\ UNCHANGED <<live, wanted, earliest, latest, until, sawWake, wakeVars,
                   waiting, running, stopping, now>>

DispatchNotDue ==
    /\ pc = "dispatch"
    /\ earliest[cursor] > dispatchNow
    /\ IF next[cursor] = timers THEN End ELSE GoOn(next[cursor])
    /\ UNCHANGED <<timerVars, until, sawWake, wakeVars, taskVars, stopping, now>>

(* run_queue_run, for the tasklets that the poll thread has run. *)
RunTasklets ==
    /\ pc = "run"
    /\ pc' = "top"
    /\ UNCHANGED <<timerVars, until, sawWake, cursor, dispatchNow, wakeVars,
                   taskVars, stopping, now>>

(* poll_common_stop, when the program exits. *)
PollStop ==
    /\ Unlocked
    /\ ~stopping
    /\ live = {}
    /\ stopping' = TRUE
    /\ WakeThread
    /\ UNCHANGED <<timerVars, threadVars, taskVars, now>>

ThreadEnds ==
    /\ pc \in {"top", "polled"}
    /\ stopping
    /\ pc' = "done"
    /\ UNCHANGED <<timerVars, until, sawWake, cursor, dispatchNow, wakeVars,
                   taskVars, stopping, now>>

-----------------------------------------------------------------------------
(* The clock, and the tasklets that use timers.                            *)

Tick ==
    /\ now < MaxTime
    /\ now' = now + 1
    /\ UNCHANGED <<timerVars, threadVars, wakeVars, taskVars, stopping>>

(* tasklet_later, tasklet_run *)
Later(k) ==
    /\ pending' = pending \cup {k}
    /\ UNCHANGED <<timerVars, threadVars, wakeVars, waiting, running, stopping, now>>

Start(k) ==
    /\ k \in pending \ running
    /\ pending' = pending \ {k}
    /\ running' = running \cup {k}
    /\ UNCHANGED <<timerVars, threadVars, wakeVars, waiting, stopping, now>>

(* A handler returns, and is run again. *)
Return(k) ==
    /\ k \in running \cap pending
    /\ running' = running \ {k}
    /\ UNCHANGED <<timerVars, threadVars, wakeVars, waiting, pending, stopping, now>>

(* A handler waits for something other than a timer. *)
WaitElsewhere(k) ==
    /\ k \in running
    /\ running' = running \ {k}
    /\ waiting' = [u \in Timer |-> waiting[u] \ {k}]
    /\ UNCHANGED <<timerVars, threadVars, wakeVars, pending, stopping, now>>

(* tasklet_stop, by the handler of k before it returns, or while k does    *)
(* not run.                                                                *)
Stop(k) ==
    /\ pending' = pending \ {k}
    /\ running' = running \ {k}
    /\ waiting' = [u \in Timer |-> waiting[u] \ {k}]
    /\ UNCHANGED <<timerVars, threadVars, wakeVars, stopping, now>>

-----------------------------------------------------------------------------
PollReturns == PollWoken \/ PollTimesOut

PollThread ==
    \/ Prepare \/ Poll \/ SkipPoll \/ PollReturns
    \/ Dispatch \/ DispatchDue \/ DispatchNotDue \/ RunTasklets \/ ThreadEnds

TimerOp(t) ==
    \/ TimerInit(t) \/ TimerFini(t) \/ TimerCancel(t)
    \/ \E w \in Window : TimerSet(t, w)
    \/ \E k \in Tasklet : TimerWait(k, t)

Next ==
    \/ PollThread \/ PollFindsEvent \/ PollStop \/ Tick
    \/ \E t \in Timer : TimerOp(t)
    \/ \E k \in Tasklet : Later(k) \/ Start(k) \/ Return(k) \/ WaitElsewhere(k) \/ Stop(k)

Spec == Init /\ [][Next]_vars
FairSpec == Spec /\ WF_vars(PollThread)

-----------------------------------------------------------------------------
TypeOK ==
    /\ live \subseteq Timer
    /\ wanted \subseteq live
    /\ earliest \in [Timer -> Nat]
    /\ latest \in [Timer -> Nat]
    /\ fired \in [Timer -> BOOLEAN]
    /\ next \in [Timer -> Timer \cup {NoTimer}]
    /\ prev \in [Timer -> Timer \cup {NoTimer}]
    /\ waiting \in [Timer -> SUBSET Tasklet]
    /\ timers \in Timer \cup {NoTimer}
    /\ woken \in BOOLEAN
    /\ stopping \in BOOLEAN
    /\ pc \in {"top", "prepared", "polling", "polled", "dispatch", "run", "done"}
    /\ until \in Nat \cup {Forever}
    /\ sawWake \in BOOLEAN
    /\ cursor \in Timer \cup {NoTimer}
    /\ dispatchNow \in Nat
    /\ wakes \in Nat
    /\ now \in Nat
    /\ pending \subseteq Tasklet
    /\ running \subseteq Tasklet

(* The timers that are to fire, and those only, form one circle, also      *)
(* between any two steps of dispatch_timers, which goes along it.          *)
OneCircle ==
    /\ Armed = Awaited
    /\ \A t \in Armed : /\ next[t] \in Armed
                        /\ prev[t] \in Armed
                        /\ prev[next[t]] = t
                        /\ next[prev[t]] = t
    /\ \A S \in SUBSET Armed : S = {} \/ S = Armed \/ \E t \in S : next[t] \notin S
    /\ IF Armed = {} THEN timers = NoTimer ELSE timers \in Armed
    /\ pc = "dispatch" => cursor \in Armed

(* The poll thread never sleeps past the latest time of a timer, or through *)
(* poll_common_stop, unless a wake-up is on its way to it.                 *)
NoOversleep ==
    pc = "polling" /\ wakes = 0 =>
        /\ ~stopping
        /\ \A t \in Awaited : until \in 0 .. latest[t]

(* dispatch_timers leaves no timer that is due on the list it walks. *)
DispatchesAllDue ==
    [][pc = "dispatch" /\ pc' # "dispatch" =>
          \A t \in Awaited' : earliest[t] > dispatchNow]_vars

(* A tasklet that waits for a timer that has fired is awake, or has come   *)
(* back for it.                                                            *)
WaitersAwake ==
    \A t \in live : fired[t] => waiting[t] \subseteq pending \cup running

Service ==
    INSTANCE TimerService WITH
        status <- [t \in Timer |-> IF t \notin live THEN "none"
                                   ELSE IF fired[t] THEN "fired"
                                   ELSE IF t \in wanted THEN "armed" ELSE "idle"],
        window <- [t \in Timer |-> [earliest |-> earliest[t], latest |-> latest[t]]]

(* What happens to timers is what timer.h promises: each setting fires     *)
(* once at most, not early, and not after it was cancelled or replaced.    *)
ImplementsService == Service!Spec

Overdue(t) == t \in Awaited /\ latest[t] <= now

(* A timer whose time has come fires, unless it is cancelled or set again. *)
OverdueFires == \A t \in Timer : Overdue(t) ~> ~Overdue(t)

(* The poll thread ends when it is told to. *)
StopEnds == stopping ~> pc = "done"
=============================================================================
