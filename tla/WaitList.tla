------------------------------ MODULE WaitList ------------------------------
(***************************************************************************)
(* The wait lists of src/tasklet.c: wait_list_wait, wait_list_down,        *)
(* wait_list_up, wait_list_set, wait_list_broadcast, wait_list_fini and    *)
(* tasklet_unwait, with the part of run_queue_run, tasklet_stop and        *)
(* tasklet_fini that touches a tasklet's wait fields.                      *)
(*                                                                         *)
(* The code that acts for a tasklet (its handler, or whoever stops or      *)
(* finalizes it) holds the tasklet's mutex, so each tasklet is one process.*)
(* tasklet_unwait is two steps, because it lets go of t->wait_mutex to     *)
(* take the wait list's mutex first.  wait_list_fini keeps the wait list's *)
(* mutex over several steps; the other critical sections are one step.     *)
(* Scheduling is that of TaskletSched.                                     *)
(***************************************************************************)
EXTENDS Integers, FiniteSets, SequencesExt

CONSTANTS
    Tasklet, WaitList,
    Sema,               \* the lists used with down, up and set, as every list
                        \* in src/ is that is not used with wait and broadcast
    MaxUp,              \* bound on up_count
    NoList

ASSUME ConstantsAssumption ==
    /\ MaxUp \in Nat
    /\ NoList \notin WaitList
    /\ IsFiniteSet(Tasklet)
    /\ Sema \subseteq WaitList

VARIABLES
    (* struct tasklet *)
    wait, waited,
    tUnwaiting,         \* t->unwaiting
    (* struct wait_list *)
    list,               \* the tasklets from head on, along wait_next
    unwaiting, upCount,
    fini,               \* where wait_list_fini is
    (* scheduling *)
    pending,            \* to be run (again)
    stopped,            \* stopped since the handler started
    (* the code that acts for a tasklet *)
    pc,
    op,                 \* the call it is in
    result,             \* what the last call on a wait list returned
    target              \* w, the local variable of tasklet_unwait

tvars == <<wait, waited, tUnwaiting>>
wvars == <<list, unwaiting, upCount>>
svars == <<pending, stopped>>
pvars == <<pc, op, result, target>>
vars == <<tvars, wvars, fini, svars, pvars>>

NoOp == [kind |-> "none", w |-> NoList]

Init ==
    /\ wait = [t \in Tasklet |-> NoList]
    /\ waited = [t \in Tasklet |-> FALSE]
    /\ tUnwaiting = [t \in Tasklet |-> 0]
    /\ list = [w \in WaitList |-> << >>]
    /\ unwaiting = [w \in WaitList |-> 0]
    /\ upCount = [w \in WaitList |-> 0]
    /\ fini = [w \in WaitList |-> "none"]
    /\ pending = [t \in Tasklet |-> FALSE]
    /\ stopped = [t \in Tasklet |-> FALSE]
    /\ pc = [t \in Tasklet |-> "idle"]
    /\ op = [t \in Tasklet |-> NoOp]
    /\ result = [t \in Tasklet |-> TRUE]
    /\ target = [t \in Tasklet |-> NoList]

-----------------------------------------------------------------------------
Without(s, t) == RemoveAt(s, CHOOSE n \in DOMAIN s : s[n] = t)

(* tasklet_run on each of ts, with what becomes of the stopped flag: the   *)
(* run queue keeps one state, and a later tasklet_run overrides a stop.    *)
RunAll(ts) ==
    /\ pending' = [t \in Tasklet |-> pending[t] \/ t \in ts]
    /\ stopped' = [t \in Tasklet |-> stopped[t] /\ t \notin ts]

(* The wait list's mutex can be taken: wait_list_fini does not have it.    *)
Free(w) == fini[w] \in {"none", "wait", "woken"}

(* The wait list is in use: between wait_list_init and wait_list_fini.     *)
InUse(w) == fini[w] = "none"

Goto(t, label) == pc' = [pc EXCEPT ![t] = label]

-----------------------------------------------------------------------------
(* Scheduling: run_queue_run, tasklet_later, tasklet_init.                 *)

(* tasklet_run from elsewhere than a wait list: not on a tasklet that is   *)
(* being finalized.                                                        *)
Later(t) ==
    /\ pc[t] # "dead"
    /\ op[t].kind # "fini"
    /\ RunAll({t})
    /\ UNCHANGED <<tvars, wvars, fini, pvars>>

Start(t) ==
    /\ pc[t] = "idle"
    /\ pending[t]
    /\ pending' = [pending EXCEPT ![t] = FALSE]
    /\ stopped' = [stopped EXCEPT ![t] = FALSE]
    /\ waited' = [waited EXCEPT ![t] = FALSE]
    /\ result' = [result EXCEPT ![t] = TRUE]
    /\ Goto(t, "body")
    /\ UNCHANGED <<wait, tUnwaiting, wvars, fini, op, target>>

(* A handler returns when it has been told to wait, or has arranged to be  *)
(* run again, or has stopped its tasklet.                                  *)
Return(t) ==
    /\ pc[t] = "body"
    /\ ~result[t] \/ pending[t] \/ stopped[t]
    /\ Goto(t, "idle")
    /\ UNCHANGED <<tvars, wvars, fini, svars, op, result, target>>

TaskletInit(t) ==
    /\ pc[t] = "dead"
    /\ Goto(t, "idle")
    /\ wait' = [wait EXCEPT ![t] = NoList]
    /\ tUnwaiting' = [tUnwaiting EXCEPT ![t] = 0]
    /\ UNCHANGED <<waited, wvars, fini, svars, op, result, target>>

-----------------------------------------------------------------------------
(* The calls a handler makes on a wait list.                               *)

Call(t, kind, w) ==
    /\ pc[t] = "body"
    /\ InUse(w)
    /\ kind = "down" <=> w \in Sema
    /\ op' = [op EXCEPT ![t] = [kind |-> kind, w |-> w]]
    /\ Goto(t, "call")
    /\ UNCHANGED <<tvars, wvars, fini, svars, result, target>>

(* wait_list_add: to the tail, and run at once if there is something to    *)
(* be had.                                                                 *)
Add(w, t) ==
    /\ wait' = [wait EXCEPT ![t] = w]
    /\ list' = [list EXCEPT ![w] = Append(@, t)]
    /\ RunAll(IF list[w] = << >> /\ upCount[w] > 0 THEN {t} ELSE {})

Answer(t, res) ==
    /\ result' = [result EXCEPT ![t] = res]
    /\ op' = [op EXCEPT ![t] = NoOp]
    /\ Goto(t, "body")

Wait(t) ==
    LET w == op[t].w
    IN  /\ pc[t] = "call"
        /\ op[t].kind = "wait"
        /\ Free(w)
        /\ wait[t] \in {NoList, w}
        /\ IF wait[t] = w THEN UNCHANGED <<wait, list, svars>> ELSE Add(w, t)
        /\ waited' = [waited EXCEPT ![t] = TRUE]
        /\ Answer(t, FALSE)
        /\ UNCHANGED <<tUnwaiting, unwaiting, upCount, fini, target>>

(* Seeded defect: the count is not looked at. *)
DownTakeBlindly(t) ==
    LET w == op[t].w
    IN  /\ pc[t] = "call"
        /\ op[t].kind = "down"
        /\ Free(w)
        /\ wait[t] \in {NoList, w}
        /\ upCount' = [upCount EXCEPT ![w] = @ - 1]
        /\ Answer(t, TRUE)
        /\ UNCHANGED <<tvars, list, unwaiting, fini, svars, target>>

(* wait_list_down(w, 1, t), when there is something to be had.             *)
DownTake(t) ==
    LET w == op[t].w
    IN  /\ pc[t] = "call"
        /\ op[t].kind = "down"
        /\ Free(w)
        /\ wait[t] \in {NoList, w}
        /\ upCount[w] >= 1
        /\ upCount' = [upCount EXCEPT ![w] = @ - 1]
        /\ Answer(t, TRUE)
        /\ UNCHANGED <<tvars, list, unwaiting, fini, svars, target>>

DownWait(t) ==
    LET w == op[t].w
    IN  /\ pc[t] = "call"
        /\ op[t].kind = "down"
        /\ Free(w)
        /\ wait[t] \in {NoList, w}
        /\ upCount[w] < 1
        /\ IF wait[t] = w THEN UNCHANGED <<wait, list, svars>> ELSE Add(w, t)
        /\ waited' = [waited EXCEPT ![t] = TRUE]
        /\ Answer(t, FALSE)
        /\ UNCHANGED <<tUnwaiting, unwaiting, upCount, fini, target>>

(* The tasklet is on another wait list: leave that one first.              *)
Leave(t) ==
    /\ pc[t] = "call"
    /\ Free(op[t].w)
    /\ wait[t] \notin {NoList, op[t].w}
    /\ Goto(t, "unwait")
    /\ UNCHANGED <<tvars, wvars, fini, svars, op, result, target>>

(* tasklet_stop and tasklet_fini, from the handler or from outside it      *)
(* ("halt" is a tasklet_stop from outside).                                *)
CallStop(t, kind) ==
    /\ \/ pc[t] = "body" /\ kind \in {"stop", "fini"}
       \/ pc[t] = "idle" /\ kind \in {"halt", "fini"}
    /\ op' = [op EXCEPT ![t] = [kind |-> kind, w |-> NoList]]
    /\ Goto(t, "unwait")
    /\ UNCHANGED <<tvars, wvars, fini, svars, result, target>>

-----------------------------------------------------------------------------
(* tasklet_unwait *)

AfterUnwait(t) ==
    Goto(t, IF op[t].kind \in {"wait", "down"} THEN "call" ELSE "off")

(* Off any wait list already. *)
UnwaitNothing(t) ==
    /\ pc[t] = "unwait"
    /\ wait[t] = NoList
    /\ AfterUnwait(t)
    /\ UNCHANGED <<tvars, wvars, fini, svars, op, result, target>>

(* Announce the caller under t->wait_mutex, and go for the list's mutex.   *)
UnwaitAnnounce(t) ==
    /\ pc[t] = "unwait"
    /\ wait[t] # NoList
    /\ target' = [target EXCEPT ![t] = wait[t]]
    /\ tUnwaiting' = [tUnwaiting EXCEPT ![t] = @ + 1]
    /\ Goto(t, "blocked")
    /\ UNCHANGED <<wait, waited, wvars, fini, svars, op, result>>

(* Still on the list, with what is added to the list's unwaiting, and      *)
(* whether the next tasklet is run, as parameters.                         *)
RemoveFromList(t, extra, baton) ==
    LET w == target[t]
        rest == Without(list[w], t)
    IN  /\ pc[t] = "blocked"
        /\ Free(w)
        /\ wait[t] = w
        /\ wait' = [wait EXCEPT ![t] = NoList]
        /\ unwaiting' = [unwaiting EXCEPT ![w] = @ + extra]
        /\ tUnwaiting' = [tUnwaiting EXCEPT ![t] = 0]
        /\ list' = [list EXCEPT ![w] = rest]
        /\ RunAll(IF Head(list[w]) = t /\ rest # << >> /\ baton
                  THEN {Head(rest)} ELSE {})
        /\ target' = [target EXCEPT ![t] = NoList]
        /\ AfterUnwait(t)
        /\ UNCHANGED <<waited, upCount, fini, op, result>>

(* Seeded defect: the caller is counted as still to come. *)
UnwaitRemoveMiscounts(t) ==
    RemoveFromList(t, tUnwaiting[t], upCount[target[t]] > 0)

(* Seeded defect: what the head leaves behind is not passed on. *)
UnwaitRemoveKeepsBaton(t) ==
    RemoveFromList(t, tUnwaiting[t] - 1, FALSE)

(* Still on the list: remove it, and pass on what the head has not taken.  *)
UnwaitRemove(t) ==
    RemoveFromList(t, tUnwaiting[t] - 1, upCount[target[t]] > 0)

(* Seeded defect: wait_list_fini is not signalled. *)
UnwaitGoneSilently(t) ==
    LET w == target[t]
    IN  /\ pc[t] = "blocked"
        /\ Free(w)
        /\ wait[t] # w
        /\ unwaiting' = [unwaiting EXCEPT ![w] = @ - 1]
        /\ target' = [target EXCEPT ![t] = NoList]
        /\ Goto(t, "unwait")
        /\ UNCHANGED <<tvars, list, upCount, fini, svars, op, result>>

(* wait_list_fini got there first: the last to notice wakes it.            *)
UnwaitGone(t) ==
    LET w == target[t]
    IN  /\ pc[t] = "blocked"
        /\ Free(w)
        /\ wait[t] # w
        /\ unwaiting' = [unwaiting EXCEPT ![w] = @ - 1]
        /\ fini' = IF unwaiting[w] = 1 /\ fini[w] = "wait"
                   THEN [fini EXCEPT ![w] = "woken"] ELSE fini
        /\ target' = [target EXCEPT ![t] = NoList]
        /\ Goto(t, "unwait")
        /\ UNCHANGED <<tvars, list, upCount, svars, op, result>>

(* The rest of tasklet_stop and tasklet_fini: off the run queue.           *)
Stopped(t) ==
    /\ pc[t] = "off"
    /\ pending' = [pending EXCEPT ![t] = FALSE]
    /\ stopped' = [stopped EXCEPT ![t] = TRUE]
    /\ op' = [op EXCEPT ![t] = NoOp]
    /\ Goto(t, CASE op[t].kind = "fini" -> "dead"
                 [] op[t].kind = "halt" -> "idle"
                 [] OTHER -> "body")
    /\ UNCHANGED <<tvars, wvars, fini, result, target>>

-----------------------------------------------------------------------------
(* What other threads do to a wait list.                                   *)

Up(w, n) ==
    /\ InUse(w)
    /\ w \in Sema
    /\ upCount[w] + n <= MaxUp
    /\ upCount' = [upCount EXCEPT ![w] = @ + n]
    /\ RunAll(IF list[w] = << >> THEN {} ELSE {Head(list[w])})
    /\ UNCHANGED <<tvars, list, unwaiting, fini, pvars>>

Broadcast(w) ==
    /\ InUse(w)
    /\ w \notin Sema
    /\ RunAll(ToSet(list[w]))
    /\ UNCHANGED <<tvars, wvars, fini, pvars>>

(* wait_list_set, with the broadcast its only caller asks for.             *)
Set(w, n) ==
    /\ InUse(w)
    /\ w \in Sema
    /\ upCount' = [upCount EXCEPT ![w] = n]
    /\ RunAll(ToSet(list[w]))
    /\ UNCHANGED <<tvars, list, unwaiting, fini, pvars>>

(* wait_list_fini.  No call on w is being made, or will be; but tasklets   *)
(* can be on it, and on their way off it.                                  *)
FiniBegin(w) ==
    /\ InUse(w)
    /\ \A t \in Tasklet : op[t].w # w
    /\ fini' = [fini EXCEPT ![w] = IF list[w] = << >> THEN "done" ELSE "run"]
    /\ UNCHANGED <<tvars, wvars, svars, pvars>>

(* Seeded defect: the tasklet is not run when it is taken off the list.    *)
FiniRunNothing(w) ==
    /\ fini[w] = "run"
    /\ fini' = [fini EXCEPT ![w] = "detach"]
    /\ UNCHANGED <<tvars, wvars, svars, pvars>>

(* The loop, of which the two halves are under different mutexes.          *)
FiniRun(w) ==
    /\ fini[w] = "run"
    /\ RunAll({Head(list[w])})
    /\ fini' = [fini EXCEPT ![w] = "detach"]
    /\ UNCHANGED <<tvars, wvars, pvars>>

(* Seeded defect: wait_list_fini does not wait for those on their way. *)
FiniDetachOnly(w) ==
    LET t == Head(list[w])
    IN  /\ fini[w] = "detach"
        /\ unwaiting' = [unwaiting EXCEPT ![w] = @ + tUnwaiting[t]]
        /\ wait' = [wait EXCEPT ![t] = NoList]
        /\ tUnwaiting' = [tUnwaiting EXCEPT ![t] = 0]
        /\ list' = [list EXCEPT ![w] = Tail(@)]
        /\ fini' = [fini EXCEPT ![w] = IF Len(list[w]) > 1 THEN "run" ELSE "done"]
        /\ UNCHANGED <<waited, upCount, svars, pvars>>

FiniDetach(w) ==
    LET t == Head(list[w])
    IN  /\ fini[w] = "detach"
        /\ unwaiting' = [unwaiting EXCEPT ![w] = @ + tUnwaiting[t]]
        /\ wait' = [wait EXCEPT ![t] = NoList]
        /\ tUnwaiting' = [tUnwaiting EXCEPT ![t] = 0]
        /\ list' = [list EXCEPT ![w] = Tail(@)]
        /\ fini' = [fini EXCEPT ![w] =
                       IF Tail(list[w]) # << >> THEN "run"
                       ELSE IF unwaiting'[w] > 0 THEN "wait" ELSE "done"]
        /\ UNCHANGED <<waited, upCount, svars, pvars>>

(* cond_wait returns, with or without a signal.                            *)
FiniWoken(w) ==
    /\ fini[w] = "woken"
    /\ fini' = [fini EXCEPT ![w] = IF unwaiting[w] > 0 THEN "wait" ELSE "done"]
    /\ UNCHANGED <<tvars, wvars, svars, pvars>>

SpuriousWakeup(w) ==
    /\ fini[w] = "wait"
    /\ fini' = [fini EXCEPT ![w] = "woken"]
    /\ UNCHANGED <<tvars, wvars, svars, pvars>>

WaitListInit(w) ==
    /\ fini[w] = "done"
    /\ fini' = [fini EXCEPT ![w] = "none"]
    /\ list' = [list EXCEPT ![w] = << >>]
    /\ unwaiting' = [unwaiting EXCEPT ![w] = 0]
    /\ upCount' = [upCount EXCEPT ![w] = 0]
    /\ UNCHANGED <<tvars, svars, pvars>>

-----------------------------------------------------------------------------
CallStep(t) == Wait(t) \/ DownTake(t) \/ DownWait(t) \/ Leave(t)

UnwaitStep(t) ==
    \/ UnwaitNothing(t) \/ UnwaitAnnounce(t) \/ UnwaitRemove(t)
    \/ UnwaitGone(t) \/ Stopped(t)

FiniStep(w) == FiniRun(w) \/ FiniDetach(w) \/ FiniWoken(w)

Next ==
    \/ \E t \in Tasklet :
          \/ Later(t) \/ Start(t) \/ Return(t) \/ TaskletInit(t)
          \/ CallStep(t) \/ UnwaitStep(t)
          \/ \E w \in WaitList, kind \in {"wait", "down"} : Call(t, kind, w)
          \/ \E kind \in {"stop", "halt", "fini"} : CallStop(t, kind)
    \/ \E w \in WaitList :
          \/ FiniStep(w) \/ FiniBegin(w) \/ SpuriousWakeup(w)
          \/ WaitListInit(w) \/ Broadcast(w) \/ Set(w, 0)
          \/ \E n \in 1 .. MaxUp : Up(w, n)

(* Threads run, and a wait list's mutex that keeps being released is in    *)
(* the end acquired.                                                       *)
Fairness ==
    /\ \A t \in Tasklet : SF_vars(UnwaitStep(t))
    /\ \A w \in WaitList : WF_vars(FiniStep(w))

Spec == Init /\ [][Next]_vars
FairSpec == Spec /\ Fairness

-----------------------------------------------------------------------------
TypeOK ==
    /\ wait \in [Tasklet -> WaitList \cup {NoList}]
    /\ waited \in [Tasklet -> BOOLEAN]
    /\ tUnwaiting \in [Tasklet -> Nat]
    /\ list \in [WaitList -> Seq(Tasklet)]
    /\ unwaiting \in [WaitList -> Int]
    /\ upCount \in [WaitList -> 0 .. MaxUp]
    /\ fini \in [WaitList -> {"none", "run", "detach", "wait", "woken", "done"}]
    /\ pending \in [Tasklet -> BOOLEAN]
    /\ stopped \in [Tasklet -> BOOLEAN]
    /\ pc \in [Tasklet -> {"idle", "body", "call", "unwait", "blocked", "off",
                           "dead"}]
    /\ op \in [Tasklet -> [kind : {"none", "wait", "down", "stop", "halt", "fini"},
                           w : WaitList \cup {NoList}]]
    /\ result \in [Tasklet -> BOOLEAN]
    /\ target \in [Tasklet -> WaitList \cup {NoList}]

BlockedOn(w) == {t \in Tasklet : pc[t] = "blocked" /\ target[t] = w}

(* The two unwaiting fields account for every thread that is on its way to *)
(* a wait list's mutex: the list's for tasklets that have been taken off   *)
(* it, the tasklet's for the others.                                       *)
UnwaitingCounts ==
    /\ \A w \in WaitList :
          unwaiting[w] = Cardinality({t \in BlockedOn(w) : wait[t] # w})
    /\ \A t \in Tasklet :
          tUnwaiting[t] = IF \E w \in WaitList : t \in BlockedOn(w) /\ wait[t] = w
                          THEN 1 ELSE 0

(* When wait_list_fini has returned, the wait list can be freed: nobody is *)
(* on it, or on the way to its mutex.  And when tasklet_fini is done with  *)
(* a tasklet it is on no wait list, so nobody calls tasklet_run on it.     *)
FiniIsFinal ==
    /\ \A w \in WaitList : fini[w] = "done" =>
          \A t \in Tasklet : wait[t] # w /\ t \notin BlockedOn(w)
    /\ \A w \in WaitList : \A t \in ToSet(list[w]) : pc[t] \notin {"dead", "off"}

(* The assertions of run_queue_run: a handler that waited, and was neither *)
(* stopped nor told to run again, leaves its tasklet on a wait list, even  *)
(* if wait_list_fini is taking tasklets off that list meanwhile.           *)
NoDanglingTasklet ==
    \A t \in Tasklet :
        pc[t] = "body" /\ ~result[t] /\ ~pending[t] /\ ~stopped[t] =>
            waited[t] /\ wait[t] # NoList

(* Whoever is at the head of a list that has something to be had is going  *)
(* to come and see: it is to be run, or is still running.                  *)
Awake(t) == pending[t] \/ pc[t] \notin {"idle", "body"} \/ (pc[t] = "body" /\ result[t])

NoLostWakeup ==
    \A w \in WaitList :
        InUse(w) /\ upCount[w] > 0 /\ list[w] # << >> => Awake(Head(list[w]))

(* wait_list_fini returns, also when it has to wait for threads that are   *)
(* on their way to the list, and tasklet_unwait returns, and with it       *)
(* tasklet_stop and tasklet_fini, also when the list goes away meanwhile.  *)
FiniReturns == \A w \in WaitList : fini[w] # "none" ~> fini[w] \in {"done", "none"}
UnwaitReturns ==
    \A t \in Tasklet :
        pc[t] \in {"unwait", "blocked", "off"} ~>
            pc[t] \notin {"unwait", "blocked", "off"}
WaitCallsReturn == FiniReturns /\ UnwaitReturns
=============================================================================
