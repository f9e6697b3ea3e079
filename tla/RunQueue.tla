------------------------------ MODULE RunQueue ------------------------------
(***************************************************************************)
(* The run queues of src/tasklet.c: tasklet_run, tasklet_stop,             *)
(* tasklet_fini, run_queue_run and the worker threads.                     *)
(*                                                                         *)
(* Each run queue is serviced by one thread, which has the run queue's     *)
(* name.  The other threads are the clients.  Handlers and client code     *)
(* are "body": they make the calls of the API, at most one tasklet mutex   *)
(* being held by a thread at a time.                                       *)
(*                                                                         *)
(* A critical section under a run queue's mutex is one action, except that *)
(* the worker passes from the end of a handler to the label next with the  *)
(* mutex held (pc = "next"), and the unlocked read of t->runq that         *)
(* precedes a critical section is an action of its own.                    *)
(***************************************************************************)
EXTENDS FiniteSets

CONSTANTS
    Tasklet, Mutex, RunQ, Client,
    MutexOf,        \* the mutex given to tasklet_init
    Target,         \* thread_run_queue: the run queue a thread enqueues on
    WaitingRunQ,    \* run queues serviced with wait = TRUE
    ForeignStop,    \* may tasklet_stop be called outside the handler?
    NoTasklet, NoRunQ, NoThread

Thread == RunQ \cup Client

ASSUME ConstantsAssumption ==
    /\ RunQ \cap Client = {}
    /\ MutexOf \in [Tasklet -> Mutex]
    /\ Target \in [Thread -> RunQ]
    /\ WaitingRunQ \subseteq RunQ
    /\ ForeignStop \in BOOLEAN
    /\ NoTasklet \notin Tasklet
    /\ NoRunQ \notin RunQ
    /\ NoThread \notin Thread

VARIABLES
    (* struct tasklet *)
    runq, next, prev,   \* runq, runq_next, runq_prev
    life,               \* between tasklet_init and tasklet_fini, or not
    (* struct run_queue *)
    head, current, currentState, stopWaiting, workerWaiting,
    blocked,            \* the threads blocked on the run queue's cond
    (* the tasklets' mutexes *)
    owner,
    (* the threads *)
    pc,
    call,               \* the API call a thread is in
    mine                \* t, the local variable of run_queue_run

links == <<runq, next, prev, head>>
state == <<current, currentState, stopWaiting, workerWaiting>>
vars == <<links, state, life, blocked, owner, pc, call, mine>>

NoCall == [op |-> "none", t |-> NoTasklet, rq |-> NoRunQ, from |-> "body"]

Init ==
    /\ runq = [t \in Tasklet |-> NoRunQ]
    /\ next = [t \in Tasklet |-> t]     \* never read before enqueued
    /\ prev = [t \in Tasklet |-> t]
    /\ life = [t \in Tasklet |-> "live"]
    /\ head = [r \in RunQ |-> NoTasklet]
    /\ current = [r \in RunQ |-> NoTasklet]
    /\ currentState = [r \in RunQ |-> "started"]
    /\ stopWaiting = [r \in RunQ |-> FALSE]
    /\ workerWaiting = [r \in RunQ |-> FALSE]
    /\ blocked = [r \in RunQ |-> {}]
    /\ owner = [m \in Mutex |-> NoThread]
    /\ pc = [th \in Thread |-> IF th \in RunQ THEN "out" ELSE "body"]
    /\ call = [th \in Thread |-> NoCall]
    /\ mine = [r \in RunQ |-> NoTasklet]

-----------------------------------------------------------------------------
(* The run queue's mutex is free: no worker is between a handler and next. *)
Unlocked(r) == pc[r] # "next"

Holds(th, t) == owner[MutexOf[t]] = th
HoldsNone(th) == \A m \in Mutex : owner[m] # th

Goto(th, label) == pc' = [pc EXCEPT ![th] = label]

(* Seeded defect: the sleeping worker is not signalled. *)
EnqueueSilently(r, t) ==
    LET p == IF head[r] = NoTasklet THEN t ELSE prev[head[r]]
        h == IF head[r] = NoTasklet THEN t ELSE head[r]
    IN  /\ head' = [head EXCEPT ![r] = h]
        /\ next' = [next EXCEPT ![t] = h, ![p] = t]
        /\ prev' = [prev EXCEPT ![t] = p, ![h] = t]
        /\ UNCHANGED blocked

(* Seeded defect: the tasklet goes to the head of the queue. *)
EnqueueAtHead(r, t) ==
    LET p == IF head[r] = NoTasklet THEN t ELSE prev[head[r]]
        h == IF head[r] = NoTasklet THEN t ELSE head[r]
    IN  /\ head' = [head EXCEPT ![r] = t]
        /\ next' = [next EXCEPT ![t] = h, ![p] = t]
        /\ prev' = [prev EXCEPT ![t] = p, ![h] = t]
        /\ blocked' = [blocked EXCEPT ![r] = IF workerWaiting[r] THEN {} ELSE @]

Enqueue(r, t) ==
    IF head[r] = NoTasklet
    THEN /\ head' = [head EXCEPT ![r] = t]
         /\ next' = [next EXCEPT ![t] = t]
         /\ prev' = [prev EXCEPT ![t] = t]
         /\ IF workerWaiting[r] /\ blocked[r] # {}
            THEN \E th \in blocked[r] :
                    blocked' = [blocked EXCEPT ![r] = @ \ {th}]
            ELSE UNCHANGED blocked
    ELSE LET h == head[r]
             p == prev[h]
         IN /\ next' = [next EXCEPT ![t] = h, ![p] = t]
            /\ prev' = [prev EXCEPT ![t] = p, ![h] = t]
            /\ UNCHANGED <<head, blocked>>

(* Seeded defect: removing the head empties the queue. *)
RemoveAllWithHead(r, t) ==
    /\ prev' = [prev EXCEPT ![next[t]] = prev[t]]
    /\ next' = [next EXCEPT ![prev[t]] = next[t]]
    /\ head' = [head EXCEPT ![r] = IF @ = t THEN NoTasklet ELSE @]

Remove(r, t) ==
    LET n == next[t]
        p == prev[t]
    IN /\ prev' = [prev EXCEPT ![n] = p]
       /\ next' = [next EXCEPT ![p] = n]
       /\ head' = [head EXCEPT ![r] =
                      IF @ # t THEN @ ELSE IF n = t THEN NoTasklet ELSE n]

-----------------------------------------------------------------------------
(* Taking and releasing a tasklet mutex.  A handler releases its mutex     *)
(* only when it has finalized its own tasklet (mutex_unlock_fini).         *)

Lock(th, m) ==
    /\ th \in Client
    /\ pc[th] = "body"
    /\ HoldsNone(th)
    /\ owner[m] = NoThread
    /\ owner' = [owner EXCEPT ![m] = th]
    /\ UNCHANGED <<links, state, life, blocked, pc, call, mine>>

Unlock(th, m) ==
    /\ pc[th] = "body"
    /\ owner[m] = th
    /\ th \in RunQ => current[th] # mine[th]
    /\ owner' = [owner EXCEPT ![m] = NoThread]
    /\ UNCHANGED <<links, state, life, blocked, pc, call, mine>>

-----------------------------------------------------------------------------
(* The calls.  tasklet_run may be called without the mutex, but not on a   *)
(* tasklet that is being finalized.  A thread that does not sleep in       *)
(* run_queue_run also calls it between two visits to its run queue, as the *)
(* poll thread does when it dispatches events and timers.                  *)

Begin(th, op, t) ==
    /\ life[t] = "live"
    /\ call' = [call EXCEPT ![th] =
                    [op |-> op, t |-> t, rq |-> NoRunQ, from |-> pc[th]]]
    /\ Goto(th, "read")
    /\ UNCHANGED <<links, state, blocked, owner, mine>>

CallRun(th, t) ==
    /\ pc[th] = "body" \/ (pc[th] = "out" /\ th \notin WaitingRunQ)
    /\ Begin(th, "run", t)
    /\ UNCHANGED life

CallStop(th, t) ==
    /\ pc[th] = "body"
    /\ Holds(th, t)
    /\ ForeignStop \/ (th \in RunQ /\ current[th] = t)
    /\ Begin(th, "stop", t)
    /\ UNCHANGED life

(* Seeded defect: tasklet_fini is called without the tasklet's mutex. *)
CallFiniUnlocked(th, t) ==
    /\ pc[th] = "body"
    /\ \A x \in Thread : call[x].t # t
    /\ Begin(th, "fini", t)
    /\ life' = [life EXCEPT ![t] = "closing"]

CallFini(th, t) ==
    /\ pc[th] = "body"
    /\ Holds(th, t)
    /\ \A x \in Thread : call[x].t # t
    /\ Begin(th, "fini", t)
    /\ life' = [life EXCEPT ![t] = "closing"]

(* tasklet_init, on the memory of a finalized tasklet.                     *)
TaskletInit(th, t) ==
    /\ pc[th] = "body"
    /\ life[t] = "dead"
    /\ life' = [life EXCEPT ![t] = "live"]
    /\ runq' = [runq EXCEPT ![t] = NoRunQ]
    /\ UNCHANGED <<next, prev, head, state, blocked, owner, pc, call, mine>>

Return(th) ==
    /\ Goto(th, call[th].from)
    /\ call' = [call EXCEPT ![th] = NoCall]

(* The return of tasklet_stop or tasklet_fini. *)
ReturnQuiet(th) ==
    /\ Return(th)
    /\ life' = IF call[th].op = "fini"
               THEN [life EXCEPT ![call[th].t] = "dead"] ELSE life

-----------------------------------------------------------------------------
(* tasklet_run *)

RunRead(th) ==
    /\ pc[th] = "read"
    /\ call[th].op = "run"
    /\ call' = [call EXCEPT ![th].rq = runq[call[th].t]]
    /\ Goto(th, "lock")
    /\ UNCHANGED <<links, state, life, blocked, owner, mine>>

RunLocks(th, t, r) ==
    /\ pc[th] = "lock"
    /\ call[th].op = "run"
    /\ t = call[th].t
    /\ r = IF call[th].rq = NoRunQ THEN Target[th] ELSE call[th].rq
    /\ Unlocked(r)

(* t->runq was NULL, and still is: the compare-and-swap succeeds.          *)
RunEnqueue(th) ==
    \E t \in Tasklet, r \in RunQ :
        /\ RunLocks(th, t, r)
        /\ call[th].rq = NoRunQ
        /\ runq[t] = NoRunQ
        /\ runq' = [runq EXCEPT ![t] = r]
        /\ Enqueue(r, t)
        /\ Return(th)
        /\ UNCHANGED <<state, life, owner, mine>>

(* Seeded defect: what was read without the mutex is not checked again.    *)
RunMarkUnchecked(th) ==
    \E t \in Tasklet, r \in RunQ :
        /\ RunLocks(th, t, r)
        /\ call[th].rq = r
        /\ currentState' = IF current[r] = t
                           THEN [currentState EXCEPT ![r] = "requeue"]
                           ELSE currentState
        /\ Return(th)
        /\ UNCHANGED <<links, current, stopWaiting, workerWaiting, life,
                       blocked, owner, mine>>

(* t is still on its run queue: nothing to do, or to be run again.         *)
RunMark(th) ==
    \E t \in Tasklet, r \in RunQ :
        /\ RunLocks(th, t, r)
        /\ call[th].rq = r
        /\ runq[t] = r
        /\ currentState' = IF current[r] = t
                           THEN [currentState EXCEPT ![r] = "requeue"]
                           ELSE currentState
        /\ Return(th)
        /\ UNCHANGED <<links, current, stopWaiting, workerWaiting, life,
                       blocked, owner, mine>>

(* t->runq has changed since it was read.                                  *)
RunRetry(th) ==
    \E t \in Tasklet, r \in RunQ :
        /\ RunLocks(th, t, r)
        /\ runq[t] # call[th].rq
        /\ Goto(th, "read")
        /\ UNCHANGED <<links, state, life, blocked, owner, call, mine>>

-----------------------------------------------------------------------------
(* tasklet_stop and tasklet_fini, whose loops differ in the case of a      *)
(* handler that acts on its own tasklet.  (tasklet_unwait is in WaitList.) *)
(* The loops start again when t->runq has changed since it was read, which *)
(* does not happen: StopFindsTasklet.                                      *)

StopRead(th) ==
    LET t == call[th].t
    IN  /\ pc[th] = "read"
        /\ call[th].op # "run"
        /\ IF runq[t] = NoRunQ
           THEN ReturnQuiet(th)
           ELSE /\ call' = [call EXCEPT ![th].rq = runq[t]]
                /\ Goto(th, "lock")
                /\ UNCHANGED life
        /\ UNCHANGED <<links, state, blocked, owner, mine>>

StopLocks(th, t, r) ==
    /\ pc[th] = "lock"
    /\ call[th].op # "run"
    /\ t = call[th].t
    /\ r = call[th].rq
    /\ Unlocked(r)

StopQueued(th) ==
    \E t \in Tasklet, r \in RunQ :
        /\ StopLocks(th, t, r)
        /\ runq[t] = r
        /\ current[r] # t
        /\ Remove(r, t)
        /\ runq' = [runq EXCEPT ![t] = NoRunQ]
        /\ ReturnQuiet(th)
        /\ UNCHANGED <<state, blocked, owner, mine>>

(* From the tasklet's own handler (or the thread running it).              *)
StopOwn(th) ==
    \E t \in Tasklet :
        /\ th \in RunQ
        /\ StopLocks(th, t, th)
        /\ runq[t] = th
        /\ current[th] = t
        /\ currentState' = [currentState EXCEPT ![th] = "stopped"]
        /\ current' = IF call[th].op = "fini"
                      THEN [current EXCEPT ![th] = NoTasklet] ELSE current
        /\ ReturnQuiet(th)
        /\ UNCHANGED <<links, stopWaiting, workerWaiting, blocked, owner, mine>>

(* mutex_veto_transfer(m): every worker blocked in mutex_transfer to m     *)
(* comes out of it without m.                                              *)
Veto(m, r) == pc[r] = "transfer" /\ MutexOf[mine[r]] = m

StopForeign(th) ==
    \E t \in Tasklet, r \in RunQ \ {th} :
        /\ StopLocks(th, t, r)
        /\ runq[t] = r
        /\ current[r] = t
        /\ currentState' = [currentState EXCEPT ![r] = "stopped"]
        /\ stopWaiting' = [stopWaiting EXCEPT ![r] = TRUE]
        /\ blocked' = [blocked EXCEPT ![r] = @ \cup {th}]
        /\ pc' = [x \in Thread |->
                     IF x = th THEN "wait"
                     ELSE IF x \in RunQ /\ Veto(MutexOf[t], x)
                     THEN "vetoed" ELSE pc[x]]
        /\ UNCHANGED <<links, current, workerWaiting, life, owner, call, mine>>

(* Seeded defect: the wait is not in a loop. *)
StopWaitedOnce(th) ==
    /\ pc[th] = "wait"
    /\ th \notin blocked[call[th].rq]
    /\ Unlocked(call[th].rq)
    /\ ReturnQuiet(th)
    /\ UNCHANGED <<links, state, blocked, owner, mine>>

(* cond_wait returns: wait again while the tasklet is still current.       *)
StopWaited(th) ==
    LET t == call[th].t
        r == call[th].rq
    IN  /\ pc[th] = "wait"
        /\ th \notin blocked[r]
        /\ Unlocked(r)
        /\ IF current[r] = t
           THEN /\ blocked' = [blocked EXCEPT ![r] = @ \cup {th}]
                /\ UNCHANGED <<pc, call, life>>
           ELSE /\ ReturnQuiet(th)
                /\ UNCHANGED blocked
        /\ UNCHANGED <<links, state, owner, mine>>

-----------------------------------------------------------------------------
(* run_queue_run *)

(* Take the head tasklet off the queue and go for its mutex.               *)
TakeHead(r) ==
    /\ head[r] # NoTasklet
    /\ Remove(r, head[r])
    /\ current' = [current EXCEPT ![r] = head[r]]
    /\ currentState' = [currentState EXCEPT ![r] = "started"]
    /\ mine' = [mine EXCEPT ![r] = head[r]]
    /\ Goto(r, "transfer")
    /\ UNCHANGED runq

Enter(r) ==
    /\ pc[r] = "out"
    /\ TakeHead(r)
    /\ UNCHANGED <<stopWaiting, workerWaiting, life, blocked, owner, call>>

Sleep(r) ==
    /\ pc[r] = "out"
    /\ r \in WaitingRunQ
    /\ head[r] = NoTasklet
    /\ workerWaiting' = [workerWaiting EXCEPT ![r] = TRUE]
    /\ blocked' = [blocked EXCEPT ![r] = @ \cup {r}]
    /\ Goto(r, "asleep")
    /\ UNCHANGED <<links, current, currentState, stopWaiting, life, owner,
                   call, mine>>

(* Seeded defect: the worker's wait is not in a loop. *)
WakeOnce(r) ==
    /\ pc[r] = "asleep"
    /\ r \notin blocked[r]
    /\ \/ TakeHead(r)
       \/ /\ head[r] = NoTasklet
          /\ Goto(r, "transfer")
          /\ UNCHANGED <<links, current, currentState, mine>>
    /\ workerWaiting' = [workerWaiting EXCEPT ![r] = FALSE]
    /\ UNCHANGED <<stopWaiting, life, blocked, owner, call>>

Wake(r) ==
    /\ pc[r] = "asleep"
    /\ r \notin blocked[r]
    /\ \/ /\ TakeHead(r)
          /\ workerWaiting' = [workerWaiting EXCEPT ![r] = FALSE]
          /\ UNCHANGED <<stopWaiting, life, blocked, owner, call>>
       \/ /\ head[r] = NoTasklet
          /\ blocked' = [blocked EXCEPT ![r] = @ \cup {r}]
          /\ UNCHANGED <<links, state, life, owner, pc, call, mine>>

(* mutex_transfer gets the tasklet's mutex: the handler starts.            *)
Transfer(r) ==
    LET m == MutexOf[mine[r]]
    IN  /\ pc[r] = "transfer"
        /\ owner[m] = NoThread
        /\ owner' = [owner EXCEPT ![m] = r]
        /\ Goto(r, "body")
        /\ UNCHANGED <<links, state, life, blocked, call, mine>>

(* Seeded defect: a veto aimed at another tasklet is taken for the mutex.  *)
VetoedRunsHandler(r) ==
    /\ pc[r] = "vetoed"
    /\ Goto(r, IF currentState[r] = "stopped" THEN "next" ELSE "body")
    /\ UNCHANGED <<links, state, life, blocked, owner, call, mine>>

(* mutex_transfer was vetoed, and has taken the run queue's mutex again.   *)
Vetoed(r) ==
    /\ pc[r] = "vetoed"
    /\ IF currentState[r] = "stopped"
       THEN /\ Goto(r, "next")
            /\ UNCHANGED currentState
       ELSE /\ currentState' = [currentState EXCEPT ![r] = "started"]
            /\ Goto(r, "transfer")
    /\ UNCHANGED <<links, current, stopWaiting, workerWaiting, life, blocked,
                   owner, call, mine>>

(* The handler returns and the worker takes the run queue's mutex.         *)
HandlerReturn(r) ==
    /\ pc[r] = "body"
    /\ Goto(r, "next")

(* The handler finalized its tasklet, and has released the mutex.          *)
ReturnDestroyed(r) ==
    /\ HandlerReturn(r)
    /\ current[r] # mine[r]
    /\ HoldsNone(r)
    /\ UNCHANGED <<links, state, life, blocked, owner, call, mine>>

(* Seeded defect: a tasklet_run during the handler is forgotten. *)
ReturnIdleAnyway(r) ==
    /\ HandlerReturn(r)
    /\ current[r] = mine[r]
    /\ runq' = [runq EXCEPT ![mine[r]] = NoRunQ]
    /\ owner' = [owner EXCEPT ![MutexOf[mine[r]]] = NoThread]
    /\ UNCHANGED <<next, prev, head, state, life, blocked, call, mine>>

ReturnIdle(r) ==
    /\ HandlerReturn(r)
    /\ current[r] = mine[r]
    /\ currentState[r] \in {"started", "stopped"}
    /\ runq' = [runq EXCEPT ![mine[r]] = NoRunQ]
    /\ owner' = [owner EXCEPT ![MutexOf[mine[r]]] = NoThread]
    /\ UNCHANGED <<next, prev, head, state, life, blocked, call, mine>>

ReturnRequeue(r) ==
    /\ HandlerReturn(r)
    /\ current[r] = mine[r]
    /\ currentState[r] = "requeue"
    /\ Enqueue(r, mine[r])
    /\ owner' = [owner EXCEPT ![MutexOf[mine[r]]] = NoThread]
    /\ UNCHANGED <<runq, state, life, call, mine>>

(* Seeded defect: the stoppers are not woken. *)
NextTaskletSilently(r) ==
    /\ pc[r] = "next"
    /\ stopWaiting' = [stopWaiting EXCEPT ![r] = FALSE]
    /\ \/ TakeHead(r)
       \/ /\ head[r] = NoTasklet
          /\ current' = [current EXCEPT ![r] = NoTasklet]
          /\ mine' = [mine EXCEPT ![r] = NoTasklet]
          /\ Goto(r, "out")
          /\ UNCHANGED <<links, currentState>>
    /\ UNCHANGED <<workerWaiting, life, blocked, owner, call>>

(* The label next: let the stoppers go and take the next tasklet, or       *)
(* return when the queue is drained.                                       *)
NextTasklet(r) ==
    /\ pc[r] = "next"
    /\ stopWaiting' = [stopWaiting EXCEPT ![r] = FALSE]
    /\ blocked' = IF stopWaiting[r] THEN [blocked EXCEPT ![r] = {}] ELSE blocked
    /\ \/ TakeHead(r)
       \/ /\ head[r] = NoTasklet
          /\ current' = [current EXCEPT ![r] = NoTasklet]
          /\ mine' = [mine EXCEPT ![r] = NoTasklet]
          /\ Goto(r, "out")
          /\ UNCHANGED <<links, currentState>>
    /\ UNCHANGED <<workerWaiting, life, owner, call>>

(* pthread_cond_wait may return without a signal. *)
SpuriousWakeup(r) ==
    /\ \E th \in blocked[r] : blocked' = [blocked EXCEPT ![r] = @ \ {th}]
    /\ UNCHANGED <<links, state, life, owner, pc, call, mine>>

-----------------------------------------------------------------------------
StopStep(th) ==
    \/ StopRead(th) \/ StopQueued(th) \/ StopOwn(th)
    \/ StopForeign(th) \/ StopWaited(th)

RunDone(th) == RunEnqueue(th) \/ RunMark(th)
RunStep(th) == RunRead(th) \/ RunRetry(th) \/ RunDone(th)

WorkerStep(r) == Sleep(r) \/ Wake(r) \/ Vetoed(r) \/ NextTasklet(r)

ReturnStep(r) == ReturnDestroyed(r) \/ ReturnIdle(r) \/ ReturnRequeue(r)

ClientStep(th) ==
    \/ \E m \in Mutex : Lock(th, m) \/ Unlock(th, m)
    \/ \E t \in Tasklet : \/ CallRun(th, t) \/ CallStop(th, t)
                          \/ CallFini(th, t) \/ TaskletInit(th, t)

Next ==
    \/ \E th \in Thread : ClientStep(th) \/ RunStep(th) \/ StopStep(th)
    \/ \E r \in RunQ : \/ Enter(r) \/ WorkerStep(r) \/ Transfer(r) \/ ReturnStep(r)
                       \/ SpuriousWakeup(r)

(* Threads run; handlers, the clients' critical sections and the poll      *)
(* thread's dispatching end; a mutex that keeps being released is in the   *)
(* end acquired; the retries of tasklet_run are not overtaken forever.     *)
Fairness ==
    /\ \A th \in Thread : /\ WF_vars(RunStep(th))
                          /\ SF_vars(RunDone(th))
                          /\ SF_vars(StopStep(th))
                          /\ SF_vars(\E m \in Mutex : Unlock(th, m))
    /\ \A r \in RunQ : /\ WF_vars(WorkerStep(r))
                       /\ SF_vars(Enter(r))
                       /\ SF_vars(Transfer(r))
                       /\ SF_vars(ReturnStep(r))

Spec == Init /\ [][Next]_vars
FairSpec == Spec /\ Fairness

-----------------------------------------------------------------------------
(* A handler is running: its worker is in the handler or in a call it made.*)
InHandler(r) ==
    pc[r] \in {"body", "read", "lock", "wait"} /\ call[r].from = "body"

Call == [op : {"none", "run", "stop", "fini"}, t : Tasklet \cup {NoTasklet},
         rq : RunQ \cup {NoRunQ}, from : {"body", "out"}]

Label == {"out", "asleep", "transfer", "vetoed", "body", "next", "read", "lock",
          "wait"}

TypeOK ==
    /\ runq \in [Tasklet -> RunQ \cup {NoRunQ}]
    /\ next \in [Tasklet -> Tasklet]
    /\ prev \in [Tasklet -> Tasklet]
    /\ life \in [Tasklet -> {"live", "closing", "dead"}]
    /\ head \in [RunQ -> Tasklet \cup {NoTasklet}]
    /\ current \in [RunQ -> Tasklet \cup {NoTasklet}]
    /\ currentState \in [RunQ -> {"started", "stopped", "requeue"}]
    /\ stopWaiting \in [RunQ -> BOOLEAN]
    /\ workerWaiting \in [RunQ -> BOOLEAN]
    /\ blocked \in [RunQ -> SUBSET Thread]
    /\ owner \in [Mutex -> Thread \cup {NoThread}]
    /\ pc \in [Thread -> Label]
    /\ call \in [Thread -> Call]
    /\ mine \in [RunQ -> Tasklet \cup {NoTasklet}]
    /\ \A r \in RunQ : InHandler(r) \/ pc[r] \in {"transfer", "vetoed", "next"} =>
                          mine[r] \in Tasklet

(* tasklet_fini has taken t away from a worker that was waiting for its    *)
(* mutex, or tasklet_fini has returned: t->runq no longer means anything.  *)
Dropped(t) ==
    \/ life[t] = "dead"
    \/ life[t] = "closing" /\ \E th \in Thread : pc[th] = "wait" /\ call[th].t = t

Queued(r) == {t \in Tasklet : /\ runq[t] = r
                              /\ current[r] = t => pc[r] = "next"
                              /\ ~Dropped(t)}

(* The circular list of a run queue is one circle, and holds exactly the   *)
(* tasklets whose runq field says so, the current one excepted: what       *)
(* run_queue_remove in tasklet_stop, tasklet_fini and the worker relies on.*)
ListWellFormed ==
    \A r \in RunQ :
        /\ head[r] = NoTasklet => Queued(r) = {}
        /\ head[r] # NoTasklet => head[r] \in Queued(r)
        /\ \A t \in Queued(r) : /\ next[t] \in Queued(r)
                                /\ prev[t] \in Queued(r)
                                /\ prev[next[t]] = t
                                /\ next[prev[t]] = t
        /\ \A S \in SUBSET Queued(r) :
              S = {} \/ S = Queued(r) \/ \E t \in S : next[t] \notin S

(* No two workers run handlers under one mutex: a handler runs with its    *)
(* tasklet's mutex held until it has finalized the tasklet.                *)
HandlerHoldsMutex ==
    \A r \in RunQ : InHandler(r) /\ current[r] # NoTasklet =>
        /\ current[r] = mine[r]
        /\ Holds(r, mine[r])

(* When tasklet_fini has returned the tasklet's memory can be freed: no    *)
(* run queue holds it and no worker waits for its mutex.                   *)
FiniIsFinal ==
    \A t \in Tasklet : life[t] = "dead" =>
        \A r \in RunQ :
            /\ head[r] # t
            /\ current[r] = t => pc[r] = "next"     \* and is about to change
            /\ pc[r] \in {"transfer", "vetoed"} => mine[r] # t
            /\ \A q \in Queued(r) : next[q] # t /\ prev[q] # t

(* A tasklet stays where tasklet_stop or tasklet_fini has read that it is, *)
(* although they read it without the run queue's mutex: nobody takes it    *)
(* off its run queue but with its own mutex.                               *)
StopFindsTasklet ==
    \A th \in Thread : pc[th] = "lock" /\ call[th].op \in {"stop", "fini"} =>
        runq[call[th].t] = call[th].rq

(* A worker that sleeps with work queued, or a stopper that sleeps though  *)
(* its tasklet is gone, has been signalled.                                *)
NoMissedSignal ==
    \A r \in RunQ :
        /\ pc[r] = "asleep" /\ r \in blocked[r] => head[r] = NoTasklet
        /\ \A th \in blocked[r] \ {r} :
              current[r] = call[th].t /\ stopWaiting[r]
=============================================================================
