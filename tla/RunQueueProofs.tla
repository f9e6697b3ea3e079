--------------------------- MODULE RunQueueProofs ---------------------------
(***************************************************************************)
(* Proofs about RunQueue and RunQueueSched, for any number of run queues,  *)
(* clients, tasklets and mutexes.                                          *)
(***************************************************************************)
EXTENDS RunQueueSched, CircleLemmas, TLAPS

(* The types of the shared structures. *)
SharedOK ==
    /\ runq \in [Tasklet -> RunQ \cup {NoRunQ}]
    /\ next \in [Tasklet -> Tasklet]
    /\ prev \in [Tasklet -> Tasklet]
    /\ life \in [Tasklet -> {"live", "closing", "dead"}]
    /\ head \in [RunQ -> Tasklet \cup {NoTasklet}]
    /\ current \in [RunQ -> Tasklet \cup {NoTasklet}]
    /\ currentState \in [RunQ -> {"started", "stopped", "requeue"}]
    /\ stopWaiting \in [RunQ -> BOOLEAN]
    /\ workerWaiting \in [RunQ -> BOOLEAN]
    /\ blocked \in [RunQ -> SUBSET Thread]
    /\ owner \in [Mutex -> Thread \cup {NoThread}]

(* What a thread at label l knows of the call c it is in.                  *)
CallFits(l, c) ==
    IF l \in {"read", "lock", "wait"}
    THEN /\ c.t \in Tasklet
         /\ c.op # "none"
         /\ l = "wait" => c.rq \in RunQ /\ c.op # "run"
    ELSE c = NoCall

(* At label l, in call c, a worker is busy with the tasklet mine.          *)
Busy(l, c) ==
    \/ l \in {"transfer", "vetoed", "next"}
    \/ l \in {"body", "read", "lock", "wait"} /\ c.from = "body"

(* The threads' own state, the strengthening of TypeOK included.           *)
ThreadsOK ==
    /\ pc \in [Thread -> Label]
    /\ call \in [Thread -> Call]
    /\ mine \in [RunQ -> Tasklet \cup {NoTasklet}]
    /\ \A th \in Thread : CallFits(pc[th], call[th])
    /\ \A r \in RunQ : Busy(pc[r], call[r]) => mine[r] \in Tasklet

Typed == SharedOK /\ ThreadsOK

LEMMA Labels ==
    /\ Label = {"out", "asleep", "transfer", "vetoed", "body", "next", "read",
                "lock", "wait"}
    /\ NoCall \in Call
    /\ NoCall.from = "body"
    /\ RunQ \subseteq Thread
    /\ Client \subseteq Thread
BY DEF Label, NoCall, Call, Thread

LEMMA TypedImpliesTypeOK == Typed => TypeOK
BY DEF Typed, SharedOK, ThreadsOK, TypeOK, Busy, InHandler

LEMMA TypedInit == Init => Typed
<1> SUFFICES ASSUME Init PROVE Typed
  OBVIOUS
<1>1. SharedOK
  BY DEF Init, SharedOK
<1>2. /\ pc \in [Thread -> Label]
      /\ call \in [Thread -> Call]
      /\ mine \in [RunQ -> Tasklet \cup {NoTasklet}]
  BY Labels DEF Init
<1>3. ASSUME NEW th \in Thread PROVE CallFits(pc[th], call[th])
  BY DEF Init, CallFits
<1>4. ASSUME NEW r \in RunQ PROVE ~Busy(pc[r], call[r])
  BY Labels DEF Init, Busy
<1> QED
  BY <1>1, <1>2, <1>3, <1>4 DEF Typed, ThreadsOK

-----------------------------------------------------------------------------
(* A step that moves one thread to a label l that fits its call c.         *)
LEMMA Moves ==
    ASSUME ThreadsOK, NEW th \in Thread, NEW l \in Label, NEW c \in Call,
           Goto(th, l), call' = [call EXCEPT ![th] = c],
           mine' \in [RunQ -> Tasklet \cup {NoTasklet}],
           \A r \in RunQ \ {th} : mine'[r] = mine[r],
           CallFits(l, c),
           th \in RunQ /\ Busy(l, c) => mine'[th] \in Tasklet
    PROVE  ThreadsOK'
<1>1. /\ pc' \in [Thread -> Label]
      /\ call' \in [Thread -> Call]
  BY DEF ThreadsOK, Goto
<1>2. pc'[th] = l /\ call'[th] = c
  BY DEF ThreadsOK, Goto
<1>3. \A x \in Thread \ {th} : pc'[x] = pc[x] /\ call'[x] = call[x]
  BY DEF ThreadsOK, Goto
<1>4. \A x \in Thread : CallFits(pc'[x], call'[x])
  BY <1>2, <1>3 DEF ThreadsOK
<1>5. \A r \in RunQ : Busy(pc'[r], call'[r]) => mine'[r] \in Tasklet
  BY <1>2, <1>3, Labels DEF ThreadsOK
<1> QED
  BY <1>1, <1>4, <1>5 DEF ThreadsOK

(* A step of a thread outside a call, or within one: the call stays.       *)
LEMMA MovesInCall ==
    ASSUME ThreadsOK, NEW th \in Thread, NEW l \in Label,
           Goto(th, l), UNCHANGED call,
           mine' \in [RunQ -> Tasklet \cup {NoTasklet}],
           \A r \in RunQ \ {th} : mine'[r] = mine[r],
           CallFits(l, call[th]),
           th \in RunQ /\ Busy(l, call[th]) => mine'[th] \in Tasklet
    PROVE  ThreadsOK'
<1>1. call[th] \in Call /\ call' = [call EXCEPT ![th] = call[th]]
  BY DEF ThreadsOK
<1> QED
  BY <1>1, Moves

(* The unlocked read of t->runq. *)
LEMMA ReadTyped ==
    ASSUME ThreadsOK, NEW th \in Thread, NEW r \in RunQ \cup {NoRunQ},
           pc[th] = "read", Goto(th, "lock"),
           call' = [call EXCEPT ![th].rq = r], UNCHANGED mine
    PROVE  ThreadsOK'
<1> DEFINE c == [call[th] EXCEPT !.rq = r]
<1>1. call[th] \in Call
  BY DEF ThreadsOK
<1>2. /\ c \in Call
      /\ c.t = call[th].t /\ c.op = call[th].op /\ c.from = call[th].from
  BY <1>1 DEF Call
<1>3. call' = [call EXCEPT ![th] = c]
  BY DEF ThreadsOK
<1>4. CallFits("lock", c)
  BY <1>2 DEF ThreadsOK, CallFits
<1>5. th \in RunQ /\ Busy("lock", c) => mine'[th] \in Tasklet
  BY <1>2 DEF ThreadsOK, Busy
<1>6. mine' \in [RunQ -> Tasklet \cup {NoTasklet}]
  BY DEF ThreadsOK
<1> HIDE DEF c
<1> QED
  BY <1>2, <1>3, <1>4, <1>5, <1>6, Moves, Labels

(* The retry of a call. *)
LEMMA RetryTyped ==
    ASSUME ThreadsOK, NEW th \in Thread, pc[th] = "lock", Goto(th, "read"),
           UNCHANGED <<call, mine>>
    PROVE  ThreadsOK'
<1>1. CallFits("read", call[th])
  BY DEF ThreadsOK, CallFits
<1>2. th \in RunQ /\ Busy("read", call[th]) => mine'[th] \in Tasklet
  BY DEF ThreadsOK, Busy
<1> QED
  BY <1>1, <1>2, MovesInCall, Labels DEF ThreadsOK

LEMMA ReturnTyped ==
    ASSUME ThreadsOK, NEW th \in Thread, pc[th] \in {"read", "lock", "wait"},
           Return(th), UNCHANGED mine
    PROVE  ThreadsOK'
<1>1. call[th].from \in {"body", "out"}
  BY DEF ThreadsOK, Call
<1>2. CallFits(call[th].from, NoCall)
  BY <1>1 DEF CallFits
<1>3. th \in RunQ /\ Busy(call[th].from, NoCall) => mine'[th] \in Tasklet
  BY <1>1 DEF ThreadsOK, Busy
<1> QED
  BY <1>1, <1>2, <1>3, Moves, Labels DEF ThreadsOK, Return

LEMMA BeginTyped ==
    ASSUME ThreadsOK, NEW th \in Thread, NEW t \in Tasklet,
           NEW op \in {"run", "stop", "fini"},
           pc[th] \in {"body", "out"}, Begin(th, op, t)
    PROVE  ThreadsOK'
<1> DEFINE c == [op |-> op, t |-> t, rq |-> NoRunQ, from |-> pc[th]]
<1>1. c \in Call
  BY DEF Call
<1>2. CallFits("read", c)
  BY DEF CallFits
<1>3. th \in RunQ /\ Busy("read", c) => mine'[th] \in Tasklet
  <2>1. SUFFICES ASSUME th \in RunQ, pc[th] = "body"
                 PROVE  mine[th] \in Tasklet
    BY DEF Busy, Begin
  <2>2. CallFits(pc[th], call[th])
    BY DEF ThreadsOK
  <2>3. call[th].from = "body"
    BY <2>1, <2>2, Labels DEF CallFits
  <2> QED
    BY <2>1, <2>3 DEF ThreadsOK, Busy
<1>4. Goto(th, "read") /\ call' = [call EXCEPT ![th] = c] /\ UNCHANGED mine
  BY DEF Begin
<1> HIDE DEF c
<1> QED
  BY <1>1, <1>2, <1>3, <1>4, Moves, Labels DEF ThreadsOK

-----------------------------------------------------------------------------
(* The operations on the circular lists. *)

ListTyped ==
    /\ next \in [Tasklet -> Tasklet]
    /\ prev \in [Tasklet -> Tasklet]
    /\ head \in [RunQ -> Tasklet \cup {NoTasklet}]

LEMMA RemoveTyped ==
    ASSUME SharedOK, NEW r \in RunQ, NEW t \in Tasklet, Remove(r, t)
    PROVE  ListTyped'
BY DEF Remove, SharedOK, ListTyped

LEMMA EnqueueTyped ==
    ASSUME SharedOK, NEW r \in RunQ, NEW t \in Tasklet, Enqueue(r, t)
    PROVE  ListTyped' /\ blocked' \in [RunQ -> SUBSET Thread]
BY DEF Enqueue, SharedOK, ListTyped

LEMMA TakeHeadTyped ==
    ASSUME Typed, NEW r \in RunQ, TakeHead(r), UNCHANGED call,
           pc[r] \in {"out", "asleep", "next"}
    PROVE  /\ ListTyped'
           /\ current' \in [RunQ -> Tasklet \cup {NoTasklet}]
           /\ currentState' \in [RunQ -> {"started", "stopped", "requeue"}]
           /\ ThreadsOK'
<1>1. head[r] \in Tasklet
  BY DEF Typed, SharedOK, TakeHead
<1>2. ListTyped'
  BY <1>1, RemoveTyped DEF Typed, TakeHead
<1>3. /\ current' \in [RunQ -> Tasklet \cup {NoTasklet}]
      /\ currentState' \in [RunQ -> {"started", "stopped", "requeue"}]
  BY <1>1 DEF Typed, SharedOK, TakeHead
<1>4. /\ mine' \in [RunQ -> Tasklet \cup {NoTasklet}]
      /\ mine'[r] \in Tasklet
      /\ \A x \in RunQ \ {r} : mine'[x] = mine[x]
  BY <1>1 DEF Typed, ThreadsOK, TakeHead
<1>5. CallFits("transfer", call[r])
  <2>1. CallFits(pc[r], call[r])
    BY Labels DEF Typed, ThreadsOK
  <2> QED
    BY <2>1 DEF CallFits
<1>6. ThreadsOK'
  BY <1>4, <1>5, MovesInCall, Labels DEF Typed, TakeHead
<1> QED
  BY <1>2, <1>3, <1>6

(* A worker that leaves one label for another outside any call.            *)
LEMMA WorkerMoves ==
    ASSUME ThreadsOK, NEW r \in RunQ, NEW l \in Label,
           pc[r] \notin {"read", "lock", "wait"},
           l \notin {"read", "lock", "wait"},
           Goto(r, l), UNCHANGED <<call, mine>>,
           l \in {"transfer", "vetoed", "next", "body"} => Busy(pc[r], call[r])
    PROVE  ThreadsOK'
<1>1. CallFits(l, call[r])
  <2>1. CallFits(pc[r], call[r])
    BY Labels DEF ThreadsOK
  <2> QED
    BY <2>1 DEF CallFits
<1>2. Busy(l, call[r]) => mine'[r] \in Tasklet
  BY DEF ThreadsOK, Busy
<1> QED
  BY <1>1, <1>2, MovesInCall, Labels DEF ThreadsOK

LEMMA InBody ==
    ASSUME ThreadsOK, NEW r \in RunQ, pc[r] = "body"
    PROVE  Busy(pc[r], call[r]) /\ mine[r] \in Tasklet /\ call[r] = NoCall
<1>1. CallFits(pc[r], call[r])
  BY Labels DEF ThreadsOK
<1>2. call[r] = NoCall
  BY <1>1 DEF CallFits
<1> QED
  BY <1>2, Labels DEF ThreadsOK, Busy

-----------------------------------------------------------------------------
(* Steps outside the run queue, and the steps of the calls. *)

LEMMA TypedClient ==
    ASSUME Typed, NEW th \in Thread, ClientStep(th)
    PROVE  Typed'
<1>1. ASSUME NEW m \in Mutex, Lock(th, m) \/ Unlock(th, m)
      PROVE  Typed'
  BY <1>1 DEF Typed, SharedOK, ThreadsOK, Lock, Unlock, links, state
<1>2. ASSUME NEW t \in Tasklet, TaskletInit(th, t)
      PROVE  Typed'
  BY <1>2 DEF Typed, SharedOK, ThreadsOK, TaskletInit, state
<1>3. ASSUME NEW t \in Tasklet, NEW op \in {"run", "stop", "fini"},
             pc[th] \in {"body", "out"}, Begin(th, op, t),
             life' \in [Tasklet -> {"live", "closing", "dead"}]
      PROVE  Typed'
  <2>1. ThreadsOK'
    BY <1>3, BeginTyped DEF Typed
  <2>2. SharedOK'
    BY <1>3 DEF Typed, SharedOK, Begin, links, state
  <2> QED
    BY <2>1, <2>2 DEF Typed
<1>4. ASSUME NEW t \in Tasklet,
             CallRun(th, t) \/ CallStop(th, t) \/ CallFini(th, t)
      PROVE  Typed'
  <2>1. life' \in [Tasklet -> {"live", "closing", "dead"}]
    BY <1>4 DEF Typed, SharedOK, CallRun, CallStop, CallFini
  <2>2. PICK op \in {"run", "stop", "fini"} : Begin(th, op, t)
    BY <1>4 DEF CallRun, CallStop, CallFini
  <2>3. pc[th] \in {"body", "out"}
    BY <1>4 DEF CallRun, CallStop, CallFini
  <2> QED
    BY <2>1, <2>2, <2>3, <1>3
<1> QED
  BY <1>1, <1>2, <1>4 DEF ClientStep

LEMMA TypedRun ==
    ASSUME Typed, NEW th \in Thread, RunStep(th)
    PROVE  Typed'
<1>1. CASE RunRead(th)
  <2>1. call[th].t \in Tasklet
    BY <1>1 DEF Typed, ThreadsOK, CallFits, RunRead
  <2>2. runq[call[th].t] \in RunQ \cup {NoRunQ}
    BY <2>1 DEF Typed, SharedOK
  <2>3. ThreadsOK'
    BY <1>1, <2>2, ReadTyped DEF Typed, RunRead
  <2>4. SharedOK'
    BY <1>1 DEF Typed, SharedOK, RunRead, links, state
  <2> QED
    BY <2>3, <2>4 DEF Typed
<1>2. CASE RunRetry(th)
  <2>1. ThreadsOK'
    BY <1>2, RetryTyped DEF Typed, RunRetry, RunLocks
  <2>2. SharedOK'
    BY <1>2 DEF Typed, SharedOK, RunRetry, links, state
  <2> QED
    BY <2>1, <2>2 DEF Typed
<1>3. CASE RunMark(th)
  <2>1. ThreadsOK'
    BY <1>3, ReturnTyped DEF Typed, RunMark, RunLocks
  <2>2. SharedOK'
    BY <1>3 DEF Typed, SharedOK, RunMark, links
  <2> QED
    BY <2>1, <2>2 DEF Typed
<1>4. CASE RunEnqueue(th)
  <2>1. ThreadsOK'
    BY <1>4, ReturnTyped DEF Typed, RunEnqueue, RunLocks
  <2>2. PICK t \in Tasklet, r \in RunQ :
            /\ runq' = [runq EXCEPT ![t] = r]
            /\ Enqueue(r, t)
    BY <1>4 DEF RunEnqueue
  <2>3. ListTyped' /\ blocked' \in [RunQ -> SUBSET Thread]
    BY <2>2, EnqueueTyped DEF Typed
  <2>4. SharedOK'
    BY <1>4, <2>2, <2>3 DEF Typed, SharedOK, ListTyped, RunEnqueue, state
  <2> QED
    BY <2>1, <2>4 DEF Typed
<1> QED
  BY <1>1, <1>2, <1>3, <1>4 DEF RunStep, RunDone

LEMMA TypedStop ==
    ASSUME Typed, NEW th \in Thread, StopStep(th)
    PROVE  Typed'
<1>1. ASSUME ReturnQuiet(th), pc[th] \in {"read", "lock", "wait"}, UNCHANGED mine
      PROVE  ThreadsOK' /\ life' \in [Tasklet -> {"live", "closing", "dead"}]
  BY <1>1, ReturnTyped DEF Typed, SharedOK, ReturnQuiet
<1>2. CASE StopRead(th)
  <2>1. ThreadsOK' /\ life' \in [Tasklet -> {"live", "closing", "dead"}]
    <3>1. CASE runq[call[th].t] = NoRunQ
      BY <1>1, <1>2, <3>1 DEF StopRead
    <3>2. CASE runq[call[th].t] # NoRunQ
      <4>1. call[th].t \in Tasklet
        BY <1>2 DEF Typed, ThreadsOK, CallFits, StopRead
      <4>2. runq[call[th].t] \in RunQ \cup {NoRunQ}
        BY <4>1 DEF Typed, SharedOK
      <4>3. UNCHANGED life
        BY <1>2, <3>2 DEF StopRead
      <4> QED
        BY <1>2, <3>2, <4>2, <4>3, ReadTyped DEF Typed, SharedOK, StopRead
    <3> QED
      BY <3>1, <3>2
  <2>2. SharedOK'
    BY <1>2, <2>1 DEF Typed, SharedOK, StopRead, links, state
  <2> QED
    BY <2>1, <2>2 DEF Typed
<1>4. CASE StopQueued(th)
  <2>1. ThreadsOK' /\ life' \in [Tasklet -> {"live", "closing", "dead"}]
    BY <1>1, <1>4 DEF StopQueued, StopLocks
  <2>2. PICK t \in Tasklet, r \in RunQ :
            Remove(r, t) /\ runq' = [runq EXCEPT ![t] = NoRunQ]
    BY <1>4 DEF StopQueued
  <2>3. ListTyped'
    BY <2>2, RemoveTyped DEF Typed
  <2>4. runq' \in [Tasklet -> RunQ \cup {NoRunQ}]
    BY <2>2 DEF Typed, SharedOK
  <2>5. UNCHANGED <<current, currentState, stopWaiting, workerWaiting, blocked, owner>>
    BY <1>4 DEF StopQueued, state
  <2>6. SharedOK'
    BY <2>1, <2>3, <2>4, <2>5 DEF Typed, SharedOK, ListTyped
  <2> QED
    BY <2>1, <2>6 DEF Typed
<1>5. CASE StopOwn(th)
  <2>1. ThreadsOK' /\ life' \in [Tasklet -> {"live", "closing", "dead"}]
    BY <1>1, <1>5 DEF StopOwn, StopLocks
  <2>2. SharedOK'
    BY <1>5, <2>1 DEF Typed, SharedOK, StopOwn, links
  <2> QED
    BY <2>1, <2>2 DEF Typed
<1>6. CASE StopForeign(th)
  <2>1. PICK t \in Tasklet, r \in RunQ \ {th} :
            /\ StopLocks(th, t, r)
            /\ currentState' = [currentState EXCEPT ![r] = "stopped"]
            /\ stopWaiting' = [stopWaiting EXCEPT ![r] = TRUE]
            /\ blocked' = [blocked EXCEPT ![r] = @ \cup {th}]
            /\ pc' = [x \in Thread |->
                         IF x = th THEN "wait"
                         ELSE IF x \in RunQ /\ Veto(MutexOf[t], x)
                         THEN "vetoed" ELSE pc[x]]
    BY <1>6 DEF StopForeign
  <2>2. UNCHANGED <<links, current, workerWaiting, life, owner, call, mine>>
    BY <1>6 DEF StopForeign
  <2>3. SharedOK'
    BY <2>1, <2>2 DEF Typed, SharedOK, links
  <2>4. /\ pc[th] = "lock" /\ pc'[th] = "wait"
        /\ call[th].rq \in RunQ /\ call[th].op # "run"
        /\ pc' \in [Thread -> Label]
    BY <2>1, Labels DEF Typed, ThreadsOK, StopLocks
  <2>5. \A x \in Thread \ {th} :
            pc'[x] = pc[x] \/ (pc[x] = "transfer" /\ pc'[x] = "vetoed")
    BY <2>1 DEF Veto
  <2>6. \A x \in Thread : CallFits(pc'[x], call[x])
    BY <2>4, <2>5 DEF Typed, ThreadsOK, CallFits
  <2>7. \A x \in RunQ : Busy(pc'[x], call[x]) => mine[x] \in Tasklet
    BY <2>4, <2>5, Labels DEF Typed, ThreadsOK, Busy
  <2> QED
    BY <2>2, <2>3, <2>4, <2>6, <2>7 DEF Typed, ThreadsOK
<1>7. CASE StopWaited(th)
  <2>1. CASE current[call[th].rq] = call[th].t
    BY <1>7, <2>1 DEF Typed, SharedOK, ThreadsOK, StopWaited, links, state
  <2>2. CASE current[call[th].rq] # call[th].t
    <3>1. ThreadsOK' /\ life' \in [Tasklet -> {"live", "closing", "dead"}]
      BY <1>1, <1>7, <2>2 DEF StopWaited
    <3>2. SharedOK'
      BY <1>7, <2>2, <3>1 DEF Typed, SharedOK, StopWaited, links, state
    <3> QED
      BY <3>1, <3>2 DEF Typed
  <2> QED
    BY <2>1, <2>2
<1> QED
  BY <1>2, <1>4, <1>5, <1>6, <1>7 DEF StopStep

-----------------------------------------------------------------------------
(* The steps of a worker. *)

LEMMA TypedTake ==
    ASSUME Typed, NEW r \in RunQ, Enter(r) \/ Wake(r)
    PROVE  Typed'
<1>1. ASSUME TakeHead(r), pc[r] \in {"out", "asleep"},
             UNCHANGED <<stopWaiting, life, blocked, owner, call>>,
             workerWaiting' \in [RunQ -> BOOLEAN]
      PROVE  Typed'
  <2>1. /\ ListTyped'
        /\ current' \in [RunQ -> Tasklet \cup {NoTasklet}]
        /\ currentState' \in [RunQ -> {"started", "stopped", "requeue"}]
        /\ ThreadsOK'
    BY <1>1, TakeHeadTyped
  <2>2. UNCHANGED runq
    BY <1>1 DEF TakeHead
  <2>3. SharedOK'
    BY <1>1, <2>1, <2>2 DEF Typed, SharedOK, ListTyped
  <2> QED
    BY <2>1, <2>3 DEF Typed
<1>2. CASE Enter(r)
  BY <1>1, <1>2 DEF Enter, Typed, SharedOK
<1>3. ASSUME pc[r] = "asleep", TakeHead(r),
             workerWaiting' = [workerWaiting EXCEPT ![r] = FALSE],
             UNCHANGED <<stopWaiting, life, blocked, owner, call>>
      PROVE  Typed'
  <2>1. workerWaiting' \in [RunQ -> BOOLEAN]
    BY <1>3 DEF Typed, SharedOK
  <2> QED
    BY <1>1, <1>3, <2>1
<1>4. ASSUME blocked' = [blocked EXCEPT ![r] = @ \cup {r}],
             UNCHANGED <<links, state, life, owner, pc, call, mine>>
      PROVE  Typed'
  BY <1>4, Labels DEF Typed, SharedOK, ThreadsOK, links, state
<1> QED
  BY <1>2, <1>3, <1>4 DEF Wake

LEMMA TypedWorker ==
    ASSUME Typed, NEW r \in RunQ, WorkerStep(r)
    PROVE  Typed'
<1>1. CASE Sleep(r)
  <2>1. ThreadsOK'
    BY <1>1, WorkerMoves, Labels DEF Typed, Sleep
  <2>2. SharedOK'
    BY <1>1, Labels DEF Typed, SharedOK, Sleep, links
  <2> QED
    BY <2>1, <2>2 DEF Typed
<1>2. CASE Vetoed(r)
  <2>1. PICK l \in {"next", "transfer"} : Goto(r, l)
    BY <1>2 DEF Vetoed
  <2>2. ThreadsOK'
    BY <1>2, <2>1, WorkerMoves, Labels DEF Typed, Vetoed, Busy
  <2>3. SharedOK'
    BY <1>2 DEF Typed, SharedOK, Vetoed, links
  <2> QED
    BY <2>2, <2>3 DEF Typed
<1>3. CASE NextTasklet(r)
  <2>1. /\ stopWaiting' \in [RunQ -> BOOLEAN]
        /\ blocked' \in [RunQ -> SUBSET Thread]
    BY <1>3 DEF Typed, SharedOK, NextTasklet
  <2>2. pc[r] = "next" /\ UNCHANGED <<workerWaiting, life, owner, call>>
    BY <1>3 DEF NextTasklet
  <2>3. CASE TakeHead(r)
    <3>1. /\ ListTyped'
          /\ current' \in [RunQ -> Tasklet \cup {NoTasklet}]
          /\ currentState' \in [RunQ -> {"started", "stopped", "requeue"}]
          /\ ThreadsOK'
      BY <2>2, <2>3, TakeHeadTyped
    <3>2. UNCHANGED runq
      BY <2>3 DEF TakeHead
    <3>3. SharedOK'
      BY <2>1, <2>2, <3>1, <3>2 DEF Typed, SharedOK, ListTyped
    <3> QED
      BY <3>1, <3>3 DEF Typed
  <2>4. ASSUME current' = [current EXCEPT ![r] = NoTasklet],
               mine' = [mine EXCEPT ![r] = NoTasklet],
               Goto(r, "out"),
               UNCHANGED <<links, currentState>>
        PROVE  Typed'
    <3>1. CallFits("out", call[r]) /\ ~Busy("out", call[r])
      <4>1. CallFits(pc[r], call[r])
        BY Labels DEF Typed, ThreadsOK
      <4> QED
        BY <2>2, <4>1 DEF CallFits, Busy
    <3>2. /\ mine' \in [RunQ -> Tasklet \cup {NoTasklet}]
          /\ \A x \in RunQ \ {r} : mine'[x] = mine[x]
      BY <2>4 DEF Typed, ThreadsOK
    <3>3. ThreadsOK'
      BY <2>2, <2>4, <3>1, <3>2, MovesInCall, Labels DEF Typed
    <3>4. SharedOK'
      BY <2>1, <2>2, <2>4 DEF Typed, SharedOK, links
    <3> QED
      BY <3>3, <3>4 DEF Typed
  <2> QED
    BY <1>3, <2>3, <2>4 DEF NextTasklet
<1> QED
  BY <1>1, <1>2, <1>3, TypedTake DEF WorkerStep

LEMMA TypedHandler ==
    ASSUME Typed, NEW r \in RunQ, Transfer(r) \/ ReturnStep(r)
    PROVE  Typed'
<1>1. CASE Transfer(r)
  <2>1. ThreadsOK'
    BY <1>1, WorkerMoves, Labels DEF Typed, Transfer, Busy
  <2>2. SharedOK'
    BY <1>1, Labels DEF Typed, SharedOK, Transfer, links, state
  <2> QED
    BY <2>1, <2>2 DEF Typed
<1>2. ASSUME HandlerReturn(r), UNCHANGED <<call, mine>>
      PROVE  ThreadsOK' /\ mine[r] \in Tasklet
  <2>1. Busy(pc[r], call[r]) /\ mine[r] \in Tasklet
    BY <1>2, InBody DEF Typed, HandlerReturn
  <2> QED
    BY <1>2, <2>1, WorkerMoves, Labels DEF Typed, HandlerReturn
<1>3. CASE ReturnDestroyed(r)
  <2>1. ThreadsOK'
    BY <1>2, <1>3 DEF ReturnDestroyed
  <2>2. SharedOK'
    BY <1>3 DEF Typed, SharedOK, ReturnDestroyed, links, state
  <2> QED
    BY <2>1, <2>2 DEF Typed
<1>4. CASE ReturnIdle(r)
  <2>1. ThreadsOK'
    BY <1>2, <1>4 DEF ReturnIdle
  <2>2. SharedOK'
    BY <1>4 DEF Typed, SharedOK, ReturnIdle, state
  <2> QED
    BY <2>1, <2>2 DEF Typed
<1>5. CASE ReturnRequeue(r)
  <2>1. ThreadsOK' /\ mine[r] \in Tasklet
    BY <1>2, <1>5 DEF ReturnRequeue
  <2>2. ListTyped' /\ blocked' \in [RunQ -> SUBSET Thread]
    BY <1>5, <2>1, EnqueueTyped DEF Typed, ReturnRequeue
  <2>3. SharedOK'
    BY <1>5, <2>2 DEF Typed, SharedOK, ListTyped, ReturnRequeue, state
  <2> QED
    BY <2>1, <2>3 DEF Typed
<1> QED
  BY <1>1, <1>3, <1>4, <1>5 DEF ReturnStep

LEMMA TypedNext == Typed /\ [Next]_vars => Typed'
<1> SUFFICES ASSUME Typed, [Next]_vars PROVE Typed'
  OBVIOUS
<1>1. ASSUME NEW th \in Thread, ClientStep(th) \/ RunStep(th) \/ StopStep(th)
      PROVE  Typed'
  BY <1>1, TypedClient, TypedRun, TypedStop
<1>2. ASSUME NEW r \in RunQ, \/ Enter(r) \/ WorkerStep(r) \/ Transfer(r)
                             \/ ReturnStep(r)
      PROVE  Typed'
  BY <1>2, TypedTake, TypedWorker, TypedHandler
<1>3. ASSUME NEW r \in RunQ, SpuriousWakeup(r) PROVE Typed'
  BY <1>3 DEF Typed, SharedOK, ThreadsOK, SpuriousWakeup, links, state
<1>4. CASE UNCHANGED vars
  BY <1>4 DEF Typed, SharedOK, ThreadsOK, vars, links, state
<1> QED
  BY <1>1, <1>2, <1>3, <1>4 DEF Next

LEMMA TypedAlways == Spec => []Typed
BY TypedInit, TypedNext, PTL DEF Spec

(* Type correctness of tasklet.c's run queues: whatever the interleaving,  *)
(* the links and the run queues only ever name tasklets, and a worker that *)
(* is about to run or runs a handler has a tasklet.                        *)
THEOREM TypeCorrect == Spec => []TypeOK
BY TypedAlways, TypedImpliesTypeOK, PTL

-----------------------------------------------------------------------------
(* The inductive invariant behind HandlerHoldsMutex: from the moment that  *)
(* a worker takes a tasklet off its queue it is the current tasklet, and   *)
(* after mutex_transfer its mutex is the worker's.                         *)
HandlerOK(r) ==
    /\ pc[r] \in {"transfer", "vetoed"} => current[r] = mine[r]
    /\ InHandler(r) /\ current[r] # NoTasklet =>
          current[r] = mine[r] /\ Holds(r, mine[r])

AllHandlersOK == \A r \in RunQ : HandlerOK(r)

HInv == Typed /\ AllHandlersOK

LEMMA NotNobody == \A th \in Thread : th # NoThread
BY ConstantsAssumption

LEMMA Undisturbed ==
    ASSUME NEW r \in RunQ, HandlerOK(r), pc'[r] = pc[r], call'[r] = call[r],
           current'[r] = current[r], mine'[r] = mine[r],
           Holds(r, mine[r]) => Holds(r, mine[r])'
    PROVE  HandlerOK(r)'
BY DEF HandlerOK, InHandler, Holds

LEMMA BodyHasNoCall ==
    ASSUME Typed, NEW th \in Thread, pc[th] \notin {"read", "lock", "wait"}
    PROVE  call[th] = NoCall
<1>1. CallFits(pc[th], call[th])
  BY DEF Typed, ThreadsOK
<1> QED
  BY <1>1 DEF CallFits

(* A thread at a label inside a handler or call of a handler moves to      *)
(* another such label, or within or out of a call made elsewhere.          *)
LEMMA StaysInHandler ==
    ASSUME HInv, NEW th \in Thread, NEW l \in {"read", "lock", "wait", "body", "out"},
           pc[th] \in {"body", "read", "lock", "wait", "out"},
           Goto(th, l), UNCHANGED <<current, mine, owner>>,
           \A x \in Thread \ {th} : call'[x] = call[x],
           th \in RunQ => (InHandler(th)' => InHandler(th))
    PROVE  AllHandlersOK'
<1>1. \A x \in Thread \ {th} : pc'[x] = pc[x]
  BY DEF HInv, Typed, ThreadsOK, Goto
<1>2. ASSUME NEW r \in RunQ, r # th PROVE HandlerOK(r)'
  BY <1>1, <1>2, Undisturbed, Labels DEF HInv, AllHandlersOK, Holds
<1>3. ASSUME th \in RunQ PROVE HandlerOK(th)'
  <2>1. pc'[th] = l
    BY DEF HInv, Typed, ThreadsOK, Goto
  <2> QED
    BY <1>3, <2>1 DEF HInv, AllHandlersOK, HandlerOK, Holds
<1> QED
  BY <1>2, <1>3 DEF AllHandlersOK

LEMMA ReturnStays ==
    ASSUME HInv, NEW th \in Thread, Return(th), pc[th] \in {"read", "lock", "wait"}
    PROVE  /\ call[th].from \in {"body", "out"}
           /\ Goto(th, call[th].from)
           /\ \A x \in Thread \ {th} : call'[x] = call[x] /\ pc'[x] = pc[x]
           /\ pc'[th] = call[th].from
           /\ InHandler(th)' => InHandler(th)
<1>1. call[th].from \in {"body", "out"}
  BY DEF HInv, Typed, ThreadsOK, Call
<1>2. \A x \in Thread \ {th} : call'[x] = call[x] /\ pc'[x] = pc[x]
  BY DEF HInv, Typed, ThreadsOK, Return, Goto
<1>3. pc'[th] = call[th].from
  BY DEF HInv, Typed, ThreadsOK, Return, Goto
<1>4. InHandler(th)' => InHandler(th)
  BY <1>1, <1>3 DEF InHandler
<1> QED
  BY <1>1, <1>2, <1>3, <1>4 DEF Return

LEMMA HInvInit == Init => HInv
<1> SUFFICES ASSUME Init PROVE HInv
  OBVIOUS
<1>1. \A r \in RunQ : pc[r] = "out"
  BY Labels DEF Init
<1> QED
  BY <1>1, TypedInit DEF HInv, AllHandlersOK, HandlerOK, InHandler

LEMMA HInvClient ==
    ASSUME HInv, NEW th \in Thread, ClientStep(th)
    PROVE  AllHandlersOK'
<1>1. ASSUME NEW m \in Mutex, Lock(th, m) PROVE AllHandlersOK'
  <2>1. \A x \in Mutex : owner[x] # NoThread => owner'[x] = owner[x]
    BY <1>1 DEF Lock, HInv, Typed, SharedOK
  <2>2. ASSUME NEW r \in RunQ PROVE HandlerOK(r)'
    <3>1. Holds(r, mine[r]) /\ mine[r] \in Tasklet => Holds(r, mine[r])'
      BY <1>1, <2>1, NotNobody, Labels, ConstantsAssumption DEF Lock, Holds
    <3>2. InHandler(r) => mine[r] \in Tasklet
      BY DEF HInv, Typed, ThreadsOK, Busy, InHandler
    <3> QED
      BY <1>1, <3>1, <3>2
         DEF Lock, state, HInv, AllHandlersOK, HandlerOK, InHandler, Holds
  <2> QED
    BY <2>2 DEF AllHandlersOK
<1>2. ASSUME NEW m \in Mutex, Unlock(th, m) PROVE AllHandlersOK'
  <2>1. \A x \in Mutex : owner[x] # th => owner'[x] = owner[x]
    BY <1>2 DEF Unlock, HInv, Typed, SharedOK
  <2>2. ASSUME NEW r \in RunQ PROVE HandlerOK(r)'
    <3>1. CASE r # th
      <4>1. Holds(r, mine[r]) /\ mine[r] \in Tasklet => Holds(r, mine[r])'
        BY <1>2, <2>1, <3>1, ConstantsAssumption DEF Unlock, Holds
      <4>2. InHandler(r) => mine[r] \in Tasklet
        BY DEF HInv, Typed, ThreadsOK, Busy, InHandler
      <4> QED
        BY <1>2, <4>1, <4>2
           DEF Unlock, state, HInv, AllHandlersOK, HandlerOK, InHandler, Holds
    <3>2. CASE r = th
      <4>1. InHandler(r)
        BY <1>2, <3>2, BodyHasNoCall, Labels DEF Unlock, HInv, InHandler
      <4>2. current[r] = NoTasklet
        BY <1>2, <3>2, <4>1 DEF Unlock, HInv, AllHandlersOK, HandlerOK
      <4> QED
        BY <1>2, <3>2, <4>2 DEF Unlock, state, HandlerOK
    <3> QED
      BY <3>1, <3>2
  <2> QED
    BY <2>2 DEF AllHandlersOK
<1>3. ASSUME NEW t \in Tasklet, TaskletInit(th, t) PROVE AllHandlersOK'
  BY <1>3 DEF TaskletInit, state, HInv, AllHandlersOK, HandlerOK, InHandler, Holds
<1>4. ASSUME NEW t \in Tasklet, NEW op, pc[th] \in {"body", "out"}, Begin(th, op, t)
      PROVE  AllHandlersOK'
  <2>1. \A x \in Thread \ {th} : call'[x] = call[x]
    BY <1>4 DEF Begin, HInv, Typed, ThreadsOK
  <2>2. call'[th].from = pc[th]
    BY <1>4 DEF Begin, HInv, Typed, ThreadsOK
  <2>3. pc[th] = "body" => InHandler(th)
    BY BodyHasNoCall, Labels DEF HInv, InHandler
  <2>4. InHandler(th)' => InHandler(th)
    BY <1>4, <2>2, <2>3 DEF InHandler
  <2> QED
    BY <1>4, <2>1, <2>4, StaysInHandler DEF Begin, state
<1> QED
  BY <1>1, <1>2, <1>3, <1>4 DEF ClientStep, CallRun, CallStop, CallFini

LEMMA HInvRun ==
    ASSUME HInv, NEW th \in Thread, RunStep(th)
    PROVE  AllHandlersOK'
<1>1. CASE RunRead(th)
  <2>1. /\ \A x \in Thread \ {th} : call'[x] = call[x]
        /\ call'[th].from = call[th].from
    BY <1>1 DEF RunRead, HInv, Typed, ThreadsOK, Call
  <2>2. InHandler(th)' => InHandler(th)
    BY <1>1, <2>1 DEF RunRead, InHandler
  <2> QED
    BY <1>1, <2>1, <2>2, StaysInHandler DEF RunRead, state
<1>2. CASE RunRetry(th)
  <2>1. InHandler(th)' => InHandler(th)
    BY <1>2 DEF RunRetry, RunLocks, InHandler
  <2> QED
    BY <1>2, <2>1, StaysInHandler DEF RunRetry, RunLocks, state
<1>3. ASSUME Return(th), pc[th] = "lock", UNCHANGED <<current, mine, owner>>
      PROVE  AllHandlersOK'
  BY <1>3, ReturnStays, StaysInHandler
<1> QED
  BY <1>1, <1>2, <1>3 DEF RunStep, RunDone, RunMark, RunEnqueue, RunLocks, state

LEMMA HInvStop ==
    ASSUME HInv, NEW th \in Thread, StopStep(th)
    PROVE  AllHandlersOK'
<1>1. ASSUME ReturnQuiet(th), pc[th] \in {"read", "lock", "wait"},
             UNCHANGED <<current, mine, owner>>
      PROVE  AllHandlersOK'
  BY <1>1, ReturnStays, StaysInHandler DEF ReturnQuiet
<1>2. CASE StopRead(th)
  <2>1. CASE runq[call[th].t] = NoRunQ
    BY <1>1, <1>2, <2>1 DEF StopRead, state
  <2>2. CASE runq[call[th].t] # NoRunQ
    <3>1. /\ \A x \in Thread \ {th} : call'[x] = call[x]
          /\ call'[th].from = call[th].from
      BY <1>2, <2>2 DEF StopRead, HInv, Typed, ThreadsOK, Call
    <3>2. InHandler(th)' => InHandler(th)
      BY <1>2, <3>1 DEF StopRead, InHandler
    <3> QED
      BY <1>2, <2>2, <3>1, <3>2, StaysInHandler DEF StopRead, state
  <2> QED
    BY <2>1, <2>2
<1>4. CASE StopQueued(th)
  BY <1>1, <1>4 DEF StopQueued, StopLocks, state
<1>5. CASE StopOwn(th)
  <2>1. th \in RunQ /\ pc[th] = "lock" /\ Return(th) /\ UNCHANGED <<mine, owner>>
    BY <1>5 DEF StopOwn, StopLocks, ReturnQuiet
  <2>2. current' = [current EXCEPT ![th] = NoTasklet] \/ UNCHANGED current
    BY <1>5 DEF StopOwn
  <2>3. ASSUME NEW r \in RunQ, r # th PROVE HandlerOK(r)'
    BY <2>1, <2>2, <2>3, ReturnStays, Undisturbed, Labels
       DEF HInv, Typed, SharedOK, AllHandlersOK, Holds
  <2>4. HandlerOK(th)'
    <3>1. pc'[th] \in {"body", "out"} /\ (InHandler(th)' => InHandler(th))
      BY <2>1, ReturnStays
    <3>2. current'[th] \in {NoTasklet, current[th]}
      BY <2>1, <2>2 DEF HInv, Typed, SharedOK
    <3> QED
      BY <2>1, <3>1, <3>2 DEF HInv, AllHandlersOK, HandlerOK, Holds
  <2> QED
    BY <2>3, <2>4 DEF AllHandlersOK
<1>6. CASE StopForeign(th)
  <2>1. /\ pc[th] = "lock" /\ pc'[th] = "wait"
        /\ UNCHANGED <<current, mine, owner, call>>
    BY <1>6 DEF StopForeign, StopLocks
  <2>2. \A x \in Thread \ {th} :
            pc'[x] = pc[x] \/ (pc[x] = "transfer" /\ pc'[x] = "vetoed")
    BY <1>6 DEF StopForeign, Veto
  <2> QED
    BY <2>1, <2>2, Labels DEF HInv, AllHandlersOK, HandlerOK, InHandler, Holds
<1>7. CASE StopWaited(th)
  <2>1. CASE current[call[th].rq] = call[th].t
    BY <1>7, <2>1
       DEF StopWaited, state, HInv, AllHandlersOK, HandlerOK, InHandler, Holds
  <2>2. CASE current[call[th].rq] # call[th].t
    BY <1>1, <1>7, <2>2 DEF StopWaited, state
  <2> QED
    BY <2>1, <2>2
<1> QED
  BY <1>2, <1>4, <1>5, <1>6, <1>7 DEF StopStep

(* A worker outside any call moves, and no other thread is concerned.      *)
LEMMA WorkerAlone ==
    ASSUME HInv, NEW r \in RunQ, NEW l, Goto(r, l), UNCHANGED call,
           \A x \in RunQ \ {r} :
              /\ current'[x] = current[x] /\ mine'[x] = mine[x]
              /\ Holds(x, mine[x]) /\ mine[x] \in Tasklet => Holds(x, mine[x])',
           HandlerOK(r)'
    PROVE  AllHandlersOK'
<1>1. \A x \in Thread \ {r} : pc'[x] = pc[x]
  BY DEF HInv, Typed, ThreadsOK, Goto
<1>2. ASSUME NEW x \in RunQ, x # r PROVE HandlerOK(x)'
  <2>1. InHandler(x) => mine[x] \in Tasklet
    BY DEF HInv, Typed, ThreadsOK, Busy, InHandler
  <2> QED
    BY <1>1, <1>2, <2>1, Labels
       DEF HInv, AllHandlersOK, HandlerOK, InHandler, Holds
<1> QED
  BY <1>2 DEF AllHandlersOK

LEMMA HInvTake ==
    ASSUME HInv, NEW r \in RunQ, TakeHead(r), UNCHANGED <<call, owner>>
    PROVE  AllHandlersOK'
<1>1. \A x \in RunQ \ {r} : current'[x] = current[x] /\ mine'[x] = mine[x]
  BY DEF TakeHead, HInv, Typed, SharedOK, ThreadsOK
<1>2. pc'[r] = "transfer" /\ current'[r] = mine'[r]
  BY Labels DEF TakeHead, Goto, HInv, Typed, SharedOK, ThreadsOK
<1>3. HandlerOK(r)'
  BY <1>2 DEF HandlerOK, InHandler
<1> QED
  BY <1>1, <1>3, WorkerAlone DEF TakeHead, Holds

LEMMA HInvWorker ==
    ASSUME HInv, NEW r \in RunQ,
           Enter(r) \/ WorkerStep(r) \/ Transfer(r) \/ ReturnStep(r)
    PROVE  AllHandlersOK'
<1> USE Labels
<1>1. CASE Enter(r)
  BY <1>1, HInvTake DEF Enter
<1>2. CASE Sleep(r)
  <2>1. HandlerOK(r)'
    BY <1>2 DEF Sleep, Goto, HInv, Typed, ThreadsOK, HandlerOK, InHandler
  <2> QED
    BY <1>2, <2>1, WorkerAlone DEF Sleep, Holds
<1>3. CASE Wake(r)
  <2>1. ASSUME UNCHANGED <<links, state, life, owner, pc, call, mine>>
        PROVE  AllHandlersOK'
    BY <2>1 DEF state, HInv, AllHandlersOK, HandlerOK, InHandler, Holds
  <2> QED
    BY <1>3, <2>1, HInvTake DEF Wake
<1>4. CASE Vetoed(r)
  <2>1. PICK l \in {"next", "transfer"} : Goto(r, l)
    BY <1>4 DEF Vetoed
  <2>2. HandlerOK(r)'
    BY <1>4, <2>1
       DEF Vetoed, Goto, HInv, Typed, ThreadsOK, AllHandlersOK, HandlerOK, InHandler
  <2> QED
    BY <1>4, <2>1, <2>2, WorkerAlone DEF Vetoed, Holds
<1>5. CASE NextTasklet(r)
  <2>1. ASSUME current' = [current EXCEPT ![r] = NoTasklet],
               mine' = [mine EXCEPT ![r] = NoTasklet], Goto(r, "out")
        PROVE  AllHandlersOK'
    <3>1. \A x \in RunQ \ {r} : current'[x] = current[x] /\ mine'[x] = mine[x]
      BY <2>1 DEF HInv, Typed, SharedOK, ThreadsOK
    <3>2. HandlerOK(r)'
      BY <2>1 DEF Goto, HInv, Typed, ThreadsOK, HandlerOK, InHandler
    <3> QED
      BY <1>5, <2>1, <3>1, <3>2, WorkerAlone DEF NextTasklet, Holds
  <2> QED
    BY <1>5, <2>1, HInvTake DEF NextTasklet
<1>6. CASE Transfer(r)
  <2>1. mine[r] \in Tasklet /\ MutexOf[mine[r]] \in Mutex
    BY <1>6, ConstantsAssumption DEF Transfer, HInv, Typed, ThreadsOK, Busy
  <2>2. /\ owner'[MutexOf[mine[r]]] = r
        /\ \A m \in Mutex : owner[m] # NoThread => owner'[m] = owner[m]
    BY <1>6, <2>1 DEF Transfer, HInv, Typed, SharedOK
  <2>3. HandlerOK(r)'
    BY <1>6, <2>2
       DEF Transfer, Goto, state, HInv, Typed, ThreadsOK, AllHandlersOK, HandlerOK,
           InHandler, Holds
  <2>4. \A x \in RunQ \ {r} :
           Holds(x, mine[x]) /\ mine[x] \in Tasklet => Holds(x, mine[x])'
    BY <1>6, <2>2, NotNobody, ConstantsAssumption DEF Transfer, Holds
  <2> QED
    BY <1>6, <2>3, <2>4, WorkerAlone DEF Transfer, state
<1>7. ASSUME HandlerReturn(r), UNCHANGED <<current, call, mine>>,
             \A x \in RunQ \ {r} :
                Holds(x, mine[x]) /\ mine[x] \in Tasklet => Holds(x, mine[x])'
      PROVE  AllHandlersOK'
  <2>1. HandlerOK(r)'
    BY <1>7 DEF HandlerReturn, Goto, HInv, Typed, ThreadsOK, HandlerOK, InHandler
  <2> QED
    BY <1>7, <2>1, WorkerAlone DEF HandlerReturn
<1>8. CASE ReturnDestroyed(r)
  BY <1>7, <1>8 DEF ReturnDestroyed, state, Holds
<1>9. ASSUME HandlerReturn(r), current[r] = mine[r],
             UNCHANGED <<current, call, mine>>,
             owner' = [owner EXCEPT ![MutexOf[mine[r]]] = NoThread]
      PROVE  AllHandlersOK'
  <2>1. InHandler(r) /\ mine[r] \in Tasklet
    BY <1>9, InBody DEF HInv, Typed, HandlerReturn, InHandler
  <2>2. owner[MutexOf[mine[r]]] = r
    BY <1>9, <2>1, ConstantsAssumption DEF HInv, AllHandlersOK, HandlerOK, Holds
  <2>3. \A m \in Mutex : owner[m] # r => owner'[m] = owner[m]
    BY <1>9, <2>2 DEF HInv, Typed, SharedOK
  <2>4. \A x \in RunQ \ {r} :
           Holds(x, mine[x]) /\ mine[x] \in Tasklet => Holds(x, mine[x])'
    BY <1>9, <2>3, ConstantsAssumption DEF Holds
  <2> QED
    BY <1>7, <1>9, <2>4
<1>10. CASE ReturnStep(r)
  BY <1>8, <1>9, <1>10 DEF ReturnStep, ReturnIdle, ReturnRequeue, state
<1> QED
  BY <1>1, <1>2, <1>3, <1>4, <1>5, <1>6, <1>10 DEF WorkerStep

LEMMA HInvNext == HInv /\ [Next]_vars => HInv'
<1> SUFFICES ASSUME HInv, [Next]_vars PROVE AllHandlersOK'
  BY TypedNext DEF HInv
<1>1. ASSUME NEW th \in Thread, ClientStep(th) \/ RunStep(th) \/ StopStep(th)
      PROVE  AllHandlersOK'
  BY <1>1, HInvClient, HInvRun, HInvStop
<1>2. ASSUME NEW r \in RunQ, SpuriousWakeup(r) PROVE AllHandlersOK'
  BY <1>2
     DEF SpuriousWakeup, state, HInv, AllHandlersOK, HandlerOK, InHandler, Holds
<1>3. CASE UNCHANGED vars
  BY <1>3 DEF vars, state, HInv, AllHandlersOK, HandlerOK, InHandler, Holds
<1> QED
  BY <1>1, <1>2, <1>3, HInvWorker DEF Next

LEMMA HInvAlways == Spec => []HInv
BY HInvInit, HInvNext, PTL DEF Spec

(* A handler runs with its tasklet's mutex held, by its own worker, until  *)
(* it has finalized the tasklet: whatever the clients, the other workers,  *)
(* the vetoes of mutex_transfer and the foreign stops do meanwhile.        *)
THEOREM HandlersAreExclusive == Spec => []HandlerHoldsMutex
<1>1. HInv => HandlerHoldsMutex
  BY DEF HInv, AllHandlersOK, HandlerOK, HandlerHoldsMutex
<1> QED
  BY <1>1, HInvAlways, PTL

(* Two workers never run handlers of tasklets that share a mutex at once.  *)
THEOREM OneHandlerPerMutex ==
    Spec => [](\A r \in RunQ : \A q \in RunQ \ {r} :
                  /\ InHandler(r) /\ current[r] # NoTasklet
                  /\ InHandler(q) /\ current[q] # NoTasklet
                  => MutexOf[current[r]] # MutexOf[current[q]])
<1>1. HInv => \A r \in RunQ : \A q \in RunQ \ {r} :
                  /\ InHandler(r) /\ current[r] # NoTasklet
                  /\ InHandler(q) /\ current[q] # NoTasklet
                  => MutexOf[current[r]] # MutexOf[current[q]]
  BY DEF HInv, AllHandlersOK, HandlerOK, Holds
<1> QED
  BY <1>1, HInvAlways, PTL

-----------------------------------------------------------------------------
(* Why the loops of tasklet_stop and tasklet_fini never go round: a call   *)
(* that stops or finalizes a tasklet has the tasklet's mutex, the others   *)
(* that take a tasklet off its run queue do too, and a tasklet that is     *)
(* being finalized is in no other call.                                    *)
CallSafe(th) ==
    LET t == call[th].t
    IN  /\ call[th].op \in {"run", "stop"} => life[t] = "live"
        /\ call[th].op = "fini" => life[t] = "closing"
        /\ call[th].op \in {"stop", "fini"} =>
              /\ Holds(th, t)
              /\ pc[th] = "lock" => runq[t] = call[th].rq /\ call[th].rq # NoRunQ

SInv == HInv /\ \A th \in Thread : CallSafe(th)

LEMMA InCall ==
    ASSUME Typed, NEW th \in Thread
    PROVE  /\ call[th] \in Call
           /\ call[th].op # "none" =>
                 pc[th] \in {"read", "lock", "wait"} /\ call[th].t \in Tasklet
<1>1. call[th] \in Call /\ CallFits(pc[th], call[th])
  BY DEF Typed, ThreadsOK
<1> QED
  BY <1>1 DEF CallFits, NoCall

(* A thread whose call stays is still safe, unless its tasklet is          *)
(* disturbed.                                                              *)
LEMMA CallKept ==
    ASSUME SInv, NEW th \in Thread, call'[th] = call[th],
           pc'[th] = "lock" => pc[th] = "lock",
           call[th].op # "none" => life'[call[th].t] = life[call[th].t],
           call[th].op \in {"stop", "fini"} =>
              /\ Holds(th, call[th].t)'
              /\ pc[th] = "lock" => runq'[call[th].t] = runq[call[th].t]
    PROVE  CallSafe(th)'
<1>1. CallSafe(th)
  BY DEF SInv
<1>2. call[th].op \in {"run", "stop", "fini"} => call[th].op # "none"
  OBVIOUS
<1> QED
  BY <1>1, <1>2 DEF CallSafe, Holds

LEMMA NoCallSafe ==
    ASSUME NEW th, call[th] = NoCall
    PROVE  CallSafe(th)
BY DEF CallSafe, NoCall

(* Two calls that stop or finalize are calls of one thread, or about       *)
(* different tasklets.                                                     *)
LEMMA StopsExclude ==
    ASSUME SInv, NEW th \in Thread, NEW x \in Thread \ {th},
           call[th].op \in {"stop", "fini"},
           call[x].op # "none",
           call[x].op \in {"stop", "fini"} \/ call[th].op = "fini"
    PROVE  call[x].t # call[th].t
<1>1. CallSafe(th) /\ CallSafe(x) /\ call[x] \in Call
  BY InCall DEF SInv, HInv
<1>2. call[x].op \in {"run", "stop", "fini"}
  BY <1>1 DEF Call
<1> QED
  BY <1>1, <1>2 DEF CallSafe, Holds

LEMMA SInvInit == Init => SInv
<1> SUFFICES ASSUME Init PROVE SInv
  OBVIOUS
<1>1. \A th \in Thread : call[th] = NoCall
  BY DEF Init
<1> QED
  BY <1>1, HInvInit, NoCallSafe DEF SInv

LEMMA SInvClient ==
    ASSUME SInv, NEW th \in Thread, ClientStep(th)
    PROVE  \A x \in Thread : CallSafe(x)'
<1> USE DEF SInv, HInv
<1>1. ASSUME NEW m \in Mutex, Lock(th, m) \/ Unlock(th, m), NEW x \in Thread
      PROVE  CallSafe(x)'
  <2>1. ASSUME call[x].op \in {"stop", "fini"} PROVE Holds(x, call[x].t)'
    <3>1. /\ pc[x] \in {"read", "lock", "wait"} /\ call[x].t \in Tasklet
          /\ Holds(x, call[x].t)
      BY <2>1, InCall DEF CallSafe
    <3>2. x # th /\ MutexOf[call[x].t] \in Mutex
      BY <1>1, <3>1, ConstantsAssumption DEF Lock, Unlock
    <3>3. \A k \in Mutex : owner[k] = x => owner'[k] = x
      BY <1>1, <3>2, NotNobody DEF Lock, Unlock, Typed, SharedOK
    <3> QED
      BY <1>1, <3>1, <3>2, <3>3 DEF Holds, Lock, Unlock
  <2> QED
    BY <1>1, <2>1, CallKept DEF Lock, Unlock, links
<1>2. ASSUME NEW t \in Tasklet, TaskletInit(th, t), NEW x \in Thread
      PROVE  CallSafe(x)'
  <2>1. ASSUME call[x].op # "none" PROVE call[x].t # t /\ call[x].t \in Tasklet
    BY <1>2, <2>1, InCall DEF CallSafe, Call, TaskletInit
  <2>2. ASSUME NEW u \in Tasklet \ {t} PROVE life'[u] = life[u] /\ runq'[u] = runq[u]
    BY <1>2 DEF TaskletInit, Typed, SharedOK
  <2>3. UNCHANGED <<call, pc, owner>>
    BY <1>2 DEF TaskletInit
  <2>4. call[x].op \in {"stop", "fini"} => Holds(x, call[x].t)'
    BY <2>3 DEF CallSafe, Holds
  <2> QED
    BY <2>1, <2>2, <2>3, <2>4, CallKept
<1>3. ASSUME NEW t \in Tasklet,
             CallRun(th, t) \/ CallStop(th, t) \/ CallFini(th, t),
             NEW x \in Thread
      PROVE  CallSafe(x)'
  <2>1. PICK op \in {"run", "stop", "fini"} :
            /\ Begin(th, op, t)
            /\ op \in {"stop", "fini"} => Holds(th, t)
            /\ IF op = "fini"
               THEN /\ life' = [life EXCEPT ![t] = "closing"]
                    /\ \A y \in Thread : call[y].t # t
               ELSE UNCHANGED life
    BY <1>3 DEF CallRun, CallStop, CallFini
  <2>2. /\ pc'[th] = "read"
        /\ call'[th].op = op /\ call'[th].t = t
        /\ \A y \in Thread \ {th} : pc'[y] = pc[y] /\ call'[y] = call[y]
        /\ life[t] = "live"
        /\ UNCHANGED <<runq, owner>>
    BY <2>1 DEF Begin, Goto, links, Typed, ThreadsOK
  <2>3. CASE x = th
    BY <2>1, <2>2, <2>3 DEF CallSafe, Holds, Typed, SharedOK
  <2>4. CASE x # th
    <3>1. call[x].op # "none" => life'[call[x].t] = life[call[x].t]
      BY <2>1, InCall DEF Typed, SharedOK
    <3>2. call[x].op \in {"stop", "fini"} => Holds(x, call[x].t)'
      BY <2>2, <2>4 DEF CallSafe, Holds
    <3> QED
      BY <2>2, <2>4, <3>1, <3>2, CallKept
  <2> QED
    BY <2>3, <2>4
<1> QED
  BY <1>1, <1>2, <1>3 DEF ClientStep

(* A thread moves on in its call or returns from it, and the tasklets of   *)
(* the other calls are not disturbed.                                      *)
LEMMA SInvCall ==
    ASSUME SInv, NEW th \in Thread, UNCHANGED owner,
           \A x \in Thread \ {th} :
              /\ call'[x] = call[x]
              /\ pc'[x] = "lock" => pc[x] = "lock"
              /\ call[x].op # "none" => life'[call[x].t] = life[call[x].t]
              /\ call[x].op \in {"stop", "fini"} =>
                    runq'[call[x].t] = runq[call[x].t],
           CallSafe(th)'
    PROVE  \A x \in Thread : CallSafe(x)'
<1>1. ASSUME NEW x \in Thread \ {th} PROVE CallSafe(x)'
  <2>1. call[x].op \in {"stop", "fini"} => Holds(x, call[x].t)'
    BY DEF SInv, CallSafe, Holds
  <2> QED
    BY <2>1, CallKept
<1> QED
  BY <1>1

LEMMA Returned ==
    ASSUME SInv, NEW th \in Thread, Return(th)
    PROVE  /\ CallSafe(th)'
           /\ \A x \in Thread \ {th} : pc'[x] = pc[x] /\ call'[x] = call[x]
<1>1. call'[th] = NoCall
  BY DEF SInv, HInv, Typed, ThreadsOK, Return
<1>2. CallSafe(th)'
  BY <1>1 DEF CallSafe, NoCall
<1> QED
  BY <1>2 DEF SInv, HInv, Typed, ThreadsOK, Return, Goto

LEMMA SInvRun ==
    ASSUME SInv, NEW th \in Thread, RunStep(th)
    PROVE  \A x \in Thread : CallSafe(x)'
<1> USE DEF SInv, HInv
<1>1. CASE RunRead(th)
  <2>1. /\ call'[th].op = "run" /\ call'[th].t = call[th].t
        /\ \A x \in Thread \ {th} : pc'[x] = pc[x] /\ call'[x] = call[x]
        /\ UNCHANGED <<life, runq, owner>>
    BY <1>1, InCall DEF RunRead, Goto, Call, links, Typed, ThreadsOK
  <2>2. CallSafe(th)'
    BY <1>1, <2>1 DEF CallSafe, RunRead
  <2> QED
    BY <2>1, <2>2, SInvCall
<1>2. CASE RunRetry(th)
  <2>1. /\ UNCHANGED <<life, runq, owner, call>>
        /\ \A x \in Thread \ {th} : pc'[x] = pc[x]
    BY <1>2 DEF RunRetry, Goto, links, Typed, ThreadsOK
  <2>2. CallSafe(th)'
    BY <1>2, <2>1 DEF CallSafe, RunRetry, RunLocks
  <2> QED
    BY <2>1, <2>2, SInvCall
<1>3. CASE RunMark(th)
  BY <1>3, Returned, SInvCall DEF RunMark, links
<1>4. CASE RunEnqueue(th)
  <2>1. PICK t \in Tasklet, r \in RunQ :
            runq[t] = NoRunQ /\ runq' = [runq EXCEPT ![t] = r]
    BY <1>4 DEF RunEnqueue
  <2>2. Return(th) /\ UNCHANGED <<life, owner>>
    BY <1>4 DEF RunEnqueue
  <2>3. ASSUME NEW x \in Thread \ {th} PROVE CallSafe(x)'
    <3>1. /\ call[x].op \in {"stop", "fini"} => Holds(x, call[x].t)'
          /\ pc'[x] = pc[x] /\ call'[x] = call[x]
      BY <2>2, <2>3, Returned DEF CallSafe, Holds
    <3>2. call[x].op \in {"stop", "fini"} /\ pc[x] = "lock"
             => runq'[call[x].t] = runq[call[x].t]
      <4>1. call[x].op \in {"stop", "fini"} /\ pc[x] = "lock" => call[x].t # t
        BY <2>1 DEF CallSafe
      <4> QED
        BY <2>1, <4>1, InCall DEF Typed, SharedOK
    <3> QED
      BY <2>2, <3>1, <3>2, CallKept
  <2> QED
    BY <2>2, <2>3, Returned
<1> QED
  BY <1>1, <1>2, <1>3, <1>4 DEF RunStep, RunDone

LEMMA SInvStop ==
    ASSUME SInv, NEW th \in Thread, StopStep(th)
    PROVE  \A x \in Thread : CallSafe(x)'
<1> USE DEF SInv, HInv
<1>1. ASSUME call[th].op # "run", pc[th] \in {"read", "lock", "wait"}
      PROVE  call[th].op \in {"stop", "fini"} /\ call[th].t \in Tasklet
  BY <1>1 DEF Call, Typed, ThreadsOK, CallFits
<1>2. ASSUME call[th].op \in {"stop", "fini"}, ReturnQuiet(th), UNCHANGED owner,
             runq' = [runq EXCEPT ![call[th].t] = NoRunQ] \/ UNCHANGED runq
      PROVE  \A x \in Thread : CallSafe(x)'
  <2>1. ASSUME NEW x \in Thread \ {th}
        PROVE  /\ call'[x] = call[x]
               /\ pc'[x] = "lock" => pc[x] = "lock"
               /\ call[x].op # "none" => life'[call[x].t] = life[call[x].t]
               /\ call[x].op \in {"stop", "fini"} =>
                     runq'[call[x].t] = runq[call[x].t]
    <3>1. call'[x] = call[x] /\ pc'[x] = pc[x]
      BY <1>2, Returned DEF ReturnQuiet
    <3>2. ASSUME call[x].op # "none" PROVE life'[call[x].t] = life[call[x].t]
      <4>1. CASE call[th].op = "fini"
        BY <1>2, <3>2, <4>1, StopsExclude, InCall DEF ReturnQuiet, Typed, SharedOK
      <4>2. CASE call[th].op # "fini"
        BY <1>2, <4>2 DEF ReturnQuiet
      <4> QED
        BY <4>1, <4>2
    <3>3. ASSUME call[x].op \in {"stop", "fini"}
          PROVE  runq'[call[x].t] = runq[call[x].t]
      <4>1. call[x].op # "none"
        BY <3>3
      <4>2. call[x].t # call[th].t /\ call[x].t \in Tasklet
        BY <1>2, <3>3, <4>1, StopsExclude, InCall
      <4> QED
        BY <1>2, <4>2 DEF Typed, SharedOK
    <3> QED
      BY <3>1, <3>2, <3>3
  <2>2. CallSafe(th)'
    BY <1>2, Returned DEF ReturnQuiet
  <2> QED
    BY <1>2, <2>1, <2>2, SInvCall
<1>3. CASE StopRead(th)
  <2>1. call[th].op \in {"stop", "fini"} /\ call[th].t \in Tasklet
    BY <1>1, <1>3 DEF StopRead
  <2>2. CASE runq[call[th].t] = NoRunQ
    BY <1>2, <1>3, <2>1, <2>2 DEF StopRead, links
  <2>3. CASE runq[call[th].t] # NoRunQ
    <3>1. /\ call'[th].op = call[th].op /\ call'[th].t = call[th].t
          /\ call'[th].rq = runq[call[th].t]
          /\ \A x \in Thread \ {th} : pc'[x] = pc[x] /\ call'[x] = call[x]
          /\ UNCHANGED <<life, runq, owner>>
      BY <1>3, <2>3, InCall DEF StopRead, Goto, Call, links, Typed, ThreadsOK
    <3>2. CallSafe(th)'
      BY <2>1, <2>3, <3>1 DEF CallSafe, Holds
    <3> QED
      BY <3>1, <3>2, SInvCall
  <2> QED
    BY <2>2, <2>3
<1>4. CASE StopQueued(th)
  <2>1. call[th].op \in {"stop", "fini"}
    BY <1>1, <1>4 DEF StopQueued, StopLocks
  <2>2. /\ ReturnQuiet(th) /\ UNCHANGED owner
        /\ runq' = [runq EXCEPT ![call[th].t] = NoRunQ]
    BY <1>4 DEF StopQueued, StopLocks
  <2> QED
    BY <1>2, <2>1, <2>2
<1>5. CASE StopOwn(th)
  BY <1>1, <1>2, <1>5 DEF StopOwn, StopLocks, links
<1>6. CASE StopForeign(th)
  <2>1. /\ pc[th] = "lock" /\ pc'[th] = "wait"
        /\ UNCHANGED <<life, runq, owner, call>>
    BY <1>6 DEF StopForeign, StopLocks, links
  <2>2. \A x \in Thread \ {th} : pc'[x] = "lock" => pc[x] = "lock"
    BY <1>6 DEF StopForeign
  <2>3. CallSafe(th)'
    BY <2>1 DEF CallSafe, Holds
  <2> QED
    BY <2>1, <2>2, <2>3, SInvCall
<1>7. CASE StopWaited(th)
  <2>1. call[th].op \in {"stop", "fini"}
    BY <1>1, <1>7 DEF StopWaited, Typed, ThreadsOK, CallFits
  <2>2. CASE current[call[th].rq] = call[th].t
    <3>1. UNCHANGED <<life, runq, owner, call, pc>>
      BY <1>7, <2>2 DEF StopWaited, links
    <3> QED
      BY <3>1, SInvCall DEF CallSafe, Holds
  <2>3. CASE current[call[th].rq] # call[th].t
    BY <1>2, <1>7, <2>1, <2>3 DEF StopWaited, links
  <2> QED
    BY <2>2, <2>3
<1> QED
  BY <1>3, <1>4, <1>5, <1>6, <1>7 DEF StopStep

(* A worker moves, outside any call. *)
LEMMA SInvWorker ==
    ASSUME SInv, NEW r \in RunQ,
           Enter(r) \/ WorkerStep(r) \/ Transfer(r) \/ ReturnStep(r)
    PROVE  \A x \in Thread : CallSafe(x)'
<1> USE DEF SInv, HInv
<1>1. ASSUME NEW x \in Thread, UNCHANGED <<call, life>>,
             pc'[x] = "lock" => pc[x] = "lock",
             call[x].op \in {"stop", "fini"} =>
                 Holds(x, call[x].t)' /\ runq'[call[x].t] = runq[call[x].t]
      PROVE  CallSafe(x)'
  BY <1>1, CallKept
<1>2. ASSUME NEW l \in Label \ {"lock"}, Goto(r, l)
      PROVE  \A x \in Thread : pc'[x] = "lock" => pc[x] = "lock"
  BY <1>2, Labels DEF Goto, Typed, ThreadsOK
<1>3. ASSUME UNCHANGED <<call, life, runq, owner>>,
             \A x \in Thread : pc'[x] = "lock" => pc[x] = "lock"
      PROVE  \A x \in Thread : CallSafe(x)'
  BY <1>1, <1>3 DEF CallSafe, Holds
<1>4. CASE Enter(r) \/ WorkerStep(r)
  <2>1. UNCHANGED <<call, life, runq, owner>>
    BY <1>4 DEF Enter, WorkerStep, Sleep, Wake, Vetoed, NextTasklet, TakeHead, links
  <2>2. UNCHANGED pc \/ \E l \in {"asleep", "transfer", "next", "out"} : Goto(r, l)
    BY <1>4 DEF Enter, WorkerStep, Sleep, Wake, Vetoed, NextTasklet, TakeHead
  <2> QED
    BY <1>2, <1>3, <2>1, <2>2, Labels
<1>5. CASE Transfer(r)
  <2>1. UNCHANGED <<call, life, runq>> /\ Goto(r, "body")
    BY <1>5 DEF Transfer, links
  <2>2. \A x \in Thread : \A m \in Mutex : owner[m] = x => owner'[m] = x
    BY <1>5, NotNobody DEF Transfer, Typed, SharedOK
  <2>3. ASSUME NEW x \in Thread, call[x].op \in {"stop", "fini"}
        PROVE  Holds(x, call[x].t)'
    <3>1. call[x].t \in Tasklet
      BY <2>3, InCall
    <3> QED
      BY <2>1, <2>2, <2>3, <3>1, ConstantsAssumption DEF CallSafe, Holds
  <2> QED
    BY <1>1, <1>2, <2>1, <2>3, Labels
<1>6. CASE ReturnDestroyed(r)
  BY <1>2, <1>3, <1>6, Labels DEF ReturnDestroyed, HandlerReturn, links
<1>7. ASSUME HandlerReturn(r), current[r] = mine[r],
             UNCHANGED <<call, life>>,
             runq' = [runq EXCEPT ![mine[r]] = NoRunQ] \/ UNCHANGED runq,
             owner' = [owner EXCEPT ![MutexOf[mine[r]]] = NoThread]
      PROVE  \A x \in Thread : CallSafe(x)'
  <2>1. InHandler(r) /\ mine[r] \in Tasklet /\ call[r] = NoCall
    BY <1>7, InBody, Labels DEF HandlerReturn, InHandler, Typed
  <2>2. owner[MutexOf[mine[r]]] = r
    BY <1>7, <2>1, ConstantsAssumption DEF AllHandlersOK, HandlerOK, Holds
  <2>3. ASSUME NEW x \in Thread, call[x].op \in {"stop", "fini"}
        PROVE  Holds(x, call[x].t)' /\ runq'[call[x].t] = runq[call[x].t]
    <3>1. call[x].t \in Tasklet /\ Holds(x, call[x].t)
      BY <2>3, InCall DEF CallSafe
    <3>2. x # r
      BY <2>1, <2>3 DEF NoCall
    <3>3. MutexOf[call[x].t] # MutexOf[mine[r]]
      BY <2>2, <3>1, <3>2 DEF Holds
    <3>4. owner'[MutexOf[call[x].t]] = owner[MutexOf[call[x].t]]
      BY <1>7, <3>1, <3>3, ConstantsAssumption DEF Typed, SharedOK
    <3>5. runq'[call[x].t] = runq[call[x].t]
      BY <1>7, <3>1, <3>3 DEF Typed, SharedOK
    <3>6. call'[x] = call[x]
      BY <1>7
    <3> QED
      BY <3>1, <3>4, <3>5, <3>6 DEF Holds
  <2> QED
    BY <1>1, <1>2, <1>7, <2>3, Labels DEF HandlerReturn
<1>8. CASE ReturnStep(r)
  BY <1>6, <1>7, <1>8 DEF ReturnStep, ReturnIdle, ReturnRequeue
<1> QED
  BY <1>4, <1>5, <1>8

LEMMA SInvNext == SInv /\ [Next]_vars => SInv'
<1> SUFFICES ASSUME SInv, [Next]_vars PROVE \A x \in Thread : CallSafe(x)'
  BY HInvNext DEF SInv
<1>1. ASSUME NEW th \in Thread, ClientStep(th) \/ RunStep(th) \/ StopStep(th)
      PROVE  \A x \in Thread : CallSafe(x)'
  BY <1>1, SInvClient, SInvRun, SInvStop
<1>2. ASSUME UNCHANGED <<runq, life, owner, pc, call>>
      PROVE  \A x \in Thread : CallSafe(x)'
  BY <1>2 DEF SInv, CallSafe, Holds
<1>3. ASSUME NEW r \in RunQ, SpuriousWakeup(r) PROVE \A x \in Thread : CallSafe(x)'
  BY <1>2, <1>3 DEF SpuriousWakeup, links
<1>4. CASE UNCHANGED vars
  BY <1>2, <1>4 DEF vars, links
<1> QED
  BY <1>1, <1>3, <1>4, SInvWorker DEF Next

LEMMA SInvAlways == Spec => []SInv
BY SInvInit, SInvNext, PTL DEF Spec

(* The loops of tasklet_stop and tasklet_fini find the tasklet on the run  *)
(* queue on which they have read, without a lock, that it is: no retry.    *)
THEOREM StopNeedsNoRetry == Spec => []StopFindsTasklet
<1>1. SInv => StopFindsTasklet
  BY DEF SInv, CallSafe, StopFindsTasklet
<1> QED
  BY <1>1, SInvAlways, PTL

-----------------------------------------------------------------------------
(* The invariant of the lists, the current tasklets and the condition      *)
(* variables, when a tasklet is stopped by its own handler only (as the    *)
(* code does; RunQueue.tla, ForeignStop).                                  *)

(* The thread that services r is not in run_queue_run, or sleeps in it. *)
Resting(r) ==
    \/ pc[r] \in {"out", "asleep"}
    \/ pc[r] \in {"read", "lock", "wait"} /\ call[r].from = "out"

ListOK(r) == Circle(Queued(r), next, prev, head[r], NoTasklet)

(* The current tasklet names r as its run queue until the label next, and  *)
(* a worker that finds itself vetoed and stopped has lost its tasklet to a *)
(* tasklet_fini.                                                           *)
CurrentOK(r) ==
    /\ Resting(r) => current[r] = NoTasklet
    /\ current[r] # NoTasklet /\ pc[r] # "next" =>
          runq[current[r]] = r /\ life[current[r]] # "dead"
    /\ pc[r] \in {"transfer", "vetoed"} /\ currentState[r] = "stopped" =>
          Dropped(current[r])

(* Who sleeps on the cond of r: its worker, the queue being empty, and the *)
(* threads that wait in tasklet_fini for the current tasklet.              *)
CondOK(r) ==
    /\ pc[r] = "asleep" => workerWaiting[r]
    /\ r \in blocked[r] => pc[r] = "asleep" /\ head[r] = NoTasklet
    /\ \A th \in blocked[r] \ {r} :
          pc[th] = "wait" /\ call[th].rq = r /\ current[r] = call[th].t

(* A thread in tasklet_stop is a worker in the tasklet's handler.  One that*)
(* waits for another thread's handler is in tasklet_fini, and has asked to *)
(* be woken as long as the handler has not returned.                       *)
StopOK(th) ==
    /\ call[th].op = "stop" => th \in RunQ /\ current[th] = call[th].t
    /\ pc[th] = "wait" =>
          /\ call[th].op = "fini"
          /\ call[th].rq # th
          /\ runq[call[th].t] = call[th].rq
          /\ current[call[th].rq] = call[th].t => stopWaiting[call[th].rq]

QParts ==
    /\ \A r \in RunQ : ListOK(r) /\ CurrentOK(r) /\ CondOK(r)
    /\ \A th \in Thread : StopOK(th)

QInv == SInv /\ QParts

LEMMA QInvInit == Init => QInv
<1> SUFFICES ASSUME Init PROVE QInv
  OBVIOUS
<1>1. ASSUME NEW r \in RunQ PROVE ListOK(r)
  <2>1. Queued(r) = {} /\ head[r] = NoTasklet
    BY ConstantsAssumption DEF Init, Queued
  <2> QED
    BY <2>1 DEF ListOK, Circle
<1>2. ASSUME NEW r \in RunQ PROVE CurrentOK(r) /\ CondOK(r)
  BY Labels DEF Init, CurrentOK, CondOK
<1>3. ASSUME NEW th \in Thread PROVE StopOK(th)
  BY DEF Init, StopOK, NoCall
<1> QED
  BY <1>1, <1>2, <1>3, SInvInit DEF QInv, QParts

-----------------------------------------------------------------------------
(* What a tasklet's queue depends on. *)

WaitedFor(t) == \E th \in Thread : pc[th] = "wait" /\ call[th].t = t

LEMMA DroppedIs ==
    ASSUME NEW t
    PROVE  Dropped(t) <=> life[t] = "dead" \/ (life[t] = "closing" /\ WaitedFor(t))
BY DEF Dropped, WaitedFor

LEMMA QueuedIs ==
    ASSUME NEW r, NEW t
    PROVE  t \in Queued(r) <=> /\ t \in Tasklet /\ runq[t] = r /\ ~Dropped(t)
                               /\ current[r] = t => pc[r] = "next"
BY DEF Queued

(* The tasklets a finalizer waits for are closing, and it has their mutex. *)
LEMMA Waiters ==
    ASSUME QInv, NEW t \in Tasklet, NEW th \in Thread, pc[th] = "wait", call[th].t = t
    PROVE  /\ life[t] = "closing" /\ Holds(th, t) /\ Dropped(t)
           /\ \A x \in Thread \ {th} : call[x].op # "none" => call[x].t # t
<1>1. call[th].op = "fini" /\ CallSafe(th)
  BY DEF QInv, QParts, StopOK, SInv
<1>2. life[t] = "closing" /\ Holds(th, t)
  BY <1>1 DEF CallSafe
<1>3. \A x \in Thread \ {th} : call[x].op # "none" => call[x].t # t
  BY <1>1, StopsExclude DEF QInv
<1> QED
  BY <1>2, <1>3 DEF Dropped

QueuesKept == \A r \in RunQ : Queued(r)' = Queued(r)

(* The lists of other run queues have other tasklets. *)
LEMMA QueuesDisjoint ==
    ASSUME NEW r, NEW x, r # x
    PROVE  Queued(r) \cap Queued(x) = {}
BY DEF Queued

(* A step that touches no list, and drops no tasklet that is on one.       *)
LEMMA ListsKept ==
    ASSUME QInv, UNCHANGED <<next, prev, head>>,
           \A r \in RunQ : Queued(r)' = Queued(r)
    PROVE  \A r \in RunQ : ListOK(r)'
BY DEF QInv, QParts, ListOK

LEMMA Went ==
    ASSUME Typed, NEW th \in Thread, NEW l, Goto(th, l)
    PROVE  pc'[th] = l /\ \A x \in Thread \ {th} : pc'[x] = pc[x]
BY DEF Typed, ThreadsOK, Goto

(* A thread that no run queue's cond has blocked moves on outside the      *)
(* worker's loop, and leaves the lists and the run queues as they are, but *)
(* for the marks of currentState.  It may drop a tasklet that is on none.  *)
LEMMA CallMoves ==
    ASSUME QInv, NEW th \in Thread,
           UNCHANGED <<runq, next, prev, head, current, stopWaiting, workerWaiting,
                       blocked>>,
           \A x \in Thread \ {th} : pc'[x] = pc[x] /\ call'[x] = call[x],
           pc[th] \in {"body", "out", "read", "lock", "wait"},
           pc'[th] \in {"body", "out", "read", "lock"},
           \A r \in RunQ : th \notin blocked[r],
           th \in RunQ => (Resting(th)' => Resting(th)),
           \A t \in Tasklet : Dropped(t) => Dropped(t)',
           \A t \in Tasklet : Dropped(t)' => Dropped(t) \/ runq[t] = NoRunQ
                                             \/ life[t] = "dead",
           \A t \in Tasklet : life'[t] = "dead" =>
                life[t] = "dead" \/ \A r \in RunQ : current[r] = t => pc[r] = "next",
           \A r \in RunQ : currentState'[r] = "stopped" => currentState[r] = "stopped",
           StopOK(th)'
    PROVE  QParts' /\ QueuesKept
<1> USE DEF QInv, QParts
<1>1. \A r \in RunQ : pc'[r] = pc[r] \/ (r = th /\ pc[r] # "next" /\ pc'[r] # "next")
  BY Labels
<1>2. ASSUME NEW r \in RunQ PROVE Queued(r)' = Queued(r)
  <2>1. ASSUME NEW t \in Tasklet, runq[t] = r PROVE Dropped(t)' <=> Dropped(t)
    <3>1. life[t] = "dead" => Dropped(t)
      BY DEF Dropped
    <3> QED
      BY <2>1, <3>1, ConstantsAssumption
  <2>2. pc'[r] = "next" <=> pc[r] = "next"
    BY <1>1
  <2> QED
    BY <2>1, <2>2 DEF Queued
<1>3. \A r \in RunQ : ListOK(r)'
  BY <1>2, ListsKept
<1>4. ASSUME NEW r \in RunQ PROVE CurrentOK(r)'
  <2>1. CurrentOK(r) /\ current[r] \in Tasklet \cup {NoTasklet}
    BY DEF SInv, HInv, Typed, SharedOK
  <2>2. Resting(r)' => Resting(r)
    BY <1>1, Labels DEF Resting
  <2>3. current[r] # NoTasklet /\ pc'[r] # "next" => life'[current[r]] # "dead"
    BY <1>1, <2>1 DEF CurrentOK
  <2>4. pc'[r] \in {"transfer", "vetoed"} => pc'[r] = pc[r]
    BY <1>1
  <2>5. pc'[r] \in {"transfer", "vetoed"} => current[r] \in Tasklet
    BY <2>1, <2>4 DEF SInv, HInv, AllHandlersOK, HandlerOK, Typed, ThreadsOK, Busy
  <2>6. Dropped(current[r]) /\ current[r] \in Tasklet => Dropped(current[r])'
    BY DEF Dropped
  <2>7. pc'[r] \in {"transfer", "vetoed"} /\ currentState'[r] = "stopped" =>
           Dropped(current[r])'
    BY <2>1, <2>4, <2>5, <2>6 DEF CurrentOK
  <2> QED
    BY <1>1, <2>1, <2>2, <2>3, <2>7 DEF CurrentOK
<1>5. ASSUME NEW r \in RunQ PROVE CondOK(r)'
  <2>1. CondOK(r) /\ blocked[r] \subseteq Thread
    BY DEF SInv, HInv, Typed, SharedOK
  <2> QED
    BY <2>1, Labels DEF CondOK
<1>6. ASSUME NEW x \in Thread \ {th} PROVE StopOK(x)'
  BY DEF StopOK
<1> QED
  BY <1>2, <1>3, <1>4, <1>5, <1>6 DEF QueuesKept

LEMMA NotBlocked ==
    ASSUME QInv, NEW th \in Thread, pc[th] \notin {"asleep", "wait"}
    PROVE  \A r \in RunQ : th \notin blocked[r]
BY DEF QInv, QParts, CondOK

LEMMA SameDropped ==
    ASSUME NEW th \in Thread, UNCHANGED life, pc[th] # "wait", pc'[th] # "wait",
           \A x \in Thread \ {th} : pc'[x] = pc[x] /\ call'[x] = call[x]
    PROVE  \A t : Dropped(t)' <=> Dropped(t)
BY DEF Dropped

(* The return of tasklet_stop or tasklet_fini drops the tasklet that has   *)
(* been finalized, and no other.                                           *)
LEMMA QuietDropped ==
    ASSUME QInv, NEW th \in Thread, ReturnQuiet(th),
           pc[th] \in {"read", "lock", "wait"}
    PROVE  /\ \A t \in Tasklet :
                 Dropped(t)' <=> Dropped(t) \/ (call[th].op = "fini" /\ t = call[th].t)
           /\ \A t \in Tasklet :
                 life'[t] = "dead" <=>
                    life[t] = "dead" \/ (call[th].op = "fini" /\ t = call[th].t)
           /\ \A t \in Tasklet : life'[t] = "live" => life[t] = "live"
<1>1. /\ \A x \in Thread \ {th} : pc'[x] = pc[x] /\ call'[x] = call[x]
      /\ pc'[th] # "wait"
  BY ReturnStays DEF QInv, SInv, ReturnQuiet
<1>2. pc[th] = "wait" => call[th].op = "fini"
  BY DEF QInv, QParts, StopOK
<1>3. \A t \in Tasklet :
         life'[t] = IF call[th].op = "fini" /\ t = call[th].t THEN "dead" ELSE life[t]
  BY DEF ReturnQuiet, QInv, SInv, HInv, Typed, SharedOK
<1>4. ASSUME NEW t \in Tasklet, call[th].op = "fini", t = call[th].t
      PROVE  Dropped(t)'
  BY <1>3, <1>4 DEF Dropped
<1>5. ASSUME NEW t \in Tasklet, ~(call[th].op = "fini" /\ t = call[th].t)
      PROVE  Dropped(t)' <=> Dropped(t)
  <2>1. ASSUME NEW x \in Thread, x # th
        PROVE  pc'[x] = "wait" /\ call'[x].t = t <=> pc[x] = "wait" /\ call[x].t = t
    BY <1>1, <2>1
  <2>2. ~(pc[th] = "wait" /\ call[th].t = t)
    BY <1>2, <1>5
  <2>3. life'[t] = life[t]
    BY <1>3, <1>5
  <2> QED
    BY <1>1, <2>1, <2>2, <2>3 DEF Dropped
<1> QED
  BY <1>3, <1>4, <1>5

-----------------------------------------------------------------------------
(* The calls of the API, step by step. *)

(* A step that only concerns the tasklets' mutexes. *)
LEMMA QPartsKept ==
    ASSUME QInv, UNCHANGED <<links, state, life, blocked, pc, call>>
    PROVE  QParts' /\ QueuesKept
<1> USE DEF QInv, QParts, links, state
<1>1. \A t : Dropped(t)' <=> Dropped(t)
  BY DEF Dropped
<1>2. QueuesKept
  BY <1>1 DEF Queued, QueuesKept
<1>3. \A r \in RunQ : ListOK(r)'
  BY <1>2, ListsKept DEF QueuesKept
<1>4. ASSUME NEW r \in RunQ PROVE CurrentOK(r)'
  <2>1. Dropped(current[r])' <=> Dropped(current[r])
    BY DEF Dropped
  <2> QED
    BY <2>1 DEF CurrentOK, Resting
<1>5. \A r \in RunQ : CondOK(r)'
  BY DEF CondOK
<1>6. \A th \in Thread : StopOK(th)'
  BY DEF StopOK
<1> QED
  BY <1>2, <1>3, <1>4, <1>5, <1>6

LEMMA QPartsBegin ==
    ASSUME QInv, ~ForeignStop, NEW th \in Thread, NEW t \in Tasklet,
           CallRun(th, t) \/ CallStop(th, t) \/ CallFini(th, t)
    PROVE  QParts' /\ QueuesKept
<1> USE DEF QInv, QParts
<1>1. PICK op \in {"run", "stop", "fini"} :
          /\ Begin(th, op, t)
          /\ op = "stop" => th \in RunQ /\ current[th] = t
          /\ IF op = "fini"
             THEN /\ life' = [life EXCEPT ![t] = "closing"]
                  /\ \A y \in Thread : call[y].t # t
             ELSE UNCHANGED life
  BY DEF CallRun, CallStop, CallFini
<1>2. pc[th] \in {"body", "out"}
  BY DEF CallRun, CallStop, CallFini
<1>3. /\ pc'[th] = "read" /\ call'[th].op = op /\ call'[th].t = t
      /\ call'[th].from = pc[th] /\ life[t] = "live"
      /\ \A x \in Thread \ {th} : pc'[x] = pc[x] /\ call'[x] = call[x]
      /\ UNCHANGED <<runq, next, prev, head, current, currentState, stopWaiting,
                     workerWaiting, blocked>>
  BY <1>1 DEF Begin, Goto, links, state, SInv, HInv, Typed, ThreadsOK
<1>4. \A u \in Tasklet : Dropped(u)' <=> Dropped(u)
  <2>1. CASE op = "fini"
    <3>1. \A u \in Tasklet \ {t} : life'[u] = life[u]
      BY <1>1, <2>1 DEF SInv, HInv, Typed, SharedOK
    <3>2. life'[t] = "closing"
      BY <1>1, <2>1 DEF SInv, HInv, Typed, SharedOK
    <3>3. \A u \in Tasklet \ {t} : Dropped(u)' <=> Dropped(u)
      BY <1>2, <1>3, <3>1 DEF Dropped
    <3>4. ~Dropped(t)' /\ ~Dropped(t)
      BY <1>1, <1>2, <1>3, <2>1, <3>2 DEF Dropped
    <3> QED
      BY <3>3, <3>4
  <2>2. CASE op # "fini"
    BY <1>1, <1>2, <1>3, <2>2, SameDropped
  <2> QED
    BY <2>1, <2>2
<1>5. \A u \in Tasklet : life'[u] = "dead" => life[u] = "dead"
  BY <1>1, <1>3 DEF SInv, HInv, Typed, SharedOK
<1>6. StopOK(th)'
  BY <1>1, <1>3 DEF StopOK
<1>7. Resting(th)' => Resting(th)
  BY <1>2, <1>3 DEF Resting
<1> QED
  BY <1>2, <1>3, <1>4, <1>5, <1>6, <1>7, NotBlocked, CallMoves

LEMMA QPartsClient ==
    ASSUME QInv, ~ForeignStop, NEW th \in Thread, ClientStep(th)
    PROVE  QParts' /\ QueuesKept
<1> USE DEF QInv, QParts
<1>1. ASSUME NEW m \in Mutex, Lock(th, m) \/ Unlock(th, m)
      PROVE  QParts' /\ QueuesKept
  BY <1>1, QPartsKept DEF Lock, Unlock
<1>2. ASSUME NEW t \in Tasklet, TaskletInit(th, t)
      PROVE  QParts' /\ QueuesKept
  <2>1. /\ life[t] = "dead" /\ life'[t] = "live" /\ runq'[t] = NoRunQ
        /\ \A u \in Tasklet \ {t} : life'[u] = life[u] /\ runq'[u] = runq[u]
        /\ UNCHANGED <<next, prev, head, current, currentState, stopWaiting,
                       workerWaiting, blocked, pc, call>>
    BY <1>2 DEF TaskletInit, state, SInv, HInv, Typed, SharedOK
  <2>2. \A u \in Tasklet \ {t} : Dropped(u)' <=> Dropped(u)
    BY <2>1 DEF Dropped
  <2>3. ASSUME NEW r \in RunQ PROVE Queued(r)' = Queued(r)
    <3>1. t \notin Queued(r) /\ t \notin Queued(r)'
      BY <2>1, ConstantsAssumption DEF Queued, Dropped
    <3> QED
      BY <2>1, <2>2, <3>1 DEF Queued
  <2>4. \A r \in RunQ : ListOK(r)'
    BY <2>1, <2>3, ListsKept
  <2>5. ASSUME NEW r \in RunQ PROVE CurrentOK(r)'
    <3>1. CurrentOK(r) /\ current[r] \in Tasklet \cup {NoTasklet}
      BY DEF SInv, HInv, Typed, SharedOK
    <3>2. pc[r] # "next" => current[r] # t
      BY <2>1, <3>1, ConstantsAssumption DEF CurrentOK
    <3>3. Resting(r)' => Resting(r)
      BY <2>1 DEF Resting
    <3>4. pc[r] \in {"transfer", "vetoed"} => current[r] \in Tasklet \ {t}
      BY <3>1, <3>2, Labels
         DEF SInv, HInv, AllHandlersOK, HandlerOK, Typed, ThreadsOK, Busy
    <3>5. Dropped(current[r]) /\ current[r] \in Tasklet \ {t} => Dropped(current[r])'
      BY <2>1, <2>2 DEF Dropped
    <3> QED
      BY <2>1, <3>1, <3>2, <3>3, <3>4, <3>5 DEF CurrentOK
  <2>6. \A r \in RunQ : CondOK(r)'
    BY <2>1 DEF CondOK
  <2>7. ASSUME NEW x \in Thread PROVE StopOK(x)'
    <3>1. StopOK(x) /\ CallSafe(x)
      BY DEF SInv
    <3>2. pc[x] = "wait" => call[x].t \in Tasklet \ {t}
      BY <2>1, <3>1 DEF StopOK, CallSafe, SInv, HInv, Typed, ThreadsOK, CallFits
    <3> QED
      BY <2>1, <3>1, <3>2 DEF StopOK
  <2> QED
    BY <2>3, <2>4, <2>5, <2>6, <2>7 DEF QueuesKept
<1>3. ASSUME NEW t \in Tasklet, CallRun(th, t) \/ CallStop(th, t) \/ CallFini(th, t)
      PROVE  QParts' /\ QueuesKept
  BY <1>3, QPartsBegin
<1> QED
  BY <1>1, <1>2, <1>3 DEF ClientStep

LEMMA QPartsRun ==
    ASSUME QInv, NEW th \in Thread, RunRead(th) \/ RunRetry(th) \/ RunMark(th)
    PROVE  QParts' /\ QueuesKept
<1> USE DEF QInv, QParts
<1>1. /\ UNCHANGED <<runq, next, prev, head, current, stopWaiting, workerWaiting,
                     blocked, life>>
      /\ call[th].op = "run" /\ pc[th] \in {"read", "lock"}
  BY DEF RunRead, RunRetry, RunMark, RunLocks, links, state
<1>2. /\ \A x \in Thread \ {th} : pc'[x] = pc[x] /\ call'[x] = call[x]
      /\ pc'[th] \in {"body", "out", "read", "lock"}
      /\ call'[th].op \in {"run", "none"}
      /\ Resting(th)' => Resting(th)
  <2>1. CASE RunRead(th) \/ RunRetry(th)
    <3>1. /\ \A x \in Thread \ {th} : pc'[x] = pc[x] /\ call'[x] = call[x]
          /\ pc'[th] \in {"read", "lock"}
          /\ call'[th].op = call[th].op /\ call'[th].from = call[th].from
      BY <2>1, InCall DEF RunRead, RunRetry, Goto, SInv, HInv, Typed, ThreadsOK, Call
    <3> QED
      BY <1>1, <3>1 DEF Resting
  <2>2. CASE RunMark(th)
    <3>1. Return(th)
      BY <2>2 DEF RunMark
    <3>2. call'[th] = NoCall
      BY <3>1 DEF Return, SInv, HInv, Typed, ThreadsOK
    <3> QED
      BY <1>1, <3>1, <3>2, ReturnStays DEF SInv, Resting, NoCall
  <2> QED
    BY <2>1, <2>2
<1>3. \A r \in RunQ : currentState'[r] = "stopped" => currentState[r] = "stopped"
  BY DEF RunRead, RunRetry, RunMark, state, SInv, HInv, Typed, SharedOK
<1>4. \A u \in Tasklet : Dropped(u)' <=> Dropped(u)
  BY <1>1, <1>2, SameDropped
<1>5. StopOK(th)'
  BY <1>1, <1>2 DEF StopOK
<1> QED
  BY <1>1, <1>2, <1>3, <1>4, <1>5, NotBlocked, CallMoves

(* tasklet_stop and tasklet_fini find that the tasklet is on no run queue, *)
(* read the run queue it is on, or have waited for the handler to return.  *)
LEMMA QPartsQuiet ==
    ASSUME QInv, NEW th \in Thread, ReturnQuiet(th),
           UNCHANGED <<runq, next, prev, head, current, currentState, stopWaiting,
                       workerWaiting, blocked>>,
           pc[th] \in {"read", "lock", "wait"},
           \A r \in RunQ : th \notin blocked[r],
           call[th].t \in Tasklet,
           \/ runq[call[th].t] = NoRunQ
           \/ pc[th] = "wait" /\ current[call[th].rq] # call[th].t
    PROVE  QParts' /\ QueuesKept
<1> USE DEF QInv, QParts
<1>1. /\ \A x \in Thread \ {th} : pc'[x] = pc[x] /\ call'[x] = call[x]
      /\ pc'[th] \in {"body", "out"} /\ call'[th] = NoCall
      /\ Resting(th)' => Resting(th)
  <2>1. Return(th) /\ call'[th] = NoCall
    BY DEF ReturnQuiet, Return, SInv, HInv, Typed, ThreadsOK
  <2> QED
    BY <2>1, ReturnStays DEF SInv, Resting, NoCall
<1>2. \A r \in RunQ : current[r] = call[th].t => pc[r] = "next"
  <2>1. ASSUME NEW r \in RunQ, current[r] = call[th].t, pc[r] # "next"
        PROVE  FALSE
    <3>1. runq[call[th].t] = r
      BY <2>1, ConstantsAssumption DEF CurrentOK
    <3>2. pc[th] = "wait" /\ call[th].rq = r
      BY <3>1, ConstantsAssumption DEF StopOK
    <3> QED
      BY <2>1, <3>1, <3>2, ConstantsAssumption
  <2> QED
    BY <2>1
<1>3. \A t \in Tasklet : Dropped(t)' <=>
         Dropped(t) \/ (call[th].op = "fini" /\ t = call[th].t)
  BY QuietDropped
<1>4. pc[th] = "wait" => Dropped(call[th].t)
  BY Waiters
<1>5. \A t \in Tasklet : Dropped(t)' => Dropped(t) \/ runq[t] = NoRunQ
  BY <1>3, <1>4
<1>6. \A t \in Tasklet : life'[t] = "dead" =>
         life[t] = "dead" \/ \A r \in RunQ : current[r] = t => pc[r] = "next"
  BY <1>2, QuietDropped
<1>7. StopOK(th)'
  BY <1>1, Labels DEF StopOK, NoCall
<1> QED
  BY <1>1, <1>3, <1>5, <1>6, <1>7, CallMoves

(* A thread that stops or finalizes a tasklet: its tasklet, that tasklet's *)
(* mutex, and what no other thread does meanwhile.                         *)
LEMMA Stopper ==
    ASSUME QInv, NEW th \in Thread, call[th].op # "run", pc[th] \in {"read", "lock", "wait"}
    PROVE  /\ call[th].t \in Tasklet /\ call[th].op \in {"stop", "fini"}
           /\ Holds(th, call[th].t)
           /\ pc[th] # "wait" => ~WaitedFor(call[th].t) /\ ~Dropped(call[th].t)
           /\ pc[th] # "wait" => life[call[th].t] # "dead"
           /\ call[th].op = "fini" => life[call[th].t] = "closing"
<1> USE DEF QInv, SInv, HInv
<1>1. /\ call[th].t \in Tasklet /\ call[th].op \in {"stop", "fini"} /\ CallSafe(th)
  BY DEF Typed, ThreadsOK, CallFits, Call
<1>2. pc[th] # "wait" => ~WaitedFor(call[th].t)
  <2>1. ASSUME pc[th] # "wait", NEW x \in Thread, pc[x] = "wait", call[x].t = call[th].t
        PROVE  FALSE
    BY <1>1, <2>1, Waiters
  <2> QED
    BY <2>1 DEF WaitedFor
<1>3. life[call[th].t] # "dead"
  BY <1>1 DEF CallSafe
<1> QED
  BY <1>1, <1>2, <1>3, DroppedIs DEF CallSafe

LEMMA QPartsStopRead ==
    ASSUME QInv, NEW th \in Thread, StopRead(th)
    PROVE  QParts' /\ QueuesKept
<1> USE DEF QInv, QParts
<1>1. /\ pc[th] = "read" /\ call[th].t \in Tasklet
      /\ UNCHANGED <<runq, next, prev, head, current, currentState, stopWaiting,
                     workerWaiting, blocked>>
  BY Stopper DEF StopRead, links, state
<1>2. CASE runq[call[th].t] = NoRunQ
  BY <1>1, <1>2, NotBlocked, QPartsQuiet DEF StopRead
<1>3. CASE runq[call[th].t] # NoRunQ
  <2>1. /\ \A x \in Thread \ {th} : pc'[x] = pc[x] /\ call'[x] = call[x]
        /\ pc'[th] = "lock" /\ UNCHANGED life
        /\ call'[th].op = call[th].op /\ call'[th].from = call[th].from
        /\ call'[th].t = call[th].t
    BY <1>1, <1>3, InCall DEF StopRead, Goto, SInv, HInv, Typed, ThreadsOK, Call
  <2>2. \A u \in Tasklet : Dropped(u)' <=> Dropped(u)
    BY <1>1, <2>1, SameDropped
  <2>3. StopOK(th)'
    BY <1>1, <2>1 DEF StopOK
  <2>4. Resting(th)' => Resting(th)
    BY <1>1, <2>1 DEF Resting
  <2> QED
    BY <1>1, <2>1, <2>2, <2>3, <2>4, NotBlocked, CallMoves
<1> QED
  BY <1>2, <1>3

LEMMA QPartsStopWaited ==
    ASSUME QInv, NEW th \in Thread, StopWaited(th)
    PROVE  QParts' /\ QueuesKept
<1> USE DEF QInv, QParts
<1>1. /\ pc[th] = "wait" /\ call[th].t \in Tasklet
      /\ call[th].rq \in RunQ /\ call[th].rq # th
      /\ UNCHANGED <<runq, next, prev, head, current, currentState, stopWaiting,
                     workerWaiting>>
  <2>1. pc[th] = "wait"
    BY DEF StopWaited
  <2>2. call[th].t \in Tasklet /\ call[th].rq \in RunQ
    BY <2>1 DEF SInv, HInv, Typed, ThreadsOK, CallFits
  <2> QED
    BY <2>1, <2>2 DEF StopWaited, links, state, StopOK
<1>2. th \notin blocked[call[th].rq]
  BY DEF StopWaited
<1>3. CASE current[call[th].rq] = call[th].t
  <2>1. /\ UNCHANGED <<pc, call, life>>
        /\ blocked' = [blocked EXCEPT ![call[th].rq] = @ \cup {th}]
    BY <1>3 DEF StopWaited
  <2>2. \A t : Dropped(t)' <=> Dropped(t)
    BY <2>1 DEF Dropped
  <2>3. \A r \in RunQ : Queued(r)' = Queued(r)
    BY <1>1, <2>1, <2>2 DEF Queued
  <2>4. \A r \in RunQ : ListOK(r)'
    BY <1>1, <2>3, ListsKept
  <2>5. ASSUME NEW r \in RunQ PROVE CurrentOK(r)'
    <3>1. Dropped(current[r])' <=> Dropped(current[r])
      BY <1>1, <2>1 DEF Dropped
    <3> QED
      BY <1>1, <2>1, <3>1 DEF CurrentOK, Resting
  <2>6. ASSUME NEW r \in RunQ PROVE CondOK(r)'
    <3>1. blocked'[r] = IF r = call[th].rq THEN blocked[r] \cup {th} ELSE blocked[r]
      BY <2>1 DEF SInv, HInv, Typed, SharedOK
    <3> QED
      BY <1>1, <1>3, <2>1, <3>1 DEF CondOK
  <2>7. \A x \in Thread : StopOK(x)'
    BY <1>1, <2>1 DEF StopOK
  <2> QED
    BY <2>3, <2>4, <2>5, <2>6, <2>7 DEF QueuesKept
<1>4. CASE current[call[th].rq] # call[th].t
  <2>1. ReturnQuiet(th) /\ UNCHANGED blocked
    BY <1>4 DEF StopWaited
  <2>2. \A r \in RunQ : th \notin blocked[r]
    BY <1>1, <1>2 DEF CondOK
  <2> QED
    BY <1>1, <1>4, <2>1, <2>2, QPartsQuiet
<1> QED
  BY <1>3, <1>4

LEMMA QPartsStopOwn ==
    ASSUME QInv, NEW th \in Thread, StopOwn(th)
    PROVE  QParts' /\ QueuesKept
<1> USE DEF QInv, QParts
<1> DEFINE t == call[th].t
<1>1. /\ th \in RunQ /\ pc[th] = "lock" /\ call[th].op # "run"
      /\ call[th].rq = th /\ runq[t] = th /\ current[th] = t
      /\ ReturnQuiet(th)
      /\ UNCHANGED <<runq, next, prev, head, stopWaiting, workerWaiting, blocked>>
      /\ currentState' = [currentState EXCEPT ![th] = "stopped"]
      /\ current' = IF call[th].op = "fini"
                    THEN [current EXCEPT ![th] = NoTasklet] ELSE current
  BY DEF StopOwn, StopLocks, links
<1>2. t \in Tasklet /\ call[th].op \in {"stop", "fini"} /\ ~WaitedFor(t)
  BY <1>1, Stopper
<1>3. /\ \A x \in Thread \ {th} : pc'[x] = pc[x] /\ call'[x] = call[x]
      /\ pc'[th] = "body" /\ call'[th] = NoCall
  <2>1. Return(th) /\ call'[th] = NoCall
    BY <1>1 DEF ReturnQuiet, Return, SInv, HInv, Typed, ThreadsOK
  <2>2. call[th].from # "out"
    BY <1>1, <1>2, ConstantsAssumption DEF CurrentOK, Resting
  <2> QED
    BY <1>1, <2>1, <2>2, ReturnStays DEF SInv
<1>4. \A x \in RunQ \ {th} : current'[x] = current[x] /\ currentState'[x] = currentState[x]
  BY <1>1 DEF SInv, HInv, Typed, SharedOK
<1>5. current'[th] = IF call[th].op = "fini" THEN NoTasklet ELSE t
  BY <1>1 DEF SInv, HInv, Typed, SharedOK
<1>6. \A u \in Tasklet : Dropped(u)' <=> Dropped(u) \/ (call[th].op = "fini" /\ u = t)
  BY <1>1, QuietDropped
<1>7. ASSUME NEW x \in RunQ \ {th}, current[x] = t, pc[x] # "next"
      PROVE  FALSE
  BY <1>1, <1>2, <1>7, ConstantsAssumption DEF CurrentOK
<1> HIDE DEF t
<1>8. ASSUME NEW r \in RunQ PROVE Queued(r)' = Queued(r)
  <2>1. \A u \in Tasklet \ {t} : Dropped(u)' <=> Dropped(u)
    BY <1>6
  <2>2. CASE r = th
    <3>1. t \notin Queued(r)
      BY <1>1, <2>2 DEF Queued
    <3>2. t \notin Queued(r)'
      BY <1>2, <1>3, <1>5, <1>6, <2>2 DEF Queued
    <3>3. \A u \in Tasklet \ {t} : current[r] # u /\ current'[r] # u
      BY <1>1, <1>5, <2>2, ConstantsAssumption
    <3> QED
      BY <1>1, <2>1, <3>1, <3>2, <3>3 DEF Queued
  <2>3. CASE r # th
    BY <1>1, <1>3, <1>4, <2>1, <2>3, Labels DEF Queued
  <2> QED
    BY <2>2, <2>3
<1>9. \A r \in RunQ : ListOK(r)'
  BY <1>1, <1>8, ListsKept
<1>10. ASSUME NEW r \in RunQ PROVE CurrentOK(r)'
  <2>1. CASE r = th
    <3>1. current[th] # NoTasklet /\ life[t] # "dead"
      BY <1>1, <1>2, ConstantsAssumption DEF CurrentOK
    <3>2. call[th].op = "stop" => UNCHANGED life
      BY <1>1 DEF ReturnQuiet
    <3> QED
      BY <1>1, <1>2, <1>3, <1>5, <2>1, <3>1, <3>2, Labels DEF CurrentOK, Resting
  <2>2. CASE r # th
    <3>1. CurrentOK(r) /\ current[r] \in Tasklet \cup {NoTasklet}
      BY DEF SInv, HInv, Typed, SharedOK
    <3>2. /\ current'[r] = current[r] /\ currentState'[r] = currentState[r]
          /\ pc'[r] = pc[r] /\ call'[r] = call[r]
      BY <1>3, <1>4, <2>2, Labels
    <3>3. pc[r] # "next" => current[r] # t
      BY <1>7, <2>2
    <3>4. current[r] \in Tasklet \ {t} => life'[current[r]] = life[current[r]]
      BY <1>1 DEF ReturnQuiet, t, SInv, HInv, Typed, SharedOK
    <3>5. Dropped(current[r]) /\ current[r] \in Tasklet => Dropped(current[r])'
      <4>1. SUFFICES ASSUME Dropped(current[r]), current[r] \in Tasklet
                     PROVE  Dropped(current[r])'
        OBVIOUS
      <4>2. \A u \in Tasklet : u = current[r] => Dropped(u)'
        BY <1>6, <4>1
      <4> QED
        BY <3>2, <4>1, <4>2 DEF Dropped
    <3>6. pc[r] \in {"transfer", "vetoed"} => current[r] \in Tasklet
      BY <3>1, Labels DEF SInv, HInv, AllHandlersOK, HandlerOK, Typed, ThreadsOK, Busy
    <3>7. Resting(r)' => Resting(r)
      BY <3>2 DEF Resting
    <3> QED
      BY <1>1, <3>1, <3>2, <3>3, <3>4, <3>5, <3>6, <3>7 DEF CurrentOK
  <2> QED
    BY <2>1, <2>2
<1>11. ASSUME NEW r \in RunQ PROVE CondOK(r)'
  <2>1. th \notin blocked[r]
    BY <1>1, NotBlocked
  <2>2. blocked[th] = {}
    <3>1. th \notin blocked[th]
      BY <1>1, NotBlocked
    <3>2. ASSUME NEW x \in blocked[th] PROVE FALSE
      <4>1. x \in Thread /\ x # th
        BY <3>1, <1>1 DEF SInv, HInv, Typed, SharedOK
      <4>2. pc[x] = "wait" /\ call[x].t = t
        BY <1>1, <4>1 DEF CondOK
      <4> QED
        BY <1>2, <4>1, <4>2 DEF WaitedFor
    <3> QED
      BY <3>2
  <2>3. \A x \in blocked[r] : x \in Thread \ {th}
    BY <2>1 DEF SInv, HInv, Typed, SharedOK
  <2> QED
    BY <1>1, <1>3, <1>4, <2>2, <2>3, Labels DEF CondOK
<1>12. ASSUME NEW x \in Thread PROVE StopOK(x)'
  <2>1. CASE x = th
    BY <1>3, <2>1 DEF StopOK, NoCall
  <2>2. CASE x # th
    <3>1. StopOK(x) /\ pc'[x] = pc[x] /\ call'[x] = call[x]
      BY <1>3, <2>2
    <3>2. pc[x] = "wait" => call[x].t # t /\ call[x].rq \in RunQ /\ call[x].t \in Tasklet
      BY <1>2 DEF WaitedFor, SInv, HInv, Typed, ThreadsOK, CallFits
    <3>3. pc[x] = "wait" /\ current'[call[x].rq] = call[x].t
             => current[call[x].rq] = call[x].t
      BY <1>1, <1>4, <1>5, <3>2, ConstantsAssumption
    <3> QED
      BY <1>1, <1>4, <2>2, <3>1, <3>2, <3>3 DEF StopOK
  <2> QED
    BY <2>1, <2>2
<1> QED
  BY <1>8, <1>9, <1>10, <1>11, <1>12 DEF QueuesKept

LEMMA QPartsStopForeign ==
    ASSUME QInv, NEW th \in Thread, StopForeign(th)
    PROVE  QParts' /\ QueuesKept
<1> USE DEF QInv, QParts
<1>1. PICK t \in Tasklet, r \in RunQ \ {th} :
          /\ StopLocks(th, t, r)
          /\ runq[t] = r
          /\ current[r] = t
          /\ currentState' = [currentState EXCEPT ![r] = "stopped"]
          /\ stopWaiting' = [stopWaiting EXCEPT ![r] = TRUE]
          /\ blocked' = [blocked EXCEPT ![r] = @ \cup {th}]
          /\ pc' = [x \in Thread |->
                       IF x = th THEN "wait"
                       ELSE IF x \in RunQ /\ Veto(MutexOf[t], x)
                       THEN "vetoed" ELSE pc[x]]
  BY DEF StopForeign
<1>2. /\ UNCHANGED <<runq, next, prev, head, current, workerWaiting, life, call>>
      /\ pc[th] = "lock" /\ pc'[th] = "wait" /\ call[th].op # "run"
      /\ t = call[th].t /\ r = call[th].rq /\ pc[r] # "next"
      /\ stopWaiting'[r] = TRUE /\ \A x \in RunQ \ {r} : stopWaiting'[x] = stopWaiting[x]
      /\ \A x \in RunQ \ {r} : currentState'[x] = currentState[x]
      /\ blocked'[r] = blocked[r] \cup {th}
      /\ \A x \in RunQ \ {r} : blocked'[x] = blocked[x]
  BY <1>1 DEF StopForeign, links, StopLocks, Unlocked, SInv, HInv, Typed, SharedOK
<1>3. \A x \in Thread \ {th} :
         pc'[x] = pc[x] \/ (pc[x] = "transfer" /\ pc'[x] = "vetoed")
  BY <1>1 DEF Veto
<1>4. call[th].op = "fini" /\ life[t] = "closing"
  <2>1. call[th].op # "stop"
    BY <1>1, <1>2, ConstantsAssumption DEF CurrentOK, StopOK
  <2> QED
    BY <1>2, <2>1, Stopper
<1>5. \A u \in Tasklet : Dropped(u)' <=> Dropped(u) \/ u = t
  <2>1. Dropped(t)'
    BY <1>2, <1>4 DEF Dropped
  <2>2. \A u \in Tasklet \ {t} : Dropped(u)' <=> Dropped(u)
    BY <1>2, <1>3 DEF Dropped
  <2> QED
    BY <2>1, <2>2
<1>6. \A x \in RunQ : pc'[x] = "next" <=> pc[x] = "next"
  BY <1>2, <1>3, Labels
<1>7. ASSUME NEW x \in RunQ PROVE Queued(x)' = Queued(x)
  <2>1. t \notin Queued(x) /\ t \notin Queued(x)'
    BY <1>1, <1>2, <1>5 DEF Queued
  <2> QED
    BY <1>2, <1>5, <1>6, <2>1 DEF Queued
<1>8. \A x \in RunQ : ListOK(x)'
  BY <1>2, <1>7, ListsKept
<1>9. ASSUME NEW x \in RunQ PROVE CurrentOK(x)'
  <2>1. Resting(x)' => Resting(x)
    BY <1>2, <1>3, Labels DEF Resting
  <2>2. pc'[x] \in {"transfer", "vetoed"} => pc[x] \in {"transfer", "vetoed"}
    BY <1>2, <1>3, Labels
  <2>3. pc'[x] \in {"transfer", "vetoed"} => current[x] \in Tasklet
    BY <2>2, Labels DEF SInv, HInv, AllHandlersOK, HandlerOK, Typed, ThreadsOK, Busy
  <2>4. current[x] \in Tasklet /\ (Dropped(current[x]) \/ current[x] = t) =>
           Dropped(current[x])'
    <3>1. SUFFICES ASSUME current[x] \in Tasklet, Dropped(current[x]) \/ current[x] = t
                   PROVE  Dropped(current[x])'
      OBVIOUS
    <3>2. \A u \in Tasklet : u = current[x] => Dropped(u)'
      BY <1>5, <3>1
    <3> QED
      BY <1>2, <3>1, <3>2 DEF Dropped
  <2>5. x = r => current[x] = t
    BY <1>1
  <2> QED
    BY <1>2, <1>6, <2>1, <2>2, <2>3, <2>4, <2>5 DEF CurrentOK
<1>10. ASSUME NEW x \in RunQ PROVE CondOK(x)'
  <2>1. \A y \in blocked[x] : y \in Thread \ {th}
    BY <1>2, NotBlocked DEF SInv, HInv, Typed, SharedOK
  <2> QED
    BY <1>1, <1>2, <1>3, <2>1, Labels DEF CondOK
<1>11. ASSUME NEW x \in Thread PROVE StopOK(x)'
  <2>1. CASE x = th
    BY <1>1, <1>2, <1>4, <2>1 DEF StopOK
  <2>2. CASE x # th
    <3>1. pc[x] = "wait" => call[x].rq \in RunQ
      BY DEF SInv, HInv, Typed, ThreadsOK, CallFits
    <3> QED
      BY <1>2, <1>3, <2>2, <3>1 DEF StopOK
  <2> QED
    BY <2>1, <2>2
<1> QED
  BY <1>7, <1>8, <1>9, <1>10, <1>11 DEF QueuesKept

-----------------------------------------------------------------------------
(* run_queue_remove and run_queue_enqueue on the circle of a run queue.    *)

LEMMA RemoveUnlinks ==
    ASSUME QInv, NEW r \in RunQ, NEW t \in Queued(r), Remove(r, t)
    PROVE  /\ Circle(Queued(r) \ {t}, next', prev', head'[r], NoTasklet)
           /\ \A x \in RunQ \ {r} : head'[x] = head[x]
           /\ \A u \in Tasklet \ Queued(r) : next'[u] = next[u] /\ prev'[u] = prev[u]
<1> USE DEF QInv, QParts
<1>1. Circle(Queued(r), next, prev, head[r], NoTasklet)
  BY DEF ListOK
<1>2. /\ t \in Tasklet /\ next[t] \in Queued(r) /\ prev[t] \in Queued(r)
      /\ Queued(r) \subseteq Tasklet /\ head[r] \in Queued(r)
  BY <1>1 DEF Circle, Queued
<1>3. /\ next \in [Tasklet -> Tasklet] /\ prev \in [Tasklet -> Tasklet]
      /\ head \in [RunQ -> Tasklet \cup {NoTasklet}]
  BY DEF SInv, HInv, Typed, SharedOK
<1>4. /\ \A u \in Tasklet : next'[u] = IF u = prev[t] THEN next[t] ELSE next[u]
      /\ \A u \in Tasklet : prev'[u] = IF u = next[t] THEN prev[t] ELSE prev[u]
      /\ head'[r] = IF head[r] # t THEN head[r]
                    ELSE IF next[t] = t THEN NoTasklet ELSE next[t]
      /\ \A x \in RunQ \ {r} : head'[x] = head[x]
  BY <1>2, <1>3 DEF Remove
<1>5. next[t] = t => head[r] = t
  <2>1. next[t] = t => Queued(r) = {t}
    <3>1. {t} \in SUBSET Queued(r)
      OBVIOUS
    <3> QED
      BY <1>1, <3>1 DEF Circle
  <2> QED
    BY <1>2, <2>1
<1> DEFINE A == Queued(r)
           n1 == next'
           p1 == prev'
           h0 == head[r]
           h1 == head'[r]
<1>6. Unlinked(A, next, prev, h0, NoTasklet, t, n1, p1, h1)
  BY <1>2, <1>4, <1>5 DEF Unlinked
<1>7. Circle(A, next, prev, h0, NoTasklet)
  BY <1>1
<1> HIDE DEF A, n1, p1, h0, h1
<1>8. Circle(A \ {t}, n1, p1, h1, NoTasklet)
  BY <1>6, <1>7, CircleWithout
<1>9. Circle(Queued(r) \ {t}, next', prev', head'[r], NoTasklet)
  BY <1>8 DEF A, n1, p1, h1
<1> QED
  BY <1>2, <1>4, <1>9

LEMMA EnqueueLinks ==
    ASSUME QInv, NEW r \in RunQ, NEW t \in Tasklet, t \notin Queued(r), Enqueue(r, t)
    PROVE  /\ Circle(Queued(r) \cup {t}, next', prev', head'[r], NoTasklet)
           /\ head'[r] # NoTasklet
           /\ \A x \in RunQ \ {r} : head'[x] = head[x]
           /\ \A u \in Tasklet \ (Queued(r) \cup {t}) :
                 next'[u] = next[u] /\ prev'[u] = prev[u]
<1> USE DEF QInv, QParts
<1>1. Circle(Queued(r), next, prev, head[r], NoTasklet)
  BY DEF ListOK
<1>2. /\ next \in [Tasklet -> Tasklet] /\ prev \in [Tasklet -> Tasklet]
      /\ head \in [RunQ -> Tasklet \cup {NoTasklet}]
      /\ Queued(r) \subseteq Tasklet /\ NoTasklet \notin Tasklet
  BY ConstantsAssumption DEF SInv, HInv, Typed, SharedOK, Queued
<1>3. CASE head[r] = NoTasklet
  <2>1. Queued(r) = {}
    BY <1>1, <1>2, <1>3 DEF Circle
  <2>2. /\ next'[t] = t /\ prev'[t] = t /\ head'[r] = t
        /\ \A x \in RunQ \ {r} : head'[x] = head[x]
        /\ \A u \in Tasklet \ {t} : next'[u] = next[u] /\ prev'[u] = prev[u]
    BY <1>2, <1>3 DEF Enqueue
  <2>3. Circle({t}, next', prev', t, NoTasklet)
    BY <2>2, CircleOfOne
  <2>4. Queued(r) \cup {t} = {t}
    BY <2>1
  <2> QED
    BY <1>2, <2>2, <2>3, <2>4
<1>4. CASE head[r] # NoTasklet
  <2>1. head[r] \in Queued(r) /\ prev[head[r]] \in Queued(r) /\ Queued(r) # {}
    BY <1>1, <1>4 DEF Circle
  <2>2. /\ \A u \in Tasklet : next'[u] = IF u = prev[head[r]] THEN t
                                         ELSE IF u = t THEN head[r] ELSE next[u]
        /\ \A u \in Tasklet : prev'[u] = IF u = head[r] THEN t
                                         ELSE IF u = t THEN prev[head[r]] ELSE prev[u]
        /\ UNCHANGED head
    BY <1>2, <1>4, <2>1 DEF Enqueue
  <2> DEFINE A == Queued(r)
             n1 == next'
             p1 == prev'
             h0 == head[r]
  <2>3. LinkedLast(A, next, prev, h0, t, n1, p1)
    BY <1>2, <2>1, <2>2 DEF LinkedLast
  <2>4. Circle(A, next, prev, h0, NoTasklet) /\ A # {}
    BY <1>1, <2>1
  <2> HIDE DEF A, n1, p1, h0
  <2>5. Circle(A \cup {t}, n1, p1, h0, NoTasklet)
    BY <2>3, <2>4, CircleWith
  <2>6. Circle(Queued(r) \cup {t}, next', prev', head'[r], NoTasklet)
    BY <2>2, <2>5 DEF A, n1, p1, h0
  <2> QED
    BY <1>2, <1>4, <2>1, <2>2, <2>6
<1> QED
  BY <1>3, <1>4

LEMMA ListsAfterRemove ==
    ASSUME QInv, NEW r \in RunQ, NEW t \in Queued(r), Remove(r, t),
           Queued(r)' = Queued(r) \ {t},
           \A x \in RunQ \ {r} : Queued(x)' = Queued(x)
    PROVE  \A x \in RunQ : ListOK(x)'
<1>1. ListOK(r)'
  BY RemoveUnlinks DEF ListOK
<1>2. ASSUME NEW x \in RunQ, x # r PROVE ListOK(x)'
  <2>1. \A u \in Queued(x) : next'[u] = next[u] /\ prev'[u] = prev[u]
    <3>1. Queued(x) \subseteq Tasklet \ Queued(r)
      BY <1>2, QueuesDisjoint DEF Queued
    <3> QED
      BY <3>1, RemoveUnlinks
  <2>2. head'[x] = head[x]
    BY <1>2, RemoveUnlinks
  <2>3. Circle(Queued(x), next, prev, head[x], NoTasklet)
    BY DEF QInv, QParts, ListOK
  <2>4. Circle(Queued(x), next', prev', head[x], NoTasklet)
    BY <2>1, <2>3, CircleKept
  <2> QED
    BY <1>2, <2>2, <2>4 DEF ListOK
<1> QED
  BY <1>1, <1>2

LEMMA ListsAfterEnqueue ==
    ASSUME QInv, NEW r \in RunQ, NEW t \in Tasklet, Enqueue(r, t), t \notin Queued(r),
           Queued(r)' = Queued(r) \cup {t},
           \A x \in RunQ \ {r} : t \notin Queued(x) /\ Queued(x)' = Queued(x)
    PROVE  \A x \in RunQ : ListOK(x)'
<1>1. ListOK(r)'
  BY EnqueueLinks DEF ListOK
<1>2. ASSUME NEW x \in RunQ, x # r PROVE ListOK(x)'
  <2>1. \A u \in Queued(x) : next'[u] = next[u] /\ prev'[u] = prev[u]
    <3>1. Queued(x) \subseteq Tasklet \ (Queued(r) \cup {t})
      BY <1>2, QueuesDisjoint DEF Queued
    <3> QED
      BY <3>1, EnqueueLinks
  <2>2. head'[x] = head[x]
    BY <1>2, EnqueueLinks
  <2>3. Circle(Queued(x), next, prev, head[x], NoTasklet)
    BY DEF QInv, QParts, ListOK
  <2>4. Circle(Queued(x), next', prev', head[x], NoTasklet)
    BY <2>1, <2>3, CircleKept
  <2> QED
    BY <1>2, <2>2, <2>4 DEF ListOK
<1> QED
  BY <1>1, <1>2

(* A worker that sleeps in run_queue_run is the only thread that does so   *)
(* on its run queue's cond.                                                *)
LEMMA SleepsAlone ==
    ASSUME QInv, NEW r \in RunQ, Resting(r)
    PROVE  blocked[r] \subseteq {r}
<1> SUFFICES ASSUME NEW x \in blocked[r], x # r PROVE FALSE
  OBVIOUS
<1>1. x \in Thread /\ current[r] = NoTasklet
  BY DEF QInv, QParts, SInv, HInv, Typed, SharedOK, CurrentOK
<1>2. pc[x] = "wait" /\ call[x].t = NoTasklet
  BY <1>1 DEF QInv, QParts, CondOK
<1>3. call[x].t \in Tasklet
  BY <1>1, <1>2 DEF QInv, SInv, HInv, Typed, ThreadsOK, CallFits
<1> QED
  BY <1>2, <1>3, ConstantsAssumption

(* ... so that the one signal of run_queue_enqueue is for the worker.      *)
LEMMA EnqueueSignals ==
    ASSUME QInv, NEW r \in RunQ, NEW t \in Tasklet, Enqueue(r, t)
    PROVE  /\ \A x \in RunQ \ {r} : blocked'[x] = blocked[x]
           /\ blocked'[r] \subseteq blocked[r]
           /\ r \notin blocked'[r]
<1>1. /\ \A x \in RunQ \ {r} : blocked'[x] = blocked[x]
      /\ blocked'[r] \subseteq blocked[r]
  BY DEF Enqueue, QInv, SInv, HInv, Typed, SharedOK
<1>2. r \notin blocked'[r]
  <2>1. SUFFICES ASSUME r \in blocked[r] PROVE r \notin blocked'[r]
    BY <1>1
  <2>2. pc[r] = "asleep" /\ head[r] = NoTasklet /\ workerWaiting[r]
    BY <2>1 DEF QInv, QParts, CondOK
  <2>3. blocked[r] = {r}
    BY <2>1, <2>2, SleepsAlone DEF Resting
  <2> QED
    BY <2>2, <2>3 DEF Enqueue, QInv, SInv, HInv, Typed, SharedOK
<1> QED
  BY <1>1, <1>2

LEMMA QPartsStopQueued ==
    ASSUME QInv, NEW th \in Thread, StopQueued(th)
    PROVE  /\ QParts'
           /\ \A x \in RunQ : Queued(x)' = Queued(x) \ {call[th].t}
<1> USE DEF QInv, QParts
<1>1. PICK t \in Tasklet, r \in RunQ :
          /\ StopLocks(th, t, r)
          /\ runq[t] = r
          /\ current[r] # t
          /\ Remove(r, t)
          /\ runq' = [runq EXCEPT ![t] = NoRunQ]
          /\ ReturnQuiet(th)
  BY DEF StopQueued
<1>2. /\ UNCHANGED <<current, currentState, stopWaiting, workerWaiting, blocked>>
      /\ pc[th] = "lock" /\ call[th].op # "run" /\ t = call[th].t
      /\ runq'[t] = NoRunQ /\ \A u \in Tasklet \ {t} : runq'[u] = runq[u]
  BY <1>1 DEF StopQueued, state, StopLocks, SInv, HInv, Typed, SharedOK
<1>3. call[th].op = "fini" /\ ~WaitedFor(t) /\ ~Dropped(t)
  <2>1. call[th].op # "stop"
    BY <1>1, <1>2, ConstantsAssumption DEF CurrentOK, StopOK
  <2> QED
    BY <1>2, <2>1, Stopper
<1>4. /\ \A x \in Thread \ {th} : pc'[x] = pc[x] /\ call'[x] = call[x]
      /\ pc'[th] \in {"body", "out"} /\ call'[th] = NoCall
      /\ Resting(th)' => Resting(th)
  <2>1. Return(th) /\ call'[th] = NoCall
    BY <1>1 DEF ReturnQuiet, Return, SInv, HInv, Typed, ThreadsOK
  <2> QED
    BY <1>2, <2>1, ReturnStays DEF SInv, Resting, NoCall
<1>5. /\ \A u \in Tasklet : Dropped(u)' <=> Dropped(u) \/ u = t
      /\ \A u \in Tasklet : life'[u] = "dead" <=> life[u] = "dead" \/ u = t
  BY <1>1, <1>2, <1>3, QuietDropped
<1>6. \A x \in RunQ : /\ pc'[x] = pc[x] \/ (x = th /\ pc'[x] \in {"body", "out"})
                      /\ pc'[x] = "next" <=> pc[x] = "next"
  BY <1>2, <1>4, Labels
<1>7. t \in Queued(r)
  BY <1>1, <1>3 DEF Queued
<1>8. ASSUME NEW x \in RunQ PROVE Queued(x)' = Queued(x) \ {t}
  BY <1>2, <1>5, <1>6, ConstantsAssumption DEF Queued
<1>9. ASSUME NEW x \in RunQ, x # r PROVE t \notin Queued(x)
  BY <1>1, <1>9 DEF Queued
<1>10. \A x \in RunQ : ListOK(x)'
  <2>1. Queued(r)' = Queued(r) \ {t} /\ \A x \in RunQ \ {r} : Queued(x)' = Queued(x)
    BY <1>8, <1>9
  <2> QED
    BY <1>1, <1>7, <2>1, ListsAfterRemove
<1>11. ASSUME NEW x \in RunQ PROVE CurrentOK(x)'
  <2>1. CurrentOK(x) /\ current[x] \in Tasklet \cup {NoTasklet}
    BY DEF SInv, HInv, Typed, SharedOK
  <2>2. pc[x] # "next" => current[x] # t
    BY <1>1, <2>1, ConstantsAssumption DEF CurrentOK
  <2>3. Resting(x)' => Resting(x)
    BY <1>4, Labels DEF Resting
  <2>4. pc'[x] \in {"transfer", "vetoed"} => pc[x] = pc'[x]
    BY <1>6
  <2>5. pc'[x] \in {"transfer", "vetoed"} => current[x] \in Tasklet
    BY <2>4, Labels DEF SInv, HInv, AllHandlersOK, HandlerOK, Typed, ThreadsOK, Busy
  <2>6. current[x] \in Tasklet /\ Dropped(current[x]) => Dropped(current[x])'
    <3>1. SUFFICES ASSUME current[x] \in Tasklet, Dropped(current[x])
                   PROVE  Dropped(current[x])'
      OBVIOUS
    <3>2. \A u \in Tasklet : u = current[x] => Dropped(u)'
      BY <1>5, <3>1
    <3> QED
      BY <1>2, <3>1, <3>2 DEF Dropped
  <2> QED
    BY <1>2, <1>5, <1>6, <2>1, <2>2, <2>3, <2>4, <2>5, <2>6 DEF CurrentOK
<1>12. ASSUME NEW x \in RunQ PROVE CondOK(x)'
  <2>1. \A y \in blocked[x] : y \in Thread \ {th}
    BY <1>2, NotBlocked DEF SInv, HInv, Typed, SharedOK
  <2>2. x \in blocked[x] => head'[x] = head[x]
    <3>1. r \notin blocked[r]
      BY <1>7, ConstantsAssumption DEF CondOK, ListOK, Circle, Queued
    <3> QED
      BY <1>1, <1>7, <3>1, RemoveUnlinks
  <2> QED
    BY <1>2, <1>4, <1>6, <2>1, <2>2, Labels DEF CondOK
<1>13. ASSUME NEW x \in Thread PROVE StopOK(x)'
  <2>1. CASE x = th
    BY <1>4, <2>1 DEF StopOK, NoCall
  <2>2. CASE x # th
    <3>1. pc[x] = "wait" => call[x].t \in Tasklet \ {t}
      BY <1>3 DEF WaitedFor, SInv, HInv, Typed, ThreadsOK, CallFits
    <3> QED
      BY <1>2, <1>4, <2>2, <3>1 DEF StopOK
  <2> QED
    BY <2>1, <2>2
<1> QED
  BY <1>2, <1>8, <1>10, <1>11, <1>12, <1>13

LEMMA QPartsRunEnqueue ==
    ASSUME QInv, NEW th \in Thread, RunEnqueue(th)
    PROVE  /\ QParts'
           /\ \E r \in RunQ :
                 /\ Queued(r)' = Queued(r) \cup {call[th].t}
                 /\ \A x \in RunQ \ {r} : Queued(x)' = Queued(x)
<1> USE DEF QInv, QParts
<1>1. PICK t \in Tasklet, r \in RunQ :
          /\ RunLocks(th, t, r)
          /\ runq[t] = NoRunQ
          /\ runq' = [runq EXCEPT ![t] = r]
          /\ Enqueue(r, t)
          /\ Return(th)
  BY DEF RunEnqueue
<1>2. /\ UNCHANGED <<current, currentState, stopWaiting, workerWaiting, life>>
      /\ pc[th] = "lock" /\ call[th].op = "run" /\ t = call[th].t /\ pc[r] # "next"
      /\ runq'[t] = r /\ \A u \in Tasklet \ {t} : runq'[u] = runq[u]
  BY <1>1 DEF RunEnqueue, RunLocks, Unlocked, state, SInv, HInv, Typed, SharedOK
<1>3. /\ \A x \in Thread \ {th} : pc'[x] = pc[x] /\ call'[x] = call[x]
      /\ pc'[th] \in {"body", "out"} /\ call'[th] = NoCall
      /\ Resting(th)' => Resting(th)
  <2>1. call'[th] = NoCall
    BY <1>1 DEF Return, SInv, HInv, Typed, ThreadsOK
  <2> QED
    BY <1>1, <1>2, <2>1, ReturnStays DEF SInv, Resting, NoCall
<1>4. \A u : Dropped(u)' <=> Dropped(u)
  BY <1>2, <1>3, SameDropped
<1>5. life[t] = "live" /\ ~Dropped(t)
  BY <1>2 DEF SInv, CallSafe, Dropped
<1>6. \A x \in RunQ : /\ pc'[x] = pc[x] \/ (x = th /\ pc'[x] \in {"body", "out"})
                      /\ pc'[x] = "next" <=> pc[x] = "next"
  BY <1>2, <1>3, Labels
<1>7. \A x \in RunQ : pc[x] # "next" => current[x] # t
  BY <1>1, ConstantsAssumption DEF CurrentOK
<1>8. \A x \in RunQ : t \notin Queued(x)
  BY <1>1, ConstantsAssumption DEF Queued
<1>9. Queued(r)' = Queued(r) \cup {t}
  BY <1>2, <1>4, <1>5, <1>6, <1>7 DEF Queued
<1>10. ASSUME NEW x \in RunQ, x # r PROVE Queued(x)' = Queued(x)
  <2>1. t \notin Queued(x)' /\ t \notin Queued(x)
    BY <1>2, <1>8, <1>10 DEF Queued
  <2> QED
    BY <1>2, <1>4, <1>6, <2>1 DEF Queued
<1>11. \A x \in RunQ : ListOK(x)'
  BY <1>1, <1>8, <1>9, <1>10, ListsAfterEnqueue
<1>12. ASSUME NEW x \in RunQ PROVE CurrentOK(x)'
  <2>1. CurrentOK(x) /\ current[x] \in Tasklet \cup {NoTasklet}
    BY DEF SInv, HInv, Typed, SharedOK
  <2>2. Resting(x)' => Resting(x)
    BY <1>3, Labels DEF Resting
  <2>3. Dropped(current[x])' <=> Dropped(current[x])
    BY <1>2, <1>3 DEF Dropped
  <2> QED
    BY <1>2, <1>6, <1>7, <2>1, <2>2, <2>3 DEF CurrentOK
<1>13. ASSUME NEW x \in RunQ PROVE CondOK(x)'
  <2>1. /\ x = r => blocked'[x] \subseteq blocked[x] /\ x \notin blocked'[x]
        /\ x # r => blocked'[x] = blocked[x] /\ head'[x] = head[x]
    BY <1>1, <1>8, EnqueueSignals, EnqueueLinks
  <2>2. \A y \in blocked[x] : y \in Thread \ {th}
    BY <1>2, NotBlocked DEF SInv, HInv, Typed, SharedOK
  <2> QED
    BY <1>2, <1>3, <1>6, <2>1, <2>2, Labels DEF CondOK
<1>14. ASSUME NEW x \in Thread PROVE StopOK(x)'
  <2>1. CASE x = th
    BY <1>3, <2>1 DEF StopOK, NoCall
  <2>2. CASE x # th
    <3>1. pc[x] = "wait" => call[x].t \in Tasklet /\ call[x].rq \in RunQ
      BY DEF SInv, HInv, Typed, ThreadsOK, CallFits
    <3>2. pc[x] = "wait" => call[x].t # t
      BY <1>1, <3>1, ConstantsAssumption DEF StopOK
    <3> QED
      BY <1>2, <1>3, <2>2, <3>1, <3>2 DEF StopOK
  <2> QED
    BY <2>1, <2>2
<1> QED
  BY <1>2, <1>9, <1>10, <1>11, <1>12, <1>13, <1>14

-----------------------------------------------------------------------------
(* The steps of the workers. *)

(* A worker at the label next wakes the threads that wait for its tasklet: *)
(* nobody is left on the cond.                                             *)
LEMMA NobodyLeft ==
    ASSUME QInv, NEW r \in RunQ, pc[r] = "next", ~stopWaiting[r]
    PROVE  blocked[r] = {}
<1> SUFFICES ASSUME NEW x \in blocked[r] PROVE FALSE
  OBVIOUS
<1>1. x \in Thread /\ x # r
  BY DEF QInv, QParts, CondOK, SInv, HInv, Typed, SharedOK
<1>2. pc[x] = "wait" /\ call[x].rq = r /\ current[r] = call[x].t
  BY <1>1 DEF QInv, QParts, CondOK
<1> QED
  BY <1>1, <1>2 DEF QInv, QParts, StopOK

(* run_queue_run takes the head of the queue. *)
LEMMA QPartsTake ==
    ASSUME QInv, NEW r \in RunQ, TakeHead(r), UNCHANGED <<life, call>>,
           pc[r] \in {"out", "asleep", "next"},
           pc[r] # "next" => UNCHANGED stopWaiting,
           \A x \in RunQ \ {r} :
              /\ stopWaiting'[x] = stopWaiting[x] /\ workerWaiting'[x] = workerWaiting[x]
              /\ blocked'[x] = blocked[x],
           blocked'[r] = {}
    PROVE  /\ QParts'
           /\ head[r] \in Queued(r)
           /\ \A x \in RunQ : Queued(x)' = Queued(x) \ {head[r]}
<1> USE DEF QInv, QParts
<1> DEFINE t == head[r]
<1>1. /\ Remove(r, t) /\ UNCHANGED runq /\ t # NoTasklet
      /\ current'[r] = t /\ currentState'[r] = "started" /\ pc'[r] = "transfer"
      /\ \A x \in RunQ \ {r} :
            current'[x] = current[x] /\ currentState'[x] = currentState[x]
      /\ \A x \in Thread \ {r} : pc'[x] = pc[x]
  BY Labels DEF TakeHead, Goto, SInv, HInv, Typed, SharedOK, ThreadsOK
<1>2. t \in Queued(r) /\ t \in Tasklet /\ runq[t] = r /\ ~Dropped(t) /\ life[t] # "dead"
  <2>1. t \in Queued(r)
    BY <1>1 DEF ListOK, Circle
  <2> QED
    BY <2>1 DEF Queued, Dropped
<1>3. call[r] = NoCall
  BY BodyHasNoCall, Labels DEF SInv, HInv
<1>4. \A u : Dropped(u)' <=> Dropped(u)
  BY <1>1 DEF Dropped
<1>5. pc[r] # "next" => current[r] = NoTasklet
  BY DEF CurrentOK, Resting
<1> HIDE DEF t
<1>6. Queued(r)' = Queued(r) \ {t}
  <2>1. \A u \in Tasklet : current[r] = u => pc[r] = "next"
    BY <1>5, ConstantsAssumption
  <2> QED
    BY <1>1, <1>4, <2>1 DEF Queued
<1>7. ASSUME NEW x \in RunQ, x # r PROVE Queued(x)' = Queued(x)
  BY <1>1, <1>4, <1>7, Labels DEF Queued
<1>8. \A x \in RunQ : ListOK(x)'
  BY <1>1, <1>2, <1>6, <1>7, ListsAfterRemove
<1>9. ASSUME NEW x \in RunQ PROVE CurrentOK(x)'
  <2>1. CASE x = r
    BY <1>1, <1>2, <1>3, <2>1 DEF CurrentOK, Resting
  <2>2. CASE x # r
    <3>1. Dropped(current[x])' <=> Dropped(current[x])
      BY <1>1, <2>2 DEF Dropped
    <3>2. Resting(x)' => Resting(x)
      BY <1>1, <2>2, Labels DEF Resting
    <3> QED
      BY <1>1, <2>2, <3>1, <3>2, Labels DEF CurrentOK
  <2> QED
    BY <2>1, <2>2
<1>10. ASSUME NEW x \in RunQ PROVE CondOK(x)'
  <2>1. CASE x = r
    BY <1>1, <2>1 DEF CondOK
  <2>2. CASE x # r
    <3>1. head'[x] = head[x]
      BY <1>1, <1>2, <2>2, RemoveUnlinks
    <3>2. \A y \in blocked[x] \ {x} : y \in Thread \ {r}
      BY Labels DEF SInv, HInv, Typed, SharedOK, CondOK
    <3> QED
      BY <1>1, <2>2, <3>1, <3>2, Labels DEF CondOK
  <2> QED
    BY <2>1, <2>2
<1>11. ASSUME NEW x \in Thread PROVE StopOK(x)'
  <2>1. CASE x = r
    BY <1>1, <1>3, <2>1 DEF StopOK, NoCall
  <2>2. CASE x # r
    <3>1. pc[x] = "wait" => call[x].rq \in RunQ /\ call[x].t # t
      BY <1>2, Waiters DEF SInv, HInv, Typed, ThreadsOK, CallFits
    <3> QED
      BY <1>1, <2>2, <3>1 DEF StopOK
  <2> QED
    BY <2>1, <2>2
<1>12. ASSUME NEW x \in RunQ PROVE Queued(x)' = Queued(x) \ {t}
  <2>1. x # r => t \notin Queued(x)
    BY <1>2 DEF Queued
  <2> QED
    BY <1>6, <1>7, <2>1
<1> QED
  BY <1>2, <1>8, <1>9, <1>10, <1>11, <1>12 DEF t

(* A worker outside any call moves, and takes no tasklet off its queue.    *)
LEMMA QPartsMoves ==
    ASSUME QInv, NEW r \in RunQ, NEW l \in Label,
           pc[r] \notin {"read", "lock", "wait"}, l \notin {"read", "lock", "wait"},
           Goto(r, l), UNCHANGED <<next, prev, head, life, call>>,
           \A x \in RunQ : Queued(x)' = Queued(x),
           \A x \in RunQ \ {r} :
              /\ current'[x] = current[x] /\ currentState'[x] = currentState[x]
              /\ stopWaiting'[x] = stopWaiting[x] /\ workerWaiting'[x] = workerWaiting[x]
              /\ blocked'[x] = blocked[x]
              /\ current[x] # NoTasklet /\ pc[x] # "next" => runq'[current[x]] = x,
           \A x \in Thread \ {r} : pc[x] = "wait" =>
              /\ runq'[call[x].t] = runq[call[x].t]
              /\ call[x].rq = r /\ current'[r] = call[x].t => stopWaiting'[r],
           CurrentOK(r)', CondOK(r)'
    PROVE  QParts'
<1> USE DEF QInv, QParts
<1>1. pc'[r] = l /\ \A x \in Thread \ {r} : pc'[x] = pc[x]
  BY Went, Labels DEF SInv, HInv
<1>2. call[r] = NoCall
  BY BodyHasNoCall, Labels DEF SInv, HInv
<1>3. \A x \in RunQ : ListOK(x)'
  BY ListsKept
<1>4. ASSUME NEW x \in RunQ, x # r PROVE CurrentOK(x)'
  <2>1. Dropped(current[x])' <=> Dropped(current[x])
    BY <1>1, <1>4, Labels DEF Dropped
  <2>2. Resting(x)' => Resting(x)
    BY <1>1, <1>4, Labels DEF Resting
  <2> QED
    BY <1>1, <1>4, <2>1, <2>2, Labels DEF CurrentOK
<1>5. ASSUME NEW x \in RunQ, x # r PROVE CondOK(x)'
  <2>1. \A y \in blocked[x] \ {x} : y \in Thread \ {r}
    BY Labels DEF SInv, HInv, Typed, SharedOK, CondOK
  <2> QED
    BY <1>1, <1>5, <2>1, Labels DEF CondOK
<1>6. ASSUME NEW x \in Thread PROVE StopOK(x)'
  <2>1. CASE x = r
    BY <1>1, <1>2, <2>1 DEF StopOK, NoCall
  <2>2. CASE x # r
    <3>1. pc[x] = "wait" => call[x].rq \in RunQ
      BY DEF SInv, HInv, Typed, ThreadsOK, CallFits
    <3> QED
      BY <1>1, <2>2, <3>1 DEF StopOK
  <2> QED
    BY <2>1, <2>2
<1> QED
  BY <1>3, <1>4, <1>5, <1>6

LEMMA QPartsSleep ==
    ASSUME QInv, NEW r \in RunQ, Sleep(r)
    PROVE  QParts' /\ QueuesKept
<1> USE DEF QInv, QParts
<1>1. /\ pc[r] = "out" /\ head[r] = NoTasklet /\ Goto(r, "asleep")
      /\ UNCHANGED <<runq, next, prev, head, current, currentState, stopWaiting, life,
                     call>>
      /\ workerWaiting'[r] = TRUE /\ blocked'[r] = blocked[r] \cup {r}
      /\ \A x \in RunQ \ {r} :
            workerWaiting'[x] = workerWaiting[x] /\ blocked'[x] = blocked[x]
  BY DEF Sleep, links, SInv, HInv, Typed, SharedOK
<1>2. pc'[r] = "asleep" /\ \A x \in Thread \ {r} : pc'[x] = pc[x]
  BY <1>1, Went, Labels DEF SInv, HInv
<1>3. \A u : Dropped(u)' <=> Dropped(u)
  BY <1>1, <1>2 DEF Dropped
<1>4. \A x \in RunQ : Queued(x)' = Queued(x)
  BY <1>1, <1>2, <1>3, Labels DEF Queued
<1>5. blocked[r] \subseteq {r} /\ current[r] = NoTasklet
  BY <1>1, SleepsAlone DEF Resting, CurrentOK
<1>6. CurrentOK(r)' /\ CondOK(r)'
  BY <1>1, <1>2, <1>5 DEF CurrentOK, CondOK
<1>7. \A x \in RunQ : current[x] # NoTasklet /\ pc[x] # "next" => runq[current[x]] = x
  BY DEF CurrentOK
<1>8. \A x \in Thread : pc[x] = "wait" /\ call[x].rq = r /\ current[r] = call[x].t
         => stopWaiting[r]
  BY DEF StopOK
<1> QED
  BY <1>1, <1>4, <1>6, <1>7, <1>8, QPartsMoves, Labels DEF QueuesKept

LEMMA QPartsWake ==
    ASSUME QInv, NEW r \in RunQ, Wake(r)
    PROVE  /\ QParts'
           /\ \/ head[r] = NoTasklet /\ QueuesKept
              \/ /\ head[r] \in Queued(r)
                 /\ \A x \in RunQ : Queued(x)' = Queued(x) \ {head[r]}
<1> USE DEF QInv, QParts
<1>1. pc[r] = "asleep" /\ blocked[r] = {}
  BY SleepsAlone DEF Wake, Resting
<1>2. CASE TakeHead(r) /\ workerWaiting' = [workerWaiting EXCEPT ![r] = FALSE]
           /\ UNCHANGED <<stopWaiting, life, blocked, owner, call>>
  <2>1. \A x \in RunQ \ {r} : workerWaiting'[x] = workerWaiting[x]
    BY <1>2 DEF SInv, HInv, Typed, SharedOK
  <2> QED
    BY <1>1, <1>2, <2>1, QPartsTake
<1>3. CASE /\ head[r] = NoTasklet /\ blocked' = [blocked EXCEPT ![r] = @ \cup {r}]
           /\ UNCHANGED <<links, state, life, owner, pc, call, mine>>
  <2>1. /\ blocked'[r] = {r} /\ \A x \in RunQ \ {r} : blocked'[x] = blocked[x]
        /\ UNCHANGED <<runq, next, prev, head, current, currentState, stopWaiting,
                       workerWaiting, life, pc, call>>
    BY <1>1, <1>3 DEF links, state, SInv, HInv, Typed, SharedOK
  <2>2. \A u : Dropped(u)' <=> Dropped(u)
    BY <2>1 DEF Dropped
  <2>3. \A x \in RunQ : Queued(x)' = Queued(x)
    BY <2>1, <2>2 DEF Queued
  <2>4. \A x \in RunQ : ListOK(x)'
    BY <2>1, <2>3, ListsKept
  <2>5. ASSUME NEW x \in RunQ PROVE CurrentOK(x)'
    <3>1. Dropped(current[x])' <=> Dropped(current[x])
      BY <2>1 DEF Dropped
    <3> QED
      BY <2>1, <3>1 DEF CurrentOK, Resting
  <2>6. \A x \in RunQ : CondOK(x)'
    BY <1>1, <1>3, <2>1 DEF CondOK
  <2>7. \A x \in Thread : StopOK(x)'
    BY <2>1 DEF StopOK
  <2> QED
    BY <1>3, <2>3, <2>4, <2>5, <2>6, <2>7 DEF QueuesKept
<1> QED
  BY <1>2, <1>3 DEF Wake

LEMMA QPartsEnter ==
    ASSUME QInv, NEW r \in RunQ, Enter(r)
    PROVE  /\ QParts'
           /\ head[r] \in Queued(r)
           /\ \A x \in RunQ : Queued(x)' = Queued(x) \ {head[r]}
<1>1. blocked[r] = {} /\ pc[r] = "out"
  BY SleepsAlone DEF Enter, Resting, QInv, QParts, CondOK
<1> QED
  BY <1>1, QPartsTake DEF Enter

LEMMA QPartsVetoed ==
    ASSUME QInv, NEW r \in RunQ, Vetoed(r)
    PROVE  QParts' /\ QueuesKept
<1> USE DEF QInv, QParts
<1>1. /\ pc[r] = "vetoed"
      /\ UNCHANGED <<runq, next, prev, head, current, stopWaiting, workerWaiting, life,
                     blocked, call>>
      /\ \A x \in RunQ \ {r} : currentState'[x] = currentState[x]
  BY DEF Vetoed, links, SInv, HInv, Typed, SharedOK
<1>2. PICK l \in {"next", "transfer"} :
          /\ Goto(r, l)
          /\ l = "next" => currentState[r] = "stopped"
          /\ l = "transfer" => currentState'[r] = "started"
  BY DEF Vetoed, SInv, HInv, Typed, SharedOK
<1>3. pc'[r] = l /\ \A x \in Thread \ {r} : pc'[x] = pc[x]
  BY <1>2, Went, Labels DEF SInv, HInv
<1>4. \A u : Dropped(u)' <=> Dropped(u)
  BY <1>1, <1>3, Labels DEF Dropped
<1>5. ASSUME NEW x \in RunQ PROVE Queued(x)' = Queued(x)
  <2>1. CASE x = r
    <3>1. l = "next" => Dropped(current[r])
      BY <1>1, <1>2 DEF CurrentOK
    <3> QED
      BY <1>1, <1>2, <1>3, <1>4, <2>1, <3>1, Labels DEF Queued
  <2>2. CASE x # r
    BY <1>1, <1>3, <1>4, <2>2, Labels DEF Queued
  <2> QED
    BY <2>1, <2>2
<1>6. CurrentOK(r)' /\ CondOK(r)'
  <2>1. CurrentOK(r)'
    BY <1>1, <1>2, <1>3 DEF CurrentOK, Resting
  <2>2. \A y \in blocked[r] \ {r} : y \in Thread \ {r}
    BY DEF SInv, HInv, Typed, SharedOK
  <2>3. CondOK(r)'
    BY <1>1, <1>2, <1>3, <2>2 DEF CondOK
  <2> QED
    BY <2>1, <2>3
<1>7. \A x \in RunQ : current[x] # NoTasklet /\ pc[x] # "next" => runq[current[x]] = x
  BY DEF CurrentOK
<1>8. \A x \in Thread : pc[x] = "wait" /\ call[x].rq = r /\ current[r] = call[x].t
         => stopWaiting[r]
  BY DEF StopOK
<1> QED
  BY <1>1, <1>2, <1>5, <1>6, <1>7, <1>8, QPartsMoves, Labels DEF QueuesKept

LEMMA QPartsNextTasklet ==
    ASSUME QInv, NEW r \in RunQ, NextTasklet(r)
    PROVE  /\ QParts'
           /\ \/ head[r] = NoTasklet /\ QueuesKept
              \/ /\ head[r] \in Queued(r)
                 /\ \A x \in RunQ : Queued(x)' = Queued(x) \ {head[r]}
<1> USE DEF QInv, QParts
<1>1. /\ pc[r] = "next" /\ UNCHANGED <<workerWaiting, life, owner, call>>
      /\ blocked'[r] = {} /\ stopWaiting'[r] = FALSE
      /\ \A x \in RunQ \ {r} :
            stopWaiting'[x] = stopWaiting[x] /\ blocked'[x] = blocked[x]
  BY NobodyLeft DEF NextTasklet, SInv, HInv, Typed, SharedOK
<1>2. CASE TakeHead(r)
  BY <1>1, <1>2, QPartsTake
<1>3. CASE /\ head[r] = NoTasklet
           /\ current' = [current EXCEPT ![r] = NoTasklet]
           /\ Goto(r, "out")
           /\ UNCHANGED <<links, currentState>>
  <2>1. /\ UNCHANGED <<runq, next, prev, head, currentState>>
        /\ current'[r] = NoTasklet
        /\ \A x \in RunQ \ {r} : current'[x] = current[x]
    BY <1>3 DEF links, SInv, HInv, Typed, SharedOK
  <2>2. pc'[r] = "out" /\ \A x \in Thread \ {r} : pc'[x] = pc[x]
    BY <1>3, Went, Labels DEF SInv, HInv
  <2>3. \A u : Dropped(u)' <=> Dropped(u)
    BY <1>1, <2>2 DEF Dropped
  <2>4. ASSUME NEW x \in RunQ PROVE Queued(x)' = Queued(x)
    <3>1. CASE x = r
      <4>1. Queued(r) = {}
        BY <1>3, ConstantsAssumption DEF ListOK, Circle, Queued
      <4>2. \A u \in Tasklet : current'[r] # u
        BY <2>1, ConstantsAssumption
      <4>3. Queued(r)' = {}
        BY <1>1, <2>1, <2>2, <2>3, <4>1 DEF Queued
      <4> QED
        BY <3>1, <4>1, <4>3
    <3>2. CASE x # r
      BY <2>1, <2>2, <2>3, <3>2, Labels DEF Queued
    <3> QED
      BY <3>1, <3>2
  <2>5. CurrentOK(r)' /\ CondOK(r)'
    BY <1>1, <2>1, <2>2 DEF CurrentOK, CondOK
  <2>6. \A x \in RunQ : current[x] # NoTasklet /\ pc[x] # "next" => runq[current[x]] = x
    BY DEF CurrentOK
  <2>7. \A x \in Thread : pc[x] = "wait" => call[x].t # NoTasklet
    BY ConstantsAssumption DEF SInv, HInv, Typed, ThreadsOK, CallFits
  <2> QED
    BY <1>1, <1>3, <2>1, <2>4, <2>5, <2>6, <2>7, QPartsMoves, Labels
       DEF QueuesKept
<1> QED
  BY <1>2, <1>3 DEF NextTasklet

LEMMA QPartsTransfer ==
    ASSUME QInv, NEW r \in RunQ, Transfer(r) \/ ReturnDestroyed(r)
    PROVE  QParts' /\ QueuesKept
<1> USE DEF QInv, QParts
<1>1. UNCHANGED <<runq, next, prev, head, current, currentState, stopWaiting,
                  workerWaiting, life, blocked, call>>
  BY DEF Transfer, ReturnDestroyed, links, state
<1>2. PICK l \in {"body", "next"} :
          /\ Goto(r, l) /\ pc[r] \in {"transfer", "body"}
          /\ l = "next" => current[r] = NoTasklet
  <2>1. CASE Transfer(r)
    BY <2>1 DEF Transfer
  <2>2. CASE ReturnDestroyed(r)
    <3>1. InHandler(r)
      BY <2>2, InBody, Labels DEF ReturnDestroyed, HandlerReturn, InHandler, SInv, HInv,
                                  Typed, NoCall
    <3>2. current[r] = NoTasklet
      BY <2>2, <3>1 DEF ReturnDestroyed, SInv, HInv, AllHandlersOK, HandlerOK
    <3> QED
      BY <2>2, <3>2 DEF ReturnDestroyed, HandlerReturn
  <2> QED
    BY <2>1, <2>2
<1>3. pc'[r] = l /\ \A x \in Thread \ {r} : pc'[x] = pc[x]
  BY <1>2, Went, Labels DEF SInv, HInv
<1>4. \A u : Dropped(u)' <=> Dropped(u)
  BY <1>1, <1>2, <1>3 DEF Dropped
<1>5. ASSUME NEW x \in RunQ PROVE Queued(x)' = Queued(x)
  <2>1. CASE x = r
    <3>1. \A u \in Tasklet : l = "next" => current[r] # u
      BY <1>2, ConstantsAssumption
    <3> QED
      BY <1>1, <1>2, <1>3, <1>4, <2>1, <3>1 DEF Queued
  <2>2. CASE x # r
    BY <1>1, <1>3, <1>4, <2>2, Labels DEF Queued
  <2> QED
    BY <2>1, <2>2
<1>6. CurrentOK(r)' /\ CondOK(r)'
  <2>1. call[r] = NoCall
    BY <1>2, BodyHasNoCall, Labels DEF SInv, HInv
  <2>2. CurrentOK(r)'
    BY <1>1, <1>2, <1>3, <2>1 DEF CurrentOK, Resting
  <2>3. \A y \in blocked[r] \ {r} : y \in Thread \ {r}
    BY DEF SInv, HInv, Typed, SharedOK
  <2>4. CondOK(r)'
    BY <1>1, <1>2, <1>3, <2>3 DEF CondOK
  <2> QED
    BY <2>2, <2>4
<1>7. \A x \in RunQ : current[x] # NoTasklet /\ pc[x] # "next" => runq[current[x]] = x
  BY DEF CurrentOK
<1>8. \A x \in Thread : pc[x] = "wait" /\ call[x].rq = r /\ current[r] = call[x].t
         => stopWaiting[r]
  BY DEF StopOK
<1> QED
  BY <1>1, <1>2, <1>5, <1>6, <1>7, <1>8, QPartsMoves, Labels DEF QueuesKept

(* The worker of r has run the handler of its current tasklet: it has the  *)
(* tasklet's mutex, and nobody is finalizing the tasklet.                  *)
LEMMA HandlerEnds ==
    ASSUME QInv, NEW r \in RunQ, HandlerReturn(r), current[r] = mine[r]
    PROVE  /\ mine[r] \in Tasklet /\ runq[mine[r]] = r /\ call[r] = NoCall
           /\ ~Dropped(mine[r]) /\ ~WaitedFor(mine[r])
           /\ pc[r] = "body" /\ pc'[r] = "next"
           /\ \A x \in Thread \ {r} : pc'[x] = pc[x]
           /\ \A x \in RunQ \ {r} : pc[x] # "next" => current[x] # mine[r]
<1> USE DEF QInv, QParts
<1>1. InHandler(r) /\ mine[r] \in Tasklet /\ call[r] = NoCall /\ pc[r] = "body"
  BY InBody, Labels DEF HandlerReturn, InHandler, SInv, HInv, Typed
<1>2. current[r] # NoTasklet
  BY <1>1, ConstantsAssumption
<1>3. Holds(r, mine[r])
  BY <1>1, <1>2 DEF SInv, HInv, AllHandlersOK, HandlerOK
<1>4. runq[mine[r]] = r /\ life[mine[r]] # "dead"
  BY <1>1, <1>2 DEF CurrentOK
<1>5. ~WaitedFor(mine[r])
  <2>1. ASSUME NEW x \in Thread, pc[x] = "wait", call[x].t = mine[r] PROVE FALSE
    <3>1. x # r
      BY <1>1, <2>1
    <3>2. Holds(x, mine[r])
      BY <1>1, <2>1, Waiters
    <3> QED
      BY <1>3, <3>1, <3>2 DEF Holds
  <2> QED
    BY <2>1 DEF WaitedFor
<1>6. ~Dropped(mine[r])
  BY <1>4, <1>5, DroppedIs
<1>7. pc'[r] = "next" /\ \A x \in Thread \ {r} : pc'[x] = pc[x]
  BY Went, Labels DEF HandlerReturn, SInv, HInv
<1>8. \A x \in RunQ \ {r} : pc[x] # "next" => current[x] # mine[r]
  BY <1>1, <1>4, ConstantsAssumption DEF CurrentOK
<1> QED
  BY <1>1, <1>4, <1>5, <1>6, <1>7, <1>8

LEMMA QPartsReturnIdle ==
    ASSUME QInv, NEW r \in RunQ, ReturnIdle(r)
    PROVE  QParts' /\ QueuesKept
<1> USE DEF QInv, QParts
<1> DEFINE t == mine[r]
<1>1. /\ HandlerReturn(r) /\ current[r] = t
      /\ UNCHANGED <<next, prev, head, current, currentState, stopWaiting,
                     workerWaiting, life, blocked, call>>
      /\ runq' = [runq EXCEPT ![t] = NoRunQ]
  BY DEF ReturnIdle, state
<1>2. /\ t \in Tasklet /\ runq[t] = r /\ call[r] = NoCall
      /\ ~Dropped(t) /\ ~WaitedFor(t)
      /\ pc[r] = "body" /\ pc'[r] = "next"
      /\ \A x \in Thread \ {r} : pc'[x] = pc[x]
      /\ \A x \in RunQ \ {r} : pc[x] # "next" => current[x] # t
  BY <1>1, HandlerEnds
<1> HIDE DEF t
<1>3. runq'[t] = NoRunQ /\ \A u \in Tasklet \ {t} : runq'[u] = runq[u]
  BY <1>1, <1>2 DEF SInv, HInv, Typed, SharedOK
<1>4. \A u : Dropped(u)' <=> Dropped(u)
  BY <1>1, <1>2 DEF Dropped
<1>5. ASSUME NEW x \in RunQ PROVE Queued(x)' = Queued(x)
  <2>1. t \notin Queued(x)'
    BY <1>3, ConstantsAssumption DEF Queued
  <2>2. t \notin Queued(x)
    BY <1>1, <1>2 DEF Queued
  <2>3. CASE x = r
    BY <1>1, <1>3, <1>4, <2>1, <2>2, <2>3 DEF Queued
  <2>4. CASE x # r
    BY <1>1, <1>2, <1>3, <1>4, <2>1, <2>2, <2>4, Labels DEF Queued
  <2> QED
    BY <2>3, <2>4
<1>6. CurrentOK(r)' /\ CondOK(r)'
  <2>1. CurrentOK(r)'
    BY <1>2 DEF CurrentOK, Resting
  <2>2. \A y \in blocked[r] \ {r} : y \in Thread \ {r}
    BY DEF SInv, HInv, Typed, SharedOK
  <2>3. CondOK(r)'
    BY <1>1, <1>2, <2>2 DEF CondOK
  <2> QED
    BY <2>1, <2>3
<1>7. ASSUME NEW x \in RunQ \ {r}, current[x] # NoTasklet, pc[x] # "next"
      PROVE  runq'[current[x]] = x
  <2>1. runq[current[x]] = x /\ current[x] \in Tasklet \ {t}
    BY <1>2, <1>7 DEF CurrentOK, SInv, HInv, Typed, SharedOK
  <2> QED
    BY <1>3, <2>1
<1>8. ASSUME NEW x \in Thread, pc[x] = "wait"
      PROVE  /\ runq'[call[x].t] = runq[call[x].t]
             /\ call[x].rq = r /\ current[r] = call[x].t => stopWaiting[r]
  <2>1. call[x].t \in Tasklet \ {t}
    BY <1>2, <1>8 DEF WaitedFor, SInv, HInv, Typed, ThreadsOK, CallFits
  <2> QED
    BY <1>3, <1>8, <2>1 DEF StopOK
<1>9. Goto(r, "next")
  BY <1>1 DEF HandlerReturn
<1> QED
  BY <1>1, <1>2, <1>5, <1>6, <1>7, <1>8, <1>9, QPartsMoves, Labels
     DEF QueuesKept

LEMMA QPartsReturnRequeue ==
    ASSUME QInv, NEW r \in RunQ, ReturnRequeue(r)
    PROVE  /\ QParts'
           /\ Queued(r)' = Queued(r) \cup {mine[r]}
           /\ \A x \in RunQ \ {r} : Queued(x)' = Queued(x)
<1> USE DEF QInv, QParts
<1> DEFINE t == mine[r]
<1>1. /\ HandlerReturn(r) /\ current[r] = t /\ Enqueue(r, t)
      /\ UNCHANGED <<runq, current, currentState, stopWaiting, workerWaiting, life,
                     call>>
  BY DEF ReturnRequeue, state
<1>2. /\ t \in Tasklet /\ runq[t] = r /\ call[r] = NoCall
      /\ ~Dropped(t) /\ ~WaitedFor(t)
      /\ pc[r] = "body" /\ pc'[r] = "next"
      /\ \A x \in Thread \ {r} : pc'[x] = pc[x]
      /\ \A x \in RunQ \ {r} : pc[x] # "next" => current[x] # t
  BY <1>1, HandlerEnds
<1> HIDE DEF t
<1>3. \A u : Dropped(u)' <=> Dropped(u)
  BY <1>1, <1>2 DEF Dropped
<1>4. \A x \in RunQ : t \notin Queued(x)
  BY <1>1, <1>2 DEF Queued
<1>5. Queued(r)' = Queued(r) \cup {t}
  BY <1>1, <1>2, <1>3 DEF Queued
<1>6. \A x \in RunQ \ {r} : Queued(x)' = Queued(x)
  BY <1>1, <1>2, <1>3, Labels DEF Queued
<1>7. \A x \in RunQ : ListOK(x)'
  BY <1>1, <1>2, <1>4, <1>5, <1>6, ListsAfterEnqueue
<1>8. ASSUME NEW x \in RunQ PROVE CurrentOK(x)'
  <2>1. Dropped(current[x])' <=> Dropped(current[x])
    BY <1>1, <1>2 DEF Dropped
  <2>2. Resting(x)' => Resting(x)
    BY <1>1, <1>2, Labels DEF Resting
  <2> QED
    BY <1>1, <1>2, <2>1, <2>2, Labels DEF CurrentOK
<1>9. ASSUME NEW x \in RunQ PROVE CondOK(x)'
  <2>1. /\ x = r => blocked'[x] \subseteq blocked[x] /\ x \notin blocked'[x]
        /\ x # r => blocked'[x] = blocked[x] /\ head'[x] = head[x]
    <3>1. /\ blocked'[r] \subseteq blocked[r] /\ r \notin blocked'[r]
          /\ \A y \in RunQ \ {r} : blocked'[y] = blocked[y]
      BY <1>1, <1>2, EnqueueSignals
    <3>2. \A y \in RunQ \ {r} : head'[y] = head[y]
      BY <1>1, <1>2, <1>4, EnqueueLinks
    <3> QED
      BY <3>1, <3>2
  <2>2. \A y \in blocked[x] \ {x} : y \in Thread \ {r}
    BY <1>2, NotBlocked, Labels DEF SInv, HInv, Typed, SharedOK
  <2> QED
    BY <1>1, <1>2, <2>1, <2>2, Labels DEF CondOK
<1>10. \A x \in Thread : StopOK(x)'
  BY <1>1, <1>2, Labels DEF StopOK
<1> QED
  BY <1>5, <1>6, <1>7, <1>8, <1>9, <1>10 DEF t

LEMMA QPartsSpurious ==
    ASSUME QInv, NEW r \in RunQ, SpuriousWakeup(r)
    PROVE  QParts' /\ QueuesKept
<1> USE DEF QInv, QParts
<1>1. /\ UNCHANGED <<runq, next, prev, head, current, currentState, stopWaiting,
                     workerWaiting, life, pc, call>>
      /\ \A x \in RunQ : blocked'[x] \subseteq blocked[x]
  BY DEF SpuriousWakeup, links, state, SInv, HInv, Typed, SharedOK
<1>2. \A u : Dropped(u)' <=> Dropped(u)
  BY <1>1 DEF Dropped
<1>3. \A x \in RunQ : Queued(x)' = Queued(x)
  BY <1>1, <1>2 DEF Queued
<1>4. \A x \in RunQ : ListOK(x)'
  BY <1>1, <1>3, ListsKept
<1>5. ASSUME NEW x \in RunQ PROVE CurrentOK(x)'
  <2>1. Dropped(current[x])' <=> Dropped(current[x])
    BY <1>1 DEF Dropped
  <2> QED
    BY <1>1, <2>1 DEF CurrentOK, Resting
<1>6. \A x \in RunQ : CondOK(x)'
  BY <1>1 DEF CondOK
<1>7. \A x \in Thread : StopOK(x)'
  BY <1>1 DEF StopOK
<1> QED
  BY <1>3, <1>4, <1>5, <1>6, <1>7 DEF QueuesKept

-----------------------------------------------------------------------------
LEMMA QInvNext == ~ForeignStop /\ QInv /\ [Next]_vars => QInv'
<1> SUFFICES ASSUME ~ForeignStop, QInv, [Next]_vars PROVE QParts'
  BY SInvNext DEF QInv
<1>1. ASSUME NEW th \in Thread, RunStep(th) PROVE QParts'
  BY <1>1, QPartsRun, QPartsRunEnqueue DEF RunStep, RunDone
<1>2. ASSUME NEW th \in Thread, StopStep(th) PROVE QParts'
  BY <1>2, QPartsStopRead, QPartsStopQueued, QPartsStopOwn, QPartsStopForeign,
     QPartsStopWaited DEF StopStep
<1>3. ASSUME NEW r \in RunQ, Enter(r) \/ WorkerStep(r) PROVE QParts'
  BY <1>3, QPartsEnter, QPartsSleep, QPartsWake, QPartsVetoed, QPartsNextTasklet
     DEF WorkerStep
<1>4. ASSUME NEW r \in RunQ, Transfer(r) \/ ReturnStep(r) PROVE QParts'
  BY <1>4, QPartsTransfer, QPartsReturnIdle, QPartsReturnRequeue DEF ReturnStep
<1>5. CASE UNCHANGED vars
  BY <1>5, QPartsKept DEF vars
<1> QED
  BY <1>1, <1>2, <1>3, <1>4, <1>5, QPartsClient, QPartsSpurious DEF Next

(* Nothing is assumed of ForeignStop but that it is FALSE: tasklet_stop is *)
(* called by a handler on its own tasklet, as everywhere in src/.          *)
LEMMA QInvAlways == ASSUME ~ForeignStop PROVE Spec => []QInv
<1>1. QInv /\ [Next]_vars => QInv'
  BY QInvNext
<1> QED
  BY <1>1, QInvInit, PTL DEF Spec

(* run_queue_enqueue and run_queue_remove always find a well-formed circle,*)
(* that holds the tasklets which the runq fields say are queued: a stale   *)
(* next or prev is never followed, whoever calls tasklet_run, tasklet_stop *)
(* or tasklet_fini meanwhile.                                              *)
THEOREM ListsAreCircles == ASSUME ~ForeignStop PROVE Spec => []ListWellFormed
<1>1. QInv => ListWellFormed
  <2> SUFFICES ASSUME QInv, NEW r \in RunQ
               PROVE  /\ head[r] = NoTasklet => Queued(r) = {}
                      /\ head[r] # NoTasklet => head[r] \in Queued(r)
                      /\ \A t \in Queued(r) :
                            /\ next[t] \in Queued(r)
                            /\ prev[t] \in Queued(r)
                            /\ prev[next[t]] = t
                            /\ next[prev[t]] = t
                      /\ \A S \in SUBSET Queued(r) :
                            S = {} \/ S = Queued(r) \/ \E t \in S : next[t] \notin S
    BY DEF ListWellFormed
  <2>1. NoTasklet \notin Queued(r)
    BY ConstantsAssumption DEF Queued
  <2>2. Circle(Queued(r), next, prev, head[r], NoTasklet)
    BY DEF QInv, QParts, ListOK
  <2> QED
    BY <2>1, <2>2 DEF Circle
<1> QED
  BY <1>1, QInvAlways, PTL

(* After tasklet_fini the memory of the tasklet may be freed or used for   *)
(* another: no run queue's list, current tasklet or worker refers to it.   *)
THEOREM FiniReleases == ASSUME ~ForeignStop PROVE Spec => []FiniIsFinal
<1>1. QInv => FiniIsFinal
  <2> SUFFICES ASSUME QInv, NEW t \in Tasklet, life[t] = "dead", NEW r \in RunQ
               PROVE  /\ head[r] # t
                      /\ current[r] = t => pc[r] = "next"
                      /\ pc[r] \in {"transfer", "vetoed"} => mine[r] # t
                      /\ \A q \in Queued(r) : next[q] # t /\ prev[q] # t
    BY DEF FiniIsFinal
  <2>1. t \notin Queued(r) /\ t # NoTasklet
    BY ConstantsAssumption DEF Queued, Dropped
  <2>2. /\ head[r] # t
        /\ \A q \in Queued(r) : next[q] # t /\ prev[q] # t
    BY <2>1 DEF QInv, QParts, ListOK, Circle
  <2>3. current[r] = t => pc[r] = "next"
    BY <2>1 DEF QInv, QParts, CurrentOK
  <2>4. pc[r] \in {"transfer", "vetoed"} => mine[r] = current[r]
    BY DEF QInv, SInv, HInv, AllHandlersOK, HandlerOK
  <2> QED
    BY <2>2, <2>3, <2>4
<1> QED
  BY <1>1, QInvAlways, PTL

(* No wakeup is lost: a worker is asleep on the cond only while its queue  *)
(* is empty, and a tasklet_fini only while the handler it waits for runs,  *)
(* with the flag set that has the worker signal it.                        *)
THEOREM SignalsArrive == ASSUME ~ForeignStop PROVE Spec => []NoMissedSignal
<1>1. QInv => NoMissedSignal
  <2> SUFFICES ASSUME QInv, NEW r \in RunQ
               PROVE  /\ pc[r] = "asleep" /\ r \in blocked[r] => head[r] = NoTasklet
                      /\ \A th \in blocked[r] \ {r} :
                            current[r] = call[th].t /\ stopWaiting[r]
    BY DEF NoMissedSignal
  <2>1. CondOK(r) /\ blocked[r] \subseteq Thread
    BY DEF QInv, QParts, SInv, HInv, Typed, SharedOK
  <2>2. \A th \in blocked[r] \ {r} : StopOK(th)
    BY <2>1 DEF QInv, QParts
  <2> QED
    BY <2>1, <2>2 DEF CondOK, StopOK
<1> QED
  BY <1>1, QInvAlways, PTL

-----------------------------------------------------------------------------
(* The run queues implement TaskletSched.  What a run queue owes is read   *)
(* off its list and its worker.                                            *)
Owes(r, t) ==
    \/ t \in Queued(r)
    \/ mine[r] = t /\ pc[r] \in {"transfer", "vetoed"} /\ currentState[r] # "stopped"
    \/ mine[r] = t /\ Handling(r) /\ currentState[r] = "requeue"

Serves(r, t) == mine[r] = t /\ Handling(r)

Abstracted ==
    /\ Pending = {t \in Tasklet : \E r \in RunQ : Owes(r, t)}
    /\ Running = {t \in Tasklet : \E r \in RunQ : Serves(r, t)}
    /\ \A r \in RunQ, t \in Tasklet :
          Owes(r, t) \/ Serves(r, t) => runq[t] = r /\ life[t] # "dead"
    /\ \A r \in RunQ, t \in Tasklet : Serves(r, t) => Holds(r, t)

(* Following the links from the head comes to the queued tasklets, and to  *)
(* no other.                                                               *)
LEMMA ListedIsQueued ==
    ASSUME QInv, NEW r \in RunQ
    PROVE  Listed(r) = Queued(r)
<1>1. Circle(Queued(r), next, prev, head[r], NoTasklet) /\ Queued(r) \subseteq Tasklet
  BY DEF QInv, QParts, ListOK, Queued
<1>2. CASE head[r] = NoTasklet
  BY <1>1, <1>2, ConstantsAssumption DEF Listed, Circle
<1>3. CASE head[r] # NoTasklet
  <2>1. head[r] \in Queued(r)
    BY <1>1, <1>3 DEF Circle
  <2>2. \A t \in Queued(r) : next[t] \in Queued(r)
    BY <1>1 DEF Circle
  <2>3. ASSUME NEW t \in Listed(r) PROVE t \in Queued(r)
    <3>1. Queued(r) \in SUBSET Tasklet
      BY <1>1
    <3> QED
      BY <1>3, <2>1, <2>2, <2>3, <3>1 DEF Listed
  <2>4. ASSUME NEW t \in Queued(r), NEW S \in SUBSET Tasklet,
               head[r] \in S, \A u \in S : next[u] \in S
        PROVE  t \in S
    <3>1. S \cap Queued(r) \in SUBSET Queued(r) /\ S \cap Queued(r) # {}
      BY <2>1, <2>4
    <3>2. \A u \in S \cap Queued(r) : next[u] \in S \cap Queued(r)
      BY <2>2, <2>4
    <3>3. S \cap Queued(r) = Queued(r)
      BY <1>1, <3>1, <3>2 DEF Circle
    <3> QED
      BY <2>4, <3>3
  <2>5. ASSUME NEW t \in Queued(r) PROVE t \in Listed(r)
    BY <1>1, <1>3, <2>4, <2>5 DEF Listed
  <2> QED
    BY <2>3, <2>5
<1> QED
  BY <1>2, <1>3

LEMMA QInvAbstracts == QInv => Abstracted
<1> SUFFICES ASSUME QInv PROVE Abstracted
  OBVIOUS
<1>1. \A r \in RunQ : Listed(r) = Queued(r) /\ Queued(r) \subseteq Tasklet
  BY ListedIsQueued DEF Queued
<1>2. ASSUME NEW r \in RunQ, pc[r] \in {"transfer", "vetoed"} \/ Handling(r)
      PROVE  /\ mine[r] \in Tasklet /\ current[r] = mine[r]
             /\ runq[mine[r]] = r /\ life[mine[r]] # "dead"
  <2>1. mine[r] \in Tasklet /\ pc[r] # "next"
    BY <1>2, Labels DEF Handling, InHandler, QInv, SInv, HInv, Typed, ThreadsOK, Busy
  <2>2. current[r] = mine[r]
    BY <1>2 DEF Handling, QInv, SInv, HInv, AllHandlersOK, HandlerOK
  <2> QED
    BY <2>1, <2>2, ConstantsAssumption DEF QInv, QParts, CurrentOK
<1>3. ASSUME NEW r \in RunQ, Handling(r) PROVE Holds(r, mine[r])
  BY <1>2, <1>3, ConstantsAssumption
     DEF Handling, QInv, SInv, HInv, AllHandlersOK, HandlerOK
<1>4. Pending = {t \in Tasklet : \E r \in RunQ : Owes(r, t)}
  <2>1. ASSUME NEW t
        PROVE  t \in Pending <=>
                  \/ \E r \in RunQ : t \in Listed(r)
                  \/ \E r \in RunQ : /\ pc[r] \in {"transfer", "vetoed"}
                                    /\ currentState[r] # "stopped" /\ t = mine[r]
                  \/ \E r \in RunQ : /\ Handling(r)
                                    /\ currentState[r] = "requeue" /\ t = mine[r]
    BY DEF Pending
  <2>2. ASSUME NEW t PROVE t \in Pending <=> \E r \in RunQ : Owes(r, t)
    BY <1>1, <2>1 DEF Owes
  <2>3. ASSUME NEW t, NEW r \in RunQ, Owes(r, t) PROVE t \in Tasklet
    BY <1>1, <1>2, <2>3 DEF Owes
  <2> QED
    BY <2>2, <2>3
<1>5. Running = {t \in Tasklet : \E r \in RunQ : Serves(r, t)}
  BY <1>2 DEF Running, Serves
<1>6. \A r \in RunQ, t \in Tasklet :
         Owes(r, t) \/ Serves(r, t) => runq[t] = r /\ life[t] # "dead"
  BY <1>2 DEF Owes, Serves, Queued, Dropped
<1>7. \A r \in RunQ, t \in Tasklet : Serves(r, t) => Holds(r, t)
  BY <1>3 DEF Serves
<1> QED
  BY <1>4, <1>5, <1>6, <1>7 DEF Abstracted

LEMMA QInvAbstractsNext == QInv' => Abstracted'
BY QInvAbstracts, PTL

(* The other tasklets than t are owed and served as before. *)
Others(t) ==
    \A r \in RunQ, u \in Tasklet \ {t} :
        (Owes(r, u)' <=> Owes(r, u)) /\ (Serves(r, u)' <=> Serves(r, u))

OthersSame(t) ==
    /\ Pending' \ {t} = Pending \ {t}
    /\ Running' \ {t} = Running \ {t}

LEMMA OthersAbstract ==
    ASSUME Abstracted, Abstracted', NEW t \in Tasklet, Others(t)
    PROVE  /\ OthersSame(t)
           /\ t \in Pending <=> \E r \in RunQ : Owes(r, t)
           /\ t \in Pending' <=> \E r \in RunQ : Owes(r, t)'
           /\ t \in Running <=> \E r \in RunQ : Serves(r, t)
           /\ t \in Running' <=> \E r \in RunQ : Serves(r, t)'
<1>1. /\ Pending = {u \in Tasklet : \E r \in RunQ : Owes(r, u)}
      /\ Running = {u \in Tasklet : \E r \in RunQ : Serves(r, u)}
      /\ Pending' = {u \in Tasklet : \E r \in RunQ : Owes(r, u)'}
      /\ Running' = {u \in Tasklet : \E r \in RunQ : Serves(r, u)'}
  BY DEF Abstracted
<1> QED
  BY <1>1 DEF Others, OthersSame

LEMMA AllSame ==
    ASSUME Abstracted, Abstracted',
           \A r \in RunQ, u \in Tasklet :
              (Owes(r, u)' <=> Owes(r, u)) /\ (Serves(r, u)' <=> Serves(r, u))
    PROVE  UNCHANGED <<Pending, Running>>
<1>1. /\ Pending = {u \in Tasklet : \E r \in RunQ : Owes(r, u)}
      /\ Running = {u \in Tasklet : \E r \in RunQ : Serves(r, u)}
      /\ Pending' = {u \in Tasklet : \E r \in RunQ : Owes(r, u)'}
      /\ Running' = {u \in Tasklet : \E r \in RunQ : Serves(r, u)'}
  BY DEF Abstracted
<1> QED
  BY <1>1

SchedStep == [Sched!Next]_<<Pending, Running, Gone>>

(* The ways in which a step is one of TaskletSched. *)
LEMMA SchedStutters ==
    ASSUME Abstracted, Abstracted', UNCHANGED Gone,
           \A r \in RunQ, u \in Tasklet :
              (Owes(r, u)' <=> Owes(r, u)) /\ (Serves(r, u)' <=> Serves(r, u))
    PROVE  SchedStep
BY AllSame DEF SchedStep

LEMMA SchedRuns ==
    ASSUME Abstracted, Abstracted', UNCHANGED life, NEW t \in Tasklet, life[t] # "dead",
           Others(t), \E r \in RunQ : Owes(r, t)',
           \A r \in RunQ : Serves(r, t)' <=> Serves(r, t)
    PROVE  SchedStep /\ t \in Pending'
<1>1. /\ OthersSame(t) /\ t \in Pending'
      /\ t \in Running <=> t \in Running'
  BY OthersAbstract
<1>2. Pending' = Pending \cup {t} /\ Running' = Running
  BY <1>1 DEF OthersSame
<1>3. t \notin Gone /\ Gone' = Gone
  BY DEF Gone
<1> QED
  BY <1>1, <1>2, <1>3 DEF SchedStep, Sched!Next, Sched!Run

LEMMA SchedStops ==
    ASSUME Abstracted, Abstracted', UNCHANGED life, NEW t \in Tasklet,
           Others(t), \A r \in RunQ : ~Owes(r, t)',
           \A r \in RunQ : Serves(r, t)' <=> Serves(r, t)
    PROVE  SchedStep
<1>1. /\ OthersSame(t) /\ t \notin Pending'
      /\ t \in Running <=> t \in Running'
  BY OthersAbstract
<1>2. Pending' = Pending \ {t} /\ Running' = Running
  BY <1>1 DEF OthersSame
<1>3. Gone' = Gone
  BY DEF Gone
<1> QED
  BY <1>2, <1>3 DEF SchedStep, Sched!Next, Sched!Stop

LEMMA SchedFinalizes ==
    ASSUME Abstracted, Abstracted', NEW t \in Tasklet, life[t] # "dead",
           \A u \in Tasklet : life'[u] = "dead" <=> life[u] = "dead" \/ u = t,
           Others(t)
    PROVE  SchedStep
<1>1. \A r \in RunQ : ~Owes(r, t)' /\ ~Serves(r, t)'
  BY DEF Abstracted
<1>2. OthersSame(t) /\ t \notin Pending' /\ t \notin Running'
  BY <1>1, OthersAbstract
<1>3. Pending' = Pending \ {t} /\ Running' = Running \ {t}
  BY <1>2 DEF OthersSame
<1>4. t \notin Gone /\ Gone' = Gone \cup {t}
  BY DEF Gone
<1> QED
  BY <1>3, <1>4 DEF SchedStep, Sched!Next, Sched!Fini

-----------------------------------------------------------------------------
(* A thread moves in its calls, and no run queue is concerned. *)
LEMMA CallsQuiet ==
    ASSUME QueuesKept, NEW th \in Thread, UNCHANGED <<current, currentState, mine>>,
           \A x \in Thread \ {th} : pc'[x] = pc[x] /\ call'[x] = call[x],
           pc[th] \notin {"transfer", "vetoed"}, pc'[th] \notin {"transfer", "vetoed"},
           th \in RunQ => (InHandler(th)' <=> InHandler(th))
    PROVE  \A r \in RunQ, u \in Tasklet :
              (Owes(r, u)' <=> Owes(r, u)) /\ (Serves(r, u)' <=> Serves(r, u))
<1> SUFFICES ASSUME NEW r \in RunQ, NEW u \in Tasklet
             PROVE  (Owes(r, u)' <=> Owes(r, u)) /\ (Serves(r, u)' <=> Serves(r, u))
  OBVIOUS
<1>1. InHandler(r)' <=> InHandler(r)
  <2>1. r # th => pc'[r] = pc[r] /\ call'[r] = call[r]
    BY Labels
  <2> QED
    BY <2>1 DEF InHandler
<1>2. Handling(r)' <=> Handling(r)
  BY <1>1 DEF Handling
<1>3. pc'[r] \in {"transfer", "vetoed"} <=> pc[r] \in {"transfer", "vetoed"}
  BY Labels
<1>4. Queued(r)' = Queued(r)
  BY DEF QueuesKept
<1> QED
  BY <1>2, <1>3, <1>4 DEF Owes, Serves

LEMMA ReturnToHandler ==
    ASSUME HInv, NEW th \in Thread, Return(th), pc[th] \in {"read", "lock", "wait"}
    PROVE  /\ \A x \in Thread \ {th} : pc'[x] = pc[x] /\ call'[x] = call[x]
           /\ pc'[th] \in {"body", "out"} /\ call'[th] = NoCall
           /\ InHandler(th)' <=> InHandler(th)
<1>1. call'[th] = NoCall
  BY DEF HInv, Typed, ThreadsOK, Return
<1> QED
  BY <1>1, ReturnStays DEF InHandler, NoCall

LEMMA SchedClient ==
    ASSUME QInv, QInv', ~ForeignStop, NEW th \in Thread, ClientStep(th)
    PROVE  SchedStep
<1>1. Abstracted /\ Abstracted' /\ QueuesKept
  BY QInvAbstracts, QInvAbstractsNext, QPartsClient
<1>2. ASSUME NEW m \in Mutex, Lock(th, m) \/ Unlock(th, m) PROVE SchedStep
  <2>1. /\ UNCHANGED <<current, currentState, mine, life, pc, call>>
        /\ pc[th] = "body"
    BY <1>2 DEF Lock, Unlock, state
  <2>2. InHandler(th)' <=> InHandler(th)
    BY <2>1 DEF InHandler
  <2>3. UNCHANGED Gone
    BY <2>1 DEF Gone
  <2> QED
    BY <1>1, <2>1, <2>2, <2>3, CallsQuiet, SchedStutters
<1>3. ASSUME NEW t \in Tasklet, TaskletInit(th, t) PROVE SchedStep
  <2>1. /\ UNCHANGED <<current, currentState, mine, pc, call>>
        /\ pc[th] = "body"
        /\ life' = [life EXCEPT ![t] = "live"] /\ life \in [Tasklet -> {"live", "closing", "dead"}]
    BY <1>3 DEF TaskletInit, state, QInv, SInv, HInv, Typed, SharedOK
  <2>2. InHandler(th)' <=> InHandler(th)
    BY <2>1 DEF InHandler
  <2>3. UNCHANGED <<Pending, Running>>
    BY <1>1, <2>1, <2>2, CallsQuiet, AllSame
  <2>4. Gone' = Gone \ {t}
    BY <2>1 DEF Gone
  <2> QED
    BY <2>3, <2>4 DEF SchedStep, Sched!Next, Sched!Revive
<1>4. ASSUME NEW t \in Tasklet, CallRun(th, t) \/ CallStop(th, t) \/ CallFini(th, t)
      PROVE  SchedStep
  <2>1. PICK op \in {"run", "stop", "fini"} :
            /\ Begin(th, op, t)
            /\ life' = [life EXCEPT ![t] = "closing"] \/ UNCHANGED life
    BY <1>4 DEF CallRun, CallStop, CallFini
  <2>2. pc[th] \in {"body", "out"}
    BY <1>4 DEF CallRun, CallStop, CallFini
  <2>3. /\ pc'[th] = "read" /\ call'[th].from = pc[th]
        /\ \A x \in Thread \ {th} : pc'[x] = pc[x] /\ call'[x] = call[x]
        /\ UNCHANGED <<current, currentState, mine>>
        /\ life[t] = "live"
    BY <2>1 DEF Begin, Goto, state, QInv, SInv, HInv, Typed, ThreadsOK
  <2>4. InHandler(th)' <=> InHandler(th)
    <3>1. call[th].from = "body"
      BY <2>2, BodyHasNoCall, Labels DEF QInv, SInv, HInv
    <3> QED
      BY <2>2, <2>3, <3>1 DEF InHandler
  <2>5. UNCHANGED Gone
    BY <2>1, <2>3 DEF Gone, QInv, SInv, HInv, Typed, SharedOK
  <2> QED
    BY <1>1, <2>2, <2>3, <2>4, <2>5, CallsQuiet, SchedStutters
<1> QED
  BY <1>2, <1>3, <1>4 DEF ClientStep

(* What run queue r owes, and whether it serves u, stays.                  *)
LEMMA StaysOwed ==
    ASSUME NEW r \in RunQ, NEW u \in Tasklet,
           u \in Queued(r)' <=> u \in Queued(r),
           mine'[r] = mine[r],
           mine[r] = u =>
              /\ pc'[r] \in {"transfer", "vetoed"} <=> pc[r] \in {"transfer", "vetoed"}
              /\ Handling(r)' <=> Handling(r)
              /\ pc[r] \in {"transfer", "vetoed"} \/ Handling(r) =>
                    currentState'[r] = currentState[r]
    PROVE  (Owes(r, u)' <=> Owes(r, u)) /\ (Serves(r, u)' <=> Serves(r, u))
BY DEF Owes, Serves

(* The steps of tasklet_run: once it is past its check it leaves the       *)
(* tasklet pending.                                                        *)
LEMMA SchedRunQuiet ==
    ASSUME QInv, QInv', NEW th \in Thread, RunRead(th) \/ RunRetry(th)
    PROVE  SchedStep
<1>1. Abstracted /\ Abstracted' /\ QueuesKept
  BY QInvAbstracts, QInvAbstractsNext, QPartsRun
<1>2. /\ UNCHANGED <<current, currentState, mine, life>>
      /\ pc[th] \in {"read", "lock"}
  BY DEF RunRead, RunRetry, RunLocks, state
<1>3. /\ \A x \in Thread \ {th} : pc'[x] = pc[x] /\ call'[x] = call[x]
      /\ pc'[th] \in {"read", "lock"}
      /\ call'[th].from = call[th].from
  <2>1. call \in [Thread -> Call] /\ pc \in [Thread -> Label]
    BY DEF QInv, SInv, HInv, Typed, ThreadsOK
  <2>2. CASE RunRead(th)
    BY <2>1, <2>2 DEF RunRead, Goto, Call
  <2>3. CASE RunRetry(th)
    BY <2>1, <2>3 DEF RunRetry, Goto
  <2> QED
    BY <2>2, <2>3
<1>4. InHandler(th)' <=> InHandler(th)
  BY <1>2, <1>3 DEF InHandler
<1>5. UNCHANGED Gone
  BY <1>2 DEF Gone
<1> QED
  BY <1>1, <1>2, <1>3, <1>4, <1>5, CallsQuiet, SchedStutters

LEMMA SchedRunMark ==
    ASSUME QInv, QInv', NEW th \in Thread, RunMark(th)
    PROVE  SchedStep /\ call[th].t \in Pending'
<1> USE DEF QInv, SInv, HInv
<1>1. Abstracted /\ Abstracted' /\ QueuesKept
  BY QInvAbstracts, QInvAbstractsNext, QPartsRun
<1>2. PICK t \in Tasklet, r \in RunQ :
          /\ RunLocks(th, t, r)
          /\ runq[t] = r
          /\ currentState' = IF current[r] = t
                             THEN [currentState EXCEPT ![r] = "requeue"]
                             ELSE currentState
          /\ Return(th)
          /\ UNCHANGED <<links, current, stopWaiting, workerWaiting, life,
                         blocked, owner, mine>>
  BY DEF RunMark
<1>3. t = call[th].t /\ call[th].op = "run" /\ pc[th] = "lock" /\ life[t] = "live"
  BY <1>2 DEF RunLocks, CallSafe
<1>4. /\ \A x \in Thread \ {th} : pc'[x] = pc[x] /\ call'[x] = call[x]
      /\ pc'[th] \in {"body", "out"}
      /\ InHandler(th)' <=> InHandler(th)
  BY <1>2, <1>3, ReturnToHandler
<1>5. /\ \A x \in RunQ \ {r} : currentState'[x] = currentState[x]
      /\ current[r] # t => UNCHANGED currentState
      /\ current[r] = t => currentState'[r] = "requeue"
  BY <1>2 DEF Typed, SharedOK
<1>6. ASSUME NEW x \in RunQ
      PROVE  /\ Handling(x)' <=> Handling(x)
             /\ pc'[x] \in {"transfer", "vetoed"} <=> pc[x] \in {"transfer", "vetoed"}
  <2>1. x # th => pc'[x] = pc[x] /\ call'[x] = call[x]
    BY <1>4, Labels
  <2>2. InHandler(x)' <=> InHandler(x)
    BY <1>4, <2>1 DEF InHandler
  <2> QED
    BY <1>2, <1>3, <1>4, <2>1, <2>2 DEF Handling
<1>7. ASSUME NEW x \in RunQ, pc[x] \in {"transfer", "vetoed"} \/ Handling(x)
      PROVE  current[x] = mine[x]
  BY <1>7 DEF AllHandlersOK, HandlerOK, Handling
<1>8. ASSUME NEW x \in RunQ, NEW u \in Tasklet,
             u # t \/ currentState'[x] = currentState[x]
      PROVE  (Owes(x, u)' <=> Owes(x, u)) /\ (Serves(x, u)' <=> Serves(x, u))
  <2>1. Queued(x)' = Queued(x)
    BY <1>1 DEF QueuesKept
  <2> QED
    BY <1>2, <1>5, <1>6, <1>7, <1>8, <2>1, StaysOwed
<1>9. Others(t)
  BY <1>8 DEF Others
<1>10. \A x \in RunQ : Serves(x, t)' <=> Serves(x, t)
  BY <1>2, <1>6 DEF Serves
<1>11. Owes(r, t)'
  <2>1. CASE current[r] = t /\ pc[r] # "next"
    <3>1. ~Resting(r)
      BY <2>1, ConstantsAssumption DEF QParts, CurrentOK
    <3>2. pc[r] \in {"transfer", "vetoed"} \/ InHandler(r)
      <4>1. pc[r] \in Label /\ call[r] \in Call /\ CallFits(pc[r], call[r])
        BY Labels DEF Typed, ThreadsOK
      <4>2. pc[r] = "body" => call[r].from = "body"
        BY <4>1, Labels DEF CallFits
      <4> QED
        BY <2>1, <3>1, <4>1, <4>2 DEF Resting, InHandler, Call, Label
    <3>3. current[r] = mine[r]
      BY <2>1, <3>2, ConstantsAssumption DEF AllHandlersOK, HandlerOK
    <3>4. mine'[r] = t /\ currentState'[r] = "requeue"
      BY <1>2, <1>5, <2>1, <3>3
    <3>5. pc'[r] \in {"transfer", "vetoed"} \/ Handling(r)'
      BY <1>6, <3>2, <3>3 DEF Handling
    <3> QED
      BY <3>4, <3>5 DEF Owes
  <2>2. CASE ~(current[r] = t /\ pc[r] # "next")
    <3>1. t \in Queued(r)
      BY <1>2, <1>3, <2>2 DEF Queued, Dropped
    <3> QED
      BY <1>1, <3>1 DEF QueuesKept, Owes
  <2> QED
    BY <2>1, <2>2
<1> QED
  BY <1>1, <1>2, <1>3, <1>9, <1>10, <1>11, SchedRuns

LEMMA SchedRunEnqueue ==
    ASSUME QInv, QInv', NEW th \in Thread, RunEnqueue(th)
    PROVE  SchedStep /\ call[th].t \in Pending'
<1> USE DEF QInv, SInv, HInv
<1>1. Abstracted /\ Abstracted'
  BY QInvAbstracts, QInvAbstractsNext
<1>2. PICK t \in Tasklet :
          /\ t = call[th].t /\ call[th].op = "run" /\ pc[th] = "lock"
          /\ Return(th) /\ UNCHANGED <<current, currentState, mine, life>>
  BY DEF RunEnqueue, RunLocks, state
<1>3. PICK r \in RunQ : /\ Queued(r)' = Queued(r) \cup {t}
                        /\ \A x \in RunQ \ {r} : Queued(x)' = Queued(x)
  BY <1>2, QPartsRunEnqueue
<1>4. life[t] = "live"
  BY <1>2 DEF CallSafe
<1>5. /\ \A x \in Thread \ {th} : pc'[x] = pc[x] /\ call'[x] = call[x]
      /\ pc'[th] \in {"body", "out"}
      /\ InHandler(th)' <=> InHandler(th)
  BY <1>2, ReturnToHandler
<1>6. ASSUME NEW x \in RunQ
      PROVE  /\ Handling(x)' <=> Handling(x)
             /\ pc'[x] \in {"transfer", "vetoed"} <=> pc[x] \in {"transfer", "vetoed"}
  <2>1. x # th => pc'[x] = pc[x] /\ call'[x] = call[x]
    BY <1>5, Labels
  <2>2. InHandler(x)' <=> InHandler(x)
    BY <1>5, <2>1 DEF InHandler
  <2> QED
    BY <1>2, <1>5, <2>1, <2>2 DEF Handling
<1>7. ASSUME NEW x \in RunQ, NEW u \in Tasklet \ {t}
      PROVE  (Owes(x, u)' <=> Owes(x, u)) /\ (Serves(x, u)' <=> Serves(x, u))
  <2>1. u \in Queued(x)' <=> u \in Queued(x)
    BY <1>3
  <2> QED
    BY <1>2, <1>6, <2>1, StaysOwed
<1>8. Others(t)
  BY <1>7 DEF Others
<1>9. \A x \in RunQ : Serves(x, t)' <=> Serves(x, t)
  BY <1>2, <1>6 DEF Serves
<1>10. Owes(r, t)'
  BY <1>3 DEF Owes
<1> QED
  BY <1>1, <1>2, <1>4, <1>8, <1>9, <1>10, SchedRuns

-----------------------------------------------------------------------------
(* The steps of tasklet_stop and tasklet_fini. *)

LEMMA QuietAbstracts ==
    ASSUME QInv, QInv', NEW th \in Thread, ReturnQuiet(th), QueuesKept,
           UNCHANGED <<current, currentState, mine>>,
           pc[th] \in {"read", "lock", "wait"}, call[th].op # "run"
    PROVE  SchedStep
<1> USE DEF QInv, SInv, HInv
<1>1. Abstracted /\ Abstracted'
  BY QInvAbstracts, QInvAbstractsNext
<1>2. PICK t \in Tasklet : t = call[th].t
  BY Stopper
<1>3. /\ \A x \in Thread \ {th} : pc'[x] = pc[x] /\ call'[x] = call[x]
      /\ pc'[th] \in {"body", "out"}
      /\ InHandler(th)' <=> InHandler(th)
  BY ReturnToHandler DEF ReturnQuiet
<1>4. \A r \in RunQ, u \in Tasklet :
         (Owes(r, u)' <=> Owes(r, u)) /\ (Serves(r, u)' <=> Serves(r, u))
  BY <1>3, CallsQuiet
<1>5. CASE call[th].op = "fini"
  <2>1. life[t] # "dead"
    BY <1>2, <1>5, Stopper
  <2>2. \A u \in Tasklet : life'[u] = "dead" <=> life[u] = "dead" \/ u = t
    BY <1>2, <1>5, QuietDropped
  <2>3. Others(t)
    BY <1>4 DEF Others
  <2> QED
    BY <1>1, <2>1, <2>2, <2>3, SchedFinalizes
<1>6. CASE call[th].op # "fini"
  <2>1. UNCHANGED Gone
    BY <1>6 DEF ReturnQuiet, Gone
  <2> QED
    BY <1>1, <1>4, <2>1, SchedStutters
<1> QED
  BY <1>5, <1>6

LEMMA SchedStopRead ==
    ASSUME QInv, QInv', NEW th \in Thread, StopRead(th)
    PROVE  SchedStep
<1>1. Abstracted /\ Abstracted' /\ QueuesKept
  BY QInvAbstracts, QInvAbstractsNext, QPartsStopRead
<1>2. /\ UNCHANGED <<current, currentState, mine>>
      /\ pc[th] = "read" /\ call[th].op # "run"
  BY DEF StopRead, state
<1>3. CASE runq[call[th].t] = NoRunQ
  BY <1>1, <1>2, <1>3, QuietAbstracts DEF StopRead
<1>4. CASE runq[call[th].t] # NoRunQ
  <2>1. /\ call' = [call EXCEPT ![th].rq = runq[call[th].t]]
        /\ Goto(th, "lock") /\ UNCHANGED life
    BY <1>4 DEF StopRead
  <2>2. call \in [Thread -> Call] /\ pc \in [Thread -> Label]
    BY DEF QInv, SInv, HInv, Typed, ThreadsOK
  <2>3. /\ \A x \in Thread \ {th} : pc'[x] = pc[x] /\ call'[x] = call[x]
        /\ pc'[th] = "lock" /\ call'[th].from = call[th].from
    BY <2>1, <2>2 DEF Goto, Call
  <2>4. (InHandler(th)' <=> InHandler(th)) /\ UNCHANGED Gone
    BY <1>2, <2>1, <2>3 DEF InHandler, Gone
  <2> QED
    BY <1>1, <1>2, <2>3, <2>4, CallsQuiet, SchedStutters
<1> QED
  BY <1>3, <1>4

LEMMA SchedStopWaited ==
    ASSUME QInv, QInv', NEW th \in Thread, StopWaited(th)
    PROVE  SchedStep
<1>1. Abstracted /\ Abstracted' /\ QueuesKept
  BY QInvAbstracts, QInvAbstractsNext, QPartsStopWaited
<1>2. /\ UNCHANGED <<current, currentState, mine>>
      /\ pc[th] = "wait" /\ call[th].op # "run"
  BY DEF StopWaited, state, QInv, QParts, StopOK
<1>3. CASE current[call[th].rq] # call[th].t
  BY <1>1, <1>2, <1>3, QuietAbstracts DEF StopWaited
<1>4. CASE current[call[th].rq] = call[th].t
  <2>1. UNCHANGED <<pc, call, life>>
    BY <1>4 DEF StopWaited
  <2>2. (InHandler(th)' <=> InHandler(th)) /\ UNCHANGED Gone
    BY <2>1 DEF InHandler, Gone
  <2> QED
    BY <1>1, <1>2, <2>1, <2>2, CallsQuiet, SchedStutters
<1> QED
  BY <1>3, <1>4

(* A tasklet on a run queue's list, or current, that is not the worker's   *)
(* own, is not being stopped: it is being finalized.                       *)
LEMMA OnlyFini ==
    ASSUME QInv, NEW th \in Thread, NEW t \in Tasklet, NEW r \in RunQ,
           StopLocks(th, t, r), runq[t] = r, current[r] # t \/ r # th
    PROVE  call[th].op = "fini"
<1> USE DEF QInv, QParts
<1>1. call[th].op \in {"stop", "fini"} /\ t = call[th].t /\ pc[th] = "lock"
  BY Stopper DEF StopLocks
<1>2. ASSUME call[th].op = "stop" PROVE FALSE
  <2>1. th \in RunQ /\ current[th] = t
    BY <1>1, <1>2 DEF StopOK
  <2>2. runq[t] = th
    BY <1>1, <2>1, ConstantsAssumption DEF CurrentOK
  <2> QED
    BY <2>1, <2>2
<1> QED
  BY <1>1, <1>2

LEMMA SchedStopQueued ==
    ASSUME QInv, QInv', NEW th \in Thread, StopQueued(th)
    PROVE  SchedStep
<1> USE DEF QInv, SInv, HInv
<1>1. Abstracted /\ Abstracted'
  BY QInvAbstracts, QInvAbstractsNext
<1>2. PICK t \in Tasklet :
          /\ t = call[th].t /\ call[th].op = "fini" /\ pc[th] = "lock"
          /\ ReturnQuiet(th) /\ UNCHANGED <<current, currentState, mine>>
  <2>1. PICK t \in Tasklet, r \in RunQ :
            /\ StopLocks(th, t, r)
            /\ runq[t] = r
            /\ current[r] # t
            /\ ReturnQuiet(th)
    BY DEF StopQueued
  <2>2. UNCHANGED <<current, currentState, mine>>
    BY DEF StopQueued, state
  <2> QED
    BY <2>1, <2>2, OnlyFini DEF StopLocks
<1>3. \A x \in RunQ : Queued(x)' = Queued(x) \ {t}
  BY <1>2, QPartsStopQueued
<1>4. /\ \A x \in Thread \ {th} : pc'[x] = pc[x] /\ call'[x] = call[x]
      /\ pc'[th] \in {"body", "out"}
      /\ InHandler(th)' <=> InHandler(th)
  BY <1>2, ReturnToHandler DEF ReturnQuiet
<1>5. life[t] # "dead"
  BY <1>2, Stopper
<1>6. \A u \in Tasklet : life'[u] = "dead" <=> life[u] = "dead" \/ u = t
  BY <1>2, QuietDropped
<1>7. ASSUME NEW x \in RunQ, NEW u \in Tasklet \ {t}
      PROVE  (Owes(x, u)' <=> Owes(x, u)) /\ (Serves(x, u)' <=> Serves(x, u))
  <2>1. x # th => pc'[x] = pc[x] /\ call'[x] = call[x]
    BY <1>4, Labels
  <2>2. InHandler(x)' <=> InHandler(x)
    BY <1>4, <2>1 DEF InHandler
  <2>3. Handling(x)' <=> Handling(x)
    BY <1>2, <2>2 DEF Handling
  <2> QED
    BY <1>2, <1>3, <1>4, <2>1, <2>3, StaysOwed
<1>8. Others(t)
  BY <1>7 DEF Others
<1> QED
  BY <1>1, <1>5, <1>6, <1>8, SchedFinalizes

LEMMA SchedStopOwn ==
    ASSUME QInv, QInv', NEW th \in Thread, StopOwn(th)
    PROVE  SchedStep
<1> USE DEF QInv, SInv, HInv
<1>1. Abstracted /\ Abstracted' /\ QueuesKept
  BY QInvAbstracts, QInvAbstractsNext, QPartsStopOwn
<1>2. PICK t \in Tasklet :
          /\ t = call[th].t /\ th \in RunQ /\ StopLocks(th, t, th)
          /\ runq[t] = th /\ current[th] = t
          /\ currentState' = [currentState EXCEPT ![th] = "stopped"]
          /\ current' = IF call[th].op = "fini"
                        THEN [current EXCEPT ![th] = NoTasklet] ELSE current
          /\ ReturnQuiet(th) /\ UNCHANGED <<runq, mine>>
  BY DEF StopOwn, StopLocks, links
<1>3. pc[th] = "lock" /\ call[th].op \in {"stop", "fini"}
  BY <1>2, Stopper DEF StopLocks
<1>4. /\ \A x \in Thread \ {th} : pc'[x] = pc[x] /\ call'[x] = call[x]
      /\ pc'[th] \in {"body", "out"}
      /\ InHandler(th)' <=> InHandler(th)
  BY <1>2, <1>3, ReturnToHandler DEF ReturnQuiet
<1>5. InHandler(th) /\ mine[th] = t
  <2>1. ~Resting(th)
    BY <1>2, <1>3, ConstantsAssumption DEF QParts, CurrentOK
  <2>2. call[th].from \in {"body", "out"}
    BY DEF Typed, ThreadsOK, Call
  <2>3. InHandler(th)
    BY <1>3, <2>1, <2>2 DEF Resting, InHandler
  <2> QED
    BY <1>2, <2>3, ConstantsAssumption DEF AllHandlersOK, HandlerOK
<1>6. /\ currentState'[th] = "stopped"
      /\ \A x \in RunQ \ {th} :
            currentState'[x] = currentState[x] /\ current'[x] = current[x]
      /\ call[th].op # "fini" => UNCHANGED current
  BY <1>2 DEF Typed, SharedOK
<1>7. ASSUME NEW x \in RunQ, NEW u \in Tasklet, x # th \/ u # t
      PROVE  (Owes(x, u)' <=> Owes(x, u)) /\ (Serves(x, u)' <=> Serves(x, u))
  <2>1. Queued(x)' = Queued(x)
    BY <1>1 DEF QueuesKept
  <2>2. CASE x = th
    BY <1>2, <1>5, <1>7, <2>1, <2>2, StaysOwed
  <2>3. CASE x # th
    <3>1. pc'[x] = pc[x] /\ call'[x] = call[x]
      BY <1>4, <2>3, Labels
    <3>2. Handling(x)' <=> Handling(x)
      BY <1>2, <1>6, <2>3, <3>1 DEF Handling, InHandler
    <3> QED
      BY <1>2, <1>6, <2>1, <2>3, <3>1, <3>2, StaysOwed
  <2> QED
    BY <2>2, <2>3
<1>8. Others(t)
  BY <1>7 DEF Others
<1>9. CASE call[th].op = "fini"
  <2>1. life[t] # "dead"
    BY <1>2, <1>3, <1>9, Stopper
  <2>2. \A u \in Tasklet : life'[u] = "dead" <=> life[u] = "dead" \/ u = t
    BY <1>2, <1>3, <1>9, QuietDropped
  <2> QED
    BY <1>1, <1>8, <2>1, <2>2, SchedFinalizes
<1>10. CASE call[th].op = "stop"
  <2>1. UNCHANGED life
    BY <1>2, <1>10 DEF ReturnQuiet
  <2>2. Serves(th, t)' <=> Serves(th, t)
    BY <1>2, <1>4, <1>6, <1>10 DEF Serves, Handling
  <2>3. ~Owes(th, t)'
    <3>1. t \notin Queued(th)'
      BY <1>1, <1>2, <1>3 DEF QueuesKept, Queued
    <3> QED
      BY <1>4, <1>6, <3>1 DEF Owes
  <2>4. ASSUME NEW x \in RunQ, x # th PROVE ~Owes(x, t)'
    BY <1>1, <1>2, <1>7, <2>4 DEF Abstracted
  <2>5. \A x \in RunQ : ~Owes(x, t)'
    BY <2>3, <2>4
  <2>6. \A x \in RunQ : Serves(x, t)' <=> Serves(x, t)
    BY <1>7, <2>2
  <2> QED
    BY <1>1, <1>8, <2>1, <2>5, <2>6, SchedStops
<1> QED
  BY <1>3, <1>9, <1>10

LEMMA SchedStopForeign ==
    ASSUME QInv, QInv', NEW th \in Thread, StopForeign(th)
    PROVE  SchedStep
<1> USE DEF QInv, SInv, HInv
<1>1. Abstracted /\ Abstracted' /\ QueuesKept
  BY QInvAbstracts, QInvAbstractsNext, QPartsStopForeign
<1>2. PICK t \in Tasklet, r \in RunQ \ {th} :
          /\ StopLocks(th, t, r)
          /\ runq[t] = r
          /\ current[r] = t
          /\ currentState' = [currentState EXCEPT ![r] = "stopped"]
          /\ pc' = [x \in Thread |->
                       IF x = th THEN "wait"
                       ELSE IF x \in RunQ /\ Veto(MutexOf[t], x)
                       THEN "vetoed" ELSE pc[x]]
          /\ UNCHANGED <<runq, current, life, call, mine>>
  BY DEF StopForeign, links
<1>3. /\ pc[th] = "lock" /\ t = call[th].t /\ call[th].op = "fini"
      /\ life[t] = "closing"
  BY <1>2, OnlyFini, Stopper DEF StopLocks
<1>4. ASSUME NEW x \in RunQ
      PROVE  /\ Handling(x)' <=> Handling(x)
             /\ pc'[x] \in {"transfer", "vetoed"} <=> pc[x] \in {"transfer", "vetoed"}
  <2>1. \/ x = th /\ pc'[x] = "wait"
        \/ pc'[x] = pc[x]
        \/ pc[x] = "transfer" /\ pc'[x] = "vetoed"
    BY <1>2, Labels DEF Veto
  <2> QED
    BY <1>2, <1>3, <2>1 DEF Handling, InHandler
<1>5. ASSUME NEW x \in RunQ, pc[x] \in {"transfer", "vetoed"} \/ Handling(x)
      PROVE  current[x] = mine[x]
  BY <1>5 DEF AllHandlersOK, HandlerOK, Handling
<1>6. currentState'[r] = "stopped" /\ \A x \in RunQ \ {r} : currentState'[x] = currentState[x]
  BY <1>2 DEF Typed, SharedOK
<1>7. ASSUME NEW x \in RunQ, NEW u \in Tasklet \ {t}
      PROVE  (Owes(x, u)' <=> Owes(x, u)) /\ (Serves(x, u)' <=> Serves(x, u))
  <2>1. Queued(x)' = Queued(x)
    BY <1>1 DEF QueuesKept
  <2> QED
    BY <1>2, <1>4, <1>5, <1>6, <2>1, StaysOwed
<1>8. Others(t)
  BY <1>7 DEF Others
<1>9. \A x \in RunQ : Serves(x, t)' <=> Serves(x, t)
  BY <1>2, <1>4 DEF Serves
<1>10. ASSUME NEW x \in RunQ, Owes(x, t)' PROVE FALSE
  <2>1. x = r
    BY <1>1, <1>2, <1>10 DEF Abstracted
  <2>2. pc'[th] = "wait" /\ call'[th].t = t /\ life'[t] = "closing"
    BY <1>2, <1>3
  <2>3. t \notin Queued(x)'
    BY <2>2 DEF Queued, Dropped
  <2> QED
    BY <1>6, <1>10, <2>1, <2>3 DEF Owes
<1> QED
  BY <1>1, <1>2, <1>8, <1>9, <1>10, SchedStops

-----------------------------------------------------------------------------
(* The steps of run_queue_run. *)

(* The head leaves the queue, and is owed by the worker instead.           *)
LEMMA SchedTake ==
    ASSUME QInv, QInv', NEW r \in RunQ, TakeHead(r), UNCHANGED <<life, call>>,
           pc[r] \in {"out", "asleep", "next"}, head[r] \in Queued(r),
           \A x \in RunQ : Queued(x)' = Queued(x) \ {head[r]}
    PROVE  SchedStep
<1> USE DEF QInv, SInv, HInv
<1>1. Abstracted /\ Abstracted' /\ UNCHANGED Gone
  BY QInvAbstracts, QInvAbstractsNext DEF Gone
<1>2. /\ pc'[r] = "transfer" /\ currentState'[r] = "started" /\ mine'[r] = head[r]
      /\ \A x \in Thread \ {r} : pc'[x] = pc[x]
      /\ \A x \in RunQ \ {r} :
            /\ current'[x] = current[x] /\ currentState'[x] = currentState[x]
            /\ mine'[x] = mine[x]
  BY Labels DEF TakeHead, Goto, Typed, SharedOK, ThreadsOK
<1>3. ~Handling(r) /\ ~Handling(r)'
  BY <1>2 DEF Handling, InHandler
<1>4. ASSUME NEW u \in Tasklet
      PROVE  (Owes(r, u)' <=> Owes(r, u)) /\ (Serves(r, u)' <=> Serves(r, u))
  <2>1. u \in Queued(r)' <=> u \in Queued(r) /\ u # head[r]
    OBVIOUS
  <2>2. Owes(r, u) <=> u \in Queued(r)
    BY <1>3 DEF Owes
  <2>3. Owes(r, u)' <=> (u \in Queued(r)') \/ u = head[r]
    BY <1>2, <1>3 DEF Owes
  <2> QED
    BY <1>3, <2>1, <2>2, <2>3 DEF Serves
<1>5. ASSUME NEW x \in RunQ, x # r, NEW u \in Tasklet
      PROVE  (Owes(x, u)' <=> Owes(x, u)) /\ (Serves(x, u)' <=> Serves(x, u))
  <2>1. Queued(x)' = Queued(x)
    BY <1>5, QueuesDisjoint
  <2>2. pc'[x] = pc[x] /\ call'[x] = call[x]
    BY <1>2, <1>5, Labels
  <2>3. Handling(x)' <=> Handling(x)
    BY <1>2, <1>5, <2>2 DEF Handling, InHandler
  <2> QED
    BY <1>2, <1>5, <2>1, <2>2, <2>3, StaysOwed
<1> QED
  BY <1>1, <1>4, <1>5, SchedStutters

(* The worker of r moves, with no handler running, and owes the same.      *)
LEMMA SchedWorkerMoves ==
    ASSUME QInv, QInv', NEW r \in RunQ, UNCHANGED <<life, call>>,
           QueuesKept, pc \in [Thread -> Label], NEW l, Goto(r, l),
           \A x \in RunQ \ {r} :
              /\ current'[x] = current[x] /\ currentState'[x] = currentState[x]
              /\ mine'[x] = mine[x],
           ~Handling(r), ~Handling(r)',
           \A u \in Tasklet :
              mine'[r] = u /\ l \in {"transfer", "vetoed"} /\ currentState'[r] # "stopped"
              <=> mine[r] = u /\ pc[r] \in {"transfer", "vetoed"}
                              /\ currentState[r] # "stopped"
    PROVE  SchedStep
<1>1. Abstracted /\ Abstracted' /\ UNCHANGED Gone
  BY QInvAbstracts, QInvAbstractsNext DEF Gone
<1>2. pc'[r] = l /\ \A x \in Thread \ {r} : pc'[x] = pc[x]
  BY Labels DEF Goto
<1>3. ASSUME NEW u \in Tasklet
      PROVE  (Owes(r, u)' <=> Owes(r, u)) /\ (Serves(r, u)' <=> Serves(r, u))
  BY <1>2 DEF Owes, Serves, QueuesKept
<1>4. ASSUME NEW x \in RunQ, x # r, NEW u \in Tasklet
      PROVE  (Owes(x, u)' <=> Owes(x, u)) /\ (Serves(x, u)' <=> Serves(x, u))
  <2>1. Queued(x)' = Queued(x) /\ pc'[x] = pc[x] /\ call'[x] = call[x]
    BY <1>2, <1>4, Labels DEF QueuesKept
  <2>2. Handling(x)' <=> Handling(x)
    BY <1>4, <2>1 DEF Handling, InHandler
  <2> QED
    BY <1>4, <2>1, <2>2, StaysOwed
<1> QED
  BY <1>1, <1>3, <1>4, SchedStutters

(* A step in which only the conds and the tasklets' mutexes change.        *)
LEMMA SchedIdle ==
    ASSUME QInv, QInv', QueuesKept,
           UNCHANGED <<current, currentState, life, pc, call, mine>>
    PROVE  SchedStep
<1>1. Abstracted /\ Abstracted' /\ UNCHANGED Gone
  BY QInvAbstracts, QInvAbstractsNext DEF Gone
<1>2. ASSUME NEW x \in RunQ, NEW u \in Tasklet
      PROVE  (Owes(x, u)' <=> Owes(x, u)) /\ (Serves(x, u)' <=> Serves(x, u))
  BY DEF QueuesKept, Owes, Serves, Handling, InHandler
<1> QED
  BY <1>1, <1>2, SchedStutters

LEMMA SchedWorker ==
    ASSUME QInv, QInv', NEW r \in RunQ, Enter(r) \/ WorkerStep(r)
    PROVE  SchedStep
<1> USE DEF QInv, SInv, HInv
<1>1. pc \in [Thread -> Label]
  BY DEF Typed, ThreadsOK
<1>2. CASE Enter(r)
  BY <1>2, QPartsEnter, SchedTake DEF Enter
<1>3. CASE Sleep(r)
  <2>1. Goto(r, "asleep") /\ pc[r] = "out" /\ UNCHANGED <<current, currentState, life, call, mine>>
    BY <1>3 DEF Sleep
  <2>2. QueuesKept
    BY <1>3, QPartsSleep
  <2>3. ~Handling(r) /\ ~Handling(r)'
    BY <1>1, <2>1, Labels DEF Handling, InHandler, Goto
  <2> QED
    BY <1>1, <2>1, <2>2, <2>3, SchedWorkerMoves
<1>4. CASE Wake(r)
  <2>1. CASE TakeHead(r) /\ UNCHANGED <<life, call>>
    BY <1>4, <2>1, QPartsWake, SchedTake DEF Wake, TakeHead
  <2>2. CASE head[r] = NoTasklet /\ UNCHANGED <<links, state, life, owner, pc, call, mine>>
    <3>1. QueuesKept
      BY <1>4, <2>2, QPartsWake, ConstantsAssumption DEF Queued
    <3> QED
      BY <2>2, <3>1, SchedIdle DEF state
  <2> QED
    BY <1>4, <2>1, <2>2 DEF Wake
<1>5. CASE Vetoed(r)
  <2>1. /\ pc[r] = "vetoed" /\ UNCHANGED <<current, life, call, mine>>
    BY <1>5 DEF Vetoed
  <2>2. PICK l \in {"next", "transfer"} :
            /\ Goto(r, l)
            /\ l = "next" => currentState[r] = "stopped"
            /\ l = "transfer" => currentState[r] # "stopped" /\ currentState'[r] = "started"
    BY <1>5 DEF Vetoed, Typed, SharedOK
  <2>3. \A x \in RunQ \ {r} : currentState'[x] = currentState[x]
    BY <1>5 DEF Vetoed, Typed, SharedOK
  <2>4. QueuesKept
    BY <1>5, QPartsVetoed
  <2>5. ~Handling(r) /\ ~Handling(r)'
    BY <1>1, <2>1, <2>2, Labels DEF Handling, InHandler, Goto
  <2> QED
    BY <1>1, <2>1, <2>2, <2>3, <2>4, <2>5, SchedWorkerMoves
<1>6. CASE NextTasklet(r)
  <2>1. pc[r] = "next" /\ UNCHANGED <<life, call>>
    BY <1>6 DEF NextTasklet
  <2>2. CASE TakeHead(r)
    BY <1>6, <2>1, <2>2, QPartsNextTasklet, SchedTake DEF TakeHead
  <2>3. CASE /\ head[r] = NoTasklet
             /\ current' = [current EXCEPT ![r] = NoTasklet]
             /\ mine' = [mine EXCEPT ![r] = NoTasklet]
             /\ Goto(r, "out")
             /\ UNCHANGED <<links, currentState>>
    <3>1. QueuesKept
      BY <1>6, <2>3, QPartsNextTasklet, ConstantsAssumption DEF Queued
    <3>2. ~Handling(r) /\ ~Handling(r)'
      BY <1>1, <2>1, <2>3, Labels DEF Handling, InHandler, Goto
    <3>3. \A x \in RunQ \ {r} : current'[x] = current[x] /\ mine'[x] = mine[x]
      BY <2>3 DEF Typed, SharedOK, ThreadsOK
    <3> QED
      BY <1>1, <2>1, <2>3, <3>1, <3>2, <3>3, SchedWorkerMoves
  <2> QED
    BY <1>6, <2>2, <2>3 DEF NextTasklet
<1> QED
  BY <1>2, <1>3, <1>4, <1>5, <1>6 DEF WorkerStep

(* mutex_transfer gets the mutex and the handler starts: the tasklet is    *)
(* owed, since one who stopped it would still hold the mutex.              *)
LEMMA SchedTransfer ==
    ASSUME QInv, QInv', NEW r \in RunQ, Transfer(r)
    PROVE  SchedStep
<1> USE DEF QInv, SInv, HInv
<1>1. Abstracted /\ Abstracted' /\ QueuesKept
  BY QInvAbstracts, QInvAbstractsNext, QPartsTransfer
<1>2. PICK t \in Tasklet :
          /\ t = mine[r] /\ pc[r] = "transfer" /\ owner[MutexOf[t]] = NoThread
          /\ Goto(r, "body")
          /\ UNCHANGED <<current, currentState, life, call, mine>>
  <2>1. mine[r] \in Tasklet
    BY Labels DEF Transfer, Typed, ThreadsOK, Busy
  <2> QED
    BY <2>1 DEF Transfer, state
<1>3. /\ pc'[r] = "body" /\ \A x \in Thread \ {r} : pc'[x] = pc[x]
      /\ current[r] = t /\ call[r] = NoCall
  <2>1. pc \in [Thread -> Label] /\ CallFits(pc[r], call[r])
    BY Labels DEF Typed, ThreadsOK
  <2>2. call[r] = NoCall
    BY <1>2, <2>1 DEF CallFits
  <2>3. current[r] = t
    BY <1>2 DEF AllHandlersOK, HandlerOK
  <2> QED
    BY <1>2, <2>1, <2>2, <2>3, Labels DEF Goto
<1>4. Handling(r)' /\ ~Handling(r)
  BY <1>2, <1>3, Labels DEF Handling, InHandler
<1>5. ASSUME NEW x \in RunQ, NEW u \in Tasklet, x # r \/ u # t
      PROVE  (Owes(x, u)' <=> Owes(x, u)) /\ (Serves(x, u)' <=> Serves(x, u))
  <2>1. Queued(x)' = Queued(x)
    BY <1>1 DEF QueuesKept
  <2>2. CASE x = r
    BY <1>2, <1>5, <2>1, <2>2, StaysOwed
  <2>3. CASE x # r
    <3>1. pc'[x] = pc[x] /\ call'[x] = call[x]
      BY <1>2, <1>3, <2>3, Labels
    <3>2. Handling(x)' <=> Handling(x)
      BY <1>2, <3>1 DEF Handling, InHandler
    <3> QED
      BY <1>2, <2>1, <3>1, <3>2, StaysOwed
  <2> QED
    BY <2>2, <2>3
<1>6. Others(t)
  BY <1>5 DEF Others
<1>7. currentState[r] # "stopped"
  <2>1. SUFFICES ASSUME currentState[r] = "stopped" PROVE FALSE
    OBVIOUS
  <2>2. Dropped(t) /\ life[t] # "dead"
    BY <1>2, <1>3, <2>1, ConstantsAssumption DEF QParts, CurrentOK
  <2>3. PICK x \in Thread : pc[x] = "wait" /\ call[x].t = t
    BY <2>2 DEF Dropped
  <2>4. Holds(x, t)
    BY <2>3, Waiters
  <2> QED
    BY <1>2, <2>4, NotNobody DEF Holds
<1>8. Owes(r, t) /\ Serves(r, t)'
  BY <1>2, <1>4, <1>7 DEF Owes, Serves
<1>9. \A u \in Running : MutexOf[u] # MutexOf[t]
  BY <1>1, <1>2, NotNobody, Labels DEF Abstracted, Holds
<1>10. OthersSame(t) /\ t \in Pending /\ t \in Running'
  BY <1>1, <1>6, <1>8, OthersAbstract
<1>11. Running' = Running \cup {t} /\ Pending' \in {Pending, Pending \ {t}}
  <2>1. CASE t \in Pending'
    BY <1>10, <2>1 DEF OthersSame
  <2>2. CASE t \notin Pending'
    BY <1>10, <2>2 DEF OthersSame
  <2> QED
    BY <2>1, <2>2
<1>12. UNCHANGED Gone
  BY <1>2 DEF Gone
<1> QED
  BY <1>9, <1>10, <1>11, <1>12 DEF SchedStep, Sched!Next, Sched!Start

(* The handler returns; what it asked for itself goes to the queue.        *)
LEMMA SchedReturn ==
    ASSUME QInv, QInv', NEW r \in RunQ, ReturnIdle(r) \/ ReturnRequeue(r)
    PROVE  SchedStep
<1> USE DEF QInv, SInv, HInv
<1>1. Abstracted /\ Abstracted'
  BY QInvAbstracts, QInvAbstractsNext
<1>2. PICK t \in Tasklet :
          /\ t = mine[r] /\ current[r] = t /\ HandlerReturn(r) /\ runq[t] = r
          /\ UNCHANGED <<current, currentState, life, call, mine>>
          /\ call[r] = NoCall /\ pc[r] = "body" /\ pc'[r] = "next"
          /\ \A x \in Thread \ {r} : pc'[x] = pc[x]
  <2>1. /\ HandlerReturn(r) /\ current[r] = mine[r]
        /\ UNCHANGED <<current, currentState, life, call, mine>>
    BY DEF ReturnIdle, ReturnRequeue, state
  <2> QED
    BY <2>1, HandlerEnds
<1>3. Handling(r) /\ ~Handling(r)'
  BY <1>2, Labels DEF Handling, InHandler
<1>4. /\ \A x \in RunQ \ {r} : Queued(x)' = Queued(x)
      /\ Queued(r)' = IF currentState[r] = "requeue"
                      THEN Queued(r) \cup {t} ELSE Queued(r)
  <2>1. CASE ReturnIdle(r)
    BY <2>1, QPartsReturnIdle DEF ReturnIdle, QueuesKept
  <2>2. CASE ReturnRequeue(r)
    <3>1. currentState[r] = "requeue"
      BY <2>2 DEF ReturnRequeue
    <3> QED
      BY <1>2, <2>2, <3>1, QPartsReturnRequeue
  <2> QED
    BY <2>1, <2>2
<1>5. ASSUME NEW x \in RunQ, NEW u \in Tasklet, x # r \/ u # t
      PROVE  (Owes(x, u)' <=> Owes(x, u)) /\ (Serves(x, u)' <=> Serves(x, u))
  <2>1. u \in Queued(x)' <=> u \in Queued(x)
    BY <1>4, <1>5
  <2>2. CASE x = r
    BY <1>2, <1>5, <2>1, <2>2, StaysOwed
  <2>3. CASE x # r
    <3>1. pc'[x] = pc[x] /\ call'[x] = call[x]
      BY <1>2, <2>3, Labels
    <3>2. Handling(x)' <=> Handling(x)
      BY <1>2, <3>1 DEF Handling, InHandler
    <3> QED
      BY <1>2, <2>1, <3>1, <3>2, StaysOwed
  <2> QED
    BY <2>2, <2>3
<1>6. Others(t)
  BY <1>5 DEF Others
<1>7. t \notin Queued(r)
  BY <1>2 DEF Queued
<1>8. Owes(r, t)' <=> Owes(r, t)
  <2>1. Owes(r, t) <=> currentState[r] = "requeue"
    BY <1>2, <1>3, <1>7 DEF Owes
  <2>2. Owes(r, t)' <=> currentState[r] = "requeue"
    BY <1>2, <1>3, <1>4, <1>7 DEF Owes
  <2> QED
    BY <2>1, <2>2
<1>9. \A x \in RunQ : Owes(x, t)' <=> Owes(x, t)
  BY <1>5, <1>8
<1>10. Serves(r, t) /\ ~Serves(r, t)'
  BY <1>2, <1>3 DEF Serves
<1>11. \A x \in RunQ : ~Serves(x, t)'
  BY <1>1, <1>2, <1>5, <1>10 DEF Abstracted
<1>12. OthersSame(t) /\ (t \in Pending' <=> t \in Pending)
       /\ t \in Running /\ t \notin Running'
  BY <1>1, <1>6, <1>9, <1>10, <1>11, OthersAbstract
<1>13. Pending' = Pending /\ Running' = Running \ {t}
  BY <1>12 DEF OthersSame
<1>14. UNCHANGED Gone
  BY <1>2 DEF Gone
<1> QED
  BY <1>12, <1>13, <1>14 DEF SchedStep, Sched!Next, Sched!Finish

(* The handler has finalized its own tasklet.                              *)
LEMMA SchedReturnDestroyed ==
    ASSUME QInv, QInv', NEW r \in RunQ, ReturnDestroyed(r)
    PROVE  SchedStep
<1>1. /\ UNCHANGED <<current, currentState, life, call, mine>>
      /\ pc[r] = "body" /\ Goto(r, "next") /\ current[r] # mine[r]
  BY DEF ReturnDestroyed, HandlerReturn, state
<1>2. pc \in [Thread -> Label]
  BY DEF QInv, SInv, HInv, Typed, ThreadsOK
<1>3. ~Handling(r) /\ ~Handling(r)'
  BY <1>1 DEF Handling
<1>4. QueuesKept
  BY QPartsTransfer
<1> QED
  BY <1>1, <1>2, <1>3, <1>4, SchedWorkerMoves

LEMMA SchedNext == ~ForeignStop /\ QInv /\ QInv' /\ [Next]_vars => SchedStep
<1> SUFFICES ASSUME ~ForeignStop, QInv, QInv', [Next]_vars PROVE SchedStep
  OBVIOUS
<1>1. ASSUME NEW th \in Thread, RunStep(th) PROVE SchedStep
  BY <1>1, SchedRunQuiet, SchedRunMark, SchedRunEnqueue DEF RunStep, RunDone
<1>2. ASSUME NEW th \in Thread, StopStep(th) PROVE SchedStep
  BY <1>2, SchedStopRead, SchedStopQueued, SchedStopOwn, SchedStopForeign,
     SchedStopWaited DEF StopStep
<1>3. ASSUME NEW r \in RunQ, ReturnStep(r) PROVE SchedStep
  BY <1>3, SchedReturn, SchedReturnDestroyed DEF ReturnStep
<1>4. ASSUME NEW r \in RunQ, SpuriousWakeup(r) PROVE SchedStep
  <2>1. QueuesKept
    BY <1>4, QPartsSpurious
  <2> QED
    BY <1>4, <2>1, SchedIdle DEF SpuriousWakeup, state
<1>5. CASE UNCHANGED vars
  <2>1. UNCHANGED <<links, state, life, blocked, pc, call, mine>>
    BY <1>5 DEF vars
  <2>2. QueuesKept
    BY <2>1, QPartsKept
  <2> QED
    BY <2>1, <2>2, SchedIdle DEF state
<1> QED
  BY <1>1, <1>2, <1>3, <1>4, <1>5, SchedClient, SchedWorker, SchedTransfer DEF Next

LEMMA SchedInit == Init => Sched!Init
<1> SUFFICES ASSUME Init PROVE Sched!Init
  OBVIOUS
<1>1. \A r \in RunQ : Listed(r) = {}
  BY DEF Init, Listed
<1>2. \A r \in RunQ : pc[r] = "out"
  BY Labels DEF Init
<1>3. Pending = {} /\ Running = {}
  BY <1>1, <1>2 DEF Pending, Running, Handling, InHandler
<1>4. Gone = {}
  BY DEF Init, Gone
<1> QED
  BY <1>3, <1>4 DEF Sched!Init

(* Whatever the threads do, each step of the run queues is a step of the   *)
(* tasklets as include/molerat/tasklet.h presents them, or none: no        *)
(* tasklet_run is lost, no handler starts that was not asked for, and no   *)
(* finalized tasklet is run.                                               *)
THEOREM SchedulesTasklets == ASSUME ~ForeignStop PROVE Spec => ImplementsSched
<1>1. QInv /\ QInv' /\ [Next]_vars => [Sched!Next]_(Sched!vars)
  BY SchedNext DEF SchedStep, Sched!vars
<1> QED
  BY <1>1, SchedInit, QInvAlways, PTL DEF Spec, ImplementsSched, Sched!Spec

-----------------------------------------------------------------------------
(* A thread leaves tasklet_run by RunEnqueue or RunMark only.              *)
LEMMA RunCallEnds ==
    ASSUME QInv, NEW th \in Thread, [Next]_vars,
           call[th].op = "run", call'[th].op = "none"
    PROVE  RunDone(th)
<1>1. call \in [Thread -> Call] /\ pc[th] \in {"read", "lock"}
  BY InCall DEF QInv, QParts, StopOK, SInv, HInv, Typed, ThreadsOK
<1>2. ASSUME NEW x \in Thread, ClientStep(x) PROVE call'[th] = call[th]
  <2>1. CASE UNCHANGED call
    BY <2>1
  <2>2. CASE \E t \in Tasklet, op \in {"run", "stop", "fini"} :
                Begin(x, op, t) /\ pc[x] \in {"body", "out"}
    BY <1>1, <2>2 DEF Begin
  <2> QED
    BY <1>2, <2>1, <2>2
       DEF ClientStep, Lock, Unlock, CallRun, CallStop, CallFini, TaskletInit
<1>3. ASSUME NEW x \in Thread, RunStep(x) PROVE call'[th].op = "run" \/ RunDone(th)
  <2>1. CASE RunRead(x)
    BY <1>1, <2>1 DEF RunRead, Call
  <2>2. CASE RunRetry(x)
    BY <2>2 DEF RunRetry
  <2>3. CASE RunDone(x)
    <3>1. Return(x)
      BY <2>3 DEF RunDone, RunEnqueue, RunMark
    <3>2. x # th => call'[th] = call[th]
      BY <1>1, <3>1 DEF Return
    <3> QED
      BY <2>3, <3>2
  <2> QED
    BY <1>3, <2>1, <2>2, <2>3 DEF RunStep
<1>4. ASSUME NEW x \in Thread, StopStep(x) PROVE call'[th] = call[th]
  <2>1. x # th
    BY <1>1, <1>4 DEF StopStep, StopRead, StopQueued, StopOwn, StopForeign,
                      StopLocks, StopWaited
  <2>2. \/ UNCHANGED call
        \/ Return(x)
        \/ \E r : call' = [call EXCEPT ![x].rq = r]
    BY <1>4 DEF StopStep, StopRead, StopQueued, StopOwn, StopForeign, StopWaited,
                ReturnQuiet
  <2> QED
    BY <1>1, <2>1, <2>2 DEF Return
<1>5. ASSUME NEW r \in RunQ,
             \/ Enter(r) \/ WorkerStep(r) \/ Transfer(r) \/ ReturnStep(r)
             \/ SpuriousWakeup(r)
      PROVE  call' = call
  BY <1>5 DEF Enter, WorkerStep, Sleep, Wake, Vetoed, NextTasklet, Transfer,
              ReturnStep, ReturnDestroyed, ReturnIdle, ReturnRequeue, SpuriousWakeup
<1>6. CASE UNCHANGED vars
  BY <1>6 DEF vars
<1> QED
  BY <1>2, <1>3, <1>4, <1>5, <1>6 DEF Next

(* When tasklet_run returns the tasklet is pending, whether the call has   *)
(* queued it, found it queued, or marked it to be requeued by a worker     *)
(* that is busy with it: what was read without the run queue's mutex has   *)
(* been checked again.                                                     *)
THEOREM RunIsNotLost == ASSUME ~ForeignStop PROVE Spec => RunTakesEffect
<1>1. QInv /\ QInv' /\ [Next]_vars =>
         [\A th \in Thread : call[th].op = "run" /\ call'[th].op = "none" =>
             call[th].t \in Pending']_vars
  BY RunCallEnds, SchedRunMark, SchedRunEnqueue DEF RunDone
<1> QED
  BY <1>1, QInvAlways, PTL DEF Spec, RunTakesEffect
=============================================================================
