---------------------------- MODULE RunQueueSched ----------------------------
(***************************************************************************)
(* The run queues implement TaskletSched: which tasklets are pending and   *)
(* which are running, read off the pointers and flags of the run queues.   *)
(***************************************************************************)
EXTENDS RunQueue

(* The tasklets on the list of run queue r: those that run_queue_run comes *)
(* to when it follows the links from the head.                             *)
Listed(r) ==
    IF head[r] = NoTasklet THEN {}
    ELSE {t \in Tasklet :
             \A S \in SUBSET Tasklet :
                head[r] \in S /\ (\A u \in S : next[u] \in S) => t \in S}

Handling(r) == InHandler(r) /\ current[r] = mine[r]

Pending ==
    (UNION {Listed(r) : r \in RunQ})
    \cup {mine[r] : r \in {q \in RunQ : /\ pc[q] \in {"transfer", "vetoed"}
                                        /\ currentState[q] # "stopped"}}
    \cup {mine[r] : r \in {q \in RunQ : /\ Handling(q)
                                        /\ currentState[q] = "requeue"}}

Running == {mine[r] : r \in {q \in RunQ : Handling(q)}}

Gone == {t \in Tasklet : life[t] = "dead"}

Sched == INSTANCE TaskletSched
            WITH pending <- Pending, running <- Running, gone <- Gone

(* No tasklet_run is lost, whatever it races with, and no handler runs     *)
(* that was not asked for: tasklet_run on an idle, queued, current or      *)
(* vetoed tasklet, against the worker that is done with it, and against    *)
(* tasklet_stop and tasklet_fini.                                          *)
ImplementsSched == Sched!Spec

(* When tasklet_run returns the tasklet is pending: the caller can count   *)
(* on its handler being run after the call.                                *)
RunTakesEffect ==
    [][\A th \in Thread : call[th].op = "run" /\ call'[th].op = "none" =>
          call[th].t \in Pending']_vars

(* A tasklet to be run is run, or stopped.                                 *)
PendingRuns ==
    \A t \in Tasklet : t \in Pending ~> (t \in Running \/ t \notin Pending)

(* tasklet_stop and tasklet_fini return.                                   *)
StopReturns ==
    \A th \in Thread :
        (pc[th] # "body" /\ call[th].op \in {"stop", "fini"}) ~> pc[th] = "body"
=============================================================================
