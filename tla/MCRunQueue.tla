---------------------------- MODULE MCRunQueue ----------------------------
(* A default worker, a poll thread, with their run queues, and a client    *)
(* thread.  Tasklets ta and tb share the mutex mu, as the two tasklets of  *)
(* an HTTP connection do; tasklet td has a mutex of its own.               *)
EXTENDS RunQueueSched, TLC

CONSTANTS worker, poller, client, ta, tb, td, mu, nu

MCMutexOf == [t \in Tasklet |-> IF t = td THEN nu ELSE mu]

(* Threads enqueue on the default run queue, the poll thread on its own.   *)
MCTarget ==
    [th \in Thread |-> IF poller \in RunQ /\ th = poller THEN poller ELSE worker]
=============================================================================
