---------------------------- MODULE TaskletSched ----------------------------
(***************************************************************************)
(* What include/molerat/tasklet.h promises of tasklets, whatever run queue *)
(* they are on: a tasklet that is told to run is remembered until its      *)
(* handler starts or it is stopped, no handler starts that was not asked   *)
(* for, the handlers of tasklets that share a mutex exclude each other,    *)
(* and a finalized tasklet is never run.                                   *)
(***************************************************************************)
CONSTANTS Tasklet, MutexOf

VARIABLES
    pending,    \* the tasklets to be run
    running,    \* the tasklets whose handlers are running
    gone        \* the finalized tasklets

vars == <<pending, running, gone>>

Init == pending = {} /\ running = {} /\ gone = {}

(* tasklet_run *)
Run(t) ==
    /\ t \notin gone
    /\ pending' = pending \cup {t}
    /\ UNCHANGED <<running, gone>>

(* The handler starts.  A tasklet_run that came before may have it run     *)
(* once more: calls are not counted, but none comes to nothing.            *)
Start(t) ==
    /\ t \in pending
    /\ \A u \in running : MutexOf[u] # MutexOf[t]
    /\ running' = running \cup {t}
    /\ pending' \in {pending, pending \ {t}}
    /\ UNCHANGED gone

(* The handler returns. *)
Finish(t) ==
    /\ t \in running
    /\ running' = running \ {t}
    /\ UNCHANGED <<pending, gone>>

(* tasklet_stop, or the first half of tasklet_fini. *)
Stop(t) ==
    /\ pending' = pending \ {t}
    /\ UNCHANGED <<running, gone>>

(* tasklet_fini returns.  A handler that finalizes its own tasklet goes on,*)
(* but it is no longer that tasklet's.                                     *)
Fini(t) ==
    /\ t \notin gone
    /\ pending' = pending \ {t}
    /\ running' = running \ {t}
    /\ gone' = gone \cup {t}

(* tasklet_init on the memory of a finalized tasklet. *)
Revive(t) ==
    /\ gone' = gone \ {t}
    /\ UNCHANGED <<pending, running>>

Next ==
    \E t \in Tasklet : \/ Run(t) \/ Start(t) \/ Finish(t)
                       \/ Stop(t) \/ Fini(t) \/ Revive(t)

Spec == Init /\ [][Next]_vars
=============================================================================
