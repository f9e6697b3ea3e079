---------------------------- MODULE TimerService ----------------------------
(***************************************************************************)
(* What timer.h promises: a timer that is set fires once, not before its   *)
(* window of time begins, and not after it has been cancelled.             *)
(***************************************************************************)
EXTENDS Naturals

CONSTANTS
    Timer,
    Window      \* the pairs of earliest and latest that timers are set to

VARIABLES
    status,     \* of each timer: "none", "idle", "armed" or "fired"
    window,     \* of each timer that is armed
    now

vars == <<status, window, now>>

Init ==
    /\ status = [t \in Timer |-> "none"]
    /\ window \in [Timer -> Window]
    /\ now = 0

Become(t, s) == status' = [status EXCEPT ![t] = s]

Create(t) ==
    /\ status[t] = "none"
    /\ Become(t, "idle")
    /\ UNCHANGED <<window, now>>

Set(t) ==
    /\ status[t] # "none"
    /\ Become(t, "armed")
    /\ \E w \in Window : window' = [window EXCEPT ![t] = w]
    /\ UNCHANGED now

Cancel(t) ==
    /\ status[t] # "none"
    /\ Become(t, "idle")
    /\ UNCHANGED <<window, now>>

Fire(t) ==
    /\ status[t] = "armed"
    /\ window[t].earliest <= now
    /\ Become(t, "fired")
    /\ UNCHANGED <<window, now>>

Finish(t) ==
    /\ status[t] # "none"
    /\ Become(t, "none")
    /\ UNCHANGED <<window, now>>

Tick ==
    /\ now' = now + 1
    /\ UNCHANGED <<status, window>>

Next ==
    \/ Tick
    \/ \E t \in Timer : Create(t) \/ Set(t) \/ Cancel(t) \/ Fire(t) \/ Finish(t)

Spec == Init /\ [][Next]_vars
=============================================================================
