----------------------------- MODULE Application -----------------------------
(***************************************************************************)
(* application_run and application_stop of src/application.c: the main     *)
(* thread runs several times, other threads stop it, before or after, and  *)
(* the user interrupts it.  Signals are blocked and wait for sigwait, one  *)
(* of each kind at most; a stop and the test for it exclude each other,    *)
(* sigwait is outside of the mutex.                                        *)
(***************************************************************************)
EXTENDS Integers

CONSTANTS MaxRuns, MaxInterrupts    \* bounds on runs and stops, and on interrupts

ASSUME RunsAssumption == MaxRuns \in Nat /\ MaxInterrupts \in Nat

VARIABLES
    appRuns,        \* app_runs
    appStops,       \* app_stops
    appRunning,     \* app_running
    theRun,         \* the local run of the main thread
    mainThread,     \* where it is: "out", "wait", "private", "int"
    signals,        \* the signals pending for it
    interrupts      \* how often it was interrupted

appVars == <<appRuns, appStops, appRunning, theRun, mainThread, signals, interrupts>>

AppInit ==
    /\ appRuns = 0 /\ appStops = 0 /\ appRunning = 0 /\ theRun = 0
    /\ mainThread = "out" /\ signals = {} /\ interrupts = 0

(* The first run of the loop, or another after a signal *)
Check(run, running) ==
    IF run >= appStops
    THEN mainThread' = "wait" /\ appRunning' = running
    ELSE mainThread' = "out" /\ appRunning' = running - 1

ApplicationRun ==
    /\ mainThread = "out" /\ appRuns < MaxRuns
    /\ theRun' = appRuns
    /\ appRuns' = appRuns + 1
    /\ Check(appRuns, appRunning + 1)
    /\ UNCHANGED <<appStops, signals, interrupts>>

Sigwait ==
    /\ mainThread = "wait"
    /\ \E sig \in signals : mainThread' = sig /\ signals' = signals \ {sig}
    /\ UNCHANGED <<appRuns, appStops, appRunning, theRun, interrupts>>

AfterSignal ==
    /\ \/ mainThread = "private" /\ Check(theRun, appRunning)
       \/ mainThread = "int" /\ mainThread' = "out" /\ appRunning' = appRunning - 1
    /\ UNCHANGED <<appRuns, appStops, theRun, signals, interrupts>>

ApplicationStop ==
    /\ appStops < MaxRuns
    /\ appStops' = appStops + 1
    /\ signals' = IF appRunning > 0 THEN signals \cup {"private"} ELSE signals
    /\ UNCHANGED <<appRuns, appRunning, theRun, mainThread, interrupts>>

Interrupt ==
    /\ interrupts < MaxInterrupts
    /\ interrupts' = interrupts + 1
    /\ signals' = signals \cup {"int"}
    /\ UNCHANGED <<appRuns, appStops, appRunning, theRun, mainThread>>

MainThread == Sigwait \/ AfterSignal
AppNext == ApplicationRun \/ MainThread \/ ApplicationStop \/ Interrupt

-----------------------------------------------------------------------------
(* The run with number n (from 0) returns once there were more than n      *)
(* stops, whenever they came: before it, while it was on its way to        *)
(* sigwait, or while it handled another signal.                            *)
StoppedRunReturns == mainThread # "out" /\ theRun < appStops ~> mainThread = "out"
=============================================================================
