----------------------------- MODULE HttpServer -----------------------------
(***************************************************************************)
(* The HTTP server, src/http_server.c, with an application that answers    *)
(* its exchanges as src/http_server_main.c does: the connections, their    *)
(* timeouts, and the destruction of the server while all of them go on.    *)
(*                                                                         *)
(* holder is who has a connection's mutex: its tasklet, its timeout's, the *)
(* exchange or http_server_destroy.  What they do with it, other than      *)
(* connection_destroy_locked, is one step.  An exchange uses the reader    *)
(* and the writer of its connection without that mutex.                    *)
(***************************************************************************)
EXTENDS Integers, Sequences, FiniteSets, SequencesExt

CONSTANTS Conn, NoConn

ASSUME ConnAssumption == NoConn \notin Conn

VARIABLES
    serverMutex,    \* hs->mutex: "free" or "destroyer"; the others take it for a step
    accepting,      \* hs->tasklet accepts
    connections,    \* hs->connections
    index,          \* conn->index
    life,           \* of each connection: "none", "live", "freed"
    holder,         \* conn->mutex
    stage,          \* how far connection_destroy_locked is
    timer,          \* conn->timeout: "off", "set", "fired"
    timeoutQueued,  \* conn->timeout_tasklet is to be run
    exchange,       \* the exchange the application has in hand
    destroyer,      \* where http_server_destroy is
    victim          \* the connection it wants

serverVars == <<serverMutex, accepting, connections, index, life, holder, stage, timer,
                timeoutQueued, exchange, destroyer, victim>>

HttpServerInit ==
    /\ serverMutex = "free" /\ accepting = TRUE
    /\ connections = << >> /\ index = [c \in Conn |-> 0]
    /\ life = [c \in Conn |-> "none"]
    /\ holder = [c \in Conn |-> "free"] /\ stage = [c \in Conn |-> "no"]
    /\ timer = [c \in Conn |-> "off"] /\ timeoutQueued = [c \in Conn |-> FALSE]
    /\ exchange = [c \in Conn |-> "none"]
    /\ destroyer = "no" /\ victim = NoConn

Free(c) == life[c] = "live" /\ holder[c] = "free"

(* http_server_accept: connection_create and add_connection *)
AcceptConnection(c) ==
    /\ accepting /\ serverMutex = "free"
    /\ life[c] = "none"
    /\ life' = [life EXCEPT ![c] = "live"]
    /\ timer' = [timer EXCEPT ![c] = "set"]
    /\ timeoutQueued' = [timeoutQueued EXCEPT ![c] = TRUE]
    /\ connections' = Append(connections, c)
    /\ index' = [index EXCEPT ![c] = Len(connections) + 1]
    /\ UNCHANGED <<serverMutex, accepting, holder, stage, exchange, destroyer, victim>>

BeginDestroying(c, who) ==
    /\ holder' = [holder EXCEPT ![c] = who]
    /\ stage' = [stage EXCEPT ![c] = "remove"]

(* connection_read_prebody.  The application is given the exchange with    *)
(* the timer cancelled and the connection's tasklet stopped.  tm is what   *)
(* the timer is if there was no progress.                                  *)
ReadPrebody(c, who, exch, tm) ==
    \/ /\ timer' = [timer EXCEPT ![c] = "set"]              \* progress, so far
       /\ exchange' = exch
       /\ UNCHANGED <<holder, stage>>
    \/ /\ timer' = [timer EXCEPT ![c] = "off"]              \* done
       /\ exchange' = [exch EXCEPT ![c] = "body"]
       /\ UNCHANGED <<holder, stage>>
    \/ /\ BeginDestroying(c, who)                           \* closed, or an error
       /\ exchange' = exch
       /\ timer' = tm

ConnectionRuns(c) ==
    /\ Free(c) /\ exchange[c] = "none"
    /\ ReadPrebody(c, "tasklet", exchange, timer)
    /\ UNCHANGED <<life, timeoutQueued>>

-----------------------------------------------------------------------------
(* The exchange: do_exchange, write_body and finish_write, any of which    *)
(* fails, and http_server_exchange_done. *)

ExchangeGoesOn(c) ==
    /\ life[c] = "live"
    /\ exchange[c] \in {"body", "write"}
    /\ \E next \in {IF exchange[c] = "body" THEN "write" ELSE "done", "failed"} :
          exchange' = [exchange EXCEPT ![c] = next]
    /\ UNCHANGED <<life, holder, stage, timer, timeoutQueued>>

ExchangeDone(c) ==
    /\ Free(c) /\ exchange[c] \in {"done", "failed"}
    /\ LET over == [exchange EXCEPT ![c] = "none"] IN
       IF exchange[c] = "done"
       THEN ReadPrebody(c, "exchange", over, [timer EXCEPT ![c] = "set"])
       ELSE /\ BeginDestroying(c, "exchange")
            /\ exchange' = over
            /\ UNCHANGED timer
    /\ UNCHANGED <<life, timeoutQueued>>

-----------------------------------------------------------------------------
(* The timeout: dispatch_timers runs the tasklet, which waits for the      *)
(* timer again if it was set or cancelled meanwhile. *)

TimerFires(c) ==
    /\ timer[c] = "set"
    /\ timer' = [timer EXCEPT ![c] = "fired"]
    /\ timeoutQueued' = [timeoutQueued EXCEPT ![c] = TRUE]
    /\ UNCHANGED <<life, holder, stage, exchange>>

TimeoutRuns(c) ==
    /\ Free(c) /\ timeoutQueued[c]
    /\ timeoutQueued' = [timeoutQueued EXCEPT ![c] = FALSE]
    /\ IF timer[c] = "fired" THEN BeginDestroying(c, "timeout") ELSE UNCHANGED <<holder, stage>>
    /\ UNCHANGED <<life, timer, exchange>>

-----------------------------------------------------------------------------
(* connection_destroy_locked, by whoever holds the mutex *)

(* Seeded defect: the one that is moved keeps its index. *)
RemoveConnectionOnly(c) ==
    /\ stage[c] = "remove" /\ serverMutex = "free"
    /\ connections' = Front([connections EXCEPT ![index[c]] = Last(connections)])
    /\ stage' = [stage EXCEPT ![c] = "fini"]
    /\ UNCHANGED <<serverMutex, accepting, index, life, holder, timer, timeoutQueued, exchange,
                   destroyer, victim>>

(* remove_connection: the last one takes its place. *)
RemoveConnection(c) ==
    /\ stage[c] = "remove" /\ serverMutex = "free"
    /\ LET moved == Last(connections) IN
       /\ connections' = Front([connections EXCEPT ![index[c]] = moved])
       /\ index' = [index EXCEPT ![moved] = index[c]]
    /\ stage' = [stage EXCEPT ![c] = "fini"]
    /\ UNCHANGED <<serverMutex, accepting, life, holder, timer, timeoutQueued, exchange,
                   destroyer, victim>>

(* Seeded defect: the transfer is not vetoed. *)
FreeConnectionUnvetoed(c) ==
    /\ stage[c] = "fini"
    /\ stage' = [stage EXCEPT ![c] = "no"]
    /\ life' = [life EXCEPT ![c] = "freed"]
    /\ holder' = [holder EXCEPT ![c] = "free"]
    /\ timer' = [timer EXCEPT ![c] = "off"]
    /\ timeoutQueued' = [timeoutQueued EXCEPT ![c] = FALSE]
    /\ UNCHANGED <<serverMutex, accepting, connections, index, exchange, victim, destroyer>>

(* Whoever waits in mutex_transfer for the connection is turned away, the  *)
(* tasklets and the timer are finished, and the memory is freed.           *)
FreeConnection(c) ==
    /\ stage[c] = "fini"
    /\ stage' = [stage EXCEPT ![c] = "no"]
    /\ life' = [life EXCEPT ![c] = "freed"]
    /\ holder' = [holder EXCEPT ![c] = "free"]
    /\ timer' = [timer EXCEPT ![c] = "off"]
    /\ timeoutQueued' = [timeoutQueued EXCEPT ![c] = FALSE]
    /\ destroyer' = IF destroyer = "transfer" /\ victim = c THEN "vetoed" ELSE destroyer
    /\ UNCHANGED <<serverMutex, accepting, connections, index, exchange, victim>>

-----------------------------------------------------------------------------
(* http_server_destroy *)

DestroyHttpServer ==
    /\ destroyer = "no" /\ serverMutex = "free"
    /\ serverMutex' = "destroyer"
    /\ accepting' = FALSE
    /\ destroyer' = "loop"
    /\ UNCHANGED <<holder, stage, victim>>

(* Its loop, up to mutex_transfer, which gives the server's mutex away     *)
(* while it waits for the connection's.                                    *)
NextVictim ==
    /\ destroyer = "loop"
    /\ serverMutex' = "free"
    /\ IF connections = << >>
       THEN destroyer' = "gone" /\ UNCHANGED victim
       ELSE destroyer' = "transfer" /\ victim' = connections[1]
    /\ UNCHANGED <<accepting, holder, stage>>

Transferred ==
    /\ destroyer = "transfer" /\ Free(victim)
    /\ BeginDestroying(victim, "destroyer")
    /\ destroyer' = "destroying"
    /\ UNCHANGED <<serverMutex, accepting, victim>>

BackToServer ==
    /\ \/ destroyer = "vetoed"
       \/ destroyer = "destroying" /\ life[victim] = "freed"
    /\ serverMutex = "free"
    /\ serverMutex' = "destroyer"
    /\ destroyer' = "loop"
    /\ UNCHANGED <<accepting, holder, stage, victim>>

Destroyer ==
    /\ NextVictim \/ Transferred \/ BackToServer
    /\ UNCHANGED <<connections, index, life, timer, timeoutQueued, exchange>>

ConnectionStep(c) ==
    /\ ConnectionRuns(c) \/ ExchangeGoesOn(c) \/ ExchangeDone(c) \/ TimerFires(c) \/ TimeoutRuns(c)
    /\ UNCHANGED <<serverMutex, accepting, connections, index, destroyer, victim>>

Teardown(c) == RemoveConnection(c) \/ FreeConnection(c)

HttpServerNext ==
    \/ \E c \in Conn : AcceptConnection(c) \/ ConnectionStep(c) \/ Teardown(c)
    \/ DestroyHttpServer /\ UNCHANGED <<connections, index, life, timer, timeoutQueued, exchange>>
    \/ Destroyer

-----------------------------------------------------------------------------
(* The array holds each connection that lives, at its index, until         *)
(* remove_connection; who waits for one in mutex_transfer does not wait    *)
(* for one that was freed; and a connection is not freed under an exchange *)
(* by its timeout or another's answer, but only with the server.           *)
ConnectionsSound ==
    /\ \A n \in DOMAIN connections : index[connections[n]] = n
    /\ \A c \in Conn : life[c] = "live" /\ stage[c] # "fini" <=> c \in Range(connections)
    /\ destroyer = "transfer" => life[victim] = "live"
    /\ \A c \in Conn : exchange[c] # "none" /\ destroyer = "no"
          => life[c] = "live" /\ stage[c] = "no"

(* http_server_destroy returns, and then no connection is left.            *)
DestroyReturns == destroyer # "no" ~> destroyer = "gone" /\ \A c \in Conn : life[c] # "live"
=============================================================================
