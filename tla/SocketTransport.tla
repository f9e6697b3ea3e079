--------------------------- MODULE SocketTransport ---------------------------
(***************************************************************************)
(* The server of src/socket_transport.c: its tasklet accepts connections   *)
(* and gives up the mutex for each call of the user's handler, while       *)
(* another thread destroys the server.  The accepting itself is in         *)
(* ServerSocket; here the tasklet is run when a connection comes.          *)
(***************************************************************************)
EXTENDS Integers

CONSTANT MaxMessages            \* bound on the connections

ASSUME MessagesAssumption == MaxMessages \in Nat

VARIABLES
    sMutex,             \* s->mutex: "free", "acceptor" or "destroyer"
    callingHandler,     \* s->calling_handler
    waitingForHandlers, \* s->waiting_for_handlers_done
    incoming,           \* connections to be accepted
    messages,           \* connections made
    acceptor,           \* where the tasklet is
    acceptorQueued,     \* it is to be run
    ssDestroy           \* where ss_destroy is

transportVars == <<sMutex, callingHandler, waitingForHandlers, incoming, messages, acceptor,
                   acceptorQueued, ssDestroy>>

TransportInit ==
    /\ sMutex = "free" /\ callingHandler = 0 /\ waitingForHandlers = 0
    /\ incoming = 0 /\ messages = 0
    /\ acceptor = "idle" /\ acceptorQueued = TRUE
    /\ ssDestroy = "no"

Connection ==
    /\ messages < MaxMessages /\ ssDestroy # "gone"
    /\ messages' = messages + 1 /\ incoming' = incoming + 1
    /\ acceptorQueued' = (acceptorQueued \/ acceptor # "stopped")
    /\ UNCHANGED <<sMutex, callingHandler, waitingForHandlers, acceptor, ssDestroy>>

(* ss_accept *)
AcceptBegins ==
    /\ acceptor = "idle" /\ acceptorQueued /\ sMutex = "free"
    /\ sMutex' = "acceptor"
    /\ acceptorQueued' = FALSE
    /\ callingHandler' = callingHandler + 1
    /\ acceptor' = "accept"
    /\ UNCHANGED <<waitingForHandlers, incoming, messages, ssDestroy>>

CallHandler ==
    /\ acceptor = "accept" /\ incoming > 0
    /\ incoming' = incoming - 1
    /\ sMutex' = "free"
    /\ acceptor' = "handler"
    /\ UNCHANGED <<callingHandler, waitingForHandlers, messages, acceptorQueued, ssDestroy>>

HandlerReturns ==
    /\ acceptor = "handler" /\ sMutex = "free"
    /\ sMutex' = "acceptor"
    /\ acceptor' = "accept"
    /\ UNCHANGED <<callingHandler, waitingForHandlers, incoming, messages, acceptorQueued, ssDestroy>>

(* It waits for the next connection, or stops for an error. *)
AcceptEnds ==
    /\ acceptor = "accept"
    /\ callingHandler' = callingHandler - 1
    /\ ssDestroy' = IF callingHandler' = 0 /\ waitingForHandlers > 0 /\ ssDestroy = "blocked"
                    THEN "woken" ELSE ssDestroy
    /\ \/ incoming = 0 /\ acceptor' = "idle" /\ UNCHANGED acceptorQueued
       \/ acceptor' = "stopped" /\ acceptorQueued' = FALSE
    /\ sMutex' = "free"
    /\ UNCHANGED <<waitingForHandlers, incoming, messages>>

Accepting == AcceptBegins \/ CallHandler \/ HandlerReturns \/ AcceptEnds

(* ss_destroy; cond_wait may end for no reason. *)
DestroyTransport ==
    /\ ssDestroy = "no" /\ sMutex = "free"
    /\ IF callingHandler > 0
       THEN /\ waitingForHandlers' = waitingForHandlers + 1
            /\ ssDestroy' = "blocked"
            /\ UNCHANGED sMutex
       ELSE /\ ssDestroy' = "fini" /\ sMutex' = "destroyer"
            /\ UNCHANGED waitingForHandlers
    /\ UNCHANGED <<callingHandler, incoming, messages, acceptor, acceptorQueued>>

SpuriousWake ==
    /\ ssDestroy = "blocked" /\ ssDestroy' = "woken"
    /\ UNCHANGED <<sMutex, callingHandler, waitingForHandlers, incoming, messages, acceptor,
                   acceptorQueued>>

WaitOver ==
    /\ ssDestroy = "woken" /\ sMutex = "free"
    /\ IF callingHandler > 0
       THEN ssDestroy' = "blocked" /\ UNCHANGED <<waitingForHandlers, sMutex>>
       ELSE /\ waitingForHandlers' = waitingForHandlers - 1
            /\ ssDestroy' = "fini" /\ sMutex' = "destroyer"
    /\ UNCHANGED <<callingHandler, incoming, messages, acceptor, acceptorQueued>>

(* tasklet_fini turns a worker away that wants to run the tasklet. *)
FreeTransport ==
    /\ ssDestroy = "fini"
    /\ acceptorQueued' = FALSE
    /\ sMutex' = "free"
    /\ incoming' = 0
    /\ ssDestroy' = "gone"
    /\ UNCHANGED <<callingHandler, waitingForHandlers, messages, acceptor>>

Destroying == WaitOver \/ FreeTransport

TransportNext == Connection \/ Accepting \/ DestroyTransport \/ SpuriousWake \/ Destroying

-----------------------------------------------------------------------------
(* The user's handler is not called, and s is not touched by its tasklet,  *)
(* when ss_destroy is finalizing or has freed it, though the handler is    *)
(* called without the mutex; and ss_destroy does not wait for handlers     *)
(* that are done already.                                                  *)
TransportSound ==
    /\ ssDestroy \in {"fini", "gone"} => acceptor \in {"idle", "stopped"} /\ callingHandler = 0
    /\ ssDestroy = "gone" => ~acceptorQueued
    /\ ssDestroy = "blocked" => callingHandler > 0

(* ss_destroy returns: connections that come while it waits keep it        *)
(* waiting, so that this is about those that are made.                     *)
TransportDestroyed == ssDestroy # "no" ~> ssDestroy = "gone"
=============================================================================
