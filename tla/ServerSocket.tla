---------------------------- MODULE ServerSocket ----------------------------
(***************************************************************************)
(* A server socket of src/socket.c: the descriptors bound_server_socket    *)
(* gets, the tasklet that accepts from them one after the other, as        *)
(* http_server_accept, echo_server_accept and ss_accept do, and its        *)
(* destruction as in http_server_destroy.                                  *)
(*                                                                         *)
(* The acceptor has the socket's mutex from the first step of accept to    *)
(* the last, and its tasklet's mutex as well, for which the destruction    *)
(* waits; the handlers run in the poll thread without either.              *)
(***************************************************************************)
EXTENDS WatchedFds

CONSTANT MaxArrivals            \* bound on the connections that are made

ASSUME MaxArrivalsAssumption == MaxArrivals \in Nat

VARIABLES
    backlog,        \* of each descriptor: connections not accepted yet
    arrivals,       \* connections made
    listening,      \* the descriptors that are open
    (* struct simple_server_socket *)
    fds,            \* s->fds
    isReady,        \* the descriptors whose sfd->ready is set
    ups,            \* the count of s->accepting
    (* the tasklet that accepts *)
    onList,         \* it is on s->accepting
    toRun,          \* it is queued
    acc,            \* where it is
    k               \* the loop variable of the loop it is in

avars == <<backlog, arrivals, listening, fds, isReady, ups, onList, toRun, acc, k>>

ServerTypeOK ==
    /\ backlog \in [Fd -> 0..MaxArrivals] /\ arrivals \in 0..MaxArrivals
    /\ listening \subseteq Fd /\ isReady \subseteq Fd
    /\ fds \in BoundedSeq(Fd, NFds) /\ ups \in Nat
    /\ onList \in BOOLEAN /\ toRun \in BOOLEAN
    /\ acc \in {"bind", "create", "idle", "scan", "accept", "arm", "stopped",
                "destroy", "closing", "gone"}
    /\ k \in 1..NFds + 1

ServerInit ==
    /\ backlog = [w \in Fd |-> 0] /\ arrivals = 0 /\ listening = {}
    /\ fds = << >> /\ isReady = {} /\ ups = 0
    /\ onList = FALSE /\ toRun = FALSE
    /\ acc = "bind" /\ k = 1

-----------------------------------------------------------------------------
(* The system *)

Arrive(w) ==
    /\ w \in listening /\ arrivals < MaxArrivals
    /\ arrivals' = arrivals + 1
    /\ backlog' = [backlog EXCEPT ![w] = @ + 1]
    /\ ready' = [ready EXCEPT ![w] = {"IN"}]

ReadyIf(w, n) == ready' = [ready EXCEPT ![w] = IF n > 0 THEN {"IN"} ELSE {}]

(* A peer gives up before its connection was accepted. *)
Withdraw(w) ==
    /\ backlog[w] > 0
    /\ backlog' = [backlog EXCEPT ![w] = @ - 1]
    /\ ReadyIf(w, backlog[w] - 1)
    /\ UNCHANGED arrivals

Network ==
    /\ \E w \in Fd : Arrive(w) \/ Withdraw(w)
    /\ UNCHANGED <<target, call, event, listening, fds, isReady, ups, onList, toRun, acc, k>>

(* accept_handle_events *)
HandleListener ==
    /\ event.to = "listener"
    /\ \/ /\ ~event.half
          /\ isReady' = isReady \cup {event.w}
          /\ event' = [event EXCEPT !.half = TRUE]
          /\ UNCHANGED <<ups, toRun>>
       \/ /\ event.half
          /\ ups' = ups + 1
          /\ toRun' = (toRun \/ onList)
          /\ event' = NoEvent
          /\ UNCHANGED isReady
    /\ UNCHANGED <<ready, target, call, backlog, arrivals, listening, fds, onList, acc, k>>

-----------------------------------------------------------------------------
(* bound_server_socket: make_bound_socket fails for some addresses; with   *)
(* none left there is no server socket. *)
Bind ==
    /\ acc = "bind"
    /\ \/ /\ k <= NFds
          /\ \/ fds' = Append(fds, k) /\ listening' = listening \cup {k}
             \/ UNCHANGED <<fds, listening>>
          /\ k' = k + 1
          /\ UNCHANGED acc
       \/ /\ k = NFds + 1
          /\ acc' = IF fds = << >> THEN "gone" ELSE "create"
          /\ k' = 1
          /\ UNCHANGED <<fds, listening>>
    /\ UNCHANGED <<ivars, backlog, isReady, toRun>>

(* simple_server_socket_create; then the acceptor is run. *)
CreateFds ==
    /\ acc = "create"
    /\ IF k <= Len(fds)
       THEN /\ Call("create", fds[k], "listener")
            /\ k' = k + 1
            /\ UNCHANGED <<acc, toRun>>
       ELSE /\ Returned
            /\ acc' = "idle" /\ toRun' = TRUE /\ k' = 1
            /\ UNCHANGED call
    /\ UNCHANGED <<ready, target, event, backlog, listening, fds, isReady>>

-----------------------------------------------------------------------------
(* simple_server_socket_accept, called again for as long as it returns a   *)
(* socket *)

GotoLoop(label) == acc' = label /\ k' = 1

StopAcceptor == GotoLoop("stopped") /\ onList' = FALSE /\ toRun' = FALSE

AcceptorRuns ==
    /\ acc = "idle" /\ toRun
    /\ toRun' = FALSE
    /\ GotoLoop("scan")
    /\ UNCHANGED <<ivars, backlog, listening, fds, isReady, ups, onList>>

Scan ==
    /\ acc = "scan" /\ k <= Len(fds)
    /\ IF fds[k] \in isReady
       THEN isReady' = isReady \ {fds[k]} /\ acc' = "accept" /\ UNCHANGED k
       ELSE k' = k + 1 /\ UNCHANGED <<isReady, acc>>
    /\ UNCHANGED <<ivars, backlog, listening, fds, ups, onList, toRun>>

(* accept(2).  After an error ss_accept stops its tasklet; the other       *)
(* callers return without a wait, for which run_queue_run aborts.          *)
Accept ==
    /\ acc = "accept"
    /\ LET w == fds[k] IN
       \/ /\ backlog[w] > 0
          /\ backlog' = [backlog EXCEPT ![w] = @ - 1]
          /\ ReadyIf(w, backlog[w] - 1)
          /\ isReady' = isReady \cup {w}
          /\ \/ GotoLoop("scan") /\ UNCHANGED <<onList, toRun>>
             \/ StopAcceptor               \* fcntl fails
       \/ /\ backlog[w] = 0
          /\ k' = k + 1 /\ acc' = "scan"
          /\ UNCHANGED <<ready, backlog, isReady, onList, toRun>>
       \/ /\ StopAcceptor
          /\ UNCHANGED <<ready, backlog, isReady>>
    /\ UNCHANGED <<target, call, event, listening, fds, ups>>

ArmAll ==
    /\ \/ acc = "scan" /\ k > Len(fds) /\ GotoLoop("arm") /\ UNCHANGED call
       \/ /\ acc = "arm" /\ k <= Len(fds)
          /\ Call("interest", fds[k], {"IN"})
          /\ k' = k + 1 /\ UNCHANGED acc
    /\ UNCHANGED <<ready, target, event, backlog, listening, fds, isReady, ups, onList, toRun>>

(* wait_list_down(&s->accepting, 1, t) *)
AwaitToken ==
    /\ acc = "arm" /\ k > Len(fds) /\ Returned
    /\ IF ups > 0
       THEN ups' = ups - 1 /\ GotoLoop("scan") /\ UNCHANGED onList
       ELSE onList' = TRUE /\ GotoLoop("idle") /\ UNCHANGED ups
    /\ UNCHANGED <<ivars, backlog, listening, fds, isReady, toRun>>

Acceptor ==
    \/ (Bind \/ CreateFds) /\ UNCHANGED <<ups, onList>>
    \/ AcceptorRuns \/ Scan \/ Accept \/ ArmAll \/ AwaitToken

(* The server is destroyed: tasklet_fini, then simple_server_socket_destroy. *)
DestroyServer ==
    /\ acc \in {"idle", "stopped"}
    /\ onList' = FALSE /\ toRun' = FALSE
    /\ GotoLoop("destroy")
    /\ UNCHANGED <<ivars, backlog, listening, fds, isReady, ups>>

(* simple_server_socket_close_locked *)
CloseFds ==
    /\ \/ /\ acc = "destroy" /\ k <= Len(fds)
          /\ Call("destroy", fds[k], {})
          /\ acc' = "closing"
          /\ UNCHANGED <<ready, backlog, listening, fds, k>>
       \/ /\ acc = "closing" /\ Returned
          /\ listening' = listening \ {fds[k]}
          /\ backlog' = [backlog EXCEPT ![fds[k]] = 0]
          /\ ready' = [ready EXCEPT ![fds[k]] = {}]
          /\ k' = k + 1 /\ acc' = "destroy"
          /\ UNCHANGED <<call, fds>>
       \/ /\ acc = "destroy" /\ k > Len(fds)
          /\ GotoLoop("gone")
          /\ fds' = << >>
          /\ UNCHANGED <<ready, call, backlog, listening>>
    /\ UNCHANGED <<target, event, isReady, ups, onList, toRun>>

Server == (Acceptor \/ DestroyServer \/ CloseFds) /\ UNCHANGED arrivals

-----------------------------------------------------------------------------
(* The acceptor waits, and is not to be run. *)
AcceptorAsleep == acc = "idle" /\ ~toRun

ListenerAlive == event.to = "listener" => event.w \in Range(fds)
=============================================================================
