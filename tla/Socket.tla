------------------------------- MODULE Socket -------------------------------
(***************************************************************************)
(* A client socket of src/socket.c: the connector that tries one address   *)
(* after the other, the simple socket it turns into, and the tasklet of    *)
(* its owner, which reads, writes, closes and destroys it.                 *)
(*                                                                         *)
(* The socket's mutex is held over several steps, since the poll thread    *)
(* calls the handlers without it: a read that finds nothing, its wait on   *)
(* the list and its call of watched_fd_set_interest are apart.  A tasklet  *)
(* stays on the wait list it was woken from until it waits on another, as  *)
(* in WaitList; queued says that it is to be run (again), as in            *)
(* TaskletSched.  A descriptor is the number of the attempt it was opened  *)
(* for; bytes are not told apart, a read takes some or all of them.        *)
(***************************************************************************)
EXTENDS WatchedFds

VARIABLES
    (* the system *)
    status,         \* of each descriptor
    (* struct simple_socket, client_socket *)
    ops,            \* the vtable: "client" until connected, then "simple"
    fd,             \* s->fd; the watched_fd of descriptor w is called w too
    alive,          \* not freed yet
    mutex,          \* "free", or the tasklet that has it
    (* struct connector *)
    connector,      \* NoConnector once it was freed; left counts the addresses
                    \* not tried yet, up is the count of c->connecting, shared
                    \* says that client_socket_create has returned
    (* the tasklets: the owner's and the connector's *)
    wait,           \* the list it is on: t->wait
    queued,         \* it is to be run
    at,             \* where it is
    via,            \* the vtable the owner's call was made through
    doing           \* the owner's call

svars == <<status, ops, fd, alive, mutex, connector, wait, queued, at, via, doing>>

Tasklets == {"owner", "connector"}
NoConnector == [fd |-> NoFd, connected |-> FALSE, left |-> 0, err |-> FALSE, up |-> 0,
                exists |-> FALSE, shared |-> FALSE]
Connecting == connector.exists

Operations == {"read", "write", "shutdown", "close", "destroy"}
ListOf == [read |-> "reading", write |-> "writing"]
EventOf == [read |-> "IN", write |-> "OUT"]

SocketTypeOK ==
    /\ status \in [Fd -> {"none", "connecting", "up", "failed", "closed"}]
    /\ ops \in {"client", "simple"} /\ fd \in Fd \cup {NoFd} /\ alive \in BOOLEAN
    /\ mutex \in {"free"} \cup Tasklets
    /\ connector.fd \in Fd \cup {NoFd} /\ connector.left \in 0..NFds /\ connector.up \in 0..2
    /\ wait \in [Tasklets -> {"none", "reading", "writing", "connecting"}]
    /\ queued \in [Tasklets -> BOOLEAN]
    /\ via \in {"client", "simple"} /\ doing \in Operations

(* client_socket_create, from where it starts connecting with the mutex    *)
(* held, on behalf of the connector's tasklet.                             *)
SocketInit ==
    /\ status = [w \in Fd |-> "none"]
    /\ ops = "client" /\ fd = NoFd /\ alive = TRUE
    /\ mutex = "connector"
    /\ connector = [NoConnector EXCEPT !.left = NFds, !.exists = TRUE]
    /\ wait = [t \in Tasklets |-> "none"]
    /\ queued = [t \in Tasklets |-> FALSE]
    /\ at = [owner |-> "idle", connector |-> "start"]
    /\ via = "client" /\ doing = "read"

Goto(t, label) == at' = [at EXCEPT ![t] = label]

(* wait_list_broadcast and wait_list_up run who is on the list. *)
Run(lists) == queued' = [t \in Tasklets |-> queued[t] \/ wait[t] \in lists]

WakeAll == Run({"reading", "writing"})

-----------------------------------------------------------------------------
(* The system: connections are made or refused, data comes, space appears, *)
(* the peer breaks the connection. *)

Answer(w) ==
    /\ status[w] = "connecting"
    /\ \/ /\ status' = [status EXCEPT ![w] = "up"]
          /\ ready' = [ready EXCEPT ![w] = {"OUT"}]
       \/ /\ status' = [status EXCEPT ![w] = "failed"]
          /\ ready' = [ready EXCEPT ![w] = {"OUT", "ERR"}]

BecomeReady(w) ==
    /\ status[w] = "up"
    /\ \E e \in {"IN", "OUT"} \ ready[w] : ready' = [ready EXCEPT ![w] = @ \cup {e}]
    /\ UNCHANGED status

Break(w) ==
    /\ status[w] = "up"
    /\ status' = [status EXCEPT ![w] = "failed"]
    /\ ready' = [ready EXCEPT ![w] = Events]

System(w) ==
    /\ Answer(w) \/ BecomeReady(w) \/ Break(w)
    /\ UNCHANGED <<target, call, event, ops, fd, alive, mutex, connector, wait, queued, at, via, doing>>

Close(w) == /\ status' = [status EXCEPT ![w] = "closed"]
            /\ ready' = [ready EXCEPT ![w] = {}]

-----------------------------------------------------------------------------
(* The handlers, called by the poll thread *)

(* simple_socket_handle_events wakes the readers, then the writers. *)
HandleSocket ==
    /\ event.to = "socket"
    /\ \/ /\ ~event.half
          /\ Run(IF event.events \cap {"IN", "ERR"} # {} THEN {"reading"} ELSE {})
          /\ event' = [event EXCEPT !.half = TRUE]
       \/ /\ event.half
          /\ Run(IF event.events \cap {"OUT", "ERR"} # {} THEN {"writing"} ELSE {})
          /\ event' = NoEvent
    /\ UNCHANGED connector

(* connector_handle_events *)
HandleConnector ==
    /\ event.to = "connector"
    /\ Connecting
    /\ IF event.events \cap {"OUT", "ERR"} # {}
       THEN /\ connector' = [connector EXCEPT !.connected = (event.events = {"OUT"}),
                                              !.up = @ + 1]
            /\ Run({"connecting"})
       ELSE UNCHANGED <<connector, queued>>
    /\ event' = NoEvent

Handler ==
    /\ HandleSocket \/ HandleConnector
    /\ UNCHANGED <<ready, target, call, status, ops, fd, alive, mutex, wait, at, via, doing>>
-----------------------------------------------------------------------------
(* The connector: start_connecting and finish_connecting.  Each step is    *)
(* taken with the socket's mutex held, which is also the tasklet's.        *)

At(t, label) == at[t] = label

ConnectorRuns ==
    /\ At("connector", "idle") /\ queued["connector"]
    /\ mutex = "free"
    /\ mutex' = "connector"
    /\ queued' = [queued EXCEPT !["connector"] = FALSE]
    /\ Goto("connector", "down")
    /\ UNCHANGED <<ready, call, status, ops, fd, connector, wait>>

(* start_connecting returns, to finish_connecting or to                    *)
(* client_socket_create, which schedules the tasklet and unlocks.          *)
Started(c) ==
    IF c.shared
    THEN /\ connector' = c
         /\ Goto("connector", "down")
         /\ UNCHANGED mutex
    ELSE /\ connector' = [c EXCEPT !.shared = TRUE]
         /\ Goto("connector", "idle")
         /\ mutex' = "free"

(* Seeded defect: the last failure wakes nobody. *)
GiveUpSilently ==
    /\ At("connector", "start") /\ connector.left = 0
    /\ Started(connector)
    /\ queued' = [t \in Tasklets |-> queued[t] \/ ~connector.shared]
    /\ UNCHANGED <<ready, call, status, ops, fd, wait>>

(* No address is left: whoever waits for the socket finds the error. *)
GiveUp ==
    /\ At("connector", "start") /\ connector.left = 0
    /\ Started(connector)
    /\ queued' = [t \in Tasklets |-> queued[t] \/ wait[t] \in {"reading", "writing"}
                                    \/ ~connector.shared]
    /\ UNCHANGED <<ready, call, status, ops, fd, wait>>

(* connector_close, for the attempt before *)
CloseOld ==
    /\ At("connector", "start") /\ connector.left > 0 /\ connector.fd # NoFd
    /\ Call("destroy", connector.fd, {})
    /\ Goto("connector", "closing")
    /\ UNCHANGED <<ready, status, ops, fd, mutex, connector, wait, queued>>

ClosedOld ==
    /\ At("connector", "closing") /\ Returned
    /\ Close(connector.fd)
    /\ connector' = [connector EXCEPT !.fd = NoFd]
    /\ Goto("connector", "start")
    /\ UNCHANGED <<call, ops, fd, mutex, wait, queued>>

(* make_socket and watched_fd_create, for the next address *)
OpenNext ==
    /\ At("connector", "start") /\ connector.left > 0 /\ connector.fd = NoFd
    /\ LET w == NFds - connector.left + 1 IN
       \/ /\ connector' = [connector EXCEPT !.left = @ - 1, !.err = TRUE]
          /\ UNCHANGED <<call, at>>
       \/ /\ connector' = [connector EXCEPT !.left = @ - 1, !.err = FALSE, !.fd = w]
          /\ Call("create", w, "connector")
          /\ Goto("connector", "opened")
    /\ UNCHANGED <<ready, status, ops, fd, mutex, wait, queued>>

(* connect(2) succeeds at once, fails at once, or goes on. *)
Connect ==
    /\ At("connector", "opened") /\ Returned
    /\ LET w == connector.fd IN
       \/ /\ status' = [status EXCEPT ![w] = "up"]
          /\ ready' = [ready EXCEPT ![w] = {"OUT"}]
          /\ queued' = [t \in Tasklets |-> queued[t] \/ wait[t] = "connecting"
                                          \/ ~connector.shared]
          /\ Started([connector EXCEPT !.up = @ + 1])
          /\ UNCHANGED call
       \/ /\ connector' = [connector EXCEPT !.err = TRUE]
          /\ Goto("connector", "start")
          /\ UNCHANGED <<ready, call, status, mutex, queued>>
       \/ /\ status' = [status EXCEPT ![w] = "connecting"]
          /\ Call("interest", w, {"OUT"})
          /\ Goto("connector", "armed")
          /\ UNCHANGED <<ready, mutex, connector, queued>>
    /\ UNCHANGED <<ops, fd, wait>>

ConnectArmed ==
    /\ At("connector", "armed") /\ Returned
    /\ Started(connector)
    /\ queued' = [t \in Tasklets |-> queued[t] \/ ~connector.shared]
    /\ UNCHANGED <<ready, call, status, ops, fd, wait>>

(* wait_list_down(&c->connecting, 1, &c->tasklet) *)
Down ==
    /\ At("connector", "down")
    /\ IF connector.up > 0
       THEN /\ connector' = [connector EXCEPT !.up = @ - 1]
            /\ Goto("connector", "check")
            /\ UNCHANGED <<mutex, wait>>
       ELSE /\ wait' = [wait EXCEPT !["connector"] = "connecting"]
            /\ Goto("connector", "idle")
            /\ mutex' = "free"
            /\ UNCHANGED connector
    /\ UNCHANGED <<ready, call, status, ops, fd, queued>>

(* connector_destroy, also tasklet_fini for its tasklet *)
NoMoreConnector ==
    /\ connector' = NoConnector
    /\ wait' = [wait EXCEPT !["connector"] = "none"]
    /\ queued' = [queued EXCEPT !["connector"] = FALSE]

(* Connected: the descriptor is handed to the simple socket. *)
Adopt ==
    /\ At("connector", "check") /\ connector.connected
    /\ NoMoreConnector
    /\ fd' = connector.fd
    /\ Call("handler", connector.fd, "socket")
    /\ Goto("connector", "adopt")
    /\ UNCHANGED <<ready, status, ops, mutex>>

Adopted ==
    /\ At("connector", "adopt") /\ Returned
    /\ WakeAll
    /\ ops' = "simple"
    /\ mutex' = "free"
    /\ Goto("connector", "gone")
    /\ UNCHANGED <<ready, call, status, fd, connector, wait>>

(* An error, which getsockopt tells, or none: then wait again. *)
NotConnected ==
    /\ At("connector", "check") /\ ~connector.connected
    /\ IF status[connector.fd] = "failed"
       THEN /\ connector' = [connector EXCEPT !.err = TRUE]
            /\ Goto("connector", "start")
            /\ UNCHANGED call
       ELSE /\ Call("interest", connector.fd, {"OUT"})
            /\ Goto("connector", "rearm")
            /\ UNCHANGED connector
    /\ UNCHANGED <<ready, status, ops, fd, mutex, wait, queued>>

Rearmed ==
    /\ At("connector", "rearm") /\ Returned
    /\ Goto("connector", "down")
    /\ UNCHANGED <<ready, call, status, ops, fd, mutex, connector, wait, queued>>

ConnectorStep ==
    /\ \/ ConnectorRuns \/ GiveUp \/ CloseOld \/ ClosedOld \/ OpenNext \/ Connect
       \/ ConnectArmed \/ Down \/ Adopt \/ Adopted \/ NotConnected \/ Rearmed
    /\ UNCHANGED <<target, event, alive, via, doing>>

-----------------------------------------------------------------------------
(* The owner, from its tasklet *)

(* The application runs it for a reason of its own, while it waits to read *)
(* on a connected socket: it has something to write.  Bound: only on the   *)
(* first descriptor, and when there is no space to write to.               *)
Nudge ==
    /\ At("owner", "idle") /\ ~queued["owner"] /\ ~Connecting /\ wait["owner"] = "reading"
    /\ fd = 1 /\ "OUT" \notin ready[fd]
    /\ queued' = [queued EXCEPT !["owner"] = TRUE]
    /\ UNCHANGED <<ready, call, status, ops, fd, alive, mutex, connector, wait, at, via, doing>>

OwnerRuns ==
    /\ At("owner", "idle") /\ queued["owner"]
    /\ queued' = [queued EXCEPT !["owner"] = FALSE]
    /\ Goto("owner", "call")
    /\ UNCHANGED <<ready, call, status, ops, fd, alive, mutex, connector, wait, via, doing>>

(* After an error it closes or destroys the socket, after a close it       *)
(* destroys it.  The vtable is read without the mutex, and before the      *)
(* function it leads to is entered.                                        *)
OwnerCalls ==
    /\ \E op \in Operations :
          /\ \/ At("owner", "call")
             \/ At("owner", "failed") /\ op \in {"close", "destroy"}
             \/ At("owner", "closed") /\ op = "destroy"
          /\ doing' = op
    /\ via' = ops
    /\ Goto("owner", "enter")
    /\ UNCHANGED <<ready, call, status, ops, fd, alive, mutex, connector, wait, queued>>

(* client_socket_close and client_socket_destroy assert that the vtable is *)
(* still theirs: the program aborts when the connector has just switched.  *)
Enter ==
    /\ At("owner", "enter")
    /\ IF via = "client" /\ ops = "simple" /\ doing \in {"close", "destroy"}
       THEN at' = [t \in Tasklets |-> "aborted"]
       ELSE Goto("owner", "lock")
    /\ UNCHANGED <<ready, call, status, ops, fd, alive, mutex, connector, wait, queued, via, doing>>

Locks == At("owner", "lock") /\ mutex = "free"

(* client_socket_read and client_socket_write before the socket is         *)
(* connected: wait for that, unless it has failed (connector_ok).          *)
WaitConnected ==
    /\ Locks /\ via = "client" /\ doing \in {"read", "write"} /\ Connecting
    /\ IF connector.left > 0 \/ ~connector.err
       THEN /\ wait' = [wait EXCEPT !["owner"] = ListOf[doing]]
            /\ Goto("owner", "idle")
       ELSE /\ Goto("owner", "failed")
            /\ UNCHANGED wait
    /\ UNCHANGED <<ready, call, status, ops, fd, alive, mutex, connector, queued, via, doing>>

(* A client_socket function without a connector calls the simple one. *)
Delegate ==
    /\ Locks /\ via = "client" /\ doing \in {"read", "write", "close"} /\ ~Connecting
    /\ via' = "simple"
    /\ UNCHANGED <<ready, call, status, ops, fd, alive, mutex, connector, wait, queued, at, doing>>

(* simple_socket_read and simple_socket_write *)
Transfer ==
    /\ Locks /\ via = "simple" /\ doing \in {"read", "write"}
    /\ \/ /\ fd = NoFd \/ "ERR" \in ready[fd]
          /\ Goto("owner", "failed")
          /\ UNCHANGED <<ready, mutex>>
       \/ /\ fd # NoFd /\ "ERR" \notin ready[fd] /\ EventOf[doing] \in ready[fd]
          /\ \E rest \in {{}, {EventOf[doing]}} :
                ready' = [ready EXCEPT ![fd] = (@ \ {EventOf[doing]}) \cup rest]
          /\ Goto("owner", "call")
          /\ UNCHANGED mutex
       \/ /\ fd # NoFd /\ ready[fd] \cap {EventOf[doing], "ERR"} = {}
          /\ mutex' = "owner"
          /\ Goto("owner", "again")
          /\ UNCHANGED ready
    /\ UNCHANGED <<call, status, ops, fd, alive, connector, wait, queued, via, doing>>

(* It would block: wait_list_wait, then watched_fd_set_interest. *)
WaitReady ==
    /\ At("owner", "again")
    /\ wait' = [wait EXCEPT !["owner"] = ListOf[doing]]
    /\ Goto("owner", "arm")
    /\ UNCHANGED <<ready, call, status, ops, fd, alive, mutex, connector, queued, via, doing>>

Arm ==
    /\ At("owner", "arm")
    /\ Call("interest", fd, {EventOf[doing]})
    /\ Goto("owner", "armed")
    /\ UNCHANGED <<ready, status, ops, fd, alive, mutex, connector, wait, queued, via, doing>>

Waiting ==
    /\ At("owner", "armed") /\ Returned
    /\ mutex' = "free"
    /\ Goto("owner", "idle")
    /\ UNCHANGED <<ready, call, status, ops, fd, alive, connector, wait, queued, via, doing>>

(* simple_socket_partial_close: what was shut for reading is readable. *)
Shutdown ==
    /\ Locks /\ doing = "shutdown"
    /\ IF fd = NoFd
       THEN Goto("owner", "failed") /\ UNCHANGED ready
       ELSE /\ \E e \in {{}, {"IN"}} : ready' = [ready EXCEPT ![fd] = @ \cup e]
            /\ Goto("owner", "call")
    /\ UNCHANGED <<call, status, ops, fd, alive, mutex, connector, wait, queued, via, doing>>

DestroyFd(w) == IF w = NoFd THEN UNCHANGED call ELSE Call("destroy", w, {})
(* Seeded defect: the descriptor of a connector that is dropped stays open. *)
CloseFdUnlessConnecting(w) ==
    IF w = NoFd \/ Connecting THEN UNCHANGED <<status, ready>> ELSE Close(w)

CloseFd(w) == IF w = NoFd THEN UNCHANGED <<status, ready>> ELSE Close(w)

(* client_socket_close and client_socket_destroy before it is connected:   *)
(* connector_destroy *)
Drop ==
    /\ Locks /\ via = "client" /\ doing \in {"close", "destroy"} /\ Connecting
    /\ DestroyFd(connector.fd)
    /\ mutex' = "owner"
    /\ Goto("owner", "drop")
    /\ UNCHANGED <<ready, status, ops, fd, alive, connector, wait, queued, via, doing>>

Dropped ==
    /\ At("owner", "drop") /\ Returned
    /\ CloseFd(connector.fd)
    /\ NoMoreConnector
    /\ at' = [connector |-> "gone", owner |-> IF doing = "close" THEN "closed" ELSE "fini"]
    /\ mutex' = IF doing = "close" THEN "free" ELSE "owner"
    /\ UNCHANGED <<call, ops, fd, alive, via, doing>>

(* simple_socket_close and simple_socket_fini: simple_socket_close_locked, *)
(* where close(2) succeeds, and the end of the socket *)
CloseLocked ==
    /\ \/ Locks /\ via = "simple" /\ doing \in {"close", "destroy"}
       \/ Locks /\ via = "client" /\ doing = "destroy" /\ ~Connecting
       \/ At("owner", "fini")
    /\ DestroyFd(fd)
    /\ mutex' = "owner"
    /\ Goto("owner", "shut")
    /\ UNCHANGED <<ready, status, ops, fd, alive, connector, wait, queued, via, doing>>

Closed ==
    /\ At("owner", "shut") /\ Returned
    /\ CloseFd(fd)
    /\ fd' = NoFd
    /\ mutex' = "free"
    /\ IF doing = "close"
       THEN Goto("owner", "closed") /\ UNCHANGED <<alive, wait, queued>>
       ELSE /\ alive' = FALSE
            /\ Goto("owner", "gone")
            /\ wait' = [wait EXCEPT !["owner"] = "none"]
            /\ queued' = [queued EXCEPT !["owner"] = FALSE]
    /\ UNCHANGED <<call, ops, connector, via, doing>>

OwnerStep ==
    \/ OwnerRuns \/ Enter \/ WaitConnected \/ Delegate \/ Transfer \/ WaitReady \/ Arm \/ Waiting
    \/ Shutdown \/ Drop \/ Dropped \/ CloseLocked \/ Closed

Owner == (OwnerStep \/ OwnerCalls \/ Nudge) /\ UNCHANGED <<target, event>>

-----------------------------------------------------------------------------
(* The owner waits on the list of an operation and is not to be run. *)
Asleep(op) ==
    At("owner", "idle") /\ ~queued["owner"] /\ wait["owner"] = ListOf[op]

(* Whoever a handler is called for still exists. *)
HandlerAlive ==
    /\ event.to = "connector" => Connecting /\ connector.fd = event.w
    /\ event.to = "socket" => alive /\ fd = event.w
=============================================================================
