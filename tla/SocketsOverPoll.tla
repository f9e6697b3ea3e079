-------------------------- MODULE SocketsOverPoll ---------------------------
(***************************************************************************)
(* A client socket, or a server socket, and the poll(2) back end, joined   *)
(* by the interface of WatchedFds.  The sockets share no state but the     *)
(* back end, and one of them is enough to keep it busy: subject says whose *)
(* behaviours these are, which adds the state spaces up instead of         *)
(* multiplying them.                                                       *)
(***************************************************************************)
EXTENDS Socket, ServerSocket, PollSlots

VARIABLE subject

vars == <<ivars, svars, avars, bvars, subject>>

Init ==
    /\ IfaceInit /\ SocketInit /\ ServerInit /\ BackEndInit
    /\ subject \in {"client", "server"}

Client == subject = "client" /\ UNCHANGED <<avars, bvars, subject>>
Listener == subject = "server" /\ UNCHANGED <<svars, bvars, subject>>
Sockets == UNCHANGED <<svars, avars, subject>>

Next ==
    \/ (\E w \in Fd : System(w)) /\ Client
    \/ (Handler \/ ConnectorStep \/ Owner) /\ Client
    \/ (Network \/ HandleListener \/ Server) /\ Listener
    \/ (BackEndCall \/ Poller \/ PollNothing) /\ Sockets

(***************************************************************************)
(* Fairness.  The poll thread and the handlers go on, and poll(2) is not   *)
(* skipped for due timers, or interrupted, for ever.  A mutex is handed    *)
(* out fairly: the tasklets, which the worker threads run, and the calls   *)
(* of the back end, which wait for the poll lock, are taken if they are    *)
(* possible again and again.  The system answers every connect(2).         *)
(* Nothing says that the owner makes another call, that the server is      *)
(* destroyed, that data or connections come, or that poll(2) times out.    *)
(***************************************************************************)
Fairness ==
    /\ WF_vars(Poller /\ Sockets)
    /\ SF_vars(PollReady /\ Sockets)
    /\ SF_vars(BackEndCall /\ Sockets)
    /\ WF_vars(Handler /\ Client)
    /\ SF_vars(ConnectorStep /\ Client)
    /\ SF_vars(OwnerStep /\ UNCHANGED <<target, event>> /\ Client)
    /\ \A w \in Fd : WF_vars(Answer(w) /\ System(w) /\ Client)
    /\ WF_vars(HandleListener /\ Listener)
    /\ SF_vars(Acceptor /\ UNCHANGED arrivals /\ Listener)

Spec == Init /\ [][Next]_vars /\ Fairness

-----------------------------------------------------------------------------
(* Types of all the variables. *)
TypeOK ==
    /\ IfaceTypeOK /\ SocketTypeOK /\ ServerTypeOK /\ BackEndTypeOK
    /\ subject \in {"client", "server"}

(* Whoever the poll thread calls still exists and owns the descriptor, and *)
(* no socket hands the back end a watched_fd that was destroyed: the order *)
(* in which a connector, its socket and its descriptors are handed over    *)
(* and destroyed leaves the handlers no dangling pointer.                  *)
NoStrayCall ==
    /\ HandlerAlive /\ ListenerAlive
    /\ event # NoEvent => st[event.w] = "open"
    /\ CallFits

(* The slots of poll_poll.c: the two arrays, the list of updates and the   *)
(* watched_fds agree, also while a dispatch removes slots from the arrays  *)
(* it goes through and descriptors are destroyed under it.                 *)
SlotsOK == SlotsAgree

(* A tasklet that waits to read or to write is waited for: its interest    *)
(* reaches poll(2), however the wait, the interest and the events of an    *)
(* earlier interest interleave; and a waiting acceptor is woken for each   *)
(* of its descriptors.                                                     *)
NoLostReadiness ==
    /\ \A op \in {"read", "write"} :
          Asleep(op) /\ fd # NoFd /\ mutex # "connector" => Watches(fd, EventOf[op])
    /\ AcceptorAsleep => \A w \in Range(fds) : Watches(w, "IN")

(* When a socket or a server was destroyed none of the descriptors it      *)
(* opened is left open or watched, whichever attempt of the connector or   *)
(* call of its owner failed before.                                        *)
NothingLeaks ==
    /\ ~alive => /\ ~Connecting /\ fd = NoFd
                 /\ \A w \in Fd : st[w] # "open" /\ status[w] \in {"none", "closed"}
    /\ acc = "gone" => listening = {} /\ \A w \in Fd : st[w] # "open" \/ subject = "client"

(* Who waits is served.  A tasklet that waits for the connection is woken  *)
(* when the last attempt was answered at the latest; one that waits to     *)
(* read or to write is, once the system is ready for it; and connections   *)
(* are accepted, unless the acceptor is stopped by an error or destroyed.  *)
Unserved ==
    \/ \E op \in {"read", "write"} :
          Asleep(op) /\ (Connecting \/ (fd # NoFd /\ EventOf[op] \in ready[fd]))
    \/ /\ acc \notin {"stopped", "destroy", "closing", "gone"}
       /\ \E w \in Fd : backlog[w] > 0

EveryoneServed == Unserved ~> ~Unserved
=============================================================================
