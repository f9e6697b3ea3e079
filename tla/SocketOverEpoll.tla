-------------------------- MODULE SocketOverEpoll ---------------------------
(***************************************************************************)
(* The client socket and the epoll back end, joined by the interface of    *)
(* WatchedFds, as SocketsOverPoll joins it to the other back end.          *)
(***************************************************************************)
EXTENDS Socket, PollEvents

vars == <<ivars, svars, bvars>>

Init == IfaceInit /\ SocketInit /\ BackEndInit

Unpolled ==
    /\ Edges
    /\ UNCHANGED <<st, interest, added, gone, ee, signalled, pc, i>>

Next ==
    \/ (\E w \in Fd : System(w)) /\ Unpolled
    \/ (Handler \/ ConnectorStep \/ Owner) /\ Unpolled
    \/ (BackEndCall \/ Poller) /\ UNCHANGED svars

Spec == Init /\ [][Next]_vars

-----------------------------------------------------------------------------
(* A tasklet that waits to read or to write on a socket that is ready for  *)
(* it is about to be woken: include/molerat/stream.h:25-27 says that a     *)
(* read that answers STREAM_WAITING has put the tasklet on a wait list     *)
(* "to be woken when progress can be made".                                *)
NoLostReadiness ==
    \A op \in {"read", "write"} :
        Asleep(op) /\ mutex = "free" /\ fd # NoFd
            => (EventOf[op] \in ready[fd] => WillTell(fd, EventOf[op]))
=============================================================================
