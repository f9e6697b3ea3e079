------------------------------ MODULE Services ------------------------------
(***************************************************************************)
(* What is built on sockets and tasklets: delimited streams, the HTTP      *)
(* reader, the HTTP server, the socket transport, and the start and stop   *)
(* of the application.  They share no state: the server abstracts what its *)
(* readers and writers do with the bytes, and the others do not use each   *)
(* other.  So they need not run at the same time: subject says whose       *)
(* behaviours these are, which adds the state spaces up instead of         *)
(* multiplying them.                                                       *)
(***************************************************************************)
EXTENDS DelimStream, HttpReader, HttpWriter, HttpServer, SocketTransport,
        Application

VARIABLE subject

vars == <<delimVars, readerVars, writerVars, serverVars, transportVars, appVars, subject>>

Init ==
    /\ DelimInit /\ ReaderInit /\ WriterInit /\ HttpServerInit
    /\ TransportInit /\ AppInit
    /\ subject \in {"delim", "reader", "writer", "server", "transport", "application"}

Delim ==
    /\ subject = "delim"
    /\ UNCHANGED <<readerVars, writerVars, serverVars, transportVars, appVars, subject>>
ReaderAlone ==
    /\ subject = "reader"
    /\ UNCHANGED <<delimVars, writerVars, serverVars, transportVars, appVars, subject>>
WriterAlone ==
    /\ subject = "writer"
    /\ UNCHANGED <<delimVars, readerVars, serverVars, transportVars, appVars, subject>>
ServerAlone ==
    /\ subject = "server"
    /\ UNCHANGED <<delimVars, readerVars, writerVars, transportVars, appVars, subject>>
TransportAlone ==
    /\ subject = "transport"
    /\ UNCHANGED <<delimVars, readerVars, writerVars, serverVars, appVars, subject>>
ApplicationAlone ==
    /\ subject = "application"
    /\ UNCHANGED <<delimVars, readerVars, writerVars, serverVars, transportVars, subject>>

Next ==
    \/ DelimNext /\ Delim
    \/ ReaderNext /\ ReaderAlone
    \/ WriterNext /\ WriterAlone
    \/ HttpServerNext /\ ServerAlone
    \/ TransportNext /\ TransportAlone
    \/ AppNext /\ ApplicationAlone

(***************************************************************************)
(* Fairness: the threads that destroy a server, a connection or a          *)
(* transport go on, and get a mutex that is free again and again, and so   *)
(* does an acceptor that has been run, whose handlers return; and the main *)
(* thread goes on.  Nothing else has to happen: no exchange needs to end,  *)
(* no timer to fire, no peer to answer, nobody to call anything.           *)
(***************************************************************************)
Fairness ==
    /\ SF_vars(Destroyer /\ ServerAlone)
    /\ \A c \in Conn : SF_vars(Teardown(c) /\ ServerAlone)
    /\ SF_vars(Destroying /\ TransportAlone)
    /\ SF_vars(Accepting /\ TransportAlone)
    /\ WF_vars(MainThread /\ ApplicationAlone)

Spec == Init /\ [][Next]_vars /\ Fairness

-----------------------------------------------------------------------------
(* The servers' own structures stay sound while they are destroyed.        *)
ServersSound == ConnectionsSound /\ TransportSound

(* The calls that wait return: the destruction of an HTTP server, of its   *)
(* connections, and of a socket transport, and a run that was stopped.     *)
CallsReturn == DestroyReturns /\ TransportDestroyed /\ StoppedRunReturns
=============================================================================
