----------------------------- MODULE WatchedFds -----------------------------
(***************************************************************************)
(* The interface of include/molerat/watched_fd.h between the sockets and   *)
(* the two back ends of the poll thread.  A call of a socket into the back *)
(* end lasts from the step that makes it until the back end has answered   *)
(* it, because it may have to wait for the poll lock; a call of a handler  *)
(* lasts from the step of the poll thread that makes it until the handler  *)
(* has returned.  Descriptors are numbered in the order in which the       *)
(* program opens them, and a number is not used again: a watched_fd that   *)
(* was freed stays recognizable.                                           *)
(***************************************************************************)
EXTENDS Integers, Sequences, FiniteSets, SequencesExt

CONSTANT NFds                   \* bound on the descriptors opened

ASSUME NFdsAssumption == NFds \in Nat \ {0}

Fd == 1..NFds
NoFd == 0
Events == {"IN", "OUT", "ERR"}

VARIABLES
    ready,      \* what the system would report of each descriptor now
    target,     \* whose handler a watched_fd calls (w->handler, w->data)
    call,       \* the call of a socket into the back end
    event       \* the call of a handler by the poll thread

ivars == <<ready, target, call, event>>

NoCall == [op |-> "none", w |-> NoFd, arg |-> {}]
NoEvent == [w |-> NoFd, to |-> "none", events |-> {}, half |-> FALSE]

IfaceTypeOK ==
    /\ ready \in [Fd -> SUBSET Events]
    /\ target \in [Fd -> {"none", "connector", "socket", "listener"}]
    /\ call.op \in {"none", "create", "interest", "handler", "destroy"}
    /\ call.w \in Fd \cup {NoFd}
    /\ event.w \in Fd \cup {NoFd} /\ event.events \subseteq Events /\ event.half \in BOOLEAN

IfaceInit ==
    /\ ready = [w \in Fd |-> {}]
    /\ target = [w \in Fd |-> "none"]
    /\ call = NoCall
    /\ event = NoEvent

(* What poll(2) or epoll_wait reports of w to one who asks for events:     *)
(* errors are reported unasked.                                            *)
Reported(w, events) == ready[w] \cap (events \cup {"ERR"})

(* A socket calls the back end. *)
Call(op, w, arg) == call = NoCall /\ call' = [op |-> op, w |-> w, arg |-> arg]
Returned == call = NoCall

(* The poll thread calls the handler of w; half says how far it has got. *)
Deliver(w, events) ==
    event' = [w |-> w, to |-> target[w], events |-> events, half |-> FALSE]
=============================================================================
