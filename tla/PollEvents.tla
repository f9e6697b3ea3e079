----------------------------- MODULE PollEvents -----------------------------
(***************************************************************************)
(* The epoll back end, src/poll_epoll.c, in the place of PollSlots.  It is *)
(* edge-triggered: what becomes ready while nobody waits is reported once. *)
(* The array ee is kept when the poll is skipped, as poll_dispatch then    *)
(* goes through it again; at most 100 entries are never short of room.     *)
(***************************************************************************)
EXTENDS WatchedFds

CONSTANT GoneBatch              \* watched_fds destroyed before the thread is woken: 100

VARIABLES
    st,         \* of each watched_fd: "none", "open", "gone" (fd = -1), "freed"
    interest,   \* w->interest
    added,      \* the descriptors epoll was told of
    edge,       \* those on epoll's ready list
    gone,       \* the list of destroyed watched_fds
    ee,         \* the events of the last epoll_pwait
    signalled,  \* PRIVATE_SIGNAL is pending for the thread
    pc,         \* where the poll thread is
    i           \* the entry of ee poll_dispatch is at

bvars == <<st, interest, added, edge, gone, ee, signalled, pc, i>>

BackEndTypeOK ==
    /\ st \in [Fd -> {"none", "open", "gone", "freed"}]
    /\ interest \in [Fd -> SUBSET Events]
    /\ added \subseteq Fd /\ edge \subseteq added /\ gone \subseteq Fd
    /\ Len(ee) <= NFds /\ signalled \in BOOLEAN
    /\ pc \in {"prepare", "poll", "relock", "dispatch", "handling"}
    /\ i \in 1..NFds + 1

BackEndInit ==
    /\ st = [w \in Fd |-> "none"] /\ interest = [w \in Fd |-> {}]
    /\ added = {} /\ edge = {} /\ gone = {} /\ ee = << >> /\ signalled = FALSE
    /\ pc = "prepare" /\ i = 1

Unlocked == pc \notin {"dispatch", "handling"}

(* Something epoll was told to watch w for has become ready. *)
Edges ==
    edge' = edge \cup
        {w \in added : (ready'[w] \ ready[w]) \cap (interest[w] \cup {"ERR"}) # {}}

-----------------------------------------------------------------------------
(* The calls, by the thread of a socket *)

Create(w) ==
    /\ call.op = "create" /\ call.w = w
    /\ Unlocked
    /\ st' = [st EXCEPT ![w] = "open"]
    /\ target' = [target EXCEPT ![w] = call.arg]
    /\ call' = NoCall
    /\ UNCHANGED <<interest, added, edge, gone, signalled>>

(* Without the lock, and without epoll_ctl if w is watched for that. *)
SetInterest(w) ==
    /\ call.op = "interest" /\ call.w = w
    /\ IF w \in added /\ call.arg \subseteq interest[w]
       THEN UNCHANGED <<interest, added, edge>>
       ELSE /\ interest' = [interest EXCEPT ![w] = @ \cup call.arg]
            /\ added' = added \cup {w}
            /\ edge' = IF Reported(w, interest[w] \cup call.arg) # {}
                       THEN edge \cup {w} ELSE edge
    /\ call' = NoCall
    /\ UNCHANGED <<st, target, gone, signalled>>

SetHandler(w) ==
    /\ call.op = "handler" /\ call.w = w
    /\ Unlocked
    /\ target' = [target EXCEPT ![w] = call.arg]
    /\ call' = NoCall
    /\ UNCHANGED <<st, interest, added, edge, gone, signalled>>

(* The descriptor is taken from epoll first, then the lock is taken. *)
Destroy(w) ==
    /\ call.op = "destroy" /\ call.w = w
    /\ \/ /\ st[w] = "open"
          /\ added' = added \ {w} /\ edge' = edge \ {w}
          /\ st' = [st EXCEPT ![w] = "gone"]
          /\ UNCHANGED <<call, gone, signalled>>
       \/ /\ st[w] = "gone" /\ Unlocked
          /\ gone' = gone \cup {w}
          /\ signalled' = (signalled \/ Cardinality(gone) + 1 = GoneBatch)
          /\ call' = NoCall
          /\ UNCHANGED <<st, added, edge>>
    /\ UNCHANGED <<target, interest>>

BackEndCall ==
    /\ \E w \in Fd : Create(w) \/ SetInterest(w) \/ SetHandler(w) \/ Destroy(w)
    /\ UNCHANGED <<ready, event, ee, pc, i>>

-----------------------------------------------------------------------------
(* The poll thread *)

(* free_gone_watched_fds *)
Prepare ==
    /\ pc = "prepare"
    /\ st' = [w \in Fd |-> IF w \in gone THEN "freed" ELSE st[w]]
    /\ gone' = {}
    /\ pc' = "poll"
    /\ UNCHANGED <<ivars, interest, added, edge, ee, signalled, i>>

(* epoll_pwait takes what is on the ready list and still ready. *)
PollReady ==
    /\ pc = "poll"
    /\ edge # {}
    /\ LET told == {w \in edge : Reported(w, interest[w]) # {}} IN
       ee' = [n \in 1..Cardinality(told) |->
                 LET w == SetToSeq(told)[n]
                 IN  [w |-> w, events |-> Reported(w, interest[w])]]
    /\ edge' = {}
    /\ pc' = "relock"
    /\ UNCHANGED <<ivars, st, interest, added, gone, signalled, i>>

(* It times out, or the signal interrupts it: no events. *)
PollNothing ==
    /\ pc = "poll"
    /\ edge = {} \/ signalled
    /\ ee' = << >>
    /\ signalled' = FALSE
    /\ pc' = "relock"
    /\ UNCHANGED <<ivars, st, interest, added, edge, gone, i>>

(* A timer is due: the poll is skipped. *)
PollSkipped ==
    /\ pc = "poll"
    /\ pc' = "relock"
    /\ UNCHANGED <<ivars, st, interest, added, edge, gone, ee, signalled, i>>

(* poll_dispatch *)
BeginDispatch ==
    /\ pc = "relock"
    /\ pc' = "dispatch" /\ i' = 1
    /\ UNCHANGED <<ivars, st, interest, added, edge, gone, ee, signalled>>

DispatchEvent ==
    /\ pc = "dispatch" /\ i <= Len(ee)
    /\ IF st[ee[i].w] = "open"
       THEN Deliver(ee[i].w, ee[i].events) /\ pc' = "handling"
       ELSE pc' = "dispatch" /\ UNCHANGED event
    /\ i' = i + 1
    /\ UNCHANGED <<ready, target, call, st, interest, added, edge, gone, ee, signalled>>

Handled ==
    /\ pc = "handling" /\ event = NoEvent
    /\ pc' = "dispatch"
    /\ UNCHANGED <<ivars, st, interest, added, edge, gone, ee, signalled, i>>

EndDispatch ==
    /\ pc = "dispatch" /\ i > Len(ee)
    /\ pc' = "prepare" /\ i' = 1
    /\ UNCHANGED <<ivars, st, interest, added, edge, gone, ee, signalled>>

Poller ==
    \/ Prepare \/ PollReady \/ PollNothing \/ PollSkipped
    \/ BeginDispatch \/ DispatchEvent \/ Handled \/ EndDispatch

-----------------------------------------------------------------------------
(* The poll thread is going to tell the handler of w that e is ready. *)
WillTell(w, e) ==
    \/ w \in edge /\ e \in Reported(w, interest[w])
    \/ \E n \in DOMAIN ee : ee[n].w = w /\ e \in ee[n].events
                            /\ (pc = "relock" \/ (pc = "dispatch" /\ n >= i))
    \/ event.w = w /\ event.events \cap {e, "ERR"} # {}
=============================================================================
