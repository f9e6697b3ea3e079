----------------------------- MODULE PollSlots ------------------------------
(***************************************************************************)
(* The poll(2) back end, src/poll_poll.c, and the turns of the loop of     *)
(* poll_thread (src/poll_common.c) that concern watched descriptors.  The  *)
(* poll lock is held throughout poll_prepare, which is one step for each   *)
(* entry of the list of updates, and throughout poll_dispatch, which is    *)
(* one step for each slot and each call.  Timers and the run queue of the  *)
(* poll thread are in PollTimers; here they only may make the thread skip  *)
(* or leave poll(2) at any time.                                           *)
(***************************************************************************)
EXTENDS WatchedFds

VARIABLES
    st,         \* of each watched_fd: "none", "open", "gone" (fd = -1), "freed"
    interest,   \* w->interest
    slot,       \* w->slot, 0 if it has none
    pollfds,    \* pollfds and watched_fds after the slot of the wake-up pipe
    updates,    \* the list of updated watched_fds, from its head on
    pipe,       \* the wake-up pipe has data
    woken,      \* thread_woken
    result,     \* poll_result # 0
    pc,         \* where the poll thread is
    i           \* the slot poll_dispatch is at

bvars == <<st, interest, slot, pollfds, updates, pipe, woken, result, pc, i>>

BackEndTypeOK ==
    /\ st \in [Fd -> {"none", "open", "gone", "freed"}]
    /\ interest \in [Fd -> SUBSET Events]
    /\ slot \in [Fd -> 0..NFds]
    /\ updates \in BoundedSeq(Fd, NFds)
    /\ Len(pollfds) <= NFds
    /\ pipe \in BOOLEAN /\ woken \in BOOLEAN /\ result \in BOOLEAN
    /\ pc \in {"prepare", "sync", "poll", "relock", "dispatch", "handling"}
    /\ i \in 1..NFds + 1

BackEndInit ==
    /\ st = [w \in Fd |-> "none"]
    /\ interest = [w \in Fd |-> {}]
    /\ slot = [w \in Fd |-> 0]
    /\ pollfds = << >> /\ updates = << >>
    /\ pipe = FALSE /\ woken = FALSE /\ result = FALSE
    /\ pc = "prepare" /\ i = 1

Unlocked == pc \notin {"sync", "dispatch", "handling"}

-----------------------------------------------------------------------------
(* The calls, by the thread of a socket *)

(* Seeded defect: it is put on the list once more. *)
UpdatedAgain(w) ==
    /\ updates' = Append(updates, w)
    /\ pipe' = (pipe \/ ~woken)
    /\ woken' = TRUE

(* Seeded defect: the thread is not poked. *)
UpdatedQuietly(w) ==
    /\ updates' = IF w \in Range(updates) THEN updates ELSE Append(updates, w)
    /\ UNCHANGED <<pipe, woken>>

(* updated: put w on the list, unless it is there, and poke the thread. *)
Updated(w) ==
    IF w \in Range(updates) THEN UNCHANGED <<updates, pipe, woken>>
    ELSE /\ updates' = Append(updates, w)
         /\ pipe' = (pipe \/ ~woken)
         /\ woken' = TRUE

Create(w) ==
    /\ call.op = "create" /\ call.w = w
    /\ st' = [st EXCEPT ![w] = "open"]
    /\ target' = [target EXCEPT ![w] = call.arg]
    /\ UNCHANGED <<interest, slot, pollfds, updates, pipe, woken>>

SetInterest(w) ==
    /\ call.op = "interest" /\ call.w = w
    /\ Unlocked
    /\ interest' = [interest EXCEPT ![w] = @ \cup call.arg]
    /\ Updated(w)
    /\ UNCHANGED <<st, target, slot, pollfds>>

SetHandler(w) ==
    /\ call.op = "handler" /\ call.w = w
    /\ Unlocked
    /\ target' = [target EXCEPT ![w] = call.arg]
    /\ UNCHANGED <<st, interest, slot, pollfds, updates, pipe, woken>>

(* The list without w *)
Unlisted(w) ==
    IF w \in Range(updates)
    THEN RemoveAt(updates, CHOOSE k \in DOMAIN updates : updates[k] = w)
    ELSE updates

(* Seeded defect: the lock is not taken, so a handler may be running. *)
DestroyUnlocked(w) ==
    /\ call.op = "destroy" /\ call.w = w
    /\ IF slot[w] = 0
       THEN /\ updates' = Unlisted(w)
            /\ st' = [st EXCEPT ![w] = "freed"]
            /\ UNCHANGED <<interest, pipe, woken>>
       ELSE /\ st' = [st EXCEPT ![w] = "gone"]
            /\ interest' = [interest EXCEPT ![w] = {}]
            /\ Updated(w)
    /\ UNCHANGED <<target, slot, pollfds>>

Destroy(w) ==
    /\ call.op = "destroy" /\ call.w = w
    /\ Unlocked
    /\ IF slot[w] = 0
       THEN /\ updates' = Unlisted(w)
            /\ st' = [st EXCEPT ![w] = "freed"]
            /\ UNCHANGED <<interest, pipe, woken>>
       ELSE /\ st' = [st EXCEPT ![w] = "gone"]
            /\ interest' = [interest EXCEPT ![w] = {}]
            /\ Updated(w)
    /\ UNCHANGED <<target, slot, pollfds>>

BackEndCall ==
    /\ \E w \in Fd : Create(w) \/ SetInterest(w) \/ SetHandler(w) \/ Destroy(w)
    /\ call' = NoCall
    /\ UNCHANGED <<ready, event, result, pc, i>>

-----------------------------------------------------------------------------
(* The slots, as a record of st, slot and pollfds *)

AddPollfd(s, w) ==
    [s EXCEPT !.pollfds = Append(@, [w |-> w, events |-> interest[w], revents |-> {}]),
              !.slot[w] = Len(s.pollfds) + 1]

(* Seeded defect: the watched_fd that is moved keeps its slot number. *)
RemovePollfdOnly(s, k) ==
    LET w == s.pollfds[k].w IN
    [s EXCEPT !.pollfds = Front([@ EXCEPT ![k] = Last(s.pollfds)]),
              !.slot[w] = 0,
              !.st[w] = IF @ = "gone" THEN "freed" ELSE @]

RemovePollfd(s, k) ==
    LET w == s.pollfds[k].w
        moved == Last(s.pollfds)
    IN  [s EXCEPT !.pollfds = Front([@ EXCEPT ![k] = moved]),
                  !.slot = [@ EXCEPT ![moved.w] = k, ![w] = 0],
                  !.st[w] = IF @ = "gone" THEN "freed" ELSE @]

(* What poll_prepare does for one entry of the list *)
Sync(s, w) ==
    CASE s.slot[w] = 0 /\ interest[w] # {} -> AddPollfd(s, w)
      [] s.slot[w] # 0 /\ interest[w] # {} ->
             [s EXCEPT !.pollfds[s.slot[w]].events = interest[w]]
      [] s.slot[w] # 0 /\ interest[w] = {} -> RemovePollfd(s, s.slot[w])
      [] OTHER -> s

SetSlots(s) == st' = s.st /\ slot' = s.slot /\ pollfds' = s.pollfds

Slots == [st |-> st, slot |-> slot, pollfds |-> pollfds]

-----------------------------------------------------------------------------
(* The poll thread *)

(* poll_prepare takes the list of updates from its head on. *)
SyncNext ==
    /\ pc \in {"prepare", "sync"} /\ updates # << >>
    /\ SetSlots(Sync(Slots, Head(updates)))
    /\ updates' = Tail(updates)
    /\ pc' = "sync"
    /\ UNCHANGED <<ivars, interest, pipe, woken, result, i>>

Prepared ==
    /\ pc \in {"prepare", "sync"} /\ updates = << >>
    /\ woken' = FALSE
    /\ result' = FALSE
    /\ pc' = "poll"
    /\ UNCHANGED <<ivars, st, interest, slot, pollfds, updates, pipe, i>>

(* poll(2) finds something. *)
PollReady ==
    /\ pc = "poll"
    /\ \/ pipe
       \/ \E p \in Range(pollfds) : Reported(p.w, p.events) # {}
    /\ pollfds' = [k \in DOMAIN pollfds |->
                      [pollfds[k] EXCEPT !.revents = Reported(pollfds[k].w, pollfds[k].events)]]
    /\ result' = TRUE
    /\ pc' = "relock"
    /\ UNCHANGED <<ivars, st, interest, slot, updates, pipe, woken, i>>

(* It times out or is skipped for a timer, or a signal interrupts it. *)
PollNothing ==
    /\ pc = "poll"
    /\ result' \in BOOLEAN
    /\ pc' = "relock"
    /\ UNCHANGED <<ivars, st, interest, slot, pollfds, updates, pipe, woken, i>>

(* poll_dispatch, up to its loop. *)
BeginDispatch ==
    /\ pc = "relock"
    /\ woken' = TRUE
    /\ IF result
       THEN pipe' = FALSE /\ pc' = "dispatch"
       ELSE pipe' = pipe /\ pc' = "prepare"
    /\ i' = 1
    /\ UNCHANGED <<ivars, st, interest, slot, pollfds, updates, result>>

DispatchSlot ==
    /\ pc = "dispatch"
    /\ i <= Len(pollfds)
    /\ LET p == pollfds[i] IN
       IF p.revents = {} \/ st[p.w] # "open"
       THEN /\ i' = i + 1
            /\ UNCHANGED <<interest, event, pc>>
       ELSE /\ interest' = [interest EXCEPT ![p.w] = @ \ p.revents]
            /\ Deliver(p.w, p.revents)
            /\ pc' = "handling"
            /\ i' = i
    /\ UNCHANGED <<ready, target, call, st, slot, pollfds, updates, pipe, woken, result>>

Handled ==
    /\ pc = "handling"
    /\ event = NoEvent
    /\ IF interest[pollfds[i].w] = {}
       THEN SetSlots(RemovePollfd(Slots, i)) /\ i' = i
       ELSE i' = i + 1 /\ UNCHANGED <<st, slot, pollfds>>
    /\ pc' = "dispatch"
    /\ UNCHANGED <<ivars, interest, updates, pipe, woken, result>>

EndDispatch ==
    /\ pc = "dispatch"
    /\ i > Len(pollfds)
    /\ pc' = "prepare"
    /\ i' = 1
    /\ UNCHANGED <<ivars, st, interest, slot, pollfds, updates, pipe, woken, result>>

Poller ==
    SyncNext \/ Prepared \/ PollReady \/ BeginDispatch \/ DispatchSlot \/ Handled \/ EndDispatch

-----------------------------------------------------------------------------
(* What the back end is called with: a new watched_fd, or one that is open. *)
CallFits ==
    /\ call.op = "create" => st[call.w] = "none"
    /\ call.op \in {"interest", "handler", "destroy"} => st[call.w] = "open"
    /\ call.op = "interest" => call.arg \subseteq Events

(* The arrays agree with each other and with the watched_fds: a slot and   *)
(* the watched_fd it belongs to name each other, neither the slots nor the *)
(* list of updates name one that was freed, and one that was destroyed     *)
(* while it had a slot is on the list, where poll_prepare frees it.        *)
SlotsAgree ==
    /\ \A k \in DOMAIN pollfds : slot[pollfds[k].w] = k /\ st[pollfds[k].w] # "freed"
    /\ \A w \in Fd : slot[w] # 0 => slot[w] \in DOMAIN pollfds /\ pollfds[slot[w]].w = w
    /\ IsInjective(updates) /\ \A w \in Range(updates) : st[w] # "freed"
    /\ \A w \in Fd : st[w] = "gone" => slot[w] # 0 /\ w \in Range(updates)

(* w is going to be polled for e: poll(2) is told of it, or will be by the *)
(* next poll_prepare, to which the thread comes at once.                   *)
Watches(w, e) ==
    \/ /\ e \in interest[w]
       /\ \/ slot[w] # 0 /\ e \in pollfds[slot[w]].events
          \/ w \in Range(updates) /\ (pc = "poll" => pipe)
    \/ event.w = w /\ event.events \cap {e, "ERR"} # {}
=============================================================================
