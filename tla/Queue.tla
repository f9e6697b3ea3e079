------------------------------- MODULE Queue -------------------------------
(***************************************************************************)
(* The bounded queue of src/queue.c: queue_push and queue_shift over a     *)
(* ring of items that grows, and one wait list for both sides.             *)
(*                                                                         *)
(* The queue has no lock: its users call it from handlers that share a     *)
(* mutex, so a call is one action, and at most one handler runs.  The wait *)
(* list is what WaitList shows it to be: a sequence of tasklets and a      *)
(* count, of which the head is run when something is added to the count.   *)
(***************************************************************************)
EXTENDS Integers, Sequences, SequencesExt

CONSTANTS
    Producer, Consumer,     \* tasklets, by what their handlers call
    Item,
    MaxSize,                \* max_size
    InitCapacity,           \* 8 in the code
    NoItem, NoTasklet

ASSUME ConstantsAssumption ==
    /\ Producer \cap Consumer = {}
    /\ MaxSize \in Nat
    /\ InitCapacity \in Nat \ {0}
    /\ NoTasklet \notin Producer \cup Consumer

Tasklet == Producer \cup Consumer

VARIABLES
    items, capacity, read, write,
    waitersState,           \* waiters_state: "neither", "full", "empty"
    waiters, upCount,       \* waiters: the list and its up_count
    result,                 \* the item that the last queue_shift returned
    pending,                \* the tasklets to be run (again)
    running                 \* the tasklet whose handler has the mutex

ring == <<items, capacity, read, write>>
vars == <<ring, waitersState, waiters, upCount, result, pending, running>>

Init ==
    /\ capacity = InitCapacity
    /\ items = [i \in 0 .. InitCapacity - 1 |-> NoItem]
    /\ read = 0
    /\ write = 0
    /\ waitersState = "neither"
    /\ waiters = << >>
    /\ upCount = 0
    /\ result \in Item
    /\ pending = {}
    /\ running = NoTasklet

Size == write - read

-----------------------------------------------------------------------------
(* The waiters. *)

(* flip_waiters_state: what waiters_state is after it, if cond holds, and  *)
(* with that the up_count and the tasklets it runs.                        *)
StateIf(cond, st) == IF cond THEN st ELSE waitersState

(* Seeded defect: the count survives the change of its meaning. *)
TokensKept(st) == upCount

Tokens(st) == IF st = waitersState THEN upCount ELSE 0

Flipped(st) == IF st = waitersState THEN {} ELSE ToSet(waiters)

First == IF waiters = << >> THEN {} ELSE {Head(waiters)}

Run(ts) == pending' = pending \cup ts

(* wait_list_down finds nothing: the handler of t returns. *)
Wait(t, st) ==
    /\ Tokens(st) = 0
    /\ waitersState' = st
    /\ upCount' = 0
    /\ waiters' = IF t \in ToSet(waiters) THEN waiters ELSE Append(waiters, t)
    /\ Run(Flipped(st))
    /\ running' = NoTasklet
    /\ UNCHANGED <<ring, result>>

(* Seeded defect: wait_list_up is not called. *)
SignalOneSide(st, takes, gives) ==
    /\ upCount' = IF st = takes THEN Tokens(st) - 1 ELSE Tokens(st)
    /\ Run(Flipped(st))

(* A call goes ahead in state st.  It has taken a unit with wait_list_down *)
(* in state takes, and adds one with wait_list_up in state gives.          *)
Signal(st, takes, gives) ==
    /\ upCount' = CASE st = takes -> Tokens(st) - 1
                    [] st = gives -> Tokens(st) + 1
                    [] OTHER -> Tokens(st)
    /\ Run(Flipped(st) \cup IF st = gives THEN First ELSE {})

GoAhead(st, takes, gives) ==
    /\ st = takes => Tokens(st) > 0
    /\ waitersState' = st
    /\ Signal(st, takes, gives)
    /\ UNCHANGED <<waiters, running>>

-----------------------------------------------------------------------------
(* queue_push *)

PushState == StateIf(Size >= MaxSize, "full")

PushWaits(t) ==
    /\ running = t
    /\ t \in Producer
    /\ PushState = "full"
    /\ Wait(t, PushState)

(* Seeded defect: the part of the ring that had wrapped is not copied. *)
GrownInOnePart ==
    [i \in 0 .. 2 * capacity - 1 |->
        IF read + i < capacity THEN items[read + i] ELSE NoItem]

(* The ring after it has been resized: the items from read on first, then  *)
(* those that had wrapped, and the rest not initialized.                   *)
Grown ==
    [i \in 0 .. 2 * capacity - 1 |->
        IF i < capacity - read THEN items[read + i]
        ELSE IF i < capacity THEN items[i - (capacity - read)]
        ELSE NoItem]

(* write & (capacity - 1), where write < 2 * capacity. *)
Slot(w) == IF w < capacity THEN w ELSE w - capacity

Store(x) ==
    IF Size = capacity
    THEN /\ items' = [Grown EXCEPT ![Size] = x]
         /\ capacity' = 2 * capacity
         /\ read' = 0
         /\ write' = Size + 1
    ELSE /\ items' = [items EXCEPT ![Slot(write)] = x]
         /\ write' = write + 1
         /\ UNCHANGED <<capacity, read>>

PushItem(t, x) ==
    /\ running = t
    /\ t \in Producer
    /\ GoAhead(PushState, "full", "empty")
    /\ Store(x)
    /\ UNCHANGED result

-----------------------------------------------------------------------------
(* queue_shift *)

ShiftState == StateIf(read = write, "empty")

ShiftWaits(t) ==
    /\ running = t
    /\ t \in Consumer
    /\ ShiftState = "empty"
    /\ Wait(t, ShiftState)

(* Seeded defect: write is not brought back with read. *)
TakeOnlyRead ==
    /\ result' = items[read]
    /\ read' = IF read + 1 = capacity THEN 0 ELSE read + 1
    /\ UNCHANGED <<write, items, capacity>>

Take ==
    /\ result' = items[read]
    /\ IF read + 1 = capacity
       THEN /\ read' = 0
            /\ write' = write - capacity
       ELSE /\ read' = read + 1
            /\ UNCHANGED write
    /\ UNCHANGED <<items, capacity>>

ShiftItem(t) ==
    /\ running = t
    /\ t \in Consumer
    /\ GoAhead(ShiftState, "empty", "full")
    /\ Take

-----------------------------------------------------------------------------
(* The tasklets that use the queue.                                        *)

(* tasklet_later, tasklet_run *)
Later(t) ==
    /\ Run({t})
    /\ UNCHANGED <<ring, waitersState, waiters, upCount, result, running>>

Start(t) ==
    /\ running = NoTasklet
    /\ t \in pending
    /\ running' = t
    /\ pending' = pending \ {t}
    /\ UNCHANGED <<ring, waitersState, waiters, upCount, result>>

(* A handler that has not been told to wait returns when it is to be run   *)
(* again.                                                                  *)
Return(t) ==
    /\ running = t
    /\ t \in pending
    /\ running' = NoTasklet
    /\ UNCHANGED <<ring, waitersState, waiters, upCount, result, pending>>

(* Seeded defect: what is left in the count is not passed on. *)
NobodyInLine(t) == {}

Others(t) ==
    IF t \in ToSet(waiters)
    THEN RemoveAt(waiters, CHOOSE i \in DOMAIN waiters : waiters[i] = t)
    ELSE waiters

(* The tasklet that tasklet_unwait(t) runs: t was first, and leaves what   *)
(* there is to be had to the next.                                         *)
NextInLine(t) ==
    IF First = {t} /\ Others(t) # << >> /\ upCount > 0
    THEN {Head(Others(t))} ELSE {}

(* The handler waits for something else than the queue. *)
WaitElsewhere(t) ==
    /\ running = t
    /\ running' = NoTasklet
    /\ waiters' = Others(t)
    /\ Run(NextInLine(t))
    /\ UNCHANGED <<ring, waitersState, upCount, result>>

(* tasklet_stop, from the handler or from a thread that has the mutex. *)
Stop(t) ==
    /\ running \in {t, NoTasklet}
    /\ running' = NoTasklet
    /\ waiters' = Others(t)
    /\ pending' = (pending \ {t}) \cup NextInLine(t)
    /\ UNCHANGED <<ring, waitersState, upCount, result>>

-----------------------------------------------------------------------------
Push(t) == PushWaits(t) \/ \E x \in Item : PushItem(t, x)

Shift(t) == ShiftWaits(t) \/ ShiftItem(t)

Next ==
    \E t \in Tasklet :
        \/ Push(t) \/ Shift(t)
        \/ Later(t) \/ Start(t) \/ Return(t) \/ WaitElsewhere(t) \/ Stop(t)

(* Tasklets that are to be run are run, though they take turns at the      *)
(* mutex, and a handler that keeps being run in the end uses the queue.    *)
Fairness == \A t \in Tasklet : SF_vars(Start(t)) /\ SF_vars(Push(t) \/ Shift(t))

Spec == Init /\ [][Next]_vars
FairSpec == Spec /\ Fairness

-----------------------------------------------------------------------------
(* The types, with the invariants that queue.h states of the indices.      *)
TypeOK ==
    /\ capacity \in Nat \ {0}
    /\ items \in [0 .. capacity - 1 -> Item \cup {NoItem}]
    /\ read \in 0 .. capacity - 1
    /\ write \in read .. 2 * capacity - 1
    /\ waitersState \in {"neither", "full", "empty"}
    /\ waiters \in Seq(Tasklet)
    /\ upCount \in Nat
    /\ result \in Item
    /\ pending \subseteq Tasklet
    /\ running \in Tasklet \cup {NoTasklet}

Contents == [i \in 1 .. Size |-> items[Slot(read + i - 1)]]

FIFO == INSTANCE BoundedQueue WITH contents <- Contents

(* The ring, whether wrapped, resized or both, is a first-in first-out     *)
(* queue of at most max_size items.                                        *)
ImplementsFIFO == FIFO!Spec

(* The count of the wait list stands for what its waiters wait for: room   *)
(* or items.  So queue_shift never takes from an empty queue (its          *)
(* assertion), and queue_push never exceeds max_size.                      *)
TokensExact ==
    /\ Size <= MaxSize
    /\ upCount = CASE waitersState = "full" -> MaxSize - Size
                   [] waitersState = "empty" -> Size
                   [] OTHER -> 0

Awake(t) == t \in pending \/ running = t

CouldGo(t) == IF t \in Producer THEN Size < MaxSize ELSE Size > 0

(* A waiter that could go ahead is awake, or behind one that is awake and  *)
(* will pass on what it does not take; whichever side it is on, and        *)
(* whatever side the wait list was last used for.                          *)
NobodyForgotten ==
    \A i \in DOMAIN waiters :
        CouldGo(waiters[i]) => \E j \in 1 .. i : Awake(waiters[j])

(* A tasklet that is alone on its side of the queue does not wait while it *)
(* could go ahead, as long as handlers that are run use the queue.         *)
WaitersGo ==
    \A t \in Tasklet : Producer = {t} \/ Consumer = {t} =>
        (t \in ToSet(waiters) /\ CouldGo(t) ~>
            Awake(t) \/ ~CouldGo(t) \/ t \notin ToSet(waiters))
=============================================================================
