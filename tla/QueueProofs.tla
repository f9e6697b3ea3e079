----------------------------- MODULE QueueProofs -----------------------------
(***************************************************************************)
(* Proofs about Queue, for every capacity and every bound on the size.     *)
(***************************************************************************)
EXTENDS Queue, SequenceLemmas

RingOK ==
    /\ capacity \in Nat \ {0}
    /\ items \in [0 .. capacity - 1 -> Item \cup {NoItem}]
    /\ read \in 0 .. capacity - 1
    /\ write \in read .. 2 * capacity - 1
    /\ Size <= capacity
    /\ \A k \in 0 .. Size - 1 : items[Slot(read + k)] \in Item

CallsOK ==
    /\ waitersState \in {"neither", "full", "empty"}
    /\ waiters \in Seq(Tasklet)
    /\ upCount \in Nat
    /\ result \in Item
    /\ pending \subseteq Tasklet
    /\ running \in Tasklet \cup {NoTasklet}

IInv == RingOK /\ CallsOK /\ TokensExact

LEMMA IInvImpliesTypeOK == IInv => TypeOK
BY DEF IInv, RingOK, CallsOK, TypeOK

LEMMA InitIInv == Init => IInv
BY ConstantsAssumption
   DEF Init, IInv, RingOK, CallsOK, TokensExact, Size, Slot, Tasklet

-----------------------------------------------------------------------------
(* The ring. *)

(* The slots of a ring in use are different. *)
LEMMA Slots ==
    ASSUME RingOK
    PROVE  /\ Size \in Nat /\ write = read + Size
           /\ \A k \in 0 .. Size : read + k \in Nat /\ read + k < 2 * capacity
           /\ \A k \in 0 .. Size : Slot(read + k) \in 0 .. capacity - 1
           /\ Size < capacity =>
                 \A k \in 0 .. Size - 1 : Slot(read + k) # Slot(write)
BY DEF RingOK, Size, Slot

(* queue_push stores the item after those that are there, whether it       *)
(* resizes the ring or not.                                                *)
LEMMA StoreAppends ==
    ASSUME RingOK, NEW x \in Item, Store(x), NEW n, n = Size
    PROVE  /\ RingOK'
           /\ Size' = Size + 1
           /\ \A k \in 0 .. Size - 1 :
                 items'[Slot(read + k)'] = items[Slot(read + k)]
           /\ items'[Slot(read + n)'] = x
<1>1. CASE Size = capacity
  <2>1. /\ capacity' = 2 * capacity /\ read' = 0 /\ write' = capacity + 1
        /\ items' = [Grown EXCEPT ![capacity] = x]
    BY <1>1 DEF Store
  <2>2. /\ Grown \in [0 .. 2 * capacity - 1 -> Item \cup {NoItem}]
        /\ \A k \in 0 .. capacity - 1 : Grown[k] = items[Slot(read + k)]
    BY <1>1 DEF RingOK, Grown, Slot, Size
  <2>3. /\ capacity' \in Nat \ {0} /\ read' \in 0 .. capacity' - 1
        /\ write' \in read' .. 2 * capacity' - 1
        /\ Size' = Size + 1 /\ Size' <= capacity'
    BY <1>1, <2>1 DEF RingOK, Size
  <2>4. /\ items' \in [0 .. capacity' - 1 -> Item \cup {NoItem}]
        /\ items'[capacity] = x
        /\ \A k \in 0 .. capacity - 1 : items'[k] = Grown[k]
    BY <2>1, <2>2 DEF RingOK
  <2>5. \A k \in 0 .. Size : Slot(read + k)' = k
    BY <1>1, <2>1 DEF RingOK, Slot
  <2>6. /\ \A k \in 0 .. Size - 1 : items'[Slot(read + k)'] = items[Slot(read + k)]
        /\ items'[Slot(read + n)'] = x
    <3>1. Size \in Nat /\ n = Size /\ capacity = Size
      BY <1>1, Slots
    <3>2. ASSUME NEW k \in 0 .. Size - 1
          PROVE  items'[Slot(read + k)'] = items[Slot(read + k)]
      <4>1. k \in 0 .. Size /\ k \in 0 .. capacity - 1
        BY <3>1
      <4> QED
        BY <2>2, <2>4, <2>5, <4>1
    <3>3. items'[Slot(read + n)'] = x
      <4>1. n \in 0 .. Size
        BY <3>1
      <4>2. Slot(read + n)' = n
        BY <2>1, <2>5, <4>1
      <4> QED
        BY <2>4, <3>1, <4>2
    <3> QED
      BY <3>2, <3>3
  <2>7. \A k \in 0 .. Size' - 1 : items'[Slot(read + k)'] \in Item
    <3>1. \A k \in 0 .. Size - 1 : items[Slot(read + k)] \in Item
      BY DEF RingOK
    <3>2. \A k \in 0 .. Size' - 1 : k = Size \/ k \in 0 .. Size - 1
      BY <2>3, Slots
    <3> QED
      BY <2>6, <3>1, <3>2
  <2> QED
    BY <2>3, <2>4, <2>6, <2>7 DEF RingOK
<1>2. CASE Size # capacity
  <2>1. /\ items' = [items EXCEPT ![Slot(write)] = x]
        /\ write' = write + 1
        /\ UNCHANGED <<capacity, read>>
    BY <1>2 DEF Store
  <2>2. Size < capacity
    BY <1>2, Slots DEF RingOK
  <2>3. /\ write' \in read' .. 2 * capacity' - 1
        /\ Size' = Size + 1 /\ Size' <= capacity'
    BY <2>1, <2>2 DEF RingOK, Size
  <2>4. /\ items' \in [0 .. capacity' - 1 -> Item \cup {NoItem}]
        /\ items'[Slot(write)] = x
        /\ \A i \in 0 .. capacity - 1 : i # Slot(write) => items'[i] = items[i]
    BY <2>1, Slots DEF RingOK
  <2>5. \A k \in 0 .. Size : Slot(read + k)' = Slot(read + k)
    BY <2>1 DEF Slot
  <2>6. /\ \A k \in 0 .. Size - 1 : items'[Slot(read + k)'] = items[Slot(read + k)]
        /\ items'[Slot(read + n)'] = x
    BY <2>2, <2>4, <2>5, Slots
  <2>7. \A k \in 0 .. Size' - 1 : items'[Slot(read + k)'] \in Item
    <3>1. \A k \in 0 .. Size - 1 : items[Slot(read + k)] \in Item
      BY DEF RingOK
    <3>2. \A k \in 0 .. Size' - 1 : k = Size \/ k \in 0 .. Size - 1
      BY <2>3, Slots
    <3> QED
      BY <2>6, <3>1, <3>2
  <2> QED
    BY <2>1, <2>3, <2>4, <2>6, <2>7 DEF RingOK
<1> QED
  BY <1>1, <1>2

(* queue_shift takes the first item, and the others move up. *)
LEMMA TakeRemoves ==
    ASSUME RingOK, Take, Size > 0
    PROVE  /\ RingOK'
           /\ Size' = Size - 1
           /\ result' = items[Slot(read)]
           /\ result' \in Item
           /\ \A k \in 0 .. Size - 2 :
                 items'[Slot(read + k)'] = items[Slot(read + (k + 1))]
<1>1. /\ result' = items[Slot(read)]
      /\ UNCHANGED <<items, capacity>>
  BY DEF Take, RingOK, Slot
<1>2. result' \in Item
  <2>1. items[Slot(read + 0)] \in Item
    BY Slots DEF RingOK
  <2>2. read + 0 = read
    BY DEF RingOK
  <2> QED
    BY <1>1, <2>1, <2>2
<1>3. /\ read' \in 0 .. capacity' - 1
      /\ write' \in read' .. 2 * capacity' - 1
      /\ Size' = Size - 1 /\ Size' <= capacity'
  <2>1. CASE read + 1 = capacity
    BY <2>1 DEF Take, RingOK, Size
  <2>2. CASE read + 1 # capacity
    BY <2>2 DEF Take, RingOK, Size
  <2> QED
    BY <2>1, <2>2
<1>4. \A k \in 0 .. Size - 2 : Slot(read + k)' = Slot(read + (k + 1))
  <2>1. CASE read + 1 = capacity
    BY <2>1 DEF Take, RingOK, Size, Slot
  <2>2. CASE read + 1 # capacity
    BY <2>2 DEF Take, RingOK, Size, Slot
  <2> QED
    BY <2>1, <2>2
<1>5. \A k \in 0 .. Size - 2 :
         items'[Slot(read + k)'] = items[Slot(read + (k + 1))]
  BY <1>1, <1>4
<1>6. \A k \in 0 .. Size' - 1 : items'[Slot(read + k)'] \in Item
  <2>1. \A k \in 0 .. Size' - 1 : k \in 0 .. Size - 2 /\ k + 1 \in 0 .. Size - 1
    BY <1>3, Slots
  <2> QED
    BY <1>5, <2>1 DEF RingOK
<1> QED
  BY <1>1, <1>2, <1>3, <1>5, <1>6 DEF RingOK

-----------------------------------------------------------------------------
(* The waiters. *)

LEMMA OthersType ==
    ASSUME CallsOK, NEW t \in Tasklet
    PROVE  Others(t) \in Seq(Tasklet)
<1>1. CASE t \in ToSet(waiters)
  <2> DEFINE i == CHOOSE j \in DOMAIN waiters : waiters[j] = t
  <2>1. waiters \in Seq(Tasklet) /\ i \in DOMAIN waiters
    BY <1>1 DEF CallsOK, ToSet
  <2>2. Others(t) = RemoveAt(waiters, i)
    BY <1>1 DEF Others
  <2> HIDE DEF i
  <2>3. i \in 1 .. Len(waiters)
    BY <2>1
  <2> QED
    BY <2>1, <2>2, <2>3, RemovedAt
<1>2. CASE t \notin ToSet(waiters)
  BY <1>2 DEF Others, CallsOK
<1> QED
  BY <1>1, <1>2

(* What tasklet_run is called for are tasklets. *)
LEMMA RunTypes ==
    ASSUME CallsOK
    PROVE  /\ ToSet(waiters) \subseteq Tasklet
           /\ First \subseteq Tasklet
           /\ \A st : Flipped(st) \subseteq Tasklet
           /\ \A t \in Tasklet : NextInLine(t) \subseteq Tasklet
<1>1. waiters \in Seq(Tasklet)
  BY DEF CallsOK
<1>2. ToSet(waiters) \subseteq Tasklet
  BY <1>1, LenProperties, ElementOfSeq DEF ToSet
<1>3. First \subseteq Tasklet
  BY <1>1, HeadTailProperties DEF First
<1>4. \A st : Flipped(st) \subseteq Tasklet
  BY <1>2 DEF Flipped
<1>5. \A t \in Tasklet : NextInLine(t) \subseteq Tasklet
  BY OthersType, HeadTailProperties DEF NextInLine
<1> QED
  BY <1>2, <1>3, <1>4, <1>5

LEMMA WaitKeepsIInv ==
    ASSUME IInv, NEW t \in Tasklet, NEW st \in {"full", "empty"},
           st = "full" /\ st # waitersState => Size >= MaxSize,
           st = "empty" /\ st # waitersState => Size = 0,
           Wait(t, st)
    PROVE  IInv'
<1>1. UNCHANGED <<ring, result>> /\ Size' = Size
  BY DEF Wait, ring, Size
<1>2. RingOK'
  BY <1>1 DEF IInv, RingOK, ring, Size, Slot
<1>3. CallsOK'
  <2>1. waiters' \in Seq(Tasklet)
    BY AppendProperties DEF Wait, IInv, CallsOK
  <2>2. pending' \subseteq Tasklet
    BY RunTypes DEF Wait, IInv, CallsOK, Run
  <2> QED
    BY <1>1, <2>1, <2>2 DEF Wait, IInv, CallsOK
<1>4. TokensExact'
  <2>1. Size \in Nat
    BY Slots DEF IInv
  <2>2. waitersState' = st /\ upCount' = 0 /\ Tokens(st) = 0
    BY DEF Wait
  <2> QED
    BY <1>1, <2>1, <2>2, ConstantsAssumption DEF IInv, TokensExact, Tokens
<1> QED
  BY <1>2, <1>3, <1>4 DEF IInv

(* A call that goes ahead leaves the types, whatever it does to the ring.  *)
LEMMA GoAheadTypes ==
    ASSUME CallsOK, NEW st \in {"neither", "full", "empty"},
           NEW takes \in {"full", "empty"}, NEW gives \in {"full", "empty"},
           result' \in Item, GoAhead(st, takes, gives)
    PROVE  CallsOK'
<1>1. Tokens(st) \in Nat
  BY DEF Tokens, CallsOK
<1>2. upCount' \in Nat
  <2>1. CASE st = takes
    BY <1>1, <2>1 DEF GoAhead, Signal
  <2>2. CASE st # takes /\ st = gives
    BY <1>1, <2>2 DEF GoAhead, Signal
  <2>3. CASE st # takes /\ st # gives
    BY <1>1, <2>3 DEF GoAhead, Signal
  <2> QED
    BY <2>1, <2>2, <2>3
<1>3. pending' \subseteq Tasklet
  BY RunTypes DEF GoAhead, Signal, Run, CallsOK
<1> QED
  BY <1>2, <1>3 DEF GoAhead, CallsOK

LEMMA PushKeepsIInv ==
    ASSUME IInv, NEW t \in Tasklet, NEW x \in Item, PushItem(t, x)
    PROVE  IInv'
<1> DEFINE st == PushState
<1>1. /\ GoAhead(st, "full", "empty") /\ Store(x) /\ result' = result
      /\ st \in {"neither", "full", "empty"}
  BY DEF PushItem, PushState, StateIf, IInv, CallsOK
<1>2. Size \in Nat /\ RingOK' /\ Size' = Size + 1
  BY <1>1, StoreAppends, Slots DEF IInv
<1>3. CallsOK'
  BY <1>1, GoAheadTypes DEF IInv, CallsOK
<1>4. /\ st = "full" => Tokens(st) > 0
      /\ waitersState' = st
      /\ Size >= MaxSize => st = "full"
      /\ st = waitersState \/ st = "full"
  BY <1>1 DEF GoAhead, PushState, StateIf
<1>5. upCount' = CASE st = "full" -> Tokens(st) - 1
                   [] st = "empty" -> Tokens(st) + 1
                   [] OTHER -> Tokens(st)
  BY <1>1 DEF GoAhead, Signal
<1> HIDE DEF st
<1>6. TokensExact'
  <2>1. CASE st = "full"
    BY <1>2, <1>4, <1>5, <2>1, ConstantsAssumption DEF IInv, CallsOK, TokensExact, Tokens
  <2>2. CASE st = "empty"
    BY <1>2, <1>4, <1>5, <2>2, ConstantsAssumption DEF IInv, CallsOK, TokensExact, Tokens
  <2>3. CASE st = "neither"
    BY <1>2, <1>4, <1>5, <2>3, ConstantsAssumption DEF IInv, CallsOK, TokensExact, Tokens
  <2> QED
    BY <1>1, <2>1, <2>2, <2>3 DEF st
<1> QED
  BY <1>2, <1>3, <1>6 DEF IInv

LEMMA ShiftKeepsIInv ==
    ASSUME IInv, NEW t \in Tasklet, ShiftItem(t)
    PROVE  IInv' /\ Size > 0
<1> DEFINE st == ShiftState
<1>1. /\ GoAhead(st, "empty", "full") /\ Take
      /\ st \in {"neither", "full", "empty"}
  BY DEF ShiftItem, ShiftState, StateIf, IInv, CallsOK
<1>2. /\ st = "empty" => Tokens(st) > 0
      /\ waitersState' = st
      /\ Size = 0 => st = "empty"
      /\ st = waitersState \/ st = "empty"
  BY <1>1 DEF GoAhead, ShiftState, StateIf, Size, IInv, RingOK
<1>3. upCount' = CASE st = "empty" -> Tokens(st) - 1
                   [] st = "full" -> Tokens(st) + 1
                   [] OTHER -> Tokens(st)
  BY <1>1 DEF GoAhead, Signal
<1>4. Size \in Nat /\ Size > 0
  <2>1. Size \in Nat
    BY Slots DEF IInv
  <2>2. st = "empty" => Size > 0
    BY <1>2, <2>1 DEF IInv, TokensExact, Tokens
  <2> QED
    BY <1>2, <2>1, <2>2
<1>5. RingOK' /\ Size' = Size - 1 /\ result' \in Item
  BY <1>1, <1>4, TakeRemoves DEF IInv
<1>6. CallsOK'
  BY <1>1, <1>5, GoAheadTypes DEF IInv
<1> HIDE DEF st
<1>7. TokensExact'
  <2>1. CASE st = "empty"
    BY <1>2, <1>3, <1>4, <1>5, <2>1, ConstantsAssumption DEF IInv, CallsOK, TokensExact, Tokens
  <2>2. CASE st = "full"
    BY <1>2, <1>3, <1>4, <1>5, <2>2, ConstantsAssumption DEF IInv, CallsOK, TokensExact, Tokens
  <2>3. CASE st = "neither"
    BY <1>2, <1>3, <1>4, <1>5, <2>3, ConstantsAssumption DEF IInv, CallsOK, TokensExact, Tokens
  <2> QED
    BY <1>1, <2>1, <2>2, <2>3 DEF st
<1> QED
  BY <1>4, <1>5, <1>6, <1>7 DEF IInv

(* The steps of the tasklets that do not use the queue. *)
Elsewhere(t) == Later(t) \/ Start(t) \/ Return(t) \/ WaitElsewhere(t) \/ Stop(t)

LEMMA ElsewhereKeepsIInv ==
    ASSUME IInv, NEW t \in Tasklet, Elsewhere(t)
    PROVE  IInv' /\ UNCHANGED <<ring, result>>
<1>1. UNCHANGED <<ring, waitersState, upCount, result>>
  BY DEF Elsewhere, Later, Start, Return, WaitElsewhere, Stop
<1>2. RingOK' /\ TokensExact'
  BY <1>1 DEF IInv, RingOK, TokensExact, ring, Size, Slot
<1>3. waiters' \in Seq(Tasklet)
  BY OthersType
     DEF Elsewhere, Later, Start, Return, WaitElsewhere, Stop, IInv, CallsOK
<1>4. pending' \subseteq Tasklet
  BY RunTypes
     DEF Elsewhere, Later, Start, Return, WaitElsewhere, Stop, IInv, CallsOK, Run
<1>5. running' \in Tasklet \cup {NoTasklet}
  BY DEF Elsewhere, Later, Start, Return, WaitElsewhere, Stop, IInv, CallsOK
<1> QED
  BY <1>1, <1>2, <1>3, <1>4, <1>5 DEF IInv, CallsOK

LEMMA NextCases ==
    ASSUME Next
    PROVE  \E t \in Tasklet :
              \/ PushWaits(t) \/ \E x \in Item : PushItem(t, x)
              \/ ShiftWaits(t) \/ ShiftItem(t)
              \/ Elsewhere(t)
BY DEF Next, Push, Shift, Elsewhere

LEMMA PushWaitsKeepsIInv ==
    ASSUME IInv, NEW t \in Tasklet, PushWaits(t)
    PROVE  IInv'
<1>1. Wait(t, "full")
  BY DEF PushWaits
<1>2. "full" # waitersState => Size >= MaxSize
  BY DEF PushWaits, PushState, StateIf
<1> QED
  BY <1>1, <1>2, WaitKeepsIInv

LEMMA ShiftWaitsKeepsIInv ==
    ASSUME IInv, NEW t \in Tasklet, ShiftWaits(t)
    PROVE  IInv'
<1>1. Wait(t, "empty")
  BY DEF ShiftWaits
<1>2. "empty" # waitersState => Size = 0
  BY DEF ShiftWaits, ShiftState, StateIf, IInv, RingOK, Size
<1> QED
  BY <1>1, <1>2, WaitKeepsIInv

LEMMA NextKeepsIInv == IInv /\ [Next]_vars => IInv'
<1> SUFFICES ASSUME IInv, [Next]_vars PROVE IInv'
  OBVIOUS
<1>1. CASE Next
  <2>1. PICK t \in Tasklet :
           \/ PushWaits(t) \/ \E x \in Item : PushItem(t, x)
           \/ ShiftWaits(t) \/ ShiftItem(t)
           \/ Elsewhere(t)
    BY <1>1, NextCases
  <2> QED
    BY <2>1, PushWaitsKeepsIInv, ShiftWaitsKeepsIInv, PushKeepsIInv,
       ShiftKeepsIInv, ElsewhereKeepsIInv
<1>2. CASE UNCHANGED vars
  BY <1>2 DEF vars, ring, IInv, RingOK, CallsOK, TokensExact, Size, Slot
<1> QED
  BY <1>1, <1>2

LEMMA IInvAlways == Spec => []IInv
<1> QED
  BY InitIInv, NextKeepsIInv, PTL DEF Spec

(* TypeOK: the indices of the ring keep what queue.h says of them, whatever *)
(* the capacity it starts with, the bound and the number of tasklets.      *)
THEOREM TypeCorrect == Spec => []TypeOK
<1> QED
  BY IInvAlways, IInvImpliesTypeOK, PTL

(* TokensExact: queue_push never exceeds max_size, queue_shift never takes *)
(* from an empty queue, and what the wait list counts is what there is.    *)
THEOREM TokensAreExact == Spec => []TokensExact
<1>1. IInv => TokensExact
  BY DEF IInv
<1> QED
  BY <1>1, IInvAlways, PTL

-----------------------------------------------------------------------------
(* The ring as a sequence. *)

ContentsOK ==
    /\ Size \in Nat
    /\ Contents \in Seq(Item)
    /\ Len(Contents) = Size
    /\ \A k \in 0 .. Size - 1 : Contents[k + 1] = items[Slot(read + k)]

LEMMA ContentsIsASeq == RingOK => ContentsOK
<1> SUFFICES ASSUME RingOK PROVE ContentsOK
  OBVIOUS
<1>1. Size \in Nat
  BY Slots
<1>2. \A k \in 0 .. Size - 1 : k + 1 \in 1 .. Size /\ read + (k + 1) - 1 = read + k
  BY <1>1 DEF RingOK
<1>3. \A k \in 0 .. Size - 1 : Contents[k + 1] = items[Slot(read + k)]
  BY <1>2 DEF Contents
<1>4. Contents \in [1 .. Size -> Item]
  <2>1. \A i \in 1 .. Size : i - 1 \in 0 .. Size - 1 /\ i - 1 + 1 = i
    BY <1>1
  <2>2. \A i \in 1 .. Size : Contents[i] \in Item
    BY <1>3, <2>1 DEF RingOK
  <2> QED
    BY <2>2 DEF Contents
<1> QED
  BY <1>1, <1>3, <1>4 DEF ContentsOK

LEMMA ContentsAfter == RingOK' => ContentsOK'
BY ContentsIsASeq, PTL

LEMMA PushAppends ==
    ASSUME IInv, NEW t \in Tasklet, NEW x \in Item, PushItem(t, x)
    PROVE  FIFO!Push
<1> DEFINE n == Size
<1>1. /\ Store(x) /\ result' = result
      /\ GoAhead(PushState, "full", "empty")
      /\ RingOK
  BY DEF PushItem, IInv
<1>2. ContentsOK /\ ContentsOK' /\ Size' = n + 1 /\ n \in Nat
  BY <1>1, StoreAppends, ContentsIsASeq, ContentsAfter DEF ContentsOK
<1>3. /\ \A k \in 0 .. n - 1 : items'[Slot(read + k)'] = items[Slot(read + k)]
      /\ \A k : k = n => items'[Slot(read + k)'] = x
  BY <1>1, StoreAppends
<1> HIDE DEF n
<1>4. /\ Append(Contents, x) \in Seq(Item)
      /\ Len(Append(Contents, x)) = n + 1
      /\ \A i \in 1 .. n : Append(Contents, x)[i] = Contents[i]
      /\ Append(Contents, x)[n + 1] = x
  BY <1>2, AppendProperties DEF ContentsOK, n
<1>5. \A i \in 1 .. n + 1 : Contents'[i] = Append(Contents, x)[i]
  <2>1. ASSUME NEW k \in 0 .. n
        PROVE  Contents'[k + 1] = Append(Contents, x)[k + 1]
    <3>1. Contents'[k + 1] = items'[Slot(read + k)']
      BY <1>2 DEF ContentsOK
    <3>2. CASE k = n
      BY <1>3, <1>4, <3>1, <3>2
    <3>3. CASE k # n
      <4>1. k \in 0 .. n - 1 /\ k + 1 \in 1 .. n
        BY <1>2, <3>3
      <4>2. Contents[k + 1] = items[Slot(read + k)]
        BY <1>2, <4>1 DEF ContentsOK, n
      <4> QED
        BY <1>3, <1>4, <3>1, <4>1, <4>2
    <3> QED
      BY <3>2, <3>3
  <2>2. \A i \in 1 .. n + 1 : i - 1 \in 0 .. n /\ i - 1 + 1 = i
    BY <1>2
  <2> QED
    BY <2>1, <2>2
<1>6. Contents' = Append(Contents, x)
  BY <1>2, <1>4, <1>5, SeqEqual DEF ContentsOK
<1>7. Len(Contents) < MaxSize
  <2>1. n = Len(Contents) /\ n <= MaxSize
    BY <1>2 DEF ContentsOK, IInv, TokensExact, n
  <2>2. PushState = "full" => Tokens("full") > 0
    BY <1>1 DEF GoAhead
  <2> QED
    BY <1>2, <2>1, <2>2, ConstantsAssumption
       DEF PushState, StateIf, Tokens, IInv, TokensExact, n
<1> QED
  BY <1>1, <1>6, <1>7 DEF FIFO!Push

LEMMA ShiftRemoves ==
    ASSUME IInv, NEW t \in Tasklet, ShiftItem(t)
    PROVE  FIFO!Shift
<1> DEFINE n == Size
<1>1. Take /\ RingOK /\ n > 0
  BY ShiftKeepsIInv DEF ShiftItem, IInv
<1>2. ContentsOK /\ ContentsOK' /\ Size' = n - 1 /\ n \in Nat
  BY <1>1, TakeRemoves, ContentsIsASeq, ContentsAfter DEF ContentsOK
<1>3. /\ result' = items[Slot(read)]
      /\ \A k \in 0 .. n - 2 :
            items'[Slot(read + k)'] = items[Slot(read + (k + 1))]
  BY <1>1, TakeRemoves
<1> HIDE DEF n
<1>4. Contents \in Seq(Item) /\ Len(Contents) = n /\ Contents # << >>
  BY <1>1, <1>2, EmptySeq DEF ContentsOK, n
<1>5. /\ Tail(Contents) \in Seq(Item)
      /\ Len(Tail(Contents)) = n - 1
      /\ \A i \in 1 .. n - 1 : Tail(Contents)[i] = Contents[i + 1]
  BY <1>4, HeadTailProperties
<1>6. result' = Head(Contents)
  <2>1. Head(Contents) = Contents[1]
    BY <1>4
  <2>2. Contents[0 + 1] = items[Slot(read + 0)]
    BY <1>1, <1>2 DEF ContentsOK, n
  <2>3. read + 0 = read
    BY <1>1 DEF RingOK
  <2> QED
    BY <1>3, <2>1, <2>2, <2>3
<1>7. \A i \in 1 .. n - 1 : Contents'[i] = Tail(Contents)[i]
  <2>1. ASSUME NEW k \in 0 .. n - 2
        PROVE  Contents'[k + 1] = Tail(Contents)[k + 1]
    <3>1. k + 1 \in 1 .. n - 1 /\ k + 1 \in 0 .. n - 1 /\ k \in 0 .. n - 1 - 1
      BY <1>2
    <3>2. Contents'[k + 1] = items'[Slot(read + k)']
      BY <1>2, <3>1 DEF ContentsOK
    <3>3. Contents[k + 1 + 1] = items[Slot(read + (k + 1))]
      BY <1>2, <3>1 DEF ContentsOK, n
    <3> QED
      BY <1>3, <1>5, <3>1, <3>2, <3>3
  <2>2. \A i \in 1 .. n - 1 : i - 1 \in 0 .. n - 2 /\ i - 1 + 1 = i
    BY <1>2
  <2> QED
    BY <2>1, <2>2
<1>8. Contents' = Tail(Contents)
  BY <1>2, <1>5, <1>7, SeqEqual DEF ContentsOK
<1> QED
  BY <1>4, <1>6, <1>8 DEF FIFO!Shift

LEMMA NextRefines == IInv /\ [Next]_vars => [FIFO!Next]_<<Contents, result>>
<1> SUFFICES ASSUME IInv, [Next]_vars PROVE [FIFO!Next]_<<Contents, result>>
  OBVIOUS
<1>1. UNCHANGED <<ring, result>> => UNCHANGED <<Contents, result>>
  BY DEF ring, Contents, Size, Slot
<1>2. CASE Next
  <2>1. PICK t \in Tasklet :
           \/ PushWaits(t) \/ \E x \in Item : PushItem(t, x)
           \/ ShiftWaits(t) \/ ShiftItem(t)
           \/ Elsewhere(t)
    BY <1>2, NextCases
  <2>2. PushWaits(t) \/ ShiftWaits(t) => UNCHANGED <<ring, result>>
    BY DEF PushWaits, ShiftWaits, Wait
  <2> QED
    BY <1>1, <2>1, <2>2, PushAppends, ShiftRemoves, ElsewhereKeepsIInv
       DEF FIFO!Next
<1>3. CASE UNCHANGED vars
  BY <1>1, <1>3 DEF vars
<1> QED
  BY <1>2, <1>3

(* ImplementsFIFO: whatever has wrapped, been resized or both, the items   *)
(* come out of the ring in the order in which they went in, each once, and *)
(* there are never more than max_size of them.                             *)
THEOREM RingImplementsFIFO == Spec => ImplementsFIFO
<1>1. Init => FIFO!Init
  <2> SUFFICES ASSUME Init PROVE FIFO!Init
    OBVIOUS
  <2>1. RingOK /\ Size = 0
    BY InitIInv DEF Init, IInv, Size
  <2>2. Contents = << >>
    BY <2>1, ContentsIsASeq, EmptySeq DEF ContentsOK
  <2> QED
    BY <2>2 DEF Init, FIFO!Init
<1> QED
  BY <1>1, NextRefines, IInvAlways, PTL DEF Spec, ImplementsFIFO, FIFO!Spec

-----------------------------------------------------------------------------
(* The waiters.  A tasklet that sleeps on the wait list waits for what the *)
(* list counts now: a change of what it counts wakes them all.  As long as *)
(* there is something to be had the first of the list is awake, and it     *)
(* passes on what it leaves.                                               *)

Side(t) == IF t \in Producer THEN "full" ELSE "empty"

FirstAwake == upCount > 0 /\ waiters # << >> => Awake(Head(waiters))

WInv ==
    /\ IsInjective(waiters)
    /\ \A w \in Tasklet : Contains(waiters, w) => Awake(w) \/ waitersState = Side(w)
    /\ FirstAwake

QInv == IInv /\ WInv

LEMMA OnTheList ==
    ASSUME CallsOK
    PROVE  /\ waiters \in Seq(Tasklet)
           /\ \A w : Contains(waiters, w) <=> w \in ToSet(waiters)
           /\ waiters # << >> => /\ Head(waiters) \in Tasklet
                                 /\ Contains(waiters, Head(waiters))
<1>1. waiters \in Seq(Tasklet) /\ DOMAIN waiters = 1 .. Len(waiters)
  BY DEF CallsOK
<1>2. ASSUME waiters # << >>
      PROVE  Head(waiters) \in Tasklet /\ Contains(waiters, Head(waiters))
  <2>1. 1 \in 1 .. Len(waiters) /\ Head(waiters) = waiters[1]
    BY <1>1, <1>2
  <2> QED
    BY <1>1, <2>1 DEF Contains
<1> QED
  BY <1>1, <1>2 DEF Contains, ToSet

LEMMA WInvInit == Init => WInv
<1> SUFFICES ASSUME Init PROVE WInv
  OBVIOUS
<1>1. waiters = << >> /\ Len(waiters) = 0
  BY DEF Init
<1> QED
  BY <1>1 DEF WInv, FirstAwake, IsInjective, Contains

(* A handler waits: nothing is left for those that wait already, or they   *)
(* have been woken.                                                        *)
LEMMA WaitKeepsWInv ==
    ASSUME QInv, NEW t \in Tasklet, Wait(t, Side(t)), running = t
    PROVE  WInv'
<1> USE DEF QInv, IInv
<1>1. /\ waitersState' = Side(t) /\ upCount' = 0
      /\ waiters' = IF t \in ToSet(waiters) THEN waiters ELSE Append(waiters, t)
      /\ pending' = pending \cup Flipped(Side(t))
  BY DEF Wait, Run
<1>2. /\ waiters \in Seq(Tasklet) /\ IsInjective(waiters)
      /\ \A w : Contains(waiters, w) <=> w \in ToSet(waiters)
  BY OnTheList DEF WInv
<1>3. IsInjective(waiters') /\ \A w : Contains(waiters', w) => Contains(waiters, w) \/ w = t
  <2>1. CASE t \in ToSet(waiters)
    BY <1>1, <1>2, <2>1
  <2>2. CASE t \notin ToSet(waiters)
    BY <1>1, <1>2, <2>2, AppendedOne
  <2> QED
    BY <2>1, <2>2
<1>4. ASSUME NEW w \in Tasklet, Contains(waiters', w)
      PROVE  Awake(w)' \/ waitersState' = Side(w)
  <2>1. CASE w = t
    BY <1>1, <2>1
  <2>2. CASE w # t
    <3>1. Contains(waiters, w) /\ w \in ToSet(waiters)
      BY <1>2, <1>3, <1>4, <2>2
    <3>2. CASE Side(t) = waitersState
      <4>1. Awake(w) \/ waitersState = Side(w)
        BY <3>1 DEF WInv
      <4> QED
        BY <1>1, <2>2, <3>2, <4>1 DEF Awake
    <3>3. CASE Side(t) # waitersState
      BY <1>1, <3>1, <3>3 DEF Flipped, Awake
    <3> QED
      BY <3>2, <3>3
  <2> QED
    BY <2>1, <2>2
<1>5. FirstAwake'
  BY <1>1 DEF FirstAwake
<1>6. \A w \in Tasklet : Contains(waiters, w)' => Awake(w)' \/ waitersState' = Side(w)
  BY <1>4
<1> QED
  BY <1>3, <1>5, <1>6 DEF WInv, Side

(* A call goes ahead: if it adds to what there is, the first waiter is     *)
(* woken.                                                                  *)
LEMMA GoAheadKeepsWInv ==
    ASSUME QInv, NEW st, NEW takes, NEW gives, GoAhead(st, takes, gives)
    PROVE  WInv'
<1> USE DEF QInv, IInv
<1>1. /\ UNCHANGED <<waiters, running>> /\ waitersState' = st
      /\ pending' = pending \cup (Flipped(st) \cup IF st = gives THEN First ELSE {})
      /\ upCount' = CASE st = takes -> Tokens(st) - 1
                      [] st = gives -> Tokens(st) + 1
                      [] OTHER -> Tokens(st)
      /\ st = takes => Tokens(st) > 0
  BY DEF GoAhead, Signal, Run
<1>2. ASSUME NEW w \in Tasklet, Contains(waiters, w)
      PROVE  Awake(w)' \/ st = Side(w)
  <2>1. CASE st = waitersState
    BY <1>1, <1>2, <2>1 DEF WInv, Awake
  <2>2. CASE st # waitersState
    BY <1>1, <1>2, <2>2, OnTheList DEF Flipped, Awake
  <2> QED
    BY <2>1, <2>2
<1>3. ASSUME upCount' > 0, waiters # << >> PROVE Awake(Head(waiters))'
  <2> DEFINE h == Head(waiters)
  <2>1. h \in Tasklet /\ Contains(waiters, h) /\ h \in ToSet(waiters) /\ h' = h
    BY <1>1, <1>3, OnTheList
  <2>2. CASE st # waitersState
    BY <1>1, <2>1, <2>2 DEF Flipped, Awake
  <2>3. CASE st = gives
    BY <1>1, <1>3, <2>1, <2>3 DEF First, Awake
  <2>4. CASE st = waitersState /\ st # gives
    <3>1. upCount > 0
      <4>1. upCount \in Nat /\ Tokens(st) = upCount
        BY <2>4 DEF CallsOK, Tokens
      <4>2. CASE st = takes
        BY <1>1, <4>1, <4>2
      <4>3. CASE st # takes
        BY <1>1, <1>3, <2>4, <4>1, <4>3
      <4> QED
        BY <4>2, <4>3
    <3>2. Awake(h)
      BY <1>3, <3>1 DEF WInv, FirstAwake
    <3> QED
      BY <1>1, <2>1, <3>2 DEF Awake
  <2> QED
    BY <2>2, <2>3, <2>4
<1>4. FirstAwake'
  BY <1>1, <1>3 DEF FirstAwake
<1>5. IsInjective(waiters)'
  BY <1>1 DEF WInv
<1>6. \A w \in Tasklet : Contains(waiters, w)' => Awake(w)' \/ waitersState' = Side(w)
  BY <1>1, <1>2
<1> QED
  BY <1>4, <1>5, <1>6 DEF WInv, Side

(* Who is left when t leaves the list. *)
LEMMA OthersAre ==
    ASSUME QInv, NEW t \in Tasklet
    PROVE  /\ Others(t) \in Seq(Tasklet) /\ IsInjective(Others(t))
           /\ \A w : Contains(Others(t), w) <=> Contains(waiters, w) /\ w # t
           /\ First # {t} => Others(t) = << >> \/ Head(Others(t)) = Head(waiters)
           /\ Others(t) # << >> => /\ Head(Others(t)) \in Tasklet \ {t}
                                   /\ waiters # << >>
<1> USE DEF QInv, IInv
<1>1. /\ waiters \in Seq(Tasklet) /\ IsInjective(waiters)
      /\ \A w : Contains(waiters, w) <=> w \in ToSet(waiters)
  BY OnTheList DEF WInv
<1>2. /\ Others(t) \in Seq(Tasklet) /\ IsInjective(Others(t))
      /\ \A w : Contains(Others(t), w) <=> Contains(waiters, w) /\ w # t
      /\ First # {t} => Others(t) = << >> \/ Head(Others(t)) = Head(waiters)
  <2>1. CASE t \in ToSet(waiters)
    <3> DEFINE i == CHOOSE j \in DOMAIN waiters : waiters[j] = t
    <3>1. i \in DOMAIN waiters /\ waiters[i] = t
      BY <2>1 DEF ToSet
    <3>2. Others(t) = RemoveAt(waiters, i)
      BY <2>1 DEF Others
    <3> HIDE DEF i
    <3>3. i \in 1 .. Len(waiters) /\ Len(waiters) \in Nat
      BY <1>1, <3>1
    <3>4. /\ Others(t) \in Seq(Tasklet) /\ IsInjective(Others(t))
          /\ \A w : Contains(Others(t), w) <=> Contains(waiters, w) /\ w # t
          /\ i # 1 => Head(Others(t)) = Head(waiters)
      BY <1>1, <3>1, <3>2, <3>3, RemovedOne
    <3>5. i = 1 => First = {t}
      BY <1>1, <3>1, <3>3 DEF First
    <3> QED
      BY <3>4, <3>5
  <2>2. CASE t \notin ToSet(waiters)
    BY <1>1, <2>2 DEF Others
  <2> QED
    BY <2>1, <2>2
<1>3. ASSUME Others(t) # << >> PROVE Head(Others(t)) \in Tasklet \ {t} /\ waiters # << >>
  <2> DEFINE o == Others(t)
  <2>1. o[1] \in Tasklet /\ 1 \in 1 .. Len(o) /\ Head(o) = o[1]
    BY <1>2, <1>3
  <2>2. Contains(o, o[1])
    BY <2>1 DEF Contains
  <2>3. Contains(waiters, o[1]) /\ o[1] # t
    BY <1>2, <2>2
  <2>4. waiters # << >>
    BY <1>1, <2>3 DEF ToSet
  <2> QED
    BY <2>1, <2>3, <2>4
<1> QED
  BY <1>2, <1>3

(* A tasklet leaves the list, and passes on to the next what there is.     *)
LEMMA LeaveKeepsWInv ==
    ASSUME QInv, NEW t \in Tasklet, waiters' = Others(t),
           UNCHANGED <<waitersState, upCount>>,
           NextInLine(t) \subseteq pending',
           \A w \in Tasklet \ {t} : Awake(w) => Awake(w)'
    PROVE  WInv'
<1> USE DEF QInv, IInv
<1>1. /\ waiters' \in Seq(Tasklet) /\ IsInjective(waiters')
      /\ \A w : Contains(waiters', w) <=> Contains(waiters, w) /\ w # t
  BY OthersAre
<1>2. ASSUME NEW w \in Tasklet, Contains(waiters', w)
      PROVE  Awake(w)' \/ waitersState' = Side(w)
  BY <1>1, <1>2 DEF WInv
<1>3. ASSUME upCount' > 0, waiters' # << >> PROVE Awake(Head(waiters))'
  <2>1. PICK h \in Tasklet \ {t} :
           h = Head(waiters') /\ waiters # << >> /\ h = Head(Others(t)) /\ upCount > 0
    BY <1>3, OthersAre
  <2>2. CASE First = {t}
    <3>1. h \in pending'
      BY <1>3, <2>1, <2>2 DEF NextInLine
    <3> QED
      BY <2>1, <3>1 DEF Awake
  <2>3. CASE First # {t}
    <3>1. h = Head(waiters)
      BY <1>3, <2>1, <2>3, OthersAre
    <3>2. Awake(h)'
      BY <2>1, <3>1 DEF WInv, FirstAwake
    <3> QED
      BY <2>1, <3>2 DEF Awake
  <2> QED
    BY <2>2, <2>3
<1>4. FirstAwake'
  BY <1>3 DEF FirstAwake
<1>5. \A w \in Tasklet : Contains(waiters, w)' => Awake(w)' \/ waitersState' = Side(w)
  BY <1>2
<1> QED
  BY <1>1, <1>4, <1>5 DEF WInv, Side

LEMMA WInvNext == QInv /\ [Next]_vars => WInv'
<1> SUFFICES ASSUME QInv, [Next]_vars PROVE WInv'
  OBVIOUS
<1>1. ASSUME NEW t \in Tasklet, PushWaits(t) \/ ShiftWaits(t) PROVE WInv'
  <2>1. Wait(t, Side(t)) /\ running = t
    BY <1>1, ConstantsAssumption DEF PushWaits, ShiftWaits, Side
  <2> QED
    BY <2>1, WaitKeepsWInv
<1>2. ASSUME NEW t \in Tasklet, ShiftItem(t) \/ \E x \in Item : PushItem(t, x)
      PROVE  WInv'
  BY <1>2, GoAheadKeepsWInv DEF ShiftItem, PushItem
<1>3. ASSUME NEW t \in Tasklet, WaitElsewhere(t) \/ Stop(t) PROVE WInv'
  <2>1. CASE WaitElsewhere(t)
    BY <2>1, LeaveKeepsWInv DEF WaitElsewhere, Run, Awake
  <2>2. CASE Stop(t)
    BY <2>2, LeaveKeepsWInv DEF Stop, Awake
  <2> QED
    BY <1>3, <2>1, <2>2
<1>4. ASSUME NEW t \in Tasklet, Later(t) \/ Start(t) \/ Return(t) PROVE WInv'
  <2>1. UNCHANGED <<waiters, waitersState, upCount>>
    BY <1>4 DEF Later, Start, Return
  <2>2. \A w \in Tasklet : Awake(w) => Awake(w)'
    <3>1. CASE Later(t)
      BY <3>1 DEF Later, Run, Awake
    <3>2. CASE Start(t)
      BY <3>2, ConstantsAssumption DEF Start, Awake, Tasklet
    <3>3. CASE Return(t)
      BY <3>3 DEF Return, Awake
    <3> QED
      BY <1>4, <3>1, <3>2, <3>3
  <2>3. FirstAwake'
    BY <2>1, <2>2, OnTheList DEF QInv, IInv, WInv, FirstAwake
  <2> QED
    BY <2>1, <2>2, <2>3 DEF QInv, WInv, Side
<1>5. CASE UNCHANGED vars
  BY <1>5 DEF vars, QInv, WInv, FirstAwake, Awake
<1> QED
  BY <1>1, <1>2, <1>3, <1>4, <1>5 DEF Next, Push, Shift

(* A tasklet that waits though it could go ahead is awake, or behind one   *)
(* that is: who does not take what there is passes it on, whichever side   *)
(* of the queue the list was last used for.                                *)
THEOREM NobodyStarves == Spec => []NobodyForgotten
<1>1. QInv => NobodyForgotten
  <2> SUFFICES ASSUME QInv, NEW i \in DOMAIN waiters, CouldGo(waiters[i])
               PROVE  \E j \in 1 .. i : Awake(waiters[j])
    BY DEF NobodyForgotten
  <2> USE DEF QInv, IInv
  <2>1. /\ waiters \in Seq(Tasklet) /\ i \in 1 .. Len(waiters) /\ Len(waiters) \in Nat
        /\ waiters[i] \in Tasklet /\ Contains(waiters, waiters[i])
        /\ waiters # << >> /\ Head(waiters) = waiters[1]
    BY DEF CallsOK, Contains
  <2>2. CASE Awake(waiters[i])
    BY <2>1, <2>2
  <2>3. CASE ~Awake(waiters[i])
    <3>1. waitersState = Side(waiters[i])
      BY <2>1, <2>3 DEF WInv
    <3>2. upCount > 0
      BY <3>1, Slots, ConstantsAssumption DEF Side, CouldGo, TokensExact
    <3>3. Awake(waiters[1])
      BY <2>1, <3>2 DEF WInv, FirstAwake
    <3> QED
      BY <2>1, <3>3
  <2> QED
    BY <2>2, <2>3
<1>2. Init => QInv
  BY InitIInv, WInvInit DEF QInv
<1>3. QInv /\ [Next]_vars => QInv'
  BY NextKeepsIInv, WInvNext DEF QInv
<1> QED
  BY <1>1, <1>2, <1>3, PTL DEF Spec
=============================================================================
