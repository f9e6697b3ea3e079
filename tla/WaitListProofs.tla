--------------------------- MODULE WaitListProofs ---------------------------
(***************************************************************************)
(* Proofs about WaitList, for any finite number of tasklets, any wait      *)
(* lists and any bound on the counts.                                      *)
(***************************************************************************)
EXTENDS WaitList, SequenceLemmas, FiniteSetTheorems

(* The call that a tasklet is in fits the place it is at, and the wait     *)
(* list of the call is in use.                                             *)
CallFits(t) ==
    /\ pc[t] \in {"idle", "body", "dead"} <=> op[t].kind = "none"
    /\ pc[t] = "call" => op[t].kind \in {"wait", "down"}
    /\ pc[t] = "off" => op[t].kind \notin {"wait", "down"}
    /\ IF op[t].kind \in {"wait", "down"}
       THEN /\ op[t].w \in WaitList
            /\ InUse(op[t].w)
            /\ op[t].kind = "down" <=> op[t].w \in Sema
       ELSE op[t].w = NoList

(* A thread that is on its way to a list has announced itself in the       *)
(* tasklet, unless wait_list_fini has taken the tasklet off that list; and *)
(* after tasklet_unwait the tasklet is on no list.                         *)
TargetFits(t) ==
    /\ pc[t] = "blocked" <=> target[t] # NoList
    /\ pc[t] = "blocked" => wait[t] \in {NoList, target[t]}
    /\ pc[t] \in {"off", "dead"} => wait[t] = NoList
    /\ tUnwaiting[t] = IF pc[t] = "blocked" /\ wait[t] = target[t] THEN 1 ELSE 0

(* A handler that was told to wait is on a list, unless something has made *)
(* sure that the tasklet is run again or not at all.                       *)
Answered(t) ==
    /\ ~result[t] => waited[t]
    /\ pc[t] = "body" /\ ~result[t] /\ ~pending[t] /\ ~stopped[t] => wait[t] # NoList

(* The list and the tasklets' fields agree, and nobody is on it twice.     *)
ListFits(w) ==
    /\ IsInjective(list[w])
    /\ \A t \in Tasklet : Contains(list[w], t) <=> wait[t] = w

(* How far wait_list_fini is, and what it has left to do.                  *)
FiniFits(w) ==
    /\ fini[w] \in {"run", "detach"} => list[w] # << >>
    /\ fini[w] \in {"wait", "woken", "done"} => list[w] = << >>
    /\ fini[w] \in {"none", "done"} => unwaiting[w] = 0
    /\ upCount[w] > 0 => w \in Sema

(* The threads on their way to the list for tasklets no longer on it.      *)
OnTheirWay(w) == {t \in BlockedOn(w) : wait[t] # w}
CountFits(w) == unwaiting[w] = Cardinality(OnTheirWay(w))

(* Between the two halves of a round of wait_list_fini's loop.             *)
HeadRun(w) ==
    LET t == Head(list[w])
    IN  fini[w] = "detach" /\ pc[t] = "body" /\ ~result[t] => pending[t] \/ stopped[t]

(* Who is at the head of a list that has something to be had is to be run, *)
(* or is running and has neither been told to wait nor been stopped.       *)
HeadAwake(w) ==
    LET t == Head(list[w])
    IN  InUse(w) /\ upCount[w] > 0 /\ list[w] # << >> =>
            \/ pending[t]
            \/ ~stopped[t] /\ pc[t] \in {"call", "unwait", "blocked"}
            \/ ~stopped[t] /\ pc[t] = "body" /\ result[t]

TaskletsOK == \A t \in Tasklet : CallFits(t) /\ TargetFits(t) /\ Answered(t)
LinksOK == \A w \in WaitList : ListFits(w)
ListsOK == \A w \in WaitList : FiniFits(w) /\ CountFits(w) /\ HeadRun(w) /\ HeadAwake(w)

(* The inductive invariant. *)
IInv == TypeOK /\ TaskletsOK /\ LinksOK /\ ListsOK

(* At first nothing is called, waited for or finalized.                    *)
LEMMA InitIInv == Init => IInv
<1> SUFFICES ASSUME Init PROVE IInv
  OBVIOUS
<1>1. TypeOK
  BY ConstantsAssumption DEF Init, TypeOK, NoOp
<1>2. TaskletsOK
  BY DEF Init, TaskletsOK, CallFits, TargetFits, Answered, NoOp
<1>3. LinksOK
  BY ConstantsAssumption DEF Init, LinksOK, ListFits, Contains, IsInjective
<1>4. ASSUME NEW w \in WaitList PROVE FiniFits(w) /\ CountFits(w) /\ HeadRun(w) /\ HeadAwake(w)
  <2>1. OnTheirWay(w) = {}
    BY DEF Init, OnTheirWay, BlockedOn
  <2>2. CountFits(w)
    BY <2>1, FS_EmptySet DEF Init, CountFits
  <2> QED
    BY <2>2 DEF Init, FiniFits, HeadRun, HeadAwake
<1> QED
  BY <1>1, <1>2, <1>3, <1>4 DEF IInv, ListsOK

-----------------------------------------------------------------------------
(* What adding to a list and removing from it do to the links.             *)

(* wait_list_add *)
LEMMA AddLinks ==
    ASSUME TypeOK, LinksOK, NEW w \in WaitList, NEW t \in Tasklet,
           wait[t] = NoList, Add(w, t)
    PROVE  /\ wait' \in [Tasklet -> WaitList \cup {NoList}]
           /\ list' \in [WaitList -> Seq(Tasklet)]
           /\ LinksOK'
           /\ wait'[t] = w /\ \A u \in Tasklet \ {t} : wait'[u] = wait[u]
           /\ \A v \in WaitList \ {w} : list'[v] = list[v]
           /\ list'[w] # << >>
           /\ Head(list'[w]) = IF list[w] = << >> THEN t ELSE Head(list[w])
<1> DEFINE s == Append(list[w], t)
<1>1. ~Contains(list[w], t)
  BY ConstantsAssumption DEF LinksOK, ListFits
<1>2. /\ s \in Seq(Tasklet) /\ IsInjective(s) /\ s # << >>
      /\ \A x : Contains(s, x) <=> Contains(list[w], x) \/ x = t
      /\ Head(s) = IF list[w] = << >> THEN t ELSE Head(list[w])
  <2>1. list[w] \in Seq(Tasklet) /\ IsInjective(list[w])
    BY DEF TypeOK, LinksOK, ListFits
  <2> QED
    BY <1>1, <2>1, AppendedOne
<1>3. list' = [list EXCEPT ![w] = s] /\ wait' = [wait EXCEPT ![t] = w]
  BY DEF Add
<1> HIDE DEF s
<1>4. /\ wait' \in [Tasklet -> WaitList \cup {NoList}]
      /\ list' \in [WaitList -> Seq(Tasklet)]
      /\ wait'[t] = w /\ \A u \in Tasklet \ {t} : wait'[u] = wait[u]
      /\ list'[w] = s /\ \A v \in WaitList \ {w} : list'[v] = list[v]
  BY <1>2, <1>3 DEF TypeOK
<1>5. LinksOK'
  <2> SUFFICES ASSUME NEW v \in WaitList PROVE ListFits(v)'
    BY DEF LinksOK
  <2>1. CASE v = w
    <3>1. \A u \in Tasklet : Contains(s, u) <=> wait'[u] = w
      BY <1>2, <1>4 DEF LinksOK, ListFits
    <3> QED
      BY <1>2, <1>4, <2>1, <3>1 DEF ListFits
  <2>2. CASE v # w
    <3>1. \A u \in Tasklet : wait'[u] = v <=> wait[u] = v
      BY <1>4, <2>2, ConstantsAssumption
    <3>2. list'[v] = list[v]
      BY <1>4, <2>2
    <3> QED
      BY <3>1, <3>2 DEF LinksOK, ListFits
  <2> QED
    BY <2>1, <2>2
<1> QED
  BY <1>2, <1>4, <1>5

(* A tasklet leaves the list it is on. *)
LEMMA LeaveLinks ==
    ASSUME TypeOK, LinksOK, NEW w \in WaitList, NEW t \in Tasklet, NEW s \in Seq(Tasklet),
           IsInjective(s), \A x : Contains(s, x) <=> Contains(list[w], x) /\ x # t,
           wait[t] = w, wait' = [wait EXCEPT ![t] = NoList],
           list' = [list EXCEPT ![w] = s]
    PROVE  /\ wait' \in [Tasklet -> WaitList \cup {NoList}]
           /\ list' \in [WaitList -> Seq(Tasklet)]
           /\ LinksOK'
           /\ wait'[t] = NoList /\ \A u \in Tasklet \ {t} : wait'[u] = wait[u]
           /\ list'[w] = s /\ \A v \in WaitList \ {w} : list'[v] = list[v]
<1>1. /\ wait' \in [Tasklet -> WaitList \cup {NoList}]
      /\ list' \in [WaitList -> Seq(Tasklet)]
      /\ wait'[t] = NoList /\ \A u \in Tasklet \ {t} : wait'[u] = wait[u]
      /\ list'[w] = s /\ \A v \in WaitList \ {w} : list'[v] = list[v]
  BY DEF TypeOK
<1>2. ASSUME NEW v \in WaitList PROVE ListFits(v)'
  <2>1. CASE v = w
    BY <1>1, <2>1, ConstantsAssumption DEF LinksOK, ListFits
  <2>2. CASE v # w
    BY <1>1, <2>2, ConstantsAssumption DEF LinksOK, ListFits
  <2> QED
    BY <2>1, <2>2
<1> QED
  BY <1>1, <1>2 DEF LinksOK

(* The removal in tasklet_unwait: the head stays unless it is the one.     *)
LEMMA RemoveLinks ==
    ASSUME TypeOK, LinksOK, NEW w \in WaitList, NEW t \in Tasklet, wait[t] = w,
           wait' = [wait EXCEPT ![t] = NoList],
           list' = [list EXCEPT ![w] = Without(list[w], t)]
    PROVE  /\ wait' \in [Tasklet -> WaitList \cup {NoList}]
           /\ list' \in [WaitList -> Seq(Tasklet)]
           /\ LinksOK'
           /\ wait'[t] = NoList /\ \A u \in Tasklet \ {t} : wait'[u] = wait[u]
           /\ list'[w] = Without(list[w], t)
           /\ \A v \in WaitList \ {w} : list'[v] = list[v]
           /\ list[w] # << >>
           /\ Head(list[w]) # t => list'[w] # << >> /\ Head(list'[w]) = Head(list[w])
<1> DEFINE s == list[w]
           n == CHOOSE m \in DOMAIN s : s[m] = t
           r == RemoveAt(s, n)
<1>1. s \in Seq(Tasklet) /\ IsInjective(s) /\ Contains(s, t)
  BY DEF TypeOK, LinksOK, ListFits
<1>2. n \in 1..Len(s) /\ s[n] = t
  <2>1. \E m \in DOMAIN s : s[m] = t
    BY <1>1 DEF Contains
  <2> QED
    BY <1>1, <2>1
<1>3. Without(s, t) = r
  BY DEF Without
<1> HIDE DEF n
<1>4. /\ r \in Seq(Tasklet) /\ IsInjective(r)
      /\ \A x : Contains(r, x) <=> Contains(s, x) /\ x # t
      /\ n # 1 => r # << >> /\ Head(r) = Head(s)
  <2> HIDE DEF s
  <2>1. /\ r \in Seq(Tasklet) /\ IsInjective(r) /\ Len(r) = Len(s) - 1
        /\ \A x : Contains(r, x) <=> Contains(s, x) /\ x # s[n]
        /\ n # 1 => r # << >> /\ Head(r) = Head(s)
    BY <1>1, <1>2, RemovedOne
  <2> HIDE DEF r
  <2> QED
    BY <1>2, <2>1
<1>5. s # << >> /\ (Head(s) # t => n # 1)
  <2> HIDE DEF s
  <2> QED
    BY <1>1, <1>2
<1> HIDE DEF r
<1>6. /\ wait' \in [Tasklet -> WaitList \cup {NoList}]
      /\ list' \in [WaitList -> Seq(Tasklet)]
      /\ LinksOK'
      /\ wait'[t] = NoList /\ \A u \in Tasklet \ {t} : wait'[u] = wait[u]
      /\ list'[w] = r /\ \A v \in WaitList \ {w} : list'[v] = list[v]
  <2>1. list' = [list EXCEPT ![w] = r]
    BY <1>3
  <2>2. \A x : Contains(r, x) <=> Contains(list[w], x) /\ x # t
    BY <1>4
  <2> HIDE DEF s
  <2> QED
    BY <1>4, <2>1, <2>2, LeaveLinks
<1> QED
  BY <1>3, <1>4, <1>5, <1>6

(* wait_list_fini takes the head off the list. *)
LEMMA DetachLinks ==
    ASSUME TypeOK, LinksOK, NEW w \in WaitList, list[w] # << >>,
           wait' = [wait EXCEPT ![Head(list[w])] = NoList],
           list' = [list EXCEPT ![w] = Tail(@)]
    PROVE  /\ Head(list[w]) \in Tasklet /\ wait[Head(list[w])] = w
           /\ wait' \in [Tasklet -> WaitList \cup {NoList}]
           /\ list' \in [WaitList -> Seq(Tasklet)]
           /\ LinksOK'
           /\ wait'[Head(list[w])] = NoList
           /\ \A u \in Tasklet \ {Head(list[w])} : wait'[u] = wait[u]
           /\ list'[w] = Tail(list[w]) /\ \A v \in WaitList \ {w} : list'[v] = list[v]
<1> DEFINE s == list[w]
           t == Head(s)
           r == Tail(s)
<1>1. s \in Seq(Tasklet) /\ IsInjective(s)
  BY DEF TypeOK, LinksOK, ListFits
<1>2. /\ t \in Tasklet /\ Contains(s, t) /\ r \in Seq(Tasklet) /\ IsInjective(r)
      /\ \A x : Contains(r, x) <=> Contains(s, x) /\ x # t
  BY <1>1, TailWithoutHead
<1>3. wait[t] = w
  BY <1>2 DEF LinksOK, ListFits
<1>4. list' = [list EXCEPT ![w] = r]
  BY DEF TypeOK
<1> HIDE DEF t, r
<1>5. /\ wait' \in [Tasklet -> WaitList \cup {NoList}]
      /\ list' \in [WaitList -> Seq(Tasklet)]
      /\ LinksOK'
      /\ wait'[t] = NoList /\ \A u \in Tasklet \ {t} : wait'[u] = wait[u]
      /\ list'[w] = r /\ \A v \in WaitList \ {w} : list'[v] = list[v]
  <2>1. wait' = [wait EXCEPT ![t] = NoList]
    BY DEF t
  <2> QED
    BY <1>2, <1>3, <1>4, <2>1, LeaveLinks
<1> QED
  BY <1>2, <1>3, <1>5 DEF t, r
-----------------------------------------------------------------------------
(* Type correctness. *)

(* The wait list of a call, and of an unwait that has announced itself, is *)
(* one, and a list from which wait_list_fini takes has a head.             *)
LEMMA Operands ==
    ASSUME IInv
    PROVE  /\ \A t \in Tasklet : op[t].kind \in {"wait", "down"} => op[t].w \in WaitList
           /\ \A t \in Tasklet : pc[t] = "blocked" => target[t] \in WaitList
           /\ \A w \in WaitList : list[w] # << >> =>
                  Head(list[w]) \in Tasklet /\ wait[Head(list[w])] = w
<1>1. \A t \in Tasklet : op[t].kind \in {"wait", "down"} => op[t].w \in WaitList
  BY DEF IInv, TaskletsOK, CallFits
<1>2. \A t \in Tasklet : pc[t] = "blocked" => target[t] \in WaitList
  BY DEF IInv, TypeOK, TaskletsOK, TargetFits
<1>3. ASSUME NEW w \in WaitList, list[w] # << >>
      PROVE  Head(list[w]) \in Tasklet /\ wait[Head(list[w])] = w
  <2>1. list[w] \in Seq(Tasklet) /\ IsInjective(list[w])
    BY DEF IInv, TypeOK, LinksOK, ListFits
  <2>2. Head(list[w]) \in Tasklet /\ Contains(list[w], Head(list[w]))
    BY <1>3, <2>1, TailWithoutHead
  <2> QED
    BY <2>2 DEF IInv, LinksOK, ListFits
<1> QED
  BY <1>1, <1>2, <1>3

(* tasklet_run on several tasklets keeps the types.                        *)
LEMMA RunAllTyped ==
    ASSUME NEW ts, TypeOK, RunAll(ts)
    PROVE  pending' \in [Tasklet -> BOOLEAN] /\ stopped' \in [Tasklet -> BOOLEAN]
BY DEF TypeOK, RunAll

LEMMA CallTyped ==
    ASSUME IInv, NEW t \in Tasklet, CallStep(t) \/ (\E w \in WaitList, kind \in {"wait", "down"} : Call(t, kind, w))
    PROVE  TypeOK'
<1> USE DEF tvars, wvars, svars, pvars, Answer, Goto, NoOp
<1>1. TypeOK
  BY DEF IInv
<1>2. op[t].kind \in {"wait", "down"} => op[t].w \in WaitList
  BY Operands
<1>3. CASE Wait(t) \/ DownWait(t)
  <2>1. op[t].w \in WaitList
    BY <1>2, <1>3 DEF Wait, DownWait
  <2>2. /\ wait' \in [Tasklet -> WaitList \cup {NoList}]
        /\ list' \in [WaitList -> Seq(Tasklet)]
        /\ pending' \in [Tasklet -> BOOLEAN] /\ stopped' \in [Tasklet -> BOOLEAN]
    <3>1. CASE wait[t] = op[t].w
      BY <1>1, <1>3, <3>1 DEF TypeOK, Wait, DownWait
    <3>2. CASE wait[t] # op[t].w
      <4>1. wait[t] = NoList /\ Add(op[t].w, t)
        BY <1>3, <3>2 DEF Wait, DownWait
      <4>2. PICK ts : RunAll(ts)
        BY <4>1 DEF Add
      <4> QED
        BY <2>1, <4>1, <4>2, AddLinks, RunAllTyped DEF IInv
    <3> QED
      BY <3>1, <3>2
  <2>3. /\ tUnwaiting' = tUnwaiting /\ unwaiting' = unwaiting /\ upCount' = upCount
        /\ fini' = fini /\ target' = target
        /\ waited' = [waited EXCEPT ![t] = TRUE] /\ result' = [result EXCEPT ![t] = FALSE]
        /\ op' = [op EXCEPT ![t] = NoOp] /\ pc' = [pc EXCEPT ![t] = "body"]
    BY <1>3 DEF Wait, DownWait
  <2> QED
    BY <1>1, <2>2, <2>3 DEF TypeOK
<1>4. CASE DownTake(t)
  <2>1. op[t].w \in WaitList
    BY <1>2, <1>4 DEF DownTake
  <2>2. upCount' \in [WaitList -> 0 .. MaxUp]
    BY <1>1, <1>4, <2>1, ConstantsAssumption DEF TypeOK, DownTake
  <2> QED
    BY <1>1, <1>4, <2>2 DEF TypeOK, DownTake
<1>5. CASE Leave(t)
  BY <1>1, <1>5 DEF TypeOK, Leave
<1>6. ASSUME NEW w \in WaitList, NEW kind \in {"wait", "down"}, Call(t, kind, w)
      PROVE  TypeOK'
  BY <1>1, <1>6 DEF TypeOK, Call
<1> QED
  BY <1>3, <1>4, <1>5, <1>6 DEF CallStep

LEMMA UnwaitTyped ==
    ASSUME IInv, NEW t \in Tasklet, UnwaitStep(t)
    PROVE  TypeOK'
<1> USE DEF tvars, wvars, svars, pvars, Answer, Goto, NoOp, AfterUnwait
<1>1. TypeOK
  BY DEF IInv
<1>2. pc[t] = "blocked" => target[t] \in WaitList
  BY Operands
<1>3. CASE UnwaitNothing(t)
  BY <1>1, <1>3 DEF TypeOK, UnwaitNothing
<1>7. CASE Stopped(t)
  BY <1>1, <1>7 DEF TypeOK, Stopped
<1>4. CASE UnwaitAnnounce(t)
  BY <1>1, <1>4 DEF TypeOK, UnwaitAnnounce
<1>5. CASE UnwaitRemove(t)
  <2> DEFINE w == target[t]
  <2>1. w \in WaitList
    BY <1>2, <1>5 DEF UnwaitRemove, RemoveFromList
  <2>2. /\ wait' \in [Tasklet -> WaitList \cup {NoList}]
        /\ list' \in [WaitList -> Seq(Tasklet)]
    BY <1>5, <2>1, RemoveLinks DEF IInv, UnwaitRemove, RemoveFromList
  <2>3. unwaiting' \in [WaitList -> Int] /\ tUnwaiting' \in [Tasklet -> Nat]
    <3>1. unwaiting[w] \in Int /\ tUnwaiting[t] \in Int
      BY <1>1, <2>1 DEF TypeOK
    <3>2. unwaiting[w] + (tUnwaiting[t] - 1) \in Int
      BY <3>1
    <3>3. /\ unwaiting' = [unwaiting EXCEPT ![w] = unwaiting[w] + (tUnwaiting[t] - 1)]
          /\ tUnwaiting' = [tUnwaiting EXCEPT ![t] = 0]
      BY <1>1, <1>5 DEF TypeOK, UnwaitRemove, RemoveFromList
    <3> QED
      BY <1>1, <3>2, <3>3 DEF TypeOK
  <2>4. PICK ts : RunAll(ts)
    BY <1>5 DEF UnwaitRemove, RemoveFromList
  <2>5. pending' \in [Tasklet -> BOOLEAN] /\ stopped' \in [Tasklet -> BOOLEAN]
    BY <1>1, <2>4, RunAllTyped
  <2>6. /\ waited' \in [Tasklet -> BOOLEAN]
        /\ upCount' \in [WaitList -> 0 .. MaxUp]
        /\ fini' \in [WaitList -> {"none", "run", "detach", "wait", "woken", "done"}]
        /\ pc' \in [Tasklet -> {"idle", "body", "call", "unwait", "blocked", "off", "dead"}]
        /\ op' = op /\ result' = result
        /\ target' \in [Tasklet -> WaitList \cup {NoList}]
    BY <1>1, <1>5 DEF TypeOK, UnwaitRemove, RemoveFromList
  <2> QED
    BY <1>1, <2>2, <2>3, <2>5, <2>6 DEF TypeOK
<1>6. CASE UnwaitGone(t)
  <2>1. fini' \in [WaitList -> {"none", "run", "detach", "wait", "woken", "done"}]
    BY <1>1, <1>6 DEF TypeOK, UnwaitGone
  <2>2. target[t] \in WaitList /\ unwaiting' \in [WaitList -> Int]
    BY <1>1, <1>2, <1>6 DEF TypeOK, UnwaitGone
  <2> QED
    BY <1>1, <1>6, <2>1, <2>2 DEF TypeOK, UnwaitGone
<1> QED
  BY <1>3, <1>4, <1>5, <1>6, <1>7 DEF UnwaitStep

LEMMA OtherTyped ==
    ASSUME IInv, NEW t \in Tasklet,
           \/ Later(t) \/ Start(t) \/ Return(t) \/ TaskletInit(t)
           \/ \E kind \in {"stop", "halt", "fini"} : CallStop(t, kind)
    PROVE  TypeOK'
<1> USE DEF tvars, wvars, svars, pvars, Goto
<1>1. TypeOK
  BY DEF IInv
<1>2. CASE Later(t)
  BY <1>1, <1>2, RunAllTyped DEF TypeOK, Later
<1>3. CASE Start(t)
  BY <1>1, <1>3 DEF TypeOK, Start
<1>4. CASE Return(t)
  BY <1>1, <1>4 DEF TypeOK, Return
<1>5. CASE TaskletInit(t)
  BY <1>1, <1>5 DEF TypeOK, TaskletInit
<1>6. ASSUME NEW kind \in {"stop", "halt", "fini"}, CallStop(t, kind) PROVE TypeOK'
  BY <1>1, <1>6 DEF TypeOK, CallStop
<1> QED
  BY <1>2, <1>3, <1>4, <1>5, <1>6

LEMMA ListTyped ==
    ASSUME IInv, NEW w \in WaitList,
           \/ FiniStep(w) \/ FiniBegin(w) \/ SpuriousWakeup(w)
           \/ WaitListInit(w) \/ Broadcast(w) \/ Set(w, 0)
           \/ \E n \in 1 .. MaxUp : Up(w, n)
    PROVE  TypeOK'
<1> USE DEF tvars, wvars, svars, pvars
<1>1. TypeOK /\ MaxUp \in Nat
  BY ConstantsAssumption DEF IInv
<1>2. CASE FiniRun(w)
  BY <1>1, <1>2, RunAllTyped DEF TypeOK, FiniRun
<1>3. CASE FiniDetach(w)
  <2> DEFINE t == Head(list[w])
  <2>1. list[w] # << >>
    BY <1>3 DEF FiniDetach, IInv, ListsOK, FiniFits
  <2>2. t \in Tasklet
    BY <2>1, Operands
  <2>3. /\ wait' \in [Tasklet -> WaitList \cup {NoList}]
        /\ list' \in [WaitList -> Seq(Tasklet)]
    BY <1>3, <2>1, DetachLinks DEF IInv, FiniDetach
  <2> HIDE DEF t
  <2>4. unwaiting' \in [WaitList -> Int] /\ tUnwaiting' \in [Tasklet -> Nat]
    BY <1>1, <1>3, <2>2 DEF TypeOK, FiniDetach, t
  <2>5. /\ waited' = waited /\ upCount' = upCount /\ pending' = pending /\ stopped' = stopped
        /\ fini' \in [WaitList -> {"none", "run", "detach", "wait", "woken", "done"}]
        /\ pc' = pc /\ op' = op /\ result' = result /\ target' = target
    BY <1>1, <1>3 DEF TypeOK, FiniDetach
  <2> QED
    BY <1>1, <2>3, <2>4, <2>5 DEF TypeOK
<1>4. CASE FiniWoken(w) \/ FiniBegin(w) \/ SpuriousWakeup(w)
  <2>1. fini' \in [WaitList -> {"none", "run", "detach", "wait", "woken", "done"}]
    BY <1>1, <1>4 DEF TypeOK, FiniWoken, FiniBegin, SpuriousWakeup
  <2> QED
    BY <1>1, <1>4, <2>1 DEF TypeOK, FiniWoken, FiniBegin, SpuriousWakeup
<1>5. CASE WaitListInit(w)
  BY <1>1, <1>5 DEF TypeOK, WaitListInit
<1>6. CASE Broadcast(w)
  BY <1>1, <1>6, RunAllTyped DEF TypeOK, Broadcast
<1>8. CASE Set(w, 0)
  <2>1. upCount' \in [WaitList -> 0 .. MaxUp]
    BY <1>1, <1>8 DEF TypeOK, Set
  <2> QED
    BY <1>1, <1>8, <2>1, RunAllTyped DEF TypeOK, Set
<1>7. ASSUME NEW n \in 1 .. MaxUp, Up(w, n) PROVE TypeOK'
  <2>1. upCount' \in [WaitList -> 0 .. MaxUp]
    BY <1>1, <1>7 DEF TypeOK, Up
  <2> QED
    BY <1>1, <1>7, <2>1, RunAllTyped DEF TypeOK, Up
<1> QED
  BY <1>2, <1>3, <1>4, <1>5, <1>6, <1>7, <1>8 DEF FiniStep

LEMMA NextTyped == IInv /\ Next => TypeOK'
BY CallTyped, UnwaitTyped, OtherTyped, ListTyped DEF Next
-----------------------------------------------------------------------------
(* The links. *)

(* A thread's step in a call, or out of it. *)
TaskletStep(t) ==
    \/ Later(t) \/ Start(t) \/ Return(t) \/ TaskletInit(t)
    \/ CallStep(t) \/ UnwaitStep(t)
    \/ \E w \in WaitList, kind \in {"wait", "down"} : Call(t, kind, w)
    \/ \E kind \in {"stop", "halt", "fini"} : CallStop(t, kind)

(* What other threads do to a list. *)
ListStep(w) ==
    \/ FiniStep(w) \/ FiniBegin(w) \/ SpuriousWakeup(w)
    \/ WaitListInit(w) \/ Broadcast(w) \/ Set(w, 0)
    \/ \E n \in 1 .. MaxUp : Up(w, n)

LEMMA SameLinks ==
    ASSUME LinksOK, \A w \in WaitList : list'[w] = list[w],
           \A t \in Tasklet : wait'[t] = wait[t]
    PROVE  LinksOK'
BY DEF LinksOK, ListFits

LEMMA TaskletStepLinks ==
    ASSUME IInv, NEW t \in Tasklet, TaskletStep(t)
    PROVE  LinksOK'
<1> USE DEF tvars, wvars, svars, pvars
<1>1. CASE Wait(t) \/ DownWait(t)
  <2>1. CASE wait[t] = op[t].w
    BY <1>1, <2>1, SameLinks DEF IInv, Wait, DownWait
  <2>2. CASE wait[t] # op[t].w
    <3>1. wait[t] = NoList /\ Add(op[t].w, t) /\ op[t].w \in WaitList
      BY <1>1, <2>2, Operands DEF Wait, DownWait
    <3> QED
      BY <3>1, AddLinks DEF IInv
  <2> QED
    BY <2>1, <2>2
<1>2. CASE UnwaitRemove(t)
  <2>1. target[t] \in WaitList
    BY <1>2, Operands DEF UnwaitRemove, RemoveFromList
  <2> QED
    BY <1>2, <2>1, RemoveLinks DEF IInv, UnwaitRemove, RemoveFromList
<1>3. CASE TaskletInit(t)
  <2>1. wait[t] = NoList
    BY <1>3 DEF IInv, TaskletsOK, TargetFits, TaskletInit
  <2> QED
    BY <1>3, <2>1, SameLinks DEF IInv, TypeOK, TaskletInit
<1>4. CASE UNCHANGED <<wait, list>>
  BY <1>4, SameLinks DEF IInv
<1>5. TaskletStep(t) => \/ Wait(t) \/ DownWait(t) \/ UnwaitRemove(t) \/ TaskletInit(t)
                        \/ UNCHANGED <<wait, list>>
  BY DEF TaskletStep, CallStep, UnwaitStep, Later, Start, Return, DownTake, Leave, UnwaitNothing,
         UnwaitAnnounce, UnwaitGone, Stopped, Call, CallStop
<1> QED
  BY <1>1, <1>2, <1>3, <1>4, <1>5

LEMMA ListStepLinks ==
    ASSUME IInv, NEW w \in WaitList, ListStep(w)
    PROVE  LinksOK'
<1> USE DEF tvars, wvars, svars, pvars
<1>1. CASE FiniDetach(w)
  <2>1. list[w] # << >>
    BY <1>1 DEF FiniDetach, IInv, ListsOK, FiniFits
  <2> QED
    BY <1>1, <2>1, DetachLinks DEF IInv, FiniDetach
<1>2. CASE WaitListInit(w)
  <2>1. list[w] = << >>
    BY <1>2 DEF WaitListInit, IInv, ListsOK, FiniFits
  <2> QED
    BY <1>2, <2>1, SameLinks DEF IInv, TypeOK, WaitListInit
<1>3. CASE UNCHANGED <<wait, list>>
  BY <1>3, SameLinks DEF IInv
<1>4. ListStep(w) => FiniDetach(w) \/ WaitListInit(w) \/ UNCHANGED <<wait, list>>
  BY DEF ListStep, FiniStep, FiniRun, FiniWoken, FiniBegin, SpuriousWakeup, Broadcast, Set, Up
<1> QED
  BY <1>1, <1>2, <1>3, <1>4

-----------------------------------------------------------------------------
(* The calls and the targets. *)

(* Who is not concerned stays as he is, with his list. *)
LEMMA CallKept ==
    ASSUME NEW u \in Tasklet, CallFits(u), pc'[u] = pc[u], op'[u] = op[u],
           \A w \in WaitList : op[u].w = w /\ InUse(w) => InUse(w)'
    PROVE  CallFits(u)'
BY DEF CallFits

LEMMA TaskletStepCalls ==
    ASSUME IInv, NEW t \in Tasklet, TaskletStep(t), NEW u \in Tasklet
    PROVE  CallFits(u)'
<1> USE DEF tvars, wvars, svars, pvars, Answer, Goto, NoOp, AfterUnwait, InUse
<1>1. TypeOK /\ CallFits(u) /\ CallFits(t)
  BY DEF IInv, TaskletsOK
<1>2. \A w \in WaitList : fini[w] = "none" => fini'[w] = "none"
  BY <1>1 DEF TypeOK, TaskletStep, CallStep, UnwaitStep, Later, Start, Return, TaskletInit, Wait,
         DownTake, DownWait, Leave, UnwaitNothing, UnwaitAnnounce, UnwaitRemove, RemoveFromList,
         UnwaitGone, Stopped, Call, CallStop
<1>3. CASE u # t
  <2>1. pc'[u] = pc[u] /\ op'[u] = op[u]
    BY <1>1, <1>3 DEF TypeOK, TaskletStep, CallStep, UnwaitStep, Later, Start, Return, TaskletInit,
           Wait, DownTake, DownWait, Leave, UnwaitNothing, UnwaitAnnounce, UnwaitRemove,
           RemoveFromList, UnwaitGone, Stopped, Call, CallStop
  <2> QED
    BY <1>1, <1>2, <2>1, CallKept
<1>4. CASE Later(t)
  BY <1>1, <1>2, <1>4, CallKept DEF Later
<1>5. CASE Start(t) \/ Return(t) \/ TaskletInit(t)
  BY <1>1, <1>2, <1>3, <1>5 DEF TypeOK, CallFits, Start, Return, TaskletInit
<1>6. CASE Wait(t) \/ DownTake(t) \/ DownWait(t)
  BY <1>1, <1>3, <1>6 DEF TypeOK, CallFits, Wait, DownTake, DownWait
<1>7. CASE Leave(t)
  BY <1>1, <1>3, <1>7 DEF TypeOK, CallFits, Leave
<1>8. CASE UnwaitNothing(t) \/ UnwaitAnnounce(t) \/ UnwaitRemove(t) \/ UnwaitGone(t)
  <2>1. op'[t] = op[t]
    BY <1>8 DEF UnwaitNothing, UnwaitAnnounce, UnwaitRemove, RemoveFromList, UnwaitGone
  <2>2. /\ pc[t] \in {"unwait", "blocked"}
        /\ \/ pc'[t] \in {"unwait", "blocked"}
           \/ pc'[t] = IF op[t].kind \in {"wait", "down"} THEN "call" ELSE "off"
    BY <1>1, <1>8 DEF TypeOK, UnwaitNothing, UnwaitAnnounce, UnwaitRemove, RemoveFromList, UnwaitGone
  <2> QED
    BY <1>1, <1>2, <1>3, <2>1, <2>2 DEF CallFits
<1>9. CASE Stopped(t)
  <2>1. op'[t] = NoOp /\ pc'[t] \in {"dead", "idle", "body"}
    BY <1>1, <1>9 DEF TypeOK, Stopped
  <2> QED
    BY <1>3, <2>1 DEF CallFits
<1>10. ASSUME NEW w \in WaitList, NEW kind \in {"wait", "down"}, Call(t, kind, w)
       PROVE  CallFits(u)'
  <2>1. op'[t] = [kind |-> kind, w |-> w] /\ pc'[t] = "call" /\ fini' = fini /\ fini[w] = "none"
    BY <1>1, <1>10 DEF TypeOK, Call
  <2>2. kind = "down" <=> w \in Sema
    BY <1>10 DEF Call
  <2> QED
    BY <1>3, <2>1, <2>2 DEF CallFits
<1>11. ASSUME NEW kind \in {"stop", "halt", "fini"}, CallStop(t, kind) PROVE CallFits(u)'
  <2>1. op'[t] = [kind |-> kind, w |-> NoList] /\ pc'[t] = "unwait"
    BY <1>1, <1>11 DEF TypeOK, CallStop
  <2> QED
    BY <1>3, <2>1 DEF CallFits
<1> QED
  BY <1>4, <1>5, <1>6, <1>7, <1>8, <1>9, <1>10, <1>11 DEF TaskletStep, CallStep, UnwaitStep

LEMMA ListStepCalls ==
    ASSUME IInv, NEW w \in WaitList, ListStep(w), NEW u \in Tasklet
    PROVE  CallFits(u)'
<1> USE DEF tvars, wvars, svars, pvars, InUse
<1>1. TypeOK /\ CallFits(u)
  BY DEF IInv, TaskletsOK
<1>2. pc' = pc /\ op' = op
  BY DEF ListStep, FiniStep, FiniRun, FiniDetach, FiniWoken, FiniBegin, SpuriousWakeup,
         WaitListInit, Broadcast, Set, Up
<1>3. ASSUME NEW v \in WaitList, op[u].w = v, fini[v] = "none" PROVE fini'[v] = "none"
  BY <1>1, <1>3 DEF TypeOK, ListStep, FiniStep, FiniRun, FiniDetach, FiniWoken, FiniBegin,
         SpuriousWakeup, WaitListInit, Broadcast, Set, Up
<1> QED
  BY <1>1, <1>2, <1>3, CallKept
(* A step that is not its own may make a tasklet run, and does no more.    *)
Kept(u) ==
    /\ pc'[u] = pc[u] /\ op'[u] = op[u] /\ target'[u] = target[u]
    /\ result'[u] = result[u] /\ waited'[u] = waited[u]
    /\ pending[u] => pending'[u]
    /\ stopped'[u] => stopped[u]
    /\ stopped[u] => stopped'[u] \/ pending'[u]

(* A step of one tasklet leaves what another waits for as it was.          *)
LEMMA OthersKept ==
    ASSUME TypeOK, NEW t \in Tasklet, TaskletStep(t), NEW u \in Tasklet \ {t}
    PROVE  Kept(u) /\ wait'[u] = wait[u] /\ tUnwaiting'[u] = tUnwaiting[u]
<1> USE DEF tvars, wvars, svars, pvars, Answer, Goto, NoOp, AfterUnwait
<1>1. pc'[u] = pc[u] /\ op'[u] = op[u] /\ target'[u] = target[u]
  BY DEF TypeOK, Add, TaskletStep, CallStep, UnwaitStep, Later, Start, Return, TaskletInit,
         Wait, DownTake, DownWait, Leave, UnwaitNothing, UnwaitAnnounce, UnwaitRemove,
         RemoveFromList, UnwaitGone, Stopped, Call, CallStop
<1>3. /\ result'[u] = result[u] /\ waited'[u] = waited[u]
      /\ wait'[u] = wait[u] /\ tUnwaiting'[u] = tUnwaiting[u]
  BY DEF TypeOK, Add, TaskletStep, CallStep, UnwaitStep, Later, Start, Return, TaskletInit,
         Wait, DownTake, DownWait, Leave, UnwaitNothing, UnwaitAnnounce, UnwaitRemove,
         RemoveFromList, UnwaitGone, Stopped, Call, CallStop
<1>2. /\ pending[u] => pending'[u]
      /\ stopped'[u] => stopped[u]
      /\ stopped[u] => stopped'[u] \/ pending'[u]
  <2>1. CASE Later(t) \/ Wait(t) \/ DownWait(t)
    BY <2>1 DEF TypeOK, Later, Wait, DownWait, Add, RunAll
  <2>2. CASE UnwaitRemove(t)
    BY <2>2 DEF TypeOK, UnwaitRemove, RemoveFromList, RunAll
  <2>3. CASE ~(Later(t) \/ Wait(t) \/ DownWait(t) \/ UnwaitRemove(t))
    BY <2>3 DEF TypeOK, TaskletStep, CallStep, UnwaitStep, Start, Return, TaskletInit, DownTake,
           Leave, UnwaitNothing, UnwaitAnnounce, UnwaitGone, Stopped, Call, CallStop
  <2> QED
    BY <2>1, <2>2, <2>3
<1> QED
  BY <1>1, <1>2, <1>3 DEF Kept

LEMMA AllKept ==
    ASSUME TypeOK, NEW w \in WaitList, ListStep(w), NEW u \in Tasklet
    PROVE  Kept(u)
<1> USE DEF tvars, wvars, svars, pvars
<1>1. pc' = pc /\ op' = op /\ target' = target /\ result' = result /\ waited' = waited
  BY DEF ListStep, FiniStep, FiniRun, FiniDetach, FiniWoken, FiniBegin, SpuriousWakeup,
         WaitListInit, Broadcast, Set, Up
<1>2. /\ pending[u] => pending'[u]
      /\ stopped'[u] => stopped[u]
      /\ stopped[u] => stopped'[u] \/ pending'[u]
  BY DEF TypeOK, RunAll, ListStep, FiniStep, FiniRun, FiniDetach, FiniWoken, FiniBegin, SpuriousWakeup,
         WaitListInit, Broadcast, Set, Up
<1> QED
  BY <1>1, <1>2 DEF Kept

LEMMA TaskletStepTargets ==
    ASSUME IInv, NEW t \in Tasklet, TaskletStep(t), NEW u \in Tasklet
    PROVE  TargetFits(u)'
<1> USE DEF tvars, wvars, svars, pvars, Answer, Goto, NoOp, AfterUnwait
<1>1. TypeOK /\ TargetFits(u) /\ TargetFits(t) /\ CallFits(t)
  BY DEF IInv, TaskletsOK
<1>2. CASE u # t
  BY <1>1, <1>2, OthersKept DEF Kept, TargetFits
<1>3. CASE u = t /\ (Later(t) \/ Start(t) \/ Return(t) \/ TaskletInit(t) \/ DownTake(t) \/ Leave(t))
  BY <1>1, <1>3 DEF TypeOK, TargetFits, Later, Start, Return, TaskletInit, DownTake, Leave
<1>4. CASE u = t /\ (Wait(t) \/ DownWait(t))
  <2>1. pc[t] = "call" /\ pc'[t] = "body" /\ target' = target /\ tUnwaiting' = tUnwaiting
    BY <1>1, <1>4 DEF TypeOK, Wait, DownWait
  <2> QED
    BY <1>1, <1>4, <2>1 DEF TargetFits
<1>5. CASE u = t /\ (UnwaitNothing(t) \/ Stopped(t))
  BY <1>1, <1>5 DEF TypeOK, TargetFits, UnwaitNothing, Stopped
<1>6. CASE u = t /\ UnwaitAnnounce(t)
  BY <1>1, <1>6 DEF TypeOK, TargetFits, UnwaitAnnounce
<1>7. CASE u = t /\ UnwaitRemove(t)
  <2>1. /\ pc'[t] \in {"call", "off"} /\ target'[t] = NoList /\ tUnwaiting'[t] = 0
        /\ wait'[t] = NoList
    BY <1>1, <1>7 DEF TypeOK, UnwaitRemove, RemoveFromList
  <2> QED
    BY <1>7, <2>1 DEF TargetFits
<1>8. CASE u = t /\ UnwaitGone(t)
  BY <1>1, <1>8 DEF TypeOK, TargetFits, UnwaitGone
<1>9. ASSUME u = t, NEW w \in WaitList, NEW kind \in {"wait", "down"}, Call(t, kind, w)
      PROVE  TargetFits(u)'
  BY <1>1, <1>9 DEF TypeOK, TargetFits, Call
<1>10. ASSUME u = t, NEW kind \in {"stop", "halt", "fini"}, CallStop(t, kind)
       PROVE  TargetFits(u)'
  BY <1>1, <1>10 DEF TypeOK, TargetFits, CallStop
<1> QED
  BY <1>2, <1>3, <1>4, <1>5, <1>6, <1>7, <1>8, <1>9, <1>10 DEF TaskletStep, CallStep, UnwaitStep

LEMMA ListStepTargets ==
    ASSUME IInv, NEW w \in WaitList, ListStep(w), NEW u \in Tasklet
    PROVE  TargetFits(u)'
<1> USE DEF tvars, wvars, svars, pvars
<1>1. TypeOK /\ TargetFits(u) /\ Kept(u)
  BY AllKept DEF IInv, TaskletsOK
<1>2. CASE FiniDetach(w)
  <2>1. list[w] # << >>
    BY <1>2 DEF FiniDetach, IInv, ListsOK, FiniFits
  <2>2. /\ wait'[u] = IF u = Head(list[w]) THEN NoList ELSE wait[u]
        /\ tUnwaiting'[u] = IF u = Head(list[w]) THEN 0 ELSE tUnwaiting[u]
    BY <1>1, <1>2 DEF TypeOK, FiniDetach
  <2> QED
    BY <1>1, <2>2, ConstantsAssumption DEF TypeOK, TargetFits, Kept
<1>3. CASE UNCHANGED <<wait, tUnwaiting>>
  BY <1>1, <1>3 DEF TargetFits, Kept
<1>4. ListStep(w) => FiniDetach(w) \/ UNCHANGED <<wait, tUnwaiting>>
  BY DEF ListStep, FiniStep, FiniRun, FiniWoken, FiniBegin, SpuriousWakeup, WaitListInit,
         Broadcast, Set, Up
<1> QED
  BY <1>2, <1>3, <1>4

-----------------------------------------------------------------------------
(* The threads on their way to a list. *)

(* The count stays right when nobody sets out for the list or arrives.     *)
LEMMA CountKept ==
    ASSUME NEW v \in WaitList, CountFits(v), unwaiting'[v] = unwaiting[v],
           \A u \in Tasklet : u \in OnTheirWay(v)' <=> u \in OnTheirWay(v)
    PROVE  CountFits(v)'
<1>1. OnTheirWay(v)' = OnTheirWay(v)
  BY DEF OnTheirWay, BlockedOn
<1> QED
  BY <1>1 DEF CountFits

(* The threads on their way to a list can be counted.                      *)
LEMMA OnTheirWayFinite ==
    ASSUME NEW v \in WaitList
    PROVE  IsFiniteSet(OnTheirWay(v)) /\ IsFiniteSet(OnTheirWay(v)')
<1>1. OnTheirWay(v) \subseteq Tasklet /\ OnTheirWay(v)' \subseteq Tasklet
  BY DEF OnTheirWay, BlockedOn
<1> QED
  BY <1>1, FS_Subset, ConstantsAssumption

LEMMA TaskletStepCounts ==
    ASSUME IInv, NEW t \in Tasklet, TaskletStep(t), NEW v \in WaitList
    PROVE  CountFits(v)'
<1> USE DEF tvars, wvars, svars, pvars, Answer, Goto, NoOp, AfterUnwait
<1>1. TypeOK /\ TargetFits(t) /\ CountFits(v)
  BY DEF IInv, TaskletsOK, ListsOK
<1>2. \A u \in Tasklet \ {t} : u \in OnTheirWay(v)' <=> u \in OnTheirWay(v)
  BY <1>1, OthersKept DEF Kept, OnTheirWay, BlockedOn
<1>3. CASE UnwaitGone(t) /\ target[t] = v
  <2>1. OnTheirWay(v)' = OnTheirWay(v) \ {t} /\ t \in OnTheirWay(v)
    <3>1. t \in OnTheirWay(v) /\ t \notin OnTheirWay(v)'
      BY <1>1, <1>3 DEF TypeOK, UnwaitGone, OnTheirWay, BlockedOn
    <3> QED
      BY <1>2, <3>1 DEF OnTheirWay, BlockedOn
  <2>2. Cardinality(OnTheirWay(v)') = Cardinality(OnTheirWay(v)) - 1
    BY <2>1, OnTheirWayFinite, FS_RemoveElement
  <2>3. unwaiting'[v] = unwaiting[v] - 1
    BY <1>1, <1>3 DEF TypeOK, UnwaitGone
  <2> QED
    BY <1>1, <2>2, <2>3 DEF CountFits
<1>4. CASE ~(UnwaitGone(t) /\ target[t] = v)
  <2>1. unwaiting'[v] = unwaiting[v]
    <3>1. CASE UnwaitRemove(t)
      <4>1. tUnwaiting[t] = 1 /\ target[t] \in WaitList /\ unwaiting[v] \in Int
        BY <1>1, <3>1, Operands DEF TypeOK, TargetFits, UnwaitRemove, RemoveFromList
      <4>2. unwaiting' = [unwaiting EXCEPT ![target[t]] = @ + (tUnwaiting[t] - 1)]
        BY <3>1 DEF UnwaitRemove, RemoveFromList
      <4> QED
        BY <1>1, <4>1, <4>2 DEF TypeOK
    <3>2. CASE ~UnwaitRemove(t)
      BY <1>1, <1>4, <3>2 DEF TypeOK, TaskletStep, CallStep, UnwaitStep, Later, Start, Return,
             TaskletInit, Wait, DownTake, DownWait, Leave, UnwaitNothing, UnwaitAnnounce,
             UnwaitGone, Stopped, Call, CallStop
    <3> QED
      BY <3>1, <3>2
  <2>2. t \in OnTheirWay(v)' <=> t \in OnTheirWay(v)
    <3>1. CASE UnwaitRemove(t)
      BY <1>1, <3>1 DEF TypeOK, OnTheirWay, BlockedOn, UnwaitRemove, RemoveFromList
    <3>2. CASE UnwaitAnnounce(t) \/ UnwaitGone(t)
      BY <1>1, <1>4, <3>2 DEF TypeOK, OnTheirWay, BlockedOn, UnwaitAnnounce, UnwaitGone
    <3>3. CASE ~(UnwaitRemove(t) \/ UnwaitAnnounce(t) \/ UnwaitGone(t))
      <4>1. CASE Later(t)
        BY <4>1 DEF Later, OnTheirWay, BlockedOn
      <4>2. CASE ~Later(t)
        <5>1. pc[t] # "blocked" /\ pc'[t] # "blocked"
          BY <1>1, <3>3, <4>2 DEF TypeOK, TaskletStep, CallStep, UnwaitStep, Start, Return,
                 TaskletInit, Wait, DownTake, DownWait, Leave, UnwaitNothing, Stopped, Call,
                 CallStop
        <5> QED
          BY <5>1 DEF OnTheirWay, BlockedOn
      <4> QED
        BY <4>1, <4>2
    <3> QED
      BY <3>1, <3>2, <3>3
  <2> QED
    BY <1>1, <1>2, <2>1, <2>2, CountKept
<1> QED
  BY <1>3, <1>4

LEMMA ListStepCounts ==
    ASSUME IInv, NEW w \in WaitList, ListStep(w), NEW v \in WaitList
    PROVE  CountFits(v)'
<1> USE DEF tvars, wvars, svars, pvars
<1>1. TypeOK /\ CountFits(v) /\ FiniFits(w) /\ (\A u \in Tasklet : TargetFits(u))
  BY DEF IInv, TaskletsOK, ListsOK
<1>2. CASE FiniDetach(w)
  <2> DEFINE t == Head(list[w])
  <2>1. t \in Tasklet /\ wait[t] = w
    BY <1>1, <1>2, Operands DEF FiniDetach, FiniFits
  <2> HIDE DEF t
  <2>2. /\ wait' = [wait EXCEPT ![t] = NoList]
        /\ unwaiting' = [unwaiting EXCEPT ![w] = @ + tUnwaiting[t]]
        /\ pc' = pc /\ target' = target
    BY <1>2 DEF FiniDetach, t
  <2>3. tUnwaiting[t] = (IF pc[t] = "blocked" THEN 1 ELSE 0) /\ (pc[t] = "blocked" => target[t] = w)
    BY <1>1, <2>1, ConstantsAssumption DEF TargetFits
  <2>4. \A u \in Tasklet \ {t} : u \in OnTheirWay(v)' <=> u \in OnTheirWay(v)
    BY <1>1, <2>1, <2>2 DEF TypeOK, OnTheirWay, BlockedOn
  <2>5. CASE v = w /\ pc[t] = "blocked"
    <3>1. t \notin OnTheirWay(v) /\ t \in OnTheirWay(v)'
      BY <1>1, <2>1, <2>2, <2>3, <2>5, ConstantsAssumption DEF TypeOK, OnTheirWay, BlockedOn
    <3>2. OnTheirWay(v)' = OnTheirWay(v) \cup {t}
      BY <2>4, <3>1 DEF OnTheirWay, BlockedOn
    <3>3. Cardinality(OnTheirWay(v)') = Cardinality(OnTheirWay(v)) + 1
      BY <3>1, <3>2, OnTheirWayFinite, FS_AddElement
    <3>4. unwaiting'[v] = unwaiting[v] + 1
      BY <1>1, <2>2, <2>3, <2>5 DEF TypeOK
    <3> QED
      BY <1>1, <3>3, <3>4 DEF CountFits
  <2>6. CASE ~(v = w /\ pc[t] = "blocked")
    <3>1. t \in OnTheirWay(v)' <=> t \in OnTheirWay(v)
      BY <2>1, <2>2, <2>3, <2>6 DEF OnTheirWay, BlockedOn
    <3>2. unwaiting'[v] = unwaiting[v]
      BY <1>1, <2>2, <2>3, <2>6 DEF TypeOK
    <3> QED
      BY <1>1, <2>4, <3>1, <3>2, CountKept
  <2> QED
    BY <2>5, <2>6
<1>3. CASE ~FiniDetach(w)
  <2>1. wait' = wait /\ pc' = pc /\ target' = target /\ unwaiting'[v] = unwaiting[v]
    BY <1>1, <1>3 DEF TypeOK, FiniFits, ListStep, FiniStep, FiniRun, FiniWoken, FiniBegin,
           SpuriousWakeup, WaitListInit, Broadcast, Set, Up
  <2> QED
    BY <1>1, <2>1, CountKept DEF OnTheirWay, BlockedOn
<1> QED
  BY <1>2, <1>3
-----------------------------------------------------------------------------
(* wait_list_fini. *)

LEMMA CountNat == ASSUME NEW v \in WaitList PROVE Cardinality(OnTheirWay(v)) \in Nat
BY OnTheirWayFinite, FS_CardinalityType

(* What a tasklet's own step does to the lists. *)
LEMMA TaskletStepLists ==
    ASSUME IInv, NEW t \in Tasklet, TaskletStep(t), NEW v \in WaitList
    PROVE  /\ fini'[v] = fini[v] \/ (fini[v] = "wait" /\ fini'[v] = "woken")
           /\ upCount'[v] = upCount[v] \/ (v \in Sema /\ upCount'[v] = upCount[v] - 1)
           /\ \/ list'[v] = list[v]
              \/ InUse(v) /\ UnwaitRemove(t) /\ target[t] = v /\ wait[t] = v
              \/ InUse(v) /\ (Wait(t) \/ DownWait(t)) /\ op[t].w = v
<1> USE DEF tvars, wvars, svars, pvars, Answer, Goto, NoOp, AfterUnwait
<1>1. TypeOK /\ FiniFits(v) /\ CallFits(t)
  BY DEF IInv, TaskletsOK, ListsOK
<1>2. fini'[v] = fini[v] \/ (fini[v] = "wait" /\ fini'[v] = "woken")
  BY <1>1 DEF TypeOK, TaskletStep, CallStep, UnwaitStep, Later, Start, Return, TaskletInit,
         Wait, DownTake, DownWait, Leave, UnwaitNothing, UnwaitAnnounce, UnwaitRemove,
         RemoveFromList, UnwaitGone, Stopped, Call, CallStop
<1>3. upCount'[v] = upCount[v] \/ (v \in Sema /\ upCount'[v] = upCount[v] - 1)
  <2>1. CASE DownTake(t)
    BY <1>1, <2>1 DEF TypeOK, CallFits, DownTake
  <2>2. CASE ~DownTake(t)
    BY <2>2 DEF TaskletStep, CallStep, UnwaitStep, Later, Start, Return, TaskletInit,
         Wait, DownWait, Leave, UnwaitNothing, UnwaitAnnounce, UnwaitRemove,
         RemoveFromList, UnwaitGone, Stopped, Call, CallStop
  <2> QED
    BY <2>1, <2>2
<1>4. \/ list'[v] = list[v]
      \/ InUse(v) /\ UnwaitRemove(t) /\ target[t] = v /\ wait[t] = v
      \/ InUse(v) /\ (Wait(t) \/ DownWait(t)) /\ op[t].w = v
  <2>1. CASE UnwaitRemove(t)
    <3>1. /\ target[t] \in WaitList /\ wait[t] = target[t] /\ Free(target[t])
          /\ list' = [list EXCEPT ![target[t]] = Without(list[target[t]], t)]
      BY <2>1, Operands DEF UnwaitRemove, RemoveFromList
    <3>2. CASE target[t] # v
      BY <1>1, <3>1, <3>2 DEF TypeOK
    <3>3. CASE target[t] = v
      <4>1. list[v] # << >>
        BY <2>1, <3>1, <3>3, RemoveLinks DEF IInv, UnwaitRemove, RemoveFromList
      <4> QED
        BY <1>1, <2>1, <3>1, <3>3, <4>1 DEF Free, InUse, FiniFits
    <3> QED
      BY <3>2, <3>3
  <2>2. CASE Wait(t) \/ DownWait(t)
    <3>1. op[t].w \in WaitList /\ InUse(op[t].w)
      BY <1>1, <2>2 DEF CallFits, Wait, DownWait
    <3>2. op[t].w # v => list'[v] = list[v]
      BY <1>1, <2>2, <3>1 DEF TypeOK, Wait, DownWait, Add
    <3> QED
      BY <2>2, <3>1, <3>2
  <2>3. CASE ~(UnwaitRemove(t) \/ Wait(t) \/ DownWait(t))
    BY <2>3 DEF TaskletStep, CallStep, UnwaitStep, Later, Start, Return, TaskletInit, DownTake,
           Leave, UnwaitNothing, UnwaitAnnounce, UnwaitGone, Stopped, Call, CallStop
  <2> QED
    BY <2>1, <2>2, <2>3
<1> QED
  BY <1>2, <1>3, <1>4

LEMMA TaskletStepFini ==
    ASSUME IInv, NEW t \in Tasklet, TaskletStep(t), NEW v \in WaitList
    PROVE  FiniFits(v)'
<1>1. /\ TypeOK /\ FiniFits(v) /\ CountFits(v) /\ TargetFits(t)
  BY DEF IInv, TaskletsOK, ListsOK
<1>2. fini[v] \in {"none", "done"} => unwaiting'[v] = unwaiting[v]
  <2>1. CASE UnwaitGone(t) /\ target[t] = v
    <3>1. t \in OnTheirWay(v)
      BY <2>1 DEF UnwaitGone, OnTheirWay, BlockedOn
    <3>2. Cardinality(OnTheirWay(v)) # 0
      BY <3>1, OnTheirWayFinite, FS_EmptySet
    <3> QED
      BY <1>1, <3>2 DEF CountFits, FiniFits
  <2>2. CASE UnwaitGone(t) /\ target[t] # v
    BY <1>1, <2>2 DEF TypeOK, UnwaitGone
  <2>3. CASE UnwaitRemove(t)
    <3>1. tUnwaiting[t] = 1 /\ target[t] \in WaitList /\ unwaiting[v] \in Int
      BY <1>1, <2>3, Operands DEF TypeOK, TargetFits, UnwaitRemove, RemoveFromList
    <3>2. unwaiting' = [unwaiting EXCEPT ![target[t]] = @ + (tUnwaiting[t] - 1)]
      BY <2>3 DEF UnwaitRemove, RemoveFromList
    <3> QED
      BY <1>1, <3>1, <3>2 DEF TypeOK
  <2>4. CASE ~(UnwaitGone(t) \/ UnwaitRemove(t))
    BY <2>4 DEF TaskletStep, CallStep, UnwaitStep, Later, Start, Return, TaskletInit, Wait,
           DownTake, DownWait, Leave, UnwaitNothing, UnwaitAnnounce, Stopped, Call, CallStop,
           wvars
  <2> QED
    BY <2>1, <2>2, <2>3, <2>4
<1>3. upCount'[v] > 0 => v \in Sema
  BY <1>1, TaskletStepLists DEF TypeOK, FiniFits
<1>4. CASE list'[v] = list[v]
  BY <1>1, <1>2, <1>3, <1>4, TaskletStepLists DEF FiniFits
<1>5. CASE list'[v] # list[v]
  BY <1>1, <1>2, <1>3, <1>5, TaskletStepLists DEF InUse, FiniFits
<1> QED
  BY <1>4, <1>5

LEMMA ListStepFini ==
    ASSUME IInv, NEW w \in WaitList, ListStep(w), NEW v \in WaitList
    PROVE  FiniFits(v)'
<1> USE DEF tvars, wvars, svars, pvars
<1>1. /\ TypeOK /\ FiniFits(v) /\ CountFits(v) /\ CountFits(v)' /\ unwaiting[v] \in Int
      /\ Cardinality(OnTheirWay(v)) \in Nat /\ Cardinality(OnTheirWay(v)') \in Nat
  <2>1. IsFiniteSet(OnTheirWay(v)')
    BY OnTheirWayFinite
  <2> QED
    BY <2>1, CountNat, FS_CardinalityType, ListStepCounts DEF IInv, ListsOK, TypeOK
<1>2. CASE v # w
  BY <1>1, <1>2 DEF TypeOK, FiniFits, ListStep, FiniStep, FiniRun, FiniDetach, FiniWoken,
         FiniBegin, SpuriousWakeup, WaitListInit, Broadcast, Set, Up
<1>3. CASE v = w /\ FiniDetach(w)
  <2>1. /\ fini'[w] = IF Tail(list[w]) # << >> THEN "run"
                      ELSE IF unwaiting'[w] > 0 THEN "wait" ELSE "done"
        /\ list'[w] = Tail(list[w]) /\ upCount' = upCount
    BY <1>1, <1>3 DEF TypeOK, FiniDetach
  <2>2. ~(unwaiting'[w] > 0) => unwaiting'[w] = 0
    BY <1>1, <1>3 DEF CountFits
  <2> QED
    BY <1>1, <1>3, <2>1, <2>2 DEF FiniFits
<1>4. CASE v = w /\ FiniWoken(w)
  <2>1. ~(unwaiting[w] > 0) => unwaiting[w] = 0
    BY <1>1, <1>4 DEF CountFits
  <2> QED
    BY <1>1, <1>4, <2>1 DEF TypeOK, FiniFits, FiniWoken
<1>5. CASE v = w /\ (FiniRun(w) \/ SpuriousWakeup(w) \/ FiniBegin(w) \/ Broadcast(w))
  BY <1>1, <1>5 DEF TypeOK, FiniFits, FiniRun, SpuriousWakeup, FiniBegin, Broadcast, InUse
<1>6. CASE v = w /\ WaitListInit(w)
  BY <1>1, <1>6 DEF TypeOK, FiniFits, WaitListInit
<1>7. CASE v = w /\ (Set(w, 0) \/ \E n \in 1 .. MaxUp : Up(w, n))
  BY <1>1, <1>7 DEF TypeOK, FiniFits, Set, Up
<1> QED
  BY <1>2, <1>3, <1>4, <1>5, <1>6, <1>7 DEF ListStep, FiniStep

-----------------------------------------------------------------------------
(* Who has been told to wait, and who has been run. *)

LEMMA TaskletStepAnswers ==
    ASSUME IInv, NEW t \in Tasklet, TaskletStep(t), NEW u \in Tasklet
    PROVE  Answered(u)'
<1> USE DEF tvars, wvars, svars, pvars, Answer, Goto, NoOp, AfterUnwait
<1>1. TypeOK /\ Answered(u) /\ CallFits(t) /\ TargetFits(t)
  BY DEF IInv, TaskletsOK
<1>2. CASE u # t
  BY <1>1, <1>2, OthersKept DEF TypeOK, Kept, Answered
<1>3. CASE u = t /\ Later(t)
  BY <1>1, <1>3 DEF TypeOK, Answered, Later, RunAll
<1>4. CASE u = t /\ (Start(t) \/ Return(t) \/ TaskletInit(t))
  BY <1>1, <1>4 DEF TypeOK, Answered, Start, Return, TaskletInit
<1>5. CASE u = t /\ (Wait(t) \/ DownWait(t))
  <2>1. op[t].w \in WaitList
    BY <1>5, Operands DEF Wait, DownWait
  <2>2. wait'[t] = op[t].w
    BY <1>1, <1>5 DEF TypeOK, Wait, DownWait, Add
  <2>3. waited'[t] = TRUE
    BY <1>1, <1>5 DEF TypeOK, Wait, DownWait
  <2> QED
    BY <1>5, <2>1, <2>2, <2>3, ConstantsAssumption DEF Answered
<1>6. CASE u = t /\ DownTake(t)
  BY <1>1, <1>6 DEF TypeOK, Answered, DownTake
<1>7. CASE u = t /\ Stopped(t)
  BY <1>1, <1>7 DEF TypeOK, Answered, Stopped
<1>8. CASE u = t /\ pc'[t] # "body" /\ UNCHANGED <<result, waited>>
  BY <1>1, <1>8 DEF Answered
<1>9. TaskletStep(t) => \/ Later(t) \/ Start(t) \/ Return(t) \/ TaskletInit(t)
                        \/ Wait(t) \/ DownWait(t) \/ DownTake(t) \/ Stopped(t)
                        \/ pc'[t] # "body" /\ UNCHANGED <<result, waited>>
  BY <1>1 DEF TypeOK, TaskletStep, CallStep, UnwaitStep, Leave, UnwaitNothing, UnwaitAnnounce,
         UnwaitRemove, RemoveFromList, UnwaitGone, Call, CallStop
<1> QED
  BY <1>2, <1>3, <1>4, <1>5, <1>6, <1>7, <1>8, <1>9

LEMMA ListStepAnswers ==
    ASSUME IInv, NEW w \in WaitList, ListStep(w), NEW u \in Tasklet
    PROVE  Answered(u)'
<1> USE DEF tvars, wvars, svars, pvars
<1>1. TypeOK /\ Answered(u) /\ Kept(u) /\ FiniFits(w) /\ HeadRun(w)
  BY AllKept DEF IInv, TaskletsOK, ListsOK
<1>2. CASE FiniDetach(w)
  <2>1. /\ wait'[u] = IF u = Head(list[w]) THEN NoList ELSE wait[u]
        /\ pending' = pending /\ stopped' = stopped
    BY <1>1, <1>2 DEF TypeOK, FiniDetach
  <2>2. u = Head(list[w]) /\ pc[u] = "body" /\ ~result[u] => pending[u] \/ stopped[u]
    BY <1>1, <1>2 DEF HeadRun, FiniDetach
  <2> QED
    BY <1>1, <2>1, <2>2 DEF Answered, Kept
<1>3. CASE UNCHANGED wait
  BY <1>1, <1>3 DEF TypeOK, Answered, Kept
<1>4. ListStep(w) => FiniDetach(w) \/ UNCHANGED wait
  BY DEF ListStep, FiniStep, FiniRun, FiniWoken, FiniBegin, SpuriousWakeup, WaitListInit,
         Broadcast, Set, Up
<1> QED
  BY <1>2, <1>3, <1>4

(* What a tasklet does that is on a list: not what it does off every list, *)
(* and no call on another list is answered.                                *)
LEMMA OnList ==
    ASSUME IInv, NEW t \in Tasklet, TaskletStep(t), wait[t] # NoList
    PROVE  \/ Later(t) \/ Start(t) \/ Return(t) \/ Leave(t)
           \/ (Wait(t) \/ DownWait(t) \/ DownTake(t)) /\ op[t].w = wait[t]
           \/ UnwaitAnnounce(t) \/ UnwaitRemove(t)
           \/ \E w \in WaitList, kind \in {"wait", "down"} : Call(t, kind, w)
           \/ \E kind \in {"stop", "halt", "fini"} : CallStop(t, kind)
<1>1. TargetFits(t)
  BY DEF IInv, TaskletsOK
<1>2. ~(TaskletInit(t) \/ UnwaitNothing(t) \/ UnwaitGone(t) \/ Stopped(t))
  BY <1>1 DEF TargetFits, TaskletInit, UnwaitNothing, UnwaitGone, Stopped
<1>3. Wait(t) \/ DownWait(t) \/ DownTake(t) => op[t].w = wait[t]
  BY DEF Wait, DownWait, DownTake
<1> QED
  BY <1>2, <1>3 DEF TaskletStep, CallStep, UnwaitStep
LEMMA TaskletStepHeadRun ==
    ASSUME IInv, NEW t \in Tasklet, TaskletStep(t), NEW v \in WaitList
    PROVE  HeadRun(v)'
<1> DEFINE h == Head(list[v])
<1> USE DEF tvars, wvars, svars, pvars, Answer, Goto, NoOp, AfterUnwait
<1>1. SUFFICES ASSUME fini'[v] = "detach"
               PROVE  HeadRun(v)'
  BY DEF HeadRun
<1>2. fini[v] = "detach" /\ list'[v] = list[v]
  BY <1>1, TaskletStepLists DEF InUse
<1>3. TypeOK /\ HeadRun(v) /\ list[v] # << >> /\ CallFits(t)
  BY <1>2 DEF IInv, TaskletsOK, ListsOK, FiniFits
<1>4. h \in Tasklet /\ wait[h] = v
  BY <1>3, Operands
<1> HIDE DEF h
<1>5. (pc[h] = "body" /\ ~result[h] => pending[h] \/ stopped[h])
      /\ h = Head(list'[v])
  BY <1>2, <1>3 DEF HeadRun, h
<1>6. pc'[h] = "body" /\ ~result'[h] => pending'[h] \/ stopped'[h]
  <2>1. CASE h # t
    BY <1>4, <1>5, <1>3, <2>1, OthersKept DEF Kept
  <2>2. CASE h = t
    <3>1. wait[t] # NoList
      BY <1>4, <2>2, ConstantsAssumption
    <3>2. CASE Later(t)
      BY <1>3, <1>4, <2>2, <3>2 DEF TypeOK, Later, RunAll
    <3>3. CASE Start(t) \/ Return(t) \/ Leave(t)
      BY <1>3, <1>5, <2>2, <3>3 DEF TypeOK, Start, Return, Leave
    <3>4. CASE (Wait(t) \/ DownWait(t) \/ DownTake(t)) /\ op[t].w = wait[t]
      <4>1. InUse(v)
        BY <1>3, <1>4, <2>2, <3>4 DEF CallFits, Wait, DownWait, DownTake
      <4> QED
        BY <1>2, <4>1 DEF InUse
    <3>5. CASE UnwaitAnnounce(t) \/ UnwaitRemove(t)
      BY <1>3, <2>2, <3>5 DEF TypeOK, UnwaitAnnounce, UnwaitRemove, RemoveFromList
    <3>6. CASE \/ \E w \in WaitList, kind \in {"wait", "down"} : Call(t, kind, w)
               \/ \E kind \in {"stop", "halt", "fini"} : CallStop(t, kind)
      BY <1>3, <2>2, <3>6 DEF TypeOK, Call, CallStop
    <3> QED
      BY <3>1, <3>2, <3>3, <3>4, <3>5, <3>6, OnList
  <2> QED
    BY <2>1, <2>2
<1> QED
  BY <1>5, <1>6 DEF HeadRun

LEMMA ListStepHeadRun ==
    ASSUME IInv, NEW w \in WaitList, ListStep(w), NEW v \in WaitList
    PROVE  HeadRun(v)'
<1> DEFINE h == Head(list[v])
<1> USE DEF tvars, wvars, svars, pvars
<1>1. SUFFICES ASSUME fini'[v] = "detach"
               PROVE  HeadRun(v)'
  BY DEF HeadRun
<1>2. TypeOK /\ HeadRun(v) /\ FiniFits(v)
  BY DEF IInv, ListsOK
<1>3. /\ list'[v] = list[v] /\ list[v] # << >>
      /\ fini[v] = "detach" \/ (v = w /\ FiniRun(w))
  BY <1>1, <1>2 DEF TypeOK, FiniFits, InUse, ListStep, FiniStep, FiniRun, FiniDetach, FiniWoken,
         FiniBegin, SpuriousWakeup, WaitListInit, Broadcast, Set, Up
<1>4. h \in Tasklet /\ h = Head(list'[v])
  BY <1>3, Operands
<1> HIDE DEF h
<1>5. pc'[h] = "body" /\ ~result'[h] => pending'[h] \/ stopped'[h]
  <2>1. CASE v = w /\ FiniRun(w)
    BY <1>4, <2>1 DEF FiniRun, RunAll, h
  <2>2. CASE fini[v] = "detach"
    <3>1. pc[h] = "body" /\ ~result[h] => pending[h] \/ stopped[h]
      BY <1>2, <2>2 DEF HeadRun, h
    <3> QED
      BY <1>2, <1>4, <3>1, AllKept DEF Kept
  <2> QED
    BY <1>3, <2>1, <2>2
<1> QED
  BY <1>4, <1>5 DEF HeadRun

LEMMA TaskletStepHeadAwake ==
    ASSUME IInv, NEW t \in Tasklet, TaskletStep(t), NEW v \in WaitList
    PROVE  HeadAwake(v)'
<1> DEFINE h == Head(list[v])
           Up1(x) == \/ pending[x]
                     \/ ~stopped[x] /\ pc[x] \in {"call", "unwait", "blocked"}
                     \/ ~stopped[x] /\ pc[x] = "body" /\ result[x]
<1> USE DEF tvars, wvars, svars, pvars, Answer, Goto, NoOp, AfterUnwait
<1>1. SUFFICES ASSUME InUse(v)', upCount'[v] > 0, list'[v] # << >>
               PROVE  Up1(Head(list[v]))'
  BY DEF HeadAwake
<1>2. TypeOK /\ TypeOK' /\ HeadAwake(v) /\ CallFits(t) /\ FiniFits(v)
  BY NextTyped DEF IInv, TaskletsOK, ListsOK, Next, TaskletStep
<1>3. InUse(v) /\ upCount[v] > 0
  <2>1. upCount[v] \in Int /\ upCount'[v] \in Int
    BY <1>2, ConstantsAssumption DEF TypeOK
  <2> QED
    BY <1>1, <2>1, TaskletStepLists DEF InUse
<1>4. CASE UnwaitRemove(t) /\ target[t] = v /\ h = t
  <2>1. Head(list'[v]) \in Tasklet
    <3>1. list'[v] \in Seq(Tasklet)
      BY <1>2 DEF TypeOK
    <3> QED
      BY <1>1, <3>1, HeadTailProperties
  <2>2. RunAll({Head(list'[v])})
    BY <1>1, <1>2, <1>3, <1>4 DEF TypeOK, UnwaitRemove, RemoveFromList
  <2> QED
    BY <2>1, <2>2 DEF RunAll
<1>5. CASE ~(UnwaitRemove(t) /\ target[t] = v /\ h = t)
  <2>1. list[v] # << >> /\ Head(list'[v]) = h /\ (h = t => ~UnwaitRemove(t))
    <3>1. CASE list'[v] = list[v]
      <4>1. h = t => wait[t] = v
        BY <1>1, <3>1, Operands
      <4>2. UnwaitRemove(t) => target[t] = wait[t]
        BY DEF UnwaitRemove, RemoveFromList
      <4> QED
        BY <1>1, <1>5, <3>1, <4>1, <4>2
    <3>2. CASE UnwaitRemove(t) /\ target[t] = v /\ wait[t] = v
      BY <1>5, <3>2, RemoveLinks DEF IInv, UnwaitRemove, RemoveFromList
    <3>3. CASE (Wait(t) \/ DownWait(t)) /\ op[t].w = v
      BY <1>2, <1>3, <3>3 DEF TypeOK, CallFits, FiniFits, Wait, DownWait
    <3> QED
      BY <3>1, <3>2, <3>3, TaskletStepLists
  <2>2. h \in Tasklet /\ wait[h] = v /\ Up1(h)
    BY <1>2, <1>3, <2>1, Operands DEF HeadAwake
  <2> HIDE DEF h
  <2>3. CASE h # t
    BY <1>2, <2>1, <2>2, <2>3, OthersKept DEF Kept
  <2>4. CASE h = t
    <3>1. wait[t] # NoList /\ Up1(t)
      BY <2>2, <2>4, ConstantsAssumption
    <3>2. CASE Later(t)
      BY <1>2, <2>1, <2>4, <3>2 DEF TypeOK, Later, RunAll
    <3>3. CASE Start(t)
      BY <1>2, <2>1, <2>4, <3>3 DEF TypeOK, Start
    <3>9. CASE Return(t) \/ Leave(t)
      BY <1>2, <2>1, <2>4, <3>1, <3>9 DEF TypeOK, Return, Leave
    <3>4. CASE DownTake(t)
      BY <1>2, <2>1, <2>4, <3>1, <3>4 DEF TypeOK, DownTake
    <3>5. CASE (Wait(t) \/ DownWait(t)) /\ op[t].w = wait[t]
      BY <1>2, <1>3, <2>2, <2>4, <3>5 DEF TypeOK, CallFits, FiniFits, Wait, DownWait
    <3>6. CASE UnwaitAnnounce(t)
      BY <1>2, <2>1, <2>4, <3>1, <3>6 DEF TypeOK, UnwaitAnnounce
    <3>7. ASSUME NEW w \in WaitList, NEW kind \in {"wait", "down"}, Call(t, kind, w)
          PROVE  Up1(Head(list[v]))'
      BY <1>2, <2>1, <2>4, <3>1, <3>7 DEF TypeOK, Call
    <3>8. ASSUME NEW kind \in {"stop", "halt", "fini"}, CallStop(t, kind)
          PROVE  Up1(Head(list[v]))'
      BY <1>2, <2>1, <2>4, <3>1, <3>8 DEF TypeOK, CallStop
    <3> QED
      BY <2>1, <2>4, <3>1, <3>2, <3>3, <3>4, <3>5, <3>6, <3>7, <3>8, <3>9, OnList
  <2> QED
    BY <2>3, <2>4
<1> QED
  BY <1>4, <1>5

LEMMA ListStepHeadAwake ==
    ASSUME IInv, NEW w \in WaitList, ListStep(w), NEW v \in WaitList
    PROVE  HeadAwake(v)'
<1> DEFINE h == Head(list[v])
<1> USE DEF tvars, wvars, svars, pvars
<1>1. SUFFICES ASSUME InUse(v)', upCount'[v] > 0, list'[v] # << >>
               PROVE  HeadAwake(v)'
  BY DEF HeadAwake
<1>2. TypeOK /\ HeadAwake(v)
  BY DEF IInv, ListsOK
<1>3. /\ InUse(v) /\ list'[v] = list[v]
      /\ upCount'[v] = upCount[v] \/ (v = w /\ \E n \in 1 .. MaxUp : Up(w, n))
  <2>1. CASE WaitListInit(w)
    BY <1>1, <1>2, <2>1 DEF TypeOK, InUse, WaitListInit
  <2>2. CASE Set(w, 0)
    BY <1>1, <1>2, <2>2 DEF TypeOK, InUse, Set
  <2>3. CASE \E n \in 1 .. MaxUp : Up(w, n)
    BY <1>1, <1>2, <2>3 DEF TypeOK, InUse, Up
  <2>4. CASE FiniStep(w) \/ FiniBegin(w) \/ SpuriousWakeup(w) \/ Broadcast(w)
    BY <1>1, <1>2, <2>4 DEF TypeOK, InUse, FiniStep, FiniRun, FiniDetach, FiniWoken, FiniBegin,
           SpuriousWakeup, Broadcast
  <2> QED
    BY <2>1, <2>2, <2>3, <2>4 DEF ListStep
<1>4. h \in Tasklet /\ h = Head(list'[v])
  BY <1>1, <1>3, Operands
<1>5. CASE upCount'[v] = upCount[v]
  <2> HIDE DEF h
  <2>1. \/ pending[h]
        \/ ~stopped[h] /\ pc[h] \in {"call", "unwait", "blocked"}
        \/ ~stopped[h] /\ pc[h] = "body" /\ result[h]
    BY <1>1, <1>2, <1>3, <1>5 DEF HeadAwake, h
  <2> QED
    BY <1>2, <1>4, <2>1, AllKept DEF Kept, HeadAwake
<1>6. CASE v = w /\ \E n \in 1 .. MaxUp : Up(w, n)
  <2>1. RunAll({h})
    BY <1>1, <1>3, <1>6 DEF Up
  <2>2. pending'[h]
    <3> HIDE DEF h
    <3> QED
      BY <1>4, <2>1 DEF RunAll
  <2> HIDE DEF h
  <2> QED
    BY <1>4, <2>2 DEF HeadAwake
<1> QED
  BY <1>3, <1>5, <1>6

-----------------------------------------------------------------------------
(* The steps keep all parts of the invariant together.                     *)
LEMMA NextIInv ==
    ASSUME IInv, Next
    PROVE  IInv'
<1>1. TypeOK'
  BY NextTyped
<1>2. CASE \E t \in Tasklet : TaskletStep(t)
  <2>1. PICK t \in Tasklet : TaskletStep(t)
    BY <1>2
  <2>2. TaskletsOK'
    BY <2>1, TaskletStepCalls, TaskletStepTargets, TaskletStepAnswers DEF TaskletsOK
  <2>3. LinksOK'
    BY <2>1, TaskletStepLinks
  <2>4. ListsOK'
    BY <2>1, TaskletStepFini, TaskletStepCounts, TaskletStepHeadRun, TaskletStepHeadAwake
       DEF ListsOK
  <2> QED
    BY <1>1, <2>2, <2>3, <2>4 DEF IInv
<1>3. CASE \E w \in WaitList : ListStep(w)
  <2>1. PICK w \in WaitList : ListStep(w)
    BY <1>3
  <2>2. TaskletsOK'
    BY <2>1, ListStepCalls, ListStepTargets, ListStepAnswers DEF TaskletsOK
  <2>3. LinksOK'
    BY <2>1, ListStepLinks
  <2>4. ListsOK'
    BY <2>1, ListStepFini, ListStepCounts, ListStepHeadRun, ListStepHeadAwake DEF ListsOK
  <2> QED
    BY <1>1, <2>2, <2>3, <2>4 DEF IInv
<1> QED
  BY <1>2, <1>3 DEF Next, TaskletStep, ListStep

LEMMA StutterIInv == IInv /\ UNCHANGED vars => IInv'
<1> SUFFICES ASSUME IInv, UNCHANGED vars PROVE IInv'
  OBVIOUS
<1>1. UNCHANGED <<wait, waited, tUnwaiting, list, unwaiting, upCount, fini, pending, stopped, pc,
                  op, result, target>>
  BY DEF vars, tvars, wvars, svars, pvars
<1>2. TypeOK'
  BY <1>1 DEF IInv, TypeOK
<1>3. TaskletsOK'
  BY <1>1 DEF IInv, TaskletsOK, CallFits, TargetFits, Answered, InUse
<1>4. LinksOK'
  BY <1>1, SameLinks DEF IInv
<1>5. ListsOK'
  BY <1>1 DEF IInv, ListsOK, FiniFits, CountFits, OnTheirWay, BlockedOn, HeadRun, HeadAwake, InUse
<1> QED
  BY <1>2, <1>3, <1>4, <1>5 DEF IInv

(* Each call of the API, and each step of a handler or of wait_list_fini,  *)
(* keeps the invariant, in whatever order they come.                       *)
THEOREM Invariance == Spec => []IInv
<1>1. IInv /\ [Next]_vars => IInv'
  BY NextIInv, StutterIInv
<1> QED
  BY InitIInv, <1>1, PTL DEF Spec

(* The fields of tasklets and wait lists have their types: up_count does   *)
(* not go below zero.                                                      *)
THEOREM TypeCorrect == Spec => []TypeOK
<1>1. IInv => TypeOK
  BY DEF IInv
<1> QED
  BY Invariance, <1>1, PTL

(* The two unwaiting fields count exactly the threads that tasklet_unwait  *)
(* has on their way to a wait list's mutex.                                *)
THEOREM UnwaitingIsExact == Spec => []UnwaitingCounts
<1>1. IInv => UnwaitingCounts
  <2> SUFFICES ASSUME IInv PROVE UnwaitingCounts
    OBVIOUS
  <2>1. ASSUME NEW w \in WaitList
        PROVE  unwaiting[w] = Cardinality({t \in BlockedOn(w) : wait[t] # w})
    BY DEF IInv, ListsOK, CountFits, OnTheirWay
  <2>2. ASSUME NEW t \in Tasklet
        PROVE  tUnwaiting[t] = IF \E w \in WaitList : t \in BlockedOn(w) /\ wait[t] = w
                               THEN 1 ELSE 0
    BY Operands DEF IInv, TaskletsOK, TargetFits, BlockedOn
  <2> QED
    BY <2>1, <2>2 DEF UnwaitingCounts
<1> QED
  BY Invariance, <1>1, PTL

(* When wait_list_fini has returned nobody is on the list, or on the way   *)
(* to its mutex; and a finalized tasklet is on no list.                    *)
THEOREM FiniIsSafe == Spec => []FiniIsFinal
<1>1. IInv => FiniIsFinal
  <2> SUFFICES ASSUME IInv PROVE FiniIsFinal
    OBVIOUS
  <2>1. ASSUME NEW w \in WaitList, fini[w] = "done", NEW t \in Tasklet
        PROVE  wait[t] # w /\ t \notin BlockedOn(w)
    <3>1. list[w] = << >> /\ Cardinality(OnTheirWay(w)) = 0
      BY <2>1 DEF IInv, ListsOK, FiniFits, CountFits
    <3>2. wait[t] # w
      BY <3>1 DEF IInv, LinksOK, ListFits, Contains
    <3>3. OnTheirWay(w) = {}
      BY <3>1, OnTheirWayFinite, FS_EmptySet
    <3> QED
      BY <3>2, <3>3 DEF OnTheirWay
  <2>2. ASSUME NEW w \in WaitList, NEW t \in ToSet(list[w])
        PROVE  pc[t] \notin {"dead", "off"}
    <3>1. list[w] \in Seq(Tasklet)
      BY DEF IInv, TypeOK
    <3>2. t \in Tasklet /\ Contains(list[w], t)
      BY <2>2, <3>1 DEF ToSet, Contains
    <3>3. wait[t] = w /\ TargetFits(t)
      BY <3>2 DEF IInv, LinksOK, ListFits, TaskletsOK
    <3> QED
      BY <3>3, ConstantsAssumption DEF TargetFits
  <2> QED
    BY <2>1, <2>2 DEF FiniIsFinal
<1> QED
  BY Invariance, <1>1, PTL

(* The assertions of run_queue_run hold: a handler that waited leaves its  *)
(* tasklet on a wait list, whatever wait_list_fini does meanwhile.         *)
THEOREM AssertionsHold == Spec => []NoDanglingTasklet
<1>1. IInv => NoDanglingTasklet
  BY DEF IInv, TaskletsOK, Answered, NoDanglingTasklet
<1> QED
  BY Invariance, <1>1, PTL

(* No wake-up is lost: the head of a list that has something to be had is  *)
(* to be run, or is running and has not been told to wait.                 *)
THEOREM WakeupsArrive == Spec => []NoLostWakeup
<1>1. IInv => NoLostWakeup
  BY DEF IInv, ListsOK, HeadAwake, NoLostWakeup, Awake
<1> QED
  BY Invariance, <1>1, PTL
=============================================================================
