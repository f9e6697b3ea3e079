--------------------------- MODULE PollSlotsProofs ---------------------------
(***************************************************************************)
(* The sockets over the poll(2) back end, for any number of descriptors    *)
(* and of arriving connections.  Two halves: the arrays of the back end    *)
(* agree provided that its callers hand it what exists (SlotsInv), and the *)
(* client socket, with its connector, and the server socket do so provided *)
(* that they are called back only for what they watch (ClientInv,          *)
(* ServerInv).  Inv has both, and is inductive.                            *)
(***************************************************************************)
EXTENDS SocketsOverPoll, SequenceLemmas, FiniteSetTheorems

Entry == [w : Fd, events : SUBSET Events, revents : SUBSET Events]

(* Of sockets, a list, an array and the numbers of the slots in it. *)
SlotsMatch(slots, num, state) ==
    /\ \A q \in 1..Len(slots) : num[slots[q].w] = q /\ state[slots[q].w] \in {"open", "gone"}
    /\ \A w \in Fd : num[w] # 0 => num[w] \in 1..Len(slots) /\ slots[num[w]].w = w

ListMatches(list, state) ==
    /\ \A a, b \in 1..Len(list) : list[a] = list[b] => a = b
    /\ \A a \in 1..Len(list) : state[list[a]] \in {"open", "gone"}

IsOn(list, w) == \E a \in 1..Len(list) : list[a] = w

SlotsTyped ==
    /\ st \in [Fd -> {"none", "open", "gone", "freed"}]
    /\ interest \in [Fd -> SUBSET Events]
    /\ slot \in [Fd -> Nat]
    /\ pollfds \in Seq(Entry)
    /\ updates \in Seq(Fd)
    /\ i \in Nat \ {0}

(* A watched_fd that was destroyed while it had a slot is on the list,     *)
(* with no interest, so that poll_prepare will remove it.                  *)
GoneAreUpdated ==
    \A w \in Fd : st[w] = "gone" => slot[w] # 0 /\ interest[w] = {} /\ IsOn(updates, w)

(* The lock keeps a watched_fd whose handler is called from being          *)
(* destroyed, and its slot from being moved.                               *)
HandledIsOpen ==
    pc = "handling" => i \in 1..Len(pollfds) /\ st[pollfds[i].w] = "open"

SlotsInv ==
    /\ SlotsTyped
    /\ SlotsMatch(pollfds, slot, st)
    /\ ListMatches(updates, st)
    /\ GoneAreUpdated
    /\ HandledIsOpen

(* The invariant says more than SlotsOK: it is what the steps keep. *)
LEMMA SlotsInvSound == SlotsInv => SlotsOK
<1> SUFFICES ASSUME SlotsInv PROVE SlotsOK
  OBVIOUS
<1>1. DOMAIN pollfds = 1..Len(pollfds) /\ DOMAIN updates = 1..Len(updates)
  BY DEF SlotsInv, SlotsTyped
<1>2. \A w \in Fd : w \in Range(updates) <=> IsOn(updates, w)
  BY <1>1 DEF Range, IsOn
<1>3. IsInjective(updates) /\ \A w \in Range(updates) : st[w] # "freed"
  BY <1>1 DEF SlotsInv, ListMatches, IsInjective, Range
<1>4. /\ \A q \in DOMAIN pollfds : slot[pollfds[q].w] = q /\ st[pollfds[q].w] # "freed"
      /\ \A w \in Fd : slot[w] # 0 => slot[w] \in DOMAIN pollfds /\ pollfds[slot[w]].w = w
  BY <1>1 DEF SlotsInv, SlotsMatch
<1>5. \A w \in Fd : st[w] = "gone" => slot[w] # 0 /\ w \in Range(updates)
  BY <1>2 DEF SlotsInv, GoneAreUpdated
<1> QED
  BY <1>3, <1>4, <1>5 DEF SlotsOK, SlotsAgree

(* No slot and no update at first. *)
LEMMA SlotsInvInit == BackEndInit => SlotsInv
<1> SUFFICES ASSUME BackEndInit PROVE SlotsInv
  OBVIOUS
<1>1. pollfds \in Seq(Entry) /\ Len(pollfds) = 0 /\ updates \in Seq(Fd) /\ Len(updates) = 0
  BY DEF BackEndInit
<1>2. SlotsTyped
  BY <1>1 DEF BackEndInit, SlotsTyped
<1> QED
  BY <1>1, <1>2
  DEF BackEndInit, SlotsInv, SlotsMatch, ListMatches, GoneAreUpdated, HandledIsOpen

-----------------------------------------------------------------------------
(* The slots *)

(* remove_pollfd: the last slot takes the place of the removed one.        *)
LEMMA RemovedSlot ==
    ASSUME SlotsTyped, SlotsMatch(pollfds, slot, st), NEW q \in 1..Len(pollfds)
    PROVE  LET s == RemovePollfd(Slots, q)
               w == pollfds[q].w
           IN  /\ s.pollfds \in Seq(Entry) /\ s.slot \in [Fd -> Nat]
               /\ w \in Fd /\ slot[w] = q
               /\ s.st = [st EXCEPT ![w] = IF st[w] = "gone" THEN "freed" ELSE st[w]]
               /\ s.slot[w] = 0
               /\ \A d \in Fd \ {w} : s.slot[d] # 0 <=> slot[d] # 0
               /\ \A d \in Fd \ {w} : slot[d] # 0 => s.pollfds[s.slot[d]] = pollfds[slot[d]]
               /\ SlotsMatch(s.pollfds, s.slot, s.st)
<1> DEFINE s == RemovePollfd(Slots, q)
           w == pollfds[q].w
           l == Len(pollfds)
           m == pollfds[l].w
<1>1. /\ pollfds \in Seq(Entry) /\ l \in Nat \ {0} /\ q \in 1..l /\ l \in 1..l
      /\ \A n \in 1..l : pollfds[n] \in Entry /\ pollfds[n].w \in Fd /\ slot[pollfds[n].w] = n
                         /\ st[pollfds[n].w] \in {"open", "gone"}
      /\ \A d \in Fd : slot[d] # 0 => slot[d] \in 1..l /\ pollfds[slot[d]].w = d
  <2>1. pollfds \in Seq(Entry) /\ l \in Nat \ {0} /\ q \in 1..l /\ l \in 1..l
    BY DEF SlotsTyped
  <2>2. \A n \in 1..l : pollfds[n] \in Entry
    BY <2>1
  <2>3. \A n \in 1..l : pollfds[n].w \in Fd
    BY <2>2 DEF Entry
  <2> QED
    BY <2>1, <2>2, <2>3 DEF SlotsMatch
<1>2. /\ s.pollfds = Front([pollfds EXCEPT ![q] = Last(pollfds)])
      /\ s.slot = [slot EXCEPT ![m] = q, ![w] = 0]
      /\ s.st = [st EXCEPT ![w] = IF st[w] = "gone" THEN "freed" ELSE st[w]]
  BY DEF RemovePollfd, Slots, Last
<1> HIDE DEF s
<1>3. /\ s.pollfds \in Seq(Entry) /\ Len(s.pollfds) = l - 1
      /\ \A n \in 1..l - 1 : s.pollfds[n] = IF n = q THEN pollfds[l] ELSE pollfds[n]
  <2> DEFINE t == Front([pollfds EXCEPT ![q] = Last(pollfds)])
  <2>1. /\ t \in Seq(Entry) /\ Len(t) = l - 1
        /\ \A n \in 1..l - 1 : t[n] = IF n = q THEN pollfds[l] ELSE pollfds[n]
    <3>1. pollfds \in Seq(Entry) /\ q \in 1..l
      BY <1>1
    <3> QED
      BY <3>1, ReplacedByLast
  <2> HIDE DEF t
  <2> QED
    BY <1>2, <2>1 DEF t
<1>4. /\ s.slot \in [Fd -> Nat] /\ s.slot[w] = 0
      /\ \A d \in Fd \ {w} : s.slot[d] = IF d = m THEN q ELSE slot[d]
  BY <1>1, <1>2 DEF SlotsTyped
<1>5. \A d \in Fd \ {w} : s.st[d] = st[d]
  BY <1>1, <1>2 DEF SlotsTyped
<1>6. ASSUME NEW n \in 1..l - 1
      PROVE  /\ s.pollfds[n].w \in Fd \ {w} /\ s.slot[s.pollfds[n].w] = n
             /\ s.st[s.pollfds[n].w] \in {"open", "gone"}
  <2>1. CASE n = q
    <3>1. s.pollfds[n].w = m /\ m \in Fd /\ m # w
      BY <1>1, <1>3, <2>1
    <3> QED
      BY <1>1, <1>4, <1>5, <2>1, <3>1
  <2>2. CASE n # q
    <3>1. s.pollfds[n].w = pollfds[n].w /\ n \in 1..l /\ n # l
      BY <1>1, <1>3, <2>2
    <3>2. pollfds[n].w \in Fd /\ pollfds[n].w # w /\ pollfds[n].w # m
      BY <1>1, <2>2, <3>1
    <3> QED
      BY <1>1, <1>4, <1>5, <3>1, <3>2
  <2> QED
    BY <2>1, <2>2
<1>7. ASSUME NEW d \in Fd, s.slot[d] # 0
      PROVE  s.slot[d] \in 1..l - 1 /\ s.pollfds[s.slot[d]].w = d
  <2>1. d # w
    BY <1>4, <1>7
  <2>2. CASE d = m
    <3>1. s.slot[d] = q /\ q # l
      BY <1>1, <1>4, <2>1, <2>2
    <3> QED
      BY <1>1, <1>3, <2>2, <3>1
  <2>3. CASE d # m
    <3>1. s.slot[d] = slot[d] /\ slot[d] \in 1..l /\ pollfds[slot[d]].w = d
      BY <1>1, <1>4, <1>7, <2>1, <2>3
    <3>2. slot[d] # l /\ slot[d] # q
      BY <2>1, <2>3, <3>1
    <3> DEFINE n == slot[d]
    <3>3. n \in 1..l - 1 /\ n # q
      BY <1>1, <3>1, <3>2
    <3>4. s.pollfds[n] = pollfds[n]
      BY <1>3, <3>3
    <3> QED
      BY <3>1, <3>3, <3>4
  <2> QED
    BY <2>2, <2>3
<1>8. SlotsMatch(s.pollfds, s.slot, s.st)
  BY <1>3, <1>6, <1>7 DEF SlotsMatch
<1>9. \A d \in Fd \ {w} : s.slot[d] # 0 <=> slot[d] # 0
  BY <1>1, <1>4
<1>10. ASSUME NEW d \in Fd \ {w}, slot[d] # 0 PROVE s.pollfds[s.slot[d]] = pollfds[slot[d]]
  <2>1. slot[d] \in 1..l /\ pollfds[slot[d]].w = d /\ slot[d] # q
    BY <1>1, <1>10
  <2>2. CASE d = m
    <3>1. s.slot[d] = q /\ slot[d] = l /\ q \in 1..l - 1
      BY <1>1, <1>4, <2>1, <2>2
    <3> QED
      BY <1>3, <3>1
  <2>3. CASE d # m
    <3>1. s.slot[d] = slot[d] /\ slot[d] \in 1..l - 1
      BY <1>1, <1>4, <2>1, <2>3
    <3> DEFINE n == slot[d]
    <3>2. n \in 1..l - 1 /\ n # q /\ s.slot[d] = n
      BY <2>1, <3>1
    <3> HIDE DEF n
    <3>3. s.pollfds[n] = pollfds[n]
      BY <1>3, <3>2
    <3> QED
      BY <3>2, <3>3 DEF n
  <2> QED
    BY <2>2, <2>3
<1> QED
  BY <1>1, <1>2, <1>3, <1>4, <1>8, <1>9, <1>10 DEF s

(* add_pollfd: the new slot is the last one.                               *)
LEMMA AddedSlot ==
    ASSUME SlotsTyped, SlotsMatch(pollfds, slot, st), NEW w \in Fd, slot[w] = 0, st[w] = "open"
    PROVE  LET s == AddPollfd(Slots, w)
           IN  /\ s.pollfds \in Seq(Entry) /\ s.slot \in [Fd -> Nat] /\ s.st = st
               /\ \A d \in Fd \ {w} : s.slot[d] = slot[d]
               /\ \A d \in Fd \ {w} : slot[d] # 0 => s.pollfds[s.slot[d]] = pollfds[slot[d]]
               /\ s.slot[w] # 0
               /\ s.pollfds[s.slot[w]] = [w |-> w, events |-> interest[w], revents |-> {}]
               /\ SlotsMatch(s.pollfds, s.slot, s.st)
<1> DEFINE s == AddPollfd(Slots, w)
           e == [w |-> w, events |-> interest[w], revents |-> {}]
           l == Len(pollfds)
<1>1. /\ pollfds \in Seq(Entry) /\ l \in Nat /\ e \in Entry
  BY DEF SlotsTyped, Entry
<1>2. \A n \in 1..l : /\ slot[pollfds[n].w] = n /\ st[pollfds[n].w] \in {"open", "gone"}
                      /\ pollfds[n].w # w
  BY DEF SlotsMatch
<1>3. \A n \in 1..l : pollfds[n].w \in Fd
  <2>1. \A n \in 1..l : pollfds[n] \in Entry
    BY <1>1
  <2> QED
    BY <2>1 DEF Entry
<1>4. s.pollfds = Append(pollfds, e) /\ s.slot = [slot EXCEPT ![w] = l + 1] /\ s.st = st
  BY DEF AddPollfd, Slots
<1>5. /\ s.pollfds \in Seq(Entry) /\ Len(s.pollfds) = l + 1
      /\ s.pollfds[l + 1] = e /\ \A n \in 1..l : s.pollfds[n] = pollfds[n]
  <2> HIDE DEF e
  <2> QED
    BY <1>1, <1>4
<1> HIDE DEF s
<1>6. /\ s.slot \in [Fd -> Nat] /\ s.slot[w] = l + 1
      /\ \A d \in Fd \ {w} : s.slot[d] = slot[d]
  BY <1>1, <1>4 DEF SlotsTyped
<1>7. \A n \in 1..l + 1 : s.slot[s.pollfds[n].w] = n /\ s.st[s.pollfds[n].w] \in {"open", "gone"}
  <2> SUFFICES ASSUME NEW n \in 1..l + 1
               PROVE  s.slot[s.pollfds[n].w] = n /\ s.st[s.pollfds[n].w] \in {"open", "gone"}
    OBVIOUS
  <2>1. CASE n = l + 1
    BY <1>4, <1>5, <1>6, <2>1
  <2>2. CASE n # l + 1
    <3>1. n \in 1..l
      BY <1>1, <2>2
    <3> QED
      BY <1>2, <1>3, <1>4, <1>5, <1>6, <3>1
  <2> QED
    BY <2>1, <2>2
<1>8. ASSUME NEW d \in Fd, s.slot[d] # 0
      PROVE  s.slot[d] \in 1..l + 1 /\ s.pollfds[s.slot[d]].w = d
  <2>1. CASE d = w
    BY <1>1, <1>5, <1>6, <2>1
  <2>2. CASE d # w
    <3>1. s.slot[d] = slot[d] /\ slot[d] \in 1..l /\ pollfds[slot[d]].w = d
      BY <1>6, <1>8, <2>2 DEF SlotsMatch
    <3> QED
      BY <1>1, <1>5, <3>1
  <2> QED
    BY <2>1, <2>2
<1>9. SlotsMatch(s.pollfds, s.slot, s.st)
  BY <1>5, <1>7, <1>8 DEF SlotsMatch
<1>10. \A d \in Fd \ {w} : slot[d] # 0 => s.pollfds[s.slot[d]] = pollfds[slot[d]]
  BY <1>5, <1>6 DEF SlotsMatch
<1>11. s.slot[w] # 0 /\ s.pollfds[s.slot[w]] = e
  BY <1>1, <1>5, <1>6
<1> QED
  BY <1>4, <1>5, <1>6, <1>9, <1>10, <1>11 DEF s

(* What stays when each slot keeps its watched_fd. *)
LEMMA SameSlots ==
    ASSUME NEW s, NEW t, NEW num, NEW state, SlotsMatch(s, num, state),
           Len(t) = Len(s), \A q \in 1..Len(s) : t[q].w = s[q].w
    PROVE  SlotsMatch(t, num, state)
BY DEF SlotsMatch

-----------------------------------------------------------------------------
(* The list of updates *)

(* updated puts a watched_fd on the list once.                             *)
LEMMA UpdatedList ==
    ASSUME updates \in Seq(Fd), \A a, b \in 1..Len(updates) : updates[a] = updates[b] => a = b,
           NEW w \in Fd, Updated(w)
    PROVE  /\ updates' \in Seq(Fd)
           /\ \A a, b \in 1..Len(updates') : updates'[a] = updates'[b] => a = b
           /\ \A d \in Fd : IsOn(updates', d) <=> IsOn(updates, d) \/ d = w
<1>1. DOMAIN updates = 1..Len(updates) /\ Len(updates) \in Nat
  OBVIOUS
<1>2. CASE w \in Range(updates)
  BY <1>1, <1>2 DEF Updated, IsOn, Range
<1>3. CASE w \notin Range(updates)
  <2>1. updates' = Append(updates, w) /\ \A a \in 1..Len(updates) : updates[a] # w
    BY <1>1, <1>3 DEF Updated, Range
  <2>2. /\ updates' \in Seq(Fd) /\ Len(updates') = Len(updates) + 1
        /\ updates'[Len(updates) + 1] = w
        /\ \A a \in 1..Len(updates) : updates'[a] = updates[a]
    BY <2>1
  <2>3. \A a, b \in 1..Len(updates') : updates'[a] = updates'[b] => a = b
    BY <1>1, <2>1, <2>2
  <2>4. \A d \in Fd : IsOn(updates', d) <=> IsOn(updates, d) \/ d = w
    BY <1>1, <2>2 DEF IsOn
  <2> QED
    BY <2>2, <2>3, <2>4
<1> QED
  BY <1>2, <1>3

(* Unlisted takes it off.                                                  *)
LEMMA UnlistedList ==
    ASSUME updates \in Seq(Fd), \A a, b \in 1..Len(updates) : updates[a] = updates[b] => a = b,
           NEW w \in Fd
    PROVE  /\ Unlisted(w) \in Seq(Fd)
           /\ \A a, b \in 1..Len(Unlisted(w)) : Unlisted(w)[a] = Unlisted(w)[b] => a = b
           /\ \A d \in Fd : IsOn(Unlisted(w), d) <=> IsOn(updates, d) /\ d # w
<1> DEFINE l == Len(updates)
<1>1. DOMAIN updates = 1..l /\ l \in Nat
  OBVIOUS
<1>2. CASE w \notin Range(updates)
  BY <1>1, <1>2 DEF Unlisted, IsOn, Range
<1>3. CASE w \in Range(updates)
  <2>1. PICK n \in 1..l : updates[n] = w /\ Unlisted(w) = RemoveAt(updates, n)
    <3>1. \E n \in DOMAIN updates : updates[n] = w
      BY <1>3 DEF Range
    <3> QED
      BY <1>1, <1>3, <3>1 DEF Unlisted
  <2> DEFINE t == Unlisted(w)
  <2>2. /\ t \in Seq(Fd) /\ Len(t) = l - 1
        /\ \A a \in 1..l - 1 : t[a] = IF a < n THEN updates[a] ELSE updates[a + 1]
    <3> DEFINE r == RemoveAt(updates, n)
    <3>1. /\ r \in Seq(Fd) /\ Len(r) = l - 1
          /\ \A a \in 1..l - 1 : r[a] = IF a < n THEN updates[a] ELSE updates[a + 1]
      BY <2>1, RemovedAt
    <3> HIDE DEF r
    <3> QED
      BY <2>1, <3>1 DEF r
  <2> HIDE DEF t
  <2>3. \A a \in 1..l - 1 : a \in 1..l /\ a + 1 \in 1..l
    BY <1>1
  <2>4. \A a, b \in 1..l - 1 : t[a] = t[b] => a = b
    <3> SUFFICES ASSUME NEW a \in 1..l - 1, NEW b \in 1..l - 1, t[a] = t[b] PROVE a = b
      OBVIOUS
    <3>1. CASE a < n /\ b < n
      BY <2>2, <2>3, <3>1
    <3>2. CASE a < n /\ ~(b < n)
      <4>1. updates[a] = updates[b + 1]
        BY <2>2, <3>2
      <4> QED
        BY <1>1, <2>3, <3>2, <4>1
    <3>3. CASE ~(a < n) /\ b < n
      <4>1. updates[a + 1] = updates[b]
        BY <2>2, <3>3
      <4> QED
        BY <1>1, <2>3, <3>3, <4>1
    <3>4. CASE ~(a < n) /\ ~(b < n)
      <4>1. updates[a + 1] = updates[b + 1]
        BY <2>2, <3>4
      <4> QED
        BY <1>1, <2>3, <4>1
    <3> QED
      BY <3>1, <3>2, <3>3, <3>4
  <2>5. ASSUME NEW d \in Fd PROVE IsOn(t, d) <=> IsOn(updates, d) /\ d # w
    <3>1. ASSUME IsOn(t, d) PROVE IsOn(updates, d) /\ d # w
      <4>1. PICK a \in 1..l - 1 : t[a] = d
        BY <2>2, <3>1 DEF IsOn
      <4>2. PICK b \in 1..l : b # n /\ updates[b] = d
        BY <1>1, <2>2, <2>3, <4>1
      <4> QED
        BY <2>1, <4>2 DEF IsOn
    <3>2. ASSUME IsOn(updates, d), d # w PROVE IsOn(t, d)
      <4>1. PICK b \in 1..l : updates[b] = d /\ b # n
        BY <2>1, <3>2 DEF IsOn
      <4>2. CASE b < n
        <5>1. b \in 1..l - 1 /\ t[b] = d
          BY <1>1, <2>2, <4>1, <4>2
        <5> QED
          BY <2>2, <5>1 DEF IsOn
      <4>3. CASE ~(b < n)
        <5>1. b - 1 \in 1..l - 1 /\ ~(b - 1 < n) /\ (b - 1) + 1 = b
          BY <1>1, <4>1, <4>3
        <5>2. t[b - 1] = d
          BY <2>2, <4>1, <5>1
        <5> QED
          BY <2>2, <5>1, <5>2 DEF IsOn
      <4> QED
        BY <4>2, <4>3
    <3> QED
      BY <3>1, <3>2
  <2> QED
    BY <2>2, <2>4, <2>5 DEF t
<1> QED
  BY <1>2, <1>3

(* poll_prepare takes the head of the list. *)
LEMMA TailList ==
    ASSUME updates \in Seq(Fd), \A a, b \in 1..Len(updates) : updates[a] = updates[b] => a = b,
           updates # << >>
    PROVE  /\ Tail(updates) \in Seq(Fd) /\ Head(updates) \in Fd /\ IsOn(updates, Head(updates))
           /\ \A a, b \in 1..Len(Tail(updates)) : Tail(updates)[a] = Tail(updates)[b] => a = b
           /\ \A d \in Fd : IsOn(Tail(updates), d)
                              <=> IsOn(updates, d) /\ d # Head(updates)
<1> DEFINE l == Len(updates)
           t == Tail(updates)
<1>1. /\ l \in Nat \ {0} /\ t \in Seq(Fd) /\ Len(t) = l - 1 /\ Head(updates) = updates[1]
      /\ \A a \in 1..l - 1 : t[a] = updates[a + 1]
      /\ Head(updates) \in Fd
  BY HeadTailProperties
<1> HIDE DEF t
<1>2. \A a \in 1..l - 1 : a + 1 \in 1..l
  BY <1>1
<1>3. \A a, b \in 1..l - 1 : t[a] = t[b] => a = b
  BY <1>1, <1>2
<1>4. ASSUME NEW d \in Fd PROVE IsOn(t, d) <=> IsOn(updates, d) /\ d # updates[1]
  <2>1. ASSUME IsOn(t, d) PROVE IsOn(updates, d) /\ d # updates[1]
    BY <1>1, <1>2, <2>1 DEF IsOn
  <2>2. ASSUME IsOn(updates, d), d # updates[1] PROVE IsOn(t, d)
    <3>1. PICK b \in 1..l : updates[b] = d /\ b # 1
      BY <2>2 DEF IsOn
    <3>2. b - 1 \in 1..l - 1 /\ (b - 1) + 1 = b
      BY <1>1, <3>1
    <3>3. t[b - 1] = d
      BY <1>1, <3>1, <3>2
    <3> QED
      BY <1>1, <3>2, <3>3 DEF IsOn
  <2> QED
    BY <2>1, <2>2
<1>5. IsOn(updates, updates[1])
  BY <1>1 DEF IsOn
<1> QED
  BY <1>1, <1>3, <1>4, <1>5 DEF t

-----------------------------------------------------------------------------
(* The steps *)

(* What poll_prepare does for an entry: it gives an open watched_fd a      *)
(* slot, changes its slot, or takes it away, and frees one that is gone.   *)
LEMMA SyncedSlots ==
    ASSUME SlotsInv, NEW w \in Fd, IsOn(updates, w)
    PROVE  LET s == Sync(Slots, w)
           IN  /\ s.pollfds \in Seq(Entry) /\ s.slot \in [Fd -> Nat]
               /\ s.st = [st EXCEPT ![w] = IF st[w] = "gone" THEN "freed" ELSE st[w]]
               /\ \A d \in Fd \ {w} : s.slot[d] # 0 <=> slot[d] # 0
               /\ \A d \in Fd \ {w} : slot[d] # 0 => s.pollfds[s.slot[d]] = pollfds[slot[d]]
               /\ s.slot[w] # 0 <=> interest[w] # {}
               /\ interest[w] # {} =>
                     /\ s.pollfds[s.slot[w]].events = interest[w]
                     /\ s.pollfds[s.slot[w]].revents =
                           IF slot[w] = 0 THEN {} ELSE pollfds[slot[w]].revents
               /\ SlotsMatch(s.pollfds, s.slot, s.st)
<1> DEFINE s == Sync(Slots, w)
           Good(r) == /\ r.pollfds \in Seq(Entry) /\ r.slot \in [Fd -> Nat]
                      /\ r.st = [st EXCEPT ![w] = IF st[w] = "gone" THEN "freed" ELSE st[w]]
                      /\ \A d \in Fd \ {w} : r.slot[d] # 0 <=> slot[d] # 0
                      /\ \A d \in Fd \ {w} :
                            slot[d] # 0 => r.pollfds[r.slot[d]] = pollfds[slot[d]]
                      /\ r.slot[w] # 0 <=> interest[w] # {}
                      /\ interest[w] # {} =>
                            /\ r.pollfds[r.slot[w]].events = interest[w]
                            /\ r.pollfds[r.slot[w]].revents =
                                  IF slot[w] = 0 THEN {} ELSE pollfds[slot[w]].revents
                      /\ SlotsMatch(r.pollfds, r.slot, r.st)
<1>1. /\ SlotsTyped /\ SlotsMatch(pollfds, slot, st) /\ st[w] \in {"open", "gone"}
      /\ st[w] = "gone" => slot[w] # 0 /\ interest[w] = {}
  BY DEF SlotsInv, ListMatches, GoneAreUpdated, IsOn
<1>2. /\ Slots.st = st /\ Slots.slot = slot /\ Slots.pollfds = pollfds
      /\ st \in [Fd -> {"none", "open", "gone", "freed"}] /\ slot \in [Fd -> Nat]
      /\ pollfds \in Seq(Entry) /\ interest[w] \subseteq Events
  BY <1>1 DEF Slots, SlotsTyped
<1>a. st[w] = "open" => st = [st EXCEPT ![w] = IF st[w] = "gone" THEN "freed" ELSE st[w]]
  BY <1>2
<1>3. CASE slot[w] = 0 /\ interest[w] # {}
  <2> DEFINE r == AddPollfd(Slots, w)
  <2>1. /\ r.pollfds \in Seq(Entry) /\ r.slot \in [Fd -> Nat] /\ r.st = st
        /\ \A d \in Fd \ {w} : r.slot[d] = slot[d]
        /\ \A d \in Fd \ {w} : slot[d] # 0 => r.pollfds[r.slot[d]] = pollfds[slot[d]]
        /\ r.slot[w] # 0
        /\ r.pollfds[r.slot[w]] = [w |-> w, events |-> interest[w], revents |-> {}]
        /\ SlotsMatch(r.pollfds, r.slot, r.st)
    BY <1>1, <1>3, AddedSlot
  <2>2. s = r
    BY <1>2, <1>3 DEF Sync
  <2> HIDE DEF r, s
  <2>3. Good(s)
    BY <1>1, <1>3, <1>a, <2>1, <2>2
  <2> QED
    BY <2>3 DEF s
<1>4. CASE slot[w] # 0 /\ interest[w] # {}
  <2> DEFINE q == slot[w]
             e == [pollfds[q] EXCEPT !.events = interest[w]]
             t == [pollfds EXCEPT ![q] = e]
  <2>1. s = [Slots EXCEPT !.pollfds = t]
    BY <1>2, <1>4 DEF Sync
  <2>2. s.st = st /\ s.slot = slot /\ s.pollfds = t
    BY <2>1 DEF Slots
  <2>3. q \in 1..Len(pollfds) /\ \A n \in 1..Len(pollfds) : pollfds[n] \in Entry
    BY <1>1, <1>2, <1>4 DEF SlotsMatch
  <2>4. /\ e \in Entry /\ e.events = interest[w] /\ e.revents = pollfds[q].revents
        /\ e.w = pollfds[q].w
    BY <1>2, <2>3 DEF Entry
  <2> HIDE DEF e
  <2>5. /\ t \in Seq(Entry) /\ Len(t) = Len(pollfds) /\ t[q] = e
        /\ \A n \in 1..Len(pollfds) : n # q => t[n] = pollfds[n]
    BY <1>2, <2>3, <2>4
  <2>6. \A n \in 1..Len(pollfds) : t[n].w = pollfds[n].w
    BY <1>2, <2>3, <2>4, <2>5
  <2> HIDE DEF t, s
  <2>7. SlotsMatch(t, slot, st)
    BY <1>1, <2>5, <2>6, SameSlots
  <2>8. \A d \in Fd \ {w} : slot[d] # 0 => t[slot[d]] = pollfds[slot[d]]
    <3>1. \A d \in Fd : slot[d] # 0 => slot[d] \in 1..Len(pollfds) /\ pollfds[slot[d]].w = d
      BY <1>1 DEF SlotsMatch
    <3>2. \A d \in Fd \ {w} : slot[d] # 0 => slot[d] # q
      BY <1>4, <3>1
    <3> QED
      BY <2>5, <3>1, <3>2
  <2>9. t[slot[w]].events = interest[w] /\ t[slot[w]].revents = pollfds[slot[w]].revents
    BY <2>4, <2>5
  <2> HIDE DEF q
  <2>10. Good(s)
    BY <1>1, <1>4, <1>2, <1>a, <2>2, <2>5, <2>7, <2>8, <2>9
  <2> QED
    BY <2>10 DEF s
<1>5. CASE slot[w] # 0 /\ interest[w] = {}
  <2> DEFINE q == slot[w]
             r == RemovePollfd(Slots, q)
  <2>1. q \in 1..Len(pollfds) /\ pollfds[q].w = w
    BY <1>1, <1>5 DEF SlotsMatch
  <2>2. /\ r.pollfds \in Seq(Entry) /\ r.slot \in [Fd -> Nat]
        /\ r.st = [st EXCEPT ![w] = IF st[w] = "gone" THEN "freed" ELSE st[w]]
        /\ r.slot[w] = 0
        /\ \A d \in Fd \ {w} : r.slot[d] # 0 <=> slot[d] # 0
        /\ \A d \in Fd \ {w} : slot[d] # 0 => r.pollfds[r.slot[d]] = pollfds[slot[d]]
        /\ SlotsMatch(r.pollfds, r.slot, r.st)
    <3> DEFINE v == pollfds[q].w
    <3>1. /\ r.pollfds \in Seq(Entry) /\ r.slot \in [Fd -> Nat]
          /\ r.st = [st EXCEPT ![v] = IF st[v] = "gone" THEN "freed" ELSE st[v]]
          /\ r.slot[v] = 0
          /\ \A d \in Fd \ {v} : r.slot[d] # 0 <=> slot[d] # 0
          /\ \A d \in Fd \ {v} : slot[d] # 0 => r.pollfds[r.slot[d]] = pollfds[slot[d]]
          /\ SlotsMatch(r.pollfds, r.slot, r.st)
      BY <1>1, <2>1, RemovedSlot
    <3>2. v = w
      BY <2>1
    <3> HIDE DEF r, v
    <3> QED
      BY <3>1, <3>2
  <2>3. s = r
    BY <1>2, <1>5 DEF Sync
  <2> HIDE DEF r, s
  <2>4. Good(s)
    BY <1>1, <1>5, <2>2, <2>3
  <2> QED
    BY <2>4 DEF s
<1>6. CASE slot[w] = 0 /\ interest[w] = {}
  <2>1. s = Slots
    BY <1>2, <1>6 DEF Sync
  <2> HIDE DEF s
  <2>2. Good(s)
    BY <1>1, <1>2, <1>6, <1>a, <2>1
  <2> QED
    BY <2>2 DEF s
<1> QED
  BY <1>3, <1>4, <1>5, <1>6

(* An entry is taken off the list with its watched_fd put right. *)
LEMMA SyncKeeps == SlotsInv /\ SyncNext => SlotsInv'
<1> SUFFICES ASSUME SlotsInv, SyncNext PROVE SlotsInv'
  OBVIOUS
<1> DEFINE w == Head(updates)
           s == Sync(Slots, w)
<1>1. /\ updates \in Seq(Fd) /\ updates # << >>
      /\ \A a, b \in 1..Len(updates) : updates[a] = updates[b] => a = b
      /\ \A a \in 1..Len(updates) : st[updates[a]] \in {"open", "gone"}
  BY DEF SlotsInv, SlotsTyped, ListMatches, SyncNext
<1>2. /\ updates' \in Seq(Fd) /\ w \in Fd /\ IsOn(updates, w)
      /\ \A a, b \in 1..Len(updates') : updates'[a] = updates'[b] => a = b
      /\ \A d \in Fd : IsOn(updates', d) <=> IsOn(updates, d) /\ d # w
  BY <1>1, TailList DEF SyncNext
<1>3. /\ s.pollfds \in Seq(Entry) /\ s.slot \in [Fd -> Nat]
      /\ s.st \in [Fd -> {"none", "open", "gone", "freed"}] /\ s.st[w] # "gone"
      /\ \A d \in Fd \ {w} : s.st[d] = st[d] /\ (s.slot[d] # 0 <=> slot[d] # 0)
      /\ SlotsMatch(s.pollfds, s.slot, s.st)
  <2>1. /\ s.pollfds \in Seq(Entry) /\ s.slot \in [Fd -> Nat]
        /\ s.st = [st EXCEPT ![w] = IF st[w] = "gone" THEN "freed" ELSE st[w]]
        /\ \A d \in Fd \ {w} : s.slot[d] # 0 <=> slot[d] # 0
        /\ SlotsMatch(s.pollfds, s.slot, s.st)
    BY <1>2, SyncedSlots
  <2> HIDE DEF s
  <2> QED
    BY <1>2, <2>1 DEF SlotsInv, SlotsTyped
<1>4. /\ pollfds' = s.pollfds /\ slot' = s.slot /\ st' = s.st
      /\ interest' = interest /\ i' = i /\ pc' = "sync"
  BY DEF SyncNext, SetSlots
<1> HIDE DEF w, s
<1>5. SlotsTyped' /\ SlotsMatch(pollfds, slot, st)'
  BY <1>2, <1>3, <1>4 DEF SlotsInv, SlotsTyped
<1>6. \A a \in 1..Len(updates') : st'[updates'[a]] \in {"open", "gone"}
  <2> SUFFICES ASSUME NEW a \in 1..Len(updates')
               PROVE  st'[updates'[a]] \in {"open", "gone"}
    OBVIOUS
  <2>1. updates'[a] \in Fd /\ IsOn(updates', updates'[a])
    BY <1>2 DEF IsOn
  <2>2. IsOn(updates, updates'[a]) /\ updates'[a] # w
    BY <1>2, <2>1
  <2> QED
    BY <1>1, <1>3, <1>4, <2>1, <2>2 DEF IsOn
<1>7. GoneAreUpdated'
  BY <1>2, <1>3, <1>4 DEF SlotsInv, GoneAreUpdated
<1> QED
  BY <1>2, <1>4, <1>5, <1>6, <1>7 DEF SlotsInv, ListMatches, HandledIsOpen

(* What does not concern the back end leaves it as it is. *)
LEMMA SlotsStutter ==
    ASSUME SlotsInv, st' = st, interest' = interest, slot' = slot, pollfds' = pollfds,
           updates' = updates, i' = i, pc' = pc
    PROVE  SlotsInv'
<1>1. SlotsTyped' /\ HandledIsOpen'
  BY DEF SlotsInv, SlotsTyped, HandledIsOpen
<1>2. SlotsMatch(pollfds, slot, st)' /\ ListMatches(updates, st)'
  BY DEF SlotsInv, SlotsMatch, ListMatches
<1>3. GoneAreUpdated'
  BY DEF SlotsInv, GoneAreUpdated, IsOn
<1> QED
  BY <1>1, <1>2, <1>3 DEF SlotsInv

(* A step of the poll thread that leaves slots, list and interest alone.   *)
LEMMA ThreadKeeps ==
    ASSUME SlotsInv, st' = st, interest' = interest, slot' = slot, pollfds' = pollfds,
           updates' = updates, i' \in Nat \ {0}, pc' # "handling"
    PROVE  SlotsInv'
<1>1. SlotsTyped' /\ HandledIsOpen'
  BY DEF SlotsInv, SlotsTyped, HandledIsOpen
<1>2. SlotsMatch(pollfds, slot, st)' /\ ListMatches(updates, st)'
  BY DEF SlotsInv, SlotsMatch, ListMatches
<1>3. GoneAreUpdated'
  BY DEF SlotsInv, GoneAreUpdated, IsOn
<1> QED
  BY <1>1, <1>2, <1>3 DEF SlotsInv

(* A socket's call, which has to fit: a watched_fd is created once, and    *)
(* not used after it was destroyed.                                        *)
LEMMA CallKeeps == SlotsInv /\ CallFits /\ BackEndCall => SlotsInv'
<1> SUFFICES ASSUME SlotsInv, CallFits, BackEndCall PROVE SlotsInv'
  OBVIOUS
<1>1. /\ i' = i /\ pc' = pc
      /\ updates \in Seq(Fd)
      /\ \A a, b \in 1..Len(updates) : updates[a] = updates[b] => a = b
      /\ \A d \in Fd : IsOn(updates, d) => st[d] \in {"open", "gone"}
  BY DEF BackEndCall, SlotsInv, SlotsTyped, ListMatches, IsOn
<1>2. ASSUME NEW w \in Fd, Create(w) PROVE SlotsInv'
  <2>1. /\ st[w] = "none" /\ st' = [st EXCEPT ![w] = "open"]
        /\ interest' = interest /\ slot' = slot /\ pollfds' = pollfds /\ updates' = updates
    BY <1>2 DEF Create, CallFits
  <2>2. \A d \in Fd : st[d] \in {"open", "gone"} => st'[d] = st[d]
    BY <2>1 DEF SlotsInv, SlotsTyped
  <2>3. \A q \in 1..Len(pollfds) : pollfds[q].w \in Fd
    <3>1. \A q \in 1..Len(pollfds) : pollfds[q] \in Entry
      BY DEF SlotsInv, SlotsTyped
    <3> QED
      BY <3>1 DEF Entry
  <2>4. SlotsTyped'
    BY <1>1, <2>1 DEF SlotsInv, SlotsTyped
  <2>5. SlotsMatch(pollfds, slot, st)'
    BY <2>1, <2>2, <2>3 DEF SlotsInv, SlotsMatch
  <2>6. ListMatches(updates, st)'
    BY <1>1, <2>1, <2>2 DEF SlotsInv, ListMatches
  <2>7. GoneAreUpdated'
    BY <2>1 DEF SlotsInv, SlotsTyped, GoneAreUpdated
  <2>8. HandledIsOpen'
    BY <1>1, <2>1, <2>2, <2>3 DEF SlotsInv, HandledIsOpen
  <2> QED
    BY <2>4, <2>5, <2>6, <2>7, <2>8 DEF SlotsInv
<1>3. ASSUME NEW w \in Fd, SetInterest(w) PROVE SlotsInv'
  <2>1. /\ st[w] = "open" /\ call.arg \subseteq Events /\ pc # "handling"
        /\ interest' = [interest EXCEPT ![w] = @ \cup call.arg]
        /\ st' = st /\ slot' = slot /\ pollfds' = pollfds /\ Updated(w)
    BY <1>3 DEF SetInterest, CallFits, Unlocked
  <2>2. /\ updates' \in Seq(Fd)
        /\ \A a, b \in 1..Len(updates') : updates'[a] = updates'[b] => a = b
        /\ \A d \in Fd : IsOn(updates', d) <=> IsOn(updates, d) \/ d = w
    BY <1>1, <2>1, UpdatedList
  <2>3. SlotsTyped'
    BY <1>1, <2>1, <2>2 DEF SlotsInv, SlotsTyped
  <2>4. ListMatches(updates, st)'
    <3>1. \A a \in 1..Len(updates') : updates'[a] \in Fd /\ IsOn(updates', updates'[a])
      BY <2>2 DEF IsOn
    <3> QED
      BY <1>1, <2>1, <2>2, <3>1 DEF ListMatches
  <2>5. GoneAreUpdated'
    BY <2>1, <2>2 DEF SlotsInv, SlotsTyped, GoneAreUpdated
  <2> QED
    BY <1>1, <2>1, <2>3, <2>4, <2>5 DEF SlotsInv, SlotsMatch, HandledIsOpen
<1>4. ASSUME NEW w \in Fd, SetHandler(w) PROVE SlotsInv'
  <2>1. /\ st' = st /\ interest' = interest /\ slot' = slot /\ pollfds' = pollfds
        /\ updates' = updates
    BY <1>4 DEF SetHandler
  <2> QED
    BY <1>1, <2>1, SlotsStutter
<1>5. ASSUME NEW w \in Fd, Destroy(w) PROVE SlotsInv'
  <2>1. /\ st[w] = "open" /\ pc # "handling" /\ slot' = slot /\ pollfds' = pollfds
    BY <1>5 DEF Destroy, CallFits, Unlocked
  <2>2. CASE slot[w] = 0
    <3>1. /\ updates' = Unlisted(w) /\ st' = [st EXCEPT ![w] = "freed"] /\ interest' = interest
      BY <1>5, <2>2 DEF Destroy
    <3>2. /\ updates' \in Seq(Fd)
          /\ \A a, b \in 1..Len(updates') : updates'[a] = updates'[b] => a = b
          /\ \A d \in Fd : IsOn(updates', d) <=> IsOn(updates, d) /\ d # w
      BY <1>1, <3>1, UnlistedList
    <3>3. SlotsTyped'
      BY <1>1, <2>1, <3>1, <3>2 DEF SlotsInv, SlotsTyped
    <3>4. \A d \in Fd \ {w} : st'[d] = st[d]
      BY <3>1 DEF SlotsInv, SlotsTyped
    <3>5. SlotsMatch(pollfds, slot, st)'
      <4>1. \A q \in 1..Len(pollfds) : pollfds[q] \in Entry
        BY DEF SlotsInv, SlotsTyped
      <4>2. \A q \in 1..Len(pollfds) : pollfds[q].w \in Fd
        BY <4>1 DEF Entry
      <4>3. \A q \in 1..Len(pollfds) : pollfds[q].w # w
        BY <2>2 DEF SlotsInv, SlotsMatch
      <4> QED
        BY <2>1, <3>4, <4>2, <4>3 DEF SlotsInv, SlotsMatch
    <3>6. ListMatches(updates, st)'
      <4>1. \A a \in 1..Len(updates') : updates'[a] \in Fd /\ IsOn(updates', updates'[a])
        BY <3>2 DEF IsOn
      <4> QED
        BY <1>1, <3>2, <3>4, <4>1 DEF ListMatches
    <3>7. GoneAreUpdated'
      BY <2>1, <3>1, <3>2, <3>4 DEF SlotsInv, SlotsTyped, GoneAreUpdated
    <3> QED
      BY <1>1, <2>1, <3>3, <3>5, <3>6, <3>7 DEF SlotsInv, HandledIsOpen
  <2>3. CASE slot[w] # 0
    <3>1. /\ Updated(w) /\ st' = [st EXCEPT ![w] = "gone"]
          /\ interest' = [interest EXCEPT ![w] = {}]
      BY <1>5, <2>3 DEF Destroy
    <3>2. /\ updates' \in Seq(Fd)
          /\ \A a, b \in 1..Len(updates') : updates'[a] = updates'[b] => a = b
          /\ \A d \in Fd : IsOn(updates', d) <=> IsOn(updates, d) \/ d = w
      BY <1>1, <3>1, UpdatedList
    <3>3. SlotsTyped'
      BY <1>1, <2>1, <3>1, <3>2 DEF SlotsInv, SlotsTyped
    <3>4. /\ \A d \in Fd \ {w} : st'[d] = st[d]
          /\ st'[w] = "gone"
      BY <3>1 DEF SlotsInv, SlotsTyped
    <3>5. SlotsMatch(pollfds, slot, st)'
      <4>1. \A q \in 1..Len(pollfds) : pollfds[q] \in Entry
        BY DEF SlotsInv, SlotsTyped
      <4>2. \A q \in 1..Len(pollfds) : pollfds[q].w \in Fd
        BY <4>1 DEF Entry
      <4> QED
        BY <2>1, <3>4, <4>2 DEF SlotsInv, SlotsMatch
    <3>6. ListMatches(updates, st)'
      <4>1. \A a \in 1..Len(updates') : updates'[a] \in Fd /\ IsOn(updates', updates'[a])
        BY <3>2 DEF IsOn
      <4> QED
        BY <1>1, <3>2, <3>4, <4>1 DEF ListMatches
    <3>7. GoneAreUpdated'
      BY <2>1, <2>3, <3>1, <3>2, <3>4 DEF SlotsInv, SlotsTyped, GoneAreUpdated
    <3> QED
      BY <1>1, <2>1, <3>3, <3>5, <3>6, <3>7 DEF SlotsInv, HandledIsOpen
  <2> QED
    BY <2>2, <2>3
<1> QED
  BY <1>2, <1>3, <1>4, <1>5 DEF BackEndCall

(* poll(2) reports into the slots.                                         *)
LEMMA PollReadyKeeps == SlotsInv /\ PollReady => SlotsInv'
<1> SUFFICES ASSUME SlotsInv, PollReady PROVE SlotsInv'
  OBVIOUS
<1> DEFINE l == Len(pollfds)
           Seen(q) == [pollfds[q] EXCEPT !.revents =
                                Reported(pollfds[q].w, pollfds[q].events)]
<1>1. /\ st' = st /\ interest' = interest /\ slot' = slot /\ updates' = updates /\ i' = i
      /\ pc' = "relock" /\ pollfds' = [q \in 1..l |-> Seen(q)]
      /\ l \in Nat /\ \A q \in 1..l : pollfds[q] \in Entry
  BY DEF PollReady, SlotsInv, SlotsTyped
<1>2. \A q \in 1..l : Seen(q) \in Entry /\ Seen(q).w = pollfds[q].w
  BY <1>1 DEF Entry, Reported, Events
<1> HIDE DEF Seen
<1>3. pollfds' \in Seq(Entry) /\ Len(pollfds') = l
  BY <1>1, <1>2
<1>4. \A q \in 1..l : pollfds'[q].w = pollfds[q].w
  BY <1>1, <1>2
<1>5. SlotsMatch(pollfds, slot, st)'
  BY <1>1, <1>3, <1>4 DEF SlotsInv, SlotsMatch
<1>6. SlotsTyped' /\ HandledIsOpen'
  BY <1>1, <1>3 DEF SlotsInv, SlotsTyped, HandledIsOpen
<1>7. ListMatches(updates, st)' /\ GoneAreUpdated'
  BY <1>1 DEF SlotsInv, ListMatches, GoneAreUpdated, IsOn
<1> QED
  BY <1>5, <1>6, <1>7 DEF SlotsInv

(* A slot is dispatched if its watched_fd is open.                         *)
LEMMA DispatchKeeps == SlotsInv /\ DispatchSlot => SlotsInv'
<1> SUFFICES ASSUME SlotsInv, DispatchSlot PROVE SlotsInv'
  OBVIOUS
<1>1. /\ st' = st /\ slot' = slot /\ pollfds' = pollfds /\ updates' = updates
      /\ pc = "dispatch" /\ i \in 1..Len(pollfds)
  BY DEF DispatchSlot, SlotsInv, SlotsTyped
<1>2. CASE pollfds[i].revents = {} \/ st[pollfds[i].w] # "open"
  <2>1. i' = i + 1 /\ interest' = interest /\ pc' = pc
    BY <1>2 DEF DispatchSlot
  <2>2. i' \in Nat \ {0}
    BY <1>1, <2>1
  <2> QED
    BY <1>1, <2>1, <2>2, ThreadKeeps
<1>3. CASE ~(pollfds[i].revents = {} \/ st[pollfds[i].w] # "open")
  <2> DEFINE w == pollfds[i].w
  <2>1. /\ i' = i /\ st[w] = "open"
        /\ interest' = [interest EXCEPT ![w] = @ \ pollfds[i].revents]
    BY <1>3 DEF DispatchSlot
  <2>2. SlotsTyped' /\ HandledIsOpen'
    BY <1>1, <2>1 DEF SlotsInv, SlotsTyped, HandledIsOpen
  <2>3. SlotsMatch(pollfds, slot, st)' /\ ListMatches(updates, st)'
    BY <1>1 DEF SlotsInv, SlotsMatch, ListMatches
  <2>4. GoneAreUpdated'
    BY <1>1, <2>1 DEF SlotsInv, SlotsTyped, GoneAreUpdated, IsOn
  <2> QED
    BY <2>2, <2>3, <2>4 DEF SlotsInv
<1> QED
  BY <1>2, <1>3

(* The slot of a watched_fd without interest is removed after its handler  *)
(* returned; it is open, so it is not freed under the list of updates.     *)
LEMMA HandledKeeps == SlotsInv /\ Handled => SlotsInv'
<1> SUFFICES ASSUME SlotsInv, Handled PROVE SlotsInv'
  OBVIOUS
<1>1. /\ SlotsTyped /\ SlotsMatch(pollfds, slot, st) /\ i \in 1..Len(pollfds)
      /\ st[pollfds[i].w] = "open"
      /\ interest' = interest /\ updates' = updates /\ pc' = "dispatch"
  BY DEF SlotsInv, HandledIsOpen, Handled
<1>2. CASE interest[pollfds[i].w] = {}
  <2> DEFINE s == RemovePollfd(Slots, i)
             w == pollfds[i].w
  <2>1. /\ s.pollfds \in Seq(Entry) /\ s.slot \in [Fd -> Nat]
        /\ w \in Fd
        /\ s.st = [st EXCEPT ![w] = IF st[w] = "gone" THEN "freed" ELSE st[w]]
        /\ \A d \in Fd \ {w} : s.slot[d] # 0 <=> slot[d] # 0
        /\ SlotsMatch(s.pollfds, s.slot, s.st)
    BY <1>1, RemovedSlot
  <2>2. st' = s.st /\ slot' = s.slot /\ pollfds' = s.pollfds /\ i' = i
    BY <1>2 DEF Handled, SetSlots
  <2> HIDE DEF s
  <2>3. st' = st
    BY <1>1, <2>1, <2>2 DEF SlotsTyped
  <2>4. SlotsTyped' /\ HandledIsOpen'
    BY <1>1, <2>1, <2>2, <2>3 DEF SlotsTyped, HandledIsOpen
  <2>5. SlotsMatch(pollfds, slot, st)'
    BY <2>1, <2>2
  <2>6. ListMatches(updates, st)'
    BY <1>1, <2>3 DEF SlotsInv, ListMatches
  <2>7. GoneAreUpdated'
    BY <1>1, <2>1, <2>2, <2>3 DEF SlotsInv, GoneAreUpdated, IsOn
  <2> QED
    BY <2>4, <2>5, <2>6, <2>7 DEF SlotsInv
<1>3. CASE interest[pollfds[i].w] # {}
  <2>1. i' = i + 1 /\ st' = st /\ slot' = slot /\ pollfds' = pollfds
    BY <1>3 DEF Handled
  <2>2. i' \in Nat \ {0}
    BY <1>1, <2>1
  <2> QED
    BY <1>1, <2>1, <2>2, ThreadKeeps
<1> QED
  BY <1>2, <1>3

-----------------------------------------------------------------------------
(* The poll thread *)

EventType == [w : Fd, to : {"none", "connector", "socket", "listener"},
              events : SUBSET Events, half : BOOLEAN]

(* A handler is called by the dispatch of a slot, for whom the watched_fd  *)
(* of the slot belongs to; and a list of updates that poll(2) was not told *)
(* of interrupts it. *)
ThreadInv ==
    /\ pipe \in BOOLEAN /\ woken \in BOOLEAN /\ result \in BOOLEAN
    /\ pc \in {"prepare", "sync", "poll", "relock", "dispatch", "handling"}
    /\ ready \in [Fd -> SUBSET Events]
    /\ target \in [Fd -> {"none", "connector", "socket", "listener"}]
    /\ event = NoEvent \/ event \in EventType
    /\ event # NoEvent => /\ pc = "handling"
                          /\ event.w = pollfds[i].w /\ event.to = target[event.w]
    /\ \A w \in Fd : st[w] = "none" => interest[w] = {}
    /\ pc = "poll" /\ (woken \/ updates # << >>) => pipe

(* Nothing can be reported of w until its interest is set (again). *)
Unarmed(w) ==
    /\ interest[w] = {}
    /\ slot[w] = 0 \/ (pc = "handling" /\ pollfds[i].w = w /\ event = NoEvent)

(* Whatever is reported of w, OUT is among it. *)
AwaitsOnlyOut(w) ==
    /\ interest[w] \subseteq {"OUT"}
    /\ slot[w] # 0 => /\ pollfds[slot[w]].events = {"OUT"}
                      /\ pollfds[slot[w]].revents = {} \/ "OUT" \in pollfds[slot[w]].revents

(* Watches(w, e), but for a call that has woken its readers already *)
Covered(w, e, late) ==
    \/ /\ e \in interest[w]
       /\ \/ slot[w] # 0 /\ e \in pollfds[slot[w]].events
          \/ IsOn(updates, w) /\ (pc = "poll" => pipe)
    \/ event.w = w /\ event.events \cap {e, "ERR"} # {} /\ (late \/ ~event.half)

(* What a step of the poll thread does to one watched_fd *)
Followed(w) ==
    /\ st'[w] = st[w] \/ (st[w] = "gone" /\ st'[w] = "freed")
    /\ interest'[w] \subseteq interest[w]
    /\ Unarmed(w) => Unarmed(w)'
    /\ AwaitsOnlyOut(w) /\ (ready[w] = {} \/ "OUT" \in ready[w]) => AwaitsOnlyOut(w)'
    /\ \A e \in Events : \A late \in BOOLEAN :
          st[w] = "open" /\ Covered(w, e, late) => Covered(w, e, late)'

(* Entries of pollfds have their types. *)
LEMMA EntryTypes ==
    SlotsTyped => \A q \in 1..Len(pollfds) :
                      /\ pollfds[q] \in Entry /\ pollfds[q].w \in Fd
                      /\ pollfds[q].events \subseteq Events
                      /\ pollfds[q].revents \subseteq Events
<1> SUFFICES ASSUME SlotsTyped, NEW q \in 1..Len(pollfds)
             PROVE  /\ pollfds[q] \in Entry /\ pollfds[q].w \in Fd
                    /\ pollfds[q].events \subseteq Events /\ pollfds[q].revents \subseteq Events
  OBVIOUS
<1>1. pollfds[q] \in Entry
  BY DEF SlotsTyped
<1> QED
  BY <1>1 DEF Entry

(* poll_prepare tells poll(2) of the interest. *)
LEMMA SyncFollows == SlotsInv /\ ThreadInv /\ SyncNext => ThreadInv' /\ \A w \in Fd : Followed(w)
<1> SUFFICES ASSUME SlotsInv, ThreadInv, SyncNext
             PROVE  ThreadInv' /\ \A w \in Fd : Followed(w)
  OBVIOUS
<1> DEFINE h == Head(updates)
           s == Sync(Slots, h)
<1>1. /\ updates \in Seq(Fd) /\ updates # << >>
      /\ \A a, b \in 1..Len(updates) : updates[a] = updates[b] => a = b
  BY DEF SlotsInv, SlotsTyped, ListMatches, SyncNext
<1>2. /\ h \in Fd /\ IsOn(updates, h)
      /\ \A d \in Fd : IsOn(updates', d) <=> IsOn(updates, d) /\ d # h
  BY <1>1, TailList DEF SyncNext
<1>3. /\ s.st = [st EXCEPT ![h] = IF st[h] = "gone" THEN "freed" ELSE st[h]]
      /\ \A d \in Fd \ {h} : s.slot[d] # 0 <=> slot[d] # 0
      /\ \A d \in Fd \ {h} : slot[d] # 0 => s.pollfds[s.slot[d]] = pollfds[slot[d]]
      /\ s.slot[h] # 0 <=> interest[h] # {}
      /\ interest[h] # {} =>
            /\ s.pollfds[s.slot[h]].events = interest[h]
            /\ s.pollfds[s.slot[h]].revents = IF slot[h] = 0 THEN {} ELSE pollfds[slot[h]].revents
  BY <1>2, SyncedSlots
<1>4. /\ st' = s.st /\ slot' = s.slot /\ pollfds' = s.pollfds
      /\ interest' = interest /\ pc' = "sync" /\ pc # "handling" /\ event' = event
      /\ ready' = ready /\ target' = target /\ pipe' = pipe /\ woken' = woken
      /\ result' = result
  BY DEF SyncNext, SetSlots, ivars
<1> HIDE DEF h, s
<1>5. st' = [st EXCEPT ![h] = IF st[h] = "gone" THEN "freed" ELSE st[h]] /\ event = NoEvent
  BY <1>3, <1>4 DEF ThreadInv
<1>6. \A d \in Fd : st'[d] = st[d] \/ (st[d] = "gone" /\ st'[d] = "freed")
  BY <1>5 DEF SlotsInv, SlotsTyped
<1>7. ThreadInv'
  BY <1>4, <1>5, <1>6 DEF ThreadInv
<1>8. ASSUME NEW w \in Fd PROVE Followed(w)
  <2>1. Unarmed(w) => Unarmed(w)'
    BY <1>2, <1>3, <1>4, <1>5 DEF Unarmed
  <2>2. AwaitsOnlyOut(w) => AwaitsOnlyOut(w)'
    <3>1. CASE w = h
      BY <1>3, <1>4, <3>1 DEF AwaitsOnlyOut
    <3>2. CASE w # h
      BY <1>3, <1>4, <3>2 DEF AwaitsOnlyOut
    <3> QED
      BY <3>1, <3>2
  <2>3. ASSUME NEW e \in Events, NEW late \in BOOLEAN, Covered(w, e, late)
        PROVE  Covered(w, e, late)'
    <3>1. /\ e \in interest[w]
          /\ (slot[w] # 0 /\ e \in pollfds[slot[w]].events) \/ IsOn(updates, w)
      BY <1>5, <2>3 DEF Covered, NoEvent, NoFd, Fd
    <3>2. CASE w = h
      BY <1>3, <1>4, <3>1, <3>2 DEF Covered
    <3>3. CASE w # h
      BY <1>2, <1>3, <1>4, <3>1, <3>3 DEF Covered
    <3> QED
      BY <3>2, <3>3
  <2> QED
    BY <1>4, <1>6, <2>1, <2>2, <2>3 DEF Followed
<1> QED
  BY <1>7, <1>8

(* poll(2) reports what it was asked for. *)
LEMMA PollReadyFollows ==
    SlotsInv /\ ThreadInv /\ PollReady => ThreadInv' /\ \A w \in Fd : Followed(w)
<1> SUFFICES ASSUME SlotsInv, ThreadInv, PollReady
             PROVE  ThreadInv' /\ \A w \in Fd : Followed(w)
  OBVIOUS
<1>1. /\ st' = st /\ interest' = interest /\ slot' = slot /\ updates' = updates
      /\ pc = "poll" /\ pc' = "relock" /\ event' = event /\ ready' = ready /\ target' = target
      /\ pipe' = pipe /\ woken' = woken /\ result' = TRUE
      /\ pollfds' = [q \in 1..Len(pollfds) |->
            [pollfds[q] EXCEPT !.revents = Reported(pollfds[q].w, pollfds[q].events)]]
  BY DEF PollReady, ivars, SlotsInv, SlotsTyped
<1>2. event = NoEvent
  BY <1>1 DEF ThreadInv
<1>3. ThreadInv'
  BY <1>1, <1>2 DEF ThreadInv
<1>4. ASSUME NEW w \in Fd PROVE Followed(w)
  <2>1. ASSUME slot[w] # 0
        PROVE  /\ pollfds'[slot[w]].events = pollfds[slot[w]].events
               /\ pollfds'[slot[w]].revents = ready[w] \cap (pollfds[slot[w]].events \cup {"ERR"})
    <3> DEFINE q == slot[w]
    <3>1. q \in 1..Len(pollfds) /\ pollfds[q].w = w
      BY <2>1 DEF SlotsInv, SlotsMatch
    <3>2. pollfds[q] \in Entry
      BY <3>1, EntryTypes DEF SlotsInv
    <3> HIDE DEF q
    <3>3. pollfds'[q] = [pollfds[q] EXCEPT !.revents = Reported(w, pollfds[q].events)]
      BY <1>1, <3>1
    <3>4. pollfds'[q].events = pollfds[q].events /\ pollfds'[q].revents = Reported(w, pollfds[q].events)
      BY <3>2, <3>3 DEF Entry
    <3> QED
      BY <3>4 DEF q, Reported
  <2>2. Unarmed(w) => Unarmed(w)'
    BY <1>1, <1>2 DEF Unarmed
  <2>3. AwaitsOnlyOut(w) /\ (ready[w] = {} \/ "OUT" \in ready[w]) => AwaitsOnlyOut(w)'
    BY <1>1, <2>1 DEF AwaitsOnlyOut
  <2>4. \A e \in Events : \A late \in BOOLEAN :
            Covered(w, e, late) => Covered(w, e, late)'
    BY <1>1, <2>1 DEF Covered
  <2> QED
    BY <1>1, <2>2, <2>3, <2>4 DEF Followed
<1> QED
  BY <1>3, <1>4

(* A step of the poll thread from one of its places to the next *)
LEMMA ThreadFollows ==
    SlotsInv /\ ThreadInv /\ (Prepared \/ PollNothing \/ BeginDispatch \/ EndDispatch)
        => ThreadInv' /\ \A w \in Fd : Followed(w)
<1> SUFFICES ASSUME SlotsInv, ThreadInv, Prepared \/ PollNothing \/ BeginDispatch \/ EndDispatch
             PROVE  ThreadInv' /\ \A w \in Fd : Followed(w)
  OBVIOUS
<1>1. /\ st' = st /\ interest' = interest /\ slot' = slot /\ updates' = updates
      /\ pollfds' = pollfds /\ pc # "handling" /\ pc' \notin {"handling"} /\ event' = event
      /\ ready' = ready /\ target' = target
      /\ pc' \in {"prepare", "poll", "relock", "dispatch"}
      /\ pc' = "poll" => updates = << >> /\ woken' = FALSE
  BY DEF Prepared, PollNothing, BeginDispatch, EndDispatch, ivars
<1>2. pipe' \in BOOLEAN /\ woken' \in BOOLEAN /\ result' \in BOOLEAN
  BY DEF Prepared, PollNothing, BeginDispatch, EndDispatch, ThreadInv
<1>3. event = NoEvent
  BY <1>1 DEF ThreadInv
<1>4. ThreadInv'
  BY <1>1, <1>2, <1>3 DEF ThreadInv
<1>5. ASSUME NEW w \in Fd PROVE Followed(w)
  <2>1. pc' = "poll" => ~IsOn(updates, w)
    BY <1>1 DEF IsOn
  <2>2. Unarmed(w) => Unarmed(w)'
    BY <1>1, <1>3 DEF Unarmed
  <2>3. AwaitsOnlyOut(w) => AwaitsOnlyOut(w)'
    BY <1>1 DEF AwaitsOnlyOut
  <2>4. \A e \in Events : \A late \in BOOLEAN :
            Covered(w, e, late) => Covered(w, e, late)'
    BY <1>1, <2>1 DEF Covered
  <2> QED
    BY <1>1, <2>2, <2>3, <2>4 DEF Followed
<1> QED
  BY <1>4, <1>5

(* A handler is called for what its slot reports; the interest is its      *)
(* handler's from then on.                                                 *)
LEMMA DispatchFollows ==
    SlotsInv /\ ThreadInv /\ DispatchSlot => ThreadInv' /\ \A w \in Fd : Followed(w)
<1> SUFFICES ASSUME SlotsInv, ThreadInv, DispatchSlot
             PROVE  ThreadInv' /\ \A w \in Fd : Followed(w)
  OBVIOUS
<1> DEFINE h == pollfds[i].w
           r == pollfds[i].revents
<1>1. /\ st' = st /\ slot' = slot /\ updates' = updates /\ pollfds' = pollfds
      /\ pc = "dispatch" /\ ready' = ready /\ target' = target
      /\ pipe' = pipe /\ woken' = woken /\ result' = result
      /\ i \in 1..Len(pollfds)
  BY DEF DispatchSlot, SlotsInv, SlotsTyped
<1>2. event = NoEvent
  BY <1>1 DEF ThreadInv
<1>3. h \in Fd /\ r \subseteq Events /\ slot[h] = i /\ i # 0
  BY <1>1, EntryTypes DEF SlotsInv, SlotsMatch
<1>4. CASE r = {} \/ st[h] # "open"
  <2>1. interest' = interest /\ event' = event /\ pc' = pc
    BY <1>4 DEF DispatchSlot
  <2>2. ThreadInv'
    BY <1>1, <1>2, <2>1 DEF ThreadInv
  <2>3. ASSUME NEW w \in Fd PROVE Followed(w)
    <3>1. Unarmed(w) => Unarmed(w)'
      BY <1>1, <2>1 DEF Unarmed
    <3>2. AwaitsOnlyOut(w) => AwaitsOnlyOut(w)'
      BY <1>1, <2>1 DEF AwaitsOnlyOut
    <3>3. \A e \in Events : \A late \in BOOLEAN :
              Covered(w, e, late) => Covered(w, e, late)'
      BY <1>1, <2>1 DEF Covered
    <3> QED
      BY <1>1, <2>1, <3>1, <3>2, <3>3 DEF Followed
  <2> QED
    BY <2>2, <2>3
<1>5. CASE ~(r = {} \/ st[h] # "open")
  <2>1. /\ interest' = [interest EXCEPT ![h] = @ \ r] /\ pc' = "handling" /\ i' = i
        /\ event' = [w |-> h, to |-> target[h], events |-> r, half |-> FALSE]
    BY <1>5 DEF DispatchSlot, Deliver
  <2> HIDE DEF h, r
  <2>2. /\ interest \in [Fd -> SUBSET Events] /\ interest'[h] = interest[h] \ r
        /\ \A w \in Fd \ {h} : interest'[w] = interest[w]
    BY <1>3, <2>1 DEF SlotsInv, SlotsTyped
  <2>3. target[h] \in {"none", "connector", "socket", "listener"}
    BY <1>3 DEF ThreadInv
  <2>4. event' \in EventType /\ event'.w = h /\ event'.events = r /\ event'.to = target'[h]
        /\ ~event'.half
    BY <1>1, <1>3, <2>1, <2>3 DEF EventType
  <2>5. event'.w = pollfds'[i'].w
    BY <1>1, <2>1, <2>4 DEF h
  <2>6. \A w \in Fd : st'[w] = "none" => interest'[w] = {}
    BY <1>1, <1>5, <2>2 DEF ThreadInv
  <2>7. ThreadInv'
    BY <1>1, <2>1, <2>4, <2>5, <2>6 DEF ThreadInv
  <2>8. ASSUME NEW w \in Fd PROVE Followed(w)
    <3>1. Unarmed(w) => Unarmed(w)'
      BY <1>1, <1>3, <2>2 DEF Unarmed
    <3>2. AwaitsOnlyOut(w) => AwaitsOnlyOut(w)'
      BY <1>1, <2>2 DEF AwaitsOnlyOut
    <3>3. ASSUME NEW e \in Events, NEW late \in BOOLEAN, Covered(w, e, late)
          PROVE  Covered(w, e, late)'
      <4>1. /\ e \in interest[w]
            /\ \/ slot[w] # 0 /\ e \in pollfds[slot[w]].events
               \/ IsOn(updates, w)
        BY <1>2, <3>3 DEF Covered, NoEvent, NoFd, Fd
      <4>2. CASE e \in interest'[w]
        BY <1>1, <2>1, <4>1, <4>2 DEF Covered
      <4>3. CASE e \notin interest'[w]
        <5>1. w = h /\ e \in r
          BY <2>2, <4>1, <4>3
        <5> QED
          BY <2>4, <5>1 DEF Covered
      <4> QED
        BY <4>2, <4>3
    <3> QED
      BY <1>1, <2>2, <3>1, <3>2, <3>3 DEF Followed
  <2> QED
    BY <2>7, <2>8
<1> QED
  BY <1>4, <1>5

(* A slot whose watched_fd waits for nothing any more is removed.          *)
LEMMA HandledFollows ==
    SlotsInv /\ ThreadInv /\ Handled => ThreadInv' /\ \A w \in Fd : Followed(w)
<1> SUFFICES ASSUME SlotsInv, ThreadInv, Handled
             PROVE  ThreadInv' /\ \A w \in Fd : Followed(w)
  OBVIOUS
<1>1. /\ SlotsTyped /\ SlotsMatch(pollfds, slot, st) /\ i \in 1..Len(pollfds)
      /\ st[pollfds[i].w] = "open" /\ event = NoEvent /\ event' = event
      /\ interest' = interest /\ updates' = updates /\ pc = "handling" /\ pc' = "dispatch"
      /\ ready' = ready /\ target' = target /\ pipe' = pipe /\ woken' = woken
      /\ result' = result
  BY DEF SlotsInv, HandledIsOpen, Handled, ivars
<1> DEFINE h == pollfds[i].w
<1>2. h \in Fd /\ slot[h] = i /\ i # 0
  BY <1>1, EntryTypes DEF SlotsMatch
<1>3. /\ st' = st
      /\ interest[h] = {} => slot'[h] = 0
      /\ \A d \in Fd : slot[d] = 0 => slot'[d] = 0
      /\ \A d \in Fd : interest[d] # {} /\ slot[d] # 0 =>
              slot'[d] # 0 /\ pollfds'[slot'[d]] = pollfds[slot[d]]
      /\ \A d \in Fd \ {h} : slot[d] # 0 =>
              slot'[d] # 0 /\ pollfds'[slot'[d]] = pollfds[slot[d]]
  <2>1. CASE interest[h] = {}
    <3> DEFINE s == RemovePollfd(Slots, i)
    <3>1. /\ s.st = [st EXCEPT ![h] = IF st[h] = "gone" THEN "freed" ELSE st[h]]
          /\ s.slot[h] = 0
          /\ \A d \in Fd \ {h} : s.slot[d] # 0 <=> slot[d] # 0
          /\ \A d \in Fd \ {h} : slot[d] # 0 => s.pollfds[s.slot[d]] = pollfds[slot[d]]
      BY <1>1, RemovedSlot
    <3>2. st' = s.st /\ slot' = s.slot /\ pollfds' = s.pollfds
      BY <2>1 DEF Handled, SetSlots
    <3> HIDE DEF s, h
    <3>3. st' = st
      BY <1>1, <3>1, <3>2 DEF SlotsTyped, h
    <3> QED
      BY <2>1, <3>1, <3>2, <3>3
  <2>2. CASE interest[h] # {}
    BY <2>2 DEF Handled
  <2> QED
    BY <2>1, <2>2
<1>4. ThreadInv'
  BY <1>1, <1>3 DEF ThreadInv
<1>5. ASSUME NEW w \in Fd PROVE Followed(w)
  <2>1. Unarmed(w) => Unarmed(w)'
    BY <1>1, <1>3 DEF Unarmed
  <2>2. AwaitsOnlyOut(w) => AwaitsOnlyOut(w)'
    <3>1. CASE slot'[w] = 0
      BY <1>1, <3>1 DEF AwaitsOnlyOut
    <3>2. CASE slot'[w] # 0
      <4>1. slot[w] # 0 /\ pollfds'[slot'[w]] = pollfds[slot[w]]
        BY <1>3, <3>2
      <4> QED
        BY <1>1, <4>1 DEF AwaitsOnlyOut
    <3> QED
      BY <3>1, <3>2
  <2>3. \A e \in Events : \A late \in BOOLEAN :
            Covered(w, e, late) => Covered(w, e, late)'
    <3> SUFFICES ASSUME NEW e \in Events, NEW late \in BOOLEAN, Covered(w, e, late)
                 PROVE  Covered(w, e, late)'
      OBVIOUS
    <3>1. /\ e \in interest[w]
          /\ \/ slot[w] # 0 /\ e \in pollfds[slot[w]].events
             \/ IsOn(updates, w)
      BY <1>1 DEF Covered, NoEvent, NoFd, Fd
    <3> QED
      BY <1>1, <1>3, <3>1 DEF Covered
  <2> QED
    BY <1>1, <1>3, <2>1, <2>2, <2>3 DEF Followed
<1> QED
  BY <1>4, <1>5

(* The steps of the poll thread together *)
LEMMA PollerFollows ==
    SlotsInv /\ ThreadInv /\ (Poller \/ PollNothing)
        => SlotsInv' /\ ThreadInv' /\ \A w \in Fd : Followed(w)
<1> SUFFICES ASSUME SlotsInv, ThreadInv, Poller \/ PollNothing
             PROVE  SlotsInv' /\ ThreadInv' /\ \A w \in Fd : Followed(w)
  OBVIOUS
<1>1. CASE SyncNext
  BY <1>1, SyncKeeps, SyncFollows
<1>2. CASE PollReady
  BY <1>2, PollReadyKeeps, PollReadyFollows
<1>3. CASE DispatchSlot
  BY <1>3, DispatchKeeps, DispatchFollows
<1>4. CASE Handled
  BY <1>4, HandledKeeps, HandledFollows
<1>5. CASE Prepared \/ PollNothing \/ BeginDispatch \/ EndDispatch
  <2>1. /\ st' = st /\ interest' = interest /\ slot' = slot /\ pollfds' = pollfds
        /\ updates' = updates /\ i' \in {1, i} /\ pc' # "handling"
    BY <1>5 DEF Prepared, PollNothing, BeginDispatch, EndDispatch
  <2>2. i' \in Nat \ {0}
    BY <2>1 DEF SlotsInv, SlotsTyped
  <2>3. SlotsInv'
    BY <2>1, <2>2, ThreadKeeps
  <2> QED
    BY <1>5, <2>3, ThreadFollows
<1> QED
  BY <1>1, <1>2, <1>3, <1>4, <1>5 DEF Poller

(* What the answer to a call does to a watched_fd, the one that the call   *)
(* is for or another *)
Answered(d) ==
    /\ call.op # "create" => event = NoEvent
    /\ d # call.w => st'[d] = st[d] /\ target'[d] = target[d]
    /\ d = call.w /\ call.op = "destroy" => st'[d] \in {"gone", "freed"}
    /\ d = call.w /\ call.op # "destroy" => st'[d] = "open"
    /\ d = call.w => target'[d] = IF call.op \in {"create", "handler"} THEN call.arg ELSE target[d]
    /\ d # call.w \/ call.op # "interest" =>
          (Unarmed(d) => Unarmed(d)') /\ interest'[d] \subseteq interest[d]
    /\ d # call.w \/ call.op # "interest" \/ call.arg = {"OUT"} =>
          (AwaitsOnlyOut(d) => AwaitsOnlyOut(d)')
    /\ d # call.w \/ call.op # "destroy" =>
          \A e \in Events : \A late \in BOOLEAN : Covered(d, e, late) => Covered(d, e, late)'
    /\ d = call.w /\ call.op = "interest" =>
          \A e \in call.arg : \A late \in BOOLEAN : Covered(d, e, late)'

TargetFits == call.op \in {"create", "handler"} => call.arg \in {"connector", "socket", "listener"}

(* An answer to a call of watched_fd_create *)
LEMMA CreateFollows ==
    ASSUME SlotsInv, ThreadInv, CallFits, TargetFits, BackEndCall, NEW w \in Fd, Create(w)
    PROVE  ThreadInv' /\ \A d \in Fd : Answered(d)
<1>1. /\ call.op = "create" /\ call.w = w /\ st[w] = "none"
      /\ st' = [st EXCEPT ![w] = "open"] /\ target' = [target EXCEPT ![w] = call.arg]
      /\ interest' = interest /\ slot' = slot /\ pollfds' = pollfds /\ updates' = updates
      /\ pipe' = pipe /\ woken' = woken /\ result' = result /\ pc' = pc /\ i' = i
      /\ event' = event /\ ready' = ready
  BY DEF Create, CallFits, BackEndCall
<1>2. /\ st'[w] = "open" /\ target'[w] = call.arg
      /\ \A d \in Fd \ {w} : st'[d] = st[d] /\ target'[d] = target[d]
  BY <1>1 DEF SlotsInv, SlotsTyped, ThreadInv
<1>3. target' \in [Fd -> {"none", "connector", "socket", "listener"}]
  BY <1>1 DEF ThreadInv, TargetFits
<1>4. event # NoEvent => event.w \in Fd /\ event.w # w
  <2> SUFFICES ASSUME event # NoEvent PROVE event.w \in Fd /\ event.w # w
    OBVIOUS
  <2>1. pc = "handling" /\ event.w = pollfds[i].w /\ event.w \in Fd
    BY DEF ThreadInv, EventType
  <2>2. st[event.w] = "open"
    BY <2>1 DEF SlotsInv, HandledIsOpen
  <2> QED
    BY <1>1, <2>1, <2>2
<1>5. ThreadInv'
  BY <1>1, <1>2, <1>3, <1>4 DEF ThreadInv
<1>6. ASSUME NEW d \in Fd PROVE Answered(d)
  <2>1. /\ Unarmed(d) => Unarmed(d)'
        /\ AwaitsOnlyOut(d) => AwaitsOnlyOut(d)'
        /\ \A e \in Events : \A late \in BOOLEAN : Covered(d, e, late) => Covered(d, e, late)'
    BY <1>1 DEF Unarmed, AwaitsOnlyOut, Covered
  <2> QED
    BY <1>1, <1>2, <2>1 DEF Answered
<1> QED
  BY <1>5, <1>6

(* An answer to a call of watched_fd_set_interest *)
LEMMA SetInterestFollows ==
    ASSUME SlotsInv, ThreadInv, CallFits, TargetFits, BackEndCall, NEW w \in Fd, SetInterest(w)
    PROVE  ThreadInv' /\ \A d \in Fd : Answered(d)
<1>1. /\ call.op = "interest" /\ call.w = w /\ st[w] = "open" /\ call.arg \subseteq Events
      /\ interest' = [interest EXCEPT ![w] = @ \cup call.arg]
      /\ st' = st /\ target' = target /\ slot' = slot /\ pollfds' = pollfds /\ Updated(w)
      /\ result' = result /\ pc' = pc /\ pc # "handling" /\ i' = i
      /\ event' = event /\ ready' = ready
  BY DEF SetInterest, CallFits, BackEndCall, Unlocked
<1>2. event = NoEvent
  BY <1>1 DEF ThreadInv
<1>3. /\ interest'[w] = interest[w] \cup call.arg
      /\ \A d \in Fd \ {w} : interest'[d] = interest[d]
  BY <1>1 DEF SlotsInv, SlotsTyped
<1>4. /\ updates \in Seq(Fd)
      /\ \A a, b \in 1..Len(updates) : updates[a] = updates[b] => a = b
  BY DEF SlotsInv, SlotsTyped, ListMatches
<1>5. \A d \in Fd : IsOn(updates', d) <=> IsOn(updates, d) \/ d = w
  BY <1>1, <1>4, UpdatedList
<1>6. /\ pipe' \in BOOLEAN /\ woken' \in BOOLEAN
      /\ pc = "poll" => pipe'
      /\ pipe => pipe'
  <2>1. CASE w \in Range(updates)
    <3>1. updates # << >>
      BY <2>1 DEF Range
    <3> QED
      BY <1>1, <2>1, <3>1 DEF Updated, ThreadInv
  <2>2. CASE w \notin Range(updates)
    <3>1. pipe' = (pipe \/ ~woken) /\ woken' = TRUE
      BY <1>1, <2>2 DEF Updated
    <3> QED
      BY <3>1 DEF ThreadInv
  <2> QED
    BY <2>1, <2>2
<1>7. ThreadInv'
  BY <1>1, <1>2, <1>3, <1>6 DEF ThreadInv
<1>8. ASSUME NEW d \in Fd PROVE Answered(d)
  <2>1. d # w => (Unarmed(d) => Unarmed(d)') /\ interest'[d] \subseteq interest[d]
    BY <1>1, <1>3 DEF Unarmed
  <2>2. d # w \/ call.arg = {"OUT"} => (AwaitsOnlyOut(d) => AwaitsOnlyOut(d)')
    BY <1>1, <1>3 DEF AwaitsOnlyOut
  <2>3. \A e \in Events : \A late \in BOOLEAN : Covered(d, e, late) => Covered(d, e, late)'
    <3> SUFFICES ASSUME NEW e \in Events, NEW late \in BOOLEAN, Covered(d, e, late)
                 PROVE  Covered(d, e, late)'
      OBVIOUS
    <3>1. /\ e \in interest[d]
          /\ \/ slot[d] # 0 /\ e \in pollfds[slot[d]].events
             \/ IsOn(updates, d) /\ (pc = "poll" => pipe)
      BY <1>2 DEF Covered, NoEvent, NoFd, Fd
    <3>2. e \in interest'[d]
      BY <1>3, <3>1
    <3> QED
      BY <1>1, <1>5, <1>6, <3>1, <3>2 DEF Covered
  <2>4. d = w => \A e \in call.arg : \A late \in BOOLEAN : Covered(d, e, late)'
    BY <1>1, <1>3, <1>5, <1>6 DEF Covered
  <2> QED
    BY <1>1, <1>2, <2>1, <2>2, <2>3, <2>4 DEF Answered
<1> QED
  BY <1>7, <1>8

(* An answer to a call of watched_fd_set_handler *)
LEMMA SetHandlerFollows ==
    ASSUME SlotsInv, ThreadInv, CallFits, TargetFits, BackEndCall, NEW w \in Fd, SetHandler(w)
    PROVE  ThreadInv' /\ \A d \in Fd : Answered(d)
<1>1. /\ call.op = "handler" /\ call.w = w /\ st[w] = "open"
      /\ target' = [target EXCEPT ![w] = call.arg]
      /\ st' = st /\ interest' = interest /\ slot' = slot /\ pollfds' = pollfds
      /\ updates' = updates /\ pipe' = pipe /\ woken' = woken
      /\ result' = result /\ pc' = pc /\ pc # "handling" /\ i' = i
      /\ event' = event /\ ready' = ready
  BY DEF SetHandler, CallFits, BackEndCall, Unlocked
<1>2. event = NoEvent
  BY <1>1 DEF ThreadInv
<1>3. /\ target'[w] = call.arg /\ \A d \in Fd \ {w} : target'[d] = target[d]
      /\ target' \in [Fd -> {"none", "connector", "socket", "listener"}]
  BY <1>1 DEF ThreadInv, TargetFits
<1>4. ThreadInv'
  BY <1>1, <1>2, <1>3 DEF ThreadInv
<1>5. ASSUME NEW d \in Fd PROVE Answered(d)
  <2>1. /\ Unarmed(d) => Unarmed(d)'
        /\ AwaitsOnlyOut(d) => AwaitsOnlyOut(d)'
        /\ \A e \in Events : \A late \in BOOLEAN : Covered(d, e, late) => Covered(d, e, late)'
    BY <1>1 DEF Unarmed, AwaitsOnlyOut, Covered
  <2> QED
    BY <1>1, <1>2, <1>3, <2>1 DEF Answered
<1> QED
  BY <1>4, <1>5

(* An answer to a call of watched_fd_destroy *)
LEMMA DestroyFollows ==
    ASSUME SlotsInv, ThreadInv, CallFits, TargetFits, BackEndCall, NEW w \in Fd, Destroy(w)
    PROVE  ThreadInv' /\ \A d \in Fd : Answered(d)
<1>1. /\ call.op = "destroy" /\ call.w = w /\ st[w] = "open"
      /\ target' = target /\ slot' = slot /\ pollfds' = pollfds
      /\ result' = result /\ pc' = pc /\ pc # "handling" /\ i' = i
      /\ event' = event /\ ready' = ready
  BY DEF Destroy, CallFits, BackEndCall, Unlocked
<1>2. event = NoEvent
  BY <1>1 DEF ThreadInv
<1>3. /\ updates \in Seq(Fd)
      /\ \A a, b \in 1..Len(updates) : updates[a] = updates[b] => a = b
  BY DEF SlotsInv, SlotsTyped, ListMatches
<1>4. /\ st'[w] \in {"gone", "freed"} /\ \A d \in Fd \ {w} : st'[d] = st[d]
      /\ interest'[w] \subseteq interest[w] /\ \A d \in Fd \ {w} : interest'[d] = interest[d]
      /\ \A d \in Fd \ {w} : IsOn(updates', d) <=> IsOn(updates, d)
      /\ pipe' \in BOOLEAN /\ woken' \in BOOLEAN
      /\ pipe => pipe'
      /\ pc = "poll" /\ (woken' \/ updates' # << >>) => pipe'
  <2>1. CASE slot[w] = 0
    <3>1. /\ updates' = Unlisted(w) /\ st' = [st EXCEPT ![w] = "freed"] /\ interest' = interest
          /\ pipe' = pipe /\ woken' = woken
      BY <1>1, <2>1 DEF Destroy
    <3>2. \A d \in Fd : IsOn(updates', d) <=> IsOn(updates, d) /\ d # w
      BY <1>3, <3>1, UnlistedList
    <3>3. updates' # << >> => updates # << >>
      BY <3>1 DEF Unlisted, Range
    <3>4. st'[w] = "freed" /\ \A d \in Fd \ {w} : st'[d] = st[d]
      BY <3>1 DEF SlotsInv, SlotsTyped
    <3> QED
      BY <3>1, <3>2, <3>3, <3>4 DEF ThreadInv
  <2>2. CASE slot[w] # 0
    <3>1. /\ Updated(w) /\ st' = [st EXCEPT ![w] = "gone"]
          /\ interest' = [interest EXCEPT ![w] = {}]
      BY <1>1, <2>2 DEF Destroy
    <3>2. \A d \in Fd : IsOn(updates', d) <=> IsOn(updates, d) \/ d = w
      BY <1>3, <3>1, UpdatedList
    <3>3. /\ st'[w] = "gone" /\ \A d \in Fd \ {w} : st'[d] = st[d]
          /\ interest'[w] = {} /\ \A d \in Fd \ {w} : interest'[d] = interest[d]
      BY <3>1 DEF SlotsInv, SlotsTyped
    <3>4. /\ pipe' \in BOOLEAN /\ woken' \in BOOLEAN
          /\ pc = "poll" => pipe'
          /\ pipe => pipe'
      <4>1. CASE w \in Range(updates)
        <5>1. updates # << >>
          BY <4>1 DEF Range
        <5> QED
          BY <3>1, <4>1, <5>1 DEF Updated, ThreadInv
      <4>2. CASE w \notin Range(updates)
        <5>1. pipe' = (pipe \/ ~woken) /\ woken' = TRUE
          BY <3>1, <4>2 DEF Updated
        <5> QED
          BY <5>1 DEF ThreadInv
      <4> QED
        BY <4>1, <4>2
    <3> QED
      BY <3>2, <3>3, <3>4
  <2> QED
    BY <2>1, <2>2
<1>5. ThreadInv'
  BY <1>1, <1>2, <1>4 DEF ThreadInv
<1>6. ASSUME NEW d \in Fd PROVE Answered(d)
  <2>1. Unarmed(d) => Unarmed(d)'
    BY <1>1, <1>4 DEF Unarmed
  <2>2. AwaitsOnlyOut(d) => AwaitsOnlyOut(d)'
    BY <1>1, <1>4 DEF AwaitsOnlyOut
  <2>3. d # w => \A e \in Events : \A late \in BOOLEAN :
                    Covered(d, e, late) => Covered(d, e, late)'
    BY <1>1, <1>4 DEF Covered
  <2> QED
    BY <1>1, <1>2, <1>4, <2>1, <2>2, <2>3 DEF Answered
<1> QED
  BY <1>5, <1>6

(* The answers to the calls together *)
LEMMA CallFollows ==
    SlotsInv /\ ThreadInv /\ CallFits /\ TargetFits /\ BackEndCall
        => SlotsInv' /\ ThreadInv' /\ call.w \in Fd /\ \A d \in Fd : Answered(d)
<1> SUFFICES ASSUME SlotsInv, ThreadInv, CallFits, TargetFits, BackEndCall
             PROVE  SlotsInv' /\ ThreadInv' /\ call.w \in Fd /\ \A d \in Fd : Answered(d)
  OBVIOUS
<1>1. SlotsInv'
  BY CallKeeps
<1>2. PICK w \in Fd : Create(w) \/ SetInterest(w) \/ SetHandler(w) \/ Destroy(w)
  BY DEF BackEndCall
<1>3. call.w = w
  BY <1>2 DEF Create, SetInterest, SetHandler, Destroy
<1>4. ThreadInv' /\ \A d \in Fd : Answered(d)
  BY <1>2, CreateFollows, SetInterestFollows, SetHandlerFollows, DestroyFollows
<1> QED
  BY <1>1, <1>3, <1>4

-----------------------------------------------------------------------------
(* The client socket *)

ConnectorBusy == {"start", "closing", "opened", "armed", "down", "check", "adopt", "rearm"}
OwnerBusy == {"again", "arm", "armed", "drop", "fini", "shut"}
Places == {"idle", "call", "failed", "closed", "enter", "lock", "gone", "aborted"}
             \cup ConnectorBusy \cup OwnerBusy

ConnectorType == [fd : Fd \cup {NoFd}, connected : BOOLEAN, left : 0..NFds, err : BOOLEAN,
                  up : Nat, exists : BOOLEAN, shared : BOOLEAN]

ClientTyped ==
    /\ connector \in ConnectorType
    /\ at \in [Tasklets -> Places]
    /\ wait \in [Tasklets -> {"none", "reading", "writing", "connecting"}]
    /\ queued \in [Tasklets -> BOOLEAN]
    /\ ops \in {"client", "simple"} /\ via \in {"client", "simple"}
    /\ doing \in Operations
    /\ fd \in Fd \cup {NoFd} /\ alive \in BOOLEAN
    /\ mutex \in {"free"} \cup Tasklets

(* Who has the mutex; what the socket is while it connects and after that; *)
(* and what its owner knows where it is. *)
Control ==
    /\ mutex = "connector" <=> at["connector"] \in ConnectorBusy
    /\ mutex = "owner" <=> at["owner"] \in OwnerBusy
    /\ Connecting <=> at["connector"] \notin {"adopt", "gone", "aborted"}
    /\ Connecting => fd = NoFd /\ ops = "client" /\ via = "client"
    /\ ~Connecting => connector = NoConnector
    /\ ops = "simple" => at["connector"] \in {"gone", "aborted"}
    /\ at["connector"] = "adopt" => fd # NoFd
    /\ at["connector"] \in {"closing", "opened", "armed", "check", "rearm"} => connector.fd # NoFd
    /\ at["owner"] \in {"again", "arm", "armed"} =>
            doing \in {"read", "write"} /\ fd # NoFd /\ ~Connecting
    /\ at["owner"] \in {"arm", "armed"} => wait["owner"] = ListOf[doing]
    /\ at["owner"] \in {"fini", "shut"} => ~Connecting
    /\ at["owner"] = "drop" => Connecting
    /\ ~alive => at["owner"] = "gone" /\ fd = NoFd /\ ~Connecting

Made(op, w, arg) == call = [op |-> op, w |-> w, arg |-> arg]

(* Whose call is pending, and for what *)
ClientCalls ==
    \/ call = NoCall
    \/ at["connector"] = "opened" /\ Made("create", connector.fd, "connector")
    \/ at["connector"] \in {"armed", "rearm"} /\ Made("interest", connector.fd, {"OUT"})
    \/ at["connector"] = "closing" /\ Made("destroy", connector.fd, {})
    \/ at["connector"] = "adopt" /\ Made("handler", fd, "socket")
    \/ at["owner"] = "armed" /\ Made("interest", fd, {EventOf[doing]})
    \/ at["owner"] = "drop" /\ connector.fd # NoFd /\ Made("destroy", connector.fd, {})
    \/ at["owner"] = "shut" /\ fd # NoFd /\ Made("destroy", fd, {})

(* The one descriptor that the socket has, and whether it gives it up *)
Owned == IF Connecting THEN connector.fd ELSE fd
Closing == at["connector"] = "closing" \/ at["owner"] \in {"drop", "shut"}

(* No other descriptor is open, and this one is from the answer to its     *)
(* creation to the answer to its destruction; its handler is the           *)
(* connector's until it was adopted. *)
Descriptors ==
    /\ status \in [Fd -> {"none", "connecting", "up", "failed", "closed"}]
    /\ \A w \in Fd : w # Owned => st[w] # "open" /\ status[w] \in {"none", "closed"}
    /\ Connecting => \A w \in Fd : w > NFds - connector.left =>
                        w # connector.fd /\ st[w] = "none" /\ ready[w] = {}
    /\ Connecting /\ connector.fd # NoFd =>
         /\ ready[connector.fd] = {} \/ "OUT" \in ready[connector.fd]
         /\ status[connector.fd] = "up" => "OUT" \in ready[connector.fd]
    /\ Owned # NoFd =>
         /\ st[Owned] = "none" <=> call.op = "create"
         /\ st[Owned] = "open" <=> call.op # "create" /\ ~(Closing /\ call = NoCall)
         /\ st[Owned] = "open" =>
               target[Owned] = IF Connecting \/ call.op = "handler" THEN "connector" ELSE "socket"

(* An attempt to connect is reported at most once, after which nothing of  *)
(* it is reported until its interest is set again: this is why the         *)
(* connector may be freed before the handler of its descriptor is changed. *)
Attempt ==
    /\ connector.up <= 1
    /\ connector.up > 0 => connector.fd # NoFd
    /\ at["connector"] \in {"start", "closing", "opened", "check"} => connector.up = 0
    /\ Connecting /\ call.op = "interest" => connector.up = 0
    /\ connector.connected => connector.up = 1 \/ at["connector"] = "check"
    /\ Connecting /\ connector.fd # NoFd =>
         /\ AwaitsOnlyOut(connector.fd)
         /\ (\/ at["connector"] \in {"start", "closing", "opened", "check"}
             \/ connector.up > 0 \/ call.op = "interest") => Unarmed(connector.fd)
    /\ call.op = "handler" => Unarmed(fd)
    /\ event.to = "connector" => interest[event.w] = {} /\ "OUT" \in event.events

(* The owner is on the list and nobody has run it since: it is asleep, or  *)
(* about to return with its interest set. *)
Waits(op) ==
    /\ \/ at["owner"] = "idle" /\ wait["owner"] = ListOf[op]
       \/ at["owner"] = "armed" /\ call = NoCall /\ doing = op
    /\ ~queued["owner"] /\ fd # NoFd /\ mutex # "connector"

OwnerCovered ==
    \A op \in {"read", "write"} : Waits(op) => Covered(fd, EventOf[op], op = "write")

ClientInv == ClientTyped /\ Control /\ ClientCalls /\ Descriptors /\ Attempt /\ OwnerCovered

(* The pending call is for the socket's descriptor, and fits it.           *)
LEMMA PendingCall ==
    ClientTyped /\ Control /\ ClientCalls /\ call # NoCall =>
       /\ call.w = Owned /\ Owned \in Fd
       /\ call.op \in {"create", "interest", "handler", "destroy"}
       /\ call.op = "create" => Connecting /\ ~Closing /\ call.arg = "connector"
       /\ call.op = "interest" => /\ ~Closing /\ call.arg \subseteq Events
                                  /\ Connecting => /\ call.arg = {"OUT"}
                                                   /\ at["connector"] \in {"armed", "rearm"}
                                  /\ ~Connecting => at["owner"] = "armed" /\ call.arg = {EventOf[doing]}
       /\ call.op = "handler" => /\ ~Connecting /\ ~Closing /\ call.arg = "socket"
                                 /\ at["connector"] = "adopt"
       /\ call.op = "destroy" => Closing
<1> SUFFICES ASSUME ClientTyped, Control, ClientCalls, call # NoCall
             PROVE
       /\ call.w = Owned /\ Owned \in Fd
       /\ call.op \in {"create", "interest", "handler", "destroy"}
       /\ call.op = "create" => Connecting /\ ~Closing /\ call.arg = "connector"
       /\ call.op = "interest" => /\ ~Closing /\ call.arg \subseteq Events
                                  /\ Connecting => /\ call.arg = {"OUT"}
                                                   /\ at["connector"] \in {"armed", "rearm"}
                                  /\ ~Connecting => at["owner"] = "armed" /\ call.arg = {EventOf[doing]}
       /\ call.op = "handler" => /\ ~Connecting /\ ~Closing /\ call.arg = "socket"
                                 /\ at["connector"] = "adopt"
       /\ call.op = "destroy" => Closing
  OBVIOUS
<1>1. /\ connector.fd \in Fd \cup {NoFd} /\ fd \in Fd \cup {NoFd}
      /\ connector.exists \in BOOLEAN
  BY DEF ClientTyped, ConnectorType
<1>2. at["connector"] \in ConnectorBusy => at["owner"] \notin OwnerBusy
  BY DEF Control
<1>3. CASE at["connector"] = "opened" /\ Made("create", connector.fd, "connector")
  BY <1>1, <1>2, <1>3 DEF Made, Control, Owned, Closing, ConnectorBusy, OwnerBusy
<1>4. CASE at["connector"] \in {"armed", "rearm"} /\ Made("interest", connector.fd, {"OUT"})
  BY <1>1, <1>2, <1>4 DEF Made, Control, Owned, Closing, ConnectorBusy, OwnerBusy, Events
<1>5. CASE at["connector"] = "closing" /\ Made("destroy", connector.fd, {})
  BY <1>1, <1>5 DEF Made, Control, Owned, Closing
<1>6. CASE at["connector"] = "adopt" /\ Made("handler", fd, "socket")
  BY <1>1, <1>2, <1>6 DEF Made, Control, Owned, Closing, ConnectorBusy, OwnerBusy
<1>7. CASE at["owner"] = "armed" /\ Made("interest", fd, {EventOf[doing]})
  <2>1. doing \in {"read", "write"} /\ fd # NoFd /\ ~Connecting /\ at["connector"] # "closing"
    BY <1>2, <1>7 DEF Control, ConnectorBusy, OwnerBusy
  <2>2. {EventOf[doing]} \subseteq Events
    BY <2>1 DEF EventOf, Events
  <2> QED
    BY <1>1, <1>7, <2>1, <2>2 DEF Made, Owned, Closing
<1>8. CASE at["owner"] = "drop" /\ connector.fd # NoFd /\ Made("destroy", connector.fd, {})
  BY <1>1, <1>8 DEF Made, Control, Owned, Closing
<1>9. CASE at["owner"] = "shut" /\ fd # NoFd /\ Made("destroy", fd, {})
  BY <1>1, <1>9 DEF Made, Control, Owned, Closing
<1> QED
  BY <1>3, <1>4, <1>5, <1>6, <1>7, <1>8, <1>9 DEF ClientCalls

(* A pending call of the client is one that the back end can take.         *)
LEMMA ClientCallFits ==
    ClientTyped /\ Control /\ ClientCalls /\ Descriptors => CallFits /\ TargetFits
<1> SUFFICES ASSUME ClientTyped, Control, ClientCalls, Descriptors
             PROVE  CallFits /\ TargetFits
  OBVIOUS
<1>1. CASE call = NoCall
  BY <1>1 DEF NoCall, CallFits, TargetFits
<1>2. CASE call # NoCall
  <2>1. Owned # NoFd
    BY <1>2, PendingCall DEF Fd, NoFd
  <2> QED
    BY <1>2, <2>1, PendingCall DEF CallFits, TargetFits, Descriptors
<1> QED
  BY <1>1, <1>2

(* Types and control are about the socket alone. *)
LEMMA ControlSame ==
    ClientTyped /\ Control /\ UNCHANGED svars => ClientTyped' /\ Control'
BY DEF ClientTyped, Control, svars, Connecting

(* A step of the poll thread keeps what the socket relies on. *)
LEMMA ClientPoller ==
    SlotsInv /\ ThreadInv /\ ClientInv /\ (Poller \/ PollNothing) /\ UNCHANGED svars => ClientInv'
<1> SUFFICES ASSUME SlotsInv, ThreadInv, ClientInv, Poller \/ PollNothing, UNCHANGED svars
             PROVE  ClientInv'
  OBVIOUS
<1>1. SlotsInv' /\ ThreadInv' /\ \A w \in Fd : Followed(w)
  BY PollerFollows
<1>2. /\ ready' = ready /\ target' = target /\ call' = call
      /\ event' = event \/ DispatchSlot
  BY DEF Poller, PollNothing, SyncNext, Prepared, PollReady, BeginDispatch, DispatchSlot,
         Handled, EndDispatch, ivars
<1>3. /\ status' = status /\ fd' = fd /\ connector' = connector /\ at' = at /\ wait' = wait
      /\ queued' = queued /\ mutex' = mutex /\ doing' = doing
  BY DEF svars
<1>4. ClientTyped' /\ Control'
  BY ControlSame DEF ClientInv
<1>5. ClientCalls'
  BY <1>2, <1>3 DEF ClientInv, ClientCalls, Made
<1>6. (Owned' = Owned) /\ (Closing' <=> Closing) /\ (Connecting' <=> Connecting)
  BY <1>3 DEF Owned, Closing, Connecting
<1>7. /\ connector.fd \in Fd \cup {NoFd} /\ fd \in Fd \cup {NoFd} /\ Owned \in Fd \cup {NoFd}
  BY DEF ClientInv, ClientTyped, ConnectorType, Owned
<1>8. \A w \in Fd : /\ st'[w] = "open" <=> st[w] = "open"
                    /\ st'[w] = "none" <=> st[w] = "none"
  BY <1>1 DEF Followed
<1>9. Descriptors'
  BY <1>2, <1>3, <1>6, <1>7, <1>8 DEF ClientInv, Descriptors
<1>10. Attempt'
  <2>1. Connecting /\ connector.fd # NoFd => AwaitsOnlyOut(connector.fd)'
    BY <1>1, <1>3, <1>7 DEF ClientInv, Attempt, Descriptors, Followed
  <2>2. \A w \in Fd : Unarmed(w) => Unarmed(w)'
    BY <1>1 DEF Followed
  <2>3. event'.to = "connector" => interest'[event'.w] = {} /\ "OUT" \in event'.events
    <3>1. CASE event' = event
      <4>1. ASSUME event.to = "connector" PROVE event.w \in Fd
        BY <4>1 DEF ThreadInv, NoEvent, EventType
      <4> QED
        BY <1>1, <3>1, <4>1 DEF ClientInv, Attempt, Followed
    <3>2. CASE DispatchSlot /\ event' # event
      <4> DEFINE h == pollfds[i].w
                 r == pollfds[i].revents
      <4>1. /\ r # {} /\ st[h] = "open" /\ pc = "dispatch"
            /\ event' = [w |-> h, to |-> target[h], events |-> r, half |-> FALSE]
            /\ interest' = [interest EXCEPT ![h] = @ \ r]
            /\ i \in 1..Len(pollfds)
        BY <3>2 DEF DispatchSlot, Deliver, SlotsInv, SlotsTyped
      <4>2. h \in Fd /\ slot[h] = i /\ i # 0
        BY <4>1, EntryTypes DEF SlotsInv, SlotsMatch
      <4>3. h = Owned
        BY <4>1, <4>2 DEF ClientInv, Descriptors
      <4>4. h # NoFd
        BY <4>2 DEF Fd, NoFd
      <4>5. ASSUME target[h] = "connector" PROVE AwaitsOnlyOut(h)
        <5>1. Connecting \/ call.op = "handler"
          BY <4>1, <4>3, <4>4, <4>5 DEF ClientInv, Descriptors
        <5>2. Connecting \/ ~Unarmed(fd) \/ h # fd
          BY <4>1, <4>2 DEF Unarmed
        <5>3. Connecting
          BY <4>3, <5>1, <5>2 DEF ClientInv, Attempt, Owned
        <5> QED
          BY <4>3, <4>4, <5>3 DEF ClientInv, Attempt, Owned
      <4>6. ASSUME target[h] = "connector" PROVE interest'[h] = {} /\ "OUT" \in r
        <5>1. "OUT" \in r /\ interest[h] \subseteq {"OUT"}
          BY <4>1, <4>2, <4>5, <4>6 DEF AwaitsOnlyOut
        <5>2. interest'[h] = interest[h] \ r
          BY <4>1, <4>2 DEF SlotsInv, SlotsTyped
        <5> QED
          BY <5>1, <5>2
      <4> QED
        BY <4>1, <4>6
    <3> QED
      BY <1>2, <3>1, <3>2
  <2>4. fd \in Fd \/ call.op # "handler"
    <3>1. call.op = "handler" => call # NoCall
      BY DEF NoCall
    <3> QED
      BY <3>1, PendingCall DEF ClientInv, Owned
  <2> QED
    BY <1>2, <1>3, <1>6, <1>7, <2>1, <2>2, <2>3, <2>4 DEF ClientInv, Attempt
<1>11. OwnerCovered'
  <2> SUFFICES ASSUME NEW op \in {"read", "write"}, Waits(op)'
               PROVE  Covered(fd, EventOf[op], op = "write")'
    BY DEF OwnerCovered
  <2>1. Waits(op) /\ fd \in Fd /\ EventOf[op] \in Events /\ (op = "write") \in BOOLEAN
    BY <1>2, <1>3, <1>7 DEF Waits, EventOf, Events
  <2>2. st[fd] = "open"
    <3>1. Owned = fd /\ ~Connecting
      BY <2>1 DEF Waits, ClientInv, Control, Owned
    <3>2. ~Closing
      BY <2>1, <3>1 DEF Waits, ClientInv, Control, Closing, ConnectorBusy
    <3>3. call.op # "create"
      <4>1. call # NoCall => call.op # "create"
        BY <3>1, PendingCall DEF ClientInv
      <4> QED
        BY <4>1 DEF NoCall
    <3> QED
      BY <2>1, <3>1, <3>2, <3>3 DEF Waits, ClientInv, Descriptors
  <2>3. Covered(fd, EventOf[op], op = "write")
    BY <2>1 DEF ClientInv, OwnerCovered
  <2> DEFINE e == EventOf[op]
             late == (op = "write")
  <2>4. Followed(fd) /\ e \in Events /\ late \in BOOLEAN
    BY <1>1, <2>1
  <2>5. Covered(fd, e, late)
    BY <2>3
  <2> HIDE DEF e, late
  <2>6. Covered(fd, e, late)'
    BY <1>3, <2>2, <2>4, <2>5 DEF Followed
  <2> QED
    BY <2>6 DEF e, late
<1> QED
  BY <1>4, <1>5, <1>9, <1>10, <1>11 DEF ClientInv

(* The back end answers a call.                                            *)
LEMMA ClientCall ==
    SlotsInv /\ ThreadInv /\ ClientInv /\ BackEndCall /\ UNCHANGED svars
        => SlotsInv' /\ ThreadInv' /\ ClientInv'
<1> SUFFICES ASSUME SlotsInv, ThreadInv, ClientInv, BackEndCall, UNCHANGED svars
             PROVE  SlotsInv' /\ ThreadInv' /\ ClientInv'
  OBVIOUS
<1>1. CallFits /\ TargetFits
  BY ClientCallFits DEF ClientInv
<1>2. SlotsInv' /\ ThreadInv' /\ \A d \in Fd : Answered(d)
  BY <1>1, CallFollows
<1>3. /\ ready' = ready /\ event' = event /\ call' = NoCall /\ call # NoCall
      /\ call'.op = "none"
  BY DEF BackEndCall, Create, SetInterest, SetHandler, Destroy, NoCall
<1>4. /\ status' = status /\ fd' = fd /\ connector' = connector /\ at' = at /\ wait' = wait
      /\ queued' = queued /\ mutex' = mutex /\ doing' = doing
  BY DEF svars
<1>5. /\ call.w = Owned /\ Owned \in Fd
      /\ call.op \in {"create", "interest", "handler", "destroy"}
      /\ call.op = "create" => Connecting /\ ~Closing /\ call.arg = "connector"
      /\ call.op = "interest" => /\ ~Closing /\ call.arg \subseteq Events
                                 /\ Connecting => /\ call.arg = {"OUT"}
                                                  /\ at["connector"] \in {"armed", "rearm"}
                                 /\ ~Connecting => at["owner"] = "armed" /\ call.arg = {EventOf[doing]}
      /\ call.op = "handler" => /\ ~Connecting /\ ~Closing /\ call.arg = "socket"
                                /\ at["connector"] = "adopt"
      /\ call.op = "destroy" => Closing
  BY <1>3, PendingCall DEF ClientInv
<1>6. ClientTyped' /\ Control'
  BY ControlSame DEF ClientInv
<1>7. ClientCalls'
  BY <1>3 DEF ClientCalls
<1>8. (Owned' = Owned) /\ (Closing' <=> Closing) /\ (Connecting' <=> Connecting)
  BY <1>4 DEF Owned, Closing, Connecting
<1>9. connector.fd \in Fd \cup {NoFd} /\ fd \in Fd \cup {NoFd} /\ NoFd \notin Fd
  BY DEF ClientInv, ClientTyped, ConnectorType, Fd, NoFd
<1>10. Descriptors'
  <2>1. \A w \in Fd \ {Owned} : st'[w] = st[w] /\ target'[w] = target[w]
    BY <1>2, <1>5 DEF Answered
  <2>2. /\ st'[Owned] = IF call.op = "destroy" THEN st'[Owned] ELSE "open"
        /\ call.op = "destroy" => st'[Owned] \in {"gone", "freed"}
        /\ target'[Owned] = IF call.op \in {"create", "handler"} THEN call.arg ELSE target[Owned]
    BY <1>2, <1>5 DEF Answered
  <2>3. Owned # NoFd
    BY <1>5, <1>9
  <2>4. /\ st'[Owned] # "none"
        /\ st'[Owned] = "open" <=> ~Closing
    BY <1>5, <2>2
  <2>5. st'[Owned] = "open" => target'[Owned] = IF Connecting THEN "connector" ELSE "socket"
    <3>1. CASE call.op = "create"
      BY <1>5, <2>2, <3>1
    <3>2. CASE call.op = "handler"
      BY <1>5, <2>2, <3>2
    <3>3. CASE call.op = "interest"
      <4>1. target[Owned] = IF Connecting THEN "connector" ELSE "socket"
        BY <1>3, <1>5, <2>3, <3>3 DEF ClientInv, Descriptors
      <4> QED
        BY <2>2, <3>3, <4>1
    <3>4. CASE call.op = "destroy"
      BY <2>2, <3>4
    <3> QED
      BY <1>5, <3>1, <3>2, <3>3, <3>4
  <2>6. Connecting => \A w \in Fd : w > NFds - connector.left =>
                         w # connector.fd /\ st'[w] = "none" /\ ready[w] = {}
    BY <2>1 DEF ClientInv, Descriptors, Owned
  <2>7. Connecting => connector.fd = Owned
    BY DEF Owned
  <2> HIDE DEF Owned
  <2> QED
    BY <1>3, <1>4, <1>8, <2>1, <2>3, <2>4, <2>5, <2>6, <2>7 DEF ClientInv, Descriptors
<1>11. Attempt'
  <2>1. Connecting /\ connector.fd # NoFd => AwaitsOnlyOut(connector.fd)'
    BY <1>2, <1>4, <1>5, <1>9 DEF ClientInv, Attempt, Answered
  <2>2. ASSUME Connecting, connector.fd # NoFd,
               at["connector"] \in {"start", "closing", "opened", "check"} \/ connector.up > 0
        PROVE  Unarmed(connector.fd)'
    <3>1. call.op # "interest"
      BY <1>5, <2>2 DEF ClientInv, Attempt
    <3>2. Unarmed(connector.fd)
      BY <2>2 DEF ClientInv, Attempt
    <3> QED
      BY <1>2, <1>4, <1>9, <2>2, <3>1, <3>2 DEF Answered
  <2>3. event.to = "connector" => interest'[event.w] = {}
    <3> SUFFICES ASSUME event.to = "connector" PROVE interest'[event.w] = {}
      OBVIOUS
    <3>1. event # NoEvent /\ event.w \in Fd /\ interest[event.w] = {}
      BY DEF NoEvent, ThreadInv, EventType, ClientInv, Attempt
    <3>2. call.op = "create"
      BY <1>2, <3>1 DEF Answered
    <3> QED
      BY <1>2, <3>1, <3>2 DEF Answered
  <2> QED
    BY <1>3, <1>4, <1>8, <2>1, <2>2, <2>3 DEF ClientInv, Attempt
<1>12. OwnerCovered'
  <2> SUFFICES ASSUME NEW op \in {"read", "write"}, Waits(op)'
               PROVE  Covered(fd, EventOf[op], op = "write")'
    BY DEF OwnerCovered
  <2> DEFINE e == EventOf[op]
             late == (op = "write")
  <2>1. /\ fd \in Fd /\ fd # NoFd /\ e \in Events /\ late \in BOOLEAN /\ ~Connecting
        /\ Owned = fd
    BY <1>4, <1>9 DEF Waits, EventOf, Events, ClientInv, Control, Owned
  <2>2. CASE at["owner"] = "idle"
    <3>1. Waits(op)
      BY <1>4, <2>2 DEF Waits
    <3>2. Covered(fd, e, late)
      BY <3>1 DEF ClientInv, OwnerCovered
    <3>3. ~Closing
      BY <3>1, <2>1, <2>2 DEF Waits, ClientInv, Control, Closing, ConnectorBusy
    <3>4. call.op # "destroy" /\ Answered(fd)
      BY <1>2, <1>5, <2>1, <3>3
    <3> HIDE DEF e, late
    <3>5. Covered(fd, e, late)'
      BY <1>4, <2>1, <3>2, <3>4 DEF Answered
    <3> QED
      BY <3>5 DEF e, late
  <2>3. CASE at["owner"] # "idle"
    <3>1. at["owner"] = "armed" /\ doing = op
      BY <1>4, <2>3 DEF Waits
    <3>2. call.op = "interest"
      <4>1. at["connector"] \notin ConnectorBusy /\ ~Closing
        BY <3>1 DEF ClientInv, Control, OwnerBusy, Closing, ConnectorBusy
      <4> QED
        BY <1>5, <2>1, <4>1 DEF ConnectorBusy
    <3>3. e \in call.arg /\ Answered(fd) /\ fd = call.w
      BY <1>2, <1>5, <2>1, <3>1, <3>2
    <3> HIDE DEF e, late
    <3>4. Covered(fd, e, late)'
      BY <1>4, <2>1, <3>2, <3>3 DEF Answered
    <3> QED
      BY <3>4 DEF e, late
  <2> QED
    BY <2>2, <2>3
<1> QED
  BY <1>2, <1>6, <1>7, <1>10, <1>11, <1>12 DEF ClientInv

(* A step of a socket does not touch the back end. *)
LEMMA BackEndSame ==
    ASSUME SlotsInv, ThreadInv, UNCHANGED bvars, target' = target,
           ready' \in [Fd -> SUBSET Events]
    PROVE  /\ SlotsInv'
           /\ event' = event =>
                 /\ ThreadInv'
                 /\ \A w : Unarmed(w) => Unarmed(w)'
                 /\ \A w, e, late : Covered(w, e, late) => Covered(w, e, late)'
           /\ \A w : AwaitsOnlyOut(w) => AwaitsOnlyOut(w)'
<1>1. SlotsInv'
  BY SlotsStutter DEF bvars
<1> QED
  BY <1>1 DEF bvars, ThreadInv, Unarmed, Covered, AwaitsOnlyOut

(* The system answers, gets ready, or breaks the connection. *)
LEMMA ClientSystem ==
    ASSUME SlotsInv, ThreadInv, ClientInv, NEW w \in Fd, System(w), UNCHANGED bvars
    PROVE  SlotsInv' /\ ThreadInv' /\ ClientInv'
<1>1. /\ target' = target /\ call' = call /\ event' = event /\ fd' = fd
      /\ connector' = connector /\ wait' = wait /\ queued' = queued /\ at' = at
      /\ mutex' = mutex /\ doing' = doing /\ UNCHANGED <<ops, alive, via>>
  BY DEF System
<1>2. /\ status[w] \in {"connecting", "up"}
      /\ \E x \in {"up", "failed"} : status' = [status EXCEPT ![w] = x]
      /\ \E r \in SUBSET Events : ready' = [ready EXCEPT ![w] = r]
      /\ \A d \in Fd \ {w} : status'[d] = status[d] /\ ready'[d] = ready[d]
      /\ "OUT" \in ready[w] \/ status[w] = "connecting" => "OUT" \in ready'[w]
  <2>1. ready \in [Fd -> SUBSET Events] /\ status \in [Fd -> {"none", "connecting", "up", "failed", "closed"}]
    BY DEF ThreadInv, ClientInv, Descriptors
  <2>2. CASE Answer(w)
    BY <2>1, <2>2 DEF Answer, Events
  <2>3. CASE BecomeReady(w)
    <3>1. PICK e \in {"IN", "OUT"} : ready' = [ready EXCEPT ![w] = @ \cup {e}]
      BY <2>3 DEF BecomeReady
    <3>2. ready[w] \cup {e} \in SUBSET Events
      BY <2>1 DEF Events
    <3>3. status' = status /\ status[w] = "up" /\ status = [status EXCEPT ![w] = "up"]
      BY <2>1, <2>3 DEF BecomeReady
    <3> QED
      BY <2>1, <3>1, <3>2, <3>3
  <2>4. CASE Break(w)
    BY <2>1, <2>4 DEF Break, Events
  <2> QED
    BY <2>2, <2>3, <2>4 DEF System
<1>3. w = Owned
  BY <1>2 DEF ClientInv, Descriptors
<1>4. ready' \in [Fd -> SUBSET Events]
  BY <1>2 DEF ThreadInv
<1>5. SlotsInv' /\ ThreadInv' /\ (\A d : Unarmed(d) => Unarmed(d)')
      /\ (\A d, e, late : Covered(d, e, late) => Covered(d, e, late)')
      /\ (\A d : AwaitsOnlyOut(d) => AwaitsOnlyOut(d)')
  BY <1>1, <1>4, BackEndSame
<1>6. ClientTyped' /\ Control' /\ ClientCalls'
  BY <1>1 DEF ClientInv, ClientTyped, Control, Connecting, ClientCalls, Made
<1>7. Descriptors'
  <2>1. /\ Owned' = Owned /\ (Closing' <=> Closing) /\ (Connecting' <=> Connecting) /\ st' = st
    BY <1>1 DEF Owned, Closing, Connecting, bvars
  <2>2. status' \in [Fd -> {"none", "connecting", "up", "failed", "closed"}]
    BY <1>2 DEF ClientInv, Descriptors
  <2>3. Connecting => connector.fd = w
    BY <1>3 DEF Owned
  <2>4. \A d \in Fd : d # Owned => st'[d] # "open" /\ status'[d] \in {"none", "closed"}
    BY <1>2, <1>3, <2>1 DEF ClientInv, Descriptors
  <2>5. Connecting => \A d \in Fd : d > NFds - connector.left =>
                         d # connector.fd /\ st'[d] = "none" /\ ready'[d] = {}
    BY <1>2, <2>1, <2>3 DEF ClientInv, Descriptors
  <2>6. Connecting => "OUT" \in ready'[connector.fd]
    <3> SUFFICES ASSUME Connecting PROVE "OUT" \in ready'[connector.fd]
      OBVIOUS
    <3>1. w # NoFd
      BY DEF Fd, NoFd
    <3>2. "OUT" \in ready[w] \/ status[w] = "connecting"
      BY <1>2, <2>3, <3>1 DEF ClientInv, Descriptors
    <3> QED
      BY <1>2, <2>3, <3>2
  <2> QED
    BY <1>1, <2>1, <2>2, <2>4, <2>5, <2>6 DEF ClientInv, Descriptors
<1>8. Attempt'
  BY <1>1, <1>5 DEF ClientInv, Attempt, Connecting, bvars
<1>9. OwnerCovered'
  BY <1>1, <1>5 DEF ClientInv, OwnerCovered, Waits
<1> QED
  BY <1>5, <1>6, <1>7, <1>8, <1>9 DEF ClientInv

(* The poll thread is in a handler, whose watched_fd is open. *)
LEMMA HandledWatch ==
    SlotsInv /\ ThreadInv /\ event # NoEvent =>
        /\ event \in EventType /\ event.w \in Fd /\ pc = "handling"
        /\ event.w = pollfds[i].w /\ event.to = target[event.w]
        /\ st[event.w] = "open" /\ slot[event.w] # 0
<1> SUFFICES ASSUME SlotsInv, ThreadInv, event # NoEvent
             PROVE  /\ event \in EventType /\ event.w \in Fd /\ pc = "handling"
                    /\ event.w = pollfds[i].w /\ event.to = target[event.w]
                    /\ st[event.w] = "open" /\ slot[event.w] # 0
  OBVIOUS
<1>1. /\ event \in EventType /\ event.w \in Fd /\ pc = "handling"
      /\ event.w = pollfds[i].w /\ event.to = target[event.w]
  BY DEF ThreadInv, EventType
<1>2. i \in 1..Len(pollfds) /\ st[event.w] = "open"
  BY <1>1 DEF SlotsInv, HandledIsOpen
<1>3. slot[event.w] = i
  BY <1>1, <1>2 DEF SlotsInv, SlotsMatch
<1> QED
  BY <1>1, <1>2, <1>3 DEF SlotsInv, SlotsTyped

(* The handler of the simple socket *)
LEMMA ClientHandled ==
    SlotsInv /\ ThreadInv /\ ClientInv /\ HandleSocket /\ UNCHANGED bvars
       /\ UNCHANGED <<ready, target, call, status, ops, fd, alive, mutex, wait, at, via, doing>>
        => SlotsInv' /\ ThreadInv' /\ ClientInv'
<1> SUFFICES ASSUME SlotsInv, ThreadInv, ClientInv, HandleSocket, UNCHANGED bvars,
                    UNCHANGED <<ready, target, call, status, ops, fd, alive, mutex, wait, at, via, doing>>
             PROVE  SlotsInv' /\ ThreadInv' /\ ClientInv'
  OBVIOUS
<1>1. /\ event.to = "socket" /\ event # NoEvent /\ connector' = connector
  BY DEF HandleSocket, NoEvent
<1>2. /\ event \in EventType /\ pc = "handling"
      /\ event.w = pollfds[i].w /\ event.to = target[event.w]
  BY <1>1 DEF ThreadInv
<1>3. /\ event' = NoEvent \/ event' = [event EXCEPT !.half = TRUE]
      /\ queued' \in [Tasklets -> BOOLEAN]
      /\ queued["owner"] => queued'["owner"]
  BY DEF HandleSocket, Run, ClientInv, ClientTyped, Tasklets
<1>4. /\ event' # NoEvent => /\ event' \in EventType /\ event'.w = event.w
                             /\ event'.to = event.to /\ event'.events = event.events
      /\ event'.to # "connector"
  <2>1. CASE event' = NoEvent
    BY <2>1 DEF NoEvent
  <2>2. CASE event' = [event EXCEPT !.half = TRUE]
    BY <1>1, <1>2, <2>2 DEF EventType
  <2> QED
    BY <1>3, <2>1, <2>2
<1>5. SlotsInv' /\ (\A w : AwaitsOnlyOut(w) => AwaitsOnlyOut(w)')
  <2>1. ready' \in [Fd -> SUBSET Events]
    BY DEF ThreadInv
  <2> QED
    BY <2>1, BackEndSame
<1>6. ThreadInv' /\ \A w : Unarmed(w) => Unarmed(w)'
  BY <1>1, <1>2, <1>4 DEF ThreadInv, bvars, Unarmed
<1>7. ClientTyped' /\ Control' /\ ClientCalls'
  BY <1>1, <1>3 DEF ClientInv, ClientTyped, Control, Connecting, ClientCalls, Made
<1>8. Descriptors'
  BY <1>1 DEF ClientInv, Descriptors, Owned, Closing, Connecting, bvars
<1>9. Attempt'
  BY <1>1, <1>4, <1>5, <1>6 DEF ClientInv, Attempt, Connecting, bvars
<1>10. OwnerCovered'
  <2> SUFFICES ASSUME NEW op \in {"read", "write"}, Waits(op)'
               PROVE  Covered(fd, EventOf[op], op = "write")'
    BY DEF OwnerCovered
  <2>1. Waits(op) /\ ~queued'["owner"] /\ wait["owner"] = ListOf[op]
    BY <1>3 DEF Waits, ClientInv, Control
  <2>2. Covered(fd, EventOf[op], op = "write")
    BY <2>1 DEF ClientInv, OwnerCovered
  <2>3. CASE /\ EventOf[op] \in interest[fd]
             /\ \/ slot[fd] # 0 /\ EventOf[op] \in pollfds[slot[fd]].events
                \/ IsOn(updates, fd) /\ (pc = "poll" => pipe)
    BY <2>3 DEF Covered, bvars
  <2>4. CASE /\ event.w = fd /\ event.events \cap {EventOf[op], "ERR"} # {}
             /\ op = "write" \/ ~event.half
    <3>1. CASE op = "read"
      <4>1. event.events \cap {"IN", "ERR"} # {} /\ ~event.half /\ wait["owner"] = "reading"
        BY <2>1, <2>4, <3>1 DEF EventOf, ListOf
      <4>2. Run({"reading"})
        BY <4>1 DEF HandleSocket
      <4> QED
        BY <2>1, <4>1, <4>2 DEF Run, Tasklets
    <3>2. CASE op = "write"
      <4>1. event.events \cap {"OUT", "ERR"} # {} /\ wait["owner"] = "writing"
        BY <2>1, <2>4, <3>2 DEF EventOf, ListOf
      <4>2. ~event.half
        <5>1. event.half => Run({"writing"})
          BY <4>1 DEF HandleSocket
        <5> QED
          BY <2>1, <4>1, <5>1 DEF Run, Tasklets
      <4>3. event' = [event EXCEPT !.half = TRUE]
        BY <4>2 DEF HandleSocket
      <4>4. event'.w = event.w /\ event'.events = event.events
        BY <1>2, <4>3 DEF EventType
      <4> QED
        BY <2>4, <3>2, <4>4 DEF Covered
    <3> QED
      BY <3>1, <3>2
  <2> QED
    BY <2>2, <2>3, <2>4 DEF Covered
<1> QED
  BY <1>5, <1>6, <1>7, <1>8, <1>9, <1>10 DEF ClientInv

(* The handler of the connector: its descriptor is not armed any more.     *)
LEMMA ClientConnected ==
    SlotsInv /\ ThreadInv /\ ClientInv /\ HandleConnector /\ UNCHANGED bvars
       /\ UNCHANGED <<ready, target, call, status, ops, fd, alive, mutex, wait, at, via, doing>>
        => SlotsInv' /\ ThreadInv' /\ ClientInv'
<1> SUFFICES ASSUME SlotsInv, ThreadInv, ClientInv, HandleConnector, UNCHANGED bvars,
                    UNCHANGED <<ready, target, call, status, ops, fd, alive, mutex, wait, at, via, doing>>
             PROVE  SlotsInv' /\ ThreadInv' /\ ClientInv'
  OBVIOUS
<1>1. event.to = "connector" /\ event # NoEvent /\ Connecting /\ event' = NoEvent
  BY DEF HandleConnector, NoEvent
<1>2. /\ event.w \in Fd /\ pc = "handling" /\ event.w = pollfds[i].w
      /\ st[event.w] = "open" /\ slot[event.w] # 0
  BY <1>1, HandledWatch
<1>3. event.w = connector.fd /\ connector.fd \in Fd /\ connector.fd # NoFd
  BY <1>1, <1>2 DEF ClientInv, Descriptors, Owned, Fd, NoFd
<1>4. interest[connector.fd] = {} /\ "OUT" \in event.events
  BY <1>1, <1>3 DEF ClientInv, Attempt
<1>5. ~Unarmed(connector.fd)
  BY <1>1, <1>2, <1>3 DEF Unarmed
<1>6. /\ at["connector"] \notin {"start", "closing", "opened", "check"}
      /\ connector.up = 0 /\ call.op # "interest"
  BY <1>1, <1>3, <1>5 DEF ClientInv, Attempt, ClientTyped, ConnectorType
<1>7. connector' = [connector EXCEPT !.connected = (event.events = {"OUT"}), !.up = @ + 1]
      /\ Run({"connecting"})
  BY <1>4 DEF HandleConnector
<1>8. /\ connector' \in ConnectorType /\ connector'.up = 1 /\ connector'.fd = connector.fd
      /\ connector'.left = connector.left /\ connector'.exists = connector.exists
  <2> DEFINE b == (event.events = {"OUT"})
  <2>1. b \in BOOLEAN /\ connector' = [connector EXCEPT !.connected = b, !.up = @ + 1]
    BY <1>7
  <2> HIDE DEF b
  <2>2. connector \in ConnectorType /\ connector.up = 0
    BY <1>6 DEF ClientInv, ClientTyped
  <2>3. connector' = [connector EXCEPT !.connected = b, !.up = 1]
    BY <2>1, <2>2
  <2>4. /\ connector'.up = 1 /\ connector'.fd = connector.fd
        /\ connector'.left = connector.left /\ connector'.exists = connector.exists
    BY <2>2, <2>3 DEF ConnectorType
  <2>5. b \in BOOLEAN
    BY <2>1
  <2>6. connector' \in ConnectorType
    BY <2>2, <2>3, <2>5 DEF ConnectorType
  <2> QED
    BY <2>4, <2>6
<1>9. queued' \in [Tasklets -> BOOLEAN]
  BY <1>7 DEF Run, ClientInv, ClientTyped
<1>10. Connecting' /\ Owned' = Owned /\ (Closing' <=> Closing)
  BY <1>1, <1>8 DEF Connecting, Owned, Closing
<1>11. SlotsInv' /\ (\A w : AwaitsOnlyOut(w) => AwaitsOnlyOut(w)')
  <2>1. ready' \in [Fd -> SUBSET Events]
    BY DEF ThreadInv
  <2> QED
    BY <2>1, BackEndSame
<1>12. ThreadInv'
  BY <1>1 DEF ThreadInv, bvars
<1>13. Unarmed(connector.fd)'
  BY <1>1, <1>2, <1>3, <1>4, <1>8 DEF Unarmed, bvars
<1>14. ClientTyped' /\ Control'
  BY <1>1, <1>8, <1>9, <1>10 DEF ClientInv, ClientTyped, Control
<1>15. ClientCalls'
  BY <1>8 DEF ClientInv, ClientCalls, Made
<1>16. Descriptors'
  BY <1>1, <1>8, <1>10 DEF ClientInv, Descriptors, bvars
<1>17. Attempt'
  <2>1. call.op # "handler"
    <3>1. call # NoCall => call.op # "handler"
      BY <1>1, PendingCall DEF ClientInv
    <3> QED
      BY <3>1 DEF NoCall
  <2> QED
    BY <1>1, <1>3, <1>6, <1>8, <1>10, <1>11, <1>13, <2>1 DEF ClientInv, Attempt, NoEvent
<1>18. OwnerCovered'
  BY <1>1 DEF ClientInv, Control, OwnerCovered, Waits
<1> QED
  BY <1>11, <1>12, <1>14, <1>15, <1>16, <1>17, <1>18 DEF ClientInv

(* A watched_fd that was not created yet *)
LEMMA FreshWatch ==
    ASSUME SlotsInv, ThreadInv, NEW w \in Fd, st[w] = "none"
    PROVE  Unarmed(w) /\ AwaitsOnlyOut(w)
<1>1. interest[w] = {}
  BY DEF ThreadInv
<1>2. slot[w] = 0
  BY DEF SlotsInv, SlotsMatch
<1> QED
  BY <1>1, <1>2 DEF Unarmed, AwaitsOnlyOut

(* Where the connector runs, the owner does not have the mutex.            *)
LEMMA ConnectorHere ==
    ClientInv /\ (mutex = "free" \/ at["connector"] \in ConnectorBusy) =>
        /\ at["owner"] \notin OwnerBusy /\ at["owner"] \in Places
        /\ at["connector"] \in Places
        /\ connector \in ConnectorType /\ connector.fd \in Fd \cup {NoFd}
        /\ connector.left \in 0..NFds /\ connector.up \in Nat
        /\ at["connector"] \in {"start", "closing", "opened", "armed", "down", "check", "rearm"}
              => Connecting
        /\ Connecting => fd = NoFd /\ Owned = connector.fd
BY DEF ClientInv, ClientTyped, Control, ConnectorType, Tasklets, Owned, ConnectorBusy

(* The connector goes from one place to another. *)
Moves(l) ==
    /\ UNCHANGED <<ops, fd>>
    /\ ready' \in [Fd -> SUBSET Events]
    /\ mutex = "free" \/ at["connector"] \in ConnectorBusy
    /\ l \in {"idle", "down", "check", "start", "closing", "opened", "armed", "rearm"}
    /\ at' = [at EXCEPT !["connector"] = l]
    /\ mutex' = IF l = "idle" THEN "free" ELSE "connector"
    /\ wait' \in [Tasklets -> {"none", "reading", "writing", "connecting"}]
    /\ queued' \in [Tasklets -> BOOLEAN]
    /\ connector' \in ConnectorType
    /\ connector'.up <= 1
    /\ connector'.up > 0 \/ l \in {"check", "closing", "opened", "armed", "rearm"}
          => connector'.fd # NoFd
    /\ connector'.connected => connector'.up = 1 \/ l = "check"
    /\ l \in {"check", "start", "closing", "opened"} \/ call'.op = "interest"
          => connector'.up = 0
    /\ call'.op # "handler"
    /\ connector'.fd # NoFd =>
          /\ AwaitsOnlyOut(connector'.fd)
          /\ (\/ l \in {"start", "closing", "opened", "check"}
              \/ connector'.up > 0 \/ call'.op = "interest") => Unarmed(connector'.fd)

(* What follows when the connector moves on and changes nothing else.      *)
LEMMA ConnectorMoves ==
    ASSUME SlotsInv, ThreadInv, ClientInv, UNCHANGED bvars,
           UNCHANGED <<target, event, alive, via, doing>>, Connecting, Connecting',
           ClientCalls', Descriptors', NEW l, Moves(l)
    PROVE  SlotsInv' /\ ThreadInv' /\ ClientInv'
<1>1. /\ SlotsInv' /\ ThreadInv' /\ \A w : Unarmed(w) => Unarmed(w)'
      /\ \A w : AwaitsOnlyOut(w) => AwaitsOnlyOut(w)'
  BY BackEndSame DEF Moves
<1>2. /\ at["owner"] \notin OwnerBusy /\ at["owner"] \in Places /\ fd = NoFd
      /\ at \in [Tasklets -> Places] /\ l \in Places /\ "connector" \in Tasklets
  BY ConnectorHere DEF Moves, ClientInv, ClientTyped, Places, ConnectorBusy, Tasklets
<1>3. at'["connector"] = l /\ at'["owner"] = at["owner"] /\ at' \in [Tasklets -> Places]
  BY <1>2 DEF Moves, Tasklets
<1>4. ClientTyped'
  BY <1>3 DEF Moves, ClientInv, ClientTyped, Tasklets
<1>5. Control'
  <2>1. mutex' = "connector" <=> l \in ConnectorBusy
    BY DEF Moves, ConnectorBusy
  <2>2. mutex' # "owner"
    BY DEF Moves
  <2> QED
    BY <1>2, <1>3, <2>1, <2>2 DEF Moves, ClientInv, Control, OwnerBusy
<1>6. Attempt'
  <2>1. event'.to = "connector" => interest'[event'.w] = {} /\ "OUT" \in event'.events
    BY DEF ClientInv, Attempt, bvars
  <2> QED
    BY <1>1, <1>3, <2>1 DEF Moves, Attempt
<1>7. OwnerCovered'
  BY <1>2 DEF Moves, OwnerCovered, Waits
<1> QED
  BY <1>1, <1>4, <1>5, <1>6, <1>7 DEF ClientInv

(* No call is pending where the connector makes none. *)
LEMMA NoCallHere ==
    ClientInv /\ (\/ mutex = "free" /\ at["connector"] \notin ConnectorBusy
                  \/ at["connector"] \in {"start", "down", "check"}) => call = NoCall /\ ~Closing
<1> SUFFICES ASSUME ClientInv, \/ mutex = "free" /\ at["connector"] \notin ConnectorBusy
                               \/ at["connector"] \in {"start", "down", "check"}
             PROVE  call = NoCall /\ ~Closing
  OBVIOUS
<1>1. at["owner"] \notin OwnerBusy
  BY ConnectorHere DEF ConnectorBusy
<1>2. at["connector"] \notin {"closing", "opened", "armed", "rearm"}
  BY DEF ConnectorBusy
<1>3. at["connector"] # "adopt"
  BY DEF ConnectorBusy
<1> QED
  BY <1>1, <1>2, <1>3 DEF ClientInv, ClientCalls, OwnerBusy, Closing

(* Nothing changes about the descriptors. *)
LEMMA DescriptorsSame ==
    ASSUME Descriptors, connector \in ConnectorType, status' = status, ready' = ready,
           target' = target, st' = st, fd' = fd,
           connector'.fd = connector.fd, connector'.left \in 0..connector.left,
           Connecting' <=> Connecting, call'.op = "create" <=> call.op = "create",
           call'.op = "handler" <=> call.op = "handler",
           (Closing /\ call = NoCall)' <=> (Closing /\ call = NoCall)
    PROVE  Descriptors'
<1>1. Owned' = Owned
  BY DEF Owned
<1>2. connector.left \in Nat /\ connector'.left \in Nat /\ connector'.left <= connector.left
  BY DEF ConnectorType
<1>3. \A w \in Fd : w > NFds - connector'.left => w > NFds - connector.left
  BY <1>2, NFdsAssumption DEF Fd
<1> QED
  BY <1>1, <1>3 DEF Descriptors

(* The end of start_connecting *)
LEMMA StartedGoes ==
    ASSUME NEW c \in ConnectorType, Started(c)
    PROVE  /\ connector' \in ConnectorType
           /\ connector'.fd = c.fd /\ connector'.connected = c.connected /\ connector'.left = c.left
           /\ connector'.up = c.up /\ connector'.exists = c.exists
           /\ \E l \in {"idle", "down"} :
                 /\ at' = [at EXCEPT !["connector"] = l]
                 /\ mutex' = IF l = "idle" THEN "free" ELSE mutex
<1>1. CASE c.shared
  BY <1>1 DEF Started, Goto
<1>2. CASE ~c.shared
  <2>1. connector' = [c EXCEPT !.shared = TRUE]
    BY <1>2 DEF Started
  <2>2. /\ connector' \in ConnectorType
        /\ connector'.fd = c.fd /\ connector'.connected = c.connected /\ connector'.left = c.left
        /\ connector'.up = c.up /\ connector'.exists = c.exists
    BY <2>1 DEF ConnectorType
  <2> QED
    BY <1>2, <2>2 DEF Started, Goto
<1> QED
  BY <1>1, <1>2

(* start_connecting has returned: it waits for an answer, or for a token   *)
(* that is there already.                                                  *)
LEMMA ConnectorStarted ==
    ASSUME SlotsInv, ThreadInv, ClientInv, UNCHANGED bvars,
           UNCHANGED <<target, event, alive, via, doing, ops, fd, ready, call, status, wait>>,
           At("connector", "start") \/ (At("connector", "armed") /\ call = NoCall),
           Started(connector), queued' \in [Tasklets -> BOOLEAN]
    PROVE  SlotsInv' /\ ThreadInv' /\ ClientInv'
<1>1. /\ at["connector"] \in {"start", "armed"} /\ at["connector"] \in ConnectorBusy
      /\ Connecting /\ connector \in ConnectorType /\ at["owner"] \notin OwnerBusy
      /\ mutex = "connector" /\ at["connector"] # "closing"
  BY ConnectorHere DEF At, ConnectorBusy, ClientInv, Control
<1>2. /\ connector' \in ConnectorType
      /\ connector'.fd = connector.fd /\ connector'.connected = connector.connected
      /\ connector'.left = connector.left
      /\ connector'.up = connector.up /\ connector'.exists = connector.exists
  BY <1>1, StartedGoes
<1>3. PICK l \in {"idle", "down"} : /\ at' = [at EXCEPT !["connector"] = l]
                                    /\ mutex' = IF l = "idle" THEN "free" ELSE mutex
  BY <1>1, StartedGoes
<1>4. call = NoCall /\ ~Closing
  BY <1>1, NoCallHere DEF At, Closing, OwnerBusy
<1>5. at'["connector"] = l /\ at'["owner"] = at["owner"]
  BY <1>3 DEF ClientInv, ClientTyped, Tasklets
<1>6. ClientCalls'
  BY <1>4 DEF ClientCalls
<1>7. Descriptors'
  <2>1. ~Closing'
    BY <1>1, <1>5 DEF Closing, OwnerBusy
  <2>2. connector.left \in 0..connector.left /\ (Connecting' <=> Connecting) /\ st' = st
    BY <1>1, <1>2 DEF ConnectorType, Connecting, bvars
  <2> QED
    BY <1>1, <1>2, <1>4, <2>1, <2>2, DescriptorsSame DEF ClientInv
<1>8. Connecting' /\ call'.op = "none"
  BY <1>1, <1>2, <1>4 DEF Connecting, NoCall
<1>9. Moves(l)
  BY <1>1, <1>2, <1>3, <1>8 DEF Moves, ClientInv, ClientTyped, Attempt, ThreadInv
<1> QED
  BY <1>1, <1>6, <1>7, <1>8, <1>9, ConnectorMoves

(* connector_connect: no address is left.                                  *)
LEMMA GiveUpKeeps ==
    ASSUME SlotsInv, ThreadInv, ClientInv, UNCHANGED bvars,
           UNCHANGED <<target, event, alive, via, doing>>, GiveUp
    PROVE  SlotsInv' /\ ThreadInv' /\ ClientInv'
<1>1. queued' \in [Tasklets -> BOOLEAN]
  BY DEF GiveUp, ClientInv, ClientTyped, ConnectorType
<1> QED
  BY <1>1, ConnectorStarted DEF GiveUp

(* connector_connect: the attempt is under way.                            *)
LEMMA ConnectArmedKeeps ==
    ASSUME SlotsInv, ThreadInv, ClientInv, UNCHANGED bvars,
           UNCHANGED <<target, event, alive, via, doing>>, ConnectArmed
    PROVE  SlotsInv' /\ ThreadInv' /\ ClientInv'
<1>1. queued' \in [Tasklets -> BOOLEAN]
  BY DEF ConnectArmed, ClientInv, ClientTyped, ConnectorType
<1> QED
  BY <1>1, ConnectorStarted DEF ConnectArmed, Returned

(* The connector goes from one place to another without a call.            *)
Goes(l) ==
    /\ UNCHANGED <<ops, fd, ready, call, status>>
    /\ mutex = "free" \/ at["connector"] \in ConnectorBusy
    /\ call = NoCall /\ ~Closing
    /\ l \in {"idle", "down", "check", "start"}
    /\ at' = [at EXCEPT !["connector"] = l]
    /\ mutex' = IF l = "idle" THEN "free" ELSE "connector"
    /\ wait' \in [Tasklets -> {"none", "reading", "writing", "connecting"}]
    /\ queued' \in [Tasklets -> BOOLEAN]
    /\ connector' \in ConnectorType /\ connector'.exists = connector.exists
    /\ connector'.fd = connector.fd /\ connector'.left \in 0..connector.left
    /\ connector'.up <= 1
    /\ connector'.up > 0 \/ l = "check" => connector.fd # NoFd
    /\ connector'.connected => connector'.up = 1 \/ l = "check"
    /\ l \in {"check", "start"} => connector'.up = 0
    /\ connector.fd # NoFd /\ (l \in {"start", "check"} \/ connector'.up > 0)
          => Unarmed(connector.fd)

(* Such a step keeps the invariant.                                        *)
LEMMA ConnectorGoes ==
    ASSUME SlotsInv, ThreadInv, ClientInv, UNCHANGED bvars,
           UNCHANGED <<target, event, alive, via, doing>>, Connecting, NEW l, Goes(l)
    PROVE  SlotsInv' /\ ThreadInv' /\ ClientInv'
<1>a. /\ UNCHANGED <<ops, fd, ready, call, status>>
      /\ mutex = "free" \/ at["connector"] \in ConnectorBusy
      /\ call = NoCall /\ ~Closing
      /\ l \in {"idle", "down", "check", "start"}
      /\ at' = [at EXCEPT !["connector"] = l]
      /\ mutex' = IF l = "idle" THEN "free" ELSE "connector"
      /\ wait' \in [Tasklets -> {"none", "reading", "writing", "connecting"}]
      /\ queued' \in [Tasklets -> BOOLEAN]
      /\ connector' \in ConnectorType /\ connector'.exists = connector.exists
      /\ connector'.fd = connector.fd /\ connector'.left \in 0..connector.left
      /\ connector'.up <= 1
      /\ connector'.up > 0 \/ l = "check" => connector.fd # NoFd
      /\ connector'.connected => connector'.up = 1 \/ l = "check"
      /\ l \in {"check", "start"} => connector'.up = 0
      /\ connector.fd # NoFd /\ (l \in {"start", "check"} \/ connector'.up > 0)
          => Unarmed(connector.fd)
  BY DEF Goes
<1>1. connector \in ConnectorType /\ at["owner"] \notin OwnerBusy
  BY <1>a, ConnectorHere
<1>2. at'["connector"] = l /\ at'["owner"] = at["owner"]
  BY <1>a DEF ClientInv, ClientTyped, Tasklets
<1>3. ClientCalls'
  BY <1>a DEF ClientCalls
<1>4. ~Closing' /\ Connecting' /\ st' = st /\ call'.op = "none"
  BY <1>a, <1>1, <1>2 DEF Closing, OwnerBusy, Connecting, bvars, NoCall
<1>5. Descriptors'
  BY <1>a, <1>1, <1>4, DescriptorsSame DEF ClientInv
<1>6. ready' \in [Fd -> SUBSET Events]
  BY <1>a DEF ThreadInv
<1>7. connector'.fd # NoFd =>
              /\ AwaitsOnlyOut(connector'.fd)
              /\ (\/ l \in {"start", "closing", "opened", "check"}
                  \/ connector'.up > 0 \/ call'.op = "interest") => Unarmed(connector'.fd)
  BY <1>a, <1>4 DEF ClientInv, Attempt
<1>8. Moves(l)
  BY <1>a, <1>4, <1>6, <1>7 DEF Moves
<1> QED
  BY <1>3, <1>4, <1>5, <1>8, ConnectorMoves

(* The connector is run, and takes the mutex.                              *)
LEMMA ConnectorRunsKeeps ==
    ASSUME SlotsInv, ThreadInv, ClientInv, UNCHANGED bvars,
           UNCHANGED <<target, event, alive, via, doing>>, ConnectorRuns
    PROVE  SlotsInv' /\ ThreadInv' /\ ClientInv'
<1>1. /\ at["connector"] = "idle" /\ mutex = "free" /\ mutex' = "connector"
      /\ at' = [at EXCEPT !["connector"] = "down"]
      /\ queued' = [queued EXCEPT !["connector"] = FALSE]
      /\ UNCHANGED <<ready, call, status, ops, fd, connector, wait>>
  BY DEF ConnectorRuns, At, Goto
<1>2. Connecting /\ connector \in ConnectorType /\ connector.left \in 0..connector.left
  BY <1>1 DEF ClientInv, ClientTyped, Control, ConnectorType
<1>3. call = NoCall /\ ~Closing
  BY <1>1, NoCallHere DEF ConnectorBusy
<1>4. queued' \in [Tasklets -> BOOLEAN] /\ wait \in [Tasklets -> {"none", "reading", "writing", "connecting"}]
  BY <1>1 DEF ClientInv, ClientTyped
<1>5. /\ connector.up <= 1
      /\ connector.up > 0 => connector.fd # NoFd
      /\ connector.connected => connector.up = 1
      /\ connector.fd # NoFd /\ connector.up > 0 => Unarmed(connector.fd)
  BY <1>1, <1>2 DEF ClientInv, Attempt
<1>6. Goes("down")
  BY <1>1, <1>2, <1>3, <1>4, <1>5 DEF Goes
<1> QED
  BY <1>2, <1>6, ConnectorGoes

(* The connector has set its interest again and goes to wait.              *)
LEMMA RearmedKeeps ==
    ASSUME SlotsInv, ThreadInv, ClientInv, UNCHANGED bvars,
           UNCHANGED <<target, event, alive, via, doing>>, Rearmed
    PROVE  SlotsInv' /\ ThreadInv' /\ ClientInv'
<1>1. /\ at["connector"] = "rearm" /\ call = NoCall
      /\ at' = [at EXCEPT !["connector"] = "down"]
      /\ UNCHANGED <<ready, call, status, ops, fd, mutex, connector, wait, queued>>
  BY DEF Rearmed, At, Goto, Returned
<1>2. /\ Connecting /\ connector \in ConnectorType /\ connector.left \in 0..connector.left
      /\ at["connector"] \in ConnectorBusy /\ mutex = "connector"
  BY <1>1 DEF ClientInv, ClientTyped, Control, ConnectorType, ConnectorBusy
<1>3. ~Closing
  BY <1>1, <1>2, ConnectorHere DEF Closing, OwnerBusy
<1>4. /\ queued \in [Tasklets -> BOOLEAN]
      /\ wait \in [Tasklets -> {"none", "reading", "writing", "connecting"}]
  BY DEF ClientInv, ClientTyped
<1>5. /\ connector.up <= 1
      /\ connector.up > 0 => connector.fd # NoFd
      /\ connector.connected => connector.up = 1
      /\ connector.fd # NoFd /\ connector.up > 0 => Unarmed(connector.fd)
  BY <1>1, <1>2 DEF ClientInv, Attempt
<1>6. Goes("down")
  BY <1>1, <1>2, <1>3, <1>4, <1>5 DEF Goes
<1> QED
  BY <1>2, <1>6, ConnectorGoes

(* The connector takes what wait_list_down answers, or waits.              *)
LEMMA DownKeeps ==
    ASSUME SlotsInv, ThreadInv, ClientInv, UNCHANGED bvars,
           UNCHANGED <<target, event, alive, via, doing>>, Down
    PROVE  SlotsInv' /\ ThreadInv' /\ ClientInv'
<1>1. /\ at["connector"] = "down"
      /\ UNCHANGED <<ready, call, status, ops, fd, queued>>
  BY DEF Down, At
<1>2. /\ Connecting /\ connector \in ConnectorType /\ connector.left \in 0..connector.left
      /\ at["connector"] \in ConnectorBusy /\ mutex = "connector"
  BY <1>1 DEF ClientInv, ClientTyped, Control, ConnectorType, ConnectorBusy
<1>3. call = NoCall /\ ~Closing
  BY <1>1, NoCallHere
<1>4. /\ queued \in [Tasklets -> BOOLEAN]
      /\ wait \in [Tasklets -> {"none", "reading", "writing", "connecting"}]
  BY DEF ClientInv, ClientTyped
<1>5. /\ connector.up <= 1 /\ connector.up \in Nat
      /\ connector.up > 0 => connector.fd # NoFd
      /\ connector.connected => connector.up = 1
      /\ connector.fd # NoFd /\ connector.up > 0 => Unarmed(connector.fd)
  BY <1>1, <1>2 DEF ClientInv, Attempt, ConnectorType
<1>6. CASE connector.up > 0
  <2>1. /\ connector' = [connector EXCEPT !.up = @ - 1]
        /\ at' = [at EXCEPT !["connector"] = "check"]
        /\ UNCHANGED <<mutex, wait>>
    BY <1>6 DEF Down, Goto
  <2>2. connector.up = 1
    BY <1>5, <1>6
  <2>3. /\ connector' \in ConnectorType /\ connector'.up = 0 /\ connector'.exists = connector.exists
        /\ connector'.fd = connector.fd /\ connector'.left = connector.left
    BY <1>2, <2>1, <2>2 DEF ConnectorType
  <2>4. Goes("check")
    BY <1>1, <1>2, <1>3, <1>4, <1>5, <1>6, <2>1, <2>3 DEF Goes
  <2> QED
    BY <1>2, <2>4, ConnectorGoes
<1>7. CASE ~(connector.up > 0)
  <2>1. /\ wait' = [wait EXCEPT !["connector"] = "connecting"]
        /\ at' = [at EXCEPT !["connector"] = "idle"]
        /\ mutex' = "free" /\ connector' = connector
    BY <1>7 DEF Down, Goto
  <2>2. wait' \in [Tasklets -> {"none", "reading", "writing", "connecting"}]
    BY <1>4, <2>1
  <2>3. Goes("idle")
    BY <1>1, <1>2, <1>3, <1>4, <1>5, <1>7, <2>1, <2>2 DEF Goes
  <2> QED
    BY <1>2, <2>3, ConnectorGoes
<1> QED
  BY <1>6, <1>7

(* connector_close for the attempt before *)
LEMMA CloseOldKeeps ==
    ASSUME SlotsInv, ThreadInv, ClientInv, UNCHANGED bvars,
           UNCHANGED <<target, event, alive, via, doing>>, CloseOld
    PROVE  SlotsInv' /\ ThreadInv' /\ ClientInv'
<1>1. /\ at["connector"] = "start" /\ at["connector"] \in ConnectorBusy
      /\ connector.fd # NoFd
      /\ call' = [op |-> "destroy", w |-> connector.fd, arg |-> {}]
      /\ at' = [at EXCEPT !["connector"] = "closing"]
      /\ UNCHANGED <<ready, status, ops, fd, mutex, connector, wait, queued>>
  BY DEF CloseOld, At, Call, Goto, ConnectorBusy
<1>2. /\ Connecting /\ Connecting' /\ connector \in ConnectorType
      /\ connector.left \in 0..connector.left /\ mutex = "connector"
  BY <1>1 DEF ClientInv, ClientTyped, Control, ConnectorType, Connecting
<1>3. call = NoCall /\ ~Closing
  BY <1>1, NoCallHere
<1>4. /\ at'["connector"] = "closing" /\ call' # NoCall
      /\ call.op = "none" /\ call'.op = "destroy"
  BY <1>1, <1>3 DEF ClientInv, ClientTyped, Tasklets, NoCall
<1>5. ClientCalls'
  BY <1>1, <1>4 DEF ClientCalls, Made
<1>6. Descriptors'
  BY <1>1, <1>2, <1>3, <1>4, DescriptorsSame DEF ClientInv, bvars
<1>7. Moves("closing")
  BY <1>1, <1>2, <1>3, <1>4 DEF Moves, ClientInv, ClientTyped, Attempt, ThreadInv
<1> QED
  BY <1>2, <1>5, <1>6, <1>7, ConnectorMoves

(* and the close of its descriptor *)
LEMMA ClosedOldKeeps ==
    ASSUME SlotsInv, ThreadInv, ClientInv, UNCHANGED bvars,
           UNCHANGED <<target, event, alive, via, doing>>, ClosedOld
    PROVE  SlotsInv' /\ ThreadInv' /\ ClientInv'
<1> DEFINE w == connector.fd
<1>1. /\ at["connector"] = "closing" /\ at["connector"] \in ConnectorBusy /\ call = NoCall
      /\ call' = call
      /\ status' = [status EXCEPT ![w] = "closed"] /\ ready' = [ready EXCEPT ![w] = {}]
      /\ connector' = [connector EXCEPT !.fd = NoFd]
      /\ at' = [at EXCEPT !["connector"] = "start"]
      /\ UNCHANGED <<ops, fd, mutex, wait, queued>>
  BY DEF ClosedOld, At, Returned, Goto, ConnectorBusy, Close
<1>2. /\ Connecting /\ connector \in ConnectorType /\ mutex = "connector"
      /\ w \in Fd /\ w # NoFd /\ Owned = w
  BY <1>1 DEF ClientInv, ClientTyped, Control, ConnectorType, Owned
<1>3. /\ connector' \in ConnectorType /\ connector'.fd = NoFd
      /\ connector'.up = connector.up /\ connector'.connected = connector.connected
      /\ connector'.left = connector.left /\ connector'.exists = connector.exists
  BY <1>1, <1>2 DEF ConnectorType
<1> HIDE DEF w
<1>4. ~Closing'
  <2>1. at'["connector"] = "start" /\ at'["owner"] = at["owner"]
    BY <1>1 DEF ClientInv, ClientTyped, Tasklets
  <2>2. at["owner"] \notin OwnerBusy
    BY <1>1, ConnectorHere
  <2> QED
    BY <2>1, <2>2 DEF Closing, OwnerBusy
<1>5. Connecting' /\ Owned' = NoFd
  BY <1>2, <1>3 DEF Connecting, Owned
<1>6. ClientCalls'
  BY <1>1 DEF ClientCalls
<1>7. /\ status' \in [Fd -> {"none", "connecting", "up", "failed", "closed"}]
      /\ ready' \in [Fd -> SUBSET Events]
      /\ status'[w] = "closed" /\ ready'[w] = {}
      /\ \A d \in Fd \ {w} : status'[d] = status[d] /\ ready'[d] = ready[d]
  BY <1>1, <1>2 DEF ClientInv, Descriptors, ThreadInv
<1>8. Descriptors'
  <2>1. st[w] # "open" /\ st' = st
    BY <1>1, <1>2 DEF ClientInv, Descriptors, Closing, bvars
  <2>2. \A d \in Fd : st'[d] # "open" /\ status'[d] \in {"none", "closed"}
    BY <1>2, <1>7, <2>1 DEF ClientInv, Descriptors
  <2>3. \A d \in Fd : d > NFds - connector'.left =>
            d # connector'.fd /\ st'[d] = "none" /\ ready'[d] = {}
    BY <1>2, <1>3, <1>7, <2>1 DEF ClientInv, Descriptors, Fd, NoFd
  <2> QED
    BY <1>3, <1>5, <1>7, <2>2, <2>3 DEF Descriptors
<1>9. Moves("start")
  <2>1. connector.up = 0 /\ ~connector.connected
    BY <1>1 DEF ClientInv, Attempt
  <2>2. call'.op = "none"
    BY <1>1 DEF NoCall
  <2> QED
    BY <1>1, <1>2, <1>3, <1>7, <2>1, <2>2 DEF Moves, ClientInv, ClientTyped
<1> QED
  BY <1>2, <1>5, <1>6, <1>8, <1>9, ConnectorMoves

(* make_socket and watched_fd_create for the next address *)
LEMMA OpenNextKeeps ==
    ASSUME SlotsInv, ThreadInv, ClientInv, UNCHANGED bvars,
           UNCHANGED <<target, event, alive, via, doing>>, OpenNext
    PROVE  SlotsInv' /\ ThreadInv' /\ ClientInv'
<1> DEFINE w == NFds - connector.left + 1
           n == connector.left - 1
<1>1. /\ at["connector"] = "start" /\ at["connector"] \in ConnectorBusy
      /\ connector.left > 0 /\ connector.fd = NoFd
      /\ UNCHANGED <<ready, status, ops, fd, mutex, wait, queued>>
  BY DEF OpenNext, At, ConnectorBusy
<1>2. /\ Connecting /\ connector \in ConnectorType /\ mutex = "connector"
      /\ connector.left \in 1..NFds /\ w \in Fd
  BY <1>1, NFdsAssumption DEF ClientInv, ClientTyped, Control, ConnectorType, Fd
<1>3. call = NoCall /\ ~Closing
  BY <1>1, NoCallHere
<1>4. connector.up = 0 /\ ~connector.connected
  BY <1>1 DEF ClientInv, Attempt
<1>b. n \in 0..connector.left /\ n \in 0..NFds
  BY <1>2, NFdsAssumption
<1> HIDE DEF n
<1>5. CASE /\ connector' = [connector EXCEPT !.left = @ - 1, !.err = TRUE]
           /\ UNCHANGED <<call, at>>
  <2>1. connector' = [connector EXCEPT !.left = n, !.err = TRUE]
    BY <1>5 DEF n
  <2>a. /\ connector' \in ConnectorType /\ connector'.exists = connector.exists
        /\ connector'.fd = connector.fd /\ connector'.left = n
        /\ connector'.up = connector.up /\ connector'.connected = connector.connected
    BY <1>2, <1>b, <2>1 DEF ConnectorType
  <2>2. at' = [at EXCEPT !["connector"] = "start"]
    BY <1>1, <1>5 DEF ClientInv, ClientTyped
  <2>3. Goes("start")
    <3>1. /\ queued' \in [Tasklets -> BOOLEAN] /\ mutex' = "connector"
          /\ wait' \in [Tasklets -> {"none", "reading", "writing", "connecting"}]
      BY <1>1, <1>2 DEF ClientInv, ClientTyped
    <3>2. /\ connector'.left \in 0..connector.left /\ connector'.up = 0
          /\ ~connector'.connected
      BY <1>4, <1>b, <2>a
    <3>3. call' = call
      BY <1>5
    <3> QED
      BY <1>1, <1>3, <2>a, <2>2, <3>1, <3>2, <3>3 DEF Goes
  <2> QED
    BY <1>2, <2>3, ConnectorGoes
<1>6. CASE /\ connector' = [connector EXCEPT !.left = @ - 1, !.err = FALSE, !.fd = w]
           /\ Call("create", w, "connector")
           /\ Goto("connector", "opened")
  <2>1. /\ call' = [op |-> "create", w |-> w, arg |-> "connector"]
        /\ at' = [at EXCEPT !["connector"] = "opened"]
    BY <1>6 DEF Call, Goto
  <2> HIDE DEF w
  <2>a. connector' = [connector EXCEPT !.left = n, !.err = FALSE, !.fd = w]
    BY <1>6 DEF n
  <2>b. /\ connector' \in ConnectorType /\ connector'.exists = connector.exists
        /\ connector'.fd = w /\ connector'.left = n
        /\ connector'.up = connector.up /\ connector'.connected = connector.connected
    BY <1>2, <1>b, <2>a DEF ConnectorType
  <2>2. /\ connector' \in ConnectorType /\ connector'.exists = connector.exists
        /\ connector'.fd = w /\ connector'.left = connector.left - 1
        /\ connector'.up = 0 /\ ~connector'.connected
    BY <1>4, <2>b DEF n
  <2>3. w # NoFd /\ w > NFds - connector.left
    BY <1>2, NFdsAssumption DEF w, Fd, NoFd
  <2>4. st[w] = "none" /\ ready[w] = {} /\ status[w] \in {"none", "closed"}
    BY <1>1, <1>2, <2>3 DEF ClientInv, Descriptors, Owned
  <2>5. Unarmed(w) /\ AwaitsOnlyOut(w)
    BY <1>2, <2>4, FreshWatch
  <2>6. at'["connector"] = "opened" /\ at'["owner"] = at["owner"]
    BY <2>1 DEF ClientInv, ClientTyped, Tasklets
  <2>7. ClientCalls'
    BY <2>1, <2>2, <2>6 DEF ClientCalls, Made
  <2>8. Connecting' /\ Owned' = w /\ call'.op = "create"
    BY <1>2, <2>1, <2>2 DEF Connecting, Owned
  <2>9. Descriptors'
    <3>1. \A d \in Fd : d > NFds - connector'.left =>
              d # connector'.fd /\ st[d] = "none" /\ ready[d] = {}
      <4> SUFFICES ASSUME NEW d \in Fd, d > NFds - connector'.left
                   PROVE  d # connector'.fd /\ st[d] = "none" /\ ready[d] = {}
        OBVIOUS
      <4>1. d > NFds - connector.left /\ d # w
        BY <1>2, <2>2, NFdsAssumption DEF w, Fd
      <4> QED
        BY <1>2, <2>2, <4>1 DEF ClientInv, Descriptors
    <3>2. \A d \in Fd : d # w => st[d] # "open" /\ status[d] \in {"none", "closed"}
      BY <1>1, <1>2 DEF ClientInv, Descriptors, Owned, Fd, NoFd
    <3>3. st' = st /\ ready' = ready /\ status' = status
      BY <1>1 DEF bvars
    <3> QED
      BY <2>2, <2>3, <2>4, <2>8, <3>1, <3>2, <3>3 DEF ClientInv, Descriptors
  <2>10. Moves("opened")
    BY <1>1, <1>2, <2>1, <2>2, <2>3, <2>5, <2>8 DEF Moves, ClientInv, ClientTyped, ThreadInv
  <2> QED
    BY <1>2, <2>7, <2>8, <2>9, <2>10, ConnectorMoves
<1> QED
  BY <1>5, <1>6 DEF OpenNext

(* The system's answer changes the descriptor of the attempt alone.        *)
LEMMA OwnedChanges ==
    ASSUME Descriptors, connector \in ConnectorType, Connecting, Connecting',
           connector.fd # NoFd, connector'.fd = connector.fd, connector'.left = connector.left,
           st' = st, target' = target,
           status' \in [Fd -> {"none", "connecting", "up", "failed", "closed"}],
           \A d \in Fd : d # connector.fd => status'[d] = status[d] /\ ready'[d] = ready[d],
           ready'[connector.fd] = {} \/ "OUT" \in ready'[connector.fd],
           status'[connector.fd] = "up" => "OUT" \in ready'[connector.fd],
           call.op \notin {"create", "handler"}, call'.op \notin {"create", "handler"},
           ~(Closing /\ call = NoCall), ~(Closing /\ call = NoCall)'
    PROVE  Descriptors'
<1>1. Owned = connector.fd /\ Owned' = connector.fd
  BY DEF Owned
<1>2. \A d \in Fd : d > NFds - connector'.left =>
          d # connector'.fd /\ st'[d] = "none" /\ ready'[d] = {}
  BY DEF Descriptors
<1>3. \A d \in Fd : d # Owned => st'[d] # "open" /\ status'[d] \in {"none", "closed"}
  BY <1>1 DEF Descriptors
<1> QED
  BY <1>1, <1>2, <1>3 DEF Descriptors

(* connect(2) for the descriptor just opened                               *)
LEMMA ConnectKeeps ==
    ASSUME SlotsInv, ThreadInv, ClientInv, UNCHANGED bvars,
           UNCHANGED <<target, event, alive, via, doing>>, Connect
    PROVE  SlotsInv' /\ ThreadInv' /\ ClientInv'
<1> DEFINE w == connector.fd
<1>1. /\ at["connector"] = "opened" /\ at["connector"] \in ConnectorBusy /\ call = NoCall
      /\ UNCHANGED <<ops, fd, wait>>
  BY DEF Connect, At, Returned, ConnectorBusy
<1>2. /\ Connecting /\ connector \in ConnectorType /\ mutex = "connector"
      /\ w \in Fd /\ w # NoFd
  BY <1>1 DEF ClientInv, ClientTyped, Control, ConnectorType
<1>3. ~Closing
  BY <1>1, ConnectorHere DEF Closing, OwnerBusy
<1>4. connector.up = 0 /\ ~connector.connected /\ Unarmed(w) /\ AwaitsOnlyOut(w)
  BY <1>1, <1>2 DEF ClientInv, Attempt
<1>5. /\ ready \in [Fd -> SUBSET Events] /\ at \in [Tasklets -> Places]
      /\ status \in [Fd -> {"none", "connecting", "up", "failed", "closed"}]
      /\ wait \in [Tasklets -> {"none", "reading", "writing", "connecting"}]
      /\ queued \in [Tasklets -> BOOLEAN] /\ st' = st /\ call.op = "none"
      /\ ready[w] = {} \/ "OUT" \in ready[w]
  BY <1>1, <1>2 DEF ThreadInv, ClientInv, ClientTyped, Descriptors, bvars, NoCall
<1>6. CASE /\ status' = [status EXCEPT ![w] = "up"]
           /\ ready' = [ready EXCEPT ![w] = {"OUT"}]
           /\ queued' = [t \in Tasklets |-> queued[t] \/ wait[t] = "connecting"
                                           \/ ~connector.shared]
           /\ Started([connector EXCEPT !.up = @ + 1])
           /\ UNCHANGED call
  <2> DEFINE c == [connector EXCEPT !.up = @ + 1]
  <2>1. c \in ConnectorType /\ c.fd = connector.fd /\ c.up = 1 /\ c.connected = connector.connected
        /\ c.left = connector.left /\ c.exists = connector.exists /\ Started(c)
    BY <1>2, <1>4, <1>6 DEF ConnectorType
  <2> HIDE DEF c
  <2>2. /\ connector' \in ConnectorType
        /\ connector'.fd = connector.fd /\ ~connector'.connected /\ connector'.left = connector.left
        /\ connector'.up = 1 /\ connector'.exists = connector.exists
    BY <1>4, <2>1, StartedGoes
  <2>3. PICK l \in {"idle", "down"} : /\ at' = [at EXCEPT !["connector"] = l]
                                      /\ mutex' = IF l = "idle" THEN "free" ELSE mutex
    BY <2>1, StartedGoes
  <2>4. at'["connector"] = l /\ at'["owner"] = at["owner"]
    BY <1>5, <2>3 DEF Tasklets
  <2>5. ~Closing' /\ call'.op = "none" /\ call' = NoCall /\ Connecting'
    BY <1>1, <1>2, <1>3, <1>5, <1>6, <2>2, <2>4 DEF Closing, Connecting
  <2>6. ClientCalls'
    BY <2>5 DEF ClientCalls
  <2>7. /\ status' \in [Fd -> {"none", "connecting", "up", "failed", "closed"}]
        /\ ready' \in [Fd -> SUBSET Events] /\ ready'[w] = {"OUT"}
        /\ \A d \in Fd : d # w => status'[d] = status[d] /\ ready'[d] = ready[d]
    BY <1>2, <1>5, <1>6 DEF Events
  <2>8. Descriptors'
    BY <1>2, <1>3, <1>5, <2>2, <2>5, <2>7, OwnedChanges DEF ClientInv
  <2>9. /\ queued' \in [Tasklets -> BOOLEAN] /\ mutex' = IF l = "idle" THEN "free" ELSE "connector"
        /\ wait' = wait
    BY <1>1, <1>2, <1>5, <1>6, <2>3 DEF ConnectorType
  <2>10. AwaitsOnlyOut(connector'.fd) /\ Unarmed(connector'.fd) /\ connector'.fd # NoFd
    BY <1>2, <1>4, <2>2
  <2> HIDE DEF w
  <2>11. /\ UNCHANGED <<ops, fd>> /\ ready' \in [Fd -> SUBSET Events]
         /\ wait' \in [Tasklets -> {"none", "reading", "writing", "connecting"}]
    BY <1>1, <1>5, <2>7
  <2>12. Moves(l)
    BY <1>1, <2>2, <2>3, <2>5, <2>9, <2>10, <2>11 DEF Moves
  <2> QED
    BY <1>2, <2>5, <2>6, <2>8, <2>12, ConnectorMoves
<1>7. CASE /\ connector' = [connector EXCEPT !.err = TRUE]
           /\ Goto("connector", "start")
           /\ UNCHANGED <<ready, call, status, mutex, queued>>
  <2>1. /\ connector' \in ConnectorType /\ connector'.exists = connector.exists
        /\ connector'.fd = connector.fd /\ connector'.left = connector.left
        /\ connector'.up = 0 /\ ~connector'.connected
    BY <1>2, <1>4, <1>7 DEF ConnectorType
  <2>2. at' = [at EXCEPT !["connector"] = "start"] /\ UNCHANGED <<ready, call, status, mutex, queued>>
    BY <1>7 DEF Goto
  <2>3. connector'.left \in 0..connector.left
    BY <1>2, <2>1 DEF ConnectorType
  <2>4. Goes("start")
    BY <1>1, <1>2, <1>3, <1>4, <1>5, <2>1, <2>2, <2>3 DEF Goes
  <2> QED
    BY <1>2, <2>4, ConnectorGoes
<1>8. CASE /\ status' = [status EXCEPT ![w] = "connecting"]
           /\ Call("interest", w, {"OUT"})
           /\ Goto("connector", "armed")
           /\ UNCHANGED <<ready, mutex, connector, queued>>
  <2>1. /\ call' = [op |-> "interest", w |-> w, arg |-> {"OUT"}]
        /\ at' = [at EXCEPT !["connector"] = "armed"]
    BY <1>8 DEF Call, Goto
  <2>2. at'["connector"] = "armed" /\ at'["owner"] = at["owner"] /\ call'.op = "interest"
    BY <1>5, <2>1 DEF Tasklets
  <2>3. ~(Closing /\ call = NoCall)'
    BY <1>3, <2>2 DEF Closing
  <2>4. ClientCalls'
    BY <1>8, <2>1, <2>2 DEF ClientCalls, Made
  <2>5. /\ status' \in [Fd -> {"none", "connecting", "up", "failed", "closed"}]
        /\ status'[w] = "connecting" /\ \A d \in Fd : d # w => status'[d] = status[d]
    BY <1>2, <1>5, <1>8
  <2>6. Connecting' /\ connector' = connector /\ ready' = ready
    BY <1>2, <1>8 DEF Connecting
  <2>7. Descriptors'
    BY <1>2, <1>3, <1>5, <2>2, <2>3, <2>5, <2>6, OwnedChanges DEF ClientInv
  <2>8. Moves("armed")
    BY <1>1, <1>2, <1>4, <1>5, <1>8, <2>1, <2>2, <2>6 DEF Moves
  <2> QED
    BY <1>2, <2>4, <2>6, <2>7, <2>8, ConnectorMoves
<1> QED
  BY <1>6, <1>7, <1>8 DEF Connect

(* The answer was an error, or none yet                                    *)
LEMMA NotConnectedKeeps ==
    ASSUME SlotsInv, ThreadInv, ClientInv, UNCHANGED bvars,
           UNCHANGED <<target, event, alive, via, doing>>, NotConnected
    PROVE  SlotsInv' /\ ThreadInv' /\ ClientInv'
<1> DEFINE w == connector.fd
<1>1. /\ at["connector"] = "check" /\ at["connector"] \in ConnectorBusy /\ ~connector.connected
      /\ UNCHANGED <<ready, status, ops, fd, mutex, wait, queued>>
  BY DEF NotConnected, At, ConnectorBusy
<1>2. /\ Connecting /\ connector \in ConnectorType /\ mutex = "connector"
      /\ w \in Fd /\ w # NoFd
  BY <1>1 DEF ClientInv, ClientTyped, Control, ConnectorType
<1>3. ~Closing /\ call = NoCall
  BY <1>1, NoCallHere
<1>4. connector.up = 0 /\ Unarmed(w) /\ AwaitsOnlyOut(w)
  BY <1>1, <1>2 DEF ClientInv, Attempt
<1>5. /\ ready \in [Fd -> SUBSET Events] /\ at \in [Tasklets -> Places]
      /\ wait \in [Tasklets -> {"none", "reading", "writing", "connecting"}]
      /\ queued \in [Tasklets -> BOOLEAN] /\ st' = st /\ call.op = "none"
  BY <1>1, <1>3 DEF ThreadInv, ClientInv, ClientTyped, bvars, NoCall
<1>6. CASE /\ connector' = [connector EXCEPT !.err = TRUE]
           /\ Goto("connector", "start")
           /\ UNCHANGED call
  <2>1. /\ connector' \in ConnectorType /\ connector'.exists = connector.exists
        /\ connector'.fd = connector.fd /\ connector'.left = connector.left
        /\ connector'.up = connector.up /\ connector'.connected = connector.connected
    BY <1>2, <1>6 DEF ConnectorType
  <2>2. at' = [at EXCEPT !["connector"] = "start"] /\ call' = call
    BY <1>6 DEF Goto
  <2>3. connector'.left \in 0..connector.left
    BY <1>2, <2>1 DEF ConnectorType
  <2>4. Goes("start")
    BY <1>1, <1>2, <1>3, <1>4, <1>5, <2>1, <2>2, <2>3 DEF Goes
  <2> QED
    BY <1>2, <2>4, ConnectorGoes
<1>7. CASE /\ Call("interest", w, {"OUT"})
           /\ Goto("connector", "rearm")
           /\ UNCHANGED connector
  <2>1. /\ call' = [op |-> "interest", w |-> w, arg |-> {"OUT"}]
        /\ at' = [at EXCEPT !["connector"] = "rearm"]
    BY <1>7 DEF Call, Goto
  <2>2. at'["connector"] = "rearm" /\ at'["owner"] = at["owner"] /\ call'.op = "interest"
    BY <1>5, <2>1 DEF Tasklets
  <2>3. ~(Closing /\ call = NoCall)'
    BY <1>3, <2>2 DEF Closing
  <2>4. ClientCalls'
    BY <1>7, <2>1, <2>2 DEF ClientCalls, Made
  <2>5. Connecting' /\ connector' = connector /\ (Connecting' <=> Connecting)
    BY <1>2, <1>7 DEF Connecting
  <2>6. connector.left \in 0..connector.left
    BY <1>2 DEF ConnectorType
  <2>7. Descriptors'
    BY <1>1, <1>2, <1>3, <1>5, <2>2, <2>3, <2>5, <2>6, DescriptorsSame DEF ClientInv
  <2>8. Moves("rearm")
    BY <1>1, <1>2, <1>4, <1>5, <2>1, <2>2, <2>5 DEF Moves
  <2> QED
    BY <1>2, <2>4, <2>5, <2>7, <2>8, ConnectorMoves
<1> QED
  BY <1>6, <1>7 DEF NotConnected

(* The connector hands its descriptor over and is freed: nothing of the    *)
(* descriptor will be reported until its owner sets an interest.           *)
LEMMA AdoptKeeps ==
    ASSUME SlotsInv, ThreadInv, ClientInv, UNCHANGED bvars,
           UNCHANGED <<target, event, alive, via, doing>>, Adopt
    PROVE  SlotsInv' /\ ThreadInv' /\ ClientInv'
<1> DEFINE w == connector.fd
<1>1. /\ at["connector"] = "check" /\ at["connector"] \in ConnectorBusy
      /\ UNCHANGED <<ready, status, ops, mutex>>
      /\ connector' = NoConnector /\ fd' = w
      /\ wait' = [wait EXCEPT !["connector"] = "none"]
      /\ queued' = [queued EXCEPT !["connector"] = FALSE]
      /\ call' = [op |-> "handler", w |-> w, arg |-> "socket"]
      /\ at' = [at EXCEPT !["connector"] = "adopt"]
  BY DEF Adopt, At, ConnectorBusy, NoMoreConnector, Call, Goto
<1>2. /\ Connecting /\ connector \in ConnectorType /\ mutex = "connector"
      /\ w \in Fd /\ w # NoFd /\ Owned = w /\ ops = "client" /\ via = "client" /\ alive
      /\ at["owner"] \notin OwnerBusy
  BY <1>1, ConnectorHere DEF ClientInv, ClientTyped, Control, ConnectorType, Owned
<1>3. ~Closing /\ call = NoCall /\ call.op = "none"
  BY <1>1, NoCallHere DEF NoCall
<1>4. Unarmed(w)
  BY <1>1, <1>2 DEF ClientInv, Attempt
<1> HIDE DEF w
<1>5. SlotsInv' /\ ThreadInv'
  BY <1>1, BackEndSame DEF ThreadInv
<1>6. /\ at'["connector"] = "adopt" /\ at'["owner"] = at["owner"] /\ at' \in [Tasklets -> Places]
      /\ call'.op = "handler"
  BY <1>1 DEF ClientInv, ClientTyped, Tasklets, Places, ConnectorBusy
<1>7. /\ connector' \in ConnectorType /\ connector'.fd = NoFd /\ connector'.up = 0
      /\ ~connector'.connected /\ ~Connecting' /\ Owned' = w
  BY <1>1, NFdsAssumption DEF NoConnector, ConnectorType, Connecting, Owned
<1>8. ClientTyped'
  BY <1>1, <1>2, <1>6, <1>7 DEF ClientInv, ClientTyped
<1>9. Control'
  BY <1>1, <1>2, <1>6, <1>7 DEF ClientInv, Control, ConnectorBusy, OwnerBusy
<1>10. ClientCalls'
  BY <1>1, <1>6 DEF ClientCalls, Made
<1>11. Descriptors'
  <2>1. ~Closing'
    BY <1>2, <1>6 DEF Closing, OwnerBusy
  <2>2. st[w] = "open" /\ target[w] = "connector" /\ st' = st /\ status' = status
    BY <1>1, <1>2, <1>3 DEF ClientInv, Descriptors, bvars
  <2>3. \A d \in Fd : d # w => st[d] # "open" /\ status[d] \in {"none", "closed"}
    BY <1>2 DEF ClientInv, Descriptors
  <2> QED
    BY <1>6, <1>7, <2>1, <2>2, <2>3 DEF Descriptors, ClientInv
<1>12. Attempt'
  <2>1. event'.to = "connector" => interest'[event'.w] = {} /\ "OUT" \in event'.events
    BY DEF ClientInv, Attempt, bvars
  <2>2. Unarmed(fd)'
    BY <1>1, <1>4 DEF Unarmed, bvars
  <2>3. at'["connector"] \notin {"start", "closing", "opened", "check"}
    BY <1>6
  <2> QED
    BY <1>6, <1>7, <2>1, <2>2, <2>3 DEF Attempt
<1>13. OwnerCovered'
  BY <1>1, <1>2 DEF OwnerCovered, Waits
<1> QED
  BY <1>5, <1>8, <1>9, <1>10, <1>11, <1>12, <1>13 DEF ClientInv

(* The simple socket takes over and wakes everybody.                       *)
LEMMA AdoptedKeeps ==
    ASSUME SlotsInv, ThreadInv, ClientInv, UNCHANGED bvars,
           UNCHANGED <<target, event, alive, via, doing>>, Adopted
    PROVE  SlotsInv' /\ ThreadInv' /\ ClientInv'
<1>1. /\ at["connector"] = "adopt" /\ at["connector"] \in ConnectorBusy
      /\ UNCHANGED <<ready, call, status, fd, connector, wait>> /\ call = NoCall
      /\ ops' = "simple" /\ mutex' = "free"
      /\ queued' = [t \in Tasklets |-> queued[t] \/ wait[t] \in {"reading", "writing"}]
      /\ at' = [at EXCEPT !["connector"] = "gone"]
  BY DEF Adopted, At, ConnectorBusy, WakeAll, Run, Goto, Returned
<1>2. /\ ~Connecting /\ mutex = "connector" /\ fd # NoFd /\ alive
      /\ at["owner"] \notin OwnerBusy
  BY <1>1, ConnectorHere DEF ClientInv, Control
<1>3. ~Closing /\ call.op = "none"
  BY <1>1, <1>2 DEF NoCall, Closing, OwnerBusy
<1>4. SlotsInv' /\ ThreadInv'
  BY <1>1, BackEndSame DEF ThreadInv
<1>5. /\ at'["connector"] = "gone" /\ at'["owner"] = at["owner"] /\ at' \in [Tasklets -> Places]
      /\ ~Connecting' /\ Owned' = Owned
  BY <1>1, <1>2 DEF ClientInv, ClientTyped, Tasklets, Places, Connecting, Owned
<1>6. ClientTyped'
  BY <1>1, <1>5 DEF ClientInv, ClientTyped
<1>7. Control'
  BY <1>1, <1>2, <1>5 DEF ClientInv, Control, ConnectorBusy, OwnerBusy
<1>8. ClientCalls'
  BY <1>1 DEF ClientCalls
<1>9. Descriptors'
  <2>1. ~Closing'
    BY <1>2, <1>5 DEF Closing, OwnerBusy
  <2> QED
    BY <1>1, <1>2, <1>3, <1>5, <2>1 DEF Descriptors, ClientInv, bvars
<1>10. Attempt'
  <2>1. event'.to = "connector" => interest'[event'.w] = {} /\ "OUT" \in event'.events
    BY DEF ClientInv, Attempt, bvars
  <2>2. connector = NoConnector
    BY <1>2 DEF ClientInv, Control
  <2> QED
    BY <1>1, <1>3, <1>5, <2>1, <2>2 DEF Attempt, NoConnector
<1>11. OwnerCovered'
  <2> SUFFICES ASSUME NEW op \in {"read", "write"} PROVE ~Waits(op)'
    BY DEF OwnerCovered
  <2>1. at'["owner"] # "armed"
    BY <1>2, <1>5 DEF OwnerBusy
  <2>2. queued'["owner"] = (queued["owner"] \/ wait["owner"] \in {"reading", "writing"})
    BY <1>1 DEF Tasklets
  <2>3. ListOf[op] \in {"reading", "writing"}
    BY DEF ListOf
  <2> QED
    BY <1>1, <2>1, <2>2, <2>3 DEF Waits
<1> QED
  BY <1>4, <1>6, <1>7, <1>8, <1>9, <1>10, <1>11 DEF ClientInv

(* All steps of the connector.                                             *)
LEMMA ConnectorKeeps ==
    ASSUME SlotsInv, ThreadInv, ClientInv, UNCHANGED bvars, ConnectorStep
    PROVE  SlotsInv' /\ ThreadInv' /\ ClientInv'
BY ConnectorRunsKeeps, GiveUpKeeps, CloseOldKeeps, ClosedOldKeeps, OpenNextKeeps, ConnectKeeps,
   ConnectArmedKeeps, DownKeeps, AdoptKeeps, AdoptedKeeps, NotConnectedKeeps, RearmedKeeps
   DEF ConnectorStep

-----------------------------------------------------------------------------
(* The owner *)

(* The owner goes from one place to another: what it leaves alone, and     *)
(* what it knows there.                                                    *)
OwnerMoves(l) ==
    /\ UNCHANGED <<ops, fd, alive, connector>>
    /\ ready' \in [Fd -> SUBSET Events]
    /\ at["owner"] # "gone" /\ l \in Places
    /\ at' = [at EXCEPT !["owner"] = l]
    /\ l \in OwnerBusy => mutex # "connector"
    /\ mutex' = IF l \in OwnerBusy THEN "owner"
                ELSE IF mutex = "connector" THEN "connector" ELSE "free"
    /\ wait' \in [Tasklets -> {"none", "reading", "writing", "connecting"}]
    /\ queued' \in [Tasklets -> BOOLEAN]
    /\ via' \in {"client", "simple"} /\ doing' \in Operations
    /\ Connecting => via' = "client"
    /\ l \in {"again", "arm", "armed"} =>
          doing' \in {"read", "write"} /\ fd # NoFd /\ ~Connecting
    /\ l \in {"arm", "armed"} => wait'["owner"] = ListOf[doing']
    /\ l \in {"fini", "shut"} => ~Connecting
    /\ l = "drop" => Connecting
    /\ \/ call'.op = call.op
       \/ call'.op \in {"none", "destroy"}
       \/ call'.op = "interest" /\ ~Connecting

(* What follows when the owner moves on without a step of the back end.    *)
LEMMA OwnerMovesKeeps ==
    ASSUME SlotsInv, ThreadInv, ClientInv, UNCHANGED bvars, UNCHANGED <<target, event>>,
           NEW l, OwnerMoves(l), ClientCalls', Descriptors', OwnerCovered'
    PROVE  SlotsInv' /\ ThreadInv' /\ ClientInv'
<1>1. /\ SlotsInv' /\ ThreadInv' /\ \A w : Unarmed(w) => Unarmed(w)'
      /\ \A w : AwaitsOnlyOut(w) => AwaitsOnlyOut(w)'
  BY BackEndSame DEF OwnerMoves
<1>2. /\ at'["owner"] = l /\ at'["connector"] = at["connector"] /\ at' \in [Tasklets -> Places]
      /\ (Connecting' <=> Connecting) /\ connector' = connector /\ fd' = fd
  BY DEF OwnerMoves, ClientInv, ClientTyped, Tasklets, Connecting
<1>3. ClientTyped'
  BY <1>2 DEF OwnerMoves, ClientInv, ClientTyped, Tasklets
<1>4. Control'
  <2>1. mutex' = "connector" <=> at'["connector"] \in ConnectorBusy
    BY <1>2 DEF OwnerMoves, ClientInv, Control
  <2>2. mutex' = "owner" <=> at'["owner"] \in OwnerBusy
    BY <1>2 DEF OwnerMoves
  <2>3. alive /\ alive' = alive /\ ops' = ops
    BY DEF OwnerMoves, ClientInv, ClientTyped, Control
  <2>4. /\ Connecting <=> at["connector"] \notin {"adopt", "gone", "aborted"}
        /\ Connecting => fd = NoFd /\ ops = "client"
        /\ ~Connecting => connector = NoConnector
        /\ ops = "simple" => at["connector"] \in {"gone", "aborted"}
        /\ at["connector"] = "adopt" => fd # NoFd
        /\ at["connector"] \in {"closing", "opened", "armed", "check", "rearm"}
              => connector.fd # NoFd
    BY DEF ClientInv, Control
  <2>5. /\ Connecting => via' = "client"
        /\ l \in {"again", "arm", "armed"} =>
              doing' \in {"read", "write"} /\ fd # NoFd /\ ~Connecting
        /\ l \in {"arm", "armed"} => wait'["owner"] = ListOf[doing']
        /\ l \in {"fini", "shut"} => ~Connecting
        /\ l = "drop" => Connecting
    BY DEF OwnerMoves
  <2> QED
    BY <1>2, <2>1, <2>2, <2>3, <2>4, <2>5 DEF Control
<1>5. Attempt'
  <2>1. event'.to = "connector" => interest'[event'.w] = {} /\ "OUT" \in event'.events
    BY DEF ClientInv, Attempt, bvars
  <2>2. \/ call'.op = call.op
        \/ call'.op \in {"none", "destroy"}
        \/ call'.op = "interest" /\ ~Connecting
    BY DEF OwnerMoves
  <2>3. call'.op = "handler" => Unarmed(fd)'
    BY <1>1, <1>2, <2>2 DEF ClientInv, Attempt
  <2>4. connector.fd # NoFd => (Unarmed(connector.fd) => Unarmed(connector.fd)')
                               /\ (AwaitsOnlyOut(connector.fd) => AwaitsOnlyOut(connector.fd)')
    BY <1>1, <1>2
  <2> QED
    BY <1>2, <2>1, <2>2, <2>3, <2>4 DEF ClientInv, Attempt
<1> QED
  BY <1>1, <1>3, <1>4, <1>5 DEF ClientInv

(* The same without a call or a change of the descriptors                  *)
OwnerGoes(l) ==
    /\ UNCHANGED <<ops, fd, alive, connector, call, status>>
    /\ ready' \in [Fd -> SUBSET Events] /\ (Connecting => ready' = ready)
    /\ at["owner"] \notin {"gone", "drop", "shut"} /\ l \in Places \ {"drop", "shut"}
    /\ at["owner"] = "armed" => call = NoCall
    /\ at' = [at EXCEPT !["owner"] = l]
    /\ l \in OwnerBusy => mutex # "connector"
    /\ mutex' = IF l \in OwnerBusy THEN "owner"
                ELSE IF mutex = "connector" THEN "connector" ELSE "free"
    /\ wait' \in [Tasklets -> {"none", "reading", "writing", "connecting"}]
    /\ queued' \in [Tasklets -> BOOLEAN]
    /\ via' \in {"client", "simple"} /\ doing' \in Operations
    /\ Connecting => via' = "client"
    /\ l \in {"again", "arm"} =>
          doing' \in {"read", "write"} /\ fd # NoFd /\ ~Connecting
    /\ l = "arm" => wait'["owner"] = ListOf[doing']
    /\ l \notin {"armed", "fini"}

(* Such a step keeps the invariant too.                                    *)
LEMMA OwnerGoesKeeps ==
    ASSUME SlotsInv, ThreadInv, ClientInv, UNCHANGED bvars, UNCHANGED <<target, event>>,
           NEW l, OwnerGoes(l), l = "idle" => OwnerCovered'
    PROVE  SlotsInv' /\ ThreadInv' /\ ClientInv'
<1>1. /\ UNCHANGED <<ops, fd, alive, connector, call, status>>
      /\ ready' \in [Fd -> SUBSET Events] /\ (Connecting => ready' = ready)
      /\ at["owner"] \notin {"gone", "drop", "shut"}
      /\ at["owner"] = "armed" => call = NoCall
      /\ at' = [at EXCEPT !["owner"] = l]
      /\ l \in Places /\ l \notin {"armed", "fini", "drop", "shut"}
  BY DEF OwnerGoes
<1>2. /\ at'["owner"] = l /\ at'["connector"] = at["connector"]
      /\ (Connecting' <=> Connecting) /\ Owned' = Owned /\ st' = st
  BY <1>1 DEF ClientInv, ClientTyped, Tasklets, Connecting, Owned, bvars
<1>3. ClientCalls'
  BY <1>1, <1>2 DEF ClientInv, ClientCalls, Made
<1>4. Closing' <=> Closing
  BY <1>1, <1>2 DEF Closing
<1>5. Descriptors'
  <2>1. status' = status /\ target' = target /\ call' = call /\ connector' = connector
    BY <1>1
  <2> QED
    BY <1>1, <1>2, <1>4, <2>1 DEF ClientInv, Descriptors
<1>6. OwnerCovered'
  BY <1>1, <1>2 DEF OwnerCovered, Waits
<1>7. OwnerMoves(l)
  BY <1>1 DEF OwnerMoves, OwnerGoes
<1> QED
  BY <1>3, <1>5, <1>6, <1>7, OwnerMovesKeeps

(* Where the owner takes the mutex, or has it, no call is pending.         *)
LEMMA OwnerHere ==
    ClientInv =>
        /\ mutex = "free" /\ at["owner"] = "lock" => call = NoCall /\ ~Closing
        /\ at["owner"] \in {"again", "arm", "fini"} => call = NoCall /\ ~Closing
        /\ mutex = "free" \/ at["owner"] \in OwnerBusy => at["connector"] \notin ConnectorBusy
        /\ at["owner"] \in OwnerBusy <=> mutex = "owner"
        /\ fd # NoFd => ~Connecting
<1> SUFFICES ASSUME ClientInv
    PROVE  /\ mutex = "free" /\ at["owner"] = "lock" => call = NoCall /\ ~Closing
           /\ at["owner"] \in {"again", "arm", "fini"} => call = NoCall /\ ~Closing
           /\ mutex = "free" \/ at["owner"] \in OwnerBusy => at["connector"] \notin ConnectorBusy
           /\ at["owner"] \in OwnerBusy <=> mutex = "owner"
           /\ fd # NoFd => ~Connecting
  OBVIOUS
<1>1. /\ at["owner"] \in OwnerBusy <=> mutex = "owner"
      /\ mutex = "free" \/ at["owner"] \in OwnerBusy => at["connector"] \notin ConnectorBusy
      /\ fd # NoFd => ~Connecting
  BY DEF ClientInv, Control
<1>2. ASSUME at["connector"] \notin ConnectorBusy, at["owner"] \notin {"armed", "drop", "shut"}
      PROVE  call = NoCall /\ ~Closing
  BY <1>2 DEF ClientInv, ClientCalls, ConnectorBusy, Closing
<1> QED
  BY <1>1, <1>2 DEF OwnerBusy

(* The types that the owner's steps need                                   *)
LEMMA OwnerTypes ==
    SlotsInv /\ ThreadInv /\ ClientInv =>
        /\ ready \in [Fd -> SUBSET Events] /\ at \in [Tasklets -> Places]
        /\ wait \in [Tasklets -> {"none", "reading", "writing", "connecting"}]
        /\ queued \in [Tasklets -> BOOLEAN]
        /\ via \in {"client", "simple"} /\ doing \in Operations
        /\ mutex \in {"free"} \cup Tasklets /\ fd \in Fd \cup {NoFd}
        /\ Connecting => via = "client" /\ ops = "client" /\ fd = NoFd
        /\ ops \in {"client", "simple"}
BY DEF ThreadInv, ClientInv, ClientTyped, Control

(* The owner's tasklet is run, and makes its call.                         *)
LEMMA OwnerRunsKeeps ==
    ASSUME SlotsInv, ThreadInv, ClientInv, UNCHANGED bvars, UNCHANGED <<target, event>>,
           OwnerRuns
    PROVE  SlotsInv' /\ ThreadInv' /\ ClientInv'
<1>1. /\ at["owner"] = "idle" /\ at' = [at EXCEPT !["owner"] = "call"]
      /\ queued' = [queued EXCEPT !["owner"] = FALSE]
      /\ UNCHANGED <<ready, call, status, ops, fd, alive, mutex, connector, wait, via, doing>>
  BY DEF OwnerRuns, At, Goto
<1>2. mutex # "owner"
  BY <1>1, OwnerHere DEF OwnerBusy
<1>3. queued' \in [Tasklets -> BOOLEAN]
  BY <1>1, OwnerTypes
<1>4. "call" \in Places /\ "call" \notin OwnerBusy /\ mutex \in {"free", "connector"}
  BY <1>2, OwnerTypes DEF Places, OwnerBusy, Tasklets
<1>5. OwnerGoes("call")
  BY <1>1, <1>3, <1>4, OwnerTypes DEF OwnerGoes
<1> QED
  BY <1>5, OwnerGoesKeeps

(* The owner calls an operation through the vtable it reads.               *)
LEMMA OwnerCallsKeeps ==
    ASSUME SlotsInv, ThreadInv, ClientInv, UNCHANGED bvars, UNCHANGED <<target, event>>,
           OwnerCalls
    PROVE  SlotsInv' /\ ThreadInv' /\ ClientInv'
<1>1. /\ at["owner"] \in {"call", "failed", "closed"} /\ at' = [at EXCEPT !["owner"] = "enter"]
      /\ doing' \in Operations /\ via' = ops
      /\ UNCHANGED <<ready, call, status, ops, fd, alive, mutex, connector, wait, queued>>
  BY DEF OwnerCalls, At, Goto
<1>2. mutex # "owner"
  BY <1>1, OwnerHere DEF OwnerBusy
<1>3. "enter" \in Places /\ "enter" \notin OwnerBusy /\ mutex \in {"free", "connector"}
  BY <1>2, OwnerTypes DEF Places, OwnerBusy, Tasklets
<1>4. OwnerGoes("enter")
  BY <1>1, <1>3, OwnerTypes DEF OwnerGoes
<1> QED
  BY <1>4, OwnerGoesKeeps

(* A call through the old vtable finds the new one and aborts the program. *)
LEMMA EnterKeeps ==
    ASSUME SlotsInv, ThreadInv, ClientInv, UNCHANGED bvars, UNCHANGED <<target, event>>,
           Enter
    PROVE  SlotsInv' /\ ThreadInv' /\ ClientInv'
<1>1. /\ at["owner"] = "enter"
      /\ UNCHANGED <<ready, call, status, ops, fd, alive, mutex, connector, wait, queued, via, doing>>
  BY DEF Enter, At
<1>2. mutex # "owner"
  BY <1>1, OwnerHere DEF OwnerBusy
<1>3. CASE at' = [at EXCEPT !["owner"] = "lock"]
  <2>1. "lock" \in Places /\ "lock" \notin OwnerBusy /\ mutex \in {"free", "connector"}
    BY <1>2, OwnerTypes DEF Places, OwnerBusy, Tasklets
  <2>2. OwnerGoes("lock")
    BY <1>1, <1>3, <2>1, OwnerTypes DEF OwnerGoes
  <2> QED
    BY <2>2, OwnerGoesKeeps
<1>4. CASE ops = "simple" /\ at' = [t \in Tasklets |-> "aborted"]
  <2>1. /\ at["connector"] \in {"gone", "aborted"} /\ ~Connecting /\ connector = NoConnector /\ alive
    BY <1>1, <1>4 DEF ClientInv, Control
  <2>2. call = NoCall /\ ~Closing /\ at["connector"] \notin ConnectorBusy
    BY <1>1, <2>1 DEF ClientInv, ClientCalls, Closing, ConnectorBusy
  <2>3. /\ at' \in [Tasklets -> Places] /\ at'["connector"] = "aborted" /\ at'["owner"] = "aborted"
    BY <1>4 DEF Tasklets, Places
  <2>4. SlotsInv' /\ ThreadInv'
    BY <1>1, BackEndSame, OwnerTypes
  <2>5. /\ call' = NoCall /\ call.op = "none" /\ call'.op = "none" /\ ~Closing' /\ ~Connecting'
        /\ Owned' = Owned /\ connector' = NoConnector
    BY <1>1, <2>1, <2>2, <2>3 DEF NoCall, Closing, Connecting, Owned
  <2>6. ClientTyped'
    BY <1>1, <2>3 DEF ClientInv, ClientTyped
  <2>7. Control'
    <3>1. mutex # "connector"
      BY <2>2 DEF ClientInv, Control
    <3> QED
      BY <1>1, <1>2, <1>4, <2>1, <2>3, <2>5, <3>1 DEF ClientInv, Control, ConnectorBusy, OwnerBusy
  <2>8. Descriptors'
    BY <1>1, <2>1, <2>2, <2>5 DEF ClientInv, Descriptors, bvars
  <2>9. Attempt'
    <3>1. event'.to = "connector" => interest'[event'.w] = {} /\ "OUT" \in event'.events
      BY DEF ClientInv, Attempt, bvars
    <3> QED
      BY <2>3, <2>5, <3>1 DEF Attempt, NoConnector
  <2>10. ClientCalls' /\ OwnerCovered'
    BY <2>3, <2>5 DEF ClientCalls, OwnerCovered, Waits
  <2> QED
    BY <2>4, <2>6, <2>7, <2>8, <2>9, <2>10 DEF ClientInv
<1> QED
  BY <1>3, <1>4 DEF Enter, Goto

(* Before the socket is connected its owner waits for that.                *)
LEMMA WaitConnectedKeeps ==
    ASSUME SlotsInv, ThreadInv, ClientInv, UNCHANGED bvars, UNCHANGED <<target, event>>,
           WaitConnected
    PROVE  SlotsInv' /\ ThreadInv' /\ ClientInv'
<1>1. /\ at["owner"] = "lock" /\ mutex = "free" /\ Connecting /\ fd = NoFd
      /\ doing \in {"read", "write"}
      /\ UNCHANGED <<ready, call, status, ops, fd, alive, mutex, connector, queued, via, doing>>
  BY OwnerTypes DEF WaitConnected, Locks, At
<1>2. PICK l \in {"idle", "failed"} : at' = [at EXCEPT !["owner"] = l]
  BY DEF WaitConnected, Goto
<1>3. wait' \in [Tasklets -> {"none", "reading", "writing", "connecting"}]
  <2>1. CASE wait' = wait
    BY <2>1, OwnerTypes
  <2>2. CASE wait' = [wait EXCEPT !["owner"] = ListOf[doing]]
    <3>1. ListOf[doing] \in {"reading", "writing"}
      BY <1>1 DEF ListOf
    <3> QED
      BY <2>2, <3>1, OwnerTypes
  <2> QED
    BY <2>1, <2>2 DEF WaitConnected
<1>4. OwnerCovered'
  BY <1>1 DEF OwnerCovered, Waits
<1>5. l \in Places /\ l \notin OwnerBusy
  BY DEF Places, OwnerBusy
<1>6. OwnerGoes(l)
  BY <1>1, <1>2, <1>3, <1>5, OwnerTypes DEF OwnerGoes
<1> QED
  BY <1>4, <1>6, OwnerGoesKeeps

(* The client socket hands the operation to the simple socket.             *)
LEMMA DelegateKeeps ==
    ASSUME SlotsInv, ThreadInv, ClientInv, UNCHANGED bvars, UNCHANGED <<target, event>>,
           Delegate
    PROVE  SlotsInv' /\ ThreadInv' /\ ClientInv'
<1>1. /\ at["owner"] = "lock" /\ mutex = "free" /\ ~Connecting /\ via' = "simple"
      /\ UNCHANGED <<ready, call, status, ops, fd, alive, mutex, connector, wait, queued, at, doing>>
  BY DEF Delegate, Locks, At
<1>2. "lock" \in Places /\ "lock" \notin OwnerBusy /\ at' = [at EXCEPT !["owner"] = "lock"]
  BY <1>1, OwnerTypes DEF Places, OwnerBusy
<1>3. OwnerGoes("lock")
  BY <1>1, <1>2, OwnerTypes DEF OwnerGoes
<1> QED
  BY <1>3, OwnerGoesKeeps

(* A read or a write *)
LEMMA TransferKeeps ==
    ASSUME SlotsInv, ThreadInv, ClientInv, UNCHANGED bvars, UNCHANGED <<target, event>>,
           Transfer
    PROVE  SlotsInv' /\ ThreadInv' /\ ClientInv'
<1>1. /\ at["owner"] = "lock" /\ mutex = "free" /\ ~Connecting /\ doing \in {"read", "write"}
      /\ UNCHANGED <<call, status, ops, fd, alive, connector, wait, queued, via, doing>>
  BY OwnerTypes DEF Transfer, Locks, At
<1>2. CASE /\ at' = [at EXCEPT !["owner"] = "failed"] /\ UNCHANGED <<ready, mutex>>
  <2>1. "failed" \in Places /\ "failed" \notin OwnerBusy
    BY DEF Places, OwnerBusy
  <2>2. OwnerGoes("failed")
    BY <1>1, <1>2, <2>1, OwnerTypes DEF OwnerGoes
  <2> QED
    BY <2>2, OwnerGoesKeeps
<1>3. CASE /\ fd # NoFd
           /\ \E rest \in {{}, {EventOf[doing]}} :
                  ready' = [ready EXCEPT ![fd] = (@ \ {EventOf[doing]}) \cup rest]
           /\ at' = [at EXCEPT !["owner"] = "call"] /\ mutex' = mutex
  <2>1. ready' \in [Fd -> SUBSET Events]
    <3>1. EventOf[doing] \in Events
      BY <1>1 DEF EventOf, Events
    <3>2. PICK rest \in {{}, {EventOf[doing]}} :
                  ready' = [ready EXCEPT ![fd] = (@ \ {EventOf[doing]}) \cup rest]
      BY <1>3
    <3>3. (ready[fd] \ {EventOf[doing]}) \cup rest \in SUBSET Events
      BY <1>3, <3>1, OwnerTypes DEF Fd, NoFd
    <3> QED
      BY <3>2, <3>3, OwnerTypes
  <2>2. "call" \in Places /\ "call" \notin OwnerBusy
    BY DEF Places, OwnerBusy
  <2>3. OwnerGoes("call")
    BY <1>1, <1>3, <2>1, <2>2, OwnerTypes DEF OwnerGoes
  <2> QED
    BY <2>3, OwnerGoesKeeps
<1>4. CASE fd # NoFd /\ mutex' = "owner" /\ at' = [at EXCEPT !["owner"] = "again"] /\ ready' = ready
  <2>1. "again" \in Places /\ "again" \in OwnerBusy
    BY DEF Places, OwnerBusy
  <2>2. OwnerGoes("again")
    BY <1>1, <1>4, <2>1, OwnerTypes DEF OwnerGoes
  <2> QED
    BY <2>2, OwnerGoesKeeps
<1> QED
  BY <1>2, <1>3, <1>4 DEF Transfer, Goto

(* It would block: the owner goes on the list before it sets its interest. *)
LEMMA WaitReadyKeeps ==
    ASSUME SlotsInv, ThreadInv, ClientInv, UNCHANGED bvars, UNCHANGED <<target, event>>,
           WaitReady
    PROVE  SlotsInv' /\ ThreadInv' /\ ClientInv'
<1>1. /\ at["owner"] = "again" /\ at' = [at EXCEPT !["owner"] = "arm"]
      /\ wait' = [wait EXCEPT !["owner"] = ListOf[doing]]
      /\ UNCHANGED <<ready, call, status, ops, fd, alive, mutex, connector, queued, via, doing>>
  BY DEF WaitReady, At, Goto
<1>2. mutex = "owner" /\ doing \in {"read", "write"} /\ fd # NoFd /\ ~Connecting
  BY <1>1 DEF ClientInv, Control, OwnerBusy
<1>3. ListOf[doing] \in {"reading", "writing"} /\ "arm" \in Places /\ "arm" \in OwnerBusy
  BY <1>2 DEF ListOf, Places, OwnerBusy
<1>4. /\ wait' \in [Tasklets -> {"none", "reading", "writing", "connecting"}]
      /\ wait'["owner"] = ListOf[doing]
  BY <1>1, <1>3, OwnerTypes DEF Tasklets
<1>5. OwnerGoes("arm")
  BY <1>1, <1>2, <1>3, <1>4, OwnerTypes DEF OwnerGoes
<1> QED
  BY <1>5, OwnerGoesKeeps

(* The interest is set: what it waits for is covered.                      *)
LEMMA WaitingKeeps ==
    ASSUME SlotsInv, ThreadInv, ClientInv, UNCHANGED bvars, UNCHANGED <<target, event>>,
           Waiting
    PROVE  SlotsInv' /\ ThreadInv' /\ ClientInv'
<1>1. /\ at["owner"] = "armed" /\ call = NoCall /\ mutex' = "free"
      /\ at' = [at EXCEPT !["owner"] = "idle"]
      /\ UNCHANGED <<ready, call, status, ops, fd, alive, connector, wait, queued, via, doing>>
  BY DEF Waiting, At, Goto, Returned
<1>2. /\ mutex = "owner" /\ doing \in {"read", "write"} /\ fd # NoFd /\ ~Connecting
      /\ wait["owner"] = ListOf[doing]
  BY <1>1 DEF ClientInv, Control, OwnerBusy
<1>3. OwnerCovered'
  <2> SUFFICES ASSUME NEW op \in {"read", "write"}, Waits(op)'
               PROVE  Covered(fd, EventOf[op], op = "write")'
    BY DEF OwnerCovered
  <2>1. op = doing /\ ~queued["owner"]
    <3>1. at'["owner"] = "idle"
      BY <1>1, OwnerTypes DEF Tasklets
    <3>2. wait["owner"] = ListOf[op] /\ ~queued["owner"]
      BY <1>1, <3>1 DEF Waits
    <3> QED
      BY <1>2, <3>2 DEF ListOf
  <2>2. Waits(op)
    BY <1>1, <1>2, <2>1 DEF Waits
  <2>3. Covered(fd, EventOf[op], op = "write")
    BY <2>2 DEF ClientInv, OwnerCovered
  <2> QED
    BY <1>1, <2>3 DEF Covered, bvars
<1>4. "idle" \in Places /\ "idle" \notin OwnerBusy
  BY DEF Places, OwnerBusy
<1>5. OwnerGoes("idle")
  BY <1>1, <1>2, <1>4, OwnerTypes DEF OwnerGoes
<1> QED
  BY <1>3, <1>5, OwnerGoesKeeps

(* simple_socket_partial_close.                                            *)
LEMMA ShutdownKeeps ==
    ASSUME SlotsInv, ThreadInv, ClientInv, UNCHANGED bvars, UNCHANGED <<target, event>>,
           Shutdown
    PROVE  SlotsInv' /\ ThreadInv' /\ ClientInv'
<1>1. /\ at["owner"] = "lock" /\ mutex = "free"
      /\ UNCHANGED <<call, status, ops, fd, alive, mutex, connector, wait, queued, via, doing>>
  BY DEF Shutdown, Locks, At
<1>2. CASE fd = NoFd /\ at' = [at EXCEPT !["owner"] = "failed"] /\ ready' = ready
  <2>1. "failed" \in Places /\ "failed" \notin OwnerBusy
    BY DEF Places, OwnerBusy
  <2>2. OwnerGoes("failed")
    BY <1>1, <1>2, <2>1, OwnerTypes DEF OwnerGoes
  <2> QED
    BY <2>2, OwnerGoesKeeps
<1>3. CASE /\ fd # NoFd /\ \E e \in {{}, {"IN"}} : ready' = [ready EXCEPT ![fd] = @ \cup e]
           /\ at' = [at EXCEPT !["owner"] = "call"]
  <2>1. ready' \in [Fd -> SUBSET Events]
    <3>1. PICK e \in {{}, {"IN"}} : ready' = [ready EXCEPT ![fd] = @ \cup e]
      BY <1>3
    <3>2. ready[fd] \cup e \in SUBSET Events
      BY <1>3, OwnerTypes DEF Fd, NoFd, Events
    <3> QED
      BY <3>1, <3>2, OwnerTypes
  <2>2. "call" \in Places /\ "call" \notin OwnerBusy /\ ~Connecting
    BY <1>3, OwnerHere DEF Places, OwnerBusy
  <2>3. OwnerGoes("call")
    BY <1>1, <1>3, <2>1, <2>2, OwnerTypes DEF OwnerGoes
  <2> QED
    BY <2>3, OwnerGoesKeeps
<1> QED
  BY <1>2, <1>3 DEF Shutdown, Goto

(* The application runs the owner for a reason of its own.                 *)
LEMMA NudgeKeeps ==
    ASSUME SlotsInv, ThreadInv, ClientInv, UNCHANGED bvars, UNCHANGED <<target, event>>,
           Nudge
    PROVE  SlotsInv' /\ ThreadInv' /\ ClientInv'
<1>1. /\ at["owner"] = "idle" /\ queued' = [queued EXCEPT !["owner"] = TRUE]
      /\ UNCHANGED <<ready, call, status, ops, fd, alive, mutex, connector, wait, at, via, doing>>
  BY DEF Nudge, At
<1>2. mutex # "owner"
  BY <1>1, OwnerHere DEF OwnerBusy
<1>3. queued' \in [Tasklets -> BOOLEAN] /\ queued'["owner"]
  BY <1>1, OwnerTypes DEF Tasklets
<1>4. /\ "idle" \in Places /\ "idle" \notin OwnerBusy /\ mutex \in {"free", "connector"}
      /\ at' = [at EXCEPT !["owner"] = "idle"]
  BY <1>1, <1>2, OwnerTypes DEF Places, OwnerBusy, Tasklets
<1>5. OwnerCovered'
  BY <1>3 DEF OwnerCovered, Waits
<1>6. OwnerGoes("idle")
  BY <1>1, <1>3, <1>4, OwnerTypes DEF OwnerGoes
<1> QED
  BY <1>5, <1>6, OwnerGoesKeeps

(* watched_fd_set_interest for what the owner waits for                    *)
LEMMA ArmKeeps ==
    ASSUME SlotsInv, ThreadInv, ClientInv, UNCHANGED bvars, UNCHANGED <<target, event>>,
           Arm
    PROVE  SlotsInv' /\ ThreadInv' /\ ClientInv'
<1>1. /\ at["owner"] = "arm" /\ at' = [at EXCEPT !["owner"] = "armed"]
      /\ call' = [op |-> "interest", w |-> fd, arg |-> {EventOf[doing]}]
      /\ UNCHANGED <<ready, status, ops, fd, alive, mutex, connector, wait, queued, via, doing>>
  BY DEF Arm, At, Goto, Call
<1>2. /\ mutex = "owner" /\ doing \in {"read", "write"} /\ fd # NoFd /\ ~Connecting
      /\ wait["owner"] = ListOf[doing] /\ alive /\ connector \in ConnectorType
  BY <1>1 DEF ClientInv, ClientTyped, Control, OwnerBusy
<1>3. call = NoCall /\ ~Closing /\ call.op = "none" /\ at["connector"] \notin ConnectorBusy
  BY <1>1, OwnerHere DEF NoCall, OwnerBusy
<1>4. /\ at'["owner"] = "armed" /\ at'["connector"] = at["connector"] /\ call'.op = "interest"
      /\ call' # NoCall
  BY <1>1, OwnerTypes DEF Tasklets, NoCall
<1>5. ClientCalls'
  BY <1>1, <1>4 DEF ClientCalls, Made
<1>6. Descriptors'
  <2>1. ~(Closing /\ call = NoCall)' /\ connector.left \in 0..connector.left
        /\ (Connecting' <=> Connecting) /\ st' = st
    BY <1>1, <1>2, <1>4 DEF Connecting, ConnectorType, bvars
  <2> QED
    BY <1>1, <1>2, <1>3, <1>4, <2>1, DescriptorsSame DEF ClientInv
<1>7. OwnerCovered'
  BY <1>4 DEF OwnerCovered, Waits
<1>8. "armed" \in Places /\ "armed" \in OwnerBusy
  BY DEF Places, OwnerBusy
<1>9. OwnerMoves("armed")
  BY <1>1, <1>2, <1>4, <1>8, OwnerTypes DEF OwnerMoves
<1> QED
  BY <1>5, <1>6, <1>7, <1>9, OwnerMovesKeeps

(* What gives a descriptor up: the watched_fd is destroyed first.          *)
LEMMA GivesUp ==
    ASSUME SlotsInv, ThreadInv, ClientInv, UNCHANGED bvars, UNCHANGED <<target, event>>,
           UNCHANGED <<ready, status, ops, fd, alive, connector, wait, queued, via, doing>>,
           call = NoCall, ~Closing, at["owner"] \in Places \ {"gone"}, mutex # "connector",
           NEW l \in {"drop", "shut"}, l = "drop" <=> Connecting,
           at' = [at EXCEPT !["owner"] = l], mutex' = "owner", DestroyFd(Owned)
    PROVE  SlotsInv' /\ ThreadInv' /\ ClientInv'
<1>1. /\ at'["owner"] = l /\ at'["connector"] = at["connector"] /\ (Connecting' <=> Connecting)
      /\ Owned' = Owned /\ st' = st /\ call.op = "none"
  BY OwnerTypes DEF Tasklets, Connecting, Owned, bvars, NoCall
<1>2. CASE Owned = NoFd
  <2>1. call' = NoCall /\ call'.op = "none"
    BY <1>2 DEF DestroyFd, NoCall
  <2>2. ClientCalls'
    BY <2>1 DEF ClientCalls
  <2>3. Descriptors'
    BY <1>1, <1>2 DEF ClientInv, Descriptors
  <2>4. OwnerCovered' /\ l \in Places /\ l \in OwnerBusy
    BY <1>1 DEF OwnerCovered, Waits, Places, OwnerBusy
  <2>5. OwnerMoves(l)
    BY <2>1, <2>4, OwnerTypes DEF OwnerMoves
  <2> QED
    BY <2>2, <2>3, <2>4, <2>5, OwnerMovesKeeps
<1>3. CASE Owned # NoFd
  <2>1. /\ call' = [op |-> "destroy", w |-> Owned, arg |-> {}] /\ call'.op = "destroy"
        /\ call' # NoCall
    BY <1>3 DEF DestroyFd, Call, NoCall
  <2>2. ClientCalls'
    BY <1>1, <1>3, <2>1 DEF ClientCalls, Made, Owned
  <2>3. Descriptors'
    BY <1>1, <2>1 DEF ClientInv, Descriptors
  <2>4. OwnerCovered' /\ l \in Places /\ l \in OwnerBusy
    BY <1>1 DEF OwnerCovered, Waits, Places, OwnerBusy
  <2>5. OwnerMoves(l)
    BY <2>1, <2>4, OwnerTypes DEF OwnerMoves
  <2> QED
    BY <2>2, <2>3, <2>4, <2>5, OwnerMovesKeeps
<1> QED
  BY <1>2, <1>3

(* connector_destroy: the socket is closed while it connects.              *)
LEMMA DropKeeps ==
    ASSUME SlotsInv, ThreadInv, ClientInv, UNCHANGED bvars, UNCHANGED <<target, event>>,
           Drop
    PROVE  SlotsInv' /\ ThreadInv' /\ ClientInv'
<1>1. /\ at["owner"] = "lock" /\ mutex = "free" /\ Connecting /\ DestroyFd(Owned)
      /\ mutex' = "owner" /\ at' = [at EXCEPT !["owner"] = "drop"]
      /\ UNCHANGED <<ready, status, ops, fd, alive, connector, wait, queued, via, doing>>
  BY DEF Drop, Locks, At, Goto, Owned
<1>2. call = NoCall /\ ~Closing /\ at["owner"] \in Places \ {"gone"}
  BY <1>1, OwnerHere DEF Places
<1> QED
  BY <1>1, <1>2, GivesUp

(* simple_socket_close_locked.                                             *)
LEMMA CloseLockedKeeps ==
    ASSUME SlotsInv, ThreadInv, ClientInv, UNCHANGED bvars, UNCHANGED <<target, event>>,
           CloseLocked
    PROVE  SlotsInv' /\ ThreadInv' /\ ClientInv'
<1>1. /\ mutex' = "owner" /\ at' = [at EXCEPT !["owner"] = "shut"] /\ DestroyFd(fd)
      /\ UNCHANGED <<ready, status, ops, fd, alive, connector, wait, queued, via, doing>>
  BY DEF CloseLocked, Goto
<1>2. /\ \/ at["owner"] = "lock" /\ mutex = "free"
         \/ at["owner"] = "fini"
      /\ ~Connecting
  <2>1. at["owner"] = "fini" => ~Connecting
    BY DEF ClientInv, Control
  <2> QED
    BY <2>1, OwnerTypes DEF CloseLocked, Locks, At
<1>3. call = NoCall /\ ~Closing /\ at["owner"] \in Places \ {"gone"} /\ mutex # "connector"
  BY <1>2, OwnerHere DEF Places, OwnerBusy
<1>4. DestroyFd(Owned)
  BY <1>1, <1>2 DEF Owned
<1> QED
  BY <1>1, <1>2, <1>3, <1>4, GivesUp

(* Of a socket without a connector, and without a call, nothing is         *)
(* reported to a connector.                                                *)
LEMMA AttemptOver ==
    ASSUME Attempt, UNCHANGED bvars, event' = event, connector' = NoConnector, call' = NoCall
    PROVE  Attempt'
<1>1. event'.to = "connector" => interest'[event'.w] = {} /\ "OUT" \in event'.events
  BY DEF Attempt, bvars
<1>2. /\ connector'.up = 0 /\ ~connector'.connected /\ ~connector'.exists /\ connector'.fd = NoFd
      /\ call'.op = "none"
  BY DEF NoConnector, NoCall
<1> QED
  BY <1>1, <1>2 DEF Attempt, Connecting

(* What close(2) leaves of the descriptors, when the socket has none then  *)
LEMMA NoneOwned ==
    ASSUME ThreadInv, ClientInv, UNCHANGED bvars, Closing, call = NoCall, CloseFd(Owned),
           ~Connecting', fd' = NoFd
    PROVE  Descriptors' /\ ready' \in [Fd -> SUBSET Events]
<1>1. /\ ready \in [Fd -> SUBSET Events]
      /\ status \in [Fd -> {"none", "connecting", "up", "failed", "closed"}]
      /\ Owned \in Fd \cup {NoFd} /\ st' = st
  BY DEF ThreadInv, ClientInv, ClientTyped, ConnectorType, Descriptors, Owned, bvars
<1>2. \A w \in Fd : st[w] # "open" /\ (w # Owned => status[w] \in {"none", "closed"})
  <2>1. Owned # NoFd => st[Owned] # "open"
    BY DEF ClientInv, Descriptors
  <2> QED
    BY <2>1 DEF ClientInv, Descriptors, Fd, NoFd
<1>3. /\ ready' \in [Fd -> SUBSET Events]
      /\ status' \in [Fd -> {"none", "connecting", "up", "failed", "closed"}]
      /\ \A w \in Fd : status'[w] \in {"none", "closed"}
  <2>1. CASE Owned = NoFd
    BY <1>1, <1>2, <2>1 DEF CloseFd, Fd, NoFd
  <2>2. CASE Owned # NoFd
    BY <1>1, <1>2, <2>2 DEF CloseFd, Close
  <2> QED
    BY <2>1, <2>2
<1>4. Owned' = NoFd
  BY DEF Owned
<1> QED
  BY <1>1, <1>2, <1>3, <1>4 DEF Descriptors

(* The connector is destroyed by the owner.                                *)
LEMMA DroppedKeeps ==
    ASSUME SlotsInv, ThreadInv, ClientInv, UNCHANGED bvars, UNCHANGED <<target, event>>,
           Dropped
    PROVE  SlotsInv' /\ ThreadInv' /\ ClientInv'
<1> DEFINE l == IF doing = "close" THEN "closed" ELSE "fini"
<1>1. /\ at["owner"] = "drop" /\ call = NoCall /\ CloseFd(connector.fd)
      /\ connector' = NoConnector
      /\ wait' = [wait EXCEPT !["connector"] = "none"]
      /\ queued' = [queued EXCEPT !["connector"] = FALSE]
      /\ at' = [connector |-> "gone", owner |-> l]
      /\ mutex' = IF doing = "close" THEN "free" ELSE "owner"
      /\ UNCHANGED <<call, ops, fd, alive, via, doing>>
  BY DEF Dropped, At, Returned, NoMoreConnector
<1>2. /\ Connecting /\ fd = NoFd /\ ops = "client" /\ alive /\ Closing /\ Owned = connector.fd
  BY <1>1 DEF ClientInv, Control, Closing, Owned
<1>3. ~Connecting' /\ fd' = NoFd /\ CloseFd(Owned) /\ connector' \in ConnectorType
  BY <1>1, <1>2, NFdsAssumption DEF Connecting, NoConnector, ConnectorType
<1>4. Descriptors' /\ ready' \in [Fd -> SUBSET Events]
  BY <1>1, <1>2, <1>3, NoneOwned
<1>5. SlotsInv' /\ ThreadInv'
  BY <1>4, BackEndSame
<1>6. Attempt'
  BY <1>1, AttemptOver DEF ClientInv
<1>7. /\ at'["connector"] = "gone" /\ at'["owner"] = l /\ l \in {"closed", "fini"}
      /\ l = "fini" <=> doing # "close"
  BY <1>1
<1>8. at' \in [Tasklets -> Places]
  BY <1>1, <1>7 DEF Tasklets, Places, OwnerBusy
<1>9. ClientTyped'
  BY <1>1, <1>3, <1>8 DEF ClientInv, ClientTyped, Tasklets
<1> HIDE DEF l
<1>10. Control'
  BY <1>1, <1>2, <1>3, <1>7 DEF Control, ConnectorBusy, OwnerBusy
<1>11. ClientCalls' /\ OwnerCovered'
  BY <1>1, <1>7 DEF ClientCalls, OwnerCovered, Waits
<1> QED
  BY <1>4, <1>5, <1>6, <1>9, <1>10, <1>11 DEF ClientInv

(* The socket is closed, or destroyed.                                     *)
LEMMA ClosedKeeps ==
    ASSUME SlotsInv, ThreadInv, ClientInv, UNCHANGED bvars, UNCHANGED <<target, event>>,
           Closed
    PROVE  SlotsInv' /\ ThreadInv' /\ ClientInv'
<1>1. /\ at["owner"] = "shut" /\ call = NoCall /\ CloseFd(fd) /\ fd' = NoFd
      /\ mutex' = "free" /\ UNCHANGED <<call, ops, connector, via, doing>>
  BY DEF Closed, At, Returned
<1>2. /\ ~Connecting /\ connector = NoConnector /\ alive /\ Closing /\ Owned = fd
      /\ at["connector"] \notin ConnectorBusy
  BY <1>1, OwnerHere DEF ClientInv, Control, Closing, Owned, OwnerBusy
<1>3. ~Connecting' /\ CloseFd(Owned)
  BY <1>1, <1>2 DEF Connecting
<1>4. Descriptors' /\ ready' \in [Fd -> SUBSET Events]
  BY <1>1, <1>2, <1>3, NoneOwned
<1>5. SlotsInv' /\ ThreadInv'
  BY <1>4, BackEndSame
<1>6. Attempt'
  BY <1>1, <1>2, AttemptOver DEF ClientInv
<1>7. PICK l \in {"closed", "gone"} :
         /\ at' = [at EXCEPT !["owner"] = l]
         /\ alive' \in BOOLEAN /\ (~alive' => l = "gone")
  BY <1>2 DEF Closed, Goto
<1>8. /\ wait' \in [Tasklets -> {"none", "reading", "writing", "connecting"}]
      /\ queued' \in [Tasklets -> BOOLEAN]
  BY OwnerTypes DEF Closed
<1>9. /\ at'["owner"] = l /\ at'["connector"] = at["connector"] /\ at' \in [Tasklets -> Places]
  BY <1>7, OwnerTypes DEF Tasklets, Places
<1>10. ClientTyped'
  BY <1>1, <1>7, <1>8, <1>9 DEF ClientInv, ClientTyped, NoFd, Tasklets
<1>11. Control'
  <2>1. at["connector"] # "adopt"
    BY <1>2 DEF ConnectorBusy
  <2> QED
    BY <1>1, <1>2, <1>3, <1>7, <1>9, <2>1 DEF ClientInv, Control, ConnectorBusy, OwnerBusy
<1>12. ClientCalls' /\ OwnerCovered'
  BY <1>1, <1>9 DEF ClientCalls, OwnerCovered, Waits
<1> QED
  BY <1>4, <1>5, <1>6, <1>10, <1>11, <1>12 DEF ClientInv

(* All steps of the owner.                                                 *)
LEMMA OwnerKeeps ==
    ASSUME SlotsInv, ThreadInv, ClientInv, UNCHANGED bvars, Owner
    PROVE  SlotsInv' /\ ThreadInv' /\ ClientInv'
BY OwnerRunsKeeps, OwnerCallsKeeps, EnterKeeps, WaitConnectedKeeps, DelegateKeeps,
   TransferKeeps, WaitReadyKeeps, ArmKeeps, WaitingKeeps, ShutdownKeeps, DropKeeps,
   DroppedKeeps, CloseLockedKeeps, ClosedKeeps, NudgeKeeps
   DEF Owner, OwnerStep

(* Every step of the client socket and of what it runs on                  *)
LEMMA ClientKeeps ==
    ASSUME SlotsInv, ThreadInv, ClientInv, UNCHANGED bvars,
           (\E w \in Fd : System(w)) \/ Handler \/ ConnectorStep \/ Owner
    PROVE  SlotsInv' /\ ThreadInv' /\ ClientInv'
BY ClientSystem, ClientHandled, ClientConnected, ConnectorKeeps, OwnerKeeps DEF Handler

-----------------------------------------------------------------------------
(* The server socket *)

(* The call for the descriptor before the loop variable is not answered.   *)
Pending(a) == call # NoCall /\ a = k - 1

ServerTyped ==
    /\ backlog \in [Fd -> Nat] /\ arrivals \in 0..MaxArrivals
    /\ \A w \in Fd : backlog[w] <= arrivals
    /\ listening \subseteq Fd /\ isReady \subseteq Fd
    /\ fds \in Seq(Fd) /\ ups \in Nat
    /\ onList \in BOOLEAN /\ toRun \in BOOLEAN
    /\ acc \in {"bind", "create", "idle", "scan", "accept", "arm", "stopped",
                "destroy", "closing", "gone"}

(* The descriptors are different, and the loops stay within them.          *)
Loops ==
    /\ k \in Nat \ {0}
    /\ \A a, b \in 1..Len(fds) : fds[a] = fds[b] => a = b
    /\ acc = "bind" => k <= NFds + 1 /\ \A a \in 1..Len(fds) : fds[a] < k
    /\ acc \in {"create", "arm", "scan", "destroy"} => k <= Len(fds) + 1
    /\ acc \in {"accept", "closing"} => k <= Len(fds)
    /\ acc \in {"idle", "stopped", "gone"} => k = 1

ServerCalls ==
    \/ call = NoCall
    \/ acc = "create" /\ k > 1 /\ Made("create", fds[k - 1], "listener")
    \/ acc = "arm" /\ k > 1 /\ Made("interest", fds[k - 1], {"IN"})
    \/ acc = "closing" /\ Made("destroy", fds[k], {})

(* Which of the descriptors are open, between the loop that creates their  *)
(* watched_fds and the one that destroys them                              *)
Listeners ==
    /\ \A w \in Fd : st[w] = "open" => IsOn(fds, w) /\ target[w] = "listener"
    /\ \A w \in listening : IsOn(fds, w)
    /\ acc = "bind" => \A w \in Fd : st[w] = "none"
    /\ acc = "create" => \A a \in 1..Len(fds) :
            st[fds[a]] = IF a < k /\ ~Pending(a) THEN "open" ELSE "none"
    /\ acc \in {"idle", "scan", "accept", "arm", "stopped"} =>
            \A a \in 1..Len(fds) : st[fds[a]] = "open"
    /\ acc \in {"destroy", "closing"} => \A a \in 1..Len(fds) :
            /\ st[fds[a]] = "open" <=> a > k \/ (a = k /\ (acc = "closing" => call # NoCall))
            /\ a < k => fds[a] \notin listening
    /\ acc = "gone" => fds = << >>

(* There is a token for the acceptor, or each descriptor it has set the    *)
(* interest of will give it one.                                           *)
AcceptorCovered ==
    /\ acc = "arm" => \/ ups > 0
                      \/ \A a \in 1..Len(fds) : a < k /\ ~Pending(a) => Covered(fds[a], "IN", TRUE)
    /\ acc = "idle" => \/ toRun
                       \/ onList /\ \A a \in 1..Len(fds) : Covered(fds[a], "IN", TRUE)

ServerInv == ServerTyped /\ Loops /\ ServerCalls /\ Listeners /\ AcceptorCovered

(* No call is pending but in the three loops that make one.                *)
LEMMA ServerIdle ==
    ServerCalls /\ acc \notin {"create", "arm", "closing"} => call = NoCall
BY DEF ServerCalls

(* The pending call is for one of the descriptors, and fits it.            *)
LEMMA ServerCallFits ==
    ASSUME ServerInv, call # NoCall
    PROVE  /\ CallFits /\ TargetFits
           /\ \/ /\ acc = "create" /\ call.op = "create" /\ call.arg = "listener"
                 /\ k - 1 \in 1..Len(fds) /\ call.w = fds[k - 1]
              \/ /\ acc = "arm" /\ call.op = "interest" /\ call.arg = {"IN"}
                 /\ k - 1 \in 1..Len(fds) /\ call.w = fds[k - 1]
              \/ /\ acc = "closing" /\ call.op = "destroy"
                 /\ k \in 1..Len(fds) /\ call.w = fds[k]
<1>1. CASE acc = "create" /\ k > 1 /\ Made("create", fds[k - 1], "listener")
  <2>1. k - 1 \in 1..Len(fds)
    BY <1>1 DEF ServerInv, Loops, ServerTyped
  <2>2. Pending(k - 1)
    BY DEF Pending
  <2>3. st[fds[k - 1]] = "none"
    BY <1>1, <2>1, <2>2 DEF ServerInv, Listeners
  <2> QED
    BY <1>1, <2>1, <2>3 DEF Made, CallFits, TargetFits
<1>2. CASE acc = "arm" /\ k > 1 /\ Made("interest", fds[k - 1], {"IN"})
  <2>1. k - 1 \in 1..Len(fds)
    BY <1>2 DEF ServerInv, Loops, ServerTyped
  <2>2. st[fds[k - 1]] = "open"
    BY <1>2, <2>1 DEF ServerInv, Listeners
  <2> QED
    BY <1>2, <2>1, <2>2 DEF Made, CallFits, TargetFits, Events
<1>3. CASE acc = "closing" /\ Made("destroy", fds[k], {})
  <2>1. k \in 1..Len(fds)
    BY <1>3 DEF ServerInv, Loops, ServerTyped
  <2>2. st[fds[k]] = "open"
    BY <1>3, <2>1 DEF ServerInv, Listeners
  <2> QED
    BY <1>3, <2>1, <2>2 DEF Made, CallFits, TargetFits
<1> QED
  BY <1>1, <1>2, <1>3 DEF ServerInv, ServerCalls

(* A step of the poll thread                                               *)
LEMMA ServerPoller ==
    SlotsInv /\ ThreadInv /\ ServerInv /\ (Poller \/ PollNothing) /\ UNCHANGED avars
        => SlotsInv' /\ ThreadInv' /\ ServerInv'
<1> SUFFICES ASSUME SlotsInv, ThreadInv, ServerInv, Poller \/ PollNothing, UNCHANGED avars
             PROVE  SlotsInv' /\ ThreadInv' /\ ServerInv'
  OBVIOUS
<1>1. SlotsInv' /\ ThreadInv' /\ \A w \in Fd : Followed(w)
  BY PollerFollows
<1>2. target' = target /\ call' = call
  BY DEF Poller, PollNothing, SyncNext, Prepared, PollReady, BeginDispatch, DispatchSlot,
         Handled, EndDispatch, ivars
<1>3. /\ backlog' = backlog /\ arrivals' = arrivals /\ listening' = listening /\ fds' = fds
      /\ isReady' = isReady /\ ups' = ups /\ onList' = onList /\ toRun' = toRun /\ acc' = acc
      /\ k' = k
  BY DEF avars
<1>4. \A w \in Fd : /\ st'[w] = "open" <=> st[w] = "open"
                    /\ st'[w] = "none" <=> st[w] = "none"
  BY <1>1 DEF Followed
<1>5. \A a \in 1..Len(fds) : fds[a] \in Fd
  BY DEF ServerInv, ServerTyped
<1>6. ServerTyped' /\ Loops' /\ ServerCalls'
  BY <1>2, <1>3 DEF ServerInv, ServerTyped, Loops, ServerCalls, Made
<1>7. Listeners'
  BY <1>2, <1>3, <1>4, <1>5 DEF ServerInv, Listeners, Pending, IsOn
<1>8. acc \in {"arm", "idle"} =>
         \A a \in 1..Len(fds) : Covered(fds[a], "IN", TRUE) => Covered(fds[a], "IN", TRUE)'
  <2> SUFFICES ASSUME acc \in {"arm", "idle"}, NEW a \in 1..Len(fds), Covered(fds[a], "IN", TRUE)
               PROVE  Covered(fds[a], "IN", TRUE)'
    OBVIOUS
  <2>1. st[fds[a]] = "open" /\ "IN" \in Events /\ fds'[a] = fds[a]
    BY <1>3 DEF ServerInv, Listeners, Events
  <2>2. Followed(fds[a])
    BY <1>1, <1>5
  <2> QED
    BY <1>3, <2>1, <2>2 DEF Followed
<1>9. AcceptorCovered'
  BY <1>2, <1>3, <1>8 DEF ServerInv, AcceptorCovered, Pending
<1> QED
  BY <1>1, <1>6, <1>7, <1>9 DEF ServerInv

(* An answer of the back end                                               *)
LEMMA ServerCall ==
    SlotsInv /\ ThreadInv /\ ServerInv /\ BackEndCall /\ UNCHANGED avars
        => SlotsInv' /\ ThreadInv' /\ ServerInv'
<1> SUFFICES ASSUME SlotsInv, ThreadInv, ServerInv, BackEndCall, UNCHANGED avars
             PROVE  SlotsInv' /\ ThreadInv' /\ ServerInv'
  OBVIOUS
<1>1. /\ call' = NoCall /\ call # NoCall
  BY DEF BackEndCall, Create, SetInterest, SetHandler, Destroy, NoCall
<1>2. /\ \/ /\ acc = "create" /\ call.op = "create" /\ call.arg = "listener"
            /\ k - 1 \in 1..Len(fds) /\ call.w = fds[k - 1]
         \/ /\ acc = "arm" /\ call.op = "interest" /\ call.arg = {"IN"}
            /\ k - 1 \in 1..Len(fds) /\ call.w = fds[k - 1]
         \/ /\ acc = "closing" /\ call.op = "destroy"
            /\ k \in 1..Len(fds) /\ call.w = fds[k]
  BY <1>1, ServerCallFits
<1>3. SlotsInv' /\ ThreadInv' /\ call.w \in Fd /\ \A d \in Fd : Answered(d)
  BY <1>1, ServerCallFits, CallFollows
<1>4. /\ backlog' = backlog /\ arrivals' = arrivals /\ listening' = listening /\ fds' = fds
      /\ isReady' = isReady /\ ups' = ups /\ onList' = onList /\ toRun' = toRun /\ acc' = acc
      /\ k' = k
  BY DEF avars
<1>5. \A a \in 1..Len(fds) : fds[a] \in Fd
  BY DEF ServerInv, ServerTyped
<1>6. ServerTyped' /\ Loops' /\ ServerCalls'
  BY <1>1, <1>4 DEF ServerInv, ServerTyped, Loops, ServerCalls
<1>7. /\ \A d \in Fd : d # call.w => st'[d] = st[d] /\ target'[d] = target[d]
      /\ call.op = "destroy" => st'[call.w] # "open"
      /\ call.op # "destroy" => st'[call.w] = "open"
      /\ call.op = "create" => target'[call.w] = call.arg
      /\ call.op = "interest" => target'[call.w] = target[call.w]
  BY <1>3 DEF Answered
<1>8. \A a, b \in 1..Len(fds) : fds[a] = fds[b] => a = b
  BY DEF ServerInv, Loops
<1>9. Listeners'
  <2>1. CASE acc = "create"
    <3>1. call.w = fds[k - 1] /\ k - 1 \in 1..Len(fds) /\ call.op = "create" /\ call.arg = "listener"
      BY <1>2, <2>1
    <3>2. \A a \in 1..Len(fds) : st'[fds[a]] = IF a < k THEN "open" ELSE "none"
      <4> SUFFICES ASSUME NEW a \in 1..Len(fds)
                   PROVE  st'[fds[a]] = IF a < k THEN "open" ELSE "none"
        OBVIOUS
      <4>1. CASE a = k - 1
        BY <1>7, <3>1, <4>1 DEF ServerInv, Loops
      <4>2. CASE a # k - 1
        <5>1. fds[a] # call.w /\ ~Pending(a)
          BY <1>8, <3>1, <4>2 DEF Pending
        <5> QED
          BY <1>5, <1>7, <2>1, <5>1 DEF ServerInv, Listeners
      <4> QED
        BY <4>1, <4>2
    <3>3. \A w \in Fd : st'[w] = "open" => IsOn(fds, w) /\ target'[w] = "listener"
      BY <1>7, <3>1 DEF ServerInv, Listeners, IsOn
    <3> QED
      BY <1>1, <1>4, <2>1, <3>2, <3>3 DEF ServerInv, Listeners, Pending, IsOn
  <2>2. CASE acc = "arm"
    <3>1. /\ call.w = fds[k - 1] /\ k - 1 \in 1..Len(fds) /\ call.op = "interest"
          /\ st[call.w] = "open"
      BY <1>2, <2>2 DEF ServerInv, Listeners
    <3>2. \A w \in Fd : st'[w] = "open" => st[w] = "open" /\ target'[w] = target[w]
      BY <1>7, <3>1
    <3>3. \A a \in 1..Len(fds) : st'[fds[a]] = "open"
      BY <1>5, <1>7, <2>2, <3>1 DEF ServerInv, Listeners
    <3> QED
      BY <1>4, <2>2, <3>2, <3>3 DEF ServerInv, Listeners, IsOn
  <2>3. CASE acc = "closing"
    <3>1. call.w = fds[k] /\ k \in 1..Len(fds) /\ call.op = "destroy"
      BY <1>2, <2>3
    <3>2. \A w \in Fd : st'[w] = "open" => st[w] = "open" /\ target'[w] = target[w]
      BY <1>7, <3>1
    <3>3. \A a \in 1..Len(fds) : st'[fds[a]] = "open" <=> a > k
      <4> SUFFICES ASSUME NEW a \in 1..Len(fds) PROVE st'[fds[a]] = "open" <=> a > k
        OBVIOUS
      <4>1. CASE a = k
        BY <1>7, <3>1, <4>1
      <4>2. CASE a # k
        <5>1. fds[a] # call.w
          BY <1>8, <3>1, <4>2
        <5> QED
          BY <1>5, <1>7, <2>3, <4>2, <5>1 DEF ServerInv, Listeners
      <4> QED
        BY <4>1, <4>2
    <3> QED
      BY <1>1, <1>4, <2>3, <3>2, <3>3 DEF ServerInv, Listeners, IsOn
  <2> QED
    BY <1>2, <2>1, <2>2, <2>3
<1>10. AcceptorCovered'
  <2>1. CASE acc = "arm" /\ ~(ups > 0)
    <3> SUFFICES ASSUME NEW a \in 1..Len(fds), a < k PROVE Covered(fds[a], "IN", TRUE)'
      BY <1>4, <2>1 DEF AcceptorCovered
    <3>1. /\ call.w = fds[k - 1] /\ call.op = "interest" /\ call.arg = {"IN"}
          /\ Answered(fds[a]) /\ "IN" \in Events /\ fds'[a] = fds[a]
      BY <1>2, <1>3, <1>4, <1>5, <2>1 DEF Events
    <3>2. CASE a = k - 1
      BY <1>4, <3>1, <3>2 DEF Answered
    <3>3. CASE a # k - 1
      <4>1. Covered(fds[a], "IN", TRUE)
        BY <2>1, <3>3 DEF ServerInv, AcceptorCovered, Pending
      <4> QED
        BY <1>4, <3>1, <4>1 DEF Answered
    <3> QED
      BY <3>2, <3>3
  <2>2. CASE acc # "arm" \/ ups > 0
    BY <1>2, <1>4, <2>2 DEF AcceptorCovered
  <2> QED
    BY <2>1, <2>2
<1> QED
  BY <1>3, <1>6, <1>9, <1>10 DEF ServerInv

(* The steps of the server socket leave the back end alone.                *)
LEMMA ServerKeeps ==
    ASSUME SlotsInv, ThreadInv, UNCHANGED bvars, UNCHANGED <<target, event>>,
           ready' \in [Fd -> SUBSET Events],
           ServerTyped', Loops', ServerCalls', Listeners', AcceptorCovered'
    PROVE  SlotsInv' /\ ThreadInv' /\ ServerInv'
BY BackEndSame DEF ServerInv

(* A peer connects, or gives up.                                           *)
LEMMA NetworkKeeps ==
    ASSUME SlotsInv, ThreadInv, ServerInv, UNCHANGED bvars, Network
    PROVE  SlotsInv' /\ ThreadInv' /\ ServerInv'
<1>1. UNCHANGED <<target, call, event, listening, fds, isReady, ups, onList, toRun, acc, k>>
  BY DEF Network
<1>2. /\ ready \in [Fd -> SUBSET Events] /\ backlog \in [Fd -> Nat] /\ arrivals \in 0..MaxArrivals
      /\ \A w \in Fd : backlog[w] <= arrivals
  BY DEF ThreadInv, ServerInv, ServerTyped
<1>3. PICK w \in Fd : Arrive(w) \/ Withdraw(w)
  BY DEF Network
<1>4. /\ ready' \in [Fd -> SUBSET Events] /\ backlog' \in [Fd -> Nat]
      /\ arrivals' \in 0..MaxArrivals /\ \A d \in Fd : backlog'[d] <= arrivals'
  <2>1. CASE Arrive(w)
    <3>1. ready' \in [Fd -> SUBSET Events]
      BY <1>2, <2>1 DEF Arrive, Events
    <3>2. arrivals' = arrivals + 1 /\ arrivals' \in 0..MaxArrivals
      BY <1>2, <2>1, MaxArrivalsAssumption DEF Arrive
    <3>3. backlog[w] + 1 \in Nat /\ backlog' = [backlog EXCEPT ![w] = backlog[w] + 1]
      BY <1>2, <2>1 DEF Arrive
    <3>4. backlog' \in [Fd -> Nat] /\ \A d \in Fd : backlog'[d] <= arrivals'
      BY <1>2, <3>2, <3>3
    <3> QED
      BY <3>1, <3>2, <3>4
  <2>2. CASE Withdraw(w)
    <3>1. ready' \in [Fd -> SUBSET Events]
      BY <1>2, <2>2 DEF Withdraw, ReadyIf, Events
    <3>2. arrivals' = arrivals /\ arrivals' \in 0..MaxArrivals
      BY <1>2, <2>2 DEF Withdraw
    <3>3. /\ backlog[w] - 1 \in Nat /\ backlog[w] - 1 <= arrivals
          /\ backlog' = [backlog EXCEPT ![w] = backlog[w] - 1]
      BY <1>2, <2>2 DEF Withdraw
    <3>4. backlog' \in [Fd -> Nat] /\ \A d \in Fd : backlog'[d] <= arrivals'
      BY <1>2, <3>2, <3>3
    <3> QED
      BY <3>1, <3>2, <3>4
  <2> QED
    BY <1>3, <2>1, <2>2
<1>5. ServerTyped' /\ Loops' /\ ServerCalls'
  BY <1>1, <1>4 DEF ServerInv, ServerTyped, Loops, ServerCalls, Made
<1>6. Listeners' /\ AcceptorCovered'
  <2>1. \A d, e, late : Covered(d, e, late) => Covered(d, e, late)'
    BY <1>1, <1>4, BackEndSame
  <2>2. Listeners'
    BY <1>1 DEF ServerInv, Listeners, Pending, IsOn, bvars
  <2>3. AcceptorCovered'
    BY <1>1, <2>1 DEF ServerInv, AcceptorCovered, Pending
  <2> QED
    BY <2>2, <2>3
<1> QED
  BY <1>1, <1>4, <1>5, <1>6, ServerKeeps

(* The handler gives the acceptor a token.                                 *)
LEMMA HandleListenerKeeps ==
    ASSUME SlotsInv, ThreadInv, ServerInv, UNCHANGED bvars, HandleListener
    PROVE  SlotsInv' /\ ThreadInv' /\ ServerInv'
<1>1. /\ event.to = "listener" /\ event # NoEvent
      /\ UNCHANGED <<ready, target, call, backlog, arrivals, listening, fds, onList, acc, k>>
  BY DEF HandleListener, NoEvent
<1>2. /\ event \in EventType /\ event.w \in Fd /\ pc = "handling"
      /\ event.w = pollfds[i].w /\ event.to = target[event.w]
  BY <1>1, HandledWatch
<1>3. SlotsInv'
  BY <1>1, BackEndSame DEF ThreadInv
<1>4. \/ event' = NoEvent
      \/ /\ event' \in EventType /\ event'.w = event.w /\ event'.to = event.to
         /\ event'.events = event.events
  <2>1. CASE event' = [event EXCEPT !.half = TRUE]
    BY <1>2, <2>1 DEF EventType
  <2> QED
    BY <2>1 DEF HandleListener
<1>5. ThreadInv'
  BY <1>1, <1>2, <1>4 DEF ThreadInv, bvars
<1>6. ServerTyped' /\ Loops' /\ ServerCalls' /\ Listeners'
  <2>1. isReady' \subseteq Fd /\ ups' \in Nat /\ toRun' \in BOOLEAN
    BY <1>2 DEF HandleListener, ServerInv, ServerTyped
  <2> QED
    BY <1>1, <2>1 DEF ServerInv, ServerTyped, Loops, ServerCalls, Listeners, Made, Pending, IsOn, bvars
<1>7. AcceptorCovered'
  <2>1. CASE ~event.half
    <3>1. event' = [event EXCEPT !.half = TRUE] /\ ups' = ups /\ toRun' = toRun
      BY <2>1 DEF HandleListener
    <3>2. event'.w = event.w /\ event'.events = event.events
      BY <1>2, <3>1 DEF EventType
    <3>3. \A d : Covered(d, "IN", TRUE) => Covered(d, "IN", TRUE)'
      BY <3>2 DEF Covered, bvars, IsOn
    <3> QED
      BY <1>1, <3>1, <3>3 DEF ServerInv, AcceptorCovered, Pending
  <2>2. CASE event.half
    <3>1. ups' = ups + 1 /\ toRun' = (toRun \/ onList) /\ ups' > 0
      BY <2>2 DEF HandleListener, ServerInv, ServerTyped
    <3>2. acc = "idle" => toRun'
      BY <3>1 DEF ServerInv, AcceptorCovered
    <3> QED
      BY <1>1, <3>1, <3>2 DEF AcceptorCovered
  <2> QED
    BY <2>1, <2>2
<1> QED
  BY <1>3, <1>5, <1>6, <1>7 DEF ServerInv

(* The addresses are bound.                                                *)
LEMMA BindKeeps ==
    ASSUME SlotsInv, ThreadInv, ServerInv, UNCHANGED bvars,
           Bind, UNCHANGED <<ups, onList, arrivals>>
    PROVE  SlotsInv' /\ ThreadInv' /\ ServerInv'
<1>1. /\ acc = "bind" /\ call = NoCall /\ call' = NoCall
      /\ UNCHANGED <<ready, target, event, backlog, isReady, toRun>>
  BY ServerIdle DEF Bind, ivars, ServerInv
<1>2. /\ k \in 1..NFds + 1 /\ fds \in Seq(Fd) /\ listening \subseteq Fd
      /\ \A a, b \in 1..Len(fds) : fds[a] = fds[b] => a = b
      /\ \A a \in 1..Len(fds) : fds[a] \in Fd /\ fds[a] < k
      /\ \A w \in listening : IsOn(fds, w)
      /\ \A w \in Fd : st[w] = "none"
  BY <1>1, NFdsAssumption DEF ServerInv, ServerTyped, Loops, Listeners
<1>3. ready' \in [Fd -> SUBSET Events]
  BY <1>1 DEF ThreadInv
<1>4. ServerCalls'
  BY <1>1 DEF ServerCalls
<1>5. CASE /\ k <= NFds /\ k' = k + 1 /\ acc' = acc
           /\ fds' = Append(fds, k) /\ listening' = listening \cup {k}
  <2>1. /\ k \in Fd /\ Len(fds) \in Nat /\ Len(fds') = Len(fds) + 1 /\ fds' \in Seq(Fd)
        /\ \A a \in 1..Len(fds) : fds'[a] = fds[a]
        /\ fds'[Len(fds) + 1] = k
    BY <1>2, <1>5 DEF Fd
  <2>2. \A a \in 1..Len(fds') : a \in 1..Len(fds) \/ a = Len(fds) + 1
    BY <2>1
  <2>3. \A a \in 1..Len(fds') : fds'[a] < k'
    BY <1>2, <1>5, <2>1, <2>2 DEF Fd
  <2>4. \A a, b \in 1..Len(fds') : fds'[a] = fds'[b] => a = b
    BY <1>2, <2>1, <2>2 DEF Fd
  <2>5. ServerTyped'
    BY <1>1, <1>2, <1>5, <2>1 DEF ServerInv, ServerTyped
  <2>6. Loops'
    BY <1>1, <1>2, <1>5, <2>3, <2>4, NFdsAssumption DEF Loops
  <2>7. \A w \in listening' : IsOn(fds', w)
    <3>1. IsOn(fds', k)
      BY <2>1 DEF IsOn
    <3>2. ASSUME NEW w, IsOn(fds, w) PROVE IsOn(fds', w)
      <4>1. PICK a \in 1..Len(fds) : fds[a] = w
        BY <3>2 DEF IsOn
      <4>2. a \in 1..Len(fds') /\ fds'[a] = w
        BY <2>1, <4>1
      <4> QED
        BY <4>2 DEF IsOn
    <3> QED
      BY <1>2, <1>5, <3>1, <3>2
  <2>8. Listeners' /\ AcceptorCovered'
    BY <1>1, <1>2, <1>5, <2>7 DEF Listeners, AcceptorCovered, bvars
  <2> QED
    BY <1>1, <1>3, <1>4, <2>5, <2>6, <2>8, ServerKeeps
<1>6. CASE /\ k <= NFds /\ k' = k + 1 /\ acc' = acc
           /\ UNCHANGED <<fds, listening>>
  <2>1. ServerTyped'
    BY <1>1, <1>2, <1>6 DEF ServerInv, ServerTyped
  <2>2. Loops'
    <3>1. \A a \in 1..Len(fds) : fds[a] < k + 1
      BY <1>2 DEF Fd
    <3> QED
      BY <1>1, <1>2, <1>6, <3>1, NFdsAssumption DEF Loops
  <2>3. Listeners' /\ AcceptorCovered'
    BY <1>1, <1>2, <1>6 DEF Listeners, AcceptorCovered, bvars
  <2> QED
    BY <1>1, <1>3, <1>4, <2>1, <2>2, <2>3, ServerKeeps
<1>7. CASE /\ acc' = IF fds = << >> THEN "gone" ELSE "create"
           /\ k' = 1 /\ UNCHANGED <<fds, listening>>
  <2>1. ServerTyped'
    BY <1>1, <1>2, <1>7 DEF ServerInv, ServerTyped
  <2>2. Loops'
    BY <1>1, <1>2, <1>7 DEF Loops
  <2>3. Listeners' /\ AcceptorCovered'
    BY <1>1, <1>2, <1>7 DEF Listeners, AcceptorCovered, bvars
  <2> QED
    BY <1>1, <1>3, <1>4, <2>1, <2>2, <2>3, ServerKeeps
<1> QED
  BY <1>5, <1>6, <1>7 DEF Bind

(* The watched_fds are created, one after the other.                       *)
LEMMA CreateFdsKeeps ==
    ASSUME SlotsInv, ThreadInv, ServerInv, UNCHANGED bvars,
           CreateFds, UNCHANGED <<ups, onList, arrivals>>
    PROVE  SlotsInv' /\ ThreadInv' /\ ServerInv'
<1>1. /\ acc = "create" /\ call = NoCall
      /\ UNCHANGED <<ready, target, event, backlog, listening, fds, isReady>>
  BY DEF CreateFds, Call, Returned
<1>2. /\ k \in Nat \ {0} /\ k <= Len(fds) + 1 /\ Len(fds) \in Nat
      /\ \A a \in 1..Len(fds) : st[fds[a]] = IF a < k THEN "open" ELSE "none"
  BY <1>1 DEF ServerInv, ServerTyped, Loops, Listeners, Pending
<1>3. ready' \in [Fd -> SUBSET Events]
  BY <1>1 DEF ThreadInv
<1>4. CASE k <= Len(fds)
  <2>1. /\ call' = [op |-> "create", w |-> fds[k], arg |-> "listener"] /\ call' # NoCall
        /\ k' = k + 1 /\ acc' = acc /\ toRun' = toRun
    BY <1>4 DEF CreateFds, Call, NoCall
  <2>2. ServerTyped'
    BY <1>1, <2>1 DEF ServerInv, ServerTyped
  <2>3. Loops'
    BY <1>1, <1>2, <1>4, <2>1 DEF ServerInv, Loops
  <2>4. ServerCalls'
    BY <1>1, <1>2, <2>1 DEF ServerCalls, Made
  <2>5. \A a \in 1..Len(fds') : st'[fds'[a]] = IF a < k' /\ ~Pending(a)' THEN "open" ELSE "none"
    BY <1>1, <1>2, <2>1 DEF Pending, bvars
  <2>6. Listeners'
    BY <1>1, <2>1, <2>5 DEF ServerInv, Listeners, bvars
  <2>7. AcceptorCovered'
    BY <1>1, <2>1 DEF AcceptorCovered
  <2> QED
    BY <1>1, <1>3, <2>2, <2>3, <2>4, <2>6, <2>7, ServerKeeps
<1>5. CASE ~(k <= Len(fds))
  <2>1. acc' = "idle" /\ toRun' = TRUE /\ k' = 1 /\ call' = NoCall
    BY <1>1, <1>5 DEF CreateFds
  <2>2. ServerTyped' /\ Loops' /\ ServerCalls'
    BY <1>1, <2>1 DEF ServerInv, ServerTyped, Loops, ServerCalls
  <2>3. \A a \in 1..Len(fds) : st[fds[a]] = "open"
    BY <1>2, <1>5
  <2>4. Listeners' /\ AcceptorCovered'
    BY <1>1, <2>1, <2>3 DEF ServerInv, Listeners, AcceptorCovered, bvars
  <2> QED
    BY <1>1, <1>3, <2>2, <2>4, ServerKeeps
<1> QED
  BY <1>4, <1>5

(* The acceptor runs, and looks at its descriptors.                        *)
LEMMA AcceptorRunsKeeps ==
    ASSUME SlotsInv, ThreadInv, ServerInv, UNCHANGED bvars,
           AcceptorRuns, UNCHANGED arrivals
    PROVE  SlotsInv' /\ ThreadInv' /\ ServerInv'
<1>1. /\ acc = "idle" /\ acc' = "scan" /\ k' = 1 /\ toRun' = FALSE
      /\ call = NoCall /\ call' = NoCall
      /\ UNCHANGED <<ready, target, event, backlog, listening, fds, isReady, ups, onList>>
      /\ Len(fds) \in Nat
  BY ServerIdle DEF AcceptorRuns, GotoLoop, ivars, ServerInv, ServerTyped
<1>2. ServerTyped' /\ Loops' /\ ServerCalls'
  <2>1. ServerTyped'
    BY <1>1 DEF ServerInv, ServerTyped
  <2>2. Loops'
    <3>1. 1 <= Len(fds) + 1 /\ 1 \in Nat \ {0}
      BY <1>1
    <3> QED
      BY <1>1, <3>1 DEF ServerInv, Loops
  <2> QED
    BY <1>1, <2>1, <2>2 DEF ServerCalls
<1>3. Listeners' /\ AcceptorCovered'
  BY <1>1 DEF ServerInv, Listeners, AcceptorCovered, bvars
<1> QED
  BY <1>1, <1>2, <1>3, ServerKeeps DEF ThreadInv

(* simple_server_socket_accept: the descriptors are looked at.             *)
LEMMA ScanKeeps ==
    ASSUME SlotsInv, ThreadInv, ServerInv, UNCHANGED bvars,
           Scan, UNCHANGED arrivals
    PROVE  SlotsInv' /\ ThreadInv' /\ ServerInv'
<1>1. /\ acc = "scan" /\ k <= Len(fds) /\ k \in Nat \ {0} /\ Len(fds) \in Nat
      /\ call = NoCall /\ call' = NoCall
      /\ UNCHANGED <<ready, target, event, backlog, listening, fds, ups, onList, toRun>>
  BY ServerIdle DEF Scan, ivars, ServerInv, Loops, ServerTyped
<1>2. \/ acc' = "accept" /\ k' = k
      \/ acc' = "scan" /\ k' = k + 1
  BY <1>1 DEF Scan
<1>3. isReady' \subseteq Fd
  BY DEF Scan, ServerInv, ServerTyped
<1>4. ServerTyped' /\ Loops' /\ ServerCalls'
  BY <1>1, <1>2, <1>3 DEF ServerInv, ServerTyped, Loops, ServerCalls
<1>5. Listeners' /\ AcceptorCovered'
  BY <1>1, <1>2 DEF ServerInv, Listeners, AcceptorCovered, bvars
<1> QED
  BY <1>1, <1>4, <1>5, ServerKeeps DEF ThreadInv

(* simple_server_socket_accept: accept(2) on one of them.                  *)
LEMMA AcceptKeeps ==
    ASSUME SlotsInv, ThreadInv, ServerInv, UNCHANGED bvars,
           Accept, UNCHANGED arrivals
    PROVE  SlotsInv' /\ ThreadInv' /\ ServerInv'
<1> DEFINE w == fds[k]
<1>1. /\ acc = "accept" /\ k <= Len(fds) /\ k \in Nat \ {0} /\ Len(fds) \in Nat
      /\ call = NoCall /\ call' = NoCall /\ w \in Fd
      /\ UNCHANGED <<target, event, listening, fds, ups>>
  BY ServerIdle DEF Accept, ServerInv, Loops, ServerTyped
<1>2. /\ ready \in [Fd -> SUBSET Events] /\ backlog \in [Fd -> Nat] /\ isReady \subseteq Fd
      /\ \A d \in Fd : backlog[d] <= arrivals
      /\ arrivals \in Nat /\ arrivals' = arrivals
      /\ onList \in BOOLEAN /\ toRun \in BOOLEAN
  BY DEF ThreadInv, ServerInv, ServerTyped
<1>3. /\ acc' \in {"scan", "stopped"} /\ k' \in Nat \ {0} /\ k' <= Len(fds) + 1
      /\ acc' = "stopped" => k' = 1
      /\ onList' \in BOOLEAN /\ toRun' \in BOOLEAN
  <2>1. \/ GotoLoop("scan") /\ UNCHANGED <<onList, toRun>>
        \/ StopAcceptor
        \/ k' = k + 1 /\ acc' = "scan" /\ UNCHANGED <<onList, toRun>>
    BY DEF Accept
  <2>2. 1 <= Len(fds) + 1 /\ k + 1 <= Len(fds) + 1 /\ 1 \in Nat \ {0}
    BY <1>1
  <2>3. CASE GotoLoop("scan") /\ UNCHANGED <<onList, toRun>>
    BY <1>2, <2>2, <2>3 DEF GotoLoop
  <2>4. CASE StopAcceptor
    BY <2>2, <2>4 DEF GotoLoop, StopAcceptor
  <2>5. CASE k' = k + 1 /\ acc' = "scan" /\ UNCHANGED <<onList, toRun>>
    <3>1. k + 1 \in Nat \ {0}
      BY <1>1
    <3> QED
      BY <1>2, <2>2, <2>5, <3>1
  <2> QED
    BY <2>1, <2>3, <2>4, <2>5
<1>4. /\ ready' \in [Fd -> SUBSET Events] /\ isReady' \subseteq Fd
      /\ backlog' \in [Fd -> Nat] /\ \A d \in Fd : backlog'[d] <= arrivals
  <2>1. CASE /\ backlog[w] > 0
             /\ backlog' = [backlog EXCEPT ![w] = @ - 1]
             /\ ReadyIf(w, backlog[w] - 1)
             /\ isReady' = isReady \cup {w}
    <3> HIDE DEF w
    <3>1. ready' \in [Fd -> SUBSET Events] /\ isReady' \subseteq Fd
      BY <1>1, <1>2, <2>1 DEF ReadyIf, Events
    <3>2. /\ backlog[w] - 1 \in Nat /\ backlog[w] - 1 <= arrivals
          /\ backlog' = [backlog EXCEPT ![w] = backlog[w] - 1]
      BY <1>1, <1>2, <2>1
    <3>3. backlog' \in [Fd -> Nat] /\ \A d \in Fd : backlog'[d] <= arrivals
      BY <1>1, <1>2, <3>2
    <3> QED
      BY <3>1, <3>3
  <2>2. CASE UNCHANGED <<ready, backlog, isReady>>
    BY <1>2, <2>2
  <2> QED
    BY <2>1, <2>2 DEF Accept
<1> HIDE DEF w
<1>5. ServerTyped' /\ Loops' /\ ServerCalls'
  BY <1>1, <1>2, <1>3, <1>4 DEF ServerInv, ServerTyped, Loops, ServerCalls
<1>6. Listeners' /\ AcceptorCovered'
  BY <1>1, <1>3 DEF ServerInv, Listeners, AcceptorCovered, bvars
<1> QED
  BY <1>1, <1>4, <1>5, <1>6, ServerKeeps

(* It sets the interest of each descriptor before it waits for a token.    *)
LEMMA ArmAllKeeps ==
    ASSUME SlotsInv, ThreadInv, ServerInv, UNCHANGED bvars,
           ArmAll, UNCHANGED arrivals
    PROVE  SlotsInv' /\ ThreadInv' /\ ServerInv'
<1>1. /\ UNCHANGED <<ready, target, event, backlog, listening, fds, isReady, ups, onList, toRun>>
      /\ call = NoCall /\ acc \in {"scan", "arm"} /\ acc' = "arm"
      /\ k \in Nat \ {0} /\ Len(fds) \in Nat
  BY ServerIdle DEF ArmAll, Call, GotoLoop, ServerInv, Loops, ServerTyped
<1>2. ready' \in [Fd -> SUBSET Events]
  BY <1>1 DEF ThreadInv
<1>3. CASE acc = "scan"
  <2>1. k' = 1 /\ call' = NoCall
    BY <1>1, <1>3 DEF ArmAll, GotoLoop
  <2>2. ServerTyped' /\ Loops' /\ ServerCalls'
    BY <1>1, <2>1 DEF ServerInv, ServerTyped, Loops, ServerCalls
  <2>3. Listeners' /\ AcceptorCovered'
    <3>1. \A a \in 1..Len(fds) : ~(a < 1)
      OBVIOUS
    <3>2. Listeners'
      BY <1>1, <1>3, <2>1 DEF ServerInv, Listeners, bvars
    <3>3. AcceptorCovered'
      BY <1>1, <2>1, <3>1 DEF AcceptorCovered
    <3> QED
      BY <3>2, <3>3
  <2> QED
    BY <1>1, <1>2, <2>2, <2>3, ServerKeeps
<1>4. CASE acc = "arm"
  <2>1. /\ k <= Len(fds) /\ k' = k + 1 /\ call' # NoCall
        /\ call' = [op |-> "interest", w |-> fds[k], arg |-> {"IN"}]
    BY <1>1, <1>4 DEF ArmAll, Call, NoCall
  <2>2. ServerTyped'
    BY <1>1 DEF ServerInv, ServerTyped
  <2>3. Loops'
    BY <1>1, <1>4, <2>1 DEF ServerInv, Loops
  <2>4. ServerCalls'
    BY <1>1, <2>1 DEF ServerCalls, Made
  <2>5. Listeners'
    BY <1>1, <1>4 DEF ServerInv, Listeners, bvars
  <2>6. AcceptorCovered'
    <3>1. CASE ups > 0
      BY <1>1, <3>1 DEF AcceptorCovered
    <3>2. CASE ~(ups > 0)
      <4> SUFFICES ASSUME NEW a \in 1..Len(fds), a < k', ~Pending(a)'
                   PROVE  Covered(fds[a], "IN", TRUE)'
        BY <1>1 DEF AcceptorCovered
      <4>1. a < k /\ ~Pending(a)
        BY <1>1, <2>1 DEF Pending
      <4>2. Covered(fds[a], "IN", TRUE)
        BY <1>4, <3>2, <4>1 DEF ServerInv, AcceptorCovered
      <4> QED
        BY <1>1, <4>2 DEF Covered, bvars, IsOn
    <3> QED
      BY <3>1, <3>2
  <2> QED
    BY <1>1, <1>2, <2>2, <2>3, <2>4, <2>5, <2>6, ServerKeeps
<1> QED
  BY <1>1, <1>3, <1>4

(* simple_server_socket_accept: wait_list_down.                            *)
LEMMA AwaitTokenKeeps ==
    ASSUME SlotsInv, ThreadInv, ServerInv, UNCHANGED bvars,
           AwaitToken, UNCHANGED arrivals
    PROVE  SlotsInv' /\ ThreadInv' /\ ServerInv'
<1>1. /\ acc = "arm" /\ k > Len(fds) /\ call = NoCall /\ call' = NoCall
      /\ UNCHANGED <<ready, target, event, backlog, listening, fds, isReady, toRun>>
      /\ k' = 1 /\ ups \in Nat /\ Len(fds) \in Nat /\ k \in Nat
  BY DEF AwaitToken, Returned, ivars, GotoLoop, ServerInv, ServerTyped, Loops
<1>2. \/ ups > 0 /\ ups' = ups - 1 /\ acc' = "scan" /\ onList' = onList
      \/ ups = 0 /\ ups' = ups /\ acc' = "idle" /\ onList' = TRUE
  BY <1>1 DEF AwaitToken, GotoLoop
<1>3. ServerTyped' /\ Loops' /\ ServerCalls'
  <2>a. onList \in BOOLEAN
    BY DEF ServerInv, ServerTyped
  <2>1. ups' \in Nat /\ acc' \in {"scan", "idle"} /\ onList' \in BOOLEAN
    <3>1. CASE ups > 0 /\ ups' = ups - 1 /\ acc' = "scan" /\ onList' = onList
      <4>1. ups - 1 \in Nat
        BY <1>1, <3>1
      <4> QED
        BY <2>a, <3>1, <4>1
    <3>2. CASE ups = 0 /\ ups' = ups /\ acc' = "idle" /\ onList' = TRUE
      BY <1>1, <3>2
    <3> QED
      BY <1>2, <3>1, <3>2
  <2>2. ServerTyped'
    BY <1>1, <2>1 DEF ServerInv, ServerTyped
  <2>3. Loops'
    <3>1. 1 <= Len(fds) + 1 /\ 1 \in Nat \ {0}
      BY <1>1
    <3> QED
      BY <1>1, <2>1, <3>1 DEF ServerInv, Loops
  <2> QED
    BY <1>1, <2>2, <2>3 DEF ServerCalls
<1>4. Listeners'
  BY <1>1, <1>2 DEF ServerInv, Listeners, bvars
<1>5. AcceptorCovered'
  <2>1. CASE acc' = "scan"
    BY <2>1 DEF AcceptorCovered
  <2>2. CASE ups = 0 /\ acc' = "idle" /\ onList' = TRUE
    <3>a. ~(ups > 0) /\ \A a \in 1..Len(fds) : a < k
      BY <1>1, <2>2
    <3>1. \A a \in 1..Len(fds) : Covered(fds[a], "IN", TRUE)
      BY <1>1, <3>a DEF ServerInv, AcceptorCovered, Pending
    <3>2. \A a \in 1..Len(fds') : Covered(fds[a], "IN", TRUE)'
      BY <1>1, <3>1 DEF Covered, bvars, IsOn
    <3> QED
      BY <2>2, <3>2 DEF AcceptorCovered
  <2> QED
    BY <1>2, <2>1, <2>2
<1> QED
  BY <1>1, <1>3, <1>4, <1>5, ServerKeeps DEF ThreadInv

(* The server is destroyed: its descriptors are given up in their order.   *)
LEMMA DestroyServerKeeps ==
    ASSUME SlotsInv, ThreadInv, ServerInv, UNCHANGED bvars,
           DestroyServer, UNCHANGED arrivals
    PROVE  SlotsInv' /\ ThreadInv' /\ ServerInv'
<1>1. /\ acc \in {"idle", "stopped"} /\ acc' = "destroy" /\ k' = 1
      /\ onList' = FALSE /\ toRun' = FALSE /\ call = NoCall /\ call' = NoCall
      /\ UNCHANGED <<ready, target, event, backlog, listening, fds, isReady, ups>>
      /\ Len(fds) \in Nat
  BY ServerIdle DEF DestroyServer, GotoLoop, ivars, ServerInv, ServerTyped
<1>2. ServerTyped' /\ Loops' /\ ServerCalls'
  <2>1. ServerTyped'
    BY <1>1 DEF ServerInv, ServerTyped
  <2>2. Loops'
    BY <1>1 DEF ServerInv, Loops
  <2> QED
    BY <1>1, <2>1, <2>2 DEF ServerCalls
<1>3. Listeners' /\ AcceptorCovered'
  BY <1>1 DEF ServerInv, Listeners, AcceptorCovered, bvars, IsOn
<1> QED
  BY <1>1, <1>2, <1>3, ServerKeeps DEF ThreadInv

(* simple_server_socket_close_locked: the next descriptor.                 *)
LEMMA CloseFdsKeeps ==
    ASSUME SlotsInv, ThreadInv, ServerInv, UNCHANGED bvars,
           CloseFds, UNCHANGED arrivals
    PROVE  SlotsInv' /\ ThreadInv' /\ ServerInv'
<1>1. /\ acc \in {"destroy", "closing"} /\ call = NoCall
      /\ UNCHANGED <<target, event, isReady, ups, onList, toRun>>
      /\ k \in Nat \ {0} /\ Len(fds) \in Nat
      /\ \A a \in 1..Len(fds) : fds[a] \in Fd
  BY ServerIdle DEF CloseFds, Call, Returned, ServerInv, ServerTyped, Loops
<1>2. \A a \in 1..Len(fds) : /\ st[fds[a]] = "open" <=> a > k \/ (a = k /\ acc = "destroy")
                             /\ a < k => fds[a] \notin listening
  BY <1>1 DEF ServerInv, Listeners
<1>3. CASE acc = "destroy" /\ k <= Len(fds)
  <2>1. /\ call' = [op |-> "destroy", w |-> fds[k], arg |-> {}] /\ call' # NoCall
        /\ acc' = "closing"
        /\ UNCHANGED <<ready, backlog, listening, fds, k>>
    BY <1>1, <1>3 DEF CloseFds, Call, NoCall
  <2>2. ServerTyped' /\ Loops' /\ ServerCalls'
    BY <1>1, <1>3, <2>1 DEF ServerInv, ServerTyped, Loops, ServerCalls, Made
  <2>3. Listeners' /\ AcceptorCovered'
    BY <1>1, <1>2, <1>3, <2>1 DEF ServerInv, Listeners, AcceptorCovered, bvars
  <2> QED
    BY <1>1, <2>1, <2>2, <2>3, ServerKeeps DEF ThreadInv
<1>4. CASE acc = "closing"
  <2> DEFINE w == fds[k]
  <2>1. /\ listening' = listening \ {w}
        /\ backlog' = [backlog EXCEPT ![w] = 0]
        /\ ready' = [ready EXCEPT ![w] = {}]
        /\ k' = k + 1 /\ acc' = "destroy" /\ call' = NoCall /\ fds' = fds
        /\ k <= Len(fds) /\ w \in Fd
    BY <1>1, <1>4 DEF CloseFds, ServerInv, Loops
  <2> HIDE DEF w
  <2>2. ready' \in [Fd -> SUBSET Events]
    BY <2>1 DEF ThreadInv
  <2>3. backlog' \in [Fd -> Nat] /\ \A d \in Fd : backlog'[d] <= arrivals
    BY <2>1 DEF ServerInv, ServerTyped
  <2>4. ServerTyped'
    BY <1>1, <2>1, <2>3 DEF ServerInv, ServerTyped
  <2>5. Loops' /\ ServerCalls'
    BY <1>1, <2>1 DEF ServerInv, Loops, ServerCalls
  <2>6. \A a \in 1..Len(fds) : /\ st[fds[a]] = "open" <=> a > k + 1 \/ a = k + 1
                               /\ a < k + 1 => fds[a] \notin listening \ {w}
    BY <1>1, <1>2, <1>4 DEF w
  <2>7. Listeners' /\ AcceptorCovered'
    BY <1>1, <2>1, <2>6 DEF ServerInv, Listeners, AcceptorCovered, bvars
  <2> QED
    BY <1>1, <2>2, <2>4, <2>5, <2>7, ServerKeeps
<1>5. CASE acc = "destroy" /\ k > Len(fds)
  <2>1. /\ acc' = "gone" /\ k' = 1 /\ fds' = << >> /\ call' = NoCall
        /\ UNCHANGED <<ready, backlog, listening>>
    BY <1>1, <1>5 DEF CloseFds, GotoLoop
  <2>2. ServerTyped' /\ Loops' /\ ServerCalls'
    BY <1>1, <2>1 DEF ServerInv, ServerTyped, Loops, ServerCalls
  <2>3. (\A w \in Fd : st[w] # "open") /\ listening = {}
    <3>1. \A a \in 1..Len(fds) : st[fds[a]] # "open" /\ fds[a] \notin listening
      BY <1>1, <1>2, <1>5
    <3>2. \A w \in Fd : ~(st[w] = "open" \/ w \in listening)
      BY <3>1 DEF ServerInv, Listeners, IsOn
    <3> QED
      BY <3>2 DEF ServerInv, ServerTyped
  <2>4. Listeners' /\ AcceptorCovered'
    BY <1>1, <2>1, <2>3 DEF Listeners, AcceptorCovered, bvars
  <2> QED
    BY <1>1, <2>1, <2>2, <2>4, ServerKeeps DEF ThreadInv
<1> QED
  BY <1>1, <1>3, <1>4, <1>5

(* Every step of the server socket and of what it runs on                  *)
LEMMA ListenerKeeps ==
    ASSUME SlotsInv, ThreadInv, ServerInv, UNCHANGED bvars,
           Network \/ HandleListener \/ Server
    PROVE  SlotsInv' /\ ThreadInv' /\ ServerInv'
<1>1. ASSUME Server, event' = event PROVE SlotsInv' /\ ThreadInv' /\ ServerInv'
  BY <1>1, BindKeeps, CreateFdsKeeps, AcceptorRunsKeeps, ScanKeeps, AcceptKeeps, ArmAllKeeps,
     AwaitTokenKeeps, DestroyServerKeeps, CloseFdsKeeps DEF Server, Acceptor
<1>2. Server => event' = event
  BY DEF Server, Acceptor, Bind, CreateFds, AcceptorRuns, Scan, Accept, ArmAll, AwaitToken,
         DestroyServer, CloseFds, ivars
<1> QED
  BY <1>1, <1>2, NetworkKeeps, HandleListenerKeeps

-----------------------------------------------------------------------------
(* The two together *)

(* Numbers without repetition do not outnumber the descriptors.            *)
LEMMA AtMostAll ==
    ASSUME NEW s \in Seq(Fd), \A a, b \in 1..Len(s) : s[a] = s[b] => a = b
    PROVE  Len(s) <= NFds /\ s \in BoundedSeq(Fd, NFds)
<1>1. Len(s) \in Nat /\ s \in [1..Len(s) -> Fd] /\ NFds \in Nat /\ 0 < NFds
  BY NFdsAssumption
<1>2. Len(s) <= NFds
  <2>1. IsFiniteSet(1..Len(s)) /\ Cardinality(1..Len(s)) = IF 1 > Len(s) THEN 0 ELSE Len(s) - 1 + 1
    BY <1>1, FS_Interval
  <2>2. IsFiniteSet(Fd) /\ Cardinality(Fd) = IF 1 > NFds THEN 0 ELSE NFds - 1 + 1
    BY <1>1, FS_Interval DEF Fd
  <2>3. ~(Cardinality(Fd) < Cardinality(1..Len(s)))
    BY <1>1, <2>1, <2>2, FS_PigeonHole
  <2> QED
    BY <1>1, <2>1, <2>2, <2>3
<1>3. s \in BoundedSeq(Fd, NFds)
  BY <1>1, <1>2 DEF BoundedSeq, SeqOf
<1> QED
  BY <1>2, <1>3

(* No two slots are of one watched_fd.                                     *)
LEMMA SlotsBounded ==
    ASSUME SlotsInv
    PROVE  Len(pollfds) <= NFds /\ Len(updates) <= NFds /\ updates \in BoundedSeq(Fd, NFds)
<1> DEFINE s == [q \in 1..Len(pollfds) |-> pollfds[q].w]
<1>1. Len(pollfds) \in Nat /\ \A q \in 1..Len(pollfds) : pollfds[q].w \in Fd
  BY EntryTypes DEF SlotsInv, SlotsTyped
<1>2. s \in Seq(Fd) /\ Len(s) = Len(pollfds)
  BY <1>1
<1>3. \A a, b \in 1..Len(s) : s[a] = s[b] => a = b
  <2>1. \A a \in 1..Len(s) : slot[s[a]] = a
    BY <1>2 DEF SlotsInv, SlotsMatch
  <2> QED
    BY <2>1
<1>4. Len(s) <= NFds
  BY <1>2, <1>3, AtMostAll
<1>5. Len(updates) <= NFds /\ updates \in BoundedSeq(Fd, NFds)
  BY AtMostAll DEF SlotsInv, SlotsTyped, ListMatches
<1> QED
  BY <1>2, <1>4, <1>5

(* The socket that does not take part stays as it was at first.            *)
Inv ==
    /\ SlotsInv /\ ThreadInv /\ i <= NFds + 1
    /\ subject \in {"client", "server"}
    /\ subject = "client" => ClientInv /\ ServerInit
    /\ subject = "server" => ServerInv /\ SocketInit

(* The invariant holds at first.                                           *)
LEMMA InvInit == Init => Inv
<1> SUFFICES ASSUME Init PROVE Inv
  OBVIOUS
<1>1. SlotsInv
  BY SlotsInvInit DEF Init
<1>2. /\ ready = [w \in Fd |-> {}] /\ target = [w \in Fd |-> "none"]
      /\ call = NoCall /\ event = NoEvent
      /\ st = [w \in Fd |-> "none"] /\ interest = [w \in Fd |-> {}]
      /\ updates = << >> /\ pipe = FALSE /\ woken = FALSE /\ result = FALSE
      /\ pc = "prepare" /\ i = 1
  BY DEF Init, IfaceInit, BackEndInit
<1>3. call.op = "none" /\ event.to = "none" /\ i <= NFds + 1
  BY <1>2, NFdsAssumption DEF NoCall, NoEvent
<1>4. ThreadInv
  BY <1>2 DEF ThreadInv, Events
<1>5. ASSUME SocketInit PROVE ClientInv
  <2>1. /\ status = [w \in Fd |-> "none"]
        /\ ops = "client" /\ fd = NoFd /\ alive = TRUE /\ mutex = "connector"
        /\ connector = [NoConnector EXCEPT !.left = NFds, !.exists = TRUE]
        /\ wait = [t \in Tasklets |-> "none"] /\ queued = [t \in Tasklets |-> FALSE]
        /\ at = [owner |-> "idle", connector |-> "start"]
        /\ via = "client" /\ doing = "read"
    BY <1>5 DEF SocketInit
  <2>2. /\ connector \in ConnectorType /\ connector.fd = NoFd /\ connector.up = 0
        /\ ~connector.connected /\ connector.exists /\ connector.left = NFds
    <3>1. connector = [fd |-> NoFd, connected |-> FALSE, left |-> NFds, err |-> FALSE,
                       up |-> 0, exists |-> TRUE, shared |-> FALSE]
      BY <2>1 DEF NoConnector
    <3>2. NFds \in 0..NFds
      BY NFdsAssumption
    <3>3. connector \in ConnectorType
      BY <3>1, <3>2 DEF ConnectorType
    <3> QED
      BY <3>1, <3>3
  <2>3. at["owner"] = "idle" /\ at["connector"] = "start" /\ at \in [Tasklets -> Places]
    BY <2>1 DEF Tasklets, Places, ConnectorBusy
  <2>4. ClientTyped
    BY <2>1, <2>2, <2>3 DEF ClientTyped, Tasklets, Operations
  <2>5. Control
    BY <2>1, <2>2, <2>3 DEF Control, ConnectorBusy, OwnerBusy, Connecting
  <2>6. Descriptors
    BY <1>2, <2>1, <2>2 DEF Descriptors, Owned, Connecting, Fd, NoFd
  <2>7. Attempt
    BY <1>3, <2>2 DEF Attempt
  <2>8. ClientCalls /\ OwnerCovered
    BY <1>2, <2>1 DEF ClientCalls, OwnerCovered, Waits
  <2> QED
    BY <2>4, <2>5, <2>6, <2>7, <2>8 DEF ClientInv
<1>6. ASSUME ServerInit PROVE ServerInv
  <2>1. /\ backlog = [w \in Fd |-> 0] /\ arrivals = 0 /\ listening = {}
        /\ fds = << >> /\ isReady = {} /\ ups = 0
        /\ onList = FALSE /\ toRun = FALSE /\ acc = "bind" /\ k = 1
    BY <1>6 DEF ServerInit
  <2>2. ServerTyped
    <3>1. 0 \in 0..MaxArrivals /\ 0 \in Nat /\ 0 <= 0
      BY MaxArrivalsAssumption
    <3>2. backlog \in [Fd -> Nat] /\ \A w \in Fd : backlog[w] = 0
      BY <2>1
    <3>3. arrivals \in 0..MaxArrivals /\ \A w \in Fd : backlog[w] <= arrivals
      BY <2>1, <3>1, <3>2
    <3>4. fds \in Seq(Fd) /\ ups \in Nat /\ listening \subseteq Fd /\ isReady \subseteq Fd
      BY <2>1
    <3>5. onList \in BOOLEAN /\ toRun \in BOOLEAN /\ acc = "bind"
      BY <2>1
    <3> QED
      BY <3>2, <3>3, <3>4, <3>5 DEF ServerTyped
  <2>4. Loops
    <3>1. Len(fds) = 0 /\ 1 <= NFds + 1 /\ 1 \in Nat \ {0}
      BY <2>1, NFdsAssumption
    <3> QED
      BY <2>1, <3>1 DEF Loops
  <2>3. ServerCalls /\ Listeners /\ AcceptorCovered
    BY <1>2, <2>1 DEF ServerCalls, Listeners, AcceptorCovered
  <2> QED
    BY <2>2, <2>3, <2>4 DEF ServerInv
<1> QED
  BY <1>1, <1>3, <1>4, <1>5, <1>6 DEF Inv, Init

(* The steps of the sockets and of the poll thread keep it.                *)
LEMMA InvNext == Inv /\ [Next]_vars => Inv'
<1> SUFFICES ASSUME Inv, [Next]_vars PROVE Inv'
  OBVIOUS
<1>1. SlotsInv /\ ThreadInv /\ i <= NFds + 1 /\ i \in Nat
  BY DEF Inv, SlotsInv, SlotsTyped
<1>2. CASE /\ (\E w \in Fd : System(w)) \/ Handler \/ ConnectorStep \/ Owner
           /\ Client
  <2>1. subject = "client" /\ subject' = subject /\ UNCHANGED bvars /\ UNCHANGED avars
    BY <1>2 DEF Client
  <2>2. SlotsInv' /\ ThreadInv' /\ ClientInv'
    BY <1>1, <1>2, <2>1, ClientKeeps DEF Inv
  <2>3. i' = i
    BY <2>1 DEF bvars
  <2>4. ServerInit'
    BY <2>1 DEF Inv, ServerInit, avars
  <2> QED
    BY <1>1, <2>1, <2>2, <2>3, <2>4 DEF Inv
<1>3. CASE (Network \/ HandleListener \/ Server) /\ Listener
  <2>1. subject = "server" /\ subject' = subject /\ UNCHANGED bvars /\ UNCHANGED svars
    BY <1>3 DEF Listener
  <2>2. SlotsInv' /\ ThreadInv' /\ ServerInv'
    BY <1>1, <1>3, <2>1, ListenerKeeps DEF Inv
  <2>3. i' = i
    BY <2>1 DEF bvars
  <2>4. SocketInit'
    BY <2>1 DEF Inv, SocketInit, svars
  <2> QED
    BY <1>1, <2>1, <2>2, <2>3, <2>4 DEF Inv
<1>4. CASE (BackEndCall \/ Poller \/ PollNothing) /\ Sockets
  <2>1. subject' = subject /\ UNCHANGED svars /\ UNCHANGED avars
    BY <1>4 DEF Sockets
  <2>2. ServerInit => ServerInit'
    BY <2>1 DEF ServerInit, avars
  <2>3. SocketInit => SocketInit'
    BY <2>1 DEF SocketInit, svars
  <2>4. subject = "client" => SlotsInv' /\ ThreadInv' /\ ClientInv'
    BY <1>1, <1>4, <2>1, ClientPoller, ClientCall, PollerFollows DEF Inv
  <2>5. subject = "server" => SlotsInv' /\ ThreadInv' /\ ServerInv'
    BY <1>1, <1>4, <2>1, ServerPoller, ServerCall DEF Inv
  <2>6. i' <= NFds + 1
    <3>1. Len(pollfds) <= NFds /\ Len(pollfds) \in Nat /\ NFds \in Nat /\ 1 <= NFds + 1
      BY <1>1, SlotsBounded, NFdsAssumption DEF SlotsInv, SlotsTyped
    <3>2. CASE DispatchSlot
      BY <1>1, <3>1, <3>2 DEF DispatchSlot
    <3>3. CASE Handled
      <4>1. i <= Len(pollfds)
        BY <1>1, <3>3 DEF Handled, SlotsInv, HandledIsOpen
      <4> QED
        BY <1>1, <3>1, <3>3, <4>1 DEF Handled
    <3>4. CASE i' \in {1, i}
      BY <1>1, <3>1, <3>4
    <3> QED
      BY <1>4, <3>2, <3>3, <3>4
      DEF BackEndCall, Poller, PollNothing, SyncNext, Prepared, PollReady, BeginDispatch, EndDispatch
  <2> QED
    BY <2>1, <2>2, <2>3, <2>4, <2>5, <2>6 DEF Inv
<1>5. CASE UNCHANGED vars
  <2>1. UNCHANGED <<ivars, svars, avars, bvars, subject>>
    BY <1>5 DEF vars
  <2>2. SlotsInv' /\ ThreadInv' /\ i' = i
    BY <1>1, <2>1, BackEndSame DEF ivars, bvars, ThreadInv
  <2>3. ServerInit => ServerInit'
    BY <2>1 DEF ServerInit, avars
  <2>4. SocketInit => SocketInit'
    BY <2>1 DEF SocketInit, svars
  <2>5. ClientInv => ClientInv'
    BY <2>1, ControlSame DEF ClientInv, ClientCalls, Descriptors, Attempt, OwnerCovered,
       Made, Owned, Closing, Connecting, Waits, Covered, Unarmed, AwaitsOnlyOut, IsOn,
       ivars, svars, bvars
  <2>6. ServerInv => ServerInv'
    BY <2>1 DEF ServerInv, ServerTyped, Loops, ServerCalls, Listeners, AcceptorCovered,
       Made, Pending, Covered, IsOn, ivars, avars, bvars
  <2> QED
    BY <1>1, <2>1, <2>2, <2>3, <2>4, <2>5, <2>6 DEF Inv
<1> QED
  BY <1>2, <1>3, <1>4, <1>5 DEF Next

(* What the sockets and the poll thread rely on of each other, always      *)
THEOREM JointInvariant == Spec => []Inv
<1>1. Init => Inv
  BY InvInit
<1>2. Inv /\ [Next]_vars => Inv'
  BY InvNext
<1> QED
  BY <1>1, <1>2, PTL DEF Spec

-----------------------------------------------------------------------------
(* The arrays of the poll(2) back end and its list of updates agree with   *)
(* each other and with the watched_fds, whatever the descriptors do        *)
(* (poll_poll.c: a slot that is moved into a hole while poll_dispatch      *)
(* walks over the slots, and a watched_fd that is destroyed while it has   *)
(* one).                                                                   *)
THEOREM SlotsStayOK == Spec => []SlotsOK
<1>1. Inv => SlotsOK
  BY SlotsInvSound DEF Inv
<1> QED
  BY <1>1, JointInvariant, PTL

(* For whom a handler is called                                            *)
LEMMA ClientHandlerAlive ==
    SlotsInv /\ ThreadInv /\ ClientInv =>
        HandlerAlive /\ event.to # "listener"
<1> SUFFICES ASSUME SlotsInv, ThreadInv, ClientInv
             PROVE  HandlerAlive /\ event.to # "listener"
  OBVIOUS
<1>1. CASE event = NoEvent
  BY <1>1 DEF NoEvent, HandlerAlive
<1>2. CASE event # NoEvent
  <2>1. /\ event.w \in Fd /\ event.to = target[event.w] /\ st[event.w] = "open"
        /\ slot[event.w] # 0
    BY <1>2, HandledWatch
  <2>2. event.w = Owned /\ Owned # NoFd
    BY <2>1 DEF ClientInv, Descriptors, Fd, NoFd
  <2>3. event.to = IF Connecting \/ call.op = "handler" THEN "connector" ELSE "socket"
    BY <2>1, <2>2 DEF ClientInv, Descriptors
  <2>4. CASE Connecting
    BY <2>2, <2>3, <2>4 DEF HandlerAlive, Owned
  <2>5. CASE ~Connecting
    <3>1. event.w = fd /\ alive
      BY <2>2, <2>5 DEF Owned, ClientInv, ClientTyped, Control
    <3>2. call.op # "handler"
      BY <1>2, <2>1, <3>1 DEF ClientInv, Attempt, Unarmed
    <3> QED
      BY <2>3, <2>5, <3>1, <3>2 DEF HandlerAlive
  <2> QED
    BY <2>4, <2>5
<1> QED
  BY <1>1, <1>2

(* Whoever the poll thread calls still exists and owns the descriptor, and *)
(* no socket hands the back end a watched_fd that was destroyed            *)
(* (connector_destroy, simple_socket_close_locked of socket.c): for every  *)
(* order of the connector, its owner, the system and the poll thread.      *)
THEOREM NoHandlerDangles == Spec => []NoStrayCall
<1>1. Inv => NoStrayCall
  <2> SUFFICES ASSUME Inv PROVE NoStrayCall
    OBVIOUS
  <2>1. event # NoEvent => /\ st[event.w] = "open" /\ event.w \in Fd
                           /\ event.to = target[event.w]
    BY HandledWatch DEF Inv
  <2>2. CASE subject = "client"
    <3>1. ClientInv /\ HandlerAlive /\ event.to # "listener"
      BY <2>2, ClientHandlerAlive DEF Inv
    <3>2. CallFits
      BY <3>1, ClientCallFits DEF ClientInv
    <3> QED
      BY <2>1, <3>1, <3>2 DEF NoStrayCall, ListenerAlive
  <2>3. CASE subject = "server"
    <3>1. ServerInv
      BY <2>3 DEF Inv
    <3>2. CallFits
      BY <3>1, ServerCallFits DEF CallFits, NoCall
    <3>3. event # NoEvent => IsOn(fds, event.w) /\ event.to = "listener"
      BY <2>1, <3>1 DEF ServerInv, Listeners
    <3>4. event = NoEvent => event.to = "none"
      BY DEF NoEvent
    <3>5. HandlerAlive
      BY <3>3, <3>4 DEF HandlerAlive
    <3>6. ListenerAlive
      BY <3>1, <3>3, <3>4 DEF ListenerAlive, IsOn, Range, ServerInv, ServerTyped
    <3> QED
      BY <2>1, <3>2, <3>5, <3>6 DEF NoStrayCall
  <2> QED
    BY <2>2, <2>3 DEF Inv
<1> QED
  BY <1>1, JointInvariant, PTL

(* A covered descriptor is watched.                                        *)
LEMMA CoveredWatches ==
    ASSUME SlotsInv, NEW w \in Fd, NEW e, NEW late, Covered(w, e, late)
    PROVE  Watches(w, e)
<1>1. IsOn(updates, w) => w \in Range(updates)
  BY DEF IsOn, Range, SlotsInv, SlotsTyped
<1> QED
  BY <1>1 DEF Covered, Watches

(* The interest of a tasklet that waits to read or to write reaches        *)
(* poll(2), however its wait, its interest and the events of an earlier    *)
(* interest interleave (simple_socket_read and simple_socket_write,        *)
(* simple_server_socket_accept, poll_prepare).                             *)
THEOREM ReadinessIsNotLost == Spec => []NoLostReadiness
<1>1. Inv => NoLostReadiness
  <2> SUFFICES ASSUME Inv PROVE NoLostReadiness
    OBVIOUS
  <2>1. SlotsInv
    BY DEF Inv
  <2>2. CASE subject = "client"
    <3>1. ClientInv /\ ServerInit
      BY <2>2 DEF Inv
    <3>2. ASSUME NEW op \in {"read", "write"},
                 Asleep(op), fd # NoFd, mutex # "connector"
          PROVE  Watches(fd, EventOf[op])
      <4>1. Waits(op)
        BY <3>2 DEF Asleep, At, Waits
      <4>2. Covered(fd, EventOf[op], op = "write")
        BY <3>1, <4>1 DEF ClientInv, OwnerCovered
      <4>3. fd \in Fd
        BY <3>1, <3>2 DEF ClientInv, ClientTyped
      <4> QED
        BY <2>1, <4>2, <4>3, CoveredWatches
    <3>3. ~AcceptorAsleep
      BY <3>1 DEF ServerInit, AcceptorAsleep
    <3> QED
      BY <3>2, <3>3 DEF NoLostReadiness
  <2>3. CASE subject = "server"
    <3>1. ServerInv /\ fd = NoFd
      BY <2>3 DEF Inv, SocketInit
    <3>2. ASSUME AcceptorAsleep, NEW w \in Range(fds) PROVE Watches(w, "IN")
      <4>1. PICK a \in 1..Len(fds) : w = fds[a]
        BY <3>1 DEF Range, ServerInv, ServerTyped
      <4>2. Covered(w, "IN", TRUE) /\ w \in Fd
        <5>1. fds[a] \in Fd
          BY <3>1, <4>1 DEF ServerInv, ServerTyped
        <5>2. \A b \in 1..Len(fds) : Covered(fds[b], "IN", TRUE)
          BY <3>1, <3>2 DEF AcceptorAsleep, ServerInv, AcceptorCovered
        <5> QED
          BY <4>1, <5>1, <5>2
      <4> QED
        BY <2>1, <4>2, CoveredWatches
    <3> QED
      BY <3>1, <3>2 DEF NoLostReadiness
  <2> QED
    BY <2>2, <2>3 DEF Inv
<1> QED
  BY <1>1, JointInvariant, PTL

(* A socket or server that was destroyed has left no descriptor open or    *)
(* watched, whatever failed before (client_socket_destroy,                 *)
(* connector_destroy, simple_server_socket_close_locked).                  *)
THEOREM NoDescriptorLeaks == Spec => []NothingLeaks
<1>1. Inv => NothingLeaks
  <2> SUFFICES ASSUME Inv PROVE NothingLeaks
    OBVIOUS
  <2>1. CASE subject = "client"
    <3>1. ClientInv /\ acc = "bind"
      BY <2>1 DEF Inv, ServerInit
    <3>2. ASSUME ~alive
          PROVE  /\ ~Connecting /\ fd = NoFd
                 /\ \A w \in Fd : st[w] # "open" /\ status[w] \in {"none", "closed"}
      <4>1. ~Connecting /\ fd = NoFd
        BY <3>1, <3>2 DEF ClientInv, Control
      <4>2. \A w \in Fd : w # Owned
        BY <4>1 DEF Owned, Fd, NoFd
      <4> QED
        BY <3>1, <4>1, <4>2 DEF ClientInv, Descriptors
    <3> QED
      BY <3>1, <3>2 DEF NothingLeaks
  <2>2. CASE subject = "server"
    <3>1. ServerInv /\ alive
      BY <2>2 DEF Inv, SocketInit
    <3>2. ASSUME acc = "gone" PROVE listening = {} /\ \A w \in Fd : st[w] # "open"
      <4>1. fds = << >>
        BY <3>1, <3>2 DEF ServerInv, Listeners
      <4>2. \A w : ~IsOn(fds, w)
        BY <4>1 DEF IsOn
      <4> QED
        BY <3>1, <4>2 DEF ServerInv, ServerTyped, Listeners
    <3> QED
      BY <3>1, <3>2 DEF NothingLeaks
  <2> QED
    BY <2>1, <2>2 DEF Inv
<1> QED
  BY <1>1, JointInvariant, PTL

(* Each variable has its type; no list or array outgrows the descriptors,  *)
(* and at most one token of a connection attempt is outstanding.           *)
THEOREM SocketsTypeCorrect == Spec => []TypeOK
<1>1. Inv => TypeOK
  <2> SUFFICES ASSUME Inv PROVE TypeOK
    OBVIOUS
  <2>1. SlotsInv /\ ThreadInv /\ i <= NFds + 1 /\ subject \in {"client", "server"}
    BY DEF Inv
  <2>2. BackEndTypeOK
    <3>1. Len(pollfds) <= NFds /\ Len(pollfds) \in Nat /\ updates \in BoundedSeq(Fd, NFds)
      BY <2>1, SlotsBounded DEF SlotsInv, SlotsTyped
    <3>2. slot \in [Fd -> 0..NFds]
      <4>1. \A w \in Fd : slot[w] \in 0..NFds
        BY <2>1, <3>1, NFdsAssumption DEF SlotsInv, SlotsTyped, SlotsMatch
      <4> QED
        BY <2>1, <4>1 DEF SlotsInv, SlotsTyped
    <3>3. i \in 1..NFds + 1
      BY <2>1, NFdsAssumption DEF SlotsInv, SlotsTyped
    <3> QED
      BY <2>1, <3>1, <3>2, <3>3 DEF BackEndTypeOK, SlotsInv, SlotsTyped, ThreadInv
  <2>3. event.w \in Fd \cup {NoFd} /\ event.events \subseteq Events /\ event.half \in BOOLEAN
    <3>1. CASE event = NoEvent
      BY <3>1 DEF NoEvent
    <3>2. CASE event \in EventType
      BY <3>2 DEF EventType
    <3> QED
      BY <2>1, <3>1, <3>2 DEF ThreadInv
  <2>4. /\ call.op \in {"none", "create", "interest", "handler", "destroy"}
        /\ call.w \in Fd \cup {NoFd}
    <3>1. CASE call = NoCall
      BY <3>1 DEF NoCall
    <3>2. CASE call # NoCall /\ subject = "client"
      BY <3>2, PendingCall DEF Inv, ClientInv
    <3>3. CASE call # NoCall /\ subject = "server"
      <4>1. \A a \in 1..Len(fds) : fds[a] \in Fd
        BY <3>3 DEF Inv, ServerInv, ServerTyped
      <4> QED
        BY <3>3, <4>1, ServerCallFits DEF Inv
    <3> QED
      BY <2>1, <3>1, <3>2, <3>3
  <2>5. IfaceTypeOK
    BY <2>1, <2>3, <2>4 DEF IfaceTypeOK, ThreadInv
  <2>6. SocketTypeOK
    <3>1. CASE subject = "client"
      <4>1. connector.fd \in Fd \cup {NoFd} /\ connector.left \in 0..NFds /\ connector.up \in 0..2
        BY <3>1 DEF Inv, ClientInv, ClientTyped, ConnectorType, Attempt
      <4> QED
        BY <3>1, <4>1 DEF Inv, ClientInv, ClientTyped, Descriptors, SocketTypeOK
    <3>2. CASE subject = "server"
      <4>1. SocketInit
        BY <3>2 DEF Inv
      <4>2. connector.fd \in Fd \cup {NoFd} /\ connector.left \in 0..NFds /\ connector.up \in 0..2
        BY <4>1, NFdsAssumption DEF SocketInit, NoConnector
      <4> QED
        BY <4>1, <4>2 DEF SocketInit, SocketTypeOK, Tasklets, Operations
    <3> QED
      BY <2>1, <3>1, <3>2
  <2>7. ServerTypeOK
    <3>1. CASE subject = "client"
      <4>1. ServerInit
        BY <3>1 DEF Inv
      <4>2. << >> \in BoundedSeq(Fd, NFds)
        <5>1. << >> \in Seq(Fd) /\ \A a, b \in 1..Len(<< >>) : << >>[a] = << >>[b] => a = b
          OBVIOUS
        <5> QED
          BY <5>1, AtMostAll
      <4>3. 1 \in 1..NFds + 1 /\ 0 \in 0..MaxArrivals /\ 0 \in Nat
        BY NFdsAssumption, MaxArrivalsAssumption
      <4> QED
        BY <4>1, <4>2, <4>3 DEF ServerInit, ServerTypeOK
    <3>2. CASE subject = "server"
      <4>1. ServerTyped /\ Loops
        BY <3>2 DEF Inv, ServerInv
      <4>2. Len(fds) <= NFds /\ fds \in BoundedSeq(Fd, NFds) /\ Len(fds) \in Nat
        BY <4>1, AtMostAll DEF ServerTyped, Loops
      <4>3. k \in 1..NFds + 1
        BY <4>1, <4>2, NFdsAssumption DEF ServerTyped, Loops
      <4>4. backlog \in [Fd -> 0..MaxArrivals]
        <5>1. \A w \in Fd : backlog[w] \in 0..MaxArrivals
          BY <4>1, MaxArrivalsAssumption DEF ServerTyped
        <5> QED
          BY <4>1, <5>1 DEF ServerTyped
      <4> QED
        BY <4>1, <4>2, <4>3, <4>4 DEF ServerTyped, ServerTypeOK
    <3> QED
      BY <2>1, <3>1, <3>2
  <2> QED
    BY <2>1, <2>2, <2>5, <2>6, <2>7 DEF TypeOK
<1> QED
  BY <1>1, JointInvariant, PTL
=============================================================================
