---------------------------- MODULE CircleLemmas ----------------------------
(***************************************************************************)
(* The circular doubly linked lists of the code: the timers of poll.c and  *)
(* the run queues of tasklet.c keep their elements on one.                 *)
(***************************************************************************)
EXTENDS TLAPS

(* The elements of A form one circle with the links n (next) and p (prev), *)
(* and h is one of them, or the null pointer nil when there are none.      *)
Circle(A, n, p, h, nil) ==
    /\ \A t \in A : n[t] \in A /\ p[t] \in A /\ p[n[t]] = t /\ n[p[t]] = t
    /\ \A S \in SUBSET A : S = {} \/ S = A \/ \E t \in S : n[t] \notin S
    /\ IF A = {} THEN h = nil ELSE h \in A

(* n1, p1 and h1 are what the links and the head of the circle of A become *)
(* when t is taken out, the head moving on if it was t.                    *)
Unlinked(A, n, p, h, nil, t, n1, p1, h1) ==
    /\ t \in A
    /\ \A u \in A \ {t} : n1[u] = IF u = p[t] THEN n[t] ELSE n[u]
    /\ \A u \in A \ {t} : p1[u] = IF u = n[t] THEN p[t] ELSE p[u]
    /\ h1 = IF n[t] = t THEN nil ELSE IF h = t THEN n[t] ELSE h

(* ... and when t is put before the head, at the end of the list. *)
LinkedLast(A, n, p, h, t, n1, p1) ==
    /\ t \notin A
    /\ \A u \in A : n1[u] = IF u = p[h] THEN t ELSE n[u]
    /\ \A u \in A : p1[u] = IF u = h THEN t ELSE p[u]
    /\ n1[t] = h /\ p1[t] = p[h]

(* A circle stays one when an element is taken out. *)
LEMMA CircleWithout ==
    ASSUME NEW A, NEW n, NEW p, NEW h, NEW nil, Circle(A, n, p, h, nil),
           NEW t, NEW n1, NEW p1, NEW h1,
           Unlinked(A, n, p, h, nil, t, n1, p1, h1)
    PROVE  Circle(A \ {t}, n1, p1, h1, nil)
<1> USE DEF Unlinked
<1> DEFINE B == A \ {t}
<1>1. \A u \in A : n[u] \in A /\ p[u] \in A /\ p[n[u]] = u /\ n[p[u]] = u
  BY DEF Circle
<1>2. \A u \in B : n1[u] \in B /\ p1[u] \in B /\ p1[n1[u]] = u /\ n1[p1[u]] = u
  <2> SUFFICES ASSUME NEW u \in B
               PROVE  n1[u] \in B /\ p1[u] \in B /\ p1[n1[u]] = u /\ n1[p1[u]] = u
    OBVIOUS
  <2>1. n[t] = t => p[t] = t
    BY <1>1
  <2>2. n1[u] \in B /\ p1[n1[u]] = u
    <3>1. CASE u = p[t]
      BY <1>1, <2>1, <3>1
    <3>2. CASE u # p[t]
      BY <1>1, <3>2
    <3> QED
      BY <3>1, <3>2
  <2>3. p1[u] \in B /\ n1[p1[u]] = u
    <3>1. CASE u = n[t]
      BY <1>1, <2>1, <3>1
    <3>2. CASE u # n[t]
      BY <1>1, <3>2
    <3> QED
      BY <3>1, <3>2
  <2> QED
    BY <2>2, <2>3
<1>3. ASSUME NEW S \in SUBSET B, \A u \in S : n1[u] \in S
      PROVE  S = {} \/ S = B
  <2>1. CASE p[t] \notin S
    <3>1. \A u \in S : n[u] \in S
      BY <1>3, <2>1
    <3> QED
      BY <3>1 DEF Circle
  <2>2. CASE p[t] \in S
    <3>1. \A u \in S \cup {t} : n[u] \in S \cup {t}
      BY <1>1, <1>3, <2>2
    <3>2. S \cup {t} \in SUBSET A
      OBVIOUS
    <3>3. S \cup {t} = A
      BY <3>1, <3>2 DEF Circle
    <3> QED
      BY <3>3
  <2> QED
    BY <2>1, <2>2
<1>4. IF B = {} THEN h1 = nil ELSE h1 \in B
  <2>1. n[t] = t <=> B = {}
    <3>1. n[t] = t => B = {}
      <4>1. {t} \in SUBSET A
        OBVIOUS
      <4> QED
        BY <4>1 DEF Circle
    <3>2. B = {} => n[t] = t
      BY <1>1
    <3> QED
      BY <3>1, <3>2
  <2>2. h \in A
    BY DEF Circle
  <2> QED
    BY <1>1, <2>1, <2>2
<1> QED
  BY <1>2, <1>3, <1>4 DEF Circle

(* ... and when one is added. *)
LEMMA CircleWith ==
    ASSUME NEW A, NEW n, NEW p, NEW h, NEW nil, Circle(A, n, p, h, nil), A # {},
           NEW t, NEW n1, NEW p1, LinkedLast(A, n, p, h, t, n1, p1)
    PROVE  Circle(A \cup {t}, n1, p1, h, nil)
<1> USE DEF LinkedLast
<1> DEFINE B == A \cup {t}
<1>1. /\ h \in A
      /\ \A u \in A : n[u] \in A /\ p[u] \in A /\ p[n[u]] = u /\ n[p[u]] = u
  BY DEF Circle
<1>2. \A u \in B : n1[u] \in B /\ p1[u] \in B /\ p1[n1[u]] = u /\ n1[p1[u]] = u
  BY <1>1
<1>3. ASSUME NEW S \in SUBSET B, \A u \in S : n1[u] \in S
      PROVE  S = {} \/ S = B
  <2>1. CASE t \notin S
    <3>1. p[h] \notin S
      BY <1>1, <1>3, <2>1
    <3>2. \A u \in S : n[u] \in S
      BY <1>3, <2>1, <3>1
    <3> QED
      BY <1>1, <2>1, <3>1, <3>2 DEF Circle
  <2>2. CASE t \in S
    <3>1. h \in S
      BY <1>3, <2>2
    <3>2. \A u \in S \ {t} : n[u] \in S \ {t}
      BY <1>1, <1>3, <3>1
    <3>3. S \ {t} \in SUBSET A /\ S \ {t} # {}
      BY <1>1, <3>1
    <3>4. S \ {t} = A
      BY <3>2, <3>3 DEF Circle
    <3> QED
      BY <2>2, <3>4
  <2> QED
    BY <2>1, <2>2
<1> QED
  BY <1>1, <1>2, <1>3 DEF Circle

(* A circle depends only on the links of its elements. *)
LEMMA CircleKept ==
    ASSUME NEW A, NEW n, NEW p, NEW h, NEW nil, Circle(A, n, p, h, nil),
           NEW n1, NEW p1, \A u \in A : n1[u] = n[u] /\ p1[u] = p[u]
    PROVE  Circle(A, n1, p1, h, nil)
BY DEF Circle

(* The first element of an empty list is linked to itself. *)
LEMMA CircleOfOne ==
    ASSUME NEW t, NEW n, NEW p, NEW nil, n[t] = t, p[t] = t
    PROVE  Circle({t}, n, p, t, nil)
<1>1. \A S \in SUBSET {t} : S = {} \/ S = {t}
  OBVIOUS
<1> QED
  BY <1>1 DEF Circle
=============================================================================
