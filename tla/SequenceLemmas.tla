--------------------------- MODULE SequenceLemmas ---------------------------
(***************************************************************************)
(* What the ways in which the program removes an element from an array or  *)
(* a list yield; and about sequences and sets of numbers what the proofs   *)
(* have in common.                                                         *)
(***************************************************************************)
EXTENDS Integers, Sequences, SequencesExt, SequenceTheorems, FiniteSetTheorems, FunctionTheorems,
        WellFoundedInduction, TLAPS

(* The last element takes the place of the removed one, as in              *)
(* remove_connection of http_server.c and remove_pollfd of poll_poll.c.    *)
LEMMA ReplacedByLast ==
    ASSUME NEW S, NEW s \in Seq(S), NEW i \in 1..Len(s)
    PROVE  LET t == Front([s EXCEPT ![i] = Last(s)])
           IN  /\ t \in Seq(S) /\ Len(t) = Len(s) - 1
               /\ \A n \in 1..Len(s) - 1 : t[n] = IF n = i THEN s[Len(s)] ELSE s[n]
<1> DEFINE r == [s EXCEPT ![i] = Last(s)]
           l == Len(s) - 1
<1>1. Len(s) \in Nat \ {0} /\ l \in Nat /\ Last(s) = s[Len(s)] /\ Last(s) \in S
  BY DEF Last
<1>2. /\ Len(r) = Len(s)
      /\ \A n \in 1..Len(s) : r[n] \in S /\ r[n] = IF n = i THEN s[Len(s)] ELSE s[n]
  BY <1>1
<1>3. Front(r) = SubSeq(r, 1, l)
  BY <1>2 DEF Front
<1> HIDE DEF r
<1>4. \A n \in 1..l : r[n] \in S
  BY <1>1, <1>2
<1>5. /\ SubSeq(r, 1, l) \in Seq(S)
      /\ Len(SubSeq(r, 1, l)) = IF 1 <= l THEN l - 1 + 1 ELSE 0
      /\ \A n \in 1..l - 1 + 1 : SubSeq(r, 1, l)[n] = r[1 + n - 1]
  <2> HIDE DEF l
  <2> QED
    BY <1>1, <1>4, SubSeqProperties
<1>6. /\ Front(r) \in Seq(S) /\ Len(Front(r)) = l
      /\ \A n \in 1..l : Front(r)[n] = IF n = i THEN s[Len(s)] ELSE s[n]
  BY <1>1, <1>2, <1>3, <1>5
<1> QED
  BY <1>6 DEF r

(* The removed element leaves no hole, as in a list. *)
LEMMA RemovedAt ==
    ASSUME NEW S, NEW s \in Seq(S), NEW i \in 1..Len(s)
    PROVE  LET t == RemoveAt(s, i)
           IN  /\ t \in Seq(S) /\ Len(t) = Len(s) - 1
               /\ \A n \in 1..Len(s) - 1 : t[n] = IF n < i THEN s[n] ELSE s[n + 1]
<1> DEFINE l == Len(s)
           a == SubSeq(s, 1, i - 1)
           b == SubSeq(s, i + 1, l)
<1>1. l \in Nat /\ i \in Int /\ 1 <= i /\ i <= l /\ \A n \in 1..l : s[n] \in S
  OBVIOUS
<1>2. /\ a \in Seq(S) /\ Len(a) = i - 1
      /\ \A n \in 1..i - 1 : a[n] = s[n]
  <2>1. /\ a \in Seq(S) /\ Len(a) = IF 1 <= i - 1 THEN i - 1 - 1 + 1 ELSE 0
        /\ \A n \in 1..i - 1 - 1 + 1 : a[n] = s[1 + n - 1]
    <3> HIDE DEF l
    <3> QED
      BY <1>1, SubSeqProperties
  <2> HIDE DEF a
  <2> QED
    BY <1>1, <2>1
<1>3. /\ b \in Seq(S) /\ Len(b) = l - i
      /\ \A n \in 1..l - i : b[n] = s[i + n]
  <2>1. /\ b \in Seq(S) /\ Len(b) = IF i + 1 <= l THEN l - (i + 1) + 1 ELSE 0
        /\ \A n \in 1..l - (i + 1) + 1 : b[n] = s[i + 1 + n - 1]
    <3> HIDE DEF l
    <3> QED
      BY <1>1, SubSeqProperties
  <2> HIDE DEF b
  <2> QED
    BY <1>1, <2>1
<1>4. /\ a \o b \in Seq(S) /\ Len(a \o b) = Len(a) + Len(b)
      /\ \A n \in 1..Len(a) + Len(b) :
            (a \o b)[n] = IF n <= Len(a) THEN a[n] ELSE b[n - Len(a)]
  <2> HIDE DEF a, b
  <2> QED
    BY <1>2, <1>3, ConcatProperties
<1>5. /\ a \o b \in Seq(S) /\ Len(a \o b) = l - 1
      /\ \A n \in 1..l - 1 : (a \o b)[n] = IF n < i THEN s[n] ELSE s[n + 1]
  <2> HIDE DEF a, b
  <2>1. ASSUME NEW n \in 1..l - 1
        PROVE  (a \o b)[n] = IF n < i THEN s[n] ELSE s[n + 1]
    <3>1. CASE n < i
      BY <1>1, <1>2, <1>3, <1>4, <3>1
    <3>2. CASE ~(n < i)
      <4>1. n - (i - 1) \in 1..l - i /\ i + (n - (i - 1)) = n + 1 /\ ~(n <= i - 1)
        BY <1>1, <3>2
      <4>2. b[n - (i - 1)] = s[n + 1]
        BY <1>3, <4>1
      <4> QED
        BY <1>1, <1>2, <1>3, <1>4, <3>2, <4>1, <4>2
    <3> QED
      BY <3>1, <3>2
  <2> QED
    BY <1>1, <1>2, <1>3, <1>4, <2>1
<1> QED
  BY <1>5 DEF RemoveAt

(* An element that is on the list once is gone when it is removed, the     *)
(* others are still there, once, and the head stays unless it is the one.  *)
LEMMA RemovedOne ==
    ASSUME NEW S, NEW s \in Seq(S), IsInjective(s), NEW n \in 1..Len(s)
    PROVE  LET t == RemoveAt(s, n)
           IN  /\ t \in Seq(S) /\ IsInjective(t) /\ Len(t) = Len(s) - 1
               /\ \A x : Contains(t, x) <=> Contains(s, x) /\ x # s[n]
               /\ n # 1 => t # << >> /\ Head(t) = Head(s)
<1> DEFINE l == Len(s)
           t == RemoveAt(s, n)
<1>1. DOMAIN s = 1..l /\ l \in Nat
  OBVIOUS
<1>2. /\ t \in Seq(S) /\ Len(t) = l - 1
      /\ \A a \in 1..l - 1 : t[a] = IF a < n THEN s[a] ELSE s[a + 1]
  BY RemovedAt
<1> HIDE DEF t
<1>3. \A a \in 1..l - 1 : a \in 1..l /\ a + 1 \in 1..l
  BY <1>1
<1>4. \A a, b \in 1..l : s[a] = s[b] => a = b
  BY <1>1 DEF IsInjective
<1>5. IsInjective(t)
  <2> SUFFICES ASSUME NEW a \in 1..l - 1, NEW b \in 1..l - 1, t[a] = t[b] PROVE a = b
    BY <1>2 DEF IsInjective
  <2>1. CASE a < n /\ b < n
    BY <1>2, <1>3, <1>4, <2>1
  <2>2. CASE a < n /\ ~(b < n)
    <3>1. s[a] = s[b + 1]
      BY <1>2, <2>2
    <3> QED
      BY <1>1, <1>3, <1>4, <2>2, <3>1
  <2>3. CASE ~(a < n) /\ b < n
    <3>1. s[a + 1] = s[b]
      BY <1>2, <2>3
    <3> QED
      BY <1>1, <1>3, <1>4, <2>3, <3>1
  <2>4. CASE ~(a < n) /\ ~(b < n)
    <3>1. s[a + 1] = s[b + 1]
      BY <1>2, <2>4
    <3> QED
      BY <1>1, <1>3, <1>4, <3>1
  <2> QED
    BY <2>1, <2>2, <2>3, <2>4
<1>6. ASSUME NEW x PROVE Contains(t, x) <=> Contains(s, x) /\ x # s[n]
  <2>1. ASSUME Contains(t, x) PROVE Contains(s, x) /\ x # s[n]
    <3>1. PICK a \in 1..l - 1 : t[a] = x
      BY <1>2, <2>1 DEF Contains
    <3>2. PICK b \in 1..l : b # n /\ s[b] = x
      BY <1>1, <1>2, <1>3, <3>1
    <3> QED
      BY <1>4, <3>2 DEF Contains
  <2>2. ASSUME Contains(s, x), x # s[n] PROVE Contains(t, x)
    <3>1. PICK b \in 1..l : s[b] = x /\ b # n
      BY <2>2 DEF Contains
    <3>2. CASE b < n
      <4>1. b \in 1..l - 1 /\ t[b] = x
        BY <1>1, <1>2, <3>1, <3>2
      <4> QED
        BY <1>2, <4>1 DEF Contains
    <3>3. CASE ~(b < n)
      <4>1. b - 1 \in 1..l - 1 /\ ~(b - 1 < n) /\ (b - 1) + 1 = b
        BY <1>1, <3>1, <3>3
      <4>2. t[b - 1] = x
        BY <1>2, <3>1, <4>1
      <4> QED
        BY <1>2, <4>1, <4>2 DEF Contains
    <3> QED
      BY <3>2, <3>3
  <2> QED
    BY <2>1, <2>2
<1>7. ASSUME n # 1 PROVE t # << >> /\ Head(t) = Head(s)
  <2>1. 1 \in 1..l - 1 /\ 1 < n
    BY <1>1, <1>7
  <2>2. t[1] = s[1] /\ Len(t) # 0
    BY <1>1, <1>2, <2>1
  <2> QED
    BY <2>2
<1> QED
  BY <1>2, <1>5, <1>6, <1>7 DEF t

(* The tail of a list whose elements are on it once. *)
LEMMA TailWithoutHead ==
    ASSUME NEW S, NEW s \in Seq(S), IsInjective(s), s # << >>
    PROVE  /\ Head(s) \in S /\ Contains(s, Head(s))
           /\ Tail(s) \in Seq(S) /\ IsInjective(Tail(s))
           /\ \A x : Contains(Tail(s), x) <=> Contains(s, x) /\ x # Head(s)
<1> DEFINE l == Len(s)
           t == Tail(s)
<1>1. DOMAIN s = 1..l /\ l \in Nat \ {0} /\ Head(s) = s[1] /\ s[1] \in S
  OBVIOUS
<1>2. /\ t \in Seq(S) /\ Len(t) = l - 1
      /\ \A a \in 1..l - 1 : t[a] = s[a + 1]
  BY HeadTailProperties
<1> HIDE DEF t
<1>3. IsInjective(t)
  <2> SUFFICES ASSUME NEW a \in 1..l - 1, NEW b \in 1..l - 1, t[a] = t[b] PROVE a = b
    BY <1>2 DEF IsInjective
  <2>1. a + 1 \in 1..l /\ b + 1 \in 1..l /\ s[a + 1] = s[b + 1]
    BY <1>1, <1>2
  <2> QED
    BY <1>1, <2>1 DEF IsInjective
<1>4. ASSUME NEW x PROVE Contains(t, x) <=> Contains(s, x) /\ x # s[1]
  <2>1. ASSUME Contains(t, x) PROVE Contains(s, x) /\ x # s[1]
    <3>1. PICK a \in 1..l - 1 : t[a] = x
      BY <1>2, <2>1 DEF Contains
    <3>2. a + 1 \in 1..l /\ s[a + 1] = x /\ a + 1 # 1
      BY <1>1, <1>2, <3>1
    <3> QED
      BY <1>1, <3>2 DEF Contains, IsInjective
  <2>2. ASSUME Contains(s, x), x # s[1] PROVE Contains(t, x)
    <3>1. PICK b \in 1..l : s[b] = x /\ b # 1
      BY <2>2 DEF Contains
    <3>2. b - 1 \in 1..l - 1 /\ (b - 1) + 1 = b
      BY <1>1, <3>1
    <3>3. t[b - 1] = x
      BY <1>2, <3>1, <3>2
    <3> QED
      BY <1>2, <3>2, <3>3 DEF Contains
  <2> QED
    BY <2>1, <2>2
<1>5. Contains(s, s[1])
  BY <1>1 DEF Contains
<1> QED
  BY <1>1, <1>2, <1>3, <1>4, <1>5 DEF t

(* A list to whose tail something is added that was not on it. *)
LEMMA AppendedOne ==
    ASSUME NEW S, NEW s \in Seq(S), IsInjective(s), NEW e \in S, ~Contains(s, e)
    PROVE  /\ Append(s, e) \in Seq(S) /\ IsInjective(Append(s, e)) /\ Append(s, e) # << >>
           /\ \A x : Contains(Append(s, e), x) <=> Contains(s, x) \/ x = e
           /\ Head(Append(s, e)) = IF s = << >> THEN e ELSE Head(s)
<1> DEFINE l == Len(s)
           t == Append(s, e)
<1>1. DOMAIN s = 1..l /\ l \in Nat
  OBVIOUS
<1>2. /\ t \in Seq(S) /\ Len(t) = l + 1 /\ t # << >>
      /\ \A a \in 1..l : t[a] = s[a]
      /\ t[l + 1] = e
  BY AppendProperties
<1>3. Head(t) = IF s = << >> THEN e ELSE Head(s)
  BY HeadTailAppend
<1> HIDE DEF t
<1>4. \A a \in 1..l + 1 : a \in 1..l \/ a = l + 1
  BY <1>1
<1>5. \A a \in 1..l : s[a] # e
  BY DEF Contains
<1>6. IsInjective(t)
  <2> SUFFICES ASSUME NEW a \in 1..l + 1, NEW b \in 1..l + 1, t[a] = t[b] PROVE a = b
    BY <1>2 DEF IsInjective
  <2> QED
    BY <1>1, <1>2, <1>4, <1>5 DEF IsInjective
<1>7. ASSUME NEW x PROVE Contains(t, x) <=> Contains(s, x) \/ x = e
  <2>1. \A a \in 1..l : a \in 1..l + 1
    BY <1>1
  <2>2. l + 1 \in 1..l + 1
    BY <1>1
  <2> QED
    BY <1>2, <1>4, <2>1, <2>2 DEF Contains
<1> QED
  BY <1>2, <1>3, <1>6, <1>7 DEF t

(* A set of numbers that is not empty has a least one. *)
LEMMA NatMinimum ==
    ASSUME NEW S \in SUBSET Nat, S # {}
    PROVE  Min(S) \in S /\ \A x \in S : Min(S) <= x
<1>1. PICK x \in S : \A y \in S : ~ (<<y, x>> \in OpToRel(<, Nat))
  BY NatLessThanWellFounded, WFMin
<1>2. ASSUME NEW y \in S
      PROVE  x <= y
  <2>1. x \in Nat /\ y \in Nat
    OBVIOUS
  <2>2. y < x => <<y, x>> \in OpToRel(<, Nat)
    BY <2>1 DEF OpToRel
  <2>3. ~ (y < x)
    BY <1>1, <2>2
  <2> QED
    BY <2>1, <2>3
<1> QED
  BY <1>2 DEF Min

(* What one sequence after another holds. *)
LEMMA Concatenated ==
    ASSUME NEW S, NEW s \in Seq(S), NEW t \in Seq(S)
    PROVE  /\ s \o t \in Seq(S) /\ Len(s \o t) = Len(s) + Len(t)
           /\ Len(s) \in Nat /\ Len(t) \in Nat
           /\ \A n \in 1..Len(s) + Len(t) : (s \o t)[n] = IF n <= Len(s) THEN s[n] ELSE t[n - Len(s)]
OBVIOUS

(* What a sequence of numbers holds, and that it rises.                    *)
Members(s) == {s[n] : n \in 1..Len(s)}
Rising(s) == \A m, n \in 1..Len(s) : m < n => s[m] < s[n]

LEMMA NoMembers == Members(<< >>) = {} /\ Rising(<< >>) /\ << >> \in Seq(Nat) /\ Len(<< >>) = 0
BY DEF Members, Rising

LEMMA RangeIsMembers == ASSUME NEW s \in Seq(Nat) PROVE Range(s) = Members(s) /\ DOMAIN s = 1..Len(s)
BY DEF Range, Members

(* One after another that begins above it. *)
LEMMA MembersJoined ==
    ASSUME NEW a \in Seq(Nat), NEW b \in Seq(Nat)
    PROVE  /\ a \o b \in Seq(Nat)
           /\ Members(a \o b) = Members(a) \cup Members(b)
           /\ Rising(a \o b) => Rising(a)
           /\ Rising(a) /\ Rising(b) /\ (\A m \in Members(a), n \in Members(b) : m < n) => Rising(a \o b)
<1> DEFINE ab == a \o b
           j == Len(a)
           k == Len(b)
<1>1. ab \in Seq(Nat) /\ Len(ab) = j + k /\ j \in Nat /\ k \in Nat
      /\ \A n \in 1..j + k : ab[n] = IF n <= j THEN a[n] ELSE b[n - j]
  BY Concatenated
<1> HIDE DEF ab, j, k
<1>2. \A n \in 1..j : n \in 1..j + k /\ ab[n] = a[n]
  BY <1>1
<1>3. \A n \in 1..k : n + j \in 1..j + k /\ ab[n + j] = b[n]
  BY <1>1
<1>4. \A n \in 1..j + k : n \in 1..j \/ (n - j \in 1..k /\ ab[n] = b[n - j])
  BY <1>1
<1>5. ASSUME NEW x \in Members(ab) PROVE x \in Members(a) \cup Members(b)
  <2>1. PICK n \in 1..j + k : x = ab[n]
    BY <1>1 DEF Members
  <2> QED
    BY <1>2, <1>4, <2>1 DEF Members, j, k
<1>6. ASSUME NEW x \in Members(a) PROVE x \in Members(ab)
  <2>1. PICK n \in 1..j : x = a[n]
    BY DEF Members, j
  <2>2. n \in 1..Len(ab) /\ ab[n] = x
    BY <1>1, <1>2, <2>1
  <2> QED
    BY <2>2 DEF Members
<1>7. ASSUME NEW x \in Members(b) PROVE x \in Members(ab)
  <2>1. PICK n \in 1..k : x = b[n]
    BY DEF Members, k
  <2>2. n + j \in 1..Len(ab) /\ ab[n + j] = x
    BY <1>1, <1>3, <2>1
  <2> QED
    BY <2>2 DEF Members
<1>8. Rising(ab) => Rising(a)
  BY <1>1, <1>2 DEF Rising, j
<1>9. ASSUME Rising(a), Rising(b), \A m \in Members(a), n \in Members(b) : m < n
      PROVE  Rising(ab)
  <2> SUFFICES ASSUME NEW m \in 1..j + k, NEW n \in 1..j + k, m < n PROVE ab[m] < ab[n]
    BY <1>1 DEF Rising
  <2>1. CASE n \in 1..j
    <3>1. m \in 1..j
      BY <1>1, <2>1
    <3> QED
      BY <1>2, <1>9, <2>1, <3>1 DEF Rising, j
  <2>2. CASE n - j \in 1..k /\ ab[n] = b[n - j]
    <3>1. CASE m \in 1..j
      <4>1. a[m] \in Members(a) /\ b[n - j] \in Members(b)
        BY <2>2, <3>1 DEF Members, j, k
      <4> QED
        BY <1>2, <1>9, <2>2, <3>1, <4>1
    <3>2. CASE m - j \in 1..k /\ ab[m] = b[m - j]
      <4>1. m - j < n - j
        BY <1>1
      <4> QED
        BY <1>9, <2>2, <3>2, <4>1 DEF Rising, k
    <3> QED
      BY <1>4, <3>1, <3>2
  <2> QED
    BY <1>4, <2>1, <2>2
<1> QED
  BY <1>1, <1>5, <1>6, <1>7, <1>8, <1>9 DEF ab

LEMMA Reassociated ==
    ASSUME NEW s \in Seq(Nat), NEW t \in Seq(Nat), NEW u \in Seq(Nat)
    PROVE  s \o (t \o u) = (s \o t) \o u
<1>1. (s \o t) \o u = s \o (t \o u)
  BY SMTT(30), ConcatAssociative
<1> QED
  BY Zenon, <1>1

(* s enumerates S in ascending order. *)
Enumerates(s, S) ==
    /\ s \in [1..Cardinality(S) -> S]
    /\ \A i, j \in 1..Cardinality(S) : i < j => s[i] < s[j]
    /\ \A x \in S : \E i \in 1..Cardinality(S) : s[i] = x

LEMMA FiniteBelow ==
    ASSUME NEW n \in Nat, NEW S \in SUBSET (1..n)
    PROVE  IsFiniteSet(S)
<1>1. 1 \in Int /\ n \in Int
  OBVIOUS
<1>2. IsFiniteSet(1..n)
  BY <1>1, FS_Interval
<1> QED
  BY <1>2, FS_Subset

(* Any set of places can be enumerated. *)
LEMMA Enumerable ==
    ASSUME NEW n \in Nat, NEW S \in SUBSET (1..n)
    PROVE  Cardinality(S) \in 0..n /\ \E s : Enumerates(s, S)
<1> DEFINE Good(k) == \A T \in SUBSET (1..k) : Cardinality(T) \in 0..k /\ \E s : Enumerates(s, T)
           Bad == {k \in Nat : ~ Good(k)}
<1>1. Bad = {}
  <2> SUFFICES ASSUME Bad # {} PROVE FALSE
    OBVIOUS
  <2> DEFINE m == Min(Bad)
  <2>1. m \in Bad /\ \A k \in Bad : m <= k
    BY NatMinimum
  <2> HIDE DEF m
  <2>2. m \in Nat /\ ~ Good(m)
    BY <2>1
  <2>3. PICK T \in SUBSET (1..m) : ~ (Cardinality(T) \in 0..m /\ \E s : Enumerates(s, T))
    BY <2>2
  <2>4. CASE m \notin T
    <3>1. m # 0
      <4> SUFFICES ASSUME m = 0 PROVE FALSE
        OBVIOUS
      <4>1. T = {}
        BY <2>3
      <4>2. Cardinality(T) = 0
        BY <4>1, FS_EmptySet
      <4>3. Enumerates(<< >>, T)
        BY <4>1, <4>2 DEF Enumerates
      <4> QED
        BY <2>3, <4>2, <4>3
    <3>2. m - 1 \in Nat /\ T \in SUBSET (1..m - 1)
      BY <2>2, <2>3, <2>4, <3>1
    <3>3. Good(m - 1)
      BY <2>1, <2>2, <3>2
    <3>4. Cardinality(T) \in 0..m - 1 /\ \E s : Enumerates(s, T)
      BY <3>2, <3>3
    <3>5. Cardinality(T) \in 0..m
      BY <2>2, <3>2, <3>4
    <3> QED
      BY <2>3, <3>4, <3>5
  <2>5. CASE m \in T
    <3> DEFINE T1 == T \ {m}
    <3>1. m \in 1..m /\ m # 0
      BY <2>3, <2>5
    <3>2. m - 1 \in Nat /\ T1 \in SUBSET (1..m - 1)
      BY <2>2, <2>3, <3>1
    <3>3. Good(m - 1)
      BY <2>1, <2>2, <3>2
    <3>4. Cardinality(T1) \in 0..m - 1 /\ \E s : Enumerates(s, T1)
      BY <3>2, <3>3
    <3>5. PICK s : Enumerates(s, T1)
      BY <3>4
    <3>6. IsFiniteSet(T1)
      BY <3>2, FiniteBelow
    <3>7. T = T1 \cup {m} /\ m \notin T1
      BY <2>5
    <3>8. Cardinality(T) = Cardinality(T1) + 1
      BY <3>6, <3>7, FS_AddElement
    <3> DEFINE c == Cardinality(T1)
               t == [i \in 1..c + 1 |-> IF i = c + 1 THEN m ELSE s[i]]
    <3>9. c \in Nat /\ s \in [1..c -> T1]
      <4>1. c \in 0..m - 1
        BY <3>4
      <4>2. c \in Nat
        BY <3>2, <4>1
      <4> QED
        BY <3>5, <4>2 DEF Enumerates
    <3>10. \A x \in T1 : x \in Nat /\ x < m
      BY <2>2, <3>2
    <3> HIDE DEF c, T1
    <3>11. t \in [1..c + 1 -> T]
      BY <3>7, <3>9
    <3>12. \A i, j \in 1..c + 1 : i < j => t[i] < t[j]
      <4> SUFFICES ASSUME NEW i \in 1..c + 1, NEW j \in 1..c + 1, i < j
                   PROVE  t[i] < t[j]
        OBVIOUS
      <4>1. i \in 1..c /\ t[i] = s[i] /\ s[i] \in T1
        BY <3>9
      <4>2. CASE j = c + 1
        BY <3>10, <4>1, <4>2
      <4>3. CASE j # c + 1
        <5>1. j \in 1..c /\ t[j] = s[j]
          BY <3>9, <4>3
        <5> QED
          BY <3>5, <4>1, <5>1 DEF Enumerates, c
      <4> QED
        BY <4>2, <4>3
    <3>13. \A x \in T : \E i \in 1..c + 1 : t[i] = x
      <4> SUFFICES ASSUME NEW x \in T PROVE \E i \in 1..c + 1 : t[i] = x
        OBVIOUS
      <4>1. CASE x = m
        <5>1. c + 1 \in 1..c + 1 /\ t[c + 1] = m
          BY <3>9
        <5> QED
          BY <4>1, <5>1
      <4>2. CASE x # m
        <5>1. PICK i \in 1..c : s[i] = x
          BY <3>5, <3>7, <4>2 DEF Enumerates, c
        <5>2. i \in 1..c + 1 /\ t[i] = s[i]
          BY <3>9
        <5> QED
          BY <5>1, <5>2
      <4> QED
        BY <4>1, <4>2
    <3>14. Cardinality(T) = c + 1
      BY <3>8 DEF c
    <3>15. Enumerates(t, T)
      BY <3>11, <3>12, <3>13, <3>14 DEF Enumerates
    <3>16. Cardinality(T) \in 0..m
      BY <2>2, <3>2, <3>4, <3>8
    <3> QED
      BY <2>3, <3>15, <3>16
  <2> QED
    BY <2>4, <2>5
<1> QED
  BY <1>1
=============================================================================
