---------------------------- MODULE HresTimerProofs ----------------------------
(***************************************************************************)
(* Proofs about HresTimer, for every number of timers, of calls and of     *)
(* messages.  The argument has three layers:                               *)
(*                                                                         *)
(*   ListInv     the active list is sorted and without repetition, and the *)
(*               timer that timer_set is about to insert is ready for it;  *)
(*   Comparator  a comparator that is off has been passed, and one that    *)
(*               the task relies on is on, no later than the first timer;  *)
(*   Sent        every arming has a number of its own, a message bears the *)
(*               number of the arming that it reports, and a one-shot      *)
(*               timer that was reported or stopped is off the list.       *)
(***************************************************************************)
(* Each layer has a lemma for the steps that leave its state alone, one    *)
(* for the list operations, and one that goes through the actions.         *)
(***************************************************************************)
EXTENDS HresTimer, TLAPS, SequenceTheorems, FiniteSetTheorems, WellFoundedInduction

-----------------------------------------------------------------------------
(* Lemmas about sequences and numbers.                                     *)

LEMMA InsertAtProperties ==
  ASSUME NEW S, NEW s \in Seq(S), NEW i \in 1 .. Len(s) + 1, NEW e \in S
  PROVE  /\ InsertAt(s, i, e) \in Seq(S)
         /\ Len(InsertAt(s, i, e)) = Len(s) + 1
         /\ \A j \in 1 .. Len(s) + 1 :
              /\ j < i => InsertAt(s, i, e)[j] = s[j]
              /\ j = i => InsertAt(s, i, e)[j] = e
              /\ j > i => InsertAt(s, i, e)[j] = s[j - 1]
<1> DEFINE a == SubSeq(s, 1, i - 1)
           b == SubSeq(s, i, Len(s))
<1>0. Len(s) \in Nat /\ i \in Nat
  BY LenProperties
<1>1. /\ a \in Seq(S) /\ Len(a) = i - 1
      /\ \A j \in 1 .. i - 1 : a[j] = s[j]
  <2>1. \A j \in 1 .. i - 1 : s[j] \in S
    BY ElementOfSeq
  <2>2. QED
    BY <2>1, SubSeqProperties
<1>2. /\ b \in Seq(S) /\ Len(b) = Len(s) - i + 1
      /\ \A j \in 1 .. Len(s) - i + 1 : b[j] = s[i + j - 1]
  <2>1. \A j \in i .. Len(s) : s[j] \in S
    BY ElementOfSeq
  <2>2. QED
    BY <2>1, SubSeqProperties
<1>3. <<e>> \in Seq(S) /\ Len(<<e>>) = 1 /\ <<e>>[1] = e
  OBVIOUS
<1> HIDE DEF a, b
<1>4. /\ a \o <<e>> \in Seq(S) /\ Len(a \o <<e>>) = i
      /\ \A j \in 1 .. i : (a \o <<e>>)[j] = IF j < i THEN s[j] ELSE e
  <2>1. /\ a \o <<e>> \in Seq(S) /\ Len(a \o <<e>>) = i
        /\ \A j \in 1 .. i : (a \o <<e>>)[j] = IF j <= i - 1 THEN a[j] ELSE <<e>>[j - (i - 1)]
    <3>1. /\ a \o <<e>> \in Seq(S) /\ Len(a \o <<e>>) = Len(a) + Len(<<e>>)
          /\ \A j \in 1 .. Len(a) + Len(<<e>>) :
               (a \o <<e>>)[j] = IF j <= Len(a) THEN a[j] ELSE <<e>>[j - Len(a)]
      BY <1>1, <1>3, ConcatProperties, Zenon
    <3>2. Len(a) + Len(<<e>>) = i /\ Len(a) = i - 1
      BY <1>1, <1>3
    <3>3. QED
      BY <3>1, <3>2, Zenon
  <2>2. ASSUME NEW j \in 1 .. i PROVE (a \o <<e>>)[j] = IF j < i THEN s[j] ELSE e
    <3>1. CASE j < i
      BY <3>1, <2>1, <1>1
    <3>2. CASE j = i
      <4>1. j - (i - 1) = 1 /\ ~ (j <= i - 1)
        BY <3>2
      <4>2. QED
        BY <3>2, <4>1, <2>1, <1>3
    <3>3. j < i \/ j = i
      BY <1>0
    <3>4. QED
      BY <3>1, <3>2, <3>3, Zenon
  <2>3. QED
    BY <2>1, <2>2, <1>0
<1>5. LET c == (a \o <<e>>) \o b IN
      /\ c \in Seq(S) /\ Len(c) = Len(s) + 1
      /\ \A j \in 1 .. Len(s) + 1 : c[j] = IF j <= i THEN (a \o <<e>>)[j] ELSE b[j - i]
  <2> DEFINE d == a \o <<e>>
  <2>0. d \in Seq(S) /\ Len(d) = i
    BY <1>4
  <2> HIDE DEF d
  <2>1. /\ d \o b \in Seq(S) /\ Len(d \o b) = Len(d) + Len(b)
        /\ \A j \in 1 .. Len(d) + Len(b) :
             (d \o b)[j] = IF j <= Len(d) THEN d[j] ELSE b[j - Len(d)]
    BY <2>0, <1>2, ConcatProperties, Zenon
  <2>2. Len(d) + Len(b) = Len(s) + 1 /\ Len(d) = i
    BY <2>0, <1>0, <1>2
  <2>3. QED
    BY <2>1, <2>2, Zenon DEF d
<1>6. InsertAt(s, i, e) = (a \o <<e>>) \o b
  BY DEF InsertAt, a, b
<1>7. ASSUME NEW j \in 1 .. Len(s) + 1
      PROVE  /\ j < i => InsertAt(s, i, e)[j] = s[j]
             /\ j = i => InsertAt(s, i, e)[j] = e
             /\ j > i => InsertAt(s, i, e)[j] = s[j - 1]
  <2>1. CASE j <= i
    BY <2>1, <1>4, <1>5, <1>6
  <2>2. CASE j > i
    <3>1. j - i \in 1 .. Len(s) - i + 1 /\ i + (j - i) - 1 = j - 1
      BY <2>2
    <3>2. b[j - i] = s[j - 1]
      BY <3>1, <1>2
    <3>3. QED
      BY <2>2, <3>2, <1>5, <1>6
  <2>3. QED
    BY <2>1, <2>2, <1>0
<1>8. QED
  BY <1>5, <1>6, <1>7

LEMMA RemoveAtProperties ==
  ASSUME NEW S, NEW s \in Seq(S), NEW i \in 1 .. Len(s)
  PROVE  /\ RemoveAt(s, i) \in Seq(S)
         /\ Len(RemoveAt(s, i)) = Len(s) - 1
         /\ \A j \in 1 .. Len(s) - 1 :
              RemoveAt(s, i)[j] = IF j < i THEN s[j] ELSE s[j + 1]
<1> DEFINE a == SubSeq(s, 1, i - 1)
           b == SubSeq(s, i + 1, Len(s))
<1>0. Len(s) \in Nat /\ i \in Nat
  BY LenProperties
<1>1. /\ a \in Seq(S) /\ Len(a) = i - 1
      /\ \A j \in 1 .. i - 1 : a[j] = s[j]
  <2>1. \A j \in 1 .. i - 1 : s[j] \in S
    BY ElementOfSeq
  <2>2. QED
    BY <2>1, SubSeqProperties
<1>2. /\ b \in Seq(S) /\ Len(b) = Len(s) - i
      /\ \A j \in 1 .. Len(s) - i : b[j] = s[i + j]
  <2>1. \A j \in i + 1 .. Len(s) : s[j] \in S
    BY ElementOfSeq
  <2>2. QED
    BY <2>1, SubSeqProperties
<1> HIDE DEF a, b
<1>3. /\ a \o b \in Seq(S) /\ Len(a \o b) = Len(s) - 1
      /\ \A j \in 1 .. Len(s) - 1 : (a \o b)[j] = IF j <= i - 1 THEN a[j] ELSE b[j - (i - 1)]
  <2>1. /\ a \o b \in Seq(S) /\ Len(a \o b) = Len(a) + Len(b)
        /\ \A j \in 1 .. Len(a) + Len(b) :
             (a \o b)[j] = IF j <= Len(a) THEN a[j] ELSE b[j - Len(a)]
    BY <1>1, <1>2, ConcatProperties, Zenon
  <2>2. Len(a) + Len(b) = Len(s) - 1
    BY <1>1, <1>2
  <2>3. QED
    BY <2>1, <2>2, <1>1, Zenon
<1>4. RemoveAt(s, i) = a \o b
  BY DEF RemoveAt, a, b
<1>5. ASSUME NEW j \in 1 .. Len(s) - 1
      PROVE  (a \o b)[j] = IF j < i THEN s[j] ELSE s[j + 1]
  <2>1. CASE j < i
    BY <2>1, <1>1, <1>3
  <2>2. CASE j >= i
    <3>1. j - (i - 1) \in 1 .. Len(s) - i /\ i + (j - (i - 1)) = j + 1
      BY <2>2
    <3>2. b[j - (i - 1)] = s[j + 1]
      BY <3>1, <1>2
    <3>3. QED
      BY <2>2, <3>2, <1>3
  <2>3. j < i \/ j >= i
    BY <1>0
  <2>4. QED
    BY <2>1, <2>2, <2>3, Zenon
<1>6. QED
  BY <1>3, <1>4, <1>5

\* A set of natural numbers that is not empty has a least member.
LEMMA Least ==
  ASSUME NEW T \in SUBSET Nat, T # {}
  PROVE  \E x \in T : \A y \in T : x <= y
<1> DEFINE R == OpToRel(<, Nat)
<1>1. PICK x \in T : \A y \in T : ~ (<<y, x>> \in R)
  <2>1. IsWellFoundedOn(R, Nat)
    BY NatLessThanWellFounded, Zenon
  <2> HIDE DEF R
  <2>2. QED
    BY <2>1, WFMin, Zenon
<1>2. \A y \in T : ~ (y < x)
  <2>1. ASSUME NEW y \in T, y < x PROVE FALSE
    <3>1. y \in Nat /\ x \in Nat
      OBVIOUS
    <3>2. <<y, x>> \in R
      BY <2>1, <3>1 DEF OpToRel
    <3>3. QED
      BY <3>2, <1>1
  <2>2. QED
    BY <2>1
<1>3. QED
  BY <1>2

\* ... and, if it is bounded, a greatest one.
LEMMA Greatest ==
  ASSUME NEW T \in SUBSET Nat, T # {}, NEW b \in Nat, \A x \in T : x <= b
  PROVE  /\ Max(T) \in T
         /\ \A y \in T : Max(T) >= y
<1> DEFINE U == {z \in Nat : \A y \in T : y <= z}
<1>1. PICK z \in U : \A u \in U : z <= u
  <2>1. b \in U
    OBVIOUS
  <2> HIDE DEF U
  <2>2. U \in SUBSET Nat
    BY DEF U
  <2>3. QED
    BY <2>1, <2>2, Least
<1>2. z \in T
  <2>1. SUFFICES ASSUME z \notin T PROVE FALSE
    OBVIOUS
  <2>2. z \in Nat /\ \A y \in T : y < z
    BY <2>1, <1>1
  <2>3. PICK y \in T : TRUE
    OBVIOUS
  <2>4. z - 1 \in U
    BY <2>2, <2>3
  <2>5. QED
    BY <2>4, <1>1, <2>2
<1>3. \E x \in T : \A y \in T : x >= y
  BY <1>1, <1>2
<1>4. QED
  BY <1>3 DEF Max

LEMMA MinIsLeast ==
  ASSUME NEW T \in SUBSET Nat, T # {}
  PROVE  Min(T) \in T /\ \A y \in T : Min(T) <= y
BY Least DEF Min

LEMMA MaxPair ==
  ASSUME NEW a \in Nat, NEW b \in Nat
  PROVE  Max({a, b}) = IF a >= b THEN a ELSE b
BY DEF Max

LEMMA NextMultiple ==
  ASSUME NEW a \in Nat, NEW d \in Nat \ {0}
  PROVE  (a + (d - (a % d))) % d = 0
OBVIOUS
LEMMA ModRange ==
  ASSUME NEW a \in Nat, NEW d \in Nat \ {0}
  PROVE  a % d \in 0 .. d - 1
OBVIOUS

-----------------------------------------------------------------------------
(* The list operations.                                                    *)

\* Each timer once, in the order of their expiry.
Sorted(list, nd) ==
  \A i, j \in 1 .. Len(list) :
    i < j => list[i] # list[j] /\ nd[list[i]].exp <= nd[list[j]].exp

\* timer_insert puts the timer into a sorted list and leaves it sorted.
LEMMA InsertedSound ==
  ASSUME NEW list \in Seq(1 .. Nodes), NEW nd, NEW n \in 1 .. Nodes,
         \A k \in 1 .. Nodes : nd[k].exp \in Nat,
         Sorted(list, nd), n \notin ToSet(list)
  PROVE  /\ Inserted(list, nd, n) \in Seq(1 .. Nodes)
         /\ Inserted(list, nd, n) # <<>>
         /\ ToSet(Inserted(list, nd, n)) = ToSet(list) \cup {n}
         /\ Sorted(Inserted(list, nd, n), nd)
<1> DEFINE ahead == {k \in 0 .. Len(list) : \A j \in 1 .. k : nd[list[j]].exp <= nd[n].exp}
           res == Inserted(list, nd, n)
<1>0. /\ Len(list) \in Nat /\ DOMAIN list = 1 .. Len(list)
      /\ \A j \in 1 .. Len(list) : list[j] \in 1 .. Nodes /\ list[j] # n /\ nd[list[j]].exp \in Nat
  BY LenProperties DEF ToSet
<1>1. PICK m : m = Max(ahead) /\ m \in ahead /\ \A k \in ahead : m >= k
  <2>1. ahead \in SUBSET Nat /\ 0 \in ahead /\ \A k \in ahead : k <= Len(list)
    BY <1>0
  <2> HIDE DEF ahead
  <2>2. QED
    BY <2>1, <1>0, Greatest
<1>3. res = InsertAt(list, m + 1, n)
  BY <1>1 DEF Inserted
<1>4. m \in 0 .. Len(list) /\ \A j \in 1 .. m : nd[list[j]].exp <= nd[n].exp
  BY <1>1
<1>5. m < Len(list) => nd[list[m + 1]].exp > nd[n].exp
  <2>1. SUFFICES ASSUME m < Len(list), nd[list[m + 1]].exp <= nd[n].exp PROVE FALSE
    BY <1>0, <1>4
  <2>2. m + 1 \in ahead
    BY <1>4, <2>1, <1>0
  <2>3. QED
    BY <2>2, <1>1, <1>4
<1> HIDE DEF ahead, res
<1>6. /\ res \in Seq(1 .. Nodes) /\ Len(res) = Len(list) + 1
      /\ \A j \in 1 .. Len(list) + 1 :
           /\ j < m + 1 => res[j] = list[j]
           /\ j = m + 1 => res[j] = n
           /\ j > m + 1 => res[j] = list[j - 1]
  <2>1. m + 1 \in 1 .. Len(list) + 1
    BY <1>4, <1>0
  <2>2. PICK p \in 1 .. Len(list) + 1 : p = m + 1
    BY <2>1
  <2>3. /\ InsertAt(list, p, n) \in Seq(1 .. Nodes)
        /\ Len(InsertAt(list, p, n)) = Len(list) + 1
        /\ \A j \in 1 .. Len(list) + 1 :
             /\ j < p => InsertAt(list, p, n)[j] = list[j]
             /\ j = p => InsertAt(list, p, n)[j] = n
             /\ j > p => InsertAt(list, p, n)[j] = list[j - 1]
    <3> DEFINE T == 1 .. Nodes
    <3>1. list \in Seq(T) /\ n \in T
      OBVIOUS
    <3> HIDE DEF T
    <3>2. InsertAt(list, p, n) \in Seq(T)
      BY <3>1, InsertAtProperties
    <3>3. Len(InsertAt(list, p, n)) = Len(list) + 1
      BY <3>1, InsertAtProperties
    <3>4. ASSUME NEW j \in 1 .. Len(list) + 1
          PROVE  /\ j < p => InsertAt(list, p, n)[j] = list[j]
                 /\ j = p => InsertAt(list, p, n)[j] = n
                 /\ j > p => InsertAt(list, p, n)[j] = list[j - 1]
      BY <3>1, InsertAtProperties
    <3>5. QED
      BY <3>2, <3>3, <3>4 DEF T
  <2>4. res = InsertAt(list, p, n)
    BY <1>3, <2>2
  <2>5. QED
    BY <2>2, <2>3, <2>4, Zenon
<1>7. ToSet(res) = ToSet(list) \cup {n}
  <2>1. DOMAIN res = 1 .. Len(list) + 1
    BY <1>6, LenProperties
  <2>2. ASSUME NEW x \in ToSet(res) PROVE x \in ToSet(list) \cup {n}
    <3>1. PICK j \in 1 .. Len(list) + 1 : x = res[j]
      BY <2>1 DEF ToSet
    <3>2. CASE j < m + 1
      <4>1. j \in 1 .. Len(list) /\ x = list[j]
        BY <3>1, <3>2, <1>6, <1>4, <1>0
      <4>2. QED
        BY <4>1, <1>0 DEF ToSet
    <3>3. CASE j = m + 1
      BY <3>1, <3>3, <1>6, <1>4, <1>0
    <3>4. CASE j > m + 1
      <4>1. j - 1 \in 1 .. Len(list) /\ x = list[j - 1]
        BY <3>1, <3>4, <1>6, <1>4, <1>0
      <4>2. QED
        BY <4>1, <1>0 DEF ToSet
    <3>5. QED
      BY <3>2, <3>3, <3>4, <1>4
  <2>3. ASSUME NEW j \in 1 .. Len(list) PROVE list[j] \in ToSet(res)
    <3>1. CASE j < m + 1
      BY <3>1, <2>1, <1>6, <1>0 DEF ToSet
    <3>2. CASE j >= m + 1
      <4>1. j + 1 \in 1 .. Len(list) + 1 /\ res[j + 1] = list[j]
        BY <3>2, <1>6, <1>4, <1>0
      <4>2. QED
        BY <4>1, <2>1 DEF ToSet
    <3>3. QED
      BY <3>1, <3>2, <1>4
  <2>4. n \in ToSet(res)
    <3>1. m + 1 \in 1 .. Len(list) + 1 /\ res[m + 1] = n
      BY <1>6, <1>4, <1>0
    <3>2. QED
      BY <3>1, <2>1 DEF ToSet
  <2>5. QED
    BY <2>2, <2>3, <2>4, <1>0 DEF ToSet
<1>8. Sorted(res, nd)
  <2>1. SUFFICES ASSUME NEW i \in 1 .. Len(list) + 1, NEW j \in 1 .. Len(list) + 1, i < j
                 PROVE  res[i] # res[j] /\ nd[res[i]].exp <= nd[res[j]].exp
    BY <1>6 DEF Sorted
  <2>2. CASE j < m + 1
    BY <2>1, <2>2, <1>6, <1>4, <1>0 DEF Sorted
  <2>3. CASE j = m + 1
    <3>1. i \in 1 .. m /\ i \in 1 .. Len(list)
      BY <2>1, <2>3, <1>4, <1>0
    <3>2. res[i] = list[i] /\ res[j] = n
      BY <3>1, <2>3, <1>6, <1>4, <1>0
    <3>3. QED
      BY <3>1, <3>2, <1>4, <1>0
  <2>4. CASE j > m + 1 /\ i = m + 1
    <3>1. res[i] = n /\ res[j] = list[j - 1]
      BY <2>4, <1>6, <1>4, <1>0
    <3>2. j - 1 \in 1 .. Len(list) /\ m + 1 \in 1 .. Len(list) /\ m + 1 <= j - 1
      BY <2>4, <1>4, <1>0
    <3>3. nd[list[m + 1]].exp <= nd[list[j - 1]].exp
      BY <3>2, <1>0 DEF Sorted
    <3>4. nd[list[m + 1]].exp > nd[n].exp
      BY <3>2, <1>5, <1>4, <1>0
    <3>5. list[j - 1] # n /\ nd[list[j - 1]].exp \in Nat /\ nd[list[m + 1]].exp \in Nat
      BY <3>2, <1>0
    <3>6. QED
      BY <3>1, <3>3, <3>4, <3>5
  <2>5. CASE j > m + 1 /\ i < m + 1
    <3>1. res[i] = list[i] /\ res[j] = list[j - 1]
      BY <2>5, <1>6, <1>4, <1>0
    <3>2. i \in 1 .. Len(list) /\ j - 1 \in 1 .. Len(list) /\ i < j - 1
      BY <2>5, <1>4, <1>0
    <3>4. QED
      BY <3>1, <3>2 DEF Sorted
  <2>6. CASE j > m + 1 /\ i > m + 1
    <3>1. res[i] = list[i - 1] /\ res[j] = list[j - 1]
      BY <2>1, <2>6, <1>6, <1>4, <1>0
    <3>2. i - 1 \in 1 .. Len(list) /\ j - 1 \in 1 .. Len(list) /\ i - 1 < j - 1
      BY <2>1, <2>6, <1>4, <1>0
    <3>4. QED
      BY <3>1, <3>2 DEF Sorted
  <2>7. QED
    BY <2>2, <2>3, <2>4, <2>5, <2>6, <1>4
<1>9. res # <<>>
  BY <1>6, <1>0
<1>10. QED
  BY <1>6, <1>7, <1>8, <1>9 DEF res

\* timer_remove takes the timer out of a sorted list and leaves it sorted.
LEMMA WithoutSound ==
  ASSUME active \in Seq(1 .. Nodes), NEW nd, Sorted(active, nd), NEW n
  PROVE  /\ Without(n) \in Seq(1 .. Nodes)
         /\ ToSet(Without(n)) = ToSet(active) \ {n}
         /\ Sorted(Without(n), nd)
         /\ n \notin ToSet(active) => Without(n) = active
         /\ Without(n) # <<>> =>
              \/ Head(Without(n)) = Head(active)
              \/ nd[Head(active)].exp <= nd[Head(Without(n))].exp
<1> DEFINE at == {k \in 1 .. Len(active) : active[k] = n}
           res == Without(n)
<1>0. Len(active) \in Nat /\ DOMAIN active = 1 .. Len(active)
  BY LenProperties
<1>1. CASE n \notin ToSet(active)
  <2>1. at = {}
    BY <1>1, <1>0 DEF ToSet
  <2>2. res = active
    BY <2>1 DEF Without
  <2>3. QED
    BY <2>2, <1>1 DEF res
<1>2. CASE n \in ToSet(active)
  <2>1. PICK m : m = Min(at) /\ m \in at
    <3>1. at \in SUBSET Nat /\ at # {}
      BY <1>2, <1>0 DEF ToSet
    <3> HIDE DEF at
    <3>2. QED
      BY <3>1, MinIsLeast
  <2>2. m \in 1 .. Len(active) /\ active[m] = n
    BY <2>1
  <2>3. res = RemoveAt(active, m)
    BY <2>1, <2>2 DEF Without
  <2> HIDE DEF at, res
  <2>4. /\ res \in Seq(1 .. Nodes) /\ Len(res) = Len(active) - 1
        /\ \A j \in 1 .. Len(active) - 1 :
             res[j] = IF j < m THEN active[j] ELSE active[j + 1]
    BY <2>2, <2>3, RemoveAtProperties, Zenon
  <2>5. DOMAIN res = 1 .. Len(active) - 1
    BY <2>4, LenProperties
  <2>6. Sorted(res, nd)
    <3>1. SUFFICES ASSUME NEW i \in 1 .. Len(active) - 1, NEW j \in 1 .. Len(active) - 1, i < j
                   PROVE  res[i] # res[j] /\ nd[res[i]].exp <= nd[res[j]].exp
      BY <2>4 DEF Sorted
    <3>4. ASSUME NEW k \in 1 .. Len(active) - 1
          PROVE  (k < m => res[k] = active[k]) /\ (k >= m => res[k] = active[k + 1])
      <4>1. k \in Int /\ m \in Int /\ (k >= m => ~ (k < m))
        BY <2>2, <1>0
      <4>2. res[k] = IF k < m THEN active[k] ELSE active[k + 1]
        BY <2>4
      <4>3. QED
        BY <4>1, <4>2
    <3>2. PICK a, b \in 1 .. Len(active) : a < b /\ res[i] = active[a] /\ res[j] = active[b]
      <4>1. CASE j < m
        BY <3>1, <4>1, <2>4, <2>2, <1>0, SMTT(60)
      <4>2. CASE i < m /\ j >= m
        <5>1. j + 1 \in 1 .. Len(active) /\ i \in 1 .. Len(active) /\ i < j + 1
          BY <3>1, <4>2, <2>2, <1>0
        <5>2. res[i] = active[i] /\ res[j] = active[j + 1]
          BY <4>2, <3>4
        <5>3. QED
          BY <5>1, <5>2
      <4>3. CASE i >= m
        <5>1. /\ j + 1 \in 1 .. Len(active) /\ i + 1 \in 1 .. Len(active)
              /\ i + 1 < j + 1 /\ j >= m
          BY <3>1, <4>3, <2>2, <1>0
        <5>2. res[i] = active[i + 1] /\ res[j] = active[j + 1]
          BY <5>1, <4>3, <3>4
        <5>3. QED
          BY <5>1, <5>2
      <4>4. QED
        BY <4>1, <4>2, <4>3, <2>2, <1>0
    <3>3. QED
      BY <3>2 DEF Sorted
  <2>7. ToSet(res) = ToSet(active) \ {n}
    <3>1. ASSUME NEW j \in 1 .. Len(active) - 1
          PROVE  res[j] \in ToSet(active) /\ res[j] # n
      <4>1. CASE j < m
        BY <4>1, <2>4, <2>2, <1>0, SMTT(60) DEF Sorted, ToSet
      <4>2. CASE j >= m
        <5>1. j + 1 \in 1 .. Len(active) /\ m < j + 1 /\ res[j] = active[j + 1]
          BY <4>2, <2>4, <2>2, <1>0
        <5>2. QED
          BY <5>1, <2>2, <1>0 DEF Sorted, ToSet
      <4>3. QED
        BY <4>1, <4>2, <2>2, <1>0
    <3>2. ASSUME NEW j \in 1 .. Len(active), active[j] # n
          PROVE  active[j] \in ToSet(res)
      <4>1. CASE j < m
        BY <4>1, <2>4, <2>5, <2>2, <1>0 DEF ToSet
      <4>2. CASE j > m
        <5>1. j - 1 \in 1 .. Len(active) - 1 /\ res[j - 1] = active[j]
          BY <4>2, <2>4, <2>2, <1>0
        <5>2. QED
          BY <5>1, <2>5 DEF ToSet
      <4>3. QED
        BY <4>1, <4>2, <3>2, <2>2, <1>0
    <3>3. QED
      BY <3>1, <3>2, <2>5, <1>0 DEF ToSet
  <2>8. ASSUME res # <<>>
        PROVE  Head(res) = Head(active) \/ nd[Head(active)].exp <= nd[Head(res)].exp
    <3>1. Len(active) >= 2 /\ Head(res) = res[1] /\ Head(active) = active[1]
      BY <2>8, <2>4, <1>0
    <3>2. CASE m > 1
      BY <3>1, <3>2, <2>4, <1>0
    <3>3. CASE m = 1
      <4>1. res[1] = active[2] /\ 1 \in 1 .. Len(active) /\ 2 \in 1 .. Len(active)
        BY <3>1, <3>3, <2>4, <1>0
      <4>2. QED
        BY <3>1, <4>1 DEF Sorted
    <3>4. QED
      BY <3>2, <3>3, <2>2
  <2>9. QED
    BY <1>2, <2>4, <2>6, <2>7, <2>8 DEF res
<1>3. QED
  BY <1>1, <1>2

-----------------------------------------------------------------------------
(* The inductive invariants.                                               *)

\* The timer that timer_set is about to insert is ready for it, and the timer
\* task does not hold the mutex meanwhile.
SettingReady ==
  /\ setting # 0 => node[setting].st = "set" /\ node[setting].dur > 0
  /\ tt.pc = "loop" => setting = 0

ListInv == TypeOK /\ ListSound /\ SettingReady

\* A comparator that is off has been passed: by the counter; by ticks_now, when
\* the task is not going to be called again; and by every timer, when it waits.
OffIsPast ==
  ~ on =>
    /\ match <= now
    /\ ~ notified /\ tt.pc = "loop" => match <= tt.ticks
    /\ ~ notified /\ tt.pc = "wait" =>
         /\ \A n \in ToSet(active) : node[n].exp > match
         /\ setting # 0 => node[setting].exp > match

Messages == ToSet(queue) \cup {tt.msg}

\* Each arming has a number of its own, and no message bears the number of
\* the timer that is being set.
Numbered ==
  /\ \A n \in 1 .. Nodes : node[n].gen <= calls
  /\ \A n, k \in 1 .. Nodes : node[n].gen = node[k].gen /\ node[n].gen > 0 => n = k
  /\ \A m \in Messages :
       /\ m.gen <= calls
       /\ setting # 0 /\ m.gen > 0 => m.gen # node[setting].gen

IInv == ListInv /\ OffIsPast /\ Programmed /\ Numbered /\ OnceOrStopped /\ Delivered

-----------------------------------------------------------------------------
(* The list.                                                               *)

\* A list that holds each timer once is no longer than the pool.
LEMMA ListShort ==
  ASSUME NEW list \in Seq(1 .. Nodes), NEW nd, Sorted(list, nd)
  PROVE  Len(list) <= Nodes
<1>1. /\ list \in [1 .. Len(list) -> 1 .. Nodes] /\ Len(list) \in Nat /\ Nodes \in Nat
  BY LenProperties, HresTimerAssumption
<1>2. /\ IsFiniteSet(1 .. Len(list)) /\ Cardinality(1 .. Len(list)) = Len(list)
      /\ IsFiniteSet(1 .. Nodes) /\ Cardinality(1 .. Nodes) = Nodes
  <2>1. ASSUME NEW n \in Nat PROVE IsFiniteSet(1 .. n) /\ Cardinality(1 .. n) = n
    <3>1. /\ IsFiniteSet(1 .. n)
          /\ Cardinality(1 .. n) = IF 1 > n THEN 0 ELSE n - 1 + 1
      <4>1. 1 \in Int /\ n \in Int
        OBVIOUS
      <4>2. QED
        BY <4>1, FS_Interval, Zenon
    <3>2. QED
      BY <3>1
  <2>2. QED
    BY <2>1, <1>1
<1>3. SUFFICES ASSUME Nodes < Len(list) PROVE FALSE
  BY <1>1
<1>4. PICK x, y \in 1 .. Len(list) : x # y /\ list[x] = list[y]
  <2>1. Cardinality(1 .. Nodes) < Cardinality(1 .. Len(list))
    BY <1>2, <1>3
  <2>2. QED
    BY <1>1, <1>2, <2>1, FS_PigeonHole, Zenon
<1>5. x < y \/ y < x
  BY <1>4, <1>1
<1>6. QED
  BY <1>4, <1>5 DEF Sorted

\* The members of a list.
LEMMA Members ==
  ASSUME NEW list \in Seq(1 .. Nodes)
  PROVE  /\ Len(list) \in Nat /\ ToSet(list) \subseteq 1 .. Nodes
         /\ \A i \in 1 .. Len(list) : list[i] \in ToSet(list)
         /\ list # <<>> => Head(list) \in ToSet(list) /\ Head(list) = list[1] /\ Len(list) > 0
<1>1. Len(list) \in Nat /\ DOMAIN list = 1 .. Len(list) /\ \A i \in 1 .. Len(list) : list[i] \in 1 .. Nodes
  BY LenProperties
<1>2. list # <<>> => Head(list) = list[1] /\ Len(list) > 0
  BY <1>1
<1>3. QED
  BY <1>1, <1>2 DEF ToSet

\* Whether a list is sorted depends on the timers in it.
LEMMA SortedSame ==
  ASSUME NEW list \in Seq(1 .. Nodes), NEW nd, NEW md, Sorted(list, nd),
         \A n \in ToSet(list) : md[n].exp = nd[n].exp
  PROVE  Sorted(list, md)
BY Members DEF Sorted

\* The head of a sorted list expires first.
LEMMA HeadFirst ==
  ASSUME NEW list \in Seq(1 .. Nodes), NEW nd, Sorted(list, nd), list # <<>>,
         \A n \in 1 .. Nodes : nd[n].exp \in Nat
  PROVE  \A n \in ToSet(list) : nd[Head(list)].exp <= nd[n].exp
<1>1. ASSUME NEW n \in ToSet(list) PROVE nd[list[1]].exp <= nd[n].exp
  <2>1. Len(list) \in Nat /\ DOMAIN list = 1 .. Len(list) /\ list[1] \in 1 .. Nodes
    BY Members, LenProperties
  <2>2. PICK i \in 1 .. Len(list) : list[i] = n
    BY <2>1 DEF ToSet
  <2>3. CASE i = 1
    BY <2>1, <2>2, <2>3
  <2>4. CASE i > 1
    BY <2>1, <2>2, <2>4 DEF Sorted
  <2>5. QED
    BY <2>3, <2>4
<1>2. QED
  BY <1>1, Members

\* What the task takes out of the list is gone.
LEMMA TailSound ==
  ASSUME NEW list \in Seq(1 .. Nodes), NEW nd, Sorted(list, nd), list # <<>>
  PROVE  /\ Tail(list) \in Seq(1 .. Nodes)
         /\ ToSet(Tail(list)) = ToSet(list) \ {Head(list)}
         /\ Sorted(Tail(list), nd)
<1>0. /\ Len(list) \in Nat /\ DOMAIN list = 1 .. Len(list)
      /\ Head(list) = list[1] /\ Len(list) > 0
  BY Members, LenProperties
<1>1. /\ Tail(list) \in Seq(1 .. Nodes) /\ Len(Tail(list)) = Len(list) - 1
      /\ \A i \in 1 .. Len(list) - 1 : Tail(list)[i] = list[i + 1]
  <2> DEFINE T == 1 .. Nodes
  <2>1. list \in Seq(T)
    OBVIOUS
  <2> HIDE DEF T
  <2>2. /\ Tail(list) \in Seq(T) /\ Len(Tail(list)) = Len(list) - 1
        /\ \A i \in 1 .. Len(Tail(list)) : Tail(list)[i] = list[i + 1]
    BY <2>1, HeadTailProperties
  <2>3. QED
    BY <2>2, Zenon DEF T
<1>2. PICK t \in Seq(1 .. Nodes) : t = Tail(list)
  BY <1>1
<1>3. /\ Len(t) = Len(list) - 1 /\ DOMAIN t = 1 .. Len(list) - 1
      /\ \A i \in 1 .. Len(list) - 1 : t[i] = list[i + 1] /\ i + 1 \in 1 .. Len(list)
  BY <1>0, <1>1, <1>2, LenProperties
<1>4. Sorted(t, nd)
  BY <1>0, <1>3 DEF Sorted
<1>5. ToSet(t) = ToSet(list) \ {list[1]}
  <2>1. ASSUME NEW x \in ToSet(t) PROVE x \in ToSet(list) \ {list[1]}
    <3>1. PICK i \in 1 .. Len(list) - 1 : x = list[i + 1] /\ i + 1 \in 1 .. Len(list)
      BY <1>3 DEF ToSet
    <3>2. 1 < i + 1 /\ 1 \in 1 .. Len(list)
      BY <1>0
    <3>3. QED
      BY <3>1, <3>2, <1>0 DEF Sorted, ToSet
  <2>2. ASSUME NEW i \in 1 .. Len(list), list[i] # list[1] PROVE list[i] \in ToSet(t)
    <3>1. i - 1 \in 1 .. Len(list) - 1 /\ (i - 1) + 1 = i
      BY <2>2, <1>0
    <3>2. QED
      BY <3>1, <1>3 DEF ToSet
  <2>3. QED
    BY <2>1, <2>2, <1>0 DEF ToSet
<1>6. QED
  BY <1>0, <1>2, <1>4, <1>5

\* ListSound in terms of Sorted.
LEMMA ListSoundSorted ==
  ASSUME ListInv
  PROVE  /\ Sorted(active, node) /\ active \in Seq(1 .. Nodes)
         /\ node \in [1 .. Nodes -> Timer] /\ \A n \in 1 .. Nodes : node[n].exp \in Nat
         /\ \A n \in ToSet(active) : node[n].st = "set" /\ node[n].dur > 0 /\ n # setting
BY DEF ListInv, TypeOK, ListSound, Sorted, Timer

\* The ways the list changes: timers outside it change ...
LEMMA SameList ==
  ASSUME ListInv, active' = active, \A n \in ToSet(active) : node'[n] = node[n],
         setting' \in {0, setting}
  PROVE  ListSound' /\ active' \in Seq(1 .. Nodes) /\ Len(active') <= Nodes
<1>1. Sorted(active', node')
  <2>1. Sorted(active, node')
    BY ListSoundSorted, SortedSame
  <2>2. QED
    BY <2>1
<1>2. \A n \in ToSet(active') : node'[n].st = "set" /\ node'[n].dur > 0 /\ n # setting'
  <2>1. ASSUME NEW n \in ToSet(active) PROVE n # 0
    BY ListSoundSorted, Members, HresTimerAssumption
  <2>2. QED
    BY <2>1, ListSoundSorted
<1>3. QED
  BY <1>1, <1>2 DEF ListSound, Sorted, ListInv, TypeOK

\* ... one is taken out of it, whatever becomes of that one ...
LEMMA ShorterList ==
  ASSUME ListInv, NEW n \in 1 .. Nodes, active' = Without(n),
         \A k \in 1 .. Nodes \ {n} : node'[k] = node[k], setting' \in {0, n}
  PROVE  ListSound' /\ active' \in Seq(1 .. Nodes) /\ Len(active') <= Nodes
<1>1. /\ Without(n) \in Seq(1 .. Nodes) /\ Sorted(Without(n), node)
      /\ ToSet(Without(n)) = ToSet(active) \ {n}
  BY ListSoundSorted, WithoutSound
<1>2. PICK l \in Seq(1 .. Nodes) : l = Without(n)
  BY <1>1
<1>3. \A k \in ToSet(l) : k \in 1 .. Nodes \ {n} /\ k \in ToSet(active) /\ node'[k] = node[k] /\ k # 0
  BY <1>1, <1>2, ListSoundSorted, Members
<1>4. Sorted(l, node') /\ Len(l) <= Nodes
  BY <1>1, <1>2, <1>3, SortedSame, ListShort
<1>5. \A k \in ToSet(l) : node'[k].st = "set" /\ node'[k].dur > 0 /\ k # setting'
  BY <1>3, ListSoundSorted
<1>6. QED
  BY <1>2, <1>4, <1>5 DEF ListSound, Sorted

\* ... or one is put into it that was not there.
LEMMA LongerList ==
  ASSUME NEW l \in Seq(1 .. Nodes), NEW n \in 1 .. Nodes, node' \in [1 .. Nodes -> Timer],
         Sorted(l, node'), n \notin ToSet(l), active' = Inserted(l, node', n), setting' = 0,
         \A k \in ToSet(l) \cup {n} : node'[k].st = "set" /\ node'[k].dur > 0
  PROVE  ListSound' /\ active' \in Seq(1 .. Nodes) /\ Len(active') <= Nodes
<1>1. PICK nd : nd = node'
  OBVIOUS
<1>2. \A k \in 1 .. Nodes : nd[k].exp \in Nat
  BY <1>1 DEF Timer
<1>3. PICK r : r = Inserted(l, nd, n)
  OBVIOUS
<1>4. r \in Seq(1 .. Nodes) /\ ToSet(r) = ToSet(l) \cup {n} /\ Sorted(r, nd)
  BY <1>1, <1>2, <1>3, InsertedSound
<1>5. Len(r) <= Nodes /\ \A k \in ToSet(r) : k # 0
  BY <1>4, ListShort, Members
<1>6. active' = r
  BY <1>1, <1>3
<1>7. QED
  BY <1>1, <1>4, <1>5, <1>6 DEF ListSound, Sorted

\* timer_update_timer_interrupt leaves the comparator alone or programs it for
\* the first timer, or for now.
LEMMA Update ==
  ASSUME ListInv, node' \in [1 .. Nodes -> Timer], active' \in Seq(1 .. Nodes), UpdateInterrupt
  PROVE  /\ match' \in Nat /\ on' \in BOOLEAN
         /\ \/ match' = match /\ on' = on
            \/ on' = TRUE
         /\ (reprogram /\ tt.pc = "wait" /\ active' # <<>>) =>
              \/ on' = TRUE /\ match' = IF node'[Head(active')].exp >= now
                                          THEN node'[Head(active')].exp ELSE now
              \/ /\ match' = match /\ on' = on
                 /\ \/ match = node'[Head(active')].exp
                    \/ match = IF node'[Head(active')].exp >= now
                                 THEN node'[Head(active')].exp ELSE now
<1>0. match \in Nat /\ on \in BOOLEAN /\ now \in Nat
  BY HresTimerAssumption DEF ListInv, TypeOK
<1>1. CASE match' = match /\ on' = on
  <2>1. SUFFICES ASSUME reprogram, tt.pc = "wait", active' # <<>>
                 PROVE  \/ match = node'[Head(active')].exp
                        \/ match = IF node'[Head(active')].exp >= now
                                     THEN node'[Head(active')].exp ELSE now
    BY <1>0, <1>1
  <2>2. PICK e \in Nat : e = node'[Head(active')].exp
    <3>1. PICK l \in Seq(1 .. Nodes) : l = active'
      OBVIOUS
    <3>2. Head(l) \in 1 .. Nodes
      BY <3>1, <2>1, Members
    <3>3. QED
      BY <3>1, <3>2 DEF Timer
  <2>3. e = match \/ Max({e, now}) = match
    <3>1. reprogram /\ ~ Processing
      BY <2>1 DEF Processing
    <3>2. e = match \/ SetNextInterrupt(Max({e, now}))
      BY <2>1, <2>2, <3>1 DEF UpdateInterrupt
    <3>3. QED
      BY <1>1, <3>2 DEF SetNextInterrupt
  <2>4. QED
    BY <2>2, <2>3, <1>0, MaxPair
<1>2. CASE ~ (match' = match /\ on' = on)
  <2>1. active' # <<>>
    BY <1>2 DEF UpdateInterrupt, hw
  <2>2. PICK e \in Nat : e = node'[Head(active')].exp
    <3>1. PICK l \in Seq(1 .. Nodes) : l = active'
      OBVIOUS
    <3>2. Head(l) \in 1 .. Nodes
      BY <3>1, <2>1, Members
    <3>3. QED
      BY <3>1, <3>2 DEF Timer
  <2>3. match' = Max({e, now}) /\ on' = TRUE
    BY <1>2, <2>2 DEF UpdateInterrupt, SetNextInterrupt, hw
  <2>4. QED
    BY <2>2, <2>3, <1>0, MaxPair
<1>3. QED
  BY <1>1, <1>2

\* The next expiry of a periodic timer that is due is the first one after
\* ticks_now that lies a whole number of periods on.
LEMMA NextExpirySound ==
  ASSUME NEW t \in Timer, t.dur > 0, tt.ticks \in Nat, t.exp <= tt.ticks
  PROVE  /\ NextExpiry(t) \in Nat /\ NextExpiry(t) > tt.ticks
         /\ (NextExpiry(t) - t.exp) % t.dur = 0
         /\ NextExpiry(t) - t.dur <= tt.ticks
<1>1. PICK e \in Nat, d \in Nat \ {0}, k \in Nat : e = t.exp /\ d = t.dur /\ k = tt.ticks /\ e <= k
  BY DEF Timer
<1>2. PICK late \in Nat : late = k - e
  BY <1>1
<1>3. NextExpiry(t) = IF e + d <= k THEN e + late + (d - (late % d)) ELSE e + d
  BY <1>1, <1>2 DEF NextExpiry
<1>4. CASE e + d <= k
  <2>1. PICK m \in 0 .. d - 1 : m = late % d
    BY ModRange
  <2>2. NextExpiry(t) = e + late + (d - m)
    BY <1>3, <1>4, <2>1
  <2>3. (late + (d - m)) % d = 0
    BY <2>1, NextMultiple
  <2>4. NextExpiry(t) - e = late + (d - m)
    BY <2>2
  <2>5. QED
    BY <1>1, <1>2, <2>2, <2>3, <2>4
<1>5. CASE ~ (e + d <= k)
  <2>1. NextExpiry(t) = e + d
    BY <1>3, <1>5
  <2>2. NextExpiry(t) - e = d /\ d % d = 0
    BY <2>1
  <2>3. QED
    BY <1>1, <1>5, <2>1, <2>2
<1>6. QED
  BY <1>4, <1>5

\* The loop's body when it finds a timer due.
LEMMA Expire ==
  ASSUME ListInv, TaskExpire
  PROVE  \E n \in ToSet(active) :
           /\ n \in 1 .. Nodes /\ active # <<>> /\ n = Head(active)
           /\ node[n].st = "set" /\ node[n].dur > 0 /\ node[n].exp <= tt.ticks
           /\ IF node[n].reload
                THEN /\ node' = [node EXCEPT ![n] = [@ EXCEPT !.exp = NextExpiry(node[n]), !.st = "set"]]
                     /\ active' = Inserted(Tail(active), node', n)
                ELSE /\ node' = [node EXCEPT ![n] = Idle(@, "expired")]
                     /\ active' = Tail(active)
           /\ tt' = [pc |-> "send", ticks |-> 0,
                      msg |-> [gen |-> node[n].gen, reload |-> node[n].reload]]
<1>1. PICK n : n = Head(active)
  OBVIOUS
<1>2. active # <<>> /\ node[n].exp <= tt.ticks
  BY <1>1 DEF TaskExpire, Due
<1>3. n \in ToSet(active) /\ n \in 1 .. Nodes
  BY <1>1, <1>2, ListSoundSorted, Members
<1>4. node[n].st = "set" /\ node[n].dur > 0
  BY <1>3, ListSoundSorted
<1>5. /\ IF node[n].reload
           THEN /\ node' = [node EXCEPT ![n] = [@ EXCEPT !.exp = NextExpiry(node[n]), !.st = "set"]]
                /\ active' = Inserted(Tail(active), node', n)
           ELSE /\ node' = [node EXCEPT ![n] = Idle(@, "expired")]
                /\ active' = Tail(active)
      /\ tt' = [pc |-> "send", ticks |-> 0,
                 msg |-> [gen |-> node[n].gen, reload |-> node[n].reload]]
  BY <1>1, <1>4 DEF TaskExpire
<1>6. QED
  BY <1>1, <1>2, <1>3, <1>4, <1>5

\* Every step keeps the list sound.
LEMMA ListStep ==
  ASSUME ListInv, [Next]_vars
  PROVE  ListInv'
<1> USE HresTimerAssumption
<1>0. /\ TypeOK /\ SettingReady /\ node \in [1 .. Nodes -> Timer] /\ active \in Seq(1 .. Nodes)
      /\ \A n \in ToSet(active) : n \in 1 .. Nodes /\ node[n].st = "set" /\ node[n].dur > 0 /\ n # setting
  BY ListSoundSorted, Members DEF ListInv
<1>1. ASSUME NEW h \in Handles, Def(h) PROVE ListInv'
  <2>1. PICK n : n = Min(FreeNodes) /\ n \in 1 .. Nodes /\ node[n].st = "free"
    <3>1. FreeNodes \in SUBSET Nat /\ FreeNodes # {}
      BY <1>1 DEF Def, FreeNodes
    <3>2. QED
      BY <3>1, MinIsLeast DEF FreeNodes
  <2>2. node' = [node EXCEPT ![n] = [Free EXCEPT !.ext = h, !.st = "def"]]
    BY <1>1, <2>1 DEF Def
  <2>3. ListSound' /\ active' \in Seq(1 .. Nodes) /\ Len(active') <= Nodes
    BY <1>0, <1>1, <2>1, <2>2, SameList DEF Def
  <2>4. TypeOK'
    <3>1. [Free EXCEPT !.ext = h, !.st = "def"] \in Timer
      <4>1. h \in 0 .. HandleNum /\ 0 \in 0 .. MaxCalls
        BY DEF Handles
      <4>2. PICK f : f = Free
        OBVIOUS
      <4>3. f \in Timer
        BY <4>1, <4>2 DEF Free, Timer
      <4>4. [f EXCEPT !.ext = h, !.st = "def"] \in Timer
        BY <4>1, <4>3 DEF Timer
      <4>5. QED
        BY <4>2, <4>4, Zenon
    <3>2. node' \in [1 .. Nodes -> Timer]
      <4>1. PICK r \in Timer : r = [Free EXCEPT !.ext = h, !.st = "def"]
        BY <3>1
      <4>2. node' = [node EXCEPT ![n] = r]
        BY <2>2, <4>1
      <4>3. QED
        BY <1>0, <2>1, <4>2
    <3>3. handle' \in [Handles -> 0 .. Nodes]
      <4>1. handle' = [handle EXCEPT ![h] = n]
        BY <1>1, <2>1 DEF Def
      <4>2. handle \in [Handles -> 0 .. Nodes] /\ n \in 0 .. Nodes
        BY <1>0, <2>1 DEF TypeOK
      <4>3. QED
        BY <4>1, <4>2
    <3>4. QED
      BY <1>0, <1>1, <3>2, <3>3, <2>3, SMTT(60) DEF Def, Call, TypeOK, own, hw
  <2>5. SettingReady'
    BY <1>0, <1>1, <2>1, <2>2 DEF Def, Call, MutexFree, SettingReady
  <2>6. QED
    BY <2>3, <2>4, <2>5 DEF ListInv
<1>2. ASSUME NEW h \in Handles, NEW d \in Durations \cup Periods, NEW r \in BOOLEAN, SetStart(h, d, r)
      PROVE  ListInv'
  <2>1. PICK n \in 1 .. Nodes : n = handle[h]
    BY <1>0, <1>2 DEF SetStart, TypeOK
  <2>2. /\ active' = Without(n) /\ setting' = n
        /\ node' = [node EXCEPT ![n] = [@ EXCEPT !.st = "set", !.dur = d,
                       !.exp = now + d, !.reload = r, !.gen = calls + 1]]
    BY <1>2, <2>1 DEF SetStart
  <2>3. ListSound' /\ active' \in Seq(1 .. Nodes) /\ Len(active') <= Nodes
    BY <1>0, <2>2, ShorterList
  <2>4. TypeOK'
    <3>1. calls + 1 \in 0 .. MaxCalls /\ now + d \in Nat /\ d \in Nat
      BY <1>0, <1>2, SMTT(60) DEF SetStart, Call, TypeOK
    <3>2. node' \in [1 .. Nodes -> Timer]
      BY <1>0, <2>2, <3>1, ZenonT(60) DEF Timer
    <3>3. QED
      BY <1>0, <1>2, <2>2, <2>3, <3>1, <3>2, SMTT(60) DEF SetStart, Call, TypeOK, own, hw
  <2>5. SettingReady'
    BY <1>0, <1>2, <2>2 DEF SetStart, Call, MutexFree, SettingReady, TypeOK
  <2>6. QED
    BY <2>3, <2>4, <2>5 DEF ListInv
<1>3. ASSUME SetInsert PROVE ListInv'
  <2>1. PICK n \in 1 .. Nodes : n = setting
    BY <1>0, <1>3 DEF SetInsert, TypeOK
  <2>2. active' = Inserted(active, node', n) /\ node' = node /\ setting' = 0
    BY <1>3, <2>1 DEF SetInsert
  <2>3. ListSound' /\ active' \in Seq(1 .. Nodes) /\ Len(active') <= Nodes
    <3>1. Sorted(active, node')
      BY <2>2, ListSoundSorted
    <3>2. \A k \in ToSet(active) \cup {n} : node'[k].st = "set" /\ node'[k].dur > 0
      BY <1>0, <2>1, <2>2 DEF SettingReady
    <3>3. n \notin ToSet(active) /\ node' \in [1 .. Nodes -> Timer]
      BY <1>0, <2>1, <2>2
    <3>4. QED
      BY <1>0, <2>2, <3>1, <3>2, <3>3, LongerList
  <2>4. match' \in Nat /\ on' \in BOOLEAN
    BY <1>0, <1>3, <2>2, <2>3, Update DEF SetInsert
  <2>5. TypeOK'
    BY <1>0, <1>3, <2>2, <2>3, <2>4 DEF SetInsert, TypeOK, own
  <2>6. SettingReady'
    BY <2>2 DEF SettingReady
  <2>7. QED
    BY <2>3, <2>5, <2>6 DEF ListInv
<1>4. ASSUME NEW h \in Handles, SetElsewhere(h) PROVE ListInv'
  <2>1. PICK n \in 1 .. Nodes : n = handle[h]
    BY <1>0, <1>4 DEF SetElsewhere, TypeOK
  <2>2. /\ active' = Without(n) /\ setting' = 0
        /\ node' = [node EXCEPT ![n] = Idle(@, "set")]
    BY <1>4, <2>1 DEF SetElsewhere, Call, MutexFree
  <2>3. ListSound' /\ active' \in Seq(1 .. Nodes) /\ Len(active') <= Nodes
    BY <1>0, <2>2, ShorterList
  <2>4. TypeOK'
    <3>1. node' \in [1 .. Nodes -> Timer]
      BY <1>0, <2>2, ZenonT(60) DEF Timer, Idle
    <3>2. QED
      BY <1>0, <1>4, <2>2, <2>3, <3>1 DEF SetElsewhere, Call, TypeOK, own, hw
  <2>5. SettingReady'
    BY <2>2 DEF SettingReady
  <2>6. QED
    BY <2>3, <2>4, <2>5 DEF ListInv
<1>5. ASSUME NEW h \in Handles, Stop(h) PROVE ListInv'
  <2>1. PICK n \in 1 .. Nodes : n = handle[h]
    BY <1>0, <1>5 DEF Stop
  <2>2. /\ active' = Without(n) /\ setting' = 0
        /\ node' = [node EXCEPT ![n] = Idle(@, "cleared")]
    BY <1>5, <2>1 DEF Stop, Call, MutexFree
  <2>3. ListSound' /\ active' \in Seq(1 .. Nodes) /\ Len(active') <= Nodes
    BY <1>0, <2>2, ShorterList
  <2>4. node' \in [1 .. Nodes -> Timer]
    BY <1>0, <2>2, ZenonT(60) DEF Timer, Idle
  <2>5. match' \in Nat /\ on' \in BOOLEAN
    BY <1>5, <2>3, <2>4, Update DEF Stop
  <2>6. TypeOK'
    BY <1>0, <1>5, <2>2, <2>3, <2>4, <2>5 DEF Stop, Call, TypeOK, own
  <2>7. SettingReady'
    BY <2>2 DEF SettingReady
  <2>8. QED
    BY <2>3, <2>6, <2>7 DEF ListInv
<1>6. ASSUME NEW h \in Handles, Undef(h) PROVE ListInv'
  <2>1. PICK n \in 1 .. Nodes : n = handle[h]
    BY <1>0, <1>6 DEF Undef, TypeOK
  <2>2. /\ active' = Without(n) /\ setting' = 0 /\ node' = [node EXCEPT ![n] = Free]
    BY <1>6, <2>1 DEF Undef, Call, MutexFree
  <2>3. ListSound' /\ active' \in Seq(1 .. Nodes) /\ Len(active') <= Nodes
    BY <1>0, <2>2, ShorterList
  <2>4. node' \in [1 .. Nodes -> Timer]
    BY <1>0, <2>2 DEF Timer, Free
  <2>5. match' \in Nat /\ on' \in BOOLEAN
    <3>1. CASE UpdateInterrupt
      BY <3>1, <2>3, <2>4, Update
    <3>2. CASE UNCHANGED hw
      BY <3>2, <1>0 DEF hw, TypeOK
    <3>3. QED
      BY <3>1, <3>2, <1>6 DEF Undef
  <2>6. TypeOK'
    BY <1>0, <1>6, <2>2, <2>3, <2>4, <2>5 DEF Undef, Call, TypeOK, own
  <2>7. SettingReady'
    BY <2>2 DEF SettingReady
  <2>8. QED
    BY <2>3, <2>6, <2>7 DEF ListInv
<1>7. ASSUME TaskExpire PROVE ListInv'
  <2>1. PICK n \in ToSet(active) :
           /\ n \in 1 .. Nodes /\ active # <<>> /\ n = Head(active)
           /\ node[n].st = "set" /\ node[n].dur > 0 /\ node[n].exp <= tt.ticks
           /\ IF node[n].reload
                THEN /\ node' = [node EXCEPT ![n] = [@ EXCEPT !.exp = NextExpiry(node[n]), !.st = "set"]]
                     /\ active' = Inserted(Tail(active), node', n)
                ELSE /\ node' = [node EXCEPT ![n] = Idle(@, "expired")]
                     /\ active' = Tail(active)
           /\ tt' = [pc |-> "send", ticks |-> 0,
                      msg |-> [gen |-> node[n].gen, reload |-> node[n].reload]]
    BY <1>7, Expire, Zenon
  <2>2. PICK l \in Seq(1 .. Nodes) : l = Tail(active) /\ Sorted(l, node) /\ ToSet(l) = ToSet(active) \ {n}
    BY <2>1, ListSoundSorted, TailSound
  <2>3. setting = 0 /\ setting' = 0
    BY <1>0, <1>7 DEF TaskExpire, SettingReady
  <2>4. node' \in [1 .. Nodes -> Timer] /\ \A k \in 1 .. Nodes \ {n} : node'[k] = node[k]
    <3>1. CASE node[n].reload
      <4>1. PICK x \in Nat : x = NextExpiry(node[n])
        BY <1>0, <2>1, NextExpirySound, SMTT(60) DEF TypeOK
      <4>2. node' = [node EXCEPT ![n] = [@ EXCEPT !.exp = x, !.st = "set"]]
        BY <2>1, <3>1, <4>1
      <4>3. [node[n] EXCEPT !.exp = x, !.st = "set"] \in Timer
        BY <1>0, <2>1, ZenonT(60) DEF Timer
      <4>4. QED
        BY <1>0, <2>1, <4>2, <4>3
    <3>2. CASE ~ node[n].reload
      <4>1. Idle(node[n], "expired") \in Timer
        BY <1>0, <2>1, ZenonT(60) DEF Timer, Idle
      <4>2. node' = [node EXCEPT ![n] = Idle(@, "expired")]
        BY <2>1, <3>2
      <4>3. QED
        BY <1>0, <2>1, <4>1, <4>2
    <3>3. QED
      BY <3>1, <3>2
  <2>5. \A k \in ToSet(l) : k \in 1 .. Nodes /\ k # n /\ node'[k] = node[k] /\ node[k].st = "set" /\ node[k].dur > 0
    BY <1>0, <2>2, <2>4
  <2>6. Sorted(l, node') /\ Len(l) <= Nodes
    BY <2>2, <2>5, SortedSame, ListShort
  <2>7. ListSound' /\ active' \in Seq(1 .. Nodes) /\ Len(active') <= Nodes
    <3>1. CASE node[n].reload
      <4>1. node'[n].st = "set" /\ node'[n].dur > 0
        <5>1. node'[n] = [node[n] EXCEPT !.exp = NextExpiry(node[n]), !.st = "set"]
          BY <1>0, <2>1, <3>1
        <5>2. node[n] \in Timer
          BY <1>0, <2>1
        <5>3. QED
          BY <2>1, <5>1, <5>2 DEF Timer
      <4>2. active' = Inserted(l, node', n) /\ n \notin ToSet(l)
        BY <2>1, <2>2, <3>1
      <4>3. \A k \in ToSet(l) \cup {n} : node'[k].st = "set" /\ node'[k].dur > 0
        BY <2>5, <4>1
      <4>4. QED
        BY <2>1, <2>3, <2>4, <2>6, <4>2, <4>3, LongerList
    <3>2. CASE ~ node[n].reload
      <4>1. active' = l
        BY <2>1, <2>2, <3>2
      <4>2. \A k \in ToSet(l) : node'[k].st = "set" /\ node'[k].dur > 0 /\ k # setting'
        BY <2>3, <2>5
      <4>3. QED
        BY <2>6, <4>1, <4>2 DEF ListSound, Sorted
    <3>3. QED
      BY <3>1, <3>2
  <2>8. TypeOK'
    <3>1. tt' \in [pc : {"wait", "take", "loop", "send", "notify", "retake"},
                   ticks : 0 .. MaxTime, msg : Msg]
      <4>1. [gen |-> node[n].gen, reload |-> node[n].reload] \in Msg /\ 0 \in 0 .. MaxTime
        BY <1>0, <2>1 DEF Timer, Msg
      <4>2. QED
        BY <2>1, <4>1
    <3>2. QED
      BY <1>0, <1>7, <2>4, <2>7, <3>1 DEF TaskExpire, TypeOK, hw, own
  <2>9. SettingReady'
    BY <2>3 DEF SettingReady
  <2>10. QED
    BY <2>7, <2>8, <2>9 DEF ListInv
<1>8. ASSUME node' = node, active' = active, setting' = setting, TypeOK', tt'.pc = "loop" => setting = 0
      PROVE ListInv'
  BY <1>0, <1>8, SameList DEF ListInv, SettingReady
<1>9. CASE TaskTake
  BY <1>0, <1>8, <1>9 DEF TaskTake, TypeOK, sw, hw, own
<1>10. CASE TaskEnd
  <2>1. match' \in Nat /\ on' \in BOOLEAN
    BY <1>0, <1>10, Members, ListSoundSorted DEF TaskEnd, SetNextInterrupt, hw, TypeOK
  <2>2. TypeOK'
    <3>1. tt' \in [pc : {"wait", "take", "loop", "send", "notify", "retake"},
                     ticks : 0 .. MaxTime, msg : Msg]
      <4>1. tt' = [tt EXCEPT !.pc = "wait", !.ticks = 0]
        BY <1>10 DEF TaskEnd
      <4>2. tt \in [pc : {"wait", "take", "loop", "send", "notify", "retake"},
                    ticks : 0 .. MaxTime, msg : Msg]
        BY <1>0 DEF TypeOK
      <4>3. tt' = [pc |-> "wait", ticks |-> 0, msg |-> tt.msg] /\ tt.msg \in Msg
        BY <4>1, <4>2
      <4>4. 0 \in 0 .. MaxTime
        OBVIOUS
      <4>5. QED
        BY <4>3, <4>4
    <3>2. QED
      BY <1>0, <1>10, <2>1, <3>1 DEF TaskEnd, TypeOK, sw, own
  <2>3. QED
    BY <1>0, <1>8, <1>10, <2>2 DEF TaskEnd, sw
<1>11. CASE TaskSend
  <2>1. Append(queue, tt.msg) \in Seq(Msg) /\ Len(Append(queue, tt.msg)) <= QLen
    BY <1>0, <1>11, AppendProperties DEF TaskSend, Room, TypeOK
  <2>2. NoMsg \in Msg
    BY DEF NoMsg, Msg
  <2>3. TypeOK'
    BY <1>0, <1>11, <2>1, <2>2 DEF TaskSend, TypeOK, sw, hw
  <2>4. QED
    BY <1>0, <1>8, <1>11, <2>3 DEF TaskSend, sw, TypeOK
<1>12. CASE TaskSendTimeout
  <2>1. NoMsg \in Msg
    BY DEF NoMsg, Msg
  <2>2. TypeOK'
    BY <1>0, <1>12, <2>1 DEF TaskSendTimeout, TypeOK, sw, hw, own
  <2>3. QED
    BY <1>0, <1>8, <1>12, <2>2 DEF TaskSendTimeout, sw, TypeOK
<1>13. CASE TaskWake \/ TaskNotify
  <2>1. TypeOK'
    BY <1>0, <1>13 DEF TaskWake, TaskNotify, TypeOK, sw, hw, own
  <2>2. QED
    BY <1>0, <1>8, <1>13, <2>1 DEF TaskWake, TaskNotify, sw, TypeOK
<1>14. CASE OwnerHandle
  <2>1. queue # <<>> => Tail(queue) \in Seq(Msg) /\ Len(Tail(queue)) <= QLen
    BY <1>0, HeadTailProperties, LenProperties DEF TypeOK
  <2>2. TypeOK'
    BY <1>0, <1>14, <2>1 DEF OwnerHandle, TypeOK, sw, hw
  <2>3. QED
    BY <1>0, <1>8, <1>14, <2>2 DEF OwnerHandle, sw, SettingReady
<1>15. CASE Irq \/ OwnerWake \/ Tick \/ PreSleep \/ WakeUp \/ UNCHANGED vars
  <2>1. TypeOK'
    <3>1. CASE Irq
      BY <1>0, <3>1 DEF Irq, TypeOK, sw, own
    <3>2. CASE OwnerWake
      BY <1>0, <3>2 DEF OwnerWake, TypeOK, sw, hw
    <3>3. CASE Tick
      BY <1>0, <3>3 DEF Tick, TypeOK, sw, hw, own
    <3>4. CASE PreSleep
      BY <1>0, <3>4 DEF PreSleep, TypeOK, sw, hw, own
    <3>5. CASE WakeUp
      BY <1>0, <3>5 DEF WakeUp, TypeOK, sw, hw, own
    <3>6. CASE UNCHANGED vars
      BY <1>0, <3>6 DEF vars, TypeOK, sw, hw, own
    <3>7. QED
      BY <1>15, <3>1, <3>2, <3>3, <3>4, <3>5, <3>6
  <2>2. QED
    BY <1>0, <1>8, <1>15, <2>1
       DEF Irq, OwnerWake, Tick, PreSleep, WakeUp, vars, sw, SettingReady
<1>16. QED
  BY <1>1, <1>2, <1>3, <1>4, <1>5, <1>6, <1>7, <1>9, <1>10, <1>11, <1>12, <1>13, <1>14, <1>15
     DEF Next, Calls, Task

LEMMA ListInit == Init => ListInv
<1> SUFFICES ASSUME Init PROVE ListInv
  OBVIOUS
<1> USE HresTimerAssumption
<1>1. node \in [1 .. Nodes -> Timer]
  <2>1. Free \in Timer /\ \A n \in Handles : [Free EXCEPT !.ext = n, !.st = "def"] \in Timer
    <3>1. PICK f : f = Free
      OBVIOUS
    <3>2. f \in Timer
      BY <3>1 DEF Free, Timer
    <3>3. ASSUME NEW n \in Handles PROVE [f EXCEPT !.ext = n, !.st = "def"] \in Timer
      <4>1. n \in 0 .. HandleNum
        BY DEF Handles
      <4>2. QED
        BY <4>1, <3>2 DEF Timer
    <3>4. QED
      BY <3>1, <3>2, <3>3, Zenon
  <2>2. QED
    BY <2>1 DEF Init
<1>0. /\ now = 0 /\ active = <<>> /\ match = 0 /\ on = FALSE /\ calls = 0 /\ setting = 0
      /\ reprogram = TRUE /\ notified = FALSE /\ handle = [h \in Handles |-> h]
      /\ tt = [pc |-> "wait", ticks |-> 0, msg |-> NoMsg]
      /\ queue = <<>> /\ evt = FALSE /\ drain = FALSE /\ asleep = FALSE
  BY Zenon DEF Init
<1>2. ListSound
  BY <1>0 DEF ListSound, ToSet
<1>3. TypeOK
  <2>1. handle \in [Handles -> 0 .. Nodes]
    BY <1>0 DEF Handles
  <2>2. NoMsg \in Msg
    BY DEF NoMsg, Msg
  <2>3. tt \in [pc : {"wait", "take", "loop", "send", "notify", "retake"},
                ticks : 0 .. MaxTime, msg : Msg]
    BY <1>0, <2>2
  <2>4. active \in Seq(1 .. Nodes) /\ Len(active) <= Nodes /\ queue \in Seq(Msg) /\ Len(queue) <= QLen
    BY <1>0
  <2>5. /\ {on, reprogram, notified, evt, drain, asleep} \subseteq BOOLEAN
        /\ now \in 0 .. MaxTime /\ match \in Nat /\ setting \in 0 .. Nodes /\ calls \in 0 .. MaxCalls
    <3>1. {on, reprogram, notified, evt, drain, asleep} \subseteq BOOLEAN
      BY <1>0, Zenon
    <3>2. 0 \in 0 .. MaxTime /\ 0 \in Nat /\ 0 \in 0 .. Nodes /\ 0 \in 0 .. MaxCalls
      OBVIOUS
    <3>3. QED
      BY <1>0, <3>1, <3>2, Zenon
  <2>6. QED
    BY <1>1, <2>1, <2>3, <2>4, <2>5 DEF TypeOK
<1>4. SettingReady
  BY <1>0 DEF SettingReady
<1>5. QED
  BY <1>2, <1>3, <1>4 DEF ListInv

LEMMA AlwaysListInv == Spec => []ListInv
<1>1. ListInv /\ [Next]_vars => ListInv'
  BY ListStep
<1>2. QED
  BY ListInit, <1>1, PTL DEF Spec

\* Every variable keeps its type, for every pool, queue and duration: the
\* list is never longer than the pool, and xQueueSend never overflows the
\* owner's queue.
THEOREM TypeCorrect == Spec => []TypeOK
<1>1. ListInv => TypeOK
  BY DEF ListInv
<1>2. QED
  BY <1>1, AlwaysListInv, PTL

\* The list of armed timers stays sound whatever the application, the timer
\* task and the owner do: each armed timer is in it once and in the order of
\* expiry, and none that has been stopped, freed or is being set.
THEOREM ListIsSound == Spec => []ListSound
<1>1. ListInv => ListSound
  BY DEF ListInv
<1>2. QED
  BY <1>1, AlwaysListInv, PTL

\* A periodic timer keeps its phase, however late the task is and however
\* often it is interrupted between reading ticks_now and using it.
THEOREM PhaseIsKept == Spec => PhaseKept
<1> DEFINE Kept == \A n \in 1 .. Nodes :
      (tt.pc = "loop" /\ node[n].reload /\ node'[n].exp # node[n].exp) =>
         /\ (node'[n].exp - node[n].exp) % node[n].dur = 0
         /\ node'[n].exp > tt.ticks
         /\ node'[n].exp - node[n].dur <= tt.ticks
<1>1. ListInv /\ [Next]_vars => [Kept]_vars
  <2>1. SUFFICES ASSUME ListInv, Next, tt.pc = "loop", NEW n \in 1 .. Nodes,
                        node[n].reload, node'[n].exp # node[n].exp
                 PROVE  /\ (node'[n].exp - node[n].exp) % node[n].dur = 0
                        /\ node'[n].exp > tt.ticks
                        /\ node'[n].exp - node[n].dur <= tt.ticks
    OBVIOUS
  <2>2. node' # node
    BY <2>1
  <2>3. TaskExpire
    BY <2>1, <2>2 DEF Next, Calls, Task, Def, SetStart, SetElsewhere, Stop, Undef, Call, MutexFree,
       SetInsert, Irq, TaskWake, TaskTake, TaskSend, TaskNotify, TaskEnd, TaskSendTimeout,
       OwnerWake, OwnerHandle, Tick, PreSleep, WakeUp, sw
  <2>4. PICK k \in ToSet(active) :
           /\ k \in 1 .. Nodes /\ active # <<>> /\ k = Head(active)
           /\ node[k].st = "set" /\ node[k].dur > 0 /\ node[k].exp <= tt.ticks
           /\ IF node[k].reload
                THEN /\ node' = [node EXCEPT ![k] = [@ EXCEPT !.exp = NextExpiry(node[k]), !.st = "set"]]
                     /\ active' = Inserted(Tail(active), node', k)
                ELSE /\ node' = [node EXCEPT ![k] = Idle(@, "expired")]
                     /\ active' = Tail(active)
           /\ tt' = [pc |-> "send", ticks |-> 0,
                      msg |-> [gen |-> node[k].gen, reload |-> node[k].reload]]
    BY <2>1, <2>3, Expire, Zenon
  <2>5. node \in [1 .. Nodes -> Timer] /\ tt.ticks \in Nat
    BY <2>1, HresTimerAssumption DEF ListInv, TypeOK
  <2>6. n = k
    BY <2>1, <2>4, <2>5
  <2>7. node'[n].exp = NextExpiry(node[n])
    <3>1. node'[n] = [node[n] EXCEPT !.exp = NextExpiry(node[n]), !.st = "set"]
      BY <2>1, <2>4, <2>5, <2>6
    <3>2. QED
      BY <3>1, <2>5 DEF Timer
  <2>8. QED
    BY <2>4, <2>5, <2>6, <2>7, NextExpirySound
<1>2. QED
  BY <1>1, AlwaysListInv, PTL DEF Spec, PhaseKept

-----------------------------------------------------------------------------
(* The comparator.                                                         *)

Comparator == OffIsPast /\ Programmed

\* A step that leaves the list, the comparator and the timer task alone.
LEMMA ComparatorSame ==
  ASSUME ListInv, Comparator, UNCHANGED <<hw, tt, active, setting>>, now' >= now, now' \in Nat,
         notified => notified', reprogram' => reprogram,
         \A n \in ToSet(active) : node'[n].exp = node[n].exp,
         setting # 0 => node'[setting].exp = node[setting].exp
  PROVE  Comparator'
<1>0. /\ now \in Nat /\ match \in Nat /\ \A n \in ToSet(active) : node[n].exp \in Nat
      /\ active \in Seq(1 .. Nodes)
  BY HresTimerAssumption, ListSoundSorted, Members DEF ListInv, TypeOK
<1>1. OffIsPast'
  BY <1>0 DEF Comparator, OffIsPast, hw
<1>2. Programmed'
  <2>1. SUFFICES ASSUME reprogram', tt'.pc = "wait", ~ notified', setting' = 0, active' # <<>>
                 PROVE  on' /\ match' <= Max({node'[Head(active')].exp, now'})
    BY DEF Programmed
  <2>2. Head(active) \in ToSet(active)
    BY <2>1, <1>0, Members
  <2>3. PICK e \in Nat : e = node[Head(active)].exp /\ e = node'[Head(active')].exp
    BY <2>2, <1>0
  <2>4. on /\ match <= Max({e, now})
    BY <2>1, <2>3 DEF Comparator, Programmed
  <2>5. QED
    BY <2>3, <2>4, <1>0, MaxPair DEF hw
<1>3. QED
  BY <1>1, <1>2 DEF Comparator

\* The call ends with timer_update_timer_interrupt, or not.
Updated == UpdateInterrupt \/ UNCHANGED hw

\* A call that takes a timer out of the list.
LEMMA ComparatorShorter ==
  ASSUME ListInv, ListInv', Comparator, NEW n \in 1 .. Nodes, active' = Without(n), setting = 0,
         \A k \in 1 .. Nodes \ {n} : node'[k] = node[k],
         UNCHANGED <<now, reprogram, notified, tt>>,
         Updated,
         setting' = 0 \/ (setting' = n /\ node'[n].exp > now)
  PROVE  Comparator'
<1>0. /\ now \in Nat /\ match \in Nat /\ \A k \in 1 .. Nodes : node[k].exp \in Nat
      /\ node' \in [1 .. Nodes -> Timer] /\ active' \in Seq(1 .. Nodes)
      /\ active \in Seq(1 .. Nodes)
  BY HresTimerAssumption, ListSoundSorted DEF ListInv, TypeOK
<1>1. PICK l \in Seq(1 .. Nodes) :
        /\ l = active' /\ ToSet(l) = ToSet(active) \ {n} /\ Sorted(l, node)
        /\ l # <<>> => Head(l) = Head(active) \/ node[Head(active)].exp <= node[Head(l)].exp
  BY <1>0, ListSoundSorted, WithoutSound
<1>2. \A k \in ToSet(l) : k \in ToSet(active) /\ k \in 1 .. Nodes /\ node'[k] = node[k]
  BY <1>0, <1>1, Members
<1>3. (match' = match /\ on' = on) \/ on' = TRUE
  BY <1>0, Update DEF hw, Updated
<1>4. OffIsPast'
  <2>1. SUFFICES ASSUME ~ on', match' = match, on' = on PROVE OffIsPast'
    BY <1>3 DEF OffIsPast
  <2>2. match <= now
    BY <2>1 DEF Comparator, OffIsPast
  <2>3. setting' # 0 => node'[setting'].exp > match'
    BY <2>1, <2>2, <1>0 DEF Timer
  <2>4. QED
    BY <2>1, <2>2, <2>3, <1>1, <1>2 DEF Comparator, OffIsPast
<1>5. Programmed'
  <2>1. SUFFICES ASSUME reprogram, tt.pc = "wait", ~ notified, setting' = 0, active' # <<>>
                 PROVE  on' /\ match' <= Max({node'[Head(active')].exp, now'})
    BY DEF Programmed
  <2>2. Head(l) \in ToSet(l) /\ active # <<>> /\ Head(active) \in ToSet(active) /\ ToSet(active) \subseteq 1 .. Nodes
    <3>1. Head(l) \in ToSet(l) /\ Head(l) \in ToSet(active)
      BY <2>1, <1>1, <1>2, Members
    <3>2. active # <<>>
      BY <3>1 DEF ToSet
    <3>3. QED
      BY <3>1, <3>2, <1>0, Members
  <2>3. PICK e \in Nat : e = node[Head(active)].exp
    BY <2>2, <1>0
  <2>4. PICK f \in Nat : f = node[Head(l)].exp
    BY <2>2, <1>0, <1>2
  <2>5. f = node'[Head(active')].exp /\ e <= f
    BY <2>1, <2>2, <2>3, <2>4, <1>1, <1>2
  <2>6. /\ Max({e, now}) = IF e >= now THEN e ELSE now
        /\ Max({node'[Head(active')].exp, now'}) = IF f >= now THEN f ELSE now
    BY <2>5, <1>0, MaxPair
  <2>7. on /\ match <= IF e >= now THEN e ELSE now
    BY <2>1, <2>2, <2>3, <2>6 DEF Comparator, Programmed
  <2>8. CASE UNCHANGED hw
    BY <2>5, <2>6, <2>7, <2>8, <1>0, SMTT(60) DEF hw
  <2>9. CASE UpdateInterrupt
    <3>1. \/ on' = TRUE /\ match' = IF f >= now THEN f ELSE now
          \/ on' = on /\ match' = match
      BY <2>1, <2>5, <2>9, <1>0, Update
    <3>2. CASE on' = TRUE /\ match' = IF f >= now THEN f ELSE now
      BY <2>5, <2>6, <3>2, <1>0
    <3>3. CASE on' = on /\ match' = match
      BY <2>5, <2>6, <2>7, <3>3, <1>0, SMTT(60)
    <3>4. QED
      BY <3>1, <3>2, <3>3
  <2>10. QED
    BY <2>8, <2>9 DEF Updated
<1>6. QED
  BY <1>4, <1>5 DEF Comparator

\* Every step keeps the comparator programmed.
LEMMA ComparatorStep ==
  ASSUME ListInv, ListInv', Comparator, [Next]_vars
  PROVE  Comparator'
<1>0. /\ now \in Nat /\ match \in Nat /\ on \in BOOLEAN /\ now' \in Nat
      /\ node \in [1 .. Nodes -> Timer] /\ node' \in [1 .. Nodes -> Timer]
      /\ active \in Seq(1 .. Nodes) /\ active' \in Seq(1 .. Nodes)
      /\ ToSet(active) \subseteq 1 .. Nodes /\ \A k \in 1 .. Nodes : node[k].exp \in Nat
      /\ tt.pc \in {"wait", "take", "loop", "send", "notify", "retake"}
  BY HresTimerAssumption, ListSoundSorted, Members DEF ListInv, TypeOK
<1>1. ASSUME NEW h \in Handles, Def(h) PROVE Comparator'
  <2>1. PICK n : n \in 1 .. Nodes /\ node[n].st = "free" /\ \A k \in 1 .. Nodes \ {n} : node'[k] = node[k]
    <3>1. FreeNodes \in SUBSET Nat /\ FreeNodes # {}
      BY <1>1 DEF Def, FreeNodes
    <3>2. PICK n : n = Min(FreeNodes) /\ n \in FreeNodes
      BY <3>1, MinIsLeast
    <3>3. \A k \in 1 .. Nodes \ {n} : node'[k] = node[k]
      BY <1>0, <1>1, <3>2 DEF Def
    <3>4. QED
      BY <3>2, <3>3 DEF FreeNodes
  <2>2. \A k \in ToSet(active) : node'[k] = node[k]
    BY <1>0, <2>1, ListSoundSorted
  <2>3. QED
    <3>1. UNCHANGED <<hw, tt, active, setting, now, notified, reprogram>> /\ setting = 0
      BY <1>1 DEF Def, Call, MutexFree
    <3>2. QED
      BY <1>0, <2>2, <3>1, ComparatorSame
<1>2. ASSUME NEW h \in Handles, NEW d \in Durations \cup Periods, NEW r \in BOOLEAN, SetStart(h, d, r)
      PROVE  Comparator'
  <2>1. PICK n \in 1 .. Nodes : n = handle[h]
    BY <1>2 DEF SetStart, ListInv, TypeOK
  <2>2. /\ active' = Without(n) /\ setting = 0 /\ setting' = n
        /\ node' = [node EXCEPT ![n] = [@ EXCEPT !.st = "set", !.dur = d,
                       !.exp = now + d, !.reload = r, !.gen = calls + 1]]
    BY <1>2, <2>1 DEF SetStart, Call, MutexFree
  <2>3. \A k \in 1 .. Nodes \ {n} : node'[k] = node[k]
    BY <1>0, <2>2
  <2>4. node'[n].exp > now
    <3>1. node'[n].exp = now + d
      BY <1>0, <2>2 DEF Timer
    <3>2. d \in Nat \ {0}
      BY HresTimerAssumption
    <3>3. QED
      BY <1>0, <3>1, <3>2
  <2>5. QED
    BY <1>2, <2>2, <2>3, <2>4, ComparatorShorter DEF SetStart, Updated
<1>3. ASSUME NEW h \in Handles, SetElsewhere(h) PROVE Comparator'
  <2>1. PICK n \in 1 .. Nodes : n = handle[h]
    BY <1>3 DEF SetElsewhere, ListInv, TypeOK
  <2>2. active' = Without(n) /\ setting = 0 /\ setting' = 0 /\ \A k \in 1 .. Nodes \ {n} : node'[k] = node[k]
    BY <1>0, <1>3, <2>1 DEF SetElsewhere, Call, MutexFree
  <2>3. UNCHANGED <<now, reprogram, notified, tt>> /\ Updated
    BY <1>3 DEF SetElsewhere, Updated
  <2>4. setting' = 0 \/ (setting' = n /\ node'[n].exp > now)
    BY <2>2
  <2>5. QED
    BY <2>2, <2>3, <2>4, ComparatorShorter
<1>4. ASSUME NEW h \in Handles, Stop(h) PROVE Comparator'
  <2>1. PICK n \in 1 .. Nodes : n = handle[h]
    BY <1>0, <1>4 DEF Stop
  <2>2. active' = Without(n) /\ setting = 0 /\ setting' = 0 /\ \A k \in 1 .. Nodes \ {n} : node'[k] = node[k]
    BY <1>0, <1>4, <2>1 DEF Stop, Call, MutexFree
  <2>3. UNCHANGED <<now, reprogram, notified, tt>> /\ Updated
    BY <1>4 DEF Stop, Updated
  <2>4. setting' = 0 \/ (setting' = n /\ node'[n].exp > now)
    BY <2>2
  <2>5. QED
    BY <2>2, <2>3, <2>4, ComparatorShorter
<1>5. ASSUME NEW h \in Handles, Undef(h) PROVE Comparator'
  <2>1. PICK n \in 1 .. Nodes : n = handle[h]
    BY <1>5 DEF Undef, ListInv, TypeOK
  <2>2. active' = Without(n) /\ setting = 0 /\ setting' = 0 /\ \A k \in 1 .. Nodes \ {n} : node'[k] = node[k]
    BY <1>0, <1>5, <2>1 DEF Undef, Call, MutexFree
  <2>3. UNCHANGED <<now, reprogram, notified, tt>> /\ Updated
    BY <1>5 DEF Undef, Updated
  <2>4. setting' = 0 \/ (setting' = n /\ node'[n].exp > now)
    BY <2>2
  <2>5. QED
    BY <2>2, <2>3, <2>4, ComparatorShorter
<1>6. ASSUME SetInsert PROVE Comparator'
  <2>1. PICK n \in 1 .. Nodes : n = setting
    BY <1>6 DEF SetInsert, ListInv, TypeOK
  <2>2. /\ active' = Inserted(active, node, n) /\ node' = node /\ setting' = 0 /\ UpdateInterrupt
        /\ UNCHANGED <<now, reprogram, notified, tt>>
    BY <1>6, <2>1 DEF SetInsert
  <2>3. PICK l \in Seq(1 .. Nodes) : l = active' /\ ToSet(l) = ToSet(active) \cup {n} /\ l # <<>>
    <3>1. n \notin ToSet(active)
      BY <2>1, ListSoundSorted
    <3>2. QED
      BY <1>0, <2>2, <3>1, ListSoundSorted, InsertedSound, ZenonT(60)
  <2>4. \A k \in ToSet(l) : ~ on /\ ~ notified /\ tt.pc = "wait" => node[k].exp > match
    BY <2>1, <2>3, HresTimerAssumption DEF Comparator, OffIsPast
  <2>5. (match' = match /\ on' = on) \/ on' = TRUE
    BY <1>0, <2>2, Update
  <2>6. OffIsPast'
    BY <2>2, <2>3, <2>4, <2>5 DEF Comparator, OffIsPast
  <2>7. Programmed'
    <3>1. SUFFICES ASSUME reprogram, tt.pc = "wait", ~ notified
                   PROVE  on' /\ match' <= Max({node'[Head(active')].exp, now'})
      BY <2>2 DEF Programmed
    <3>2. Head(l) \in ToSet(l) /\ Head(l) \in 1 .. Nodes
      BY <2>3, Members
    <3>3. PICK f \in Nat : f = node[Head(l)].exp
      BY <3>2, <1>0
    <3>4. f = node'[Head(active')].exp /\ (~ on => f > match)
      BY <2>2, <2>3, <2>4, <3>1, <3>2, <3>3
    <3>5. Max({node'[Head(active')].exp, now'}) = IF f >= now THEN f ELSE now
      BY <2>2, <3>4, <1>0, MaxPair
    <3>6. \/ on' = TRUE /\ match' = IF f >= now THEN f ELSE now
          \/ /\ match' = match /\ on' = on
             /\ match = f \/ match = IF f >= now THEN f ELSE now
      BY <1>0, <2>2, <2>3, <3>1, <3>4, Update
    <3>7. QED
      BY <1>0, <3>4, <3>5, <3>6
  <2>8. QED
    BY <2>6, <2>7 DEF Comparator
<1>7. CASE Irq
  <2>1. OffIsPast'
    BY <1>7 DEF Irq, OffIsPast
  <2>2. Programmed'
    BY <1>7 DEF Irq, Programmed
  <2>3. QED
    BY <2>1, <2>2 DEF Comparator
<1>8. CASE TaskTake
  <2>1. tt'.pc = "loop" /\ tt'.ticks = now
    BY <1>8 DEF TaskTake, ListInv, TypeOK
  <2>2. OffIsPast'
    BY <1>8, <2>1 DEF TaskTake, OffIsPast, Comparator, hw
  <2>3. QED
    BY <2>1, <2>2 DEF Comparator, Programmed
<1>9. CASE TaskWake \/ TaskSend \/ TaskSendTimeout \/ TaskNotify \/ TaskExpire
  <2>1. tt'.pc \notin {"wait", "loop"} /\ UNCHANGED <<hw, now>>
    <3>1. CASE TaskExpire
      <4>1. tt'.pc = "send"
        <5>1. \E m : tt' = [pc |-> "send", ticks |-> 0, msg |-> m]
          BY <3>1, Expire, Zenon
        <5>2. QED
          BY <5>1
      <4>2. QED
        BY <3>1, <4>1 DEF TaskExpire
    <3>2. CASE TaskWake \/ TaskSend \/ TaskSendTimeout \/ TaskNotify
      BY <3>2 DEF TaskWake, TaskSend, TaskSendTimeout, TaskNotify, ListInv, TypeOK
    <3>3. QED
      BY <1>9, <3>1, <3>2
  <2>2. OffIsPast'
    BY <2>1 DEF OffIsPast, Comparator, hw
  <2>3. QED
    BY <2>1, <2>2 DEF Comparator, Programmed
<1>10. CASE TaskEnd
  <2>1. /\ tt'.pc = "wait" /\ tt.pc = "loop" /\ setting' = 0 /\ UNCHANGED <<now, sw, notified>>
    BY <1>10 DEF TaskEnd, ListInv, SettingReady, TypeOK
  <2>2. CASE active = <<>>
    <3>1. UNCHANGED hw /\ ToSet(active') = {} /\ active' = <<>>
      BY <1>10, <2>1, <2>2 DEF TaskEnd, sw, ToSet
    <3>2. OffIsPast'
      BY <2>1, <3>1 DEF OffIsPast, Comparator, hw
    <3>3. Programmed'
      BY <3>1 DEF Programmed
    <3>4. QED
      BY <3>2, <3>3 DEF Comparator
  <2>3. CASE active # <<>>
    <3>1. PICK e \in Nat : e = node[Head(active)].exp
      BY <1>0, <2>3, Members
    <3>2. e > tt.ticks /\ tt.ticks \in Nat
      BY <1>10, <2>3, <3>1, HresTimerAssumption, SMTT(60) DEF TaskEnd, Due, ListInv, TypeOK
    <3>3. SetNextInterrupt(e)
      BY <1>10, <2>3, <3>1 DEF TaskEnd
    <3>4. match' = e /\ (on' \/ (match = e /\ on' = on))
      BY <3>3 DEF SetNextInterrupt, hw
    <3>5. notified \/ on'
      BY <1>0, <2>1, <3>2, <3>4 DEF Comparator, OffIsPast
    <3>6. OffIsPast'
      <4>1. ~ on' => match' <= now'
        BY <2>1, <3>4 DEF Comparator, OffIsPast
      <4>2. QED
        BY <2>1, <3>5, <4>1 DEF OffIsPast
    <3>7. Max({node'[Head(active')].exp, now'}) = IF e >= now THEN e ELSE now
      BY <1>0, <2>1, <3>1, MaxPair DEF sw
    <3>8. Programmed'
      BY <1>0, <2>1, <3>4, <3>5, <3>7 DEF Programmed
    <3>9. QED
      BY <3>6, <3>8 DEF Comparator
  <2>4. QED
    BY <2>2, <2>3
<1>11. CASE OwnerWake \/ OwnerHandle \/ PreSleep \/ WakeUp \/ Tick \/ UNCHANGED vars
  <2>1. UNCHANGED <<hw, tt, active, node, setting>> /\ now' >= now
    <3>1. CASE OwnerWake
      BY <1>0, <3>1 DEF OwnerWake, sw
    <3>2. CASE OwnerHandle
      BY <1>0, <3>2 DEF OwnerHandle, sw
    <3>3. CASE PreSleep
      BY <1>0, <3>3 DEF PreSleep, sw
    <3>4. CASE WakeUp
      BY <1>0, <3>4 DEF WakeUp, sw
    <3>5. CASE Tick
      BY <1>0, <3>5 DEF Tick, sw
    <3>6. CASE UNCHANGED vars
      BY <1>0, <3>6 DEF vars, sw
    <3>7. QED
      BY <1>11, <3>1, <3>2, <3>3, <3>4, <3>5, <3>6
  <2>2. (notified => notified') /\ (reprogram' => reprogram)
    <3>1. CASE PreSleep
      BY <3>1 DEF PreSleep
    <3>2. CASE WakeUp
      <4>1. notified' = notified \/ notified' = TRUE
        BY <3>2 DEF WakeUp
      <4>2. reprogram' = reprogram
        BY <3>2 DEF WakeUp
      <4>3. QED
        BY <4>1, <4>2
    <3>3. CASE UNCHANGED <<notified, reprogram>>
      BY <3>3
    <3>4. QED
      BY <1>11, <3>1, <3>2, <3>3 DEF OwnerWake, OwnerHandle, Tick, vars
  <2>3. QED
    BY <1>0, <2>1, <2>2, ComparatorSame
<1>12. QED
  BY <1>1, <1>2, <1>3, <1>4, <1>5, <1>6, <1>7, <1>8, <1>9, <1>10, <1>11 DEF Next, Calls, Task

LEMMA ComparatorInit == Init => Comparator
<1> SUFFICES ASSUME Init PROVE Comparator
  OBVIOUS
<1>1. now = 0 /\ active = <<>> /\ match = 0 /\ setting = 0 /\ tt = [pc |-> "wait", ticks |-> 0, msg |-> NoMsg]
  BY Zenon DEF Init
<1>2. QED
  BY <1>1 DEF Comparator, OffIsPast, Programmed, ToSet

\* No armed timer is forgotten: whenever nothing else is going to program the
\* comparator, it is on and set for the first timer or for earlier.  What the
\* proof needs is that a comparator that has been switched off by its interrupt
\* is behind every timer, so that its new value differs from the old one:
\* timer_set_next_interrupt ignores a value that is not new.
THEOREM FirstIsProgrammed == Spec => []Programmed
<1>1. Init => ListInv /\ Comparator
  BY ListInit, ComparatorInit
<1>2. ListInv /\ Comparator /\ [Next]_vars => (ListInv /\ Comparator)'
  BY ListStep, ComparatorStep
<1>3. Comparator => Programmed
  BY DEF Comparator
<1>4. QED
  BY <1>1, <1>2, <1>3, PTL DEF Spec

-----------------------------------------------------------------------------
(* The messages to the owner.                                              *)

Sent == Numbered /\ OnceOrStopped

\* A step that adds no message and leaves the timers alone.
LEMMA SentSame ==
  ASSUME ListInv, ListInv', Sent, UNCHANGED <<node, active, setting, calls>>,
         ToSet(queue') \subseteq Messages,
         tt'.msg = NoMsg \/ (tt'.msg = tt.msg /\ ToSet(queue') \subseteq ToSet(queue))
  PROVE  Sent'
<1>0. calls \in Nat
  BY HresTimerAssumption DEF ListInv, TypeOK
<1>1. \A m \in Messages' : m \in Messages \/ m = NoMsg
  BY DEF Messages
<1>2. Numbered'
  BY <1>0, <1>1 DEF Sent, Numbered, NoMsg
<1>3. OnceOrStopped'
  <2>1. SUFFICES ASSUME NEW m \in ToSet(queue') \cup {tt'.msg}, m.gen > 0, ~ m.reload
                 PROVE  /\ \A n \in 1 .. Nodes :
                             node[n].gen = m.gen => n \notin ToSet(active) /\ node[n].st # "cleared"
                        /\ m # tt'.msg \/ m \notin ToSet(queue')
    BY DEF OnceOrStopped
  <2>2. m # NoMsg
    BY <2>1 DEF NoMsg
  <2>3. m \in ToSet(queue) \cup {tt.msg}
    BY <2>1, <2>2, <1>1 DEF Messages
  <2>4. QED
    BY <2>1, <2>2, <2>3 DEF Sent, OnceOrStopped
<1>4. QED
  BY <1>2, <1>3 DEF Sent

\* A call: timer n may get the number of the call or none, or keep its own
\* without being armed or, if a message is under way for it, cleared.
LEMMA SentCall ==
  ASSUME ListInv, ListInv', Sent, calls' = calls + 1, UNCHANGED <<queue, tt>>, setting = 0,
         NEW n \in 1 .. Nodes, \A k \in 1 .. Nodes \ {n} : node'[k] = node[k],
         ToSet(active') \subseteq ToSet(active) \ {n},
         setting' = 0 \/ (setting' = n /\ node'[n].gen = calls + 1),
         \/ node'[n].gen = calls + 1
         \/ node'[n].gen = 0
         \/ node'[n].gen = node[n].gen /\ (node'[n].st # "cleared" \/ n \in ToSet(active))
  PROVE  Sent'
<1>0. /\ calls \in Nat /\ \A k \in 1 .. Nodes : node[k].gen \in Nat
      /\ \A m \in Messages : m.gen \in Nat
  <2>1. tt.msg \in Msg /\ queue \in Seq(Msg)
    BY DEF ListInv, TypeOK
  <2>2. \A m \in ToSet(queue) : m \in Msg
    BY <2>1, LenProperties DEF ToSet
  <2>3. QED
    <3>1. \A m \in Messages : m.gen \in Nat
      BY <2>1, <2>2 DEF Msg, Messages
    <3>2. \A k \in 1 .. Nodes : node[k].gen \in Nat
      BY ListSoundSorted DEF Timer
    <3>3. calls \in Nat
      BY HresTimerAssumption DEF ListInv, TypeOK
    <3>4. QED
      BY <3>1, <3>2, <3>3
<1>1. \A m \in Messages' : m \in Messages /\ m.gen <= calls
  BY DEF Messages, Sent, Numbered
<1>2. Numbered'
  <2>1. ASSUME NEW k \in 1 .. Nodes PROVE node'[k].gen <= calls'
    <3>1. node[k].gen <= calls
      BY DEF Sent, Numbered
    <3>2. CASE k # n
      BY <1>0, <3>1, <3>2
    <3>3. CASE k = n
      BY <1>0, <3>1, <3>3
    <3>4. QED
      BY <3>2, <3>3
  <2>2. ASSUME NEW k \in 1 .. Nodes, NEW l \in 1 .. Nodes, node'[k].gen = node'[l].gen, node'[k].gen > 0
        PROVE  k = l
    BY <1>0, <2>2 DEF Sent, Numbered
  <2>3. \A m \in Messages' : m.gen <= calls' /\ (setting' # 0 /\ m.gen > 0 => m.gen # node'[setting'].gen)
    BY <1>0, <1>1
  <2>4. QED
    BY <2>1, <2>2, <2>3 DEF Numbered
<1>3. OnceOrStopped'
  <2>1. SUFFICES ASSUME NEW m \in ToSet(queue) \cup {tt.msg}, m.gen > 0, ~ m.reload,
                        NEW k \in 1 .. Nodes, node'[k].gen = m.gen
                 PROVE  k \notin ToSet(active') /\ node'[k].st # "cleared"
    BY DEF OnceOrStopped, Sent
  <2>2. m.gen <= calls
    BY <1>1 DEF Messages
  <2>3. CASE k # n
    BY <2>1, <2>3 DEF Sent, OnceOrStopped
  <2>4. CASE k = n
    <3>1. node'[n].gen = node[n].gen /\ (node'[n].st # "cleared" \/ n \in ToSet(active))
      BY <1>0, <2>1, <2>2, <2>4 DEF Messages
    <3>2. n \notin ToSet(active)
      BY <2>1, <2>4, <3>1 DEF Sent, OnceOrStopped
    <3>3. QED
      BY <2>4, <3>1, <3>2
  <2>5. QED
    BY <2>3, <2>4
<1>4. QED
  BY <1>2, <1>3 DEF Sent

\* Every step keeps each message to one arming, and each arming that is not
\* periodic to one message.
LEMMA SentStep ==
  ASSUME ListInv, ListInv', Sent, [Next]_vars
  PROVE  Sent'
<1>0. /\ node \in [1 .. Nodes -> Timer] /\ active \in Seq(1 .. Nodes) /\ queue \in Seq(Msg)
      /\ ToSet(active) \subseteq 1 .. Nodes /\ calls \in Nat /\ tt.msg \in Msg
      /\ \A n \in 1 .. Nodes : ToSet(Without(n)) = ToSet(active) \ {n}
  BY HresTimerAssumption, ListSoundSorted, Members, WithoutSound, SMTT(60) DEF ListInv, TypeOK
<1>1. ASSUME NEW h \in Handles, Def(h) PROVE Sent'
  <2>1. PICK n : n = Min(FreeNodes) /\ n \in 1 .. Nodes /\ node[n].st = "free"
    <3>1. FreeNodes \in SUBSET Nat /\ FreeNodes # {}
      BY <1>1 DEF Def, FreeNodes
    <3>2. QED
      BY <3>1, MinIsLeast DEF FreeNodes
  <2>2. node' = [node EXCEPT ![n] = [Free EXCEPT !.ext = h, !.st = "def"]]
    BY <1>1, <2>1 DEF Def
  <2>3. node'[n].gen = 0
    <3>1. PICK f : f = Free
      OBVIOUS
    <3>2. node'[n] = [f EXCEPT !.ext = h, !.st = "def"]
      BY <1>0, <2>1, <2>2, <3>1
    <3>3. f \in [ext : {0}, st : {"free"}, dur : {0}, exp : {0}, reload : {FALSE}, gen : {0}]
      BY <3>1 DEF Free
    <3>4. QED
      BY <3>2, <3>3
  <2>4. \A k \in 1 .. Nodes \ {n} : node'[k] = node[k]
    BY <1>0, <2>2
  <2>5. /\ calls' = calls + 1 /\ UNCHANGED <<queue, tt>> /\ setting = 0 /\ setting' = 0
        /\ active' = active
    BY <1>1 DEF Def, Call, MutexFree, own
  <2>6. n \notin ToSet(active)
    BY <2>1, ListSoundSorted
  <2>7. QED
    BY <2>1, <2>3, <2>4, <2>5, <2>6, SentCall
<1>2. ASSUME NEW h \in Handles, NEW d \in Durations \cup Periods, NEW r \in BOOLEAN, SetStart(h, d, r)
      PROVE  Sent'
  <2>1. PICK n \in 1 .. Nodes : n = handle[h]
    BY <1>2 DEF SetStart, ListInv, TypeOK
  <2>2. /\ active' = Without(n) /\ setting = 0 /\ setting' = n /\ calls' = calls + 1 /\ UNCHANGED <<queue, tt>>
        /\ node' = [node EXCEPT ![n] = [@ EXCEPT !.st = "set", !.dur = d,
                       !.exp = now + d, !.reload = r, !.gen = calls + 1]]
    BY <1>2, <2>1 DEF SetStart, Call, MutexFree, own
  <2>3. node'[n].gen = calls + 1 /\ \A k \in 1 .. Nodes \ {n} : node'[k] = node[k]
    BY <1>0, <2>2 DEF Timer
  <2>4. QED
    BY <1>0, <2>2, <2>3, SentCall
<1>3. ASSUME NEW h \in Handles, SetElsewhere(h) PROVE Sent'
  <2>1. PICK n \in 1 .. Nodes : n = handle[h]
    BY <1>3 DEF SetElsewhere, ListInv, TypeOK
  <2>2. /\ active' = Without(n) /\ setting = 0 /\ setting' = 0 /\ calls' = calls + 1 /\ UNCHANGED <<queue, tt>>
        /\ node' = [node EXCEPT ![n] = Idle(@, "set")]
    BY <1>3, <2>1 DEF SetElsewhere, Call, MutexFree, own
  <2>3. /\ node'[n].gen = node[n].gen /\ node'[n].st = "set"
        /\ \A k \in 1 .. Nodes \ {n} : node'[k] = node[k]
    BY <1>0, <2>2 DEF Timer, Idle
  <2>4. QED
    BY <1>0, <2>2, <2>3, SentCall
<1>4. ASSUME NEW h \in Handles, Stop(h) PROVE Sent'
  <2>1. PICK n \in 1 .. Nodes : n = handle[h] /\ n \in ToSet(active)
    BY <1>0, <1>4 DEF Stop
  <2>2. /\ active' = Without(n) /\ setting = 0 /\ setting' = 0 /\ calls' = calls + 1 /\ UNCHANGED <<queue, tt>>
        /\ node' = [node EXCEPT ![n] = Idle(@, "cleared")]
    BY <1>4, <2>1 DEF Stop, Call, MutexFree, own
  <2>3. node'[n].gen = node[n].gen /\ \A k \in 1 .. Nodes \ {n} : node'[k] = node[k]
    BY <1>0, <2>2 DEF Timer, Idle
  <2>4. QED
    BY <1>0, <2>1, <2>2, <2>3, SentCall
<1>5. ASSUME NEW h \in Handles, Undef(h) PROVE Sent'
  <2>1. PICK n \in 1 .. Nodes : n = handle[h]
    BY <1>5 DEF Undef, ListInv, TypeOK
  <2>2. /\ active' = Without(n) /\ setting = 0 /\ setting' = 0 /\ calls' = calls + 1 /\ UNCHANGED <<queue, tt>>
        /\ node' = [node EXCEPT ![n] = Free]
    BY <1>5, <2>1 DEF Undef, Call, MutexFree, own
  <2>3. node'[n].gen = 0 /\ \A k \in 1 .. Nodes \ {n} : node'[k] = node[k]
    BY <1>0, <2>2 DEF Free
  <2>4. QED
    BY <1>0, <2>2, <2>3, SentCall
<1>6. ASSUME SetInsert PROVE Sent'
  <2>1. PICK n \in 1 .. Nodes : n = setting
    BY <1>6 DEF SetInsert, ListInv, TypeOK
  <2>2. /\ active' = Inserted(active, node, n) /\ setting' = 0
        /\ UNCHANGED <<node, queue, tt, calls>>
    BY <1>6, <2>1 DEF SetInsert, own
  <2>3. ToSet(active') = ToSet(active) \cup {n}
    <3>1. n \notin ToSet(active)
      BY <2>1, ListSoundSorted
    <3>2. QED
      BY <1>0, <2>2, <3>1, ListSoundSorted, InsertedSound
  <2>4. \A m \in ToSet(queue) \cup {tt.msg} : m.gen > 0 => m.gen # node[n].gen
    BY <2>1, HresTimerAssumption DEF Sent, Numbered, Messages
  <2>5. OnceOrStopped'
    BY <2>2, <2>3, <2>4 DEF Sent, OnceOrStopped
  <2>6. Numbered'
    BY <2>2 DEF Sent, Numbered, Messages
  <2>7. QED
    BY <2>5, <2>6 DEF Sent
<1>7. CASE TaskExpire
  <2>1. PICK n \in ToSet(active) :
           /\ n \in 1 .. Nodes /\ active # <<>> /\ n = Head(active)
           /\ node[n].st = "set" /\ node[n].dur > 0 /\ node[n].exp <= tt.ticks
           /\ IF node[n].reload
                THEN /\ node' = [node EXCEPT ![n] = [@ EXCEPT !.exp = NextExpiry(node[n]), !.st = "set"]]
                     /\ active' = Inserted(Tail(active), node', n)
                ELSE /\ node' = [node EXCEPT ![n] = Idle(@, "expired")]
                     /\ active' = Tail(active)
           /\ tt' = [pc |-> "send", ticks |-> 0,
                      msg |-> [gen |-> node[n].gen, reload |-> node[n].reload]]
    BY <1>7, Expire, Zenon
  <2>2. PICK l \in Seq(1 .. Nodes) : l = Tail(active) /\ Sorted(l, node) /\ ToSet(l) = ToSet(active) \ {n}
    BY <2>1, ListSoundSorted, TailSound
  <2>3. /\ \A k \in 1 .. Nodes : node'[k].gen = node[k].gen
        /\ \A k \in 1 .. Nodes \ {n} : node'[k] = node[k]
        /\ node'[n].st # "cleared"
    <3>1. \A k \in 1 .. Nodes \ {n} : node'[k] = node[k]
      BY <1>0, <2>1
    <3>2. node'[n].gen = node[n].gen /\ node'[n].st # "cleared"
      <4>1. CASE node[n].reload
        <5>1. node'[n] = [node[n] EXCEPT !.exp = NextExpiry(node[n]), !.st = "set"]
          BY <1>0, <2>1, <4>1
        <5>2. QED
          BY <1>0, <2>1, <5>1 DEF Timer
      <4>2. CASE ~ node[n].reload
        <5>1. node'[n] = Idle(node[n], "expired")
          BY <1>0, <2>1, <4>2
        <5>2. QED
          BY <1>0, <2>1, <5>1 DEF Timer, Idle
      <4>3. QED
        BY <4>1, <4>2
    <3>3. QED
      BY <3>1, <3>2
  <2>4. UNCHANGED <<queue, setting, calls>>
    BY <1>7 DEF TaskExpire, own
  <2>5. setting = 0
    BY <1>7 DEF TaskExpire, ListInv, SettingReady
  <2>6. IF node[n].reload THEN ToSet(active') = ToSet(active) ELSE ToSet(active') = ToSet(active) \ {n}
    <3>1. CASE ~ node[n].reload
      BY <2>1, <2>2, <3>1
    <3>2. CASE node[n].reload
      <4>1. PICK nd : nd = node'
        OBVIOUS
      <4>2. \A k \in 1 .. Nodes : nd[k].exp \in Nat
        BY <4>1 DEF ListInv, TypeOK, Timer
      <4>3. Sorted(l, nd) /\ n \notin ToSet(l)
        BY <1>0, <2>2, <2>3, <4>1, SortedSame
      <4>4. ToSet(Inserted(l, nd, n)) = ToSet(l) \cup {n}
        BY <2>1, <4>2, <4>3, InsertedSound
      <4>5. QED
        BY <2>1, <2>2, <3>2, <4>1, <4>4, ZenonT(60)
    <3>3. QED
      BY <3>1, <3>2
  <2>7. tt'.msg = [gen |-> node[n].gen, reload |-> node[n].reload]
    BY <2>1
  <2>8. Numbered'
    <3>1. \A m \in Messages' : m \in Messages \/ m.gen = node[n].gen
      BY <2>4, <2>7 DEF Messages
    <3>2. \A m \in Messages' : m.gen <= calls
      BY <2>1, <3>1 DEF Sent, Numbered
    <3>3. QED
      BY <2>3, <2>4, <2>5, <3>2 DEF Sent, Numbered
  <2>9. OnceOrStopped'
    <3>1. ASSUME NEW m \in ToSet(queue), m.gen > 0, ~ m.reload
          PROVE  /\ \A k \in 1 .. Nodes :
                      node'[k].gen = m.gen => k \notin ToSet(active') /\ node'[k].st # "cleared"
                 /\ m.gen # node[n].gen
      <4>1. \A k \in 1 .. Nodes : node[k].gen = m.gen => k \notin ToSet(active) /\ node[k].st # "cleared"
        BY <3>1 DEF Sent, OnceOrStopped
      <4>2. QED
        BY <2>1, <2>3, <2>6, <4>1
    <3>2. ASSUME NEW k \in 1 .. Nodes, node'[k].gen = node[n].gen, node[n].gen > 0, ~ node[n].reload
          PROVE  k \notin ToSet(active') /\ node'[k].st # "cleared"
      <4>1. k = n
        BY <2>1, <2>3, <3>2 DEF Sent, Numbered
      <4>2. QED
        BY <2>3, <2>6, <3>2, <4>1
    <3>3. QED
      BY <2>4, <2>7, <3>1, <3>2 DEF OnceOrStopped
  <2>10. QED
    BY <2>8, <2>9 DEF Sent
<1>8. CASE TaskSend
  <2>1. ToSet(queue') \subseteq Messages
    <3>1. /\ queue' = Append(queue, tt.msg) /\ Len(queue') = Len(queue) + 1 /\ queue' \in Seq(Msg)
          /\ \A i \in 1 .. Len(queue) : queue'[i] = queue[i]
          /\ queue'[Len(queue) + 1] = tt.msg
      BY <1>0, <1>8, AppendProperties DEF TaskSend
    <3>2. /\ DOMAIN queue = 1 .. Len(queue) /\ DOMAIN queue' = 1 .. Len(queue) + 1
          /\ Len(queue) \in Nat
      BY <1>0, <3>1, LenProperties
    <3>3. ASSUME NEW i \in 1 .. Len(queue) + 1 PROVE queue'[i] \in Messages
      <4>1. CASE i = Len(queue) + 1
        BY <3>1, <4>1 DEF Messages
      <4>2. CASE i \in 1 .. Len(queue)
        BY <3>1, <3>2, <4>2 DEF Messages, ToSet
      <4>3. QED
        BY <3>2, <4>1, <4>2
    <3>4. QED
      BY <3>2, <3>3 DEF ToSet
  <2>2. tt'.msg = NoMsg
    BY <1>8 DEF TaskSend, ListInv, TypeOK
  <2>3. UNCHANGED <<node, active, setting, calls>>
    BY <1>8 DEF TaskSend, sw
  <2>4. QED
    BY <2>1, <2>2, <2>3, SentSame
<1>9. CASE TaskSendTimeout
  <2>1. tt'.msg = NoMsg /\ queue' = queue
    BY <1>9 DEF TaskSendTimeout, ListInv, TypeOK, own
  <2>2. UNCHANGED <<node, active, setting, calls>>
    BY <1>9 DEF TaskSendTimeout, sw
  <2>3. QED
    BY <2>1, <2>2, SentSame DEF Messages
<1>10. CASE OwnerHandle
  <2>1. ToSet(queue') \subseteq ToSet(queue)
    <3>1. CASE queue' = queue
      BY <3>1
    <3>2. CASE queue # <<>> /\ queue' = Tail(queue)
      <4>1. /\ Tail(queue) \in Seq(Msg) /\ Len(Tail(queue)) = Len(queue) - 1 /\ Len(queue) \in Nat
            /\ \A i \in 1 .. Len(Tail(queue)) : Tail(queue)[i] = queue[i + 1]
        BY <1>0, <3>2, HeadTailProperties, LenProperties
      <4>2. DOMAIN queue = 1 .. Len(queue) /\ DOMAIN Tail(queue) = 1 .. Len(queue) - 1
        BY <1>0, <4>1, LenProperties
      <4>3. ASSUME NEW i \in 1 .. Len(queue) - 1 PROVE queue'[i] \in ToSet(queue)
        <5>1. i + 1 \in DOMAIN queue /\ queue'[i] = queue[i + 1]
          BY <3>2, <4>1, <4>2
        <5>2. QED
          BY <5>1 DEF ToSet
      <4>4. QED
        BY <3>2, <4>2, <4>3 DEF ToSet
    <3>3. QED
      BY <1>10, <3>1, <3>2 DEF OwnerHandle
  <2>2. UNCHANGED <<node, active, setting, calls, tt>>
    BY <1>10 DEF OwnerHandle, sw
  <2>3. QED
    BY <2>1, <2>2, SentSame DEF Messages
<1>11. CASE TaskWake \/ TaskTake \/ TaskNotify \/ TaskEnd
  <2>1. tt'.msg = tt.msg /\ queue' = queue
    BY <1>11 DEF TaskWake, TaskTake, TaskNotify, TaskEnd, ListInv, TypeOK, own
  <2>2. UNCHANGED <<node, active, setting, calls>>
    BY <1>11 DEF TaskWake, TaskTake, TaskNotify, TaskEnd, sw
  <2>3. QED
    BY <2>1, <2>2, SentSame DEF Messages
<1>12. CASE Irq \/ OwnerWake \/ Tick \/ PreSleep \/ WakeUp \/ UNCHANGED vars
  <2>1. UNCHANGED <<node, active, setting, calls, queue, tt>>
    BY <1>12 DEF Irq, OwnerWake, Tick, PreSleep, WakeUp, vars, sw, own
  <2>2. QED
    BY <2>1, SentSame DEF Messages
<1>13. QED
  BY <1>1, <1>2, <1>3, <1>4, <1>5, <1>6, <1>7, <1>8, <1>9, <1>10, <1>11, <1>12 DEF Next, Calls, Task

LEMMA SentInit == Init => Sent
<1> SUFFICES ASSUME Init PROVE Sent
  OBVIOUS
<1>1. /\ calls = 0 /\ queue = <<>> /\ setting = 0 /\ tt = [pc |-> "wait", ticks |-> 0, msg |-> NoMsg]
      /\ node = [n \in 1 .. Nodes |->
                   IF n \in Handles THEN [Free EXCEPT !.ext = n, !.st = "def"] ELSE Free]
  BY Zenon DEF Init
<1>2. \A n \in 1 .. Nodes : node[n].gen = 0
  <2>1. PICK f : f = Free
    OBVIOUS
  <2>2. f \in [ext : {0}, st : {"free"}, dur : {0}, exp : {0}, reload : {FALSE}, gen : {0}]
    BY <2>1 DEF Free
  <2>3. ASSUME NEW n \in 1 .. Nodes PROVE node[n] = IF n \in Handles THEN [f EXCEPT !.ext = n, !.st = "def"] ELSE f
    BY <1>1, <2>1, Zenon
  <2>4. QED
    BY <2>2, <2>3
<1>3. \A m \in Messages : m.gen = 0
  <2>1. ToSet(queue) = {}
    <3>1. queue = <<>>
      BY <1>1
    <3>2. QED
      BY <3>1 DEF ToSet
  <2>2. tt.msg = NoMsg
    <3>1. tt = [pc |-> "wait", ticks |-> 0, msg |-> NoMsg]
      BY <1>1
    <3>2. QED
      BY <3>1
  <2>3. NoMsg.gen = 0
    BY DEF NoMsg
  <2>4. QED
    BY <2>1, <2>2, <2>3 DEF Messages
<1>4. Numbered
  <2>1. calls = 0 /\ setting = 0
    BY <1>1
  <2>2. QED
    BY <2>1, <1>2, <1>3 DEF Numbered
<1>5. OnceOrStopped
  BY <1>3 DEF OnceOrStopped, Messages
<1>6. QED
  BY <1>4, <1>5 DEF Sent

\* A timer that is not periodic expires at most once per timer_set, and not at
\* all once hres_timer_stop has found it armed, whatever happens while the task
\* has given the mutex back to post the message.
THEOREM OnceAndNotStopped == Spec => []OnceOrStopped
<1>1. Init => ListInv /\ Sent
  BY ListInit, SentInit
<1>2. ListInv /\ Sent /\ [Next]_vars => (ListInv /\ Sent)'
  BY ListStep, SentStep
<1>3. Sent => OnceOrStopped
  BY DEF Sent
<1>4. QED
  BY <1>1, <1>2, <1>3, PTL DEF Spec

\* No message is left behind in the owner's queue: while there is one, the owner
\* is in hres_timer_handler, has been notified or is about to be.
THEOREM AllDelivered == Spec => []Delivered
<1>1. Init => Delivered
  <2>1. Init => queue = <<>>
    BY Zenon DEF Init
  <2>2. QED
    BY <2>1 DEF Delivered
<1>2. ListInv /\ Delivered /\ [Next]_vars => Delivered'
  <2> SUFFICES ASSUME ListInv, Delivered, [Next]_vars PROVE Delivered'
    OBVIOUS
  <2>1. CASE UNCHANGED <<own, tt>>
    BY <2>1 DEF Delivered, own
  <2>2. CASE TaskWake \/ TaskTake \/ TaskExpire \/ TaskEnd
    <3>1. UNCHANGED own /\ tt.pc # "notify"
      BY <2>2 DEF TaskWake, TaskTake, TaskExpire, TaskEnd
    <3>2. QED
      BY <3>1 DEF Delivered, own
  <2>3. CASE TaskSend \/ TaskSendTimeout
    <3>1. tt'.pc = "notify"
      BY <2>3 DEF TaskSend, TaskSendTimeout, ListInv, TypeOK
    <3>2. QED
      BY <3>1 DEF Delivered
  <2>4. CASE TaskNotify
    BY <2>4 DEF TaskNotify, Delivered
  <2>5. CASE OwnerWake
    BY <2>5 DEF OwnerWake, Delivered
  <2>6. CASE OwnerHandle
    BY <2>6 DEF OwnerHandle, Delivered
  <2>7. QED
    BY <2>1, <2>2, <2>3, <2>4, <2>5, <2>6 DEF Next, Calls, Task, Def, SetStart, SetElsewhere, Stop, Undef,
       SetInsert, Irq, Tick, PreSleep, WakeUp, vars
<1>3. QED
  BY <1>1, <1>2, AlwaysListInv, PTL DEF Spec
=============================================================================
