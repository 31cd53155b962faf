------------------------- MODULE DelayQueue_proofs -------------------------
(***************************************************************************)
(* Proofs about DelayQueue for every set of elements, deadlines, takers    *)
(* and clients, and for clocks of any length.                              *)
(***************************************************************************)
EXTENDS DelayQueue, TLAPS, FiniteSetTheorems, SequenceTheorems,
        WellFoundedInduction

\* No element is in the vector twice, nor again after it has left.
Distinct ==
    /\ \A i, j \in DOMAIN items : items[i] = items[j] => i = j
    /\ \A i \in DOMAIN items : items[i] \notin unseen

Inv == TypeOK /\ OrderedByDeadline /\ Distinct /\ SleepsNoLongerThanHead

(***************************************************************************)
(* Sequences                                                               *)
(***************************************************************************)
\* What lower_bound finds: in an ordered vector the elements due before x
\* come first, and x goes behind them.
LEMMA SlotFound ==
    ASSUME TypeOK, OrderedByDeadline, NEW x \in Items, Deadline \in [Items -> Nat]
    PROVE  /\ Slot(x) \in 1 .. Len(items) + 1
           /\ \A i \in 1 .. Len(items) :
                 Deadline[items[i]] < Deadline[x] <=> i < Slot(x)
<1> DEFINE n == Len(items)
           before == {i \in DOMAIN items : Deadline[items[i]] < Deadline[x]}
           rest == (1 .. n) \ before
<1>1. /\ n \in Nat /\ DOMAIN items = 1 .. n
      /\ \A i \in 1 .. n : items[i] \in Items /\ Deadline[items[i]] \in Nat
      /\ Deadline[x] \in Nat
  BY DEF TypeOK
<1>2. \E k \in 0 .. n : before = 1 .. k
  <2>1. CASE rest = {}
    BY <1>1, <2>1
  <2>2. CASE rest # {}
    <3>1. rest \subseteq Nat
      BY <1>1
    <3>2. PICK j \in rest : \A y \in rest : <<y, j>> \notin OpToRel(<, Nat)
      BY <2>2, <3>1, NatLessThanWellFounded, WFMin
    <3>3. \A y \in rest : ~(y < j)
      BY <3>1, <3>2 DEF OpToRel
    <3>4. \A i \in 1 .. n : i < j => i \in before
      BY <3>3, <1>1
    <3>5. \A i \in before : i < j
      <4> SUFFICES ASSUME NEW i \in before, j <= i PROVE FALSE
        BY <1>1
      <4>1. Deadline[items[j]] <= Deadline[items[i]]
        BY <1>1 DEF OrderedByDeadline
      <4> QED BY <4>1, <1>1
    <3>6. j - 1 \in 0 .. n /\ before = 1 .. (j - 1)
      BY <3>4, <3>5, <1>1
    <3> QED BY <3>6
  <2> QED BY <2>1, <2>2
<1>3. PICK k \in 0 .. n : before = 1 .. k
  BY <1>2
<1>4. Cardinality(before) = k
  <2>1. 0 <= k /\ k - 1 + 1 = k /\ 1 \in Int /\ k \in Int
    BY <1>1
  <2>2. Cardinality(1 .. k) = IF 1 > k THEN 0 ELSE k - 1 + 1
    BY <2>1, FS_Interval
  <2>3. Cardinality(1 .. k) = k
    BY <2>1, <2>2
  <2> QED BY <1>3, <2>3
<1>5. Slot(x) = k + 1
  BY <1>4 DEF Slot
<1>6. \A i \in 1 .. n : Deadline[items[i]] < Deadline[x] <=> i \in 1 .. k
  BY <1>1, <1>3
<1> QED BY <1>1, <1>5, <1>6

\* Where the elements are after an insertion.
LEMMA Inserted ==
    ASSUME NEW S, NEW q \in Seq(S), NEW x \in S, NEW k \in 1 .. Len(q) + 1
    PROVE  /\ InsertAt(q, k, x) \in Seq(S)
           /\ Len(InsertAt(q, k, x)) = Len(q) + 1
           /\ \A i \in 1 .. Len(q) + 1 :
                 InsertAt(q, k, x)[i] = IF i < k THEN q[i]
                                        ELSE IF i = k THEN x ELSE q[i - 1]
<1> DEFINE n == Len(q)
           a == SubSeq(q, 1, k - 1)
           b == SubSeq(q, k, n)
<1>1. n \in Nat /\ k \in Int
  OBVIOUS
<1>2. /\ a \in Seq(S) /\ Len(a) = k - 1
      /\ \A i \in 1 .. (k - 1) : a[i] = q[i]
  BY <1>1
<1>3. /\ b \in Seq(S) /\ Len(b) = n - k + 1
      /\ \A i \in 1 .. (n - k + 1) : b[i] = q[k + i - 1]
  BY <1>1
<1>4. InsertAt(q, k, x) = a \o <<x>> \o b
  BY DEF InsertAt
<1> HIDE DEF a, b
<1> DEFINE ax == a \o <<x>>
<1>5. /\ ax \in Seq(S) /\ Len(ax) = k
      /\ \A i \in 1 .. k : ax[i] = IF i < k THEN q[i] ELSE x
  BY <1>1, <1>2
<1>6. InsertAt(q, k, x) = ax \o b
  BY <1>4
<1> HIDE DEF ax
<1>7. /\ ax \o b \in Seq(S) /\ Len(ax \o b) = n + 1
      /\ \A i \in 1 .. n + 1 : (ax \o b)[i] =
            IF i <= k THEN ax[i] ELSE b[i - k]
  <2>1. /\ ax \o b \in Seq(S) /\ Len(ax \o b) = Len(ax) + Len(b)
        /\ \A i \in 1 .. Len(ax) + Len(b) : (ax \o b)[i] =
              IF i <= Len(ax) THEN ax[i] ELSE b[i - Len(ax)]
    BY <1>5, <1>3, ConcatProperties
  <2>2. Len(ax) = k /\ Len(ax) + Len(b) = n + 1
    BY <1>1, <1>5, <1>3
  <2> QED BY <2>1, <2>2
<1>8. ASSUME NEW i \in 1 .. n + 1, i > k PROVE b[i - k] = q[i - 1]
  <2>1. i - k \in 1 .. (n - k + 1) /\ k + (i - k) - 1 = i - 1
    BY <1>1, <1>8
  <2> QED BY <1>3, <2>1
<1>9. ASSUME NEW i \in 1 .. n + 1
      PROVE  InsertAt(q, k, x)[i] = IF i < k THEN q[i]
                                    ELSE IF i = k THEN x ELSE q[i - 1]
  <2>1. CASE i <= k
    BY <1>1, <1>6, <1>5, <1>7, <2>1
  <2>2. CASE i > k
    BY <1>1, <1>6, <1>7, <1>8, <2>2
  <2> QED BY <1>1, <2>1, <2>2
<1> QED BY <1>6, <1>7, <1>9

\* Where the elements are after a removal.
LEMMA Removed ==
    ASSUME NEW S, NEW q \in Seq(S), NEW k \in 1 .. Len(q)
    PROVE  /\ RemoveAt(q, k) \in Seq(S)
           /\ Len(RemoveAt(q, k)) = Len(q) - 1
           /\ \A i \in 1 .. Len(q) - 1 :
                 RemoveAt(q, k)[i] = IF i < k THEN q[i] ELSE q[i + 1]
<1> DEFINE n == Len(q)
           a == SubSeq(q, 1, k - 1)
           b == SubSeq(q, k + 1, n)
<1>1. n \in Nat /\ k \in Int
  OBVIOUS
<1>2. /\ a \in Seq(S) /\ Len(a) = k - 1
      /\ \A i \in 1 .. (k - 1) : a[i] = q[i]
  BY <1>1
<1>3. /\ b \in Seq(S) /\ Len(b) = n - k
      /\ \A i \in 1 .. (n - k) : b[i] = q[k + i]
  BY <1>1
<1>4. RemoveAt(q, k) = a \o b
  BY DEF RemoveAt
<1> HIDE DEF a, b
<1>5. /\ a \o b \in Seq(S) /\ Len(a \o b) = n - 1
      /\ \A i \in 1 .. n - 1 : (a \o b)[i] =
            IF i <= k - 1 THEN a[i] ELSE b[i - (k - 1)]
  <2>1. /\ a \o b \in Seq(S) /\ Len(a \o b) = Len(a) + Len(b)
        /\ \A i \in 1 .. Len(a) + Len(b) : (a \o b)[i] =
              IF i <= Len(a) THEN a[i] ELSE b[i - Len(a)]
    BY <1>2, <1>3, ConcatProperties
  <2>2. Len(a) = k - 1 /\ Len(a) + Len(b) = n - 1
    BY <1>1, <1>2, <1>3
  <2> QED BY <2>1, <2>2
<1>6. ASSUME NEW i \in 1 .. n - 1, i >= k PROVE b[i - (k - 1)] = q[i + 1]
  <2>1. i - (k - 1) \in 1 .. (n - k) /\ k + (i - (k - 1)) = i + 1
    BY <1>1, <1>6
  <2> QED BY <1>3, <2>1
<1>7. ASSUME NEW i \in 1 .. n - 1
      PROVE  RemoveAt(q, k)[i] = IF i < k THEN q[i] ELSE q[i + 1]
  <2>1. CASE i < k
    BY <1>1, <1>2, <1>4, <1>5, <2>1
  <2>2. CASE i >= k
    BY <1>1, <1>4, <1>5, <1>6, <2>2
  <2> QED BY <1>1, <2>1, <2>2
<1> QED BY <1>4, <1>5, <1>7

\* remove() takes out the one position that holds x.
LEMMA RemovedWhere ==
    ASSUME NEW S, NEW q \in Seq(S), NEW x, Contains(q, x),
           \A i, j \in DOMAIN q : q[i] = q[j] => i = j
    PROVE  \E k \in 1 .. Len(q) : q[k] = x /\ RemoveFirst(q, x) = RemoveAt(q, k)
<1>1. PICK k \in 1 .. Len(q) : q[k] = x
  BY DEF Contains
<1>2. {i \in 1 .. Len(q) : q[i] = x} = {k}
  BY <1>1
<1>3. Min({k}) = k
  BY DEF Min
<1>4. SelectInSeq(q, LAMBDA v : v = x) = k
  BY <1>2, <1>3 DEF SelectInSeq
<1> QED BY <1>1, <1>4 DEF RemoveFirst

\* The vector without its k-th element.
Without(k) ==
    /\ items' \in Seq(Items) /\ Len(items') = Len(items) - 1
    /\ \A i \in 1 .. Len(items) - 1 :
          items'[i] = IF i < k THEN items[i] ELSE items[i + 1]

(***************************************************************************)
(* What additions and removals keep                                        *)
(***************************************************************************)
\* An addition keeps the vector ordered and without repetition.
LEMMA AdditionKeeps ==
    ASSUME TypeOK, OrderedByDeadline, Distinct, NEW x \in unseen,
           items' = InsertAt(items, Slot(x), x), unseen' = unseen \ {x}
    PROVE  /\ items' \in Seq(Items)
           /\ OrderedByDeadline' /\ Distinct'
           /\ ToSet(items') = ToSet(items) \cup {x}
<1> DEFINE n == Len(items)
           k == Slot(x)
<1>1. /\ items \in Seq(Items) /\ n \in Nat /\ DOMAIN items = 1 .. n
      /\ x \in Items /\ Deadline \in [Items -> Nat]
      /\ \A i \in 1 .. n : items[i] \in Items /\ items[i] # x
  BY DelayQueueAssumption DEF TypeOK, Distinct
<1>2. /\ k \in 1 .. n + 1
      /\ \A i \in 1 .. n : Deadline[items[i]] < Deadline[x] <=> i < k
  BY <1>1, SlotFound
<1> HIDE DEF k
<1>3. /\ items' \in Seq(Items) /\ Len(items') = n + 1
      /\ DOMAIN items' = 1 .. n + 1
      /\ \A i \in 1 .. n + 1 : items'[i] = IF i < k THEN items[i]
                                           ELSE IF i = k THEN x ELSE items[i - 1]
  <2>1. items' = InsertAt(items, k, x)
    BY DEF k
  <2>2. items \in Seq(Items) /\ x \in Items /\ k \in 1 .. Len(items) + 1
    BY <1>1, <1>2
  <2> DEFINE r == InsertAt(items, k, x)
  <2>3. /\ r \in Seq(Items) /\ Len(r) = n + 1
        /\ \A i \in 1 .. n + 1 : r[i] = IF i < k THEN items[i]
                                        ELSE IF i = k THEN x ELSE items[i - 1]
    BY <2>2, Inserted
  <2> HIDE DEF r
  <2> QED BY <1>1, <2>1, <2>3 DEF r
<1>4. /\ \A i \in 1 .. n : Deadline[items[i]] \in Nat
      /\ Deadline[x] \in Nat
  BY <1>1
<1>5. OrderedByDeadline'
  <2> SUFFICES ASSUME NEW i \in 1 .. n + 1, NEW j \in 1 .. n + 1, i < j
               PROVE  Deadline[items'[i]] <= Deadline[items'[j]]
    BY <1>3 DEF OrderedByDeadline
  <2>1. \A a, b \in 1 .. n : a < b => Deadline[items[a]] <= Deadline[items[b]]
    BY <1>1 DEF OrderedByDeadline
  <2>2. CASE j < k
    BY <1>1, <1>2, <1>3, <2>1, <2>2
  <2>3. CASE j = k
    <3>1. i \in 1 .. n /\ i < k /\ items'[i] = items[i] /\ items'[j] = x
      BY <1>1, <1>2, <1>3, <2>3
    <3> QED BY <1>2, <1>4, <3>1
  <2>4. CASE j > k
    <3>1. j - 1 \in 1 .. n /\ items'[j] = items[j - 1]
      BY <1>1, <1>2, <1>3, <2>4
    <3>2. CASE i < k
      <4>1. i \in 1 .. n /\ i < j - 1 /\ items'[i] = items[i]
        BY <1>1, <1>2, <1>3, <2>4, <3>2
      <4> QED BY <2>1, <3>1, <4>1
    <3>3. CASE i = k
      <4>1. items'[i] = x /\ ~(j - 1 < k)
        BY <1>1, <1>2, <1>3, <2>4, <3>3
      <4> QED BY <1>2, <1>4, <3>1, <4>1
    <3>4. CASE i > k
      <4>1. i - 1 \in 1 .. n /\ i - 1 < j - 1 /\ items'[i] = items[i - 1]
        BY <1>1, <1>2, <1>3, <3>4
      <4> QED BY <2>1, <3>1, <4>1
    <3> QED BY <1>2, <3>2, <3>3, <3>4
  <2> QED BY <1>2, <2>2, <2>3, <2>4
<1>6. \A i \in 1 .. n + 1 :
         \/ i = k /\ items'[i] = x
         \/ i # k /\ \E a \in 1 .. n : /\ items'[i] = items[a]
                                       /\ a = IF i < k THEN i ELSE i - 1
  <2> SUFFICES ASSUME NEW i \in 1 .. n + 1, i # k
               PROVE  \E a \in 1 .. n : /\ items'[i] = items[a]
                                        /\ a = IF i < k THEN i ELSE i - 1
    BY <1>3
  <2>1. CASE i < k
    <3>1. i \in 1 .. n /\ items'[i] = items[i]
      BY <1>1, <1>2, <1>3, <2>1
    <3> QED BY <2>1, <3>1
  <2>2. CASE i > k
    <3>1. i - 1 \in 1 .. n /\ items'[i] = items[i - 1] /\ ~(i < k)
      BY <1>1, <1>2, <1>3, <2>2
    <3> QED BY <3>1
  <2> QED BY <1>2, <2>1, <2>2
<1>7. \A a \in 1 .. n : \E i \in 1 .. n + 1 : items'[i] = items[a]
  <2> SUFFICES ASSUME NEW a \in 1 .. n
               PROVE  \E i \in 1 .. n + 1 : items'[i] = items[a]
    OBVIOUS
  <2>1. CASE a < k
    BY <1>1, <1>3, <2>1
  <2>2. CASE ~(a < k)
    <3>1. a + 1 \in 1 .. n + 1 /\ ~(a + 1 < k) /\ a + 1 # k /\ a + 1 - 1 = a
      BY <1>1, <1>2, <2>2
    <3> QED BY <1>3, <3>1
  <2> QED BY <2>1, <2>2
<1>8. Distinct'
  <2>1. ASSUME NEW i \in 1 .. n + 1, NEW j \in 1 .. n + 1, items'[i] = items'[j]
        PROVE  i = j
    <3>1. CASE i = k \/ j = k
      BY <1>1, <1>6, <2>1, <3>1
    <3>2. CASE i # k /\ j # k
      <4>1. PICK a \in 1 .. n : /\ items'[i] = items[a]
                                /\ a = IF i < k THEN i ELSE i - 1
        BY <1>6, <3>2
      <4>2. PICK b \in 1 .. n : /\ items'[j] = items[b]
                                /\ b = IF j < k THEN j ELSE j - 1
        BY <1>6, <3>2
      <4>3. a = b
        BY <1>1, <2>1, <4>1, <4>2 DEF Distinct
      <4> QED BY <1>2, <3>2, <4>1, <4>2, <4>3
    <3> QED BY <3>1, <3>2
  <2>2. ASSUME NEW i \in 1 .. n + 1 PROVE items'[i] \notin unseen'
    BY <1>1, <1>6 DEF Distinct
  <2> QED BY <1>3, <2>1, <2>2 DEF Distinct
<1>9. ToSet(items') = ToSet(items) \cup {x}
  <2>1. ASSUME NEW y \in ToSet(items') PROVE y \in ToSet(items) \cup {x}
    <3>1. PICK i \in 1 .. n + 1 : y = items'[i]
      BY <1>3 DEF ToSet
    <3>2. items'[i] = x \/ \E a \in 1 .. n : items'[i] = items[a]
      BY <1>6
    <3> QED BY <1>1, <3>1, <3>2 DEF ToSet
  <2>2. ASSUME NEW y \in ToSet(items) PROVE y \in ToSet(items')
    <3>1. PICK a \in 1 .. n : y = items[a]
      BY <1>1 DEF ToSet
    <3>2. PICK i \in 1 .. n + 1 : items'[i] = items[a]
      BY <1>7
    <3> QED BY <1>3, <3>1, <3>2 DEF ToSet
  <2>3. x \in ToSet(items')
    <3>1. k \in 1 .. n + 1 /\ items'[k] = x
      BY <1>1, <1>2, <1>3
    <3> QED BY <1>3, <3>1 DEF ToSet
  <2> QED BY <2>1, <2>2, <2>3
<1> QED BY <1>3, <1>5, <1>8, <1>9

\* So does a removal, and the new head is not due before the old one.
LEMMA RemovalKeeps ==
    ASSUME TypeOK, OrderedByDeadline, Distinct, NEW k \in 1 .. Len(items),
           Without(k), unseen' = unseen
    PROVE  /\ OrderedByDeadline' /\ Distinct'
           /\ ToSet(items') = ToSet(items) \ {items[k]}
           /\ items' # <<>> =>
                 items # <<>> /\ Deadline[Head(items)] <= Deadline[Head(items')]
<1> DEFINE n == Len(items)
<1>1. /\ items \in Seq(Items) /\ n \in Nat /\ DOMAIN items = 1 .. n
      /\ Deadline \in [Items -> Nat]
      /\ \A i \in 1 .. n : items[i] \in Items
      /\ k \in 1 .. n
  BY DelayQueueAssumption DEF TypeOK
<1>2. /\ items' \in Seq(Items) /\ Len(items') = n - 1
      /\ DOMAIN items' = 1 .. n - 1
      /\ \A i \in 1 .. n - 1 :
            items'[i] = IF i < k THEN items[i] ELSE items[i + 1]
  BY <1>1 DEF Without
<1>3. \A i \in 1 .. n - 1 : \E a \in 1 .. n :
         /\ items'[i] = items[a]
         /\ a = (IF i < k THEN i ELSE i + 1)
  <2> SUFFICES ASSUME NEW i \in 1 .. n - 1
               PROVE  \E a \in 1 .. n : /\ items'[i] = items[a]
                                        /\ a = (IF i < k THEN i ELSE i + 1)
    OBVIOUS
  <2>1. CASE i < k
    BY <1>1, <1>2, <2>1
  <2>2. CASE ~(i < k)
    <3>1. i + 1 \in 1 .. n /\ items'[i] = items[i + 1]
      BY <1>1, <1>2, <2>2
    <3> QED BY <2>2, <3>1
  <2> QED BY <2>1, <2>2
<1>4. \A a \in 1 .. n : a # k => \E i \in 1 .. n - 1 : items'[i] = items[a]
  <2> SUFFICES ASSUME NEW a \in 1 .. n, a # k
               PROVE  \E i \in 1 .. n - 1 : items'[i] = items[a]
    OBVIOUS
  <2>1. CASE a < k
    <3>1. a \in 1 .. n - 1 /\ items'[a] = items[a]
      BY <1>1, <1>2, <2>1
    <3> QED BY <3>1
  <2>2. CASE a > k
    <3>1. a - 1 \in 1 .. n - 1 /\ ~(a - 1 < k) /\ a - 1 + 1 = a
      BY <1>1, <2>2
    <3> QED BY <1>2, <3>1
  <2> QED BY <1>1, <2>1, <2>2
<1>5. OrderedByDeadline'
  <2> SUFFICES ASSUME NEW i \in 1 .. n - 1, NEW j \in 1 .. n - 1, i < j
               PROVE  Deadline[items'[i]] <= Deadline[items'[j]]
    BY <1>2 DEF OrderedByDeadline
  <2>1. PICK a \in 1 .. n : /\ items'[i] = items[a]
                            /\ a = (IF i < k THEN i ELSE i + 1)
    BY <1>3
  <2>2. PICK b \in 1 .. n : /\ items'[j] = items[b]
                            /\ b = (IF j < k THEN j ELSE j + 1)
    BY <1>3
  <2>3. a < b
    BY <1>1, <2>1, <2>2
  <2> QED BY <1>1, <2>1, <2>2, <2>3 DEF OrderedByDeadline
<1>6. Distinct'
  <2>1. ASSUME NEW i \in 1 .. n - 1, NEW j \in 1 .. n - 1, items'[i] = items'[j]
        PROVE  i = j
    <3>1. PICK a \in 1 .. n : /\ items'[i] = items[a]
                              /\ a = (IF i < k THEN i ELSE i + 1)
      BY <1>3
    <3>2. PICK b \in 1 .. n : /\ items'[j] = items[b]
                              /\ b = (IF j < k THEN j ELSE j + 1)
      BY <1>3
    <3>3. a = b
      BY <1>1, <2>1, <3>1, <3>2 DEF Distinct
    <3> QED BY <1>1, <3>1, <3>2, <3>3
  <2>2. ASSUME NEW i \in 1 .. n - 1 PROVE items'[i] \notin unseen'
    BY <1>1, <1>3 DEF Distinct
  <2> QED BY <1>2, <2>1, <2>2 DEF Distinct
<1>7. ToSet(items') = ToSet(items) \ {items[k]}
  <2>1. ASSUME NEW y \in ToSet(items')
        PROVE  y \in ToSet(items) \ {items[k]}
    <3>1. PICK i \in 1 .. n - 1 : y = items'[i]
      BY <1>2 DEF ToSet
    <3>2. PICK a \in 1 .. n : /\ items'[i] = items[a]
                              /\ a = (IF i < k THEN i ELSE i + 1)
      BY <1>3
    <3>3. a # k
      BY <1>1, <3>2
    <3>4. items[a] # items[k]
      BY <1>1, <3>3 DEF Distinct
    <3>5. items[a] \in ToSet(items)
      BY <1>1 DEF ToSet
    <3> QED BY <3>1, <3>2, <3>4, <3>5
  <2>2. ASSUME NEW y \in ToSet(items) \ {items[k]} PROVE y \in ToSet(items')
    <3>1. PICK a \in 1 .. n : y = items[a]
      BY <1>1 DEF ToSet
    <3>2. PICK i \in 1 .. n - 1 : items'[i] = items[a]
      BY <1>4, <2>2, <3>1
    <3> QED BY <1>2, <3>1, <3>2 DEF ToSet
  <2> QED BY <2>1, <2>2
<1>8. ASSUME items' # <<>>
      PROVE  items # <<>> /\ Deadline[Head(items)] <= Deadline[Head(items')]
  <2>1. 1 \in 1 .. n - 1 /\ Head(items') = items'[1]
    BY <1>1, <1>2, <1>8
  <2>2. items # <<>> /\ Head(items) = items[1]
    BY <1>1, <2>1
  <2>3. PICK a \in 1 .. n : items'[1] = items[a]
    BY <1>3, <2>1
  <2>4. Deadline[items[1]] <= Deadline[items[a]]
    <3>1. 1 \in 1 .. n /\ (a = 1 \/ 1 < a)
      BY <1>1
    <3>2. Deadline[items[a]] \in Nat
      BY <1>1
    <3> QED BY <1>1, <3>1, <3>2 DEF OrderedByDeadline
  <2> QED BY <2>1, <2>2, <2>3, <2>4
<1> QED BY <1>5, <1>6, <1>7, <1>8

(***************************************************************************)
(* What single steps do to the vector and to the takers                    *)
(***************************************************************************)
\* remove() takes x and nothing else.
LEMMA RemoveStep ==
    ASSUME TypeOK, OrderedByDeadline, Distinct,
           NEW c \in Clients, NEW x \in Items, RemoveItem(c, x)
    PROVE  /\ items' \in Seq(Items) /\ OrderedByDeadline' /\ Distinct'
           /\ ToSet(items') = ToSet(items) \ {x}
           /\ items' # <<>> =>
                 items # <<>> /\ Deadline[Head(items)] <= Deadline[Head(items')]
<1>1. /\ items \in Seq(Items) /\ Contains(items, x) /\ unseen' = unseen
      /\ items' = RemoveFirst(items, x)
      /\ \A i, j \in DOMAIN items : items[i] = items[j] => i = j
  BY DEF RemoveItem, TypeOK, Distinct
<1>2. PICK k \in 1 .. Len(items) :
         items[k] = x /\ RemoveFirst(items, x) = RemoveAt(items, k)
  BY <1>1, RemovedWhere
<1>3. Without(k)
  BY <1>1, <1>2, Removed DEF Without
<1> QED BY <1>1, <1>2, <1>3, RemovalKeeps DEF Without

\* take() takes the head and nothing else.
LEMMA TakeDueStep ==
    ASSUME TypeOK, OrderedByDeadline, Distinct, NEW t \in Takers, TakeDue(t)
    PROVE  /\ items' \in Seq(Items) /\ OrderedByDeadline' /\ Distinct'
           /\ ToSet(items') = ToSet(items) \ {Head(items)}
           /\ items' # <<>> =>
                 items # <<>> /\ Deadline[Head(items)] <= Deadline[Head(items')]
<1>1. /\ items \in Seq(Items) /\ items # <<>> /\ unseen' = unseen
      /\ items' = Tail(items)
  BY DEF TakeDue, TypeOK
<1>2. 1 \in 1 .. Len(items) /\ Head(items) = items[1]
  BY <1>1
<1>3. Without(1)
  BY <1>1 DEF Without
<1> QED BY <1>1, <1>2, <1>3, RemovalKeeps DEF Without

\* Takers are no clients: what a client does to its own pc disturbs no taker.
LEMMA ClientMoves ==
    ASSUME TypeOK, NEW c \in Clients, NEW where, Goto(c, where)
    PROVE  /\ \A t \in Takers : pc'[t] = pc[t]
           /\ pc'[c] = where
<1> QED BY DelayQueueAssumption DEF TypeOK, Goto

(***************************************************************************)
(* The invariant                                                           *)
(***************************************************************************)
\* A new queue satisfies the invariant.
LEMMA InitInv == Init => Inv
<1> SUFFICES ASSUME Init PROVE Inv
  OBVIOUS
<1>1. TypeOK
  <2>1. items \in Seq(Items)
    BY DEF Init
  <2>2. /\ pc \in [Takers \cup Clients -> {"out", "loop", "notify"} \cup Waiting]
        /\ limit \in [Takers -> Nat]
    BY DEF Init
  <2> QED BY <2>1, <2>2 DEF Init, TypeOK
<1>2. OrderedByDeadline /\ Distinct /\ SleepsNoLongerThanHead
  BY DEF Init, OrderedByDeadline, Distinct, SleepsNoLongerThanHead
<1> QED BY <1>1, <1>2 DEF Inv

\* Steps of a taker that leave the vector alone.
LEMMA TakerStep ==
    ASSUME Inv, NEW t \in Takers,
           \/ BeginTake(t) \/ TakeStopped(t) \/ WaitEmpty(t) \/ WaitDue(t)
           \/ WaitTimedOut(t) \/ SpuriousWakeup(t)
    PROVE  Inv'
<1>1. TypeOK
  BY DEF Inv
<1>2. items' = items /\ unseen' = unseen
  BY DEF BeginTake, TakeStopped, WaitEmpty, WaitDue, WaitTimedOut, SpuriousWakeup
<1>3. TypeOK'
  <2>1. CASE BeginTake(t)
    BY <1>1, <2>1 DEF TypeOK, BeginTake, Goto, Waiting
  <2>2. CASE TakeStopped(t)
    BY <1>1, <2>2 DEF TypeOK, TakeStopped, Goto, Waiting
  <2>3. CASE WaitEmpty(t)
    BY <1>1, <2>3 DEF TypeOK, WaitEmpty, Goto, Waiting
  <2>4. CASE WaitDue(t)
    <3>1. Deadline[Head(items)] \in Nat
      BY <1>1, <2>4, DelayQueueAssumption DEF TypeOK, WaitDue
    <3> QED BY <1>1, <2>4, <3>1 DEF TypeOK, WaitDue, Goto, Waiting
  <2>5. CASE WaitTimedOut(t)
    BY <1>1, <2>5 DEF TypeOK, WaitTimedOut, Goto, Waiting
  <2>6. CASE SpuriousWakeup(t)
    BY <1>1, <2>6 DEF TypeOK, SpuriousWakeup, Goto, Waiting
  <2> QED BY <2>1, <2>2, <2>3, <2>4, <2>5, <2>6
<1>4. OrderedByDeadline' /\ Distinct'
  BY <1>2 DEF Inv, OrderedByDeadline, Distinct
<1>5. ASSUME NEW u \in Takers, items # <<>>, pc'[u] \in Waiting
      PROVE  \/ pc'[u] = "waitUntil" /\ limit'[u] <= Deadline[Head(items)]
             \/ \E c \in Clients : pc'[c] = "notify"
  <2>1. \A c \in Clients : pc[c] = "notify" => pc'[c] = "notify"
    BY <1>1, DelayQueueAssumption DEF TypeOK, Goto, BeginTake, TakeStopped,
       WaitEmpty, WaitDue, WaitTimedOut, SpuriousWakeup
  <2>2. CASE u # t
    <3>1. pc'[u] = pc[u] /\ limit'[u] = limit[u]
      BY <1>1, <2>2 DEF TypeOK, Goto, BeginTake, TakeStopped,
         WaitEmpty, WaitDue, WaitTimedOut, SpuriousWakeup
    <3> QED BY <1>5, <2>1, <3>1 DEF Inv, SleepsNoLongerThanHead
  <2>3. CASE u = t
    <3>1. CASE WaitDue(t)
      <4>1. Deadline[Head(items)] \in Nat
        BY <1>1, <1>5, DelayQueueAssumption DEF TypeOK
      <4> QED BY <1>1, <2>3, <3>1, <4>1 DEF TypeOK, Goto, WaitDue
    <3>2. CASE WaitEmpty(t)
      BY <1>5, <3>2 DEF WaitEmpty
    <3>3. CASE BeginTake(t) \/ TakeStopped(t) \/ WaitTimedOut(t) \/ SpuriousWakeup(t)
      BY <1>1, <1>5, <2>3, <3>3 DEF TypeOK, Goto, BeginTake, TakeStopped,
         WaitTimedOut, SpuriousWakeup, Waiting
    <3> QED BY <3>1, <3>2, <3>3
  <2> QED BY <2>2, <2>3
<1>6. SleepsNoLongerThanHead'
  BY <1>2, <1>5 DEF SleepsNoLongerThanHead
<1> QED BY <1>3, <1>4, <1>6 DEF Inv

\* The steps that change the vector keep the invariant: no taker that sleeps
\* on is late for the new head.
LEMMA TakeDueKeepsInv ==
    ASSUME Inv, NEW t \in Takers, TakeDue(t)
    PROVE  Inv'
<1>1. TypeOK /\ OrderedByDeadline /\ Distinct
  BY DEF Inv
<1>2. /\ items' \in Seq(Items) /\ OrderedByDeadline' /\ Distinct'
      /\ items' # <<>> =>
            items # <<>> /\ Deadline[Head(items)] <= Deadline[Head(items')]
  BY <1>1, TakeDueStep
<1>3. TypeOK'
  BY <1>1, <1>2 DEF TypeOK, TakeDue, Goto
<1>4. ASSUME NEW u \in Takers, items' # <<>>, pc'[u] \in Waiting
      PROVE  \/ pc'[u] = "waitUntil" /\ limit'[u] <= Deadline[Head(items')]
             \/ \E c \in Clients : pc'[c] = "notify"
  <2>1. pc'[u] = pc[u] /\ limit'[u] = limit[u]
    BY <1>1, <1>4 DEF TypeOK, TakeDue, Goto, Waiting
  <2>2. \A c \in Clients : pc[c] = "notify" => pc'[c] = "notify"
    BY <1>1, DelayQueueAssumption DEF TypeOK, TakeDue, Goto
  <2>3. /\ Deadline[Head(items)] \in Nat /\ Deadline[Head(items')] \in Nat
        /\ limit[u] \in Nat
    BY <1>1, <1>2, <1>4, DelayQueueAssumption DEF TypeOK
  <2> QED BY <1>2, <1>4, <2>1, <2>2, <2>3 DEF Inv, SleepsNoLongerThanHead
<1>5. SleepsNoLongerThanHead'
  BY <1>4 DEF SleepsNoLongerThanHead
<1> QED BY <1>2, <1>3, <1>5 DEF Inv

\* A removal sends no notification and needs none.
LEMMA RemoveKeepsInv ==
    ASSUME Inv, NEW c \in Clients, NEW x \in Items, RemoveItem(c, x)
    PROVE  Inv'
<1>1. TypeOK /\ OrderedByDeadline /\ Distinct
  BY DEF Inv
<1>2. /\ items' \in Seq(Items) /\ OrderedByDeadline' /\ Distinct'
      /\ items' # <<>> =>
            items # <<>> /\ Deadline[Head(items)] <= Deadline[Head(items')]
  BY <1>1, RemoveStep
<1>3. TypeOK'
  BY <1>1, <1>2 DEF TypeOK, RemoveItem
<1>4. ASSUME NEW u \in Takers, items' # <<>>, pc'[u] \in Waiting
      PROVE  \/ pc'[u] = "waitUntil" /\ limit'[u] <= Deadline[Head(items')]
             \/ \E d \in Clients : pc'[d] = "notify"
  <2>1. pc' = pc /\ limit' = limit
    BY DEF RemoveItem
  <2>2. /\ Deadline[Head(items)] \in Nat /\ Deadline[Head(items')] \in Nat
        /\ limit[u] \in Nat
    BY <1>1, <1>2, <1>4, DelayQueueAssumption DEF TypeOK
  <2> QED BY <1>2, <1>4, <2>1, <2>2 DEF Inv, SleepsNoLongerThanHead
<1>5. SleepsNoLongerThanHead'
  BY <1>4 DEF SleepsNoLongerThanHead
<1> QED BY <1>2, <1>3, <1>5 DEF Inv

\* An addition is followed by a notification.
LEMMA AddKeepsInv ==
    ASSUME Inv, NEW c \in Clients, NEW x \in Items, Add(c, x)
    PROVE  Inv'
<1>1. /\ TypeOK /\ OrderedByDeadline /\ Distinct /\ x \in unseen
      /\ items' = InsertAt(items, Slot(x), x) /\ unseen' = unseen \ {x}
  BY DEF Inv, Add
<1>2. items' \in Seq(Items) /\ OrderedByDeadline' /\ Distinct'
  BY <1>1, AdditionKeeps
<1>3. TypeOK'
  BY <1>1, <1>2 DEF TypeOK, Add, Goto
<1>4. pc'[c] = "notify"
  BY <1>1, ClientMoves DEF Add
<1>5. SleepsNoLongerThanHead'
  BY <1>4 DEF SleepsNoLongerThanHead
<1> QED BY <1>2, <1>3, <1>5 DEF Inv

\* Clear, stop, resume and a notification.
LEMMA OtherStep ==
    ASSUME Inv, NEW c \in Clients,
           Clear(c) \/ Stop(c) \/ Resume(c) \/ NotifyAll(c)
    PROVE  Inv'
<1>1. TypeOK
  BY DEF Inv
<1>2. CASE Clear(c)
  <2>1. items' = <<>>
    BY <1>2 DEF Clear
  <2>2. OrderedByDeadline' /\ Distinct' /\ SleepsNoLongerThanHead'
    BY <2>1 DEF OrderedByDeadline, Distinct, SleepsNoLongerThanHead
  <2>3. items' \in Seq(Items)
    BY <2>1
  <2>4. TypeOK'
    BY <1>1, <1>2, <2>3 DEF TypeOK, Clear
  <2> QED BY <2>2, <2>4 DEF Inv
<1>3. CASE Stop(c)
  <2>1. pc'[c] = "notify" /\ items' = items /\ unseen' = unseen
    BY <1>1, <1>3, ClientMoves DEF Stop
  <2>2. OrderedByDeadline' /\ Distinct' /\ SleepsNoLongerThanHead'
    BY <2>1 DEF Inv, OrderedByDeadline, Distinct, SleepsNoLongerThanHead
  <2>3. TypeOK'
    BY <1>1, <1>3 DEF TypeOK, Stop, Goto
  <2> QED BY <2>2, <2>3 DEF Inv
<1>4. CASE Resume(c)
  <2>1. /\ items' = items /\ unseen' = unseen /\ pc' = pc /\ limit' = limit
        /\ stopped' \in BOOLEAN /\ now' \in Nat
    BY <1>1, <1>4 DEF TypeOK, Resume
  <2>2. OrderedByDeadline' /\ Distinct' /\ SleepsNoLongerThanHead'
    BY <2>1 DEF Inv, OrderedByDeadline, Distinct, SleepsNoLongerThanHead
  <2>3. TypeOK'
    BY <1>1, <2>1 DEF TypeOK
  <2> QED BY <2>2, <2>3 DEF Inv
<1>5. CASE NotifyAll(c)
  <2>1. \A u \in Takers : pc'[u] \notin Waiting
    BY <1>1, <1>5 DEF TypeOK, NotifyAll, Waiting
  <2>2. items' = items /\ unseen' = unseen
    BY <1>5 DEF NotifyAll
  <2>3. OrderedByDeadline' /\ Distinct' /\ SleepsNoLongerThanHead'
    BY <2>1, <2>2 DEF Inv, OrderedByDeadline, Distinct, SleepsNoLongerThanHead
  <2>4. TypeOK'
    BY <1>1, <1>5 DEF TypeOK, NotifyAll, Waiting
  <2> QED BY <2>3, <2>4 DEF Inv
<1> QED BY <1>2, <1>3, <1>4, <1>5

\* Time passes.
LEMMA ClockKeepsInv == ASSUME Inv, Tick \/ UNCHANGED vars PROVE Inv'
<1>1. /\ items' = items /\ unseen' = unseen /\ pc' = pc /\ limit' = limit
      /\ stopped' \in BOOLEAN /\ now' \in Nat
  BY DEF Inv, TypeOK, Tick, vars
<1>2. OrderedByDeadline' /\ Distinct' /\ SleepsNoLongerThanHead'
  BY <1>1 DEF Inv, OrderedByDeadline, Distinct, SleepsNoLongerThanHead
<1>3. TypeOK'
  BY <1>1 DEF Inv, TypeOK
<1> QED BY <1>2, <1>3 DEF Inv

\* Every step keeps the invariant.
LEMMA NextInv == Inv /\ [Next]_vars => Inv'
<1> SUFFICES ASSUME Inv, [Next]_vars PROVE Inv'
  OBVIOUS
<1>1. ASSUME NEW t \in Takers, TakeStep(t) \/ SpuriousWakeup(t) PROVE Inv'
  BY <1>1, TakerStep, TakeDueKeepsInv DEF TakeStep
<1>2. ASSUME NEW c \in Clients, NEW x \in Items, Add(c, x) \/ RemoveItem(c, x)
      PROVE  Inv'
  BY <1>2, AddKeepsInv, RemoveKeepsInv
<1>3. ASSUME NEW c \in Clients, Clear(c) \/ Stop(c) \/ Resume(c) \/ NotifyAll(c)
      PROVE  Inv'
  BY <1>3, OtherStep
<1>4. CASE Tick \/ UNCHANGED vars
  BY <1>4, ClockKeepsInv
<1> QED BY <1>1, <1>2, <1>3, <1>4 DEF Next

\* The invariant holds in every behaviour.
LEMMA Invariant == Spec => []Inv
BY InitInv, NextInv, PTL DEF Spec

(***************************************************************************)
(* The steps of the abstract queue                                         *)
(***************************************************************************)
Asking == {t \in Takers : pc[t] # "out"}
Rest == <<items, unseen, stopped, now>>

\* What a taker does to the set of those asking.
LEMMA Moves ==
    ASSUME TypeOK, NEW t \in Takers, NEW where, Goto(t, where)
    PROVE  /\ where # "out" => Asking' = Asking \cup {t}
           /\ where = "out" => Asking' = Asking \ {t}
BY DEF TypeOK, Goto, Asking

\* The other calls change nobody's asking.
LEMMA ClientAsksNothing ==
    ASSUME TypeOK, NEW c \in Clients, NEW where, Goto(c, where)
    PROVE  Asking' = Asking
BY ClientMoves DEF Asking

\* Entering take() is asking.
LEMMA AbstractBeginTake ==
    ASSUME TypeOK, NEW t \in Takers, BeginTake(t)
    PROVE  Abstract!Ask(t)
<1>1. Goto(t, "loop") /\ UNCHANGED Rest
  BY DEF BeginTake, Rest
<1>2. Asking' = Asking \cup {t}
  BY <1>1, Moves
<1>3. t \notin Asking
  BY DEF BeginTake, Asking
<1> QED BY <1>1, <1>2, <1>3 DEF Abstract!Ask, Rest, Asking, ToSet

\* Leaving it because of stop() is a refusal.
LEMMA AbstractTakeStopped ==
    ASSUME TypeOK, NEW t \in Takers, TakeStopped(t)
    PROVE  Abstract!Refuse(t)
<1>1. Goto(t, "out") /\ UNCHANGED Rest /\ stopped
  BY DEF TakeStopped, Rest
<1>2. Asking' = Asking \ {t}
  BY <1>1, Moves
<1>3. t \in Asking
  BY DEF TakeStopped, Asking
<1> QED BY <1>1, <1>2, <1>3 DEF Abstract!Refuse, Rest, Asking, ToSet

\* Waiting and waking up are no steps of the abstract queue.
LEMMA AbstractWait ==
    ASSUME TypeOK, NEW t \in Takers,
           WaitEmpty(t) \/ WaitDue(t) \/ WaitTimedOut(t) \/ SpuriousWakeup(t)
    PROVE  UNCHANGED Abstract!vars
<1>1. /\ pc[t] # "out" /\ UNCHANGED Rest
      /\ \E where \in {"wait", "waitUntil", "loop"} : Goto(t, where)
  BY DEF WaitEmpty, WaitDue, WaitTimedOut, SpuriousWakeup, Waiting, Rest
<1>2. Asking' = Asking \cup {t}
  BY <1>1, Moves
<1>3. Asking' = Asking
  BY <1>1, <1>2 DEF Asking
<1> QED BY <1>1, <1>3 DEF Abstract!vars, Rest, Asking, ToSet

\* Returning the head is a delivery of the earliest element.
LEMMA AbstractTakeDue ==
    ASSUME Inv, NEW t \in Takers, TakeDue(t)
    PROVE  \E x \in Items : Abstract!Deliver(t, x)
<1>1. /\ TypeOK /\ OrderedByDeadline /\ Distinct
      /\ items \in Seq(Items) /\ items # <<>>
  BY DEF Inv, TypeOK, TakeDue
<1>2. PICK x \in Items : x = Head(items) /\ x = items[1]
  BY <1>1
<1>3. 1 \in DOMAIN items /\ x \in ToSet(items)
  BY <1>1, <1>2 DEF ToSet
<1>4. \A y \in ToSet(items) : Deadline[x] <= Deadline[y]
  <2> SUFFICES ASSUME NEW i \in DOMAIN items
               PROVE  Deadline[items[1]] <= Deadline[items[i]]
    BY <1>2 DEF ToSet
  <2>1. i = 1 \/ 1 < i
    BY <1>1
  <2>2. Deadline[items[i]] \in Nat
    BY <1>1, DelayQueueAssumption
  <2> QED BY <1>1, <1>3, <2>1, <2>2 DEF OrderedByDeadline
<1>5. ToSet(items') = ToSet(items) \ {x}
  BY <1>1, <1>2, TakeDueStep
<1>6. Asking' = Asking \ {t} /\ t \in Asking
  BY <1>1, Moves DEF TakeDue, Asking
<1>7. /\ ~stopped /\ Deadline[x] <= now
      /\ unseen' = unseen /\ stopped' = stopped /\ now' = now
  BY <1>2 DEF TakeDue, Due
<1>8. Abstract!Deliver(t, x)
  BY <1>3, <1>4, <1>5, <1>6, <1>7 DEF Abstract!Deliver, Abstract!Earliest, Asking
<1> QED BY <1>8

\* add() is an offer,
LEMMA AbstractAdd ==
    ASSUME Inv, NEW c \in Clients, NEW x \in Items, Add(c, x)
    PROVE  Abstract!Offer(x)
<1>1. /\ TypeOK /\ OrderedByDeadline /\ Distinct /\ x \in unseen
      /\ items' = InsertAt(items, Slot(x), x) /\ unseen' = unseen \ {x}
      /\ Goto(c, "notify") /\ stopped' = stopped /\ now' = now
  BY DEF Inv, Add
<1>2. ToSet(items') = ToSet(items) \cup {x}
  BY <1>1, AdditionKeeps
<1>3. Asking' = Asking
  BY <1>1, ClientAsksNothing
<1> QED BY <1>1, <1>2, <1>3 DEF Abstract!Offer, Asking

\* remove() and clear() withdraw elements,
LEMMA AbstractRemove ==
    ASSUME Inv, NEW c \in Clients, NEW x \in Items, RemoveItem(c, x)
    PROVE  \E gone \in SUBSET Items : Abstract!Withdraw(gone)
<1>1. ToSet(items') = ToSet(items) \ {x}
  BY RemoveStep DEF Inv
<1>2. /\ Asking' = Asking
      /\ unseen' = unseen /\ stopped' = stopped /\ now' = now
  BY DEF RemoveItem, Asking
<1>3. Abstract!Withdraw({x})
  BY <1>1, <1>2 DEF Abstract!Withdraw, Asking
<1> QED BY <1>3

\* the latter all of them,
LEMMA AbstractClear ==
    ASSUME TypeOK, NEW c \in Clients, Clear(c)
    PROVE  \E gone \in SUBSET Items : Abstract!Withdraw(gone)
<1>1. ToSet(items') = ToSet(items) \ ToSet(items) /\ ToSet(items) \subseteq Items
  BY DEF Clear, TypeOK, ToSet
<1>2. /\ Asking' = Asking
      /\ unseen' = unseen /\ stopped' = stopped /\ now' = now
  BY DEF Clear, Asking
<1>3. Abstract!Withdraw(ToSet(items))
  BY <1>1, <1>2 DEF Abstract!Withdraw, Asking
<1> QED BY <1>1, <1>3

\* stop() and resume() set the flag,
LEMMA AbstractFlag ==
    ASSUME TypeOK, NEW c \in Clients, Stop(c) \/ Resume(c)
    PROVE  \E flag \in BOOLEAN : Abstract!SetStopped(flag)
<1>1. /\ stopped' \in BOOLEAN
      /\ items' = items /\ unseen' = unseen /\ now' = now
  BY DEF Stop, Resume
<1>2. Asking' = Asking
  BY ClientAsksNothing DEF Stop, Resume, Asking
<1>3. Abstract!SetStopped(stopped')
  BY <1>1, <1>2 DEF Abstract!SetStopped, Asking, ToSet
<1> QED BY <1>1, <1>3

\* and a notification is nothing to the abstract queue.
LEMMA AbstractNotify ==
    ASSUME TypeOK, NEW c \in Clients, NotifyAll(c)
    PROVE  UNCHANGED Abstract!vars
<1>1. UNCHANGED Rest
  BY DEF NotifyAll, Rest
<1>2. \A t \in Takers : pc'[t] = "out" <=> pc[t] = "out"
  BY DelayQueueAssumption DEF TypeOK, NotifyAll, Waiting
<1>3. Asking' = Asking
  BY <1>2 DEF Asking
<1> QED BY <1>1, <1>3 DEF Abstract!vars, Rest, Asking, ToSet

\* Every step is one of the abstract queue or a stutter.
LEMMA AbstractNext == Inv /\ [Next]_vars => [Abstract!Next]_(Abstract!vars)
<1> SUFFICES ASSUME Inv, [Next]_vars
             PROVE  Abstract!Next \/ UNCHANGED Abstract!vars
  OBVIOUS
<1>1. TypeOK
  BY DEF Inv
<1>2. ASSUME NEW t \in Takers, TakeStep(t) \/ SpuriousWakeup(t)
      PROVE  Abstract!Next \/ UNCHANGED Abstract!vars
  <2>1. CASE BeginTake(t)
    BY <1>1, <2>1, AbstractBeginTake DEF Abstract!Next
  <2>2. CASE TakeStopped(t)
    BY <1>1, <2>2, AbstractTakeStopped DEF Abstract!Next
  <2>3. CASE TakeDue(t)
    BY <2>3, AbstractTakeDue DEF Abstract!Next
  <2>4. CASE WaitEmpty(t) \/ WaitDue(t) \/ WaitTimedOut(t) \/ SpuriousWakeup(t)
    BY <1>1, <2>4, AbstractWait
  <2> QED BY <1>2, <2>1, <2>2, <2>3, <2>4 DEF TakeStep
<1>3. ASSUME NEW c \in Clients, NEW x \in Items, Add(c, x) \/ RemoveItem(c, x)
      PROVE  Abstract!Next
  <2>1. CASE Add(c, x)
    BY <2>1, AbstractAdd DEF Abstract!Next
  <2>2. CASE RemoveItem(c, x)
    BY <2>2, AbstractRemove DEF Abstract!Next
  <2> QED BY <1>3, <2>1, <2>2
<1>4. ASSUME NEW c \in Clients, Clear(c) \/ Stop(c) \/ Resume(c) \/ NotifyAll(c)
      PROVE  Abstract!Next \/ UNCHANGED Abstract!vars
  <2>1. CASE Clear(c)
    BY <1>1, <2>1, AbstractClear DEF Abstract!Next
  <2>2. CASE Stop(c) \/ Resume(c)
    BY <1>1, <2>2, AbstractFlag DEF Abstract!Next
  <2>3. CASE NotifyAll(c)
    BY <1>1, <2>3, AbstractNotify
  <2> QED BY <1>4, <2>1, <2>2, <2>3
<1>5. CASE Tick
  <2>1. /\ now' = now + 1 /\ items' = items /\ pc' = pc
        /\ unseen' = unseen /\ stopped' = stopped
    BY <1>5 DEF Tick
  <2>2. Abstract!Tick
    BY <2>1 DEF Abstract!Tick, ToSet
  <2> QED BY <2>2 DEF Abstract!Next
<1>6. CASE UNCHANGED vars
  BY <1>6 DEF vars, Abstract!vars, ToSet
<1> QED BY <1>2, <1>3, <1>4, <1>5, <1>6 DEF Next

\* The initial states agree.
LEMMA AbstractInit == Init => Abstract!Init
BY DelayQueueAssumption DEF Init, Abstract!Init, ToSet

(***************************************************************************)
(* Theorems                                                                *)
(***************************************************************************)
\* The vector holds elements, each thread is at a place of its own code, and a
\* taker's limit is a reading of the clock (DelayQueue.hpp:60-200).
THEOREM TypeCorrect == Spec => []TypeOK
BY Invariant, PTL DEF Inv

\* DelayQueue.hpp:40: the vector is ordered by deadline after any sequence of
\* additions, removals and takes, whatever the deadlines.
THEOREM AlwaysOrdered == Spec => []OrderedByDeadline
BY Invariant, PTL DEF Inv

\* DelayQueue.hpp:156 and :100: no taker sleeps past the first deadline unless
\* a notification is on its way, although remove, clear and resume send none.
THEOREM WokenInTime == Spec => []SleepsNoLongerThanHead
BY Invariant, PTL DEF Inv

\* DelayQueue.hpp:127: the sorted vector with its mutex and its waits is a set
\* of elements from which takers get the earliest when its time has come: the
\* initial states agree and each step is one of TimedQueue or a stutter.
THEOREM Refinement == Spec => ImplementsTimedQueue
<1>1. Spec => Abstract!Init
  BY AbstractInit DEF Spec
<1>2. Spec => [][Abstract!Next]_(Abstract!vars)
  BY Invariant, AbstractNext, PTL DEF Spec
<1> QED BY <1>1, <1>2 DEF ImplementsTimedQueue, Abstract!Spec
=============================================================================
