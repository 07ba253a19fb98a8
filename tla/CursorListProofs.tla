--------------------------- MODULE CursorListProofs ---------------------------
(***************************************************************************)
(* The rings of LinkList implement the sequences of CursorList: for every  *)
(* heap and any number of lists, every call has the effect on entries and  *)
(* cursor that the comments of class _List describe.                       *)
(***************************************************************************)
EXTENDS MCLinkList, LinkListProofs, SequenceTheorems, WellFoundedInduction

\* The order of the natural numbers as a relation, for the library's theorems.
LEMMA LessThan == OpToRel(<, Nat) = {p \in Nat \X Nat : p[1] < p[2]}
BY Zenon DEF OpToRel

\* What holds of 0 and of the successor of every number holds of all: there is no
\* least counterexample.
LEMMA Counting ==
  ASSUME NEW T \in SUBSET Nat, 0 \in T, \A n \in T : n + 1 \in T
  PROVE  \A n \in Nat : n \in T
<1> SUFFICES ASSUME Nat \ T # {} PROVE FALSE
  OBVIOUS
<1>1. PICK R : R = OpToRel(<, Nat)
  OBVIOUS
<1>2. IsWellFoundedOn(R, Nat)
  BY <1>1, NatLessThanWellFounded, Zenon
<1>3. PICK x \in Nat \ T : \A y \in Nat \ T : ~ (<<y, x>> \in R)
  <2>1. Nat \ T \subseteq Nat
    OBVIOUS
  <2> QED
    BY <1>2, <2>1, WFMin
<1>4. R = {p \in Nat \X Nat : p[1] < p[2]}
  BY <1>1, LessThan, Zenon
<1>5. x # 0 /\ x \in Nat
  OBVIOUS
<1>6. x - 1 \in Nat /\ x - 1 < x /\ x - 1 + 1 = x
  BY <1>5
<1>7. x - 1 \in T
  BY <1>3, <1>4, <1>5, <1>6
<1> QED
  BY <1>6, <1>7

-----------------------------------------------------------------------------
(***************************************************************************)
(* Walking along next, from any first link and any number of links.        *)
(***************************************************************************)
Walks(s, nx, f, n) == s = [i \in 1 .. n |-> IF i = 1 THEN f ELSE nx[s[i - 1]]]

WalkTo(nx, f, n) == CHOOSE s : Walks(s, nx, f, n)

\* The items of MCLinkList's mapping are a walk from the first link.
LEMMA InOrderIs ==
  ASSUME NEW a
  PROVE  /\ InOrder(a) = WalkTo(next, first[a], list_size[a])
         /\ InOrder(a)' = WalkTo(next', first'[a], list_size'[a])
BY DEF InOrder, WalkTo, Walks

\* A walk exists ...
LEMMA WalkExists ==
  ASSUME NEW nx, NEW f
  PROVE  \A n \in Nat : \E s : Walks(s, nx, f, n)
<1> DEFINE T == {n \in Nat : \E s : Walks(s, nx, f, n)}
<1>1. 0 \in T
  <2>1. Walks([i \in 1 .. 0 |-> f], nx, f, 0)
    BY DEF Walks
  <2> QED
    BY <2>1
<1>2. ASSUME NEW n \in T PROVE n + 1 \in T
  <2>1. PICK s : Walks(s, nx, f, n)
    OBVIOUS
  <2> DEFINE g == [i \in 1 .. n + 1 |->
                     IF i = 1 THEN f ELSE IF i = n + 1 THEN nx[s[n]] ELSE s[i]]
  <2>2. \A i \in 1 .. n : s[i] = IF i = 1 THEN f ELSE nx[s[i - 1]]
    BY <2>1 DEF Walks
  <2>3. \A i \in 1 .. n : i \in 1 .. n + 1 /\ g[i] = s[i]
    BY <2>2
  <2>4. ASSUME NEW i \in 1 .. n + 1, i # 1 PROVE g[i] = nx[g[i - 1]]
    <3>1. i - 1 \in 1 .. n
      BY <2>4
    <3>2. g[i - 1] = s[i - 1]
      BY <3>1, <2>3
    <3>3. CASE i = n + 1
      <4>1. i - 1 = n /\ n + 1 \in 1 .. n + 1 /\ n + 1 # 1
        BY <3>3, <2>4
      <4>2. g[i] = nx[s[n]]
        BY <3>3, <4>1
      <4> QED
        BY <3>2, <4>1, <4>2
    <3>4. CASE i # n + 1
      <4>1. i \in 1 .. n
        BY <3>4
      <4>2. g[i] = s[i] /\ s[i] = nx[s[i - 1]]
        BY <2>2, <2>3, <2>4, <4>1
      <4> QED
        BY <3>2, <4>2
    <3> QED
      BY <3>3, <3>4
  <2>5. g = [i \in 1 .. n + 1 |-> IF i = 1 THEN f ELSE nx[g[i - 1]]]
    BY <2>4
  <2> HIDE DEF g
  <2> QED
    BY <2>5 DEF Walks
<1>3. T \in SUBSET Nat
  OBVIOUS
<1> HIDE DEF T
<1>4. \A n \in Nat : n \in T
  BY <1>1, <1>2, <1>3, Counting
<1> QED
  BY <1>4 DEF T

\* ... and a sequence that takes the same steps is the walk.
LEMMA WalkIs ==
  ASSUME NEW nx, NEW f, NEW n \in Nat, NEW S, NEW t \in Seq(S), Len(t) = n,
         n > 0 => t[1] = f,
         \A i \in 1 .. n : i > 1 => t[i] = nx[t[i - 1]]
  PROVE  WalkTo(nx, f, n) = t
<1> DEFINE s == WalkTo(nx, f, n)
<1>1. s = [i \in 1 .. n |-> IF i = 1 THEN f ELSE nx[s[i - 1]]]
  <2>1. Walks(s, nx, f, n)
    BY WalkExists DEF WalkTo
  <2> QED
    BY <2>1 DEF Walks
<1> HIDE DEF s
<1> DEFINE T == {k \in Nat : k \in 1 .. n => s[k] = t[k]}
<1>2. 0 \in T
  OBVIOUS
<1>3. ASSUME NEW k \in T PROVE k + 1 \in T
  <2> SUFFICES ASSUME k + 1 \in 1 .. n PROVE s[k + 1] = t[k + 1]
    OBVIOUS
  <2>1. CASE k = 0
    BY <1>1, <2>1
  <2>2. CASE k # 0
    <3>1. k \in 1 .. n /\ k + 1 # 1 /\ k + 1 > 1 /\ k + 1 - 1 = k
      BY <2>2
    <3>2. s[k] = t[k]
      BY <3>1
    <3>3. s[k + 1] = nx[s[k + 1 - 1]]
      BY <1>1, <3>1
    <3>4. t[k + 1] = nx[t[k + 1 - 1]]
      BY <3>1
    <3> QED
      BY <3>1, <3>2, <3>3, <3>4
  <2> QED
    BY <2>1, <2>2
<1>4. T \in SUBSET Nat
  OBVIOUS
<1> HIDE DEF T
<1>5. \A k \in Nat : k \in T
  BY <1>2, <1>3, <1>4, Counting
<1>6. \A k \in 1 .. n : s[k] = t[k]
  BY <1>5 DEF T
<1>7. t = [k \in 1 .. n |-> t[k]]
  OBVIOUS
<1>8. s = [k \in 1 .. n |-> s[k]]
  BY <1>1
<1>9. s = t
  BY <1>6, <1>7, <1>8
<1> QED
  BY <1>9 DEF s

\* The steps of a walk.
LEMMA WalkSteps ==
  ASSUME NEW nx, NEW f, NEW n \in Nat
  PROVE  LET s == WalkTo(nx, f, n)
         IN  s = [i \in 1 .. n |-> IF i = 1 THEN f ELSE nx[s[i - 1]]]
<1>1. Walks(WalkTo(nx, f, n), nx, f, n)
  BY WalkExists DEF WalkTo
<1> QED
  BY <1>1 DEF Walks

-----------------------------------------------------------------------------
(***************************************************************************)
(* The walk of list_size links from the first one meets every link of the  *)
(* list once and ends before the first one.                                *)
(***************************************************************************)
Distinct(s) == \A i, j \in 1 .. Len(s) : s[i] = s[j] => i = j

After(s, i)  == IF i = Len(s) THEN s[1] ELSE s[i + 1]
Before(s, i) == IF i = 1 THEN s[Len(s)] ELSE s[i - 1]

InRing(a, s) ==
  /\ s \in Seq(Links) /\ Len(s) = list_size[a] /\ Distinct(s)
  /\ Cells(a) = {s[i] : i \in 1 .. Len(s)}
  /\ \A i \in 1 .. Len(s) : next[s[i]] = After(s, i) /\ prev[s[i]] = Before(s, i)
  /\ IF Len(s) = 0 THEN first[a] = Null ELSE first[a] = s[1]

\* The number of links met in n steps.
LEMMA Met ==
  ASSUME NEW n \in Nat, NEW s, NEW M, M = {s[i] : i \in 1 .. n}
  PROVE  IsFiniteSet(M) /\ Cardinality(M) <= n /\ (Distinct([i \in 1 .. n |-> s[i]]) => Cardinality(M) = n)
<1> DEFINE g == [i \in 1 .. n |-> s[i]]
<1>1. IsFiniteSet(1 .. n) /\ Cardinality(1 .. n) = n
  <2>1. 1 \in Int /\ n \in Int /\ n = IF 1 > n THEN 0 ELSE n - 1 + 1
    OBVIOUS
  <2> HIDE DEF g
  <2>2. IsFiniteSet(1 .. n) /\ Cardinality(1 .. n) = IF 1 > n THEN 0 ELSE n - 1 + 1
    BY <2>1, FS_Interval, Zenon
  <2> QED
    BY <2>1, <2>2, Zenon
<1>2. g \in Surjection(1 .. n, M)
  BY DEF Surjection
<1>3. IsFiniteSet(M) /\ Cardinality(M) <= n
  BY <1>1, <1>2, FS_Surjection
<1>4. ASSUME Distinct(g) PROVE Cardinality(M) = n
  <2>1. Len(g) = n
    OBVIOUS
  <2>2. g \in Injection(1 .. n, M)
    BY <1>4, <2>1 DEF Injection, IsInjective, Distinct
  <2> QED
    BY <1>1, <1>2, <2>2, FS_Surjection
<1> QED
  BY <1>3, <1>4

\* A ring walked from its first link lists each of its links once, next and prev
\* being the neighbours in the list.
LEMMA Ordered ==
  ASSUME HeapInv, NEW a \in Lists
  PROVE  InRing(a, InOrder(a))
<1> DEFINE s == InOrder(a)
           n == list_size[a]
<1> USE DEF HeapInv
<1>1. n \in Nat /\ n = Cardinality(Cells(a)) /\ Cells(a) \subseteq Links /\ IsFiniteSet(Cells(a))
  <2>1. Cells(a) \subseteq Links
    BY DEF Cells
  <2>2. IsFiniteSet(Cells(a))
    BY <2>1, FS_Subset, LinkListAssumption
  <2> QED
    BY <2>1, <2>2 DEF TypeOK, HeaderInv
<1>2. s = [i \in 1 .. n |-> IF i = 1 THEN first[a] ELSE next[s[i - 1]]]
  BY <1>1, InOrderIs, WalkSteps
<1>3. n = 0 <=> Cells(a) = {}
  BY <1>1, FS_EmptySet
<1>4. IF n = 0 THEN first[a] = Null ELSE first[a] \in Cells(a)
  <2>1. a # Null
    BY LinkListAssumption
  <2> QED
    BY <1>3 DEF HeaderInv
<1>5. \A x \in Cells(a) : next[x] \in Cells(a) /\ prev[x] \in Cells(a)
                          /\ prev[next[x]] = x /\ next[prev[x]] = x
  <2> SUFFICES ASSUME NEW x \in Cells(a)
               PROVE  /\ next[x] \in Cells(a) /\ prev[x] \in Cells(a)
                      /\ prev[next[x]] = x /\ next[prev[x]] = x
    OBVIOUS
  <2>1. x \in Links /\ home[x] = a /\ next[x] \in Links /\ prev[x] \in Links /\ TwoWay(x)
    BY DEF Cells, TypeOK, RingInv
  <2>2. home[next[x]] = a /\ home[prev[x]] = a
    BY <2>1 DEF RingInv, TwoWay
  <2> QED
    BY <2>1, <2>2 DEF Cells, TwoWay
<1> HIDE DEF s, n
<1>6. \A k \in Nat : k \in 1 .. n => s[k] \in Cells(a)
  <2> DEFINE T == {k \in Nat : k \in 1 .. n => s[k] \in Cells(a)}
  <2>1. 0 \in T
    OBVIOUS
  <2>2. ASSUME NEW k \in T PROVE k + 1 \in T
    <3> SUFFICES ASSUME k + 1 \in 1 .. n PROVE s[k + 1] \in Cells(a)
      OBVIOUS
    <3>1. CASE k = 0
      BY <1>1, <1>2, <1>4, <3>1
    <3>2. CASE k # 0
      <4>1. k \in 1 .. n /\ k + 1 # 1 /\ k + 1 - 1 = k
        BY <1>1, <3>2
      <4>2. s[k + 1] = next[s[k]]
        BY <1>2, <4>1
      <4> QED
        BY <1>5, <4>1, <4>2
    <3> QED
      BY <3>1, <3>2
  <2>3. T \in SUBSET Nat
    OBVIOUS
  <2> HIDE DEF T
  <2>4. \A k \in Nat : k \in T
    BY <2>1, <2>2, <2>3, Counting
  <2> QED
    BY <2>4 DEF T
<1>7. \A i \in 1 .. n : s[i] \in Cells(a)
  BY <1>6
<1>8. \A i \in 1 .. n : i # 1 => i - 1 \in 1 .. n /\ s[i] = next[s[i - 1]]
  BY <1>1, <1>2
<1>9. \A i \in 1 .. n : i # n => i + 1 \in 1 .. n /\ s[i + 1] = next[s[i]]
  <2> SUFFICES ASSUME NEW i \in 1 .. n, i # n
               PROVE  i + 1 \in 1 .. n /\ s[i + 1] = next[s[i]]
    OBVIOUS
  <2> DEFINE j == i + 1
  <2>1. j \in 1 .. n /\ j # 1 /\ j - 1 = i
    BY <1>1
  <2> HIDE DEF j
  <2>2. s[j] = next[s[i]]
    BY <1>8, <2>1
  <2> QED
    BY <2>1, <2>2 DEF j
\* A link met twice would close the walk before it has met all the links.
<1>10. ASSUME NEW i \in 1 .. n, NEW j \in 1 .. n, i < j PROVE s[i] # s[j]
  <2> SUFFICES ASSUME s[i] = s[j] PROVE FALSE
    OBVIOUS
  <2> DEFINE M == {s[k] : k \in 1 .. j - 1}
  <2>1. j - 1 \in Nat /\ i \in 1 .. j - 1 /\ j - 1 < n /\ j - 1 \in 1 .. n
    BY <1>1, <1>10
  <2>2. M \subseteq Cells(a) /\ M # {}
    BY <1>1, <1>7, <2>1
  <2>3. Closed(M)
    <3> SUFFICES ASSUME NEW k \in 1 .. j - 1 PROVE next[s[k]] \in M
      BY DEF Closed
    <3>1. k \in 1 .. n /\ k # n /\ s[k + 1] = next[s[k]]
      BY <1>1, <1>9, <2>1
    <3>2. CASE k + 1 \in 1 .. j - 1
      BY <3>1, <3>2
    <3>3. CASE k = j - 1
      <4>1. k + 1 = j
        BY <3>3, <1>1
      <4> QED
        BY <3>1, <4>1, <2>1
    <3> QED
      BY <3>2, <3>3, <1>1
  <2>4. M = Cells(a)
    BY <2>2, <2>3 DEF RingInv, OneRing
  <2>5. Cardinality(M) <= j - 1
    BY <2>1, Met, ZenonT(30)
  <2> HIDE DEF M
  <2> QED
    BY <1>1, <2>1, <2>4, <2>5
<1>11. \A i, j \in 1 .. n : s[i] = s[j] => i = j
  BY <1>1, <1>10
<1>12. s \in Seq(Links) /\ Len(s) = n /\ Distinct(s)
  <2>1. s \in [1 .. n -> Links]
    BY <1>1, <1>2, <1>7
  <2>2. s \in Seq(Links) /\ Len(s) = n
    BY <1>1, <2>1
  <2> QED
    BY <1>11, <2>2 DEF Distinct
<1>13. Cells(a) = {s[i] : i \in 1 .. n}
  <2> DEFINE M == {s[i] : i \in 1 .. n}
  <2>1. M \subseteq Cells(a)
    BY <1>7
  <2>2. s = [i \in 1 .. n |-> s[i]]
    BY <1>2
  <2>3. Cardinality(M) = n
    BY <1>1, <1>12, <2>2, Met
  <2> HIDE DEF M
  <2>4. M = Cells(a)
    BY <1>1, <2>1, <2>3, FS_Subset
  <2> QED
    BY <2>4 DEF M
<1>14. ASSUME n # 0 PROVE next[s[n]] = s[1] /\ prev[s[1]] = s[n]
  <2>1. n \in 1 .. n /\ 1 \in 1 .. n
    BY <1>1, <1>14
  <2>2. next[s[n]] \in Cells(a) /\ prev[next[s[n]]] = s[n]
    BY <1>5, <1>7, <2>1
  <2>3. PICK k \in 1 .. n : next[s[n]] = s[k]
    BY <1>13, <2>2
  <2>4. CASE k = 1
    BY <2>2, <2>3, <2>4
  <2>5. CASE k # 1
    <3>1. k - 1 \in 1 .. n /\ s[k] = next[s[k - 1]]
      BY <1>8, <2>5
    <3>2. prev[s[k]] = s[k - 1]
      BY <1>5, <1>7, <3>1
    <3>3. k - 1 = n
      BY <1>11, <2>1, <2>2, <2>3, <3>1, <3>2
    <3> QED
      BY <1>1, <3>3
  <2> QED
    BY <2>4, <2>5
<1>15. ASSUME NEW i \in 1 .. n
       PROVE  next[s[i]] = After(s, i) /\ prev[s[i]] = Before(s, i)
  <2>1. next[s[i]] = After(s, i)
    BY <1>1, <1>9, <1>12, <1>14 DEF After
  <2>2. CASE i = 1
    BY <1>1, <1>12, <1>14, <2>1, <2>2 DEF Before
  <2>3. CASE i # 1
    <3>1. i - 1 \in 1 .. n /\ s[i] = next[s[i - 1]]
      BY <1>8, <2>3
    <3> QED
      BY <1>5, <1>7, <2>1, <2>3, <3>1 DEF Before
  <2> QED
    BY <2>1, <2>2, <2>3
<1>16. IF n = 0 THEN first[a] = Null ELSE first[a] = s[1]
  BY <1>1, <1>2, <1>4
<1>17. InRing(a, s)
  BY <1>12, <1>13, <1>15, <1>16 DEF InRing, n
<1> QED
  BY <1>17 DEF s

-----------------------------------------------------------------------------
(***************************************************************************)
(* A list as the refinement mapping sees it.                               *)
(***************************************************************************)
View(a) == [items |-> InOrder(a), cur |-> PositionOf(link[a], InOrder(a))]
Mapped == [a \in Lists |-> View(a)]

\* The ring of a is s and its cursor is at position c, 0 for none.
Pointer(s, c) == IF c = 0 THEN Null ELSE s[c]
At(a, s, c) == InRing(a, s) /\ c \in 0 .. Len(s) /\ link[a] = Pointer(s, c)

\* The cursor's position is where the current link stands in the walk.
LEMMA PositionIs ==
  ASSUME NEW s \in Seq(Links), Distinct(s), NEW c \in 0 .. Len(s)
  PROVE  PositionOf(Pointer(s, c), s) = c
<1>1. DOMAIN s = 1 .. Len(s) /\ \A i \in 1 .. Len(s) : s[i] # Null
  BY LinkListAssumption
<1>2. CASE c = 0
  BY <1>1, <1>2 DEF PositionOf, Pointer
<1>3. CASE c # 0
  <2>1. c \in DOMAIN s /\ Pointer(s, c) = s[c]
    BY <1>1, <1>3 DEF Pointer
  <2>2. \A i \in DOMAIN s : s[i] = s[c] <=> i = c
    BY <1>1, <2>1 DEF Distinct
  <2>3. (CHOOSE i \in DOMAIN s : s[i] = s[c]) = c
    BY <2>1, <2>2
  <2> QED
    BY <2>1, <2>3 DEF PositionOf
<1> QED
  BY <1>2, <1>3

\* Every list has a view, the one its ring is walked to.
LEMMA Viewed ==
  ASSUME HeapInv, NEW a \in Lists
  PROVE  At(a, View(a).items, View(a).cur)
<1> DEFINE s == InOrder(a)
<1>1. InRing(a, s)
  BY Ordered
<1>2. \E c \in 0 .. Len(s) : link[a] = Pointer(s, c)
  <2>1. s \in Seq(Links) /\ Cells(a) = {s[i] : i \in 1 .. Len(s)}
    BY <1>1 DEF InRing
  <2>2. CASE link[a] = Null
    <3>1. 0 \in 0 .. Len(s) /\ link[a] = Pointer(s, 0)
      BY <2>1, <2>2 DEF Pointer
    <3> QED
      BY <3>1
  <2>3. CASE link[a] # Null
    <3>1. PICK i \in 1 .. Len(s) : link[a] = s[i]
      BY <2>1, <2>3 DEF HeapInv, HeaderInv
    <3>2. i \in 0 .. Len(s) /\ link[a] = Pointer(s, i)
      BY <2>1, <3>1 DEF Pointer
    <3> QED
      BY <3>2
  <2> QED
    BY <2>2, <2>3
<1>3. PICK c \in 0 .. Len(s) : link[a] = Pointer(s, c)
  BY <1>2
<1>4. PositionOf(link[a], s) = c
  BY <1>1, <1>3, PositionIs DEF InRing
<1>5. View(a).items = s /\ View(a).cur = c
  BY <1>4 DEF View
<1> QED
  BY <1>1, <1>3, <1>5 DEF At

\* What a call makes of a list ...
LEMMA ViewedNext ==
  ASSUME NEW a \in Lists, NEW t \in Seq(Links), Distinct(t), Len(t) = list_size'[a],
         Len(t) > 0 => t[1] = first'[a],
         \A i \in 1 .. Len(t) : i > 1 => t[i] = next'[t[i - 1]],
         NEW d \in 0 .. Len(t), link'[a] = Pointer(t, d)
  PROVE  View(a)' = [items |-> t, cur |-> d]
<1>1. InOrder(a)' = t
  BY InOrderIs, WalkIs
<1>2. PositionOf(link'[a], t) = d
  BY PositionIs
<1> QED
  BY <1>1, <1>2 DEF View, PositionOf

\* ... and where it leaves a list alone.
LEMMA ViewedSame ==
  ASSUME HeapInv, NEW a \in Lists,
         first'[a] = first[a], link'[a] = link[a], list_size'[a] = list_size[a],
         \A x \in Cells(a) : next'[x] = next[x]
  PROVE  View(a)' = View(a)
<1> DEFINE s == View(a).items
           c == View(a).cur
<1>1. At(a, s, c)
  BY Viewed
<1>2. View(a) = [items |-> s, cur |-> c]
  BY DEF View
<1> HIDE DEF s, c
<1>3. /\ s \in Seq(Links) /\ Distinct(s) /\ Len(s) = list_size'[a]
      /\ Len(s) > 0 => s[1] = first'[a]
      /\ c \in 0 .. Len(s) /\ link'[a] = Pointer(s, c)
  BY <1>1 DEF At, InRing
<1>4. ASSUME NEW i \in 1 .. Len(s), i > 1 PROVE s[i] = next'[s[i - 1]]
  <2>1. i - 1 \in 1 .. Len(s) /\ i - 1 # Len(s) /\ i - 1 + 1 = i
    BY <1>3, <1>4
  <2>2. s[i - 1] \in Cells(a) /\ next[s[i - 1]] = After(s, i - 1)
    BY <1>1, <2>1 DEF At, InRing
  <2> QED
    BY <2>1, <2>2 DEF After
<1>5. View(a)' = [items |-> s, cur |-> c]
  BY <1>3, <1>4, ViewedNext
<1> QED
  BY <1>2, <1>5

\* A call that changes the view of one list.
LEMMA MappedOne ==
  ASSUME NEW a \in Lists, NEW v, View(a)' = v, \A b \in Lists : b # a => View(b)' = View(b)
  PROVE  Mapped' = [Mapped EXCEPT ![a] = v]
BY DEF Mapped

-----------------------------------------------------------------------------
(***************************************************************************)
(* Entering.                                                               *)
(***************************************************************************)
\* t is the sequence s over S with one item, p, put in at position at.
Insertion(S, s, at, p, t) ==
  /\ t \in Seq(S) /\ Len(t) = Len(s) + 1
  /\ \A i \in 1 .. Len(s) + 1 :
       t[i] = IF i < at THEN s[i] ELSE IF i = at THEN p ELSE s[i - 1]

\* InsertAt puts one item in, for the items and for the saved cursors alike.
LEMMA InsertedIn ==
  ASSUME NEW S, NEW s \in Seq(S), NEW p \in S, NEW at \in 1 .. Len(s) + 1
  PROVE  Insertion(S, s, at, p, Abstract!Sq!InsertAt(s, at, p))
<1> DEFINE u == SubSeq(s, 1, at - 1)
           v == SubSeq(s, at, Len(s))
           t == Abstract!Sq!InsertAt(s, at, p)
<1>1. /\ u \in Seq(S) /\ Len(u) = at - 1 /\ \A i \in 1 .. at - 1 : u[i] = s[i]
      /\ v \in Seq(S) /\ Len(v) = Len(s) - at + 1
      /\ \A i \in 1 .. Len(s) - at + 1 : v[i] = s[at + i - 1]
  OBVIOUS
<1> DEFINE w == u \o <<p>>
<1>2. t = w \o v
  BY DEF Abstract!Sq!InsertAt
<1> HIDE DEF u, v, t
<1>3. w \in Seq(S) /\ Len(w) = at /\ w[at] = p /\ \A i \in 1 .. at - 1 : w[i] = s[i]
  <2>1. <<p>> \in Seq(S) /\ Len(<<p>>) = 1 /\ <<p>>[1] = p
    OBVIOUS
  <2>2. /\ w \in Seq(S) /\ Len(w) = at
        /\ \A i \in 1 .. at : w[i] = IF i <= at - 1 THEN u[i] ELSE <<p>>[i - (at - 1)]
    BY <1>1, <2>1, ConcatProperties, SMTT(30)
  <2> QED
    BY <1>1, <2>1, <2>2, SMTT(30)
<1> HIDE DEF w
<1>5. /\ t \in Seq(S) /\ Len(t) = Len(s) + 1
      /\ \A i \in 1 .. Len(s) + 1 : t[i] = IF i <= at THEN w[i] ELSE v[i - at]
  <2>1. Len(w) = at /\ Len(w) + Len(v) = Len(s) + 1
    BY <1>1, <1>3
  <2>2. /\ t \in Seq(S) /\ Len(t) = Len(w) + Len(v)
        /\ \A i \in 1 .. Len(w) + Len(v) : t[i] = IF i <= Len(w) THEN w[i] ELSE v[i - Len(w)]
    BY <1>1, <1>2, <1>3, ConcatProperties
  <2> QED
    BY <2>1, <2>2, ZenonT(30)
<1>4. ASSUME NEW i \in 1 .. Len(s) + 1
      PROVE  t[i] = IF i < at THEN s[i] ELSE IF i = at THEN p ELSE s[i - 1]
  <2>1. CASE i < at
    BY <1>3, <1>5, <2>1
  <2>2. CASE i = at
    BY <1>3, <1>5, <2>2
  <2>3. CASE i > at
    <3>1. i - at \in 1 .. Len(s) - at + 1 /\ at + (i - at) - 1 = i - 1
      BY <2>3
    <3>2. t[i] = v[i - at]
      BY <1>5, <2>3
    <3> QED
      BY <1>1, <2>3, <3>1, <3>2
  <2> QED
    BY <2>1, <2>2, <2>3
<1> QED
  BY <1>4, <1>5 DEF t, Insertion

\* A new link enters before the link at position at, or at the end.
LEMMA EnteredView ==
  ASSUME HeapInv, NEW a \in Lists, NEW s, NEW c, At(a, s, c),
         NEW p \in Links, NEW o, NEW perm, NewLink(a, p, o, perm), OnlyOf(a),
         NEW at \in 1 .. Len(s) + 1, NEW t, t = Abstract!Sq!InsertAt(s, at, p),
         IF Len(s) = 0 THEN UNCHANGED ring
         ELSE AddBefore(IF at = Len(s) + 1 THEN s[1] ELSE s[at], p),
         first'[a] = IF at = 1 THEN p ELSE first[a],
         NEW d \in 0 .. Len(t), link'[a] = Pointer(t, d)
  PROVE  Mapped' = [Mapped EXCEPT ![a] = [items |-> t, cur |-> d]]
<1> DEFINE n == Len(s)
           q == IF at = n + 1 THEN s[1] ELSE s[at]
<1>1. /\ s \in Seq(Links) /\ n = list_size[a] /\ n \in Nat /\ Distinct(s)
      /\ \A i \in 1 .. n : s[i] \in Cells(a) /\ next[s[i]] = After(s, i) /\ prev[s[i]] = Before(s, i)
      /\ \A i \in 1 .. n : s[i] \in Links
      /\ n # 0 => first[a] = s[1]
      /\ at \in 1 .. n + 1
  BY DEF At, InRing
<1>2. p \in Free /\ p \notin Cells(a) /\ \A b \in Lists : p \notin Cells(b)
  BY LinkListAssumption DEF NewLink, Free, Cells
<1>3. /\ t \in Seq(Links) /\ Len(t) = n + 1
      /\ \A i \in 1 .. n + 1 : t[i] = IF i < at THEN s[i] ELSE IF i = at THEN p ELSE s[i - 1]
  <2>1. Insertion(Links, s, at, p, t)
    BY <1>1, InsertedIn
  <2> QED
    BY <2>1 DEF Insertion
<1> HIDE DEF n
<1>4. Distinct(t)
  <2> SUFFICES ASSUME NEW i \in 1 .. n + 1, NEW j \in 1 .. n + 1, i < j PROVE t[i] # t[j]
    BY <1>1, <1>3 DEF Distinct
  <2>1. \A k, l \in 1 .. n : s[k] = s[l] => k = l
    BY <1>1 DEF Distinct, n
  <2>2. \A k \in 1 .. n : s[k] # p
    BY <1>1, <1>2
  <2>3. CASE i < at
    <3>1. i \in 1 .. n /\ t[i] = s[i]
      BY <1>1, <1>3, <2>3 DEF n
    <3>2. CASE j < at
      <4>1. j \in 1 .. n /\ t[j] = s[j]
        BY <1>1, <1>3, <3>2 DEF n
      <4> QED
        BY <2>1, <3>1, <4>1
    <3>3. CASE j = at
      BY <1>3, <2>2, <3>1, <3>3
    <3>4. CASE j > at
      <4>1. j - 1 \in 1 .. n /\ t[j] = s[j - 1] /\ j - 1 # i
        BY <1>1, <1>3, <2>3, <3>4 DEF n
      <4> QED
        BY <2>1, <3>1, <4>1
    <3> QED
      BY <3>2, <3>3, <3>4, <1>1
  <2>4. CASE i >= at
    <3>1. j - 1 \in 1 .. n /\ t[j] = s[j - 1]
      BY <1>1, <1>3, <2>4 DEF n
    <3>2. CASE i = at
      BY <1>3, <2>2, <3>1, <3>2
    <3>3. CASE i > at
      <4>1. i - 1 \in 1 .. n /\ t[i] = s[i - 1] /\ j - 1 # i - 1
        BY <1>1, <1>3, <3>3 DEF n
      <4> QED
        BY <2>1, <3>1, <4>1
    <3> QED
      BY <2>4, <3>2, <3>3, <1>1
  <2> QED
    BY <2>3, <2>4, <1>1
<1>5. n # 0 => q \in Cells(a) /\ q \in Links /\ prev[q] \in Cells(a)
              /\ \A x \in Links : next'[x] = IF x = prev[q] THEN p ELSE IF x = p THEN q ELSE next[x]
  <2> SUFFICES ASSUME n # 0
               PROVE  /\ q \in Cells(a) /\ q \in Links /\ prev[q] \in Cells(a)
                      /\ \A x \in Links : next'[x] = IF x = prev[q] THEN p ELSE IF x = p THEN q ELSE next[x]
    OBVIOUS
  <2>1. q \in Cells(a) /\ AddBefore(q, p)
    BY <1>1 DEF n
  <2>2. q \in Links /\ prev[q] \in Links /\ home[prev[q]] = a /\ home[q] = a
    BY <2>1 DEF HeapInv, TypeOK, RingInv, TwoWay, Cells
  <2>3. prev[q] # p
    BY <2>2, <1>2 DEF Cells
  <2> HIDE DEF q
  <2>4. \A x \in Links : next'[x] = IF x = prev[q] THEN p ELSE IF x = p THEN q ELSE next[x]
    BY <2>1, <2>2, <2>3 DEF AddBefore, HeapInv, TypeOK
  <2> QED
    BY <2>1, <2>2, <2>4 DEF Cells
<1>6. ASSUME NEW i \in 1 .. n + 1, i > 1 PROVE t[i] = next'[t[i - 1]]
  <2>1. n # 0 /\ i - 1 \in 1 .. n /\ i - 1 \in 1 .. n + 1
    BY <1>1, <1>6
  <2>2. CASE i = at
    <3>1. t[i] = p /\ t[i - 1] = s[i - 1]
      <4>1. i - 1 < at /\ ~(i < at)
        BY <1>1, <2>2
      <4> QED
        BY <1>3, <2>1, <2>2, <4>1
    <3>2. prev[q] = s[i - 1]
      <4>1. CASE at = n + 1
        <5>1. q = s[1] /\ 1 \in 1 .. n /\ i - 1 = n
          BY <1>1, <2>1, <2>2, <4>1
        <5> QED
          BY <1>1, <5>1 DEF Before, n
      <4>2. CASE at # n + 1
        <5>1. q = s[i] /\ i \in 1 .. n
          BY <1>1, <2>2, <4>2
        <5> QED
          BY <1>1, <1>6, <5>1, SMTT(30) DEF Before
      <4> QED
        BY <4>1, <4>2
    <3> QED
      BY <1>1, <1>5, <2>1, <3>1, <3>2
  <2>3. CASE i - 1 = at
    <3>1. t[i - 1] = p /\ t[i] = s[i - 1] /\ at # n + 1 /\ q = s[i - 1]
      BY <1>1, <1>3, <2>1, <2>3, SMTT(30)
    <3>2. p # prev[q]
      BY <1>2, <1>5, <2>1
    <3> QED
      BY <1>5, <2>1, <3>1, <3>2
  <2>4. CASE i # at /\ i - 1 # at
    <3> DEFINE k == IF i < at THEN i ELSE i - 1
    <3>1. k \in 1 .. n /\ k - 1 \in 1 .. n /\ t[i] = s[k] /\ t[i - 1] = s[k - 1]
      <4>1. CASE i < at
        <5>1. i \in 1 .. n /\ i - 1 < at
          BY <1>1, <4>1
        <5> QED
          BY <1>3, <2>1, <4>1, <5>1
      <4>2. CASE i > at
        <5>1. i - 1 > at /\ i - 1 - 1 \in 1 .. n
          BY <1>1, <2>4, <4>2
        <5> QED
          BY <1>3, <2>1, <4>2, <5>1
      <4> QED
        BY <1>1, <2>4, <4>1, <4>2
    <3>2. next[s[k - 1]] = s[k]
      BY <1>1, <3>1 DEF After, n
    <3>3. s[k - 1] # prev[q]
      <4>1. k - 1 # n /\ k # at
        BY <1>1, <1>6, <2>4, <3>1
      <4>2. CASE at = n + 1
        <5>1. prev[q] = s[n] /\ n \in 1 .. n
          BY <1>1, <2>1, <4>2 DEF Before, n
        <5> QED
          BY <1>1, <3>1, <4>1, <5>1, SMTT(30) DEF Distinct, n
      <4>3. CASE at = 1
        <5>1. prev[q] = s[n] /\ n \in 1 .. n
          BY <1>1, <2>1, <4>3 DEF Before, n
        <5> QED
          BY <1>1, <3>1, <4>1, <5>1 DEF Distinct, n
      <4>4. CASE at # n + 1 /\ at # 1
        <5>1. at \in 1 .. n /\ at - 1 \in 1 .. n
          BY <1>1, <4>4, SMTT(30)
        <5>2. prev[q] = s[at - 1]
          BY <1>1, <4>4, <5>1 DEF Before
        <5>3. k - 1 # at - 1
          BY <1>1, <3>1, <4>1
        <5> QED
          BY <1>1, <3>1, <5>1, <5>2, <5>3 DEF Distinct, n
      <4> QED
        BY <4>2, <4>3, <4>4
    <3> QED
      BY <1>1, <1>2, <1>5, <2>1, <3>1, <3>2, <3>3
  <2> QED
    BY <2>2, <2>3, <2>4
<1>7. View(a)' = [items |-> t, cur |-> d]
  <2>1. Len(t) = list_size'[a]
    BY <1>1, <1>3 DEF NewLink, HeapInv, TypeOK
  <2>2. t[1] = first'[a]
    <3>1. 1 \in 1 .. n + 1 /\ (at # 1 => 1 < at /\ n # 0)
      BY <1>1
    <3> QED
      BY <1>1, <1>3, <3>1
  <2> QED
    BY <1>3, <1>4, <1>6, <2>1, <2>2, ViewedNext
<1>8. ASSUME NEW b \in Lists, b # a PROVE View(b)' = View(b)
  <2>1. first'[b] = first[b] /\ link'[b] = link[b] /\ list_size'[b] = list_size[b]
    BY <1>8 DEF OnlyOf, NewLink, HeapInv, TypeOK
  <2>2. ASSUME NEW x \in Cells(b) PROVE next'[x] = next[x]
    <3>1. x \in Links /\ x # p /\ x \notin Cells(a)
      BY <1>2, <1>8 DEF Cells
    <3>2. CASE n = 0
      BY <3>2 DEF ring, n
    <3>3. CASE n # 0
      BY <1>5, <3>1, <3>3
    <3> QED
      BY <3>2, <3>3
  <2> QED
    BY <2>1, <2>2, ViewedSame
<1> QED
  BY <1>7, <1>8, MappedOne

\* The ends of a list are positions of InsertAt.
LEMMA InsertedEndsIn ==
  ASSUME NEW S, NEW s \in Seq(S), NEW p \in S
  PROVE  /\ Append(s, p) = Abstract!Sq!InsertAt(s, Len(s) + 1, p)
         /\ Abstract!Sq!Cons(p, s) = Abstract!Sq!InsertAt(s, 1, p)
<1> DEFINE n == Len(s)
           t(at) == Abstract!Sq!InsertAt(s, at, p)
<1>1. n \in Nat /\ 1 \in 1 .. n + 1 /\ n + 1 \in 1 .. n + 1
  OBVIOUS
<1>2. ASSUME NEW at \in 1 .. n + 1
      PROVE  /\ t(at) \in Seq(S) /\ Len(t(at)) = n + 1
             /\ \A i \in 1 .. n + 1 : t(at)[i] = IF i < at THEN s[i] ELSE IF i = at THEN p ELSE s[i - 1]
  <2>1. Insertion(S, s, at, p, t(at))
    BY InsertedIn
  <2> QED
    BY <2>1 DEF Insertion
<1> HIDE DEF t
<1>3. Append(s, p) = t(n + 1)
  <2>1. /\ Append(s, p) \in Seq(S) /\ Len(Append(s, p)) = n + 1
        /\ \A i \in 1 .. n + 1 : Append(s, p)[i] = IF i < n + 1 THEN s[i] ELSE p
    OBVIOUS
  <2>2. \A i \in 1 .. n + 1 : t(n + 1)[i] = IF i < n + 1 THEN s[i] ELSE p
    BY <1>1, <1>2
  <2>3. t(n + 1) \in Seq(S) /\ Len(t(n + 1)) = n + 1
    BY <1>1, <1>2
  <2> HIDE DEF n
  <2> QED
    BY <2>1, <2>2, <2>3, SeqEqual
<1>4. Abstract!Sq!Cons(p, s) = t(1)
  <2> DEFINE u == <<p>> \o s
  <2>1. u \in Seq(S) /\ Len(u) = n + 1 /\ \A i \in 1 .. n + 1 : u[i] = IF i <= 1 THEN p ELSE s[i - 1]
    <3>1. <<p>> \in Seq(S) /\ Len(<<p>>) = 1 /\ <<p>>[1] = p /\ 1 + n = n + 1
      OBVIOUS
    <3>2. /\ u \in Seq(S) /\ Len(u) = 1 + n
          /\ \A i \in 1 .. 1 + n : u[i] = IF i <= 1 THEN <<p>>[i] ELSE s[i - 1]
      BY <3>1, ConcatProperties
    <3> QED
      BY <3>1, <3>2
  <2>2. t(1) \in Seq(S) /\ Len(t(1)) = n + 1
    BY <1>1, <1>2
  <2>3. \A i \in 1 .. n + 1 : t(1)[i] = IF i <= 1 THEN p ELSE s[i - 1]
    BY <1>1, <1>2
  <2> HIDE DEF u, n
  <2>4. u = t(1)
    BY <2>1, <2>2, <2>3, SeqEqual
  <2> QED
    BY <2>4 DEF Abstract!Sq!Cons, u
<1> QED
  BY <1>3, <1>4 DEF t, n

\* The same for the links of a list.
LEMMA InsertedEnds ==
  ASSUME NEW s \in Seq(Links), NEW p \in Links
  PROVE  /\ Append(s, p) = Abstract!Sq!InsertAt(s, Len(s) + 1, p)
         /\ Abstract!Sq!Cons(p, s) = Abstract!Sq!InsertAt(s, 1, p)
BY InsertedEndsIn, Zenon

\* The links of a list are the items of its view.
LEMMA ItemsAre ==
  ASSUME HeapInv, NEW a \in Lists
  PROVE  \A x \in Links : Abstract!InList(Mapped[a], x) <=> x \in Cells(a)
<1>1. InRing(a, View(a).items) /\ Mapped[a] = View(a)
  BY Viewed DEF At, Mapped
<1> QED
  BY <1>1 DEF InRing, Abstract!InList

\* Append: at the end; the cursor stays on its item, or is on the only one.
LEMMA AppendLinkView ==
  ASSUME HeapInv, NEW a \in Lists, NEW p \in Links, NEW o, NEW perm, AppendLink(a, p, o, perm)
  PROVE  Mapped' = [Mapped EXCEPT ![a] = Abstract!AppendL(Mapped[a], p)]
<1> DEFINE s == View(a).items
           c == View(a).cur
           n == Len(s)
           at == n + 1
           t == Abstract!Sq!InsertAt(s, at, p)
           d == IF n = 0 THEN 1 ELSE c
<1>1. At(a, s, c) /\ Mapped[a] = [items |-> s, cur |-> c]
  <2>1. Mapped[a] = [items |-> s, cur |-> c]
    BY DEF Mapped, View
  <2> QED
    BY <2>1, Viewed
<1> HIDE DEF s, c
<1>2. /\ s \in Seq(Links) /\ n \in Nat /\ at \in 1 .. n + 1 /\ c \in 0 .. n /\ link[a] = Pointer(s, c)
      /\ IF n = 0 THEN first[a] = Null ELSE first[a] = s[1] /\ s[1] # Null
  BY <1>1, LinkListAssumption DEF At, InRing
<1>3. /\ t \in Seq(Links) /\ Len(t) = n + 1
      /\ \A i \in 1 .. n + 1 : t[i] = IF i < at THEN s[i] ELSE IF i = at THEN p ELSE s[i - 1]
  <2>1. Insertion(Links, s, at, p, t)
    BY <1>2, InsertedIn
  <2> QED
    BY <2>1 DEF Insertion
<1> HIDE DEF t
<1>4. /\ NewLink(a, p, o, perm) /\ OnlyOf(a)
      /\ IF n = 0 THEN UNCHANGED ring ELSE AddBefore(s[1], p)
      /\ first'[a] = IF at = 1 THEN p ELSE first[a]
      /\ link'[a] = IF n = 0 THEN p ELSE link[a]
  BY <1>2 DEF AppendLink, OnlyOf, LinkAtEnd, HeapInv, TypeOK
<1>5. d \in 0 .. Len(t) /\ link'[a] = Pointer(t, d)
  BY <1>2, <1>3, <1>4 DEF Pointer
<1>6. Mapped' = [Mapped EXCEPT ![a] = [items |-> t, cur |-> d]]
  BY <1>1, <1>2, <1>4, <1>5, EnteredView DEF t
<1>7. Abstract!AppendL(Mapped[a], p) = [items |-> t, cur |-> d]
  <2>1. Append(s, p) = t
    BY <1>2, InsertedEnds DEF t
  <2>2. s = << >> <=> n = 0
    BY <1>2
  <2> QED
    BY <1>1, <2>1, <2>2, SMTT(30) DEF Abstract!AppendL
<1> QED
  BY <1>6, <1>7

\* Prepend: at the front; the cursor stays on its item, or is on the only one.
LEMMA PrependView ==
  ASSUME HeapInv, NEW a \in Lists, NEW p \in Links, NEW o, NEW perm, Prepend(a, p, o, perm)
  PROVE  Mapped' = [Mapped EXCEPT ![a] = Abstract!PrependL(Mapped[a], p)]
<1> DEFINE s == View(a).items
           c == View(a).cur
           n == Len(s)
           t == Abstract!Sq!InsertAt(s, 1, p)
           d == IF n = 0 THEN 1 ELSE IF c # 0 THEN c + 1 ELSE 0
<1>1. At(a, s, c) /\ Mapped[a] = [items |-> s, cur |-> c]
  <2>1. Mapped[a] = [items |-> s, cur |-> c]
    BY DEF Mapped, View
  <2> QED
    BY <2>1, Viewed
<1> HIDE DEF s, c
<1>2. /\ s \in Seq(Links) /\ n \in Nat /\ 1 \in 1 .. n + 1 /\ c \in 0 .. n /\ link[a] = Pointer(s, c)
      /\ IF n = 0 THEN first[a] = Null ELSE first[a] = s[1] /\ s[1] # Null
  BY <1>1, LinkListAssumption DEF At, InRing
<1>3. /\ t \in Seq(Links) /\ Len(t) = n + 1
      /\ \A i \in 1 .. n + 1 : t[i] = IF i < 1 THEN s[i] ELSE IF i = 1 THEN p ELSE s[i - 1]
  <2>1. Insertion(Links, s, 1, p, t)
    BY <1>2, InsertedIn
  <2> QED
    BY <2>1 DEF Insertion
<1> HIDE DEF t
<1>4. /\ NewLink(a, p, o, perm) /\ OnlyOf(a)
      /\ IF n = 0 THEN UNCHANGED ring ELSE AddBefore(s[1], p)
      /\ first'[a] = p
      /\ link'[a] = IF n = 0 THEN p ELSE link[a]
  BY <1>2 DEF Prepend, OnlyOf, LinkAtEnd, HeapInv, TypeOK
<1>5. d \in 0 .. Len(t) /\ link'[a] = Pointer(t, d)
  BY <1>2, <1>3, <1>4 DEF Pointer
<1>6. Mapped' = [Mapped EXCEPT ![a] = [items |-> t, cur |-> d]]
  <2>1. IF n = 0 THEN UNCHANGED ring ELSE AddBefore(IF 1 = n + 1 THEN s[1] ELSE s[1], p)
    BY <1>4
  <2> QED
    BY <1>1, <1>2, <1>4, <1>5, <2>1, EnteredView DEF t
<1>7. Abstract!PrependL(Mapped[a], p) = [items |-> t, cur |-> d]
  <2>1. Abstract!Sq!Cons(p, s) = t
    BY <1>2, InsertedEnds DEF t
  <2>2. s = << >> <=> n = 0
    BY <1>2
  <2> QED
    BY <1>1, <2>1, <2>2 DEF Abstract!PrependL, Abstract!IsCurrent
<1> QED
  BY <1>6, <1>7

\* Insert: before the current link, or at the front.
LEMMA InsertView ==
  ASSUME HeapInv, NEW a \in Lists, NEW p \in Links, NEW o, NEW perm, Insert(a, p, o, perm)
  PROVE  Mapped' = [Mapped EXCEPT ![a] = Abstract!InsertL(Mapped[a], p)]
<1> DEFINE s == View(a).items
           c == View(a).cur
           n == Len(s)
           at == IF c <= 1 THEN 1 ELSE c
           t == Abstract!Sq!InsertAt(s, at, p)
<1>1. At(a, s, c) /\ Mapped[a] = [items |-> s, cur |-> c]
  <2>1. Mapped[a] = [items |-> s, cur |-> c]
    BY DEF Mapped, View
  <2> QED
    BY <2>1, Viewed
<1> HIDE DEF s, c
<1>2. /\ s \in Seq(Links) /\ n \in Nat /\ at \in 1 .. n + 1 /\ c \in 0 .. n /\ link[a] = Pointer(s, c)
      /\ IF n = 0 THEN first[a] = Null ELSE first[a] = s[1] /\ s[1] # Null
  BY <1>1, LinkListAssumption DEF At, InRing
<1>3. /\ t \in Seq(Links) /\ Len(t) = n + 1
      /\ \A i \in 1 .. n + 1 : t[i] = IF i < at THEN s[i] ELSE IF i = at THEN p ELSE s[i - 1]
  <2>1. Insertion(Links, s, at, p, t)
    BY <1>2, InsertedIn
  <2> QED
    BY <2>1 DEF Insertion
<1> HIDE DEF t
<1>4. link[a] \in {Null, first[a]} <=> c <= 1
  <2>1. CASE c = 0
    BY <2>1, <1>2 DEF Pointer
  <2>2. CASE c # 0
    <3>1. c \in 1 .. n /\ 1 \in 1 .. n /\ link[a] = s[c] /\ s[c] # Null /\ first[a] = s[1]
      BY <1>2, <2>2, LinkListAssumption DEF Pointer
    <3>2. s[c] = s[1] <=> c = 1
      BY <1>1, <3>1 DEF At, InRing, Distinct
    <3> QED
      BY <3>1, <3>2
  <2> QED
    BY <2>1, <2>2
<1>5. /\ NewLink(a, p, o, perm) /\ OnlyOf(a) /\ link'[a] = p
      /\ IF n = 0 THEN UNCHANGED ring ELSE AddBefore(IF at = n + 1 THEN s[1] ELSE s[at], p)
      /\ first'[a] = IF at = 1 THEN p ELSE first[a]
  <2>1. NewLink(a, p, o, perm) /\ link' = [link EXCEPT ![a] = p]
    BY DEF Insert
  <2>2. CASE c <= 1
    <3>1. LinkAtEnd(a, p) /\ first' = [first EXCEPT ![a] = p] /\ at = 1
      BY <1>4, <2>2 DEF Insert
    <3>2. IF n = 0 THEN UNCHANGED ring ELSE AddBefore(s[1], p)
      BY <1>2, <3>1 DEF LinkAtEnd
    <3> QED
      BY <2>1, <3>1, <3>2 DEF OnlyOf, HeapInv, TypeOK
  <2>3. CASE ~(c <= 1)
    <3>1. AddBefore(link[a], p) /\ first' = first
      BY <1>4, <2>3 DEF Insert
    <3>2. n # 0 /\ at = c /\ at # n + 1 /\ at # 1 /\ link[a] = s[c]
      BY <1>2, <2>3 DEF Pointer
    <3> QED
      BY <2>1, <3>1, <3>2 DEF OnlyOf, HeapInv, TypeOK
  <2> QED
    BY <2>2, <2>3
<1>6. at \in 0 .. Len(t) /\ link'[a] = Pointer(t, at)
  BY <1>2, <1>3, <1>5 DEF Pointer
<1>7. Mapped' = [Mapped EXCEPT ![a] = [items |-> t, cur |-> at]]
  <2> HIDE DEF at
  <2> QED
    BY <1>1, <1>2, <1>5, <1>6, EnteredView DEF t
<1>8. Abstract!InsertL(Mapped[a], p) = [items |-> t, cur |-> at]
  BY <1>1 DEF Abstract!InsertL, t
<1> QED
  BY <1>7, <1>8

\* Add: behind the current link, or at the end; the new link is current.
LEMMA AddView ==
  ASSUME HeapInv, NEW a \in Lists, NEW p \in Links, NEW o, NEW perm, Add(a, p, o, perm)
  PROVE  Mapped' = [Mapped EXCEPT ![a] = Abstract!AddL(Mapped[a], p)]
<1> DEFINE s == View(a).items
           c == View(a).cur
           n == Len(s)
           at == IF c # 0 THEN c + 1 ELSE n + 1
           t == Abstract!Sq!InsertAt(s, at, p)
<1>1. At(a, s, c) /\ Mapped[a] = [items |-> s, cur |-> c]
  <2>1. Mapped[a] = [items |-> s, cur |-> c]
    BY DEF Mapped, View
  <2> QED
    BY <2>1, Viewed
<1> HIDE DEF s, c
<1>2. /\ s \in Seq(Links) /\ n \in Nat /\ at \in 1 .. n + 1 /\ c \in 0 .. n /\ link[a] = Pointer(s, c)
      /\ IF n = 0 THEN first[a] = Null ELSE first[a] = s[1] /\ s[1] # Null
  BY <1>1, LinkListAssumption DEF At, InRing
<1>3. /\ t \in Seq(Links) /\ Len(t) = n + 1
      /\ \A i \in 1 .. n + 1 : t[i] = IF i < at THEN s[i] ELSE IF i = at THEN p ELSE s[i - 1]
  <2>1. Insertion(Links, s, at, p, t)
    BY <1>2, InsertedIn
  <2> QED
    BY <2>1 DEF Insertion
<1> HIDE DEF t
<1>4. /\ NewLink(a, p, o, perm) /\ OnlyOf(a) /\ link'[a] = p
      /\ IF n = 0 THEN UNCHANGED ring ELSE AddBefore(IF at = n + 1 THEN s[1] ELSE s[at], p)
      /\ first'[a] = IF at = 1 THEN p ELSE first[a]
  <2>1. NewLink(a, p, o, perm) /\ link' = [link EXCEPT ![a] = p]
    BY DEF Add
  <2>2. CASE c = 0
    <3>1. LinkAtEnd(a, p) /\ first' = [first EXCEPT ![a] = IF @ = Null THEN p ELSE @] /\ at = n + 1
      BY <1>2, <2>2 DEF Add, Pointer
    <3>2. IF n = 0 THEN UNCHANGED ring ELSE AddBefore(s[1], p)
      BY <1>2, <3>1 DEF LinkAtEnd
    <3>3. first'[a] = IF n = 0 THEN p ELSE first[a]
      BY <1>2, <3>1 DEF HeapInv, TypeOK
    <3>4. OnlyOf(a)
      BY <2>1, <3>1 DEF OnlyOf, HeapInv, TypeOK
    <3> QED
      BY <1>2, <2>1, <3>1, <3>2, <3>3, <3>4 DEF HeapInv, TypeOK
  <2>3. CASE c # 0
    <3>1. c \in 1 .. n /\ link[a] = s[c] /\ link[a] \in Links /\ link[a] # Null /\ at = c + 1 /\ at # 1 /\ n # 0
      BY <1>2, <2>3, LinkListAssumption DEF Pointer
    <3>2. AddAfter(link[a], p) /\ first' = first
      BY <3>1 DEF Add
    <3>3. s[c] \in Cells(a) /\ next[s[c]] = After(s, c)
      BY <1>1, <3>1 DEF At, InRing
    <3>4. next[s[c]] = IF at = n + 1 THEN s[1] ELSE s[at]
      BY <1>2, <3>1, <3>3 DEF After
    <3>5. AddBefore(next[s[c]], p)
      <4>1. /\ next[s[c]] \in Links /\ prev[next[s[c]]] = s[c]
            /\ p \in Links /\ p # s[c] /\ p # next[s[c]]
        BY <3>3, LinkListAssumption DEF Add, NewLink, HeapInv, TypeOK, RingInv, TwoWay, Cells, Free
      <4> QED
        BY <3>1, <3>2, <4>1 DEF AddBefore, AddAfter, HeapInv, TypeOK
    <3>6. OnlyOf(a)
      BY <2>1, <3>2 DEF OnlyOf, HeapInv, TypeOK
    <3> HIDE DEF at
    <3> QED
      BY <2>1, <3>1, <3>2, <3>4, <3>5, <3>6 DEF HeapInv, TypeOK
  <2> QED
    BY <2>2, <2>3
<1>5. at \in 0 .. Len(t) /\ link'[a] = Pointer(t, at)
  BY <1>2, <1>3, <1>4 DEF Pointer
<1>6. Mapped' = [Mapped EXCEPT ![a] = [items |-> t, cur |-> at]]
  <2> HIDE DEF at
  <2> QED
    BY <1>1, <1>2, <1>4, <1>5, EnteredView DEF t
<1>7. Abstract!AddL(Mapped[a], p) = [items |-> t, cur |-> at]
  BY <1>1 DEF Abstract!AddL, Abstract!IsCurrent, t
<1> QED
  BY <1>6, <1>7

\* Every call that enters a link is Enter of CursorList.
LEMMA EnteringView ==
  ASSUME HeapInv, NEW a \in Lists, Entering(a)
  PROVE  Abstract!Next
<1>1. PICK p \in Links, o \in Objects, perm \in BOOLEAN :
        \/ AppendLink(a, p, o, perm) \/ Prepend(a, p, o, perm) \/ Insert(a, p, o, perm)
        \/ Add(a, p, o, perm) \/ ReplaceNull(a, p, o, perm)
  BY Zenon DEF Entering
<1>2. NewLink(a, p, o, perm)
  BY <1>1 DEF AppendLink, Prepend, Insert, Add, ReplaceNull
<1>3. ~Abstract!Linked(p) /\ object' = [object EXCEPT ![p] = o] /\ save' = save
  <2>1. \A b \in Lists : p \notin Cells(b)
    BY <1>2, LinkListAssumption DEF NewLink, Free, Cells
  <2> QED
    BY <1>2, <2>1, ItemsAre DEF NewLink, Abstract!Linked, Mapped, View
<1>4. CASE AppendLink(a, p, o, perm) \/ ReplaceNull(a, p, o, perm)
  <2>1. Mapped' = [Mapped EXCEPT ![a] = Abstract!AppendL(Mapped[a], p)]
    BY <1>4, AppendLinkView DEF ReplaceNull
  <2>2. Abstract!Enter(a, p, o, Abstract!AppendL)
    BY <1>3, <2>1 DEF Abstract!Enter, Mapped, View
  <2> QED
    BY <2>2 DEF Abstract!Next
<1>5. CASE Prepend(a, p, o, perm)
  <2>1. Mapped' = [Mapped EXCEPT ![a] = Abstract!PrependL(Mapped[a], p)]
    BY <1>5, PrependView
  <2>2. Abstract!Enter(a, p, o, Abstract!PrependL)
    BY <1>3, <2>1 DEF Abstract!Enter, Mapped, View
  <2> QED
    BY <2>2 DEF Abstract!Next
<1>6. CASE Insert(a, p, o, perm)
  <2>1. Mapped' = [Mapped EXCEPT ![a] = Abstract!InsertL(Mapped[a], p)]
    BY <1>6, InsertView
  <2>2. Abstract!Enter(a, p, o, Abstract!InsertL)
    BY <1>3, <2>1 DEF Abstract!Enter, Mapped, View
  <2> QED
    BY <2>2 DEF Abstract!Next
<1>7. CASE Add(a, p, o, perm)
  <2>1. Mapped' = [Mapped EXCEPT ![a] = Abstract!AddL(Mapped[a], p)]
    BY <1>7, AddView
  <2>2. Abstract!Enter(a, p, o, Abstract!AddL)
    BY <1>3, <2>1 DEF Abstract!Enter, Mapped, View
  <2> QED
    BY <2>2 DEF Abstract!Next
<1> QED
  BY <1>1, <1>4, <1>5, <1>6, <1>7

-----------------------------------------------------------------------------
(***************************************************************************)
(* Replacing and removing.                                                 *)
(***************************************************************************)
\* The current link is the item at the cursor.
LEMMA CurrentIs ==
  ASSUME HeapInv, NEW a \in Lists
  PROVE  /\ Abstract!IsCurrent(Mapped[a]) <=> link[a] # Null
         /\ Abstract!CurrentLink(a) = link[a]
<1>1. At(a, View(a).items, View(a).cur) /\ Mapped[a] = View(a)
  BY Viewed DEF Mapped
<1>2. Abstract!IsCurrent(Mapped[a]) <=> link[a] # Null
  BY <1>1, LinkListAssumption DEF At, InRing, Pointer, Abstract!IsCurrent
<1>3. Abstract!CurrentLink(a) = IF Abstract!IsCurrent(Mapped[a]) THEN Abstract!Current(Mapped[a]) ELSE Null
  BY DEF Abstract!CurrentLink, Mapped, View
<1> QED
  BY <1>1, <1>2, <1>3 DEF At, Pointer, Abstract!Current, Abstract!IsCurrent

\* Calls that leave the rings and the headers alone.
LEMMA MappedSame ==
  ASSUME HeapInv, UNCHANGED <<ring, first, link, list_size>>
  PROVE  Mapped' = Mapped
<1>1. ASSUME NEW b \in Lists PROVE View(b)' = View(b)
  BY ViewedSame DEF ring
<1> QED
  BY <1>1 DEF Mapped

\* Replace exchanges an object, and leaves sequence and cursor alone.
LEMMA ReplacingView ==
  ASSUME HeapInv, NEW a \in Lists, Replacing(a)
  PROVE  Abstract!Next
<1>1. PICK o \in Objects, perm \in BOOLEAN : Replace(a, o, perm)
  BY DEF Replacing
<1>2. /\ link[a] # Null /\ object' = [object EXCEPT ![link[a]] = o] /\ save' = save
      /\ UNCHANGED <<ring, first, link, list_size>>
  BY <1>1 DEF Replace
<1>3. Mapped' = Mapped
  BY <1>2, MappedSame
<1>4. Abstract!Replace(a, o)
  BY <1>2, <1>3, CurrentIs DEF Abstract!Replace, Mapped, View
<1> QED
  BY <1>4 DEF Abstract!Next

\* The removal of an item in terms of positions.
LEMMA Removed ==
  ASSUME NEW s \in Seq(Links), NEW c \in 1 .. Len(s)
  PROVE  LET t == Abstract!Sq!RemoveAt(s, c)
         IN  /\ t \in Seq(Links) /\ Len(t) = Len(s) - 1
             /\ \A i \in 1 .. Len(s) - 1 : t[i] = IF i < c THEN s[i] ELSE s[i + 1]
<1> DEFINE u == SubSeq(s, 1, c - 1)
           v == SubSeq(s, c + 1, Len(s))
           t == Abstract!Sq!RemoveAt(s, c)
<1>1. /\ u \in Seq(Links) /\ Len(u) = c - 1 /\ \A i \in 1 .. c - 1 : u[i] = s[i]
      /\ v \in Seq(Links) /\ Len(v) = Len(s) - c
      /\ \A i \in 1 .. Len(s) - c : v[i] = s[c + i]
  OBVIOUS
<1>2. t = u \o v
  BY DEF Abstract!Sq!RemoveAt
<1> HIDE DEF u, v, t
<1>3. Len(u) = c - 1 /\ Len(u) + Len(v) = Len(s) - 1
  BY <1>1
<1>4. /\ t \in Seq(Links) /\ Len(t) = Len(u) + Len(v)
      /\ \A i \in 1 .. Len(u) + Len(v) : t[i] = IF i <= Len(u) THEN u[i] ELSE v[i - Len(u)]
  BY <1>1, <1>2, ConcatProperties
<1>5. ASSUME NEW i \in 1 .. Len(s) - 1 PROVE t[i] = IF i < c THEN s[i] ELSE s[i + 1]
  <2>1. t[i] = IF i <= c - 1 THEN u[i] ELSE v[i - (c - 1)]
    BY <1>3, <1>4
  <2>2. CASE i < c
    BY <1>1, <2>1, <2>2
  <2>3. CASE ~(i < c)
    <3>1. i - (c - 1) \in 1 .. Len(s) - c /\ c + (i - (c - 1)) = i + 1 /\ ~(i <= c - 1)
      BY <2>3
    <3> QED
      BY <1>1, <2>1, <2>3, <3>1
  <2> QED
    BY <2>2, <2>3
<1> QED
  BY <1>3, <1>4, <1>5 DEF t

\* A link saved once at most is cleared wherever it is saved.
LEMMA ForgottenEach ==
  ASSUME HeapInv, SavedOnce, NEW a \in Lists, NEW p \in Links
  PROVE  ForgetSaved(save[a], p)
           = [i \in DOMAIN save[a] |-> IF save[a][i] = p THEN Null ELSE save[a][i]]
<1> DEFINE s == save[a]
           hits == {i \in DOMAIN s : s[i] = p}
           k == CHOOSE i \in hits : \A j \in hits : j <= i
<1>1. s \in Seq(Links \cup {Null}) /\ p # Null
  BY LinkListAssumption DEF HeapInv, TypeOK
<1>2. s = [i \in DOMAIN s |-> s[i]]
  BY <1>1
<1>3. CASE hits = {}
  <2>1. \A i \in DOMAIN s : s[i] # p
    BY <1>3
  <2>2. ForgetSaved(s, p) = s
    BY <1>3 DEF ForgetSaved
  <2> HIDE DEF s
  <2> QED
    BY <1>2, <2>1, <2>2 DEF s
<1>4. CASE hits # {}
  <2>1. PICK h \in DOMAIN s : s[h] = p
    BY <1>4
  <2>2. hits = {h}
    BY <1>1, <2>1 DEF SavedOnce
  <2>3. h \in Int
    BY <1>1, <2>1
  <2>4. k = h
    <3>1. h \in hits /\ \A j \in hits : j <= h
      BY <2>2, <2>3
    <3>2. k \in hits
      BY <3>1
    <3> QED
      BY <2>2, <3>2
  <2>5. ForgetSaved(s, p) = [s EXCEPT ![h] = Null]
    BY <1>4, <2>4 DEF ForgetSaved
  <2>6. \A i \in DOMAIN s : s[i] = p <=> i = h
    BY <2>2
  <2> HIDE DEF hits, k, s
  <2>7. [s EXCEPT ![h] = Null] = [i \in DOMAIN s |-> IF i = h THEN Null ELSE s[i]]
    BY <1>2
  <2>8. [i \in DOMAIN s |-> IF i = h THEN Null ELSE s[i]]
          = [i \in DOMAIN s |-> IF s[i] = p THEN Null ELSE s[i]]
    BY <2>6
  <2> QED
    BY <2>5, <2>7, <2>8 DEF s
<1> QED
  BY <1>3, <1>4

\* Remove takes the current link out of its ring, and the item out of the sequence.
LEMMA RemoveLinkView ==
  ASSUME HeapInv, NEW a \in Lists, NEW dir \in {0, 1}, RemoveLink(a, dir)
  PROVE  Mapped' = [Mapped EXCEPT ![a] = Abstract!RemoveL(Mapped[a], dir)]
<1> DEFINE s == View(a).items
           c == View(a).cur
           n == Len(s)
           p == s[c]
           t == Abstract!Sq!RemoveAt(s, c)
           d == IF dir = 0 THEN c - 1 ELSE IF c = n THEN 0 ELSE c
<1>1. At(a, s, c) /\ Mapped[a] = [items |-> s, cur |-> c]
  <2>1. Mapped[a] = [items |-> s, cur |-> c]
    BY DEF Mapped, View
  <2> QED
    BY <2>1, Viewed
<1> HIDE DEF s, c
<1>2. /\ s \in Seq(Links) /\ n \in Nat /\ n = list_size[a] /\ Distinct(s)
      /\ c \in 1 .. n /\ link[a] = p /\ p \in Links /\ p \in Cells(a)
      /\ n - 1 \in Nat /\ 1 \in 1 .. n /\ first[a] = s[1] /\ s[1] # Null
  <2>1. link[a] # Null
    BY DEF RemoveLink
  <2>2. s \in Seq(Links) /\ n = list_size[a] /\ Distinct(s) /\ c \in 1 .. n /\ link[a] = p
    BY <1>1, <2>1 DEF At, InRing, Pointer
  <2> QED
    BY <1>1, <2>2, LinkListAssumption DEF At, InRing
<1>3. \A i \in 1 .. n : s[i] \in Links /\ next[s[i]] = After(s, i) /\ prev[s[i]] = Before(s, i)
  BY <1>1, <1>2 DEF At, InRing
<1>4. /\ t \in Seq(Links) /\ Len(t) = n - 1
      /\ \A i \in 1 .. n - 1 : t[i] = IF i < c THEN s[i] ELSE s[i + 1]
  BY <1>2, Removed
<1>5. \A i, j \in 1 .. n : s[i] = s[j] => i = j
  BY <1>2 DEF Distinct
<1> HIDE DEF t, n
<1>6. /\ list_size' = [list_size EXCEPT ![a] = @ - 1] /\ OnlyOf(a) /\ Unlink(p)
      /\ IF n = 1 THEN first'[a] = Null /\ link'[a] = Null
         ELSE first'[a] = FirstWithout(a, p) /\ link'[a] = Beside(a, p, dir)
  BY <1>2 DEF RemoveLink, OnlyOf, HeapInv, TypeOK
<1>7. \A x \in Links : next'[x] = IF x = p THEN p ELSE IF x = prev[p] THEN next[p] ELSE next[x]
  BY <1>2, <1>6 DEF Unlink, HeapInv, TypeOK
<1>8. prev[p] = IF c = 1 THEN s[n] ELSE s[c - 1]
  BY <1>2, <1>3 DEF Before, n
<1>9. next[p] = IF c = n THEN s[1] ELSE s[c + 1]
  BY <1>2, <1>3 DEF After, n
<1>10. Distinct(t)
  <2> SUFFICES ASSUME NEW i \in 1 .. n - 1, NEW j \in 1 .. n - 1, t[i] = t[j] PROVE i = j
    BY <1>4 DEF Distinct
  <2>1. i \in 1 .. n /\ i + 1 \in 1 .. n /\ j \in 1 .. n /\ j + 1 \in 1 .. n
    BY <1>2
  <2>2. (IF i < c THEN i ELSE i + 1) = (IF j < c THEN j ELSE j + 1)
    BY <1>4, <1>5, <2>1
  <2> QED
    BY <1>2, <2>1, <2>2
<1>11. ASSUME NEW i \in 1 .. n - 1, i > 1 PROVE t[i] = next'[t[i - 1]]
  <2>1. i \in 1 .. n /\ i - 1 \in 1 .. n /\ i - 1 \in 1 .. n - 1 /\ i + 1 \in 1 .. n /\ n \in 1 .. n
        /\ i # n /\ i - 1 # n /\ i - 1 + 1 = i
    BY <1>2, <1>11
  <2>2. next[s[i]] = s[i + 1] /\ next[s[i - 1]] = s[i]
    BY <1>3, <2>1 DEF After, n
  <2>3. CASE i < c
    <3>1. i - 1 < c /\ i - 1 # c /\ c # 1 /\ c - 1 \in 1 .. n /\ i - 1 # c - 1
      BY <1>2, <1>11, <2>3
    <3>2. t[i] = s[i] /\ t[i - 1] = s[i - 1]
      BY <1>4, <2>1, <2>3, <3>1
    <3>3. s[i - 1] # p /\ s[i - 1] # prev[p]
      BY <1>2, <1>5, <1>8, <2>1, <3>1
    <3> QED
      BY <1>3, <1>7, <2>1, <2>2, <3>2, <3>3
  <2>4. CASE i = c
    <3>1. t[i] = s[i + 1] /\ t[i - 1] = s[i - 1]
      BY <1>2, <1>4, <2>1, <2>4
    <3>2. s[i - 1] # p /\ s[i - 1] = prev[p] /\ next[p] = s[i + 1]
      BY <1>2, <1>5, <1>8, <1>9, <1>11, <2>1, <2>4
    <3> QED
      BY <1>3, <1>7, <2>1, <3>1, <3>2
  <2>5. CASE i > c
    <3>1. ~(i < c) /\ ~(i - 1 < c) /\ i # c /\ i # c - 1
      <4>1. c \in Int /\ i \in Int
        BY <1>2, <2>1
      <4> QED
        BY <2>5, <4>1
    <3>4. c # 1 => c - 1 \in 1 .. n
      BY <1>2
    <3>2. t[i] = s[i + 1] /\ t[i - 1] = s[i]
      BY <1>4, <2>1, <3>1
    <3>3. s[i] # p /\ s[i] # prev[p]
      BY <1>2, <1>5, <1>8, <2>1, <3>1, <3>4
    <3> QED
      BY <1>3, <1>7, <2>1, <2>2, <3>2, <3>3
  <2> QED
    BY <1>2, <2>3, <2>4, <2>5
<1>12. Len(t) > 0 => t[1] = first'[a]
  <2> SUFFICES ASSUME n - 1 > 0 PROVE t[1] = first'[a]
    BY <1>4
  <2>1. n # 1 /\ 1 \in 1 .. n - 1 /\ 1 + 1 = 2 /\ first'[a] = FirstWithout(a, p)
    BY <1>2, <1>6
  <2>2. CASE c = 1
    <3>1. t[1] = s[2] /\ next[p] = s[2]
      BY <1>4, <1>9, <2>1, <2>2
    <3> QED
      BY <1>2, <2>1, <2>2, <3>1 DEF FirstWithout
  <2>3. CASE c # 1
    <3>1. t[1] = s[1] /\ p # s[1]
      BY <1>2, <1>4, <1>5, <2>1, <2>3
    <3> QED
      BY <1>2, <2>1, <3>1 DEF FirstWithout
  <2> QED
    BY <2>2, <2>3
<1>13. d \in 0 .. Len(t) /\ link'[a] = Pointer(t, d)
  <2>1. d \in 0 .. n - 1
    BY <1>2
  <2>2. CASE n = 1
    BY <1>2, <1>4, <1>6, <2>2 DEF Pointer
  <2>3. CASE n # 1 /\ dir = 1
    <3>1. link'[a] = IF next[p] = s[1] THEN Null ELSE next[p]
      BY <1>2, <1>6, <2>3 DEF Beside
    <3>2. CASE c = n
      BY <1>4, <1>9, <2>1, <2>3, <3>1, <3>2 DEF Pointer
    <3>3. CASE c # n
      <4>1. c + 1 \in 1 .. n /\ c \in 1 .. n - 1 /\ c # 0 /\ c + 1 # 1 /\ ~(c < c)
        BY <1>2, <3>3
      <4>2. next[p] = s[c + 1] /\ s[c + 1] # s[1] /\ t[c] = s[c + 1]
        BY <1>2, <1>4, <1>5, <1>9, <3>3, <4>1
      <4> QED
        BY <1>4, <2>1, <2>3, <3>1, <3>3, <4>1, <4>2 DEF Pointer
    <3> QED
      BY <3>2, <3>3
  <2>4. CASE n # 1 /\ dir = 0
    <3>1. link'[a] = IF p = s[1] THEN Null ELSE prev[p]
      BY <1>2, <1>6, <2>4 DEF Beside
    <3>2. CASE c = 1
      BY <1>4, <2>1, <2>4, <3>1, <3>2 DEF Pointer
    <3>3. CASE c # 1
      <4>1. c - 1 \in 1 .. n - 1 /\ c - 1 # 0 /\ c - 1 < c
        BY <1>2, <3>3
      <4>2. p # s[1] /\ prev[p] = s[c - 1] /\ t[c - 1] = s[c - 1]
        BY <1>2, <1>4, <1>5, <1>8, <3>3, <4>1
      <4> QED
        BY <1>4, <2>1, <2>4, <3>1, <4>1, <4>2 DEF Pointer
    <3> QED
      BY <3>2, <3>3
  <2> QED
    BY <2>2, <2>3, <2>4
<1>14. View(a)' = [items |-> t, cur |-> d]
  <2>1. Len(t) = list_size'[a]
    BY <1>2, <1>4, <1>6 DEF HeapInv, TypeOK
  <2>2. \A i \in 1 .. Len(t) : i > 1 => t[i] = next'[t[i - 1]]
    BY <1>4, <1>11
  <2> HIDE DEF d
  <2> QED
    BY <1>4, <1>10, <1>12, <1>13, <2>1, <2>2, ViewedNext
<1>15. ASSUME NEW b \in Lists, b # a PROVE View(b)' = View(b)
  <2>1. first'[b] = first[b] /\ link'[b] = link[b] /\ list_size'[b] = list_size[b]
    BY <1>6, <1>15 DEF OnlyOf, HeapInv, TypeOK
  <2>2. ASSUME NEW x \in Cells(b) PROVE next'[x] = next[x]
    <3>1. x \in Links /\ home[x] = b /\ home[p] = a /\ prev[p] \in Links /\ home[prev[p]] = a
      BY <1>2 DEF Cells, HeapInv, TypeOK, RingInv, TwoWay
    <3> QED
      BY <1>7, <1>15, <3>1
  <2> QED
    BY <2>1, <2>2, ViewedSame
<1>16. Abstract!RemoveL(Mapped[a], dir) = [items |-> t, cur |-> d]
  BY <1>1, <1>2 DEF Abstract!RemoveL, Abstract!IsCurrent, t, n
<1> QED
  BY <1>14, <1>15, <1>16, MappedOne

\* Remove, with what it does to the objects and to the saved cursors.
LEMMA RemoveStep ==
  ASSUME HeapInv, SavedOnce, NEW a \in Lists, NEW dir \in {0, 1}, RemoveLink(a, dir)
  PROVE  Abstract!Remove(a, dir)
<1> DEFINE p == link[a]
<1>1. /\ p # Null /\ p \in Links /\ save' = [save EXCEPT ![a] = ForgetSaved(@, p)]
      /\ object' = [x \in Links |-> IF x \in {p} THEN Null ELSE object[x]]
  BY DEF RemoveLink, DeleteLinks, HeapInv, HeaderInv, Cells
<1>2. save' = [save EXCEPT ![a] = [i \in DOMAIN @ |-> IF @[i] = p THEN Null ELSE @[i]]]
  BY <1>1, ForgottenEach DEF HeapInv, TypeOK
<1>3. object' = [object EXCEPT ![p] = Null]
  BY <1>1 DEF HeapInv, TypeOK
<1>4. Mapped' = [Mapped EXCEPT ![a] = Abstract!RemoveL(Mapped[a], dir)]
  BY RemoveLinkView
<1>5. Abstract!IsCurrent(Mapped[a]) /\ Abstract!CurrentLink(a) = p
  BY <1>1, CurrentIs
<1> HIDE DEF p
<1> QED
  BY <1>2, <1>3, <1>4, <1>5 DEF Abstract!Remove, Mapped, View

\* A list left without links.
LEMMA EmptiedView ==
  ASSUME NEW a \in Lists, list_size'[a] = 0, link'[a] = Null
  PROVE  View(a)' = Abstract!EmptyL
<1>1. PICK t : t = << >>
  OBVIOUS
<1>2. t \in Seq(Links) /\ Len(t) = 0
  BY <1>1
<1>3. Distinct(t) /\ link'[a] = Pointer(t, 0) /\ 0 \in 0 .. Len(t)
  BY <1>2 DEF Distinct, Pointer
<1>4. /\ Len(t) = list_size'[a] /\ (Len(t) > 0 => t[1] = first'[a])
      /\ \A i \in 1 .. Len(t) : i > 1 => t[i] = next'[t[i - 1]]
  BY <1>2
<1>5. View(a)' = [items |-> t, cur |-> 0]
  BY <1>2, <1>3, <1>4, ViewedNext
<1> QED
  BY <1>1, <1>5 DEF Abstract!EmptyL

\* Empty.
LEMMA EmptyStep ==
  ASSUME HeapInv, NEW a \in Lists, EmptyList(a)
  PROVE  Abstract!Empty(a)
<1>1. /\ first' = [first EXCEPT ![a] = Null] /\ link' = [link EXCEPT ![a] = Null]
      /\ list_size' = [list_size EXCEPT ![a] = 0] /\ save' = [save EXCEPT ![a] = << >>]
      /\ next' = [p \in Links |-> IF home[p] = a THEN p ELSE next[p]]
      /\ object' = [p \in Links |-> IF p \in Cells(a) THEN Null ELSE object[p]]
  BY DEF EmptyList, DeleteLinks
<1>2. View(a)' = Abstract!EmptyL
  BY <1>1, EmptiedView DEF HeapInv, TypeOK
<1>3. ASSUME NEW b \in Lists, b # a PROVE View(b)' = View(b)
  <2>1. first'[b] = first[b] /\ link'[b] = link[b] /\ list_size'[b] = list_size[b]
    BY <1>1, <1>3 DEF HeapInv, TypeOK
  <2>2. \A x \in Cells(b) : next'[x] = next[x]
    BY <1>1, <1>3 DEF Cells
  <2> QED
    BY <2>1, <2>2, ViewedSame
<1>4. Mapped' = [Mapped EXCEPT ![a] = Abstract!EmptyL]
  BY <1>2, <1>3, MappedOne
<1>5. object' = [p \in Links |-> IF Abstract!InList(Mapped[a], p) THEN Null ELSE object[p]]
  BY <1>1, ItemsAre
<1> QED
  BY <1>1, <1>4, <1>5 DEF Abstract!Empty, Mapped, View

\* The items of one list between those of another.
LEMMA Joined ==
  ASSUME NEW s \in Seq(Links), NEW m \in Seq(Links), NEW at \in 0 .. Len(s)
  PROVE  LET t == SubSeq(s, 1, at) \o m \o SubSeq(s, at + 1, Len(s))
         IN  /\ t \in Seq(Links) /\ Len(t) = Len(s) + Len(m)
             /\ \A i \in 1 .. Len(s) + Len(m) :
                  t[i] = IF i <= at THEN s[i]
                         ELSE IF i <= at + Len(m) THEN m[i - at] ELSE s[i - Len(m)]
<1> DEFINE u == SubSeq(s, 1, at)
           v == SubSeq(s, at + 1, Len(s))
           w == u \o m
           t == w \o v
           k == Len(m)
<1>1. /\ u \in Seq(Links) /\ Len(u) = at /\ \A i \in 1 .. at : u[i] = s[i]
      /\ v \in Seq(Links) /\ Len(v) = Len(s) - at
      /\ \A i \in 1 .. Len(s) - at : v[i] = s[at + i]
      /\ k \in Nat /\ Len(s) \in Nat /\ at \in Nat /\ at <= Len(s)
  OBVIOUS
<1> HIDE DEF u, v
<1>2. /\ w \in Seq(Links) /\ Len(w) = Len(u) + Len(m)
      /\ \A i \in 1 .. Len(u) + Len(m) : w[i] = IF i <= Len(u) THEN u[i] ELSE m[i - Len(u)]
  BY <1>1, ConcatProperties
<1> HIDE DEF w
<1>6. t = w \o v
  OBVIOUS
<1> HIDE DEF t, k
<1>3. /\ t \in Seq(Links) /\ Len(t) = Len(w) + Len(v)
      /\ \A i \in 1 .. Len(w) + Len(v) : t[i] = IF i <= Len(w) THEN w[i] ELSE v[i - Len(w)]
  <2>1. w \in Seq(Links) /\ v \in Seq(Links)
    BY <1>1, <1>2
  <2> QED
    BY <1>6, <2>1, ConcatProperties, Zenon
<1>4. Len(w) = at + k /\ Len(w) + Len(v) = Len(s) + k
  BY <1>1, <1>2 DEF k
<1>5. ASSUME NEW i \in 1 .. Len(s) + k
      PROVE  t[i] = IF i <= at THEN s[i] ELSE IF i <= at + k THEN m[i - at] ELSE s[i - k]
  <2>1. t[i] = IF i <= at + k THEN w[i] ELSE v[i - (at + k)]
    BY <1>3, <1>4
  <2>2. CASE i <= at + k
    <3>1. i \in 1 .. at + k
      BY <1>1, <2>2
    <3>2. w[i] = IF i <= at THEN u[i] ELSE m[i - at]
      BY <1>1, <1>2, <3>1 DEF k
    <3>3. i <= at => i \in 1 .. at
      BY <1>1
    <3> QED
      BY <1>1, <2>1, <2>2, <3>2, <3>3
  <2>3. CASE ~(i <= at + k)
    <3>1. i - (at + k) \in 1 .. Len(s) - at /\ at + (i - (at + k)) = i - k /\ ~(i <= at)
      BY <1>1, <2>3
    <3> QED
      BY <1>1, <2>1, <2>3, <3>1
  <2> QED
    BY <2>2, <2>3
<1> QED
  BY <1>3, <1>4, <1>5 DEF t, w, u, v, k

\* Transfer splices a ring into another: the items follow the current one, the cursor
\* goes to the last of them, and the list they come from is left empty.
LEMMA TransferView ==
  ASSUME HeapInv, NEW a \in Lists, NEW L \in Lists, Transfer(a, L)
  PROVE  Abstract!Transfer(a, L)
<1> DEFINE s == View(a).items
           c == View(a).cur
           m == View(L).items
           e == View(L).cur
           n == Len(s)
           k == Len(m)
           at == IF c # 0 THEN c ELSE n
           t == SubSeq(s, 1, at) \o m \o SubSeq(s, at + 1, Len(s))
<1>1. /\ At(a, s, c) /\ Mapped[a] = [items |-> s, cur |-> c]
      /\ At(L, m, e) /\ Mapped[L] = [items |-> m, cur |-> e]
  <2>1. Mapped[a] = [items |-> s, cur |-> c] /\ Mapped[L] = [items |-> m, cur |-> e]
    BY DEF Mapped, View
  <2> QED
    BY <2>1, Viewed
<1> HIDE DEF s, c, m, e
<1>2. /\ a # L /\ first[L] # Null
      /\ list_size' = [list_size EXCEPT ![a] = @ + list_size[L], ![L] = 0]
      /\ save' = [save EXCEPT ![L] = << >>]
      /\ object' = object
      /\ link' = [link EXCEPT ![a] = prev[first[L]], ![L] = Null]
  BY DEF Transfer, entries
<1>3. /\ s \in Seq(Links) /\ n \in Nat /\ n = list_size[a] /\ c \in 0 .. n /\ at \in 0 .. n
      /\ m \in Seq(Links) /\ k \in Nat /\ k = list_size[L] /\ k # 0
      /\ first[L] = m[1] /\ (IF n = 0 THEN first[a] = Null ELSE first[a] = s[1] /\ s[1] # Null)
      /\ link[a] = Pointer(s, c)
  BY <1>1, <1>2, LinkListAssumption DEF At, InRing
<1>4. /\ \A i \in 1 .. n : s[i] \in Links /\ s[i] \in Cells(a)
                           /\ next[s[i]] = After(s, i) /\ prev[s[i]] = Before(s, i)
      /\ \A i \in 1 .. k : m[i] \in Links /\ m[i] \in Cells(L)
                           /\ next[m[i]] = After(m, i) /\ prev[m[i]] = Before(m, i)
      /\ \A i, j \in 1 .. n : s[i] = s[j] => i = j
      /\ \A i, j \in 1 .. k : m[i] = m[j] => i = j
      /\ \A i \in 1 .. n, j \in 1 .. k : s[i] # m[j]
  <2>1. \A x \in Cells(a) : x \notin Cells(L)
    BY <1>2 DEF Cells
  <2> HIDE DEF t, at
  <2>2. \A i \in 1 .. n : s[i] \in Links /\ s[i] \in Cells(a)
                         /\ next[s[i]] = After(s, i) /\ prev[s[i]] = Before(s, i)
    BY <1>1, <1>3 DEF At, InRing
  <2>3. \A i \in 1 .. k : m[i] \in Links /\ m[i] \in Cells(L)
                         /\ next[m[i]] = After(m, i) /\ prev[m[i]] = Before(m, i)
    BY <1>1, <1>3 DEF At, InRing
  <2>4. /\ \A i, j \in 1 .. n : s[i] = s[j] => i = j
        /\ \A i, j \in 1 .. k : m[i] = m[j] => i = j
    BY <1>1 DEF At, InRing, Distinct
  <2> HIDE DEF n, k
  <2> QED
    BY <2>1, <2>2, <2>3, <2>4
<1>5. /\ t \in Seq(Links) /\ Len(t) = n + k
      /\ \A i \in 1 .. n + k : t[i] = IF i <= at THEN s[i] ELSE IF i <= at + k THEN m[i - at] ELSE s[i - k]
  BY <1>3, Joined
<1>6. 1 \in 1 .. k /\ k \in 1 .. k /\ prev[first[L]] = m[k] /\ k > 0
  <2>1. 1 \in 1 .. k /\ k \in 1 .. k /\ k > 0
    BY <1>3
  <2> QED
    BY <1>3, <1>4, <2>1 DEF Before
<1>7. n # 0 => at \in 1 .. n /\ s[at] = IF link[a] = Null THEN prev[first[a]] ELSE link[a]
  <2> SUFFICES ASSUME n # 0
               PROVE  at \in 1 .. n /\ s[at] = IF link[a] = Null THEN prev[first[a]] ELSE link[a]
    OBVIOUS
  <2>1. n \in 1 .. n /\ 1 \in 1 .. n /\ at \in 1 .. n /\ prev[first[a]] = s[n]
    <3>1. n \in 1 .. n /\ 1 \in 1 .. n
      BY <1>3
    <3> QED
      BY <1>3, <1>4, <3>1 DEF Before
  <2>2. link[a] = Null <=> c = 0
    BY <1>3, LinkListAssumption DEF Pointer
  <2> QED
    BY <1>3, <2>1, <2>2 DEF Pointer
<1> HIDE DEF t, n, k, at
<1>8. \A x \in Links : next'[x] = IF n # 0 /\ x = s[at] THEN m[1]
                                  ELSE IF n # 0 /\ x = m[k] THEN next[s[at]] ELSE next[x]
  <2>1. CASE n = 0
    <3>1. UNCHANGED ring
      BY <1>3, <2>1 DEF Transfer
    <3> QED
      BY <2>1, <3>1 DEF ring
  <2>2. CASE n # 0
    <3>1. next' = [next EXCEPT ![m[k]] = next[s[at]], ![s[at]] = m[1]]
      BY <1>3, <1>6, <1>7, <2>2 DEF Transfer
    <3>2. s[at] \in Links /\ m[k] \in Links
      BY <1>4, <1>6, <1>7, <2>2
    <3> QED
      BY <2>2, <3>1, <3>2 DEF HeapInv, TypeOK
  <2> QED
    BY <2>1, <2>2
<1>9. first'[a] = IF n = 0 THEN m[1] ELSE first[a]
  <2>1. CASE n = 0
    <3>1. first' = [first EXCEPT ![a] = first[L], ![L] = Null]
      BY <1>3, <2>1 DEF Transfer
    <3> QED
      BY <1>2, <1>3, <2>1, <3>1 DEF HeapInv, TypeOK
  <2>2. CASE n # 0
    <3>1. first' = [first EXCEPT ![L] = Null]
      BY <1>3, <2>2 DEF Transfer
    <3> QED
      BY <1>2, <2>2, <3>1 DEF HeapInv, TypeOK
  <2> QED
    BY <2>1, <2>2
<1>10. \A b \in Lists : b # a /\ b # L => first'[b] = first[b]
  BY DEF Transfer, HeapInv, TypeOK
<1>11. Distinct(t)
  <2> SUFFICES ASSUME NEW i \in 1 .. n + k, NEW j \in 1 .. n + k, i < j PROVE t[i] # t[j]
    BY <1>3, <1>5 DEF Distinct
  <2>1. n \in Nat /\ k \in Nat /\ at \in 0 .. n
    BY <1>3
  <2> DEFINE In(x) == x > at /\ x <= at + k
             Pos(x) == IF x <= at THEN x ELSE x - k
  <2>2. ASSUME NEW x \in 1 .. n + k
        PROVE  /\ In(x) => x - at \in 1 .. k /\ t[x] = m[x - at]
               /\ ~In(x) => Pos(x) \in 1 .. n /\ t[x] = s[Pos(x)]
    <3>1. CASE In(x)
      <4>1. ~(x <= at) /\ x <= at + k /\ x - at \in 1 .. k
        BY <2>1, <3>1
      <4> QED
        BY <1>5, <3>1, <4>1
    <3>2. CASE ~In(x)
      <4>1. Pos(x) \in 1 .. n /\ (x <= at \/ ~(x <= at + k))
        BY <2>1, <3>2
      <4>2. x <= at => t[x] = s[x]
        BY <1>5
      <4>3. ~(x <= at) /\ ~(x <= at + k) => t[x] = s[x - k]
        BY <1>5
      <4> QED
        BY <2>1, <3>2, <4>1, <4>2, <4>3
    <3> QED
      BY <3>1, <3>2
  <2>3. CASE In(i) /\ In(j)
    <3>1. i - at # j - at
      BY <2>1
    <3> QED
      BY <1>4, <2>2, <2>3, <3>1
  <2>4. CASE ~In(i) /\ ~In(j)
    <3>1. Pos(i) # Pos(j)
      BY <2>1, <2>4
    <3> HIDE DEF In, Pos
    <3> QED
      BY <1>4, <2>2, <2>4, <3>1
  <2>5. CASE ~(In(i) <=> In(j))
    <3> HIDE DEF In, Pos
    <3> QED
      BY <1>4, <2>2, <2>5
  <2> HIDE DEF In
  <2> QED
    BY <2>3, <2>4, <2>5
<1>12. ASSUME NEW i \in 1 .. n + k, i > 1 PROVE t[i] = next'[t[i - 1]]
  <2>1. n \in Nat /\ k \in Nat /\ at \in 0 .. n /\ i - 1 \in 1 .. n + k /\ i \in Int /\ k > 0
    BY <1>3, <1>6, <1>12
  <2>2. CASE i <= at
    <3>1. i \in 1 .. n /\ i - 1 \in 1 .. n /\ i - 1 # n /\ i - 1 <= at /\ i - 1 # at /\ n # 0 /\ i - 1 + 1 = i
      BY <2>1, <2>2
    <3>2. t[i] = s[i] /\ t[i - 1] = s[i - 1]
      BY <1>5, <2>1, <2>2, <3>1
    <3>3. next[s[i - 1]] = s[i]
      BY <1>4, <3>1 DEF After, n
    <3>4. s[i - 1] # s[at] /\ s[i - 1] # m[k] /\ s[i - 1] \in Links
      BY <1>4, <1>6, <1>7, <3>1
    <3> QED
      BY <1>8, <3>2, <3>3, <3>4
  <2>3. CASE i = at + 1
    <3>1. n # 0 /\ ~(i <= at) /\ i <= at + k /\ i - at = 1 /\ i - 1 = at /\ i - 1 <= at
      BY <1>12, <2>1, <2>3
    <3>2. t[i] = m[1] /\ t[i - 1] = s[at]
      BY <1>5, <2>1, <3>1
    <3> QED
      BY <1>4, <1>7, <1>8, <3>1, <3>2
  <2>4. CASE i > at + 1 /\ i <= at + k
    <3>1. /\ i - at \in 1 .. k /\ i - 1 - at \in 1 .. k /\ i - 1 - at # k /\ i - 1 - at + 1 = i - at
          /\ ~(i <= at) /\ ~(i - 1 <= at) /\ i - 1 <= at + k
      BY <2>1, <2>4
    <3>2. t[i] = m[i - at] /\ t[i - 1] = m[i - 1 - at]
      BY <1>5, <2>1, <2>4, <3>1
    <3>3. next[m[i - 1 - at]] = m[i - at]
      BY <1>4, <3>1 DEF After, k
    <3>4. m[i - 1 - at] # m[k] /\ (n # 0 => m[i - 1 - at] # s[at]) /\ m[i - 1 - at] \in Links
      BY <1>4, <1>6, <1>7, <3>1
    <3> QED
      BY <1>8, <3>2, <3>3, <3>4
  <2>5. CASE i = at + k + 1
    <3>1. /\ n # 0 /\ ~(i <= at) /\ ~(i <= at + k) /\ i - k = at + 1
          /\ ~(i - 1 <= at) /\ i - 1 <= at + k /\ i - 1 - at = k /\ at # n
      BY <2>1, <2>5
    <3>2. t[i] = s[at + 1] /\ t[i - 1] = m[k]
      BY <1>5, <2>1, <3>1
    <3>3. next[s[at]] = s[at + 1]
      BY <1>4, <1>7, <3>1 DEF After, n
    <3> QED
      BY <1>4, <1>6, <1>7, <1>8, <3>1, <3>2, <3>3
  <2>6. CASE i > at + k + 1
    <3>1. /\ i - k \in 1 .. n /\ i - 1 - k \in 1 .. n /\ i - 1 - k # n /\ i - 1 - k # at /\ n # 0
          /\ i - 1 - k + 1 = i - k /\ ~(i <= at) /\ ~(i <= at + k) /\ ~(i - 1 <= at) /\ ~(i - 1 <= at + k)
      BY <2>1, <2>6
    <3>2. t[i] = s[i - k] /\ t[i - 1] = s[i - 1 - k]
      BY <1>5, <2>1, <3>1
    <3>3. next[s[i - 1 - k]] = s[i - k]
      BY <1>4, <3>1 DEF After, n
    <3>4. s[i - 1 - k] # s[at] /\ s[i - 1 - k] # m[k] /\ s[i - 1 - k] \in Links
      BY <1>4, <1>6, <1>7, <3>1
    <3> QED
      BY <1>8, <3>2, <3>3, <3>4
  <2> QED
    BY <2>1, <2>2, <2>3, <2>4, <2>5, <2>6
<1>13. t[1] = first'[a] /\ at + k \in 0 .. Len(t) /\ link'[a] = Pointer(t, at + k) /\ Len(t) = list_size'[a]
  <2>1. n \in Nat /\ k \in Nat /\ at \in 0 .. n /\ k > 0
    BY <1>3, <1>6
  <2>2. 1 \in 1 .. n + k /\ at + k \in 1 .. n + k
    BY <2>1
  <2>3. t[1] = first'[a]
    <3>1. CASE n = 0
      <4>1. ~(1 <= at) /\ 1 <= at + k /\ 1 - at = 1
        BY <2>1, <3>1
      <4> QED
        BY <1>5, <1>9, <2>2, <3>1, <4>1
    <3>2. CASE n # 0
      <4>1. 1 <= at
        BY <1>7, <2>1, <3>2
      <4> QED
        BY <1>3, <1>5, <1>9, <2>2, <3>2, <4>1
    <3> QED
      BY <3>1, <3>2
  <2>4. t[at + k] = m[k]
    <3> DEFINE i == at + k
    <3>1. ~(i <= at) /\ i <= at + k /\ i - at = k
      BY <2>1
    <3>2. t[i] = IF i <= at THEN s[i] ELSE IF i <= at + k THEN m[i - at] ELSE s[i - k]
      BY <1>5, <2>2
    <3> QED
      BY <3>1, <3>2
  <2>5. link'[a] = m[k]
    BY <1>2, <1>6 DEF HeapInv, TypeOK
  <2>6. list_size'[a] = n + k
    BY <1>2, <1>3 DEF HeapInv, TypeOK
  <2> QED
    BY <1>5, <2>1, <2>2, <2>3, <2>4, <2>5, <2>6 DEF Pointer
<1>14. View(a)' = [items |-> t, cur |-> at + k]
  <2>1. \A i \in 1 .. Len(t) : i > 1 => t[i] = next'[t[i - 1]]
    BY <1>5, <1>12
  <2> QED
    BY <1>5, <1>11, <1>13, <2>1, ViewedNext
<1>15. View(L)' = Abstract!EmptyL
  BY <1>2, EmptiedView DEF HeapInv, TypeOK
<1>16. ASSUME NEW b \in Lists, b # a, b # L PROVE View(b)' = View(b)
  <2>1. first'[b] = first[b] /\ link'[b] = link[b] /\ list_size'[b] = list_size[b]
    BY <1>2, <1>10, <1>16 DEF HeapInv, TypeOK
  <2>2. ASSUME NEW x \in Cells(b) PROVE next'[x] = next[x]
    <3>1. x \in Links /\ x \notin Cells(a) /\ x \notin Cells(L)
      BY <1>16 DEF Cells
    <3> QED
      BY <1>4, <1>6, <1>7, <1>8, <3>1
  <2> QED
    BY <2>1, <2>2, ViewedSame
<1>17. Abstract!TransferL(Mapped[a], Mapped[L]) = [items |-> t, cur |-> at + k]
  <2>1. m # << >>
    BY <1>3 DEF k
  <2> QED
    BY <1>1, <2>1 DEF Abstract!TransferL, Abstract!IsCurrent, t, at, n, k
<1>18. Mapped' = [Mapped EXCEPT ![a] = Abstract!TransferL(Mapped[a], Mapped[L]), ![L] = Abstract!EmptyL]
  BY <1>2, <1>14, <1>15, <1>16, <1>17 DEF Mapped
<1>19. Mapped[L].items # << >>
  BY <1>1, <1>3 DEF k
<1> QED
  BY <1>2, <1>18, <1>19 DEF Abstract!Transfer, Mapped, View

\* Every call that removes links.
LEMMA RemovingView ==
  ASSUME HeapInv, SavedOnce, NEW a \in Lists, Removing(a)
  PROVE  Abstract!Next
<1>1. ASSUME NEW dir \in {0, 1}, RemoveLink(a, dir) PROVE Abstract!Next
  BY <1>1, RemoveStep DEF Abstract!Next
<1>2. CASE EmptyList(a)
  BY <1>2, EmptyStep DEF Abstract!Next
<1>3. ASSUME NEW L \in Lists, Transfer(a, L) PROVE Abstract!Next
  BY <1>3, TransferView DEF Abstract!Next
<1> QED
  BY <1>1, <1>2, <1>3 DEF Removing

-----------------------------------------------------------------------------
(***************************************************************************)
(* Moving the cursor and the mark of the first link.                       *)
(***************************************************************************)
\* A call that sets the current link only.
LEMMA Moved ==
  ASSUME HeapInv, NEW a \in Lists, NEW s, NEW c, At(a, s, c), NEW d \in 0 .. Len(s),
         link' = [link EXCEPT ![a] = Pointer(s, d)], UNCHANGED <<ring, first, list_size>>
  PROVE  Mapped' = [Mapped EXCEPT ![a] = [items |-> s, cur |-> d]]
<1>1. /\ s \in Seq(Links) /\ Distinct(s) /\ Len(s) = list_size'[a]
      /\ (Len(s) > 0 => s[1] = first'[a]) /\ link'[a] = Pointer(s, d)
  BY DEF At, InRing, HeapInv, TypeOK
<1>2. ASSUME NEW i \in 1 .. Len(s), i > 1 PROVE s[i] = next'[s[i - 1]]
  <2>1. i - 1 \in 1 .. Len(s) /\ i - 1 # Len(s) /\ i - 1 + 1 = i
    BY <1>1, <1>2
  <2> QED
    BY <2>1 DEF At, InRing, After, ring
<1>3. View(a)' = [items |-> s, cur |-> d]
  BY <1>1, <1>2, ViewedNext
<1>4. ASSUME NEW b \in Lists, b # a PROVE View(b)' = View(b)
  <2>1. first'[b] = first[b] /\ link'[b] = link[b] /\ list_size'[b] = list_size[b] /\ next' = next
    BY <1>4 DEF HeapInv, TypeOK, ring
  <2> QED
    BY <2>1, ViewedSame
<1> QED
  BY <1>3, <1>4, MappedOne

\* The calls that set the cursor, by where they set it.
Target(s, c, d, q) == d \in 0 .. Len(s) /\ q = Pointer(s, d)

\* Where the calls that move the cursor by one, or to an end, take it.
LEMMA MoveTargets ==
  ASSUME HeapInv, NEW a \in Lists, NEW s, NEW c, At(a, s, c)
  PROVE  /\ Target(s, c, IF Len(s) = 0 THEN 0 ELSE 1, first[a])
         /\ Target(s, c, Len(s), IF first[a] = Null THEN Null ELSE prev[first[a]])
         /\ Target(s, c, 0, Null)
         /\ c # 0 => Target(s, c, IF c = Len(s) THEN 0 ELSE c + 1, Beside(a, link[a], 1))
         /\ c # 0 => Target(s, c, c - 1, Beside(a, link[a], 0))
<1> DEFINE n == Len(s)
<1>1. /\ s \in Seq(Links) /\ n \in Nat /\ c \in 0 .. n /\ link[a] = Pointer(s, c)
      /\ IF n = 0 THEN first[a] = Null ELSE first[a] = s[1] /\ s[1] # Null /\ 1 \in 1 .. n /\ n \in 1 .. n
  BY LinkListAssumption DEF At, InRing
<1>2. /\ \A i \in 1 .. n : next[s[i]] = After(s, i) /\ prev[s[i]] = Before(s, i)
      /\ \A i, j \in 1 .. n : s[i] = s[j] => i = j
  BY DEF At, InRing, Distinct
<1>3. Target(s, c, IF n = 0 THEN 0 ELSE 1, first[a]) /\ Target(s, c, 0, Null)
  BY <1>1 DEF Target, Pointer
<1>4. Target(s, c, n, IF first[a] = Null THEN Null ELSE prev[first[a]])
  BY <1>1, <1>2 DEF Target, Pointer, Before
<1>5. ASSUME c # 0 PROVE Target(s, c, IF c = n THEN 0 ELSE c + 1, Beside(a, link[a], 1))
  <2>1. c \in 1 .. n /\ n # 0 /\ link[a] = s[c] /\ next[s[c]] = After(s, c)
    BY <1>1, <1>2, <1>5 DEF Pointer
  <2>2. Beside(a, link[a], 1) = IF next[s[c]] = s[1] THEN Null ELSE next[s[c]]
    BY <1>1, <2>1 DEF Beside
  <2>3. CASE c = n
    BY <1>1, <2>1, <2>2, <2>3 DEF After, Target, Pointer
  <2>4. CASE c # n
    <3>1. c + 1 \in 1 .. n /\ c + 1 # 1 /\ c + 1 # 0 /\ c + 1 \in 0 .. n
      BY <1>1, <2>1, <2>4
    <3>2. next[s[c]] = s[c + 1] /\ s[c + 1] # s[1]
      BY <1>1, <1>2, <2>1, <2>4, <3>1 DEF After
    <3> QED
      BY <2>2, <2>4, <3>1, <3>2 DEF Target, Pointer
  <2> QED
    BY <2>3, <2>4
<1>6. ASSUME c # 0 PROVE Target(s, c, c - 1, Beside(a, link[a], 0))
  <2>1. c \in 1 .. n /\ n # 0 /\ link[a] = s[c] /\ prev[s[c]] = Before(s, c)
    BY <1>1, <1>2, <1>6 DEF Pointer
  <2>2. Beside(a, link[a], 0) = IF s[c] = s[1] THEN Null ELSE prev[s[c]]
    BY <1>1, <2>1 DEF Beside
  <2>3. CASE c = 1
    BY <1>1, <2>2, <2>3 DEF Target, Pointer
  <2>4. CASE c # 1
    <3>1. c - 1 \in 0 .. n /\ c - 1 # 0 /\ s[c] # s[1] /\ prev[s[c]] = s[c - 1]
      BY <1>1, <1>2, <2>1, <2>4 DEF Before
    <3> QED
      BY <2>2, <3>1 DEF Target, Pointer
  <2> QED
    BY <2>3, <2>4
<1> QED
  BY <1>3, <1>4, <1>5, <1>6

\* Two steps forward, and two backward.
LEMMA WalkTargets ==
  ASSUME HeapInv, NEW a \in Lists, NEW s, NEW c, At(a, s, c), c # 0, NEW force \in BOOLEAN
  PROVE  LET L == [items |-> s, cur |-> c]
             p == link[a]
             stop(q) == ~force /\ q = first[a]
         IN  /\ Target(s, c, Abstract!Offset(L, 2, force),
                       IF stop(next[p]) \/ stop(next[next[p]]) THEN Null ELSE next[next[p]])
             /\ Target(s, c, Abstract!Offset(L, -2, force),
                       IF stop(p) \/ stop(prev[p]) THEN Null ELSE prev[prev[p]])
<1> DEFINE n == Len(s)
           L == [items |-> s, cur |-> c]
           p == link[a]
           stop(q) == ~force /\ q = first[a]
<1>1. /\ s \in Seq(Links) /\ n \in Nat /\ n > 0 /\ c \in 1 .. n /\ p = s[c] /\ first[a] = s[1]
      /\ 1 \in 1 .. n /\ n \in 1 .. n
  BY DEF At, InRing, Pointer
<1>2. /\ \A i \in 1 .. n : next[s[i]] = After(s, i) /\ prev[s[i]] = Before(s, i)
      /\ \A i, j \in 1 .. n : s[i] = s[j] => i = j
  BY DEF At, InRing, Distinct
<1> DEFINE up(i) == IF i = n THEN 1 ELSE i + 1
           down(i) == IF i = 1 THEN n ELSE i - 1
<1>3. ASSUME NEW i \in 1 .. n
      PROVE  up(i) \in 1 .. n /\ next[s[i]] = s[up(i)] /\ down(i) \in 1 .. n /\ prev[s[i]] = s[down(i)]
  BY <1>1, <1>2 DEF After, Before
<1>4. \A i \in 1 .. n : s[i] = first[a] <=> i = 1
  BY <1>1, <1>2
<1>5. next[p] = s[up(c)] /\ next[next[p]] = s[up(up(c))] /\ prev[p] = s[down(c)] /\ prev[prev[p]] = s[down(down(c))]
      /\ up(c) \in 1 .. n /\ up(up(c)) \in 1 .. n /\ down(c) \in 1 .. n /\ down(down(c)) \in 1 .. n
  <2> HIDE DEF up, down
  <2> QED
    BY <1>1, <1>3
<1>6. Target(s, c, Abstract!Offset(L, 2, force),
             IF stop(next[p]) \/ stop(next[next[p]]) THEN Null ELSE next[next[p]])
  <2>1. Abstract!Offset(L, 2, force) = IF c + 2 \in 1 .. n THEN c + 2
                                       ELSE IF force THEN ((c + 2 - 1) % n) + 1 ELSE 0
    BY <1>1 DEF Abstract!Offset, Abstract!IsCurrent
  <2>2. stop(next[p]) \/ stop(next[next[p]]) <=> ~force /\ (up(c) = 1 \/ up(up(c)) = 1)
    <3> HIDE DEF up
    <3> QED
      BY <1>4, <1>5
  <2>3. CASE c + 2 \in 1 .. n
    <3>1. up(c) = c + 1 /\ up(up(c)) = c + 2 /\ c + 2 # 0 /\ c + 2 \in 0 .. n
      BY <1>1, <2>3
    <3> QED
      BY <1>1, <1>5, <2>1, <2>2, <2>3, <3>1 DEF Target, Pointer
  <2>4. CASE c + 2 \notin 1 .. n
    <3>1. up(c) = 1 \/ up(up(c)) = 1
      BY <1>1, <2>4
    <3>2. CASE ~force
      BY <1>1, <2>1, <2>2, <2>4, <3>1, <3>2 DEF Target, Pointer
    <3>3. CASE force
      <4>1. c = n \/ c = n - 1
        BY <1>1, <2>4
      <4>2. ((c + 2 - 1) % n) + 1 = up(up(c))
        <5>1. CASE c = n - 1
          <6>1. (c + 2 - 1) % n = 0
            BY <1>1, <5>1
          <6> QED
            BY <1>1, <5>1, <6>1
        <5>2. CASE c = n /\ n = 1
          <6>1. (c + 2 - 1) % n = 0
            BY <5>2
          <6> QED
            BY <5>2, <6>1
        <5>3. CASE c = n /\ n > 1
          <6>1. (c + 2 - 1) % n = 1
            BY <1>1, <5>3
          <6> QED
            BY <1>1, <5>3, <6>1
        <5> QED
          <6>1. c = n - 1 \/ (c = n /\ n = 1) \/ (c = n /\ n > 1)
            <7>1. n \in Nat /\ n > 0
              BY <1>1
            <7> HIDE DEF n
            <7> QED
              BY <4>1, <7>1
          <6> QED
            BY <5>1, <5>2, <5>3, <6>1, Zenon
      <4>3. Abstract!Offset(L, 2, force) = up(up(c))
        BY <2>1, <2>4, <3>3, <4>2
      <4>4. up(up(c)) # 0 /\ up(up(c)) \in 0 .. n /\ next[next[p]] = s[up(up(c))]
        BY <1>1, <1>5
      <4>5. ~(stop(next[p]) \/ stop(next[next[p]]))
        BY <2>2, <3>3
      <4> HIDE DEF up, p, stop
      <4> QED
        BY <4>3, <4>4, <4>5 DEF Target, Pointer
    <3> QED
      BY <3>2, <3>3
  <2> QED
    BY <2>3, <2>4
<1>7. Target(s, c, Abstract!Offset(L, -2, force),
             IF stop(p) \/ stop(prev[p]) THEN Null ELSE prev[prev[p]])
  <2>1. Abstract!Offset(L, -2, force) = IF c + -2 \in 1 .. n THEN c + -2
                                        ELSE IF force THEN ((c + -2 - 1) % n) + 1 ELSE 0
    BY <1>1 DEF Abstract!Offset, Abstract!IsCurrent
  <2>2. stop(p) \/ stop(prev[p]) <=> ~force /\ (c = 1 \/ down(c) = 1)
    <3> HIDE DEF down
    <3> QED
      BY <1>1, <1>4, <1>5
  <2>3. CASE c + -2 \in 1 .. n
    <3>1. down(c) = c - 1 /\ down(down(c)) = c + -2 /\ c + -2 # 0 /\ c + -2 \in 0 .. n /\ c # 1 /\ down(c) # 1
      BY <1>1, <2>3
    <3> QED
      BY <1>1, <1>5, <2>1, <2>2, <2>3, <3>1 DEF Target, Pointer
  <2>4. CASE c + -2 \notin 1 .. n
    <3>1. c = 1 \/ c = 2
      BY <1>1, <2>4
    <3>2. CASE ~force
      <4>1. c = 1 \/ down(c) = 1
        BY <3>1
      <4> QED
        BY <1>1, <2>1, <2>2, <2>4, <3>2, <4>1 DEF Target, Pointer
    <3>3. CASE force
      <4>1. ((c + -2 - 1) % n) + 1 = down(down(c))
        <5>1. CASE c = 2
          <6>1. (c + -2 - 1) % n = n - 1
            <7>1. c + -2 - 1 = -1 /\ (-1) % n = n - 1
              BY <1>1, <5>1
            <7> QED
              BY <7>1
          <6> QED
            BY <1>1, <5>1, <6>1
        <5>2. CASE c = 1 /\ n = 1
          BY <5>2
        <5>3. CASE c = 1 /\ n = 2
          BY <5>3
        <5>4. CASE c = 1 /\ n > 2
          <6>1. (c + -2 - 1) % n = n - 2
            <7>1. c + -2 - 1 = -2 /\ (-2) % n = n - 2
              BY <1>1, <5>4
            <7> QED
              BY <7>1
          <6> QED
            BY <1>1, <5>4, <6>1
        <5> QED
          <6>1. c = 2 \/ (c = 1 /\ n = 1) \/ (c = 1 /\ n = 2) \/ (c = 1 /\ n > 2)
            <7>1. n \in Nat /\ n > 0
              BY <1>1
            <7> HIDE DEF n
            <7> QED
              BY <3>1, <7>1
          <6> QED
            BY <5>1, <5>2, <5>3, <5>4, <6>1, Zenon
      <4>2. Abstract!Offset(L, -2, force) = down(down(c))
        BY <2>1, <2>4, <3>3, <4>1
      <4>3. down(down(c)) # 0 /\ down(down(c)) \in 0 .. n /\ prev[prev[p]] = s[down(down(c))]
        BY <1>1, <1>5
      <4>4. ~(stop(p) \/ stop(prev[p]))
        BY <2>2, <3>3
      <4> HIDE DEF down, p, stop
      <4> QED
        BY <4>2, <4>3, <4>4 DEF Target, Pointer
    <3> QED
      BY <3>2, <3>3
  <2> QED
    BY <2>3, <2>4
<1> QED
  BY <1>6, <1>7

\* SetFirst turns the ring: the current link is first.
LEMMA SetFirstView ==
  ASSUME HeapInv, NEW a \in Lists, SetFirst(a)
  PROVE  Mapped' = [Mapped EXCEPT ![a] = Abstract!SetFirstL(Mapped[a])]
<1> DEFINE s == View(a).items
           c == View(a).cur
           n == Len(s)
           u == SubSeq(s, c, n)
           v == SubSeq(s, 1, c - 1)
           k == n - c + 1
           t == u \o v
<1>1. At(a, s, c) /\ Mapped[a] = [items |-> s, cur |-> c]
  <2>1. Mapped[a] = [items |-> s, cur |-> c]
    BY DEF Mapped, View
  <2> QED
    BY <2>1, Viewed
<1> HIDE DEF s, c
<1>2. /\ link[a] # Null /\ first' = [first EXCEPT ![a] = link[a]]
      /\ UNCHANGED <<ring, link, list_size>>
  BY DEF SetFirst
<1>3. /\ s \in Seq(Links) /\ n \in Nat /\ n = list_size[a] /\ c \in 1 .. n /\ link[a] = s[c]
      /\ k \in 1 .. n
  BY <1>1, <1>2 DEF At, InRing, Pointer
<1>4. /\ \A i \in 1 .. n : next[s[i]] = After(s, i)
      /\ \A i, j \in 1 .. n : s[i] = s[j] => i = j
  BY <1>1 DEF At, InRing, Distinct
<1>5. /\ u \in Seq(Links) /\ Len(u) = k /\ \A i \in 1 .. k : u[i] = s[c + i - 1]
      /\ v \in Seq(Links) /\ Len(v) = c - 1 /\ \A i \in 1 .. c - 1 : v[i] = s[i]
  BY <1>3
<1>6. t = u \o v
  OBVIOUS
<1> HIDE DEF u, v, t
<1>7. /\ t \in Seq(Links) /\ Len(t) = n
      /\ \A i \in 1 .. n : t[i] = IF i <= k THEN s[c + i - 1] ELSE s[i - k]
  <2>1. /\ t \in Seq(Links) /\ Len(t) = Len(u) + Len(v)
        /\ \A i \in 1 .. Len(u) + Len(v) : t[i] = IF i <= Len(u) THEN u[i] ELSE v[i - Len(u)]
    <3>1. u \in Seq(Links) /\ v \in Seq(Links)
      BY <1>5
    <3> QED
      BY <1>6, <3>1, ConcatProperties, Zenon
  <2>2. Len(u) = k /\ Len(u) + Len(v) = n
    BY <1>3, <1>5
  <2>3. ASSUME NEW i \in 1 .. n PROVE t[i] = IF i <= k THEN s[c + i - 1] ELSE s[i - k]
    <3>1. t[i] = IF i <= k THEN u[i] ELSE v[i - k]
      BY <2>1, <2>2
    <3>2. IF i <= k THEN i \in 1 .. k ELSE i - k \in 1 .. c - 1
      BY <1>3
    <3> HIDE DEF k
    <3> QED
      BY <1>5, <3>1, <3>2
  <2> QED
    BY <2>1, <2>2, <2>3
<1> HIDE DEF n, k
<1>8. k = n - c + 1 /\ n \in Nat /\ c \in 1 .. n
  BY <1>3 DEF k
<1> DEFINE pos(i) == IF i <= k THEN c + i - 1 ELSE i - k
<1>9. \A i \in 1 .. n : pos(i) \in 1 .. n /\ t[i] = s[pos(i)]
  BY <1>7, <1>8
<1>10. Distinct(t)
  <2> SUFFICES ASSUME NEW i \in 1 .. n, NEW j \in 1 .. n, t[i] = t[j] PROVE i = j
    BY <1>7 DEF Distinct
  <2>1. pos(i) = pos(j)
    BY <1>4, <1>9
  <2> QED
    BY <1>8, <2>1
<1>11. ASSUME NEW i \in 1 .. n, i > 1 PROVE t[i] = next'[t[i - 1]]
  <2>1. i - 1 \in 1 .. n
    BY <1>8, <1>11
  <2>2. IF pos(i - 1) = n THEN pos(i) = 1 ELSE pos(i) = pos(i - 1) + 1
    BY <1>8, <1>11
  <2> HIDE DEF pos
  <2>3. next[s[pos(i - 1)]] = s[pos(i)]
    BY <1>4, <1>9, <2>1, <2>2, SMTT(30) DEF After, n
  <2> QED
    BY <1>2, <1>9, <2>1, <2>3 DEF ring
<1>12. Len(t) > 0 /\ t[1] = first'[a] /\ link'[a] = Pointer(t, 1) /\ Len(t) = list_size'[a]
  <2>1. 1 \in 1 .. n /\ pos(1) = c
    BY <1>8
  <2>2. t[1] = s[c]
    BY <1>9, <2>1
  <2> QED
    BY <1>2, <1>3, <1>7, <1>8, <2>2 DEF Pointer, HeapInv, TypeOK
<1>13. View(a)' = [items |-> t, cur |-> 1]
  <2>1. 1 \in 0 .. Len(t) /\ \A i \in 1 .. Len(t) : i > 1 => t[i] = next'[t[i - 1]]
    BY <1>7, <1>8, <1>11
  <2> QED
    BY <1>7, <1>10, <1>12, <2>1, ViewedNext
<1>14. ASSUME NEW b \in Lists, b # a PROVE View(b)' = View(b)
  <2>1. first'[b] = first[b] /\ link'[b] = link[b] /\ list_size'[b] = list_size[b] /\ next' = next
    BY <1>2, <1>14 DEF HeapInv, TypeOK, ring
  <2> QED
    BY <2>1, ViewedSame
<1>15. Abstract!SetFirstL(Mapped[a]) = [items |-> t, cur |-> 1]
  <2>1. c # 0
    BY <1>8
  <2> QED
    BY <1>1, <2>1 DEF Abstract!SetFirstL, Abstract!IsCurrent, t, u, v, n
<1> QED
  BY <1>13, <1>14, <1>15, MappedOne

\* Every call that moves the cursor.
LEMMA MovingView ==
  ASSUME HeapInv, NEW a \in Lists, Moving(a)
  PROVE  Abstract!Next
<1> DEFINE s == View(a).items
           c == View(a).cur
           n == Len(s)
           L == [items |-> s, cur |-> c]
           p == link[a]
           stop(force, q) == ~force /\ q = first[a]
           two(force) == IF stop(force, next[p]) \/ stop(force, next[next[p]]) THEN Null ELSE next[next[p]]
           back(force) == IF stop(force, p) \/ stop(force, prev[p]) THEN Null ELSE prev[prev[p]]
<1>1. At(a, s, c) /\ Mapped[a] = L
  <2>1. Mapped[a] = L
    BY DEF Mapped, View
  <2> QED
    BY <2>1, Viewed
<1> HIDE DEF s, c
<1>2. s \in Seq(Links) /\ n \in Nat /\ c \in 0 .. n /\ (c = 0 <=> p = Null)
  BY <1>1, LinkListAssumption DEF At, InRing, Pointer
<1>3. ASSUME NEW q, NEW d, MoveTo(a, q), Target(s, c, d, q)
      PROVE  Mapped' = [Mapped EXCEPT ![a] = [L EXCEPT !.cur = d]] /\ save' = save /\ object' = object
  <2>1. /\ link' = [link EXCEPT ![a] = Pointer(s, d)] /\ UNCHANGED <<ring, first, list_size>>
        /\ d \in 0 .. Len(s) /\ save' = save /\ object' = object
    BY <1>3 DEF MoveTo, Target, entries
  <2>2. Mapped' = [Mapped EXCEPT ![a] = [items |-> s, cur |-> d]]
    BY <1>1, <2>1, Moved
  <2>3. [L EXCEPT !.cur = d] = [items |-> s, cur |-> d]
    OBVIOUS
  <2> QED
    BY <2>1, <2>2, <2>3
<1>4. CASE Start(a)
  <2>1. Mapped' = [Mapped EXCEPT ![a] = [L EXCEPT !.cur = IF n = 0 THEN 0 ELSE 1]] /\ save' = save /\ object' = object
    BY <1>1, <1>3, <1>4, MoveTargets DEF Start
  <2>2. Abstract!StartL(Mapped[a]) = [L EXCEPT !.cur = IF n = 0 THEN 0 ELSE 1]
    BY <1>1, <1>2 DEF Abstract!StartL
  <2>3. Abstract!Move(a, Abstract!StartL)
    BY <2>1, <2>2 DEF Abstract!Move, Mapped, View
  <2> QED
    BY <2>3 DEF Abstract!Next
<1>5. CASE End(a)
  <2>1. Mapped' = [Mapped EXCEPT ![a] = [L EXCEPT !.cur = n]] /\ save' = save /\ object' = object
    BY <1>1, <1>3, <1>5, MoveTargets DEF End
  <2>2. Abstract!EndL(Mapped[a]) = [L EXCEPT !.cur = n]
    BY <1>1 DEF Abstract!EndL
  <2>3. Abstract!Move(a, Abstract!EndL)
    BY <2>1, <2>2 DEF Abstract!Move, Mapped, View
  <2> QED
    BY <2>3 DEF Abstract!Next
<1>6. CASE Reset(a)
  <2>1. Mapped' = [Mapped EXCEPT ![a] = [L EXCEPT !.cur = 0]] /\ save' = save /\ object' = object
    BY <1>1, <1>3, <1>6, MoveTargets DEF Reset
  <2>2. Abstract!ResetL(Mapped[a]) = [L EXCEPT !.cur = 0]
    BY <1>1 DEF Abstract!ResetL
  <2>3. Abstract!Move(a, Abstract!ResetL)
    BY <2>1, <2>2 DEF Abstract!Move, Mapped, View
  <2> QED
    BY <2>3 DEF Abstract!Next
<1>7. CASE Next1(a)
  <2> DEFINE d == IF c = n THEN 0 ELSE c + 1
  <2>1. c # 0 /\ MoveTo(a, Beside(a, p, 1))
    BY <1>2, <1>7 DEF Next1
  <2>2. Target(s, c, d, Beside(a, p, 1))
    BY <1>1, <2>1, MoveTargets
  <2>3. Mapped' = [Mapped EXCEPT ![a] = [L EXCEPT !.cur = d]] /\ save' = save /\ object' = object
    BY <1>3, <2>1, <2>2
  <2>4. Abstract!NextL(Mapped[a]) = [L EXCEPT !.cur = d]
    BY <1>1, <2>1 DEF Abstract!NextL
  <2>5. Abstract!Move(a, Abstract!NextL)
    BY <2>3, <2>4 DEF Abstract!Move, Mapped, View
  <2> QED
    BY <2>5 DEF Abstract!Next
<1>8. CASE Prev1(a)
  <2>1. c # 0 /\ MoveTo(a, Beside(a, p, 0))
    BY <1>2, <1>8 DEF Prev1
  <2>2. Target(s, c, c - 1, Beside(a, p, 0))
    BY <1>1, <2>1, MoveTargets
  <2>3. Mapped' = [Mapped EXCEPT ![a] = [L EXCEPT !.cur = c - 1]] /\ save' = save /\ object' = object
    BY <1>3, <2>1, <2>2
  <2>4. Abstract!PrevL(Mapped[a]) = [L EXCEPT !.cur = c - 1]
    BY <1>1, <2>1 DEF Abstract!PrevL
  <2>5. Abstract!Move(a, Abstract!PrevL)
    BY <2>3, <2>4 DEF Abstract!Move, Mapped, View
  <2> QED
    BY <2>5 DEF Abstract!Next
<1>9. CASE SetFirst(a)
  <2>1. Mapped' = [Mapped EXCEPT ![a] = Abstract!SetFirstL(Mapped[a])] /\ save' = save /\ object' = object
    BY <1>9, SetFirstView DEF SetFirst, entries
  <2>2. Abstract!Move(a, Abstract!SetFirstL)
    BY <2>1 DEF Abstract!Move, Mapped, View
  <2> QED
    BY <2>2 DEF Abstract!Next
<1>10. ASSUME NEW force \in BOOLEAN, Forward2(a, force)
       PROVE  Abstract!Next
  <2>1. c # 0 /\ MoveTo(a, two(force))
    BY <1>2, <1>10 DEF Forward2
  <2>2. Target(s, c, Abstract!Offset(L, 2, force), two(force))
    BY <1>1, <2>1, WalkTargets
  <2>3. Mapped' = [Mapped EXCEPT ![a] = [L EXCEPT !.cur = Abstract!Offset(L, 2, force)]]
        /\ save' = save /\ object' = object
    BY <1>3, <2>1, <2>2
  <2>4. Abstract!Walk(a, 2, force)
    BY <1>1, <2>3 DEF Abstract!Walk, Abstract!Move, Mapped, View
  <2> QED
    BY <2>4 DEF Abstract!Next
<1>11. ASSUME NEW force \in BOOLEAN, Backward2(a, force)
       PROVE  Abstract!Next
  <2>1. c # 0 /\ MoveTo(a, back(force))
    BY <1>2, <1>11 DEF Backward2
  <2>2. Target(s, c, Abstract!Offset(L, -2, force), back(force))
    BY <1>1, <2>1, WalkTargets
  <2>3. Mapped' = [Mapped EXCEPT ![a] = [L EXCEPT !.cur = Abstract!Offset(L, -2, force)]]
        /\ save' = save /\ object' = object
    BY <1>3, <2>1, <2>2
  <2>4. Abstract!Walk(a, -2, force)
    BY <1>1, <2>3 DEF Abstract!Walk, Abstract!Move, Mapped, View
  <2> QED
    BY <2>4 DEF Abstract!Next
<1> QED
  BY <1>4, <1>5, <1>6, <1>7, <1>8, <1>9, <1>10, <1>11 DEF Moving

-----------------------------------------------------------------------------
(***************************************************************************)
(* Saving the cursor.                                                      *)
(***************************************************************************)
\* A cursor put on the stack at any place.
LEMMA PushView ==
  ASSUME HeapInv, NEW a \in Lists, NEW i \in 1 .. Len(save[a]) + 1,
         save' = [save EXCEPT ![a] = Abstract!Sq!InsertAt(@, i, link[a])],
         UNCHANGED <<ring, entries, first, link, list_size>>
  PROVE  Abstract!Push(a)
<1>1. Mapped' = Mapped /\ object' = object
  BY MappedSame DEF entries
<1>2. Abstract!CurrentLink(a) = link[a]
  BY CurrentIs
<1>3. save' = [save EXCEPT ![a] = SubSeq(@, 1, i - 1) \o <<link[a]>> \o SubSeq(@, i, Len(@))]
  BY DEF Abstract!Sq!InsertAt
<1> QED
  BY <1>1, <1>2, <1>3 DEF Abstract!Push, Mapped, View

\* Save puts it on top, SaveAtEnd below the top or on an empty stack.
LEMMA SaveView ==
  ASSUME HeapInv, NEW a \in Lists, Save(a) \/ SaveAtEnd(a)
  PROVE  Abstract!Push(a)
<1> DEFINE s == save[a]
           n == Len(s)
           x == link[a]
           S == Links \cup {Null}
           t(i) == Abstract!Sq!InsertAt(s, i, x)
<1>1. s \in Seq(S) /\ x \in S /\ n \in Nat /\ save \in [Lists -> Seq(S)]
  BY DEF HeapInv, TypeOK
<1>2. UNCHANGED <<ring, entries, first, link, list_size>>
  BY DEF Save, SaveAtEnd
<1> HIDE DEF S
<1>3. CASE Save(a)
  <2>1. save' = [save EXCEPT ![a] = Append(@, x)]
    BY <1>3 DEF Save
  <2>2. Append(s, x) = t(n + 1)
    BY <1>1, InsertedEndsIn, Zenon
  <2>3. save' = [save EXCEPT ![a] = t(n + 1)]
    <3> HIDE DEF t
    <3> QED
      BY <1>1, <2>1, <2>2
  <2>4. n + 1 \in 1 .. n + 1
    BY <1>1
  <2> QED
    BY <1>2, <2>3, <2>4, PushView
<1>4. CASE SaveAtEnd(a) /\ n = 0
  <2>1. save' = [save EXCEPT ![a] = <<x>>]
    BY <1>4 DEF SaveAtEnd
  <2>2. Append(s, x) = t(n + 1)
    BY <1>1, InsertedEndsIn, Zenon
  <2>3. Append(s, x) = <<x>> /\ n + 1 = 1 /\ 1 \in 1 .. n + 1
    BY <1>1, <1>4
  <2> HIDE DEF t
  <2>4. <<x>> = t(1)
    BY <2>2, <2>3
  <2>5. save' = [save EXCEPT ![a] = t(1)]
    BY <2>1, <2>4
  <2> QED
    BY <1>2, <2>3, <2>5, PushView DEF t
<1>5. CASE SaveAtEnd(a) /\ n # 0
  <2> DEFINE u == [Append(s, s[n]) EXCEPT ![n] = x]
  <2>1. save' = [save EXCEPT ![a] = u]
    BY <1>5 DEF SaveAtEnd
  <2>2. n \in 1 .. n /\ n \in 1 .. n + 1
    BY <1>1, <1>5
  <2>3. /\ t(n) \in Seq(S) /\ Len(t(n)) = n + 1
        /\ \A i \in 1 .. n + 1 : t(n)[i] = IF i < n THEN s[i] ELSE IF i = n THEN x ELSE s[i - 1]
    <3>1. Insertion(S, s, n, x, t(n))
      BY <1>1, <2>2, InsertedIn
    <3> QED
      BY <3>1 DEF Insertion
  <2>4. /\ Append(s, s[n]) \in [1 .. n + 1 -> S]
        /\ \A i \in 1 .. n + 1 : Append(s, s[n])[i] = IF i = n + 1 THEN s[n] ELSE s[i]
    <3>1. s[n] \in S
      BY <1>1, <2>2
    <3> DEFINE y == s[n]
    <3> HIDE DEF y
    <3>2. y \in S
      BY <3>1 DEF y
    <3>3. Append(s, y) \in Seq(S) /\ Len(Append(s, y)) = n + 1
      BY <1>1, <3>2
    <3>4. \A i \in 1 .. n + 1 : Append(s, y)[i] = IF i = n + 1 THEN y ELSE s[i]
      BY <1>1, <3>2
    <3>5. Append(s, y) \in [1 .. n + 1 -> S]
      BY <3>3, LenProperties
    <3> QED
      BY <3>4, <3>5 DEF y
  <2>5. u = [i \in 1 .. n + 1 |-> IF i = n THEN x ELSE Append(s, s[n])[i]]
    BY <2>4
  <2> HIDE DEF t
  <2>6. t(n) = [i \in 1 .. n + 1 |-> t(n)[i]]
    BY <2>3
  <2>7. ASSUME NEW i \in 1 .. n + 1
        PROVE  t(n)[i] = IF i = n THEN x ELSE Append(s, s[n])[i]
    <3>1. i < n \/ i = n \/ (i = n + 1 /\ i - 1 = n)
      BY <1>1
    <3> QED
      BY <1>1, <2>3, <2>4, <3>1
  <2>8. u = t(n)
    <3> HIDE DEF u
    <3> QED
      BY <2>5, <2>6, <2>7
  <2>9. save' = [save EXCEPT ![a] = t(n)]
    BY <2>1, <2>8
  <2> QED
    BY <1>2, <2>2, <2>9, PushView DEF t
<1> QED
  BY <1>3, <1>4, <1>5

\* Restore finds the saved link in the list: it was not removed since.
LEMMA RestoreView ==
  ASSUME HeapInv, SavedAlive, NEW a \in Lists, Restore(a)
  PROVE  Abstract!Restore(a)
<1> DEFINE s == View(a).items
           c == View(a).cur
           n == Len(save[a])
           p == IF n = 0 THEN Null ELSE save[a][n]
<1>1. At(a, s, c) /\ Mapped[a] = [items |-> s, cur |-> c]
  <2>1. Mapped[a] = [items |-> s, cur |-> c]
    BY DEF Mapped, View
  <2> QED
    BY <2>1, Viewed
<1> HIDE DEF s, c
<1>2. p \in Cells(a) \cup {Null}
  <2>1. n # 0 => n \in DOMAIN save[a]
    BY DEF HeapInv, TypeOK
  <2> QED
    BY <2>1 DEF SavedAlive
<1>3. /\ link' = [link EXCEPT ![a] = p] /\ save' = [save EXCEPT ![a] = SubSeq(@, 1, n - 1)]
      /\ object' = object /\ UNCHANGED <<ring, first, list_size>>
  BY DEF Restore, entries
<1> HIDE DEF p
<1>4. \E d \in 0 .. Len(s) : p = Pointer(s, d) /\ IF p = Null THEN d = 0 ELSE d # 0 /\ s[d] = p
  <2>1. s \in Seq(Links) /\ Cells(a) = {s[i] : i \in 1 .. Len(s)}
    BY <1>1 DEF At, InRing
  <2>2. CASE p = Null
    <3>1. 0 \in 0 .. Len(s) /\ p = Pointer(s, 0)
      BY <2>1, <2>2 DEF Pointer
    <3> QED
      BY <2>2, <3>1
  <2>3. CASE p # Null
    <3>1. PICK i \in 1 .. Len(s) : p = s[i]
      BY <1>2, <2>1, <2>3
    <3>2. i \in 0 .. Len(s) /\ i # 0 /\ p = Pointer(s, i)
      BY <2>1, <3>1 DEF Pointer
    <3> QED
      BY <2>3, <3>1, <3>2
  <2> QED
    BY <2>2, <2>3
<1>5. PICK d \in 0 .. Len(s) : p = Pointer(s, d) /\ IF p = Null THEN d = 0 ELSE d # 0 /\ s[d] = p
  BY <1>4
<1>6. Mapped' = [Mapped EXCEPT ![a] = [items |-> s, cur |-> d]]
  BY <1>1, <1>3, <1>5, Moved
<1>7. Mapped' = [Mapped EXCEPT ![a].cur = d]
  <2>1. [Mapped[a] EXCEPT !.cur = d] = [items |-> s, cur |-> d]
    BY <1>1
  <2> QED
    BY <1>6, <2>1
<1>8. d \in 0 .. Len(Mapped[a].items) /\ IF p = Null THEN d = 0 ELSE d # 0 /\ Mapped[a].items[d] = p
  BY <1>1, <1>5
<1> QED
  BY <1>3, <1>7, <1>8 DEF Abstract!Restore, Mapped, View, p

\* Every call on the stack of saved cursors.
LEMMA SavingView ==
  ASSUME HeapInv, SavedAlive, NEW a \in Lists, Saving(a)
  PROVE  Abstract!Next \/ UNCHANGED Abstract!vars
<1>1. CASE Save(a) \/ SaveAtEnd(a)
  BY <1>1, SaveView DEF Abstract!Next
<1>2. CASE Restore(a)
  BY <1>2, RestoreView DEF Abstract!Next
<1>3. CASE PopSave(a)
  <2>1. Mapped' = Mapped /\ object' = object /\ save' = [save EXCEPT ![a] = SubSeq(@, 1, Len(@) - 1)]
    BY <1>3, MappedSame DEF PopSave, entries
  <2>2. Abstract!Pop(a)
    BY <2>1 DEF Abstract!Pop, Mapped, View
  <2> QED
    BY <2>2 DEF Abstract!Next
<1>4. CASE EmptySave(a)
  <2>1. Mapped' = Mapped /\ object' = object /\ save' = [save EXCEPT ![a] = << >>]
    BY <1>4, MappedSame DEF EmptySave, entries
  <2>2. Abstract!EmptySave(a)
    BY <2>1 DEF Abstract!EmptySave, Mapped, View
  <2> QED
    BY <2>2 DEF Abstract!Next
<1>5. ASSUME NEW perm \in BOOLEAN, SetPermanent(a, perm) PROVE UNCHANGED Abstract!vars
  <2>1. Mapped' = Mapped /\ object' = object /\ save' = save
    BY <1>5, MappedSame DEF SetPermanent
  <2> QED
    BY <2>1 DEF Abstract!vars, Mapped, View
<1> QED
  BY <1>1, <1>2, <1>3, <1>4, <1>5 DEF Saving

-----------------------------------------------------------------------------
\* Empty rings are empty sequences.
LEMMA InitMapped == Init => Abstract!Init
<1> SUFFICES ASSUME Init PROVE Abstract!Init
  OBVIOUS
<1>1. ASSUME NEW a \in Lists PROVE View(a) = Abstract!EmptyL
  <2>1. At(a, View(a).items, View(a).cur)
    BY InitIInv, Viewed DEF IInv
  <2>2. Len(View(a).items) = 0 /\ View(a).items \in Seq(Links)
    BY <2>1 DEF At, InRing, Init
  <2>3. View(a).items = << >> /\ View(a).cur = 0
    BY <2>1, <2>2 DEF At
  <2> QED
    BY <2>3 DEF View, Abstract!EmptyL
<1>2. Mapped = [a \in Lists |-> Abstract!EmptyL]
  BY <1>1 DEF Mapped
<1> QED
  BY <1>2 DEF Init, Abstract!Init, Mapped, View

\* Every step is a step of CursorList or changes nothing it knows of.
LEMMA NextMapped ==
  ASSUME IInv, [Next]_vars
  PROVE  [Abstract!Next]_(Abstract!vars)
<1> USE DEF IInv
<1>1. ASSUME NEW a \in Lists, Entering(a) PROVE Abstract!Next
  BY <1>1, EnteringView
<1>2. ASSUME NEW a \in Lists, Replacing(a) PROVE Abstract!Next
  BY <1>2, ReplacingView
<1>3. ASSUME NEW a \in Lists, Removing(a) PROVE Abstract!Next
  BY <1>3, RemovingView
<1>4. ASSUME NEW a \in Lists, Moving(a) PROVE Abstract!Next
  BY <1>4, MovingView
<1>5. ASSUME NEW a \in Lists, Saving(a) PROVE Abstract!Next \/ UNCHANGED Abstract!vars
  BY <1>5, SavingView
<1>6. CASE UNCHANGED vars
  <2>1. Mapped' = Mapped /\ save' = save /\ object' = object
    BY <1>6, MappedSame DEF vars, ring
  <2> QED
    BY <2>1 DEF Abstract!vars, Mapped, View
<1> QED
  BY <1>1, <1>2, <1>3, <1>4, <1>5, <1>6 DEF Next

\* The rings implement the sequences: every call of _List has, on the entries,
\* the cursor and the saved cursors of its lists, just the effect of CursorList.
THEOREM RingsImplementSequences ==
  ASSUME ~SaveTwice PROVE Spec => ImplementsCursorList
BY Invariance, InitMapped, NextMapped, PTL DEF Spec, ImplementsCursorList, Abstract!Spec
=============================================================================
