--------------------------- MODULE LinkListProofs ---------------------------
(***************************************************************************)
(* The rings, headers and save stacks of LinkList are well formed for      *)
(* every heap, every number of lists and every order of calls.             *)
(***************************************************************************)
EXTENDS LinkList, FiniteSetTheorems, TLAPS

HeapInv == TypeOK /\ RingInv /\ HeaderInv

\* No link is on a save stack twice, so that one entry is all there is to clear.
SavedOnce ==
  \A a \in Lists : \A i, j \in DOMAIN save[a] :
    save[a][i] = save[a][j] /\ save[a][i] # Null => i = j

\* The inductive invariant.  HeaderInv needs SavedAlive, since Restore makes
\* a saved link the cursor; SavedAlive needs SavedOnce in RemoveLink; the
\* type of freed needs ObjectsAlive, links in use having an object.
IInv == HeapInv /\ SavedAlive /\ SavedOnce /\ ObjectsAlive

-----------------------------------------------------------------------------
(***************************************************************************)
(* What each of the ways to link and unlink does to the rings.             *)
(***************************************************************************)

\* AddBefore puts p on the ring of q.
LEMMA LinkedBefore ==
  ASSUME TypeOK, RingInv, NEW a \in Lists, NEW q \in Cells(a), NEW p \in Free,
         AddBefore(q, p), home' = [home EXCEPT ![p] = a]
  PROVE  RingInv'
<1> USE LinkListAssumption DEF Cells, Free
<1>0. /\ p \in Links /\ q \in Links /\ p # q /\ prev[q] \in Links /\ prev[q] # p
      /\ home[p] = Null /\ home[q] = a /\ a # Null /\ home[prev[q]] = a
      /\ next[prev[q]] = q
  BY DEF TypeOK, RingInv, TwoWay
<1>1. /\ next' = [x \in Links |-> IF x = prev[q] THEN p ELSE IF x = p THEN q ELSE next[x]]
      /\ prev' = [x \in Links |-> IF x = q THEN p ELSE IF x = p THEN prev[q] ELSE prev[x]]
      /\ home' = [x \in Links |-> IF x = p THEN a ELSE home[x]]
  BY <1>0 DEF AddBefore, TypeOK
<1>2. ASSUME NEW x \in Links PROVE TwoWay(x)' /\ (home[next[x]] = home[x])'
  BY <1>0, <1>1 DEF TypeOK, RingInv, TwoWay
<1>3. ASSUME NEW x \in Free' PROVE (next[x] = x)'
  BY <1>0, <1>1 DEF TypeOK, RingInv, TwoWay
<1>4. ASSUME NEW b \in Lists, NEW S \in SUBSET Cells(b)', S # {}, Closed(S)'
      PROVE  S = Cells(b)'
  <2>1. CASE b # a
    <3>1. Cells(b)' = Cells(b) /\ p \notin S /\ prev[q] \notin S
      BY <2>1, <1>0, <1>1
    <3>2. Closed(S)
      BY <3>1, <1>0, <1>1, <1>4 DEF Closed
    <3> QED
      BY <3>1, <3>2, <1>4 DEF RingInv, OneRing
  <2>2. CASE b = a
    <3>1. Cells(b)' = Cells(b) \cup {p} /\ Cells(b) = Cells(a)
      BY <2>2, <1>0, <1>1
    <3> DEFINE T == S \ {p}
    <3>2. T \subseteq Cells(a)
      BY <3>1
    <3>3. p \in S => q \in S
      BY <1>0, <1>1, <1>4 DEF Closed
    <3>4. T # {}
      BY <3>3, <1>0, <1>4
    <3>5. Closed(T)
      <4>1. SUFFICES ASSUME NEW x \in T PROVE next[x] \in T
        BY DEF Closed
      <4>2. next'[x] \in S /\ x \in Links /\ home[x] = a
        BY <1>4, <3>2 DEF Closed
      <4>3. CASE x = prev[q]
        BY <4>2, <4>3, <1>0, <1>1, <3>3
      <4>4. CASE x # prev[q]
        <5>1. next'[x] = next[x]
          BY <4>2, <4>4, <1>0, <1>1
        <5>2. next[x] # p
          BY <4>2, <1>0 DEF RingInv
        <5> QED
          BY <4>2, <5>1, <5>2
      <4> QED
        BY <4>3, <4>4
    <3>6. T = Cells(a)
      BY <3>2, <3>4, <3>5 DEF RingInv, OneRing
    <3>7. prev[q] \in S
      BY <3>6, <1>0
    <3>8. p \in S
      BY <3>7, <1>0, <1>1, <1>4 DEF Closed
    <3> QED
      BY <3>1, <3>6, <3>8
  <2> QED
    BY <2>1, <2>2
<1> QED
  BY <1>2, <1>3, <1>4 DEF RingInv, OneRing

\* AddAfter is AddBefore of the next link.
LEMMA LinkedAfter ==
  ASSUME TypeOK, RingInv, NEW a \in Lists, NEW q \in Cells(a), NEW p \in Free,
         AddAfter(q, p), home' = [home EXCEPT ![p] = a]
  PROVE  RingInv'
<1>1. next[q] \in Cells(a) /\ prev[next[q]] = q /\ q \in Links /\ p \in Links /\ p # q /\ p # next[q]
  BY LinkListAssumption DEF TypeOK, RingInv, TwoWay, Cells, Free
<1>2. AddBefore(next[q], p)
  BY <1>1 DEF AddBefore, AddAfter, TypeOK
<1> QED
  BY <1>1, <1>2, LinkedBefore

\* The first link of a list is a ring by itself.
LEMMA LinkedAlone ==
  ASSUME TypeOK, RingInv, NEW a \in Lists, Cells(a) = {}, NEW p \in Free,
         UNCHANGED ring, home' = [home EXCEPT ![p] = a]
  PROVE  RingInv'
<1> USE LinkListAssumption DEF Cells, Free, ring
<1>1. /\ p \in Links /\ next[p] = p /\ prev[p] = p /\ home[p] = Null /\ a # Null
      /\ home' = [x \in Links |-> IF x = p THEN a ELSE home[x]]
  BY DEF TypeOK, RingInv, TwoWay
<1>2. ASSUME NEW x \in Links PROVE TwoWay(x)' /\ (home[next[x]] = home[x])'
  BY <1>1 DEF TypeOK, RingInv, TwoWay
<1>3. ASSUME NEW x \in Free' PROVE (next[x] = x)'
  BY <1>1 DEF TypeOK, RingInv, TwoWay
<1>4. ASSUME NEW b \in Lists, NEW S \in SUBSET Cells(b)', S # {}, Closed(S)'
      PROVE  S = Cells(b)'
  <2>1. CASE b = a
    BY <2>1, <1>1, <1>4
  <2>2. CASE b # a
    <3>1. Cells(b)' = Cells(b) /\ Closed(S)
      BY <2>2, <1>1, <1>4 DEF Closed
    <3> QED
      BY <3>1, <1>4 DEF RingInv, OneRing
  <2> QED
    BY <2>1, <2>2
<1> QED
  BY <1>2, <1>3, <1>4 DEF RingInv, OneRing

\* Unlink takes p off its ring.
LEMMA Unlinked ==
  ASSUME TypeOK, RingInv, NEW a \in Lists, NEW p \in Cells(a), Unlink(p),
         home' = [x \in Links |-> IF x \in {p} THEN Null ELSE home[x]]
  PROVE  RingInv'
<1> USE LinkListAssumption DEF Cells, Free
<1>0. /\ p \in Links /\ home[p] = a /\ a # Null
      /\ prev[p] \in Links /\ next[p] \in Links /\ home[prev[p]] = a /\ home[next[p]] = a
      /\ next[prev[p]] = p /\ prev[next[p]] = p
  BY DEF TypeOK, RingInv, TwoWay
<1>1. /\ next' = [x \in Links |-> IF x = p THEN p ELSE IF x = prev[p] THEN next[p] ELSE next[x]]
      /\ prev' = [x \in Links |-> IF x = p THEN p ELSE IF x = next[p] THEN prev[p] ELSE prev[x]]
      /\ home' = [x \in Links |-> IF x = p THEN Null ELSE home[x]]
  BY <1>0 DEF Unlink, TypeOK
<1>2. ASSUME NEW x \in Links PROVE TwoWay(x)' /\ (home[next[x]] = home[x])'
  BY <1>0, <1>1 DEF TypeOK, RingInv, TwoWay
<1>3. ASSUME NEW x \in Free' PROVE (next[x] = x)'
  BY <1>0, <1>1 DEF TypeOK, RingInv, TwoWay
<1>4. ASSUME NEW b \in Lists, NEW S \in SUBSET Cells(b)', S # {}, Closed(S)'
      PROVE  S = Cells(b)'
  <2>1. CASE b # a
    <3>1. Cells(b)' = Cells(b) /\ p \notin S /\ prev[p] \notin S
      BY <2>1, <1>0, <1>1
    <3>2. Closed(S)
      BY <3>1, <1>0, <1>1, <1>4 DEF Closed
    <3> QED
      BY <3>1, <3>2, <1>4 DEF RingInv, OneRing
  <2>2. CASE b = a
    <3>1. Cells(b)' = Cells(a) \ {p} /\ p \notin S /\ S \subseteq Cells(a)
      BY <2>2, <1>0, <1>1
    <3> DEFINE T == IF prev[p] \in S THEN S \cup {p} ELSE S
    <3>2. T \subseteq Cells(a) /\ T # {} /\ S = T \ {p}
      BY <3>1, <1>4
    <3>3. Closed(T)
      <4>1. SUFFICES ASSUME NEW x \in T PROVE next[x] \in T
        BY DEF Closed
      <4>2. CASE x = p
        <5>1. prev[p] \in S
          BY <4>2, <3>1
        <5> QED
          BY <5>1, <4>2, <3>1, <1>0, <1>1, <1>4 DEF Closed
      <4>3. CASE x # p /\ x = prev[p]
        BY <4>3, <3>2, <1>0
      <4>4. CASE x # p /\ x # prev[p]
        BY <4>4, <3>2, <1>0, <1>1, <1>4 DEF Closed
      <4> QED
        BY <4>2, <4>3, <4>4
    <3>4. T = Cells(a)
      BY <3>2, <3>3 DEF RingInv, OneRing
    <3> QED
      BY <3>1, <3>2, <3>4
  <2> QED
    BY <2>1, <2>2
<1> QED
  BY <1>2, <1>3, <1>4 DEF RingInv, OneRing

\* EmptyList takes all links of a off.
LEMMA Emptied ==
  ASSUME TypeOK, RingInv, NEW a \in Lists,
         next' = [x \in Links |-> IF home[x] = a THEN x ELSE next[x]],
         prev' = [x \in Links |-> IF home[x] = a THEN x ELSE prev[x]],
         home' = [x \in Links |-> IF x \in Cells(a) THEN Null ELSE home[x]]
  PROVE  RingInv'
<1> USE LinkListAssumption DEF Cells, Free
<1>1. a # Null
  OBVIOUS
<1>2. ASSUME NEW x \in Links PROVE TwoWay(x)' /\ (home[next[x]] = home[x])'
  BY <1>1 DEF TypeOK, RingInv, TwoWay
<1>3. ASSUME NEW x \in Free' PROVE (next[x] = x)'
  BY <1>1 DEF TypeOK, RingInv, TwoWay
<1>4. ASSUME NEW b \in Lists, NEW S \in SUBSET Cells(b)', S # {}, Closed(S)'
      PROVE  S = Cells(b)'
  <2>1. b # a
    BY <1>1, <1>4
  <2>2. Cells(b)' = Cells(b) /\ Closed(S)
    BY <2>1, <1>1, <1>4 DEF Closed
  <2> QED
    BY <2>2, <1>4 DEF RingInv, OneRing
<1> QED
  BY <1>2, <1>3, <1>4 DEF RingInv, OneRing

\* Transfer opens both rings and joins them: the ring of L, from its first
\* link f round to prev[f], goes between at and next[at].
LEMMA Spliced ==
  ASSUME TypeOK, RingInv, NEW a \in Lists, NEW L \in Lists, a # L,
         NEW at \in Cells(a), NEW f \in Cells(L),
         prev' = [prev EXCEPT ![f] = at, ![next[at]] = prev[f]],
         next' = [next EXCEPT ![prev[f]] = next[at], ![at] = f],
         home' = [x \in Links |-> IF home[x] = L THEN a ELSE home[x]]
  PROVE  RingInv'
<1> USE LinkListAssumption DEF Cells, Free
<1>0. /\ at \in Links /\ f \in Links /\ home[at] = a /\ home[f] = L /\ a # Null /\ L # Null
      /\ next[at] \in Links /\ home[next[at]] = a /\ prev[next[at]] = at
      /\ prev[f] \in Links /\ home[prev[f]] = L /\ next[prev[f]] = f
      /\ at # prev[f] /\ f # next[at]
  BY DEF TypeOK, RingInv, TwoWay
<1>1. /\ next' = [x \in Links |-> IF x = at THEN f ELSE IF x = prev[f] THEN next[at] ELSE next[x]]
      /\ prev' = [x \in Links |-> IF x = f THEN at ELSE IF x = next[at] THEN prev[f] ELSE prev[x]]
  BY <1>0 DEF TypeOK
<1>2. ASSUME NEW x \in Links PROVE TwoWay(x)' /\ (home[next[x]] = home[x])'
  <2>1. /\ next[x] \in Links /\ prev[x] \in Links /\ prev[next[x]] = x /\ next[prev[x]] = x
        /\ home[next[x]] = home[x] /\ at # prev[f] /\ f # next[at]
    BY <1>0, <1>1 DEF TypeOK, RingInv, TwoWay
  <2>2. (prev[next[x]] = x)'
    BY <1>0, <1>1, <2>1
  <2>3. (next[prev[x]] = x)'
    BY <1>0, <1>1, <2>1
  <2>4. (home[next[x]] = home[x])'
    BY <1>0, <1>1, <2>1
  <2> QED
    BY <2>2, <2>3, <2>4 DEF TwoWay
<1>3. ASSUME NEW x \in Free' PROVE (next[x] = x)'
  BY <1>0, <1>1 DEF TypeOK, RingInv, TwoWay
<1>4. ASSUME NEW b \in Lists, NEW S \in SUBSET Cells(b)', S # {}, Closed(S)'
      PROVE  S = Cells(b)'
  <2>1. CASE b # a
    <3>1. S \subseteq Cells(b) /\ Cells(b)' \subseteq Cells(b) /\ b # L
      BY <2>1, <1>0, <1>1, <1>4
    <3>2. Closed(S)
      BY <2>1, <3>1, <1>0, <1>1, <1>4 DEF Closed
    <3> QED
      BY <3>1, <3>2, <1>4 DEF RingInv, OneRing
  <2>2. CASE b = a
    <3> DEFINE A == S \cap Cells(a)
               B == S \cap Cells(L)
    <3>1. S = A \cup B /\ Cells(b)' = Cells(a) \cup Cells(L)
      BY <2>2, <1>0, <1>1, <1>4
    <3>2. \A x \in A : x # at => next[x] \in A
      BY <1>0, <1>1, <1>4 DEF RingInv, Closed
    <3>3. \A x \in B : x # prev[f] => next[x] \in B
      BY <1>0, <1>1, <1>4 DEF RingInv, Closed
    <3>4. ASSUME A # {} PROVE at \in A
      <4>1. ASSUME at \notin A PROVE A = Cells(a)
        <5>1. Closed(A) /\ A \in SUBSET Cells(a)
          BY <3>2, <4>1 DEF Closed
        <5> QED
          BY <5>1, <3>4 DEF RingInv, OneRing
      <4> QED
        BY <4>1
    <3>5. ASSUME B # {} PROVE prev[f] \in B
      <4>1. ASSUME prev[f] \notin B PROVE B = Cells(L)
        <5>1. Closed(B) /\ B \in SUBSET Cells(L)
          BY <3>3, <4>1 DEF Closed
        <5> QED
          BY <5>1, <3>5 DEF RingInv, OneRing
      <4>2. prev[f] \in Cells(L)
        BY <1>0, <1>1
      <4> QED
        BY <4>1, <4>2
    <3>6. at \in A => f \in B
      BY <1>0, <1>1, <1>4 DEF Closed
    <3>7. prev[f] \in B => next[at] \in A
      BY <1>0, <1>1, <1>4 DEF Closed
    <3>8. at \in A /\ next[at] \in A /\ f \in B /\ prev[f] \in B
      BY <3>1, <3>4, <3>5, <3>6, <3>7, <1>4
    <3>9. A = Cells(a)
      BY <3>2, <3>8 DEF RingInv, OneRing, Closed
    <3>10. B = Cells(L)
      <4>1. next[prev[f]] \in B
        BY <3>8, <1>0, <1>1
      <4>2. Closed(B) /\ B \in SUBSET Cells(L) /\ B # {}
        BY <3>3, <3>8, <4>1 DEF Closed
      <4> QED
        BY <4>2 DEF RingInv, OneRing
    <3> QED
      BY <3>1, <3>9, <3>10
  <2> QED
    BY <2>1, <2>2
<1> QED
  BY <1>2, <1>3, <1>4 DEF RingInv, OneRing

-----------------------------------------------------------------------------
(***************************************************************************)
(* The effect of a call on the whole invariant, one lemma for each class   *)
(* of calls.                                                               *)
(***************************************************************************)

\* The header of no other list changes.
OnlyOf(a) ==
  /\ first' = [first EXCEPT ![a] = first'[a]]
  /\ link' = [link EXCEPT ![a] = link'[a]]

\* A new link is entered, whatever its place, with a first link and a cursor
\* that are links of the list.
LEMMA Entered ==
  ASSUME HeapInv, NEW a \in Lists, NEW p \in Links, NEW o \in Objects, NEW perm \in BOOLEAN,
         NewLink(a, p, o, perm), RingInv',
         next' \in [Links -> Links], prev' \in [Links -> Links],
         OnlyOf(a), first'[a] \in Cells(a) \cup {p}, link'[a] \in Cells(a) \cup {p, Null}
  PROVE  HeapInv'
<1> USE LinkListAssumption DEF HeapInv
<1>1. p \in Free /\ home[p] = Null /\ a # Null /\ Cells(a) \subseteq Links
  BY DEF NewLink, Free, Cells
<1>2. home' = [x \in Links |-> IF x = p THEN a ELSE home[x]]
  BY DEF NewLink, TypeOK
<1>3. /\ Cells(a)' = Cells(a) \cup {p} /\ p \notin Cells(a)
      /\ \A b \in Lists : b # a => Cells(b)' = Cells(b)
  BY <1>1, <1>2 DEF Cells
<1>4. TypeOK'
  <2>1. first'[a] \in Links /\ link'[a] \in Links \cup {Null}
    BY <1>1
  <2>2. first' \in [Lists -> Links \cup {Null}] /\ link' \in [Lists -> Links \cup {Null}]
    BY <2>1 DEF TypeOK, OnlyOf
  <2>3. /\ object' \in [Links -> Objects \cup {Null}] /\ permanent' \in [Links -> BOOLEAN]
        /\ list_size' \in [Lists -> Nat] /\ home' \in [Links -> Lists \cup {Null}]
    BY DEF TypeOK, NewLink
  <2> QED
    BY <2>2, <2>3 DEF TypeOK, NewLink
<1>5. IsFiniteSet(Cells(a))
  BY <1>1, FS_Subset
<1>6. Cardinality(Cells(a)') = Cardinality(Cells(a)) + 1
  BY <1>3, <1>5, FS_AddElement
<1>7. HeaderInv'
  <2>1. ASSUME NEW b \in Lists, b # a
        PROVE  /\ first'[b] = first[b] /\ link'[b] = link[b] /\ list_size'[b] = list_size[b]
               /\ Cells(b)' = Cells(b)
    BY <2>1, <1>3 DEF TypeOK, NewLink, OnlyOf
  <2>2. list_size'[a] = list_size[a] + 1
    BY DEF TypeOK, NewLink
  <2>3. first'[a] # Null
    BY <1>1
  <2> QED
    BY <1>3, <1>6, <2>1, <2>2, <2>3 DEF HeaderInv
<1> QED
  BY <1>4, <1>7

\* Where a link enters at the end of the ring.
LEMMA EnteredAtEnd ==
  ASSUME HeapInv, NEW a \in Lists, NEW p \in Links, NEW o \in Objects, NEW perm \in BOOLEAN,
         NewLink(a, p, o, perm), LinkAtEnd(a, p)
  PROVE  RingInv' /\ next' \in [Links -> Links] /\ prev' \in [Links -> Links]
<1> USE DEF HeapInv
<1>1. p \in Free /\ home' = [home EXCEPT ![p] = a]
  BY DEF NewLink
<1>2. CASE first[a] = Null
  <2>1. Cells(a) = {} /\ UNCHANGED ring
    BY <1>2 DEF HeaderInv, LinkAtEnd
  <2>2. RingInv'
    BY <2>1, <1>1, LinkedAlone
  <2> QED
    BY <2>1, <2>2 DEF TypeOK, ring
<1>3. CASE first[a] # Null
  <2>1. first[a] \in Cells(a) /\ AddBefore(first[a], p)
    BY <1>3 DEF HeaderInv, LinkAtEnd
  <2>2. RingInv'
    BY <2>1, <1>1, LinkedBefore
  <2> QED
    BY <2>1, <2>2 DEF AddBefore, TypeOK, Cells
<1> QED
  BY <1>2, <1>3

\* Calls that leave links and sizes alone.
LEMMA Unmoved ==
  ASSUME HeapInv, TypeOK', UNCHANGED <<ring, home, list_size>>,
         \A a \in Lists : first'[a] \in Cells(a) \cup {Null} /\ (first'[a] = Null <=> first[a] = Null),
         \A a \in Lists : link'[a] \in Cells(a) \cup {Null}
  PROVE  HeapInv'
<1>1. \A a \in Lists : Cells(a)' = Cells(a)
  BY DEF Cells
<1>2. RingInv'
  BY DEF HeapInv, RingInv, ring, TwoWay, Free, Cells, OneRing, Closed
<1>3. HeaderInv'
  BY <1>1 DEF HeapInv, HeaderInv
<1> QED
  BY <1>2, <1>3 DEF HeapInv

\* Taking entries off a stack, or putting a cursor on it.
LEMMA SavedType ==
  ASSUME TypeOK, NEW a \in Lists
  PROVE  /\ SubSeq(save[a], 1, Len(save[a]) - 1) \in Seq(Links \cup {Null})
         /\ Append(save[a], link[a]) \in Seq(Links \cup {Null})
         /\ \A p \in Links : ForgetSaved(save[a], p) \in Seq(Links \cup {Null})
<1>1. save[a] \in Seq(Links \cup {Null}) /\ link[a] \in Links \cup {Null}
  BY DEF TypeOK
<1>2. ASSUME NEW p \in Links PROVE ForgetSaved(save[a], p) \in Seq(Links \cup {Null})
  <2> DEFINE s == save[a]
             hits == {i \in DOMAIN s : s[i] = p}
             k == CHOOSE i \in hits : \A j \in hits : j <= i
  <2>1. s \in [1 .. Len(s) -> Links \cup {Null}] /\ Len(s) \in Nat
    BY <1>1
  <2>2. [s EXCEPT ![k] = Null] \in [1 .. Len(s) -> Links \cup {Null}]
    BY <2>1
  <2>3. [s EXCEPT ![k] = Null] \in Seq(Links \cup {Null})
    BY <2>1, <2>2
  <2> QED
    BY <1>1, <2>3 DEF ForgetSaved
<1> QED
  BY <1>1, <1>2

\* Calls that leave the save stacks alone and take no link away.
LEMMA SavedKept ==
  ASSUME SavedAlive, SavedOnce, save' = save, \A a \in Lists : Cells(a) \subseteq Cells(a)'
  PROVE  SavedAlive' /\ SavedOnce'
BY DEF SavedAlive, SavedOnce

\* A shorter stack.
LEMMA SavedPopped ==
  ASSUME IInv, NEW a \in Lists, UNCHANGED home,
         save' = [save EXCEPT ![a] = SubSeq(@, 1, Len(save[a]) - 1)]
  PROVE  SavedAlive' /\ SavedOnce'
<1> DEFINE s == save[a]
           t == SubSeq(s, 1, Len(s) - 1)
<1>1. s \in Seq(Links \cup {Null})
  BY DEF IInv, HeapInv, TypeOK
<1>2. \A i \in DOMAIN t : i \in DOMAIN s /\ t[i] = s[i]
  BY <1>1
<1>3. \A b \in Lists : save'[b] = IF b = a THEN t ELSE save[b]
  BY DEF IInv, HeapInv, TypeOK
<1>4. \A b \in Lists : Cells(b)' = Cells(b)
  BY DEF Cells
<1> HIDE DEF t, s
<1>5. s = save[a]
  BY DEF s
<1> QED
  BY <1>2, <1>3, <1>4, <1>5 DEF IInv, SavedAlive, SavedOnce

\* Calls that enter, replace and delete no object, and leave links in use.
LEMMA ObjectsKept ==
  ASSUME ObjectsAlive, UNCHANGED entries, Free' = Free
  PROVE  ObjectsAlive'
BY DEF ObjectsAlive, entries, Holders

\* The objects of deleted links are in no other link when they are deleted.
LEMMA ObjectsDeleted ==
  ASSUME IInv, NEW P \in SUBSET (Links \ Free), DeleteLinks(P)
  PROVE  ObjectsAlive' /\ freed' \in SUBSET Objects
<1>1. Owned(P) \subseteq Objects
  BY DEF IInv, ObjectsAlive, Owned, Free, Cells
<1>2. freed' \subseteq Objects
  BY <1>1 DEF DeleteLinks, IInv, HeapInv, TypeOK
<1>3. /\ Free' = Free \cup P
      /\ \A x \in Links \ P : object'[x] = object[x] /\ permanent'[x] = permanent[x]
  BY LinkListAssumption DEF DeleteLinks, Free, Cells
<1>4. ASSUME NEW x \in Links \ Free'
      PROVE  object'[x] \in Objects \ freed' /\ (~permanent'[x] => Holders(object[x])' = {x})
  <2>1. x \in Links \ Free /\ x \notin P /\ object'[x] = object[x] /\ permanent'[x] = permanent[x]
    BY <1>3
  <2>2. object[x] \notin Owned(P)
    <3>1. SUFFICES ASSUME NEW q \in P, ~permanent[q], object[x] = object[q] PROVE FALSE
      BY DEF Owned
    <3>2. Holders(object[q]) = {q}
      BY <3>1 DEF IInv, ObjectsAlive
    <3> QED
      BY <3>1, <3>2, <2>1 DEF Holders
  <2>3. \A o : Holders(o)' \subseteq Holders(o)
    BY <1>3 DEF Holders
  <2>4. x \in Holders(object[x])'
    BY <2>1 DEF Holders
  <2> QED
    BY <2>1, <2>2, <2>3, <2>4 DEF IInv, ObjectsAlive, DeleteLinks
<1> QED
  BY <1>2, <1>3, <1>4 DEF ObjectsAlive

\* The object of a new link.
LEMMA ObjectsEntered ==
  ASSUME IInv, NEW a \in Lists, NEW p \in Links, NEW o \in Objects, NEW perm \in BOOLEAN,
         NewLink(a, p, o, perm)
  PROVE  ObjectsAlive'
<1>1. /\ p \in Free /\ o \notin freed /\ freed' = freed /\ \A q \in Holders(o) : perm /\ permanent[q]
      /\ Free' = Free \ {p}
      /\ \A x \in Links : object'[x] = (IF x = p THEN o ELSE object[x])
      /\ \A x \in Links : permanent'[x] = (IF x = p THEN perm ELSE permanent[x])
  BY LinkListAssumption DEF NewLink, IInv, HeapInv, TypeOK, Free, Cells
<1>2. \A q : Holders(q)' = IF q = o THEN Holders(q) \cup {p} ELSE Holders(q)
  BY <1>1 DEF Holders
<1>3. ASSUME NEW x \in Links \ Free'
      PROVE  object'[x] \in Objects \ freed' /\ (~permanent'[x] => Holders(object[x])' = {x})
  <2>1. CASE x = p
    <3>1. ~perm => Holders(o) = {}
      BY <1>1
    <3>2. object'[x] = o /\ permanent'[x] = perm
      BY <2>1, <1>1
    <3>3. Holders(object[x])' = Holders(o) \cup {p}
      BY <3>2, <1>1, <1>2 DEF Holders
    <3> QED
      BY <2>1, <3>1, <3>2, <3>3, <1>1
  <2>2. CASE x # p
    <3>1. x \in Links \ Free /\ object'[x] = object[x] /\ permanent'[x] = permanent[x]
      BY <2>2, <1>1
    <3>2. ~permanent[x] => object[x] # o
      BY <3>1, <1>1 DEF Holders
    <3>3. object[x] # o => Holders(object[x])' = Holders(object[x])
      BY <3>1, <1>1 DEF Holders
    <3>4. object[x] \in Objects \ freed /\ (~permanent[x] => Holders(object[x]) = {x})
      BY <3>1 DEF IInv, ObjectsAlive
    <3> QED
      BY <3>1, <3>2, <3>3, <3>4, <1>1
  <2> QED
    BY <2>1, <2>2
<1> QED
  BY <1>3 DEF ObjectsAlive

\* Entering at the end of the ring, before or after a link.
LEMMA EnteringStep ==
  ASSUME IInv, NEW a \in Lists, Entering(a) PROVE IInv'
<1> USE DEF IInv
<1>1. PICK p \in Links, o \in Objects, perm \in BOOLEAN :
        /\ NewLink(a, p, o, perm)
        /\ \/ AppendLink(a, p, o, perm)
           \/ Prepend(a, p, o, perm)
           \/ Insert(a, p, o, perm)
           \/ Add(a, p, o, perm)
  BY DEF Entering, AppendLink, Prepend, Insert, Add, ReplaceNull
<1>2. /\ p \in Free /\ home' = [home EXCEPT ![p] = a] /\ save' = save
  BY <1>1 DEF NewLink
<1>3. SavedAlive' /\ SavedOnce' /\ ObjectsAlive'
  <2>1. \A b \in Lists : Cells(b) \subseteq Cells(b)'
    BY <1>2, LinkListAssumption DEF Cells, Free, HeapInv, TypeOK
  <2> QED
    BY <1>1, <1>2, <2>1, SavedKept, ObjectsEntered
<1> SUFFICES HeapInv'
  BY <1>3
<1>4. /\ first[a] # Null => first[a] \in Cells(a)
      /\ link[a] \in Cells(a) \cup {Null}
      /\ first[a] \in Links \cup {Null} /\ link[a] \in Links \cup {Null}
      /\ Cells(a) \subseteq Links
  BY DEF HeapInv, HeaderInv, TypeOK, Cells
<1>5. /\ first = [first EXCEPT ![a] = first[a]]
      /\ \A x : [first EXCEPT ![a] = x][a] = x /\ [link EXCEPT ![a] = x][a] = x
  BY DEF HeapInv, TypeOK
<1>6. CASE AppendLink(a, p, o, perm)
  <2>1. LinkAtEnd(a, p)
    BY <1>6 DEF AppendLink
  <2>2. RingInv' /\ next' \in [Links -> Links] /\ prev' \in [Links -> Links]
    BY <1>1, <2>1, EnteredAtEnd
  <2>3. OnlyOf(a) /\ first'[a] \in Cells(a) \cup {p} /\ link'[a] \in Cells(a) \cup {p, Null}
    BY <1>4, <1>5, <1>6 DEF AppendLink, OnlyOf
  <2> QED
    BY <1>1, <2>2, <2>3, Entered
<1>7. CASE Prepend(a, p, o, perm)
  <2>1. LinkAtEnd(a, p)
    BY <1>7 DEF Prepend
  <2>2. RingInv' /\ next' \in [Links -> Links] /\ prev' \in [Links -> Links]
    BY <1>1, <2>1, EnteredAtEnd
  <2>3. OnlyOf(a) /\ first'[a] \in Cells(a) \cup {p} /\ link'[a] \in Cells(a) \cup {p, Null}
    BY <1>4, <1>5, <1>7 DEF Prepend, OnlyOf
  <2> QED
    BY <1>1, <2>2, <2>3, Entered
<1>8. CASE Insert(a, p, o, perm)
  <2>1. CASE link[a] \in {Null, first[a]}
    <3>1. LinkAtEnd(a, p)
      BY <1>8, <2>1 DEF Insert
    <3>2. RingInv' /\ next' \in [Links -> Links] /\ prev' \in [Links -> Links]
      BY <1>1, <3>1, EnteredAtEnd
    <3>3. OnlyOf(a) /\ first'[a] = p /\ link'[a] = p
      BY <1>5, <1>8, <2>1 DEF Insert, OnlyOf
    <3> QED
      BY <1>1, <3>2, <3>3, Entered
  <2>2. CASE link[a] \notin {Null, first[a]}
    <3>1. link[a] \in Cells(a) /\ first[a] \in Cells(a) /\ AddBefore(link[a], p)
      BY <1>8, <2>2, <1>4 DEF Insert, HeapInv, HeaderInv
    <3>2. RingInv'
      BY <1>2, <3>1, LinkedBefore DEF HeapInv
    <3>3. next' \in [Links -> Links] /\ prev' \in [Links -> Links]
      BY <3>1, <1>4 DEF AddBefore, HeapInv, TypeOK
    <3>4. OnlyOf(a) /\ first'[a] = first[a] /\ link'[a] = p
      BY <1>5, <1>8, <2>2 DEF Insert, OnlyOf
    <3> QED
      BY <1>1, <3>1, <3>2, <3>3, <3>4, Entered
  <2> QED
    BY <2>1, <2>2
<1>9. CASE Add(a, p, o, perm)
  <2>1. CASE link[a] = Null
    <3>1. LinkAtEnd(a, p)
      BY <1>9, <2>1 DEF Add
    <3>2. RingInv' /\ next' \in [Links -> Links] /\ prev' \in [Links -> Links]
      BY <1>1, <3>1, EnteredAtEnd
    <3>3. OnlyOf(a) /\ first'[a] \in Cells(a) \cup {p} /\ link'[a] = p
      BY <1>4, <1>5, <1>9, <2>1 DEF Add, OnlyOf
    <3> QED
      BY <1>1, <3>2, <3>3, Entered
  <2>2. CASE link[a] # Null
    <3>1. link[a] \in Cells(a) /\ first[a] \in Cells(a) /\ AddAfter(link[a], p)
      BY <1>9, <2>2, <1>4 DEF Add, HeapInv, HeaderInv
    <3>2. RingInv'
      BY <1>2, <3>1, LinkedAfter DEF HeapInv
    <3>3. next' \in [Links -> Links] /\ prev' \in [Links -> Links]
      BY <3>1, <1>4 DEF AddAfter, HeapInv, TypeOK
    <3>4. OnlyOf(a) /\ first'[a] = first[a] /\ link'[a] = p
      BY <1>5, <1>9, <2>2 DEF Add, OnlyOf
    <3> QED
      BY <1>1, <3>1, <3>2, <3>3, <3>4, Entered
  <2> QED
    BY <2>1, <2>2
<1> QED
  BY <1>1, <1>6, <1>7, <1>8, <1>9

LEMMA ReplacingStep ==
  ASSUME IInv, NEW a \in Lists, Replacing(a) PROVE IInv'
<1> DEFINE p == link[a]
<1>1. PICK o \in Objects, perm \in BOOLEAN : Replace(a, o, perm)
  BY DEF Replacing
<1>0. p \in Links \ Free /\ object[p] \in Objects
  <2>1. p \in Cells(a) /\ a # Null
    BY <1>1, LinkListAssumption DEF Replace, IInv, HeapInv, HeaderInv
  <2> QED
    BY <2>1 DEF Free, Cells, IInv, ObjectsAlive
<1>2. /\ p \in Links \ Free /\ object[p] \in Objects
      /\ Free' = Free /\ UNCHANGED <<ring, home, first, link, list_size, save>>
      /\ \A x \in Links : object'[x] = (IF x = p THEN o ELSE object[x])
      /\ \A x \in Links : permanent'[x] = (IF x = p THEN perm ELSE permanent[x])
      /\ freed' = freed \cup Owned({p}) /\ o \notin freed'
      /\ \A q \in Holders(o) \ {p} : perm /\ permanent[q]
  BY <1>1, <1>0 DEF Replace, IInv, HeapInv, TypeOK, Free, Cells
<1>3. ~permanent[p] => Holders(object[p]) = {p}
  BY <1>2 DEF IInv, ObjectsAlive
<1>4. Owned({p}) = IF permanent[p] THEN {} ELSE {object[p]}
  BY DEF Owned
<1>5. TypeOK'
  BY <1>1, <1>2, <1>4 DEF Replace, IInv, HeapInv, TypeOK, ring
<1>6. HeapInv'
  <2>1. \A b \in Lists : first'[b] = first[b] /\ link'[b] = link[b]
    BY <1>2
  <2>2. \A b \in Lists : first[b] \in Cells(b) \cup {Null} /\ link[b] \in Cells(b) \cup {Null}
    BY DEF IInv, HeapInv, HeaderInv
  <2> QED
    BY <1>2, <1>5, <2>1, <2>2, Unmoved DEF IInv
<1>7. SavedAlive' /\ SavedOnce'
  BY <1>2 DEF IInv, SavedAlive, SavedOnce, Cells
<1>8. ASSUME NEW x \in Links \ Free'
      PROVE  object'[x] \in Objects \ freed' /\ (~permanent'[x] => Holders(object[x])' = {x})
  <2>1. x \in Links \ Free
    BY <1>2
  <2>2. CASE x = p
    <3>1. ~perm => Holders(o) \subseteq {p}
      BY <1>2
    <3>2. Holders(object[x])' = Holders(o) \cup {p}
      BY <2>2, <1>2 DEF Holders
    <3> QED
      BY <2>2, <3>1, <3>2, <1>2
  <2>3. CASE x # p
    <3>1. object'[x] = object[x] /\ permanent'[x] = permanent[x]
      BY <2>3, <1>2
    <3>2. object[x] \in Objects \ freed /\ (~permanent[x] => Holders(object[x]) = {x})
      BY <2>1 DEF IInv, ObjectsAlive
    <3>3. x \in Holders(object[x]) /\ x \in Holders(object[x])'
      BY <2>1, <1>2 DEF Holders
    <3>4. object[x] \notin freed'
      BY <1>2, <1>3, <1>4, <2>3, <3>2, <3>3
    <3>5. ~permanent[x] => object[x] # o
      BY <1>2, <2>3, <3>3
    <3>6. object[x] # o => Holders(object[x])' \subseteq Holders(object[x])
      BY <3>1, <1>2 DEF Holders
    <3> QED
      BY <3>1, <3>2, <3>3, <3>4, <3>5, <3>6
  <2> QED
    BY <2>2, <2>3
<1> QED
  BY <1>6, <1>7, <1>8 DEF IInv, ObjectsAlive

\* The one entry of the removed link p is cleared.
LEMMA Forgotten ==
  ASSUME IInv, NEW a \in Lists, NEW p \in Links
  PROVE  LET t == ForgetSaved(save[a], p)
         IN  /\ DOMAIN t = DOMAIN save[a]
             /\ \A i \in DOMAIN t : t[i] # p /\ t[i] \in {save[a][i], Null}
<1> DEFINE s == save[a]
           hits == {i \in DOMAIN s : s[i] = p}
           k == CHOOSE i \in hits : \A j \in hits : j <= i
           t == ForgetSaved(s, p)
<1>1. s \in Seq(Links \cup {Null}) /\ p # Null
  BY LinkListAssumption DEF IInv, HeapInv, TypeOK
<1>2. CASE hits = {}
  BY <1>1, <1>2 DEF ForgetSaved
<1>3. CASE hits # {}
  <2>1. PICK h \in DOMAIN s : s[h] = p
    BY <1>3
  <2>2. hits = {h}
    BY <1>1, <2>1 DEF IInv, SavedOnce
  <2>3. h \in Int
    BY <1>1, <2>1
  <2>4. k = h
    <3>1. h \in hits /\ \A j \in hits : j <= h
      BY <2>2, <2>3
    <3>2. k \in hits
      BY <3>1
    <3> QED
      BY <2>2, <3>2
  <2>5. t = [s EXCEPT ![h] = Null]
    BY <1>3, <2>4 DEF ForgetSaved
  <2>6. \A i \in DOMAIN s : i # h => s[i] # p
    BY <2>2
  <2> HIDE DEF t, hits, k, s
  <2>7. s \in [1 .. Len(s) -> Links \cup {Null}]
    BY <1>1
  <2>8. DOMAIN t = DOMAIN s /\ \A i \in DOMAIN s : t[i] = IF i = h THEN Null ELSE s[i]
    BY <2>5, <2>7
  <2>9. \A i \in DOMAIN t : t[i] # p /\ t[i] \in {s[i], Null}
    BY <1>1, <2>6, <2>8
  <2> QED
    BY <2>8, <2>9 DEF t, s
<1> QED
  BY <1>2, <1>3

\* Taking the current link out of a list.
LEMMA RemoveLinkStep ==
  ASSUME IInv, NEW a \in Lists, NEW dir \in {0, 1}, RemoveLink(a, dir) PROVE IInv'
<1> DEFINE p == link[a]
<1> USE DEF IInv, HeapInv
<1>1. /\ p \in Cells(a) /\ p \in Links \ Free /\ home[p] = a /\ a # Null
      /\ first[a] \in Cells(a) /\ Cells(a) \subseteq Links
      /\ next[p] \in Cells(a) /\ prev[p] \in Cells(a) /\ next[prev[p]] = p
  <2>1. p \in Cells(a) /\ a # Null /\ first[a] \in Cells(a)
    BY LinkListAssumption DEF RemoveLink, HeaderInv
  <2>2. p \in Links /\ home[p] = a
    BY <2>1 DEF Cells
  <2>3. next[p] \in Links /\ prev[p] \in Links /\ next[prev[p]] = p
    BY <2>2 DEF TypeOK, RingInv, TwoWay
  <2>4. home[next[p]] = a /\ home[prev[p]] = a
    BY <2>2, <2>3 DEF RingInv
  <2> QED
    BY <2>1, <2>2, <2>3, <2>4 DEF Cells, Free
<1>2. /\ Unlink(p) /\ DeleteLinks({p})
      /\ home' = [x \in Links |-> IF x \in {p} THEN Null ELSE home[x]]
      /\ save' = [save EXCEPT ![a] = ForgetSaved(@, p)]
      /\ list_size' = [list_size EXCEPT ![a] = @ - 1]
  BY DEF RemoveLink, DeleteLinks
<1>3. RingInv'
  BY <1>1, <1>2, Unlinked
<1>4. ObjectsAlive' /\ freed' \in SUBSET Objects
  BY <1>1, <1>2, ObjectsDeleted
<1>5. /\ Cells(a)' = Cells(a) \ {p}
      /\ \A b \in Lists : b # a => Cells(b)' = Cells(b)
  BY <1>1, <1>2, LinkListAssumption DEF Cells
<1>6. IsFiniteSet(Cells(a))
  BY <1>1, FS_Subset, LinkListAssumption
<1>7. Cardinality(Cells(a)') = Cardinality(Cells(a)) - 1
  BY <1>1, <1>5, <1>6, FS_RemoveElement
<1>8. /\ Cardinality(Cells(a)) = list_size[a] /\ list_size[a] \in Nat
      /\ (list_size[a] = 1 <=> Cells(a)' = {})
  <2>1. Cardinality(Cells(a)) = list_size[a] /\ list_size[a] \in Nat
    BY DEF HeaderInv, TypeOK
  <2>2. IsFiniteSet(Cells(a)')
    BY <1>5, <1>6, FS_RemoveElement
  <2>3. Cardinality(Cells(a)') = 0 <=> Cells(a)' = {}
    BY <2>2, FS_EmptySet
  <2> QED
    BY <2>1, <2>3, <1>7
<1>9. ASSUME list_size[a] # 1 PROVE next[p] # p /\ prev[p] # p
  <2>1. ASSUME next[p] = p PROVE FALSE
    <3>1. Closed({p}) /\ {p} \in SUBSET Cells(a)
      BY <2>1, <1>1 DEF Closed
    <3>2. {p} = Cells(a)
      BY <3>1 DEF RingInv, OneRing
    <3> QED
      BY <3>2, <1>5, <1>8, <1>9
  <2> QED
    BY <2>1, <1>1
<1>10. /\ OnlyOf(a)
       /\ first'[a] \in Cells(a)' \cup {Null} /\ link'[a] \in Cells(a)' \cup {Null}
       /\ (first'[a] = Null => Cells(a)' = {})
  <2>1. \A x : [first EXCEPT ![a] = x][a] = x /\ [link EXCEPT ![a] = x][a] = x
    BY DEF TypeOK
  <2>2. CASE list_size[a] = 1
    <3>1. first' = [first EXCEPT ![a] = Null] /\ link' = [link EXCEPT ![a] = Null]
      BY <2>2 DEF RemoveLink
    <3> QED
      BY <2>1, <2>2, <3>1, <1>8 DEF OnlyOf
  <2>3. CASE list_size[a] # 1
    <3>1. first' = [first EXCEPT ![a] = FirstWithout(a, p)] /\ link' = [link EXCEPT ![a] = Beside(a, p, dir)]
      BY <2>3 DEF RemoveLink
    <3>2. FirstWithout(a, p) \in Cells(a)' /\ Beside(a, p, dir) \in Cells(a)' \cup {Null}
      BY <2>3, <1>1, <1>5, <1>9 DEF FirstWithout, Beside
    <3>3. FirstWithout(a, p) # Null
      BY <3>2, <1>1, <1>5, LinkListAssumption
    <3> QED
      BY <2>1, <3>1, <3>2, <3>3 DEF OnlyOf
  <2> QED
    BY <2>2, <2>3
<1>11. HeaderInv'
  <2>1. ASSUME NEW b \in Lists, b # a
        PROVE  /\ first'[b] = first[b] /\ link'[b] = link[b] /\ list_size'[b] = list_size[b]
               /\ Cells(b)' = Cells(b)
    BY <2>1, <1>2, <1>5, <1>10 DEF TypeOK, OnlyOf
  <2>2. list_size'[a] = list_size[a] - 1
    BY <1>2 DEF TypeOK
  <2> QED
    BY <1>7, <1>8, <1>10, <2>1, <2>2 DEF HeaderInv
<1>12. TypeOK'
  <2>1. next' \in [Links -> Links] /\ prev' \in [Links -> Links]
    BY <1>1, <1>2 DEF TypeOK, Unlink
  <2>2. /\ object' \in [Links -> Objects \cup {Null}] /\ permanent' \in [Links -> BOOLEAN]
        /\ home' \in [Links -> Lists \cup {Null}]
    BY <1>2 DEF TypeOK, DeleteLinks
  <2>3. first' \in [Lists -> Links \cup {Null}] /\ link' \in [Lists -> Links \cup {Null}]
    <3>1. first'[a] \in Links \cup {Null} /\ link'[a] \in Links \cup {Null}
      BY <1>1, <1>5, <1>10
    <3> QED
      BY <3>1, <1>10 DEF TypeOK, OnlyOf
  <2>4. list_size' \in [Lists -> Nat]
    <3>1. IsFiniteSet(Cells(a)')
      BY <1>5, <1>6, FS_RemoveElement
    <3>2. Cardinality(Cells(a)') \in Nat
      BY <3>1, FS_CardinalityType
    <3>3. list_size[a] - 1 \in Nat
      BY <1>7, <1>8, <3>2
    <3> QED
      BY <1>2, <3>3 DEF TypeOK
  <2>5. save' \in [Lists -> Seq(Links \cup {Null})]
    <3>1. ForgetSaved(save[a], p) \in Seq(Links \cup {Null})
      BY <1>1, SavedType
    <3> QED
      BY <1>2, <3>1 DEF TypeOK
  <2> QED
    BY <2>1, <2>2, <2>3, <2>4, <2>5, <1>4 DEF TypeOK
<1>13. SavedAlive' /\ SavedOnce'
  <2> DEFINE t == ForgetSaved(save[a], p)
  <2>1. DOMAIN t = DOMAIN save[a] /\ \A i \in DOMAIN t : t[i] # p /\ t[i] \in {save[a][i], Null}
    BY <1>1, Forgotten
  <2>2. \A b \in Lists : save'[b] = IF b = a THEN t ELSE save[b]
    BY <1>2 DEF TypeOK
  <2> HIDE DEF t
  <2>3. SavedAlive'
    BY <2>1, <2>2, <1>5 DEF SavedAlive
  <2>4. SavedOnce'
    BY <2>1, <2>2 DEF SavedOnce
  <2> QED
    BY <2>3, <2>4
<1> QED
  BY <1>3, <1>4, <1>11, <1>12, <1>13

LEMMA EmptyListStep ==
  ASSUME IInv, NEW a \in Lists, EmptyList(a) PROVE IInv'
<1> USE DEF IInv, HeapInv
<1>1. /\ a # Null /\ Cells(a) \in SUBSET (Links \ Free) /\ DeleteLinks(Cells(a))
      /\ home' = [x \in Links |-> IF x \in Cells(a) THEN Null ELSE home[x]]
      /\ first' = [first EXCEPT ![a] = Null] /\ link' = [link EXCEPT ![a] = Null]
      /\ list_size' = [list_size EXCEPT ![a] = 0] /\ save' = [save EXCEPT ![a] = << >>]
      /\ next' = [x \in Links |-> IF home[x] = a THEN x ELSE next[x]]
      /\ prev' = [x \in Links |-> IF home[x] = a THEN x ELSE prev[x]]
  BY LinkListAssumption DEF EmptyList, DeleteLinks, Cells, Free
<1>2. RingInv'
  BY <1>1, Emptied
<1>3. ObjectsAlive' /\ freed' \in SUBSET Objects
  BY <1>1, ObjectsDeleted
<1>4. Cells(a)' = {} /\ \A b \in Lists : b # a => Cells(b)' = Cells(b)
  BY <1>1, LinkListAssumption DEF Cells
<1>5. /\ first'[a] = Null /\ link'[a] = Null /\ list_size'[a] = 0 /\ save'[a] = << >>
      /\ \A b \in Lists : b # a => /\ first'[b] = first[b] /\ link'[b] = link[b]
                                   /\ list_size'[b] = list_size[b] /\ save'[b] = save[b]
  BY <1>1 DEF TypeOK
<1>6. HeaderInv'
  <2>1. Cardinality(Cells(a)') = 0
    BY <1>4, FS_EmptySet
  <2> QED
    BY <1>4, <1>5, <2>1 DEF HeaderInv
<1>7. TypeOK'
  <2>1. next' \in [Links -> Links] /\ prev' \in [Links -> Links]
    BY <1>1 DEF TypeOK
  <2>2. /\ object' \in [Links -> Objects \cup {Null}] /\ permanent' \in [Links -> BOOLEAN]
        /\ home' \in [Links -> Lists \cup {Null}]
    BY <1>1 DEF TypeOK, DeleteLinks
  <2>3. /\ first' \in [Lists -> Links \cup {Null}] /\ link' \in [Lists -> Links \cup {Null}]
        /\ list_size' \in [Lists -> Nat] /\ save' \in [Lists -> Seq(Links \cup {Null})]
    BY <1>1 DEF TypeOK
  <2> QED
    BY <2>1, <2>2, <2>3, <1>3 DEF TypeOK
<1>8. SavedAlive' /\ SavedOnce'
  BY <1>4, <1>5 DEF SavedAlive, SavedOnce
<1> QED
  BY <1>2, <1>3, <1>6, <1>7, <1>8

\* The links of L become links of a.
LEMMA TransferStep ==
  ASSUME IInv, NEW a \in Lists, NEW L \in Lists, Transfer(a, L) PROVE IInv'
<1> USE DEF IInv, HeapInv
<1> DEFINE f == first[L]
           at == IF link[a] = Null THEN prev[first[a]] ELSE link[a]
<1>1. /\ a # L /\ f # Null /\ a # Null /\ L # Null
      /\ link' = [link EXCEPT ![a] = prev[f], ![L] = Null]
      /\ list_size' = [list_size EXCEPT ![a] = @ + list_size[L], ![L] = 0]
      /\ save' = [save EXCEPT ![L] = << >>]
      /\ home' = [x \in Links |-> IF home[x] = L THEN a ELSE home[x]]
      /\ UNCHANGED entries
  BY LinkListAssumption DEF Transfer
<1>2. f \in Cells(L) /\ f \in Links /\ prev[f] \in Links /\ prev[f] \in Cells(L)
  <2>1. f \in Cells(L) /\ f \in Links
    BY <1>1 DEF HeaderInv, Cells
  <2>2. prev[f] \in Links /\ next[prev[f]] = f
    BY <2>1 DEF TypeOK, RingInv, TwoWay
  <2>3. home[prev[f]] = L
    BY <2>1, <2>2 DEF RingInv, Cells
  <2> QED
    BY <2>1, <2>2, <2>3 DEF Cells
<1>3. /\ Cells(a)' = Cells(a) \cup Cells(L) /\ Cells(L)' = {} /\ Free' = Free
      /\ \A b \in Lists : b # a /\ b # L => Cells(b)' = Cells(b)
  BY <1>1 DEF Cells, Free
<1> DEFINE Heads == /\ next' \in [Links -> Links] /\ prev' \in [Links -> Links]
                    /\ first' \in [Lists -> Links \cup {Null}]
                    /\ first'[a] \in Cells(a)' /\ first'[L] = Null
                    /\ \A b \in Lists : b # a /\ b # L => first'[b] = first[b]
<1>4. ASSUME first[a] = Null PROVE RingInv' /\ Heads
  <2>1. Cells(a) = {} /\ UNCHANGED ring /\ first' = [first EXCEPT ![a] = f, ![L] = Null]
    BY <1>4 DEF HeaderInv, Transfer
  <2> USE DEF ring
  <2>2. \A x \in Links : home'[x] = IF home[x] = L THEN a ELSE home[x]
    BY <1>1
  <2>3. ASSUME NEW x \in Links PROVE TwoWay(x)' /\ (home[next[x]] = home[x])'
    BY <2>1, <2>2 DEF TypeOK, RingInv, TwoWay
  <2>4. ASSUME NEW x \in Free' PROVE (next[x] = x)'
    BY <1>3, <2>1 DEF RingInv
  <2>5. ASSUME NEW b \in Lists, NEW S \in SUBSET Cells(b)', S # {}, Closed(S)'
        PROVE  S = Cells(b)'
    <3>1. Closed(S)
      BY <2>1, <2>5 DEF Closed
    <3>2. PICK c \in Lists : Cells(b)' = Cells(c)
      BY <1>3, <2>1, <2>5
    <3> QED
      BY <3>1, <3>2, <2>5 DEF RingInv, OneRing
  <2>6. RingInv'
    BY <2>3, <2>4, <2>5 DEF RingInv, OneRing
  <2>7. first'[a] = f /\ first'[L] = Null /\ \A b \in Lists : b # a /\ b # L => first'[b] = first[b]
    BY <1>1, <2>1 DEF TypeOK
  <2>8. /\ next' \in [Links -> Links] /\ prev' \in [Links -> Links]
        /\ first' \in [Lists -> Links \cup {Null}]
    BY <1>2, <2>1 DEF TypeOK
  <2> QED
    BY <1>2, <1>3, <2>6, <2>7, <2>8
<1>5. ASSUME first[a] # Null PROVE RingInv' /\ Heads
  <2>1. at \in Cells(a) /\ first[a] \in Cells(a)
    <3>1. first[a] \in Cells(a) /\ first[a] \in Links
      BY <1>5 DEF HeaderInv, Cells
    <3>2. prev[first[a]] \in Links /\ next[prev[first[a]]] = first[a]
      BY <3>1 DEF TypeOK, RingInv, TwoWay
    <3>3. home[prev[first[a]]] = a
      BY <3>1, <3>2 DEF RingInv, Cells
    <3> QED
      BY <3>1, <3>2, <3>3 DEF HeaderInv, Cells
  <2>2. /\ prev' = [prev EXCEPT ![f] = at, ![next[at]] = prev[f]]
        /\ next' = [next EXCEPT ![prev[f]] = next[at], ![at] = f]
        /\ first' = [first EXCEPT ![L] = Null]
    BY <1>5 DEF Transfer
  <2> HIDE DEF at, f
  <2>3. RingInv'
    BY <1>1, <1>2, <2>1, <2>2, Spliced
  <2>4. next[at] \in Links /\ at \in Links
    BY <2>1 DEF TypeOK, Cells
  <2>5. next' \in [Links -> Links] /\ prev' \in [Links -> Links]
    BY <1>2, <2>2, <2>4 DEF TypeOK
  <2>6. first' \in [Lists -> Links \cup {Null}]
    BY <2>2 DEF TypeOK
  <2>7. first'[L] = Null /\ \A b \in Lists : b # L => first'[b] = first[b]
    BY <2>2 DEF TypeOK
  <2> QED
    BY <1>1, <1>3, <2>1, <2>3, <2>5, <2>6, <2>7
<1>6. RingInv' /\ Heads
  BY <1>4, <1>5
<1>7. /\ link'[a] = prev[f] /\ link'[L] = Null
      /\ list_size'[a] = list_size[a] + list_size[L] /\ list_size'[L] = 0
      /\ save'[L] = << >> /\ \A b \in Lists : b # L => save'[b] = save[b]
      /\ \A b \in Lists : b # a /\ b # L => link'[b] = link[b] /\ list_size'[b] = list_size[b]
  BY <1>1 DEF TypeOK
<1>8. Cardinality(Cells(a)') = list_size'[a] /\ Cardinality(Cells(L)') = 0
  <2>1. IsFiniteSet(Cells(a)) /\ IsFiniteSet(Cells(L)) /\ Cells(a) \cap Cells(L) = {}
    BY <1>1, FS_Subset, LinkListAssumption DEF Cells
  <2>2. Cardinality(Cells(a) \cup Cells(L))
          = Cardinality(Cells(a)) + Cardinality(Cells(L)) - Cardinality({})
    BY <2>1, FS_Union
  <2>3. Cardinality({}) = 0 /\ Cardinality(Cells(a)) \in Nat /\ Cardinality(Cells(L)) \in Nat
    BY <2>1, FS_EmptySet, FS_CardinalityType
  <2>4. Cardinality(Cells(a)) = list_size[a] /\ Cardinality(Cells(L)) = list_size[L]
    BY DEF HeaderInv
  <2> QED
    BY <1>3, <1>7, <2>2, <2>3, <2>4
<1>9. HeaderInv'
  <2>1. ASSUME NEW b \in Lists, b # a, b # L
        PROVE  /\ first'[b] = first[b] /\ link'[b] = link[b] /\ list_size'[b] = list_size[b]
               /\ Cells(b)' = Cells(b)
    BY <2>1, <1>3, <1>6, <1>7
  <2>2. link'[a] \in Cells(a)'
    BY <1>2, <1>3, <1>7
  <2>3. first'[a] # Null
    BY <1>1, <1>2, <1>3, <1>6, LinkListAssumption DEF Cells
  <2> HIDE DEF f, at
  <2> QED
    BY <1>3, <1>6, <1>7, <1>8, <2>1, <2>2, <2>3 DEF HeaderInv
<1>10. TypeOK'
  <2>1. link' \in [Lists -> Links \cup {Null}]
    BY <1>1, <1>2 DEF TypeOK
  <2>2. list_size' \in [Lists -> Nat] /\ save' \in [Lists -> Seq(Links \cup {Null})]
    <3>1. list_size[a] + list_size[L] \in Nat
      BY DEF TypeOK
    <3>2. list_size' \in [Lists -> Nat]
      <4>2. list_size' = [b \in Lists |-> IF b = L THEN 0
                                         ELSE IF b = a THEN list_size[a] + list_size[L]
                                         ELSE list_size[b]]
        BY <1>1 DEF TypeOK
      <4> QED
        BY <3>1, <4>2 DEF TypeOK
    <3>3. save' \in [Lists -> Seq(Links \cup {Null})]
      BY <1>1 DEF TypeOK
    <3> QED
      BY <3>2, <3>3
  <2>3. home' \in [Links -> Lists \cup {Null}]
    BY <1>1 DEF TypeOK
  <2> QED
    BY <1>1, <1>6, <2>1, <2>2, <2>3 DEF TypeOK, entries
<1>11. SavedAlive' /\ SavedOnce'
  BY <1>3, <1>7 DEF SavedAlive, SavedOnce
<1>12. ObjectsAlive'
  BY <1>1, <1>3, ObjectsKept
<1> QED
  BY <1>6, <1>9, <1>10, <1>11, <1>12

LEMMA RemovingStep ==
  ASSUME IInv, NEW a \in Lists, Removing(a) PROVE IInv'
BY RemoveLinkStep, EmptyListStep, TransferStep DEF Removing

\* Calls that only move the cursor or the mark of the first link.
LEMMA MovingStep ==
  ASSUME IInv, NEW a \in Lists, Moving(a) PROVE IInv'
<1> USE DEF IInv, HeapInv
<1>1. UNCHANGED <<ring, entries, list_size, save, home>>
  BY DEF Moving, Start, End, Reset, Next1, Prev1, Forward2, Backward2, MoveTo, SetFirst, ring, entries
<1>2. ASSUME NEW b \in Lists, NEW x \in Cells(b)
      PROVE  next[x] \in Cells(b) /\ prev[x] \in Cells(b)
  <2>1. x \in Links /\ next[x] \in Links /\ prev[x] \in Links /\ next[prev[x]] = x
    BY DEF Cells, TypeOK, RingInv, TwoWay
  <2>2. home[next[x]] = home[x] /\ home[prev[x]] = home[x]
    BY <2>1 DEF RingInv
  <2> QED
    BY <2>1, <2>2 DEF Cells
<1>3. /\ first[a] \in Cells(a) \cup {Null} /\ link[a] \in Cells(a) \cup {Null}
      /\ (link[a] # Null => first[a] # Null)
  BY DEF HeaderInv
<1>4. \/ first' = first /\ \E p \in Cells(a) \cup {Null} : link' = [link EXCEPT ![a] = p]
      \/ link' = link /\ link[a] # Null /\ first' = [first EXCEPT ![a] = link[a]]
  <2>1. CASE SetFirst(a)
    BY <2>1 DEF SetFirst
  <2>2. ASSUME NEW p, MoveTo(a, p), p \in Cells(a) \cup {Null}
        PROVE  first' = first /\ \E q \in Cells(a) \cup {Null} : link' = [link EXCEPT ![a] = q]
    BY <2>2 DEF MoveTo
  <2>3. CASE Start(a) \/ End(a) \/ Reset(a)
    BY <2>2, <2>3, <1>2, <1>3 DEF Start, End, Reset
  <2>4. CASE Next1(a) \/ Prev1(a)
    <3>1. link[a] # Null /\ \E dir \in {0, 1} : MoveTo(a, Beside(a, link[a], dir))
      BY <2>4 DEF Next1, Prev1
    <3>2. \A dir \in {0, 1} : Beside(a, link[a], dir) \in Cells(a) \cup {Null}
      BY <3>1, <1>2, <1>3 DEF Beside
    <3> QED
      BY <3>1, <3>2, <2>2
  <2>5. ASSUME NEW force \in BOOLEAN, Forward2(a, force) \/ Backward2(a, force)
        PROVE  first' = first /\ \E q \in Cells(a) \cup {Null} : link' = [link EXCEPT ![a] = q]
    <3>1. link[a] \in Cells(a)
      BY <2>5, <1>3 DEF Forward2, Backward2
    <3>2. /\ next[link[a]] \in Cells(a) /\ next[next[link[a]]] \in Cells(a)
          /\ prev[link[a]] \in Cells(a) /\ prev[prev[link[a]]] \in Cells(a)
      BY <3>1, <1>2
    <3> QED
      BY <3>2, <2>2, <2>5 DEF Forward2, Backward2
  <2> QED
    BY <2>1, <2>3, <2>4, <2>5 DEF Moving
<1>5. /\ \A b \in Lists : first'[b] \in Cells(b) \cup {Null} /\ (first'[b] = Null <=> first[b] = Null)
      /\ \A b \in Lists : link'[b] \in Cells(b) \cup {Null}
      /\ first' \in [Lists -> Links \cup {Null}] /\ link' \in [Lists -> Links \cup {Null}]
  <2>1. Cells(a) \subseteq Links
    BY DEF Cells
  <2>2. \A b \in Lists : first[b] \in Cells(b) \cup {Null} /\ link[b] \in Cells(b) \cup {Null}
    BY DEF HeaderInv
  <2>3. first \in [Lists -> Links \cup {Null}] /\ link \in [Lists -> Links \cup {Null}]
    BY DEF TypeOK
  <2>4. CASE first' = first /\ \E p \in Cells(a) \cup {Null} : link' = [link EXCEPT ![a] = p]
    BY <2>1, <2>2, <2>3, <2>4
  <2>5. CASE link' = link /\ link[a] # Null /\ first' = [first EXCEPT ![a] = link[a]]
    BY <1>3, <2>1, <2>2, <2>3, <2>5
  <2> QED
    BY <1>4, <2>4, <2>5
<1>6. TypeOK'
  BY <1>1, <1>5 DEF TypeOK, ring, entries
<1>7. HeapInv'
  BY <1>1, <1>5, <1>6, Unmoved
<1>8. SavedAlive' /\ SavedOnce' /\ ObjectsAlive'
  <2>1. \A b \in Lists : Cells(b)' = Cells(b)
    BY <1>1 DEF Cells
  <2>2. Free' = Free
    BY <1>1 DEF Free, Cells
  <2> QED
    BY <1>1, <2>1, <2>2, SavedKept, ObjectsKept
<1> QED
  BY <1>7, <1>8

\* The entries of a longer stack.
LEMMA Appended ==
  ASSUME NEW S, NEW s \in Seq(S), NEW e \in S
  PROVE  /\ Append(s, e) \in Seq(S)
         /\ \A i \in DOMAIN Append(s, e) :
              \/ i \in DOMAIN s /\ i # Len(s) + 1 /\ Append(s, e)[i] = s[i]
              \/ i = Len(s) + 1 /\ Append(s, e)[i] = e
<1>1. /\ Len(s) \in Nat /\ DOMAIN s = 1 .. Len(s)
      /\ Append(s, e) \in Seq(S) /\ DOMAIN Append(s, e) = 1 .. Len(s) + 1
  OBVIOUS
<1>2. Append(s, e)[Len(s) + 1] = e
  OBVIOUS
<1>3. \A i \in 1 .. Len(s) : Append(s, e)[i] = s[i]
  OBVIOUS
<1>4. \A i \in 1 .. Len(s) + 1 : i = Len(s) + 1 \/ i \in 1 .. Len(s)
  BY <1>1
<1>5. \A i \in 1 .. Len(s) : i # Len(s) + 1
  BY <1>1
<1> QED
  BY <1>1, <1>2, <1>3, <1>4, <1>5

\* Calls on the stack of saved cursors.  A link is saved once (SaveTwice).
LEMMA SavingStep ==
  ASSUME IInv, ~SaveTwice, NEW a \in Lists, Saving(a) PROVE IInv'
<1> USE DEF IInv, HeapInv
<1> DEFINE s == save[a]
           n == Len(s)
<1>1. UNCHANGED <<ring, home, first, list_size, object, freed>>
  BY DEF Saving, Save, SaveAtEnd, Restore, PopSave, EmptySave, SetPermanent, ring, entries
<1>2. \A b \in Lists : Cells(b)' = Cells(b)
  BY <1>1 DEF Cells
<1>3. /\ s \in Seq(Links \cup {Null}) /\ n \in Nat
      /\ link[a] \in Links \cup {Null} /\ link[a] \in Cells(a) \cup {Null}
  BY DEF TypeOK, HeaderInv
<1>4. ASSUME NEW t \in Seq(Links \cup {Null}), save' = [save EXCEPT ![a] = t],
             \A i \in DOMAIN t : t[i] \in Cells(a) \cup {Null},
             \A i, j \in DOMAIN t : t[i] = t[j] /\ t[i] # Null => i = j
      PROVE  save' \in [Lists -> Seq(Links \cup {Null})] /\ SavedAlive' /\ SavedOnce'
  <2>1. \A b \in Lists : save'[b] = IF b = a THEN t ELSE save[b]
    BY <1>4 DEF TypeOK
  <2>2. SavedAlive' /\ SavedOnce'
    BY <2>1, <1>2, <1>4 DEF SavedAlive, SavedOnce
  <2> QED
    BY <2>2, <1>4 DEF TypeOK
<1>5. save' \in [Lists -> Seq(Links \cup {Null})] /\ SavedAlive' /\ SavedOnce'
  <2>1. CASE Save(a)
    <3> DEFINE t == Append(s, link[a])
    <3>1. save' = [save EXCEPT ![a] = t]
      BY <2>1 DEF Save
    <3>2. /\ t \in Seq(Links \cup {Null})
          /\ \A i \in DOMAIN t : (i \in DOMAIN s /\ t[i] = s[i]) \/ (i = n + 1 /\ t[i] = link[a])
      BY <1>3, Appended
    <3>3. link[a] = Null \/ \A i \in DOMAIN s : s[i] # link[a]
      BY <2>1 DEF Save, MaySave
    <3> HIDE DEF t
    <3>4. \A i \in DOMAIN t : t[i] \in Cells(a) \cup {Null}
      BY <3>2, <1>3 DEF SavedAlive
    <3>5. \A i, j \in DOMAIN t : t[i] = t[j] /\ t[i] # Null => i = j
      BY <3>2, <3>3 DEF SavedOnce
    <3> QED
      BY <3>1, <3>2, <3>4, <3>5, <1>4
  <2>2. CASE SaveAtEnd(a) /\ n = 0
    <3> DEFINE t == <<link[a]>>
    <3>1. save' = [save EXCEPT ![a] = t]
      BY <2>2 DEF SaveAtEnd
    <3>2. t \in Seq(Links \cup {Null}) /\ \A i \in DOMAIN t : i = 1 /\ t[i] = link[a]
      BY <1>3
    <3> HIDE DEF t
    <3> QED
      BY <3>1, <3>2, <1>3, <1>4
  <2>6. CASE SaveAtEnd(a) /\ n # 0
    <3> DEFINE u == Append(s, s[n])
               t == [u EXCEPT ![n] = link[a]]
    <3>1. save' = [save EXCEPT ![a] = t]
      BY <2>6 DEF SaveAtEnd
    <3>2. n \in DOMAIN s /\ DOMAIN s = 1 .. n /\ s[n] \in Links \cup {Null}
      BY <1>3, <2>6
    <3>3. /\ u \in Seq(Links \cup {Null})
          /\ \A i \in DOMAIN u : (i \in DOMAIN s /\ i # n + 1 /\ u[i] = s[i]) \/ (i = n + 1 /\ u[i] = s[n])
      BY <1>3, <3>2, Appended
    <3>4. link[a] = Null \/ \A i \in DOMAIN s : s[i] # link[a]
      BY <2>6 DEF SaveAtEnd, MaySave
    <3> HIDE DEF u
    <3>5. u \in [1 .. Len(u) -> Links \cup {Null}] /\ Len(u) \in Nat
      BY <3>3
    <3>6. t \in [1 .. Len(u) -> Links \cup {Null}]
      BY <1>3, <3>5
    <3>7. t \in Seq(Links \cup {Null})
      BY <3>5, <3>6
    <3>8. DOMAIN t = DOMAIN u /\ \A i \in DOMAIN u : t[i] = IF i = n THEN link[a] ELSE u[i]
      BY <3>5
    <3> HIDE DEF t, s, n
    <3>9. \A i \in DOMAIN t : \/ i = n /\ t[i] = link[a]
                              \/ i \in DOMAIN s /\ i # n /\ i # n + 1 /\ t[i] = s[i]
                              \/ i = n + 1 /\ i # n /\ t[i] = s[n]
      BY <1>3, <3>3, <3>8
    <3>10. s = save[a]
      BY DEF s
    <3>11. \A i \in DOMAIN t : t[i] \in Cells(a) \cup {Null}
      BY <1>3, <3>2, <3>9, <3>10 DEF SavedAlive
    <3>12. \A i, j \in DOMAIN t : t[i] = t[j] /\ t[i] # Null => i = j
      <4>1. \A i, j \in DOMAIN s : s[i] = s[j] /\ s[i] # Null => i = j
        BY <3>10 DEF SavedOnce
      <4> QED
        BY <3>2, <3>4, <3>9, <4>1
    <3> QED
      BY <3>1, <3>7, <3>11, <3>12, <1>4
  <2>3. CASE Restore(a) \/ PopSave(a)
    <3>1. save' = [save EXCEPT ![a] = SubSeq(@, 1, Len(save[a]) - 1)]
      BY <2>3 DEF Restore, PopSave
    <3>2. SavedAlive' /\ SavedOnce'
      BY <1>1, <3>1, SavedPopped
    <3> QED
      BY <3>1, <3>2, SavedType DEF TypeOK
  <2>4. CASE EmptySave(a)
    <3> DEFINE t == << >>
    <3>1. t \in Seq(Links \cup {Null}) /\ DOMAIN t = {}
      OBVIOUS
    <3>2. save' = [save EXCEPT ![a] = t]
      BY <2>4 DEF EmptySave
    <3> HIDE DEF t
    <3> QED
      BY <3>1, <3>2, <1>4
  <2>5. CASE \E perm \in BOOLEAN : SetPermanent(a, perm)
    <3>1. save' = save
      BY <2>5 DEF SetPermanent
    <3> QED
      BY <3>1, <1>2, SavedKept DEF TypeOK
  <2> QED
    BY <2>1, <2>2, <2>3, <2>4, <2>5, <2>6 DEF Saving
<1>6. /\ \A b \in Lists : link'[b] \in Cells(b) \cup {Null}
      /\ link' \in [Lists -> Links \cup {Null}]
  <2>1. CASE Restore(a)
    <3> DEFINE q == IF n = 0 THEN Null ELSE s[n]
    <3>1. link' = [link EXCEPT ![a] = q]
      BY <2>1 DEF Restore
    <3>2. q \in Cells(a) \cup {Null} /\ q \in Links \cup {Null}
      BY <1>3 DEF SavedAlive
    <3> HIDE DEF q
    <3> QED
      BY <3>1, <3>2 DEF TypeOK, HeaderInv
  <2>2. CASE link' = link
    BY <2>2 DEF TypeOK, HeaderInv
  <2> QED
    BY <2>1, <2>2 DEF Saving, Save, SaveAtEnd, PopSave, EmptySave, SetPermanent
<1>7. permanent' \in [Links -> BOOLEAN]
  BY DEF TypeOK, Saving, Save, SaveAtEnd, Restore, PopSave, EmptySave, SetPermanent, entries
<1>8. TypeOK'
  BY <1>1, <1>5, <1>6, <1>7 DEF TypeOK, ring
<1>9. HeapInv'
  <2>1. \A b \in Lists : first'[b] \in Cells(b) \cup {Null} /\ first'[b] = first[b]
    BY <1>1 DEF HeaderInv
  <2> QED
    BY <1>1, <1>6, <1>8, <2>1, Unmoved
<1>10. ObjectsAlive'
  <2>1. Free' = Free
    BY <1>1 DEF Free, Cells
  <2>2. \A o : Holders(o)' = Holders(o)
    BY <1>1, <2>1 DEF Holders
  <2>3. CASE \E perm \in BOOLEAN : SetPermanent(a, perm)
    <3>1. PICK perm \in BOOLEAN : SetPermanent(a, perm)
      BY <2>3
    <3>2. \A x \in Links : permanent'[x] = IF x = link[a] THEN perm ELSE permanent[x]
      BY <3>1 DEF SetPermanent, TypeOK
    <3>3. ~perm => Holders(object[link[a]]) = {link[a]}
      BY <3>1 DEF SetPermanent
    <3> QED
      BY <1>1, <2>1, <2>2, <3>2, <3>3 DEF ObjectsAlive
  <2>4. CASE UNCHANGED entries
    BY <2>1, <2>4, ObjectsKept
  <2> QED
    BY <2>3, <2>4 DEF Saving, Save, SaveAtEnd, Restore, PopSave, EmptySave
<1> QED
  BY <1>5, <1>9, <1>10

-----------------------------------------------------------------------------
(***************************************************************************)
(* The theorems hold for clients that save a link once at a time; the run  *)
(* LinkList_remove_saved shows why.                                        *)
(***************************************************************************)
LEMMA InitIInv == Init => IInv
<1> SUFFICES ASSUME Init PROVE IInv
  OBVIOUS
<1> USE LinkListAssumption DEF Init, Cells, Free
<1>1. TypeOK
  BY DEF TypeOK
<1>2. \A a \in Lists : Cells(a) = {}
  OBVIOUS
<1>3. RingInv
  <2>1. \A p \in Links : TwoWay(p) /\ home[next[p]] = home[p] /\ next[p] = p
    BY DEF TwoWay
  <2>2. \A a \in Lists : OneRing(a)
    BY <1>2 DEF OneRing
  <2> QED
    BY <2>1, <2>2 DEF RingInv
<1>4. HeaderInv
  <2>1. \A a \in Lists : Cardinality(Cells(a)) = 0
    BY <1>2, FS_EmptySet
  <2> QED
    BY <1>2, <2>1 DEF HeaderInv
<1>5. SavedAlive /\ SavedOnce /\ ObjectsAlive
  BY DEF SavedAlive, SavedOnce, ObjectsAlive
<1> QED
  BY <1>1, <1>3, <1>4, <1>5 DEF IInv, HeapInv

LEMMA NextIInv ==
  ASSUME ~SaveTwice, IInv, [Next]_vars PROVE IInv'
<1>1. ASSUME NEW a \in Lists, Entering(a) PROVE IInv'
  BY <1>1, EnteringStep
<1>2. ASSUME NEW a \in Lists, Replacing(a) PROVE IInv'
  BY <1>2, ReplacingStep
<1>3. ASSUME NEW a \in Lists, Removing(a) PROVE IInv'
  BY <1>3, RemovingStep
<1>4. ASSUME NEW a \in Lists, Moving(a) PROVE IInv'
  BY <1>4, MovingStep
<1>5. ASSUME NEW a \in Lists, Saving(a) PROVE IInv'
  BY <1>5, SavingStep
<1>6. CASE UNCHANGED vars
  <2> USE DEF IInv, HeapInv
  <2>1. UNCHANGED <<ring, entries, home, list_size>> /\ save' = save /\ first' = first /\ link' = link
    BY <1>6 DEF vars, ring, entries
  <2>2. TypeOK'
    BY <2>1 DEF TypeOK, ring, entries
  <2>3. HeapInv'
    BY <2>1, <2>2, Unmoved DEF HeaderInv
  <2>4. Free' = Free /\ \A a \in Lists : Cells(a)' = Cells(a)
    BY <2>1 DEF Free, Cells
  <2> QED
    BY <2>1, <2>3, <2>4, SavedKept, ObjectsKept
<1> QED
  BY <1>1, <1>2, <1>3, <1>4, <1>5, <1>6 DEF Next

\* Every conjunct of the inductive invariant holds in every reachable state.
THEOREM Invariance ==
  ASSUME ~SaveTwice PROVE Spec => []IInv
BY InitIInv, NextIInv, PTL DEF Spec

\* The fields of links and lists keep their types (_Link, _List).
THEOREM TypeCorrect ==
  ASSUME ~SaveTwice PROVE Spec => []TypeOK
<1>1. IInv => TypeOK
  BY DEF IInv, HeapInv
<1> QED
  BY <1>1, Invariance, PTL

\* The links of each list form one ring, after any sequence of
\* _List::AppendLink, Insert, Add, Prepend, Replace, Remove, Delete, Transfer,
\* SetFirst, and moves of the cursor.
THEOREM RingsWellFormed ==
  ASSUME ~SaveTwice PROVE Spec => []RingInv
<1>1. IInv => RingInv
  BY DEF IInv, HeapInv
<1> QED
  BY <1>1, Invariance, PTL

\* After any such sequence the header of each list agrees with its ring: the
\* first link, the cursor and the number of links that _List keeps.
THEOREM HeadersAgree ==
  ASSUME ~SaveTwice PROVE Spec => []HeaderInv
<1>1. IInv => HeaderInv
  BY DEF IInv, HeapInv
<1> QED
  BY <1>1, Invariance, PTL

\* _List::Restore never sets the cursor to a deleted or transferred link.
THEOREM SavedCursorsAlive ==
  ASSUME ~SaveTwice PROVE Spec => []SavedAlive
<1>1. IInv => SavedAlive
  BY DEF IInv
<1> QED
  BY <1>1, Invariance, PTL

\* No object is deleted twice by PreDeLink, and none is deleted while a link
\* still holds it.
THEOREM OwnershipKept ==
  ASSUME ~SaveTwice PROVE Spec => []ObjectsAlive
<1>1. IInv => ObjectsAlive
  BY DEF IInv
<1> QED
  BY <1>1, Invariance, PTL
=============================================================================
