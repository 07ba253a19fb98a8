------------------------------ MODULE ODEProofs ------------------------------
(***************************************************************************)
(* Proofs about ODE: the ring of steps is one unbroken run of steps in one *)
(* direction, whatever is asked of it, which steps fail and from where it  *)
(* was restarted; and the saved states keep the order of their times.      *)
(***************************************************************************)
EXTENDS ODE, SequenceTheorems, WellFoundedInduction, TLAPS

-----------------------------------------------------------------------------
(* Numbers.                                                                  *)

LEMMA LessThan == OpToRel(<, Nat) = {p \in Nat \X Nat : p[1] < p[2]}
BY Zenon DEF OpToRel

LEMMA LeastNat ==
  ASSUME NEW S \in SUBSET Nat, S # {}
  PROVE  \E x \in S : \A y \in S : x <= y
<1>1. PICK R : R = OpToRel(<, Nat)
  OBVIOUS
<1>2. IsWellFoundedOn(R, Nat)
  BY <1>1, NatLessThanWellFounded, Zenon
<1>3. R = {p \in Nat \X Nat : p[1] < p[2]}
  BY <1>1, LessThan, Zenon
<1>4. PICK x \in S : \A y \in S : ~ (<<y, x>> \in R)
  BY <1>2, WFMin
<1>5. ASSUME NEW y \in S
      PROVE  x <= y
  <2>1. x \in Nat /\ y \in Nat
    OBVIOUS
  <2>2. ~ (<<y, x>> \in R)
    BY <1>4
  <2>3. ~ (y < x)
    BY <1>3, <2>1, <2>2
  <2> QED BY <2>1, <2>3
<1> QED BY <1>5

LEMMA LeastIs ==
  ASSUME NEW S \in SUBSET Nat, S # {}
  PROVE  Least(S) \in S /\ \A y \in S : Least(S) <= y
<1>1. \E x \in S : \A y \in S : x <= y
  BY LeastNat
<1> QED BY <1>1, Zenon DEF Least

LEMMA GreatestIs ==
  ASSUME NEW n \in Nat, NEW S \in SUBSET (0 .. n), S # {}
  PROVE  Greatest(S) \in S /\ \A y \in S : y <= Greatest(S)
<1> DEFINE U == {n - y : y \in S}
<1>1. U \in SUBSET Nat /\ U # {}
  OBVIOUS
<1>2. PICK u \in U : \A v \in U : u <= v
  <2> HIDE DEF U
  <2> QED BY <1>1, LeastNat
<1>3. PICK x \in S : u = n - x
  OBVIOUS
<1>4. ASSUME NEW y \in S
      PROVE  y <= x
  <2>1. n - x <= n - y
    BY <1>2, <1>3
  <2>2. x \in Int /\ y \in Int
    OBVIOUS
  <2> QED BY <2>1, <2>2
<1>5. \E z \in S : \A y \in S : y <= z
  BY <1>4
<1> QED BY <1>5, Zenon DEF Greatest

\* The slots of the ring follow each other.
LEMMA NextSlot ==
  ASSUME NEW i \in Slots
  PROVE  NextCache(i) \in Slots /\ NextCache(i) = IF i = NCache - 1 THEN 0 ELSE i + 1
<1>1. NCache \in Nat /\ NCache >= 2
  BY ODEAssumption
<1>2. CASE i = NCache - 1
  BY <1>1, <1>2 DEF NextCache, Slots
<1>3. CASE i # NCache - 1
  BY <1>1, <1>3 DEF NextCache, Slots
<1> QED BY <1>2, <1>3

-----------------------------------------------------------------------------
(* The ring.                                                                 *)

Times == Tmin .. Tmax
Entries == [t : Int, h : Int, sc : {-1, 0, 1}]

\* d * x for a direction d.
Toward(d, x) == IF d > 0 THEN x ELSE -x

\* The slots from a on to b.
InRing(i, a, b) == IF a <= b THEN a <= i /\ i <= b ELSE a <= i \/ i <= b

\* They hold steps in direction d, away from T0 and where F can be evaluated;
\* each ends where the next begins.
RingOf(C, a, b, d) ==
  /\ a \in Slots /\ b \in Slots
  /\ \A i \in Slots : InRing(i, a, b) =>
       /\ C[i].t \in Times /\ Toward(d, C[i].t - T0) >= 0 /\ Toward(d, C[i].h) > 0
       /\ i # b => C[i].t + C[i].h = C[NextCache(i)].t

RingInv ==
  /\ Cache \in [Slots -> Entries] /\ dir \in {-1, 0, 1} /\ InitH \in Nat /\ n_steps \in Int
  /\ dir # 0 => RingOf(Cache, cach0, cach1, dir)

LEMMA TimesAre ==
  /\ Tmin \in Int /\ Tmax \in Int /\ T0 \in Int /\ Inf \in Nat /\ MaxStep \in Nat /\ MaxStep > 0
  /\ Tmin < T0 /\ T0 < Tmax
  /\ \A t \in Requests \cup Times : t \in Int /\ -Inf < t /\ t < Inf
<1>1. /\ Tmin \in Int /\ Tmax \in Int /\ T0 \in Int /\ Inf \in Nat /\ MaxStep \in Nat /\ MaxStep > 0
      /\ Tmin < T0 /\ T0 < Tmax
  BY ODEAssumption
<1>2. -Inf < Tmin - MaxStep /\ Tmax + MaxStep < Inf
  BY ODEAssumption
<1>3. \A t \in Requests : t \in Int /\ -Inf < t - MaxStep /\ t + MaxStep < Inf
  BY ODEAssumption
<1> QED BY <1>1, <1>2, <1>3 DEF Times

\* The step that is accepted keeps the direction and stays where F can be
\* evaluated; it is none only at the end of that interval.
LEMMA AcceptedIs ==
  ASSUME NEW d \in {-1, 1}, NEW C, C.t \in Times, C.h \in Int, Toward(d, C.h) > 0
  PROVE  /\ Accepted(C) \in Int /\ C.t + Accepted(C) \in Times /\ Toward(d, Accepted(C)) >= 0
         /\ Accepted(C) = 0 => C.t = IF d > 0 THEN Tmax ELSE Tmin
BY TimesAre DEF Accepted, Toward, Times, Lesser, Abs

LEMMA GrownIs ==
  ASSUME NEW d \in {-1, 1}, NEW h \in Int, Toward(d, h) > 0
  PROVE  Grown(h) \in Int /\ Toward(d, Grown(h)) > 0
BY DEF Grown, CanGrow, Toward

\* A ring of one entry.
LEMMA RingOfOne ==
  ASSUME NEW d, NEW C, NEW a \in Slots, C[a].t \in Times,
         Toward(d, C[a].t - T0) >= 0, Toward(d, C[a].h) > 0
  PROVE  RingOf(C, a, a, d)
<1>1. \A i \in Slots : InRing(i, a, a) => i = a
  BY DEF InRing, Slots
<1> QED BY <1>1 DEF RingOf

\* The slots that stay in the ring when its last entry moves on from b to n.
LEMMA RingShift ==
  ASSUME NEW a \in Slots, NEW b \in Slots
  PROVE  LET n == NextCache(b)
             f == IF a = n THEN NextCache(a) ELSE a
         IN  /\ n \in Slots /\ f \in Slots /\ b # n
             /\ InRing(b, a, b) /\ ~InRing(n, f, b) /\ InRing(b, f, b)
             /\ \A i \in Slots : /\ InRing(i, f, n) => i = n \/ InRing(i, f, b)
                                 /\ InRing(i, f, b) => InRing(i, a, b) /\ i # n
                                 /\ i # b => NextCache(i) # n
<1>1. NCache \in Nat /\ NCache >= 2
  BY ODEAssumption
<1> QED BY <1>1, NextSlot DEF InRing, Slots

\* C when the step h from slot b ended with the entry e in slot n.
Put(C, b, h, n, e) == [C EXCEPT ![b].h = h, ![n] = e]

LEMMA RingStepped ==
  ASSUME NEW d \in {-1, 1}, NEW C \in [Slots -> Entries], NEW a, NEW b, RingOf(C, a, b, d),
         NEW h \in Int, Toward(d, h) > 0, NEW e \in Entries, NEW n, n = NextCache(b),
         NEW f, f = IF a = n THEN NextCache(a) ELSE a,
         NEW D, D = Put(C, b, h, n, e)
  PROVE  /\ D \in [Slots -> Entries] /\ D[n] = e /\ D[b].h = h /\ b # n
         /\ \A i \in Slots : i # n => D[i].t = C[i].t
         /\ RingOf(D, f, b, d)
         /\ e.t = C[b].t + h /\ e.t \in Times /\ Toward(d, e.h) > 0 => RingOf(D, f, n, d)
<1>1. a \in Slots /\ b \in Slots
  BY DEF RingOf
<1>2. /\ n \in Slots /\ f \in Slots /\ b # n
      /\ InRing(b, a, b) /\ ~InRing(n, f, b) /\ InRing(b, f, b)
      /\ \A i \in Slots : /\ InRing(i, f, n) => i = n \/ InRing(i, f, b)
                          /\ InRing(i, f, b) => InRing(i, a, b) /\ i # n
                          /\ i # b => NextCache(i) # n
  BY <1>1, RingShift
<1>3. /\ D \in [Slots -> Entries] /\ D[n] = e /\ D[b] = [C[b] EXCEPT !.h = h]
      /\ \A i \in Slots : i # b /\ i # n => D[i] = C[i]
  BY <1>1, <1>2 DEF Entries, Put
<1>4. C[b] \in Entries /\ D[b].t = C[b].t /\ D[b].h = h
  BY <1>1, <1>3 DEF Entries
<1>5. C[b].t \in Times /\ Toward(d, C[b].t - T0) >= 0
  BY <1>1, <1>2 DEF RingOf
<1>6. ASSUME NEW i \in Slots, InRing(i, f, b)
      PROVE  /\ D[i].t = C[i].t /\ D[i].t \in Times /\ Toward(d, D[i].t - T0) >= 0
             /\ Toward(d, D[i].h) > 0
             /\ i # b => D[i].t + D[i].h = D[NextCache(i)].t
  <2>1. i # n /\ InRing(i, a, b)
    BY <1>2, <1>6
  <2>2. CASE i = b
    BY <1>4, <1>5, <2>2
  <2>3. CASE i # b
    <3>1. D[i] = C[i] /\ NextCache(i) # n /\ NextCache(i) \in Slots
      BY <1>2, <1>3, <2>1, <2>3, NextSlot
    <3>2. D[NextCache(i)].t = C[NextCache(i)].t
      BY <1>3, <1>4, <3>1
    <3> QED BY <2>1, <2>3, <3>1, <3>2 DEF RingOf
  <2> QED BY <2>2, <2>3
<1>7. RingOf(D, f, b, d)
  BY <1>1, <1>2, <1>6 DEF RingOf
<1>8. ASSUME e.t = C[b].t + h, e.t \in Times, Toward(d, e.h) > 0
      PROVE  RingOf(D, f, n, d)
  <2>1. Toward(d, e.t - T0) >= 0
    BY <1>4, <1>5, <1>8, TimesAre DEF Toward, Entries, Times
  <2>2. ASSUME NEW i \in Slots, InRing(i, f, n)
        PROVE  /\ D[i].t \in Times /\ Toward(d, D[i].t - T0) >= 0 /\ Toward(d, D[i].h) > 0
               /\ i # n => D[i].t + D[i].h = D[NextCache(i)].t
    <3>1. CASE i = n
      BY <1>3, <1>8, <2>1, <3>1
    <3>2. CASE i # n /\ i # b
      BY <1>2, <1>6, <2>2, <3>2
    <3>3. CASE i = b
      <4>1. NextCache(i) = n
        BY <3>3
      <4> QED BY <1>2, <1>3, <1>4, <1>6, <1>8, <3>3, <4>1
    <3> QED BY <3>1, <3>2, <3>3
  <2> QED BY <1>2, <2>2 DEF RingOf
<1>9. \A i \in Slots : i # n => D[i].t = C[i].t
  BY <1>3, <1>4
<1> QED BY <1>2, <1>3, <1>4, <1>7, <1>8, <1>9

-----------------------------------------------------------------------------
(* The saved states.                                                         *)

\* s has InftyMinus and InftyPlus at its ends and the initial state at m: the
\* states before it were saved by steps back, those behind it by steps forward.
Divided(s, m) ==
  /\ s[1].t = -Inf /\ s[Len(s)].t = Inf /\ s[m].t = T0
  /\ \A i \in 2 .. m - 1 : s[i].t \in Tmin .. T0 - 1 /\ s[i].h < 0
  /\ \A i \in m + 1 .. Len(s) - 1 : s[i].t \in T0 + 1 .. Tmax /\ s[i].h > 0

OuterOf(L) ==
  /\ L = [items |-> L.items, cur |-> L.cur] /\ L.items \in Seq(Entries)
  /\ L.cur \in 2 .. Len(L.items) - 1
  /\ \E m \in 2 .. Len(L.items) - 1 : Divided(L.items, m)

\* q is s with e at p.
Inserted(q, s, p, e) ==
  /\ Len(q) = Len(s) + 1
  /\ \A i \in 1 .. Len(s) + 1 : q[i] =
       IF i < p THEN s[i] ELSE IF i = p THEN e ELSE s[i - 1]

LEMMA InsertAtIs ==
  ASSUME NEW S, NEW s \in Seq(S), NEW e \in S, NEW p \in 1 .. Len(s) + 1
  PROVE  /\ Sq!InsertAt(s, p, e) \in Seq(S)
         /\ Inserted(Sq!InsertAt(s, p, e), s, p, e)
<1> DEFINE a == SubSeq(s, 1, p - 1)
           b == SubSeq(s, p, Len(s))
<1>1. /\ a \in Seq(S) /\ Len(a) = p - 1 /\ \A i \in 1 .. p - 1 : a[i] = s[i]
  BY SubSeqProperties
<1>2. /\ b \in Seq(S) /\ Len(b) = Len(s) + 1 - p
      /\ \A i \in 1 .. Len(s) + 1 - p : b[i] = s[p + i - 1]
  BY SubSeqProperties
<1>3. /\ <<e>> \in Seq(S) /\ Len(<<e>>) = 1 /\ <<e>>[1] = e
  OBVIOUS
<1> HIDE DEF a, b
<1>4. /\ a \o <<e>> \in Seq(S) /\ Len(a \o <<e>>) = p
      /\ \A i \in 1 .. p : (a \o <<e>>)[i] = IF i < p THEN s[i] ELSE e
  BY <1>1, <1>3, ConcatProperties
<1> DEFINE c == a \o <<e>>
<1>5. c \in Seq(S) /\ Len(c) = p /\ \A i \in 1 .. p : c[i] = IF i < p THEN s[i] ELSE e
  BY <1>4
<1> HIDE DEF c
<1>6. /\ c \o b \in Seq(S) /\ Len(c \o b) = Len(s) + 1
      /\ \A i \in 1 .. Len(s) + 1 : (c \o b)[i] = IF i <= p THEN c[i] ELSE b[i - p]
  BY <1>2, <1>5, ConcatProperties
<1>7. Sq!InsertAt(s, p, e) = c \o b
  BY DEF Sq!InsertAt, a, b, c
<1>8. ASSUME NEW i \in 1 .. Len(s) + 1
      PROVE  (c \o b)[i] = IF i < p THEN s[i] ELSE IF i = p THEN e ELSE s[i - 1]
  <2>1. CASE i <= p
    BY <1>5, <1>6, <2>1
  <2>2. CASE ~ (i <= p)
    <3>1. i - p \in 1 .. Len(s) + 1 - p /\ p + (i - p) - 1 = i - 1
      BY <2>2
    <3>2. b[i - p] = s[i - 1]
      BY <1>2, <3>1
    <3> QED BY <1>6, <2>2, <3>2
  <2> QED BY <2>1, <2>2
<1> QED BY <1>6, <1>7, <1>8 DEF Inserted

\* Where a new state enters, and where the other states are then.
LEMMA EnteredIs ==
  ASSUME dir \in {-1, 1}, NEW L, OuterOf(L), NEW e \in Entries
  PROVE  LET s == L.items
             M == EnterOuter(L, e)
             at == IF dir > 0 THEN Len(s) ELSE 2
         IN  /\ M = [items |-> M.items, cur |-> at] /\ M.items \in Seq(Entries)
             /\ Inserted(M.items, s, at, e)
<1>1. PICK s : s = L.items
  OBVIOUS
<1>2. PICK at : at = IF dir > 0 THEN Len(s) ELSE 2
  OBVIOUS
<1>3. PICK q : q = Sq!InsertAt(s, at, e)
  OBVIOUS
<1>4. L = [items |-> s, cur |-> L.cur] /\ s \in Seq(Entries) /\ Len(s) \in Nat /\ Len(s) >= 3
  BY <1>1 DEF OuterOf
<1>5. EnterOuter(L, e) = [items |-> q, cur |-> at]
  <2>1. CASE dir > 0
    <3>1. EndL(L) = [items |-> s, cur |-> Len(s)]
      BY <1>4 DEF EndL
    <3> QED BY <1>2, <1>3, <1>4, <2>1, <3>1 DEF EnterOuter, InsertL
  <2>2. CASE ~ (dir > 0)
    <3>1. StartL(L) = [items |-> s, cur |-> 1]
      BY <1>4 DEF StartL
    <3> QED BY <1>2, <1>3, <1>4, <2>2, <3>1 DEF EnterOuter, AddL, IsCurrent
  <2> QED BY <2>1, <2>2
<1>6. at \in 1 .. Len(s) + 1
  BY <1>2, <1>4
<1>7. q \in Seq(Entries) /\ Inserted(q, s, at, e)
  BY <1>3, <1>4, <1>6, InsertAtIs
<1>8. EnterOuter(L, e).items = q
  BY <1>5
<1> QED BY <1>1, <1>2, <1>5, <1>7, <1>8, Zenon

LEMMA DividedKept ==
  ASSUME NEW d \in {-1, 1}, NEW s, NEW q, NEW e \in Entries, Len(s) \in Nat, Len(s) >= 3,
         e.t \in Times, Toward(d, e.t - T0) > 0, Toward(d, e.h) > 0,
         Inserted(q, s, IF d > 0 THEN Len(s) ELSE 2, e),
         \E m \in 2 .. Len(s) - 1 : Divided(s, m)
  PROVE  \E k \in 2 .. Len(s) : Divided(q, k)
<1>1. PICK n \in Nat : n = Len(s) /\ n >= 3
  OBVIOUS
<1>2. PICK m \in 2 .. n - 1 : Divided(s, m)
  BY <1>1
<1>3. /\ Len(q) = n + 1
      /\ \A i \in 1 .. n + 1 :
           LET at == IF d > 0 THEN n ELSE 2
           IN  q[i] = IF i < at THEN s[i] ELSE IF i = at THEN e ELSE s[i - 1]
  BY <1>1 DEF Inserted
<1>4. /\ e.t \in Int /\ e.h \in Int /\ Tmin <= e.t /\ e.t <= Tmax
      /\ Tmin \in Int /\ Tmax \in Int /\ T0 \in Int
  BY TimesAre DEF Entries, Times
<1>5. CASE d > 0
  <2>1. /\ \A i \in 1 .. n - 1 : q[i] = s[i]
        /\ q[n] = e /\ q[n + 1] = s[n]
    BY <1>1, <1>3, <1>5
  <2>2. e.t \in T0 + 1 .. Tmax /\ e.h > 0
    BY <1>4, <1>5 DEF Toward
  <2>3. Divided(q, m)
    BY <1>1, <1>2, <1>3, <2>1, <2>2, SMTT(30) DEF Divided
  <2> QED BY <1>1, <2>3
<1>6. CASE d < 0
  <2>1. q[1] = s[1] /\ q[2] = e /\ \A i \in 3 .. n + 1 : q[i] = s[i - 1]
    BY <1>1, <1>3, <1>6
  <2>2. e.t \in Tmin .. T0 - 1 /\ e.h < 0
    BY <1>4, <1>6, SMTT(30) DEF Toward
  <2>3. ASSUME NEW i \in 2 .. m
        PROVE  q[i].t \in Tmin .. T0 - 1 /\ q[i].h < 0
    <3>1. CASE i = 2
      BY <2>1, <2>2, <3>1
    <3>2. CASE i # 2
      <4>1. i - 1 \in 2 .. m - 1 /\ i \in 3 .. n + 1
        BY <1>1, <3>2
      <4>2. q[i] = s[i - 1]
        BY <2>1, <4>1
      <4>3. s[i - 1].t \in Tmin .. T0 - 1 /\ s[i - 1].h < 0
        BY <1>2, <4>1 DEF Divided
      <4> QED BY <4>2, <4>3
    <3> QED BY <3>1, <3>2
  <2>4. ASSUME NEW i, i \in m + 2 .. n
        PROVE  q[i].t \in T0 + 1 .. Tmax /\ q[i].h > 0
    <3>1. i - 1 \in m + 1 .. n - 1 /\ i \in 3 .. n + 1
      BY <1>1, <2>4
    <3>2. q[i] = s[i - 1]
      BY <2>1, <3>1
    <3>3. s[i - 1].t \in T0 + 1 .. Tmax /\ s[i - 1].h > 0
      BY <1>1, <1>2, <3>1 DEF Divided
    <3> QED BY <3>2, <3>3
  <2>5. q[m + 1] = s[m] /\ q[n + 1] = s[n]
    BY <1>1, <2>1, SMTT(30)
  <2>6. Divided(q, m + 1)
    BY <1>1, <1>2, <1>3, <2>1, <2>3, <2>4, <2>5 DEF Divided
  <2> QED BY <1>1, <2>6
<1> QED BY <1>5, <1>6

LEMMA OuterKept ==
  ASSUME dir \in {-1, 1}, NEW L, OuterOf(L), NEW e \in Entries, e.t \in Times,
         Toward(dir, e.t - T0) > 0, Toward(dir, e.h) > 0
  PROVE  OuterOf(EnterOuter(L, e))
<1>1. PICK s : s = L.items
  OBVIOUS
<1>2. PICK M : M = EnterOuter(L, e)
  OBVIOUS
<1>3. PICK q : q = M.items
  OBVIOUS
<1>4. PICK at : at = IF dir > 0 THEN Len(s) ELSE 2
  OBVIOUS
<1>5. /\ s \in Seq(Entries) /\ Len(s) \in Nat /\ Len(s) >= 3
      /\ \E m \in 2 .. Len(s) - 1 : Divided(s, m)
  BY <1>1 DEF OuterOf
<1>6. M = [items |-> q, cur |-> at] /\ q \in Seq(Entries) /\ Inserted(q, s, at, e)
  BY <1>1, <1>2, <1>3, <1>4, EnteredIs
<1>7. \E k \in 2 .. Len(s) : Divided(q, k)
  BY <1>4, <1>5, <1>6, DividedKept
<1>8. M.cur = at /\ at \in 2 .. Len(s) /\ Len(q) = Len(s) + 1
  BY <1>4, <1>5, <1>6 DEF Inserted
<1> QED BY <1>2, <1>3, <1>5, <1>6, <1>7, <1>8, SMTT(30) DEF OuterOf

-----------------------------------------------------------------------------
(* What a step does.                                                         *)

\* The four ways a step goes, field by field, for the step h to the end t: none,
\* one that fails behind the entry it wrote, one that fails on a stop condition
\* that is not finite after the ring moved on, one that moves the ring on.
Stands(r) ==
  /\ r.Cache = Cache /\ r.cach0 = cach0 /\ r.cach1 = cach1 /\ r.n_steps = n_steps
  /\ r.Initial = Initial /\ r.Stops = Stops /\ r.status = "NON_CONVERGENCE"
  /\ Accepted(Cache[cach1]) = 0

Fails(r) ==
  LET h == Accepted(Cache[cach1])
      t == Cache[cach1].t + h
      n == NextCache(cach1)
  IN  /\ h # 0
      /\ r.Cache = Written(n, h, [t |-> t, h |-> Grown(h), sc |-> Cache[n].sc])
      /\ r.cach0 = IF cach0 = n THEN NextCache(cach0) ELSE cach0
      /\ r.cach1 = cach1
      /\ r.n_steps = n_steps /\ r.Initial = Initial /\ r.Stops = Stops /\ r.status = "FAILED"
      /\ FailLate /\ t \in {Tmin, Tmax}

Strays(r) ==
  LET h == Accepted(Cache[cach1])
      t == Cache[cach1].t + h
      n == NextCache(cach1)
  IN  /\ h # 0
      /\ \E sc \in NotFinite : r.Cache = Written(n, h, [t |-> t, h |-> Grown(h), sc |-> sc])
      /\ r.cach0 = IF cach0 = n THEN NextCache(cach0) ELSE cach0
      /\ r.cach1 = n
      /\ r.n_steps = n_steps + 1 /\ r.Initial = Initial /\ r.Stops = Stops /\ r.status = "FAILED"
      /\ n_steps >= 0 /\ ~NeverStop /\ t \in BadStops
      /\ ~(FailLate /\ t \in {Tmin, Tmax})

Saves == n_steps >= 0 /\ CacheStep > 0 /\ n_steps + 1 >= CacheStep

Moves(r) ==
  LET h == Accepted(Cache[cach1])
      t == Cache[cach1].t + h
      n == NextCache(cach1)
      sc == IF n_steps >= 0 /\ ~NeverStop THEN StopCondition(t) ELSE Cache[n].sc
      e == [t |-> t, h |-> Grown(h), sc |-> sc]
  IN  /\ h # 0
      /\ r.Cache = Written(n, h, e)
      /\ r.cach0 = IF cach0 = n THEN NextCache(cach0) ELSE cach0
      /\ r.cach1 = n
      /\ r.n_steps = IF Saves THEN 0 ELSE IF n_steps >= 0 THEN n_steps + 1 ELSE n_steps
      /\ r.Initial = IF Saves THEN EnterOuter(Initial, e) ELSE Initial
      /\ NeverStop \/ ~(n_steps >= 0) => r.Stops = Stops /\ r.status = "OK"
      /\ r.status \in {"OK", "STOP_CONDITION", "STOP_ERROR"}
      /\ ~(FailLate /\ t \in {Tmin, Tmax})

LEMMA StepGoes ==
  ASSUME NEW t_request, NEW ignore, NEW r \in Step(t_request, ignore)
  PROVE  /\ Stands(r) \/ Fails(r) \/ Strays(r) \/ Moves(r)
         /\ {"Cache", "n_steps", "Initial"} \subseteq DOMAIN r
<1> DEFINE C1 == Cache[cach1]
           h == Accepted(C1)
           t == C1.t + h
           n == NextCache(cach1)
           late == FailLate /\ t \in {Tmin, Tmax}
           from == IF cach0 = n THEN NextCache(cach0) ELSE cach0
           sc == IF n_steps >= 0 /\ ~NeverStop THEN StopCondition(t) ELSE Cache[n].sc
           e == [t |-> t, h |-> Grown(h), sc |-> sc]
           zero == n_steps >= 0 /\ ~NeverStop /\ (sc = 0 \/ sc * C1.sc < 0)
           moved == [Unmoved("OK") EXCEPT
                       !.Cache = Written(n, h, e),
                       !.cach0 = from, !.cach1 = n,
                       !.n_steps = IF Saves THEN 0 ELSE IF n_steps >= 0 THEN n_steps + 1 ELSE @,
                       !.Initial = IF Saves THEN EnterOuter(Initial, e) ELSE @]
           failed == [Unmoved("FAILED") EXCEPT
                        !.Cache = Written(n, h, [e EXCEPT !.sc = Cache[n].sc]),
                        !.cach0 = from]
           lost == n_steps >= 0 /\ ~NeverStop /\ t \in BadStops
           strayed(x) == [[Unmoved("FAILED") EXCEPT
                             !.Cache = Written(n, h, [e EXCEPT !.sc = x]), !.cach0 = from]
                            EXCEPT !.cach1 = n, !.n_steps = @ + 1]
<1>0. r \in IF h = 0 THEN {Unmoved("NON_CONVERGENCE")}
            ELSE IF late THEN {failed}
            ELSE IF lost THEN {strayed(x) : x \in NotFinite}
            ELSE IF zero THEN {AtZero(moved, tau, t_request, ignore) : tau \in StopTimes(C1, t)}
            ELSE {moved}
  BY Zenon DEF Step, Saves
<1>1. \/ h = 0 /\ r = Unmoved("NON_CONVERGENCE")
      \/ h # 0 /\ late /\ r = failed
      \/ h # 0 /\ ~late /\ lost /\ \E x \in NotFinite : r = strayed(x)
      \/ /\ h # 0 /\ ~late /\ zero
         /\ \E tau \in StopTimes(C1, t) : r = AtZero(moved, tau, t_request, ignore)
      \/ h # 0 /\ ~late /\ ~zero /\ r = moved
  <2> HIDE DEF h, late, lost, zero, failed, strayed, moved, t, C1
  <2> QED BY <1>0, Zenon
<1>2. CASE h = 0 /\ r = Unmoved("NON_CONVERGENCE")
  BY <1>2 DEF Stands, Unmoved
<1>3. CASE h # 0 /\ late /\ r = failed
  BY <1>3 DEF Fails, Unmoved
<1>4. CASE h # 0 /\ ~late /\ ~zero /\ r = moved
  BY <1>4 DEF Moves, Unmoved
<1>5. CASE /\ h # 0 /\ ~late /\ zero
           /\ \E tau \in StopTimes(C1, t) : r = AtZero(moved, tau, t_request, ignore)
  BY <1>5 DEF Moves, Unmoved, AtZero
<1>6. CASE h # 0 /\ ~late /\ lost /\ \E x \in NotFinite : r = strayed(x)
  <2>1. PICK x \in NotFinite : r = strayed(x)
    BY <1>6
  <2>2. /\ r.Cache = Written(n, h, [t |-> t, h |-> Grown(h), sc |-> x])
        /\ r.cach0 = from /\ r.cach1 = n /\ r.n_steps = n_steps + 1
        /\ r.Initial = Initial /\ r.Stops = Stops /\ r.status = "FAILED"
        /\ {"Cache", "n_steps", "Initial"} \subseteq DOMAIN r
    <3>1. PICK C : C = Written(n, h, [t |-> t, h |-> Grown(h), sc |-> x])
      OBVIOUS
    <3>2. [e EXCEPT !.sc = x] = [t |-> t, h |-> Grown(h), sc |-> x]
      OBVIOUS
    <3>3. PICK w : w = [Unmoved("FAILED") EXCEPT !.Cache = C, !.cach0 = from]
      OBVIOUS
    <3>4. w = [Cache |-> C, cach0 |-> from, cach1 |-> cach1, n_steps |-> n_steps,
               Initial |-> Initial, Stops |-> Stops, status |-> "FAILED"]
      BY <3>3 DEF Unmoved
    <3>5. r = [w EXCEPT !.cach1 = n, !.n_steps = @ + 1]
      BY <2>1, <3>1, <3>2, <3>3
    <3> HIDE DEF C1, h, t, n, from
    <3>6. r = [Cache |-> C, cach0 |-> from, cach1 |-> n, n_steps |-> n_steps + 1,
               Initial |-> Initial, Stops |-> Stops, status |-> "FAILED"]
      BY <3>4, <3>5
    <3> QED BY <3>1, <3>6
  <2> QED BY <1>6, <2>2 DEF Strays
<1> QED BY <1>1, <1>2, <1>3, <1>4, <1>5, <1>6

\* An entry on the way from T0 in direction d.
Onward(d, e) == e.t \in Times /\ Toward(d, e.t - T0) >= 0

LEMMA StepRing ==
  ASSUME RingInv, dir \in {-1, 1}, NEW t_request, NEW ignore, NEW r \in Step(t_request, ignore)
  PROVE  /\ r.Cache \in [Slots -> Entries] /\ r.n_steps \in Int
         /\ RingOf(r.Cache, r.cach0, r.cach1, dir)
         /\ \A i \in Slots : InRing(i, cach0, cach1) =>
              r.Cache[i].t \in Times /\ Toward(dir, r.Cache[i].t - T0) >= 0
         /\ \A i \in Slots : Onward(dir, Cache[i]) => Onward(dir, r.Cache[i])
         /\ NextCache(cach1) # cach0 => r.cach0 = cach0
         /\ r.status \in {"OK", "STOP_CONDITION"} => Toward(dir, r.Cache[cach1].h) > 0
<1>1. PICK h : h = Accepted(Cache[cach1])
  OBVIOUS
<1>2. PICK t : t = Cache[cach1].t + h
  OBVIOUS
<1>3. PICK n : n = NextCache(cach1)
  OBVIOUS
<1>4. RingOf(Cache, cach0, cach1, dir) /\ Cache \in [Slots -> Entries] /\ n_steps \in Int
  BY DEF RingInv
<1>5. /\ cach1 \in Slots /\ cach0 \in Slots /\ n \in Slots /\ InRing(cach1, cach0, cach1)
      /\ Cache[cach1] \in Entries
  BY <1>3, <1>4, RingShift DEF RingOf
<1>6. /\ Cache[cach1].t \in Times /\ Toward(dir, Cache[cach1].t - T0) >= 0
      /\ Toward(dir, Cache[cach1].h) > 0 /\ Cache[cach1].h \in Int
  BY <1>4, <1>5 DEF RingOf, Entries
<1>7. h \in Int /\ t \in Times /\ Toward(dir, h) >= 0
  BY <1>1, <1>2, <1>6, AcceptedIs
<1>8. CASE Stands(r)
  <2>1. Stands(r) => ~ (r.status \in {"OK", "STOP_CONDITION"})
    BY DEF Stands
  <2> QED BY <1>4, <1>8, <2>1 DEF Stands, RingOf
<1>9. ASSUME NEW e \in Entries, h # 0, e.t = t, e.h = Grown(h), r.Cache = Written(n, h, e),
             r.cach0 = IF cach0 = n THEN NextCache(cach0) ELSE cach0, r.cach1 \in {cach1, n}
      PROVE  /\ r.Cache \in [Slots -> Entries]
             /\ RingOf(r.Cache, r.cach0, r.cach1, dir)
             /\ \A i \in Slots : InRing(i, cach0, cach1) =>
                  r.Cache[i].t \in Times /\ Toward(dir, r.Cache[i].t - T0) >= 0
             /\ \A i \in Slots : Onward(dir, Cache[i]) => Onward(dir, r.Cache[i])
             /\ NextCache(cach1) # cach0 => r.cach0 = cach0
             /\ Toward(dir, r.Cache[cach1].h) > 0
  <2>1. Toward(dir, h) > 0
    BY <1>7, <1>9 DEF Toward
  <2>2. Grown(h) \in Int /\ Toward(dir, Grown(h)) > 0
    BY <1>7, <2>1, GrownIs
  <2>3. r.Cache = Put(Cache, cach1, h, n, e)
    BY <1>9 DEF Written, Put
  <2>4. /\ r.Cache \in [Slots -> Entries] /\ r.Cache[n] = e /\ r.Cache[cach1].h = h
        /\ \A i \in Slots : i # n => r.Cache[i].t = Cache[i].t
        /\ RingOf(r.Cache, r.cach0, cach1, dir)
        /\ RingOf(r.Cache, r.cach0, n, dir)
    <3>1. r.cach0 = IF cach0 = n THEN NextCache(cach0) ELSE cach0
      BY <1>9
    <3>2. e.t = Cache[cach1].t + h /\ e.t \in Times /\ Toward(dir, e.h) > 0
      BY <1>2, <1>7, <1>9, <2>2
    <3> QED BY <1>3, <1>4, <1>7, <2>1, <2>3, <3>1, <3>2, RingStepped
  <2>5. Toward(dir, t - T0) >= 0
    BY <1>2, <1>6, <1>7, TimesAre DEF Toward, Times
  <2>6. ASSUME NEW i \in Slots, InRing(i, cach0, cach1)
        PROVE  r.Cache[i].t \in Times /\ Toward(dir, r.Cache[i].t - T0) >= 0
    <3>1. CASE i = n
      BY <1>7, <1>9, <2>4, <2>5, <3>1
    <3>2. CASE i # n
      BY <1>4, <2>4, <2>6, <3>2 DEF RingOf
    <3> QED BY <3>1, <3>2
  <2>7. ASSUME NEW i \in Slots, Onward(dir, Cache[i])
        PROVE  Onward(dir, r.Cache[i])
    <3>1. CASE i = n
      BY <1>7, <1>9, <2>4, <2>5, <3>1 DEF Onward
    <3>2. CASE i # n
      BY <2>4, <2>7, <3>2 DEF Onward
    <3> QED BY <3>1, <3>2
  <2> QED BY <1>3, <1>9, <2>1, <2>4, <2>6, <2>7
<1>10. CASE Fails(r)
  <2> DEFINE e == [t |-> t, h |-> Grown(h), sc |-> Cache[n].sc]
  <2>1. /\ h # 0 /\ r.Cache = Written(n, h, e) /\ r.cach1 = cach1 /\ r.n_steps = n_steps
        /\ r.cach0 = IF cach0 = n THEN NextCache(cach0) ELSE cach0
    BY <1>1, <1>2, <1>3, <1>10 DEF Fails
  <2>2. e \in Entries
    <3>1. Toward(dir, h) > 0
      BY <1>7, <2>1 DEF Toward
    <3>2. Grown(h) \in Int
      BY <1>7, <3>1, GrownIs
    <3> QED BY <1>4, <1>5, <1>7, <3>2, TimesAre DEF Entries
  <2> QED BY <1>4, <1>9, <2>1, <2>2
<1>11. CASE Moves(r)
  <2> DEFINE sc == IF n_steps >= 0 /\ ~NeverStop THEN StopCondition(t) ELSE Cache[n].sc
             e == [t |-> t, h |-> Grown(h), sc |-> sc]
  <2>1. /\ h # 0 /\ r.Cache = Written(n, h, e) /\ r.cach1 = n
        /\ r.n_steps = IF Saves THEN 0 ELSE IF n_steps >= 0 THEN n_steps + 1 ELSE n_steps
        /\ r.cach0 = IF cach0 = n THEN NextCache(cach0) ELSE cach0
    BY <1>1, <1>2, <1>3, <1>11 DEF Moves
  <2>2. e \in Entries
    <3>1. Toward(dir, h) > 0
      BY <1>7, <2>1 DEF Toward
    <3>2. Grown(h) \in Int
      BY <1>7, <3>1, GrownIs
    <3>3. sc \in {-1, 0, 1}
      BY <1>4, <1>5 DEF StopCondition, Entries
    <3> QED BY <1>7, <3>2, <3>3, TimesAre DEF Entries
  <2>3. r.n_steps \in Int
    BY <1>4, <2>1
  <2> QED BY <1>9, <2>1, <2>2, <2>3
<1>12. CASE Strays(r)
  <2>1. PICK x \in {-1, 0, 1} : r.Cache = Written(n, h, [t |-> t, h |-> Grown(h), sc |-> x])
    BY <1>1, <1>2, <1>3, <1>12 DEF Strays, NotFinite
  <2> DEFINE e == [t |-> t, h |-> Grown(h), sc |-> x]
  <2>2. /\ h # 0 /\ r.Cache = Written(n, h, e) /\ r.cach1 = n /\ r.n_steps = n_steps + 1
        /\ r.cach0 = IF cach0 = n THEN NextCache(cach0) ELSE cach0
    BY <1>1, <1>2, <1>3, <1>12, <2>1 DEF Strays
  <2>3. e \in Entries
    <3>1. Toward(dir, h) > 0
      BY <1>7, <2>2 DEF Toward
    <3>2. Grown(h) \in Int
      BY <1>7, <3>1, GrownIs
    <3> QED BY <1>7, <3>2, TimesAre DEF Entries
  <2>4. r.n_steps \in Int
    BY <1>4, <2>2
  <2> QED BY <1>9, <2>2, <2>3, <2>4
<1> QED BY <1>8, <1>10, <1>11, <1>12, StepGoes

\* A state that is saved enters the outer states behind the others.
LEMMA StepOuter ==
  ASSUME RingInv, dir \in {-1, 1}, NEW t_request, NEW ignore, NEW r \in Step(t_request, ignore)
  PROVE  /\ OuterOf(Initial) => OuterOf(r.Initial)
         /\ n_steps = -1 => r.n_steps = -1 /\ r.Initial = Initial
         /\ NeverStop => r.Stops = Stops
<1>1. CASE Stands(r) \/ Fails(r) \/ Strays(r)
  BY <1>1 DEF Stands, Fails, Strays, RingInv
<1>2. CASE Moves(r)
  <2>1. PICK h : h = Accepted(Cache[cach1])
    OBVIOUS
  <2>2. PICK t : t = Cache[cach1].t + h
    OBVIOUS
  <2>3. PICK sc : sc = IF n_steps >= 0 /\ ~NeverStop THEN StopCondition(t)
                       ELSE Cache[NextCache(cach1)].sc
    OBVIOUS
  <2>4. PICK e : e = [t |-> t, h |-> Grown(h), sc |-> sc]
    OBVIOUS
  <2>5. /\ h # 0 /\ r.Initial = IF Saves THEN EnterOuter(Initial, e) ELSE Initial
        /\ NeverStop => r.Stops = Stops
        /\ r.n_steps = IF Saves THEN 0 ELSE IF n_steps >= 0 THEN n_steps + 1 ELSE n_steps
    BY <1>2, <2>1, <2>2, <2>3, <2>4, Zenon DEF Moves
  <2>6. /\ cach1 \in Slots /\ NextCache(cach1) \in Slots /\ InRing(cach1, cach0, cach1)
        /\ Cache[cach1] \in Entries /\ Cache[NextCache(cach1)] \in Entries
        /\ RingOf(Cache, cach0, cach1, dir)
    BY RingShift DEF RingInv, RingOf
  <2>7. /\ Cache[cach1].t \in Times /\ Toward(dir, Cache[cach1].t - T0) >= 0
        /\ Toward(dir, Cache[cach1].h) > 0 /\ Cache[cach1].h \in Int
    BY <2>6 DEF RingOf, Entries
  <2>8. h \in Int /\ t \in Times /\ Toward(dir, h) > 0
    <3>1. h \in Int /\ t \in Times /\ Toward(dir, h) >= 0
      BY <2>1, <2>2, <2>7, AcceptedIs
    <3> QED BY <2>5, <3>1 DEF Toward
  <2>9. Grown(h) \in Int /\ Toward(dir, Grown(h)) > 0
    BY <2>8, GrownIs
  <2>10. sc \in {-1, 0, 1}
    BY <2>3, <2>6 DEF StopCondition, Entries
  <2>11. e \in Entries /\ e.t \in Times /\ Toward(dir, e.t - T0) > 0 /\ Toward(dir, e.h) > 0
    <3>1. Toward(dir, t - T0) > 0
      BY <2>2, <2>7, <2>8, TimesAre DEF Toward, Times
    <3> QED BY <2>4, <2>8, <2>9, <2>10, <3>1, TimesAre DEF Entries
  <2>12. OuterOf(Initial) => OuterOf(EnterOuter(Initial, e))
    BY <2>11, OuterKept
  <2> QED BY <2>5, <2>12 DEF Saves
<1> QED BY <1>1, <1>2, StepGoes

-----------------------------------------------------------------------------
(* Where the integration restarts.                                           *)

LEMMA EntriesAre ==
  ASSUME NEW s \in Seq(Entries), NEW i \in 1 .. Len(s)
  PROVE  s[i] \in Entries /\ s[i].t \in Int /\ s[i].h \in Int
<1>1. s[i] \in Entries
  OBVIOUS
<1> QED BY <1>1 DEF Entries

\* The times of the saved states: those before and those after T0.
LEMMA OuterIs ==
  ASSUME OuterOf(Initial)
  PROVE  \E s \in Seq(Entries), n \in Nat, m \in Nat :
           /\ s = Initial.items /\ n = Len(s) /\ m \in 2 .. n - 1 /\ Divided(s, m)
           /\ Initial.cur \in 2 .. n - 1 /\ n >= 3
<1>1. PICK m \in 2 .. Len(Initial.items) - 1 : Divided(Initial.items, m)
  BY DEF OuterOf
<1>2. Initial.items \in Seq(Entries) /\ Len(Initial.items) \in Nat
  BY DEF OuterOf
<1> QED BY <1>1, <1>2 DEF OuterOf

LEMMA DividedIs ==
  ASSUME NEW s \in Seq(Entries), NEW n \in Nat, n = Len(s), NEW m \in 2 .. n - 1, Divided(s, m)
  PROVE  /\ \A i \in 1 .. n : s[i] \in Entries /\ s[i].t \in Int /\ s[i].h \in Int
         /\ s[1].t = -Inf /\ s[n].t = Inf /\ s[m].t = T0
         /\ \A i \in 2 .. m - 1 : s[i].t < T0 /\ s[i].t \in Times /\ s[i].h < 0
         /\ \A i \in m + 1 .. n - 1 : T0 < s[i].t /\ s[i].t \in Times /\ s[i].h > 0
<1>1. \A i \in 1 .. n : s[i] \in Entries /\ s[i].t \in Int /\ s[i].h \in Int
  BY EntriesAre
<1>2. s[1].t = -Inf /\ s[n].t = Inf /\ s[m].t = T0
  BY DEF Divided
<1>3. \A i \in 2 .. m - 1 : s[i].t \in Tmin .. T0 - 1 /\ s[i].h < 0
  BY DEF Divided
<1>4. \A i \in m + 1 .. n - 1 : s[i].t \in T0 + 1 .. Tmax /\ s[i].h > 0
  BY DEF Divided
<1>5. \A x \in Tmin .. T0 - 1 : x < T0 /\ x \in Times
  BY TimesAre DEF Times
<1>6. \A x \in T0 + 1 .. Tmax : T0 < x /\ x \in Times
  BY TimesAre DEF Times
<1> QED BY <1>1, <1>2, <1>3, <1>4, <1>5, <1>6

\* The loops over Initial end at a state not after t, and on its side of T0.
LEMMA SeekIs ==
  ASSUME OuterOf(Initial), NEW t \in Requests, NEW s \in Seq(Entries), s = Initial.items,
         NEW n \in Nat, n = Len(s), NEW m \in 2 .. n - 1, Divided(s, m)
  PROVE  /\ Seek(t) \in 1 .. n - 1 /\ s[Seek(t)].t <= t
         /\ T0 <= t => m <= Seek(t)
         /\ t < T0 => Seek(t) < m
<1>1. PICK c \in 2 .. n - 1 : c = Initial.cur
  BY DEF OuterOf
<1>2. PICK z \in [1 .. n -> Int] : z = [i \in 1 .. n |-> s[i].t]
  BY DividedIs
<1>3. /\ \A i \in 1 .. n : z[i] = s[i].t
      /\ z[1] = -Inf /\ z[n] = Inf /\ z[m] = T0
      /\ \A i \in 2 .. m - 1 : z[i] < T0
      /\ \A i \in m + 1 .. n - 1 : T0 < z[i]
  <2>1. \A i \in 1 .. n : z[i] = s[i].t
    BY <1>2
  <2>2. 1 \in 1 .. n /\ n \in 1 .. n /\ m \in 1 .. n
    OBVIOUS
  <2>3. \A i \in 2 .. m - 1 : i \in 1 .. n
    OBVIOUS
  <2>4. \A i \in m + 1 .. n - 1 : i \in 1 .. n
    OBVIOUS
  <2> QED BY <2>1, <2>2, <2>3, <2>4, DividedIs, ZenonT(30)
<1>4. t \in Int /\ -Inf < t /\ t < Inf /\ T0 \in Int /\ Inf \in Nat
  BY TimesAre
<1>5. PICK up : up = IF z[c] < t THEN Least({i \in c .. n : t <= z[i]}) ELSE c
  OBVIOUS
<1>6. up \in c .. n /\ (z[c] < t => t <= z[up])
  <2>1. CASE z[c] < t
    <3> DEFINE S == {i \in c .. n : t <= z[i]}
    <3>1. S \in SUBSET Nat /\ n \in S
      BY <1>3, <1>4
    <3>2. Least(S) \in S
      <4> HIDE DEF S
      <4> QED BY <3>1, LeastIs
    <3> QED BY <1>5, <2>1, <3>2
  <2>2. CASE ~ (z[c] < t)
    BY <1>5, <2>2
  <2> QED BY <2>1, <2>2
<1>7. T0 <= t => m <= up
  <2>1. CASE z[c] < t
    BY <1>3, <1>4, <1>6, <2>1, SMTT(30)
  <2>2. CASE ~ (z[c] < t)
    <3>1. c < m => z[c] < T0
      <4>1. c < m => c \in 2 .. m - 1
        OBVIOUS
      <4> QED BY <1>3, <4>1
    <3>2. z[c] \in Int
      OBVIOUS
    <3> QED BY <1>4, <1>6, <2>2, <3>1, <3>2
  <2> QED BY <2>1, <2>2
<1> DEFINE U == {i \in 1 .. up : z[i] <= t}
<1>8. Seek(t) = Greatest(U)
  <2>1. {i \in c .. n : t <= z[i]} = {i \in c .. n : t <= s[i].t}
    BY <1>3
  <2>2. U = {i \in 1 .. up : s[i].t <= t}
    BY <1>3, <1>6
  <2>3. z[c] = s[c].t
    BY <1>3
  <2>4. up = IF s[c].t < t THEN Least({i \in c .. n : t <= s[i].t}) ELSE c
    BY <1>5, <2>1, <2>3
  <2> QED BY <1>1, <2>2, <2>4 DEF Seek, Current
<1>9. U \in SUBSET (0 .. up) /\ 1 \in U /\ up \in Nat
  BY <1>3, <1>4, <1>6
<1>10. Greatest(U) \in U /\ \A y \in U : y <= Greatest(U)
  <2> HIDE DEF U
  <2> QED BY <1>9, GreatestIs
<1>11. PICK p : p = Seek(t)
  OBVIOUS
<1>12. p \in 1 .. up /\ z[p] <= t
  BY <1>8, <1>10, <1>11
<1>13. T0 <= t => m <= p
  BY <1>3, <1>6, <1>7, <1>8, <1>10, <1>11
<1>14. p # n
  BY <1>3, <1>4, <1>12
<1>15. t < T0 => p < m
  <2>1. p \in m + 1 .. n - 1 => T0 < z[p]
    BY <1>3
  <2>2. p = m => z[p] = T0
    BY <1>3
  <2>3. p \in 1 .. n - 1 /\ z[p] \in Int
    BY <1>6, <1>12, <1>14
  <2> QED BY <1>4, <1>12, <2>1, <2>2, <2>3
<1> QED BY <1>3, <1>6, <1>11, <1>12, <1>13, <1>14, <1>15

\* A saved state that steps in direction d may start from.
StartOf(at, d) ==
  /\ at \in 2 .. Len(Initial.items) - 1
  /\ Initial.items[at].t \in Times
  /\ Toward(d, Initial.items[at].t - T0) >= 0
  /\ Initial.items[at].t # T0 => Toward(d, Initial.items[at].h) > 0

LEMMA StartIs ==
  ASSUME NEW s \in Seq(Entries), s = Initial.items, NEW d \in {-1, 1},
         NEW n \in Nat, n = Len(s), NEW m \in 2 .. n - 1, Divided(s, m),
         NEW at \in 2 .. n - 1, IF d > 0 THEN m <= at ELSE at <= m
  PROVE  StartOf(at, d)
<1>1. PICK e : e = s[at]
  OBVIOUS
<1>2. e.t \in Int /\ e.h \in Int
  BY <1>1, DividedIs
<1>3. CASE at = m
  <2>1. e.t = T0
    BY <1>1, <1>3, DividedIs
  <2> QED BY <1>1, <2>1, TimesAre DEF StartOf, Toward, Times
<1>4. CASE at < m
  <2>1. at \in 2 .. m - 1 /\ d = -1
    BY <1>4
  <2>2. e.t < T0 /\ e.t \in Times /\ e.h < 0
    BY <1>1, <2>1, DividedIs
  <2> QED BY <1>1, <1>2, <2>1, <2>2, TimesAre, SMTT(30) DEF StartOf, Toward
<1>5. CASE at > m
  <2>1. at \in m + 1 .. n - 1 /\ d = 1
    BY <1>5
  <2>2. T0 < e.t /\ e.t \in Times /\ e.h > 0
    BY <1>1, <2>1, DividedIs
  <2> QED BY <1>1, <1>2, <2>1, <2>2, TimesAre, SMTT(30) DEF StartOf, Toward
<1> QED BY <1>3, <1>4, <1>5

LEMMA RestartIs ==
  ASSUME OuterOf(Initial), NEW t \in Requests, NEW op \in {"Integrate", "Forward", "Backward"},
         NEW d, d = IF t > T0 \/ (t = T0 /\ op = "Forward") THEN 1 ELSE -1,
         op = "Integrate" => t # T0
  PROVE  StartOf(RestartAt(op, t, d), d)
<1>1. PICK s \in Seq(Entries), n \in Nat, m \in Nat :
        s = Initial.items /\ n = Len(s) /\ m \in 2 .. n - 1 /\ Divided(s, m)
  BY OuterIs
<1>2. PICK p : p = Seek(t)
  OBVIOUS
<1>3. PICK x : x = s[p].t
  OBVIOUS
<1>4. /\ p \in 1 .. n - 1 /\ x <= t /\ x \in Int
      /\ T0 <= t => m <= p
      /\ t < T0 => p < m
  BY <1>1, <1>2, <1>3, SeekIs, EntriesAre
<1>5. t \in Int /\ T0 \in Int /\ -Inf < t
  BY TimesAre
<1>6. /\ p = m => x = T0
      /\ p = 1 => x = -Inf
      /\ m < p => T0 < x
      /\ p < m => x < T0
  <2>1. -Inf < T0
    <3>1. T0 \in Times
      BY TimesAre DEF Times
    <3> QED BY <3>1, TimesAre
  <2>2. /\ s[1].t = -Inf /\ s[m].t = T0
        /\ \A i \in 2 .. m - 1 : s[i].t < T0
        /\ \A i \in m + 1 .. n - 1 : T0 < s[i].t
    BY <1>1, DividedIs
  <2>3. p = m => x = T0
    BY <1>3, <2>2
  <2>4. p = 1 => x = -Inf
    BY <1>3, <2>2
  <2>5. m < p => T0 < x
    <3>1. m < p => p \in m + 1 .. n - 1
      BY <1>1, <1>4
    <3> QED BY <1>3, <2>2, <3>1
  <2>6. p < m => x < T0
    <3>1. p < m /\ p # 1 => p \in 2 .. m - 1
      BY <1>1, <1>4
    <3> QED BY <1>3, <2>1, <2>2, <2>4, <3>1
  <2> QED BY <2>3, <2>4, <2>5, <2>6
<1>7. RestartAt(op, t, d) =
        CASE op = "Integrate" -> IF d < 0 /\ x # T0 /\ x # t THEN p + 1 ELSE p
          [] op = "Forward"   -> IF d < 0 THEN p + 1 ELSE p
          [] op = "Backward"  -> IF d > 0 /\ x = t THEN p - 1
                                 ELSE IF d < 0 /\ x # t THEN p + 1 ELSE p
  BY <1>1, <1>2, <1>3 DEF RestartAt
<1>8. /\ RestartAt(op, t, d) \in 2 .. n - 1
      /\ IF d > 0 THEN m <= RestartAt(op, t, d) ELSE RestartAt(op, t, d) <= m
  <2>1. CASE d = 1
    <3>1. T0 <= t /\ m <= p /\ (op # "Forward" => T0 < t)
      BY <1>4, <1>5, <2>1
    <3>2. op = "Backward" /\ x = t => m < p
      BY <1>6, <3>1, <1>4
    <3> QED BY <1>1, <1>4, <1>7, <2>1, <3>1, <3>2
  <2>2. CASE d = -1
    <3>1. t <= T0 /\ (op # "Backward" => t < T0)
      BY <1>5, <2>2
    <3>2. p <= m
      BY <1>4, <1>5, <1>6, <3>1
    <3>3. x = t => p # 1
      BY <1>5, <1>6
    <3>4. x # t => p < m
      BY <1>4, <1>5, <1>6, <3>1, <3>2
    <3>5. x # T0
      => p < m
      BY <1>6, <3>2, <1>4
    <3>6. t < T0 => p < m
      BY <1>4
    <3> QED BY <1>1, <1>4, <1>7, <2>2, <3>1, <3>2, <3>3, <3>4, <3>6
  <2> QED BY <1>5, <2>1, <2>2
<1>9. d \in {-1, 1}
  OBVIOUS
<1> QED BY <1>1, <1>8, <1>9, StartIs

\* Find's loops do not leave the saved states.
LEMMA FindSeekIs ==
  ASSUME OuterOf(Initial), NEW v \in Requests, NEW s \in Seq(Entries), s = Initial.items,
         NEW n \in Nat, n = Len(s), NEW m \in 2 .. n - 1, Divided(s, m)
  PROVE  /\ FindSeek(v) \in 2 .. n - 1
         /\ T0 < v => m <= FindSeek(v)
         /\ v < T0 => FindSeek(v) <= m
<1>1. PICK c \in 2 .. n - 1 : c = Initial.cur
  BY DEF OuterOf
<1>2. PICK z \in [1 .. n -> Int] : z = [i \in 1 .. n |-> s[i].t]
  BY DividedIs
<1>3. /\ \A i \in 1 .. n : z[i] = s[i].t
      /\ z[m] = T0
      /\ \A i \in 2 .. m - 1 : z[i] < T0
      /\ \A i \in m + 1 .. n - 1 : T0 < z[i]
  <2>1. \A i \in 1 .. n : z[i] = s[i].t
    BY <1>2
  <2>2. m \in 1 .. n
    OBVIOUS
  <2>3. \A i \in 2 .. m - 1 : i \in 1 .. n
    OBVIOUS
  <2>4. \A i \in m + 1 .. n - 1 : i \in 1 .. n
    OBVIOUS
  <2> QED BY <2>1, <2>2, <2>3, <2>4, DividedIs
<1>4. v \in Int /\ T0 \in Int
  BY TimesAre
<1> DEFINE S == {i \in 2 .. n - 1 : v <= z[i]} \cup {n - 1}
<1>5. PICK up : up = IF z[c] < v THEN Least(S) ELSE c
  OBVIOUS
<1>6. up \in 2 .. n - 1 /\ (T0 < v => m <= up)
  <2>1. CASE z[c] < v
    <3>1. S \in SUBSET Nat /\ S # {}
      OBVIOUS
    <3>2. Least(S) \in S
      <4> HIDE DEF S
      <4> QED BY <3>1, LeastIs
    <3>3. up \in 2 .. n - 1 /\ (up = n - 1 \/ v <= z[up])
      BY <1>5, <2>1, <3>2
    <3>4. up < m => z[up] < T0
      <4>1. up < m => up \in 2 .. m - 1
        BY <3>3
      <4> QED BY <1>3, <4>1
    <3>5. z[up] \in Int
      BY <3>3
    <3> QED BY <1>4, <3>3, <3>4, <3>5
  <2>2. CASE ~ (z[c] < v)
    <3>1. c < m => z[c] < T0
      <4>1. c < m => c \in 2 .. m - 1
        OBVIOUS
      <4> QED BY <1>3, <4>1
    <3>2. z[c] \in Int
      OBVIOUS
    <3> QED BY <1>4, <1>5, <2>2, <3>1, <3>2
  <2> QED BY <2>1, <2>2
<1> DEFINE U == {i \in 2 .. up : z[i] <= v} \cup {2}
<1>7. FindSeek(v) = Greatest(U)
  <2>1. S = {i \in 2 .. n - 1 : v <= s[i].t} \cup {n - 1}
    BY <1>3
  <2>2. U = {i \in 2 .. up : s[i].t <= v} \cup {2}
    BY <1>3, <1>6
  <2>3. z[c] = s[c].t
    BY <1>3
  <2>4. up = IF s[c].t < v THEN Least({i \in 2 .. n - 1 : v <= s[i].t} \cup {n - 1}) ELSE c
    BY <1>5, <2>1, <2>3
  <2>5. (IF Initial.cur = 1 THEN 2 ELSE Initial.cur) = c
    BY <1>1
  <2> HIDE DEF S, U
  <2> QED BY <1>1, <2>2, <2>4, <2>5 DEF FindSeek
<1>8. U \in SUBSET (0 .. up) /\ 2 \in U /\ up \in Nat
  BY <1>6
<1>9. Greatest(U) \in U /\ \A y \in U : y <= Greatest(U)
  <2> HIDE DEF U
  <2> QED BY <1>8, GreatestIs
<1>10. PICK p : p = FindSeek(v)
  OBVIOUS
<1>11. p \in 2 .. up /\ (p = 2 \/ z[p] <= v)
  BY <1>6, <1>7, <1>9, <1>10
<1>12. T0 < v => m <= p
  <2>1. T0 < v => m \in U
    BY <1>3, <1>4, <1>6
  <2> QED BY <1>7, <1>9, <1>10, <2>1
<1>13. v < T0 => p <= m
  <2>1. p \in m + 1 .. n - 1 => T0 < z[p]
    BY <1>3
  <2>2. p \in 2 .. n - 1 /\ z[p] \in Int
    BY <1>6, <1>11
  <2> QED BY <1>4, <1>11, <2>1, <2>2
<1> QED BY <1>6, <1>10, <1>11, <1>12, <1>13

LEMMA FindRestartIs ==
  ASSUME OuterOf(Initial), NEW v \in Requests, NEW d, d = IF v > T0 THEN 1 ELSE -1, v # T0
  PROVE  StartOf(FindRestartAt(v, d), d)
<1>1. PICK s \in Seq(Entries), n \in Nat, m \in Nat :
        s = Initial.items /\ n = Len(s) /\ m \in 2 .. n - 1 /\ Divided(s, m)
  BY OuterIs
<1>2. PICK p : p = FindSeek(v)
  OBVIOUS
<1>3. PICK x : x = s[p].t
  OBVIOUS
<1>4. p \in 2 .. n - 1 /\ (T0 < v => m <= p) /\ (v < T0 => p <= m)
  BY <1>1, <1>2, FindSeekIs
<1>5. p = m => x = T0
  BY <1>1, <1>3, DividedIs
<1>6. FindRestartAt(v, d) = IF d < 0 /\ x # T0 /\ x # v THEN p + 1 ELSE p
  BY <1>1, <1>2, <1>3 DEF FindRestartAt
<1>7. v \in Int /\ T0 \in Int
  BY TimesAre
<1>8. /\ FindRestartAt(v, d) \in 2 .. n - 1
      /\ IF d > 0 THEN m <= FindRestartAt(v, d) ELSE FindRestartAt(v, d) <= m
  <2>1. CASE T0 < v
    BY <1>1, <1>4, <1>6, <1>7, <2>1
  <2>2. CASE v < T0
    BY <1>1, <1>4, <1>5, <1>6, <1>7, <2>2
  <2> QED BY <1>7, <2>1, <2>2
<1>9. d \in {-1, 1}
  OBVIOUS
<1> QED BY <1>1, <1>8, <1>9, StartIs

-----------------------------------------------------------------------------
(* The inductive invariant.                                                  *)

\* No time is looked for by a value where stops may be met: after a failed
\* recall the ring would restart from a time that was never reached.
FindIgnoresStops == "Find" \in Ops => NeverStop

Running == call.phase \in {"trial", "longer", "loop", "retrace"}

\* A call is a record, and a loop has a direction and saved states to run from;
\* only a known interval is retraced, and the trial steps run in a new ring.
CallInv ==
  /\ call = [phase |-> call.phase, op |-> call.op, t |-> call.t, status |-> call.status,
             steps |-> call.steps, find |-> NoValue, sync |-> call.sync]
  /\ call.phase \in {"idle", "trial", "longer", "loop", "retrace"}
  /\ Running => dir \in {-1, 1}
  /\ init \/ Running => OuterOf(Initial)
  /\ call.phase = "trial" => cach0 = 0 /\ cach1 = 0
  /\ call.phase = "longer" => /\ call.steps \in Nat \ {0} /\ InitH \in Longer(call.steps)
                              /\ Onward(dir, Cache[0])
  /\ call.phase = "retrace" => n_steps = -1 /\ Initial.cur + dir \in 2 .. Len(Initial.items) - 1

\* Without a stop condition there are no stops.
NoStops ==
  NeverStop => Stops = [items |-> Stops.items, cur |-> Stops.cur] /\ Len(Stops.items) \in 0 .. 2

IInv == CallInv /\ RingInv /\ NoStops

LEMMA StopsUnknown ==
  ASSUME NoStops, NeverStop, NEW op, NEW t
  PROVE  ~StopsKnown /\ StopAhead(op, t) = [stop |-> FALSE, list |-> Stops]
<1>1. ~StopsKnown
  BY DEF NoStops, StopsKnown
<1> QED BY <1>1 DEF StopAhead

LEMMA StartsAre ==
  /\ 0 \in Slots /\ NextCache(0) # 0 /\ NextCache(0) \in Slots
  /\ Minus \in Entries /\ First \in Entries /\ Plus \in Entries
<1>1. 0 \in Slots /\ NCache >= 2 /\ NCache \in Nat
  BY ODEAssumption DEF Slots
<1> QED BY <1>1, NextSlot, TimesAre DEF Minus, First, Plus, Entries, StopCondition

LEMMA Inits == Init => IInv
<1> SUFFICES ASSUME Init PROVE IInv
  OBVIOUS
<1>1. PICK sc \in [Slots -> IF NeverStop THEN {0} ELSE {-1, 0, 1}] :
        Cache = [i \in Slots |-> [t |-> Inf, h |-> 0, sc |-> sc[i]]]
  BY DEF Init
<1>2. Cache \in [Slots -> Entries]
  <2>1. \A i \in Slots : sc[i] \in {-1, 0, 1}
    OBVIOUS
  <2>2. \A i \in Slots : [t |-> Inf, h |-> 0, sc |-> sc[i]] \in Entries
    BY <2>1, TimesAre DEF Entries
  <2> QED BY <1>1, <2>2
<1>3. /\ dir = 0 /\ n_steps = 0 /\ init = FALSE /\ InitH = 0
      /\ Stops = EmptyL /\ call = Idle
  BY DEF Init
<1> QED BY <1>2, <1>3 DEF IInv, CallInv, RingInv, NoStops, Running, Idle, EmptyL

\* Where a call ends with the ring and the saved states as they were.
LEMMA EndKeeps ==
  ASSUME IInv, call' = Idle, UNCHANGED <<Cache, cach0, cach1, dir, n_steps, InitH, Initial>>,
         init' = init \/ OuterOf(Initial), NoStops'
  PROVE  IInv'
<1>1. CallInv'
  BY DEF IInv, CallInv, Running, Idle
<1>2. RingInv'
  BY DEF IInv, RingInv
<1> QED BY <1>1, <1>2 DEF IInv

LEMMA InitializeKeeps ==
  ASSUME IInv, NEW dt \in Dts, Initialize(dt)
  PROVE  IInv'
<1>1. dt \in Int
  BY ODEAssumption
<1>2. Initial' = [items |-> <<Minus, First, Plus>>, cur |-> 2]
  BY DEF Initialize
<1>3. OuterOf(Initial')
  <2>1. PICK s : s = <<Minus, First, Plus>>
    OBVIOUS
  <2>2. s \in Seq(Entries) /\ Len(s) = 3 /\ s[1] = Minus /\ s[2] = First /\ s[3] = Plus
    BY <2>1, StartsAre
  <2>3. Divided(s, 2)
    BY <2>2 DEF Divided, Minus, First, Plus
  <2> QED BY <1>2, <2>1, <2>2, <2>3 DEF OuterOf
<1>4. NoStops'
  <2>1. NeverStop => FirstStops = [items |-> <<-Inf, Inf>>, cur |-> 2]
    BY DEF FirstStops
  <2> QED BY <2>1 DEF Initialize, NoStops
<1>5. CASE dt = 0
  <2>1. CallInv'
    BY <1>3, <1>5 DEF Initialize, IInv, CallInv, Running, IsIdle, ring
  <2>2. RingInv'
    BY <1>5 DEF Initialize, IInv, RingInv, ring, Abs
  <2> QED BY <1>4, <2>1, <2>2 DEF IInv
<1>6. CASE dt # 0
  <2>1. /\ Cache' = [Cache EXCEPT ![0] = [First EXCEPT !.h = dt]] /\ cach0' = 0 /\ cach1' = 0
        /\ dir' = (IF dt > 0 THEN 1 ELSE -1) /\ n_steps' = 0 /\ InitH' = Abs(dt)
        /\ call' = [Idle EXCEPT !.phase = "trial", !.t = T0 + dt]
    BY <1>6 DEF Initialize
  <2>2. CallInv'
    BY <1>1, <1>3, <1>6, <2>1 DEF CallInv, Running, Idle
  <2>3. /\ Cache' \in [Slots -> Entries] /\ Cache'[0].t = T0 /\ Cache'[0].h = dt
    BY <1>1, <2>1, StartsAre DEF IInv, RingInv, Entries, First
  <2>4. dir' \in {-1, 1} /\ Toward(dir', dt) > 0 /\ Toward(dir', T0 - T0) >= 0 /\ Abs(dt) \in Nat
    BY <1>1, <1>6, <2>1, TimesAre DEF Toward, Abs
  <2>5. RingOf(Cache', 0, 0, dir')
    BY <2>3, <2>4, StartsAre, TimesAre, RingOfOne DEF Times
  <2>6. RingInv'
    BY <2>1, <2>3, <2>4, <2>5 DEF RingInv
  <2> QED BY <1>4, <2>2, <2>6 DEF IInv
<1> QED BY <1>5, <1>6

\* The ring and the saved states after a step that the call goes on from.
LEMMA SteppedKeeps ==
  ASSUME IInv, dir \in {-1, 1}, UNCHANGED <<dir, InitH>>, NEW t_request, NEW ignore,
         NEW r \in Step(t_request, ignore), Stepped(r), cach0' = r.cach0, cach1' = r.cach1
  PROVE  /\ RingInv'
         /\ OuterOf(Initial) => OuterOf(Initial')
         /\ n_steps = -1 => n_steps' = -1 /\ Initial' = Initial
<1>1. Cache' = r.Cache /\ n_steps' = r.n_steps /\ Initial' = r.Initial
  BY DEF Stepped
<1>2. RingInv
  BY DEF IInv
<1>3. /\ r.Cache \in [Slots -> Entries] /\ r.n_steps \in Int
      /\ RingOf(r.Cache, r.cach0, r.cach1, dir)
  BY <1>2, StepRing
<1>4. RingInv'
  BY <1>1, <1>2, <1>3 DEF RingInv
<1> QED BY <1>1, <1>2, <1>4, StepOuter

LEMMA ResyncKeeps ==
  ASSUME NoStops, NeverStop, NEW t
  PROVE  LET R == ResyncStops(Stops, t)
         IN  R = [items |-> R.items, cur |-> R.cur] /\ Len(R.items) \in 0 .. 2
BY DEF NoStops, ResyncStops

LEMMA TrialStepKeeps ==
  ASSUME IInv, TrialStep
  PROVE  IInv'
<1>1. PICK r \in Step(call.t, IgnoreStop) :
        LET h == Abs(r.Cache[0].h)
        IN  /\ Stepped(r)
            /\ \/ /\ r.status \notin {"OK", "STOP_CONDITION"}
                  /\ cach0' = r.cach0 /\ cach1' = r.cach1 /\ Stops' = r.Stops
                  /\ call' = Idle
                  /\ UNCHANGED <<cache, init, InitH>>
               \/ /\ r.status \in {"OK", "STOP_CONDITION"} /\ ~CanGrow(h)
                  /\ InitH' = h
                  /\ Initialized(r.cach0, r.cach1, r.Stops)
               \/ /\ r.status \in {"OK", "STOP_CONDITION"} /\ CanGrow(h)
                  /\ InitH' \in Longer(h)
                  /\ cach0' = r.cach0 /\ cach1' = r.cach1 /\ Stops' = r.Stops
                  /\ call' = [call EXCEPT !.phase = "longer", !.t = T0 + dir * InitH', !.steps = h]
                  /\ UNCHANGED <<cache, init>>
  BY DEF TrialStep
<1>2. PICK h : h = Abs(r.Cache[0].h)
  OBVIOUS
<1>3. /\ call.phase = "trial" /\ UNCHANGED dir /\ cach0 = 0 /\ cach1 = 0
      /\ dir \in {-1, 1} /\ OuterOf(Initial) /\ RingInv /\ InitH \in Nat
  BY DEF TrialStep, IInv, CallInv, RingInv, Running
<1>4. Cache' = r.Cache /\ n_steps' = r.n_steps /\ Initial' = r.Initial
  BY <1>1 DEF Stepped
<1>5. /\ r.Cache \in [Slots -> Entries] /\ r.n_steps \in Int
      /\ RingOf(r.Cache, r.cach0, r.cach1, dir)
      /\ r.cach0 = 0
      /\ r.status \in {"OK", "STOP_CONDITION"} => Toward(dir, r.Cache[0].h) > 0
  BY <1>3, StepRing, StartsAre
<1>6. r.status \in {"OK", "STOP_CONDITION"} => h \in Nat \ {0}
  <2>1. r.Cache[0].h \in Int
    BY <1>5, StartsAre DEF Entries
  <2> QED BY <1>2, <1>5, <2>1 DEF Toward, Abs
<1>7. OuterOf(Initial') /\ (NeverStop => r.Stops = Stops)
  BY <1>3, <1>4, StepOuter
<1>8. cach0' = r.cach0 /\ cach1' = r.cach1
  BY <1>1 DEF Initialized
<1>9. InitH' \in Nat
  BY <1>1, <1>2, <1>3, <1>6 DEF Longer
<1>10. RingInv'
  BY <1>3, <1>4, <1>5, <1>8, <1>9 DEF RingInv
<1>11. NoStops'
  <2>1. NeverStop => Stops' = Stops \/ Stops' = ResyncStops(Stops, t_last)
    BY <1>1, <1>7 DEF Initialized
  <2> QED BY <2>1, ResyncKeeps DEF NoStops, IInv
<1>12. CallInv'
  <2>1. CASE call' = Idle
    BY <1>7, <2>1 DEF CallInv, Idle, Running
  <2>2. CASE /\ InitH' \in Longer(h) /\ r.status \in {"OK", "STOP_CONDITION"}
             /\ call' = [call EXCEPT !.phase = "longer", !.t = T0 + dir * InitH', !.steps = h]
    <3>1. h \in Nat \ {0} /\ InitH' \in Longer(h)
      BY <1>6, <2>2
    <3>2. PICK x : x = T0 + dir * InitH'
      OBVIOUS
    <3>3. call' = [call EXCEPT !.phase = "longer", !.t = x, !.steps = h]
      BY <2>2, <3>2
    <3>4. PICK o, u, y, k, z : call = [phase |-> "trial", op |-> o, t |-> u, status |-> y,
                                       steps |-> k, find |-> NoValue, sync |-> z]
      BY <1>3 DEF IInv, CallInv
    <3>5. call' = [phase |-> "longer", op |-> o, t |-> x, status |-> y, steps |-> h,
                   find |-> NoValue, sync |-> z]
      BY <3>3, <3>4
    <3>6. Onward(dir', Cache'[0])
      <4>1. Onward(dir, Cache[0])
        BY <1>3, StartsAre DEF RingInv, RingOf, InRing, Onward
      <4> QED BY <1>3, <1>4, <4>1, StepRing, StartsAre
    <3> QED BY <1>3, <1>7, <3>1, <3>5, <3>6 DEF CallInv, Running
  <2> QED BY <1>1, <1>2, <2>1, <2>2, SMTT(30) DEF Initialized
<1> QED BY <1>10, <1>11, <1>12 DEF IInv

\* A longer length that is not taken gives way to half of it, the length of the
\* trial step at the least.
LEMMA LongerIs ==
  ASSUME NEW h \in Nat \ {0}, NEW H \in Longer(h)
  PROVE  /\ H \in Nat \ {0} /\ H <= MaxStep /\ H \div 2 \in Nat \ {0}
         /\ IF H \div 2 > h THEN H \div 2 \in Longer(h) ELSE H \div 2 = h
<1>1. MaxStep \in Nat
  BY TimesAre
<1>2. PICK m \in {2, 4, 8, 16, 32, 64, 128} : H = h * m
  BY DEF Longer
<1>3. H \in 1 .. MaxStep
  BY DEF Longer
<1>4. CASE m = 2
  BY <1>1, <1>2, <1>3, <1>4
<1>5. ASSUME NEW k \in {2, 4, 8, 16, 32, 64}, m = 2 * k
      PROVE  H \div 2 = h * k /\ H \div 2 \in Longer(h) /\ H \div 2 > h
  <2>1. H = 2 * (h * k) /\ h * k \in Nat /\ h * k > h
    BY <1>2, <1>5
  <2>2. H \div 2 = h * k
    BY <2>1
  <2>3. h * k \in 1 .. MaxStep
    BY <1>1, <1>3, <2>1
  <2> QED BY <2>1, <2>2, <2>3 DEF Longer
<1>6. CASE m # 2
  <2>1. \E k \in {2, 4, 8, 16, 32, 64} : m = 2 * k
    BY <1>6
  <2> QED BY <1>1, <1>3, <1>5, <2>1
<1> QED BY <1>4, <1>6

\* A step of the length InitH that is not taken, and half of it is tried next.
TriesHalf(r) ==
  /\ r.status # "OK" /\ InitH' \in Longer(call.steps)
  /\ Stepped(r)
  /\ cach0' = r.cach0 /\ cach1' = r.cach1 /\ Stops' = r.Stops
  /\ call' = [call EXCEPT !.t = T0 + dir * InitH']
  /\ UNCHANGED <<cache, init, dir, IgnoreStop, t_last, ans>>

\* The length is found.
TakesLength(r) ==
  /\ InitH' = IF r.status = "OK" THEN InitH ELSE call.steps
  /\ Stepped([r EXCEPT !.Cache[0].h = dir * InitH'])
  /\ Initialized(0, 0, FirstStops)
  /\ UNCHANGED <<dir, IgnoreStop, t_last, ans>>

LEMMA LongerGoes ==
  ASSUME IInv, LongerStep
  PROVE  /\ \E r \in Step(call.t, IgnoreStop) : TriesHalf(r) \/ TakesLength(r)
         /\ call.phase = "longer" /\ dir \in {-1, 1} /\ OuterOf(Initial) /\ Onward(dir, Cache[0])
         /\ call.steps \in Nat \ {0} /\ InitH \in Longer(call.steps)
         /\ InitH \in Nat \ {0} /\ InitH <= MaxStep
<1>1. PICK r \in Step(call.t, IgnoreStop) :
        LET H == NextLength(r)
        IN  /\ InitH' = H
            /\ \/ /\ r.status # "OK" /\ H > call.steps
                  /\ Stepped(r)
                  /\ cach0' = r.cach0 /\ cach1' = r.cach1 /\ Stops' = r.Stops
                  /\ call' = [call EXCEPT !.t = T0 + dir * H]
                  /\ UNCHANGED <<cache, init>>
               \/ /\ r.status = "OK" \/ H <= call.steps
                  /\ Stepped([r EXCEPT !.Cache[0].h = dir * H])
                  /\ Initialized(0, 0, FirstStops)
  BY DEF LongerStep
<1>2. /\ call.phase = "longer" /\ dir \in {-1, 1} /\ OuterOf(Initial) /\ Onward(dir, Cache[0])
      /\ call.steps \in Nat \ {0} /\ InitH \in Longer(call.steps)
      /\ UNCHANGED <<dir, IgnoreStop, t_last, ans>>
  BY DEF LongerStep, IInv, CallInv, Running
<1>3. /\ InitH \in Nat \ {0} /\ InitH <= MaxStep /\ InitH \div 2 \in Nat \ {0}
      /\ IF InitH \div 2 > call.steps THEN InitH \div 2 \in Longer(call.steps)
         ELSE InitH \div 2 = call.steps
  BY <1>2, LongerIs
<1>4. InitH' = NextLength(r)
  BY <1>1
<1>5. CASE r.status # "OK" /\ NextLength(r) > call.steps
  <2>1. InitH' \in Longer(call.steps)
    BY <1>3, <1>4, <1>5 DEF NextLength
  <2>2. ~(NextLength(r) <= call.steps)
    BY <1>2, <1>3, <1>5 DEF NextLength
  <2> QED BY <1>1, <1>2, <1>3, <1>4, <1>5, <2>1, <2>2 DEF TriesHalf
<1>6. CASE ~(r.status # "OK" /\ NextLength(r) > call.steps)
  <2>1. InitH' = IF r.status = "OK" THEN InitH ELSE call.steps
    BY <1>3, <1>4, <1>6 DEF NextLength
  <2> QED BY <1>1, <1>2, <1>3, <1>4, <1>6, <2>1 DEF TakesLength
<1> QED BY <1>5, <1>6

\* The phases behind a trial step.
LEMMA TrialPhase ==
  ASSUME IInv, TrialStep
  PROVE  call'.phase \in {"idle", "longer"}
<1>1. PICK h, t : call' = Idle \/ call' = [call EXCEPT !.phase = "longer", !.t = t, !.steps = h]
  BY Zenon DEF TrialStep, Initialized
<1>2. CASE call' = Idle
  BY <1>2 DEF Idle
<1>3. CASE call' = [call EXCEPT !.phase = "longer", !.t = t, !.steps = h]
  BY <1>3 DEF IInv, CallInv
<1> QED BY <1>1, <1>2, <1>3

\* The phases behind a longer first step.
LEMMA LongerPhase ==
  ASSUME IInv, LongerStep
  PROVE  call'.phase \in {"idle", "longer"}
<1>1. PICK r : TriesHalf(r) \/ TakesLength(r)
  BY LongerGoes
<1>2. CASE TriesHalf(r)
  <2>1. call.phase = "longer" /\ call' = [call EXCEPT !.t = T0 + dir * InitH']
    BY <1>2, LongerGoes DEF TriesHalf
  <2> QED BY <2>1 DEF IInv, CallInv
<1>3. CASE TakesLength(r)
  BY <1>3 DEF TakesLength, Initialized, Idle
<1> QED BY <1>1, <1>2, <1>3

LEMMA LongerStepKeeps ==
  ASSUME IInv, LongerStep
  PROVE  IInv'
<1>1. PICK r \in Step(call.t, IgnoreStop) : TriesHalf(r) \/ TakesLength(r)
  BY LongerGoes
<1>2. /\ call.phase = "longer" /\ dir \in {-1, 1} /\ OuterOf(Initial) /\ Onward(dir, Cache[0])
      /\ call.steps \in Nat \ {0} /\ InitH \in Nat \ {0} /\ RingInv
  BY LongerGoes DEF IInv
<1>3. /\ r.Cache \in [Slots -> Entries] /\ r.n_steps \in Int
      /\ RingOf(r.Cache, r.cach0, r.cach1, dir)
      /\ Onward(dir, r.Cache[0])
      /\ OuterOf(r.Initial) /\ (NeverStop => r.Stops = Stops)
  BY <1>2, StepRing, StepOuter, StartsAre
<1>4. CASE TriesHalf(r)
  <2>1. /\ InitH' \in Longer(call.steps)
        /\ Cache' = r.Cache /\ n_steps' = r.n_steps /\ Initial' = r.Initial
        /\ cach0' = r.cach0 /\ cach1' = r.cach1 /\ Stops' = r.Stops
        /\ UNCHANGED <<cache, init, dir>>
        /\ call' = [call EXCEPT !.t = T0 + dir * InitH']
    BY <1>4 DEF TriesHalf, Stepped
  <2>2. InitH' \in Nat
    BY <1>2, <2>1, LongerIs
  <2>3. RingInv'
    BY <1>2, <1>3, <2>1, <2>2 DEF RingInv
  <2>4. NoStops'
    BY <1>3, <2>1 DEF NoStops, IInv
  <2>5. CallInv'
    <3>1. PICK x : x = T0 + dir * InitH'
      OBVIOUS
    <3>2. PICK o, u, y, k, z : call = [phase |-> "longer", op |-> o, t |-> u, status |-> y,
                                       steps |-> k, find |-> NoValue, sync |-> z]
      BY <1>2 DEF IInv, CallInv
    <3>3. call' = [phase |-> "longer", op |-> o, t |-> x, status |-> y, steps |-> k,
                   find |-> NoValue, sync |-> z] /\ k = call.steps
      BY <2>1, <3>1, <3>2
    <3>4. /\ call'.phase = "longer" /\ call'.steps = call.steps
          /\ call' = [phase |-> call'.phase, op |-> call'.op, t |-> call'.t,
                      status |-> call'.status, steps |-> call'.steps, find |-> NoValue,
                      sync |-> call'.sync]
      BY <3>3
    <3>5. OuterOf(Initial)' /\ Onward(dir, Cache[0])' /\ dir' \in {-1, 1}
      BY <1>2, <1>3, <2>1
    <3>6. (InitH \in Longer(call.steps))' /\ call'.steps \in Nat \ {0}
      BY <1>2, <2>1, <3>4
    <3> QED BY <3>4, <3>5, <3>6 DEF CallInv, Running
  <2> QED BY <2>3, <2>4, <2>5 DEF IInv
<1>5. CASE TakesLength(r)
  <2>1. PICK H : H = InitH'
    OBVIOUS
  <2>2. H \in Nat \ {0} /\ UNCHANGED dir
    BY <1>2, <1>5, <2>1 DEF TakesLength
  <2>3. Cache' = [r.Cache EXCEPT ![0].h = dir * H] /\ n_steps' = r.n_steps /\ Initial' = r.Initial
    <3>1. /\ Cache' = [r EXCEPT !.Cache[0].h = dir * H].Cache
          /\ n_steps' = [r EXCEPT !.Cache[0].h = dir * H].n_steps
          /\ Initial' = [r EXCEPT !.Cache[0].h = dir * H].Initial
      BY <1>5, <2>1 DEF TakesLength, Stepped
    <3>2. {"Cache", "n_steps", "Initial"} \subseteq DOMAIN r
      BY StepGoes
    <3> QED BY <3>1, <3>2
  <2>4. /\ Cache' \in [Slots -> Entries] /\ Cache'[0].t = r.Cache[0].t /\ Cache'[0].h = dir * H
    <3>1. dir * H \in Int
      BY <1>2, <2>2
    <3> QED BY <1>3, <2>3, <3>1, StartsAre DEF Entries
  <2>5. RingOf(Cache', 0, 0, dir)
    <3>1. Toward(dir, dir * H) > 0
      BY <1>2, <2>2 DEF Toward
    <3> QED BY <1>2, <1>3, <2>4, <3>1, StartsAre, RingOfOne DEF Onward
  <2>6. cach0' = 0 /\ cach1' = 0 /\ call' = Idle
    BY <1>5 DEF TakesLength, Initialized
  <2>7. RingInv'
    BY <1>2, <1>3, <2>1, <2>2, <2>3, <2>4, <2>5, <2>6 DEF RingInv
  <2>8. CallInv'
    BY <1>3, <2>3, <2>6 DEF CallInv, Idle, Running
  <2>9. NoStops'
    <3>1. NeverStop => FirstStops = [items |-> <<-Inf, Inf>>, cur |-> 2]
      BY DEF FirstStops
    <3>2. Stops' = FirstStops \/ Stops' = ResyncStops(FirstStops, t_last)
      BY <1>5 DEF TakesLength, Initialized
    <3> QED BY <3>1, <3>2 DEF NoStops, ResyncStops
  <2> QED BY <2>7, <2>8, <2>9 DEF IInv
<1> QED BY <1>1, <1>4, <1>5

\* What a call leaves when it returns.
LEMMA ReturnIs ==
  ASSUME IInv, NEW op, NEW t, NEW status, NEW c, NEW L, Return(op, t, status, c, L),
         NeverStop => L = Stops
  PROVE  call' = Idle /\ NoStops'
<1>1. call' = Idle
  BY DEF Return, Finished, IInv, CallInv
<1>2. Stops' = L \/ Stops' = NextL(L) \/ \E x : Stops' = SyncStops(L, x)
  BY DEF Return
<1>3. ASSUME NeverStop
      PROVE  Stops' = [items |-> Stops'.items, cur |-> Stops'.cur] /\ Len(Stops'.items) \in 0 .. 2
  <2>1. Stops = [items |-> Stops.items, cur |-> Stops.cur] /\ Len(Stops.items) \in 0 .. 2
    BY <1>3 DEF IInv, NoStops
  <2>2. \E y : Stops' = [Stops EXCEPT !.cur = y]
    BY <1>2, <1>3, <2>1 DEF NextL, SyncStops
  <2> QED BY <2>1, <2>2
<1> QED BY <1>1, <1>3 DEF NoStops

LEMMA IgnoreStopKeeps ==
  ASSUME IInv, IgnoreStopOn \/ IgnoreStopOff
  PROVE  IInv'
<1>1. NoStops'
  BY ResyncKeeps DEF IInv, NoStops, IgnoreStopOn, IgnoreStopOff
<1>2. UNCHANGED <<Cache, cach0, cach1, dir, n_steps, init, InitH, Initial, call>>
  BY DEF IgnoreStopOn, IgnoreStopOff, ring, outer
<1> QED BY <1>1, <1>2 DEF IInv, CallInv, RingInv, Running

\* Who asks, and for what.
LEMMA AskedIs ==
  ASSUME IInv, NEW op, NEW t, Asked(op, t)
  PROVE  /\ init /\ call.phase = "idle" /\ OuterOf(Initial)
         /\ op \in {"Integrate", "Forward", "Backward"} /\ t \in Requests
BY ODEAssumption DEF Asked, IInv, CallInv, IsIdle

LEMMA StopAtKnownKeeps ==
  ASSUME IInv, NEW op, NEW t, StopAtKnown(op, t)
  PROVE  IInv'
<1>1. call' = Idle
  BY DEF StopAtKnown, Finished, IInv, CallInv
<1>2. NoStops'
  BY StopsUnknown DEF StopAtKnown, IInv, NoStops
<1>3. UNCHANGED <<Cache, cach0, cach1, dir, n_steps, InitH, Initial, init>>
  BY DEF StopAtKnown, ring, outer
<1> QED BY <1>1, <1>2, <1>3, EndKeeps

LEMMA WithinKeeps ==
  ASSUME IInv, NEW op, NEW t, Within(op, t)
  PROVE  IInv'
<1>1. PICK L : L = StopAhead(op, t).list
  OBVIOUS
<1>2. NeverStop => L = Stops
  BY <1>1, StopsUnknown DEF IInv
<1>3. Return(op, t, "OK", FindNeighbor(op, t), L)
  BY <1>1 DEF Within
<1>4. call' = Idle /\ NoStops'
  <2> HIDE <1>1
  <2> QED BY <1>2, <1>3, ReturnIs
<1>5. UNCHANGED <<Cache, cach0, cach1, dir, n_steps, InitH, Initial, init>>
  BY DEF Within, ring, outer
<1> QED BY <1>4, <1>5, EndKeeps

\* A loop begins with the ring as it is.
LEMMA LoopBegins ==
  ASSUME IInv, NEW phase \in {"loop", "retrace"}, NEW op, NEW t, NEW L, BeginLoop(phase, op, t, L),
         NeverStop => L = Stops, init, init' = init, OuterOf(Initial'), RingInv', dir' \in {-1, 1},
         phase = "retrace" => n_steps' = -1 /\ (Initial.cur + dir \in 2 .. Len(Initial.items) - 1)'
  PROVE  IInv'
<1>1. call' = [phase |-> phase, op |-> op, t |-> t, status |-> "ODE_BUG", steps |-> MaxSteps,
               find |-> NoValue, sync |-> call'.sync]
  BY DEF BeginLoop, IInv, CallInv
<1>2. CallInv'
  BY <1>1 DEF CallInv, Running
<1>3. NoStops'
  BY DEF BeginLoop, IInv, NoStops
<1> QED BY <1>2, <1>3 DEF IInv

LEMMA ExtendKeeps ==
  ASSUME IInv, NEW op, NEW t, Extend(op, t)
  PROVE  IInv'
<1>1. PICK L : L = StopAhead(op, t).list
  OBVIOUS
<1>2. NeverStop => L = Stops
  BY <1>1, StopsUnknown DEF IInv
<1>3. /\ BeginLoop("loop", op, t, L) /\ Asked(op, t) /\ dir # 0
      /\ UNCHANGED <<Cache, cach0, cach1, dir, n_steps, InitH, Initial, init>>
  BY <1>1 DEF Extend, ring, outer
<1>4. init /\ OuterOf(Initial)
  BY <1>3, AskedIs
<1>5. RingInv' /\ dir' \in {-1, 1}
  BY <1>3 DEF IInv, RingInv
<1> HIDE <1>1
<1> QED BY <1>2, <1>3, <1>4, <1>5, LoopBegins

\* Within the next outer interval that interval is known.
LEMMA NearIs ==
  ASSUME IInv, OuterOf(Initial), NEW t \in Requests, dir \in {-1, 1}, IsNear(t)
  PROVE  /\ Initial.cur + dir \in 2 .. Len(Initial.items) - 1
         /\ OuterOf(NextOuter)
<1>1. PICK s \in Seq(Entries), n \in Nat, m \in Nat :
        /\ s = Initial.items /\ n = Len(s) /\ m \in 2 .. n - 1 /\ Divided(s, m)
        /\ Initial.cur \in 2 .. n - 1 /\ n >= 3
  BY OuterIs
<1>2. PICK c \in 2 .. n - 1 : c = Initial.cur
  BY <1>1
<1>3. Offset(Initial, dir, FALSE) = c + dir
  BY <1>1, <1>2, SMTT(30) DEF Offset, IsCurrent
<1>4. dir * s[c + dir].t <= dir * t
  BY <1>1, <1>3 DEF IsNear, G
<1>5. t \in Int /\ -Inf < t /\ t < Inf /\ Inf \in Nat
  BY TimesAre
<1>6. c + dir # 1 /\ c + dir # n
  <2>1. s[1].t = -Inf /\ s[n].t = Inf
    BY <1>1, DividedIs
  <2>2. CASE dir = 1
    BY <1>2, <1>4, <1>5, <2>1, <2>2
  <2>3. CASE dir = -1
    BY <1>2, <1>4, <1>5, <2>1, <2>3
  <2> QED BY <2>2, <2>3
<1>7. c + dir \in 2 .. n - 1
  BY <1>6
<1>8. NextOuter = [items |-> s, cur |-> c + dir]
  BY <1>1, <1>2, <1>7 DEF NextOuter, NextL, PrevL, OuterOf
<1>9. OuterOf(NextOuter)
  BY <1>1, <1>7, <1>8 DEF OuterOf
<1> QED BY <1>1, <1>2, <1>7, <1>9

LEMMA NextOuterIs ==
  ASSUME OuterOf(Initial), dir \in {-1, 1}, Initial.cur + dir \in 2 .. Len(Initial.items) - 1
  PROVE  OuterOf(NextOuter)
<1>1. PICK s, c : Initial = [items |-> s, cur |-> c] /\ s \in Seq(Entries) /\ c \in 2 .. Len(s) - 1
  BY DEF OuterOf
<1>2. NextOuter = [items |-> s, cur |-> c + dir]
  BY <1>1 DEF NextOuter, NextL, PrevL
<1> QED BY <1>1, <1>2 DEF OuterOf

LEMMA KeepRingKeeps ==
  ASSUME IInv, NEW op, NEW t, KeepRing(op, t)
  PROVE  IInv'
<1>1. PICK L : L = StopAhead(op, t).list
  OBVIOUS
<1>2. NeverStop => L = Stops
  BY <1>1, StopsUnknown DEF IInv
<1>3. PICK phase : phase = IF AtLastOuter(2 * dir) THEN "retrace" ELSE "loop"
  OBVIOUS
<1>4. /\ BeginLoop(phase, op, t, L) /\ Asked(op, t) /\ dir # 0 /\ IsNear(t)
      /\ n_steps' = -1
      /\ Initial' = IF AtLastOuter(2 * dir) THEN Initial ELSE NextOuter
      /\ UNCHANGED <<Cache, cach0, cach1, dir, InitH, init>>
  BY <1>1, <1>3 DEF KeepRing, ring
<1>5. init /\ OuterOf(Initial) /\ t \in Requests
  BY <1>4, AskedIs
<1>6. RingInv' /\ dir \in {-1, 1} /\ dir' = dir
  BY <1>4 DEF IInv, RingInv
<1>7. Initial.cur + dir \in 2 .. Len(Initial.items) - 1 /\ OuterOf(NextOuter)
  BY <1>4, <1>5, <1>6, NearIs
<1>8. phase = "retrace" => n_steps' = -1 /\ (Initial.cur + dir \in 2 .. Len(Initial.items) - 1)'
  BY <1>3, <1>4, <1>6, <1>7
<1>9. phase \in {"loop", "retrace"} /\ OuterOf(Initial')
  BY <1>3, <1>4, <1>5, <1>7
<1> HIDE <1>1, <1>3
<1> QED BY <1>2, <1>4, <1>5, <1>6, <1>8, <1>9, LoopBegins

LEMMA NewRingKeeps ==
  ASSUME IInv, IsIdle, init, NEW op, NEW t \in Requests, NEW d \in {-1, 1}, NEW at, NEW L,
         NeverStop => L = Stops, (op \in {"Integrate", "Find"} /\ t = T0) \/ StartOf(at, d),
         NewRing(op, t, d, at, L)
  PROVE  IInv'
<1>1. PICK s : s = Initial.items[at]
  OBVIOUS
<1>2. PICK H : H = IF InitH = 0
                   THEN Lesser(MaxStep, IF Abs(t - T0) < 2 THEN 1 ELSE Abs(t - T0) \div 2)
                   ELSE InitH
  OBVIOUS
<1>3. H \in Nat \ {0}
  <2>1. t - T0 \in Int /\ Abs(t - T0) \in Nat
    BY TimesAre DEF Abs
  <2>2. Abs(t - T0) >= 2 => Abs(t - T0) \div 2 \in Nat \ {0}
    BY <2>1
  <2> QED BY <1>2, <2>1, <2>2, TimesAre DEF Lesser, IInv, RingInv
<1>4. OuterOf(Initial) /\ call.phase = "idle"
  BY DEF IInv, CallInv, IsIdle
<1>5. StartOf(at, d) => OuterOf([Initial EXCEPT !.cur = at])
  <2>1. PICK q, c : Initial = [items |-> q, cur |-> c] /\ q \in Seq(Entries)
                    /\ \E m \in 2 .. Len(q) - 1 : Divided(q, m)
    BY <1>4 DEF OuterOf
  <2>2. [Initial EXCEPT !.cur = at] = [items |-> q, cur |-> at]
    BY <2>1
  <2> QED BY <2>1, <2>2 DEF OuterOf, StartOf
<1>6. init' = init
  BY DEF NewRing, StepsFrom
<1>7. CASE /\ dir' = 0 /\ Stops' = L /\ call' = Finished(op, "OK")
           /\ UNCHANGED <<Cache, cach0, cach1, n_steps, InitH>>
           /\ Initial' = Initial \/ (StartOf(at, d) /\ Initial' = [Initial EXCEPT !.cur = at])
  <2>1. call' = Idle
    BY <1>7 DEF Finished, IInv, CallInv
  <2>2. OuterOf(Initial')
    BY <1>4, <1>5, <1>7
  <2>3. CallInv' /\ RingInv' /\ NoStops'
    BY <1>7, <2>1, <2>2 DEF IInv, CallInv, Running, Idle, RingInv, NoStops
  <2> QED BY <2>3 DEF IInv
<1>8. CASE /\ dir' = d /\ StartOf(at, d) /\ Initial' = [Initial EXCEPT !.cur = at]
           /\ n_steps' = IF Initial.items[at + d].t \in {-Inf, Inf} THEN 0 ELSE -1
           /\ InitH' = IF s.t = T0 THEN H ELSE InitH
           /\ Cache' = [Cache EXCEPT ![0] = IF s.t = T0 THEN [First EXCEPT !.h = d * H] ELSE s]
           /\ cach0' = 0 /\ cach1' = 0
           /\ BeginLoop("loop", op, t, L)
  <2>1. PICK e : e = IF s.t = T0 THEN [First EXCEPT !.h = d * H] ELSE s
    OBVIOUS
  <2>2. e \in Entries /\ e.t \in Times /\ Toward(d, e.t - T0) >= 0 /\ Toward(d, e.h) > 0
    <3>1. CASE s.t = T0
      <4>1. d * H \in Int /\ Toward(d, d * H) > 0
        BY <1>3 DEF Toward
      <4>2. e \in Entries /\ e.t = T0 /\ e.h = d * H
        BY <2>1, <3>1, <4>1, StartsAre DEF Entries, First
      <4> QED BY <4>1, <4>2, TimesAre DEF Times, Toward
    <3>2. CASE s.t # T0
      <4>1. s \in Entries
        <5>1. at \in 1 .. Len(Initial.items) /\ Initial.items \in Seq(Entries)
          BY <1>4, <1>8 DEF StartOf, OuterOf
        <5> QED BY <1>1, <5>1, EntriesAre
      <4> QED BY <1>1, <1>8, <2>1, <3>2, <4>1 DEF StartOf
    <3> QED BY <3>1, <3>2
  <2>3. Cache' = [Cache EXCEPT ![0] = e] /\ Cache \in [Slots -> Entries]
    BY <1>8, <2>1 DEF IInv, RingInv
  <2>4. Cache' \in [Slots -> Entries] /\ Cache'[0] = e
    BY <2>2, <2>3, StartsAre
  <2>5. RingOf(Cache', 0, 0, d)
    BY <2>2, <2>4, StartsAre, RingOfOne
  <2>6. InitH' \in Nat /\ n_steps' \in Int
    BY <1>3, <1>8 DEF IInv, RingInv
  <2>7. RingInv' /\ dir' \in {-1, 1}
    BY <1>8, <2>4, <2>5, <2>6 DEF RingInv
  <2>8. OuterOf(Initial')
    BY <1>5, <1>8
  <2> QED BY <1>6, <1>8, <2>7, <2>8, LoopBegins
<1>9. \/ /\ dir' = 0 /\ Stops' = L /\ call' = Finished(op, "OK")
         /\ UNCHANGED <<Cache, cach0, cach1, n_steps, InitH>>
         /\ Initial' = Initial \/ (t # T0 /\ Initial' = [Initial EXCEPT !.cur = at])
      \/ /\ op \in {"Integrate", "Find"} => t # T0
         /\ dir' = d /\ Initial' = [Initial EXCEPT !.cur = at]
         /\ n_steps' = IF Initial.items[at + d].t \in {-Inf, Inf} THEN 0 ELSE -1
         /\ InitH' = IF s.t = T0 THEN H ELSE InitH
         /\ Cache' = [Cache EXCEPT ![0] = IF s.t = T0 THEN [First EXCEPT !.h = d * H] ELSE s]
         /\ cach0' = 0 /\ cach1' = 0
         /\ BeginLoop("loop", op, t, L)
  BY <1>1, <1>2, Zenon DEF NewRing, StepsFrom, ring
<1> QED BY <1>7, <1>8, <1>9, Zenon

LEMMA RestartKeeps ==
  ASSUME IInv, NEW op, NEW t, Restart(op, t)
  PROVE  IInv'
<1>1. PICK L : L = StopAhead(op, t).list
  OBVIOUS
<1>2. NeverStop => L = Stops
  BY <1>1, StopsUnknown DEF IInv
<1>3. PICK d : d = IF t > T0 \/ (t = T0 /\ op = "Forward") THEN 1 ELSE -1
  OBVIOUS
<1>4. Asked(op, t) /\ NewRing(op, t, d, RestartAt(op, t, d), L)
  BY <1>1, <1>3 DEF Restart
<1>5. /\ init /\ IsIdle /\ OuterOf(Initial) /\ t \in Requests
      /\ op \in {"Integrate", "Forward", "Backward"}
  BY <1>4, AskedIs DEF IsIdle
<1>6. (op \in {"Integrate", "Find"} /\ t = T0) \/ StartOf(RestartAt(op, t, d), d)
  BY <1>3, <1>5, RestartIs
<1>7. d \in {-1, 1}
  BY <1>3
<1> HIDE <1>1, <1>3
<1> QED BY <1>2, <1>4, <1>5, <1>6, <1>7, NewRingKeeps

LEMMA FindKeeps ==
  ASSUME IInv, FindIgnoresStops, NEW v \in Requests, IsIdle, Find(v)
  PROVE  IInv'
<1>1. /\ init /\ "Find" \in Ops /\ NeverStop /\ OuterOf(Initial)
      /\ Sought(v) = {[stop |-> FALSE, list |-> Stops]}
  <2>1. Sought(v) # {}
    BY DEF Find
  <2>2. init /\ "Find" \in Ops /\ Sought(v) = {[stop |-> FALSE, list |-> Stops]}
    BY <2>1 DEF Sought
  <2> QED BY <2>2 DEF FindIgnoresStops, IInv, CallInv
<1>2. \/ /\ dir # 0 /\ BeginLoop("loop", "Find", v, Stops)
         /\ UNCHANGED <<ring, dir, n_steps, init, InitH, outer>>
      \/ /\ Return("Find", v, "OK", FindNeighbor("Find", v), Stops)
         /\ UNCHANGED <<ring, dir, n_steps, init, InitH, outer>>
      \/ LET d == IF v > T0 THEN 1 ELSE -1
         IN  NewRing("Find", v, d, FindRestartAt(v, d), Stops)
  <2>1. PICK s : s = [stop |-> FALSE, list |-> Stops]
    OBVIOUS
  <2>2. ~s.stop /\ s.list = Stops /\ Sought(v) = {s}
    BY <1>1, <2>1
  <2> HIDE <2>1
  <2>3. \/ /\ dir # 0 /\ BeginLoop("loop", "Find", v, s.list)
           /\ UNCHANGED <<ring, dir, n_steps, init, InitH, outer>>
        \/ /\ Return("Find", v, "OK", FindNeighbor("Find", v), s.list)
           /\ UNCHANGED <<ring, dir, n_steps, init, InitH, outer>>
        \/ LET d == IF v > T0 THEN 1 ELSE -1
           IN  NewRing("Find", v, d, FindRestartAt(v, d), s.list)
    BY <2>2, Zenon DEF Find
  <2> QED BY <2>2, <2>3, Zenon
<1>3. CASE dir # 0 /\ BeginLoop("loop", "Find", v, Stops)
           /\ UNCHANGED <<ring, dir, n_steps, init, InitH, outer>>
  <2>1. UNCHANGED <<Cache, cach0, cach1, dir, n_steps, InitH, Initial, init>>
    BY <1>3 DEF ring, outer
  <2>2. RingInv' /\ dir' \in {-1, 1} /\ OuterOf(Initial')
    BY <1>1, <1>3, <2>1 DEF IInv, RingInv
  <2> QED BY <1>1, <1>3, <2>1, <2>2, LoopBegins
<1>4. CASE Return("Find", v, "OK", FindNeighbor("Find", v), Stops)
           /\ UNCHANGED <<ring, dir, n_steps, init, InitH, outer>>
  <2>1. UNCHANGED <<Cache, cach0, cach1, dir, n_steps, InitH, Initial, init>>
    BY <1>4 DEF ring, outer
  <2>2. call' = Idle /\ NoStops'
    BY <1>4, ReturnIs
  <2> QED BY <2>1, <2>2, EndKeeps
<1>5. CASE LET d == IF v > T0 THEN 1 ELSE -1
           IN  NewRing("Find", v, d, FindRestartAt(v, d), Stops)
  <2>1. PICK d : d = IF v > T0 THEN 1 ELSE -1
    OBVIOUS
  <2>2. NewRing("Find", v, d, FindRestartAt(v, d), Stops)
    BY <1>5, <2>1
  <2>3. v = T0 \/ StartOf(FindRestartAt(v, d), d)
    BY <1>1, <2>1, FindRestartIs
  <2>4. d \in {-1, 1}
    BY <2>1
  <2> HIDE <2>1
  <2> QED BY <1>1, <2>2, <2>3, <2>4, NewRingKeeps
<1> QED BY <1>2, <1>3, <1>4, <1>5

LEMMA OneStepKeeps ==
  ASSUME IInv, NEW phase \in {"loop", "retrace"}, OneStep(phase)
  PROVE  IInv'
<1>1. PICK r \in Step(StepTo, ~HeedsStops) :
        /\ Stepped(r)
        /\ cach0' = r.cach0 /\ cach1' = r.cach1 /\ Stops' = r.Stops
        /\ call' = [call EXCEPT !.status = r.status, !.steps = @ - 1]
  BY DEF OneStep
<1>2. /\ call.phase = phase /\ UNCHANGED <<dir, init, InitH>>
      /\ dir \in {-1, 1} /\ OuterOf(Initial) /\ RingInv
      /\ phase = "retrace" => n_steps = -1 /\ Initial.cur + dir \in 2 .. Len(Initial.items) - 1
  BY DEF OneStep, Steps, IInv, CallInv, Running
<1>3. /\ RingInv' /\ OuterOf(Initial')
      /\ n_steps = -1 => n_steps' = -1 /\ Initial' = Initial
  BY <1>1, <1>2, SteppedKeeps
<1>4. PICK o, u, y, k, w : call = [phase |-> phase, op |-> o, t |-> u, status |-> y, steps |-> k,
                                   find |-> NoValue, sync |-> w]
  BY <1>2 DEF IInv, CallInv
<1>5. \E x, z : call' = [phase |-> phase, op |-> o, t |-> u, status |-> x, steps |-> z,
                         find |-> NoValue, sync |-> w]
  BY <1>1, <1>4
<1>6. CallInv'
  <2>1. /\ call' = [phase |-> phase, op |-> call'.op, t |-> call'.t, status |-> call'.status,
                    steps |-> call'.steps, find |-> NoValue, sync |-> call'.sync]
        /\ call'.phase = phase
    BY <1>5
  <2>2. phase = "retrace" => n_steps' = -1 /\ (Initial.cur + dir \in 2 .. Len(Initial.items) - 1)'
    BY <1>2, <1>3
  <2>3. dir' \in {-1, 1} /\ OuterOf(Initial')
    BY <1>2, <1>3
  <2>4. CASE phase = "loop"
    BY <2>1, <2>3, <2>4 DEF CallInv, Running
  <2>5. CASE phase = "retrace"
    BY <2>1, <2>2, <2>3, <2>5 DEF CallInv, Running
  <2> QED BY <2>4, <2>5
<1>7. NoStops'
  BY <1>1, <1>2, StepOuter DEF IInv, NoStops
<1> QED BY <1>3, <1>6, <1>7 DEF IInv

LEMMA RetraceEndKeeps ==
  ASSUME IInv, RetraceEnd
  PROVE  IInv'
<1>1. /\ call.phase = "retrace" /\ dir \in {-1, 1} /\ OuterOf(Initial)
      /\ Initial.cur + dir \in 2 .. Len(Initial.items) - 1
  BY DEF RetraceEnd, IInv, CallInv, Running
<1>2. /\ UNCHANGED <<Cache, cach0, cach1, dir, init, InitH, Stops>>
      /\ n_steps' = 0 /\ Initial' = NextOuter
      /\ call' = [call EXCEPT !.phase = "loop", !.status = "ODE_BUG", !.steps = MaxSteps]
  BY DEF RetraceEnd, ring
<1>3. OuterOf(Initial')
  BY <1>1, <1>2, NextOuterIs
<1>4. PICK o, u, y, k, w : call = [phase |-> "retrace", op |-> o, t |-> u, status |-> y,
                                   steps |-> k, find |-> NoValue, sync |-> w]
  BY <1>1 DEF IInv, CallInv
<1>5. call' = [phase |-> "loop", op |-> o, t |-> u, status |-> "ODE_BUG", steps |-> MaxSteps,
               find |-> NoValue, sync |-> w]
  BY <1>2, <1>4
<1>6. CallInv'
  <2>1. dir' \in {-1, 1}
    BY <1>1, <1>2
  <2>2. /\ call' = [phase |-> call'.phase, op |-> call'.op, t |-> call'.t,
                    status |-> call'.status, steps |-> call'.steps, find |-> NoValue, sync |-> call'.sync]
        /\ call'.phase = "loop"
    BY <1>5
  <2> QED BY <1>3, <2>1, <2>2 DEF CallInv, Running
<1>7. RingInv' /\ NoStops'
  BY <1>2 DEF IInv, RingInv, NoStops
<1> QED BY <1>6, <1>7 DEF IInv

LEMMA LoopEndKeeps ==
  ASSUME IInv, LoopEnd
  PROVE  IInv'
<1>1. /\ \E status : Return(call.op, call.t, status, cach1, Stops)
      /\ UNCHANGED <<Cache, cach0, cach1, dir, n_steps, InitH, Initial, init>>
  BY DEF LoopEnd, ring, outer
<1>2. call' = Idle /\ NoStops'
  BY <1>1, ReturnIs
<1> QED BY <1>1, <1>2, EndKeeps

LEMMA Steady == ASSUME IInv, UNCHANGED vars PROVE IInv'
<1>1. UNCHANGED <<Cache, cach0, cach1, dir, n_steps, InitH, Initial, init, call, Stops>>
  BY DEF vars, ring, outer
<1> QED BY <1>1 DEF IInv, CallInv, RingInv, NoStops, Running

LEMMA AnswersKeep ==
  ASSUME IInv, NEW op, NEW t, Answers(op, t)
  PROVE  IInv'
BY StopAtKnownKeeps, ExtendKeeps, WithinKeeps, KeepRingKeeps, RestartKeeps DEF Answers

LEMMA NextKeeps ==
  ASSUME FindIgnoresStops, IInv, [Next]_vars
  PROVE  IInv'
<1>1. CASE UNCHANGED vars
  BY <1>1, Steady
<1>2. CASE Calls
  <2>1. CASE \E dt \in Dts : Initialize(dt)
    BY <2>1, InitializeKeeps
  <2>2. CASE IgnoreStopOn \/ IgnoreStopOff
    BY <2>2, IgnoreStopKeeps
  <2>3. CASE \E op \in Ops, t \in Requests : IsIdle /\ Answers(op, t)
    BY <2>3, AnswersKeep
  <2>4. ASSUME NEW v \in Requests, Recall(v)
        PROVE  IInv'
    BY <2>4, StopsUnknown DEF Recall, FindIgnoresStops, IInv
  <2>5. ASSUME NEW v \in Requests, IsIdle, Find(v)
        PROVE  IInv'
    BY <2>5, FindKeeps
  <2> QED BY <1>2, <2>1, <2>2, <2>3, <2>4, <2>5 DEF Calls
<1>3. CASE Loops
  <2>1. CASE TrialStep
    BY <2>1, TrialStepKeeps
  <2>2. CASE LongerStep
    BY <2>2, LongerStepKeeps
  <2>3. CASE RetraceStep
    BY <2>3, OneStepKeeps DEF RetraceStep
  <2>4. CASE LoopStep
    BY <2>4, OneStepKeeps DEF LoopStep
  <2>5. CASE RetraceEnd
    BY <2>5, RetraceEndKeeps
  <2>6. CASE LoopEnd
    BY <2>6, LoopEndKeeps
  <2>7. ~Recalled /\ ~FindValue
    BY DEF Recalled, FindValue, IInv, CallInv
  <2> QED BY <1>3, <2>1, <2>2, <2>3, <2>4, <2>5, <2>6, <2>7 DEF Loops
<1> QED BY <1>1, <1>2, <1>3 DEF Next

THEOREM Invariance == ASSUME FindIgnoresStops PROVE Spec => []IInv
<1>1. Init => IInv
  BY Inits
<1>2. IInv /\ [Next]_vars => IInv'
  BY NextKeeps
<1> QED BY <1>1, <1>2, PTL DEF Spec

-----------------------------------------------------------------------------
(* The ring read from its first entry on.                                    *)

\* The k-th entry from a on, and how many there are after it up to b.
LEMMA SlotAfter ==
  ASSUME NEW a \in Slots, NEW b \in Slots, NEW k \in 0 .. ((b - a) % NCache) - 1
  PROVE  LET i == (a + k) % NCache
         IN  i \in Slots /\ InRing(i, a, b) /\ i # b /\ (a + k + 1) % NCache = NextCache(i)
<1>1. PICK n \in Nat : n = NCache /\ n >= 2
  BY ODEAssumption
<1>2. a \in 0 .. n - 1 /\ b \in 0 .. n - 1
  BY <1>1 DEF Slots
<1>3. (b - a) % n = IF a <= b THEN b - a ELSE b - a + n
  <2>1. CASE a <= b
    BY <1>1, <1>2, <2>1
  <2>2. CASE ~ (a <= b)
    BY <1>1, <1>2, <2>2
  <2> QED BY <2>1, <2>2
<1>4. k \in Nat /\ k < IF a <= b THEN b - a ELSE b - a + n
  BY <1>1, <1>2, <1>3
<1>5. (a + k) % n = IF a + k < n THEN a + k ELSE a + k - n
  BY <1>1, <1>2, <1>4
<1>6. (a + k + 1) % n = IF a + k + 1 < n THEN a + k + 1 ELSE a + k + 1 - n
  BY <1>1, <1>2, <1>4
<1>7. PICK i : i = (a + k) % n
  OBVIOUS
<1>8. i \in 0 .. n - 1 /\ InRing(i, a, b) /\ i # b
  BY <1>1, <1>2, <1>4, <1>5, <1>7 DEF InRing
<1>9. NextCache(i) = IF i = n - 1 THEN 0 ELSE i + 1
  BY <1>1, <1>8, NextSlot DEF Slots
<1>10. (a + k + 1) % n = NextCache(i)
  BY <1>1, <1>2, <1>4, <1>5, <1>6, <1>7, <1>9
<1> QED BY <1>1, <1>7, <1>8, <1>10 DEF Slots

LEMMA Contiguous == RingInv => RingContiguous
<1> SUFFICES ASSUME RingInv, dir # 0, NEW k \in 0 .. Used - 1
             PROVE  Entry(k).t + Entry(k).h = Entry(k + 1).t /\ dir * Entry(k).h > 0
  BY DEF RingContiguous
<1>1. RingOf(Cache, cach0, cach1, dir) /\ Cache \in [Slots -> Entries] /\ dir \in {-1, 1}
  BY DEF RingInv
<1>2. cach0 \in Slots /\ cach1 \in Slots
  BY <1>1 DEF RingOf
<1>3. PICK i : i = (cach0 + k) % NCache
  OBVIOUS
<1>4. /\ i \in Slots /\ InRing(i, cach0, cach1) /\ i # cach1
      /\ (cach0 + k + 1) % NCache = NextCache(i)
  BY <1>2, <1>3, SlotAfter DEF Used
<1>5. cach0 + (k + 1) = cach0 + k + 1
  BY <1>2, ODEAssumption DEF Slots
<1>6. Entry(k) = Cache[i] /\ Entry(k + 1) = Cache[NextCache(i)]
  BY <1>3, <1>4, <1>5 DEF Entry
<1>7. /\ Cache[i].t + Cache[i].h = Cache[NextCache(i)].t
      /\ Toward(dir, Cache[i].h) > 0
  BY <1>1, <1>4 DEF RingOf
<1>8. Cache[i].h \in Int
  BY <1>1, <1>4 DEF Entries
<1> QED BY <1>1, <1>6, <1>7, <1>8 DEF Toward

\* Every stretch of the inner cache that a call may interpolate on is one run of
\* steps without a gap, in the direction of the integration, whatever steps were
\* tried, failed, stopped or restarted before: for every size of the rings.
THEOREM RingContiguousHolds == ASSUME FindIgnoresStops PROVE Spec => []RingContiguous
<1>1. IInv => RingContiguous
  BY Contiguous DEF IInv
<1> QED BY <1>1, Invariance, PTL

-----------------------------------------------------------------------------
(* The order of the saved states.                                            *)

\* The steps of a call suffice for a retrace, which starts fewer than n_cache/4 of
\* them from its goal: its outcome is not looked at.  An ODE that saves a state every
\* few steps is given no estimate of its first step: its trial steps would be saved,
\* two of them, or eight when stops make it try shorter ones.
StepsSuffice == MaxSteps > NCache \div 4
TrialUnsaved == CacheStep \in 1 .. (IF NeverStop THEN 2 ELSE 8) => Dts \subseteq {0}

Rising(s) == \A i, j \in 1 .. Len(s) : i < j => s[i].t < s[j].t

Ordered(s, lo, hi) == Rising(s) /\ s[2].t = lo /\ s[Len(s) - 1].t = hi

\* The step that is tried from the entry C is accepted and fails behind that: so does
\* every later one, and the entry stays where it is.
Sticks(C) == FailLate /\ Accepted(C) # 0 /\ C.t + Accepted(C) \in {Tmin, Tmax}
Stuck == Sticks(Cache[cach1])

\* The ring goes on from the last state that is saved in its direction, if at all.
AtLast ==
  /\ Initial.cur = IF dir = 1 THEN Len(Initial.items) - 1 ELSE 2
  /\ Stuck \/ Toward(dir, Cache[cach1].t - Current(Initial).t) >= 0

\* How far the goal of a retrace is, and the step that is tried next.
Left == Toward(dir, G(dir).t - Cache[cach1].t)
Pace == Toward(dir, Cache[cach1].h)

\* The k-th power of two: InitH has been doubled so often when it is tried, and is
\* halved so often at most.
Power == <<2, 4, 8, 16, 32, 64, 128>>
Halvings == \E k \in 1 .. 7 : /\ InitH = call.steps * Power[k]
                              /\ n_steps <= IF NeverStop THEN 1 ELSE 8 - k

\* Steps are counted behind the last saved state only; a retrace leads to it,
\* with steps enough; the trial steps are not saved.
OrderInv ==
  /\ init \/ Running => Ordered(Initial.items, t_min, t_max)
  /\ dir # 0 /\ n_steps >= 0 /\ (init \/ Running) => AtLast
  /\ call.phase = "retrace" =>
       /\ AtLastOuter(2 * dir) /\ init /\ call.steps \in Nat \ {0}
       /\ \/ Stuck \/ Left <= 0
          \/ call.status \in {"OK", "ODE_BUG"} /\ (call.steps - 1) * Pace > Left
  /\ call.phase \in {"trial", "longer"} =>
       /\ CacheStep \notin 1 .. IF NeverStop THEN 2 ELSE 8
       /\ n_steps \in Nat /\ IF call.phase = "trial" THEN n_steps = 0 ELSE Halvings
       /\ Len(Initial.items) = 3 /\ Initial.cur = 2 /\ Initial.items[2].t = T0

\* No step is tried, and none is kept to restart with, that is longer than MaxStep.
Short(x) == -MaxStep <= x /\ x <= MaxStep

ShortInv ==
  /\ init => InitH <= MaxStep /\ (dir # 0 => Short(Cache[cach1].h))
  /\ call.phase = "longer" => InitH <= MaxStep /\ call.steps <= MaxStep
  /\ init \/ Running => \A i \in 2 .. Len(Initial.items) - 1 : Short(Initial.items[i].h)

\* The step that is accepted is the one tried, or it ends where F ends.
LEMMA AcceptedShort ==
  ASSUME NEW d \in {-1, 1}, NEW C, C.t \in Times, C.h \in Int, Toward(d, C.h) > 0
  PROVE  /\ Short(Accepted(C))
         /\ Short(C.h) => Accepted(C) = C.h \/ C.t + Accepted(C) = IF d > 0 THEN Tmax ELSE Tmin
BY TimesAre DEF Accepted, Short, Toward, Abs, Lesser, Times

\* A step that failed late is tried again as it was accepted.
LEMMA AcceptedAgain ==
  ASSUME NEW d \in {-1, 1}, NEW C, C.t \in Times, C.h \in Int, Toward(d, C.h) > 0,
         NEW D, D.t = C.t, D.h = Accepted(C), Accepted(C) # 0
  PROVE  Accepted(D) = Accepted(C)
BY TimesAre DEF Accepted, Toward, Abs, Lesser, Times

LEMMA GrownShort ==
  ASSUME NEW d \in {-1, 1}, NEW h \in Int, Toward(d, h) > 0, Short(h)
  PROVE  Short(Grown(h)) /\ Toward(d, Grown(h)) >= Toward(d, h)
BY TimesAre DEF Grown, CanGrow, Abs, Short, Toward

LEMMA ProductGrows ==
  ASSUME NEW a \in Nat, NEW b \in Nat, a <= b, NEW x \in Nat, NEW y \in Nat, x <= y
  PROVE  a * x <= b * y
<1>1. a * x <= b * x
  <2>1. (b - a) * x >= 0
    <3>1. b - a \in Nat
      OBVIOUS
    <3> QED BY <3>1
  <2> QED BY <2>1
<1>2. b * x <= b * y
  <2>1. b * (y - x) >= 0
    <3>1. y - x \in Nat
      OBVIOUS
    <3> QED BY <3>1
  <2> QED BY <2>1
<1> QED BY <1>1, <1>2

\* The entry e at the end of a step is saved when its turn comes, or the stop
\* condition there is not finite.
SavedBy(r, e) ==
  \/ Saves /\ r.Initial = EnterOuter(Initial, e) /\ r.n_steps = 0
  \/ /\ r.Initial = Initial
     /\ r.n_steps = IF n_steps >= 0 THEN n_steps + 1 ELSE n_steps
     /\ Saves => ~NeverStop /\ r.status = "FAILED"

\* A step ends beyond its start, or there is no room left for it, or it sticks.
LEMMA StepLands ==
  ASSUME RingInv, dir \in {-1, 1}, NEW t_request, NEW ignore,
         NEW r \in Step(t_request, ignore)
  PROVE  \/ Stands(r) /\ ~Stuck /\ Cache[cach1].t = IF dir > 0 THEN Tmax ELSE Tmin
         \/ /\ Stuck /\ Sticks(r.Cache[cach1])
            /\ r.cach1 = cach1 /\ r.Cache[cach1].t = Cache[cach1].t /\ Short(r.Cache[cach1].h)
            /\ r.Initial = Initial /\ r.n_steps = n_steps /\ r.status = "FAILED"
         \/ ~Stuck /\ \E e \in Entries :
              /\ e = r.Cache[r.cach1] /\ e.t \in Times
              /\ Toward(dir, e.t - Cache[cach1].t) > 0
              /\ Toward(dir, e.t - T0) > 0 /\ Toward(dir, e.h) > 0
              /\ Short(e.h) /\ Short(r.Cache[cach1].h)
              /\ Short(Cache[cach1].h) =>
                   \/ e.t = IF dir > 0 THEN Tmax ELSE Tmin
                   \/ /\ e.t = Cache[cach1].t + Cache[cach1].h
                      /\ Toward(dir, e.h) >= Toward(dir, Cache[cach1].h)
              /\ SavedBy(r, e)
              /\ NeverStop \/ ~(n_steps >= 0) => r.status = "OK"
<1>1. PICK h : h = Accepted(Cache[cach1])
  OBVIOUS
<1>2. PICK t : t = Cache[cach1].t + h
  OBVIOUS
<1>3. PICK n : n = NextCache(cach1)
  OBVIOUS
<1>4. RingOf(Cache, cach0, cach1, dir) /\ Cache \in [Slots -> Entries]
  BY DEF RingInv
<1>5. /\ cach1 \in Slots /\ cach0 \in Slots /\ n \in Slots /\ InRing(cach1, cach0, cach1)
      /\ Cache[cach1] \in Entries
  BY <1>3, <1>4, RingShift DEF RingOf
<1>6. /\ Cache[cach1].t \in Times /\ Toward(dir, Cache[cach1].t - T0) >= 0
      /\ Toward(dir, Cache[cach1].h) > 0 /\ Cache[cach1].h \in Int
  BY <1>4, <1>5 DEF RingOf, Entries
<1>7. /\ h \in Int /\ t \in Times /\ Toward(dir, h) >= 0
      /\ h = 0 => Cache[cach1].t = IF dir > 0 THEN Tmax ELSE Tmin
  BY <1>1, <1>2, <1>6, AcceptedIs
<1>8. CASE Stands(r)
  BY <1>1, <1>7, <1>8 DEF Stands, Stuck, Sticks
<1>9. ASSUME NEW e \in Entries, h # 0, e.t = t, e.h = Grown(h), r.Cache = Written(n, h, e),
             r.cach1 = n, SavedBy(r, e), NeverStop \/ ~(n_steps >= 0) => r.status = "OK",
             ~(FailLate /\ t \in {Tmin, Tmax})
      PROVE  ~Stuck /\ \E f \in Entries :
               /\ f = r.Cache[r.cach1] /\ f.t \in Times
               /\ Toward(dir, f.t - Cache[cach1].t) > 0
               /\ Toward(dir, f.t - T0) > 0 /\ Toward(dir, f.h) > 0
               /\ Short(f.h) /\ Short(r.Cache[cach1].h)
               /\ Short(Cache[cach1].h) =>
                    \/ f.t = IF dir > 0 THEN Tmax ELSE Tmin
                    \/ /\ f.t = Cache[cach1].t + Cache[cach1].h
                       /\ Toward(dir, f.h) >= Toward(dir, Cache[cach1].h)
               /\ SavedBy(r, f)
               /\ NeverStop \/ ~(n_steps >= 0) => r.status = "OK"
  <2>1. Toward(dir, h) > 0
    BY <1>7, <1>9 DEF Toward
  <2>2. Grown(h) \in Int /\ Toward(dir, Grown(h)) > 0
    BY <1>7, <2>1, GrownIs
  <2>3. e = r.Cache[r.cach1]
    BY <1>4, <1>5, <1>9 DEF Written
  <2>4. Toward(dir, t - Cache[cach1].t) > 0 /\ Toward(dir, t - T0) > 0
    BY <1>2, <1>6, <1>7, <2>1, TimesAre DEF Toward, Times
  <2>5. /\ Short(h)
        /\ Short(Cache[cach1].h) => h = Cache[cach1].h \/ t = IF dir > 0 THEN Tmax ELSE Tmin
    BY <1>1, <1>2, <1>6, AcceptedShort
  <2>6. Short(e.h) /\ Toward(dir, e.h) >= Toward(dir, h)
    BY <1>7, <1>9, <2>1, <2>5, GrownShort
  <2>7. r.Cache[cach1].h = h
    <3>1. cach1 # n
      BY <1>3, <1>4, RingShift DEF RingOf
    <3> QED BY <1>4, <1>5, <1>9, <3>1 DEF Written, Entries
  <2>8. Short(Cache[cach1].h) =>
          \/ e.t = IF dir > 0 THEN Tmax ELSE Tmin
          \/ /\ e.t = Cache[cach1].t + Cache[cach1].h
             /\ Toward(dir, e.h) >= Toward(dir, Cache[cach1].h)
    BY <1>2, <1>9, <2>5, <2>6
  <2>9. ~Stuck
    BY <1>1, <1>2, <1>9 DEF Stuck, Sticks
  <2>10. e.t \in Times /\ Toward(dir, e.h) > 0
    BY <1>7, <1>9, <2>2
  <2>11. Toward(dir, e.t - Cache[cach1].t) > 0 /\ Toward(dir, e.t - T0) > 0
    BY <1>9, <2>4
  <2>12. Short(r.Cache[cach1].h)
    BY <2>5, <2>7
  <2> QED BY <1>9, <2>3, <2>6, <2>8, <2>9, <2>10, <2>11, <2>12
<1>11. ASSUME h # 0
       PROVE  Grown(h) \in Int
  <2>1. Toward(dir, h) > 0
    BY <1>7, <1>11 DEF Toward
  <2> QED BY <1>7, <2>1, GrownIs
<1>12. CASE Moves(r)
  <2>1. PICK sc : sc = IF n_steps >= 0 /\ ~NeverStop THEN StopCondition(t) ELSE Cache[n].sc
    OBVIOUS
  <2>2. PICK e : e = [t |-> t, h |-> Grown(h), sc |-> sc]
    OBVIOUS
  <2>3. /\ h # 0 /\ r.Cache = Written(n, h, e) /\ r.cach1 = n
        /\ r.Initial = IF Saves THEN EnterOuter(Initial, e) ELSE Initial
        /\ r.n_steps = IF Saves THEN 0 ELSE IF n_steps >= 0 THEN n_steps + 1 ELSE n_steps
        /\ NeverStop \/ ~(n_steps >= 0) => r.status = "OK"
        /\ ~(FailLate /\ t \in {Tmin, Tmax})
    BY <1>1, <1>2, <1>3, <1>12, <2>1, <2>2, Zenon DEF Moves
  <2>4. sc \in {-1, 0, 1}
    BY <1>4, <1>5, <2>1 DEF StopCondition, Entries
  <2>5. e \in Entries /\ e.t = t /\ e.h = Grown(h)
    BY <1>7, <1>11, <2>2, <2>3, <2>4, TimesAre DEF Entries
  <2>6. SavedBy(r, e)
    BY <2>3, Zenon DEF SavedBy
  <2> QED BY <1>9, <2>3, <2>5, <2>6
<1>13. CASE Strays(r)
  <2>1. PICK x \in {-1, 0, 1} : r.Cache = Written(n, h, [t |-> t, h |-> Grown(h), sc |-> x])
    BY <1>1, <1>2, <1>3, <1>13 DEF Strays, NotFinite
  <2>2. PICK e : e = [t |-> t, h |-> Grown(h), sc |-> x]
    OBVIOUS
  <2>3. /\ h # 0 /\ r.Cache = Written(n, h, e) /\ r.cach1 = n
        /\ r.n_steps = n_steps + 1 /\ r.Initial = Initial /\ r.status = "FAILED"
        /\ n_steps >= 0 /\ ~NeverStop /\ ~(FailLate /\ t \in {Tmin, Tmax})
    BY <1>1, <1>2, <1>3, <1>13, <2>1, <2>2, Zenon DEF Strays
  <2>4. e \in Entries /\ e.t = t /\ e.h = Grown(h)
    BY <1>7, <1>11, <2>2, <2>3, TimesAre DEF Entries
  <2>5. SavedBy(r, e)
    BY <2>3, Zenon DEF SavedBy
  <2> QED BY <1>9, <2>3, <2>4, <2>5
<1>10. CASE Fails(r)
  <2>1. PICK e : e = [t |-> t, h |-> Grown(h), sc |-> Cache[n].sc]
    OBVIOUS
  <2>2. /\ h # 0 /\ r.Cache = Written(n, h, e) /\ r.cach1 = cach1
        /\ r.Initial = Initial /\ r.n_steps = n_steps /\ r.status = "FAILED"
        /\ FailLate /\ t \in {Tmin, Tmax}
    BY <1>1, <1>2, <1>3, <1>10, <2>1, Zenon DEF Fails
  <2>3. cach1 # n
    BY <1>3, <1>4, RingShift DEF RingOf
  <2>4. r.Cache[cach1].t = Cache[cach1].t /\ r.Cache[cach1].h = h
    BY <1>4, <1>5, <2>2, <2>3 DEF Written, Entries
  <2>5. Stuck
    BY <1>1, <1>2, <2>2 DEF Stuck, Sticks
  <2>6. Accepted(r.Cache[cach1]) = h
    BY <1>1, <1>6, <2>2, <2>4, AcceptedAgain
  <2>7. Sticks(r.Cache[cach1])
    BY <1>2, <2>2, <2>4, <2>6 DEF Sticks
  <2>8. Short(h)
    BY <1>1, <1>6, AcceptedShort
  <2> QED BY <2>2, <2>4, <2>5, <2>7, <2>8
<1> QED BY <1>8, <1>10, <1>12, <1>13, StepGoes

\* The first n numbers of a rise, and b has x at p.
Rise(a, n) == \A i, j \in 1 .. n : i < j => a[i] < a[j]
Joined(b, a, n, p, x) ==
  \A i \in 1 .. n + 1 : b[i] = IF i < p THEN a[i] ELSE IF i = p THEN x ELSE a[i - 1]

\* A number put between two of a rising sequence.
LEMMA RisingWith ==
  ASSUME NEW n \in Nat, NEW a \in [1 .. n -> Int], NEW x \in Int, NEW p \in 2 .. n,
         Rise(a, n), a[p - 1] < x, x < a[p], NEW b, Joined(b, a, n, p, x)
  PROVE  Rise(b, n + 1)
<1> USE DEF Rise, Joined
<1> SUFFICES ASSUME NEW i \in 1 .. n + 1, NEW j \in 1 .. n + 1, i < j
             PROVE  b[i] < b[j]
  OBVIOUS
<1>1. CASE j < p
  <2>1. i \in 1 .. n /\ j \in 1 .. n
    BY <1>1
  <2> QED BY <1>1, <2>1
<1>2. CASE j = p
  <2>1. i \in 1 .. n /\ p - 1 \in 1 .. n /\ p \in 1 .. n
    BY <1>2
  <2>2. a[i] \in Int /\ a[p - 1] \in Int /\ (i = p - 1 \/ a[i] < a[p - 1])
    BY <1>2, <2>1
  <2> QED BY <1>2, <2>1, <2>2
<1>3. CASE j > p
  <2>1. j - 1 \in 1 .. n /\ p \in 1 .. n /\ b[j] = a[j - 1] /\ a[j - 1] \in Int
    BY <1>3
  <2>2. CASE i < p
    <3>1. i \in 1 .. n /\ i < j - 1 /\ b[i] = a[i]
      BY <1>3, <2>2
    <3> QED BY <2>1, <3>1
  <2>3. CASE i = p
    <3>1. b[i] = x /\ (p = j - 1 \/ a[p] < a[j - 1]) /\ a[p] \in Int
      BY <1>3, <2>1, <2>3
    <3> QED BY <2>1, <3>1
  <2>4. CASE i > p
    <3>1. i - 1 \in 1 .. n /\ i - 1 < j - 1 /\ b[i] = a[i - 1]
      BY <1>3, <2>4
    <3> QED BY <2>1, <3>1
  <2> QED BY <2>2, <2>3, <2>4
<1> QED BY <1>1, <1>2, <1>3

\* A state put between two of a rising sequence of states.
LEMMA RisingPut ==
  ASSUME NEW s, NEW q, NEW e, NEW n \in Nat, n = Len(s), e.t \in Int, NEW p \in 2 .. n,
         \A i \in 1 .. n : s[i].t \in Int, Rising(s), s[p - 1].t < e.t, e.t < s[p].t,
         Inserted(q, s, p, e)
  PROVE  Rising(q)
<1>1. PICK a \in [1 .. n -> Int] : \A i \in 1 .. n : a[i] = s[i].t
  <2>1. [i \in 1 .. n |-> s[i].t] \in [1 .. n -> Int]
    OBVIOUS
  <2> QED BY <2>1
<1>2. PICK b : b = [i \in 1 .. n + 1 |-> q[i].t]
  OBVIOUS
<1>3. \A i \in 1 .. n + 1 : q[i] = IF i < p THEN s[i] ELSE IF i = p THEN e ELSE s[i - 1]
  BY DEF Inserted
<1>4. Joined(b, a, n, p, e.t)
  <2> SUFFICES ASSUME NEW i \in 1 .. n + 1
               PROVE  b[i] = IF i < p THEN a[i] ELSE IF i = p THEN e.t ELSE a[i - 1]
    BY DEF Joined
  <2>0. b[i] = q[i].t
    BY <1>2
  <2>1. CASE i < p
    <3>1. i \in 1 .. n
      BY <2>1
    <3> QED BY <1>1, <1>3, <2>0, <2>1, <3>1
  <2>2. CASE i = p
    BY <1>3, <2>0, <2>2
  <2>3. CASE i > p
    <3>1. i - 1 \in 1 .. n
      BY <2>3
    <3> QED BY <1>1, <1>3, <2>0, <2>3, <3>1
  <2> QED BY <2>1, <2>2, <2>3
<1>5. Rise(a, n)
  BY <1>1 DEF Rising, Rise
<1>6. a[p - 1] < e.t /\ e.t < a[p]
  <2>1. p - 1 \in 1 .. n /\ p \in 1 .. n
    OBVIOUS
  <2> QED BY <1>1, <2>1
<1>7. Rise(b, n + 1)
  BY <1>4, <1>5, <1>6, RisingWith
<1>8. Len(q) = n + 1
  BY DEF Inserted
<1> QED BY <1>2, <1>7, <1>8 DEF Rising, Rise

\* The new state enters behind the last one in the direction of the steps.
LEMMA OrderedKept ==
  ASSUME dir \in {-1, 1}, OuterOf(Initial), Ordered(Initial.items, t_min, t_max), AtLast, ~Stuck,
         Cache[cach1].t \in Times, NEW e \in Entries, e.t \in Times,
         Toward(dir, e.t - Cache[cach1].t) > 0
  PROVE  LET M == EnterOuter(Initial, e)
         IN  /\ Ordered(M.items, IF dir < 0 THEN e.t ELSE t_min, IF dir > 0 THEN e.t ELSE t_max)
             /\ M.cur = IF dir = 1 THEN Len(M.items) - 1 ELSE 2
             /\ Current(M) = e /\ M # Initial
<1>1. PICK s \in Seq(Entries), n \in Nat, m \in Nat :
        /\ s = Initial.items /\ n = Len(s) /\ m \in 2 .. n - 1 /\ Divided(s, m)
        /\ Initial.cur \in 2 .. n - 1 /\ n >= 3
  BY OuterIs
<1>2. PICK M : M = EnterOuter(Initial, e)
  OBVIOUS
<1>3. PICK q : q = M.items
  OBVIOUS
<1>4. PICK p : p = IF dir > 0 THEN n ELSE 2
  OBVIOUS
<1>5. PICK c : c = Initial.cur
  OBVIOUS
<1>6. PICK x : x = Cache[cach1].t
  OBVIOUS
<1>7. M.cur = p /\ Inserted(q, s, p, e)
  BY <1>1, <1>2, <1>3, <1>4, EnteredIs
<1>8. p \in 2 .. n /\ n - 1 \in 1 .. n /\ 2 \in 1 .. n /\ 1 \in 1 .. n /\ n \in 1 .. n
      /\ n \in 1 .. n + 1 /\ 2 \in 1 .. n + 1 /\ n + 1 - 1 = n
  BY <1>1, <1>4
<1>9. /\ Len(q) = n + 1
      /\ \A i \in 1 .. n + 1 : q[i] = IF i < p THEN s[i] ELSE IF i = p THEN e ELSE s[i - 1]
  BY <1>1, <1>7 DEF Inserted
<1>10. Rising(s) /\ s[2].t = t_min /\ s[n - 1].t = t_max
  BY <1>1 DEF Ordered
<1>11. s[1].t = -Inf /\ s[n].t = Inf /\ \A i \in 1 .. n : s[i].t \in Int
  BY <1>1, DividedIs
<1>12. /\ c = IF dir = 1 THEN n - 1 ELSE 2
       /\ Toward(dir, x - s[c].t) >= 0
  BY <1>1, <1>5, <1>6 DEF AtLast, Current
<1>13. e.t \in Int /\ x \in Int /\ -Inf < e.t /\ e.t < Inf
  BY <1>6, TimesAre
<1>14. Toward(dir, e.t - x) > 0
  BY <1>6
<1>15. s[2].t \in Int /\ s[n - 1].t \in Int
  BY <1>8, <1>11
<1>16. s[p - 1].t < e.t /\ e.t < s[p].t
  <2>1. CASE dir = 1
    <3>1. p = n /\ c = n - 1 /\ x - s[n - 1].t >= 0 /\ e.t - x > 0
      BY <1>4, <1>12, <1>14, <2>1 DEF Toward
    <3>2. s[n - 1].t < e.t
      BY <1>13, <1>15, <3>1
    <3> QED BY <1>11, <1>13, <3>1, <3>2
  <2>2. CASE dir = -1
    <3>1. p = 2 /\ c = 2 /\ -(x - s[2].t) >= 0 /\ -(e.t - x) > 0 /\ p - 1 = 1
      BY <1>4, <1>12, <1>14, <2>2 DEF Toward
    <3>2. e.t < s[2].t
      BY <1>13, <1>15, <3>1
    <3> QED BY <1>11, <1>13, <3>1, <3>2
  <2> QED BY <2>1, <2>2
<1>17. Rising(q)
  BY <1>1, <1>7, <1>8, <1>10, <1>11, <1>13, <1>16, RisingPut
<1>18. q[p] = e
  <2>1. p \in 1 .. n + 1
    BY <1>8
  <2> QED BY <1>9, <2>1
<1>19. CASE dir = 1
  <2>1. p = n /\ q[n] = e /\ Len(q) - 1 = n
    BY <1>1, <1>4, <1>9, <1>18, <1>19
  <2>2. q[2] = s[2]
    BY <1>1, <1>8, <1>9, <2>1
  <2> QED BY <1>1, <1>2, <1>3, <1>7, <1>9, <1>10, <1>17, <1>19, <2>1, <2>2 DEF Ordered, Current
<1>20. CASE dir = -1
  <2>1. p = 2 /\ q[2] = e /\ Len(q) - 1 = n
    BY <1>1, <1>4, <1>9, <1>18, <1>20
  <2>2. q[n] = s[n - 1]
    BY <1>1, <1>8, <1>9, <2>1
  <2> QED BY <1>1, <1>2, <1>3, <1>7, <1>9, <1>10, <1>17, <1>20, <2>1, <2>2 DEF Ordered, Current
<1> QED BY <1>19, <1>20

\* One of the saved states between the ends of their list, and the ends.
LEMMA SavedIs ==
  ASSUME OuterOf(Initial), NEW i \in 2 .. Len(Initial.items) - 1
  PROVE  Initial.items[i].t \in Times
<1>1. PICK s \in Seq(Entries), n \in Nat, m \in Nat :
        /\ s = Initial.items /\ n = Len(s) /\ m \in 2 .. n - 1 /\ Divided(s, m)
        /\ Initial.cur \in 2 .. n - 1 /\ n >= 3
  BY OuterIs
<1>2. i \in 2 .. m - 1 \/ i = m \/ i \in m + 1 .. n - 1
  BY <1>1
<1>3. T0 \in Times
  BY TimesAre DEF Times
<1>4. /\ s[m].t = T0
      /\ \A j \in 2 .. m - 1 : s[j].t \in Times
      /\ \A j \in m + 1 .. n - 1 : s[j].t \in Times
  BY <1>1, DividedIs
<1> QED BY <1>1, <1>2, <1>3, <1>4

\* An end of the list next to a saved state: that one is the last in direction d.
LEMMA EndIs ==
  ASSUME OuterOf(Initial), NEW d \in {-1, 1}, NEW i \in 2 .. Len(Initial.items) - 1,
         Initial.items[i + d].t \in {-Inf, Inf}
  PROVE  i = IF d = 1 THEN Len(Initial.items) - 1 ELSE 2
<1>1. ASSUME i + d \in 2 .. Len(Initial.items) - 1
      PROVE  FALSE
  <2>1. Initial.items[i + d].t \in Times
    BY <1>1, SavedIs
  <2> QED BY <2>1, TimesAre
<1>2. Len(Initial.items) \in Nat
  BY DEF OuterOf
<1> QED BY <1>1, <1>2

\* What a step does to the order of the saved states.
LEMMA SteppedOrder ==
  ASSUME IInv, dir \in {-1, 1}, dir' = dir, OuterOf(Initial),
         Ordered(Initial.items, t_min, t_max), n_steps >= 0 => AtLast,
         NEW t_request, NEW ignore, NEW r \in Step(t_request, ignore),
         Initial' = r.Initial, n_steps' = r.n_steps,
         t_max' = IF r.Initial # Initial /\ dir > 0 THEN Current(r.Initial).t ELSE t_max,
         t_min' = IF r.Initial # Initial /\ dir < 0 THEN Current(r.Initial).t ELSE t_min,
         Cache'[cach1'] = r.Cache[r.cach1]
  PROVE  /\ Ordered(Initial'.items, t_min', t_max')
         /\ n_steps' >= 0 => AtLast'
<1>1. RingInv /\ Cache[cach1].t \in Times
  <2>1. RingInv /\ RingOf(Cache, cach0, cach1, dir)
    BY DEF IInv, RingInv
  <2>2. cach1 \in Slots /\ InRing(cach1, cach0, cach1)
    BY <2>1, RingShift DEF RingOf
  <2> QED BY <2>1, <2>2 DEF RingOf
<1>2. Current(Initial).t \in Times
  BY SavedIs DEF OuterOf, Current
<1>3. CASE r.Initial = Initial /\ (n_steps' >= 0 => n_steps >= 0)
           /\ Toward(dir, Cache'[cach1'].t - Cache[cach1].t) >= 0 /\ Cache'[cach1'].t \in Times
           /\ ~Stuck
  <2>1. Initial' = Initial /\ t_max' = t_max /\ t_min' = t_min
    BY <1>3
  <2>2. AtLast => AtLast'
    <3>1. PICK x \in Int, y \in Int, z \in Int :
            x = Cache[cach1].t /\ y = Cache'[cach1'].t /\ z = Current(Initial).t
      BY <1>1, <1>2, <1>3, TimesAre
    <3>2. Toward(dir, y - x) >= 0 /\ Toward(dir, x - z) >= 0 => Toward(dir, y - z) >= 0
      BY DEF Toward
    <3> QED BY <1>3, <2>1, <3>1, <3>2 DEF AtLast
  <2> QED BY <1>3, <2>1, <2>2
<1>4. CASE Stands(r) /\ ~Stuck
  <2>1. r.Initial = Initial /\ n_steps' = n_steps /\ Cache'[cach1'].t = Cache[cach1].t
    BY <1>4 DEF Stands
  <2>2. Toward(dir, Cache'[cach1'].t - Cache[cach1].t) >= 0
    BY <1>1, <2>1, TimesAre DEF Toward
  <2> QED BY <1>1, <1>3, <1>4, <2>1, <2>2
<1>5. ASSUME NEW e \in Entries, e = r.Cache[r.cach1], e.t \in Times, ~Stuck,
             Toward(dir, e.t - Cache[cach1].t) > 0, SavedBy(r, e)
      PROVE  Ordered(Initial'.items, t_min', t_max') /\ (n_steps' >= 0 => AtLast')
  <2>1. CASE /\ r.Initial = Initial
             /\ r.n_steps = IF n_steps >= 0 THEN n_steps + 1 ELSE n_steps
    <3>1. r.Initial = Initial /\ (n_steps' >= 0 => n_steps >= 0)
      BY <2>1
    <3>2. Toward(dir, e.t - Cache[cach1].t) >= 0
      BY <1>1, <1>5, TimesAre DEF Toward
    <3> QED BY <1>3, <1>5, <3>1, <3>2
  <2>2. CASE Saves /\ r.Initial = EnterOuter(Initial, e)
    <3>1. AtLast
      BY <2>2 DEF Saves
    <3>2. PICK M : M = EnterOuter(Initial, e)
      OBVIOUS
    <3>3. /\ Ordered(M.items, IF dir < 0 THEN e.t ELSE t_min, IF dir > 0 THEN e.t ELSE t_max)
          /\ M.cur = IF dir = 1 THEN Len(M.items) - 1 ELSE 2
          /\ Current(M) = e /\ M # Initial
      BY <1>1, <1>5, <3>1, <3>2, OrderedKept
    <3>4. Initial' = M /\ r.Initial = M
      BY <1>5, <2>2, <3>2
    <3>5. /\ t_max' = (IF dir > 0 THEN e.t ELSE t_max)
          /\ t_min' = (IF dir < 0 THEN e.t ELSE t_min)
      BY <3>3, <3>4
    <3>6. Cache'[cach1'].t - Current(Initial').t = 0
      BY <1>5, <3>3, <3>4, TimesAre
    <3>7. AtLast'
      BY <3>3, <3>4, <3>6 DEF AtLast, Toward
    <3> QED BY <3>3, <3>4, <3>5, <3>7
  <2> QED BY <1>5, <2>1, <2>2 DEF SavedBy
<1>6. CASE /\ Sticks(r.Cache[cach1]) /\ r.cach1 = cach1
           /\ r.Initial = Initial /\ r.n_steps = n_steps
  <2>1. Initial' = Initial /\ n_steps' = n_steps /\ t_max' = t_max /\ t_min' = t_min
    BY <1>6
  <2>2. Stuck'
    BY <1>6 DEF Stuck, Sticks
  <2>3. AtLast => AtLast'
    BY <2>1, <2>2 DEF AtLast
  <2> QED BY <2>1, <2>3
<1> QED BY <1>1, <1>4, <1>5, <1>6, StepLands

\* The saved states next to the current one.
LEMMA NextSaved ==
  ASSUME OuterOf(Initial), dir \in {-1, 1}, Initial.cur + dir \in 2 .. Len(Initial.items) - 1
  PROVE  /\ G(dir) = Initial.items[Initial.cur + dir] /\ G(dir).t \in Times
         /\ G(2 * dir) = Initial.items[Initial.cur + dir + dir]
         /\ NextOuter = [items |-> Initial.items, cur |-> Initial.cur + dir]
<1>1. PICK s, c : Initial = [items |-> s, cur |-> c] /\ s \in Seq(Entries) /\ c \in 2 .. Len(s) - 1
  BY DEF OuterOf
<1>2. Len(s) \in Nat /\ c + dir \in 2 .. Len(s) - 1
  BY <1>1
<1>3. G(dir) = s[c + dir] /\ G(2 * dir) = s[c + dir + dir]
  <2>1. 2 * dir = dir + dir /\ c + 2 * dir = c + dir + dir /\ c + dir + dir \in 1 .. Len(s)
    BY <1>1, <1>2
  <2> QED BY <1>1, <1>2, <2>1 DEF G, Offset, IsCurrent
<1>4. NextOuter = [items |-> s, cur |-> c + dir]
  BY <1>1, <1>2 DEF NextOuter, NextL, PrevL
<1>5. Initial.items[Initial.cur + dir].t \in Times
  BY SavedIs
<1> QED BY <1>1, <1>3, <1>4, <1>5

\* The ring and the saved states as they were.
LEMMA OrderStays ==
  ASSUME OrderInv, UNCHANGED <<Cache, cach1, dir, n_steps, Initial, t_min, t_max>>,
         call'.phase \in {"idle", "loop"}, (init \/ Running)' => init \/ Running
  PROVE  OrderInv'
<1>1. Ordered(Initial.items, t_min, t_max)' = Ordered(Initial.items, t_min, t_max)
  BY DEF Ordered
<1>2. AtLast' = AtLast
  BY DEF AtLast, Stuck
<1> QED BY <1>1, <1>2 DEF OrderInv

LEMMA InitializeOrder ==
  ASSUME IInv, TrialUnsaved, NEW dt \in Dts, Initialize(dt)
  PROVE  OrderInv'
<1>1. dt \in Int
  BY ODEAssumption
<1>2. PICK s : s = <<Minus, First, Plus>>
  OBVIOUS
<1>3. /\ Len(s) = 3 /\ s[1].t = -Inf /\ s[2].t = T0 /\ s[3].t = Inf
  BY <1>2 DEF Minus, First, Plus
<1>4. Initial' = [items |-> s, cur |-> 2] /\ t_min' = T0 /\ t_max' = T0 /\ n_steps' = 0
  BY <1>2 DEF Initialize
<1>5. -Inf < T0 /\ T0 < Inf /\ T0 \in Int /\ Inf \in Nat
  <2>1. T0 \in Times
    BY TimesAre DEF Times
  <2> QED BY <2>1, TimesAre
<1>6. Ordered(Initial'.items, t_min', t_max')
  <2>1. ASSUME NEW i \in 1 .. 3, NEW j \in 1 .. 3, i < j
        PROVE  s[i].t < s[j].t
    <3>1. (i = 1 /\ j = 2) \/ (i = 1 /\ j = 3) \/ (i = 2 /\ j = 3)
      BY <2>1
    <3>2. -Inf \in Int /\ -Inf < Inf
      BY <1>5
    <3> QED BY <1>3, <1>5, <3>1, <3>2
  <2>2. Rising(s)
    BY <1>3, <2>1 DEF Rising
  <2>3. Len(s) - 1 = 2
    BY <1>3
  <2>4. Ordered(s, T0, T0)
    BY <1>3, <2>2, <2>3 DEF Ordered
  <2>5. Initial'.items = s
    BY <1>4
  <2> QED BY <1>4, <2>4, <2>5
<1>7. CASE dt = 0
  <2>1. dir' = 0 /\ call' = call /\ call.phase = "idle"
    BY <1>7 DEF Initialize, IsIdle
  <2> QED BY <1>6, <2>1 DEF OrderInv
<1>8. CASE dt # 0
  <2>1. /\ Cache' = [Cache EXCEPT ![0] = [First EXCEPT !.h = dt]] /\ cach1' = 0
        /\ dir' \in {-1, 1} /\ call' = [Idle EXCEPT !.phase = "trial", !.t = T0 + dt]
    BY <1>1, <1>8 DEF Initialize
  <2>2. call'.phase = "trial"
    BY <2>1 DEF Idle
  <2>3. Cache'[0].t = T0
    BY <2>1, StartsAre DEF IInv, RingInv, First
  <2>4. AtLast'
    BY <1>3, <1>4, <1>5, <2>1, <2>3 DEF AtLast, Current, Toward
  <2>5. CacheStep \notin 1 .. IF NeverStop THEN 2 ELSE 8
    BY <1>8 DEF TrialUnsaved
  <2> QED BY <1>3, <1>4, <1>6, <2>2, <2>4, <2>5 DEF OrderInv
<1> QED BY <1>7, <1>8

\* No trial step is saved.
LEMMA TrialKept ==
  ASSUME IInv, OrderInv, call.phase \in {"trial", "longer"}
  PROVE  /\ ~Saves /\ dir \in {-1, 1} /\ OuterOf(Initial) /\ RingInv
         /\ Ordered(Initial.items, t_min, t_max) /\ AtLast
         /\ Current(Initial).t = T0
<1>1. /\ n_steps \in Nat /\ n_steps <= IF NeverStop THEN 1 ELSE 7
      /\ CacheStep \notin 1 .. IF NeverStop THEN 2 ELSE 8
      /\ Initial.cur = 2 /\ Initial.items[2].t = T0
  BY DEF OrderInv, Halvings
<1>2. ~Saves
  BY <1>1, ODEAssumption DEF Saves
<1>3. dir \in {-1, 1} /\ OuterOf(Initial) /\ RingInv
  BY DEF IInv, CallInv, Running
<1>4. Ordered(Initial.items, t_min, t_max) /\ AtLast
  BY <1>1, <1>3 DEF OrderInv, Running
<1> QED BY <1>1, <1>2, <1>3, <1>4 DEF Current

\* A trial step leaves the saved states alone; n_steps may count it.
LEMMA TrialSteps ==
  ASSUME IInv, OrderInv, call.phase \in {"trial", "longer"}, NEW r \in Step(call.t, IgnoreStop)
  PROVE  /\ r.Initial = Initial
         /\ r.n_steps = n_steps \/ r.n_steps = n_steps + 1
         /\ NeverStop /\ r.status # "OK" => r.n_steps = n_steps
<1>1. ~Saves /\ dir \in {-1, 1} /\ RingInv
  BY TrialKept
<1>2. CASE r.Initial = Initial /\ r.n_steps = n_steps
  BY <1>2
<1>3. ASSUME NEW e \in Entries, SavedBy(r, e), NeverStop \/ ~(n_steps >= 0) => r.status = "OK"
      PROVE  /\ r.Initial = Initial
             /\ r.n_steps = n_steps \/ r.n_steps = n_steps + 1
             /\ NeverStop /\ r.status # "OK" => r.n_steps = n_steps
  BY <1>1, <1>3 DEF SavedBy
<1> QED BY <1>1, <1>2, <1>3, StepLands DEF Stands

LEMMA TrialStepOrder ==
  ASSUME IInv, OrderInv, TrialStep
  PROVE  OrderInv'
<1>1. PICK r \in Step(call.t, IgnoreStop) :
        LET h == Abs(r.Cache[0].h)
        IN  /\ Stepped(r)
            /\ \/ /\ r.status \notin {"OK", "STOP_CONDITION"}
                  /\ cach0' = r.cach0 /\ cach1' = r.cach1 /\ Stops' = r.Stops
                  /\ call' = Idle
                  /\ UNCHANGED <<cache, init, InitH>>
               \/ /\ r.status \in {"OK", "STOP_CONDITION"} /\ ~CanGrow(h)
                  /\ InitH' = h
                  /\ Initialized(r.cach0, r.cach1, r.Stops)
               \/ /\ r.status \in {"OK", "STOP_CONDITION"} /\ CanGrow(h)
                  /\ InitH' \in Longer(h)
                  /\ cach0' = r.cach0 /\ cach1' = r.cach1 /\ Stops' = r.Stops
                  /\ call' = [call EXCEPT !.phase = "longer", !.t = T0 + dir * InitH', !.steps = h]
                  /\ UNCHANGED <<cache, init>>
  BY DEF TrialStep
<1>2. /\ call.phase = "trial" /\ dir' = dir /\ cach1' = r.cach1
      /\ call' = Idle \/ (r.status \in {"OK", "STOP_CONDITION"} /\ call'.phase = "longer")
  <2>1. call.phase = "trial" /\ dir' = dir
    BY DEF TrialStep
  <2>2. call = [phase |-> call.phase, op |-> call.op, t |-> call.t, status |-> call.status,
                steps |-> call.steps, find |-> NoValue, sync |-> call.sync]
    BY DEF IInv, CallInv
  <2> QED BY <1>1, <2>1, <2>2 DEF Initialized
<1>3. /\ ~Saves /\ dir \in {-1, 1} /\ OuterOf(Initial) /\ RingInv
      /\ Ordered(Initial.items, t_min, t_max) /\ AtLast
  BY <1>2, TrialKept
<1>4. /\ Cache' = r.Cache /\ n_steps' = r.n_steps /\ Initial' = r.Initial
      /\ t_max' = IF r.Initial # Initial /\ dir > 0 THEN Current(r.Initial).t ELSE t_max
      /\ t_min' = IF r.Initial # Initial /\ dir < 0 THEN Current(r.Initial).t ELSE t_min
  BY <1>1 DEF Stepped
<1>5. Ordered(Initial'.items, t_min', t_max') /\ (n_steps' >= 0 => AtLast')
  <2>1. Cache'[cach1'] = r.Cache[r.cach1]
    BY <1>2, <1>4
  <2> QED BY <1>2, <1>3, <1>4, <2>1, SteppedOrder
<1>6. CASE call' = Idle
  BY <1>5, <1>6 DEF OrderInv, Idle
<1>7. CASE r.status \in {"OK", "STOP_CONDITION"} /\ call'.phase = "longer"
  <2>1. /\ n_steps = 0 /\ CacheStep \notin 1 .. IF NeverStop THEN 2 ELSE 8
        /\ Len(Initial.items) = 3 /\ Initial.cur = 2 /\ Initial.items[2].t = T0
    BY <1>2 DEF OrderInv
  <2>2. r.Initial = Initial /\ r.n_steps \in 0 .. 1
    <3>1. call.phase \in {"trial", "longer"}
      BY <1>2
    <3>2. r.Initial = Initial /\ (r.n_steps = n_steps \/ r.n_steps = n_steps + 1)
      BY <3>1, TrialSteps
    <3> QED BY <2>1, <3>2
  <2>3. Halvings'
    <3>1. InitH' \in Longer(call'.steps)
      <4>1. PICK h : h = Abs(r.Cache[0].h)
        OBVIOUS
      <4>2. /\ InitH' \in Longer(h)
            /\ call' = [call EXCEPT !.phase = "longer", !.t = T0 + dir * InitH', !.steps = h]
        <5>1. ~Initialized(r.cach0, r.cach1, r.Stops) /\ call' # Idle
          BY <1>7 DEF Initialized, Idle
        <5> QED BY <1>1, <4>1, <5>1
      <4>3. PICK o, u, y, k, w : call = [phase |-> "trial", op |-> o, t |-> u, status |-> y,
                                         steps |-> k, find |-> NoValue, sync |-> w]
        BY <1>2 DEF IInv, CallInv
      <4>4. call'.steps = h
        BY <4>2, <4>3
      <4> QED BY <4>2, <4>4
    <3>2. PICK m \in {2, 4, 8, 16, 32, 64, 128} : InitH' = call'.steps * m
      BY <3>1 DEF Longer
    <3>3. \E k \in 1 .. 7 : m = Power[k]
      <4>1. /\ Power[1] = 2 /\ Power[2] = 4 /\ Power[3] = 8 /\ Power[4] = 16
            /\ Power[5] = 32 /\ Power[6] = 64 /\ Power[7] = 128
        BY DEF Power
      <4> QED BY <4>1
    <3>4. PICK k \in 1 .. 7 : InitH' = call'.steps * Power[k]
      BY <3>2, <3>3
    <3>5. n_steps' <= IF NeverStop THEN 1 ELSE 8 - k
      BY <1>4, <2>2
    <3> QED BY <3>4, <3>5 DEF Halvings
  <2>4. call'.phase = "longer" /\ n_steps' \in Nat /\ Initial' = Initial
    BY <1>4, <1>7, <2>2
  <2> QED BY <1>5, <2>1, <2>3, <2>4 DEF OrderInv
<1> QED BY <1>2, <1>6, <1>7

LEMMA LongerStepOrder ==
  ASSUME IInv, OrderInv, LongerStep
  PROVE  OrderInv'
<1>1. PICK r \in Step(call.t, IgnoreStop) : TriesHalf(r) \/ TakesLength(r)
  BY LongerGoes
<1>2. /\ call.phase = "longer" /\ dir' = dir /\ Onward(dir, Cache[0])
      /\ call.steps \in Nat \ {0} /\ InitH \in Nat \ {0}
  BY LongerGoes DEF LongerStep
<1>3. /\ ~Saves /\ dir \in {-1, 1} /\ OuterOf(Initial) /\ RingInv
      /\ Ordered(Initial.items, t_min, t_max) /\ AtLast /\ Current(Initial).t = T0
  BY <1>2, TrialKept
<1>4. /\ r.Initial = Initial
      /\ r.n_steps = n_steps \/ r.n_steps = n_steps + 1
      /\ NeverStop /\ r.status # "OK" => r.n_steps = n_steps
  BY <1>2, TrialSteps
<1>5. CASE TriesHalf(r)
  <2>1. /\ r.status # "OK" /\ InitH' \in Longer(call.steps)
        /\ Cache' = r.Cache /\ n_steps' = r.n_steps /\ Initial' = r.Initial
        /\ t_max' = (IF r.Initial # Initial /\ dir > 0 THEN Current(r.Initial).t ELSE t_max)
        /\ t_min' = (IF r.Initial # Initial /\ dir < 0 THEN Current(r.Initial).t ELSE t_min)
        /\ cach1' = r.cach1 /\ call' = [call EXCEPT !.t = T0 + dir * InitH'] /\ init' = init
    BY <1>5 DEF TriesHalf, Stepped
  <2>2. /\ CacheStep \notin 1 .. IF NeverStop THEN 2 ELSE 8
        /\ n_steps \in Nat /\ Halvings
        /\ Len(Initial.items) = 3 /\ Initial.cur = 2 /\ Initial.items[2].t = T0
    BY <1>2 DEF OrderInv
  <2>3. Ordered(Initial'.items, t_min', t_max') /\ (n_steps' >= 0 => AtLast')
    <3>1. Cache'[cach1'] = r.Cache[r.cach1]
      BY <2>1
    <3> QED BY <1>2, <1>3, <2>1, <3>1, SteppedOrder
  <2>4. call'.phase = "longer" /\ call'.steps = call.steps
    <3>1. PICK o, u, y, k, w : call = [phase |-> "longer", op |-> o, t |-> u, status |-> y,
                                       steps |-> k, find |-> NoValue, sync |-> w]
      BY <1>2 DEF IInv, CallInv
    <3> QED BY <2>1, <3>1
  <2>5. Halvings'
    <3>1. PICK k \in 1 .. 7 : /\ InitH = call.steps * Power[k]
                              /\ n_steps <= IF NeverStop THEN 1 ELSE 8 - k
      BY <2>2 DEF Halvings
    <3>2. InitH' = InitH \div 2
      <4>1. PICK q : InitH' = NextLength(q)
        BY DEF LongerStep
      <4>2. InitH' # InitH
        <5>1. call' # Idle
          BY <2>4 DEF Idle
        <5>2. PICK w \in Step(call.t, IgnoreStop) :
                /\ InitH' = NextLength(w)
                /\ w.status # "OK" \/ Initialized(0, 0, FirstStops)
          BY DEF LongerStep
        <5>3. w.status # "OK"
          BY <5>1, <5>2 DEF Initialized
        <5>4. InitH' = InitH \div 2
          BY <5>2, <5>3 DEF NextLength
        <5> QED BY <1>2, <5>4
      <4> QED BY <4>1, <4>2 DEF NextLength
    <3>3. CASE k = 1
      <4>1. InitH' = call.steps
        BY <1>2, <3>1, <3>2, <3>3 DEF Power
      <4>2. call.steps \notin Longer(call.steps)
        BY <1>2 DEF Longer
      <4> QED BY <2>1, <4>1, <4>2
    <3>4. CASE k # 1
      <4>1. k - 1 \in 1 .. 7 /\ Power[k] = 2 * Power[k - 1] /\ Power[k - 1] \in Nat
        <5>1. k \in 2 .. 7
          BY <3>4
        <5> QED BY <5>1 DEF Power
      <4>2. InitH' = call.steps * Power[k - 1]
        BY <1>2, <3>1, <3>2, <4>1
      <4>3. n_steps' <= IF NeverStop THEN 1 ELSE 8 - (k - 1)
        BY <1>4, <2>1, <2>2, <3>1
      <4>4. call'.steps = call.steps
        BY <2>4
      <4> QED BY <4>1, <4>2, <4>3, <4>4 DEF Halvings
    <3> QED BY <3>3, <3>4
  <2>6. n_steps' \in Nat /\ Initial' = Initial
    BY <1>4, <2>1, <2>2
  <2> QED BY <2>2, <2>3, <2>4, <2>5, <2>6 DEF OrderInv
<1>6. CASE TakesLength(r)
  <2>1. PICK H : H = InitH'
    OBVIOUS
  <2>2. cach1' = 0 /\ call' = Idle
    BY <1>6 DEF TakesLength, Initialized
  <2>3. /\ Cache' = [r.Cache EXCEPT ![0].h = dir * H] /\ Initial' = Initial
        /\ t_max' = t_max /\ t_min' = t_min
    <3>1. PICK q : q = [r EXCEPT !.Cache[0].h = dir * H]
      OBVIOUS
    <3>2. {"Cache", "n_steps", "Initial"} \subseteq DOMAIN r
      BY StepGoes
    <3>3. q.Cache = [r.Cache EXCEPT ![0].h = dir * H] /\ q.Initial = Initial
      BY <1>4, <3>1, <3>2
    <3>4. Stepped(q)
      BY <1>6, <2>1, <3>1 DEF TakesLength
    <3> QED BY <3>3, <3>4 DEF Stepped
  <2>4. r.Cache \in [Slots -> Entries] /\ Onward(dir, r.Cache[0])
    BY <1>2, <1>3, StepRing, StartsAre
  <2>5. Cache'[0].t = r.Cache[0].t
    <3>1. 0 \in Slots /\ r.Cache[0] \in Entries
      BY <2>4, StartsAre
    <3>2. PICK x : x = dir * H
      OBVIOUS
    <3>3. Cache' = [r.Cache EXCEPT ![0].h = x]
      BY <2>3, <3>2
    <3> QED BY <2>4, <3>1, <3>3 DEF Entries
  <2>6. AtLast'
    BY <1>2, <1>3, <2>2, <2>3, <2>4, <2>5 DEF AtLast, Onward
  <2>7. Ordered(Initial'.items, t_min', t_max') /\ call'.phase = "idle"
    BY <1>3, <2>2, <2>3 DEF Idle
  <2> QED BY <2>6, <2>7 DEF OrderInv
<1> QED BY <1>1, <1>5, <1>6

\* A state restarted from, beside an end of the list, is the last one.
LEMMA NewRingOrder ==
  ASSUME IInv, OrderInv, IsIdle, init, NEW op, NEW t \in Requests, NEW d \in {-1, 1}, NEW at, NEW L,
         (op \in {"Integrate", "Find"} /\ t = T0) \/ StartOf(at, d), NewRing(op, t, d, at, L)
  PROVE  OrderInv'
<1>1. PICK s : s = Initial.items[at]
  OBVIOUS
<1>2. PICK H : H = IF InitH = 0
                   THEN Lesser(MaxStep, IF Abs(t - T0) < 2 THEN 1 ELSE Abs(t - T0) \div 2)
                   ELSE InitH
  OBVIOUS
<1>3. OuterOf(Initial) /\ Ordered(Initial.items, t_min, t_max) /\ Cache \in [Slots -> Entries]
  BY DEF IInv, CallInv, RingInv, OrderInv
<1>4. init' = init /\ t_min' = t_min /\ t_max' = t_max
  BY DEF NewRing, StepsFrom
<1>5. PICK q, c : Initial = [items |-> q, cur |-> c]
  BY <1>3 DEF OuterOf
<1>6. CASE /\ dir' = 0 /\ call' = Finished(op, "OK")
           /\ Initial' = Initial \/ Initial' = [Initial EXCEPT !.cur = at]
  <2>1. call'.phase = "idle"
    BY <1>6 DEF Finished, IInv, CallInv, Idle
  <2>2. Initial'.items = Initial.items
    BY <1>5, <1>6
  <2> QED BY <1>3, <1>4, <1>6, <2>1, <2>2 DEF OrderInv
<1>7. CASE /\ dir' = d /\ StartOf(at, d) /\ Initial' = [Initial EXCEPT !.cur = at]
           /\ n_steps' = IF Initial.items[at + d].t \in {-Inf, Inf} THEN 0 ELSE -1
           /\ Cache' = [Cache EXCEPT ![0] = IF s.t = T0 THEN [First EXCEPT !.h = d * H] ELSE s]
           /\ cach1' = 0
           /\ BeginLoop("loop", op, t, L)
  <2>1. call'.phase = "loop"
    BY <1>7 DEF BeginLoop
  <2>2. Initial' = [items |-> q, cur |-> at] /\ Initial.items = q
    BY <1>5, <1>7
  <2>3. Cache'[0].t = s.t
    <3>1. PICK e : e = IF s.t = T0 THEN [First EXCEPT !.h = d * H] ELSE s
      OBVIOUS
    <3>2. e.t = s.t
      BY <3>1 DEF First
    <3>3. Cache' = [Cache EXCEPT ![0] = e]
      BY <1>7, <3>1
    <3> QED BY <1>3, <3>2, <3>3, StartsAre
  <2>4. s.t \in Times /\ at \in 2 .. Len(q) - 1
    BY <1>1, <1>7, <2>2 DEF StartOf
  <2>5. Toward(dir', Cache'[0].t - Current(Initial').t) >= 0
    BY <1>1, <2>2, <2>3, <2>4, TimesAre DEF Current, Toward
  <2>6. n_steps' >= 0 => at = IF d = 1 THEN Len(q) - 1 ELSE 2
    BY <1>3, <1>7, <2>2, <2>4, EndIs
  <2>7. n_steps' >= 0 => AtLast'
    BY <1>7, <2>2, <2>5, <2>6 DEF AtLast
  <2> QED BY <1>3, <1>4, <2>1, <2>2, <2>7 DEF OrderInv
<1>8. \/ /\ dir' = 0 /\ call' = Finished(op, "OK")
         /\ Initial' = Initial \/ Initial' = [Initial EXCEPT !.cur = at]
      \/ /\ op \in {"Integrate", "Find"} => t # T0
         /\ dir' = d /\ Initial' = [Initial EXCEPT !.cur = at]
         /\ n_steps' = IF Initial.items[at + d].t \in {-Inf, Inf} THEN 0 ELSE -1
         /\ Cache' = [Cache EXCEPT ![0] = IF s.t = T0 THEN [First EXCEPT !.h = d * H] ELSE s]
         /\ cach1' = 0
         /\ BeginLoop("loop", op, t, L)
  BY <1>1, <1>2, Zenon DEF NewRing, StepsFrom
<1> QED BY <1>6, <1>7, <1>8, Zenon

LEMMA KeepRingOrder ==
  ASSUME IInv, StepsSuffice, OrderInv, NEW op, NEW t, KeepRing(op, t)
  PROVE  OrderInv'
<1>1. PICK L : L = StopAhead(op, t).list
  OBVIOUS
<1>2. PICK phase : phase = IF AtLastOuter(2 * dir) THEN "retrace" ELSE "loop"
  OBVIOUS
<1>3. /\ BeginLoop(phase, op, t, L) /\ Asked(op, t) /\ dir # 0 /\ IsNear(t)
      /\ n_steps' = -1
      /\ Initial' = IF AtLastOuter(2 * dir) THEN Initial ELSE NextOuter
      /\ UNCHANGED <<Cache, cach0, cach1, dir, init, t_min, t_max>>
  BY <1>1, <1>2 DEF KeepRing, ring
<1>4. init /\ OuterOf(Initial) /\ t \in Requests
  BY <1>3, AskedIs
<1>5. dir \in {-1, 1} /\ RingOf(Cache, cach0, cach1, dir)
  BY <1>3 DEF IInv, RingInv
<1>6. Initial.cur + dir \in 2 .. Len(Initial.items) - 1
  BY <1>3, <1>4, <1>5, NearIs
<1>7. /\ G(dir).t \in Times
      /\ NextOuter = [items |-> Initial.items, cur |-> Initial.cur + dir]
  BY <1>4, <1>5, <1>6, NextSaved
<1>8. Ordered(Initial'.items, t_min', t_max')
  BY <1>3, <1>4, <1>7 DEF OrderInv
<1>9. call'.phase = phase /\ call'.status = "ODE_BUG" /\ call'.steps = MaxSteps
  BY <1>3 DEF BeginLoop
<1>10. CASE phase = "loop"
  BY <1>3, <1>8, <1>9, <1>10 DEF OrderInv
<1>11. CASE phase = "retrace"
  <2>1. Initial' = Initial /\ AtLastOuter(2 * dir)
    BY <1>2, <1>3, <1>11
  <2>2. AtLastOuter(2 * dir)'
    BY <1>3, <2>1 DEF AtLastOuter, G
  <2>3. G(dir)' = G(dir)
    BY <1>3, <2>1 DEF G
  <2>4. Cache[cach1].t \in Times
    <3>1. cach1 \in Slots /\ InRing(cach1, cach0, cach1)
      BY <1>5, RingShift DEF RingOf
    <3> QED BY <1>5, <3>1 DEF RingOf
  <2>5. Left <= 0 \/ (MaxSteps - 1) * Pace > Left
    <3>1. PICK g \in Int, x \in Int, h \in Int, N \in Nat :
            /\ g = G(dir).t /\ x = Cache[cach1].t /\ h = Cache[cach1].h /\ N = NCache \div 4
            /\ Toward(dir, h) > 0
      <4>1. cach1 \in Slots /\ InRing(cach1, cach0, cach1)
        BY <1>5, RingShift DEF RingOf
      <4>2. Cache[cach1].h \in Int /\ Toward(dir, Cache[cach1].h) > 0
        BY <1>5, <4>1 DEF RingOf, IInv, RingInv, Entries
      <4>3. NCache \div 4 \in Nat
        BY ODEAssumption
      <4> QED BY <1>7, <2>4, <4>2, <4>3, TimesAre
    <3>2. dir * g <= dir * t /\ Abs(t - x) < N * h /\ t \in Int
      BY <1>3, <1>4, <3>1, TimesAre DEF IsNear
    <3>3. dir = 1
      <4>1. ASSUME dir = -1 PROVE FALSE
        <5>1. -h \in Nat
          BY <3>1, <4>1 DEF Toward
        <5>2. N * (-h) >= 0
          BY <5>1
        <5>3. N * h <= 0
          BY <5>2
        <5>4. Abs(t - x) >= 0 /\ Abs(t - x) \in Int /\ N * h \in Int
          BY <3>1, <3>2 DEF Abs
        <5> HIDE <3>1
        <5> QED BY <3>2, <5>3, <5>4
      <4> QED BY <1>5, <4>1
    <3>4. Left < N * h /\ h \in Nat
      <4>1. g - x <= t - x
        BY <3>2, <3>3
      <4>2. t - x <= Abs(t - x) /\ Abs(t - x) \in Int
        BY <3>2 DEF Abs
      <4>3. Left = g - x /\ h \in Nat
        BY <3>1, <3>3 DEF Left, Toward
      <4> QED BY <3>1, <3>2, <4>1, <4>2, <4>3
    <3>5. MaxSteps - 1 \in Nat /\ N <= MaxSteps - 1
      BY <3>1, ODEAssumption DEF StepsSuffice
    <3>6. N * h <= (MaxSteps - 1) * h
      BY <3>4, <3>5, ProductGrows
    <3>7. Pace = h /\ Left \in Int
      BY <3>1, <3>3 DEF Pace, Left, Toward
    <3> QED BY <3>4, <3>5, <3>6, <3>7
  <2>6. Left' = Left /\ Pace' = Pace
    BY <1>3, <2>3 DEF Left, Pace
  <2>7. init' /\ MaxSteps \in Nat \ {0}
    BY <1>3, <1>4, ODEAssumption
  <2> QED BY <1>3, <1>8, <1>9, <1>11, <2>2, <2>5, <2>6, <2>7 DEF OrderInv
<1> QED BY <1>2, <1>10, <1>11

LEMMA OneStepOrder ==
  ASSUME IInv, OrderInv, ShortInv, NEW phase \in {"loop", "retrace"}, OneStep(phase)
  PROVE  OrderInv'
<1>1. PICK r \in Step(StepTo, ~HeedsStops) :
        /\ Stepped(r)
        /\ cach0' = r.cach0 /\ cach1' = r.cach1 /\ Stops' = r.Stops
        /\ call' = [call EXCEPT !.status = r.status, !.steps = @ - 1]
  BY DEF OneStep
<1>2. /\ call.phase = phase /\ UNCHANGED <<dir, init, InitH>>
      /\ dir \in {-1, 1} /\ OuterOf(Initial) /\ RingInv
      /\ Ordered(Initial.items, t_min, t_max) /\ (n_steps >= 0 => AtLast)
      /\ call.steps > 1
  BY DEF OneStep, Steps, IInv, CallInv, Running, OrderInv
<1>3. /\ Cache' = r.Cache /\ n_steps' = r.n_steps /\ Initial' = r.Initial
      /\ t_max' = IF r.Initial # Initial /\ dir > 0 THEN Current(r.Initial).t ELSE t_max
      /\ t_min' = IF r.Initial # Initial /\ dir < 0 THEN Current(r.Initial).t ELSE t_min
  BY <1>1 DEF Stepped
<1>4. Ordered(Initial'.items, t_min', t_max') /\ (n_steps' >= 0 => AtLast')
  <2>1. Cache'[cach1'] = r.Cache[r.cach1]
    BY <1>1, <1>3
  <2> QED BY <1>2, <1>3, <2>1, SteppedOrder
<1>5. call'.phase = phase /\ call'.status = r.status /\ call'.steps = call.steps - 1
  <2>1. PICK o, u, y, k, w : call = [phase |-> phase, op |-> o, t |-> u, status |-> y, steps |-> k,
                                     find |-> NoValue, sync |-> w]
    BY <1>2 DEF IInv, CallInv
  <2> QED BY <1>1, <2>1
<1>6. CASE phase = "loop"
  BY <1>4, <1>5, <1>6 DEF OrderInv
<1>7. CASE phase = "retrace"
  <2>1. /\ AtLastOuter(2 * dir) /\ n_steps = -1 /\ init /\ call.steps \in Nat \ {0}
        /\ Initial.cur + dir \in 2 .. Len(Initial.items) - 1
        /\ Stuck \/ Left <= 0 \/ (call.steps - 1) * Pace > Left
    BY <1>2, <1>7 DEF OrderInv, IInv, CallInv
  <2>2. Initial' = Initial /\ n_steps' = -1
    BY <1>1, <1>2, <2>1, <1>3, StepOuter
  <2>3. AtLastOuter(2 * dir)' /\ G(dir)' = G(dir)
    BY <1>2, <2>1, <2>2 DEF AtLastOuter, G
  <2>4. PICK g \in Int, x \in Int, h \in Int, k \in Nat :
          /\ g = G(dir).t /\ x = Cache[cach1].t /\ h = Cache[cach1].h /\ k = call.steps
          /\ Tmin <= g /\ g <= Tmax /\ Toward(dir, h) > 0
    <3>1. cach1 \in Slots /\ InRing(cach1, cach0, cach1) /\ RingOf(Cache, cach0, cach1, dir)
      BY <1>2, RingShift DEF RingInv, RingOf
    <3>2. Cache[cach1].t \in Times /\ G(dir).t \in Times /\ Toward(dir, Cache[cach1].h) > 0
      BY <1>2, <2>1, <3>1, NextSaved DEF RingOf
    <3>3. Cache[cach1].h \in Int
      BY <1>2, <3>1 DEF RingInv, Entries
    <3>4. G(dir).t \in Int /\ Cache[cach1].t \in Int /\ Tmin <= G(dir).t /\ G(dir).t <= Tmax
      BY <3>2, TimesAre DEF Times
    <3>5. call.steps \in Nat
      BY <2>1
    <3> QED BY <3>2, <3>3, <3>4, <3>5
  <2>5. /\ k > 1 /\ Left = Toward(dir, g - x) /\ Pace = Toward(dir, h) /\ Short(h)
        /\ Stuck \/ Left <= 0 \/ (k - 1) * Pace > Left
    BY <1>2, <2>1, <2>4 DEF Left, Pace, ShortInv
  <2>6. Stuck' \/ Left' <= 0 \/ (r.status = "OK" /\ (k - 2) * Pace' > Left')
    <3>1. CASE Stands(r) /\ x = IF dir > 0 THEN Tmax ELSE Tmin
      <4>1. Cache'[cach1'].t = x
        BY <1>1, <1>3, <2>4, <3>1 DEF Stands
      <4>2. Toward(dir, g - x) <= 0
        BY <1>2, <2>4, <3>1, TimesAre DEF Toward
      <4> QED BY <1>2, <2>3, <2>4, <4>1, <4>2 DEF Left
    <3>2. ASSUME NEW e \in Entries, e = r.Cache[r.cach1], e.t \in Times,
                 Toward(dir, e.t - x) > 0, r.status = "OK", ~Stuck,
                 \/ e.t = IF dir > 0 THEN Tmax ELSE Tmin
                 \/ e.t = x + h /\ Toward(dir, e.h) >= Toward(dir, h)
          PROVE  Left' <= 0 \/ (r.status = "OK" /\ (k - 2) * Pace' > Left')
      <4>1. PICK y \in Int, z \in Int : y = e.t /\ z = e.h
        BY <3>2, TimesAre DEF Entries
      <4>2. Left' = Toward(dir, g - y) /\ Pace' = Toward(dir, z)
        BY <1>1, <1>2, <1>3, <2>3, <2>4, <3>2, <4>1 DEF Left, Pace
      <4>3. CASE y = IF dir > 0 THEN Tmax ELSE Tmin
        <5>1. Toward(dir, g - y) <= 0
          BY <1>2, <2>4, <4>3, TimesAre DEF Toward
        <5> QED BY <4>2, <5>1
      <4>4. CASE Left <= 0
        <5>1. Toward(dir, g - y) <= 0
          BY <1>2, <2>4, <2>5, <3>2, <4>1, <4>4 DEF Toward
        <5> QED BY <4>2, <5>1
      <4>5. CASE y = x + h /\ Toward(dir, z) >= Toward(dir, h) /\ (k - 1) * Pace > Left
        <5>1. PICK p \in Nat, q \in Nat : p = Toward(dir, h) /\ q = Toward(dir, z) /\ p <= q
          BY <1>2, <2>4, <4>1, <4>5 DEF Toward
        <5>2. PICK a \in Nat : a = k - 2
          BY <2>4, <2>5
        <5>3. a * p <= a * q
          BY <5>1, ProductGrows
        <5>4. Toward(dir, g - y) = Toward(dir, g - x) - p
          BY <1>2, <2>4, <4>1, <4>5, <5>1 DEF Toward
        <5>5. (k - 1) * p = a * p + p
          <6>1. k - 1 = a + 1
            BY <2>4, <5>2
          <6>2. (a + 1) * p = a * p + p
            BY <5>1, <5>2
          <6> QED BY <6>1, <6>2
        <5>6. PICK w \in Int : w = Toward(dir, g - x)
          BY <2>4 DEF Toward
        <5>7. a * p \in Int /\ a * q \in Int /\ a * p + p > w
          BY <2>5, <4>5, <5>1, <5>2, <5>5, <5>6
        <5>8. a * q > w - p
          BY <5>1, <5>3, <5>6, <5>7
        <5> QED BY <3>2, <4>2, <5>1, <5>2, <5>4, <5>6, <5>8
      <4> QED BY <2>5, <3>2, <4>1, <4>3, <4>4, <4>5
    <3>3. ~(n_steps >= 0)
      BY <2>1
    <3>4. CASE Sticks(r.Cache[cach1]) /\ r.cach1 = cach1
      BY <1>1, <1>3, <3>4 DEF Stuck, Sticks
    <3> QED BY <1>2, <2>4, <2>5, <3>1, <3>2, <3>3, <3>4, StepLands
  <2>7. call'.steps \in Nat \ {0} /\ call'.steps - 1 = k - 2 /\ call'.status = r.status
    BY <1>5, <2>4, <2>5
  <2>8. init'
    BY <1>2, <2>1
  <2> QED BY <1>2, <1>4, <1>5, <1>7, <2>2, <2>3, <2>6, <2>7, <2>8 DEF OrderInv
<1> QED BY <1>6, <1>7

LEMMA RetraceEndOrder ==
  ASSUME IInv, OrderInv, RetraceEnd
  PROVE  OrderInv'
<1>1. /\ call.phase = "retrace" /\ dir \in {-1, 1} /\ OuterOf(Initial)
      /\ Initial.cur + dir \in 2 .. Len(Initial.items) - 1 /\ RingOf(Cache, cach0, cach1, dir)
      /\ Ordered(Initial.items, t_min, t_max) /\ AtLastOuter(2 * dir)
      /\ call.steps \in Nat \ {0}
      /\ \/ Stuck \/ Left <= 0
         \/ call.status \in {"OK", "ODE_BUG"} /\ (call.steps - 1) * Pace > Left
  BY DEF RetraceEnd, IInv, CallInv, RingInv, Running, OrderInv
<1>2. /\ UNCHANGED <<Cache, cach1, dir, init, t_min, t_max>>
      /\ n_steps' = 0 /\ Initial' = NextOuter /\ call'.phase = "loop"
  <2>1. call = [phase |-> call.phase, op |-> call.op, t |-> call.t, status |-> call.status,
                steps |-> call.steps, find |-> NoValue, sync |-> call.sync]
    BY DEF IInv, CallInv
  <2> QED BY <2>1 DEF RetraceEnd, ring
<1>3. /\ G(dir) = Initial.items[Initial.cur + dir] /\ G(dir).t \in Times
      /\ G(2 * dir) = Initial.items[Initial.cur + dir + dir]
      /\ NextOuter = [items |-> Initial.items, cur |-> Initial.cur + dir]
  BY <1>1, NextSaved
<1>4. Cache[cach1].t \in Times
  <2>1. cach1 \in Slots /\ InRing(cach1, cach0, cach1)
    BY <1>1, RingShift DEF RingOf
  <2> QED BY <1>1, <2>1 DEF RingOf
<1>5. Stuck \/ Toward(dir, Cache[cach1].t - G(dir).t) >= 0
  <2> SUFFICES ASSUME ~Stuck
               PROVE  Toward(dir, Cache[cach1].t - G(dir).t) >= 0
    OBVIOUS
  <2>1. PICK g \in Int, x \in Int : g = G(dir).t /\ x = Cache[cach1].t
    BY <1>3, <1>4, TimesAre
  <2>2. Left <= 0 => Toward(dir, x - g) >= 0
    BY <1>1, <2>1 DEF Left, Toward
  <2>3. CASE ~(call.steps > 1)
    <3>1. call.steps - 1 = 0
      BY <1>1, <2>3
    <3>2. Pace \in Int /\ Left \in Int
      <4>1. cach1 \in Slots
        BY <1>1 DEF RingOf
      <4> QED BY <2>1, <4>1 DEF IInv, RingInv, Entries, Pace, Left, Toward
    <3>3. 0 * Pace = 0
      BY <3>2
    <3>4. Left <= 0
      BY <1>1, <3>1, <3>2, <3>3
    <3> QED BY <2>1, <2>2, <3>4
  <2>4. CASE ~Steps("retrace")
    <3>1. CASE ~Before(call.op, Goal, Cache[cach1].t)
      <4>1. dir \in {-1, 1} /\ call.phase = "retrace"
        BY <1>1
      <4>2. ~(dir * x < dir * g)
        BY <2>1, <3>1, <4>1 DEF Before, Goal
      <4> QED BY <2>1, <4>1, <4>2 DEF Toward
    <3>2. CASE call.status \notin {"OK", "ODE_BUG"}
      BY <1>1, <2>1, <2>2, <3>2
    <3> QED BY <1>1, <2>4, <3>1, <3>2 DEF Steps
  <2> QED BY <2>3, <2>4 DEF RetraceEnd
<1>6. Initial.cur + dir = IF dir = 1 THEN Len(Initial.items) - 1 ELSE 2
  BY <1>1, <1>3, EndIs DEF AtLastOuter
<1>7. AtLast'
  <2>1. Current(Initial') = G(dir) /\ Initial'.items = Initial.items
        /\ Initial'.cur = Initial.cur + dir
    BY <1>2, <1>3 DEF Current
  <2>2. Stuck' = Stuck
    BY <1>2 DEF Stuck
  <2> QED BY <1>2, <1>5, <1>6, <2>1, <2>2 DEF AtLast
<1> QED BY <1>1, <1>2, <1>3, <1>7 DEF OrderInv

LEMMA RestartOrder ==
  ASSUME IInv, OrderInv, NEW op, NEW t, Restart(op, t)
  PROVE  OrderInv'
<1>1. PICK L : L = StopAhead(op, t).list
  OBVIOUS
<1>2. PICK d : d = IF t > T0 \/ (t = T0 /\ op = "Forward") THEN 1 ELSE -1
  OBVIOUS
<1>3. Asked(op, t) /\ NewRing(op, t, d, RestartAt(op, t, d), L)
  BY <1>1, <1>2 DEF Restart
<1>4. /\ init /\ IsIdle /\ OuterOf(Initial) /\ t \in Requests
      /\ op \in {"Integrate", "Forward", "Backward"}
  BY <1>3, AskedIs DEF IsIdle
<1>5. (op \in {"Integrate", "Find"} /\ t = T0) \/ StartOf(RestartAt(op, t, d), d)
  BY <1>2, <1>4, RestartIs
<1>6. d \in {-1, 1}
  BY <1>2
<1> HIDE <1>1, <1>2
<1> QED BY <1>3, <1>4, <1>5, <1>6, NewRingOrder

LEMMA AnswersOrder ==
  ASSUME IInv, StepsSuffice, OrderInv, NEW op, NEW t, Answers(op, t)
  PROVE  OrderInv'
<1>1. CASE StopAtKnown(op, t) \/ Within(op, t) \/ Extend(op, t)
  <2>1. UNCHANGED <<Cache, cach1, dir, n_steps, Initial, t_min, t_max>> /\ init /\ init' = init
    BY <1>1 DEF StopAtKnown, Within, Extend, Asked, ring, outer
  <2>2. call'.phase \in {"idle", "loop"}
    <3>1. Finished(op, "STOP_CONDITION") = Idle /\ Finished(op, "OK") = Idle
      BY DEF Finished, IInv, CallInv
    <3> QED BY <1>1, <3>1 DEF StopAtKnown, Within, Extend, Return, BeginLoop, Idle
  <2> QED BY <2>1, <2>2, OrderStays
<1> QED BY <1>1, KeepRingOrder, RestartOrder DEF Answers

\* Find goes on in the ring, or from a saved state.
LEMMA FindGoes ==
  ASSUME IInv, NEW v \in Requests, IsIdle, Find(v)
  PROVE  /\ init
         /\ \/ /\ UNCHANGED <<Cache, cach1, dir, n_steps, Initial, t_min, t_max, init, InitH>>
               /\ call'.phase \in {"idle", "loop"}
            \/ \E d \in {-1, 1} : /\ v = T0 \/ StartOf(FindRestartAt(v, d), d)
                                  /\ NewRing("Find", v, d, FindRestartAt(v, d), Stops)
<1>1. /\ init /\ "Find" \in Ops /\ OuterOf(Initial)
      /\ Sought(v) = {[stop |-> FALSE, list |-> Stops]}
  <2>1. Sought(v) # {}
    BY DEF Find
  <2>2. init /\ "Find" \in Ops /\ Sought(v) = {[stop |-> FALSE, list |-> Stops]}
    BY <2>1 DEF Sought
  <2> QED BY <2>2 DEF IInv, CallInv
<1>2. \/ /\ \/ BeginLoop("loop", "Find", v, Stops)
            \/ Return("Find", v, "OK", FindNeighbor("Find", v), Stops)
         /\ UNCHANGED <<ring, dir, n_steps, init, InitH, outer>>
      \/ LET d == IF v > T0 THEN 1 ELSE -1
         IN  NewRing("Find", v, d, FindRestartAt(v, d), Stops)
  <2>1. PICK s : s = [stop |-> FALSE, list |-> Stops]
    OBVIOUS
  <2>2. ~s.stop /\ s.list = Stops /\ Sought(v) = {s}
    BY <1>1, <2>1
  <2> HIDE <2>1
  <2>3. \/ /\ \/ BeginLoop("loop", "Find", v, s.list)
              \/ Return("Find", v, "OK", FindNeighbor("Find", v), s.list)
           /\ UNCHANGED <<ring, dir, n_steps, init, InitH, outer>>
        \/ LET d == IF v > T0 THEN 1 ELSE -1
           IN  NewRing("Find", v, d, FindRestartAt(v, d), s.list)
    BY <2>2, Zenon DEF Find
  <2> QED BY <2>2, <2>3, Zenon
<1>3. CASE /\ \/ BeginLoop("loop", "Find", v, Stops)
              \/ Return("Find", v, "OK", FindNeighbor("Find", v), Stops)
           /\ UNCHANGED <<ring, dir, n_steps, init, InitH, outer>>
  <2>1. UNCHANGED <<Cache, cach1, dir, n_steps, Initial, t_min, t_max, init, InitH>>
    BY <1>3 DEF ring, outer
  <2>2. call'.phase \in {"idle", "loop"}
    BY <1>3 DEF BeginLoop, Return, Finished, Idle
  <2> QED BY <1>1, <2>1, <2>2
<1>4. CASE LET d == IF v > T0 THEN 1 ELSE -1
           IN  NewRing("Find", v, d, FindRestartAt(v, d), Stops)
  <2>1. PICK d : d = IF v > T0 THEN 1 ELSE -1
    OBVIOUS
  <2>2. NewRing("Find", v, d, FindRestartAt(v, d), Stops)
    BY <1>4, <2>1
  <2>3. v = T0 \/ StartOf(FindRestartAt(v, d), d)
    BY <1>1, <2>1, FindRestartIs
  <2>4. d \in {-1, 1}
    BY <2>1
  <2> HIDE <2>1
  <2> QED BY <1>1, <2>2, <2>3, <2>4
<1> QED BY <1>2, <1>3, <1>4

LEMMA FindOrder ==
  ASSUME IInv, OrderInv, NEW v \in Requests, IsIdle, Find(v)
  PROVE  OrderInv'
<1>1. CASE /\ UNCHANGED <<Cache, cach1, dir, n_steps, Initial, t_min, t_max, init, InitH>>
           /\ call'.phase \in {"idle", "loop"}
  BY <1>1, FindGoes, OrderStays
<1> QED BY <1>1, FindGoes, NewRingOrder

LEMMA RestOrder ==
  IInv /\ OrderInv /\ (IgnoreStopOn \/ IgnoreStopOff \/ LoopEnd \/ UNCHANGED vars) => OrderInv'
<1> SUFFICES ASSUME IInv, OrderInv, IgnoreStopOn \/ IgnoreStopOff \/ LoopEnd \/ UNCHANGED vars
             PROVE  OrderInv'
  OBVIOUS
<1>1. CASE IgnoreStopOn \/ IgnoreStopOff \/ LoopEnd
  <2>1. UNCHANGED <<Cache, cach1, dir, n_steps, Initial, t_min, t_max, init>>
    BY <1>1 DEF IgnoreStopOn, IgnoreStopOff, LoopEnd, ring, outer
  <2>2. call'.phase = "idle"
    BY <1>1 DEF IgnoreStopOn, IgnoreStopOff, IsIdle, LoopEnd, Return, Finished, IInv, CallInv, Idle
  <2>3. Running' => Running
    BY <2>2 DEF Running
  <2> QED BY <2>1, <2>2, <2>3, OrderStays
<1>2. CASE UNCHANGED vars
  <2>1. UNCHANGED <<Cache, cach1, dir, n_steps, Initial, t_min, t_max, init, InitH, call>>
    BY <1>2 DEF vars, ring, outer
  <2>2. /\ Ordered(Initial.items, t_min, t_max)' = Ordered(Initial.items, t_min, t_max)
        /\ AtLast' = AtLast /\ Running' = Running /\ AtLastOuter(2 * dir)' = AtLastOuter(2 * dir)
        /\ Left' = Left /\ Pace' = Pace /\ Stuck' = Stuck /\ Halvings' = Halvings
    BY <2>1 DEF Ordered, AtLast, Running, AtLastOuter, Left, Pace, G, Stuck, Halvings
  <2> QED BY <2>1, <2>2 DEF OrderInv
<1> QED BY <1>1, <1>2

LEMMA NextOrder ==
  FindIgnoresStops /\ StepsSuffice /\ TrialUnsaved /\ IInv /\ OrderInv /\ ShortInv /\ [Next]_vars
    => OrderInv'
<1> SUFFICES ASSUME FindIgnoresStops, StepsSuffice, TrialUnsaved, IInv, OrderInv, ShortInv,
                    [Next]_vars
             PROVE  OrderInv'
  OBVIOUS
<1>1. CASE UNCHANGED vars
  BY <1>1, RestOrder
<1>2. CASE Calls
  <2>1. CASE \E dt \in Dts : Initialize(dt)
    BY <2>1, InitializeOrder
  <2>2. CASE IgnoreStopOn \/ IgnoreStopOff
    BY <2>2, RestOrder
  <2>3. CASE \E op \in Ops, t \in Requests : IsIdle /\ Answers(op, t)
    BY <2>3, AnswersOrder
  <2>4. ASSUME NEW v \in Requests, Recall(v)
        PROVE  OrderInv'
    BY <2>4, StopsUnknown DEF Recall, FindIgnoresStops, IInv
  <2>5. ASSUME NEW v \in Requests, IsIdle, Find(v)
        PROVE  OrderInv'
    BY <2>5, FindOrder
  <2> QED BY <1>2, <2>1, <2>2, <2>3, <2>4, <2>5 DEF Calls
<1>3. CASE Loops
  <2>1. CASE TrialStep
    BY <2>1, TrialStepOrder
  <2>2. CASE LongerStep
    BY <2>2, LongerStepOrder
  <2>3. CASE RetraceStep
    BY <2>3, OneStepOrder DEF RetraceStep
  <2>4. CASE LoopStep
    BY <2>4, OneStepOrder DEF LoopStep
  <2>5. CASE RetraceEnd
    BY <2>5, RetraceEndOrder
  <2>6. CASE LoopEnd
    BY <2>6, RestOrder
  <2>7. ~Recalled /\ ~FindValue
    BY DEF Recalled, FindValue, IInv, CallInv
  <2> QED BY <1>3, <2>1, <2>2, <2>3, <2>4, <2>5, <2>6, <2>7 DEF Loops
<1> QED BY <1>1, <1>2, <1>3 DEF Next

\* The steps that are tried, and those kept to restart with.
LEMMA SavedShort ==
  ASSUME OuterOf(Initial), dir \in {-1, 1}, NEW e \in Entries, Short(e.h),
         \A i \in 2 .. Len(Initial.items) - 1 : Short(Initial.items[i].h)
  PROVE  LET M == EnterOuter(Initial, e)
         IN  \A i \in 2 .. Len(M.items) - 1 : Short(M.items[i].h)
<1>1. PICK s, n, q, p :
        /\ s = Initial.items /\ n = Len(s) /\ n \in Nat /\ n >= 3
        /\ q = EnterOuter(Initial, e).items /\ p = IF dir > 0 THEN n ELSE 2
  <2>1. Len(Initial.items) \in Nat /\ Len(Initial.items) >= 3
    BY OuterIs
  <2> QED BY <2>1
<1>2. Inserted(q, s, p, e)
  BY <1>1, EnteredIs
<1>3. \A i \in 2 .. n - 1 : Short(s[i].h)
  BY <1>1
<1>4. ASSUME NEW i \in 2 .. Len(q) - 1
      PROVE  Short(q[i].h)
  <2>1. i \in 1 .. n + 1 /\ i \in 2 .. n /\ p \in 2 .. n
    BY <1>1, <1>2 DEF Inserted
  <2>2. q[i] = IF i < p THEN s[i] ELSE IF i = p THEN e ELSE s[i - 1]
    BY <1>1, <1>2, <2>1 DEF Inserted
  <2>3. CASE i < p
    <3>1. i \in 2 .. n - 1
      BY <1>1, <2>1, <2>3
    <3> QED BY <1>3, <2>2, <2>3, <3>1
  <2>4. CASE i = p
    BY <2>2, <2>4
  <2>5. CASE i > p
    <3>1. i - 1 \in 2 .. n - 1
      BY <1>1, <2>1, <2>5
    <3> QED BY <1>3, <2>1, <2>2, <2>5, <3>1
  <2> QED BY <2>1, <2>3, <2>4, <2>5
<1> QED BY <1>1, <1>4

LEMMA SteppedShort ==
  ASSUME IInv, ShortInv, Running, NEW t_request, NEW ignore,
         NEW r \in Step(t_request, ignore)
  PROVE  /\ \A i \in 2 .. Len(r.Initial.items) - 1 : Short(r.Initial.items[i].h)
         /\ Short(Cache[cach1].h) => Short(r.Cache[r.cach1].h)
         /\ r.status \in {"OK", "STOP_CONDITION"} =>
              Short(r.Cache[r.cach1].h) /\ Short(r.Cache[cach1].h)
<1>1. RingInv /\ dir \in {-1, 1} /\ OuterOf(Initial)
      /\ \A i \in 2 .. Len(Initial.items) - 1 : Short(Initial.items[i].h)
  BY DEF IInv, CallInv, ShortInv
<1>2. CASE Stands(r)
  BY <1>1, <1>2 DEF Stands
<1>3. ASSUME NEW e \in Entries, e = r.Cache[r.cach1], Short(e.h), Short(r.Cache[cach1].h),
             SavedBy(r, e)
      PROVE  /\ \A i \in 2 .. Len(r.Initial.items) - 1 : Short(r.Initial.items[i].h)
             /\ Short(r.Cache[r.cach1].h) /\ Short(r.Cache[cach1].h)
  <2>1. r.Initial = Initial \/ r.Initial = EnterOuter(Initial, e)
    BY <1>3 DEF SavedBy
  <2>2. \A i \in 2 .. Len(r.Initial.items) - 1 : Short(r.Initial.items[i].h)
    BY <1>1, <1>3, <2>1, SavedShort
  <2> QED BY <1>3, <2>2
<1>4. CASE /\ r.cach1 = cach1 /\ Short(r.Cache[cach1].h) /\ r.Initial = Initial
  BY <1>1, <1>4
<1> QED BY <1>1, <1>2, <1>3, <1>4, StepLands

\* What a call changes neither in the ring nor in the saved states.
LEMMA ShortStays ==
  ASSUME ShortInv, UNCHANGED <<Cache, cach1, dir, InitH>>, Initial'.items = Initial.items,
         call'.phase # "longer", init' \/ Running' => init \/ Running, init' => init
  PROVE  ShortInv'
BY DEF ShortInv

LEMMA InitializeShort ==
  ASSUME IInv, NEW dt \in Dts, Initialize(dt)
  PROVE  ShortInv'
<1>1. PICK s : s = <<Minus, First, Plus>>
  OBVIOUS
<1>2. Initial' = [items |-> s, cur |-> 2] /\ (init' <=> dt = 0)
  BY <1>1 DEF Initialize
<1>3. call'.phase # "longer"
  BY DEF Initialize, Idle, IsIdle
<1>4. dt = 0 => dir' = 0 /\ InitH' = 0
  BY DEF Initialize, Abs
<1>5. Len(s) = 3 /\ s[2].h = 0
  BY <1>1 DEF First
<1>6. ASSUME NEW i \in 2 .. Len(s) - 1
      PROVE  Short(s[i].h)
  <2>1. i = 2
    BY <1>5
  <2> QED BY <1>5, <2>1, TimesAre DEF Short
<1> QED BY <1>2, <1>3, <1>4, <1>6, TimesAre DEF ShortInv

LEMMA TrialStepShort ==
  ASSUME IInv, ShortInv, TrialStep
  PROVE  ShortInv'
<1>1. PICK r \in Step(call.t, IgnoreStop) :
        LET h == Abs(r.Cache[0].h)
        IN  /\ Stepped(r)
            /\ \/ /\ r.status \notin {"OK", "STOP_CONDITION"}
                  /\ cach0' = r.cach0 /\ cach1' = r.cach1 /\ Stops' = r.Stops
                  /\ call' = Idle
                  /\ UNCHANGED <<cache, init, InitH>>
               \/ /\ r.status \in {"OK", "STOP_CONDITION"} /\ ~CanGrow(h)
                  /\ InitH' = h
                  /\ Initialized(r.cach0, r.cach1, r.Stops)
               \/ /\ r.status \in {"OK", "STOP_CONDITION"} /\ CanGrow(h)
                  /\ InitH' \in Longer(h)
                  /\ cach0' = r.cach0 /\ cach1' = r.cach1 /\ Stops' = r.Stops
                  /\ call' = [call EXCEPT !.phase = "longer", !.t = T0 + dir * InitH', !.steps = h]
                  /\ UNCHANGED <<cache, init>>
  BY DEF TrialStep
<1>2. PICK h : h = Abs(r.Cache[0].h)
  OBVIOUS
<1>3. /\ call.phase = "trial" /\ Running /\ cach1 = 0 /\ cach1' = r.cach1 /\ dir' = dir
      /\ Cache' = r.Cache /\ Initial' = r.Initial /\ OuterOf(Initial) /\ RingInv
  BY <1>1 DEF TrialStep, Stepped, Initialized, IInv, CallInv, Running
<1>4. /\ \A i \in 2 .. Len(r.Initial.items) - 1 : Short(r.Initial.items[i].h)
      /\ Short(Cache[cach1].h) => Short(r.Cache[r.cach1].h)
      /\ r.status \in {"OK", "STOP_CONDITION"} => Short(r.Cache[r.cach1].h) /\ Short(r.Cache[0].h)
  BY <1>3, SteppedShort
<1>5. r.status \in {"OK", "STOP_CONDITION"} => h \in Nat /\ h <= MaxStep
  <2>1. r.Cache[0].h \in Int
    BY <1>3, StepRing, StartsAre DEF IInv, CallInv, Entries
  <2> QED BY <1>2, <1>4, <2>1, TimesAre DEF Short, Abs
<1>6. CASE call' = Idle /\ UNCHANGED <<init, InitH>>
  BY <1>3, <1>4, <1>6 DEF ShortInv, Idle
<1>7. CASE r.status \in {"OK", "STOP_CONDITION"} /\ InitH' = h /\ call' = Idle
  BY <1>3, <1>4, <1>5, <1>7 DEF ShortInv, Idle
<1>8. CASE /\ r.status \in {"OK", "STOP_CONDITION"} /\ InitH' \in Longer(h)
           /\ call'.phase = "longer" /\ call'.steps = h
  <2>1. InitH' <= MaxStep
    BY <1>8, TimesAre DEF Longer
  <2> QED BY <1>3, <1>4, <1>5, <1>8, <2>1 DEF ShortInv
<1>9. call' = [call EXCEPT !.phase = "longer", !.t = T0 + dir * InitH', !.steps = h]
        => call'.phase = "longer" /\ call'.steps = h
  <2>1. PICK x : x = T0 + dir * InitH'
    OBVIOUS
  <2>2. call = [phase |-> call.phase, op |-> call.op, t |-> call.t, status |-> call.status,
                steps |-> call.steps, find |-> NoValue, sync |-> call.sync]
    BY DEF IInv, CallInv
  <2>3. [call EXCEPT !.phase = "longer", !.t = x, !.steps = h].phase = "longer"
        /\ [call EXCEPT !.phase = "longer", !.t = x, !.steps = h].steps = h
    BY <2>2
  <2> QED BY <2>1, <2>3
<1> QED BY <1>1, <1>2, <1>6, <1>7, <1>8, <1>9 DEF Initialized

LEMMA LongerStepShort ==
  ASSUME IInv, ShortInv, LongerStep
  PROVE  ShortInv'
<1>1. PICK r \in Step(call.t, IgnoreStop) : TriesHalf(r) \/ TakesLength(r)
  BY LongerGoes
<1>2. /\ call.phase = "longer" /\ Running /\ dir \in {-1, 1} /\ OuterOf(Initial) /\ RingInv
      /\ call.steps \in Nat \ {0} /\ InitH \in Nat \ {0} /\ InitH <= MaxStep
      /\ call.steps <= MaxStep
  BY LongerGoes DEF IInv, Running, ShortInv
<1>3. \A i \in 2 .. Len(r.Initial.items) - 1 : Short(r.Initial.items[i].h)
  BY <1>2, SteppedShort
<1>4. CASE TriesHalf(r)
  <2>1. /\ InitH' \in Longer(call.steps) /\ Initial' = r.Initial /\ init' = init
        /\ call' = [call EXCEPT !.t = T0 + dir * InitH']
    BY <1>4 DEF TriesHalf, Stepped
  <2>2. InitH' <= MaxStep
    BY <2>1, TimesAre DEF Longer
  <2>3. call'.phase = "longer" /\ call'.steps = call.steps
    <3>1. PICK o, u, y, k, w : call = [phase |-> "longer", op |-> o, t |-> u, status |-> y,
                                       steps |-> k, find |-> NoValue, sync |-> w]
      BY <1>2 DEF IInv, CallInv
    <3> QED BY <2>1, <3>1
  <2>4. init' => Short(Cache'[cach1'].h)
    <3>1. Short(Cache[cach1].h) => Short(r.Cache[r.cach1].h)
      BY <1>2, SteppedShort
    <3>2. Cache' = r.Cache /\ cach1' = r.cach1 /\ (init => Short(Cache[cach1].h))
      BY <1>2, <1>4 DEF TriesHalf, Stepped, ShortInv
    <3> QED BY <2>1, <3>1, <3>2
  <2> QED BY <1>2, <1>3, <2>1, <2>2, <2>3, <2>4 DEF ShortInv
<1>5. CASE TakesLength(r)
  <2>1. PICK H : H = InitH'
    OBVIOUS
  <2>2. H \in Nat \ {0} /\ H <= MaxStep /\ dir' = dir /\ cach1' = 0 /\ call' = Idle
    BY <1>2, <1>5, <2>1 DEF TakesLength, Initialized
  <2>3. Cache' = [r.Cache EXCEPT ![0].h = dir * H] /\ Initial' = r.Initial
    <3>1. /\ Cache' = [r EXCEPT !.Cache[0].h = dir * H].Cache
          /\ Initial' = [r EXCEPT !.Cache[0].h = dir * H].Initial
      BY <1>5, <2>1 DEF TakesLength, Stepped
    <3>2. {"Cache", "n_steps", "Initial"} \subseteq DOMAIN r
      BY StepGoes
    <3> QED BY <3>1, <3>2
  <2>4. Cache'[0].h = dir * H
    <3>1. r.Cache \in [Slots -> Entries] /\ 0 \in Slots
      BY <1>2, StepRing, StartsAre
    <3>2. PICK x : x = dir * H
      OBVIOUS
    <3> QED BY <2>3, <3>1, <3>2 DEF Entries
  <2>5. Short(dir * H)
    BY <1>2, <2>2, TimesAre DEF Short
  <2> QED BY <1>3, <2>1, <2>2, <2>3, <2>4, <2>5 DEF ShortInv, Idle
<1> QED BY <1>1, <1>4, <1>5

LEMMA NewRingShort ==
  ASSUME IInv, ShortInv, IsIdle, init, NEW op, NEW t \in Requests, NEW d \in {-1, 1}, NEW at, NEW L,
         (op \in {"Integrate", "Find"} /\ t = T0) \/ StartOf(at, d), NewRing(op, t, d, at, L)
  PROVE  ShortInv'
<1>1. PICK s : s = Initial.items[at]
  OBVIOUS
<1>2. PICK H : H = IF InitH = 0
                   THEN Lesser(MaxStep, IF Abs(t - T0) < 2 THEN 1 ELSE Abs(t - T0) \div 2)
                   ELSE InitH
  OBVIOUS
<1>3. H \in Nat /\ H <= MaxStep
  <2>1. t - T0 \in Int /\ Abs(t - T0) \in Nat
    BY TimesAre DEF Abs
  <2>2. Abs(t - T0) >= 2 => Abs(t - T0) \div 2 \in Nat
    BY <2>1
  <2>3. InitH \in Nat /\ InitH <= MaxStep
    BY DEF IInv, RingInv, ShortInv
  <2> QED BY <1>2, <2>1, <2>2, <2>3, TimesAre DEF Lesser
<1>4. init' = init /\ init
  BY DEF NewRing, StepsFrom
<1>5. /\ \A i \in 2 .. Len(Initial.items) - 1 : Short(Initial.items[i].h)
      /\ Cache \in [Slots -> Entries] /\ InitH <= MaxStep
  BY DEF IInv, RingInv, ShortInv
<1>6. PICK q, c : Initial = [items |-> q, cur |-> c]
  BY DEF IInv, CallInv, OuterOf
<1>7. CASE /\ dir' = 0 /\ call' = Finished(op, "OK") /\ InitH' = InitH
           /\ Initial' = Initial \/ Initial' = [Initial EXCEPT !.cur = at]
  <2>1. call'.phase = "idle"
    BY <1>7 DEF Finished, IInv, CallInv, Idle
  <2>2. Initial'.items = Initial.items
    BY <1>6, <1>7
  <2> QED BY <1>5, <1>7, <2>1, <2>2 DEF ShortInv
<1>8. CASE /\ dir' = d /\ StartOf(at, d) /\ Initial' = [Initial EXCEPT !.cur = at]
           /\ InitH' = IF s.t = T0 THEN H ELSE InitH
           /\ Cache' = [Cache EXCEPT ![0] = IF s.t = T0 THEN [First EXCEPT !.h = d * H] ELSE s]
           /\ cach1' = 0
           /\ BeginLoop("loop", op, t, L)
  <2>1. call'.phase = "loop"
    BY <1>8 DEF BeginLoop
  <2>2. Initial'.items = Initial.items
    BY <1>6, <1>8
  <2>3. Short(Cache'[0].h)
    <3>1. PICK e : e = IF s.t = T0 THEN [First EXCEPT !.h = d * H] ELSE s
      OBVIOUS
    <3>2. Short(d * H)
      BY <1>3, TimesAre DEF Short
    <3>3. Short(s.h)
      BY <1>1, <1>5, <1>8 DEF StartOf
    <3>4. Short(e.h)
      <4>1. PICK x : x = d * H
        OBVIOUS
      <4> QED BY <3>1, <3>2, <3>3, <4>1 DEF First
    <3>5. Cache' = [Cache EXCEPT ![0] = e]
      BY <1>8, <3>1
    <3> QED BY <1>5, <3>4, <3>5, StartsAre
  <2> QED BY <1>3, <1>5, <1>8, <2>1, <2>2, <2>3 DEF ShortInv
<1>9. \/ /\ dir' = 0 /\ call' = Finished(op, "OK") /\ InitH' = InitH
         /\ Initial' = Initial \/ Initial' = [Initial EXCEPT !.cur = at]
      \/ /\ op \in {"Integrate", "Find"} => t # T0
         /\ dir' = d /\ Initial' = [Initial EXCEPT !.cur = at]
         /\ InitH' = IF s.t = T0 THEN H ELSE InitH
         /\ Cache' = [Cache EXCEPT ![0] = IF s.t = T0 THEN [First EXCEPT !.h = d * H] ELSE s]
         /\ cach1' = 0
         /\ BeginLoop("loop", op, t, L)
  BY <1>1, <1>2, Zenon DEF NewRing, StepsFrom
<1> QED BY <1>7, <1>8, <1>9, Zenon

LEMMA OneStepShort ==
  ASSUME IInv, ShortInv, NEW phase \in {"loop", "retrace"}, OneStep(phase)
  PROVE  ShortInv'
<1>1. PICK r \in Step(StepTo, ~HeedsStops) :
        /\ Stepped(r)
        /\ cach0' = r.cach0 /\ cach1' = r.cach1 /\ Stops' = r.Stops
        /\ call' = [call EXCEPT !.status = r.status, !.steps = @ - 1]
  BY DEF OneStep
<1>2. call.phase = phase /\ UNCHANGED <<dir, init, InitH>> /\ dir \in {-1, 1} /\ Running
  BY DEF OneStep, Steps, IInv, CallInv, Running
<1>3. call'.phase = phase
  <2>1. call = [phase |-> phase, op |-> call.op, t |-> call.t, status |-> call.status,
                steps |-> call.steps, find |-> NoValue, sync |-> call.sync]
    BY <1>2 DEF IInv, CallInv
  <2> QED BY <1>1, <2>1
<1>4. Cache' = r.Cache /\ Initial' = r.Initial /\ cach1' = r.cach1
  BY <1>1 DEF Stepped
<1>5. /\ \A i \in 2 .. Len(r.Initial.items) - 1 : Short(r.Initial.items[i].h)
      /\ Short(Cache[cach1].h) => Short(r.Cache[r.cach1].h)
  BY <1>2, SteppedShort
<1> QED BY <1>2, <1>3, <1>4, <1>5 DEF ShortInv

LEMMA AnswersShort ==
  ASSUME IInv, ShortInv, NEW op, NEW t, Answers(op, t)
  PROVE  ShortInv'
<1>1. CASE StopAtKnown(op, t) \/ Within(op, t) \/ Extend(op, t)
  <2>1. UNCHANGED <<Cache, cach1, dir, InitH, Initial>> /\ init /\ init' = init
    BY <1>1 DEF StopAtKnown, Within, Extend, Asked, ring, outer
  <2>2. call'.phase \in {"idle", "loop"}
    <3>1. Finished(op, "STOP_CONDITION") = Idle /\ Finished(op, "OK") = Idle
      BY DEF Finished, IInv, CallInv
    <3> QED BY <1>1, <3>1 DEF StopAtKnown, Within, Extend, Return, BeginLoop, Idle
  <2> QED BY <2>1, <2>2, ShortStays
<1>2. CASE KeepRing(op, t)
  <2>1. /\ UNCHANGED <<Cache, cach1, dir, InitH, init>> /\ init
        /\ call'.phase \in {"loop", "retrace"}
        /\ Initial' = Initial \/ Initial' = NextOuter
    BY <1>2 DEF KeepRing, Asked, BeginLoop, ring
  <2>2. NextOuter.items = Initial.items
    <3>1. PICK q, c : Initial = [items |-> q, cur |-> c]
      BY <2>1 DEF IInv, CallInv, OuterOf
    <3> QED BY <3>1 DEF NextOuter, NextL, PrevL
  <2> QED BY <2>1, <2>2, ShortStays
<1>3. CASE Restart(op, t)
  <2>1. PICK L : L = StopAhead(op, t).list
    OBVIOUS
  <2>2. PICK d : d = IF t > T0 \/ (t = T0 /\ op = "Forward") THEN 1 ELSE -1
    OBVIOUS
  <2>3. Asked(op, t) /\ NewRing(op, t, d, RestartAt(op, t, d), L)
    BY <1>3, <2>1, <2>2 DEF Restart
  <2>4. /\ init /\ IsIdle /\ OuterOf(Initial) /\ t \in Requests
        /\ op \in {"Integrate", "Forward", "Backward"}
    BY <2>3, AskedIs DEF IsIdle
  <2>5. (op \in {"Integrate", "Find"} /\ t = T0) \/ StartOf(RestartAt(op, t, d), d)
    BY <2>2, <2>4, RestartIs
  <2>6. d \in {-1, 1}
    BY <2>2
  <2> HIDE <2>1, <2>2
  <2> QED BY <2>3, <2>4, <2>5, <2>6, NewRingShort
<1> QED BY <1>1, <1>2, <1>3 DEF Answers

LEMMA NextShort ==
  FindIgnoresStops /\ IInv /\ ShortInv /\ [Next]_vars => ShortInv'
<1> SUFFICES ASSUME FindIgnoresStops, IInv, ShortInv, [Next]_vars
             PROVE  ShortInv'
  OBVIOUS
<1>1. CASE UNCHANGED vars
  <2>1. UNCHANGED <<Cache, cach1, dir, InitH, Initial, init, call>>
    BY <1>1 DEF vars, ring, outer
  <2> QED BY <2>1 DEF ShortInv, Running
<1>2. CASE IgnoreStopOn \/ IgnoreStopOff \/ LoopEnd \/ RetraceEnd
  <2>1. UNCHANGED <<Cache, cach1, dir, InitH, init>>
    BY <1>2 DEF IgnoreStopOn, IgnoreStopOff, LoopEnd, RetraceEnd, ring, outer
  <2>2. call'.phase = "idle" \/ (Running /\ call'.phase = "loop")
    <3>1. CASE IgnoreStopOn \/ IgnoreStopOff
      BY <3>1 DEF IgnoreStopOn, IgnoreStopOff, IsIdle
    <3>2. CASE LoopEnd
      BY <3>2 DEF LoopEnd, Return, Finished, IInv, CallInv, Idle
    <3>3. CASE RetraceEnd
      <4>1. call = [phase |-> call.phase, op |-> call.op, t |-> call.t, status |-> call.status,
                    steps |-> call.steps, find |-> NoValue, sync |-> call.sync]
        BY DEF IInv, CallInv
      <4> QED BY <3>3, <4>1 DEF RetraceEnd, Running
    <3> QED BY <1>2, <3>1, <3>2, <3>3
  <2>3. Initial'.items = Initial.items
    <3>1. CASE RetraceEnd
      <4>1. PICK q, c : Initial = [items |-> q, cur |-> c]
        BY <3>1 DEF RetraceEnd, IInv, CallInv, Running, OuterOf
      <4> QED BY <3>1, <4>1 DEF RetraceEnd, NextOuter, NextL, PrevL
    <3> QED BY <1>2, <3>1 DEF IgnoreStopOn, IgnoreStopOff, LoopEnd, outer
  <2> QED BY <2>1, <2>2, <2>3, ShortStays DEF Running
<1>3. CASE Calls
  <2>1. CASE \E dt \in Dts : Initialize(dt)
    BY <2>1, InitializeShort
  <2>2. CASE \E op \in Ops, t \in Requests : IsIdle /\ Answers(op, t)
    BY <2>2, AnswersShort
  <2>3. ASSUME NEW v \in Requests, Recall(v)
        PROVE  ShortInv'
    BY <2>3, StopsUnknown DEF Recall, FindIgnoresStops, IInv
  <2>4. ASSUME NEW v \in Requests, IsIdle, Find(v)
        PROVE  ShortInv'
    <3>1. CASE /\ UNCHANGED <<Cache, cach1, dir, n_steps, Initial, t_min, t_max, init, InitH>>
               /\ call'.phase \in {"idle", "loop"}
      BY <2>4, <3>1, FindGoes, ShortStays
    <3> QED BY <2>4, <3>1, FindGoes, NewRingShort
  <2> QED BY <1>2, <1>3, <2>1, <2>2, <2>3, <2>4 DEF Calls
<1>4. CASE Loops
  <2>1. CASE TrialStep
    BY <2>1, TrialStepShort
  <2>2. CASE LongerStep
    BY <2>2, LongerStepShort
  <2>3. CASE RetraceStep
    BY <2>3, OneStepShort DEF RetraceStep
  <2>4. CASE LoopStep
    BY <2>4, OneStepShort DEF LoopStep
  <2>5. ~Recalled /\ ~FindValue
    BY DEF Recalled, FindValue, IInv, CallInv
  <2> QED BY <1>2, <1>4, <2>1, <2>2, <2>3, <2>4, <2>5 DEF Loops
<1> QED BY <1>1, <1>3, <1>4 DEF Next

THEOREM OrderInvariance ==
  ASSUME FindIgnoresStops, StepsSuffice, TrialUnsaved
  PROVE  Spec => [](OrderInv /\ ShortInv)
<1>1. Init => OrderInv /\ ShortInv
  BY TimesAre DEF Init, OrderInv, ShortInv, Idle, Running
<1>2. IInv /\ OrderInv /\ ShortInv /\ [Next]_vars => (OrderInv /\ ShortInv)'
  BY NextOrder, NextShort
<1> QED BY <1>1, <1>2, Invariance, PTL DEF Spec

\* Between calls the outer cache lists states in the order of their times, from
\* t_min to t_max between InftyMinus and InftyPlus: a step is saved only behind the
\* last state of its direction, also when a ring was restarted or kept, when known
\* intervals were stepped over again, when stops ended calls and trial steps failed.
THEOREM OuterSortedHolds ==
  ASSUME FindIgnoresStops, StepsSuffice, TrialUnsaved
  PROVE  Spec => []OuterSorted
<1>1. IInv /\ OrderInv => OuterSorted
  <2> SUFFICES ASSUME IInv, OrderInv, Ready
               PROVE  /\ Sorted([i \in DOMAIN Initial.items |-> Initial.items[i].t])
                      /\ Initial.items[2].t = t_min
                      /\ Initial.items[Len(Initial.items) - 1].t = t_max
    BY DEF OuterSorted
  <2>1. Ordered(Initial.items, t_min, t_max) /\ Initial.items \in Seq(Entries)
    BY DEF Ready, IInv, CallInv, OuterOf, OrderInv
  <2>2. DOMAIN Initial.items = 1 .. Len(Initial.items)
    BY <2>1
  <2> QED BY <2>1, <2>2 DEF Ordered, Rising, Sorted
<1> QED BY <1>1, Invariance, OrderInvariance, PTL


-----------------------------------------------------------------------------
(* Where an answer is read.                                                  *)

\* Turning around the ring by less than its size.
LEMMA Turned ==
  ASSUME NEW a \in Slots, NEW k \in Slots
  PROVE  /\ (a + k) % NCache \in Slots /\ (a - k) % NCache \in Slots
         /\ (a + k) % NCache = IF a + k < NCache THEN a + k ELSE a + k - NCache
         /\ (a - k) % NCache = IF k <= a THEN a - k ELSE a - k + NCache
<1>1. PICK n \in Nat : n = NCache /\ n >= 2
  BY ODEAssumption
<1>2. a \in 0 .. n - 1 /\ k \in 0 .. n - 1
  BY <1>1 DEF Slots
<1>3. (a + k) % n = IF a + k < n THEN a + k ELSE a + k - n
  BY <1>1, <1>2
<1>4. (a - k) % n = IF k <= a THEN a - k ELSE a - k + n
  <2>1. CASE k <= a
    BY <1>1, <1>2, <2>1
  <2>2. CASE ~ (k <= a)
    BY <1>1, <1>2, <2>2
  <2> QED BY <2>1, <2>2
<1>5. (a + k) % n \in 0 .. n - 1 /\ (a - k) % n \in 0 .. n - 1
  BY <1>1, <1>2, <1>3, <1>4
<1> QED BY <1>1, <1>3, <1>4, <1>5 DEF Slots

LEMMA PrevSlot ==
  ASSUME NEW i \in Slots
  PROVE  /\ PrevCache(i) \in Slots /\ PrevCache(i) = IF i = 0 THEN NCache - 1 ELSE i - 1
         /\ NextCache(PrevCache(i)) = i /\ PrevCache(NextCache(i)) = i /\ PrevCache(i) # i
<1>1. PICK n \in Nat : n = NCache /\ n >= 2
  BY ODEAssumption
<1>2. i \in 0 .. n - 1
  BY <1>1 DEF Slots
<1>3. \A j \in 0 .. n - 1 : (j - 1) % n = IF j = 0 THEN n - 1 ELSE j - 1
  <2> SUFFICES ASSUME NEW j \in 0 .. n - 1
               PROVE  (j - 1) % n = IF j = 0 THEN n - 1 ELSE j - 1
    OBVIOUS
  <2>1. CASE j = 0
    BY <1>1, <2>1
  <2>2. CASE j # 0
    BY <1>1, <2>2
  <2> QED BY <2>1, <2>2
<1>4. \A j \in Slots : PrevCache(j) = IF j = 0 THEN n - 1 ELSE j - 1
  BY <1>1, <1>3 DEF PrevCache, Slots
<1>5. \A j \in Slots : NextCache(j) \in Slots /\ NextCache(j) = IF j = n - 1 THEN 0 ELSE j + 1
  BY <1>1, NextSlot
<1>6. PrevCache(i) \in Slots
  BY <1>1, <1>2, <1>4 DEF Slots
<1> QED BY <1>1, <1>2, <1>4, <1>5, <1>6

\* The neighbors of a slot between a and b.
LEMMA RingBack ==
  ASSUME NEW a \in Slots, NEW b \in Slots, NEW i \in Slots, InRing(i, a, b)
  PROVE  /\ i # a => InRing(PrevCache(i), a, b) /\ PrevCache(i) # b
         /\ i # b => InRing(NextCache(i), a, b) /\ NextCache(i) # a
         /\ a = b => i = a
<1>1. NCache \in Nat /\ NCache >= 2
  BY ODEAssumption
<1> QED BY <1>1, NextSlot, PrevSlot DEF InRing, Slots

\* Where a turn forward, or back, from a leads.
TurnUp(a) == [x \in Slots |-> (a + x) % NCache]
TurnDown(a) == [x \in Slots |-> (a - x) % NCache]

LEMMA TurnsAre ==
  ASSUME NEW a \in Slots, NEW n, n = NCache
  PROVE  /\ n \in Nat /\ n >= 2 /\ Slots = 0 .. n - 1
         /\ \A x \in Slots : /\ TurnUp(a)[x] \in Slots /\ TurnDown(a)[x] \in Slots
                             /\ TurnUp(a)[x] = IF a + x < n THEN a + x ELSE a + x - n
                             /\ TurnDown(a)[x] = IF x <= a THEN a - x ELSE a - x + n
<1>1. n \in Nat /\ n >= 2 /\ Slots = 0 .. n - 1
  BY ODEAssumption DEF Slots
<1> QED BY <1>1, Turned, Zenon DEF TurnUp, TurnDown

\* How far b is behind a.
Behind(a, b) == IF a <= b THEN b - a ELSE b - a + NCache
After(a, x) == IF a + x < NCache THEN a + x ELSE a + x - NCache
Back(a, x) == IF x <= a THEN a - x ELSE a - x + NCache

\* The loop towards cach1: from a on it ends at the first slot of W behind a, at b at last.
UpRun(p, a, b, W, k) ==
  /\ \A x \in Slots : p[x] = After(a, x)
  /\ k \in Slots /\ k <= Behind(a, b) /\ (p[k] = b \/ (k > 0 /\ p[k] \in W))
  /\ \A x \in 0 .. k - 1 : p[x] # b /\ (x > 0 => p[x] \notin W)

UpTo(j, a, b, W) ==
  /\ j \in Slots /\ InRing(j, a, b)
  /\ a = b => j = a
  /\ a # b => /\ j # a /\ (j = b \/ j \in W)
              /\ PrevCache(j) = a \/ PrevCache(j) \notin W

LEMMA UpEnds ==
  ASSUME NEW a \in Slots, NEW b \in Slots, NEW W, NEW p, NEW k, UpRun(p, a, b, W, k)
  PROVE  UpTo(p[k], a, b, W)
<1>0. SUFFICES ASSUME NEW j, j = p[k], j = b \/ (k > 0 /\ j \in W),
                      \A x \in Slots : p[x] = After(a, x), k \in Slots, k <= Behind(a, b),
                      \A x \in 0 .. k - 1 : p[x] # b /\ (x > 0 => p[x] \notin W)
               PROVE  /\ j \in Slots /\ InRing(j, a, b)
                      /\ a = b => j = a
                      /\ a # b => /\ j # a /\ (j = b \/ j \in W)
                                  /\ PrevCache(j) = a \/ PrevCache(j) \notin W
  BY DEF UpRun, UpTo
<1>1. PICK n \in Nat : n = NCache /\ n >= 2 /\ Slots = 0 .. n - 1
  BY <1>0, ODEAssumption DEF Slots
<1>2. /\ a \in 0 .. n - 1 /\ b \in 0 .. n - 1 /\ k \in 0 .. n - 1
      /\ \A x \in 0 .. n - 1 : p[x] = IF a + x < n THEN a + x ELSE a + x - n
      /\ k <= IF a <= b THEN b - a ELSE b - a + n
  BY <1>0, <1>1 DEF Behind, After
<1>3. j = IF a + k < n THEN a + k ELSE a + k - n
  BY <1>0, <1>2
<1>4. j \in 0 .. n - 1 /\ j \in Slots
  BY <1>0, <1>1, <1>2, <1>3
<1>5. InRing(j, a, b)
  BY <1>0, <1>1, <1>2, <1>3 DEF InRing
<1>6. a = b => j = a
  BY <1>0, <1>1, <1>2, <1>3
<1>7. ASSUME a # b
      PROVE  /\ j # a /\ (j = b \/ j \in W)
             /\ PrevCache(j) = a \/ PrevCache(j) \notin W
  <2>1. k # 0
    <3>1. k = 0 => j = a
      BY <1>0, <1>1, <1>2, <1>3
    <3> QED BY <1>0, <1>7, <3>1
  <2>2. j # a
    BY <1>0, <1>1, <1>2, <1>3, <2>1
  <2>3. PrevCache(j) = IF j = 0 THEN n - 1 ELSE j - 1
    BY <1>0, <1>1, <1>4, PrevSlot
  <2>4. k - 1 \in 0 .. n - 1
    BY <1>0, <1>1, <1>2, <2>1
  <2>5. p[k - 1] = IF a + (k - 1) < n THEN a + (k - 1) ELSE a + (k - 1) - n
    BY <1>0, <1>2, <2>4
  <2>6. PrevCache(j) = p[k - 1]
    BY <1>0, <1>1, <1>2, <1>3, <2>1, <2>3, <2>5
  <2>7. k = 1 => p[k - 1] = a
    BY <1>0, <1>1, <1>2, <2>5
  <2>8. k # 1 => p[k - 1] \notin W
    <3>1. k # 1 => k - 1 \in 0 .. k - 1 /\ k - 1 > 0
      BY <1>0, <1>1, <1>2, <2>1
    <3> QED BY <1>0, <3>1
  <2> QED BY <1>0, <2>2, <2>6, <2>7, <2>8
<1> QED BY <1>0, <1>4, <1>5, <1>6, <1>7

UpSteps(a, b, W) ==
  Least({x \in Slots : TurnUp(a)[x] = b \/ (x > 0 /\ TurnUp(a)[x] \in W)})

LEMMA UpIs ==
  ASSUME NEW a \in Slots, NEW b \in Slots, NEW W
  PROVE  UpSteps(a, b, W) \in Slots /\ UpTo(TurnUp(a)[UpSteps(a, b, W)], a, b, W)
<1>0. SUFFICES ASSUME NEW p, p = TurnUp(a),
                      NEW k, k = Least({x \in Slots : p[x] = b \/ (x > 0 /\ p[x] \in W)}),
                      NEW j, j = p[k]
               PROVE  k \in Slots /\ UpTo(j, a, b, W)
  BY Zenon DEF UpSteps
<1>1. PICK n : n = NCache
  OBVIOUS
<1>2. /\ n \in Nat /\ n >= 2 /\ Slots = 0 .. n - 1
      /\ \A x \in Slots : p[x] = IF a + x < n THEN a + x ELSE a + x - n
  BY <1>0, <1>1, TurnsAre
<1>3. PICK U : U = {x \in Slots : p[x] = b \/ (x > 0 /\ p[x] \in W)}
  OBVIOUS
<1>4. PICK m : m = IF a <= b THEN b - a ELSE b - a + n
  OBVIOUS
<1>5. m \in U
  <2>1. m \in Slots
    BY <1>0, <1>2, <1>4
  <2>2. p[m] = IF a + m < n THEN a + m ELSE a + m - n
    BY <1>0, <1>2, <2>1
  <2>3. p[m] = b
    BY <1>0, <1>2, <1>4, <2>1, <2>2
  <2> QED BY <1>0, <1>3, <2>1, <2>3
<1>6. k \in U /\ \A x \in U : k <= x
  <2>1. k = Least(U)
    BY <1>0, <1>3, Zenon
  <2>2. U \in SUBSET Nat /\ U # {}
    BY <1>0, <1>2, <1>3, <1>5
  <2>3. Least(U) \in U /\ \A x \in U : Least(U) <= x
    <3> HIDE <2>1
    <3> QED BY <1>0, <2>2, LeastIs
  <2> QED BY <1>0, <2>1, <2>3, Zenon
<1>7. k \in Slots /\ (j = b \/ (k > 0 /\ j \in W)) /\ k <= m
  BY <1>0, <1>3, <1>5, <1>6, Zenon
<1>8. \A x \in 0 .. k - 1 : p[x] # b /\ (x > 0 => p[x] \notin W)
  <2> SUFFICES ASSUME NEW x \in 0 .. k - 1
               PROVE  p[x] # b /\ (x > 0 => p[x] \notin W)
    OBVIOUS
  <2>1. x \in Slots /\ ~ (k <= x)
    <3>1. k \in 0 .. n - 1
      BY <1>0, <1>2, <1>7
    <3>2. x \in 0 .. n - 1 /\ ~ (k <= x)
      BY <1>0, <1>2, <3>1
    <3> QED BY <1>0, <1>2, <3>2
  <2>2. x \notin U
    BY <1>0, <1>6, <2>1, Zenon
  <2> QED BY <1>0, <1>3, <2>1, <2>2, Zenon
<1>9. UpRun(p, a, b, W, k)
  <2>1. \A x \in Slots : p[x] = After(a, x)
    BY <1>0, <1>1, <1>2 DEF After
  <2>2. k <= Behind(a, b)
    BY <1>0, <1>1, <1>4, <1>7 DEF Behind
  <2> QED BY <1>0, <1>7, <1>8, <2>1, <2>2, Zenon DEF UpRun
<1> QED BY <1>0, <1>7, <1>9, UpEnds, Zenon

\* The loop towards cach0: from a back it ends at the first slot of V, at b at last.
DownRun(p, a, b, V, k) ==
  /\ \A x \in Slots : p[x] = Back(a, x)
  /\ k \in Slots /\ k <= Behind(b, a) /\ (p[k] = b \/ p[k] \in V)
  /\ \A x \in 0 .. k - 1 : p[x] # b /\ p[x] \notin V

DownTo(j, a, b, V) ==
  /\ j \in Slots /\ InRing(j, b, a) /\ (j = b \/ j \in V)
  /\ a \in V => j = a
  /\ j # a => NextCache(j) \notin V /\ InRing(NextCache(j), b, a) /\ NextCache(j) # b

LEMMA DownEnds ==
  ASSUME NEW a \in Slots, NEW b \in Slots, NEW V, NEW p, NEW k, DownRun(p, a, b, V, k)
  PROVE  DownTo(p[k], a, b, V)
<1>0. SUFFICES ASSUME NEW j, j = p[k], \A x \in Slots : p[x] = Back(a, x),
                      k \in Slots, k <= Behind(b, a), j = b \/ j \in V,
                      \A x \in 0 .. k - 1 : p[x] # b /\ p[x] \notin V
               PROVE  /\ j \in Slots /\ InRing(j, b, a) /\ (j = b \/ j \in V)
                      /\ a \in V => j = a
                      /\ j # a => /\ NextCache(j) \notin V /\ InRing(NextCache(j), b, a)
                                  /\ NextCache(j) # b
  BY DEF DownRun, DownTo
<1>1. PICK n \in Nat : n = NCache /\ n >= 2 /\ Slots = 0 .. n - 1
  BY <1>0, ODEAssumption DEF Slots
<1>2. /\ a \in 0 .. n - 1 /\ b \in 0 .. n - 1 /\ k \in 0 .. n - 1
      /\ \A x \in 0 .. n - 1 : p[x] = IF x <= a THEN a - x ELSE a - x + n
      /\ k <= IF b <= a THEN a - b ELSE a - b + n
  BY <1>0, <1>1 DEF Behind, Back
<1>3. j = IF k <= a THEN a - k ELSE a - k + n
  BY <1>0, <1>2
<1>4. j \in 0 .. n - 1 /\ j \in Slots
  BY <1>0, <1>1, <1>2, <1>3
<1>5. InRing(j, b, a)
  BY <1>0, <1>1, <1>2, <1>3 DEF InRing
<1>6. a \in V => j = a
  <2>1. p[0] = a
    BY <1>0, <1>1, <1>2
  <2>2. a \in V => ~ (0 \in 0 .. k - 1)
    BY <1>0, <2>1
  <2>3. a \in V => k = 0
    BY <1>0, <1>1, <1>2, <2>2
  <2> QED BY <1>0, <2>1, <2>3
<1>7. ASSUME j # a
      PROVE  NextCache(j) \notin V /\ InRing(NextCache(j), b, a) /\ NextCache(j) # b
  <2>1. k # 0
    BY <1>0, <1>1, <1>2, <1>3, <1>7
  <2>2. NextCache(j) = IF j = n - 1 THEN 0 ELSE j + 1
    BY <1>0, <1>1, <1>4, NextSlot
  <2>3. k - 1 \in 0 .. n - 1 /\ k - 1 \in 0 .. k - 1
    BY <1>0, <1>1, <1>2, <2>1
  <2>4. p[k - 1] = IF k - 1 <= a THEN a - (k - 1) ELSE a - (k - 1) + n
    BY <1>0, <1>2, <2>3
  <2>5. NextCache(j) = p[k - 1]
    BY <1>0, <1>1, <1>2, <1>3, <2>1, <2>2, <2>4
  <2>6. InRing(NextCache(j), b, a)
    BY <1>0, <1>4, <1>5, <1>7, RingBack
  <2> QED BY <1>0, <2>3, <2>5, <2>6
<1> QED BY <1>0, <1>4, <1>5, <1>6, <1>7

DownSteps(a, b, V) == Least({x \in Slots : TurnDown(a)[x] = b \/ TurnDown(a)[x] \in V})

LEMMA DownIs ==
  ASSUME NEW a \in Slots, NEW b \in Slots, NEW V
  PROVE  DownSteps(a, b, V) \in Slots /\ DownTo(TurnDown(a)[DownSteps(a, b, V)], a, b, V)
<1>0. SUFFICES ASSUME NEW p, p = TurnDown(a),
                      NEW k, k = Least({x \in Slots : p[x] = b \/ p[x] \in V}),
                      NEW j, j = p[k]
               PROVE  k \in Slots /\ DownTo(j, a, b, V)
  BY Zenon DEF DownSteps
<1>1. PICK n : n = NCache
  OBVIOUS
<1>2. /\ n \in Nat /\ n >= 2 /\ Slots = 0 .. n - 1
      /\ \A x \in Slots : p[x] = IF x <= a THEN a - x ELSE a - x + n
  BY <1>0, <1>1, TurnsAre
<1>3. PICK U : U = {x \in Slots : p[x] = b \/ p[x] \in V}
  OBVIOUS
<1>4. PICK m : m = IF b <= a THEN a - b ELSE a - b + n
  OBVIOUS
<1>5. m \in U
  <2>1. m \in Slots
    BY <1>0, <1>2, <1>4
  <2>2. p[m] = IF m <= a THEN a - m ELSE a - m + n
    BY <1>0, <1>2, <2>1
  <2>3. p[m] = b
    BY <1>0, <1>2, <1>4, <2>1, <2>2
  <2> QED BY <1>0, <1>3, <2>1, <2>3
<1>6. k \in U /\ \A x \in U : k <= x
  <2>1. k = Least(U)
    BY <1>0, <1>3, Zenon
  <2>2. U \in SUBSET Nat /\ U # {}
    BY <1>0, <1>2, <1>3, <1>5
  <2>3. Least(U) \in U /\ \A x \in U : Least(U) <= x
    <3> HIDE <2>1
    <3> QED BY <1>0, <2>2, LeastIs
  <2> QED BY <1>0, <2>1, <2>3, Zenon
<1>7. k \in Slots /\ (j = b \/ j \in V) /\ k <= m
  BY <1>0, <1>3, <1>5, <1>6, Zenon
<1>8. \A x \in 0 .. k - 1 : p[x] # b /\ p[x] \notin V
  <2> SUFFICES ASSUME NEW x \in 0 .. k - 1
               PROVE  p[x] # b /\ p[x] \notin V
    OBVIOUS
  <2>1. x \in Slots /\ ~ (k <= x)
    <3>1. k \in 0 .. n - 1
      BY <1>0, <1>2, <1>7
    <3>2. x \in 0 .. n - 1 /\ ~ (k <= x)
      BY <1>0, <1>2, <3>1
    <3> QED BY <1>0, <1>2, <3>2
  <2>2. x \notin U
    BY <1>0, <1>6, <2>1, Zenon
  <2> QED BY <1>0, <1>3, <2>1, <2>2, Zenon
<1>9. DownRun(p, a, b, V, k)
  <2>1. \A x \in Slots : p[x] = Back(a, x)
    BY <1>0, <1>1, <1>2 DEF Back
  <2>2. k <= Behind(b, a)
    BY <1>0, <1>1, <1>4, <1>7 DEF Behind
  <2> QED BY <1>0, <1>7, <1>8, <2>1, <2>2, Zenon DEF DownRun
<1> QED BY <1>0, <1>7, <1>9, DownEnds, Zenon


\* A slot between one of the ring and its end, or its start, is in the ring.
LEMMA RingPart ==
  ASSUME NEW a \in Slots, NEW b \in Slots, NEW i \in Slots, InRing(i, a, b), NEW j \in Slots
  PROVE  /\ InRing(j, i, b) => InRing(j, a, b) /\ (i # a => j # a)
         /\ InRing(j, a, i) => InRing(j, a, b)
<1>1. NCache \in Nat /\ NCache >= 2
  BY ODEAssumption
<1> QED BY <1>1 DEF InRing, Slots

\* The step an answer is read on: the one that ends at c.
Brackets(c, op, t) ==
  /\ c \in Slots /\ InRing(c, cach0, cach1) /\ c # cach0
  /\ dir * Cache[PrevCache(c)].t <= dir * t /\ dir * t <= dir * Cache[c].t
  /\ Past(op) => Cache[c].t # t
  /\ NCache = 2 => c = cach1 /\ PrevCache(c) = cach0

\* Where the loops of FindNeighbor begin, and the slots they look for.
Begin == IF cache = cach0 THEN NextCache(cache) ELSE cache
Reached(t) == {i \in Slots : dir * t <= dir * Cache[i].t}
Preceded(t) == {i \in Slots : dir * Cache[PrevCache(i)].t <= dir * t}

\* Where they end.
UpFrom(t) == TurnUp(Begin)[UpSteps(Begin, cach1, Reached(t))]
DownFrom(t) == TurnDown(Begin)[DownSteps(Begin, cach0, Preceded(t))]

NearOf(t, up, down) ==
  IF NCache = 2 THEN cach1
  ELSE IF Cache[Begin].t = t THEN Begin
  ELSE IF dir * Cache[Begin].t < dir * t THEN up ELSE down
BracketAt(near, op, t) == IF Past(op) /\ Cache[near].t = t THEN NextCache(near) ELSE near

LEMMA NeighborLoops ==
  ASSUME Begin \in Slots, cach0 \in Slots, cach1 \in Slots, NEW op, NEW t
  PROVE  /\ FindNeighbor(op, t) = BracketAt(NearOf(t, UpFrom(t), DownFrom(t)), op, t)
         /\ UpTo(UpFrom(t), Begin, cach1, Reached(t))
         /\ DownTo(DownFrom(t), Begin, cach0, Preceded(t))
<1>1. \A k \in Slots : /\ TurnUp(Begin)[k] = (Begin + k) % NCache
                       /\ TurnDown(Begin)[k] = (Begin - k) % NCache
                       /\ TurnUp(Begin)[k] \in Slots /\ TurnDown(Begin)[k] \in Slots
  BY Turned DEF TurnUp, TurnDown
<1>2. {k \in Slots : \/ (Begin + k) % NCache = cach1
                     \/ k > 0 /\ dir * t <= dir * Cache[(Begin + k) % NCache].t}
        = {k \in Slots : \/ TurnUp(Begin)[k] = cach1
                         \/ (k > 0 /\ TurnUp(Begin)[k] \in Reached(t))}
  BY <1>1, Zenon DEF Reached
<1>3. {k \in Slots : \/ (Begin - k) % NCache = cach0
                     \/ dir * Cache[PrevCache((Begin - k) % NCache)].t <= dir * t}
        = {k \in Slots : TurnDown(Begin)[k] = cach0 \/ TurnDown(Begin)[k] \in Preceded(t)}
  BY <1>1, Zenon DEF Preceded
<1>4. PICK u : u = UpSteps(Begin, cach1, Reached(t))
  OBVIOUS
<1>5. PICK w : w = DownSteps(Begin, cach0, Preceded(t))
  OBVIOUS
<1>6. u \in Slots /\ UpTo(TurnUp(Begin)[u], Begin, cach1, Reached(t))
  BY <1>4, UpIs, Zenon
<1>7. w \in Slots /\ DownTo(TurnDown(Begin)[w], Begin, cach0, Preceded(t))
  BY <1>5, DownIs, Zenon
<1>8. UpFrom(t) = TurnUp(Begin)[u] /\ DownFrom(t) = TurnDown(Begin)[w]
  BY <1>4, <1>5, Zenon DEF UpFrom, DownFrom
<1>9. UpFrom(t) = (Begin + u) % NCache /\ DownFrom(t) = (Begin - w) % NCache
  BY <1>1, <1>6, <1>7, <1>8, Zenon
<1>10. u = Least({k \in Slots : \/ (Begin + k) % NCache = cach1
                                \/ k > 0 /\ dir * t <= dir * Cache[(Begin + k) % NCache].t})
  BY <1>2, <1>4, Zenon DEF UpSteps
<1>11. w = Least({k \in Slots : \/ (Begin - k) % NCache = cach0
                                \/ dir * Cache[PrevCache((Begin - k) % NCache)].t <= dir * t})
  BY <1>3, <1>5, Zenon DEF DownSteps
<1>12. FindNeighbor(op, t) =
         BracketAt(NearOf(t, (Begin + Least({k \in Slots :
                                \/ (Begin + k) % NCache = cach1
                                \/ k > 0 /\ dir * t <= dir * Cache[(Begin + k) % NCache].t})) % NCache,
                             (Begin - Least({k \in Slots :
                                \/ (Begin - k) % NCache = cach0
                                \/ dir * Cache[PrevCache((Begin - k) % NCache)].t <= dir * t})) % NCache),
                   op, t)
  BY Zenon DEF FindNeighbor, NearOf, BracketAt, Begin
<1>13. FindNeighbor(op, t) = BracketAt(NearOf(t, UpFrom(t), DownFrom(t)), op, t)
  BY <1>9, <1>10, <1>11, <1>12, Zenon
<1> QED BY <1>6, <1>7, <1>8, <1>13

LEMMA NeighborIs ==
  ASSUME RingInv, dir \in {-1, 1}, cach0 # cach1, cache \in Slots, InRing(cache, cach0, cach1),
         NEW op, NEW t \in Int, Covers(op, t)
  PROVE  Brackets(FindNeighbor(op, t), op, t)
<1>1. cach0 \in Slots /\ cach1 \in Slots /\ NCache >= 2
  BY ODEAssumption DEF RingInv, RingOf
<1>2. Begin \in Slots /\ Begin # cach0 /\ InRing(Begin, cach0, cach1)
  <2>1. CASE cache = cach0
    BY <1>1, <2>1, NextSlot, RingBack DEF Begin
  <2>2. CASE cache # cach0
    BY <2>2 DEF Begin
  <2> QED BY <2>1, <2>2
<1>3. \A i \in Slots : InRing(i, cach0, cach1) =>
        /\ Cache[i].t \in Int /\ Cache[i].h \in Int /\ dir * Cache[i].h > 0
        /\ i # cach1 => Cache[i].t + Cache[i].h = Cache[NextCache(i)].t
  <2> SUFFICES ASSUME NEW i \in Slots, InRing(i, cach0, cach1)
               PROVE  /\ Cache[i].t \in Int /\ Cache[i].h \in Int /\ dir * Cache[i].h > 0
                      /\ i # cach1 => Cache[i].t + Cache[i].h = Cache[NextCache(i)].t
    OBVIOUS
  <2>1. Cache[i] \in Entries
    BY DEF RingInv
  <2>2. Toward(dir, Cache[i].h) > 0 /\ (i # cach1 => Cache[i].t + Cache[i].h = Cache[NextCache(i)].t)
    BY DEF RingInv, RingOf
  <2> QED BY <2>1, <2>2 DEF Entries, Toward
<1>4. /\ dir * Cache[cach0].t <= dir * t /\ dir * t <= dir * Cache[cach1].t
      /\ Past(op) => dir * t < dir * Cache[cach1].t
  <2>1. Cache[cach0].t \in Int /\ Cache[cach1].t \in Int
    BY <1>1, <1>3 DEF InRing, Slots
  <2> QED BY <2>1 DEF Covers, Past
<1>5. PICK near : near = NearOf(t, UpFrom(t), DownFrom(t))
  OBVIOUS
<1>6. /\ near \in Slots /\ InRing(near, cach0, cach1) /\ near # cach0
      /\ dir * Cache[PrevCache(near)].t <= dir * t /\ dir * t <= dir * Cache[near].t
  <2>1. CASE NCache = 2
    <3>1. near = cach1 /\ PrevCache(cach1) = cach0
      BY <1>1, <1>5, <2>1, PrevSlot DEF NearOf, Slots
    <3> QED BY <1>1, <1>4, <3>1 DEF InRing, Slots
  <2>2. ASSUME NEW i \in Slots, InRing(i, cach0, cach1), i # cach0
        PROVE  LET j == PrevCache(i) IN
               /\ j \in Slots /\ InRing(j, cach0, cach1) /\ j # cach1 /\ NextCache(j) = i
               /\ Cache[j].t \in Int /\ Cache[i].t \in Int /\ dir * Cache[j].t < dir * Cache[i].t
    <3>1. PICK j : j = PrevCache(i)
      OBVIOUS
    <3>2. j \in Slots /\ InRing(j, cach0, cach1) /\ j # cach1 /\ NextCache(j) = i
      BY <1>1, <2>2, <3>1, PrevSlot, RingBack
    <3>3. Cache[j].t \in Int /\ Cache[j].h \in Int /\ dir * Cache[j].h > 0
          /\ Cache[j].t + Cache[j].h = Cache[i].t
      BY <1>3, <3>2
    <3>4. Cache[i].t \in Int /\ dir * Cache[j].t < dir * Cache[i].t
      BY <3>3
    <3> QED BY <3>1, <3>2, <3>3, <3>4
  <2>3. CASE NCache # 2 /\ Cache[Begin].t = t
    <3>1. near = Begin
      BY <1>5, <2>3 DEF NearOf
    <3>2. LET j == PrevCache(Begin) IN
          Cache[j].t \in Int /\ Cache[Begin].t \in Int /\ dir * Cache[j].t < dir * Cache[Begin].t
      BY <1>2, <2>2
    <3> QED BY <1>2, <2>3, <3>1, <3>2
  <2>4. CASE NCache # 2 /\ Cache[Begin].t # t /\ dir * Cache[Begin].t < dir * t
    <3>1. near = UpFrom(t)
      BY <1>5, <2>4 DEF NearOf
    <3>2. UpTo(near, Begin, cach1, Reached(t))
      BY <1>1, <1>2, <3>1, NeighborLoops
    <3>3. Begin # cach1
      BY <1>3, <1>2, <1>4, <2>4
    <3>4. near \in Slots /\ InRing(near, Begin, cach1) /\ (near = cach1 \/ near \in Reached(t))
          /\ (PrevCache(near) = Begin \/ PrevCache(near) \notin Reached(t))
      BY <3>2, <3>3 DEF UpTo
    <3>5. InRing(near, cach0, cach1) /\ near # cach0
      BY <1>1, <1>2, <3>4, RingPart
    <3>6. dir * t <= dir * Cache[near].t
      BY <1>4, <3>4 DEF Reached
    <3>7. dir * Cache[PrevCache(near)].t <= dir * t
      <4>1. PrevCache(near) \in Slots /\ Cache[PrevCache(near)].t \in Int
        BY <2>2, <3>4, <3>5
      <4>2. CASE PrevCache(near) = Begin
        BY <2>4, <4>1, <4>2
      <4>3. CASE PrevCache(near) \notin Reached(t)
        BY <4>1, <4>3 DEF Reached
      <4> QED BY <3>4, <4>2, <4>3
    <3> QED BY <3>4, <3>5, <3>6, <3>7
  <2>5. CASE NCache # 2 /\ Cache[Begin].t # t /\ ~ (dir * Cache[Begin].t < dir * t)
    <3>1. near = DownFrom(t)
      BY <1>5, <2>5 DEF NearOf
    <3>2. DownTo(near, Begin, cach0, Preceded(t))
      BY <1>1, <1>2, <3>1, NeighborLoops
    <3>3. near \in Slots /\ InRing(near, cach0, Begin)
      BY <3>2 DEF DownTo
    <3>4. InRing(near, cach0, cach1)
      BY <1>1, <1>2, <3>3, RingPart
    <3>5. near # cach0
      <4> SUFFICES ASSUME near = cach0 PROVE FALSE
        OBVIOUS
      <4>1. NextCache(cach0) \notin Preceded(t)
        BY <1>2, <3>2 DEF DownTo
      <4>2. PrevCache(NextCache(cach0)) = cach0 /\ NextCache(cach0) \in Slots
        BY <1>1, NextSlot, PrevSlot
      <4> QED BY <1>4, <4>1, <4>2 DEF Preceded
    <3>6. dir * Cache[PrevCache(near)].t <= dir * t
      BY <3>2, <3>5 DEF DownTo, Preceded
    <3>7. dir * t <= dir * Cache[near].t
      <4>1. Cache[near].t \in Int /\ Cache[Begin].t \in Int
        BY <1>2, <1>3, <3>3, <3>4
      <4>2. CASE near = Begin
        BY <2>5, <4>1, <4>2
      <4>3. CASE near # Begin
        <5>1. NextCache(near) \notin Preceded(t)
          BY <3>2, <4>3 DEF DownTo
        <5>2. PrevCache(NextCache(near)) = near /\ NextCache(near) \in Slots
          BY <3>3, NextSlot, PrevSlot
        <5> QED BY <4>1, <5>1, <5>2 DEF Preceded
      <4> QED BY <4>2, <4>3
    <3> QED BY <3>3, <3>4, <3>5, <3>6, <3>7
  <2> QED BY <2>1, <2>3, <2>4, <2>5
<1>7. PICK c : c = FindNeighbor(op, t)
  OBVIOUS
<1>8. c = IF Past(op) /\ Cache[near].t = t THEN NextCache(near) ELSE near
  BY <1>1, <1>2, <1>5, <1>7, NeighborLoops DEF BracketAt
<1>9. NCache = 2 => near = cach1 /\ PrevCache(cach1) = cach0
  BY <1>1, <1>5, PrevSlot DEF NearOf, Slots
<1>10. CASE ~ (Past(op) /\ Cache[near].t = t)
  BY <1>6, <1>7, <1>8, <1>9, <1>10 DEF Brackets
<1>11. CASE Past(op) /\ Cache[near].t = t
  <2>1. near # cach1 /\ c = NextCache(near)
    BY <1>4, <1>8, <1>11
  <2>2. c \in Slots /\ InRing(c, cach0, cach1) /\ c # cach0 /\ PrevCache(c) = near
    BY <1>1, <1>6, <2>1, NextSlot, PrevSlot, RingBack
  <2>3. Cache[near].t \in Int /\ Cache[near].h \in Int /\ dir * Cache[near].h > 0
        /\ Cache[near].t + Cache[near].h = Cache[c].t
    BY <1>3, <1>6, <2>1
  <2>4. dir * t <= dir * Cache[c].t /\ dir * t <= dir * t /\ Cache[c].t # t
    BY <1>11, <2>3
  <2>5. Brackets(c, op, t)
    BY <1>9, <1>11, <2>1, <2>2, <2>4, Zenon DEF Brackets
  <2> QED BY <1>7, <2>5
<1> QED BY <1>10, <1>11


-----------------------------------------------------------------------------
(* Stops, and what a call may do.                                            *)

Kinds == {"Integrate", "Find", "Forward", "Backward"}

\* The zeros found, between InftyMinus and InftyPlus, the current link behind the first.
StopsOf(L) ==
  /\ L = [items |-> L.items, cur |-> L.cur] /\ L.items \in Seq(Int)
  /\ L.cur \in 2 .. Len(L.items)
  /\ L.items[1] = -Inf /\ L.items[Len(L.items)] = Inf
  /\ \A i \in 2 .. Len(L.items) - 1 : -Inf < L.items[i] /\ L.items[i] < Inf

LEMMA StopsAre ==
  ASSUME NEW L, StopsOf(L)
  PROVE  \E s \in Seq(Int), n \in Nat, c \in Nat :
           /\ n = Len(s) /\ c \in 2 .. n /\ L = [items |-> s, cur |-> c] /\ L.items = s /\ L.cur = c
           /\ s[1] = -Inf /\ s[n] = Inf /\ \A i \in 1 .. n : s[i] \in Int
           /\ \A i \in 2 .. n - 1 : -Inf < s[i] /\ s[i] < Inf
           /\ Inf \in Nat /\ -Inf < Inf
<1>1. PICK s, c : s = L.items /\ c = L.cur
  OBVIOUS
<1>2. PICK n \in Nat : n = Len(s) /\ s \in Seq(Int) /\ c \in 2 .. n /\ c \in Nat
  BY <1>1 DEF StopsOf
<1>3. \A i \in 1 .. n : s[i] \in Int
  BY <1>2
<1>4. Inf \in Nat /\ -Inf < Inf
  BY TimesAre DEF Times
<1> QED BY <1>1, <1>2, <1>3, <1>4 DEF StopsOf

LEMMA StopsMade ==
  ASSUME NEW q \in Seq(Int), NEW n \in Nat, n = Len(q), NEW k \in 2 .. n,
         q[1] = -Inf, q[n] = Inf, \A i \in 2 .. n - 1 : -Inf < q[i] /\ q[i] < Inf
  PROVE  /\ StopsOf([items |-> q, cur |-> k])
         /\ [items |-> q, cur |-> k].items = q /\ [items |-> q, cur |-> k].cur = k
BY DEF StopsOf

\* A zero enters next to an end of the list.
LEMMA StopEntered ==
  ASSUME NEW L, StopsOf(L), dir \in {-1, 1}, NEW tau \in Int, -Inf < tau, tau < Inf
  PROVE  LET M == EnterOuter(L, tau)
         IN  StopsOf(M) /\ M.cur < Len(M.items) /\ StopsOf(NextL(M))
<1>1. PICK s \in Seq(Int), n \in Nat, c \in Nat :
        /\ n = Len(s) /\ c \in 2 .. n /\ L = [items |-> s, cur |-> c]
        /\ s[1] = -Inf /\ s[n] = Inf /\ \A i \in 1 .. n : s[i] \in Int
        /\ \A i \in 2 .. n - 1 : -Inf < s[i] /\ s[i] < Inf
  BY StopsAre
<1>2. PICK at : at = IF dir > 0 THEN n ELSE 2
  OBVIOUS
<1>3. at \in 2 .. n
  BY <1>1, <1>2
<1>4. PICK q : q = Sq!InsertAt(s, at, tau)
  OBVIOUS
<1>5. PICK M : M = EnterOuter(L, tau)
  OBVIOUS
<1>6. M = [items |-> q, cur |-> at]
  <2>1. n >= 2 /\ s # << >>
    BY <1>1
  <2>2. CASE dir = 1
    <3>1. EndL(L) = [items |-> s, cur |-> n]
      BY <1>1 DEF EndL
    <3>2. InsertL(EndL(L), tau) = [items |-> q, cur |-> n]
      BY <1>2, <1>4, <2>1, <2>2, <3>1 DEF InsertL
    <3> QED BY <1>2, <1>5, <2>2, <3>2 DEF EnterOuter
  <2>3. CASE dir = -1
    <3>1. StartL(L) = [items |-> s, cur |-> 1]
      BY <1>1, <2>1 DEF StartL
    <3>2. AddL(StartL(L), tau) = [items |-> q, cur |-> 2]
      BY <1>2, <1>4, <2>3, <3>1 DEF AddL, IsCurrent
    <3> QED BY <1>2, <1>5, <2>3, <3>2 DEF EnterOuter
  <2> QED BY <2>2, <2>3
<1>7. /\ q \in Seq(Int) /\ Len(q) = n + 1
      /\ \A i \in 1 .. n + 1 : q[i] = IF i < at THEN s[i] ELSE IF i = at THEN tau ELSE s[i - 1]
  <2>1. at \in 1 .. Len(s) + 1
    BY <1>1, <1>3
  <2>2. q \in Seq(Int) /\ Inserted(q, s, at, tau)
    BY <1>4, <2>1, InsertAtIs
  <2> QED BY <1>1, <2>2 DEF Inserted
<1>8. q[1] = -Inf /\ q[n + 1] = Inf
  BY <1>1, <1>3, <1>7
<1>9. ASSUME NEW i \in 2 .. n
      PROVE  -Inf < q[i] /\ q[i] < Inf
  <2>1. q[i] = IF i < at THEN s[i] ELSE IF i = at THEN tau ELSE s[i - 1]
    BY <1>7, <1>9
  <2>2. i < at => i \in 2 .. n - 1
    BY <1>3, <1>9
  <2>3. i > at => i - 1 \in 2 .. n - 1
    BY <1>3, <1>9
  <2> QED BY <1>1, <1>3, <2>1, <2>2, <2>3
<1>10. StopsOf(M) /\ M.cur < Len(M.items)
  <2>1. /\ n + 1 \in Nat /\ at \in 2 .. n + 1 /\ at < n + 1
        /\ \A i \in 2 .. n + 1 - 1 : -Inf < q[i] /\ q[i] < Inf
    BY <1>1, <1>3, <1>9
  <2>2. StopsOf([items |-> q, cur |-> at]) /\ M.items = q /\ M.cur = at
    BY <1>6, <1>7, <1>8, <2>1, StopsMade
  <2> QED BY <1>6, <1>7, <2>1, <2>2
<1>11. NextL(M) = [items |-> q, cur |-> at + 1]
  <2>1. at # 0 /\ at # n + 1
    BY <1>1, <1>3
  <2>2. M.items = q /\ M.cur = at /\ Len(q) = n + 1
    BY <1>6, <1>7
  <2>3. NextL(M) = [M EXCEPT !.cur = at + 1]
    BY <2>1, <2>2, Zenon DEF NextL
  <2> QED BY <1>6, <2>3
<1>12. StopsOf(NextL(M))
  <2>1. /\ n + 1 \in Nat /\ at + 1 \in 2 .. n + 1
        /\ \A i \in 2 .. n + 1 - 1 : -Inf < q[i] /\ q[i] < Inf
    BY <1>1, <1>3, <1>9
  <2>2. PICK m, k : m = n + 1 /\ k = at + 1
    OBVIOUS
  <2>3. m \in Nat /\ k \in 2 .. m /\ \A i \in 2 .. m - 1 : -Inf < q[i] /\ q[i] < Inf
    BY <2>1, <2>2
  <2>4. q \in Seq(Int) /\ m = Len(q) /\ q[1] = -Inf /\ q[m] = Inf
    BY <1>7, <1>8, <2>2
  <2>5. StopsOf([items |-> q, cur |-> k])
    BY <2>3, <2>4, StopsMade
  <2> QED BY <1>11, <2>2, <2>5
<1> HIDE <1>5
<1> QED BY <1>5, <1>10, <1>12

\* Where the current link goes: on, unless it is the last; behind a time; where it was.
LEMMA StopsMoved ==
  ASSUME NEW L, StopsOf(L), NEW t \in Int, -Inf < t, t < Inf
  PROVE  /\ L.cur < Len(L.items) => StopsOf(NextL(L)) /\ Current(L) \in Int
                                   /\ -Inf < Current(L) /\ Current(L) < Inf
         /\ Current(L) < Inf => L.cur < Len(L.items)
         /\ StopsOf(ResyncStops(L, t))
         /\ StopsOf(SyncStops(L, t))
<1>1. PICK s \in Seq(Int), n \in Nat, c \in Nat :
        /\ n = Len(s) /\ c \in 2 .. n /\ L = [items |-> s, cur |-> c]
        /\ s[1] = -Inf /\ s[n] = Inf /\ \A i \in 1 .. n : s[i] \in Int
        /\ \A i \in 2 .. n - 1 : -Inf < s[i] /\ s[i] < Inf
        /\ Inf \in Nat
  BY StopsAre
<1>2. \A k \in 2 .. n : StopsOf([items |-> s, cur |-> k])
  BY <1>1 DEF StopsOf
<1>3. ASSUME c < n
      PROVE  StopsOf(NextL(L)) /\ Current(L) \in Int /\ -Inf < Current(L) /\ Current(L) < Inf
  <2>1. NextL(L) = [items |-> s, cur |-> c + 1]
    BY <1>1, <1>3 DEF NextL
  <2>2. Current(L) = s[c] /\ c \in 2 .. n - 1
    BY <1>1, <1>3 DEF Current
  <2> QED BY <1>1, <1>2, <1>3, <2>1, <2>2
<1>4. Current(L) < Inf => c < n
  BY <1>1 DEF Current
<1>5. ASSUME NEW k \in 1 .. n
      PROVE  Least({i \in k .. n : t < s[i]}) \in 2 .. n
  <2>1. PICK S : S = {i \in k .. n : t < s[i]}
    OBVIOUS
  <2>2. S \in SUBSET Nat /\ n \in S
    BY <1>1, <1>5, <2>1
  <2>3. Least(S) \in S
    <3> HIDE <2>1
    <3> QED BY <2>2, LeastIs
  <2>4. 1 \notin S
    BY <1>1, <2>1
  <2> QED BY <1>5, <2>1, <2>3, <2>4
<1>6. StopsOf(ResyncStops(L, t))
  <2>1. DOMAIN s = 1 .. n /\ s # << >> /\ 1 \in 1 .. n
    BY <1>1
  <2>2. ResyncStops(L, t) = [items |-> s, cur |-> Least({i \in 1 .. n : t < s[i]})]
    <3>1. L.items = s /\ L.items # << >> /\ DOMAIN L.items = 1 .. n
      BY <1>1, <2>1
    <3>2. ResyncStops(L, t) = [L EXCEPT !.cur = Least({i \in 1 .. n : t < s[i]})]
      BY <3>1, Zenon DEF ResyncStops
    <3> QED BY <1>1, <3>2
  <2>3. Least({i \in 1 .. n : t < s[i]}) \in 2 .. n
    BY <1>5, <2>1, Zenon
  <2> QED BY <1>2, <2>2, <2>3
<1>7. StopsOf(SyncStops(L, t))
  <2>1. PICK D : D = {i \in 1 .. c : s[i] <= t}
    OBVIOUS
  <2>2. D \in SUBSET (0 .. c) /\ 1 \in D /\ c \in Nat
    BY <1>1, <2>1
  <2>3. Greatest(D) \in D
    <3> HIDE <2>1
    <3> QED BY <2>2, GreatestIs
  <2>4. Greatest(D) \in 1 .. n
    BY <1>1, <2>1, <2>3
  <2>5. SyncStops(L, t) = [items |-> s, cur |-> Least({i \in Greatest(D) .. n : t < s[i]})]
    BY <1>1, <2>1 DEF SyncStops
  <2> QED BY <1>2, <1>5, <2>4, <2>5
<1> QED BY <1>1, <1>3, <1>4, <1>6, <1>7

\* What the check at the head of a call leaves.
LEMMA AheadIs ==
  ASSUME StopsOf(Stops), NEW op, NEW t \in Requests, t_last \in Int, -Inf < t_last, t_last < Inf
  PROVE  /\ StopsOf(StopAhead(op, t).list)
         /\ StopAhead(op, t).stop => LET L == StopAhead(op, t).list
                                     IN  L.cur < Len(L.items)
<1>1. PICK s \in Seq(Int), n \in Nat, c \in Nat :
        /\ n = Len(s) /\ c \in 2 .. n /\ Stops = [items |-> s, cur |-> c]
        /\ s[1] = -Inf /\ s[n] = Inf /\ \A i \in 1 .. n : s[i] \in Int
        /\ \A i \in 2 .. n - 1 : -Inf < s[i] /\ s[i] < Inf
        /\ Inf \in Nat
  BY StopsAre
<1>2. \A k \in 2 .. n : StopsOf([items |-> s, cur |-> k])
  BY <1>1 DEF StopsOf
<1>3. t \in Int /\ -Inf < t /\ t < Inf
  BY TimesAre
<1>4. PICK A : A = StopBetween(t_last, t)
  OBVIOUS
<1>5. PICK b : b = IF s[c - 1] = t_last THEN c - 2 ELSE c - 1
  OBVIOUS
<1>6. b \in 1 .. c - 1
  <2>1. c - 1 \in 1 .. n
    BY <1>1
  <2>2. s[c - 1] = t_last => c - 1 # 1
    BY <1>1
  <2> QED BY <1>5, <2>1, <2>2
<1>7. \/ s[c] <= t /\ A = [stop |-> TRUE, list |-> Stops]
      \/ A = [stop |-> FALSE, list |-> Stops]
      \/ t <= s[b] /\ A = [stop |-> TRUE, list |-> [items |-> s, cur |-> b]]
           /\ ~ (t >= t_last)
      \/ A = [stop |-> FALSE, list |-> [items |-> s, cur |-> b + 1]]
  <2>1. PrevL(Stops) = [items |-> s, cur |-> c - 1]
    BY <1>1 DEF PrevL
  <2>2. PICK back : back = LET one == PrevL(Stops)
                           IN  IF Current(one) = t_last THEN PrevL(one) ELSE one
    OBVIOUS
  <2>3. back = [items |-> s, cur |-> b]
    <3>1. c - 1 # 0 /\ (s[c - 1] = t_last => PrevL([items |-> s, cur |-> c - 1]) = [items |-> s, cur |-> c - 2])
      BY <1>1 DEF PrevL
    <3>2. Current([items |-> s, cur |-> c - 1]) = s[c - 1]
      BY DEF Current
    <3>3. back = IF s[c - 1] = t_last THEN PrevL([items |-> s, cur |-> c - 1])
                 ELSE [items |-> s, cur |-> c - 1]
      BY <2>1, <2>2, <3>2, Zenon
    <3> QED BY <1>5, <3>1, <3>3
  <2>4. NextL(back) = [items |-> s, cur |-> b + 1]
    BY <1>1, <1>6, <2>3 DEF NextL
  <2>5. A = IF Current(Stops) <= t THEN [stop |-> TRUE, list |-> Stops]
            ELSE IF t >= t_last THEN [stop |-> FALSE, list |-> Stops]
            ELSE IF t <= Current(back) THEN [stop |-> TRUE, list |-> back]
            ELSE [stop |-> FALSE, list |-> NextL(back)]
    BY <1>4, <2>2, Zenon DEF StopBetween
  <2>6. Current(Stops) = s[c] /\ Current(back) = s[b]
    BY <1>1, <2>3 DEF Current
  <2> QED BY <2>3, <2>4, <2>5, <2>6, Zenon
<1>8. StopsOf(A.list) /\ (A.stop => A.list.cur < Len(A.list.items))
  <2>1. CASE s[c] <= t /\ A = [stop |-> TRUE, list |-> Stops]
    <3>1. c < n
      BY <1>1, <1>3, <2>1
    <3> QED BY <1>1, <2>1, <3>1
  <2>2. CASE A = [stop |-> FALSE, list |-> Stops]
    BY <2>2
  <2>3. CASE t <= s[b] /\ A = [stop |-> TRUE, list |-> [items |-> s, cur |-> b]]
    <3>1. b # 1
      BY <1>1, <1>3, <2>3
    <3>2. b \in 2 .. n /\ b < n
      BY <1>1, <1>6, <3>1
    <3> QED BY <1>1, <1>2, <2>3, <3>2
  <2>4. CASE A = [stop |-> FALSE, list |-> [items |-> s, cur |-> b + 1]]
    <3>1. b + 1 \in 2 .. n
      BY <1>1, <1>6
    <3> QED BY <1>2, <2>4, <3>1
  <2> QED BY <1>7, <2>1, <2>2, <2>3, <2>4
<1>9. StopAhead(op, t) = A \/ StopAhead(op, t) = [stop |-> FALSE, list |-> Stops]
  BY <1>4 DEF StopAhead
<1> QED BY <1>8, <1>9

\* A stop that a step meets.
LEMMA StepStops ==
  ASSUME RingInv, dir \in {-1, 1}, StopsOf(Stops), NEW t_request, NEW ignore,
         NEW r \in Step(t_request, ignore)
  PROVE  /\ StopsOf(r.Stops)
         /\ r.status = "STOP_CONDITION" => r.Stops.cur < Len(r.Stops.items)
<1> DEFINE C1 == Cache[cach1]
           h == Accepted(C1)
           t == C1.t + h
           n == NextCache(cach1)
           late == FailLate /\ t \in {Tmin, Tmax}
           from == IF cach0 = n THEN NextCache(cach0) ELSE cach0
           sc == IF n_steps >= 0 /\ ~NeverStop THEN StopCondition(t) ELSE Cache[n].sc
           e == [t |-> t, h |-> Grown(h), sc |-> sc]
           zero == n_steps >= 0 /\ ~NeverStop /\ (sc = 0 \/ sc * C1.sc < 0)
           moved == [Unmoved("OK") EXCEPT
                       !.Cache = Written(n, h, e),
                       !.cach0 = from, !.cach1 = n,
                       !.n_steps = IF Saves THEN 0 ELSE IF n_steps >= 0 THEN n_steps + 1 ELSE @,
                       !.Initial = IF Saves THEN EnterOuter(Initial, e) ELSE @]
           failed == [Unmoved("FAILED") EXCEPT
                        !.Cache = Written(n, h, [e EXCEPT !.sc = Cache[n].sc]),
                        !.cach0 = from]
           lost == n_steps >= 0 /\ ~NeverStop /\ t \in BadStops
           strayed(x) == [[Unmoved("FAILED") EXCEPT
                             !.Cache = Written(n, h, [e EXCEPT !.sc = x]), !.cach0 = from]
                            EXCEPT !.cach1 = n, !.n_steps = @ + 1]
<1>5. r \in IF h = 0 THEN {Unmoved("NON_CONVERGENCE")}
            ELSE IF late THEN {failed}
            ELSE IF lost THEN {strayed(x) : x \in NotFinite}
            ELSE IF zero THEN {AtZero(moved, tau, t_request, ignore) : tau \in StopTimes(C1, t)}
            ELSE {moved}
  BY Zenon DEF Step, Saves
<1>0. \/ r \in {Unmoved("NON_CONVERGENCE"), failed, moved}
      \/ \E x \in NotFinite : r = strayed(x)
      \/ \E tau \in StopTimes(C1, t) : r = AtZero(moved, tau, t_request, ignore)
  <2> HIDE DEF h, late, lost, zero, failed, strayed, moved, t, C1
  <2> QED BY <1>5, Zenon
<1>1. \/ r.Stops = Stops /\ r.status # "STOP_CONDITION"
      \/ \E tau \in StopTimes(C1, t) :
           /\ tau # Inf
           /\ \/ r.Stops = EnterOuter(Stops, tau)
              \/ r.Stops = NextL(EnterOuter(Stops, tau)) /\ r.status # "STOP_CONDITION"
  <2>1. CASE r \in {Unmoved("NON_CONVERGENCE"), failed, moved}
    <3>1. CASE r = Unmoved("NON_CONVERGENCE")
      BY <3>1 DEF Unmoved
    <3>2. CASE r = failed
      BY <3>2 DEF Unmoved
    <3>3. CASE r = moved
      BY <3>3 DEF Unmoved
    <3> QED BY <2>1, <3>1, <3>2, <3>3
  <2>3. CASE \E x \in NotFinite : r = strayed(x)
    <3>1. Stands(r) \/ Fails(r) \/ Strays(r) \/ Moves(r)
      BY StepGoes
    <3>2. r.status = "FAILED"
      <4>1. PICK x \in NotFinite : r = strayed(x)
        BY <2>3
      <4>2. PICK w : /\ r = [w EXCEPT !.cach1 = n, !.n_steps = @ + 1]
                     /\ w = [Unmoved("FAILED") EXCEPT
                              !.Cache = Written(n, h, [e EXCEPT !.sc = x]), !.cach0 = from]
        BY <4>1
      <4>3. w.status = "FAILED" /\ w = [y \in DOMAIN w |-> w[y]] /\ "status" \in DOMAIN w
        BY <4>2 DEF Unmoved
      <4> HIDE DEF n, h, e, from
      <4> QED BY <4>2, <4>3
    <3> QED BY <3>1, <3>2, Zenon DEF Stands, Fails, Strays, Moves
  <2>4. ASSUME NEW tau \in StopTimes(C1, t), r = AtZero(moved, tau, t_request, ignore)
        PROVE  \/ r.Stops = Stops /\ r.status # "STOP_CONDITION"
               \/ /\ tau # Inf
                  /\ \/ r.Stops = EnterOuter(Stops, tau)
                     \/ r.Stops = NextL(EnterOuter(Stops, tau)) /\ r.status # "STOP_CONDITION"
    <3>1. /\ moved.Stops = Stops /\ moved.status = "OK" /\ {"Stops", "status"} \subseteq DOMAIN moved
          /\ moved = [x \in DOMAIN moved |-> moved[x]]
      BY DEF Unmoved
    <3> HIDE DEF moved
    <3> QED BY <2>4, <3>1, ZenonT(60) DEF AtZero
  <2> QED BY <1>0, <2>1, <2>3, <2>4
<1>2. ASSUME NEW tau \in StopTimes(C1, t), tau # Inf
      PROVE  tau \in Int /\ -Inf < tau /\ tau < Inf
  <2>1. C1.t \in Times
    BY NextSlot DEF RingInv, RingOf, InRing, Slots
  <2>2. tau \in Zeros \/ tau = C1.t
    BY <1>2 DEF StopTimes
  <2>3. \A z \in Zeros : z \in Int /\ -Inf < z /\ z < Inf
    BY ODEAssumption
  <2> QED BY <2>1, <2>2, <2>3, TimesAre
<1> HIDE DEF C1, t
<1>3. CASE r.Stops = Stops /\ r.status # "STOP_CONDITION"
  BY <1>3
<1>4. ASSUME NEW tau \in StopTimes(C1, t), tau # Inf,
             \/ r.Stops = EnterOuter(Stops, tau)
             \/ r.Stops = NextL(EnterOuter(Stops, tau)) /\ r.status # "STOP_CONDITION"
      PROVE  /\ StopsOf(r.Stops)
             /\ r.status = "STOP_CONDITION" => r.Stops.cur < Len(r.Stops.items)
  <2>1. tau \in Int /\ -Inf < tau /\ tau < Inf
    BY <1>2, <1>4
  <2>2. LET M == EnterOuter(Stops, tau)
        IN  StopsOf(M) /\ M.cur < Len(M.items) /\ StopsOf(NextL(M))
    BY <2>1, StopEntered
  <2> QED BY <1>4, <2>2
<1> QED BY <1>1, <1>3, <1>4

\* What a step leaves in the slots, and where it ends.
LEMMA StepEntries ==
  ASSUME RingInv, dir \in {-1, 1}, NEW t_request, NEW ignore, NEW r \in Step(t_request, ignore)
  PROVE  /\ \A i \in Slots : /\ r.Cache[i].t = Cache[i].t \/ r.Cache[i].t \in Times
                             /\ r.Cache[i].h = Cache[i].h \/ Short(r.Cache[i].h)
         /\ r.cach0 \in Slots /\ r.cach1 \in Slots
         /\ r.status = "OK" => /\ r.cach0 # r.cach1 /\ PrevCache(r.cach1) = cach1
                               /\ r.Cache[cach1].t = Cache[cach1].t
<1>1. PICK h : h = Accepted(Cache[cach1])
  OBVIOUS
<1>2. PICK n : n = NextCache(cach1)
  OBVIOUS
<1>3. RingOf(Cache, cach0, cach1, dir) /\ Cache \in [Slots -> Entries]
  BY DEF RingInv
<1>4. /\ cach1 \in Slots /\ cach0 \in Slots /\ n \in Slots /\ InRing(cach1, cach0, cach1)
      /\ n # cach1 /\ PrevCache(n) = cach1 /\ Cache[cach1].h \in Int
  BY <1>2, <1>3, RingShift, PrevSlot DEF RingOf, Entries
<1>5. /\ Cache[cach1].t \in Times /\ Toward(dir, Cache[cach1].h) > 0
  BY <1>3, <1>4 DEF RingOf
<1>6. h \in Int /\ Short(h) /\ Cache[cach1].t + h \in Times /\ Toward(dir, h) >= 0
  BY <1>1, <1>4, <1>5, AcceptedShort, AcceptedIs
<1>7. PICK f : f = IF cach0 = n THEN NextCache(cach0) ELSE cach0
  OBVIOUS
<1>8. f \in Slots /\ f # n
  BY <1>4, <1>7, NextSlot, PrevSlot
<1>9. CASE Stands(r)
  BY <1>4, <1>9 DEF Stands
<1>10. ASSUME NEW e \in Entries, h # 0, e.t = Cache[cach1].t + h, e.h = Grown(h),
              r.Cache = Written(n, h, e)
       PROVE  /\ \A i \in Slots : /\ r.Cache[i].t = Cache[i].t \/ r.Cache[i].t \in Times
                                  /\ r.Cache[i].h = Cache[i].h \/ Short(r.Cache[i].h)
              /\ r.Cache[cach1].t = Cache[cach1].t
  <2>1. Toward(dir, h) > 0
    BY <1>6, <1>10 DEF Toward
  <2>2. Short(Grown(h))
    BY <1>6, <2>1, GrownShort
  <2>3. r.Cache[n] = e
    BY <1>3, <1>4, <1>10 DEF Written
  <2>4. r.Cache[cach1].h = h /\ r.Cache[cach1].t = Cache[cach1].t
    BY <1>3, <1>4, <1>10 DEF Written, Entries
  <2>5. \A i \in Slots : i # n /\ i # cach1 => r.Cache[i] = Cache[i]
    BY <1>3, <1>4, <1>10 DEF Written
  <2> QED BY <1>6, <1>10, <2>2, <2>3, <2>4, <2>5
<1>11. Cache[n].sc \in {-1, 0, 1}
  BY <1>3, <1>4 DEF Entries
<1>12. h # 0 => Grown(h) \in Int
  <2>1. h # 0 => Toward(dir, h) > 0
    BY <1>6 DEF Toward
  <2> QED BY <1>6, <2>1, GrownIs
<1>13. Cache[cach1].t + h \in Int
  BY <1>5, <1>6, TimesAre
<1>14. CASE Fails(r)
  <2>1. PICK e : e = [t |-> Cache[cach1].t + h, h |-> Grown(h), sc |-> Cache[n].sc]
    OBVIOUS
  <2>2. /\ h # 0 /\ r.Cache = Written(n, h, e) /\ r.cach1 = cach1 /\ r.cach0 = f
        /\ r.status = "FAILED"
    BY <1>1, <1>2, <1>7, <1>14, <2>1, Zenon DEF Fails
  <2>3. e \in Entries /\ e.t = Cache[cach1].t + h /\ e.h = Grown(h)
    BY <1>11, <1>12, <1>13, <2>1, <2>2 DEF Entries
  <2> QED BY <1>4, <1>8, <1>10, <2>2, <2>3
<1>15. CASE Moves(r)
  <2>1. PICK sc : sc = IF n_steps >= 0 /\ ~NeverStop THEN StopCondition(Cache[cach1].t + h)
                       ELSE Cache[n].sc
    OBVIOUS
  <2>2. PICK e : e = [t |-> Cache[cach1].t + h, h |-> Grown(h), sc |-> sc]
    OBVIOUS
  <2>3. h # 0 /\ r.Cache = Written(n, h, e) /\ r.cach1 = n /\ r.cach0 = f
    BY <1>1, <1>2, <1>7, <1>15, <2>1, <2>2, Zenon DEF Moves
  <2>4. sc \in {-1, 0, 1}
    BY <1>11, <2>1 DEF StopCondition
  <2>5. e \in Entries /\ e.t = Cache[cach1].t + h /\ e.h = Grown(h)
    BY <1>12, <1>13, <2>2, <2>3, <2>4 DEF Entries
  <2> QED BY <1>4, <1>8, <1>10, <2>3, <2>5
<1>16. CASE Strays(r)
  <2>1. PICK sc \in NotFinite : r.Cache = Written(n, h, [t |-> Cache[cach1].t + h, h |-> Grown(h), sc |-> sc])
    BY <1>1, <1>2, <1>16, Zenon DEF Strays
  <2>2. PICK e : e = [t |-> Cache[cach1].t + h, h |-> Grown(h), sc |-> sc]
    OBVIOUS
  <2>3. h # 0 /\ r.Cache = Written(n, h, e) /\ r.cach1 = n /\ r.cach0 = f /\ r.status = "FAILED"
    BY <1>1, <1>2, <1>7, <1>16, <2>1, <2>2, Zenon DEF Strays
  <2>4. e \in Entries /\ e.t = Cache[cach1].t + h /\ e.h = Grown(h)
    BY <1>12, <1>13, <2>2, <2>3 DEF Entries, NotFinite
  <2> QED BY <1>4, <1>8, <1>10, <2>3, <2>4
<1> QED BY <1>9, <1>14, <1>15, <1>16, StepGoes

\* The way and the state a call restarts from.
WayOf(op, t) == IF t > T0 \/ (t = T0 /\ op = "Forward") THEN 1 ELSE -1
PlaceOf(op, t) ==
  IF op = "Find" THEN FindRestartAt(t, WayOf(op, t)) ELSE RestartAt(op, t, WayOf(op, t))
ListAt(op, t) == StopAhead(op, t).list

\* A call ends or begins a loop in the ring as it is.
RingStays == UNCHANGED <<Cache, cach0, cach1, dir, n_steps, InitH, init, IgnoreStop>>

\* The saved state that is current and the next one.
LEMMA GetsAre ==
  ASSUME NEW L, NEW q \in Seq(Entries), NEW c \in 2 .. Len(q) - 1, L = [items |-> q, cur |-> c]
  PROVE  L.items[Offset(L, 0, FALSE)] = q[c] /\ L.items[Offset(L, 1, FALSE)] = q[c + 1]
<1>1. Len(q) \in Nat /\ c \in 1 .. Len(q) /\ c + 1 \in 1 .. Len(q) /\ c + 0 = c /\ c # 0
  OBVIOUS
<1>2. Offset(L, 0, FALSE) = c /\ Offset(L, 1, FALSE) = c + 1
  BY <1>1 DEF Offset, IsCurrent
<1> QED BY <1>2

LEMMA GsAre ==
  ASSUME OuterOf(Initial)
  PROVE  /\ Initial.cur \in 2 .. Len(Initial.items) - 1 /\ Len(Initial.items) \in Nat
         /\ Initial = [items |-> Initial.items, cur |-> Initial.cur] /\ Initial.items \in Seq(Entries)
         /\ G(0) = Initial.items[Initial.cur] /\ G(1) = Initial.items[Initial.cur + 1]
         /\ G(0).t \in Int /\ G(1).t \in Int
<1>1. /\ Initial.cur \in 2 .. Len(Initial.items) - 1 /\ Len(Initial.items) \in Nat
      /\ Initial = [items |-> Initial.items, cur |-> Initial.cur] /\ Initial.items \in Seq(Entries)
  BY DEF OuterOf
<1>2. G(0) = Initial.items[Initial.cur] /\ G(1) = Initial.items[Initial.cur + 1]
  BY <1>1, GetsAre DEF G
<1>3. Initial.items[Initial.cur] \in Entries /\ Initial.items[Initial.cur + 1] \in Entries
  BY <1>1
<1> QED BY <1>1, <1>2, <1>3 DEF Entries

\* What a call from a client may do.
LEMMA CallGoes ==
  ASSUME FindIgnoresStops, IInv, IsIdle, NEW op, NEW t \in Requests,
         Answers(op, t) \/ (op = "Find" /\ Find(t))
  PROVE  /\ init /\ op \in Kinds /\ OuterOf(Initial) /\ Finished(op, "OK") = Idle
         /\ \/ StopAtKnown(op, t)
            \/ /\ dir # 0 /\ Before(op, t, Cache[cach1].t) /\ (dir = 1 => t < G(1).t)
               /\ BeginLoop("loop", op, t, ListAt(op, t))
               /\ RingStays /\ UNCHANGED <<cache, t_last, outer>>
            \/ /\ dir # 0 /\ Covers(op, t)
               /\ Return(op, t, "OK", FindNeighbor(op, t), ListAt(op, t))
               /\ RingStays /\ UNCHANGED outer
            \/ KeepRing(op, t)
            \/ /\ (op \in {"Integrate", "Find"} /\ t = T0) \/ StartOf(PlaceOf(op, t), WayOf(op, t))
               /\ NewRing(op, t, WayOf(op, t), PlaceOf(op, t), ListAt(op, t))
<1>1. CASE Answers(op, t)
  <2>1. Asked(op, t)
    BY <1>1 DEF Answers, StopAtKnown, Extend, Within, KeepRing, Restart
  <2>2. init /\ op \in {"Integrate", "Forward", "Backward"} /\ OuterOf(Initial)
        /\ Finished(op, "OK") = Idle
    BY <2>1, AskedIs DEF Finished, IInv, CallInv
  <2>3. CASE StopAtKnown(op, t) \/ KeepRing(op, t)
    BY <2>2, <2>3 DEF Kinds
  <2>4. CASE Extend(op, t)
    <3>1. dir = 1 => t < G(1).t
      <4>1. dir * t < dir * G(dir).t
        BY <2>4 DEF Extend, Extends
      <4>2. OuterOf(Initial) /\ t \in Int
        BY <2>2, TimesAre
      <4> QED BY <4>1, <4>2, GsAre
    <3> QED BY <2>2, <2>4, <3>1 DEF Extend, Extends, ListAt, RingStays, Kinds, ring
  <2>5. CASE Within(op, t)
    BY <2>2, <2>5 DEF Within, ListAt, RingStays, Kinds, ring
  <2>6. CASE Restart(op, t)
    <3>1. NewRing(op, t, WayOf(op, t), RestartAt(op, t, WayOf(op, t)), ListAt(op, t))
      BY <2>6 DEF Restart, WayOf, ListAt
    <3>2. (op \in {"Integrate", "Find"} /\ t = T0)
          \/ StartOf(RestartAt(op, t, WayOf(op, t)), WayOf(op, t))
      BY <2>2, RestartIs DEF WayOf
    <3>3. PlaceOf(op, t) = RestartAt(op, t, WayOf(op, t))
      BY <2>2 DEF PlaceOf
    <3> QED BY <2>2, <3>1, <3>2, <3>3 DEF Kinds
  <2> QED BY <1>1, <2>3, <2>4, <2>5, <2>6 DEF Answers
<1>2. CASE op = "Find" /\ Find(t)
  <2>1. /\ init /\ OuterOf(Initial) /\ Sought(t) = {[stop |-> FALSE, list |-> Stops]}
    <3>1. Sought(t) # {}
      BY <1>2 DEF Find
    <3>2. init /\ Sought(t) = {[stop |-> FALSE, list |-> Stops]}
      BY <3>1 DEF Sought
    <3> QED BY <3>2 DEF IInv, CallInv
  <2>2. ListAt(op, t) = Stops /\ Finished(op, "OK") = Idle /\ op \in Kinds /\ ~Past(op)
    BY <1>2 DEF ListAt, StopAhead, Finished, Kinds, Past
  <2>3. PICK s : s = [stop |-> FALSE, list |-> Stops]
    OBVIOUS
  <2>4. ~s.stop /\ s.list = Stops /\ Sought(t) = {s}
    BY <2>1, <2>3
  <2>5. \/ /\ dir # 0 /\ FindExtends(t) /\ BeginLoop("loop", "Find", t, Stops)
           /\ UNCHANGED <<ring, cache, dir, n_steps, init, InitH, outer, IgnoreStop, t_last>>
        \/ /\ dir # 0 /\ Covers("Find", t)
           /\ Return("Find", t, "OK", FindNeighbor("Find", t), Stops)
           /\ UNCHANGED <<ring, dir, n_steps, init, InitH, outer, IgnoreStop>>
        \/ LET d == IF t > T0 THEN 1 ELSE -1
           IN  NewRing("Find", t, d, FindRestartAt(t, d), Stops)
    <3> HIDE <2>3
    <3>1. \/ /\ dir # 0 /\ FindExtends(t) /\ BeginLoop("loop", "Find", t, s.list)
             /\ UNCHANGED <<ring, cache, dir, n_steps, init, InitH, outer, IgnoreStop, t_last>>
          \/ /\ dir # 0 /\ Covers("Find", t)
             /\ Return("Find", t, "OK", FindNeighbor("Find", t), s.list)
             /\ UNCHANGED <<ring, dir, n_steps, init, InitH, outer, IgnoreStop>>
          \/ LET d == IF t > T0 THEN 1 ELSE -1
             IN  NewRing("Find", t, d, FindRestartAt(t, d), s.list)
      BY <1>2, <2>4, Zenon DEF Find
    <3> QED BY <2>4, <3>1, Zenon
  <2>6. CASE /\ dir # 0 /\ FindExtends(t) /\ BeginLoop("loop", "Find", t, Stops)
             /\ UNCHANGED <<ring, cache, dir, n_steps, init, InitH, outer, IgnoreStop, t_last>>
    BY <1>2, <2>1, <2>2, <2>6 DEF FindExtends, Before, RingStays, ring
  <2>7. CASE /\ dir # 0 /\ Covers("Find", t)
             /\ Return("Find", t, "OK", FindNeighbor("Find", t), Stops)
             /\ UNCHANGED <<ring, dir, n_steps, init, InitH, outer, IgnoreStop>>
    BY <1>2, <2>1, <2>2, <2>7 DEF RingStays, ring
  <2>8. CASE LET d == IF t > T0 THEN 1 ELSE -1
             IN  NewRing("Find", t, d, FindRestartAt(t, d), Stops)
    <3>1. WayOf(op, t) = IF t > T0 THEN 1 ELSE -1
      BY <1>2 DEF WayOf
    <3>2. PlaceOf(op, t) = FindRestartAt(t, WayOf(op, t))
      BY <1>2 DEF PlaceOf
    <3>3. NewRing("Find", t, WayOf(op, t), PlaceOf(op, t), Stops)
      BY <2>8, <3>1, <3>2
    <3>4. t = T0 \/ StartOf(PlaceOf(op, t), WayOf(op, t))
      BY <2>1, <3>1, <3>2, FindRestartIs
    <3> QED BY <1>2, <2>1, <2>2, <3>3, <3>4
  <2> QED BY <2>5, <2>6, <2>7, <2>8
<1> QED BY <1>1, <1>2

\* The steps of the system, and the calls of clients together.
LEMMA NextCases ==
  ASSUME FindIgnoresStops, IInv, [Next]_vars
  PROVE  \/ UNCHANGED vars \/ IgnoreStopOn \/ IgnoreStopOff
         \/ \E dt \in Dts : Initialize(dt)
         \/ TrialStep \/ LongerStep \/ \E phase \in {"loop", "retrace"} : OneStep(phase)
         \/ RetraceEnd \/ LoopEnd
         \/ \E op \in Kinds \cup Ops, t \in Requests :
              IsIdle /\ (Answers(op, t) \/ (op = "Find" /\ Find(t)))
<1>1. ~Recalled /\ ~FindValue
  BY DEF Recalled, FindValue, IInv, CallInv
<1>2. ASSUME NEW v \in Requests, Recall(v)
      PROVE  FALSE
  BY <1>2, StopsUnknown DEF Recall, FindIgnoresStops, IInv
<1>3. ASSUME NEW v \in Requests, IsIdle, Find(v)
      PROVE  \E op \in Kinds \cup Ops, t \in Requests :
               IsIdle /\ (Answers(op, t) \/ (op = "Find" /\ Find(t)))
  BY <1>3, Zenon DEF Kinds
<1> QED BY <1>1, <1>2, <1>3, Zenon DEF Next, Calls, Loops, RetraceStep, LoopStep

\* What a restart leaves: the state asked for, or a ring of one entry and a loop.
IsSaved(op, t) ==
  /\ dir' = 0 /\ call' = Idle /\ t_last' = t /\ op \in {"Integrate", "Find"}
  /\ ans' = Answer(op, t, "OK", t, t, t, 0)
  /\ UNCHANGED <<Cache, cach0, cach1, n_steps>>

Restarts(op, t, d, at) ==
  /\ dir' = d /\ cach0' = 0 /\ cach1' = 0 /\ t_last' = t_last /\ ans' = None
  /\ n_steps' \in {0, -1} /\ StartOf(at, d)
  /\ call' = [phase |-> "loop", op |-> op, t |-> t, status |-> "ODE_BUG",
              steps |-> MaxSteps, find |-> NoValue, sync |-> call'.sync]
  /\ op \in {"Integrate", "Find"} => t \notin {T0, Initial.items[at].t}
  /\ \E e \in Entries :
       /\ Cache' = [Cache EXCEPT ![0] = e] /\ Cache'[0] = e
       /\ e.t = Initial.items[at].t /\ e.t \in Times
       /\ Short(e.h) /\ Toward(d, e.h) > 0 /\ Toward(d, e.t - T0) >= 0

LEMMA NewRingIs ==
  ASSUME IInv, ShortInv, IsIdle, init, NEW op, NEW t \in Requests, NEW d \in {-1, 1}, NEW at, NEW L,
         (op \in {"Integrate", "Find"} /\ t = T0) \/ StartOf(at, d), NewRing(op, t, d, at, L)
  PROVE  /\ UNCHANGED <<init, IgnoreStop, cache>> /\ Stops' = L
         /\ IsSaved(op, t) \/ Restarts(op, t, d, at)
<1>1. PICK s : s = Initial.items[at]
  OBVIOUS
<1>2. PICK H : H = IF InitH = 0
                   THEN Lesser(MaxStep, IF Abs(t - T0) < 2 THEN 1 ELSE Abs(t - T0) \div 2)
                   ELSE InitH
  OBVIOUS
<1>3. H \in Nat \ {0} /\ H <= MaxStep
  <2>1. t - T0 \in Int /\ Abs(t - T0) \in Nat
    BY TimesAre DEF Abs
  <2>2. Abs(t - T0) >= 2 => Abs(t - T0) \div 2 \in Nat \ {0}
    BY <2>1
  <2>3. InitH \in Nat /\ InitH <= MaxStep
    BY DEF IInv, RingInv, ShortInv
  <2> QED BY <1>2, <2>1, <2>2, <2>3, TimesAre DEF Lesser
<1>4. Finished(op, "OK") = Idle /\ call.find = NoValue
  BY DEF Finished, IInv, CallInv
<1>5. \/ /\ op \in {"Integrate", "Find"} /\ dir' = 0 /\ call' = Finished(op, "OK") /\ t_last' = t
         /\ Stops' = L /\ ans' = Answer(op, t, "OK", t, t, t, 0)
         /\ UNCHANGED <<Cache, cach0, cach1, n_steps>>
      \/ /\ op \in {"Integrate", "Find"} => t \notin {T0, s.t}
         /\ dir' = d /\ n_steps' \in {0, -1}
         /\ Cache' = [Cache EXCEPT ![0] = IF s.t = T0 THEN [First EXCEPT !.h = d * H] ELSE s]
         /\ cach0' = 0 /\ cach1' = 0 /\ t_last' = t_last
         /\ BeginLoop("loop", op, t, L)
  <2>1. StepsFrom(at, d) \in {0, -1}
    BY DEF StepsFrom
  <2> QED BY <1>1, <1>2, <2>1, Zenon DEF NewRing, ring
<1>6. UNCHANGED <<init, IgnoreStop, cache>>
  BY DEF NewRing, StepsFrom
<1>7. CASE /\ op \in {"Integrate", "Find"} /\ dir' = 0 /\ call' = Finished(op, "OK") /\ t_last' = t
           /\ Stops' = L /\ ans' = Answer(op, t, "OK", t, t, t, 0)
           /\ UNCHANGED <<Cache, cach0, cach1, n_steps>>
  BY <1>4, <1>6, <1>7 DEF IsSaved
<1>8. CASE /\ op \in {"Integrate", "Find"} => t \notin {T0, s.t}
           /\ dir' = d /\ n_steps' \in {0, -1}
           /\ Cache' = [Cache EXCEPT ![0] = IF s.t = T0 THEN [First EXCEPT !.h = d * H] ELSE s]
           /\ cach0' = 0 /\ cach1' = 0 /\ t_last' = t_last
           /\ BeginLoop("loop", op, t, L)
  <2>1. StartOf(at, d)
    BY <1>8
  <2>2. PICK e : e = IF s.t = T0 THEN [First EXCEPT !.h = d * H] ELSE s
    OBVIOUS
  <2>3. s \in Entries /\ Short(s.h)
    <3>1. at \in 2 .. Len(Initial.items) - 1 /\ OuterOf(Initial)
      BY <2>1 DEF StartOf, IInv, CallInv
    <3>2. at \in 1 .. Len(Initial.items) /\ Initial.items \in Seq(Entries)
      BY <3>1 DEF OuterOf
    <3> QED BY <1>1, <3>1, <3>2, EntriesAre DEF ShortInv
  <2>4. /\ e \in Entries /\ e.t = s.t /\ e.t \in Times /\ Toward(d, e.t - T0) >= 0
        /\ Short(e.h) /\ Toward(d, e.h) > 0
    <3>1. CASE s.t = T0
      <4>1. d * H \in Int /\ Toward(d, d * H) > 0 /\ Short(d * H)
        BY <1>3, TimesAre DEF Toward, Short
      <4>2. e \in Entries /\ e.t = T0 /\ e.h = d * H
        BY <2>2, <3>1, <4>1, StartsAre DEF Entries, First
      <4> QED BY <3>1, <4>1, <4>2, TimesAre DEF Times, Toward
    <3>2. CASE s.t # T0
      BY <1>1, <2>1, <2>2, <2>3, <3>2 DEF StartOf
    <3> QED BY <3>1, <3>2
  <2>5. Cache' = [Cache EXCEPT ![0] = e] /\ Cache'[0] = e
    BY <1>8, <2>2, StartsAre DEF IInv, RingInv
  <2>6. /\ call' = [phase |-> "loop", op |-> op, t |-> t, status |-> "ODE_BUG",
                    steps |-> MaxSteps, find |-> NoValue, sync |-> call'.sync]
        /\ Stops' = L /\ ans' = None
    BY <1>4, <1>8 DEF BeginLoop
  <2>7. t_last' = t_last /\ n_steps' \in {0, -1} /\ dir' = d /\ cach0' = 0 /\ cach1' = 0
        /\ (op \in {"Integrate", "Find"} => t \notin {T0, Initial.items[at].t})
    BY <1>1, <1>8
  <2>8. e.t = Initial.items[at].t
    BY <1>1, <2>4
  <2>9. Restarts(op, t, d, at)
    BY <2>1, <2>4, <2>5, <2>6, <2>7, <2>8, Zenon DEF Restarts
  <2> QED BY <1>6, <2>6, <2>9
<1> QED BY <1>5, <1>7, <1>8

\* What is in the slots, in n_steps and in the outer cache.
Fits(e) == e.t \in Times \cup {Inf} /\ e.h \in -MaxStep .. MaxStep \cup Dts

\* The steps are counted up to the next state that is saved, unless a stop condition
\* that is not finite may prevent that.
Capped == CacheStep > 0 /\ (NeverStop \/ BadStops = {})

EntryInv ==
  /\ \A i \in Slots : Fits(Cache[i])
  /\ n_steps \in -1 .. IF Capped THEN CacheStep - 1 ELSE n_steps
  /\ IsCursorList(Initial)

LEMMA ShortFits ==
  ASSUME NEW h \in Int, Short(h)
  PROVE  h \in -MaxStep .. MaxStep
BY TimesAre DEF Short

LEMMA EntryStays ==
  ASSUME EntryInv, UNCHANGED <<Cache, n_steps>>, IsCursorList(Initial')
  PROVE  EntryInv'
BY DEF EntryInv, Fits

\* One slot is written.
LEMMA SlotWritten ==
  ASSUME NEW C \in [Slots -> Entries], \A i \in Slots : Fits(C[i]), NEW e, Fits(e),
         NEW D, D = [C EXCEPT ![0] = e]
  PROVE  \A i \in Slots : Fits(D[i])
BY StartsAre

LEMMA StepsCounted ==
  ASSUME EntryInv, NEW t_request, NEW ignore, NEW r \in Step(t_request, ignore), n_steps' = r.n_steps
  PROVE  n_steps' \in -1 .. IF Capped THEN CacheStep - 1 ELSE n_steps'
<1>1. CASE n_steps' = n_steps \/ n_steps' = IF Saves THEN 0 ELSE IF n_steps >= 0 THEN n_steps + 1 ELSE n_steps
  <2>1. CacheStep \in Int /\ n_steps \in Int /\ n_steps >= -1 /\ (Capped => n_steps <= CacheStep - 1)
    BY ODEAssumption DEF EntryInv
  <2>2. n_steps' \in Int /\ n_steps' >= -1 /\ (Capped => n_steps' <= CacheStep - 1)
    BY <1>1, <2>1 DEF Saves, Capped
  <2> QED BY <2>1, <2>2
<1>2. CASE Strays(r)
  <2>1. ~Capped /\ n_steps' = n_steps + 1 /\ n_steps \in Nat
    BY <1>2 DEF Strays, Capped, EntryInv
  <2> QED BY <2>1
<1>3. Stands(r) \/ Fails(r) \/ Moves(r) =>
        n_steps' = n_steps \/ n_steps' = IF Saves THEN 0 ELSE IF n_steps >= 0 THEN n_steps + 1 ELSE n_steps
  BY DEF Stands, Fails, Moves
<1> QED BY <1>1, <1>2, <1>3, StepGoes

LEMMA SteppedEntries ==
  ASSUME IInv, EntryInv, dir \in {-1, 1}, NEW t_request, NEW ignore,
         NEW r \in Step(t_request, ignore)
  PROVE  r.Cache \in [Slots -> Entries] /\ \A i \in Slots : Fits(r.Cache[i])
<1>1. r.Cache \in [Slots -> Entries]
  BY StepRing DEF IInv
<1>2. ASSUME NEW i \in Slots
      PROVE  Fits(r.Cache[i])
  <2>1. Fits(Cache[i])
    BY DEF EntryInv
  <2>2. r.Cache[i].h \in Int
    BY <1>1 DEF Entries
  <2>3. /\ r.Cache[i].t = Cache[i].t \/ r.Cache[i].t \in Times
        /\ r.Cache[i].h = Cache[i].h \/ Short(r.Cache[i].h)
    BY StepEntries DEF IInv
  <2> QED BY <2>1, <2>2, <2>3, ShortFits DEF Fits
<1> QED BY <1>1, <1>2

LEMMA OuterList == ASSUME NEW L, OuterOf(L) PROVE IsCursorList(L)
BY DEF OuterOf, IsCursorList

LEMMA EntryKept ==
  ASSUME FindIgnoresStops, IInv, ShortInv, EntryInv, [Next]_vars
  PROVE  EntryInv'
<1>1. IInv'
  BY NextKeeps
<1>2. init' \/ Running' => IsCursorList(Initial')
  BY <1>1, OuterList DEF IInv, CallInv
<1>3. CASE UNCHANGED <<Cache, n_steps, Initial>>
  BY <1>3, EntryStays DEF EntryInv, IsCursorList
<1>4. CASE IgnoreStopOn \/ IgnoreStopOff \/ UNCHANGED vars
  BY <1>3, <1>4 DEF IgnoreStopOn, IgnoreStopOff, vars, ring, outer
<1>5. ASSUME NEW dt \in Dts, Initialize(dt)
      PROVE  EntryInv'
  <2>1. init' \/ Running'
    BY <1>5 DEF Initialize, Running, Idle
  <2>2. n_steps' \in -1 .. IF Capped THEN CacheStep - 1 ELSE n_steps'
    BY <1>5, ODEAssumption DEF Initialize, Capped
  <2>3. Cache' = Cache \/ Cache' = [Cache EXCEPT ![0] = [First EXCEPT !.h = dt]]
    BY <1>5 DEF Initialize, ring
  <2>4. Fits([First EXCEPT !.h = dt])
    BY TimesAre DEF Fits, First, Times
  <2>5. \A i \in Slots : Fits(Cache'[i])
    <3>1. Cache \in [Slots -> Entries] /\ \A i \in Slots : Fits(Cache[i])
      BY DEF IInv, RingInv, EntryInv
    <3> QED BY <2>3, <2>4, <3>1, SlotWritten
  <2> QED BY <1>2, <2>1, <2>2, <2>5 DEF EntryInv, Fits
<1>6. ASSUME NEW t_request, NEW ignore, NEW r \in Step(t_request, ignore), Stepped(r), dir \in {-1, 1},
             OuterOf(Initial)
      PROVE  EntryInv'
  <2>1. Cache' = r.Cache /\ n_steps' = r.n_steps /\ Initial' = r.Initial
    BY <1>6 DEF Stepped
  <2>2. OuterOf(Initial')
    BY <1>6, <2>1, StepOuter DEF IInv
  <2>3. \A i \in Slots : Fits(Cache'[i])
    BY <1>6, <2>1, SteppedEntries
  <2>4. n_steps' \in -1 .. IF Capped THEN CacheStep - 1 ELSE n_steps'
    BY <1>6, <2>1, StepsCounted
  <2> QED BY <2>2, <2>3, <2>4, OuterList DEF EntryInv, Fits
<1>7. CASE TrialStep
  <2>1. dir \in {-1, 1} /\ OuterOf(Initial)
    BY <1>7 DEF TrialStep, IInv, CallInv, Running
  <2>2. PICK r \in Step(call.t, IgnoreStop) : Stepped(r)
    BY <1>7, Zenon DEF TrialStep
  <2> QED BY <1>6, <2>1, <2>2
<1>8. CASE LongerStep
  <2>1. PICK r \in Step(call.t, IgnoreStop) : TriesHalf(r) \/ TakesLength(r)
    BY <1>8, LongerGoes
  <2>2. /\ dir \in {-1, 1} /\ OuterOf(Initial) /\ call.phase = "longer"
        /\ call.steps \in Nat \ {0} /\ InitH \in Nat \ {0}
    BY <1>8, LongerGoes
  <2>3. CASE TriesHalf(r)
    BY <1>6, <2>2, <2>3 DEF TriesHalf
  <2>4. CASE TakesLength(r)
    <3>1. PICK H : H = InitH'
      OBVIOUS
    <3>2. H \in Nat /\ H <= MaxStep /\ init'
      BY <2>2, <2>4, <3>1 DEF TakesLength, Initialized, ShortInv
    <3>3. Cache' = [r.Cache EXCEPT ![0].h = dir * H] /\ n_steps' = r.n_steps
      <4>1. /\ Cache' = [r EXCEPT !.Cache[0].h = dir * H].Cache
            /\ n_steps' = [r EXCEPT !.Cache[0].h = dir * H].n_steps
        BY <2>4, <3>1 DEF TakesLength, Stepped
      <4>2. {"Cache", "n_steps", "Initial"} \subseteq DOMAIN r
        BY StepGoes
      <4> QED BY <4>1, <4>2
    <3>4. dir * H \in -MaxStep .. MaxStep
      BY <2>2, <3>2, TimesAre
    <3>5. r.Cache \in [Slots -> Entries] /\ \A i \in Slots : Fits(r.Cache[i])
      BY <2>2, SteppedEntries
    <3>6. PICK e : e = [r.Cache[0] EXCEPT !.h = dir * H]
      OBVIOUS
    <3>7. Cache' = [r.Cache EXCEPT ![0] = e]
      BY <3>3, <3>6
    <3>8. Fits(e)
      <4>1. r.Cache[0] \in Entries /\ Fits(r.Cache[0])
        BY <3>5, StartsAre
      <4>2. e.t = r.Cache[0].t /\ e.h = dir * H
        BY <3>6, <4>1 DEF Entries
      <4> QED BY <3>4, <4>1, <4>2 DEF Fits
    <3>9. \A i \in Slots : Fits(Cache'[i])
      BY <3>5, <3>7, <3>8, SlotWritten
    <3>10. n_steps' \in -1 .. IF Capped THEN CacheStep - 1 ELSE n_steps'
      BY <3>3, StepsCounted
    <3> QED BY <1>2, <3>2, <3>9, <3>10 DEF EntryInv, Fits
  <2> QED BY <2>1, <2>3, <2>4
<1>9. ASSUME NEW phase \in {"loop", "retrace"}, OneStep(phase)
      PROVE  EntryInv'
  <2>1. dir \in {-1, 1} /\ OuterOf(Initial)
    BY <1>9 DEF OneStep, Steps, IInv, CallInv, Running
  <2>2. PICK r \in Step(StepTo, ~HeedsStops) : Stepped(r)
    BY <1>9, Zenon DEF OneStep
  <2> QED BY <1>6, <2>1, <2>2
<1>10. CASE RetraceEnd
  <2>1. n_steps' \in -1 .. IF Capped THEN CacheStep - 1 ELSE n_steps'
    BY <1>10, ODEAssumption DEF RetraceEnd, Capped
  <2>2. Running'
    <3>1. call = [phase |-> call.phase, op |-> call.op, t |-> call.t, status |-> call.status,
                  steps |-> call.steps, find |-> NoValue, sync |-> call.sync]
      BY DEF IInv, CallInv
    <3> QED BY <1>10, <3>1 DEF RetraceEnd, Running
  <2>3. Cache' = Cache
    BY <1>10 DEF RetraceEnd, ring
  <2> QED BY <1>2, <2>1, <2>2, <2>3 DEF EntryInv, Fits
<1>11. CASE LoopEnd
  BY <1>3, <1>11 DEF LoopEnd, ring, outer
<1>12. ASSUME NEW op, NEW t \in Requests, IsIdle, Answers(op, t) \/ (op = "Find" /\ Find(t))
       PROVE  EntryInv'
  <2>1. CASE UNCHANGED <<Cache, n_steps, outer>>
    BY <1>3, <2>1 DEF outer
  <2>2. CASE StopAtKnown(op, t)
    BY <2>1, <2>2 DEF StopAtKnown, ring
  <2>3. CASE KeepRing(op, t)
    <3>1. n_steps' = -1 /\ Cache' = Cache /\ init'
      BY <2>3 DEF KeepRing, Asked, ring
    <3>2. n_steps' \in -1 .. IF Capped THEN CacheStep - 1 ELSE n_steps'
      BY <3>1, ODEAssumption DEF Capped
    <3> QED BY <1>2, <3>1, <3>2 DEF EntryInv, Fits
  <2>4. ASSUME init, (op \in {"Integrate", "Find"} /\ t = T0) \/ StartOf(PlaceOf(op, t), WayOf(op, t)),
               NewRing(op, t, WayOf(op, t), PlaceOf(op, t), ListAt(op, t))
        PROVE  EntryInv'
    <3>1. WayOf(op, t) \in {-1, 1}
      BY DEF WayOf
    <3>2. /\ init' = init
          /\ \/ UNCHANGED <<Cache, n_steps>>
             \/ n_steps' \in {0, -1} /\ \E e \in Entries : /\ Cache' = [Cache EXCEPT ![0] = e]
                                                           /\ e.t \in Times /\ Short(e.h)
      BY <1>12, <2>4, <3>1, NewRingIs DEF IsSaved, Restarts
    <3>3. \A i \in Slots : Fits(Cache'[i])
      <4>1. Cache \in [Slots -> Entries] /\ \A i \in Slots : Fits(Cache[i])
        BY DEF IInv, RingInv, EntryInv
      <4>2. ASSUME NEW e \in Entries, e.t \in Times, Short(e.h)
            PROVE  Fits(e)
        BY <4>2, ShortFits DEF Fits, Entries
      <4> QED BY <3>2, <4>1, <4>2, SlotWritten
    <3>4. n_steps' \in -1 .. IF Capped THEN CacheStep - 1 ELSE n_steps'
      BY <3>2, ODEAssumption DEF EntryInv, Capped
    <3> QED BY <1>2, <2>4, <3>2, <3>3, <3>4 DEF EntryInv, Fits
  <2> QED BY <1>12, <2>1, <2>2, <2>3, <2>4, CallGoes DEF RingStays
<1> QED BY <1>4, <1>5, <1>7, <1>8, <1>9, <1>10, <1>11, <1>12, NextCases

-----------------------------------------------------------------------------
(* Which entry an answer is read on.                                         *)

\* A slot of the ring but the first ends a step that begins in the slot before it.
LEMMA SpanIs ==
  ASSUME RingInv, dir \in {-1, 1}, NEW c \in Slots, InRing(c, cach0, cach1), c # cach0
  PROVE  LET p == PrevCache(c)
         IN  /\ p \in Slots /\ InRing(p, cach0, cach1)
             /\ Cache[p].t \in Times /\ Cache[c].t \in Times
             /\ Cache[p].t + Cache[p].h = Cache[c].t /\ dir * Cache[p].t < dir * Cache[c].t
<1>1. PICK p : p = PrevCache(c)
  OBVIOUS
<1>2. cach0 \in Slots /\ cach1 \in Slots
  BY DEF RingInv, RingOf
<1>3. p \in Slots /\ InRing(p, cach0, cach1) /\ p # cach1 /\ NextCache(p) = c
  BY <1>1, <1>2, PrevSlot, RingBack
<1>4. /\ Cache[p].t \in Times /\ Cache[c].t \in Times /\ Toward(dir, Cache[p].h) > 0
      /\ Cache[p].t + Cache[p].h = Cache[c].t
  BY <1>3 DEF RingInv, RingOf
<1>5. Cache[p].h \in Int
  BY <1>3 DEF RingInv, Entries
<1>6. Cache[p].t \in Int /\ Cache[c].t \in Int
  BY <1>4, TimesAre
<1>7. dir * Cache[p].t < dir * Cache[c].t
  BY <1>4, <1>5, <1>6 DEF Toward
<1> QED BY <1>1, <1>3, <1>4, <1>7

\* The entry used last lies in the ring; a loop runs for a client's call, and the step
\* that it took last began before the answer.
UseInv ==
  /\ init \in BOOLEAN
  /\ cach0 \in Slots \cup {-1} /\ cach1 \in Slots \cup {-1} /\ cache \in Slots \cup {-1}
  /\ init /\ IsIdle /\ dir # 0 =>
       cache \in Slots /\ (cach0 # cach1 => InRing(cache, cach0, cach1))
  /\ call.phase \in {"trial", "longer"} => ~init
  /\ call.phase \in {"loop", "retrace"} => init /\ call.op \in Kinds /\ call.t \in Requests
  /\ call.phase = "loop" /\ call.status = "OK" =>
       cach0 # cach1 /\ Before(call.op, call.t, Cache[PrevCache(cach1)].t)

\* The entry that an answer within the ring is read on.
LEMMA WithinIs ==
  ASSUME RingInv, UseInv, init, IsIdle, dir \in {-1, 1}, NEW op, NEW t \in Requests, Covers(op, t)
  PROVE  /\ FindNeighbor(op, t) \in Slots
         /\ cach0 # cach1 => Brackets(FindNeighbor(op, t), op, t)
         /\ op \in {"Forward", "Backward"} => cach0 # cach1
<1>1. /\ cach0 \in Slots /\ cach1 \in Slots /\ cache \in Slots /\ t \in Int
      /\ cach0 # cach1 => InRing(cache, cach0, cach1)
  BY TimesAre DEF UseInv, RingInv, RingOf
<1>2. CASE cach0 # cach1
  BY <1>1, <1>2, NeighborIs DEF Brackets
<1>3. CASE cach0 = cach1
  <2>1. PICK u : u = dir * Cache[cach1].t
    OBVIOUS
  <2>2. Cache[cach1].t \in Int /\ u \in Int /\ dir * t \in Int
    BY <1>1, <2>1 DEF RingInv, Entries
  <2>3. op \in {"Integrate", "Find"}
    BY <1>3, <2>1, <2>2 DEF Covers, Past
  <2>4. Begin \in Slots
    BY <1>1, NextSlot DEF Begin
  <2>5. /\ FindNeighbor(op, t) = BracketAt(NearOf(t, UpFrom(t), DownFrom(t)), op, t)
        /\ UpFrom(t) \in Slots /\ DownFrom(t) \in Slots
    BY <1>1, <2>4, NeighborLoops DEF UpTo, DownTo
  <2>6. FindNeighbor(op, t) \in {cach1, Begin, UpFrom(t), DownFrom(t)}
    BY <2>3, <2>5 DEF BracketAt, NearOf, Past
  <2> QED BY <1>1, <1>3, <2>3, <2>4, <2>5, <2>6
<1> QED BY <1>2, <1>3

\* A call has ended, with its answer on c, or it has begun a loop in a ring that stays
\* or in a new one.
LEMMA UseEnds ==
  ASSUME call' = Idle, init' = init, init, cache' \in Slots, cach0' \in Slots, cach1' \in Slots,
         cach0' # cach1' => InRing(cache', cach0', cach1')
  PROVE  UseInv'
BY DEF UseInv, Idle, IsIdle

LEMMA UseBegins ==
  ASSUME UseInv, init, init' = init, cache' = cache, cach0' \in Slots, cach1' \in Slots,
         NEW op \in Kinds, NEW t \in Requests,
         call'.phase \in {"loop", "retrace"}, call'.op = op, call'.t = t, call'.status = "ODE_BUG"
  PROVE  UseInv'
BY DEF UseInv, IsIdle

LEMMA RingEnds ==
  ASSUME RingInv, dir # 0
  PROVE  cach0 \in Slots /\ cach1 \in Slots /\ InRing(cach1, cach0, cach1)
BY RingShift DEF RingInv, RingOf

\* What a loop that begins, or a call that ends, makes of call.
LEMMA CallBecomes ==
  ASSUME CallInv, NEW op, NEW t, NEW L
  PROVE  /\ \A phase : BeginLoop(phase, op, t, L) =>
               /\ call' = [phase |-> phase, op |-> op, t |-> t, status |-> "ODE_BUG",
                           steps |-> MaxSteps, find |-> NoValue, sync |-> call'.sync]
               /\ Stops' = L /\ ans' = None
         /\ \A status, c : Return(op, t, status, c, L) => call' = Idle /\ cache' = c
         /\ \A status : Finished(op, status) = Idle
<1>1. call.find = NoValue
  BY DEF CallInv
<1> QED BY <1>1 DEF BeginLoop, Return, Finished

LEMMA UseKept ==
  ASSUME FindIgnoresStops, IInv, ShortInv, UseInv, [Next]_vars
  PROVE  UseInv'
<1>1. CASE UNCHANGED vars \/ IgnoreStopOn \/ IgnoreStopOff
  <2>1. UNCHANGED <<init, Cache, cach0, cach1, cache, dir, call>>
    BY <1>1 DEF vars, ring, IgnoreStopOn, IgnoreStopOff
  <2> QED BY <2>1 DEF UseInv, IsIdle, Before, Past
<1>2. ASSUME NEW dt \in Dts, Initialize(dt)
      PROVE  UseInv'
  <2>1. CASE dt = 0
    <3>1. init' = TRUE /\ dir' = 0 /\ UNCHANGED <<cach0, cach1, cache, call>> /\ call.phase = "idle"
      BY <1>2, <2>1 DEF Initialize, ring, IsIdle
    <3> QED BY <3>1 DEF UseInv, IsIdle
  <2>2. CASE dt # 0
    <3>1. /\ init' = FALSE /\ cach0' = 0 /\ cach1' = 0 /\ cache' = cache
          /\ call' = [Idle EXCEPT !.phase = "trial", !.t = T0 + dt]
      BY <1>2, <2>2 DEF Initialize
    <3>2. call'.phase = "trial"
      BY <3>1 DEF Idle
    <3> QED BY <3>1, <3>2, StartsAre DEF UseInv, IsIdle
  <2> QED BY <2>1, <2>2
<1>3. CASE TrialStep
  <2>1. dir \in {-1, 1} /\ ~init
    BY <1>3 DEF TrialStep, IInv, CallInv, Running, UseInv
  <2>2. PICK r \in Step(call.t, IgnoreStop) :
          \/ /\ cach0' = r.cach0 /\ cach1' = r.cach1 /\ call' = Idle
             /\ UNCHANGED <<cache, init>>
          \/ Initialized(r.cach0, r.cach1, r.Stops)
          \/ /\ cach0' = r.cach0 /\ cach1' = r.cach1
             /\ call' = [call EXCEPT !.phase = "longer", !.t = T0 + dir * InitH',
                                     !.steps = Abs(r.Cache[0].h)]
             /\ UNCHANGED <<cache, init>>
    BY <1>3, Zenon DEF TrialStep
  <2>3. r.cach0 \in Slots /\ r.cach1 \in Slots
    BY <2>1, StepEntries DEF IInv
  <2>4. CASE cach0' = r.cach0 /\ cach1' = r.cach1 /\ call' = Idle /\ UNCHANGED <<cache, init>>
    BY <2>1, <2>3, <2>4 DEF UseInv, Idle, IsIdle
  <2>5. CASE Initialized(r.cach0, r.cach1, r.Stops)
    <3>1. InRing(r.cach1, r.cach0, r.cach1)
      BY <2>3, RingShift
    <3> QED BY <2>3, <2>5, <3>1 DEF Initialized, UseInv, Idle, IsIdle
  <2>6. CASE /\ cach0' = r.cach0 /\ cach1' = r.cach1
             /\ call' = [call EXCEPT !.phase = "longer", !.t = T0 + dir * InitH',
                                     !.steps = Abs(r.Cache[0].h)]
             /\ UNCHANGED <<cache, init>>
    <3>1. call'.phase = "longer"
      BY <2>6 DEF IInv, CallInv
    <3> QED BY <2>1, <2>3, <2>6, <3>1 DEF UseInv, IsIdle
  <2> QED BY <2>2, <2>4, <2>5, <2>6
<1>4. CASE LongerStep
  <2>1. PICK r \in Step(call.t, IgnoreStop) : TriesHalf(r) \/ TakesLength(r)
    BY <1>4, LongerGoes
  <2>2. CASE TriesHalf(r)
    <3>1. dir \in {-1, 1} /\ ~init /\ call.phase = "longer"
      BY <1>4, LongerGoes DEF UseInv
    <3>2. r.cach0 \in Slots /\ r.cach1 \in Slots
      BY <3>1, StepEntries DEF IInv
    <3>3. call'.phase = "longer" /\ cach0' = r.cach0 /\ cach1' = r.cach1 /\ UNCHANGED <<cache, init>>
      BY <2>2, <3>1 DEF TriesHalf, IInv, CallInv
    <3> QED BY <3>1, <3>2, <3>3 DEF UseInv, IsIdle
  <2>3. CASE TakesLength(r)
    BY <2>3, StartsAre DEF TakesLength, Initialized, UseInv, Idle, IsIdle
  <2> QED BY <2>1, <2>2, <2>3
<1>5. ASSUME NEW phase \in {"loop", "retrace"}, OneStep(phase)
      PROVE  UseInv'
  <2>1. dir \in {-1, 1} /\ init /\ call.op \in Kinds /\ call.t \in Requests /\ call.phase = phase
    BY <1>5 DEF OneStep, Steps, IInv, CallInv, Running, UseInv
  <2>2. PICK r \in Step(StepTo, ~HeedsStops) :
          /\ Cache' = r.Cache /\ cach0' = r.cach0 /\ cach1' = r.cach1
          /\ call' = [call EXCEPT !.status = r.status, !.steps = @ - 1]
    BY <1>5, Zenon DEF OneStep, Stepped
  <2>3. Before(call.op, Goal, Cache[cach1].t) /\ UNCHANGED <<cache, dir, init>>
    BY <1>5 DEF OneStep, Steps
  <2>4. /\ r.cach0 \in Slots /\ r.cach1 \in Slots
        /\ r.status = "OK" => /\ r.cach0 # r.cach1 /\ PrevCache(r.cach1) = cach1
                              /\ r.Cache[cach1].t = Cache[cach1].t
    BY <2>1, StepEntries DEF IInv
  <2>5. call'.phase = phase /\ call'.op = call.op /\ call'.t = call.t /\ call'.status = r.status
    BY <2>1, <2>2 DEF IInv, CallInv
  <2>6. phase = "loop" /\ r.status = "OK" =>
          cach0' # cach1' /\ Before(call.op, call.t, Cache[cach1].t)
          /\ Cache'[PrevCache(cach1')].t = Cache[cach1].t
    BY <2>1, <2>2, <2>3, <2>4 DEF Goal
  <2>7. call'.phase = "loop" /\ call'.status = "OK" =>
          cach0' # cach1' /\ Before(call.op, call.t, Cache[PrevCache(cach1)].t)'
    BY <2>2, <2>3, <2>5, <2>6 DEF Before, Past
  <2> QED BY <2>1, <2>2, <2>3, <2>4, <2>5, <2>7 DEF UseInv, IsIdle
<1>6. CASE RetraceEnd
  <2>1. call.phase = "retrace" /\ dir \in {-1, 1}
    BY <1>6 DEF RetraceEnd, IInv, CallInv, Running
  <2>2. UNCHANGED <<cach0, cach1, cache, init>>
    BY <1>6 DEF RetraceEnd, ring
  <2>3. call'.phase = "loop" /\ call'.op = call.op /\ call'.t = call.t /\ call'.status = "ODE_BUG"
    BY <1>6 DEF RetraceEnd, IInv, CallInv
  <2> QED BY <2>1, <2>2, <2>3, RingEnds, UseBegins DEF IInv, UseInv
<1>7. CASE LoopEnd
  <2>1. call.phase = "loop" /\ dir \in {-1, 1} /\ init
    BY <1>7 DEF LoopEnd, IInv, CallInv, Running, UseInv
  <2>2. UNCHANGED <<cach0, cach1, init>>
    BY <1>7 DEF LoopEnd, ring
  <2>3. call' = Idle /\ cache' = cach1
    BY <1>7, CallBecomes DEF LoopEnd, IInv
  <2> QED BY <2>1, <2>2, <2>3, RingEnds, UseEnds DEF IInv
<1>8. ASSUME NEW op, NEW t \in Requests, IsIdle, Answers(op, t) \/ (op = "Find" /\ Find(t))
      PROVE  UseInv'
  <2>1. init /\ op \in Kinds /\ Finished(op, "OK") = Idle
    BY <1>8, CallGoes
  <2>2. CASE StopAtKnown(op, t)
    <3>1. call' = Finished(op, "STOP_CONDITION")
          /\ UNCHANGED <<init, Cache, cach0, cach1, cache, dir>>
      BY <2>2 DEF StopAtKnown, ring
    <3>2. call' = Idle /\ call.phase = "idle"
      BY <1>8, <3>1, CallBecomes DEF IInv, IsIdle
    <3> QED BY <3>1, <3>2 DEF UseInv, Idle, IsIdle
  <2>3. CASE /\ dir # 0 /\ BeginLoop("loop", op, t, ListAt(op, t))
             /\ RingStays /\ UNCHANGED <<cache, t_last, outer>>
    <3>1. /\ call'.phase = "loop" /\ call'.op = op /\ call'.t = t /\ call'.status = "ODE_BUG"
          /\ UNCHANGED <<init, cach0, cach1, cache>>
      <4>1. CallInv
        BY DEF IInv
      <4>2. call' = [phase |-> "loop", op |-> op, t |-> t, status |-> "ODE_BUG",
                     steps |-> MaxSteps, find |-> NoValue, sync |-> call'.sync]
        BY <2>3, <4>1, CallBecomes
      <4> QED BY <2>3, <4>2 DEF RingStays
    <3> QED BY <2>1, <2>3, <3>1, RingEnds, UseBegins DEF IInv
  <2>4. CASE /\ dir # 0 /\ Covers(op, t) /\ Return(op, t, "OK", FindNeighbor(op, t), ListAt(op, t))
             /\ RingStays
    <3>1. call' = Idle /\ cache' = FindNeighbor(op, t) /\ UNCHANGED <<init, cach0, cach1>>
      BY <2>4, CallBecomes DEF IInv, RingStays
    <3>2. dir \in {-1, 1}
      BY <2>4 DEF IInv, RingInv
    <3>3. /\ FindNeighbor(op, t) \in Slots
          /\ cach0 # cach1 => InRing(FindNeighbor(op, t), cach0, cach1)
      BY <1>8, <2>1, <2>4, <3>2, WithinIs DEF IInv, Brackets
    <3> QED BY <2>1, <2>4, <3>1, <3>3, RingEnds, UseEnds DEF IInv
  <2>5. CASE KeepRing(op, t)
    <3>1. dir # 0 /\ UNCHANGED <<init, cach0, cach1, cache>>
      BY <2>5 DEF KeepRing, ring
    <3>2. PICK phase \in {"loop", "retrace"} : BeginLoop(phase, op, t, StopAhead(op, t).list)
      BY <2>5 DEF KeepRing
    <3>3. call' = [phase |-> phase, op |-> op, t |-> t, status |-> "ODE_BUG",
                   steps |-> MaxSteps, find |-> NoValue, sync |-> call'.sync]
      BY <3>2, CallBecomes DEF IInv
    <3> QED BY <2>1, <3>1, <3>3, RingEnds, UseBegins DEF IInv
  <2>6. CASE /\ (op \in {"Integrate", "Find"} /\ t = T0) \/ StartOf(PlaceOf(op, t), WayOf(op, t))
             /\ NewRing(op, t, WayOf(op, t), PlaceOf(op, t), ListAt(op, t))
    <3>1. WayOf(op, t) \in {-1, 1}
      BY DEF WayOf
    <3>2. /\ UNCHANGED <<init, cache>>
          /\ \/ dir' = 0 /\ call' = Idle /\ UNCHANGED <<cach0, cach1>>
             \/ /\ cach0' = 0 /\ cach1' = 0
                /\ call' = [phase |-> "loop", op |-> op, t |-> t, status |-> "ODE_BUG",
                            steps |-> MaxSteps, find |-> NoValue, sync |-> call'.sync]
      <4>1. /\ UNCHANGED <<init, IgnoreStop, cache>>
            /\ IsSaved(op, t) \/ Restarts(op, t, WayOf(op, t), PlaceOf(op, t))
        BY <1>8, <2>1, <2>6, <3>1, NewRingIs
      <4> QED BY <4>1 DEF IsSaved, Restarts
    <3>3. CASE dir' = 0 /\ call' = Idle /\ UNCHANGED <<cach0, cach1>>
      BY <2>1, <3>2, <3>3 DEF UseInv, Idle, IsIdle
    <3>4. CASE /\ cach0' = 0 /\ cach1' = 0
               /\ call' = [phase |-> "loop", op |-> op, t |-> t, status |-> "ODE_BUG",
                           steps |-> MaxSteps, find |-> NoValue, sync |-> call'.sync]
      BY <2>1, <3>2, <3>4, StartsAre, UseBegins
    <3> QED BY <3>2, <3>3, <3>4
  <2> QED BY <1>8, <2>2, <2>3, <2>4, <2>5, <2>6, CallGoes
<1> QED BY <1>1, <1>2, <1>3, <1>4, <1>5, <1>6, <1>7, <1>8, NextCases

-----------------------------------------------------------------------------
(* Natural stops.                                                            *)

\* The step that ends at c holds t, and not at the end that (op, t) may not return.
NaturalOn(c, op, t) ==
  LET lo == dir * Cache[PrevCache(c)].t
      hi == dir * Cache[c].t
  IN  /\ lo <= dir * t /\ dir * t <= hi
      /\ Past(op) => dir * t < hi
      /\ NCache = 2 /\ ~Past(op) => lo < dir * t

\* The natural stop is not before the time of Forward, not after that of Backward, and
\* where the step that ends or begins there is the next one of the operation's own
\* direction, or the ring has two entries, it is not at that time either.
NaturalNear ==
  /\ Answered("Forward") => /\ ans.at \in {ans.lo, ans.hi} /\ ans.t <= ans.at
                            /\ Lesser(ans.lo, ans.hi) <= ans.t
                            /\ NCache = 2 \/ ans.lo < ans.hi => ans.t < ans.at
  /\ Answered("Backward") => /\ ans.at \in {ans.lo, ans.hi} /\ ans.at <= ans.t
                             /\ ans.t <= (IF ans.lo < ans.hi THEN ans.hi ELSE ans.lo)
                             /\ NCache = 2 \/ ans.hi < ans.lo => ans.at < ans.t

LEMMA NaturalElse ==
  ASSUME NaturalNear, ans' \in {None, ans} \/ ans'.op \in {"Integrate", "Find"} \/ ans'.status # "OK"
  PROVE  NaturalNear'
BY DEF NaturalNear, Answered

LEMMA ReturnNatural ==
  ASSUME NaturalNear, dir \in {-1, 1}, NEW op, NEW t \in Int, NEW c, NEW status, NEW L,
         op \in {"Forward", "Backward"} /\ status = "OK" =>
           Cache[c].t \in Int /\ Cache[PrevCache(c)].t \in Int /\ NaturalOn(c, op, t),
         Return(op, t, status, c, L)
  PROVE  NaturalNear'
<1>1. PICK p : p = PrevCache(c)
  OBVIOUS
<1>2. PICK nat : nat = IF (op = "Forward") = (dir > 0) THEN c ELSE p
  OBVIOUS
<1>3. \/ /\ op \in {"Forward", "Backward"} /\ status = "OK"
         /\ ans' = Answer(op, t, status, Cache[nat].t, Cache[p].t, Cache[c].t, Cache[p].h)
      \/ ans'.op \in {"Integrate", "Find"} \/ ans'.status # "OK"
  BY <1>1, <1>2 DEF Return, Answer
<1>4. CASE /\ op \in {"Forward", "Backward"} /\ status = "OK"
           /\ ans' = Answer(op, t, status, Cache[nat].t, Cache[p].t, Cache[c].t, Cache[p].h)
  <2>1. PICK at, lo, hi : at = Cache[nat].t /\ lo = Cache[p].t /\ hi = Cache[c].t
    OBVIOUS
  <2>2. lo \in Int /\ hi \in Int /\ NaturalOn(c, op, t)
    BY <1>1, <1>4, <2>1
  <2>3. /\ dir * lo <= dir * t /\ dir * t <= dir * hi
        /\ Past(op) => dir * t < dir * hi
        /\ NCache = 2 /\ ~Past(op) => dir * lo < dir * t
    BY <1>1, <2>1, <2>2 DEF NaturalOn
  <2>4. at = IF (op = "Forward") = (dir > 0) THEN hi ELSE lo
    BY <1>2, <2>1
  <2>5. Past(op) <=> ((op = "Forward") = (dir > 0))
    BY <1>4 DEF Past
  <2>6. /\ at \in {lo, hi}
        /\ op = "Forward" => /\ t <= at /\ Lesser(lo, hi) <= t
                             /\ NCache = 2 \/ lo < hi => t < at
        /\ op = "Backward" => /\ at <= t /\ t <= (IF lo < hi THEN hi ELSE lo)
                              /\ NCache = 2 \/ hi < lo => at < t
    <3>1. CASE dir = 1
      BY <1>4, <2>2, <2>3, <2>4, <2>5, <3>1 DEF Lesser
    <3>2. CASE dir = -1
      BY <1>4, <2>2, <2>3, <2>4, <2>5, <3>2 DEF Lesser
    <3> QED BY <3>1, <3>2
  <2>7. ans'.op = op /\ ans'.t = t /\ ans'.at = at /\ ans'.lo = lo /\ ans'.hi = hi
    BY <1>4, <2>1 DEF Answer
  <2> QED BY <2>6, <2>7 DEF NaturalNear, Answered
<1> QED BY <1>3, <1>4, NaturalElse

LEMMA NaturalKept ==
  ASSUME FindIgnoresStops, IInv, ShortInv, UseInv, NaturalNear, [Next]_vars
  PROVE  NaturalNear'
<1>1. CASE \/ UNCHANGED vars \/ IgnoreStopOn \/ IgnoreStopOff \/ TrialStep \/ LongerStep
           \/ \E phase \in {"loop", "retrace"} : OneStep(phase) \/ RetraceEnd
           \/ \E dt \in Dts : Initialize(dt)
  <2>1. ans' \in {None, ans}
    BY <1>1 DEF vars, IgnoreStopOn, IgnoreStopOff, TrialStep, LongerStep, OneStep, RetraceEnd, Initialize
  <2> QED BY <2>1, NaturalElse
<1>2. CASE LoopEnd
  <2>1. PICK status : /\ status = IF Steps("loop") THEN "STEP_LIMIT" ELSE call.status
                      /\ Return(call.op, call.t, status, cach1, Stops)
    BY <1>2 DEF LoopEnd
  <2>2. dir \in {-1, 1} /\ call.t \in Requests /\ call.phase = "loop" /\ call.t \in Int
    BY <1>2, TimesAre DEF LoopEnd, IInv, CallInv, Running, UseInv
  <2>3. ASSUME call.op \in {"Forward", "Backward"}, status = "OK"
        PROVE  /\ Cache[cach1].t \in Int /\ Cache[PrevCache(cach1)].t \in Int
               /\ NaturalOn(cach1, call.op, call.t)
    <3>1. ~Steps("loop") /\ call.status = "OK"
      BY <2>1, <2>3
    <3>2. ~Before(call.op, call.t, Cache[cach1].t)
      BY <2>2, <3>1 DEF Steps, Goal
    <3>3. cach0 # cach1 /\ Before(call.op, call.t, Cache[PrevCache(cach1)].t)
      BY <2>2, <3>1 DEF UseInv
    <3>4. Cache[cach1].t \in Times /\ Cache[PrevCache(cach1)].t \in Times
      BY <2>2, <3>3, RingEnds, SpanIs DEF IInv
    <3>5. Cache[cach1].t \in Int /\ Cache[PrevCache(cach1)].t \in Int
      BY <3>4, TimesAre
    <3> QED BY <2>2, <3>2, <3>3, <3>5 DEF Before, NaturalOn
  <2> QED BY <2>1, <2>2, <2>3, ReturnNatural
<1>3. ASSUME NEW op, NEW t \in Requests, IsIdle, Answers(op, t) \/ (op = "Find" /\ Find(t))
      PROVE  NaturalNear'
  <2>1. init /\ op \in Kinds /\ t \in Int
    BY <1>3, CallGoes, TimesAre
  <2>2. CASE StopAtKnown(op, t)
    BY <2>2, NaturalElse DEF StopAtKnown, Answer
  <2>3. CASE BeginLoop("loop", op, t, ListAt(op, t))
    BY <2>3, NaturalElse DEF BeginLoop
  <2>4. CASE KeepRing(op, t)
    BY <2>4, NaturalElse DEF BeginLoop, KeepRing
  <2>5. CASE /\ dir # 0 /\ Covers(op, t) /\ Return(op, t, "OK", FindNeighbor(op, t), ListAt(op, t))
    <3>1. PICK c, L : c = FindNeighbor(op, t) /\ L = ListAt(op, t)
      OBVIOUS
    <3>2. dir \in {-1, 1}
      BY <2>5 DEF IInv, RingInv
    <3>3. ASSUME op \in {"Forward", "Backward"}
          PROVE  Cache[c].t \in Int /\ Cache[PrevCache(c)].t \in Int /\ NaturalOn(c, op, t)
      <4>1. Brackets(c, op, t)
        BY <1>3, <2>1, <2>5, <3>1, <3>2, <3>3, WithinIs DEF IInv
      <4>2. NCache = 2 => c = cach1 /\ PrevCache(c) = cach0
        BY <4>1 DEF Brackets
      <4>3. Cache[c].t \in Times /\ Cache[PrevCache(c)].t \in Times
        BY <3>2, <4>1, SpanIs DEF IInv, Brackets
      <4>4. Cache[c].t \in Int /\ Cache[PrevCache(c)].t \in Int
        BY <4>3, TimesAre
      <4>5. Covers(op, t)
        BY <2>5
      <4>6. NCache = 2 /\ ~Past(op) => dir * Cache[PrevCache(c)].t < dir * t
        BY <3>3, <4>2, <4>5 DEF Covers, Past
      <4>7. Past(op) => dir * t < dir * Cache[c].t
        BY <2>1, <3>2, <4>1, <4>4 DEF Brackets
      <4>8. dir * Cache[PrevCache(c)].t <= dir * t /\ dir * t <= dir * Cache[c].t
        BY <4>1 DEF Brackets
      <4>9. NaturalOn(c, op, t)
        BY <4>6, <4>7, <4>8, Zenon DEF NaturalOn
      <4> QED BY <4>4, <4>9
    <3> QED BY <2>1, <2>5, <3>1, <3>2, <3>3, ReturnNatural
  <2>6. CASE /\ (op \in {"Integrate", "Find"} /\ t = T0) \/ StartOf(PlaceOf(op, t), WayOf(op, t))
             /\ NewRing(op, t, WayOf(op, t), PlaceOf(op, t), ListAt(op, t))
    <3>1. WayOf(op, t) \in {-1, 1}
      BY DEF WayOf
    <3>2. IsSaved(op, t) \/ Restarts(op, t, WayOf(op, t), PlaceOf(op, t))
      BY <1>3, <2>1, <2>6, <3>1, NewRingIs
    <3>3. ans' = None \/ ans'.op \in {"Integrate", "Find"}
      BY <3>2 DEF IsSaved, Restarts, Answer
    <3> QED BY <3>3, NaturalElse
  <2> QED BY <1>3, <2>2, <2>3, <2>4, <2>5, <2>6, CallGoes
<1> QED BY <1>1, <1>2, <1>3, NextCases

LEMMA UseInits == Init => UseInv /\ NaturalNear
<1> SUFFICES ASSUME Init PROVE UseInv /\ NaturalNear
  OBVIOUS
<1>1. /\ cach0 = -1 /\ cach1 = -1 /\ cache = -1 /\ init = FALSE
      /\ call.phase = "idle" /\ ans = None
  BY DEF Init, Idle
<1> QED BY <1>1, Zenon DEF UseInv, NaturalNear, Answered

LEMMA ShortInits == Init => ShortInv
BY DEF Init, ShortInv, Idle, Running

\* The step that Forward or Backward ends on holds the time asked for, and what it
\* returns is an end of that step, on the right side of that time.  At that very time
\* it lies only for a ring of three entries or more, for Forward on steps before T0 and
\* for Backward on steps after it: the search for the entry comes down, and stops, at a
\* step that begins there.
THEOREM NaturalNearHolds ==
  ASSUME FindIgnoresStops
  PROVE  Spec => []NaturalNear
<1>1. Init => IInv /\ ShortInv /\ UseInv /\ NaturalNear
  BY Inits, ShortInits, UseInits
<1>2. IInv /\ ShortInv /\ UseInv /\ NaturalNear /\ [Next]_vars
        => IInv' /\ ShortInv' /\ UseInv' /\ NaturalNear'
  BY NextKeeps, NextShort, UseKept, NaturalKept
<1> QED BY <1>1, <1>2, PTL DEF Spec

\* With a ring of two entries, the constructor's default (ODE.h:188), Forward returns
\* the first natural stop after the time asked for, Backward the last one before it.
THEOREM NaturalStopHolds ==
  ASSUME FindIgnoresStops, NCache = 2
  PROVE  Spec => []NaturalStop
<1>1. NaturalNear => NaturalStop
  BY DEF NaturalNear, NaturalStop
<1> QED BY <1>1, NaturalNearHolds, PTL

-----------------------------------------------------------------------------
(* The zeros found.                                                          *)

InTime(t) == t \in Int /\ -Inf < t /\ t < Inf

\* Stops runs from InftyMinus to InftyPlus once the integrator was initialized, and its
\* current link is behind the first; at a stop that ends a call it is not the last.
StopsInv ==
  /\ IgnoreStop \in BOOLEAN /\ InTime(t_last)
  /\ Stops = EmptyL \/ StopsOf(Stops)
  /\ init \/ Running => StopsOf(Stops)
  /\ call.status = "OK" \/ call.phase \in {"loop", "retrace"}
  /\ call.status = "STOP_CONDITION" => Stops.cur < Len(Stops.items)

LEMMA InTimes == \A t \in Requests \cup Times : InTime(t)
BY TimesAre DEF InTime

LEMMA InitialTime == InTime(T0) /\ InTime(0)
<1>1. T0 \in Times /\ Inf \in Nat
  BY TimesAre DEF Times
<1>2. InTime(T0)
  BY <1>1, InTimes
<1> QED BY <1>1, <1>2 DEF InTime

LEMMA FirstStopsAre == StopsOf(FirstStops)
<1>1. -Inf < T0 /\ T0 < Inf /\ T0 \in Int /\ Inf \in Nat
  BY InitialTime, TimesAre DEF InTime
<1>2. StopsOf([items |-> <<-Inf, T0, Inf>>, cur |-> 3])
  BY <1>1 DEF StopsOf
<1>3. StopsOf([items |-> <<-Inf, Inf>>, cur |-> 2])
  BY <1>1 DEF StopsOf
<1> QED BY <1>2, <1>3 DEF FirstStops

LEMMA MovedStops ==
  ASSUME NEW L, StopsOf(L), NEW t, InTime(t)
  PROVE  /\ L.cur < Len(L.items) => StopsOf(NextL(L)) /\ InTime(Current(L))
         /\ StopsOf(ResyncStops(L, t)) /\ StopsOf(SyncStops(L, t))
BY StopsMoved DEF InTime

LEMMA ReturnStops ==
  ASSUME InTime(t_last), NEW op, NEW t \in Requests, NEW status, NEW c, NEW L,
         StopsOf(L), status = "STOP_CONDITION" => L.cur < Len(L.items),
         op \in {"Forward", "Backward"} /\ status = "OK" =>
           Cache[c].t \in Times /\ Cache[PrevCache(c)].t \in Times,
         Return(op, t, status, c, L)
  PROVE  StopsOf(Stops') /\ InTime(t_last')
<1>1. PICK nat : nat = IF (op = "Forward") = (dir > 0) THEN c ELSE PrevCache(c)
  OBVIOUS
<1>2. \/ status = "STOP_CONDITION" /\ t_last' = Current(L) /\ Stops' = NextL(L)
      \/ status = "STOP_CONDITION" /\ t_last' = t_last /\ Stops' \in {L, NextL(L)}
      \/ t_last' = t /\ Stops' = L
      \/ /\ op \in {"Forward", "Backward"} /\ status = "OK" /\ t_last' = Cache[nat].t
         /\ Stops' \in {L, SyncStops(L, Cache[nat].t)}
      \/ t_last' = t_last /\ Stops' = L
  BY <1>1, Zenon DEF Return
<1>3. CASE status = "STOP_CONDITION" /\ t_last' = Current(L) /\ Stops' = NextL(L)
  BY <1>3, MovedStops
<1>4. CASE status = "STOP_CONDITION" /\ t_last' = t_last /\ Stops' \in {L, NextL(L)}
  BY <1>4, MovedStops
<1>5. CASE t_last' = t /\ Stops' = L
  BY <1>5, InTimes
<1>6. CASE /\ op \in {"Forward", "Backward"} /\ status = "OK" /\ t_last' = Cache[nat].t
           /\ Stops' \in {L, SyncStops(L, Cache[nat].t)}
  <2>1. InTime(Cache[nat].t)
    BY <1>1, <1>6, InTimes
  <2> QED BY <1>6, <2>1, MovedStops
<1>7. CASE t_last' = t_last /\ Stops' = L
  BY <1>7
<1> QED BY <1>2, <1>3, <1>4, <1>5, <1>6, <1>7

LEMMA StopsStay ==
  ASSUME IgnoreStop' \in BOOLEAN, InTime(t_last'), StopsOf(Stops'),
         call'.status = "OK" \/ call'.phase \in {"loop", "retrace"},
         call'.status = "STOP_CONDITION" => Stops'.cur < Len(Stops'.items)
  PROVE  StopsInv'
BY DEF StopsInv, InTime, StopsOf

LEMMA StopsKept ==
  ASSUME FindIgnoresStops, IInv, ShortInv, UseInv, StopsInv, [Next]_vars
  PROVE  StopsInv'
<1>0. Idle.status = "OK" /\ "OK" # "STOP_CONDITION" /\ IgnoreStop \in BOOLEAN /\ InTime(t_last)
  BY DEF Idle, StopsInv
<1>1. CASE UNCHANGED vars
  BY <1>1 DEF vars, StopsInv, InTime, StopsOf, Running
<1>2. CASE IgnoreStopOn
  <2>1. IgnoreStop' = TRUE /\ UNCHANGED <<Stops, t_last, init, call>>
    BY <1>2 DEF IgnoreStopOn
  <2> QED BY <2>1 DEF StopsInv, InTime, StopsOf, Running
<1>3. CASE IgnoreStopOff
  <2>1. /\ Stops' = ResyncStops(Stops, t_last) /\ IgnoreStop' \in BOOLEAN /\ call.phase = "idle"
        /\ UNCHANGED <<t_last, init, call>>
    BY <1>3 DEF IgnoreStopOff, IsIdle
  <2>2. call.status = "OK" /\ Running' = Running
    BY <2>1 DEF StopsInv, Running
  <2>3. CASE Stops = EmptyL
    <3>1. Stops' = EmptyL
      BY <2>1, <2>3 DEF ResyncStops, EmptyL
    <3> QED BY <1>0, <2>1, <2>2, <2>3, <3>1 DEF StopsInv, InTime
  <2>4. CASE StopsOf(Stops)
    <3>1. StopsOf(Stops')
      BY <1>0, <2>1, <2>4, MovedStops
    <3> QED BY <1>0, <2>1, <2>2, <3>1, StopsStay
  <2> QED BY <2>3, <2>4 DEF StopsInv
<1>4. ASSUME NEW dt \in Dts, Initialize(dt)
      PROVE  StopsInv'
  <2>1. Stops' = FirstStops /\ t_last' = T0 /\ IgnoreStop' = (IgnoreStop \/ NeverStop)
    BY <1>4 DEF Initialize
  <2>2. call' = call \/ call' = [Idle EXCEPT !.phase = "trial", !.t = T0 + dt]
    BY <1>4 DEF Initialize
  <2>3. call'.status = "OK"
    BY <1>0, <1>4, <2>2 DEF Initialize, Idle, IsIdle, StopsInv
  <2>4. InTime(T0) /\ NeverStop \in BOOLEAN
    BY InitialTime, ODEAssumption
  <2> QED BY <1>0, <2>1, <2>3, <2>4, FirstStopsAre, StopsStay
<1>5. ASSUME NEW t_request, NEW ignore, NEW r \in Step(t_request, ignore), dir \in {-1, 1}, Running
      PROVE  /\ StopsOf(r.Stops)
             /\ r.status = "STOP_CONDITION" => r.Stops.cur < Len(r.Stops.items)
  BY <1>5, StepStops DEF IInv, StopsInv
<1>6. CASE TrialStep
  <2>1. dir \in {-1, 1} /\ Running /\ UNCHANGED <<IgnoreStop, t_last>>
    BY <1>6 DEF TrialStep, IInv, CallInv, Running
  <2>2. PICK r \in Step(call.t, IgnoreStop) :
          \/ Stops' = r.Stops /\ call' = Idle
          \/ Initialized(r.cach0, r.cach1, r.Stops)
          \/ /\ Stops' = r.Stops
             /\ call' = [call EXCEPT !.phase = "longer", !.t = T0 + dir * InitH',
                                     !.steps = Abs(r.Cache[0].h)]
    BY <1>6, Zenon DEF TrialStep
  <2>3. StopsOf(r.Stops)
    BY <1>5, <2>1
  <2>4. CASE Stops' = r.Stops /\ call' = Idle
    BY <1>0, <2>1, <2>3, <2>4, StopsStay
  <2>5. CASE Initialized(r.cach0, r.cach1, r.Stops)
    <3>1. Stops' \in {r.Stops, ResyncStops(r.Stops, t_last)} /\ call' = Idle
      BY <2>5 DEF Initialized
    <3>2. StopsOf(Stops')
      BY <1>0, <2>3, <3>1, MovedStops
    <3> QED BY <1>0, <2>1, <3>1, <3>2, StopsStay
  <2>6. CASE /\ Stops' = r.Stops
             /\ call' = [call EXCEPT !.phase = "longer", !.t = T0 + dir * InitH',
                                     !.steps = Abs(r.Cache[0].h)]
    <3>1. call.status = "OK"
      BY <1>6 DEF TrialStep, StopsInv
    <3>2. call'.status = "OK"
      BY <2>6, <3>1 DEF IInv, CallInv
    <3> QED BY <1>0, <2>1, <2>3, <2>6, <3>2, StopsStay
  <2> QED BY <2>2, <2>4, <2>5, <2>6
<1>7. CASE LongerStep
  <2>1. PICK r \in Step(call.t, IgnoreStop) : TriesHalf(r) \/ TakesLength(r)
    BY <1>7, LongerGoes
  <2>2. dir \in {-1, 1} /\ Running /\ call.phase = "longer" /\ UNCHANGED <<IgnoreStop, t_last>>
    BY <1>7, <2>1, LongerGoes DEF TriesHalf, TakesLength, Running
  <2>3. CASE TriesHalf(r)
    <3>1. StopsOf(r.Stops) /\ Stops' = r.Stops
      BY <1>5, <2>2, <2>3 DEF TriesHalf
    <3>2. call.status = "OK"
      BY <2>2 DEF StopsInv
    <3>3. call'.status = "OK"
      BY <2>3, <3>2 DEF TriesHalf, IInv, CallInv
    <3> QED BY <1>0, <2>2, <3>1, <3>3, StopsStay
  <2>4. CASE TakesLength(r)
    <3>1. Stops' \in {FirstStops, ResyncStops(FirstStops, t_last)} /\ call' = Idle
      BY <2>4 DEF TakesLength, Initialized
    <3>2. StopsOf(Stops')
      BY <1>0, <3>1, FirstStopsAre, MovedStops
    <3> QED BY <1>0, <2>2, <3>1, <3>2, StopsStay
  <2> QED BY <2>1, <2>3, <2>4
<1>8. ASSUME NEW phase \in {"loop", "retrace"}, OneStep(phase)
      PROVE  StopsInv'
  <2>1. dir \in {-1, 1} /\ Running /\ UNCHANGED <<IgnoreStop, t_last>>
    BY <1>8 DEF OneStep, Steps, IInv, CallInv, Running
  <2>2. PICK r \in Step(StepTo, ~HeedsStops) :
          Stops' = r.Stops /\ call' = [call EXCEPT !.status = r.status, !.steps = @ - 1]
    BY <1>8, Zenon DEF OneStep
  <2>3. call'.status = r.status /\ call'.phase = phase
    BY <1>8, <2>2 DEF IInv, CallInv, OneStep, Steps
  <2>4. StopsOf(r.Stops) /\ (r.status = "STOP_CONDITION" => r.Stops.cur < Len(r.Stops.items))
    BY <1>5, <2>1
  <2> QED BY <1>0, <2>1, <2>2, <2>3, <2>4, StopsStay
<1>9. CASE RetraceEnd
  <2>1. UNCHANGED <<IgnoreStop, t_last, Stops>> /\ Running
    BY <1>9 DEF RetraceEnd, Running
  <2>2. call'.status = "ODE_BUG" /\ call'.phase = "loop"
    BY <1>9 DEF RetraceEnd, IInv, CallInv
  <2>3. StopsOf(Stops)
    BY <2>1 DEF StopsInv
  <2> QED BY <1>0, <2>1, <2>2, <2>3, StopsStay
<1>10. CASE LoopEnd
  <2>1. PICK status : /\ status = IF Steps("loop") THEN "STEP_LIMIT" ELSE call.status
                      /\ Return(call.op, call.t, status, cach1, Stops)
                      /\ UNCHANGED IgnoreStop
    BY <1>10 DEF LoopEnd
  <2>2. dir \in {-1, 1} /\ call.t \in Requests /\ call.phase = "loop" /\ Running
    BY <1>10 DEF LoopEnd, IInv, CallInv, Running, UseInv
  <2>3. ASSUME status = "OK"
        PROVE  Cache[cach1].t \in Times /\ Cache[PrevCache(cach1)].t \in Times
    <3>1. cach0 # cach1
      BY <2>1, <2>2, <2>3 DEF UseInv
    <3> QED BY <2>2, <3>1, RingEnds, SpanIs DEF IInv
  <2>4. StopsOf(Stops) /\ (status = "STOP_CONDITION" => Stops.cur < Len(Stops.items))
    BY <2>1, <2>2 DEF StopsInv
  <2>5. StopsOf(Stops') /\ InTime(t_last')
    BY <1>0, <2>1, <2>2, <2>3, <2>4, ReturnStops
  <2>6. call' = Idle
    BY <2>1, CallBecomes DEF IInv
  <2> QED BY <1>0, <2>1, <2>5, <2>6, StopsStay
<1>11. ASSUME NEW op, NEW t \in Requests, IsIdle, Answers(op, t) \/ (op = "Find" /\ Find(t))
       PROVE  StopsInv'
  <2>1. init /\ op \in Kinds /\ StopsOf(Stops)
    BY <1>11, CallGoes DEF StopsInv
  <2>2. PICK A : A = StopAhead(op, t)
    OBVIOUS
  <2>3. StopsOf(A.list) /\ (A.stop => A.list.cur < Len(A.list.items))
    BY <1>0, <2>1, <2>2, AheadIs DEF InTime
  <2>4. CASE StopAtKnown(op, t)
    <3>1. /\ A.stop /\ t_last' = Current(A.list) /\ Stops' = NextL(A.list) /\ IgnoreStop' = IgnoreStop
          /\ call' = Finished(op, "STOP_CONDITION")
      BY <2>2, <2>4 DEF StopAtKnown
    <3>2. call' = Idle
      BY <3>1, CallBecomes DEF IInv
    <3>3. StopsOf(Stops') /\ InTime(t_last')
      BY <1>0, <2>3, <3>1, MovedStops
    <3> QED BY <1>0, <3>1, <3>2, <3>3, StopsStay
  <2>5. ASSUME NEW phase \in {"loop", "retrace"}, BeginLoop(phase, op, t, A.list),
               UNCHANGED <<IgnoreStop, t_last>>
        PROVE  StopsInv'
    <3>0. /\ call' = [phase |-> phase, op |-> op, t |-> t, status |-> "ODE_BUG",
                      steps |-> MaxSteps, find |-> NoValue, sync |-> call'.sync]
          /\ Stops' = A.list
      BY <2>5, CallBecomes DEF IInv
    <3>1. Stops' = A.list /\ call'.status = "ODE_BUG" /\ call'.phase = phase
      BY <3>0
    <3> QED BY <1>0, <2>3, <2>5, <3>1, StopsStay
  <2>6. CASE /\ BeginLoop("loop", op, t, ListAt(op, t)) /\ RingStays
             /\ UNCHANGED <<cache, t_last, outer>>
    BY <2>2, <2>5, <2>6 DEF ListAt, RingStays
  <2>7. CASE KeepRing(op, t)
    BY <2>2, <2>5, <2>7 DEF KeepRing
  <2>8. CASE /\ dir # 0 /\ Covers(op, t) /\ RingStays
             /\ Return(op, t, "OK", FindNeighbor(op, t), ListAt(op, t))
    <3>1. PICK c : c = FindNeighbor(op, t)
      OBVIOUS
    <3>2. Return(op, t, "OK", c, A.list) /\ IgnoreStop' = IgnoreStop
      BY <2>2, <2>8, <3>1 DEF ListAt, RingStays
    <3>3. dir \in {-1, 1}
      BY <2>8 DEF IInv, RingInv
    <3>4. op \in {"Forward", "Backward"} => Cache[c].t \in Times /\ Cache[PrevCache(c)].t \in Times
      BY <1>11, <2>1, <2>8, <3>1, <3>3, WithinIs, SpanIs DEF IInv, Brackets
    <3>5. StopsOf(Stops') /\ InTime(t_last')
      BY <1>0, <2>3, <3>2, <3>4, ReturnStops
    <3>6. call' = Idle
      BY <3>2, CallBecomes DEF IInv
    <3> QED BY <1>0, <3>2, <3>5, <3>6, StopsStay
  <2>9. CASE /\ (op \in {"Integrate", "Find"} /\ t = T0) \/ StartOf(PlaceOf(op, t), WayOf(op, t))
             /\ NewRing(op, t, WayOf(op, t), PlaceOf(op, t), ListAt(op, t))
    <3>1. WayOf(op, t) \in {-1, 1}
      BY DEF WayOf
    <3>2. /\ UNCHANGED <<init, IgnoreStop, cache>> /\ Stops' = ListAt(op, t)
          /\ IsSaved(op, t) \/ Restarts(op, t, WayOf(op, t), PlaceOf(op, t))
      BY <1>11, <2>1, <2>9, <3>1, NewRingIs
    <3>3. /\ t_last' \in {t, t_last} /\ call'.status \in {"OK", "ODE_BUG"}
          /\ call'.status = "OK" \/ call'.phase = "loop"
      BY <3>2 DEF IsSaved, Restarts, Idle
    <3> QED BY <1>0, <2>2, <2>3, <3>2, <3>3, InTimes, StopsStay DEF ListAt
  <2> QED BY <1>11, <2>4, <2>6, <2>7, <2>8, <2>9, CallGoes
<1> QED BY <1>1, <1>2, <1>3, <1>4, <1>6, <1>7, <1>8, <1>9, <1>10, <1>11, NextCases

LEMMA StopsInits == Init => StopsInv /\ EntryInv
<1> SUFFICES ASSUME Init PROVE StopsInv /\ EntryInv
  OBVIOUS
<1>1. PICK sc \in [Slots -> IF NeverStop THEN {0} ELSE {-1, 0, 1}] :
        Cache = [i \in Slots |-> [t |-> Inf, h |-> 0, sc |-> sc[i]]]
  BY DEF Init
<1>2. /\ n_steps = 0 /\ init = FALSE /\ Initial = EmptyL /\ Stops = EmptyL
      /\ IgnoreStop = FALSE /\ t_last = 0 /\ call.phase = "idle" /\ call.status = "OK"
  BY DEF Init, Idle
<1>4. StopsInv
  BY <1>2, InitialTime DEF StopsInv, Running
<1>5. \A i \in Slots : Fits(Cache[i])
  BY <1>1, TimesAre DEF Fits
<1>6. IsCursorList(EmptyL)
  BY DEF IsCursorList, EmptyL
<1> QED BY <1>2, <1>4, <1>5, <1>6, ODEAssumption DEF EntryInv, Capped

LEMMA StopsList == ASSUME NEW L, StopsOf(L) PROVE IsCursorList(L)
BY DEF StopsOf, IsCursorList

\* Every field keeps its type: an entry of the ring holds a time within the limits of F,
\* a step no longer than MaxStep or the client's estimate and a sign; its indices lie in
\* the ring; steps are counted up to the next state to be saved; the cursors of the two
\* lists stay in them.
THEOREM TypeOKHolds ==
  ASSUME FindIgnoresStops
  PROVE  Spec => []TypeOK
<1>1. Init => IInv /\ ShortInv /\ UseInv /\ StopsInv /\ EntryInv
  BY Inits, ShortInits, UseInits, StopsInits
<1>2. IInv /\ ShortInv /\ UseInv /\ StopsInv /\ EntryInv /\ [Next]_vars
        => IInv' /\ ShortInv' /\ UseInv' /\ StopsInv' /\ EntryInv'
  BY NextKeeps, NextShort, UseKept, StopsKept, EntryKept
<1>3. IInv /\ UseInv /\ StopsInv /\ EntryInv => TypeOK
  <2> SUFFICES ASSUME IInv, UseInv, StopsInv, EntryInv PROVE TypeOK
    OBVIOUS
  <2>1. \A i \in Slots : /\ Cache[i].t \in Tmin .. Tmax \cup {Inf}
                         /\ Cache[i].h \in -MaxStep .. MaxStep \cup Dts
                         /\ Cache[i].sc \in {-1, 0, 1}
    BY DEF EntryInv, Fits, Times, IInv, RingInv, Entries
  <2>2. IsCursorList(Stops)
    <3>1. IsCursorList(EmptyL)
      BY DEF IsCursorList, EmptyL
    <3> QED BY <3>1, StopsList DEF StopsInv
  <2>3. {cach0, cach1, cache} \subseteq Slots \cup {-1}
    BY DEF UseInv
  <2>4. call.phase \in {"idle", "trial", "longer", "retrace", "loop", "recall", "value"}
    BY DEF IInv, CallInv
  <2>5. dir \in {-1, 0, 1} /\ init \in BOOLEAN /\ IgnoreStop \in BOOLEAN
    BY DEF IInv, RingInv, UseInv, StopsInv
  <2> QED BY <2>1, <2>2, <2>3, <2>4, <2>5 DEF TypeOK, EntryInv, Capped
<1> QED BY <1>1, <1>2, <1>3, PTL DEF Spec

-----------------------------------------------------------------------------
(* Where a loop of steps begins.                                             *)

\* The times of the saved states, in order.
LEMMA RisingIs ==
  ASSUME OuterOf(Initial), Rising(Initial.items)
  PROVE  \E n \in Nat : \E c \in 2 .. n - 1, z \in [1 .. n -> Int] :
           /\ n = Len(Initial.items) /\ c = Initial.cur
           /\ \A i \in 1 .. n : z[i] = Initial.items[i].t
           /\ \A i, j \in 1 .. n : i < j => z[i] < z[j]
           /\ z[1] = -Inf /\ z[n] = Inf
<1>1. PICK s \in Seq(Entries), n \in Nat, m \in Nat :
        /\ s = Initial.items /\ n = Len(s) /\ m \in 2 .. n - 1 /\ Divided(s, m)
        /\ Initial.cur \in 2 .. n - 1 /\ n >= 3
  BY OuterIs
<1>2. \A i \in 1 .. n : s[i].t \in Int
  BY <1>1, DividedIs
<1>3. PICK z \in [1 .. n -> Int] : z = [i \in 1 .. n |-> s[i].t]
  BY <1>2
<1>4. \A i \in 1 .. n : z[i] = s[i].t
  BY <1>3
<1>5. s[1].t = -Inf /\ s[n].t = Inf /\ 1 \in 1 .. n /\ n \in 1 .. n
  BY <1>1, DividedIs
<1>6. \A i, j \in 1 .. n : i < j => z[i] < z[j]
  BY <1>1, <1>4 DEF Rising
<1> QED BY <1>1, <1>4, <1>5, <1>6

\* The state behind the one that the loops over Initial end at lies after t.
LEMMA SeekNext ==
  ASSUME OuterOf(Initial), Rising(Initial.items), NEW t \in Requests
  PROVE  t < Initial.items[Seek(t) + 1].t
<1>1. PICK n \in Nat : \E c \in 2 .. n - 1, z \in [1 .. n -> Int] :
        /\ n = Len(Initial.items) /\ c = Initial.cur
        /\ \A i \in 1 .. n : z[i] = Initial.items[i].t
        /\ \A i, j \in 1 .. n : i < j => z[i] < z[j]
        /\ z[1] = -Inf /\ z[n] = Inf
  BY RisingIs
<1>2. PICK c \in 2 .. n - 1, z \in [1 .. n -> Int] :
        /\ n = Len(Initial.items) /\ c = Initial.cur
        /\ \A i \in 1 .. n : z[i] = Initial.items[i].t
        /\ \A i, j \in 1 .. n : i < j => z[i] < z[j]
        /\ z[1] = -Inf /\ z[n] = Inf
  BY <1>1
<1>3. t \in Int /\ -Inf < t /\ t < Inf
  BY TimesAre
<1>4. PICK up : up = IF z[c] < t THEN Least({i \in c .. n : t <= z[i]}) ELSE c
  OBVIOUS
<1>5. up \in c .. n /\ t <= z[up]
  <2>1. CASE z[c] < t
    <3> DEFINE S == {i \in c .. n : t <= z[i]}
    <3>1. S \in SUBSET Nat /\ n \in S
      BY <1>2, <1>3
    <3>2. Least(S) \in S
      <4> HIDE DEF S
      <4> QED BY <3>1, LeastIs
    <3> QED BY <1>4, <2>1, <3>2
  <2>2. CASE ~ (z[c] < t)
    <3>1. up = c /\ z[c] \in Int
      BY <1>4, <2>2
    <3> QED BY <1>3, <2>2, <3>1
  <2> QED BY <2>1, <2>2
<1> DEFINE U == {i \in 1 .. up : z[i] <= t}
<1>6. Seek(t) = Greatest(U)
  <2>1. {i \in c .. n : t <= z[i]} = {i \in c .. n : t <= Initial.items[i].t}
    BY <1>2
  <2>2. U = {i \in 1 .. up : Initial.items[i].t <= t}
    BY <1>2, <1>5
  <2>3. z[c] = Initial.items[c].t
    BY <1>2
  <2>4. up = IF Initial.items[c].t < t THEN Least({i \in c .. n : t <= Initial.items[i].t}) ELSE c
    BY <1>4, <2>1, <2>3, Zenon
  <2> HIDE DEF U
  <2> QED BY <1>2, <2>2, <2>4 DEF Seek, Current
<1>7. U \in SUBSET (0 .. up) /\ 1 \in U /\ up \in Nat
  <2>1. up \in Nat /\ 1 \in 1 .. up
    BY <1>5
  <2>2. z[1] <= t
    <3>1. 1 \in 1 .. n
      BY <1>2
    <3>2. z[1] \in Int
      BY <3>1
    <3> QED BY <1>2, <1>3, <3>2
  <2> QED BY <2>1, <2>2
<1>8. PICK p : p = Greatest(U)
  OBVIOUS
<1>9. p \in U /\ \A y \in U : y <= p
  <2> HIDE DEF U
  <2> QED BY <1>7, <1>8, GreatestIs
<1>10. p \in 1 .. up /\ z[p] <= t /\ up \in 1 .. n
  BY <1>5, <1>9
<1>11. p # n
  BY <1>2, <1>3, <1>10
<1>12. p + 1 \in 1 .. n
  BY <1>10, <1>11
<1>13. t < z[p + 1]
  <2>1. CASE p < up
    <3>1. p + 1 \notin U
      BY <1>9, <1>10
    <3>2. p + 1 \in 1 .. up
      BY <1>10, <2>1
    <3> QED BY <1>3, <1>12, <3>1, <3>2
  <2>2. CASE p = up
    <3>1. z[p] < z[p + 1]
      BY <1>2, <1>10, <1>12
    <3> QED BY <1>3, <1>5, <1>10, <1>12, <2>2, <3>1
  <2> QED BY <1>10, <2>1, <2>2
<1> QED BY <1>2, <1>6, <1>8, <1>12, <1>13

\* So does the one behind the end of Find's loops, which end at a state not after v
\* unless that is the first one.
LEMMA FindSeekNext ==
  ASSUME OuterOf(Initial), Rising(Initial.items), NEW v \in Requests
  PROVE  /\ v < Initial.items[FindSeek(v) + 1].t
         /\ FindSeek(v) = 2 \/ Initial.items[FindSeek(v)].t <= v
<1>1. PICK n \in Nat : \E c \in 2 .. n - 1, z \in [1 .. n -> Int] :
        /\ n = Len(Initial.items) /\ c = Initial.cur
        /\ \A i \in 1 .. n : z[i] = Initial.items[i].t
        /\ \A i, j \in 1 .. n : i < j => z[i] < z[j]
        /\ z[1] = -Inf /\ z[n] = Inf
  BY RisingIs
<1>2. PICK c \in 2 .. n - 1, z \in [1 .. n -> Int] :
        /\ n = Len(Initial.items) /\ c = Initial.cur
        /\ \A i \in 1 .. n : z[i] = Initial.items[i].t
        /\ \A i, j \in 1 .. n : i < j => z[i] < z[j]
        /\ z[1] = -Inf /\ z[n] = Inf
  BY <1>1
<1>3. v \in Int /\ -Inf < v /\ v < Inf
  BY TimesAre
<1> DEFINE S == {i \in 2 .. n - 1 : v <= z[i]} \cup {n - 1}
<1>4. PICK up : up = IF z[c] < v THEN Least(S) ELSE c
  OBVIOUS
<1>5. up \in 2 .. n - 1 /\ (up = n - 1 \/ v <= z[up])
  <2>1. CASE z[c] < v
    <3>1. S \in SUBSET Nat /\ S # {}
      OBVIOUS
    <3>2. Least(S) \in S
      <4> HIDE DEF S
      <4> QED BY <3>1, LeastIs
    <3> QED BY <1>4, <2>1, <3>2
  <2>2. CASE ~ (z[c] < v)
    <3>1. up = c /\ z[c] \in Int
      BY <1>4, <2>2
    <3> QED BY <1>3, <2>2, <3>1
  <2> QED BY <2>1, <2>2
<1>6. v < z[up + 1]
  <2>1. up + 1 \in 1 .. n /\ up \in 1 .. n
    BY <1>5
  <2>2. CASE up = n - 1
    <3>1. z[up + 1] = Inf
      BY <1>2, <2>2
    <3> QED BY <1>3, <3>1
  <2>3. CASE v <= z[up]
    <3>1. z[up] < z[up + 1]
      BY <1>2, <1>5, <2>1
    <3> QED BY <1>3, <2>1, <2>3, <3>1
  <2> QED BY <1>5, <2>2, <2>3
<1> DEFINE U == {i \in 2 .. up : z[i] <= v} \cup {2}
<1>7. FindSeek(v) = Greatest(U)
  <2>1. S = {i \in 2 .. n - 1 : v <= Initial.items[i].t} \cup {n - 1}
    BY <1>2
  <2>2. U = {i \in 2 .. up : Initial.items[i].t <= v} \cup {2}
    BY <1>2, <1>5
  <2>3. z[c] = Initial.items[c].t
    BY <1>2
  <2>4. up = IF Initial.items[c].t < v
               THEN Least({i \in 2 .. n - 1 : v <= Initial.items[i].t} \cup {n - 1}) ELSE c
    BY <1>4, <2>1, <2>3
  <2>5. (IF Initial.cur = 1 THEN 2 ELSE Initial.cur) = c
    BY <1>2
  <2> HIDE DEF S, U
  <2> QED BY <1>2, <2>2, <2>4, <2>5 DEF FindSeek
<1>8. U \in SUBSET (0 .. up) /\ 2 \in U /\ up \in Nat
  BY <1>5
<1>9. PICK p : p = Greatest(U)
  OBVIOUS
<1>10. p \in U /\ \A y \in U : y <= p
  <2> HIDE DEF U
  <2> QED BY <1>8, <1>9, GreatestIs
<1>11. p \in 2 .. up /\ (p = 2 \/ z[p] <= v)
  BY <1>5, <1>10
<1>12. p \in 1 .. n /\ p + 1 \in 1 .. n
  BY <1>5, <1>11
<1>13. v < z[p + 1]
  <2>1. CASE p < up
    <3>1. p + 1 \notin U
      BY <1>10, <1>11
    <3>2. p + 1 \in 2 .. up
      BY <1>5, <1>11, <2>1
    <3> QED BY <1>3, <1>12, <3>1, <3>2
  <2>2. CASE p = up
    BY <1>6, <2>2
  <2> QED BY <1>5, <1>11, <2>1, <2>2
<1>14. v < Initial.items[p + 1].t /\ (p = 2 \/ Initial.items[p].t <= v)
  BY <1>2, <1>11, <1>12, <1>13
<1> QED BY <1>7, <1>9, <1>14

\* In direction d, (op, t) wants the end of the step that begins at t.
PastTo(op, d) == (op = "Forward" /\ d = 1) \/ (op = "Backward" /\ d = -1)

\* A state at x from which at least one step leads to the answer.
Precedes(x, op, t, d) == d * x < d * t \/ (x = t /\ PastTo(op, d))

\* The saved state that a call restarts from lies before its answer.
LEMMA RestartBefore ==
  ASSUME OuterOf(Initial), Rising(Initial.items), NEW t \in Requests,
         NEW op \in {"Integrate", "Forward", "Backward"}, NEW d, d = WayOf(op, t),
         NEW at, at = RestartAt(op, t, d), at \in 2 .. Len(Initial.items) - 1,
         op = "Integrate" => t \notin {T0, Initial.items[at].t}
  PROVE  Precedes(Initial.items[at].t, op, t, d)
<1>1. PICK s \in Seq(Entries), n \in Nat, m \in Nat :
        /\ s = Initial.items /\ n = Len(s) /\ m \in 2 .. n - 1 /\ Divided(s, m)
        /\ Initial.cur \in 2 .. n - 1 /\ n >= 3
  BY OuterIs
<1>2. PICK p : p = Seek(t)
  OBVIOUS
<1>3. PICK x : x = s[p].t
  OBVIOUS
<1>4. p \in 1 .. n - 1 /\ x <= t /\ x \in Int /\ t \in Int /\ T0 \in Int /\ (t < T0 => p < m)
  <2>1. p \in 1 .. n - 1 /\ x <= t /\ (t < T0 => p < m)
    BY <1>1, <1>2, <1>3, SeekIs
  <2>2. p \in 1 .. Len(s)
    BY <1>1, <2>1
  <2>3. x \in Int
    BY <1>3, <2>2, EntriesAre
  <2> QED BY <2>1, <2>3, TimesAre
<1>5. t < s[p + 1].t /\ s[p + 1].t \in Int
  <2>1. t < s[p + 1].t
    BY <1>1, <1>2, SeekNext
  <2>2. p + 1 \in 1 .. Len(s)
    BY <1>1, <1>4
  <2> QED BY <2>1, <2>2, EntriesAre
<1>6. at = CASE op = "Integrate" -> IF d < 0 /\ x # T0 /\ x # t THEN p + 1 ELSE p
             [] op = "Forward"   -> IF d < 0 THEN p + 1 ELSE p
             [] op = "Backward"  -> IF d > 0 /\ x = t THEN p - 1
                                    ELSE IF d < 0 /\ x # t THEN p + 1 ELSE p
  BY <1>1, <1>2, <1>3 DEF RestartAt
<1>7. p - 1 \in 1 .. n => s[p - 1].t < x /\ s[p - 1].t \in Int
  <2> SUFFICES ASSUME p - 1 \in 1 .. n PROVE s[p - 1].t < x /\ s[p - 1].t \in Int
    OBVIOUS
  <2>1. p - 1 \in 1 .. Len(s) /\ p \in 1 .. Len(s) /\ p - 1 < p
    BY <1>1, <1>4
  <2>2. s[p - 1].t < s[p].t
    BY <1>1, <2>1 DEF Rising
  <2> QED BY <1>3, <2>1, <2>2, EntriesAre
<1>8. CASE d = 1
  <2>1. (at = p - 1 /\ op = "Backward" /\ x = t) \/ at = p
    BY <1>6, <1>8
  <2>2. CASE at = p - 1 /\ op = "Backward" /\ x = t
    <3>1. p - 1 \in 1 .. n
      BY <1>1, <2>2
    <3> QED BY <1>1, <1>3, <1>4, <1>7, <1>8, <2>2, <3>1 DEF Precedes
  <2>3. CASE at = p
    <3>1. op # "Forward" => x # t
      BY <1>1, <1>3, <1>4, <1>6, <1>8, <2>3
    <3> QED BY <1>1, <1>3, <1>4, <1>8, <2>3, <3>1 DEF Precedes, PastTo
  <2> QED BY <2>1, <2>2, <2>3
<1>9. CASE d = -1
  <2>1. t <= T0 /\ (op # "Backward" => t < T0)
    BY <1>4, <1>9 DEF WayOf
  <2>2. at = p + 1 \/ (at = p /\ op # "Forward" /\ x \in {T0, t})
    BY <1>6, <1>9
  <2>3. CASE at = p + 1
    BY <1>1, <1>4, <1>5, <1>9, <2>3 DEF Precedes
  <2>4. CASE at = p /\ op # "Forward" /\ x \in {T0, t}
    <3>1. op = "Backward" /\ x = t
      BY <1>1, <1>3, <1>4, <1>6, <1>9, <2>1, <2>4
    <3> QED BY <1>1, <1>3, <1>9, <2>4, <3>1 DEF Precedes, PastTo
  <2> QED BY <2>2, <2>3, <2>4
<1> QED BY <1>8, <1>9 DEF WayOf

LEMMA FindBefore ==
  ASSUME OuterOf(Initial), Rising(Initial.items), NEW v \in Requests, NEW d, d = WayOf("Find", v),
         NEW at, at = FindRestartAt(v, d), at \in 2 .. Len(Initial.items) - 1,
         v \notin {T0, Initial.items[at].t}
  PROVE  Precedes(Initial.items[at].t, "Find", v, d)
<1>1. PICK s \in Seq(Entries), n \in Nat, m \in Nat :
        /\ s = Initial.items /\ n = Len(s) /\ m \in 2 .. n - 1 /\ Divided(s, m)
        /\ Initial.cur \in 2 .. n - 1 /\ n >= 3
  BY OuterIs
<1>2. PICK p : p = FindSeek(v)
  OBVIOUS
<1>3. PICK x : x = s[p].t
  OBVIOUS
<1>4. p \in 2 .. n - 1 /\ (T0 < v => m <= p) /\ v \in Int /\ T0 \in Int
  BY <1>1, <1>2, FindSeekIs, TimesAre
<1>5. x \in Int /\ v < s[p + 1].t /\ s[p + 1].t \in Int /\ (p = 2 \/ x <= v)
  <2>1. v < s[p + 1].t /\ (p = 2 \/ x <= v)
    BY <1>1, <1>2, <1>3, FindSeekNext
  <2>2. p \in 1 .. Len(s) /\ p + 1 \in 1 .. Len(s)
    BY <1>1, <1>4
  <2> QED BY <1>3, <2>1, <2>2, EntriesAre
<1>6. at = IF d < 0 /\ x # T0 /\ x # v THEN p + 1 ELSE p
  BY <1>1, <1>2, <1>3 DEF FindRestartAt
<1>7. s[m].t = T0
  BY <1>1, DividedIs
<1>8. CASE T0 < v
  <2>1. d = 1 /\ at = p /\ x # v
    BY <1>1, <1>3, <1>4, <1>6, <1>8 DEF WayOf
  <2>2. p = 2 => x = T0
    BY <1>1, <1>3, <1>4, <1>7, <1>8
  <2> QED BY <1>1, <1>3, <1>4, <1>5, <1>8, <2>1, <2>2 DEF Precedes
<1>9. CASE v < T0
  <2>1. d = -1 /\ (at = p => x = T0)
    <3>1. d = -1
      BY <1>4, <1>9 DEF WayOf
    <3>2. at = p => x # v
      BY <1>1, <1>3
    <3>3. p + 1 # p
      BY <1>4
    <3> QED BY <1>6, <3>1, <3>2, <3>3
  <2>2. CASE at = p
    BY <1>1, <1>3, <1>4, <1>9, <2>1, <2>2 DEF Precedes
  <2>3. CASE at = p + 1
    BY <1>1, <1>4, <1>5, <2>1, <2>3 DEF Precedes
  <2> QED BY <1>6, <2>2, <2>3
<1> QED BY <1>4, <1>8, <1>9

-----------------------------------------------------------------------------
(* A loop that begins has a step to take.                                    *)

\* The current saved state lies on the ring's side of T0; an ODE that saves no states
\* has the initial one only.
OuterInv ==
  /\ dir # 0 /\ (init \/ Running) => Toward(dir, Current(Initial).t - T0) >= 0
  /\ CacheStep <= 0 /\ (init \/ Running) => Len(Initial.items) = 3

\* A ring is carried over into the next outer interval for times after T0 only, by an
\* ODE that saves states and has four entries or more.
Retraces(t) == NCache >= 4 /\ CacheStep > 0 /\ T0 < t

LEMMA KeepRingIs ==
  ASSUME IInv, OrderInv, OuterInv, NEW op, NEW t \in Requests, KeepRing(op, t)
  PROVE  /\ dir = 1 /\ init /\ op \in Kinds \ {"Find"} /\ Retraces(t)
         /\ Initial.cur + dir \in 2 .. Len(Initial.items) - 1
<1>1. Asked(op, t) /\ dir # 0 /\ IsNear(t)
  BY DEF KeepRing
<1>2. init /\ OuterOf(Initial) /\ op \in {"Integrate", "Forward", "Backward"}
  BY <1>1, AskedIs
<1>3. dir \in {-1, 1} /\ RingOf(Cache, cach0, cach1, dir) /\ cach1 \in Slots /\ NCache \in Nat
  BY <1>1, ODEAssumption DEF IInv, RingInv, RingOf
<1>4. PICK h : h = Cache[cach1].h
  OBVIOUS
<1>5. Toward(dir, h) > 0 /\ h \in Int /\ Cache[cach1].t \in Int /\ t \in Int /\ T0 \in Int
  <2>1. InRing(cach1, cach0, cach1)
    BY <1>3, RingShift DEF RingOf
  <2>2. Cache[cach1] \in Entries
    BY <1>3 DEF IInv, RingInv
  <2> QED BY <1>3, <1>4, <2>1, <2>2, TimesAre DEF RingOf, Entries
<1>6. PICK k : k = NCache \div 4
  OBVIOUS
<1>7. k \in Nat /\ (NCache < 4 => k = 0)
  BY <1>3, <1>6
<1>8. k * h > 0
  <2>1. PICK a : a = Abs(t - Cache[cach1].t)
    OBVIOUS
  <2>2. a \in Nat /\ a < k * h
    BY <1>1, <1>4, <1>5, <1>6, <2>1 DEF IsNear, Abs
  <2>3. k * h \in Int
    BY <1>5, <1>7
  <2> QED BY <2>2, <2>3
<1>9. k # 0 /\ dir = 1
  <2>1. k # 0
    BY <1>5, <1>8
  <2>2. dir = -1 => k * h <= 0
    <3>1. dir = -1 => -h \in Nat
      BY <1>5 DEF Toward
    <3>2. dir = -1 => k * (-h) \in Nat
      BY <1>7, <3>1
    <3>3. k * (-h) = -(k * h)
      BY <1>5, <1>7
    <3> QED BY <1>5, <1>7, <3>2, <3>3
  <2> QED BY <1>3, <1>5, <1>7, <1>8, <2>1, <2>2
<1>10. Initial.cur + dir \in 2 .. Len(Initial.items) - 1
  BY <1>1, <1>2, <1>3, NearIs
<1>11. CacheStep > 0
  <2>1. Len(Initial.items) # 3
    <3>1. Initial.cur \in 2 .. Len(Initial.items) - 1
      BY <1>2 DEF OuterOf
    <3>2. Len(Initial.items) = 3 => Initial.cur = 2 /\ Initial.cur + 1 \in 2 .. 2
      BY <1>9, <1>10, <3>1
    <3> QED BY <3>2
  <2> QED BY <1>2, <2>1, ODEAssumption DEF OuterInv
<1>12. T0 < t
  <2>1. G(dir) = Initial.items[Initial.cur + dir] /\ G(dir).t \in Int
    BY <1>2, <1>3, <1>10, NextSaved, TimesAre
  <2>2. Rising(Initial.items) /\ Initial.cur \in 2 .. Len(Initial.items) - 1
    BY <1>2 DEF OrderInv, Ordered, OuterOf
  <2>3. Current(Initial).t < G(dir).t
    <3>1. PICK n, c : n = Len(Initial.items) /\ c = Initial.cur
      OBVIOUS
    <3>2. n \in Nat
      BY <1>2, <3>1 DEF OuterOf
    <3>3. c \in 1 .. n /\ c + 1 \in 1 .. n /\ c < c + 1
      BY <1>9, <1>10, <2>2, <3>1, <3>2
    <3> QED BY <1>9, <2>1, <2>2, <3>1, <3>3 DEF Rising, Current
  <2>4. Current(Initial).t \in Int
    BY <1>2, <2>2, SavedIs, TimesAre DEF Current
  <2>5. T0 <= Current(Initial).t
    BY <1>2, <1>5, <1>9, <2>4 DEF OuterInv, Toward
  <2>6. G(dir).t <= t
    BY <1>1, <1>5, <1>9, <2>1 DEF IsNear
  <2> QED BY <1>5, <2>1, <2>3, <2>4, <2>5, <2>6
<1>13. NCache >= 4
  BY <1>3, <1>7, <1>9
<1>14. op \in Kinds \ {"Find"}
  BY <1>2 DEF Kinds
<1> QED BY <1>2, <1>9, <1>10, <1>11, <1>12, <1>13, <1>14 DEF Retraces

\* What a step makes of the outer states.
LEMMA SteppedOuter ==
  ASSUME IInv, OuterInv, Running, NEW t_request, NEW ignore, NEW r \in Step(t_request, ignore),
         Initial' = r.Initial, dir' = dir
  PROVE  OuterInv'
<1>1. dir \in {-1, 1} /\ OuterOf(Initial) /\ RingInv
  BY DEF IInv, CallInv
<1>2. CASE r.Initial = Initial
  BY <1>2 DEF OuterInv
<1>3. ASSUME NEW e \in Entries, Toward(dir, e.t - T0) > 0, Saves, r.Initial = EnterOuter(Initial, e)
      PROVE  OuterInv'
  <2>1. PICK at, s : s = EnterOuter(Initial, e).items
                     /\ at = IF dir > 0 THEN Len(Initial.items) ELSE 2
    OBVIOUS
  <2>2. Initial' = [items |-> s, cur |-> at] /\ Inserted(s, Initial.items, at, e)
    BY <1>1, <1>3, <2>1, EnteredIs
  <2>3. at \in 1 .. Len(Initial.items) + 1
    BY <1>1, <2>1 DEF OuterOf
  <2>4. Current(Initial') = e
    BY <2>2, <2>3 DEF Inserted, Current
  <2>5. Toward(dir', Current(Initial').t - T0) >= 0
    BY <1>1, <1>3, <2>4, TimesAre DEF Toward, Entries
  <2>6. ~(CacheStep <= 0)
    BY <1>3, ODEAssumption DEF Saves
  <2> QED BY <2>5, <2>6 DEF OuterInv
<1>4. r.Initial = Initial \/ \E e \in Entries :
        Toward(dir, e.t - T0) > 0 /\ Saves /\ r.Initial = EnterOuter(Initial, e)
  <2>1. ASSUME NEW e \in Entries, Toward(dir, e.t - T0) > 0, SavedBy(r, e)
        PROVE  r.Initial = Initial \/ (Saves /\ r.Initial = EnterOuter(Initial, e))
    BY <2>1 DEF SavedBy
  <2> QED BY <1>1, <2>1, StepLands DEF Stands
<1> QED BY <1>2, <1>3, <1>4

LEMMA OuterStays ==
  ASSUME OuterInv, Initial'.items = Initial.items, dir' = dir, (init \/ Running)' => init \/ Running,
         dir # 0 /\ (init \/ Running) => Toward(dir, Initial.items[Initial'.cur].t - T0) >= 0
  PROVE  OuterInv'
BY DEF OuterInv, Current

\* The next saved state is farther from T0.
LEMMA NextOuterStays ==
  ASSUME IInv, OrderInv, OuterInv, init \/ Running, dir \in {-1, 1},
         Initial.cur + dir \in 2 .. Len(Initial.items) - 1
  PROVE  /\ NextOuter.items = Initial.items
         /\ Toward(dir, Initial.items[NextOuter.cur].t - T0) >= 0
<1>1. OuterOf(Initial) /\ Rising(Initial.items)
  BY DEF IInv, CallInv, OrderInv, Ordered
<1>2. PICK c, e : c = Initial.cur + dir /\ e = Initial.cur
  OBVIOUS
<1>3. NextOuter = [items |-> Initial.items, cur |-> c]
  BY <1>1, <1>2, NextSaved
<1>4. /\ e \in 2 .. Len(Initial.items) - 1 /\ c \in 2 .. Len(Initial.items) - 1 /\ c = e + dir
      /\ Len(Initial.items) \in Nat
  BY <1>1, <1>2 DEF OuterOf
<1>5. PICK x, y : x = Initial.items[e].t /\ y = Initial.items[c].t
  OBVIOUS
<1>6. x \in Int /\ y \in Int /\ T0 \in Int
  BY <1>1, <1>4, <1>5, SavedIs, TimesAre
<1>7. Toward(dir, x - T0) >= 0
  BY <1>2, <1>5 DEF OuterInv, Current
<1>8. IF dir = 1 THEN x < y ELSE y < x
  BY <1>1, <1>4, <1>5 DEF Rising
<1>9. Toward(dir, y - T0) >= 0
  BY <1>6, <1>7, <1>8 DEF Toward
<1> QED BY <1>3, <1>5, <1>9

\* Where a restart leaves the saved states.
LEMMA NewRingOuter ==
  ASSUME NEW op, NEW t, NEW d \in {-1, 1}, NEW at, NEW L, NewRing(op, t, d, at, L),
         OuterOf(Initial)
  PROVE  /\ Initial'.items = Initial.items
         /\ dir' = 0 \/ (dir' = d /\ Initial'.cur = at)
<1>1. PICK s, c : Initial = [items |-> s, cur |-> c]
  BY DEF OuterOf
<1>2. \/ dir' = 0 /\ Initial' \in {Initial, [Initial EXCEPT !.cur = at]}
      \/ dir' = d /\ Initial' = [Initial EXCEPT !.cur = at]
  BY Zenon DEF NewRing, StepsFrom
<1> QED BY <1>1, <1>2

LEMMA OuterInvKept ==
  ASSUME FindIgnoresStops, IInv, ShortInv, OrderInv, OuterInv, [Next]_vars
  PROVE  OuterInv'
<1>1. CASE UNCHANGED vars \/ IgnoreStopOn \/ IgnoreStopOff
  <2>1. UNCHANGED <<init, dir, Initial, call>>
    BY <1>1 DEF vars, outer, IgnoreStopOn, IgnoreStopOff
  <2> QED BY <2>1 DEF OuterInv, Running
<1>2. ASSUME NEW dt \in Dts, Initialize(dt)
      PROVE  OuterInv'
  <2>1. Initial' = [items |-> <<Minus, First, Plus>>, cur |-> 2]
    BY <1>2 DEF Initialize
  <2>2. Len(Initial'.items) = 3 /\ Current(Initial').t = T0
    BY <2>1 DEF Current, First
  <2> QED BY <2>2, TimesAre DEF OuterInv, Toward
<1>3. CASE TrialStep \/ LongerStep \/ \E phase \in {"loop", "retrace"} : OneStep(phase)
  <2>1. \E t_request, ignore : \E r \in Step(t_request, ignore) : Initial' = r.Initial
    <3>1. CASE TrialStep
      <4>1. PICK r \in Step(call.t, IgnoreStop) : Stepped(r)
        BY <3>1, Zenon DEF TrialStep
      <4> QED BY <4>1 DEF Stepped
    <3>2. CASE LongerStep
      <4>1. PICK r \in Step(call.t, IgnoreStop) : TriesHalf(r) \/ TakesLength(r)
        BY <3>2, LongerGoes
      <4>2. Stepped(r) \/ Stepped([r EXCEPT !.Cache[0].h = dir * InitH'])
        BY <4>1 DEF TriesHalf, TakesLength
      <4>3. [r EXCEPT !.Cache[0].h = dir * InitH'].Initial = r.Initial
        BY StepGoes
      <4> QED BY <4>2, <4>3 DEF Stepped
    <3>3. CASE \E phase \in {"loop", "retrace"} : OneStep(phase)
      <4>1. PICK phase \in {"loop", "retrace"} : OneStep(phase)
        BY <3>3
      <4>2. PICK r \in Step(StepTo, ~HeedsStops) : Stepped(r)
        BY <4>1, Zenon DEF OneStep
      <4> QED BY <4>2 DEF Stepped
    <3> QED BY <1>3, <3>1, <3>2, <3>3
  <2>2. Running /\ dir' = dir
    BY <1>3 DEF TrialStep, LongerStep, OneStep, Steps, Running
  <2> QED BY <2>1, <2>2, SteppedOuter
<1>4. CASE RetraceEnd
  <2>1. Running /\ dir \in {-1, 1} /\ Initial.cur + dir \in 2 .. Len(Initial.items) - 1
    BY <1>4 DEF RetraceEnd, IInv, CallInv, Running
  <2>2. Initial' = NextOuter /\ dir' = dir
    BY <1>4 DEF RetraceEnd
  <2> QED BY <2>1, <2>2, NextOuterStays, OuterStays
<1>5. CASE LoopEnd
  <2>1. UNCHANGED <<init, dir, Initial>> /\ Running
    BY <1>5 DEF LoopEnd, outer, Running
  <2> QED BY <2>1, OuterStays DEF OuterInv, Current
<1>6. ASSUME NEW op, NEW t \in Requests, IsIdle, Answers(op, t) \/ (op = "Find" /\ Find(t))
      PROVE  OuterInv'
  <2>1. init /\ op \in Kinds /\ OuterOf(Initial)
    BY <1>6, CallGoes
  <2>2. CASE StopAtKnown(op, t) \/ UNCHANGED <<dir, outer>>
    <3>1. UNCHANGED <<dir, Initial>>
      BY <2>2 DEF StopAtKnown, outer
    <3> QED BY <2>1, <3>1, OuterStays DEF OuterInv, Current
  <2>3. CASE KeepRing(op, t)
    <3>1. dir \in {-1, 1} /\ Initial.cur + dir \in 2 .. Len(Initial.items) - 1
      BY <2>3, KeepRingIs
    <3>2. Initial' \in {Initial, NextOuter} /\ dir' = dir
      BY <2>3 DEF KeepRing
    <3>3. CASE Initial' = Initial
      BY <2>1, <3>2, <3>3, OuterStays DEF OuterInv, Current
    <3>4. CASE Initial' = NextOuter
      BY <2>1, <3>1, <3>2, <3>4, NextOuterStays, OuterStays
    <3> QED BY <3>2, <3>3, <3>4
  <2>4. CASE /\ (op \in {"Integrate", "Find"} /\ t = T0) \/ StartOf(PlaceOf(op, t), WayOf(op, t))
             /\ NewRing(op, t, WayOf(op, t), PlaceOf(op, t), ListAt(op, t))
    <3>1. WayOf(op, t) \in {-1, 1}
      BY DEF WayOf
    <3>2. Initial'.items = Initial.items
          /\ (dir' = 0 \/ (dir' = WayOf(op, t) /\ Initial'.cur = PlaceOf(op, t)))
      BY <2>1, <2>4, <3>1, NewRingOuter
    <3>3. IsSaved(op, t) \/ StartOf(PlaceOf(op, t), WayOf(op, t))
      <4>1. IsSaved(op, t) \/ Restarts(op, t, WayOf(op, t), PlaceOf(op, t))
        BY <1>6, <2>1, <2>4, <3>1, NewRingIs
      <4> QED BY <4>1 DEF Restarts
    <3>4. dir' # 0 => Toward(dir', Current(Initial').t - T0) >= 0
      BY <3>1, <3>2, <3>3 DEF IsSaved, StartOf, Current
    <3> QED BY <2>1, <3>2, <3>4 DEF OuterInv
  <2> QED BY <1>6, <2>2, <2>3, <2>4, CallGoes DEF RingStays
<1> QED BY <1>1, <1>2, <1>3, <1>4, <1>5, <1>6, NextCases

-----------------------------------------------------------------------------
(* Where a ring that is carried over begins.                                 *)

\* Where a ring may begin for op to find its answer behind g.
Below(op, x, g) == x < g \/ (op # "Backward" /\ x = g)

\* All entries but the last lie before the next saved state, and the first one does.
RingStarts(op) ==
  \A i \in Slots : InRing(i, cach0, cach1) /\ (i # cach1 \/ i = cach0) => Below(op, Cache[i].t, G(1).t)

\* A ring that counts no steps begins before the next saved state, and a loop in it goes
\* there at most; a retrace may go one step beyond; there is no answer while a call runs.
LowInv ==
  /\ dir = 1 /\ n_steps < 0 /\ init /\ call.phase \in {"idle", "loop"} => RingStarts("Backward")
  /\ dir = 1 /\ n_steps < 0 /\ call.phase = "loop" =>
       call.t < G(1).t \/ (call.t = G(1).t /\ ~Past(call.op))
  /\ call.phase = "retrace" => dir = 1 /\ RingStarts(call.op) /\ G(1).t <= call.t
  /\ Running => ans = None

\* The entries of the ring after a step, the last one aside, are those of the ring
\* before it.
LEMMA LowStepped ==
  ASSUME RingInv, dir \in {-1, 1}, NEW t_request, NEW ignore, NEW r \in Step(t_request, ignore),
         NEW W, \A i \in Slots : InRing(i, cach0, cach1) => Cache[i].t \in W
  PROVE  \A i \in Slots : InRing(i, r.cach0, r.cach1) /\ (i # r.cach1 \/ i = r.cach0) =>
           r.Cache[i].t \in W
<1>1. PICK n : n = NextCache(cach1)
  OBVIOUS
<1>2. PICK f : f = IF cach0 = n THEN NextCache(cach0) ELSE cach0
  OBVIOUS
<1>3. /\ RingOf(Cache, cach0, cach1, dir) /\ Cache \in [Slots -> Entries]
      /\ cach1 \in Slots /\ cach0 \in Slots
  BY DEF RingInv, RingOf
<1>4. /\ n \in Slots /\ f \in Slots /\ cach1 # n /\ InRing(cach1, f, cach1) /\ ~InRing(n, f, cach1)
      /\ \A i \in Slots : /\ InRing(i, f, n) => i = n \/ InRing(i, f, cach1)
                          /\ InRing(i, f, cach1) => InRing(i, cach0, cach1) /\ i # n
  BY <1>1, <1>2, <1>3, RingShift
<1>5. InRing(f, f, cach1) /\ f # n
  <2>1. InRing(f, f, cach1)
    BY <1>3, <1>4 DEF InRing, Slots
  <2> QED BY <1>4, <2>1
<1>6. CASE Stands(r)
  BY <1>6 DEF Stands
<1>7. ASSUME NEW h, NEW e, r.Cache = Written(n, h, e), r.cach0 = f, r.cach1 \in {cach1, n}
      PROVE  \A i \in Slots : InRing(i, r.cach0, r.cach1) /\ (i # r.cach1 \/ i = r.cach0) =>
               r.Cache[i].t \in W
  <2>1. ASSUME NEW i \in Slots, InRing(i, f, r.cach1), i # r.cach1 \/ i = f
        PROVE  r.Cache[i].t \in W
    <3>1. InRing(i, cach0, cach1) /\ i # n
      BY <1>4, <1>5, <1>7, <2>1
    <3>2. r.Cache[i].t = Cache[i].t
      BY <1>3, <1>4, <1>7, <3>1 DEF Written, Entries
    <3> QED BY <3>1, <3>2
  <2> QED BY <1>7, <2>1
<1>8. CASE Fails(r)
  BY <1>1, <1>2, <1>7, <1>8, Zenon DEF Fails
<1>9. CASE Strays(r)
  BY <1>1, <1>2, <1>7, <1>9, Zenon DEF Strays
<1>10. CASE Moves(r)
  BY <1>1, <1>2, <1>7, <1>10, Zenon DEF Moves
<1> QED BY <1>6, <1>8, <1>9, <1>10, StepGoes

\* A step that began before g leaves a ring that begins before g.
LEMMA LowMoved ==
  ASSUME RingInv, dir = 1, NEW t_request, NEW ignore, NEW r \in Step(t_request, ignore),
         NEW op, RingStarts(op), Below(op, Cache[cach1].t, G(1).t), G(1)' = G(1),
         Cache' = r.Cache, cach0' = r.cach0, cach1' = r.cach1
  PROVE  RingStarts(op)'
<1>1. PICK g : g = G(1).t
  OBVIOUS
<1>2. PICK W : W = {x \in Times : Below(op, x, g)}
  OBVIOUS
<1>3. \A i \in Slots : InRing(i, cach0, cach1) => Cache[i].t \in W
  BY <1>1, <1>2 DEF RingStarts, RingInv, RingOf
<1>4. \A i \in Slots : InRing(i, r.cach0, r.cach1) /\ (i # r.cach1 \/ i = r.cach0) =>
        r.Cache[i].t \in W
  BY <1>3, LowStepped
<1> QED BY <1>1, <1>2, <1>4 DEF RingStarts, Below

\* Steps are not counted after a step only if they were not before it.
LEMMA StepUncounted ==
  ASSUME RingInv, NEW t_request, NEW ignore, NEW r \in Step(t_request, ignore), r.n_steps < 0
  PROVE  n_steps < 0 /\ r.Initial = Initial
<1>1. n_steps \in Int
  BY DEF RingInv
<1>2. CASE Stands(r) \/ Fails(r) \/ Strays(r)
  BY <1>1, <1>2 DEF Stands, Fails, Strays
<1>3. CASE Moves(r)
  <2>1. r.n_steps = IF Saves THEN 0 ELSE IF n_steps >= 0 THEN n_steps + 1 ELSE n_steps
    BY <1>3 DEF Moves
  <2>2. ~Saves /\ n_steps < 0
    BY <1>1, <2>1
  <2> QED BY <1>3, <2>2 DEF Moves
<1> QED BY <1>2, <1>3, StepGoes

\* A ring is carried over only when it counts no steps.
LEMMA KeepRingUncounted ==
  ASSUME IInv, OrderInv, OuterInv, NEW op, NEW t \in Requests, KeepRing(op, t)
  PROVE  n_steps < 0
<1>1. dir = 1 /\ init /\ Initial.cur + 1 \in 2 .. Len(Initial.items) - 1
  BY KeepRingIs
<1>2. n_steps \in Int /\ OuterOf(Initial)
  BY <1>1 DEF IInv, CallInv, RingInv
<1>3. n_steps >= 0 => Initial.cur = Len(Initial.items) - 1
  BY <1>1 DEF OrderInv, AtLast
<1>4. Initial.cur \in Nat /\ Len(Initial.items) \in Nat
  BY <1>2, GsAre
<1> QED BY <1>1, <1>2, <1>3, <1>4

\* A call that restarts after T0 looks no farther than the next saved state.
LEMMA PlaceNext ==
  ASSUME OuterOf(Initial), Rising(Initial.items), NEW op \in Kinds, NEW t \in Requests,
         WayOf(op, t) = 1, NEW at, at = PlaceOf(op, t)
  PROVE  \/ t < Initial.items[at + 1].t
         \/ op = "Backward" /\ t = Initial.items[at + 1].t
<1>1. T0 <= t /\ t \in Int /\ T0 \in Int
  BY TimesAre DEF WayOf
<1>2. CASE op = "Find"
  <2>1. at = FindSeek(t)
    BY <1>2 DEF PlaceOf, FindRestartAt
  <2> QED BY <2>1, FindSeekNext
<1>3. CASE op # "Find"
  <2>1. at = RestartAt(op, t, 1) /\ op \in {"Integrate", "Forward", "Backward"}
    BY <1>3 DEF PlaceOf, Kinds
  <2>2. CASE at = Seek(t)
    BY <2>2, SeekNext
  <2>3. CASE op = "Backward" /\ Initial.items[Seek(t)].t = t /\ at = Seek(t) - 1
    <3>1. Seek(t) \in Int
      <4>1. PICK q \in Seq(Entries), n \in Nat, m \in Nat :
              q = Initial.items /\ n = Len(q) /\ m \in 2 .. n - 1 /\ Divided(q, m)
        BY OuterIs
      <4> QED BY <4>1, SeekIs
    <3>2. at + 1 = Seek(t)
      BY <2>3, <3>1
    <3> QED BY <2>3, <3>2
  <2>4. at = Seek(t) \/ (op = "Backward" /\ Initial.items[Seek(t)].t = t /\ at = Seek(t) - 1)
    BY <2>1 DEF RestartAt
  <2> QED BY <2>2, <2>3, <2>4
<1> QED BY <1>2, <1>3

\* A call has ended, or a loop begins.
LEMMA LowEnds ==
  ASSUME LowInv, UNCHANGED <<Cache, cach0, cach1, dir, n_steps, Initial, init>>,
         call.phase \in {"idle", "loop"}, call'.phase = "idle"
  PROVE  LowInv'
<1>1. RingStarts("Backward")' = RingStarts("Backward")
  BY DEF RingStarts, G
<1> QED BY <1>1 DEF LowInv, Running

LEMMA LowBegins ==
  ASSUME ans' = None, call'.phase = "loop",
         dir' = 1 /\ n_steps' < 0 =>
           /\ RingStarts("Backward")'
           /\ call'.t < (G(1).t)' \/ (call'.t = (G(1).t)' /\ ~Past(call.op)')
  PROVE  LowInv'
BY DEF LowInv, Past

\* The first steps of a ring at T0 are counted.
LEMMA LowTried ==
  ASSUME IInv, OrderInv, LowInv, TrialStep \/ LongerStep
  PROVE  LowInv'
<1>1. /\ call.phase \in {"trial", "longer"} /\ ans' = ans /\ ans = None /\ n_steps \in Nat
      /\ CallInv /\ RingInv
  BY DEF TrialStep, LongerStep, OrderInv, LowInv, Running, IInv
<1>2. \E r \in Step(call.t, IgnoreStop) : n_steps' = r.n_steps
  <2>1. CASE TrialStep
    <3>1. PICK r \in Step(call.t, IgnoreStop) : Stepped(r)
      BY <2>1, Zenon DEF TrialStep
    <3> QED BY <3>1 DEF Stepped
  <2>2. CASE LongerStep
    <3>1. PICK r \in Step(call.t, IgnoreStop) : TriesHalf(r) \/ TakesLength(r)
      BY <2>2, LongerGoes
    <3>2. Stepped(r) \/ Stepped([r EXCEPT !.Cache[0].h = dir * InitH'])
      BY <3>1 DEF TriesHalf, TakesLength
    <3>3. [r EXCEPT !.Cache[0].h = dir * InitH'].n_steps = r.n_steps
      BY StepGoes
    <3> QED BY <3>2, <3>3 DEF Stepped
  <2> QED BY <2>1, <2>2
<1>3. ~(n_steps' < 0)
  BY <1>1, <1>2, StepUncounted
<1>4. call'.phase \in {"idle", "longer"}
  BY TrialPhase, LongerPhase
<1> QED BY <1>1, <1>3, <1>4 DEF LowInv

\* A loop that goes on.
LEMMA LowSteps ==
  ASSUME IInv, OrderInv, UseInv, LowInv, NEW phase \in {"loop", "retrace"}, OneStep(phase)
  PROVE  LowInv'
<1>1. PICK r \in Step(StepTo, ~HeedsStops) :
        /\ Stepped(r) /\ cach0' = r.cach0 /\ cach1' = r.cach1
        /\ call' = [call EXCEPT !.status = r.status, !.steps = @ - 1]
  BY Zenon DEF OneStep
<1>2. /\ Cache' = r.Cache /\ n_steps' = r.n_steps /\ Initial' = r.Initial /\ dir' = dir
      /\ ans' = ans /\ ans = None /\ call.phase = phase /\ init /\ init' = init
      /\ Before(call.op, Goal, Cache[cach1].t)
  BY <1>1, Zenon DEF Stepped, OneStep, Steps, LowInv, Running, UseInv
<1>3. RingInv /\ CallInv /\ dir \in {-1, 1} /\ OuterOf(Initial) /\ Cache[cach1].t \in Int
  BY <1>2, TimesAre DEF IInv, CallInv, Running, RingInv, RingOf, Entries
<1>4. call'.phase = phase /\ call'.op = call.op /\ call'.t = call.t
  BY <1>1, <1>2, <1>3 DEF CallInv
<1>5. r.Initial = Initial => (G(1) = G(1)')
  BY <1>2 DEF G
<1>6. G(1).t \in Int
  BY <1>3, GsAre
<1>7. CASE phase = "loop"
  <2>1. CASE n_steps' < 0 /\ dir = 1
    <3>1. n_steps < 0 /\ G(1)' = G(1)
      BY <1>2, <1>3, <1>5, <2>1, StepUncounted
    <3>2. /\ RingStarts("Backward")
          /\ call.t < G(1).t \/ (call.t = G(1).t /\ ~Past(call.op))
      BY <1>2, <1>7, <2>1, <3>1 DEF LowInv
    <3>3. Before(call.op, call.t, Cache[cach1].t) /\ call.t \in Int
      BY <1>2, <1>3, <1>7, TimesAre DEF Goal, UseInv
    <3>4. Below("Backward", Cache[cach1].t, G(1).t)
      BY <1>3, <1>6, <2>1, <3>2, <3>3 DEF Before, Below
    <3>5. RingStarts("Backward")'
      BY <1>1, <1>2, <1>3, <2>1, <3>1, <3>2, <3>4, LowMoved
    <3>6. call'.t < (G(1).t)' \/ (call'.t = (G(1).t)' /\ ~Past(call.op)')
      BY <1>2, <1>4, <3>1, <3>2 DEF Past
    <3> QED BY <1>2, <1>4, <1>7, <3>5, <3>6, LowBegins
  <2>2. CASE ~(n_steps' < 0 /\ dir = 1)
    BY <1>2, <1>4, <1>7, <2>2, LowBegins
  <2> QED BY <2>1, <2>2
<1>8. CASE phase = "retrace"
  <2>1. dir = 1 /\ RingStarts(call.op) /\ G(1).t <= call.t /\ n_steps = -1
    BY <1>2, <1>3, <1>8 DEF LowInv, CallInv
  <2>2. G(1)' = G(1)
    BY <1>3, <1>5, <2>1, StepOuter
  <2>3. Before(call.op, G(1).t, Cache[cach1].t)
    BY <1>2, <1>8, <2>1 DEF Goal
  <2>4. Below(call.op, Cache[cach1].t, G(1).t)
    BY <1>3, <1>6, <2>1, <2>3 DEF Before, Below, Past
  <2>5. RingStarts(call.op)'
    BY <1>1, <1>2, <1>3, <2>1, <2>2, <2>4, LowMoved
  <2>6. RingStarts(call.op)' /\ (G(1).t)' <= call'.t
    <3>1. (G(1).t)' = G(1).t
      BY <2>2
    <3> QED BY <1>4, <2>1, <2>5, <3>1 DEF RingStarts
  <2> QED BY <1>2, <1>4, <1>8, <2>1, <2>6 DEF LowInv
<1> QED BY <1>7, <1>8

\* A call begins.
LEMMA LowCalled ==
  ASSUME FindIgnoresStops, IInv, ShortInv, OrderInv, OuterInv, UseInv, LowInv, IsIdle,
         NEW op, NEW t \in Requests, Answers(op, t) \/ (op = "Find" /\ Find(t))
  PROVE  LowInv'
<1>1. /\ init /\ op \in Kinds /\ OuterOf(Initial) /\ Rising(Initial.items) /\ CallInv
      /\ t \in Int /\ call.phase = "idle"
  BY CallGoes, TimesAre DEF IInv, OrderInv, CallInv, Ordered, IsIdle
<1>2. CASE StopAtKnown(op, t)
  <2>1. call' = Idle /\ UNCHANGED <<Cache, cach0, cach1, dir, n_steps, Initial, init>>
    BY <1>1, <1>2, CallBecomes DEF StopAtKnown, ring, outer
  <2> QED BY <1>1, <2>1, LowEnds DEF Idle
<1>3. CASE /\ dir # 0 /\ Before(op, t, Cache[cach1].t) /\ (dir = 1 => t < G(1).t)
           /\ BeginLoop("loop", op, t, ListAt(op, t)) /\ RingStays /\ UNCHANGED outer
  <2>1. /\ ans' = None
        /\ call' = [phase |-> "loop", op |-> op, t |-> t, status |-> "ODE_BUG",
                    steps |-> MaxSteps, find |-> NoValue, sync |-> call'.sync]
    BY <1>1, <1>3, CallBecomes
  <2>2. G(1)' = G(1) /\ RingStarts("Backward")' = RingStarts("Backward")
        /\ UNCHANGED <<dir, n_steps>>
    BY <1>3 DEF RingStays, outer, RingStarts, G
  <2>3. dir = 1 /\ n_steps < 0 => RingStarts("Backward")
    BY <1>1 DEF LowInv
  <2>4. dir' = 1 => call'.t < (G(1).t)'
    BY <1>3, <2>1, <2>2
  <2> QED BY <2>1, <2>2, <2>3, <2>4, LowBegins
<1>4. CASE Return(op, t, "OK", FindNeighbor(op, t), ListAt(op, t)) /\ RingStays /\ UNCHANGED outer
  <2>1. call' = Idle
    BY <1>1, <1>4, CallBecomes
  <2> QED BY <1>1, <1>4, <2>1, LowEnds DEF Idle, RingStays, outer
<1>5. CASE KeepRing(op, t)
  <2>1. PICK phase \in {"loop", "retrace"} :
          /\ BeginLoop(phase, op, t, StopAhead(op, t).list)
          /\ Initial' = IF phase = "retrace" THEN Initial ELSE NextOuter
    BY <1>5 DEF KeepRing
  <2>2. /\ ans' = None
        /\ call' = [phase |-> phase, op |-> op, t |-> t, status |-> "ODE_BUG",
                    steps |-> MaxSteps, find |-> NoValue, sync |-> call'.sync]
    BY <1>1, <2>1, CallBecomes
  <2>3. /\ dir = 1 /\ n_steps < 0 /\ dir' = 1 /\ UNCHANGED <<Cache, cach0, cach1>>
        /\ Initial.cur + 1 \in 2 .. Len(Initial.items) - 1
    BY <1>5, KeepRingIs, KeepRingUncounted DEF KeepRing, ring
  <2>4. RingStarts("Backward")
    BY <1>1, <2>3 DEF LowInv
  <2>5. /\ G(1) = Initial.items[Initial.cur + 1] /\ G(2) = Initial.items[Initial.cur + 2]
        /\ NextOuter = [items |-> Initial.items, cur |-> Initial.cur + 1]
    <3>1. G(2 * dir) = G(2) /\ Initial.cur + dir + dir = Initial.cur + 2
      BY <1>1, <2>3, GsAre
    <3> QED BY <1>1, <2>3, <3>1, NextSaved
  <2>6. G(1).t <= t /\ t < G(2).t
    <3>1. dir * G(dir).t <= dir * t /\ dir * t < dir * G(2 * dir).t
      BY <1>5 DEF KeepRing, IsNear
    <3>2. G(1).t \in Int /\ G(2).t \in Int /\ 2 * dir = 2
      <4>1. G(2) \in Entries
        BY <1>1, <2>3, <2>5, GsAre
      <4> QED BY <1>1, <2>3, <4>1, GsAre DEF Entries
    <3> QED BY <1>1, <2>3, <3>1, <3>2
  <2>7. ASSUME NEW i \in Slots, InRing(i, cach0, cach1), i # cach1 \/ i = cach0
        PROVE  Cache[i].t < G(1).t
    BY <2>4, <2>7 DEF RingStarts, Below
  <2>8. CASE phase = "retrace"
    <3>1. Initial' = Initial
      BY <2>1, <2>8
    <3>2. RingStarts(op)'
      BY <2>3, <2>7, <3>1 DEF RingStarts, Below, G
    <3>3. (G(1).t)' <= t
      BY <2>6, <3>1 DEF G
    <3> QED BY <2>2, <2>3, <2>8, <3>2, <3>3 DEF LowInv, RingStarts
  <2>9. CASE phase = "loop"
    <3>1. Initial' = [items |-> Initial.items, cur |-> Initial.cur + 1]
      BY <2>1, <2>5, <2>9
    <3>2. (G(1))' = G(2)
      <4>1. PICK q, c : q = Initial.items /\ c = Initial.cur + 1
        OBVIOUS
      <4>2. q \in Seq(Entries) /\ c \in 2 .. Len(q) - 1 /\ Initial' = [items |-> q, cur |-> c]
        BY <1>1, <2>3, <3>1, <4>1, GsAre
      <4>3. (G(1))' = q[c + 1]
        BY <4>2, GetsAre DEF G
      <4>4. c + 1 = Initial.cur + 2
        BY <1>1, <4>1, GsAre
      <4> QED BY <2>5, <4>1, <4>3, <4>4
    <3>3. /\ G(1).t \in Int /\ (G(1).t)' \in Int /\ G(1).t < (G(1).t)' /\ t < (G(1).t)'
      <4>1. G(2) \in Entries
        BY <1>1, <2>3, <2>5, GsAre
      <4>2. G(1).t \in Int /\ G(2).t \in Int
        BY <1>1, <4>1, GsAre DEF Entries
      <4> QED BY <1>1, <2>6, <3>2, <4>2
    <3>4. RingStarts("Backward")'
      <4>1. ASSUME NEW i \in Slots, InRing(i, cach0', cach1'), i # cach1' \/ i = cach0'
            PROVE  Cache'[i].t < (G(1).t)'
        <5>1. InRing(i, cach0, cach1) /\ Cache'[i].t = Cache[i].t /\ Cache[i].t < G(1).t
          BY <2>3, <2>7, <4>1
        <5>2. Cache[i].t \in Int
          BY <2>3 DEF IInv, RingInv, Entries
        <5> QED BY <3>3, <5>1, <5>2
      <4> QED BY <4>1 DEF RingStarts, Below
    <3> QED BY <2>2, <2>9, <3>3, <3>4, LowBegins
  <2> QED BY <2>8, <2>9
<1>6. CASE /\ (op \in {"Integrate", "Find"} /\ t = T0) \/ StartOf(PlaceOf(op, t), WayOf(op, t))
           /\ NewRing(op, t, WayOf(op, t), PlaceOf(op, t), ListAt(op, t))
  <2>1. PICK d, at : d = WayOf(op, t) /\ at = PlaceOf(op, t)
    OBVIOUS
  <2>2. d \in {-1, 1}
    BY <2>1 DEF WayOf
  <2>3. IsSaved(op, t) \/ Restarts(op, t, d, at)
    BY <1>1, <1>6, <2>1, <2>2, NewRingIs
  <2>4. CASE IsSaved(op, t)
    BY <2>4 DEF IsSaved, LowInv, Idle, Running
  <2>5. CASE Restarts(op, t, d, at)
    <3>1. ans' = None /\ call'.phase = "loop" /\ call'.t = t /\ call'.op = op /\ dir' = d
          /\ cach0' = 0 /\ cach1' = 0 /\ Cache'[0].t = Initial.items[at].t
          /\ at \in 2 .. Len(Initial.items) - 1
      BY <2>5 DEF Restarts, StartOf
    <3>2. Initial'.items = Initial.items /\ Initial'.cur = at
      <4>1. NewRing(op, t, d, at, ListAt(op, t))
        BY <1>6, <2>1, Zenon
      <4>2. /\ Initial'.items = Initial.items
            /\ dir' = 0 \/ (dir' = d /\ Initial'.cur = at)
        BY <1>1, <2>2, <4>1, NewRingOuter
      <4> QED BY <2>2, <3>1, <4>2
    <3>3. Initial' = [items |-> Initial.items, cur |-> at]
      <4>1. PICK q, c : Initial = [items |-> q, cur |-> c]
        BY <1>1, GsAre
      <4>2. Initial' \in {Initial, [Initial EXCEPT !.cur = at]}
        BY <1>6, <2>1, Zenon DEF NewRing, StepsFrom
      <4> QED BY <3>2, <4>1, <4>2
    <3>4. (G(1))' = Initial.items[at + 1]
      <4>1. Initial.items \in Seq(Entries)
        BY <1>1, GsAre
      <4> QED BY <3>1, <3>3, <4>1, GetsAre DEF G
    <3>5. CASE d = 1
      <4>1. t < Initial.items[at + 1].t \/ (op = "Backward" /\ t = Initial.items[at + 1].t)
        BY <1>1, <2>1, <3>5, PlaceNext
      <4>2. Initial.items[at].t < Initial.items[at + 1].t
        <5>1. /\ at \in 1 .. Len(Initial.items) /\ at + 1 \in 1 .. Len(Initial.items)
              /\ at < at + 1
          BY <1>1, <3>1, GsAre
        <5> QED BY <1>1, <5>1, Zenon DEF Rising
      <4>3. RingStarts("Backward")'
        <5>1. \A i \in Slots : InRing(i, cach0', cach1') => i = 0
          BY <3>1 DEF InRing, Slots
        <5> QED BY <3>1, <3>4, <4>2, <5>1 DEF RingStarts, Below
      <4>4. call'.t < (G(1).t)' \/ (call'.t = (G(1).t)' /\ ~Past(call.op)')
        BY <3>1, <3>4, <3>5, <4>1 DEF Past
      <4> QED BY <3>1, <4>3, <4>4, LowBegins
    <3>6. CASE d # 1
      BY <3>1, <3>6, LowBegins
    <3> QED BY <3>5, <3>6
  <2> QED BY <2>3, <2>4, <2>5
<1> QED BY <1>2, <1>3, <1>4, <1>5, <1>6, CallGoes

LEMMA LowKept ==
  ASSUME FindIgnoresStops, IInv, ShortInv, OrderInv, OuterInv, UseInv, LowInv, [Next]_vars
  PROVE  LowInv'
<1>1. CASE UNCHANGED vars \/ IgnoreStopOn \/ IgnoreStopOff
  <2>1. UNCHANGED <<call, Cache, cach0, cach1, dir, n_steps, Initial, init>> /\ ans' \in {None, ans}
    BY <1>1 DEF vars, ring, outer, IgnoreStopOn, IgnoreStopOff
  <2>2. G(1)' = G(1) /\ \A op : RingStarts(op)' = RingStarts(op) /\ Past(op)' = Past(op)
    BY <2>1 DEF RingStarts, G, Past
  <2> QED BY <2>1, <2>2 DEF LowInv, Running, Past, RingStarts
<1>2. ASSUME NEW dt \in Dts, Initialize(dt)
      PROVE  LowInv'
  <2>1. ans' = None /\ call'.phase \in {"idle", "trial"} /\ n_steps' = 0
    BY <1>2 DEF Initialize, Idle, IsIdle
  <2> QED BY <2>1 DEF LowInv
<1>3. CASE RetraceEnd
  <2>1. call'.phase = "loop" /\ n_steps' = 0 /\ ans' = None
    BY <1>3 DEF RetraceEnd, IInv, CallInv, LowInv, Running
  <2> QED BY <2>1, LowBegins
<1>4. CASE LoopEnd
  <2>1. call' = Idle
    BY <1>4, CallBecomes DEF LoopEnd, IInv
  <2> QED BY <1>4, <2>1, LowEnds DEF LoopEnd, Idle, ring, outer
<1> QED BY <1>1, <1>2, <1>3, <1>4, LowTried, LowSteps, LowCalled, NextCases

\* What an answer with the status ODE_BUG says.
Misled ==
  /\ Retraces(ans.t) /\ Covers(ans.op, ans.t) /\ ~Extends(ans.op, ans.t)
  /\ AtLastOuter(dir) /\ dir * G(0).t <= dir * ans.t

\* The ring was carried over behind the last saved state and begins before the goal.
Carried ==
  /\ Retraces(call.t) /\ dir = 1 /\ AtLastOuter(dir)
  /\ G(0).t <= call.t /\ Below(call.op, Cache[cach0].t, call.t)

\* A loop that has taken no step has one to take, unless the ring was carried over.
BugInv ==
  /\ ans # None /\ ans.status = "ODE_BUG" => Misled
  /\ call.phase = "retrace" => Retraces(call.t)
  /\ call.phase = "loop" /\ call.status = "ODE_BUG" =>
       Carried \/ Before(call.op, call.t, Cache[cach1].t)

LEMMA BugEnds ==
  ASSUME ans' = None \/ ans'.status # "ODE_BUG" \/ Misled', call'.phase \notin {"loop", "retrace"}
  PROVE  BugInv'
BY DEF BugInv

LEMMA BugBegins ==
  ASSUME ans' = None, NEW phase, NEW op, NEW t,
         call'.phase = phase, call'.op = op, call'.t = t,
         phase = "retrace" => Retraces(t),
         phase = "loop" => call'.status # "ODE_BUG" \/ Carried' \/ Before(op, t, Cache[cach1].t)'
  PROVE  BugInv'
BY DEF BugInv, Retraces, Before, Past

\* A status that a step returns is not ODE_BUG.
LEMMA StepStatus ==
  ASSUME NEW t_request, NEW ignore, NEW r \in Step(t_request, ignore)
  PROVE  r.status # "ODE_BUG"
BY StepGoes DEF Stands, Fails, Strays, Moves

LEMMA RestartsBefore ==
  ASSUME IInv, OrderInv, init, NEW op \in Kinds, NEW t \in Requests,
         Restarts(op, t, WayOf(op, t), PlaceOf(op, t))
  PROVE  Before(op, t, Cache[cach1].t)'
<1>1. PICK d, at : d = WayOf(op, t) /\ at = PlaceOf(op, t)
  OBVIOUS
<1>2. /\ dir' = d /\ cach1' = 0 /\ Cache'[0].t = Initial.items[at].t
      /\ at \in 2 .. Len(Initial.items) - 1
      /\ op \in {"Integrate", "Find"} => t \notin {T0, Initial.items[at].t}
  BY <1>1 DEF Restarts, StartOf
<1>3. OuterOf(Initial) /\ Rising(Initial.items)
  BY DEF IInv, CallInv, OrderInv, Ordered
<1>4. Precedes(Initial.items[at].t, op, t, d)
  <2>1. CASE op = "Find"
    <3>1. at = FindRestartAt(t, d)
      BY <1>1, <2>1 DEF PlaceOf
    <3> QED BY <1>1, <1>2, <1>3, <2>1, <3>1, FindBefore
  <2>2. CASE op # "Find"
    <3>1. at = RestartAt(op, t, d) /\ op \in {"Integrate", "Forward", "Backward"}
      BY <1>1, <2>2 DEF PlaceOf, Kinds
    <3> QED BY <1>1, <1>2, <1>3, <3>1, RestartBefore
  <2> QED BY <2>1, <2>2
<1> QED BY <1>2, <1>4 DEF Precedes, PastTo, Before, Past

LEMMA BugKept ==
  ASSUME FindIgnoresStops, IInv, ShortInv, OrderInv, OuterInv, UseInv, LowInv, BugInv, [Next]_vars
  PROVE  BugInv'
<1>1. CASE UNCHANGED vars \/ IgnoreStopOn \/ IgnoreStopOff
  <2>1. UNCHANGED <<call, Cache, cach0, cach1, dir, Initial>> /\ ans' \in {None, ans}
    BY <1>1 DEF vars, ring, outer, IgnoreStopOn, IgnoreStopOff
  <2>2. UNCHANGED <<G(0), G(1), AtLastOuter(dir), dir * G(0).t, dir * G(dir).t>>
    BY <2>1 DEF AtLastOuter, G
  <2>3. Carried' = Carried
    BY <2>1, <2>2 DEF Carried, Retraces
  <2>4. ans' = ans => Misled' = Misled
    BY <2>1, <2>2 DEF Misled, Retraces, Covers, Extends, Before, Past
  <2> QED BY <2>1, <2>3, <2>4 DEF BugInv, Retraces, Before, Past
<1>2. ASSUME NEW dt \in Dts, Initialize(dt)
      PROVE  BugInv'
  <2>1. call'.phase \in {"idle", "trial"} /\ ans' = None
    BY <1>2 DEF Initialize, Idle, IsIdle
  <2> QED BY <2>1, BugEnds
<1>3. CASE TrialStep \/ LongerStep
  <2>1. ans' = None
    BY <1>3 DEF TrialStep, LongerStep, LowInv, Running
  <2>2. call'.phase \in {"idle", "longer"}
    BY <1>3, LongerPhase, TrialPhase
  <2> QED BY <2>1, <2>2, BugEnds
<1>4. ASSUME NEW phase \in {"loop", "retrace"}, OneStep(phase)
      PROVE  BugInv'
  <2>1. ans' = None /\ call.phase = phase
    BY <1>4 DEF OneStep, Steps, LowInv, Running
  <2>2. PICK r \in Step(StepTo, ~HeedsStops) :
          call' = [call EXCEPT !.status = r.status, !.steps = @ - 1]
    BY <1>4, Zenon DEF OneStep
  <2>3. call'.phase = phase /\ call'.t = call.t /\ call'.op = call.op /\ call'.status # "ODE_BUG"
    BY <2>1, <2>2, StepStatus DEF IInv, CallInv
  <2>4. phase = "retrace" => Retraces(call.t)
    BY <2>1 DEF BugInv
  <2> QED BY <2>1, <2>3, <2>4, BugBegins
<1>5. CASE RetraceEnd
  <2>1. /\ call.phase = "retrace" /\ call'.phase = "loop" /\ call'.t = call.t /\ call'.op = call.op
        /\ ans' = None /\ Initial' = NextOuter /\ UNCHANGED <<Cache, cach0, cach1, dir>>
    BY <1>5 DEF RetraceEnd, IInv, CallInv, LowInv, Running, ring
  <2>2. /\ dir = 1 /\ RingStarts(call.op) /\ G(1).t <= call.t /\ AtLastOuter(2 * dir)
        /\ Initial.cur + dir \in 2 .. Len(Initial.items) - 1 /\ OuterOf(Initial) /\ Retraces(call.t)
    BY <2>1 DEF LowInv, OrderInv, IInv, CallInv, Running, BugInv
  <2>3. (G(0))' = G(1) /\ (G(1))' = G(2)
    <3>1. PICK q, c : q = Initial.items /\ c = Initial.cur + 1
      OBVIOUS
    <3>2. q \in Seq(Entries) /\ c \in 2 .. Len(q) - 1 /\ Initial.cur + dir = c /\ dir + c = c + 1
          /\ Initial.cur + dir + dir = c + 1 /\ 2 * dir = 2
      BY <2>2, <3>1, GsAre
    <3>3. Initial' = [items |-> q, cur |-> c] /\ G(1) = q[c] /\ G(2) = q[c + 1]
      BY <2>1, <2>2, <3>1, <3>2, NextSaved
    <3>4. (G(0))' = q[c] /\ (G(1))' = q[c + 1]
      BY <3>2, <3>3, GetsAre DEF G
    <3> QED BY <3>3, <3>4
  <2>4. AtLastOuter(dir)'
    <3>1. 2 * dir = 2
      BY <2>2
    <3> QED BY <2>1, <2>2, <2>3, <3>1 DEF AtLastOuter
  <2>5. Below(call.op, Cache[cach0].t, call.t)
    <3>1. cach0 \in Slots /\ InRing(cach0, cach0, cach1) /\ Cache[cach0].t \in Int
      <4>1. RingOf(Cache, cach0, cach1, dir) /\ Cache \in [Slots -> Entries]
        BY <2>2 DEF IInv, RingInv
      <4> QED BY <4>1, ODEAssumption DEF RingOf, InRing, Slots, Entries
    <3>2. Below(call.op, Cache[cach0].t, G(1).t)
      BY <2>2, <3>1 DEF RingStarts
    <3>3. G(1).t \in Int /\ call.t \in Int
      BY <2>1, <2>2, GsAre, TimesAre DEF UseInv
    <3> QED BY <2>2, <3>1, <3>2, <3>3 DEF Below
  <2>6. Carried'
    BY <2>1, <2>2, <2>3, <2>4, <2>5 DEF Carried, Retraces, Below
  <2> QED BY <2>1, <2>6, BugBegins
<1>6. CASE LoopEnd
  <2>1. PICK status : /\ status = IF Steps("loop") THEN "STEP_LIMIT" ELSE call.status
                      /\ Return(call.op, call.t, status, cach1, Stops)
    BY <1>6 DEF LoopEnd
  <2>2. call.phase = "loop" /\ UNCHANGED <<Cache, cach0, cach1, dir, Initial>>
    BY <1>6 DEF LoopEnd, ring, outer
  <2>3. call'.phase = "idle"
    <3>1. call' = Idle
      BY <2>1, CallBecomes DEF IInv
    <3> QED BY <3>1 DEF Idle
  <2>4. ans'.status # "ODE_BUG" \/ (status = "ODE_BUG" /\ ans'.t = call.t /\ ans'.op = call.op)
    <3>1. PICK st, at, lo, hi, h :
            /\ ans' = Answer(call.op, call.t, st, at, lo, hi, h)
            /\ st \in {"OK", "STOP_CONDITION", status}
      BY <2>1, Zenon DEF Return
    <3>2. ans'.status = st /\ ans'.t = call.t /\ ans'.op = call.op
      BY <3>1 DEF Answer
    <3> QED BY <3>1, <3>2
  <2>5. CASE status = "ODE_BUG" /\ ans'.t = call.t /\ ans'.op = call.op
    <3>1. /\ Carried /\ ~Before(call.op, call.t, Cache[cach1].t)
      BY <2>1, <2>2, <2>5 DEF Steps, Goal, BugInv
    <3>2. /\ dir = 1 /\ AtLastOuter(dir) /\ G(0).t <= call.t /\ Retraces(call.t)
          /\ Below(call.op, Cache[cach0].t, call.t)
      BY <3>1 DEF Carried
    <3>3. /\ Cache[cach0].t \in Int /\ Cache[cach1].t \in Int /\ G(0).t \in Int /\ call.t \in Int
          /\ call.op \in Kinds
      <4>1. RingOf(Cache, cach0, cach1, dir) /\ Cache \in [Slots -> Entries] /\ OuterOf(Initial)
        BY <2>2, <3>2 DEF IInv, RingInv, CallInv, Running
      <4> QED BY <2>2, <4>1, GsAre, TimesAre DEF RingOf, Entries, UseInv
    <3>4. Covers(call.op, call.t)
      BY <3>1, <3>2, <3>3 DEF Covers, Below, Before, Past, Kinds
    <3>5. ~Extends(call.op, call.t)
      BY <3>1 DEF Extends
    <3>6. dir * G(0).t <= dir * call.t
      BY <3>2, <3>3
    <3>7. UNCHANGED <<G(0), AtLastOuter(dir), dir * G(0).t, dir * G(dir).t>>
      BY <2>2 DEF AtLastOuter, G
    <3>8. Misled'
      BY <2>2, <2>5, <3>2, <3>4, <3>5, <3>6, <3>7
         DEF Misled, Retraces, Covers, Extends, Before, Past
    <3> QED BY <2>3, <3>8, BugEnds
  <2> QED BY <2>3, <2>4, <2>5, BugEnds
<1>7. ASSUME NEW op, NEW t \in Requests, IsIdle, Answers(op, t) \/ (op = "Find" /\ Find(t))
      PROVE  BugInv'
  <2>1. init /\ op \in Kinds
    BY <1>7, CallGoes
  <2>2. CASE StopAtKnown(op, t)
    <3>1. call' = Idle /\ ans'.status = "STOP_CONDITION"
      BY <2>2, CallBecomes DEF StopAtKnown, Answer, IInv
    <3> QED BY <3>1, BugEnds DEF Idle
  <2>3. CASE /\ dir # 0 /\ Before(op, t, Cache[cach1].t)
             /\ BeginLoop("loop", op, t, ListAt(op, t)) /\ RingStays
    <3>1. CallInv
      BY DEF IInv
    <3>2. /\ ans' = None
          /\ call' = [phase |-> "loop", op |-> op, t |-> t, status |-> "ODE_BUG",
                      steps |-> MaxSteps, find |-> NoValue, sync |-> call'.sync]
      BY <2>3, <3>1, CallBecomes
    <3>3. Before(op, t, Cache[cach1].t)'
      BY <2>3 DEF RingStays, Before, Past
    <3> QED BY <3>2, <3>3, BugBegins
  <2>4. CASE Return(op, t, "OK", FindNeighbor(op, t), ListAt(op, t))
    <3>1. call' = Idle
      BY <2>4, CallBecomes DEF IInv
    <3>2. ans'.status \in {"OK", "STOP_CONDITION"}
      BY <2>4 DEF Return, Answer
    <3> QED BY <3>1, <3>2, BugEnds DEF Idle
  <2>5. CASE KeepRing(op, t)
    <3>1. Retraces(t)
      BY <2>5, KeepRingIs
    <3>2. PICK phase \in {"loop", "retrace"} : BeginLoop(phase, op, t, StopAhead(op, t).list)
      BY <2>5 DEF KeepRing
    <3>4. Before(op, t, Cache[cach1].t)'
      <4>1. /\ dir = 1 /\ n_steps < 0 /\ dir' = dir /\ UNCHANGED <<Cache, cach0, cach1>>
            /\ ~Covers(op, t) /\ dir * G(dir).t <= dir * t
        BY <2>5, KeepRingIs, KeepRingUncounted DEF KeepRing, IsNear, ring
      <4>2. RingStarts("Backward")
        BY <1>7, <2>1, <4>1 DEF LowInv, IsIdle
      <4>3. /\ cach0 \in Slots /\ InRing(cach0, cach0, cach1) /\ Cache[cach0].t \in Int
            /\ Cache[cach1].t \in Int
        <5>1. RingOf(Cache, cach0, cach1, dir) /\ Cache \in [Slots -> Entries]
          BY <4>1 DEF IInv, RingInv
        <5> QED BY <5>1, ODEAssumption DEF RingOf, InRing, Slots, Entries
      <4>4. G(1).t \in Int /\ t \in Int
        BY <2>1, GsAre, TimesAre DEF IInv, CallInv
      <4>5. Cache[cach0].t < t
        <5>1. Cache[cach0].t < G(1).t
          BY <4>2, <4>3 DEF RingStarts, Below
        <5> QED BY <4>1, <4>3, <4>4, <5>1
      <4>6. Before(op, t, Cache[cach1].t)
        BY <2>1, <4>1, <4>3, <4>4, <4>5 DEF Covers, Before, Past, Kinds
      <4> QED BY <4>1, <4>6 DEF Before, Past
    <3>3. /\ ans' = None
          /\ call' = [phase |-> phase, op |-> op, t |-> t, status |-> "ODE_BUG",
                      steps |-> MaxSteps, find |-> NoValue, sync |-> call'.sync]
      BY <3>2, CallBecomes DEF IInv
    <3> QED BY <3>1, <3>3, <3>4, BugBegins
  <2>6. CASE /\ (op \in {"Integrate", "Find"} /\ t = T0) \/ StartOf(PlaceOf(op, t), WayOf(op, t))
             /\ NewRing(op, t, WayOf(op, t), PlaceOf(op, t), ListAt(op, t))
    <3>1. WayOf(op, t) \in {-1, 1}
      BY DEF WayOf
    <3>2. IsSaved(op, t) \/ Restarts(op, t, WayOf(op, t), PlaceOf(op, t))
      BY <1>7, <2>1, <2>6, <3>1, NewRingIs
    <3>3. CASE IsSaved(op, t)
      <4>1. call' = Idle /\ ans'.status = "OK"
        BY <3>3 DEF IsSaved, Answer
      <4> QED BY <4>1, BugEnds DEF Idle
    <3>4. CASE Restarts(op, t, WayOf(op, t), PlaceOf(op, t))
      <4>1. Before(op, t, Cache[cach1].t)'
        BY <2>1, <3>4, RestartsBefore
      <4>2. /\ ans' = None
            /\ call' = [phase |-> "loop", op |-> op, t |-> t, status |-> "ODE_BUG",
                        steps |-> MaxSteps, find |-> NoValue, sync |-> call'.sync]
        BY <3>4 DEF Restarts
      <4> QED BY <4>1, <4>2, BugBegins
    <3> QED BY <3>2, <3>3, <3>4
  <2> QED BY <1>7, <2>2, <2>3, <2>4, <2>5, <2>6, CallGoes
<1> QED BY <1>1, <1>2, <1>3, <1>4, <1>5, <1>6, <1>7, NextCases

LEMMA BugInits == Init => OuterInv /\ LowInv /\ BugInv
<1> SUFFICES ASSUME Init PROVE OuterInv /\ LowInv /\ BugInv
  OBVIOUS
<1>1. dir = 0 /\ init = FALSE /\ call.phase = "idle" /\ ans = None
  BY DEF Init, Idle
<1> QED BY <1>1 DEF OuterInv, LowInv, BugInv, Running

\* What the theorems of this part assume and what they rest on.
LoopsRight == FindIgnoresStops /\ StepsSuffice /\ TrialUnsaved
LoopInv == IInv /\ ShortInv /\ OrderInv /\ UseInv /\ OuterInv /\ LowInv /\ BugInv

LEMMA LoopInvariance ==
  ASSUME LoopsRight
  PROVE  /\ Init => LoopInv
         /\ LoopInv /\ [Next]_vars => LoopInv'
<1>1. FindIgnoresStops /\ StepsSuffice /\ TrialUnsaved
  BY DEF LoopsRight
<1>2. Init => OrderInv
  BY TimesAre DEF Init, OrderInv, Idle, Running
<1>3. Init => LoopInv
  BY <1>2, Inits, ShortInits, UseInits, BugInits DEF LoopInv
<1>4. LoopInv /\ [Next]_vars => IInv' /\ ShortInv' /\ OrderInv'
  BY <1>1, NextKeeps, NextShort, NextOrder DEF LoopInv
<1>5. LoopInv /\ [Next]_vars => UseInv' /\ OuterInv' /\ LowInv' /\ BugInv'
  BY <1>1, UseKept, OuterInvKept, LowKept, BugKept DEF LoopInv
<1> QED BY <1>3, <1>4, <1>5 DEF LoopInv

\* ODE_BUG is the answer for a time after T0 only, of an ODE that saves states in a
\* ring of four entries or more: only when a ring is carried over into the next outer
\* interval (Integrate.C:58-78) does a loop begin with its goal behind it.
THEOREM BugOnlyRetracing ==
  ASSUME LoopsRight
  PROVE  Spec => [](ans # None /\ ans.status = "ODE_BUG" => Retraces(ans.t))
<1>1. LoopInv => (ans # None /\ ans.status = "ODE_BUG" => Retraces(ans.t))
  BY DEF LoopInv, BugInv, Misled
<1> QED BY <1>1, LoopInvariance, PTL DEF Spec

\* The state that an ODE_BUG hides from its caller (Forward.C:46-78, Integrate.C:58-78,
\* Backward.C:46-82) is on the ring: the retrace that came before has gone beyond what
\* was asked for, no loop went astray.  Of a ring that does not reach the time, or that
\* a further step would have to extend, the caller never hears ODE_BUG, whatever was
\* asked before, which steps failed and which states were saved.
THEOREM NoBugHolds ==
  ASSUME LoopsRight
  PROVE  Spec => []NoBug
<1>1. LoopInv => NoBug
  BY DEF LoopInv, BugInv, Misled, NoBug
<1> QED BY <1>1, LoopInvariance, PTL DEF Spec

-----------------------------------------------------------------------------
(* Answers on finished steps.                                                *)

\* A ring can lose all its entries but one, and an answer at the time of the only one
\* is read on the slot before or behind it.  With two entries that happens when a step
\* fails behind the ring, when the ring begins at a state that was saved at the end of
\* F's domain, and when Initialize keeps the trial steps' outcome only; with more
\* entries a state at the end of the domain must have been saved, or stops have led
\* Initialize round the ring.
EdgesApart ==
  IF NCache = 2 THEN ~FailLate /\ CacheStep <= 0 /\ Dts \subseteq {0}
  ELSE (FailLate \/ CacheStep <= 0) /\ (NeverStop \/ Dts \subseteq {0})

AtEdge(t) == t \in {Tmin, Tmax}

\* The slot behind the last entry holds no time before it.
Followed == NCache > 2 /\ Toward(dir, Cache[NextCache(cach1)].t - Cache[cach1].t) >= 0

\* A loop has yet to take its first step, and F can be evaluated where that ends.
Fresh ==
  /\ call.phase = "loop" /\ call.status = "ODE_BUG" /\ call.steps = MaxSteps
  /\ Before(call.op, call.t, Cache[cach1].t) /\ ~AtEdge(Cache[cach1].t)

\* With FailLate, no state at an edge is saved.
SavedInside ==
  FailLate => \A i \in 2 .. Len(Initial.items) - 1 : ~AtEdge(Initial.items[i].t)

LoneInv ==
  /\ init \/ Running => SavedInside
  /\ IsIdle /\ init /\ dir # 0 /\ cach0 = cach1 => Followed /\ cache \in {cach1, NextCache(cach1)}
  /\ call.phase \in {"loop", "retrace"} /\ cach0 = cach1 => Followed \/ Fresh
  /\ call.phase \in {"trial", "longer"} => NCache > 2 /\ NeverStop
  /\ call.phase = "longer" => cach0 = 0 /\ cach1 = NextCache(0)

\* Find does not meet stops.
FindInv ==
  call.phase \in {"loop", "retrace"} /\ call.op = "Find" =>
    NeverStop /\ call.status # "STOP_CONDITION"

\* A step from the ring's only entry: it stands, it fails behind the entry, or there
\* are two entries.
LEMMA LoneStepped ==
  ASSUME EdgesApart, RingInv, dir \in {-1, 1}, dir' = dir,
         NEW t_request, NEW ignore, NEW r \in Step(t_request, ignore),
         Cache' = r.Cache, cach0' = r.cach0, cach1' = r.cach1,
         cach0 = cach1 => Followed \/ ~AtEdge(Cache[cach1].t)
  PROVE  /\ cach0' = cach1' => Followed'
         /\ r.status \in {"OK", "STOP_CONDITION"} => cach0' # cach1' /\ cach1' = NextCache(cach1)
<1>1. PICK n, h : n = NextCache(cach1) /\ h = Accepted(Cache[cach1])
  OBVIOUS
<1>2. RingOf(Cache, cach0, cach1, dir) /\ Cache \in [Slots -> Entries]
  BY DEF RingInv
<1>3. /\ cach1 \in Slots /\ cach0 \in Slots /\ n \in Slots /\ n # cach1
      /\ InRing(cach1, cach0, cach1) /\ Cache[cach1].h \in Int
  BY <1>1, <1>2, RingShift DEF RingOf, Entries
<1>4. Cache[cach1].t \in Times /\ Toward(dir, Cache[cach1].h) > 0
  BY <1>2, <1>3 DEF RingOf
<1>5. /\ h \in Int /\ Toward(dir, h) >= 0 /\ Cache[cach1].t \in Int
      /\ h = 0 => AtEdge(Cache[cach1].t)
  BY <1>1, <1>3, <1>4, AcceptedIs, TimesAre DEF AtEdge
<1>6. NextCache(n) \in Slots /\ NextCache(n) # n
  BY <1>3, RingShift
<1>7. CASE Stands(r)
  <2>1. UNCHANGED <<Cache, cach0, cach1>> /\ r.status = "NON_CONVERGENCE" /\ h = 0
    BY <1>1, <1>7 DEF Stands
  <2>2. cach0 = cach1 => Followed
    BY <1>5, <2>1
  <2> QED BY <2>1, <2>2 DEF Followed
<1>8. CASE Fails(r)
  <2>1. PICK e : e.t = Cache[cach1].t + h /\ r.Cache = Written(n, h, e)
    BY <1>1, <1>8 DEF Fails
  <2>2. cach1' = cach1 /\ r.status = "FAILED" /\ FailLate /\ h # 0
    BY <1>1, <1>8 DEF Fails
  <2>3. NCache > 2
    BY <2>2, ODEAssumption DEF EdgesApart
  <2>4. Cache'[n] = e /\ Cache'[cach1].t = Cache[cach1].t
    BY <1>2, <1>3, <2>1 DEF Written, Entries
  <2>5. Toward(dir, Cache'[n].t - Cache'[cach1].t) >= 0
    BY <1>5, <2>1, <2>4
  <2> QED BY <1>1, <2>2, <2>3, <2>5 DEF Followed
<1>9. CASE Moves(r) \/ Strays(r)
  <2>1. cach1' = n /\ cach0' = IF cach0 = n THEN NextCache(cach0) ELSE cach0
    BY <1>1, <1>9, Zenon DEF Moves, Strays
  <2> QED BY <1>1, <1>6, <2>1
<1> QED BY <1>7, <1>8, <1>9, StepGoes

\* No step that saves a state ends where F fails late.
LEMMA SavedStepped ==
  ASSUME IInv, Running, SavedInside, NEW t_request, NEW ignore, NEW r \in Step(t_request, ignore),
         Initial' = r.Initial
  PROVE  SavedInside'
<1>1. dir \in {-1, 1} /\ OuterOf(Initial)
  BY DEF IInv, CallInv
<1>2. CASE r.Initial = Initial
  BY <1>2 DEF SavedInside
<1>3. CASE Moves(r) /\ r.Initial # Initial
  <2>1. PICK e : /\ r.Initial = EnterOuter(Initial, e) /\ e = r.Cache[r.cach1]
                 /\ FailLate => ~AtEdge(e.t)
    <3>1. PICK e : /\ r.Initial = EnterOuter(Initial, e) /\ r.cach1 = NextCache(cach1)
                   /\ r.Cache = Written(NextCache(cach1), Accepted(Cache[cach1]), e)
                   /\ e.t = Cache[cach1].t + Accepted(Cache[cach1])
      BY <1>3 DEF Moves
    <3>2. FailLate => ~AtEdge(e.t)
      BY <1>3, <3>1 DEF Moves, AtEdge
    <3>3. /\ cach1 \in Slots /\ NextCache(cach1) \in Slots /\ NextCache(cach1) # cach1
          /\ Cache \in [Slots -> Entries]
      BY <1>1, RingShift DEF IInv, RingInv, RingOf
    <3>4. r.Cache[r.cach1] = e
      BY <3>1, <3>3 DEF Written
    <3> QED BY <3>1, <3>2, <3>4
  <2>2. e \in Entries
    <3>1. \E x \in Entries : x = r.Cache[r.cach1]
      BY <1>1, <1>3, StepLands DEF IInv, Stands
    <3> QED BY <2>1, <3>1
  <2>3. PICK q, s, at : /\ q = Initial'.items /\ s = Initial.items
                        /\ at = IF dir > 0 THEN Len(s) ELSE 2
    OBVIOUS
  <2>4. Inserted(q, s, at, e)
    BY <1>1, <2>1, <2>2, <2>3, EnteredIs
  <2>5. Len(s) \in Nat /\ Len(s) >= 3 /\ at \in 2 .. Len(s) /\ Len(q) = Len(s) + 1
    BY <1>1, <2>3, <2>4 DEF OuterOf, Inserted
  <2>6. ASSUME FailLate, NEW i \in 2 .. Len(q) - 1
        PROVE  ~AtEdge(q[i].t)
    <3>1. i \in 1 .. Len(s) + 1
      BY <2>5
    <3>2. q[i] = IF i < at THEN s[i] ELSE IF i = at THEN e ELSE s[i - 1]
      BY <2>4, <3>1 DEF Inserted
    <3>3. i < at => i \in 2 .. Len(s) - 1
      BY <2>5
    <3>4. ~(i < at) /\ i # at => i - 1 \in 2 .. Len(s) - 1
      BY <2>5
    <3> QED BY <2>1, <2>3, <2>6, <3>2, <3>3, <3>4 DEF SavedInside
  <2> QED BY <2>3, <2>6 DEF SavedInside
<1>4. Moves(r) \/ r.Initial = Initial
  BY StepGoes DEF Stands, Fails, Strays
<1> QED BY <1>2, <1>3, <1>4

\* A ring begins where F can be evaluated a step farther on.
LEMMA SavedStarts ==
  ASSUME EdgesApart, IInv, OuterInv, SavedInside, init, NEW at \in 2 .. Len(Initial.items) - 1
  PROVE  ~AtEdge(Initial.items[at].t)
<1>1. CASE FailLate
  BY <1>1 DEF SavedInside
<1>2. CASE ~FailLate
  <2>1. CacheStep <= 0
    BY <1>2 DEF EdgesApart
  <2>2. Len(Initial.items) = 3 /\ OuterOf(Initial)
    BY <2>1 DEF OuterInv, IInv, CallInv
  <2>3. PICK m \in 2 .. Len(Initial.items) - 1 : Divided(Initial.items, m)
    BY <2>2 DEF OuterOf
  <2>4. m = 2 /\ at = 2
    BY <2>2
  <2>5. Initial.items[2].t = T0
    BY <2>3, <2>4 DEF Divided
  <2> QED BY <2>4, <2>5, TimesAre DEF AtEdge
<1> QED BY <1>1, <1>2

\* The answer at the time of the only entry is read on the slot behind it.
LEMMA LoneNeighbor ==
  ASSUME RingInv, dir \in {-1, 1}, cach0 = cach1, cache \in {cach1, NextCache(cach1)}, Followed,
         NEW op, NEW t \in Int, Covers(op, t)
  PROVE  /\ op \in {"Integrate", "Find"} /\ t = Cache[cach1].t
         /\ FindNeighbor(op, t) = NextCache(cach1) /\ PrevCache(NextCache(cach1)) = cach1
<1>1. cach1 \in Slots /\ cach0 \in Slots /\ Cache \in [Slots -> Entries]
  BY DEF RingInv, RingOf
<1>2. PICK n : n = NextCache(cach1)
  OBVIOUS
<1>3. n \in Slots /\ n # cach1 /\ PrevCache(n) = cach1
  BY <1>1, <1>2, RingShift, PrevSlot
<1>4. PICK x, y : x = Cache[cach1].t /\ y = Cache[n].t
  OBVIOUS
<1>5. x \in Int /\ y \in Int
  BY <1>1, <1>3, <1>4 DEF Entries
<1>6. op \in {"Integrate", "Find"} /\ t = x
  BY <1>4, <1>5 DEF Covers, Past
<1>7. Begin = n
  BY <1>2, <1>3 DEF Begin
<1>8. Toward(dir, y - x) >= 0 /\ NCache # 2
  BY <1>2, <1>4, ODEAssumption DEF Followed
<1>9. ~(dir * y < dir * t)
  BY <1>5, <1>6, <1>8 DEF Toward
<1>10. /\ FindNeighbor(op, t) = BracketAt(NearOf(t, UpFrom(t), DownFrom(t)), op, t)
       /\ DownTo(DownFrom(t), Begin, cach0, Preceded(t))
  BY <1>1, <1>3, <1>7, NeighborLoops
<1>11. n \in Preceded(t)
  BY <1>3, <1>4, <1>5, <1>6 DEF Preceded
<1>12. DownFrom(t) = n
  BY <1>7, <1>10, <1>11 DEF DownTo
<1>13. NearOf(t, UpFrom(t), DownFrom(t)) = n
  BY <1>4, <1>7, <1>8, <1>9, <1>12 DEF NearOf
<1>14. FindNeighbor(op, t) = n
  BY <1>6, <1>10, <1>13 DEF BracketAt, Past
<1> QED BY <1>2, <1>3, <1>4, <1>6, <1>14

\* The saved states stay, whichever of them is current.
LEMMA SavedStay ==
  ASSUME SavedInside, Initial'.items = Initial.items
  PROVE  SavedInside'
BY DEF SavedInside

\* A call has ended, or a loop begins.
LEMMA LoneEnds ==
  ASSUME SavedInside', call'.phase = "idle",
         cach0' = cach1' /\ dir' # 0 /\ init' => Followed' /\ cache' \in {cach1', NextCache(cach1')}
  PROVE  LoneInv'
BY DEF LoneInv, IsIdle

LEMMA LoneBegins ==
  ASSUME SavedInside', call'.phase \in {"loop", "retrace"},
         cach0' = cach1' => Followed' \/ (call'.phase = "loop" /\ Fresh')
  PROVE  LoneInv'
BY DEF LoneInv, IsIdle

LEMMA TrialLone ==
  ASSUME EdgesApart, LoopInv, LoneInv, TrialStep
  PROVE  LoneInv'
<1>1. IInv /\ UseInv /\ RingInv /\ CallInv
  BY DEF LoopInv, IInv
<1>2. /\ call.phase = "trial" /\ Running /\ dir \in {-1, 1} /\ dir' = dir /\ ~init
      /\ cach0 = 0 /\ cach1 = 0 /\ NCache > 2 /\ SavedInside
  BY <1>1 DEF TrialStep, CallInv, Running, UseInv, LoneInv
<1>10. NeverStop
  BY <1>2 DEF LoneInv
<1>3. PICK r \in Step(call.t, IgnoreStop) :
        LET h == Abs(r.Cache[0].h)
        IN  /\ Stepped(r)
            /\ \/ /\ r.status \notin {"OK", "STOP_CONDITION"}
                  /\ cach0' = r.cach0 /\ cach1' = r.cach1 /\ Stops' = r.Stops
                  /\ call' = Idle
                  /\ UNCHANGED <<cache, init, InitH>>
               \/ /\ r.status \in {"OK", "STOP_CONDITION"} /\ ~CanGrow(h)
                  /\ InitH' = h
                  /\ Initialized(r.cach0, r.cach1, r.Stops)
               \/ /\ r.status \in {"OK", "STOP_CONDITION"} /\ CanGrow(h)
                  /\ InitH' \in Longer(h)
                  /\ cach0' = r.cach0 /\ cach1' = r.cach1 /\ Stops' = r.Stops
                  /\ call' = [call EXCEPT !.phase = "longer", !.t = T0 + dir * InitH', !.steps = h]
                  /\ UNCHANGED <<cache, init>>
  BY Zenon DEF TrialStep
<1>4. PICK h : h = Abs(r.Cache[0].h)
  OBVIOUS
<1>5. /\ Stepped(r) /\ cach0' = r.cach0 /\ cach1' = r.cach1
      /\ \/ r.status \notin {"OK", "STOP_CONDITION"} /\ call' = Idle /\ init' = init
         \/ r.status \in {"OK", "STOP_CONDITION"} /\ call' = Idle
         \/ /\ r.status \in {"OK", "STOP_CONDITION"}
            /\ call' = [call EXCEPT !.phase = "longer", !.t = T0 + dir * InitH', !.steps = h]
  BY <1>3, <1>4, Zenon DEF Initialized
<1>6. Cache' = r.Cache /\ Initial' = r.Initial
  BY <1>5 DEF Stepped
<1>7. SavedInside'
  BY <1>1, <1>2, <1>6, SavedStepped
<1>8. CASE r.status \in {"OK", "STOP_CONDITION"}
  <2>1. cach1' = NextCache(0) /\ cach0' = 0 /\ cach0' # cach1'
    <3>1. ~Stands(r) /\ ~Fails(r) /\ ~Strays(r)
      BY <1>8 DEF Stands, Fails, Strays
    <3>2. Moves(r) /\ NextCache(0) # 0 /\ 0 \in Slots
      BY <3>1, StepGoes, StartsAre
    <3>3. r.cach1 = NextCache(0) /\ r.cach0 = 0
      BY <1>2, <3>2 DEF Moves
    <3> QED BY <1>5, <3>2, <3>3
  <2>2. call'.phase = "idle" \/ call'.phase = "longer"
    <3>1. CASE call' = Idle
      BY <3>1 DEF Idle
    <3>2. PICK t : call' = Idle \/ call' = [call EXCEPT !.phase = "longer", !.t = t, !.steps = h]
      BY <1>5, Zenon
    <3>3. CASE call' = [call EXCEPT !.phase = "longer", !.t = t, !.steps = h]
      BY <1>1, <3>3 DEF CallInv
    <3> QED BY <3>1, <3>2, <3>3
  <2>3. CASE call'.phase = "idle"
    BY <1>7, <2>1, <2>3, LoneEnds
  <2>4. CASE call'.phase = "longer"
    BY <1>2, <1>7, <1>10, <2>1, <2>4 DEF LoneInv, IsIdle
  <2> QED BY <2>2, <2>3, <2>4
<1>9. CASE r.status \notin {"OK", "STOP_CONDITION"}
  <2>1. call' = Idle /\ init' = init
    BY <1>5, <1>9
  <2> QED BY <1>2, <1>7, <2>1, LoneEnds DEF Idle
<1> QED BY <1>8, <1>9

\* The ring is one entry again, with the trial step's end behind it.
LEMMA LongerLone ==
  ASSUME EdgesApart, LoopInv, LoneInv, LongerStep
  PROVE  LoneInv'
<1>1. IInv /\ UseInv /\ RingInv /\ CallInv
  BY DEF LoopInv, IInv
<1>2. PICK r \in Step(call.t, IgnoreStop) : TriesHalf(r) \/ TakesLength(r)
  BY <1>1, LongerGoes
<1>3. /\ call.phase = "longer" /\ Running /\ dir \in {-1, 1} /\ dir' = dir
      /\ cach0 = 0 /\ NCache > 2 /\ NeverStop /\ SavedInside /\ cach1 = NextCache(0)
  BY <1>1, <1>2, LongerGoes DEF TriesHalf, TakesLength, Running, LoneInv
<1>4. PICK c : c = dir * InitH'
  OBVIOUS
<1>5. /\ {"Cache", "n_steps", "Initial"} \subseteq DOMAIN r
      /\ Stands(r) \/ Fails(r) \/ (Moves(r) /\ r.status = "OK")
  BY <1>3, StepGoes DEF Moves, Strays
<1>6. TakesLength(r) => Cache' = [r.Cache EXCEPT ![0].h = c] /\ Initial' = r.Initial
  BY <1>4, <1>5 DEF TakesLength, Stepped
<1>7. SavedInside'
  <2>1. Initial' = r.Initial
    BY <1>2, <1>6 DEF TriesHalf, Stepped
  <2> QED BY <1>1, <1>3, <2>1, SavedStepped
<1>8. TakesLength(r) => cach0' = 0 /\ cach1' = 0 /\ cache' = 0 /\ call'.phase = "idle"
  BY DEF TakesLength, Initialized, Idle
<1>9. PICK one, n : one = NextCache(0) /\ n = NextCache(one)
  OBVIOUS
<1>10. /\ 0 \in Slots /\ one \in Slots /\ n \in Slots /\ one # 0 /\ n # 0 /\ n # one
      /\ Cache \in [Slots -> Entries]
  <2>1. NCache \in Nat
    BY ODEAssumption
  <2>2. 0 \in Slots /\ one = 1 /\ 1 \in Slots
    BY <1>3, <1>9, <2>1, StartsAre, NextSlot DEF Slots
  <2>3. n # 0 /\ n # 1 /\ n \in Slots
    BY <1>3, <1>9, <2>1, <2>2, NextSlot
  <2> QED BY <1>1, <2>2, <2>3 DEF RingInv
<1>11. r.Cache[0].t = Cache[0].t /\ r.Cache[one].t = Cache[one].t
       /\ \E D : r.Cache = [i \in Slots |-> D[i]]
  <2>1. CASE r.Cache = Cache
    BY <1>10, <2>1
  <2>2. ASSUME NEW h, NEW e, r.Cache = Written(n, h, e)
        PROVE  r.Cache[0].t = Cache[0].t /\ r.Cache[one].t = Cache[one].t
               /\ \E D : r.Cache = [i \in Slots |-> D[i]]
    BY <1>3, <1>9, <1>10, <2>2 DEF Written, Entries
  <2>3. r.Cache = Cache \/ \E h, e : r.Cache = Written(n, h, e)
    BY <1>3, <1>5, <1>9 DEF Stands, Fails, Moves
  <2> QED BY <2>1, <2>2, <2>3
<1>12. ASSUME TakesLength(r)
       PROVE  Cache'[0].t = Cache[0].t /\ Cache'[one].t = Cache[one].t
  <2>1. PICK D : r.Cache = [i \in Slots |-> D[i]]
    BY <1>11
  <2>2. Cache'[0] = [r.Cache[0] EXCEPT !.h = c] /\ Cache'[one] = r.Cache[one]
    BY <1>6, <1>10, <1>12, <2>1
  <2>3. Cache'[0].t = r.Cache[0].t
    BY <2>2
  <2> QED BY <1>11, <2>2, <2>3
<1>13. /\ Cache[0].t + Cache[0].h = Cache[one].t /\ Toward(dir, Cache[0].h) > 0
       /\ Cache[0].t \in Int /\ Cache[0].h \in Int
  <2>1. RingOf(Cache, cach0, cach1, dir) /\ InRing(0, cach0, cach1)
    BY <1>1, <1>3, <1>9, <1>10 DEF RingInv, InRing, Slots
  <2> QED BY <1>3, <1>9, <1>10, <2>1 DEF RingOf, Entries
<1>14. Toward(dir, Cache[one].t - Cache[0].t) >= 0
  BY <1>3, <1>13 DEF Toward
<1>15. CASE TakesLength(r)
  <2>1. Followed'
    BY <1>3, <1>8, <1>9, <1>12, <1>14, <1>15 DEF Followed
  <2> QED BY <1>7, <1>8, <1>15, <2>1, LoneEnds
<1>16. CASE TriesHalf(r)
  <2>1. Stands(r) \/ Fails(r)
    BY <1>5, <1>16 DEF TriesHalf
  <2>2. cach0' = 0 /\ cach1' = one
    BY <1>3, <1>9, <1>10, <1>16, <2>1 DEF TriesHalf, Stands, Fails
  <2>3. call'.phase = "longer"
    BY <1>1, <1>3, <1>16 DEF TriesHalf, CallInv
  <2> QED BY <1>3, <1>7, <1>9, <1>10, <2>2, <2>3 DEF LoneInv, IsIdle
<1> QED BY <1>2, <1>15, <1>16

\* A loop in the ring that is there.
LEMMA LoopLone ==
  ASSUME EdgesApart, MaxSteps > 1, LoopInv, LoneInv,
         (\E phase \in {"loop", "retrace"} : OneStep(phase)) \/ RetraceEnd \/ LoopEnd
  PROVE  LoneInv'
<1>1. IInv /\ OrderInv /\ UseInv /\ OuterInv /\ RingInv /\ CallInv
  BY DEF LoopInv, IInv
<1>2. /\ call.phase \in {"loop", "retrace"} /\ Running /\ dir \in {-1, 1} /\ SavedInside /\ init
      /\ cach0 = cach1 => Followed \/ Fresh
  BY <1>1 DEF OneStep, Steps, RetraceEnd, LoopEnd, Running, CallInv, UseInv, LoneInv
<1>3. ASSUME NEW phase \in {"loop", "retrace"}, OneStep(phase)
      PROVE  LoneInv'
  <2>1. PICK r \in Step(StepTo, ~HeedsStops) :
          /\ Stepped(r) /\ cach0' = r.cach0 /\ cach1' = r.cach1
          /\ call' = [call EXCEPT !.status = r.status, !.steps = @ - 1]
    BY <1>3, Zenon DEF OneStep
  <2>2. Cache' = r.Cache /\ Initial' = r.Initial /\ dir' = dir
    BY <1>3, <2>1 DEF Stepped, OneStep
  <2>3. SavedInside'
    BY <1>1, <1>2, <2>2, SavedStepped
  <2>4. cach0' = cach1' => Followed'
    BY <1>1, <1>2, <2>1, <2>2, LoneStepped DEF Fresh
  <2>5. call'.phase = call.phase
    BY <1>1, <2>1 DEF CallInv
  <2> QED BY <1>2, <2>3, <2>4, <2>5, LoneBegins
<1>4. CASE RetraceEnd
  <2>1. /\ call.phase = "retrace" /\ call'.phase = "loop" /\ Initial' = NextOuter
        /\ UNCHANGED <<Cache, cach0, cach1, dir>>
        /\ Initial.cur + dir \in 2 .. Len(Initial.items) - 1
    BY <1>1, <1>4 DEF RetraceEnd, CallInv, ring
  <2>2. SavedInside'
    BY <1>1, <1>2, <2>1, NextOuterStays, SavedStay
  <2>3. cach0' = cach1' => Followed'
    BY <1>2, <2>1 DEF Fresh, Followed
  <2> QED BY <2>1, <2>2, <2>3, LoneBegins
<1>5. CASE LoopEnd
  <2>1. /\ cache' = cach1 /\ call' = Idle /\ call.phase = "loop"
        /\ UNCHANGED <<Cache, cach0, cach1, dir, init, Initial>>
    BY <1>1, <1>5, CallBecomes DEF LoopEnd, ring, outer
  <2>2. ~Fresh
    <3>1. ~(Steps("loop") /\ call.steps > 1)
      BY <1>5 DEF LoopEnd
    <3> QED BY <2>1, <3>1 DEF Fresh, Steps, Goal
  <2>3. SavedInside'
    BY <1>2, <2>1, SavedStay
  <2>4. cach0' = cach1' => Followed'
    BY <1>2, <2>1, <2>2 DEF Followed
  <2> QED BY <2>1, <2>3, <2>4, LoneEnds DEF Idle
<1> QED BY <1>3, <1>4, <1>5

LEMMA CallLone ==
  ASSUME LoopsRight, EdgesApart, LoopInv, LoneInv, IsIdle, NEW op, NEW t \in Requests,
         Answers(op, t) \/ (op = "Find" /\ Find(t))
  PROVE  LoneInv'
<1>1. FindIgnoresStops /\ IInv /\ OrderInv /\ UseInv /\ OuterInv /\ ShortInv /\ RingInv /\ CallInv
  BY DEF LoopsRight, LoopInv, IInv
<1>2. init /\ op \in Kinds /\ OuterOf(Initial) /\ SavedInside
  BY <1>1, CallGoes DEF LoneInv
<1>3. cach0 = cach1 /\ dir # 0 => Followed /\ cache \in {cach1, NextCache(cach1)}
  BY <1>2 DEF LoneInv
<1>4. CASE StopAtKnown(op, t)
  <2>1. call' = Idle /\ UNCHANGED <<Cache, cach0, cach1, cache, dir, init, Initial>>
    BY <1>1, <1>4, CallBecomes DEF StopAtKnown, ring, outer
  <2>2. SavedInside'
    BY <1>2, <2>1, SavedStay
  <2>3. cach0' = cach1' /\ dir' # 0 => Followed' /\ cache' \in {cach1', NextCache(cach1')}
    BY <1>3, <2>1 DEF Followed
  <2> QED BY <2>1, <2>2, <2>3, LoneEnds DEF Idle
<1>5. CASE /\ dir # 0 /\ Before(op, t, Cache[cach1].t)
           /\ BeginLoop("loop", op, t, ListAt(op, t)) /\ RingStays /\ UNCHANGED <<cache, t_last, outer>>
  <2>1. call'.phase = "loop" /\ UNCHANGED <<Cache, cach0, cach1, dir, Initial>>
    <3>1. call' = [phase |-> "loop", op |-> op, t |-> t, status |-> "ODE_BUG",
                   steps |-> MaxSteps, find |-> NoValue, sync |-> call'.sync]
      BY <1>1, <1>5, CallBecomes
    <3> QED BY <1>5, <3>1 DEF RingStays, outer
  <2>2. SavedInside'
    BY <1>2, <2>1, SavedStay
  <2>3. cach0' = cach1' => Followed'
    BY <1>3, <1>5, <2>1 DEF Followed
  <2> QED BY <2>1, <2>2, <2>3, LoneBegins
<1>6. CASE /\ dir # 0 /\ Covers(op, t)
           /\ Return(op, t, "OK", FindNeighbor(op, t), ListAt(op, t))
           /\ RingStays /\ UNCHANGED outer
  <2>1. /\ call' = Idle /\ cache' = FindNeighbor(op, t)
        /\ UNCHANGED <<Cache, cach0, cach1, dir, Initial>>
    BY <1>1, <1>6, CallBecomes DEF RingStays, outer
  <2>2. SavedInside'
    BY <1>2, <2>1, SavedStay
  <2>3. cach0 = cach1 => cache' = NextCache(cach1)
    <3>1. dir \in {-1, 1} /\ t \in Int
      BY <1>1, <1>6, TimesAre DEF RingInv
    <3> QED BY <1>1, <1>3, <1>6, <2>1, <3>1, LoneNeighbor
  <2>4. cach0' = cach1' => Followed' /\ cache' \in {cach1', NextCache(cach1')}
    BY <1>3, <1>6, <2>1, <2>3 DEF Followed
  <2> QED BY <2>1, <2>2, <2>4, LoneEnds DEF Idle
<1>7. CASE KeepRing(op, t)
  <2>1. dir = 1 /\ Initial.cur + dir \in 2 .. Len(Initial.items) - 1
    BY <1>1, <1>7, KeepRingIs
  <2>2. NextOuter.items = Initial.items
    BY <1>1, <1>2, <2>1, NextOuterStays
  <2>3. Initial' \in {Initial, NextOuter} /\ UNCHANGED <<Cache, cach0, cach1, dir>>
    BY <1>7 DEF KeepRing, ring
  <2>4. SavedInside'
    BY <1>2, <2>2, <2>3, SavedStay
  <2>5. call'.phase \in {"loop", "retrace"}
    <3>1. PICK phase \in {"loop", "retrace"} : BeginLoop(phase, op, t, StopAhead(op, t).list)
      BY <1>7 DEF KeepRing
    <3>2. call' = [phase |-> phase, op |-> op, t |-> t, status |-> "ODE_BUG",
                   steps |-> MaxSteps, find |-> NoValue, sync |-> call'.sync]
      BY <1>1, <3>1, CallBecomes
    <3> QED BY <3>2
  <2>6. cach0' = cach1' => Followed'
    BY <1>3, <2>1, <2>3 DEF Followed
  <2> QED BY <2>4, <2>5, <2>6, LoneBegins
<1>8. CASE /\ (op \in {"Integrate", "Find"} /\ t = T0) \/ StartOf(PlaceOf(op, t), WayOf(op, t))
           /\ NewRing(op, t, WayOf(op, t), PlaceOf(op, t), ListAt(op, t))
  <2>1. WayOf(op, t) \in {-1, 1}
    BY DEF WayOf
  <2>2. Initial'.items = Initial.items
    BY <1>2, <1>8, <2>1, NewRingOuter
  <2>3. SavedInside'
    BY <1>2, <2>2, SavedStay
  <2>4. IsSaved(op, t) \/ Restarts(op, t, WayOf(op, t), PlaceOf(op, t))
    BY <1>1, <1>2, <1>8, <2>1, NewRingIs
  <2>5. CASE IsSaved(op, t)
    BY <2>3, <2>5, LoneEnds DEF IsSaved, Idle
  <2>6. CASE Restarts(op, t, WayOf(op, t), PlaceOf(op, t))
    <3>1. PICK at : at = PlaceOf(op, t)
      OBVIOUS
    <3>2. at \in 2 .. Len(Initial.items) - 1 /\ cach1' = 0 /\ Cache'[0].t = Initial.items[at].t
      BY <2>6, <3>1 DEF Restarts, StartOf
    <3>3. ~AtEdge(Cache'[cach1'].t)
      BY <1>1, <1>2, <3>2, SavedStarts
    <3>4. Before(op, t, Cache[cach1].t)'
      BY <1>1, <1>2, <2>6, RestartsBefore
    <3>5. call'.phase = "loop" /\ Fresh'
      BY <2>6, <3>3, <3>4 DEF Restarts, Fresh, AtEdge
    <3> QED BY <2>3, <3>5, LoneBegins
  <2> QED BY <2>4, <2>5, <2>6
<1> QED BY <1>1, <1>4, <1>5, <1>6, <1>7, <1>8, CallGoes

LEMMA LoneKept ==
  ASSUME LoopsRight, EdgesApart, MaxSteps > 1, LoopInv, LoneInv, [Next]_vars
  PROVE  LoneInv'
<1>1. FindIgnoresStops /\ IInv /\ UseInv /\ RingInv /\ CallInv
  BY DEF LoopsRight, LoopInv, IInv
<1>2. CASE UNCHANGED vars \/ IgnoreStopOn \/ IgnoreStopOff
  <2>1. UNCHANGED <<Cache, cach0, cach1, cache, dir, init, Initial, call>>
    BY <1>2 DEF vars, ring, outer, IgnoreStopOn, IgnoreStopOff
  <2> QED BY <2>1 DEF LoneInv, Followed, Fresh, SavedInside, Running, IsIdle, Before, Past, AtEdge
<1>3. ASSUME NEW dt \in Dts, Initialize(dt)
      PROVE  LoneInv'
  <2>1. Initial' = [items |-> <<Minus, First, Plus>>, cur |-> 2]
    BY <1>3 DEF Initialize
  <2>2. SavedInside'
    <3>1. Len(Initial'.items) = 3 /\ Initial'.items[2].t = T0
      BY <2>1 DEF First
    <3>2. \A i \in 2 .. Len(Initial'.items) - 1 : i = 2
      BY <3>1
    <3> QED BY <3>1, <3>2, TimesAre DEF SavedInside, AtEdge
  <2>3. CASE dt = 0
    BY <1>3, <2>2, <2>3, LoneEnds DEF Initialize, IsIdle
  <2>4. CASE dt # 0
    <3>1. NCache > 2 /\ NeverStop
      BY <1>3, <2>4, ODEAssumption DEF EdgesApart
    <3>2. call'.phase = "trial"
      BY <1>3, <2>4 DEF Initialize, Idle
    <3> QED BY <2>2, <3>1, <3>2 DEF LoneInv, IsIdle
  <2> QED BY <2>3, <2>4
<1>4. ASSUME NEW op, NEW t \in Requests, IsIdle, Answers(op, t) \/ (op = "Find" /\ Find(t))
      PROVE  LoneInv'
  BY <1>4, CallLone
<1> QED BY <1>1, <1>2, <1>3, <1>4, TrialLone, LongerLone, LoopLone, NextCases

\* An ODE that is searched by value meets no stop.
LEMMA FindKept ==
  ASSUME LoopsRight, LoopInv, FindInv, [Next]_vars
  PROVE  FindInv'
<1>1. FindIgnoresStops /\ IInv /\ ShortInv /\ UseInv /\ CallInv
  BY DEF LoopsRight, LoopInv, IInv
<1>2. CASE UNCHANGED vars \/ IgnoreStopOn \/ IgnoreStopOff
  BY <1>2 DEF vars, IgnoreStopOn, IgnoreStopOff, FindInv
<1>3. ASSUME call'.phase \notin {"loop", "retrace"}
      PROVE  FindInv'
  BY <1>3 DEF FindInv
<1>4. ASSUME NEW dt \in Dts, Initialize(dt)
      PROVE  FindInv'
  BY <1>3, <1>4 DEF Initialize, Idle, IsIdle
<1>5. CASE TrialStep
  BY <1>1, <1>3, <1>5, TrialPhase
<1>6. CASE LongerStep
  BY <1>1, <1>3, <1>6, LongerPhase
<1>7. ASSUME NEW phase \in {"loop", "retrace"}, OneStep(phase)
      PROVE  FindInv'
  <2>1. PICK r \in Step(StepTo, ~HeedsStops) :
          call' = [call EXCEPT !.status = r.status, !.steps = @ - 1]
    BY <1>7, Zenon DEF OneStep
  <2>2. call.phase = phase /\ call'.op = call.op /\ call'.phase = phase /\ call'.status = r.status
    BY <1>1, <1>7, <2>1 DEF OneStep, Steps, CallInv
  <2>3. NeverStop => r.status # "STOP_CONDITION"
    BY StepGoes DEF Stands, Fails, Strays, Moves
  <2> QED BY <2>2, <2>3 DEF FindInv
<1>8. CASE RetraceEnd
  <2>1. call.phase = "retrace" /\ call'.op = call.op /\ call'.status = "ODE_BUG"
    BY <1>1, <1>8 DEF RetraceEnd, CallInv
  <2> QED BY <2>1 DEF FindInv
<1>9. CASE LoopEnd
  <2>1. call' = Idle
    BY <1>1, <1>9, CallBecomes DEF LoopEnd
  <2> QED BY <1>3, <2>1 DEF Idle
<1>10. ASSUME NEW op, NEW t \in Requests, IsIdle, Answers(op, t) \/ (op = "Find" /\ Find(t))
       PROVE  FindInv'
  <2>1. op = "Find" => NeverStop
    <3>1. Answers(op, t) => op # "Find"
      BY <1>1, AskedIs DEF Answers, StopAtKnown, Extend, Within, KeepRing, Restart
    <3>2. Find(t) => "Find" \in Ops
      BY <1>10 DEF Find, Sought
    <3> QED BY <1>1, <1>10, <3>1, <3>2 DEF FindIgnoresStops
  <2>2. call' = Idle \/ (call'.op = op /\ call'.status = "ODE_BUG")
    <3>1. init /\ op \in Kinds
      BY <1>1, <1>10, CallGoes
    <3>2. CASE StopAtKnown(op, t)
      BY <1>1, <3>2, CallBecomes DEF StopAtKnown
    <3>3. ASSUME NEW phase, NEW L, BeginLoop(phase, op, t, L)
          PROVE  call'.op = op /\ call'.status = "ODE_BUG"
      <4>1. call' = [phase |-> phase, op |-> op, t |-> t, status |-> "ODE_BUG",
                     steps |-> MaxSteps, find |-> NoValue, sync |-> call'.sync]
        BY <1>1, <3>3, CallBecomes
      <4> QED BY <4>1
    <3>4. CASE Return(op, t, "OK", FindNeighbor(op, t), ListAt(op, t))
      BY <1>1, <3>4, CallBecomes
    <3>5. CASE KeepRing(op, t)
      BY <3>3, <3>5 DEF KeepRing
    <3>6. CASE /\ (op \in {"Integrate", "Find"} /\ t = T0) \/ StartOf(PlaceOf(op, t), WayOf(op, t))
               /\ NewRing(op, t, WayOf(op, t), PlaceOf(op, t), ListAt(op, t))
      <4>1. WayOf(op, t) \in {-1, 1}
        BY DEF WayOf
      <4>2. IsSaved(op, t) \/ Restarts(op, t, WayOf(op, t), PlaceOf(op, t))
        BY <1>1, <1>10, <3>1, <3>6, <4>1, NewRingIs
      <4> QED BY <4>2 DEF IsSaved, Restarts
    <3> QED BY <1>1, <1>10, <3>2, <3>3, <3>4, <3>5, <3>6, CallGoes
  <2>3. CASE call' = Idle
    BY <1>3, <2>3 DEF Idle
  <2>4. CASE call'.op = op /\ call'.status = "ODE_BUG"
    BY <2>1, <2>4 DEF FindInv
  <2> QED BY <2>2, <2>3, <2>4
<1> QED BY <1>1, <1>2, <1>4, <1>5, <1>6, <1>7, <1>8, <1>9, <1>10, NextCases

\* The step that ends at c holds t, or t is where it begins.
HoldsOn(c, op, t) ==
  LET p == PrevCache(c)
  IN  /\ Cache[p].t \in Int /\ Cache[c].t \in Int
      /\ \/ op \in {"Integrate", "Find"} /\ t = Cache[p].t
         \/ /\ Cache[p].t + Cache[p].h = Cache[c].t
            /\ dir * Cache[p].t <= dir * t /\ dir * t <= dir * Cache[c].t

LEMMA OnStepElse ==
  ASSUME AnswerOnStep, ans' \in {None, ans} \/ ans'.status # "OK" \/ ans'.at = ans'.lo
  PROVE  AnswerOnStep'
BY DEF AnswerOnStep, Answered

LEMMA ReturnOnStep ==
  ASSUME AnswerOnStep, dir \in {-1, 1}, NEW op, NEW t \in Int, NEW c, NEW status, NEW L,
         op = "Find" => status # "STOP_CONDITION", status = "OK" => HoldsOn(c, op, t),
         Return(op, t, status, c, L)
  PROVE  AnswerOnStep'
<1>1. PICK p : p = PrevCache(c)
  OBVIOUS
<1>2. PICK nat : nat = IF (op = "Forward") = (dir > 0) THEN c ELSE p
  OBVIOUS
<1>3. \/ /\ status = "OK" /\ op \in {"Integrate", "Find"}
         /\ ans' = Answer(op, t, status, t, Cache[p].t, Cache[c].t, Cache[p].h)
      \/ /\ status = "OK" /\ op \in {"Forward", "Backward"}
         /\ ans' = Answer(op, t, status, Cache[nat].t, Cache[p].t, Cache[c].t, Cache[p].h)
      \/ ans'.status # "OK"
  BY <1>1, <1>2 DEF Return, Answer
<1>4. CASE /\ status = "OK"
           /\ \E at : /\ ans' = Answer(op, t, status, at, Cache[p].t, Cache[c].t, Cache[p].h)
                      /\ at \in {t, Cache[p].t, Cache[c].t} /\ (op \in {"Integrate", "Find"} => at = t)
  <2>1. PICK at, lo, hi, h : /\ lo = Cache[p].t /\ hi = Cache[c].t /\ h = Cache[p].h
                             /\ ans' = Answer(op, t, status, at, lo, hi, h)
                             /\ at \in {t, lo, hi} /\ (op \in {"Integrate", "Find"} => at = t)
    BY <1>4
  <2>2. /\ lo \in Int /\ hi \in Int
        /\ \/ op \in {"Integrate", "Find"} /\ t = lo
           \/ lo + h = hi /\ dir * lo <= dir * t /\ dir * t <= dir * hi
    BY <1>1, <1>4, <2>1 DEF HoldsOn
  <2>3. ans'.at = at /\ ans'.lo = lo /\ ans'.hi = hi /\ ans'.h = h
    BY <2>1 DEF Answer
  <2>4. CASE op \in {"Integrate", "Find"} /\ t = lo
    BY <2>1, <2>3, <2>4, OnStepElse
  <2>5. CASE lo + h = hi /\ dir * lo <= dir * t /\ dir * t <= dir * hi
    <3>1. at \in lo .. hi \cup hi .. lo
      <4>1. CASE dir = 1
        BY <2>1, <2>2, <2>5, <4>1
      <4>2. CASE dir = -1
        BY <2>1, <2>2, <2>5, <4>2
      <4> QED BY <4>1, <4>2
    <3> QED BY <2>3, <2>5, <3>1 DEF AnswerOnStep
  <2> QED BY <2>2, <2>4, <2>5
<1>5. CASE ans'.status # "OK"
  BY <1>5, OnStepElse
<1> QED BY <1>2, <1>3, <1>4, <1>5

LEMMA OnStepKept ==
  ASSUME LoopsRight, LoopInv, LoneInv, FindInv, AnswerOnStep, [Next]_vars
  PROVE  AnswerOnStep'
<1>1. FindIgnoresStops /\ IInv /\ ShortInv /\ UseInv /\ RingInv /\ CallInv
  BY DEF LoopsRight, LoopInv, IInv
<1>2. CASE \/ UNCHANGED vars \/ IgnoreStopOn \/ IgnoreStopOff \/ TrialStep \/ LongerStep
           \/ \E phase \in {"loop", "retrace"} : OneStep(phase) \/ RetraceEnd
           \/ \E dt \in Dts : Initialize(dt)
  <2>1. ans' \in {None, ans}
    BY <1>2 DEF vars, IgnoreStopOn, IgnoreStopOff, TrialStep, LongerStep, OneStep, RetraceEnd, Initialize
  <2> QED BY <2>1, OnStepElse
<1>3. CASE LoopEnd
  <2>1. PICK status : /\ status = IF Steps("loop") THEN "STEP_LIMIT" ELSE call.status
                      /\ Return(call.op, call.t, status, cach1, Stops)
    BY <1>3 DEF LoopEnd
  <2>2. dir \in {-1, 1} /\ call.phase = "loop" /\ call.t \in Int
    BY <1>1, <1>3, TimesAre DEF LoopEnd, CallInv, Running, UseInv
  <2>3. call.op = "Find" => status # "STOP_CONDITION"
    BY <2>1, <2>2 DEF FindInv
  <2>4. ASSUME status = "OK"
        PROVE  HoldsOn(cach1, call.op, call.t)
    <3>1. ~Steps("loop") /\ call.status = "OK"
      BY <2>1, <2>4
    <3>2. ~Before(call.op, call.t, Cache[cach1].t)
      BY <2>2, <3>1 DEF Steps, Goal
    <3>3. cach0 # cach1 /\ Before(call.op, call.t, Cache[PrevCache(cach1)].t)
      BY <1>1, <2>2, <3>1 DEF UseInv
    <3>4. PICK p : p = PrevCache(cach1)
      OBVIOUS
    <3>5. /\ Cache[cach1].t \in Times /\ Cache[p].t \in Times
          /\ Cache[p].t + Cache[p].h = Cache[cach1].t
      BY <1>1, <2>2, <3>3, <3>4, RingEnds, SpanIs
    <3>6. Cache[cach1].t \in Int /\ Cache[p].t \in Int
      BY <3>5, TimesAre
    <3>7. dir * Cache[p].t <= dir * call.t /\ dir * call.t <= dir * Cache[cach1].t
      BY <2>2, <3>2, <3>3, <3>4, <3>6 DEF Before
    <3> QED BY <3>4, <3>5, <3>6, <3>7 DEF HoldsOn
  <2> QED BY <2>1, <2>2, <2>3, <2>4, ReturnOnStep
<1>4. ASSUME NEW op, NEW t \in Requests, IsIdle, Answers(op, t) \/ (op = "Find" /\ Find(t))
      PROVE  AnswerOnStep'
  <2>1. init /\ op \in Kinds /\ t \in Int
    BY <1>1, <1>4, CallGoes, TimesAre
  <2>2. CASE StopAtKnown(op, t)
    BY <2>2, OnStepElse DEF StopAtKnown, Answer
  <2>3. CASE BeginLoop("loop", op, t, ListAt(op, t))
    BY <2>3, OnStepElse DEF BeginLoop
  <2>4. CASE KeepRing(op, t)
    BY <2>4, OnStepElse DEF BeginLoop, KeepRing
  <2>5. CASE /\ dir # 0 /\ Covers(op, t) /\ Return(op, t, "OK", FindNeighbor(op, t), ListAt(op, t))
    <3>1. PICK c, p, L : c = FindNeighbor(op, t) /\ p = PrevCache(c) /\ L = ListAt(op, t)
      OBVIOUS
    <3>2. dir \in {-1, 1}
      BY <1>1, <2>5 DEF RingInv
    <3>3. HoldsOn(c, op, t)
      <4>1. CASE cach0 = cach1
        <5>1. Followed /\ cache \in {cach1, NextCache(cach1)}
          BY <1>4, <2>1, <3>2, <4>1 DEF LoneInv
        <5>2. /\ op \in {"Integrate", "Find"} /\ t = Cache[cach1].t
              /\ c = NextCache(cach1) /\ p = cach1
          BY <1>1, <2>1, <2>5, <3>1, <3>2, <4>1, <5>1, LoneNeighbor
        <5>3. cach1 \in Slots /\ c \in Slots /\ Cache \in [Slots -> Entries]
          BY <1>1, <3>2, <5>2, RingEnds, NextSlot DEF RingInv
        <5>4. Cache[p].t \in Int /\ Cache[c].t \in Int
          BY <5>2, <5>3 DEF Entries
        <5> QED BY <3>1, <5>2, <5>4 DEF HoldsOn
      <4>2. CASE cach0 # cach1
        <5>1. Brackets(c, op, t)
          BY <1>1, <1>4, <2>1, <2>5, <3>1, <3>2, <4>2, WithinIs
        <5>2. /\ Cache[c].t \in Times /\ Cache[p].t \in Times
              /\ Cache[p].t + Cache[p].h = Cache[c].t
          BY <1>1, <3>1, <3>2, <5>1, SpanIs DEF Brackets
        <5>3. Cache[c].t \in Int /\ Cache[p].t \in Int
          BY <5>2, TimesAre
        <5> QED BY <3>1, <5>1, <5>2, <5>3 DEF HoldsOn, Brackets
      <4> QED BY <4>1, <4>2
    <3> QED BY <2>1, <2>5, <3>1, <3>2, <3>3, ReturnOnStep
  <2>6. CASE /\ (op \in {"Integrate", "Find"} /\ t = T0) \/ StartOf(PlaceOf(op, t), WayOf(op, t))
             /\ NewRing(op, t, WayOf(op, t), PlaceOf(op, t), ListAt(op, t))
    <3>1. WayOf(op, t) \in {-1, 1}
      BY DEF WayOf
    <3>2. IsSaved(op, t) \/ Restarts(op, t, WayOf(op, t), PlaceOf(op, t))
      BY <1>1, <1>4, <2>1, <2>6, <3>1, NewRingIs
    <3>3. ans' = None \/ ans'.at = ans'.lo
      BY <3>2 DEF IsSaved, Restarts, Answer
    <3> QED BY <3>3, OnStepElse
  <2> QED BY <1>1, <1>4, <2>2, <2>3, <2>4, <2>5, <2>6, CallGoes
<1> QED BY <1>1, <1>2, <1>3, <1>4, NextCases

\* Integrate, Forward, Backward and the search by value answer at a known state or on a
\* finished step that contains the time they return, whatever was asked before, whichever
\* steps failed and from wherever the ring was restarted: with two entries when no step
\* fails late, no state is saved and no first step estimated; with more when F fails late
\* or no state is saved, and no first step is estimated if there are stops.
THEOREM AnswerOnStepHolds ==
  ASSUME LoopsRight, EdgesApart, MaxSteps > 1
  PROVE  Spec => []AnswerOnStep
<1>1. Init => LoneInv /\ FindInv /\ AnswerOnStep
  <2> SUFFICES ASSUME Init PROVE LoneInv /\ FindInv /\ AnswerOnStep
    OBVIOUS
  <2>1. dir = 0 /\ init = FALSE /\ call.phase = "idle" /\ ans = None
    BY DEF Init, Idle
  <2> QED BY <2>1 DEF LoneInv, FindInv, AnswerOnStep, Answered, Running
<1>2. Init => LoopInv
  BY LoopInvariance
<1>3. LoopInv /\ LoneInv /\ FindInv /\ AnswerOnStep /\ [Next]_vars
        => LoopInv' /\ LoneInv' /\ FindInv' /\ AnswerOnStep'
  BY LoopInvariance, LoneKept, FindKept, OnStepKept
<1> QED BY <1>1, <1>2, <1>3, PTL DEF Spec

=============================================================================
