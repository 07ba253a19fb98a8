-------------------------- MODULE EOSobjectsProofs ---------------------------
(***************************************************************************)
(* Proofs about EOSobjects, for any data base of blocks and any number of  *)
(* object slots: reference counts equal the references (RefCounts), the    *)
(* numbers of a good object are in its units (GoodNumbers), a composite    *)
(* that has its components to itself is in their units (Coherent), and no  *)
(* call but the program's own on one of the two makes two entries of the   *)
(* manager's list agree in name and units (IndexUnique).                   *)
(*                                                                         *)
(* EOSheapProofs says what each operation of the heap does, as a contract; *)
(* this module shows that the contracts keep the inductive invariant IInv. *)
(***************************************************************************)
EXTENDS EOSobjects, EOSheapProofs, SequenceTheorems

\* The references that neither the cache nor a composite owns: those of the
\* program, of the manager's list, and those the list let go of
Listed(s, o) == IF \E i \in DOMAIN s : s[i].obj = o THEN 1 ELSE 0
Among(l, o)  == IF o \in l THEN 1 ELSE 0
Outside(a, s, l) == [o \in Objs |-> a[o] + Listed(s, o) + Among(l, o)]

\* The composites that the data base need not keep: none while it is open
Unkept(op) == IF op THEN {} ELSE Blocks

\* What holds of each object: its numbers are in its units; and a composite
\* with its components to itself is in their units, is the one the data base
\* keeps, and nobody else refers to its components
OwnSafe(h, e, D, o) ==
  Live(h, o) =>
    /\ GoodAt(h, o)
    /\ Exclusive(h.obj[o].name) =>
         /\ Together(h, o)
         /\ h.obj[o].name \notin D => h.cache[h.obj[o].name] = o
         /\ \A i \in {1, 2} : h.obj[o].part[i] # NULL => e[h.obj[o].part[i]] = 0

\* An exclusive block has one object
Single(h) ==
  \A o, p \in Objs : Live(h, o) /\ Live(h, p) /\ Exclusive(h.obj[o].name)
                     /\ h.obj[p].name = h.obj[o].name => o = p

\* What the data base keeps for a component of an exclusive block is the
\* program's in no other way
PartsKept(h, e) ==
  \A b \in Blocks, i \in {1, 2} :
    Exclusive(b) /\ PartsOf[b][i] \in Blocks /\ h.cache[PartsOf[b][i]] # NULL
      => e[h.cache[PartsOf[b][i]]] = 0

Safe(h, e, D) ==
  /\ Sound(h, e) /\ Single(h) /\ PartsKept(h, e)
  /\ \A o \in Objs : OwnSafe(h, e, D, o)

\* The manager's list has each of its objects once, and neither the data base nor
\* a composite refers to one: the program may, by eos(i)->Duplicate()
Indices(h, e, s) ==
  /\ \A i \in DOMAIN s : Private(h, e, s[i].obj)
  /\ \A i, j \in DOMAIN s : i # j => s[i].obj # s[j].obj

\* e are the references outside the heap: those of the program a, of the list s,
\* and those l that the list let go of
Listing(h, e, a, s, l) ==
  /\ e = Outside(a, s, l)
  /\ a \in [Objs -> Nat] /\ s \in Seq([name : Blocks, obj : Objs]) /\ l \subseteq Objs
  /\ Indices(h, e, s)

State(h, a, s, l, op) ==
  LET e == Outside(a, s, l)
  IN  op \in BOOLEAN /\ Safe(h, e, Unkept(op)) /\ Listing(h, e, a, s, l)

\* The inductive invariant
IInv == State(heap, held, index, lost, open)

-----------------------------------------------------------------------------
(* Exclusive composites *)

LEMMA ExclusiveIs ==
  ASSUME NEW b \in Blocks, Exclusive(b)
  PROVE  /\ IsComposite(b) /\ b \notin FetchedNew /\ b \notin Indexed
         /\ \A c \in PartBlocks(b) : c \notin Fetched
         /\ \A c \in Blocks \ {b} : PartBlocks(b) \cap PartBlocks(c) = {}
BY DEF Exclusive, PartBlocks

\* An operation on o that works on blocks of simple objects leaves the other
\* exclusive composites alone
Apart(h, o, B) ==
  /\ \A c \in B : c \in Blocks => ~IsComposite(c)
  /\ \A p \in Objs \ {o} : Live(h, p) /\ Exclusive(h.obj[p].name) =>
       /\ PartBlocks(h.obj[p].name) \cap B = {}
       /\ \A i \in {1, 2} : h.obj[p].part[i] \in Objs => h.obj[p].part[i] # o

\* o, afterwards, is no second object of an exclusive block
Alone(h, k, o) ==
  \A p \in Objs \ {o} : Live(h, p) /\ Live(k, o) /\ Exclusive(k.obj[o].name)
                        => h.obj[p].name # k.obj[o].name

\* ... and no component of one that the data base keeps, unless nobody else
\* refers to it
NotKept(k, d, o) ==
  \A b \in Blocks, i \in {1, 2} :
    Exclusive(b) /\ PartsOf[b][i] \in Blocks /\ k.cache[PartsOf[b][i]] = o => d[o] = 0

LEMMA SafeWorks ==
  ASSUME NEW h, NEW e, NEW D, NEW E, Safe(h, e, D), D \subseteq E,
         NEW k, NEW d, Sound(k, d), NEW o \in Objs \cup {NULL}, NEW B, Works(h, k, e, o, B),
         \A p \in Objs \ {o} : d[p] = e[p], Apart(h, o, B),
         o # NULL => OwnSafe(k, d, E, o) /\ Alone(h, k, o) /\ NotKept(k, d, o)
  PROVE  Safe(k, d, E)
<1>1. /\ h \in Heap /\ Shape(h) /\ k \in Heap /\ Shape(k)
      /\ e \in [Objs -> Nat] /\ d \in [Objs -> Nat]
  BY DEF Safe, Sound
<1>2. ASSUME NEW p \in Objs \ {o}, Live(k, p), k.obj[p].name \notin B
      PROVE  Live(h, p) /\ SameFace(k.obj[p], h.obj[p])
  BY <1>2 DEF Works
<1>3. ASSUME NEW p \in Objs \ {o}, Live(k, p), Exclusive(k.obj[p].name)
      PROVE  Live(h, p) /\ SameFace(k.obj[p], h.obj[p])
  <2>1. k.obj[p].name \in Blocks
    BY <1>1, <1>3, TypedObject
  <2>2. IsComposite(k.obj[p].name)
    BY <1>3, <2>1, ExclusiveIs
  <2>3. k.obj[p].name \notin B
    BY <2>1, <2>2 DEF Apart
  <2> QED BY <1>2, <1>3, <2>3
<1>4. ASSUME NEW p \in Objs \ {o}, Live(k, p)
      PROVE  OwnSafe(k, d, E, p)
  <2>1. GoodAt(k, p)
    <3>1. GoodAt(h, p)
      BY DEF GoodAt, Safe, OwnSafe
    <3> QED BY <3>1 DEF Works
  <2>2. ASSUME Exclusive(k.obj[p].name)
        PROVE  /\ Together(k, p)
               /\ k.obj[p].name \notin E => k.cache[k.obj[p].name] = p
               /\ \A i \in {1, 2} : k.obj[p].part[i] # NULL => d[k.obj[p].part[i]] = 0
    <3>1. PICK b : b = k.obj[p].name
      OBVIOUS
    <3>2. Live(h, p) /\ SameFace(k.obj[p], h.obj[p]) /\ b \in Blocks
      BY <1>1, <1>3, <1>4, <2>2, <3>1, TypedObject
    <3>3. h.obj[p].name = b /\ Exclusive(h.obj[p].name)
      BY <2>2, <3>1, <3>2 DEF SameFace
    <3>4. /\ Together(h, p)
          /\ b \notin D => h.cache[b] = p
          /\ \A i \in {1, 2} : h.obj[p].part[i] # NULL => e[h.obj[p].part[i]] = 0
      BY <3>2, <3>3 DEF Safe, OwnSafe
    <3>5. /\ PartBlocks(b) \cap B = {}
          /\ \A i \in {1, 2} : h.obj[p].part[i] \in Objs => h.obj[p].part[i] # o
      BY <3>2, <3>3 DEF Apart
    <3>6. k.obj[p].part = h.obj[p].part
      BY <3>2 DEF SameFace
    <3>7. ASSUME NEW i \in {1, 2}, k.obj[p].part[i] # NULL
          PROVE  /\ k.obj[p].part[i] \in Objs \ {o}
                 /\ k.obj[k.obj[p].part[i]].units = h.obj[k.obj[p].part[i]].units
      <4>1. PICK q : q = k.obj[p].part[i]
        OBVIOUS
      <4>2. q \in Objs /\ Live(k, q) /\ k.obj[q].name = PartsOf[b][i]
        BY <1>1, <1>4, <3>1, <3>7, <4>1, PartIsSimple
      <4>3. q # o
        BY <3>5, <3>6, <4>1, <4>2
      <4>4. k.obj[q].name \notin B
        BY <3>5, <4>2 DEF PartBlocks
      <4>5. SameFace(k.obj[q], h.obj[q])
        BY <1>2, <4>2, <4>3, <4>4
      <4> QED BY <4>1, <4>2, <4>3, <4>5 DEF SameFace
    <3>8. Together(k, p)
      <4>1. SUFFICES ASSUME IsComposite(b), k.obj[p].status = "good", k.obj[p].units # NULL,
                            NEW i \in {1, 2}
                     PROVE  k.obj[k.obj[p].part[i]].units = k.obj[p].units
        BY <3>1 DEF Together
      <4>2. k.obj[p].part[i] # NULL
        BY <1>1, <1>4, <3>1, <4>1 DEF Shape
      <4>3. k.obj[p].units = h.obj[p].units /\ h.obj[p].status = "good"
        BY <3>2, <4>1 DEF SameFace
      <4>4. h.obj[h.obj[p].part[i]].units = h.obj[p].units
        BY <3>3, <3>4, <4>1, <4>3 DEF Together
      <4> QED BY <3>6, <3>7, <4>2, <4>3, <4>4
    <3>9. b \notin E => k.cache[b] = p
      <4>1. p # NULL
        BY NullAssumption
      <4> QED BY <3>2, <3>4, <4>1 DEF Works
    <3>10. \A i \in {1, 2} : k.obj[p].part[i] # NULL => d[k.obj[p].part[i]] = 0
      BY <3>4, <3>6, <3>7
    <3> QED BY <3>1, <3>8, <3>9, <3>10
  <2> QED BY <2>1, <2>2 DEF OwnSafe
<1>5. \A p \in Objs : OwnSafe(k, d, E, p)
  <2>1. ASSUME NEW p \in Objs \ {o}
        PROVE  OwnSafe(k, d, E, p)
    BY <1>4 DEF OwnSafe
  <2>2. o \in Objs => OwnSafe(k, d, E, o)
    BY NullAssumption
  <2> QED BY <2>1, <2>2
<1>6. Single(k)
  <2>1. SUFFICES ASSUME NEW p \in Objs, NEW q \in Objs, Live(k, p), Live(k, q),
                        Exclusive(k.obj[p].name), k.obj[q].name = k.obj[p].name
                 PROVE  p = q
    BY DEF Single
  <2>2. CASE p # o /\ q # o
    <3>1. /\ Live(h, p) /\ SameFace(k.obj[p], h.obj[p])
          /\ Live(h, q) /\ SameFace(k.obj[q], h.obj[q])
      BY <1>3, <2>1, <2>2
    <3>2. /\ h.obj[p].name = k.obj[p].name /\ h.obj[q].name = k.obj[q].name
      BY <3>1 DEF SameFace
    <3>3. Exclusive(h.obj[p].name) /\ h.obj[q].name = h.obj[p].name
      BY <2>1, <3>2
    <3> QED BY <3>1, <3>3 DEF Safe, Single
  <2>3. ASSUME NEW x \in Objs \ {o}, Live(k, x), Live(k, o), o \in Objs,
               Exclusive(k.obj[x].name), k.obj[x].name = k.obj[o].name
        PROVE  FALSE
    <3>1. Live(h, x) /\ SameFace(k.obj[x], h.obj[x])
      BY <1>3, <2>3
    <3>2. h.obj[x].name = k.obj[o].name /\ Exclusive(k.obj[o].name)
      BY <2>3, <3>1 DEF SameFace
    <3>3. Alone(h, k, o)
      BY <2>3, NullAssumption
    <3> QED BY <2>3, <3>1, <3>2, <3>3 DEF Alone
  <2>4. CASE p = o /\ q # o
    <3>1. Exclusive(k.obj[q].name)
      BY <2>1
    <3> QED BY <2>1, <2>3, <2>4, <3>1
  <2>5. CASE p # o /\ q = o
    BY <2>1, <2>3, <2>5
  <2> QED BY <2>2, <2>4, <2>5
<1>7. PartsKept(k, d)
  <2>1. SUFFICES ASSUME NEW b \in Blocks, NEW i \in {1, 2}, Exclusive(b),
                        PartsOf[b][i] \in Blocks, k.cache[PartsOf[b][i]] # NULL
                 PROVE  d[k.cache[PartsOf[b][i]]] = 0
    BY DEF PartsKept
  <2>2. PICK c : c = PartsOf[b][i]
    OBVIOUS
  <2>3. PICK q : q = k.cache[c]
    OBVIOUS
  <2>4. q \in Objs /\ q # NULL /\ c \in Blocks
    BY <1>1, <2>1, <2>2, <2>3 DEF Heap
  <2>5. CASE q = o
    <3>1. NotKept(k, d, o)
      BY <2>4, <2>5
    <3> QED BY <2>1, <2>2, <2>3, <2>5, <3>1 DEF NotKept
  <2>6. CASE q # o
    <3>1. e[q] = 0
      <4>1. CASE h.cache[c] = q
        BY <2>1, <2>2, <2>4, <4>1 DEF Safe, PartsKept
      <4>2. CASE h.cache[c] # q
        BY <2>3, <2>4, <4>2 DEF Works
      <4> QED BY <4>1, <4>2
    <3> QED BY <2>2, <2>3, <2>4, <2>6, <3>1
  <2> QED BY <2>5, <2>6
<1> QED BY <1>5, <1>6, <1>7 DEF Safe

\* Giving up references and objects, and entries of the cache as the data base
\* is destroyed
LEMMA SafeLess ==
  ASSUME NEW h, NEW e, NEW D, Safe(h, e, D), NEW k, NEW d, Sound(k, d),
         \A p \in Objs : d[p] <= e[p],
         \A p \in Objs : Live(k, p) => Live(h, p) /\ SameFace(k.obj[p], h.obj[p]),
         \A b \in Blocks : \/ k.cache[b] = h.cache[b]
                           \/ b \in D /\ k.cache[b] = NULL
  PROVE  Safe(k, d, D)
<1>1. /\ h \in Heap /\ Shape(h) /\ k \in Heap /\ Shape(k)
      /\ e \in [Objs -> Nat] /\ d \in [Objs -> Nat]
  BY DEF Safe, Sound
<1>2. \A p \in Objs : e[p] = 0 => d[p] = 0
  BY <1>1
<1>3. ASSUME NEW p \in Objs, Live(k, p)
      PROVE  OwnSafe(k, d, D, p)
  <2>1. Live(h, p) /\ SameFace(k.obj[p], h.obj[p]) /\ OwnSafe(h, e, D, p)
    BY <1>3 DEF Safe
  <2>2. /\ k.obj[p].name = h.obj[p].name /\ k.obj[p].units = h.obj[p].units
        /\ k.obj[p].numbers = h.obj[p].numbers /\ k.obj[p].status = h.obj[p].status
        /\ k.obj[p].part = h.obj[p].part
    BY <2>1 DEF SameFace
  <2>3. GoodAt(k, p)
    BY <2>1, <2>2 DEF GoodAt, OwnSafe
  <2>4. ASSUME NEW i \in {1, 2}, k.obj[p].part[i] # NULL
        PROVE  /\ k.obj[p].part[i] \in Objs
               /\ k.obj[k.obj[p].part[i]].units = h.obj[k.obj[p].part[i]].units
    <3>1. k.obj[p].part[i] \in Objs /\ Live(k, k.obj[p].part[i])
      BY <1>1, <1>3, <2>4, PartIsSimple
    <3> QED BY <3>1 DEF SameFace
  <2>5. ASSUME Exclusive(k.obj[p].name)
        PROVE  /\ Together(k, p)
               /\ k.obj[p].name \notin D => k.cache[k.obj[p].name] = p
               /\ \A i \in {1, 2} : k.obj[p].part[i] # NULL => d[k.obj[p].part[i]] = 0
    <3>1. /\ Together(h, p)
          /\ h.obj[p].name \notin D => h.cache[h.obj[p].name] = p
          /\ \A i \in {1, 2} : h.obj[p].part[i] # NULL => e[h.obj[p].part[i]] = 0
      BY <2>1, <2>2, <2>5 DEF OwnSafe
    <3>2. Together(k, p)
      <4>1. SUFFICES ASSUME IsComposite(k.obj[p].name), k.obj[p].status = "good",
                            k.obj[p].units # NULL, NEW i \in {1, 2}
                     PROVE  k.obj[k.obj[p].part[i]].units = k.obj[p].units
        BY DEF Together
      <4>2. k.obj[p].part[i] # NULL
        BY <1>1, <1>3, <4>1 DEF Shape
      <4>3. h.obj[h.obj[p].part[i]].units = h.obj[p].units
        BY <2>2, <3>1, <4>1 DEF Together
      <4> QED BY <2>2, <2>4, <4>2, <4>3
    <3>3. k.obj[p].name \in Blocks
      BY <1>1, <1>3, TypedObject
    <3>4. k.obj[p].name \notin D => k.cache[k.obj[p].name] = p
      BY <2>2, <3>1, <3>3
    <3>5. \A i \in {1, 2} : k.obj[p].part[i] # NULL => d[k.obj[p].part[i]] = 0
      BY <1>2, <2>2, <2>4, <3>1
    <3> QED BY <3>2, <3>4, <3>5
  <2> QED BY <2>3, <2>5 DEF OwnSafe
<1>4. \A p \in Objs : OwnSafe(k, d, D, p)
  BY <1>3 DEF OwnSafe
<1>5. Single(k)
  <2>1. SUFFICES ASSUME NEW p \in Objs, NEW q \in Objs, Live(k, p), Live(k, q),
                        Exclusive(k.obj[p].name), k.obj[q].name = k.obj[p].name
                 PROVE  p = q
    BY DEF Single
  <2>2. /\ Live(h, p) /\ SameFace(k.obj[p], h.obj[p])
        /\ Live(h, q) /\ SameFace(k.obj[q], h.obj[q])
    BY <2>1
  <2>3. h.obj[p].name = k.obj[p].name /\ h.obj[q].name = k.obj[q].name
    BY <2>2 DEF SameFace
  <2>4. Exclusive(h.obj[p].name) /\ h.obj[q].name = h.obj[p].name
    BY <2>1, <2>3
  <2> QED BY <2>2, <2>4 DEF Safe, Single
<1>6. PartsKept(k, d)
  <2>1. SUFFICES ASSUME NEW b \in Blocks, NEW i \in {1, 2}, Exclusive(b),
                        PartsOf[b][i] \in Blocks, k.cache[PartsOf[b][i]] # NULL
                 PROVE  d[k.cache[PartsOf[b][i]]] = 0
    BY DEF PartsKept
  <2>2. k.cache[PartsOf[b][i]] = h.cache[PartsOf[b][i]]
    BY <2>1
  <2>3. e[h.cache[PartsOf[b][i]]] = 0
    BY <2>1, <2>2 DEF Safe, PartsKept
  <2>4. h.cache[PartsOf[b][i]] \in Objs
    BY <1>1, <2>1, <2>2 DEF Heap
  <2> QED BY <1>2, <2>2, <2>3, <2>4
<1> QED BY <1>4, <1>5, <1>6 DEF Safe

-----------------------------------------------------------------------------
(* The references outside the heap *)

LEMMA OutsideType ==
  ASSUME NEW a \in [Objs -> Nat], NEW s, NEW l
  PROVE  /\ Outside(a, s, l) \in [Objs -> Nat]
         /\ \A o \in Objs : /\ Outside(a, s, l)[o] = a[o] + Listed(s, o) + Among(l, o)
                           /\ a[o] \in Nat /\ Listed(s, o) \in {0, 1} /\ Among(l, o) \in {0, 1}
<1>1. \A o \in Objs : a[o] \in Nat /\ Listed(s, o) \in {0, 1} /\ Among(l, o) \in {0, 1}
  BY DEF Listed, Among
<1>2. \A o \in Objs : a[o] + Listed(s, o) + Among(l, o) \in Nat
  BY <1>1
<1> QED BY <1>1, <1>2 DEF Outside

\* Two countings of the references that differ at one object
LEMMA MoreIsInc ==
  ASSUME NEW e \in [Objs -> Nat], NEW d \in [Objs -> Nat], NEW o \in Objs,
         d[o] = e[o] + 1, \A p \in Objs \ {o} : d[p] = e[p]
  PROVE  d = Inc(e, o)
<1>1. /\ Inc(e, o) \in [Objs -> Nat]
      /\ \A q \in Objs : Inc(e, o)[q] = e[q] + (IF q = o THEN 1 ELSE 0)
  BY IncType
<1>2. \A p \in Objs : d[p] = Inc(e, o)[p]
  <2>1. ASSUME NEW p \in Objs \ {o}
        PROVE  d[p] = Inc(e, o)[p]
    <3>1. Inc(e, o)[p] = e[p] + 0 /\ e[p] \in Nat
      BY <1>1
    <3> QED BY <3>1
  <2>2. d[o] = Inc(e, o)[o]
    BY <1>1
  <2> QED BY <2>1, <2>2
<1> QED BY <1>1, <1>2

\* The program holds one more reference
LEMMA OutsideHeld ==
  ASSUME NEW a \in [Objs -> Nat], NEW s, NEW l, NEW o \in Objs, NEW c \in [Objs -> Nat],
         c[o] = a[o] + 1, \A p \in Objs \ {o} : c[p] = a[p]
  PROVE  Outside(c, s, l) = Inc(Outside(a, s, l), o)
<1>1. /\ Outside(c, s, l) \in [Objs -> Nat]
      /\ \A p \in Objs : Outside(c, s, l)[p] = c[p] + Listed(s, p) + Among(l, p)
  BY OutsideType
<1>2. /\ Outside(a, s, l) \in [Objs -> Nat]
      /\ \A p \in Objs : /\ Outside(a, s, l)[p] = a[p] + Listed(s, p) + Among(l, p)
                        /\ a[p] \in Nat /\ Listed(s, p) \in {0, 1} /\ Among(l, p) \in {0, 1}
  BY OutsideType
<1>3. Outside(c, s, l)[o] = Outside(a, s, l)[o] + 1
  <2>1. Outside(c, s, l)[o] = (a[o] + 1) + Listed(s, o) + Among(l, o)
    BY <1>1
  <2>2. Outside(a, s, l)[o] = a[o] + Listed(s, o) + Among(l, o)
        /\ a[o] \in Nat /\ Listed(s, o) \in Int /\ Among(l, o) \in Int
    BY <1>2
  <2> QED BY <2>1, <2>2
<1>4. \A p \in Objs \ {o} : Outside(c, s, l)[p] = Outside(a, s, l)[p]
  BY <1>1, <1>2
<1> QED BY <1>1, <1>2, <1>3, <1>4, MoreIsInc

\* ... or one less
LEMMA OutsideGiven ==
  ASSUME NEW a \in [Objs -> Nat], NEW s, NEW l, NEW o \in Objs, NEW c \in [Objs -> Nat],
         c[o] = a[o] - 1, \A p \in Objs \ {o} : c[p] = a[p]
  PROVE  Outside(c, s, l) = Dec(Outside(a, s, l), o)
<1>1. a[o] = c[o] + 1
  OBVIOUS
<1>2. Outside(a, s, l) = Inc(Outside(c, s, l), o)
  BY <1>1, OutsideHeld
<1>3. Outside(c, s, l) \in [Objs -> Nat]
  BY OutsideType
<1> QED BY <1>2, <1>3, IncDec

\* The manager's list lets go of an object without deleting it
LEMMA OutsideLost ==
  ASSUME NEW a \in [Objs -> Nat], NEW s, NEW l, NEW o \in Objs, NEW m,
         Among(m, o) = 1, Among(l, o) = 0, \A p \in Objs \ {o} : Among(m, p) = Among(l, p)
  PROVE  Outside(a, s, m) = Inc(Outside(a, s, l), o)
<1>1. /\ Outside(a, s, m) \in [Objs -> Nat]
      /\ \A p \in Objs : Outside(a, s, m)[p] = a[p] + Listed(s, p) + Among(m, p)
  BY OutsideType
<1>2. /\ Outside(a, s, l) \in [Objs -> Nat]
      /\ \A p \in Objs : /\ Outside(a, s, l)[p] = a[p] + Listed(s, p) + Among(l, p)
                        /\ a[p] \in Nat /\ Listed(s, p) \in {0, 1} /\ Among(l, p) \in {0, 1}
  BY OutsideType
<1>3. Outside(a, s, m)[o] = Outside(a, s, l)[o] + 1
  BY <1>1, <1>2
<1>4. \A p \in Objs \ {o} : Outside(a, s, m)[p] = Outside(a, s, l)[p]
  BY <1>1, <1>2
<1> QED BY <1>1, <1>2, <1>3, <1>4, MoreIsInc

\* ... or takes one it did not have
LEMMA OutsideIndexed ==
  ASSUME NEW a \in [Objs -> Nat], NEW s, NEW t, NEW l, NEW o \in Objs,
         Listed(s, o) = 0, Listed(t, o) = 1, \A p \in Objs \ {o} : Listed(t, p) = Listed(s, p)
  PROVE  Outside(a, t, l) = Inc(Outside(a, s, l), o)
<1>1. /\ Outside(a, t, l) \in [Objs -> Nat]
      /\ \A p \in Objs : Outside(a, t, l)[p] = a[p] + Listed(t, p) + Among(l, p)
  BY OutsideType
<1>2. /\ Outside(a, s, l) \in [Objs -> Nat]
      /\ \A p \in Objs : /\ Outside(a, s, l)[p] = a[p] + Listed(s, p) + Among(l, p)
                        /\ a[p] \in Nat /\ Listed(s, p) \in {0, 1} /\ Among(l, p) \in {0, 1}
  BY OutsideType
<1>3. Outside(a, t, l)[o] = Outside(a, s, l)[o] + 1
  BY <1>1, <1>2
<1>4. \A p \in Objs \ {o} : Outside(a, t, l)[p] = Outside(a, s, l)[p]
  BY <1>1, <1>2
<1> QED BY <1>1, <1>2, <1>3, <1>4, MoreIsInc

LEMMA EntryIs ==
  ASSUME NEW s \in Seq([name : Blocks, obj : Objs]), NEW i \in DOMAIN s
  PROVE  s[i] \in [name : Blocks, obj : Objs] /\ s[i].obj \in Objs
<1> DEFINE R == [name : Blocks, obj : Objs]
<1> HIDE DEF R
<1>1. s \in [1 .. Len(s) -> R] /\ DOMAIN s = 1 .. Len(s)
  BY LenProperties DEF R
<1>2. s[i] \in R
  BY <1>1
<1> QED BY <1>2 DEF R

LEMMA ListedCounts ==
  ASSUME NEW a \in [Objs -> Nat], NEW s, NEW l, NEW i \in DOMAIN s, NEW o \in Objs, s[i].obj = o
  PROVE  Outside(a, s, l)[o] >= a[o] + 1 /\ a[o] \in Nat /\ Outside(a, s, l)[o] \in Nat
<1>1. Listed(s, o) = 1
  BY DEF Listed
<1>2. /\ Outside(a, s, l)[o] = a[o] + Listed(s, o) + Among(l, o)
      /\ a[o] \in Nat /\ Among(l, o) \in {0, 1}
  BY OutsideType
<1> QED BY <1>1, <1>2

NotListed(s, o) == \A i \in DOMAIN s : s[i].obj # o

\* The objects of the list other than o are in the units they were in
Unmoved(h, k, s, o) ==
  \A i \in DOMAIN s : s[i].obj # o => k.obj[s[i].obj].units = h.obj[s[i].obj].units

\* What the list has is not changed by work on other objects
LEMMA ListedAreKept ==
  ASSUME NEW h, NEW e, NEW a, NEW s, NEW l, Listing(h, e, a, s, l),
         NEW k, NEW o, NEW B, Works(h, k, e, o, B)
  PROVE  /\ \A i \in DOMAIN s : s[i].obj # o => k.obj[s[i].obj] = h.obj[s[i].obj]
         /\ Unmoved(h, k, s, o)
<1>1. ASSUME NEW i \in DOMAIN s, s[i].obj # o
      PROVE  k.obj[s[i].obj] = h.obj[s[i].obj]
  <2>1. PICK p : p = s[i].obj
    OBVIOUS
  <2>2. s \in Seq([name : Blocks, obj : Objs]) /\ Private(h, e, p)
    BY <2>1 DEF Listing, Indices
  <2>3. p \in Objs \ {o}
    BY <1>1, <2>1, <2>2, EntryIs
  <2> QED BY <2>1, <2>2, <2>3 DEF Works
<1> QED BY <1>1 DEF Unmoved

LEMMA ListingBy ==
  ASSUME NEW h, NEW e, NEW a, NEW s, NEW l, Listing(h, e, a, s, l), NEW k,
         \A i \in DOMAIN s : k.obj[s[i].obj] = h.obj[s[i].obj]
  PROVE  Listing(k, e, a, s, l)
<1>1. Indices(k, e, s)
  BY DEF Listing, Indices, Private, Live
<1> QED BY <1>1 DEF Listing

\* Work on o, after which the references are d: o, if the list has it, is in
\* neither the cache nor a composite
MovesOnly(h, k, e, d, o, s) ==
  /\ \E B : Works(h, k, e, o, B)
  /\ \A p \in Objs \ {o} : d[p] = e[p]
  /\ NotListed(s, o) \/ Private(k, d, o)

\* ... the program's being c
LEMMA ListingMoves ==
  ASSUME NEW h, NEW e, NEW a, NEW s, NEW l, Listing(h, e, a, s, l),
         NEW k, NEW o, NEW c, c \in [Objs -> Nat], NEW d, d = Outside(c, s, l),
         MovesOnly(h, k, e, d, o, s)
  PROVE  Listing(k, d, c, s, l)
<1>0. PICK B : /\ Works(h, k, e, o, B)
               /\ \A p \in Objs \ {o} : d[p] = e[p]
               /\ NotListed(s, o) \/ Private(k, d, o)
  BY DEF MovesOnly
<1>1. s \in Seq([name : Blocks, obj : Objs]) /\ l \subseteq Objs /\ Indices(h, e, s)
  BY DEF Listing
<1>2. ASSUME NEW i \in DOMAIN s
      PROVE  Private(k, d, s[i].obj)
  <2>1. PICK p : p = s[i].obj
    OBVIOUS
  <2>2. p \in Objs
    BY <1>1, <2>1, EntryIs
  <2>3. CASE p = o
    BY <1>0, <2>1, <2>3 DEF NotListed
  <2>4. CASE p # o
    <3>1. k.obj[p] = h.obj[p]
      BY <1>0, <2>1, <2>4, ListedAreKept
    <3>2. Private(h, e, p) /\ d[p] = e[p]
      BY <1>0, <1>1, <2>1, <2>2, <2>4 DEF Indices
    <3> QED BY <2>1, <3>1, <3>2 DEF Private, Live
  <2> QED BY <2>3, <2>4
<1>3. Indices(k, d, s)
  BY <1>1, <1>2 DEF Indices
<1> QED BY <1>1, <1>3 DEF Listing

LEMMA ListingKept ==
  ASSUME NEW h, NEW e, NEW a, NEW s, NEW l, Listing(h, e, a, s, l),
         NEW k, NEW o, NEW B, Works(h, k, e, o, B), NotListed(s, o) \/ Private(k, e, o)
  PROVE  Listing(k, e, a, s, l)
<1>1. a \in [Objs -> Nat] /\ e = Outside(a, s, l)
  BY DEF Listing
<1>2. MovesOnly(h, k, e, e, o, s)
  BY DEF MovesOnly
<1> QED BY <1>1, <1>2, ListingMoves

\* An object the list has is private, as it stays when its count is unchanged
LEMMA ListedIsPrivate ==
  ASSUME NEW h, NEW e, NEW a, NEW s, NEW l, Listing(h, e, a, s, l), NEW o
  PROVE  NotListed(s, o) \/ Private(h, e, o)
BY DEF Listing, Indices, NotListed

LEMMA StillPrivate ==
  ASSUME NEW h, NEW e, NEW a, NEW s, NEW l, Listing(h, e, a, s, l), NEW o, NEW k,
         Live(k, o), k.obj[o].ref = h.obj[o].ref
  PROVE  NotListed(s, o) \/ Private(k, e, o)
BY ListedIsPrivate DEF Private

\* c are the references a and one more to o
OneMoreOf(a, c, o) ==
  /\ a \in [Objs -> Nat] /\ c \in [Objs -> Nat] /\ o \in Objs
  /\ c[o] = a[o] + 1 /\ \A p \in Objs \ {o} : c[p] = a[p]

\* The program takes a reference to o, or gives one up
LEMMA OneMoreOutside ==
  ASSUME NEW a, NEW c, NEW o, OneMoreOf(a, c, o), NEW s, NEW l, NEW e, e = Outside(a, s, l),
         NEW d, d = Outside(c, s, l)
  PROVE  /\ d = Inc(e, o) /\ e = Dec(d, o) /\ e \in [Objs -> Nat] /\ d \in [Objs -> Nat]
         /\ d[o] = e[o] + 1 /\ \A p \in Objs \ {o} : d[p] = e[p]
<1>1. /\ a \in [Objs -> Nat] /\ c \in [Objs -> Nat] /\ o \in Objs
      /\ c[o] = a[o] + 1 /\ \A p \in Objs \ {o} : c[p] = a[p]
  BY DEF OneMoreOf
<1>2. d = Inc(e, o)
  BY <1>1, OutsideHeld
<1>3. e \in [Objs -> Nat] /\ d \in [Objs -> Nat]
  BY <1>1, OutsideType
<1>4. e = Dec(d, o)
  BY <1>1, <1>2, <1>3, IncDec
<1>5. \A p \in Objs : d[p] = e[p] + (IF p = o THEN 1 ELSE 0)
  BY <1>1, <1>2, <1>3, IncType
<1>6. d[o] = e[o] + 1 /\ \A p \in Objs \ {o} : d[p] = e[p]
  BY <1>1, <1>3, <1>5
<1> QED BY <1>2, <1>3, <1>4, <1>6

\* ... one more to an object the list has nothing to do with
LEMMA ListingHeld ==
  ASSUME NEW h, NEW e, NEW a, NEW s, NEW l, Listing(h, e, a, s, l), NEW o, NEW c,
         OneMoreOf(a, c, o), NotListed(s, o)
  PROVE  Listing(h, Inc(e, o), c, s, l)
<1>1. e = Outside(a, s, l) /\ c \in [Objs -> Nat]
  BY DEF Listing, OneMoreOf
<1>2. PICK d : d = Outside(c, s, l)
  OBVIOUS
<1>3. d = Inc(e, o) /\ \A p \in Objs \ {o} : d[p] = e[p]
  BY <1>1, <1>2, OneMoreOutside
<1>4. MovesOnly(h, h, e, d, o, s)
  BY <1>3, WorksOn DEF MovesOnly
<1>5. Listing(h, d, c, s, l)
  BY <1>1, <1>2, <1>4, ListingMoves
<1> QED BY <1>3, <1>5

\* What the list has is referred to, besides the program's own references
LEMMA ListedIs ==
  ASSUME NEW h, NEW e, NEW a, NEW s, NEW l, Listing(h, e, a, s, l), Sound(h, e),
         NEW i \in DOMAIN s, NEW o, o = s[i].obj
  PROVE  o \in Objs /\ e[o] > 0 /\ Live(h, o) /\ e[o] >= a[o] + 1
<1>1. /\ a \in [Objs -> Nat] /\ e = Outside(a, s, l)
      /\ s \in Seq([name : Blocks, obj : Objs])
  BY DEF Listing
<1>2. o \in Objs
  BY <1>1, EntryIs
<1>3. e[o] >= a[o] + 1 /\ a[o] \in Nat /\ e[o] \in Nat
  BY <1>1, <1>2, ListedCounts
<1>4. e[o] > 0
  BY <1>3
<1> QED BY <1>2, <1>3, <1>4, OnlyRef

-----------------------------------------------------------------------------
(* The operations of the heap keep Safe *)

\* No exclusive composite has o for a component, and the data base does not
\* keep it for one
NotOwned(h, o) ==
  /\ \A p \in Objs, i \in {1, 2} :
       Live(h, p) /\ Exclusive(h.obj[p].name) => h.obj[p].part[i] # o
  /\ \A b \in Blocks, i \in {1, 2} :
       Exclusive(b) /\ PartsOf[b][i] \in Blocks => h.cache[PartsOf[b][i]] # o

\* ... as when the program has a reference to it
LEMMA HeldNotOwned ==
  ASSUME NEW h, NEW e, NEW D, Safe(h, e, D), NEW o \in Objs, e[o] > 0
  PROVE  NotOwned(h, o)
<1>1. e[o] # 0 /\ o # NULL
  BY NullAssumption DEF Safe, Sound
<1>2. ASSUME NEW p \in Objs, NEW i \in {1, 2}, Live(h, p), Exclusive(h.obj[p].name)
      PROVE  h.obj[p].part[i] # o
  BY <1>1, <1>2 DEF Safe, OwnSafe
<1>3. ASSUME NEW b \in Blocks, NEW i \in {1, 2}, Exclusive(b), PartsOf[b][i] \in Blocks
      PROVE  h.cache[PartsOf[b][i]] # o
  BY <1>1, <1>3 DEF Safe, PartsKept
<1> QED BY <1>2, <1>3 DEF NotOwned

\* ... or it is of a block that the program fetches
LEMMA FetchedNotOwned ==
  ASSUME NEW h, NEW e, NEW D, Safe(h, e, D), NEW o \in Objs, Live(h, o),
         h.obj[o].name \in Fetched
  PROVE  NotOwned(h, o)
<1>1. h \in Heap /\ Shape(h) /\ o # NULL
  BY NullAssumption DEF Safe, Sound
<1>2. ASSUME NEW p \in Objs, NEW i \in {1, 2}, Live(h, p), Exclusive(h.obj[p].name)
      PROVE  h.obj[p].part[i] # o
  <2>1. SUFFICES ASSUME h.obj[p].part[i] = o
                 PROVE  FALSE
    OBVIOUS
  <2>2. h.obj[h.obj[p].part[i]].name = PartsOf[h.obj[p].name][i]
    BY <1>1, <1>2, <2>1, PartIsSimple
  <2>3. PartsOf[h.obj[p].name][i] \in Fetched
    BY <2>1, <2>2
  <2> QED BY <1>2, <2>3 DEF Exclusive
<1>3. ASSUME NEW b \in Blocks, NEW i \in {1, 2}, Exclusive(b), PartsOf[b][i] \in Blocks
      PROVE  h.cache[PartsOf[b][i]] # o
  <2>1. SUFFICES ASSUME h.cache[PartsOf[b][i]] = o
                 PROVE  FALSE
    OBVIOUS
  <2>2. h.obj[o].name = PartsOf[b][i]
    BY <1>1, <1>3, <2>1 DEF Shape
  <2> QED BY <1>3, <2>2 DEF Exclusive
<1> QED BY <1>2, <1>3 DEF NotOwned

\* An operation on an object nothing exclusive owns
LEMMA SafeOn ==
  ASSUME NEW h, NEW e, NEW D, Safe(h, e, D), NEW o \in Objs, Live(h, o), NotOwned(h, o),
         NEW k, NEW d, Sound(k, d), \A p \in Objs \ {o} : d[p] = e[p],
         NEW B, Works(h, k, e, o, B), B \subseteq PartBlocks(h.obj[o].name),
         k.cache = h.cache \/ e[o] > 0,
         k.obj[o].name = h.obj[o].name, OwnSafe(k, d, D, o)
  PROVE  Safe(k, d, D)
<1>1. h \in Heap /\ Shape(h) /\ h.obj[o].name \in Blocks /\ e \in [Objs -> Nat] /\ o # NULL
  BY TypedObject, NullAssumption DEF Safe, Sound
<1>2. Apart(h, o, B)
  <2>1. \A c \in B : c \in Blocks => ~IsComposite(c)
    BY <1>1, NotOwnPart
  <2>2. ASSUME NEW p \in Objs \ {o}, Live(h, p), Exclusive(h.obj[p].name)
        PROVE  /\ PartBlocks(h.obj[p].name) \cap B = {}
               /\ \A i \in {1, 2} : h.obj[p].part[i] \in Objs => h.obj[p].part[i] # o
    <3>1. h.obj[p].name \in Blocks
      BY <1>1, <2>2, TypedObject
    <3>2. h.obj[o].name # h.obj[p].name
      BY <2>2 DEF Safe, Single
    <3>3. PartBlocks(h.obj[p].name) \cap PartBlocks(h.obj[o].name) = {}
      BY <1>1, <2>2, <3>1, <3>2, ExclusiveIs
    <3> QED BY <2>2, <3>3 DEF NotOwned
  <2> QED BY <2>1, <2>2 DEF Apart
<1>3. Alone(h, k, o)
  BY DEF Alone, Safe, Single
<1>4. NotKept(k, d, o)
  <2>1. SUFFICES ASSUME NEW b \in Blocks, NEW i \in {1, 2}, Exclusive(b),
                        PartsOf[b][i] \in Blocks, k.cache[PartsOf[b][i]] = o
                 PROVE  FALSE
    BY DEF NotKept
  <2>2. h.cache[PartsOf[b][i]] # o
    BY <2>1 DEF NotOwned
  <2>3. e[o] = 0
    BY <2>1, <2>2 DEF Works
  <2> QED BY <1>1, <2>1, <2>2, <2>3
<1> QED BY <1>1, <1>2, <1>3, <1>4, SafeWorks

LEMMA DuplicateSafe ==
  ASSUME NEW h, NEW e, NEW D, Safe(h, e, D), NEW o \in Objs, Live(h, o), NotOwned(h, o),
         NEW k, k = Duplicate(h, o)
  PROVE  Safe(k, Inc(e, o), D) /\ Works(h, k, e, o, {})
<1>1. PICK d : d = Inc(e, o)
  OBVIOUS
<1>2. /\ Sound(h, e) /\ h \in Heap /\ Shape(h) /\ e \in [Objs -> Nat] /\ o # NULL
  BY NullAssumption DEF Safe, Sound
<1>3. \A p \in Objs : d[p] = e[p] + (IF p = o THEN 1 ELSE 0)
  BY <1>1, <1>2, IncType
<1>4. \A p \in Objs \ {o} : d[p] = e[p]
  BY <1>2, <1>3
<1>5. Sound(k, d) /\ Recount(h, k) /\ \A p \in Objs \ {o} : k.obj[p] = h.obj[p]
  BY <1>1, <1>2, DuplicateCounts
<1>6. k.cache = h.cache /\ SameFace(k.obj[o], h.obj[o]) /\ Live(k, o)
  BY <1>5 DEF Recount
<1>7. Works(h, k, e, o, {})
  BY <1>5, <1>6, WorksOn
<1>8. OwnSafe(k, d, D, o)
  <2>1. OwnSafe(h, e, D, o)
    BY DEF Safe
  <2>2. ASSUME NEW i \in {1, 2}, h.obj[o].part[i] # NULL
        PROVE  h.obj[o].part[i] \in Objs \ {o}
    BY <1>2, <2>2, PartIsSimple
  <2>3. GoodAt(k, o)
    BY <1>6, <2>1 DEF GoodAt, OwnSafe, SameFace
  <2>4. Together(h, o) => Together(k, o)
    <3>1. SUFFICES ASSUME Together(h, o), IsComposite(k.obj[o].name),
                          k.obj[o].status = "good", k.obj[o].units # NULL, NEW i \in {1, 2}
                   PROVE  k.obj[k.obj[o].part[i]].units = k.obj[o].units
      BY DEF Together
    <3>2. /\ IsComposite(h.obj[o].name) /\ h.obj[o].status = "good"
          /\ h.obj[o].units = k.obj[o].units /\ k.obj[o].part = h.obj[o].part
      BY <1>6, <3>1 DEF SameFace
    <3>3. h.obj[h.obj[o].part[i]].units = h.obj[o].units
      BY <3>1, <3>2 DEF Together
    <3>4. h.obj[o].part[i] # NULL
      BY <1>2, <3>2 DEF Shape
    <3> QED BY <1>5, <2>2, <3>2, <3>3, <3>4
  <2>5. k.obj[o].name = h.obj[o].name /\ k.obj[o].part = h.obj[o].part
    BY <1>6 DEF SameFace
  <2>6. ASSUME Exclusive(k.obj[o].name)
        PROVE  /\ Together(k, o)
               /\ k.obj[o].name \notin D => k.cache[k.obj[o].name] = o
               /\ \A i \in {1, 2} : k.obj[o].part[i] # NULL => d[k.obj[o].part[i]] = 0
    <3>1. /\ Together(h, o) /\ (h.obj[o].name \notin D => h.cache[h.obj[o].name] = o)
          /\ \A i \in {1, 2} : h.obj[o].part[i] # NULL => e[h.obj[o].part[i]] = 0
      BY <2>1, <2>5, <2>6 DEF OwnSafe
    <3>2. \A i \in {1, 2} : k.obj[o].part[i] # NULL => d[k.obj[o].part[i]] = 0
      BY <1>4, <2>2, <2>5, <3>1
    <3> QED BY <1>6, <2>4, <2>5, <3>1, <3>2
  <2> QED BY <2>3, <2>6 DEF OwnSafe
<1>9. k.obj[o].name = h.obj[o].name
  BY <1>6 DEF SameFace
<1>10. Safe(k, d, D)
  BY <1>4, <1>5, <1>6, <1>7, <1>8, <1>9, SafeOn
<1> QED BY <1>1, <1>7, <1>10

LEMMA ConvertSafe ==
  ASSUME NEW h, NEW e, NEW D, Safe(h, e, D), NEW o \in Objs, e[o] > 0,
         NEW to \in KnownUnits, NEW r, r = ConvertUnits(h, o, to)
  PROVE  /\ Safe(r.heap, e, D) /\ Works(h, r.heap, e, o, PartBlocks(h.obj[o].name))
         /\ Live(h, o) /\ Live(r.heap, o) /\ r.heap.obj[o].ref = h.obj[o].ref
         /\ r.ret = 0 => r.heap.obj[o].units = to
<1>1. Sound(h, e) /\ h \in Heap /\ Shape(h)
  BY DEF Safe, Sound
<1>2. Live(h, o) /\ NotOwned(h, o)
  BY <1>1, OnlyRef, HeldNotOwned
<1>3. PICK k : k = r.heap
  OBVIOUS
<1>4. Converts(h, o, to, r)
  BY <1>1, <1>2, ConvertUnitsIs
<1>5. /\ Touched(h, k, {o, h.obj[o].part[1], h.obj[o].part[2]})
      /\ \A p \in Objs : GoodAt(h, p) => GoodAt(k, p)
      /\ Together(h, o) => Together(k, o)
      /\ r.ret = 0 => k.obj[o].units = to
  BY <1>3, <1>4 DEF Converts
<1>6. Sound(k, e)
  BY <1>1, <1>5, TouchedCounts
<1>7. Works(h, k, e, o, PartBlocks(h.obj[o].name))
  <2>1. \A i \in {1, 2} : PartsOf[h.obj[o].name][i] \in PartBlocks(h.obj[o].name)
    BY DEF PartBlocks
  <2> QED BY <1>1, <1>2, <1>5, <2>1, WorksTouched
<1>8. /\ Live(k, o) /\ k.obj[o].name = h.obj[o].name /\ k.obj[o].part = h.obj[o].part
      /\ k.obj[o].ref = h.obj[o].ref /\ k.cache = h.cache
  BY <1>2, <1>5 DEF Touched, Worked
<1>9. OwnSafe(k, e, D, o)
  BY <1>2, <1>5, <1>8 DEF Safe, OwnSafe
<1>10. Safe(k, e, D)
  BY <1>2, <1>6, <1>7, <1>8, <1>9, SafeOn
<1> QED BY <1>2, <1>3, <1>5, <1>7, <1>8, <1>10

LEMMA ReleaseSafe ==
  ASSUME NEW h, NEW e, NEW D, Safe(h, e, D), NEW o \in Objs, e[o] > 0,
         NEW k, k = Release(h, o)
  PROVE  Safe(k, Dec(e, o), D) /\ Works(h, k, e, o, {})
<1>1. Sound(h, e) /\ e \in [Objs -> Nat]
  BY DEF Safe, Sound
<1>2. Live(h, o)
  BY <1>1, OnlyRef
<1>3. Sound(k, Dec(e, o)) /\ Milder(h, k, {o, h.obj[o].part[1], h.obj[o].part[2]})
  BY <1>1, ReleaseCounts
<1>4. /\ k.cache = h.cache
      /\ \A p \in Objs : Live(k, p) => Live(h, p) /\ SameFace(k.obj[p], h.obj[p])
  BY <1>3 DEF Milder
<1>5. PICK d : d = Dec(e, o)
  OBVIOUS
<1>6. \A p \in Objs : d[p] <= e[p]
  <2>1. \A p \in Objs : d[p] = e[p] - (IF p = o THEN 1 ELSE 0)
    BY <1>1, <1>5, DecType
  <2> QED BY <1>1, <2>1
<1>7. Safe(k, d, D)
  BY <1>3, <1>4, <1>5, <1>6, SafeLess
<1> QED BY <1>1, <1>2, <1>3, <1>5, <1>7, WorksReleased

\* ~Property: the data base gives up an entry of its cache
LEMMA UncacheSafe ==
  ASSUME NEW h, NEW e, Safe(h, e, Blocks), NEW b \in Blocks, h.cache[b] # NULL,
         NEW g, g = [h EXCEPT !.cache[b] = NULL], NEW k, k = Release(g, h.cache[b])
  PROVE  Safe(k, e, Blocks)
<1>1. Sound(h, e) /\ e \in [Objs -> Nat] /\ h \in Heap
  BY DEF Safe, Sound
<1>2. PICK q : q = h.cache[b]
  OBVIOUS
<1>3. q \in Objs
  BY <1>1, <1>2 DEF Heap
<1>4. PICK d : d = Inc(e, q)
  OBVIOUS
<1>5. Sound(g, d)
  BY <1>1, <1>2, <1>4, UncachedCounts
<1>6. d[q] > 0 /\ Dec(d, q) = e
  <2>1. d[q] = e[q] + 1 /\ e[q] \in Nat
    BY <1>1, <1>3, <1>4, IncType
  <2> QED BY <1>1, <1>3, <1>4, <2>1, IncDec
<1>7. Sound(k, e) /\ Milder(g, k, {q, g.obj[q].part[1], g.obj[q].part[2]})
  BY <1>2, <1>3, <1>5, <1>6, ReleaseCounts
<1>8. g.obj = h.obj /\ g.cache[b] = NULL /\ \A c \in Blocks \ {b} : g.cache[c] = h.cache[c]
  BY <1>1 DEF Heap
<1>9. \A p \in Objs : Live(k, p) => Live(h, p) /\ SameFace(k.obj[p], h.obj[p])
  BY <1>7, <1>8 DEF Milder, Live
<1>10. \A c \in Blocks : k.cache[c] = h.cache[c] \/ (c \in Blocks /\ k.cache[c] = NULL)
  BY <1>7, <1>8 DEF Milder
<1>11. \A p \in Objs : e[p] <= e[p]
  BY <1>1
<1> QED BY <1>7, <1>9, <1>10, <1>11, SafeLess

\* EOSbase::Initialize of an object the program holds, while the data base is
\* open: its components are made again
LEMMA InitializeSafe ==
  ASSUME NEW h, NEW e, Safe(h, e, {}), NEW o \in Objs, e[o] > 0,
         NEW b, b = h.obj[o].name, HasRoom(h, b),
         NEW to \in KnownUnits \cup {NULL}, NEW m, m = Initialize(h, o, b, to)
  PROVE  /\ Safe(m.heap, e, {}) /\ Works(h, m.heap, e, o, PartBlocks(b))
         /\ Live(m.heap, o) /\ m.heap.obj[o].ref = h.obj[o].ref
<1>1. Sound(h, e) /\ h \in Heap /\ Shape(h) /\ o # NULL
  BY NullAssumption DEF Safe, Sound
<1>2. Live(h, o) /\ NotOwned(h, o) /\ b \in Blocks
  BY <1>1, OnlyRef, HeldNotOwned, TypedObject
<1>3. PartsRoom(h, b)
  <2>1. /\ Cardinality(FreeSlots(h)) \in Nat
        /\ IsFiniteSet(Missing(h, b)) /\ Cardinality(Missing(h, b)) \in Nat
    BY FreeFinite
  <2>2. b \notin Missing(h, b)
    BY <1>2, NotOwnPart DEF Missing
  <2>3. Cardinality(Missing(h, b) \cup {b}) = Cardinality(Missing(h, b)) + 1
    BY <2>1, <2>2, FS_AddElement
  <2>4. {b} \cup Missing(h, b) = Missing(h, b) \cup {b}
    OBVIOUS
  <2>6. Cardinality(FreeSlots(h)) >= Cardinality({b} \cup Missing(h, b))
    BY DEF HasRoom
  <2>7. Cardinality(FreeSlots(h)) >= Cardinality(Missing(h, b)) + 1
    BY <2>3, <2>4, <2>6
  <2>5. Cardinality(FreeSlots(h)) >= Cardinality(Missing(h, b))
    BY <2>1, <2>7
  <2> QED BY <2>5, RoomForParts
<1>4. PICK k : k = m.heap
  OBVIOUS
<1>5. Initializes(h, e, o, b, k, m.ret)
  BY <1>1, <1>2, <1>3, <1>4, InitializeIs
<1>6. /\ Sound(k, e) /\ Works(h, k, e, o, PartBlocks(b))
      /\ Live(k, o) /\ k.obj[o].name = b /\ k.obj[o].ref = h.obj[o].ref
      /\ GoodAt(k, o) /\ Together(k, o)
      /\ PartFrom(h, k, o, b, 1) /\ PartFrom(h, k, o, b, 2)
  BY <1>5 DEF Initializes
<1>7. k \in Heap /\ Shape(k)
  BY <1>6 DEF Sound
<1>8. ASSUME Exclusive(b)
      PROVE  /\ k.cache[b] = o
             /\ \A i \in {1, 2} : k.obj[o].part[i] # NULL => e[k.obj[o].part[i]] = 0
  <2>1. /\ h.cache[b] = o
        /\ \A i \in {1, 2} : h.obj[o].part[i] # NULL => e[h.obj[o].part[i]] = 0
    BY <1>2, <1>8 DEF Safe, OwnSafe
  <2>2. k.cache[b] = o
    BY <1>1, <1>2, <1>6, <2>1 DEF Works
  <2>3. ASSUME NEW i \in {1, 2}, k.obj[o].part[i] # NULL
        PROVE  e[k.obj[o].part[i]] = 0
    <3>1. PICK c : c = PartsOf[b][i]
      OBVIOUS
    <3>2. PICK q : q = k.obj[o].part[i]
      OBVIOUS
    <3>3. c \in Blocks /\ q \in Objs /\ q # NULL
      BY <1>6, <1>7, <2>3, <3>1, <3>2, PartIsSimple, NullAssumption
    <3>4. q = h.obj[o].part[i] \/ q = k.cache[c]
      BY <1>6, <2>3, <3>1, <3>2 DEF PartFrom
    <3>5. CASE q = h.obj[o].part[i]
      BY <2>1, <3>2, <3>3, <3>5
    <3>6. CASE q = k.cache[c] /\ h.cache[c] = q
      BY <1>2, <1>8, <3>1, <3>2, <3>3, <3>6 DEF Safe, PartsKept
    <3>7. CASE q = k.cache[c] /\ h.cache[c] # q
      BY <1>6, <3>2, <3>3, <3>7 DEF Works
    <3> QED BY <3>4, <3>5, <3>6, <3>7
  <2> QED BY <2>2, <2>3
<1>9. OwnSafe(k, e, {}, o)
  BY <1>6, <1>8 DEF OwnSafe
<1>10. Safe(k, e, {})
  BY <1>2, <1>6, <1>9, SafeOn
<1> QED BY <1>4, <1>6, <1>10

\* No object of an exclusive block is there before the data base keeps one
LEMMA NoneYet ==
  ASSUME NEW h, NEW e, Safe(h, e, {}), NEW b \in Blocks,
         Exclusive(b) => h.cache[b] = NULL, NEW p \in Objs, Live(h, p), Exclusive(h.obj[p].name)
  PROVE  h.obj[p].name # b /\ PartBlocks(h.obj[p].name) \cap PartBlocks(b) = {}
<1>1. h.obj[p].name # b
  <2>1. h.cache[h.obj[p].name] = p /\ p # NULL
    BY NullAssumption DEF Safe, OwnSafe
  <2> QED BY <2>1
<1>2. h.obj[p].name \in Blocks
  BY TypedObject DEF Safe, Sound
<1> QED BY <1>1, <1>2, ExclusiveIs

\* DataBase::NewObject, whether it fails
LEMMA FailSafe ==
  ASSUME NEW h, NEW e, Safe(h, e, {}), NEW b \in Blocks, Exclusive(b) => h.cache[b] = NULL,
         NEW f, Fails(h, e, b, f)
  PROVE  Safe(f.heap, e, {})
<1>1. PICK k : k = f.heap
  OBVIOUS
<1>2. Sound(k, e) /\ Works(h, k, e, NULL, PartBlocks(b))
  BY <1>1 DEF Fails
<1>3. Apart(h, NULL, PartBlocks(b))
  <2>1. \A c \in PartBlocks(b) : c \in Blocks => ~IsComposite(c)
    BY NotOwnPart
  <2>2. \A p \in Objs \ {NULL} : Live(h, p) /\ Exclusive(h.obj[p].name) =>
          PartBlocks(h.obj[p].name) \cap PartBlocks(b) = {}
    BY NoneYet
  <2> QED BY <2>1, <2>2, NullAssumption DEF Apart
<1>4. NULL \in Objs \cup {NULL} /\ {} \subseteq {} /\ \A p \in Objs \ {NULL} : e[p] = e[p]
  OBVIOUS
<1>5. Safe(k, e, {})
  BY <1>2, <1>3, <1>4, SafeWorks
<1> QED BY <1>1, <1>5

\* ... or makes an object, that the data base does not keep yet
LEMMA NewSafe ==
  ASSUME NEW h, NEW e, Safe(h, e, {}), NEW b \in Blocks,
         NEW E, Exclusive(b) => h.cache[b] = NULL /\ b \in E,
         NEW k, NEW o, News(h, e, b, o, k)
  PROVE  Safe(k, Inc(e, o), E)
<1>1. PICK d : d = Inc(e, o)
  OBVIOUS
<1>2. /\ o \in Objs /\ ~Live(h, o) /\ Sound(k, d) /\ Works(h, k, e, o, PartBlocks(b))
      /\ k.obj[o].name = b /\ k.obj[o].ref = 1 /\ GoodAt(k, o) /\ Together(k, o)
      /\ \A i \in {1, 2} : k.obj[o].part[i] # NULL => k.obj[o].part[i] = k.cache[PartsOf[b][i]]
  BY <1>1 DEF News
<1>3. /\ Sound(h, e) /\ e \in [Objs -> Nat] /\ h \in Heap /\ k \in Heap /\ Shape(k)
      /\ o # NULL
  BY <1>2, NullAssumption DEF Safe, Sound
<1>4. e[o] = 0 /\ \A p \in Objs, i \in {1, 2} : Live(h, p) => h.obj[p].part[i] # o
  BY <1>2, <1>3, FreeIsUnused
<1>5. d[o] = 1 /\ d \in [Objs -> Nat] /\ \A p \in Objs \ {o} : d[p] = e[p]
  <2>1. d \in [Objs -> Nat] /\ \A p \in Objs : d[p] = e[p] + (IF p = o THEN 1 ELSE 0)
    BY <1>1, <1>2, <1>3, IncType
  <2> QED BY <1>2, <1>3, <1>4, <2>1
<1>6. Apart(h, o, PartBlocks(b))
  <2>1. \A c \in PartBlocks(b) : c \in Blocks => ~IsComposite(c)
    BY NotOwnPart
  <2>2. \A p \in Objs \ {o} : Live(h, p) /\ Exclusive(h.obj[p].name) =>
          PartBlocks(h.obj[p].name) \cap PartBlocks(b) = {}
    BY NoneYet
  <2> QED BY <1>4, <2>1, <2>2 DEF Apart
<1>7. Alone(h, k, o)
  <2>1. SUFFICES ASSUME NEW p \in Objs \ {o}, Live(h, p), Exclusive(b), h.obj[p].name = b
                 PROVE  FALSE
    BY <1>2 DEF Alone
  <2> QED BY <2>1, NoneYet
<1>8. \A c \in Blocks : k.cache[c] # o
  BY <1>2, <1>5, OnlyRef
<1>9. NotKept(k, d, o)
  BY <1>8 DEF NotKept
<1>10. OwnSafe(k, d, E, o)
  <2>1. ASSUME Exclusive(b), Live(k, o), NEW i \in {1, 2}, k.obj[o].part[i] # NULL
        PROVE  d[k.obj[o].part[i]] = 0
    <3>1. PICK c : c = PartsOf[b][i]
      OBVIOUS
    <3>2. PICK q : q = k.obj[o].part[i]
      OBVIOUS
    <3>3. c \in Blocks /\ q \in Objs \ {o} /\ q # NULL
      BY <1>2, <1>3, <2>1, <3>1, <3>2, PartIsSimple, NullAssumption
    <3>4. q = k.cache[c]
      BY <1>2, <2>1, <3>1, <3>2
    <3>5. e[q] = 0
      <4>1. CASE h.cache[c] = q
        BY <2>1, <3>1, <3>3, <4>1 DEF Safe, PartsKept
      <4>2. CASE h.cache[c] # q
        BY <1>2, <3>3, <3>4, <4>2 DEF Works
      <4> QED BY <4>1, <4>2
    <3> QED BY <1>5, <3>2, <3>3, <3>5
  <2> QED BY <1>2, <2>1 DEF OwnSafe
<1>11. {} \subseteq E
  OBVIOUS
<1>12. Safe(k, d, E)
  BY <1>2, <1>5, <1>6, <1>7, <1>9, <1>10, <1>11, SafeWorks
<1> QED BY <1>1, <1>12

\* DataBase::FetchObj: now it does
LEMMA KeepSafe ==
  ASSUME NEW n, NEW d, NEW b \in Fetched, Safe(n, d, {b}), NEW o \in Objs, Live(n, o),
         n.obj[o].name = b, n.cache[b] = NULL, NEW k, Keeps(n, k, b, o), Sound(k, d)
  PROVE  Safe(k, d, {})
<1>1. /\ n \in Heap /\ Shape(n) /\ k \in Heap /\ Shape(k) /\ b \in Blocks
  BY ProgramAssumption DEF Safe, Sound
<1>2. /\ k.cache[b] = o /\ \A c \in Blocks \ {b} : k.cache[c] = n.cache[c]
      /\ \A p \in Objs : /\ Live(k, p) <=> Live(n, p)
                         /\ Live(n, p) => SameFace(k.obj[p], n.obj[p])
  BY <1>1 DEF Keeps, Heap
<1>3. ASSUME NEW p \in Objs, Live(k, p)
      PROVE  OwnSafe(k, d, {}, p)
  <2>1. Live(n, p) /\ SameFace(k.obj[p], n.obj[p]) /\ OwnSafe(n, d, {b}, p)
    BY <1>2, <1>3 DEF Safe
  <2>2. /\ k.obj[p].name = n.obj[p].name /\ k.obj[p].units = n.obj[p].units
        /\ k.obj[p].numbers = n.obj[p].numbers /\ k.obj[p].status = n.obj[p].status
        /\ k.obj[p].part = n.obj[p].part
    BY <2>1 DEF SameFace
  <2>3. GoodAt(k, p)
    BY <2>1, <2>2 DEF GoodAt, OwnSafe
  <2>4. ASSUME Exclusive(k.obj[p].name)
        PROVE  /\ Together(k, p) /\ k.cache[k.obj[p].name] = p
               /\ \A i \in {1, 2} : k.obj[p].part[i] # NULL => d[k.obj[p].part[i]] = 0
    <3>1. /\ Together(n, p)
          /\ n.obj[p].name # b => n.cache[n.obj[p].name] = p
          /\ \A i \in {1, 2} : n.obj[p].part[i] # NULL => d[n.obj[p].part[i]] = 0
      BY <2>1, <2>2, <2>4 DEF OwnSafe
    <3>2. Together(k, p)
      <4>1. SUFFICES ASSUME IsComposite(k.obj[p].name), k.obj[p].status = "good",
                            k.obj[p].units # NULL, NEW i \in {1, 2}
                     PROVE  k.obj[k.obj[p].part[i]].units = k.obj[p].units
        BY DEF Together
      <4>2. PICK q : q = k.obj[p].part[i]
        OBVIOUS
      <4>3. q \in Objs /\ Live(k, q)
        <5>1. k.obj[p].part[i] # NULL
          BY <1>1, <1>3, <4>1 DEF Shape
        <5> QED BY <1>1, <1>3, <4>2, <5>1, PartIsSimple
      <4>4. k.obj[q].units = n.obj[q].units
        BY <1>2, <4>3 DEF SameFace
      <4>5. n.obj[n.obj[p].part[i]].units = n.obj[p].units
        BY <2>2, <3>1, <4>1 DEF Together
      <4> QED BY <2>2, <4>2, <4>4, <4>5
    <3>3. k.cache[k.obj[p].name] = p
      <4>1. k.obj[p].name \in Blocks
        BY <1>1, <1>3, TypedObject
      <4>2. CASE n.obj[p].name = b
        <5>1. p = o
          BY <2>1, <2>2, <2>4, <4>2 DEF Safe, Single
        <5> QED BY <1>2, <2>2, <4>2, <5>1
      <4>3. CASE n.obj[p].name # b
        BY <1>2, <2>2, <3>1, <4>1, <4>3
      <4> QED BY <4>2, <4>3
    <3> QED BY <2>2, <3>1, <3>2, <3>3
  <2> QED BY <2>3, <2>4 DEF OwnSafe
<1>4. \A p \in Objs : OwnSafe(k, d, {}, p)
  BY <1>3 DEF OwnSafe
<1>5. Single(k)
  <2>1. SUFFICES ASSUME NEW p \in Objs, NEW q \in Objs, Live(k, p), Live(k, q),
                        Exclusive(k.obj[p].name), k.obj[q].name = k.obj[p].name
                 PROVE  p = q
    BY DEF Single
  <2>2. /\ Live(n, p) /\ n.obj[p].name = k.obj[p].name
        /\ Live(n, q) /\ n.obj[q].name = k.obj[q].name
    BY <1>2, <2>1 DEF SameFace
  <2> QED BY <2>1, <2>2 DEF Safe, Single
<1>6. PartsKept(k, d)
  <2>1. SUFFICES ASSUME NEW c \in Blocks, NEW i \in {1, 2}, Exclusive(c),
                        PartsOf[c][i] \in Blocks, k.cache[PartsOf[c][i]] # NULL
                 PROVE  d[k.cache[PartsOf[c][i]]] = 0
    BY DEF PartsKept
  <2>2. PartsOf[c][i] # b
    BY <2>1 DEF Exclusive
  <2>3. k.cache[PartsOf[c][i]] = n.cache[PartsOf[c][i]]
    BY <1>2, <2>1, <2>2
  <2> QED BY <2>1, <2>3 DEF Safe, PartsKept
<1> QED BY <1>4, <1>5, <1>6 DEF Safe

-----------------------------------------------------------------------------
(* The steps of the program and of the manager *)

LEMMA StateIs ==
  ASSUME NEW h, NEW a, NEW s, NEW l, NEW op, State(h, a, s, l, op)
  PROVE  \E e : /\ op \in BOOLEAN /\ e = Outside(a, s, l) /\ Safe(h, e, Unkept(op)) /\ Sound(h, e)
                /\ Listing(h, e, a, s, l) /\ a \in [Objs -> Nat]
BY DEF State, Listing, Safe

LEMMA StateBy ==
  ASSUME NEW k, NEW e, NEW a, NEW s, NEW l, NEW op \in BOOLEAN,
         Safe(k, e, Unkept(op)), Listing(k, e, a, s, l)
  PROVE  State(k, a, s, l, op)
BY DEF State, Listing

\* The program's references: it has them besides those of the list
LEMMA HeldIs ==
  ASSUME NEW h, NEW e, NEW a, NEW s, NEW l, Listing(h, e, a, s, l), Sound(h, e),
         NEW o \in Objs, a[o] > 0
  PROVE  e[o] > 0 /\ Live(h, o)
<1>1. a \in [Objs -> Nat] /\ e = Outside(a, s, l)
  BY DEF Listing
<1>2. e[o] > 0
  <2>1. /\ e[o] = a[o] + Listed(s, o) + Among(l, o)
        /\ a[o] \in Nat /\ Listed(s, o) \in {0, 1} /\ Among(l, o) \in {0, 1}
    BY <1>1, OutsideType
  <2> QED BY <2>1
<1> QED BY <1>2, OnlyRef

\* What the program may call: an object it holds, or one of the list
Callable(a, s, o) == a[o] > 0 \/ ~NotListed(s, o)

LEMMA CallableIs ==
  ASSUME NEW h, NEW e, NEW a, NEW s, NEW l, Listing(h, e, a, s, l), Sound(h, e),
         NEW o \in Objs, Callable(a, s, o)
  PROVE  e[o] > 0 /\ Live(h, o)
<1>1. CASE a[o] > 0
  BY <1>1, HeldIs
<1>2. CASE ~NotListed(s, o)
  <2>1. PICK i \in DOMAIN s : o = s[i].obj
    BY <1>2 DEF NotListed
  <2> QED BY <2>1, ListedIs
<1> QED BY <1>1, <1>2 DEF Callable

LEMMA OneMoreHeld ==
  ASSUME NEW a \in [Objs -> Nat], NEW o \in Objs, NEW c, c = [a EXCEPT ![o] = @ + 1]
  PROVE  OneMoreOf(a, c, o)
BY DEF OneMoreOf

LEMMA OneLessHeld ==
  ASSUME NEW a \in [Objs -> Nat], NEW o \in Objs, a[o] > 0, NEW c, c = [a EXCEPT ![o] = @ - 1]
  PROVE  OneMoreOf(c, a, o)
<1>1. a[o] - 1 \in Nat
  OBVIOUS
<1> QED BY <1>1 DEF OneMoreOf

\* Duplicate
LEMMA DuplicateState ==
  ASSUME NEW h, NEW a, NEW s, NEW l, NEW op, State(h, a, s, l, op), NEW o \in Objs,
         Callable(a, s, o), NEW k, k = Duplicate(h, o), NEW c, OneMoreOf(a, c, o)
  PROVE  State(k, c, s, l, op) /\ Unmoved(h, k, s, NULL)
<1>1. PICK e : /\ op \in BOOLEAN /\ Safe(h, e, Unkept(op)) /\ Sound(h, e)
               /\ Listing(h, e, a, s, l) /\ e = Outside(a, s, l)
  BY StateIs
<1>2. e[o] > 0 /\ Live(h, o)
  BY <1>1, CallableIs
<1>3. NotOwned(h, o)
  BY <1>1, <1>2, HeldNotOwned
<1>4. Safe(k, Inc(e, o), Unkept(op)) /\ Works(h, k, e, o, {})
  BY <1>1, <1>2, <1>3, DuplicateSafe
<1>5. PICK d : d = Outside(c, s, l)
  OBVIOUS
<1>6. d = Inc(e, o) /\ d[o] = e[o] + 1 /\ e[o] \in Nat /\ \A p \in Objs \ {o} : d[p] = e[p]
  BY <1>1, <1>5, OneMoreOutside
<1>7. /\ h \in Heap /\ h.obj[o] \in Object /\ h.obj[o].ref \in Nat
      /\ k.obj[o] = [h.obj[o] EXCEPT !.ref = @ + 1]
  BY <1>1, <1>2, TypedObject DEF Sound, Duplicate, Heap
<1>8. /\ k.obj[o].ref = h.obj[o].ref + 1 /\ k.obj[o].units = h.obj[o].units
      /\ k.obj[o] # FREE
  <2>1. [h.obj[o] EXCEPT !.ref = @ + 1] \in Object
    BY <1>7 DEF Object
  <2> QED BY <1>7, <2>1, FreeAssumption DEF Object
<1>9. NotListed(s, o) \/ Private(k, d, o)
  <2>1. ASSUME Private(h, e, o)
        PROVE  Private(k, d, o)
    BY <1>6, <1>7, <1>8, <2>1 DEF Private, Live
  <2> QED BY <1>1, <2>1, ListedIsPrivate
<1>10. c \in [Objs -> Nat]
  BY DEF OneMoreOf
<1>11. Listing(k, d, c, s, l)
  <2>1. MovesOnly(h, k, e, d, o, s)
    BY <1>4, <1>6, <1>9 DEF MovesOnly
  <2> QED BY <1>1, <1>5, <1>10, <2>1, ListingMoves
<1>12. Unmoved(h, k, s, NULL)
  <2>1. Unmoved(h, k, s, o)
    BY <1>1, <1>4, ListedAreKept
  <2> QED BY <1>8, <2>1 DEF Unmoved
<1> QED BY <1>1, <1>4, <1>6, <1>11, <1>12, StateBy

\* deleteEOS
LEMMA DeleteState ==
  ASSUME NEW h, NEW a, NEW s, NEW l, NEW op, State(h, a, s, l, op), NEW o \in Objs, a[o] > 0,
         NEW k, k = Release(h, o), NEW c, OneMoreOf(c, a, o)
  PROVE  State(k, c, s, l, op) /\ Unmoved(h, k, s, NULL)
<1>1. PICK e : /\ op \in BOOLEAN /\ Safe(h, e, Unkept(op)) /\ Sound(h, e)
               /\ Listing(h, e, a, s, l) /\ e = Outside(a, s, l) /\ a \in [Objs -> Nat]
  BY StateIs
<1>2. e[o] > 0 /\ Live(h, o)
  BY <1>1, HeldIs
<1>3. Safe(k, Dec(e, o), Unkept(op)) /\ Works(h, k, e, o, {})
  BY <1>1, <1>2, ReleaseSafe
<1>4. PICK d : d = Outside(c, s, l)
  OBVIOUS
<1>5. /\ d = Dec(e, o) /\ e[o] = d[o] + 1 /\ d[o] \in Nat /\ \A p \in Objs \ {o} : d[p] = e[p]
  <2>1. /\ d = Dec(e, o) /\ d \in [Objs -> Nat]
        /\ e[o] = d[o] + 1 /\ \A p \in Objs \ {o} : e[p] = d[p]
    BY <1>1, <1>4, OneMoreOutside
  <2> QED BY <2>1
<1>6. ASSUME ~NotListed(s, o)
      PROVE  Private(k, d, o) /\ k.obj[o].units = h.obj[o].units
  <2>1. PICK i \in DOMAIN s : o = s[i].obj
    BY <1>6 DEF NotListed
  <2>2. e[o] >= a[o] + 1 /\ a[o] \in Nat
    BY <1>1, <2>1, ListedIs
  <2>3. h.obj[o].ref \in Nat /\ h.obj[o].ref >= e[o] /\ h \in Heap /\ h.obj[o] \in Object
    BY <1>1, <1>2, OnlyRef, TypedObject DEF Sound
  <2>4. h.obj[o].ref # 1
    BY <1>5, <2>2, <2>3
  <2>5. k = [h EXCEPT !.obj[o].ref = @ - 1]
    BY <2>4 DEF Release, Drop
  <2>6. k.obj[o] = [h.obj[o] EXCEPT !.ref = @ - 1]
    BY <2>3, <2>5 DEF Heap
  <2>7. h.obj[o].ref - 1 \in Nat
    BY <1>5, <2>3
  <2>8. [h.obj[o] EXCEPT !.ref = @ - 1] \in Object
    BY <2>3, <2>7 DEF Object
  <2>9. /\ k.obj[o].ref = h.obj[o].ref - 1 /\ k.obj[o].units = h.obj[o].units
        /\ k.obj[o] # FREE
    BY <2>3, <2>6, <2>8, FreeAssumption DEF Object
  <2>10. Private(h, e, o)
    BY <1>1, <1>6, ListedIsPrivate
  <2>11. k.obj[o].ref <= d[o]
    BY <1>5, <2>3, <2>9, <2>10 DEF Private
  <2> QED BY <2>9, <2>11 DEF Private, Live
<1>7. c \in [Objs -> Nat]
  BY DEF OneMoreOf
<1>8. Listing(k, d, c, s, l)
  <2>1. MovesOnly(h, k, e, d, o, s)
    BY <1>3, <1>5, <1>6 DEF MovesOnly
  <2> QED BY <1>1, <1>4, <1>7, <2>1, ListingMoves
<1>9. Unmoved(h, k, s, NULL)
  <2>1. Unmoved(h, k, s, o)
    BY <1>1, <1>3, ListedAreKept
  <2> QED BY <1>6, <2>1 DEF Unmoved, NotListed
<1> QED BY <1>1, <1>3, <1>5, <1>8, <1>9, StateBy

\* ConvertUnits
LEMMA ConvertState ==
  ASSUME NEW h, NEW a, NEW s, NEW l, NEW op, State(h, a, s, l, op), NEW o \in Objs,
         Callable(a, s, o), NEW to \in KnownUnits, NEW r, r = ConvertUnits(h, o, to)
  PROVE  State(r.heap, a, s, l, op) /\ Unmoved(h, r.heap, s, o)
<1>1. PICK e : /\ op \in BOOLEAN /\ Safe(h, e, Unkept(op)) /\ Sound(h, e)
               /\ Listing(h, e, a, s, l)
  BY StateIs
<1>2. e[o] > 0
  BY <1>1, CallableIs
<1>3. PICK k : k = r.heap
  OBVIOUS
<1>4. /\ Safe(k, e, Unkept(op)) /\ Works(h, k, e, o, PartBlocks(h.obj[o].name))
      /\ Live(k, o) /\ k.obj[o].ref = h.obj[o].ref
  BY <1>1, <1>2, <1>3, ConvertSafe
<1>5. NotListed(s, o) \/ Private(k, e, o)
  BY <1>1, <1>4, StillPrivate
<1>6. Listing(k, e, a, s, l)
  BY <1>1, <1>4, <1>5, ListingKept
<1>7. State(k, a, s, l, op)
  BY <1>1, <1>4, <1>6, StateBy
<1>8. Unmoved(h, k, s, o)
  BY <1>1, <1>4, ListedAreKept
<1> QED BY <1>3, <1>7, <1>8

LEMMA OpenIs ==
  ASSUME NEW h, NEW a, NEW s, NEW l, State(h, a, s, l, TRUE)
  PROVE  \E e : /\ e = Outside(a, s, l) /\ Safe(h, e, {}) /\ Sound(h, e)
                /\ Listing(h, e, a, s, l) /\ a \in [Objs -> Nat]
BY DEF State, Listing, Safe, Unkept

LEMMA OpenBy ==
  ASSUME NEW k, NEW e, NEW a, NEW s, NEW l, Safe(k, e, {}), Listing(k, e, a, s, l)
  PROVE  State(k, a, s, l, TRUE)
BY DEF State, Listing, Unkept

\* Initialize
LEMMA InitializeState ==
  ASSUME NEW h, NEW a, NEW s, NEW l, State(h, a, s, l, TRUE), NEW o \in Objs,
         Callable(a, s, o), NEW b, b = h.obj[o].name, HasRoom(h, b),
         NEW to \in KnownUnits \cup {NULL}, NEW r, r = Initialize(h, o, b, to)
  PROVE  State(r.heap, a, s, l, TRUE) /\ Unmoved(h, r.heap, s, o)
<1>1. PICK e : Safe(h, e, {}) /\ Sound(h, e) /\ Listing(h, e, a, s, l)
  BY OpenIs
<1>2. e[o] > 0
  BY <1>1, CallableIs
<1>3. PICK k : k = r.heap
  OBVIOUS
<1>4. /\ Safe(k, e, {}) /\ Works(h, k, e, o, PartBlocks(b))
      /\ Live(k, o) /\ k.obj[o].ref = h.obj[o].ref
  BY <1>1, <1>2, <1>3, InitializeSafe
<1>5. NotListed(s, o) \/ Private(k, e, o)
  BY <1>1, <1>4, StillPrivate
<1>6. Listing(k, e, a, s, l)
  BY <1>1, <1>4, <1>5, ListingKept
<1>7. State(k, a, s, l, TRUE)
  BY <1>1, <1>4, <1>6, OpenBy
<1>8. Unmoved(h, k, s, o)
  BY <1>1, <1>4, ListedAreKept
<1> QED BY <1>3, <1>7, <1>8

\* A slot that was free is not in the list, and was not let go of
LEMMA FreeNotListed ==
  ASSUME NEW h, NEW e, NEW a, NEW s, NEW l, Listing(h, e, a, s, l), Sound(h, e),
         NEW o \in Objs, ~Live(h, o)
  PROVE  NotListed(s, o) /\ o \notin l
<1>1. Indices(h, e, s) /\ a \in [Objs -> Nat] /\ e = Outside(a, s, l)
  BY DEF Listing
<1>2. NotListed(s, o)
  BY <1>1 DEF Indices, Private, NotListed
<1>3. e[o] = 0
  BY FreeIsUnused
<1>4. /\ e[o] = a[o] + Listed(s, o) + Among(l, o)
      /\ a[o] \in Nat /\ Listed(s, o) \in {0, 1} /\ Among(l, o) \in {0, 1}
  BY <1>1, OutsideType
<1>5. Among(l, o) = 0
  BY <1>3, <1>4
<1>6. o \notin l
  BY <1>5 DEF Among
<1> QED BY <1>2, <1>6

\* Work on an object the list does not have moves none of the list
LEMMA UnmovedIs ==
  ASSUME NEW h, NEW e, NEW a, NEW s, NEW l, Listing(h, e, a, s, l),
         NEW k, NEW o, NEW B, Works(h, k, e, o, B), NotListed(s, o)
  PROVE  Unmoved(h, k, s, NULL)
<1>1. Unmoved(h, k, s, o)
  BY ListedAreKept
<1> QED BY <1>1 DEF Unmoved, NotListed

\* FetchEOS and FetchNewEOS when there is no object to return
LEMMA FailState ==
  ASSUME NEW h, NEW e, NEW a, NEW s, NEW l, Safe(h, e, {}), Listing(h, e, a, s, l),
         NEW b \in Blocks, Exclusive(b) => h.cache[b] = NULL, NEW f, Fails(h, e, b, f)
  PROVE  State(f.heap, a, s, l, TRUE) /\ Unmoved(h, f.heap, s, NULL)
<1>1. PICK k : k = f.heap
  OBVIOUS
<1>2. Works(h, k, e, NULL, PartBlocks(b))
  BY <1>1 DEF Fails
<1>3. Safe(k, e, {})
  BY <1>1, FailSafe
<1>4. NotListed(s, NULL)
  BY EntryIs, NullAssumption DEF Listing, NotListed
<1>5. Listing(k, e, a, s, l)
  BY <1>2, <1>4, ListingKept
<1>6. State(k, a, s, l, TRUE)
  BY <1>3, <1>5, OpenBy
<1>7. Unmoved(h, k, s, NULL)
  BY <1>2, <1>4, UnmovedIs
<1> QED BY <1>1, <1>6, <1>7

\* FetchNewEOS
LEMMA NewState ==
  ASSUME NEW h, NEW e, NEW a, NEW s, NEW l, Safe(h, e, {}), Listing(h, e, a, s, l),
         NEW b \in Blocks, ~Exclusive(b),
         NEW k, NEW o, News(h, e, b, o, k), NEW c, OneMoreOf(a, c, o)
  PROVE  State(k, c, s, l, TRUE) /\ Unmoved(h, k, s, NULL)
<1>1. Works(h, k, e, o, PartBlocks(b)) /\ o \in Objs /\ ~Live(h, o) /\ Sound(h, e)
  BY DEF News, Safe
<1>2. Safe(k, Inc(e, o), {})
  BY NewSafe
<1>3. NotListed(s, o)
  BY <1>1, FreeNotListed
<1>4. Listing(k, e, a, s, l)
  BY <1>1, <1>3, ListingKept
<1>5. Listing(k, Inc(e, o), c, s, l)
  BY <1>3, <1>4, ListingHeld
<1>6. Unmoved(h, k, s, NULL)
  BY <1>1, <1>3, UnmovedIs
<1> QED BY <1>2, <1>5, <1>6, OpenBy

\* FetchEOS of a block the data base has no object of yet
LEMMA FetchNewState ==
  ASSUME NEW h, NEW e, NEW a, NEW s, NEW l, Safe(h, e, {}), Listing(h, e, a, s, l),
         NEW b \in Fetched, NEW f, FetchesNew(h, e, b, f), NEW c, OneMoreOf(a, c, f.obj)
  PROVE  State(f.heap, c, s, l, TRUE) /\ Unmoved(h, f.heap, s, NULL)
<1>1. PICK o, k : o = f.obj /\ k = f.heap
  OBVIOUS
<1>2. /\ h.cache[b] = NULL /\ Sound(k, Inc(e, o)) /\ b \in Blocks
      /\ \E n : News(h, e, b, o, n) /\ n.cache[b] = NULL /\ Keeps(n, k, b, o)
  BY <1>1, ProgramAssumption DEF FetchesNew
<1>3. PICK n : News(h, e, b, o, n) /\ n.cache[b] = NULL /\ Keeps(n, k, b, o)
  BY <1>2
<1>4. /\ o \in Objs /\ ~Live(h, o) /\ Sound(n, Inc(e, o)) /\ Works(h, n, e, o, PartBlocks(b))
      /\ n.obj[o].name = b /\ Sound(h, e)
  BY <1>3 DEF News, Safe
<1>5. Safe(n, Inc(e, o), {b})
  BY <1>2, <1>3, NewSafe
<1>6. Live(n, o)
  <2>1. e \in [Objs -> Nat]
    BY <1>4 DEF Sound
  <2>2. Inc(e, o)[o] = e[o] + 1 /\ e[o] \in Nat
    BY <1>4, <2>1, IncType
  <2>3. Inc(e, o)[o] > 0
    BY <2>2
  <2> QED BY <1>4, <2>3, OnlyRef
<1>7. Safe(k, Inc(e, o), {})
  BY <1>2, <1>3, <1>4, <1>5, <1>6, KeepSafe
<1>8. NotListed(s, o)
  BY <1>4, FreeNotListed
<1>9. \A i \in DOMAIN s : s[i].obj \in Objs \ {o} /\ k.obj[s[i].obj] = n.obj[s[i].obj]
  BY <1>3, <1>8, EntryIs DEF Listing, NotListed, Keeps
<1>10. Listing(k, e, a, s, l)
  <2>1. Listing(n, e, a, s, l)
    BY <1>4, <1>8, ListingKept
  <2> QED BY <1>9, <2>1, ListingBy
<1>11. Listing(k, Inc(e, o), c, s, l)
  BY <1>1, <1>8, <1>10, ListingHeld
<1>12. State(k, c, s, l, TRUE)
  BY <1>7, <1>11, OpenBy
<1>13. Unmoved(h, k, s, NULL)
  <2>1. Unmoved(h, n, s, NULL)
    BY <1>4, <1>8, UnmovedIs
  <2> QED BY <1>9, <2>1 DEF Unmoved
<1> QED BY <1>1, <1>12, <1>13

\* FetchEOS of a block the data base keeps an object of
LEMMA FetchOldState ==
  ASSUME NEW h, NEW e, NEW a, NEW s, NEW l, Safe(h, e, {}), Listing(h, e, a, s, l),
         NEW b \in Fetched, NEW f, FetchesOld(h, b, f), NEW c, OneMoreOf(a, c, f.obj)
  PROVE  State(f.heap, c, s, l, TRUE) /\ Unmoved(h, f.heap, s, NULL)
<1>1. PICK o, k : o = f.obj /\ k = f.heap
  OBVIOUS
<1>2. o \in Objs /\ h.cache[b] = o /\ k = Duplicate(h, o) /\ o # NULL
  BY <1>1, NullAssumption DEF FetchesOld
<1>3. Sound(h, e) /\ Live(h, o) /\ h.obj[o].name = b /\ b \in Blocks
  BY <1>2, ProgramAssumption DEF Safe, Sound, Shape
<1>4. NotOwned(h, o)
  BY <1>2, <1>3, FetchedNotOwned
<1>5. Safe(k, Inc(e, o), {}) /\ Works(h, k, e, o, {})
  BY <1>2, <1>3, <1>4, DuplicateSafe
<1>6. NotListed(s, o)
  <2>1. ~Private(h, e, o)
    BY <1>2, <1>3, PrivateIs
  <2> QED BY <2>1, ListedIsPrivate
<1>7. Listing(k, e, a, s, l)
  BY <1>5, <1>6, ListingKept
<1>8. Listing(k, Inc(e, o), c, s, l)
  BY <1>1, <1>6, <1>7, ListingHeld
<1>9. State(k, c, s, l, TRUE)
  BY <1>5, <1>8, OpenBy
<1>10. Unmoved(h, k, s, NULL)
  BY <1>5, <1>6, UnmovedIs
<1> QED BY <1>1, <1>9, <1>10

-----------------------------------------------------------------------------
(* The manager's list grows and shrinks *)

Entries == [name : Blocks, obj : Objs]

LEMMA AppendIs ==
  ASSUME NEW s \in Seq(Entries), NEW x \in Entries, NEW t, t = Append(s, x)
  PROVE  /\ t \in Seq(Entries)
         /\ \E n : /\ n \notin DOMAIN s /\ DOMAIN t = DOMAIN s \cup {n} /\ t[n] = x
                   /\ \A i \in DOMAIN s : t[i] = s[i]
<1> HIDE DEF Entries
<1>1. /\ t \in Seq(Entries) /\ Len(t) = Len(s) + 1 /\ Len(s) \in Nat
      /\ \A i \in 1 .. Len(s) : t[i] = s[i]
      /\ t[Len(s) + 1] = x
  BY AppendProperties, LenProperties
<1>2. DOMAIN s = 1 .. Len(s) /\ DOMAIN t = 1 .. Len(s) + 1
  BY <1>1, LenProperties
<1>3. 1 .. Len(s) + 1 = (1 .. Len(s)) \cup {Len(s) + 1} /\ Len(s) + 1 \notin 1 .. Len(s)
  BY <1>1
<1> QED BY <1>1, <1>2, <1>3

\* t is s without its first entry x
TailOf(s, t, x) ==
  /\ t \in Seq(Entries) /\ 1 \in DOMAIN s /\ x = s[1]
  /\ \A i \in DOMAIN t : i + 1 \in DOMAIN s /\ i + 1 # 1 /\ t[i] = s[i + 1] /\ i \in Int
  /\ \A j \in DOMAIN s \ {1} : \E i \in DOMAIN t : t[i] = s[j]

LEMMA TailIs ==
  ASSUME NEW s, s \in Seq(Entries), s # <<>>, NEW t, t = Tail(s), NEW x, x = Head(s)
  PROVE  TailOf(s, t, x)
<1> HIDE DEF Entries
<1>1. /\ t \in Seq(Entries) /\ Len(t) = Len(s) - 1 /\ Len(s) \in Nat
      /\ \A i \in 1 .. Len(t) : t[i] = s[i + 1]
  BY HeadTailProperties, LenProperties
<1>2. DOMAIN s = 1 .. Len(s) /\ DOMAIN t = 1 .. Len(t) /\ Len(t) \in Nat
  BY <1>1, LenProperties
<1>3. \A i \in DOMAIN t : i + 1 \in DOMAIN s /\ i + 1 # 1 /\ t[i] = s[i + 1] /\ i \in Int
  BY <1>1, <1>2
<1>4. ASSUME NEW j \in DOMAIN s \ {1}
      PROVE  \E i \in DOMAIN t : t[i] = s[j]
  <2>1. j - 1 \in DOMAIN t /\ (j - 1) + 1 = j
    BY <1>1, <1>2, <1>4
  <2>2. t[j - 1] = s[j]
    BY <1>3, <2>1
  <2> QED BY <2>1, <2>2
<1>5. 1 \in DOMAIN s
  BY <1>1, <1>2
<1>6. x = s[1]
  OBVIOUS
<1> QED BY <1>1, <1>3, <1>4, <1>5, <1>6 DEF TailOf

LEMMA ListingAdd ==
  ASSUME NEW h, NEW e, NEW a, NEW s, NEW l, Listing(h, e, a, s, l), NEW o \in Objs,
         NotListed(s, o), Live(h, o), h.obj[o].ref = 1, NEW b \in Blocks, NEW t, t = Append(s, [name |-> b, obj |-> o])
  PROVE  Listing(h, Inc(e, o), a, t, l)
<1>1. PICK x : x = [name |-> b, obj |-> o]
  OBVIOUS
<1>2. x \in Entries /\ x.name = b /\ x.obj = o
  BY <1>1 DEF Entries
<1>3. /\ s \in Seq(Entries) /\ e = Outside(a, s, l) /\ a \in [Objs -> Nat]
      /\ Indices(h, e, s) /\ l \subseteq Objs
  BY DEF Listing, Entries
<1>4. t \in Seq(Entries)
  BY <1>1, <1>2, <1>3, AppendIs
<1>5. PICK n : /\ n \notin DOMAIN s /\ DOMAIN t = DOMAIN s \cup {n} /\ t[n] = x
               /\ \A i \in DOMAIN s : t[i] = s[i]
  BY <1>1, <1>2, <1>3, AppendIs
<1>6. PICK d : d = Inc(e, o)
  OBVIOUS
<1>7. e \in [Objs -> Nat] /\ d[o] = e[o] + 1 /\ \A p \in Objs \ {o} : d[p] = e[p]
  <2>1. e \in [Objs -> Nat]
    BY <1>3, OutsideType
  <2>2. \A p \in Objs : d[p] = e[p] + (IF p = o THEN 1 ELSE 0)
    BY <1>6, <2>1, IncType
  <2> QED BY <2>1, <2>2
<1>8. Indices(h, d, t)
  <2>1. Private(h, d, o)
    BY <1>7 DEF Private
  <2>2. ASSUME NEW i \in DOMAIN s
        PROVE  Private(h, d, s[i].obj)
    <3>1. s[i].obj \in Objs \ {o}
      BY <1>3, EntryIs DEF Entries, NotListed
    <3> QED BY <1>3, <1>7, <3>1 DEF Indices, Private
  <2> QED BY <1>2, <1>3, <1>5, <2>1, <2>2 DEF Indices, NotListed
<1>9. Outside(a, t, l) = Inc(e, o)
  <2>1. Listed(s, o) = 0
    BY DEF Listed, NotListed
  <2>2. Listed(t, o) = 1
    BY <1>2, <1>5 DEF Listed
  <2>3. \A p \in Objs \ {o} : Listed(t, p) = Listed(s, p)
    BY <1>2, <1>5 DEF Listed
  <2> QED BY <1>3, <2>1, <2>2, <2>3, OutsideIndexed
<1> QED BY <1>3, <1>4, <1>6, <1>8, <1>9 DEF Listing, Entries

LEMMA ListingLost ==
  ASSUME NEW h, NEW e, NEW a, NEW s, NEW l, Listing(h, e, a, s, l), NEW o \in Objs, o \notin l,
         NotListed(s, o), NEW m, m = l \cup {o}
  PROVE  Listing(h, Inc(e, o), a, s, m)
<1>1. Among(m, o) = 1 /\ Among(l, o) = 0 /\ \A p \in Objs \ {o} : Among(m, p) = Among(l, p)
  BY DEF Among
<1>2. /\ a \in [Objs -> Nat] /\ e = Outside(a, s, l)
      /\ s \in Seq([name : Blocks, obj : Objs]) /\ Indices(h, e, s)
  BY DEF Listing
<1>3. Outside(a, s, m) = Inc(e, o)
  <2>1. a \in [Objs -> Nat]
    BY <1>2
  <2>2. Outside(a, s, m) = Inc(Outside(a, s, l), o)
    BY <1>1, <2>1, OutsideLost
  <2> QED BY <1>2, <2>2
<1>4. PICK d : d = Inc(e, o)
  OBVIOUS
<1>5. \A p \in Objs \ {o} : d[p] = e[p]
  <2>1. e \in [Objs -> Nat]
    BY <1>2, OutsideType
  <2>2. \A p \in Objs : d[p] = e[p] + (IF p = o THEN 1 ELSE 0)
    BY <1>4, <2>1, IncType
  <2> QED BY <2>1, <2>2
<1>6. Indices(h, d, s)
  <2>1. \A i \in DOMAIN s : s[i].obj \in Objs \ {o}
    BY <1>2, EntryIs DEF NotListed
  <2> QED BY <1>2, <1>5, <2>1 DEF Indices, Private
<1> QED BY <1>2, <1>3, <1>4, <1>6 DEF Listing

\* Every entry of t is one of s
MovedDown(s, t) == \A i \in DOMAIN t : \E j \in DOMAIN s : t[i] = s[j]

LEMMA ListingTail ==
  ASSUME NEW h, NEW e, NEW a, NEW s, NEW l, Listing(h, e, a, s, l), s # <<>>,
         NEW t, t = Tail(s), NEW o, o = Head(s).obj
  PROVE  /\ o \in Objs /\ e[o] > 0 /\ NotListed(t, o) /\ Listing(h, Dec(e, o), a, t, l)
         /\ MovedDown(s, t)
<1>1. /\ s \in Seq(Entries) /\ e = Outside(a, s, l) /\ a \in [Objs -> Nat]
      /\ Indices(h, e, s) /\ l \subseteq Objs
  BY DEF Listing, Entries
<1>2. /\ t \in Seq(Entries) /\ 1 \in DOMAIN s /\ o = s[1].obj
      /\ \A i \in DOMAIN t : i + 1 \in DOMAIN s /\ i + 1 # 1 /\ t[i] = s[i + 1] /\ i \in Int
      /\ \A j \in DOMAIN s \ {1} : \E i \in DOMAIN t : t[i] = s[j]
  <2>1. PICK x : x = Head(s)
    OBVIOUS
  <2>2. TailOf(s, t, x)
    BY <1>1, <2>1, TailIs
  <2> QED BY <2>1, <2>2 DEF TailOf
<1>3. o \in Objs
  BY <1>1, <1>2, EntryIs DEF Entries
<1>4. e[o] > 0
  <2>1. e[o] >= a[o] + 1 /\ a[o] \in Nat /\ e[o] \in Nat
    BY <1>1, <1>2, <1>3, ListedCounts
  <2> QED BY <2>1
<1>5. NotListed(t, o)
  <2>1. SUFFICES ASSUME NEW i \in DOMAIN t
                 PROVE  t[i].obj # o
    BY DEF NotListed
  <2>2. PICK j : j = i + 1
    OBVIOUS
  <2>3. j \in DOMAIN s /\ j # 1 /\ t[i] = s[j]
    BY <1>2, <2>2
  <2> QED BY <1>1, <1>2, <2>3 DEF Indices
<1>6. e = Inc(Outside(a, t, l), o)
  <2>1. Listed(t, o) = 0
    BY <1>5 DEF Listed, NotListed
  <2>2. Listed(s, o) = 1
    BY <1>2 DEF Listed
  <2>3. ASSUME NEW p \in Objs \ {o}
        PROVE  Listed(s, p) = Listed(t, p)
    <3>1. (\E i \in DOMAIN t : t[i].obj = p) => \E j \in DOMAIN s : s[j].obj = p
      BY <1>2
    <3>2. ASSUME NEW j \in DOMAIN s, s[j].obj = p
          PROVE  \E i \in DOMAIN t : t[i].obj = p
      <4>1. j # 1
        BY <1>2, <2>3, <3>2
      <4> QED BY <1>2, <3>2, <4>1
    <3> QED BY <3>1, <3>2 DEF Listed
  <2> QED BY <1>1, <1>3, <2>1, <2>2, <2>3, OutsideIndexed
<1>7. Dec(e, o) = Outside(a, t, l) /\ e \in [Objs -> Nat]
  <2>1. Outside(a, t, l) \in [Objs -> Nat] /\ e \in [Objs -> Nat]
    BY <1>1, OutsideType
  <2> QED BY <1>3, <1>6, <2>1, IncDec
<1>8. \A p \in Objs \ {o} : Dec(e, o)[p] = e[p]
  BY <1>3, <1>7 DEF Dec
<1>9. Indices(h, Dec(e, o), t)
  <2>1. ASSUME NEW i \in DOMAIN t
        PROVE  Private(h, Dec(e, o), t[i].obj)
    <3>1. PICK j : j = i + 1
      OBVIOUS
    <3>2. j \in DOMAIN s /\ t[i] = s[j]
      BY <1>2, <3>1
    <3>3. s[j].obj \in Objs \ {o}
      BY <1>1, <1>5, <3>2, EntryIs DEF Entries, NotListed
    <3> QED BY <1>1, <1>8, <3>2, <3>3 DEF Indices, Private
  <2>2. ASSUME NEW i \in DOMAIN t, NEW j \in DOMAIN t, i # j
        PROVE  t[i].obj # t[j].obj
    <3>1. i + 1 # j + 1
      BY <1>2, <2>2
    <3> QED BY <1>1, <1>2, <2>2, <3>1 DEF Indices
  <2> QED BY <2>1, <2>2 DEF Indices
<1>10. Listing(h, Dec(e, o), a, t, l)
  BY <1>1, <1>2, <1>7, <1>9 DEF Listing, Entries
<1>11. MovedDown(s, t)
  BY <1>2 DEF MovedDown
<1> QED BY <1>3, <1>4, <1>5, <1>10, <1>11

\* An object that index_eos gets from the data base, and converts
IndexesNew(h, e, b, o, r) ==
  /\ o \in Objs /\ Safe(r.heap, Inc(e, o), {}) /\ Works(h, r.heap, e, o, PartBlocks(b))
  /\ ~Live(h, o) /\ Live(r.heap, o) /\ r.heap.obj[o].ref = 1

LEMMA IndexNewIs ==
  ASSUME NEW h, NEW e, Safe(h, e, {}), NEW b \in Blocks, ~Exclusive(b), NEW k, NEW o,
         News(h, e, b, o, k), NEW u \in KnownUnits, NEW r, r = ConvertUnits(k, o, u)
  PROVE  IndexesNew(h, e, b, o, r) /\ (r.ret = 0 => r.heap.obj[o].units = u)
<1>1. /\ Works(h, k, e, o, PartBlocks(b)) /\ o \in Objs /\ ~Live(h, o)
      /\ h \in Heap /\ e \in [Objs -> Nat] /\ k.obj[o].name = b /\ k.obj[o].ref = 1
  BY DEF News, Safe, Sound
<1>2. PICK d : d = Inc(e, o)
  OBVIOUS
<1>3. Safe(k, d, {})
  BY <1>2, NewSafe
<1>4. d[o] > 0
  <2>1. d[o] = e[o] + 1 /\ e[o] \in Nat
    BY <1>1, <1>2, IncType
  <2> QED BY <2>1
<1>5. PICK m : m = r.heap
  OBVIOUS
<1>6. /\ Safe(m, d, {}) /\ Works(k, m, d, o, PartBlocks(b))
      /\ Live(m, o) /\ m.obj[o].ref = 1
      /\ r.ret = 0 => m.obj[o].units = u
  BY <1>1, <1>3, <1>4, <1>5, ConvertSafe
<1>7. AtMost(e, d)
  BY <1>1, <1>2, AtMostInc
<1>8. Works(h, m, e, o, PartBlocks(b))
  BY <1>1, <1>6, <1>7, WorksTwice
<1> QED BY <1>1, <1>2, <1>5, <1>6, <1>8 DEF IndexesNew

\* EOS_Array::Find finds no object of the block in the units
NotFound(h, s, b, u) == \A i \in DOMAIN s : s[i].name = b => h.obj[s[i].obj].units # u

\* index_eos: the list has the material in the units now
LEMMA IndexState ==
  ASSUME NEW h, NEW e, NEW a, NEW s, NEW l, Safe(h, e, {}), Listing(h, e, a, s, l),
         NEW b \in Blocks, NEW o, NEW r, IndexesNew(h, e, b, o, r),
         NEW t, t = Append(s, [name |-> b, obj |-> o])
  PROVE  State(r.heap, a, t, l, TRUE) /\ NotListed(s, o) /\ Unmoved(h, r.heap, s, NULL)
<1>1. PICK m : m = r.heap
  OBVIOUS
<1>2. /\ o \in Objs /\ Safe(m, Inc(e, o), {}) /\ Works(h, m, e, o, PartBlocks(b))
      /\ ~Live(h, o) /\ Live(m, o) /\ m.obj[o].ref = 1 /\ Sound(h, e)
  BY <1>1 DEF IndexesNew, Safe
<1>3. NotListed(s, o)
  BY <1>2, FreeNotListed
<1>4. Listing(m, e, a, s, l)
  BY <1>2, <1>3, ListingKept
<1>5. Unmoved(h, m, s, NULL)
  BY <1>2, <1>3, UnmovedIs
<1>6. Listing(m, Inc(e, o), a, t, l)
  BY <1>2, <1>3, <1>4, ListingAdd
<1>7. State(m, a, t, l, TRUE)
  BY <1>2, <1>6, OpenBy
<1> QED BY <1>1, <1>3, <1>5, <1>7

\* ... or the object could not be converted: nobody will delete it
LEMMA IndexLostState ==
  ASSUME NEW h, NEW e, NEW a, NEW s, NEW l, Safe(h, e, {}), Listing(h, e, a, s, l),
         NEW b \in Blocks, NEW o, NEW r, IndexesNew(h, e, b, o, r), NEW m, m = l \cup {o}
  PROVE  State(r.heap, a, s, m, TRUE) /\ Unmoved(h, r.heap, s, NULL)
<1>1. PICK k : k = r.heap
  OBVIOUS
<1>2. /\ o \in Objs /\ Safe(k, Inc(e, o), {}) /\ Works(h, k, e, o, PartBlocks(b))
      /\ ~Live(h, o) /\ Sound(h, e)
  BY <1>1 DEF IndexesNew, Safe
<1>3. NotListed(s, o) /\ o \notin l
  BY <1>2, FreeNotListed
<1>4. Listing(k, e, a, s, l)
  BY <1>2, <1>3, ListingKept
<1>5. Listing(k, Inc(e, o), a, s, m)
  BY <1>2, <1>3, <1>4, ListingLost
<1>6. State(k, a, s, m, TRUE)
  BY <1>2, <1>5, OpenBy
<1>7. Unmoved(h, k, s, NULL)
  BY <1>2, <1>3, UnmovedIs
<1> QED BY <1>1, <1>6, <1>7

\* The data base is being destroyed
LEMMA CloseState ==
  ASSUME NEW h, NEW a, NEW s, NEW l, State(h, a, s, l, TRUE)
  PROVE  State(h, a, s, l, FALSE)
<1>1. PICK e : Safe(h, e, {}) /\ Listing(h, e, a, s, l)
  BY OpenIs
<1>2. Safe(h, e, Blocks)
  BY <1>1 DEF Safe, OwnSafe
<1> QED BY <1>1, <1>2 DEF State, Listing, Unkept

\* ~EOS_Array
LEMMA DropIndexedState ==
  ASSUME NEW h, NEW a, NEW s, NEW l, NEW op, State(h, a, s, l, op), s # <<>>,
         NEW k, k = Release(h, Head(s).obj), NEW t, t = Tail(s)
  PROVE  /\ State(k, a, t, l, op) /\ Unmoved(h, k, t, NULL)
         /\ \A i \in DOMAIN t : \E j \in DOMAIN s : t[i] = s[j]
<1>1. PICK e : /\ op \in BOOLEAN /\ Safe(h, e, Unkept(op)) /\ Sound(h, e)
               /\ Listing(h, e, a, s, l)
  BY StateIs
<1>2. PICK o : o = Head(s).obj
  OBVIOUS
<1>3. /\ o \in Objs /\ e[o] > 0 /\ NotListed(t, o) /\ Listing(h, Dec(e, o), a, t, l)
      /\ \A i \in DOMAIN t : \E j \in DOMAIN s : t[i] = s[j]
  <2>1. Listing(h, e, a, s, l) /\ s # <<>> /\ t = Tail(s)
    BY <1>1
  <2>2. /\ o \in Objs /\ e[o] > 0 /\ NotListed(t, o) /\ Listing(h, Dec(e, o), a, t, l)
        /\ MovedDown(s, t)
    BY <1>2, <2>1, ListingTail
  <2> QED BY <2>2 DEF MovedDown
<1>4. Safe(k, Dec(e, o), Unkept(op)) /\ Works(h, k, e, o, {})
  BY <1>1, <1>2, <1>3, ReleaseSafe
<1>5. Works(h, k, Dec(e, o), o, {})
  <2>1. e \in [Objs -> Nat] /\ h \in Heap
    BY <1>1 DEF Sound
  <2>2. AtMost(Dec(e, o), e)
    <3>1. /\ Dec(e, o) \in [Objs -> Nat]
          /\ \A q \in Objs : Dec(e, o)[q] = e[q] - (IF q = o THEN 1 ELSE 0)
      BY <1>3, <2>1, DecType
    <3>2. \A q \in Objs : e[q] \in Nat
      BY <2>1
    <3> QED BY <2>1, <3>1, <3>2 DEF AtMost
  <2>3. Works(h, h, Dec(e, o), o, {})
    BY WorksOn
  <2> QED BY <1>4, <2>1, <2>2, <2>3, WorksTwice
<1>6. Listing(k, Dec(e, o), a, t, l)
  BY <1>3, <1>5, ListingKept
<1>7. Unmoved(h, k, t, NULL)
  BY <1>3, <1>5, UnmovedIs
<1> QED BY <1>1, <1>3, <1>4, <1>6, <1>7, StateBy

\* ~Property
LEMMA DropCachedState ==
  ASSUME NEW h, NEW a, NEW s, NEW l, State(h, a, s, l, FALSE), s = <<>>,
         NEW b \in Blocks, h.cache[b] # NULL,
         NEW k, k = Release([h EXCEPT !.cache[b] = NULL], h.cache[b])
  PROVE  State(k, a, s, l, FALSE)
<1>1. PICK e : Safe(h, e, Blocks) /\ Listing(h, e, a, s, l)
  BY DEF State, Unkept
<1>2. Safe(k, e, Blocks)
  BY <1>1, UncacheSafe
<1>3. DOMAIN s = {}
  OBVIOUS
<1>4. \A i \in DOMAIN s : k.obj[s[i].obj] = h.obj[s[i].obj]
  BY <1>3
<1>5. Listing(k, e, a, s, l)
  BY <1>1, <1>4, ListingBy
<1> QED BY <1>2, <1>5 DEF State, Listing, Unkept

-----------------------------------------------------------------------------
(* The invariant is inductive *)

\* Nothing is made, kept or held yet
LEMMA InitState == Init => IInv
<1>1. SUFFICES ASSUME Init
               PROVE  IInv
  OBVIOUS
<1>2. PICK h, a : h = heap /\ a = held
  OBVIOUS
<1>3. /\ h = [obj |-> [o \in Objs |-> FREE], cache |-> [b \in Blocks |-> NULL]]
      /\ a = [o \in Objs |-> 0] /\ open = TRUE /\ index = <<>> /\ lost = {}
  BY <1>1, <1>2 DEF Init
<1>4. PICK e : e = Outside(a, <<>>, {})
  OBVIOUS
<1>5. /\ h \in Heap
      /\ \A o \in Objs : ~Live(h, o)
      /\ \A b \in Blocks : h.cache[b] = NULL
  BY <1>3 DEF Heap, Live
<1>6. a \in [Objs -> Nat]
  BY <1>3
<1>7. e \in [Objs -> Nat] /\ \A o \in Objs : e[o] = 0
  <2>1. /\ e \in [Objs -> Nat]
        /\ \A o \in Objs : e[o] = a[o] + Listed(<<>>, o) + Among({}, o)
    BY <1>4, <1>6, OutsideType
  <2>2. \A o \in Objs : a[o] = 0 /\ Listed(<<>>, o) = 0 /\ Among({}, o) = 0
    BY <1>3 DEF Listed, Among
  <2> QED BY <2>1, <2>2
<1>8. Sound(h, e)
  <2>1. ASSUME NEW o \in Objs
        PROVE  CacheRefs(h, o) = {} /\ PartRefs(h, o) = {}
    BY <1>5, NullAssumption DEF CacheRefs, PartRefs
  <2>2. Cardinality({}) = 0
    BY FS_EmptySet
  <2>3. Counted(h, e)
    BY <1>5, <1>7, <2>1, <2>2 DEF Counted
  <2>4. Shape(h)
    BY <1>5 DEF Shape
  <2> QED BY <1>5, <1>7, <2>3, <2>4 DEF Sound
<1>9. Safe(h, e, {})
  BY <1>5, <1>8 DEF Safe, Single, PartsKept, OwnSafe
<1>10. Listing(h, e, a, <<>>, {})
  BY <1>4, <1>6 DEF Listing, Indices
<1>11. State(h, a, <<>>, {}, TRUE)
  BY <1>9, <1>10, OpenBy
<1> QED BY <1>2, <1>3, <1>11 DEF IInv

LEMMA RoomIs ==
  ASSUME NEW b, Room(b)
  PROVE  HasRoom(heap, b)
<1>1. {c \in {PartsOf[b][1], PartsOf[b][2]} \ {NULL} : heap.cache[c] = NULL} = Missing(heap, b)
  BY DEF Missing, PartBlocks
<1> QED BY <1>1 DEF Room, Needed, HasRoom, FreeSlots

LEMMA HoldIs ==
  ASSUME NEW o, Hold(o)
  PROVE  held' = [held EXCEPT ![o] = @ + 1]
BY DEF Hold

LEMMA UsableIs ==
  ASSUME NEW o, Usable(o)
  PROVE  Callable(held, index, o)
BY DEF Usable, Callable, NotListed

\* The list and the units of its objects, but for o, are what they were
Settled(o) == index' = index /\ Unmoved(heap, heap', index, o)

\* FetchEOS
LEMMA FetchStep ==
  ASSUME IInv, NEW b \in Fetched, Fetch(b)
  PROVE  IInv' /\ Settled(NULL)
<1>1. PICK h, a, s, l : h = heap /\ a = held /\ s = index /\ l = lost
  OBVIOUS
<1>2. PICK f : f = FetchObj(h, b)
  OBVIOUS
<1>3. /\ open = TRUE /\ open' = open /\ index' = s /\ lost' = l /\ heap' = f.heap
      /\ IF f.obj = NULL THEN held' = a ELSE Hold(f.obj)
      /\ Room(b) /\ b \in Blocks
  BY <1>1, <1>2, ProgramAssumption DEF Fetch, Obtain, IInv, State
<1>4. State(h, a, s, l, TRUE) /\ HasRoom(h, b)
  BY <1>1, <1>3, RoomIs DEF IInv
<1>5. PICK e : /\ e = Outside(a, s, l) /\ Safe(h, e, {}) /\ Sound(h, e)
               /\ Listing(h, e, a, s, l) /\ a \in [Objs -> Nat]
  BY <1>4, OpenIs
<1>6. Fails(h, e, b, f) \/ FetchesNew(h, e, b, f) \/ FetchesOld(h, b, f)
  BY <1>2, <1>3, <1>4, <1>5, FetchObjIs
<1>7. CASE Fails(h, e, b, f)
  <2>1. f.obj = NULL
    BY <1>7 DEF Fails
  <2>2. h.cache[b] = NULL
    BY <1>2, <2>1 DEF FetchObj, Share, Cached
  <2>3. State(f.heap, a, s, l, TRUE) /\ Unmoved(h, f.heap, s, NULL)
    BY <1>3, <1>5, <1>7, <2>2, FailState
  <2>4. held' = a
    BY <1>3, <2>1
  <2> QED BY <1>1, <1>3, <2>3, <2>4 DEF IInv, Settled
<1>8. ASSUME f.obj \in Objs
      PROVE  OneMoreOf(a, held', f.obj)
  <2>1. Hold(f.obj)
    BY <1>3, <1>8, NullAssumption
  <2>2. held' = [a EXCEPT ![f.obj] = @ + 1]
    BY <1>1, <2>1, HoldIs
  <2> QED BY <1>5, <1>8, <2>2, OneMoreHeld
<1>9. CASE FetchesNew(h, e, b, f)
  <2>1. f.obj \in Objs
    BY <1>9 DEF FetchesNew, News
  <2>2. PICK c : c = held'
    OBVIOUS
  <2>3. State(f.heap, c, s, l, TRUE) /\ Unmoved(h, f.heap, s, NULL)
    BY <1>5, <1>8, <1>9, <2>1, <2>2, FetchNewState
  <2> QED BY <1>1, <1>3, <2>2, <2>3 DEF IInv, Settled
<1>10. CASE FetchesOld(h, b, f)
  <2>1. f.obj \in Objs
    BY <1>10 DEF FetchesOld
  <2>2. PICK c : c = held'
    OBVIOUS
  <2>3. State(f.heap, c, s, l, TRUE) /\ Unmoved(h, f.heap, s, NULL)
    BY <1>5, <1>8, <1>10, <2>1, <2>2, FetchOldState
  <2> QED BY <1>1, <1>3, <2>2, <2>3 DEF IInv, Settled
<1> QED BY <1>6, <1>7, <1>9, <1>10

\* FetchNewEOS
LEMMA FetchNewStep ==
  ASSUME IInv, NEW b \in FetchedNew, FetchNew(b)
  PROVE  IInv' /\ Settled(NULL)
<1>1. PICK h, a, s, l : h = heap /\ a = held /\ s = index /\ l = lost
  OBVIOUS
<1>2. PICK f : f = NewObject(h, b)
  OBVIOUS
<1>3. /\ open = TRUE /\ open' = open /\ index' = s /\ lost' = l /\ heap' = f.heap
      /\ IF f.obj = NULL THEN held' = a ELSE Hold(f.obj)
      /\ Room(b) /\ b \in Blocks /\ ~Exclusive(b)
  BY <1>1, <1>2, ProgramAssumption DEF FetchNew, Obtain, IInv, State, Exclusive
<1>4. State(h, a, s, l, TRUE) /\ HasRoom(h, b)
  BY <1>1, <1>3, RoomIs DEF IInv
<1>5. PICK e : /\ e = Outside(a, s, l) /\ Safe(h, e, {}) /\ Sound(h, e)
               /\ Listing(h, e, a, s, l) /\ a \in [Objs -> Nat]
  BY <1>4, OpenIs
<1>6. Fails(h, e, b, f) \/ News(h, e, b, f.obj, f.heap)
  BY <1>2, <1>3, <1>4, <1>5, NewObjectIs
<1>7. CASE Fails(h, e, b, f)
  <2>1. f.obj = NULL
    BY <1>7 DEF Fails
  <2>2. State(f.heap, a, s, l, TRUE) /\ Unmoved(h, f.heap, s, NULL)
    BY <1>3, <1>5, <1>7, FailState
  <2> QED BY <1>1, <1>3, <2>1, <2>2 DEF IInv, Settled
<1>8. CASE News(h, e, b, f.obj, f.heap)
  <2>1. f.obj \in Objs /\ f.obj # NULL
    BY <1>8, NullAssumption DEF News
  <2>2. held' = [a EXCEPT ![f.obj] = @ + 1]
    BY <1>1, <1>3, <2>1, HoldIs
  <2>3. PICK o, k, c : o = f.obj /\ k = f.heap /\ c = held'
    OBVIOUS
  <2>4. OneMoreOf(a, c, o)
    BY <1>5, <2>1, <2>2, <2>3, OneMoreHeld
  <2>5. News(h, e, b, o, k)
    BY <1>8, <2>3
  <2>6. State(k, c, s, l, TRUE) /\ Unmoved(h, k, s, NULL)
    BY <1>3, <1>5, <2>4, <2>5, NewState
  <2> QED BY <1>1, <1>3, <2>3, <2>6 DEF IInv, Settled
<1> QED BY <1>6, <1>7, <1>8

\* Duplicate
LEMMA DuplicateStep ==
  ASSUME IInv, NEW o \in Objs, DuplicateEOS(o)
  PROVE  IInv' /\ Settled(NULL)
<1>1. PICK a, c, k : a = held /\ c = held' /\ k = heap'
  OBVIOUS
<1>2. State(heap, a, index, lost, open) /\ a \in [Objs -> Nat] /\ Callable(a, index, o)
  BY <1>1, UsableIs DEF IInv, State, Listing, DuplicateEOS
<1>3. /\ k = Duplicate(heap, o) /\ Hold(o)
      /\ open' = open /\ index' = index /\ lost' = lost
  BY <1>1 DEF DuplicateEOS
<1>4. c = [a EXCEPT ![o] = @ + 1]
  BY <1>1, <1>3, HoldIs
<1>5. OneMoreOf(a, c, o)
  BY <1>2, <1>4, OneMoreHeld
<1>6. State(k, c, index, lost, open) /\ Unmoved(heap, k, index, NULL)
  BY <1>2, <1>3, <1>5, DuplicateState
<1> QED BY <1>1, <1>3, <1>6 DEF IInv, Settled

\* deleteEOS
LEMMA DeleteStep ==
  ASSUME IInv, NEW o \in Objs, Delete(o)
  PROVE  IInv' /\ Settled(NULL)
<1>1. PICK a, c, k : a = held /\ c = held' /\ k = heap'
  OBVIOUS
<1>2. State(heap, a, index, lost, open) /\ a \in [Objs -> Nat] /\ a[o] > 0
  BY <1>1 DEF IInv, State, Listing, Delete
<1>3. /\ k = Release(heap, o) /\ c = [a EXCEPT ![o] = @ - 1]
      /\ open' = open /\ index' = index /\ lost' = lost
  BY <1>1 DEF Delete
<1>4. OneMoreOf(c, a, o)
  BY <1>2, <1>3, OneLessHeld
<1>5. State(k, c, index, lost, open) /\ Unmoved(heap, k, index, NULL)
  BY <1>2, <1>3, <1>4, DeleteState
<1> QED BY <1>1, <1>3, <1>5 DEF IInv, Settled

\* ConvertUnits
LEMMA ConvertStep ==
  ASSUME IInv, NEW o \in Objs, NEW to \in Targets, Convert(o, to)
  PROVE  IInv' /\ Settled(o)
<1>1. PICK r : r = ConvertUnits(heap, o, to)
  OBVIOUS
<1>2. /\ State(heap, held, index, lost, open) /\ Callable(held, index, o)
      /\ to \in KnownUnits
  BY ProgramAssumption, UsableIs DEF IInv, Convert
<1>3. heap' = r.heap /\ open' = open /\ held' = held /\ index' = index /\ lost' = lost
  BY <1>1 DEF Convert
<1>4. State(r.heap, held, index, lost, open) /\ Unmoved(heap, r.heap, index, o)
  BY <1>1, <1>2, ConvertState
<1> QED BY <1>3, <1>4 DEF IInv, Settled

\* Initialize
LEMMA ReinitializeStep ==
  ASSUME IInv, NEW o \in Objs, NEW to \in Targets \cup {NULL}, Reinitialize(o, to)
  PROVE  IInv' /\ Settled(o)
<1>1. PICK b : b = heap.obj[o].name
  OBVIOUS
<1>2. PICK r : r = Initialize(heap, o, b, to)
  OBVIOUS
<1>3. /\ open = TRUE /\ Callable(held, index, o) /\ Room(b) /\ to \in KnownUnits \cup {NULL}
      /\ heap' = r.heap /\ open' = open /\ held' = held /\ index' = index /\ lost' = lost
  BY <1>1, <1>2, ProgramAssumption, UsableIs DEF IInv, State, Reinitialize
<1>4. State(heap, held, index, lost, TRUE) /\ HasRoom(heap, b)
  BY <1>3, RoomIs DEF IInv
<1>5. State(r.heap, held, index, lost, TRUE) /\ Unmoved(heap, r.heap, index, o)
  BY <1>1, <1>2, <1>3, <1>4, InitializeState
<1> QED BY <1>3, <1>5 DEF IInv, Settled

\* index_eos appends an object in units the list had the name in no object of
Appends ==
  \E b \in Blocks, o \in Objs, u \in KnownUnits :
    /\ index' = Append(index, [name |-> b, obj |-> o]) /\ NotListed(index, o)
    /\ Unmoved(heap, heap', index, NULL)
    /\ heap'.obj[o].units = u /\ NotFound(heap, index, b, u)

\* EOSmanager::index_eos
LEMMA IndexStep ==
  ASSUME IInv, NEW b \in Indexed, NEW u \in Targets, IndexEOS(b, u)
  PROVE  IInv' /\ (Settled(NULL) \/ Appends)
<1>1. PICK h, a, s, l : h = heap /\ a = held /\ s = index /\ l = lost
  OBVIOUS
<1>2. PICK f : f = NewObject(h, b)
  OBVIOUS
<1>3. PICK r : r = ConvertUnits(f.heap, f.obj, u)
  OBVIOUS
<1>4. /\ open = TRUE /\ open' = open /\ held' = a /\ Room(b) /\ b \in Blocks /\ ~Exclusive(b)
      /\ u \in KnownUnits /\ FindIndex(b, u) = {}
  BY <1>1, ProgramAssumption DEF IndexEOS, IInv, State, Exclusive
<1>5. IF f.obj = NULL THEN heap' = f.heap /\ index' = s /\ lost' = l
      ELSE Add(r, f.obj, b)
  BY <1>1, <1>2, <1>3 DEF IndexEOS, AddNew
<1>6. State(h, a, s, l, TRUE) /\ HasRoom(h, b)
  BY <1>1, <1>4, RoomIs DEF IInv
<1>7. PICK e : /\ e = Outside(a, s, l) /\ Safe(h, e, {}) /\ Sound(h, e)
               /\ Listing(h, e, a, s, l) /\ a \in [Objs -> Nat]
  BY <1>6, OpenIs
<1>8. Fails(h, e, b, f) \/ News(h, e, b, f.obj, f.heap)
  BY <1>2, <1>4, <1>6, <1>7, NewObjectIs
<1>9. CASE Fails(h, e, b, f)
  <2>1. f.obj = NULL
    BY <1>9 DEF Fails
  <2>2. State(f.heap, a, s, l, TRUE) /\ Unmoved(h, f.heap, s, NULL)
    BY <1>4, <1>7, <1>9, FailState
  <2> QED BY <1>1, <1>4, <1>5, <2>1, <2>2 DEF IInv, Settled
<1>10. CASE News(h, e, b, f.obj, f.heap)
  <2>1. PICK o, k : o = f.obj /\ k = f.heap
    OBVIOUS
  <2>2. News(h, e, b, o, k) /\ o # NULL
    BY <1>10, <2>1, NullAssumption DEF News
  <2>3. r = ConvertUnits(k, o, u) /\ Add(r, o, b)
    BY <1>3, <1>5, <2>1, <2>2
  <2>4. IndexesNew(h, e, b, o, r) /\ (r.ret = 0 => r.heap.obj[o].units = u)
    BY <1>4, <1>7, <2>2, <2>3, IndexNewIs
  <2>5. heap' = r.heap
    BY <2>3 DEF Add
  <2>6. CASE r.ret = 0
    <3>1. PICK t : t = index'
      OBVIOUS
    <3>2. t = Append(s, [name |-> b, obj |-> o]) /\ lost' = l
      BY <1>1, <2>3, <2>6, <3>1 DEF Add
    <3>3. NotFound(h, s, b, u)
      BY <1>1, <1>4 DEF FindIndex, NotFound
    <3>4. /\ State(r.heap, a, t, l, TRUE) /\ NotListed(s, o)
          /\ Unmoved(h, r.heap, s, NULL)
      BY <1>4, <1>7, <2>4, <3>2, IndexState
    <3>5. Appends
      <4>1. o \in Objs /\ heap'.obj[o].units = u
        BY <2>4, <2>5, <2>6 DEF IndexesNew
      <4> QED BY <1>1, <1>4, <2>5, <3>1, <3>2, <3>3, <3>4, <4>1 DEF Appends
    <3> QED BY <1>4, <2>5, <3>1, <3>2, <3>4, <3>5 DEF IInv
  <2>7. CASE r.ret # 0
    <3>1. PICK m : m = lost'
      OBVIOUS
    <3>2. m = l \cup {o} /\ index' = s
      BY <1>1, <2>3, <2>7, <3>1 DEF Add
    <3>3. State(r.heap, a, s, m, TRUE) /\ Unmoved(h, r.heap, s, NULL)
      BY <1>4, <1>7, <2>4, <3>2, IndexLostState
    <3> QED BY <1>1, <1>4, <2>5, <3>1, <3>2, <3>3 DEF IInv, Settled
  <2> QED BY <2>6, <2>7
<1> QED BY <1>8, <1>9, <1>10

\* ~EOS_Array
LEMMA DropIndexedStep ==
  ASSUME IInv, DropIndexed
  PROVE  /\ IInv' /\ Unmoved(heap, heap', index', NULL)
         /\ \E a : TailOf(index, index', a)
<1>1. PICK k, t : k = heap' /\ t = index'
  OBVIOUS
<1>2. State(heap, held, index, lost, open) /\ index # <<>>
  BY DEF IInv, DropIndexed
<1>3. /\ k = Release(heap, Head(index).obj) /\ t = Tail(index)
      /\ open' = open /\ held' = held /\ lost' = lost
  BY <1>1 DEF DropIndexed
<1>4. State(k, held, t, lost, open) /\ Unmoved(heap, k, t, NULL)
  BY <1>2, <1>3, DropIndexedState
<1>5. \E a : TailOf(index, t, a)
  <2>1. index \in Seq(Entries)
    BY <1>2 DEF State, Listing, Entries
  <2> QED BY <1>2, <1>3, <2>1, TailIs
<1> QED BY <1>1, <1>3, <1>4, <1>5 DEF IInv

\* ~Property
LEMMA DropCachedStep ==
  ASSUME IInv, NEW b \in Blocks, DropCached(b)
  PROVE  IInv'
<1>1. PICK k : k = heap'
  OBVIOUS
<1>2. State(heap, held, index, lost, FALSE) /\ index = <<>> /\ heap.cache[b] # NULL
  BY DEF IInv, State, DropCached
<1>3. /\ k = Release([heap EXCEPT !.cache[b] = NULL], heap.cache[b])
      /\ open' = FALSE /\ held' = held /\ index' = index /\ lost' = lost
  BY <1>1 DEF DropCached, IInv, State
<1>4. State(k, held, index, lost, FALSE)
  BY <1>2, <1>3, DropCachedState
<1> QED BY <1>1, <1>3, <1>4 DEF IInv

\* The manager goes away
LEMMA CloseStep ==
  ASSUME IInv, Close
  PROVE  IInv'
<1>1. State(heap, held, index, lost, TRUE)
  BY DEF IInv, State, Close
<1>2. State(heap, held, index, lost, FALSE)
  BY <1>1, CloseState
<1>3. open' = FALSE /\ heap' = heap /\ held' = held /\ index' = index /\ lost' = lost
  BY DEF Close
<1> QED BY <1>2, <1>3 DEF IInv

LEMMA NextState ==
  ASSUME IInv, [Next]_vars
  PROVE  IInv'
<1>1. CASE Next
  BY <1>1, FetchStep, FetchNewStep, DuplicateStep, DeleteStep, ConvertStep, ReinitializeStep,
     IndexStep, CloseStep, DropCachedStep, DropIndexedStep DEF Next
<1>2. CASE UNCHANGED vars
  BY <1>2 DEF IInv, vars
<1> QED BY <1>1, <1>2

-----------------------------------------------------------------------------
(* The theorems *)

\* The inductive invariant: the heap, the program's references, the manager's
\* list and what that let go of agree, whatever sequence of fetches,
\* conversions, initialisations and deletions led there (IInv).
THEOREM Invariance == Spec => []IInv
<1>1. Init => IInv
  BY InitState
<1>2. IInv /\ [Next]_vars => IInv'
  BY NextState
<1> QED BY <1>1, <1>2, PTL DEF Spec

LEMMA InvTypeOK == IInv => TypeOK
BY DEF IInv, State, Listing, Safe, Sound, TypeOK

\* The objects, the cache, the references the program holds, the manager's
\* list and the objects it let go of are always of their types.
THEOREM TypeCorrect == Spec => []TypeOK
<1>1. IInv => TypeOK
  BY InvTypeOK
<1> QED BY <1>1, Invariance, PTL

LEMMA InvGoodNumbers == IInv => GoodNumbers
BY DEF IInv, State, Safe, OwnSafe, GoodAt, GoodNumbers

\* The numbers of an object whose status is good are in the units it names,
\* for every data base of blocks: no conversion that gives up half way, of the
\* object or of a composite it belongs to, leaves it good with rescaled numbers
\* (EOSbase::ConvertUnits).
THEOREM GoodNumbersHold == Spec => []GoodNumbers
<1>1. IInv => GoodNumbers
  BY InvGoodNumbers
<1> QED BY <1>1, Invariance, PTL

LEMMA InvCoherent == IInv => Coherent
<1>1. SUFFICES ASSUME IInv, NEW o \in Objs, Live(heap, o), Exclusive(heap.obj[o].name),
                      heap.obj[o].status = "good", heap.obj[o].units # NULL, NEW i \in {1, 2}
               PROVE  heap.obj[heap.obj[o].part[i]].units = heap.obj[o].units
  BY DEF Coherent
<1>2. Together(heap, o)
  BY <1>1 DEF IInv, State, Safe, OwnSafe
<1>3. IsComposite(heap.obj[o].name)
  BY <1>1 DEF Exclusive
<1> QED BY <1>1, <1>2, <1>3 DEF Together

\* A composite in good status that has its components to itself is in the same
\* units as they are, after any initialisations and conversions (InitParams and
\* ConvertParams of Elastic1D and PTequilibrium).
THEOREM CoherentHolds == Spec => []Coherent
<1>1. IInv => Coherent
  BY InvCoherent
<1> QED BY <1>1, Invariance, PTL

\* Objects of the list that come to agree, though only o is worked on
LEMMA SettledTwins ==
  ASSUME NEW o, Settled(o), NEW r \in Twins', r \notin Twins
  PROVE  o \in {r[1], r[2]}
<1>1. SUFFICES ASSUME o \notin {r[1], r[2]}
               PROVE  FALSE
  OBVIOUS
<1>2. index' = index /\ Unmoved(heap, heap', index, o)
  BY DEF Settled
<1>3. PICK i \in DOMAIN index, j \in DOMAIN index :
        /\ i # j /\ index[i].name = index[j].name /\ r = <<index[i].obj, index[j].obj>>
        /\ heap'.obj[r[1]].units = heap'.obj[r[2]].units
  BY <1>2 DEF Twins
<1>4. r \in Objs \X Objs /\ r[1] = index[i].obj /\ r[2] = index[j].obj
  BY <1>3 DEF Twins
<1>5. /\ heap'.obj[r[1]].units = heap.obj[r[1]].units
      /\ heap'.obj[r[2]].units = heap.obj[r[2]].units
  BY <1>1, <1>2, <1>4 DEF Unmoved
<1>6. heap.obj[r[1]].units = heap.obj[r[2]].units
  BY <1>3, <1>5
<1> QED BY <1>3, <1>4, <1>6 DEF Twins

LEMMA NoNewTwins ==
  ASSUME Settled(NULL), NEW r \in Twins'
  PROVE  r \in Twins
<1>1. r[1] # NULL /\ r[2] # NULL
  BY NullAssumption DEF Twins
<1> QED BY <1>1, SettledTwins

\* index_eos makes no twin of an object of the list
LEMMA AppendTwins ==
  ASSUME IInv, Appends, NEW r \in Twins'
  PROVE  r \in Twins
<1>1. PICK b \in Blocks, o \in Objs, u \in KnownUnits :
        /\ index' = Append(index, [name |-> b, obj |-> o]) /\ NotListed(index, o)
        /\ Unmoved(heap, heap', index, NULL)
        /\ heap'.obj[o].units = u /\ NotFound(heap, index, b, u)
  BY DEF Appends
<1>2. PICK s, t, x : s = index /\ t = index' /\ x = [name |-> b, obj |-> o]
  OBVIOUS
<1>3. s \in Seq(Entries) /\ x \in Entries /\ x.name = b /\ x.obj = o
  BY <1>2 DEF IInv, State, Listing, Entries
<1>4. PICK n : /\ n \notin DOMAIN s /\ DOMAIN t = DOMAIN s \cup {n} /\ t[n] = x
               /\ \A i \in DOMAIN s : t[i] = s[i]
  BY <1>1, <1>2, <1>3, AppendIs
<1>5. PICK i \in DOMAIN t, j \in DOMAIN t :
        /\ i # j /\ t[i].name = t[j].name /\ r = <<t[i].obj, t[j].obj>>
        /\ heap'.obj[r[1]].units = heap'.obj[r[2]].units
  BY <1>2 DEF Twins
<1>6. r \in Objs \X Objs /\ r[1] = t[i].obj /\ r[2] = t[j].obj
  BY <1>5 DEF Twins
<1>7. \A m \in DOMAIN s : heap'.obj[s[m].obj].units = heap.obj[s[m].obj].units
  BY <1>1, <1>2, <1>3, EntryIs, NullAssumption DEF Unmoved, Entries
<1>8. ASSUME NEW m \in DOMAIN s, s[m].name = b
      PROVE  heap'.obj[s[m].obj].units # u
  BY <1>1, <1>2, <1>7, <1>8 DEF NotFound
<1>9. i # n /\ j # n
  BY <1>1, <1>3, <1>4, <1>5, <1>6, <1>8
<1>10. /\ i \in DOMAIN s /\ j \in DOMAIN s /\ t[i] = s[i] /\ t[j] = s[j]
  BY <1>4, <1>9
<1>11. heap.obj[r[1]].units = heap.obj[r[2]].units
  BY <1>5, <1>6, <1>7, <1>10
<1> QED BY <1>2, <1>5, <1>6, <1>10, <1>11 DEF Twins

\* ... nor does taking one from the list
LEMMA TailTwins ==
  ASSUME Unmoved(heap, heap', index', NULL), NEW x, TailOf(index, index', x), NEW r \in Twins'
  PROVE  r \in Twins
<1>1. PICK s, t : s = index /\ t = index'
  OBVIOUS
<1>2. PICK i \in DOMAIN t, j \in DOMAIN t :
        /\ i # j /\ t[i].name = t[j].name /\ r = <<t[i].obj, t[j].obj>>
        /\ heap'.obj[r[1]].units = heap'.obj[r[2]].units
  BY <1>1 DEF Twins
<1>3. r \in Objs \X Objs /\ r[1] = t[i].obj /\ r[2] = t[j].obj
  BY <1>2 DEF Twins
<1>4. PICK m, n : m = i + 1 /\ n = j + 1
  OBVIOUS
<1>5. m \in DOMAIN s /\ n \in DOMAIN s /\ m # n /\ t[i] = s[m] /\ t[j] = s[n]
  BY <1>1, <1>2, <1>4 DEF TailOf
<1>6. /\ heap'.obj[r[1]].units = heap.obj[r[1]].units
      /\ heap'.obj[r[2]].units = heap.obj[r[2]].units
  BY <1>1, <1>3, NullAssumption DEF Unmoved
<1>7. heap.obj[r[1]].units = heap.obj[r[2]].units
  BY <1>2, <1>6
<1> QED BY <1>1, <1>2, <1>3, <1>5, <1>7 DEF Twins

\* What a step may do to make two entries agree
TwinStep(r) ==
  \E o \in {r[1], r[2]} :
    \/ \E to \in Targets : Convert(o, to)
    \/ \E to \in Targets \cup {NULL} : Reinitialize(o, to)

LEMMA TwinsByCall ==
  ASSUME IInv, Next, NEW r \in Twins', r \notin Twins
  PROVE  TwinStep(r)
<1>1. ~Settled(NULL) /\ ~Appends
  BY NoNewTwins, AppendTwins
<1>2. ~DropIndexed
  BY DropIndexedStep, TailTwins
<1>3. ~\E b \in Fetched : Fetch(b)
  BY <1>1, FetchStep
<1>4. ~\E b \in FetchedNew : FetchNew(b)
  BY <1>1, FetchNewStep
<1>5. ~\E o \in Objs : DuplicateEOS(o) \/ Delete(o)
  BY <1>1, DuplicateStep, DeleteStep
<1>6. ~\E b \in Indexed, u \in Targets : IndexEOS(b, u)
  BY <1>1, IndexStep
<1>7. ~Close
  BY <1>1 DEF Close, Settled, Unmoved
<1>8. ~\E b \in Blocks : DropCached(b)
  <2>1. SUFFICES ASSUME NEW b \in Blocks, DropCached(b)
                 PROVE  FALSE
    OBVIOUS
  <2>2. index = <<>> /\ index' = index
    BY <2>1 DEF DropCached
  <2>3. DOMAIN index = {}
    BY <2>2
  <2> QED BY <1>1, <2>2, <2>3 DEF Settled, Unmoved
<1>9. ASSUME NEW o \in Objs, NEW to \in Targets, Convert(o, to)
      PROVE  TwinStep(r)
  <2>1. Settled(o)
    BY <1>9, ConvertStep
  <2>2. o \in {r[1], r[2]}
    BY <2>1, SettledTwins
  <2> QED BY <1>9, <2>2 DEF TwinStep
<1>10. ASSUME NEW o \in Objs, NEW to \in Targets \cup {NULL}, Reinitialize(o, to)
       PROVE  TwinStep(r)
  <2>1. Settled(o)
    BY <1>10, ReinitializeStep
  <2>2. o \in {r[1], r[2]}
    BY <2>1, SettledTwins
  <2> QED BY <1>10, <2>2 DEF TwinStep
<1> QED BY <1>2, <1>3, <1>4, <1>5, <1>6, <1>7, <1>8, <1>9, <1>10 DEF Next

\* Two entries of the manager's list come to agree in name and units only when
\* the program itself converts or initialises one of the two, which
\* EOSmanager::eos(i) lets it do: for any data base, index_eos makes no second
\* object for a name and units that it has, and no conversion of a composite,
\* fetch, deletion or end of the manager changes the units of a listed object.
THEOREM IndexUniqueHolds == Spec => IndexUnique
<1>1. IInv /\ [Next]_vars
        => [\A r \in Twins' \ Twins : \E o \in {r[1], r[2]} :
              \/ \E to \in Targets : Convert(o, to)
              \/ \E to \in Targets \cup {NULL} : Reinitialize(o, to)]_vars
  BY TwinsByCall DEF TwinStep
<1> QED BY <1>1, Invariance, PTL DEF Spec, IndexUnique

LEMMA InvRefCounts == IInv => RefCounts
<1>1. SUFFICES ASSUME IInv, NEW o \in Objs
               PROVE  /\ Live(heap, o) => heap.obj[o].ref > 0
                      /\ References(o) = IF Live(heap, o) THEN heap.obj[o].ref ELSE 0
  BY DEF RefCounts
<1>2. PICK e : /\ e = Outside(held, index, lost) /\ Sound(heap, e)
               /\ Listing(heap, e, held, index, lost) /\ held \in [Objs -> Nat]
  BY <1>1, StateIs DEF IInv
<1>3. PICK c, p : /\ c = Cardinality(CacheRefs(heap, o))
                  /\ p = Cardinality(PartRefs(heap, o))
  OBVIOUS
<1>4. /\ Live(heap, o) => heap.obj[o].ref > 0
      /\ e[o] + c + p = IF Live(heap, o) THEN heap.obj[o].ref ELSE 0
  BY <1>2, <1>3 DEF Sound, Counted
<1>5. c \in Nat /\ p \in Nat
  BY <1>2, <1>3, RefsFinite, FS_CardinalityType DEF Sound
<1>6. {b \in Blocks : heap.cache[b] = o} = CacheRefs(heap, o)
  BY DEF CacheRefs
<1>7. Owners(o) = PartRefs(heap, o)
  BY DEF Owners, PartRefs
<1>8. PICK n : n = Cardinality({i \in DOMAIN index : index[i].obj = o})
  OBVIOUS
<1>9. n = Listed(index, o)
  <2>1. CASE \E i \in DOMAIN index : index[i].obj = o
    <3>1. PICK i \in DOMAIN index : index[i].obj = o
      BY <2>1
    <3>2. {j \in DOMAIN index : index[j].obj = o} = {i}
      BY <1>2, <3>1 DEF Listing, Indices
    <3>3. Cardinality({i}) = 1
      BY FS_Singleton
    <3> QED BY <1>8, <2>1, <3>2, <3>3 DEF Listed
  <2>2. CASE ~\E i \in DOMAIN index : index[i].obj = o
    <3>1. {j \in DOMAIN index : index[j].obj = o} = {}
      BY <2>2
    <3>2. Cardinality({}) = 0
      BY FS_EmptySet
    <3> QED BY <1>8, <2>2, <3>1, <3>2 DEF Listed
  <2> QED BY <2>1, <2>2
<1>10. References(o) = held[o] + c + p + n + Among(lost, o)
  BY <1>3, <1>6, <1>7, <1>8 DEF References, Among
<1>11. /\ e[o] = held[o] + Listed(index, o) + Among(lost, o) /\ held[o] \in Nat
       /\ Listed(index, o) \in {0, 1} /\ Among(lost, o) \in {0, 1}
  BY <1>2, OutsideType
<1>12. References(o) = e[o] + c + p
  BY <1>5, <1>9, <1>10, <1>11
<1> QED BY <1>4, <1>12

\* The reference count of every object is the number of references to it, for
\* any data base and any number of objects: nothing refers to a destroyed
\* object, and an object nobody refers to is destroyed, whichever call failed
\* half way (deleteEOSbase, Duplicate and ~EOSbase of EOSbase.C; NewObject).
THEOREM RefCountsHold == Spec => []RefCounts
<1>1. IInv => RefCounts
  BY InvRefCounts
<1> QED BY <1>1, Invariance, PTL
=============================================================================
