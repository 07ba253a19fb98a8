---------------------------- MODULE EOSheapProofs ----------------------------
(* What the calls of EOSheap do to the reference counts, the components and    *)
(* the numbers of all objects, for every data base.                            *)
EXTENDS EOSheap, FiniteSetTheorems, TLAPS

CacheRefs(h, o) == {b \in Blocks : h.cache[b] = o}
PartRefs(h, o)  == {r \in Objs \X {1, 2} : Live(h, r[1]) /\ h.obj[r[1]].part[r[2]] = o}

\* e is the number of references from outside the heap: those of the callers.
Counted(h, e) ==
  \A o \in Objs :
    /\ Live(h, o) => h.obj[o].ref > 0
    /\ e[o] + Cardinality(CacheRefs(h, o)) + Cardinality(PartRefs(h, o))
         = IF Live(h, o) THEN h.obj[o].ref ELSE 0

\* One more, and one less, reference to o, which may be NULL.
Inc(e, o) == IF o = NULL THEN e ELSE [e EXCEPT ![o] = @ + 1]
Dec(e, o) == [e EXCEPT ![o] = @ - 1]

\* Components are made from the blocks the composite's block names, the cached
\* object of a block from the block, and a composite in good status is whole.
PartFits(h, o, i) ==
  LET x == h.obj[o]
  IN  x.part[i] # NULL =>
        /\ Live(h, x.part[i]) /\ IsComposite(x.name)
        /\ h.obj[x.part[i]].name = PartsOf[x.name][i]
Shape(h) ==
  /\ \A o \in Objs, i \in {1, 2} : Live(h, o) => PartFits(h, o, i)
  /\ \A o \in Objs, i \in {1, 2} :
       Live(h, o) /\ IsComposite(h.obj[o].name) /\ h.obj[o].status = "good"
         => h.obj[o].part[i] # NULL
  /\ \A b \in Blocks : h.cache[b] # NULL =>
       Live(h, h.cache[b]) /\ h.obj[h.cache[b]].name = b

Sound(h, e) == h \in Heap /\ e \in [Objs -> Nat] /\ Counted(h, e) /\ Shape(h)

-----------------------------------------------------------------------------
(* References.                                                                 *)

LEMMA RefsFinite ==
  ASSUME NEW h, NEW o
  PROVE  /\ IsFiniteSet(CacheRefs(h, o)) /\ IsFiniteSet(PartRefs(h, o))
         /\ Cardinality(CacheRefs(h, o)) \in Nat /\ Cardinality(PartRefs(h, o)) \in Nat
<1>1. IsFiniteSet({1, 2})
  <2>1. IsFiniteSet({1} \cup {2})
    BY FS_Singleton, FS_AddElement
  <2>2. {1} \cup {2} = {1, 2}
    OBVIOUS
  <2> QED BY <2>1, <2>2
<1>2. IsFiniteSet(Objs \X {1, 2})
  BY <1>1, FiniteAssumption, FS_Product
<1>3. PartRefs(h, o) \subseteq Objs \X {1, 2}
  BY DEF PartRefs
<1>4. CacheRefs(h, o) \subseteq Blocks
  BY DEF CacheRefs
<1>5. IsFiniteSet(CacheRefs(h, o)) /\ IsFiniteSet(PartRefs(h, o))
  BY <1>2, <1>3, <1>4, FS_Subset, FiniteAssumption
<1> QED BY <1>5, FS_CardinalityType

\* What the cache or a composite refers to is alive, and an object with one
\* reference that is the caller's is in neither.
LEMMA NoRefs ==
  ASSUME NEW h, NEW o
  PROVE  /\ Cardinality(CacheRefs(h, o)) = 0 <=> \A b \in Blocks : h.cache[b] # o
         /\ Cardinality(PartRefs(h, o)) = 0 <=>
              \A p \in Objs, i \in {1, 2} : Live(h, p) => h.obj[p].part[i] # o
<1>1. Cardinality(CacheRefs(h, o)) = 0 <=> CacheRefs(h, o) = {}
  BY RefsFinite, FS_EmptySet
<1>2. Cardinality(PartRefs(h, o)) = 0 <=> PartRefs(h, o) = {}
  BY RefsFinite, FS_EmptySet
<1>3. CacheRefs(h, o) = {} <=> \A b \in Blocks : h.cache[b] # o
  BY DEF CacheRefs
<1>4. PartRefs(h, o) = {} <=> \A p \in Objs, i \in {1, 2} : Live(h, p) => h.obj[p].part[i] # o
  <2>1. ASSUME NEW p \in Objs, NEW i \in {1, 2}, Live(h, p), h.obj[p].part[i] = o
        PROVE  <<p, i>> \in PartRefs(h, o)
    BY <2>1 DEF PartRefs
  <2>2. ASSUME NEW r \in PartRefs(h, o)
        PROVE  \E p \in Objs, i \in {1, 2} : Live(h, p) /\ h.obj[p].part[i] = o
    BY <2>2 DEF PartRefs
  <2> QED BY <2>1, <2>2
<1> QED BY <1>1, <1>2, <1>3, <1>4

LEMMA OnlyRef ==
  ASSUME NEW h, NEW e, Sound(h, e), NEW o \in Objs, e[o] > 0
  PROVE  /\ Live(h, o) /\ h.obj[o].ref \in Nat \ {0} /\ h.obj[o].ref >= e[o]
         /\ h.obj[o].ref = e[o] =>
              /\ \A b \in Blocks : h.cache[b] # o
              /\ \A p \in Objs, i \in {1, 2} : Live(h, p) => h.obj[p].part[i] # o
<1> DEFINE c == Cardinality(CacheRefs(h, o))
           d == Cardinality(PartRefs(h, o))
<1>1. c \in Nat /\ d \in Nat
  BY RefsFinite
<1>2. e[o] \in Nat /\ e[o] + c + d = IF Live(h, o) THEN h.obj[o].ref ELSE 0
  BY DEF Sound, Counted
<1>3. Live(h, o) => h.obj[o].ref \in Nat
  BY DEF Sound, Heap, Object, Live
<1> HIDE DEF c, d
<1>4. Live(h, o) /\ h.obj[o].ref \in Nat \ {0} /\ h.obj[o].ref >= e[o]
      /\ (h.obj[o].ref = e[o] => c = 0 /\ d = 0)
  BY <1>1, <1>2, <1>3
<1> QED BY <1>4, NoRefs DEF c, d

\* Two heaps with the same cache, live objects and components.
SameRefs(h, k) ==
  /\ k.cache = h.cache
  /\ \A o \in Objs : /\ Live(k, o) <=> Live(h, o)
                     /\ Live(h, o) => k.obj[o].part = h.obj[o].part

LEMMA SameRefsCount ==
  ASSUME NEW h, NEW k, NEW o, SameRefs(h, k)
  PROVE  CacheRefs(k, o) = CacheRefs(h, o) /\ PartRefs(k, o) = PartRefs(h, o)
BY DEF SameRefs, CacheRefs, PartRefs

LEMMA IncType ==
  ASSUME NEW e \in [Objs -> Nat], NEW o \in Objs \cup {NULL}
  PROVE  /\ Inc(e, o) \in [Objs -> Nat]
         /\ \A q \in Objs : Inc(e, o)[q] = e[q] + (IF q = o THEN 1 ELSE 0)
BY NullAssumption DEF Inc

LEMMA DecType ==
  ASSUME NEW e \in [Objs -> Nat], NEW o \in Objs, e[o] > 0
  PROVE  /\ Dec(e, o) \in [Objs -> Nat] /\ Inc(Dec(e, o), o) = e
         /\ \A q \in Objs : Dec(e, o)[q] = e[q] - (IF q = o THEN 1 ELSE 0)
<1>1. o # NULL
  BY NullAssumption
<1>2. /\ Dec(e, o) \in [Objs -> Nat]
      /\ \A q \in Objs : Dec(e, o)[q] = e[q] - (IF q = o THEN 1 ELSE 0)
  BY DEF Dec
<1>3. Inc(Dec(e, o), o) \in [Objs -> Nat] /\ \A q \in Objs : Inc(Dec(e, o), o)[q] = e[q]
  BY <1>1, <1>2, IncType
<1>4. Inc(Dec(e, o), o) = e
  BY <1>3
<1> QED BY <1>2, <1>4

LEMMA IncDec ==
  ASSUME NEW e \in [Objs -> Nat], NEW o \in Objs
  PROVE  Dec(Inc(e, o), o) = e
<1>1. Inc(e, o) \in [Objs -> Nat] /\ \A q \in Objs : Inc(e, o)[q] = e[q] + (IF q = o THEN 1 ELSE 0)
  BY IncType
<1>2. Inc(e, o)[o] > 0
  BY <1>1
<1>3. Dec(Inc(e, o), o) \in [Objs -> Nat] /\ \A q \in Objs : Dec(Inc(e, o), o)[q] = e[q]
  BY <1>1, <1>2, DecType
<1> QED BY <1>3

\* Everything about x and y but the reference count is the same.
SameFace(x, y) ==
  /\ x.name = y.name /\ x.units = y.units /\ x.numbers = y.numbers
  /\ x.status = y.status /\ x.part = y.part

\* k is h with other reference counts.
Recount(h, k) ==
  /\ k \in Heap /\ k.cache = h.cache
  /\ \A o \in Objs : /\ Live(k, o) <=> Live(h, o)
                     /\ Live(h, o) => SameFace(k.obj[o], h.obj[o])

LEMMA ShapeByFace ==
  ASSUME NEW h, NEW k, Recount(h, k), Shape(h)
  PROVE  Shape(k)
<1>1. ASSUME NEW o \in Objs, NEW i \in {1, 2}, Live(k, o)
      PROVE  PartFits(k, o, i)
  <2>1. PartFits(h, o, i) /\ Live(h, o) /\ SameFace(k.obj[o], h.obj[o])
    BY <1>1 DEF Shape, Recount
  <2>2. h.obj[o].part[i] \in Objs \cup {NULL}
    <3>1. k.obj[o] \in Object
      BY <1>1 DEF Recount, Heap, Live
    <3>2. k.obj[o].part[i] \in Objs \cup {NULL}
      BY <3>1 DEF Object
    <3> QED BY <2>1, <3>2 DEF SameFace
  <2> QED BY <2>1, <2>2 DEF PartFits, Recount, SameFace
<1>2. ASSUME NEW o \in Objs, NEW i \in {1, 2}, Live(k, o), IsComposite(k.obj[o].name),
             k.obj[o].status = "good"
      PROVE  k.obj[o].part[i] # NULL
  BY <1>2 DEF Shape, Recount, SameFace
<1>3. ASSUME NEW b \in Blocks, k.cache[b] # NULL
      PROVE  Live(k, k.cache[b]) /\ k.obj[k.cache[b]].name = b
  <2>1. k.cache[b] \in Objs
    BY <1>3 DEF Recount, Heap
  <2> QED BY <1>3, <2>1 DEF Shape, Recount, SameFace
<1> QED BY <1>1, <1>2, <1>3 DEF Shape

LEMMA OneMore ==
  ASSUME NEW h, NEW e, Sound(h, e), NEW k, Recount(h, k), NEW o \in Objs, Live(h, o),
         k.obj[o].ref = h.obj[o].ref + 1,
         \A p \in Objs \ {o} : k.obj[p] = h.obj[p]
  PROVE  Sound(k, Inc(e, o))
<1>1. SameRefs(h, k)
  BY DEF SameRefs, Recount, SameFace
<1>2. Inc(e, o) \in [Objs -> Nat] /\ \A q \in Objs : Inc(e, o)[q] = e[q] + (IF q = o THEN 1 ELSE 0)
  BY IncType DEF Sound
<1>3. ASSUME NEW q \in Objs
      PROVE  /\ Live(k, q) => k.obj[q].ref > 0
             /\ Inc(e, o)[q] + Cardinality(CacheRefs(k, q)) + Cardinality(PartRefs(k, q))
                  = IF Live(k, q) THEN k.obj[q].ref ELSE 0
  <2>1. CacheRefs(k, q) = CacheRefs(h, q) /\ PartRefs(k, q) = PartRefs(h, q)
    BY <1>1, SameRefsCount
  <2>2. Cardinality(CacheRefs(h, q)) \in Nat /\ Cardinality(PartRefs(h, q)) \in Nat
    BY RefsFinite
  <2>3. e[q] \in Nat /\ (Live(h, q) => h.obj[q].ref \in Nat)
    BY DEF Sound, Heap, Object, Live
  <2>4. Live(k, q) <=> Live(h, q)
    BY DEF Recount
  <2>5. k.obj[q].ref = IF q = o THEN h.obj[q].ref + 1 ELSE h.obj[q].ref
    OBVIOUS
  <2>6. /\ Live(h, q) => h.obj[q].ref > 0
        /\ e[q] + Cardinality(CacheRefs(h, q)) + Cardinality(PartRefs(h, q))
              = IF Live(h, q) THEN h.obj[q].ref ELSE 0
    BY DEF Sound, Counted
  <2> QED BY <1>2, <2>1, <2>2, <2>3, <2>4, <2>5, <2>6
<1>4. Shape(k)
  BY ShapeByFace DEF Sound
<1> QED BY <1>2, <1>3, <1>4 DEF Sound, Counted, Recount

LEMMA OneLess ==
  ASSUME NEW h, NEW e, Sound(h, e), NEW k, Recount(h, k), NEW o \in Objs, e[o] > 0,
         h.obj[o].ref # 1, k.obj[o].ref = h.obj[o].ref - 1,
         \A p \in Objs \ {o} : k.obj[p] = h.obj[p]
  PROVE  Sound(k, Dec(e, o))
<1>1. SameRefs(h, k)
  BY DEF SameRefs, Recount, SameFace
<1>2. /\ Dec(e, o) \in [Objs -> Nat]
      /\ \A q \in Objs : Dec(e, o)[q] = e[q] - (IF q = o THEN 1 ELSE 0)
  BY DecType DEF Sound
<1>3. ASSUME NEW q \in Objs
      PROVE  /\ Live(k, q) => k.obj[q].ref > 0
             /\ Dec(e, o)[q] + Cardinality(CacheRefs(k, q)) + Cardinality(PartRefs(k, q))
                  = IF Live(k, q) THEN k.obj[q].ref ELSE 0
  <2>1. CacheRefs(k, q) = CacheRefs(h, q) /\ PartRefs(k, q) = PartRefs(h, q)
    BY <1>1, SameRefsCount
  <2>2. Cardinality(CacheRefs(h, q)) \in Nat /\ Cardinality(PartRefs(h, q)) \in Nat
    BY RefsFinite
  <2>3. e[q] \in Nat /\ (Live(h, q) => h.obj[q].ref \in Nat)
    BY DEF Sound, Heap, Object, Live
  <2>4. (Live(k, q) <=> Live(h, q)) /\ Live(h, o)
    BY OnlyRef DEF Recount
  <2>5. k.obj[q].ref = IF q = o THEN h.obj[q].ref - 1 ELSE h.obj[q].ref
    OBVIOUS
  <2>6. /\ Live(h, q) => h.obj[q].ref > 0
        /\ e[q] + Cardinality(CacheRefs(h, q)) + Cardinality(PartRefs(h, q))
              = IF Live(h, q) THEN h.obj[q].ref ELSE 0
    BY DEF Sound, Counted
  <2> QED BY <1>2, <2>1, <2>2, <2>3, <2>4, <2>5, <2>6
<1>4. Shape(k)
  BY ShapeByFace DEF Sound
<1> QED BY <1>2, <1>3, <1>4 DEF Sound, Counted, Recount

\* o has no components in k; the references it had to them in h are gone.
LEMMA DetachedCount ==
  ASSUME NEW h \in Heap, NEW k, NEW o \in Objs, Live(h, o), NEW q \in Objs,
         \A p \in Objs \ {o} : /\ Live(k, p) <=> Live(h, p)
                               /\ Live(h, p) => k.obj[p].part = h.obj[p].part,
         Live(k, o) => k.obj[o].part[1] = NULL /\ k.obj[o].part[2] = NULL
  PROVE  Cardinality(PartRefs(h, q)) = Cardinality(PartRefs(k, q))
             + (IF q = h.obj[o].part[1] THEN 1 ELSE 0) + (IF q = h.obj[o].part[2] THEN 1 ELSE 0)
<1> DEFINE S == PartRefs(h, q)
<1>1. IsFiniteSet(S) /\ Cardinality(S) \in Nat
  BY RefsFinite
<1>2. /\ IsFiniteSet(S \ {<<o, 1>>})
      /\ Cardinality(S \ {<<o, 1>>}) = IF <<o, 1>> \in S THEN Cardinality(S) - 1 ELSE Cardinality(S)
  BY <1>1, FS_RemoveElement
<1>3. Cardinality((S \ {<<o, 1>>}) \ {<<o, 2>>})
        = IF <<o, 2>> \in S \ {<<o, 1>>} THEN Cardinality(S \ {<<o, 1>>}) - 1
          ELSE Cardinality(S \ {<<o, 1>>})
  BY <1>2, FS_RemoveElement
<1>4. (S \ {<<o, 1>>}) \ {<<o, 2>>} = PartRefs(k, q)
  <2>1. q # NULL
    BY NullAssumption
  <2>2. ASSUME NEW r \in Objs \X {1, 2}
        PROVE  r \in (S \ {<<o, 1>>}) \ {<<o, 2>>} <=> r \in PartRefs(k, q)
    <3>1. CASE r[1] = o
      <4>1. r = <<o, 1>> \/ r = <<o, 2>>
        BY <3>1
      <4>2. r \notin PartRefs(k, q)
        BY <2>1, <3>1, <4>1 DEF PartRefs
      <4> QED BY <4>1, <4>2
    <3>2. CASE r[1] # o
      BY <3>2 DEF PartRefs
    <3> QED BY <3>1, <3>2
  <2> QED BY <2>2 DEF PartRefs
<1>5. <<o, 1>> \in S <=> q = h.obj[o].part[1]
  BY DEF PartRefs
<1>6. <<o, 2>> \in S \ {<<o, 1>>} <=> q = h.obj[o].part[2]
  BY DEF PartRefs
<1> DEFINE n1 == IF q = h.obj[o].part[1] THEN 1 ELSE 0
           n2 == IF q = h.obj[o].part[2] THEN 1 ELSE 0
<1>7. Cardinality((S \ {<<o, 1>>}) \ {<<o, 2>>}) = Cardinality(S) - n1 - n2
  <2> HIDE DEF S
  <2> QED BY <1>1, <1>2, <1>3, <1>5, <1>6
<1>8. Cardinality(S) = Cardinality(PartRefs(k, q)) + n1 + n2
  <2>1. n1 \in Int /\ n2 \in Int
    OBVIOUS
  <2> HIDE DEF S, n1, n2
  <2> QED BY <1>1, <1>4, <1>7, <2>1
<1> QED BY <1>8

-----------------------------------------------------------------------------
(* Deleting.                                                                   *)

\* k is h but for objects of S that are gone or lost references.
Milder(h, k, S) ==
  /\ k.cache = h.cache
  /\ \A p \in Objs : /\ p \notin S => k.obj[p] = h.obj[p]
                     /\ Live(k, p) => Live(h, p) /\ SameFace(k.obj[p], h.obj[p])

LEMMA TypedObject ==
  ASSUME NEW h \in Heap, NEW o \in Objs, Live(h, o)
  PROVE  /\ h.obj[o] \in Object /\ h.obj[o].ref \in Nat /\ h.obj[o].name \in Blocks
         /\ h.obj[o].status \in Statuses
         /\ h.obj[o].units \in KnownUnits \cup {NULL}
         /\ h.obj[o].numbers \in KnownUnits \cup {NULL, MIXED, UNSET}
         /\ h.obj[o].part \in (Objs \cup {NULL}) \X (Objs \cup {NULL})
         /\ \A i \in {1, 2} : h.obj[o].part[i] \in Objs \cup {NULL}
<1>1. h.obj[o] \in Object
  BY DEF Heap, Live
<1> QED BY <1>1 DEF Object

\* Components are simple objects, which have none.
LEMMA PartIsSimple ==
  ASSUME NEW h \in Heap, Shape(h), NEW o \in Objs, Live(h, o), NEW i \in {1, 2},
         h.obj[o].part[i] # NULL
  PROVE  /\ h.obj[o].part[i] \in Objs \ {o} /\ Live(h, h.obj[o].part[i])
         /\ IsComposite(h.obj[o].name)
         /\ PartsOf[h.obj[o].name][i] \in Blocks
         /\ h.obj[h.obj[o].part[i]].name = PartsOf[h.obj[o].name][i]
         /\ ~IsComposite(PartsOf[h.obj[o].name][i])
<1> DEFINE x == h.obj[o]
           q == x.part[i]
<1>1. q \in Objs /\ x.name \in Blocks
  BY TypedObject
<1>2. Live(h, q) /\ IsComposite(x.name) /\ h.obj[q].name = PartsOf[x.name][i]
  BY DEF Shape, PartFits
<1>3. h.obj[q].name \in Blocks
  BY <1>1, <1>2, TypedObject
<1>4. ~IsComposite(PartsOf[x.name][i])
  BY <1>1, <1>2, <1>3, BlocksAssumption, NullAssumption DEF IsComposite
<1> QED BY <1>1, <1>2, <1>3, <1>4

LEMMA SimpleHasNoParts ==
  ASSUME NEW h \in Heap, Shape(h), NEW o \in Objs, Live(h, o), ~IsComposite(h.obj[o].name)
  PROVE  h.obj[o].part[1] = NULL /\ h.obj[o].part[2] = NULL
BY PartIsSimple

LEMMA FreedCounts ==
  ASSUME NEW h, NEW e, Sound(h, e), NEW o \in Objs, e[o] > 0, h.obj[o].ref = 1
  PROVE  LET x == h.obj[o]
         IN  Sound(Put(h, o, FREE), Inc(Inc(Dec(e, o), x.part[2]), x.part[1]))
<1> DEFINE k  == Put(h, o, FREE)
           p1 == h.obj[o].part[1]
           p2 == h.obj[o].part[2]
           e1 == Inc(Dec(e, o), p2)
           e2 == Inc(e1, p1)
<1>1. h \in Heap /\ e \in [Objs -> Nat] /\ Shape(h) /\ Live(h, o)
  BY OnlyRef DEF Sound
<1>2. k \in Heap /\ k.cache = h.cache /\ k.obj = [h.obj EXCEPT ![o] = FREE]
  BY <1>1 DEF Heap, Put
<1>3. /\ \A p \in Objs \ {o} : k.obj[p] = h.obj[p] /\ (Live(k, p) <=> Live(h, p))
      /\ ~Live(k, o)
  BY <1>1, <1>2 DEF Heap, Live
<1>4. p1 \in Objs \cup {NULL} /\ p2 \in Objs \cup {NULL}
  BY <1>1, TypedObject
<1>5. e[o] = 1
  BY OnlyRef, <1>1
<1>6. /\ \A b \in Blocks : h.cache[b] # o
      /\ \A p \in Objs, i \in {1, 2} : Live(h, p) => h.obj[p].part[i] # o
  BY <1>5, OnlyRef
<1>7. /\ Dec(e, o) \in [Objs -> Nat]
      /\ \A q \in Objs : Dec(e, o)[q] = e[q] - (IF q = o THEN 1 ELSE 0)
  BY <1>1, DecType
<1>8. e1 \in [Objs -> Nat] /\ \A q \in Objs : e1[q] = Dec(e, o)[q] + (IF q = p2 THEN 1 ELSE 0)
  BY <1>4, <1>7, IncType
<1>9. e2 \in [Objs -> Nat] /\ \A q \in Objs : e2[q] = e1[q] + (IF q = p1 THEN 1 ELSE 0)
  BY <1>4, <1>8, IncType
<1> HIDE DEF k, p1, p2, e1, e2
<1>10. ASSUME NEW q \in Objs
       PROVE  /\ Live(k, q) => k.obj[q].ref > 0
              /\ e2[q] + Cardinality(CacheRefs(k, q)) + Cardinality(PartRefs(k, q))
                   = IF Live(k, q) THEN k.obj[q].ref ELSE 0
  <2>1. CacheRefs(k, q) = CacheRefs(h, q)
    BY <1>2 DEF CacheRefs
  <2>2. Cardinality(PartRefs(h, q)) = Cardinality(PartRefs(k, q))
             + (IF q = p1 THEN 1 ELSE 0) + (IF q = p2 THEN 1 ELSE 0)
    BY <1>1, <1>3, DetachedCount DEF p1, p2
  <2>3. /\ Cardinality(CacheRefs(h, q)) \in Nat /\ Cardinality(PartRefs(h, q)) \in Nat
        /\ Cardinality(PartRefs(k, q)) \in Nat
    BY RefsFinite
  <2>4. e[q] \in Nat /\ (Live(h, q) => h.obj[q].ref \in Nat)
    BY <1>1, TypedObject
  <2>5. /\ Live(h, q) => h.obj[q].ref > 0
        /\ e[q] + Cardinality(CacheRefs(h, q)) + Cardinality(PartRefs(h, q))
              = IF Live(h, q) THEN h.obj[q].ref ELSE 0
    BY DEF Sound, Counted
  <2>6. e2[q] = e[q] - (IF q = o THEN 1 ELSE 0)
                  + (IF q = p2 THEN 1 ELSE 0) + (IF q = p1 THEN 1 ELSE 0)
    BY <1>7, <1>8, <1>9, <2>4
  <2>7. CASE q = o
    <3>1. Cardinality(CacheRefs(h, q)) = 0 /\ Cardinality(PartRefs(h, q)) = 0
      BY <1>6, <2>7, NoRefs
    <3> QED BY <1>3, <1>5, <2>1, <2>2, <2>3, <2>6, <2>7, <3>1
  <2>8. CASE q # o
    BY <1>3, <2>1, <2>2, <2>3, <2>4, <2>5, <2>6, <2>8
  <2> QED BY <2>7, <2>8
<1>11. Shape(k)
  <2>1. ASSUME NEW p \in Objs, NEW i \in {1, 2}, Live(k, p)
        PROVE  PartFits(k, p, i) /\ (IsComposite(k.obj[p].name) /\ k.obj[p].status = "good"
                                       => k.obj[p].part[i] # NULL)
    <3>1. p # o /\ Live(h, p) /\ k.obj[p] = h.obj[p]
      BY <1>3, <2>1
    <3>2. h.obj[p].part[i] \in Objs \cup {NULL} /\ h.obj[p].part[i] # o
      BY <1>1, <1>6, <3>1, TypedObject
    <3>3. PartFits(h, p, i)
      BY <1>1, <3>1 DEF Shape
    <3>4. PartFits(k, p, i)
      BY <1>3, <3>1, <3>2, <3>3 DEF PartFits
    <3> QED BY <1>1, <3>1, <3>4 DEF Shape
  <2>2. ASSUME NEW b \in Blocks, k.cache[b] # NULL
        PROVE  Live(k, k.cache[b]) /\ k.obj[k.cache[b]].name = b
    <3>1. h.cache[b] \in Objs \ {o} /\ k.cache[b] = h.cache[b]
      BY <1>1, <1>2, <1>6, <2>2 DEF Heap
    <3> QED BY <1>1, <1>3, <2>2, <3>1 DEF Shape
  <2> QED BY <2>1, <2>2 DEF Shape
<1> QED BY <1>2, <1>9, <1>10, <1>11 DEF Sound, Counted, k, p1, p2, e1, e2

LEMMA DropCounts ==
  ASSUME NEW h, NEW e, Sound(h, e), NEW o \in Objs, e[o] > 0, ~IsComposite(h.obj[o].name)
  PROVE  Sound(Drop(h, o), Dec(e, o)) /\ Milder(h, Drop(h, o), {o})
<1>1. h \in Heap /\ e \in [Objs -> Nat] /\ Shape(h) /\ Live(h, o) /\ h.obj[o].ref \in Nat \ {0}
  BY OnlyRef DEF Sound
<1>2. CASE h.obj[o].ref = 1
  <2>1. Drop(h, o) = Put(h, o, FREE)
    BY <1>2 DEF Drop
  <2>2. h.obj[o].part[1] = NULL /\ h.obj[o].part[2] = NULL
    BY <1>1, SimpleHasNoParts
  <2>3. Inc(Inc(Dec(e, o), NULL), NULL) = Dec(e, o)
    BY DEF Inc
  <2>4. Sound(Drop(h, o), Dec(e, o))
    BY <1>2, <2>1, <2>2, <2>3, FreedCounts
  <2>5. Milder(h, Put(h, o, FREE), {o})
    BY <1>1 DEF Milder, Put, Heap, Live, SameFace
  <2> QED BY <2>1, <2>4, <2>5
<1>3. CASE h.obj[o].ref # 1
  <2> DEFINE k == [h EXCEPT !.obj[o].ref = @ - 1]
  <2>1. Drop(h, o) = k
    BY <1>3 DEF Drop
  <2>2. /\ k \in Heap /\ k.cache = h.cache
        /\ \A p \in Objs \ {o} : k.obj[p] = h.obj[p]
        /\ k.obj[o] = [h.obj[o] EXCEPT !.ref = @ - 1]
    <3> DEFINE y == [h.obj[o] EXCEPT !.ref = @ - 1]
    <3>1. y \in Object
      BY <1>1, <1>3, TypedObject DEF Object
    <3>2. k = [h EXCEPT !.obj = [h.obj EXCEPT ![o] = y]]
      BY <1>1 DEF Heap
    <3> HIDE DEF k, y
    <3>3. k.cache = h.cache /\ k.obj = [h.obj EXCEPT ![o] = y] /\ k \in Heap
      BY <1>1, <3>1, <3>2 DEF Heap
    <3> QED BY <1>1, <3>3 DEF Heap, y
  <2>3. k.obj[o] # FREE /\ SameFace(k.obj[o], h.obj[o]) /\ k.obj[o].ref = h.obj[o].ref - 1
    <3>1. k.obj[o] \in Object
      BY <1>1, <1>3, <2>2, TypedObject DEF Object
    <3> HIDE DEF k
    <3> QED BY <1>1, <2>2, <3>1, FreeAssumption, TypedObject DEF SameFace, Object
  <2> HIDE DEF k
  <2>4. Recount(h, k) /\ Milder(h, k, {o})
    BY <1>1, <2>2, <2>3 DEF Recount, Milder, Live, SameFace
  <2>5. Sound(k, Dec(e, o))
    BY <1>3, <2>2, <2>3, <2>4, OneLess
  <2> QED BY <2>1, <2>4, <2>5
<1> QED BY <1>2, <1>3

\* What a caller that owns a reference to q gives up.
LEMMA DropPartCounts ==
  ASSUME NEW h, NEW e \in [Objs -> Nat], NEW q \in Objs \cup {NULL}, Sound(h, Inc(e, q)),
         q # NULL => ~IsComposite(h.obj[q].name)
  PROVE  Sound(DropPart(h, q), e) /\ Milder(h, DropPart(h, q), {q})
<1>1. CASE q = NULL
  BY <1>1 DEF DropPart, Inc, Milder, SameFace
<1>2. CASE q # NULL
  <2>1. Inc(e, q)[q] > 0
    BY <1>2, IncType
  <2> QED BY <1>2, <2>1, DropCounts, IncDec DEF DropPart
<1> QED BY <1>1, <1>2

LEMMA MilderTwice ==
  ASSUME NEW h, NEW k, NEW l, NEW S, NEW T, Milder(h, k, S), Milder(k, l, T)
  PROVE  Milder(h, l, S \cup T)
BY DEF Milder, SameFace

LEMMA ReleaseCounts ==
  ASSUME NEW h, NEW e, Sound(h, e), NEW o \in Objs, e[o] > 0
  PROVE  /\ Sound(Release(h, o), Dec(e, o))
         /\ Milder(h, Release(h, o), {o, h.obj[o].part[1], h.obj[o].part[2]})
<1> DEFINE p1 == h.obj[o].part[1]
           p2 == h.obj[o].part[2]
           d  == Dec(e, o)
           h1 == Put(h, o, FREE)
           h2 == DropPart(h1, p1)
           h3 == DropPart(h2, p2)
<1>1. h \in Heap /\ e \in [Objs -> Nat] /\ Shape(h) /\ Live(h, o) /\ h.obj[o].ref \in Nat \ {0}
  BY OnlyRef DEF Sound
<1>2. p1 \in Objs \cup {NULL} /\ p2 \in Objs \cup {NULL}
  BY <1>1, TypedObject
<1>3. d \in [Objs -> Nat]
  BY <1>1, DecType
<1>4. CASE h.obj[o].ref = 1
  <2>1. Release(h, o) = h3
    BY <1>4 DEF Release, Drop
  <2>2. Sound(h1, Inc(Inc(d, p2), p1))
    BY <1>4, FreedCounts
  <2>3. Milder(h, h1, {o})
    BY <1>1 DEF Milder, Put, Heap, Live, SameFace
  <2>4. Inc(d, p2) \in [Objs -> Nat]
    BY <1>2, <1>3, IncType
  <2>5. p1 # NULL => ~IsComposite(h1.obj[p1].name)
    <3>1. p1 # NULL => p1 \in Objs \ {o} /\ ~IsComposite(h.obj[p1].name)
      BY <1>1, PartIsSimple
    <3>2. p1 # NULL => h1.obj[p1] = h.obj[p1]
      BY <2>3, <3>1 DEF Milder
    <3> QED BY <3>1, <3>2
  <2> HIDE DEF h1, p1, p2, d
  <2>6. Sound(h2, Inc(d, p2)) /\ Milder(h1, h2, {p1})
    BY <1>2, <2>2, <2>4, <2>5, DropPartCounts
  <2>7. p2 # NULL => ~IsComposite(h2.obj[p2].name)
    <3> SUFFICES ASSUME p2 # NULL PROVE ~IsComposite(h2.obj[p2].name)
      OBVIOUS
    <3>1. Inc(d, p2)[p2] > 0
      BY <1>2, <1>3, IncType
    <3>2. Live(h2, p2)
      BY <1>2, <2>6, <3>1, OnlyRef
    <3>3. h2.obj[p2].name = h.obj[p2].name
      BY <1>2, <2>3, <2>6, <3>2 DEF Milder, SameFace
    <3>4. ~IsComposite(h.obj[p2].name)
      BY <1>1, PartIsSimple DEF p2
    <3> QED BY <3>3, <3>4
  <2> HIDE DEF h2
  <2>8. Sound(h3, d) /\ Milder(h2, h3, {p2})
    BY <1>2, <1>3, <2>6, <2>7, DropPartCounts
  <2>9. Milder(h, h3, ({o} \cup {p1}) \cup {p2})
    BY <2>3, <2>6, <2>8, MilderTwice
  <2>10. ({o} \cup {p1}) \cup {p2} = {o, p1, p2}
    OBVIOUS
  <2> QED BY <2>1, <2>8, <2>9, <2>10 DEF p1, p2, d
<1>5. CASE h.obj[o].ref # 1
  <2> DEFINE k == [h EXCEPT !.obj[o].ref = @ - 1]
             y == [h.obj[o] EXCEPT !.ref = @ - 1]
  <2>1. Release(h, o) = k
    BY <1>5 DEF Release, Drop
  <2>2. y \in Object /\ SameFace(y, h.obj[o]) /\ y.ref = h.obj[o].ref - 1
    BY <1>1, <1>5, TypedObject DEF Object, SameFace
  <2>3. k = [h EXCEPT !.obj = [h.obj EXCEPT ![o] = y]]
    BY <1>1 DEF Heap
  <2> HIDE DEF y, k
  <2>4. k \in Heap /\ k.cache = h.cache /\ k.obj = [h.obj EXCEPT ![o] = y]
    BY <1>1, <2>2, <2>3 DEF Heap
  <2>5. k.obj[o] = y /\ \A p \in Objs \ {o} : k.obj[p] = h.obj[p]
    BY <1>1, <2>4 DEF Heap
  <2>6. Recount(h, k) /\ Milder(h, k, {o, p1, p2})
    BY <1>1, <2>2, <2>4, <2>5, FreeAssumption DEF Recount, Milder, Live, SameFace
  <2>7. Sound(k, Dec(e, o))
    BY <1>5, <2>2, <2>5, <2>6, OneLess
  <2> QED BY <2>1, <2>6, <2>7
<1> QED BY <1>4, <1>5

LEMMA DuplicateCounts ==
  ASSUME NEW h, NEW e, Sound(h, e), NEW o \in Objs, Live(h, o)
  PROVE  /\ Sound(Duplicate(h, o), Inc(e, o)) /\ Recount(h, Duplicate(h, o))
         /\ \A p \in Objs \ {o} : Duplicate(h, o).obj[p] = h.obj[p]
<1> DEFINE k == Duplicate(h, o)
           y == [h.obj[o] EXCEPT !.ref = @ + 1]
<1>1. h \in Heap
  BY DEF Sound
<1>2. y \in Object /\ SameFace(y, h.obj[o]) /\ y.ref = h.obj[o].ref + 1
  BY <1>1, TypedObject DEF Object, SameFace
<1>3. k = [h EXCEPT !.obj = [h.obj EXCEPT ![o] = y]]
  BY <1>1 DEF Heap, Duplicate
<1> HIDE DEF y, k
<1>4. k \in Heap /\ k.cache = h.cache /\ k.obj = [h.obj EXCEPT ![o] = y]
  BY <1>1, <1>2, <1>3 DEF Heap
<1>5. k.obj[o] = y /\ \A p \in Objs \ {o} : k.obj[p] = h.obj[p]
  BY <1>1, <1>4 DEF Heap
<1>6. Recount(h, k)
  BY <1>1, <1>2, <1>4, <1>5, FreeAssumption DEF Recount, Live, SameFace
<1>7. Sound(k, Inc(e, o))
  BY <1>2, <1>5, <1>6, OneMore
<1> QED BY <1>5, <1>6, <1>7 DEF k

-----------------------------------------------------------------------------
(* Writing one object.                                                         *)

LEMMA PutIs ==
  ASSUME NEW h \in Heap, NEW o \in Objs, NEW y \in Object \cup {FREE}, NEW k, k = Put(h, o, y)
  PROVE  /\ k \in Heap /\ k.cache = h.cache /\ k.obj[o] = y
         /\ \A p \in Objs \ {o} : k.obj[p] = h.obj[p]
<1>1. k.cache = h.cache /\ k.obj = [h.obj EXCEPT ![o] = y] /\ k \in Heap
  BY DEF Heap, Put
<1> QED BY <1>1 DEF Heap

\* k is h with other units, numbers and statuses.
Worked(h, k) ==
  /\ k \in Heap /\ k.cache = h.cache
  /\ \A p \in Objs : /\ Live(k, p) <=> Live(h, p)
                     /\ Live(h, p) => /\ k.obj[p].name = h.obj[p].name
                                      /\ k.obj[p].ref = h.obj[p].ref
                                      /\ k.obj[p].part = h.obj[p].part

\* A composite in good status has both its components.
Whole(h) ==
  \A o \in Objs, i \in {1, 2} :
    Live(h, o) /\ IsComposite(h.obj[o].name) /\ h.obj[o].status = "good"
      => h.obj[o].part[i] # NULL

LEMMA WorkedCounts ==
  ASSUME NEW h, NEW e, Sound(h, e), NEW k, Worked(h, k), Whole(k)
  PROVE  Sound(k, e)
<1>1. SameRefs(h, k)
  BY DEF SameRefs, Worked
<1>2. Counted(k, e)
  <2>1. ASSUME NEW q \in Objs
        PROVE  /\ Live(k, q) => k.obj[q].ref > 0
               /\ e[q] + Cardinality(CacheRefs(k, q)) + Cardinality(PartRefs(k, q))
                    = IF Live(k, q) THEN k.obj[q].ref ELSE 0
    <3>1. CacheRefs(k, q) = CacheRefs(h, q) /\ PartRefs(k, q) = PartRefs(h, q)
      BY <1>1, SameRefsCount
    <3>2. (Live(k, q) <=> Live(h, q)) /\ (Live(h, q) => k.obj[q].ref = h.obj[q].ref)
      BY DEF Worked
    <3>3. /\ Live(h, q) => h.obj[q].ref > 0
          /\ e[q] + Cardinality(CacheRefs(h, q)) + Cardinality(PartRefs(h, q))
               = IF Live(h, q) THEN h.obj[q].ref ELSE 0
      BY DEF Sound, Counted
    <3> QED BY <3>1, <3>2, <3>3
  <2> QED BY <2>1 DEF Counted
<1>3. Shape(k)
  <2>1. ASSUME NEW o \in Objs, NEW i \in {1, 2}, Live(k, o)
        PROVE  PartFits(k, o, i)
    <3>1. PartFits(h, o, i) /\ Live(h, o) /\ h \in Heap
      BY <2>1 DEF Shape, Worked, Sound
    <3>2. h.obj[o].part[i] \in Objs \cup {NULL}
      BY <3>1, TypedObject
    <3> QED BY <3>1, <3>2 DEF PartFits, Worked
  <2>2. ASSUME NEW b \in Blocks, k.cache[b] # NULL
        PROVE  Live(k, k.cache[b]) /\ k.obj[k.cache[b]].name = b
    <3>1. k.cache[b] \in Objs
      BY <2>2 DEF Worked, Heap
    <3> QED BY <2>2, <3>1 DEF Shape, Worked, Sound
  <2> QED BY <2>1, <2>2 DEF Shape, Whole
<1> QED BY <1>2, <1>3 DEF Sound, Worked

\* One object with another face.
LEMMA FaceCounts ==
  ASSUME NEW h, NEW e, Sound(h, e), NEW o \in Objs, Live(h, o), NEW y \in Object,
         NEW k, k = Put(h, o, y), y.name = h.obj[o].name, y.ref = h.obj[o].ref, y.part = h.obj[o].part,
         y.status = "good" /\ IsComposite(y.name) => y.part[1] # NULL /\ y.part[2] # NULL
  PROVE  Sound(k, e) /\ Worked(h, k)
<1>1. h \in Heap /\ Shape(h) /\ y \in Object \cup {FREE}
  BY DEF Sound
<1>2. k \in Heap /\ k.cache = h.cache /\ k.obj[o] = y /\ \A p \in Objs \ {o} : k.obj[p] = h.obj[p]
  BY <1>1, PutIs
<1>3. Worked(h, k)
  BY <1>2, FreeAssumption DEF Worked, Live
<1>4. Whole(k)
  BY <1>1, <1>2 DEF Whole, Shape, Live
<1> QED BY <1>3, <1>4, WorkedCounts

\* The composite o gives up its components: the references to them are now the
\* caller's.
LEMMA ClearedCounts ==
  ASSUME NEW h, NEW e, Sound(h, e), NEW o \in Objs, Live(h, o), NEW y \in Object,
         NEW k, k = Put(h, o, y), y.name = h.obj[o].name, y.ref = h.obj[o].ref, y.part = <<NULL, NULL>>,
         y.status # "good"
  PROVE  LET x == h.obj[o]
         IN  Sound(k, Inc(Inc(e, x.part[2]), x.part[1]))
<1> DEFINE p1 == h.obj[o].part[1]
           p2 == h.obj[o].part[2]
           e1 == Inc(e, p2)
           e2 == Inc(e1, p1)
<1>1. h \in Heap /\ e \in [Objs -> Nat] /\ Shape(h) /\ y \in Object \cup {FREE}
  BY DEF Sound
<1>2. k \in Heap /\ k.cache = h.cache /\ k.obj[o] = y /\ \A p \in Objs \ {o} : k.obj[p] = h.obj[p]
  BY <1>1, PutIs
<1>3. p1 \in Objs \cup {NULL} /\ p2 \in Objs \cup {NULL}
  BY <1>1, TypedObject
<1>4. e1 \in [Objs -> Nat] /\ \A q \in Objs : e1[q] = e[q] + (IF q = p2 THEN 1 ELSE 0)
  BY <1>1, <1>3, IncType
<1>5. e2 \in [Objs -> Nat] /\ \A q \in Objs : e2[q] = e1[q] + (IF q = p1 THEN 1 ELSE 0)
  BY <1>3, <1>4, IncType
<1> HIDE DEF p1, p2, e1, e2
<1>6. \A q \in Objs : /\ Live(k, q) <=> Live(h, q)
                      /\ Live(h, q) => k.obj[q].ref = h.obj[q].ref /\ k.obj[q].name = h.obj[q].name
  BY <1>2, FreeAssumption DEF Live
<1>7. ASSUME NEW q \in Objs
      PROVE  /\ Live(k, q) => k.obj[q].ref > 0
             /\ e2[q] + Cardinality(CacheRefs(k, q)) + Cardinality(PartRefs(k, q))
                  = IF Live(k, q) THEN k.obj[q].ref ELSE 0
  <2>1. CacheRefs(k, q) = CacheRefs(h, q)
    BY <1>2 DEF CacheRefs
  <2>2. Cardinality(PartRefs(h, q)) = Cardinality(PartRefs(k, q))
             + (IF q = p1 THEN 1 ELSE 0) + (IF q = p2 THEN 1 ELSE 0)
    BY <1>1, <1>2, <1>6, DetachedCount DEF p1, p2
  <2>3. /\ Cardinality(CacheRefs(h, q)) \in Nat /\ Cardinality(PartRefs(h, q)) \in Nat
        /\ Cardinality(PartRefs(k, q)) \in Nat
    BY RefsFinite
  <2>4. e[q] \in Nat /\ (Live(h, q) => h.obj[q].ref \in Nat)
    BY <1>1, TypedObject
  <2>5. /\ Live(h, q) => h.obj[q].ref > 0
        /\ e[q] + Cardinality(CacheRefs(h, q)) + Cardinality(PartRefs(h, q))
              = IF Live(h, q) THEN h.obj[q].ref ELSE 0
    BY DEF Sound, Counted
  <2>6. e2[q] = e[q] + (IF q = p2 THEN 1 ELSE 0) + (IF q = p1 THEN 1 ELSE 0)
    BY <1>4, <1>5, <2>4
  <2> DEFINE n1 == IF q = p1 THEN 1 ELSE 0
             n2 == IF q = p2 THEN 1 ELSE 0
  <2>7. n1 \in Nat /\ n2 \in Nat /\ e2[q] = e[q] + n2 + n1
        /\ Cardinality(PartRefs(h, q)) = Cardinality(PartRefs(k, q)) + n1 + n2
    BY <2>2, <2>6
  <2> HIDE DEF n1, n2
  <2>8. e2[q] + Cardinality(CacheRefs(k, q)) + Cardinality(PartRefs(k, q))
          = e[q] + Cardinality(CacheRefs(h, q)) + Cardinality(PartRefs(h, q))
    BY <2>1, <2>3, <2>4, <2>7
  <2> QED BY <1>6, <2>4, <2>5, <2>8
<1>8. Shape(k)
  <2>1. ASSUME NEW p \in Objs, NEW i \in {1, 2}, Live(k, p)
        PROVE  PartFits(k, p, i) /\ (IsComposite(k.obj[p].name) /\ k.obj[p].status = "good"
                                       => k.obj[p].part[i] # NULL)
    <3>1. CASE p = o
      BY <1>2, <3>1 DEF PartFits
    <3>2. CASE p # o
      <4>1. Live(h, p) /\ k.obj[p] = h.obj[p]
        BY <1>2, <2>1, <3>2 DEF Live
      <4>2. h.obj[p].part[i] \in Objs \cup {NULL}
        BY <1>1, <4>1, TypedObject
      <4>3. PartFits(h, p, i)
        BY <1>1, <4>1 DEF Shape
      <4>4. PartFits(k, p, i)
        BY <1>6, <4>1, <4>2, <4>3 DEF PartFits
      <4> QED BY <1>1, <4>1, <4>4 DEF Shape
    <3> QED BY <3>1, <3>2
  <2>2. ASSUME NEW b \in Blocks, k.cache[b] # NULL
        PROVE  Live(k, k.cache[b]) /\ k.obj[k.cache[b]].name = b
    <3>1. h.cache[b] \in Objs /\ k.cache[b] = h.cache[b]
      BY <1>1, <1>2, <2>2 DEF Heap
    <3> QED BY <1>1, <1>6, <2>2, <3>1 DEF Shape
  <2> QED BY <2>1, <2>2 DEF Shape
<1> QED BY <1>2, <1>5, <1>7, <1>8 DEF Sound, Counted, p1, p2, e1, e2

\* y is x with q as component i.
Attaches(x, y, i, q) ==
  /\ y.name = x.name /\ y.ref = x.ref /\ y.status = x.status
  /\ \A j \in {1, 2} : y.part[j] = IF j = i THEN q ELSE x.part[j]

\* The caller's reference to q becomes the component i of the composite o.
LEMMA AttachedCounts ==
  ASSUME NEW h, NEW e \in [Objs -> Nat], NEW q \in Objs, Sound(h, Inc(e, q)),
         NEW o \in Objs, Live(h, o), NEW i \in {1, 2}, NEW y \in Object,
         NEW k, k = Put(h, o, y),
         IsComposite(h.obj[o].name), h.obj[o].part[i] = NULL,
         h.obj[q].name = PartsOf[h.obj[o].name][i], Attaches(h.obj[o], y, i, q)
  PROVE  Sound(k, e)
<1>1. h \in Heap /\ Shape(h) /\ y \in Object \cup {FREE} /\ q # NULL
  BY NullAssumption DEF Sound
<1>2. k \in Heap /\ k.cache = h.cache /\ k.obj[o] = y /\ \A p \in Objs \ {o} : k.obj[p] = h.obj[p]
  BY <1>1, PutIs
<1>3. Live(h, q)
  BY IncType, OnlyRef
<1>4. \A p \in Objs : /\ Live(k, p) <=> Live(h, p)
                      /\ Live(h, p) => k.obj[p].ref = h.obj[p].ref /\ k.obj[p].name = h.obj[p].name
  BY <1>2, FreeAssumption DEF Live, Attaches
<1>5. ASSUME NEW p \in Objs
      PROVE  /\ Live(k, p) => k.obj[p].ref > 0
             /\ e[p] + Cardinality(CacheRefs(k, p)) + Cardinality(PartRefs(k, p))
                  = IF Live(k, p) THEN k.obj[p].ref ELSE 0
  <2>1. CacheRefs(k, p) = CacheRefs(h, p)
    BY <1>2 DEF CacheRefs
  <2>2. PartRefs(k, p) = IF p = q THEN PartRefs(h, p) \cup {<<o, i>>} ELSE PartRefs(h, p)
    <3>1. p # NULL
      BY NullAssumption
    <3>2. ASSUME NEW r \in Objs \X {1, 2}
          PROVE  r \in PartRefs(k, p) <=>
                   r \in PartRefs(h, p) \/ (p = q /\ r = <<o, i>>)
      <4>1. CASE r[1] = o
        <5>1. r = <<o, r[2]>> /\ r[2] \in {1, 2}
          BY <4>1
        <5>2. k.obj[o].part[r[2]] = IF r[2] = i THEN q ELSE h.obj[o].part[r[2]]
          BY <1>2, <5>1 DEF Attaches
        <5>3. (Live(k, o) <=> Live(h, o)) /\ Live(h, o)
          BY <1>4
        <5> QED BY <3>1, <4>1, <5>1, <5>2, <5>3 DEF PartRefs
      <4>2. CASE r[1] # o
        <5>1. r # <<o, i>> /\ k.obj[r[1]] = h.obj[r[1]]
          BY <1>2, <4>2
        <5> QED BY <1>4, <5>1 DEF PartRefs
      <4> QED BY <4>1, <4>2
    <3>3. PartRefs(k, p) \subseteq Objs \X {1, 2} /\ PartRefs(h, p) \subseteq Objs \X {1, 2}
          /\ <<o, i>> \in Objs \X {1, 2}
      BY DEF PartRefs
    <3> QED BY <3>2, <3>3
  <2>3. <<o, i>> \notin PartRefs(h, q)
    BY <1>1 DEF PartRefs
  <2>4. /\ Cardinality(CacheRefs(h, p)) \in Nat /\ Cardinality(PartRefs(h, p)) \in Nat
        /\ IsFiniteSet(PartRefs(h, p))
    BY RefsFinite
  <2>5. Cardinality(PartRefs(k, p)) = Cardinality(PartRefs(h, p)) + (IF p = q THEN 1 ELSE 0)
    <3>1. CASE p = q
      <4>1. Cardinality(PartRefs(h, p) \cup {<<o, i>>}) = Cardinality(PartRefs(h, p)) + 1
        BY <2>3, <2>4, <3>1, FS_AddElement
      <4> QED BY <2>2, <3>1, <4>1
    <3>2. CASE p # q
      BY <2>2, <2>4, <3>2
    <3> QED BY <3>1, <3>2
  <2>6. Inc(e, q)[p] = e[p] + (IF p = q THEN 1 ELSE 0) /\ e[p] \in Nat
    BY IncType
  <2>7. /\ Live(h, p) => h.obj[p].ref > 0
        /\ Inc(e, q)[p] + Cardinality(CacheRefs(h, p)) + Cardinality(PartRefs(h, p))
              = IF Live(h, p) THEN h.obj[p].ref ELSE 0
    BY DEF Sound, Counted
  <2>8. e[p] + Cardinality(CacheRefs(k, p)) + Cardinality(PartRefs(k, p))
          = Inc(e, q)[p] + Cardinality(CacheRefs(h, p)) + Cardinality(PartRefs(h, p))
    BY <2>1, <2>4, <2>5, <2>6
  <2> QED BY <1>4, <2>7, <2>8
<1>6. Shape(k)
  <2>1. ASSUME NEW p \in Objs, NEW j \in {1, 2}, Live(k, p)
        PROVE  PartFits(k, p, j) /\ (IsComposite(k.obj[p].name) /\ k.obj[p].status = "good"
                                       => k.obj[p].part[j] # NULL)
    <3>1. Live(h, p) /\ k.obj[p].name = h.obj[p].name /\ k.obj[p].status = h.obj[p].status
      BY <1>2, <1>4, <2>1 DEF Attaches
    <3>2. PartFits(h, p, j) /\ h.obj[p].part[j] \in Objs \cup {NULL}
      BY <1>1, <3>1, TypedObject DEF Shape
    <3>3. IsComposite(h.obj[p].name) /\ h.obj[p].status = "good" => h.obj[p].part[j] # NULL
      BY <1>1, <3>1 DEF Shape
    <3>4. CASE p = o /\ j = i
      <4>1. k.obj[p].part[j] = q
        BY <1>2, <3>4 DEF Attaches
      <4> QED BY <1>1, <1>3, <1>4, <3>1, <3>4, <4>1 DEF PartFits
    <3>5. CASE ~(p = o /\ j = i)
      <4>1. k.obj[p].part[j] = h.obj[p].part[j]
        BY <1>2, <3>5 DEF Attaches
      <4> QED BY <1>4, <3>1, <3>2, <3>3, <4>1 DEF PartFits
    <3> QED BY <3>4, <3>5
  <2>2. ASSUME NEW b \in Blocks, k.cache[b] # NULL
        PROVE  Live(k, k.cache[b]) /\ k.obj[k.cache[b]].name = b
    <3>1. h.cache[b] \in Objs /\ k.cache[b] = h.cache[b]
      BY <1>1, <1>2, <2>2 DEF Heap
    <3> QED BY <1>1, <1>4, <2>2, <3>1 DEF Shape
  <2> QED BY <2>1, <2>2 DEF Shape
<1> QED BY <1>2, <1>5, <1>6 DEF Sound, Counted

\* The caller's reference to q becomes the cache's.
LEMMA CachedCounts ==
  ASSUME NEW h, NEW e \in [Objs -> Nat], NEW q \in Objs, Sound(h, Inc(e, q)),
         NEW b \in Blocks, h.cache[b] = NULL, h.obj[q].name = b,
         NEW k, k = [h EXCEPT !.cache[b] = q]
  PROVE  Sound(k, e)
<1>1. h \in Heap /\ Shape(h) /\ q # NULL
  BY NullAssumption DEF Sound
<1>2. k \in Heap /\ k.obj = h.obj /\ k.cache = [h.cache EXCEPT ![b] = q]
  BY <1>1 DEF Heap
<1>3. Live(h, q)
  BY IncType, OnlyRef
<1>4. k.cache[b] = q /\ \A c \in Blocks \ {b} : k.cache[c] = h.cache[c]
  BY <1>1, <1>2 DEF Heap
<1>5. ASSUME NEW p \in Objs
      PROVE  /\ Live(k, p) => k.obj[p].ref > 0
             /\ e[p] + Cardinality(CacheRefs(k, p)) + Cardinality(PartRefs(k, p))
                  = IF Live(k, p) THEN k.obj[p].ref ELSE 0
  <2>1. PartRefs(k, p) = PartRefs(h, p)
    BY <1>2 DEF PartRefs, Live
  <2>2. CacheRefs(k, p) = IF p = q THEN CacheRefs(h, p) \cup {b} ELSE CacheRefs(h, p)
    <3>1. p # NULL
      BY NullAssumption
    <3>2. ASSUME NEW c \in Blocks
          PROVE  c \in CacheRefs(k, p) <=> c \in CacheRefs(h, p) \/ (p = q /\ c = b)
      BY <1>4, <3>1 DEF CacheRefs
    <3>3. CacheRefs(k, p) \subseteq Blocks /\ CacheRefs(h, p) \subseteq Blocks
      BY DEF CacheRefs
    <3> QED BY <3>2, <3>3
  <2>3. b \notin CacheRefs(h, q)
    BY <1>1 DEF CacheRefs
  <2>4. /\ Cardinality(CacheRefs(h, p)) \in Nat /\ Cardinality(PartRefs(h, p)) \in Nat
        /\ IsFiniteSet(CacheRefs(h, p))
    BY RefsFinite
  <2>5. Cardinality(CacheRefs(k, p)) = Cardinality(CacheRefs(h, p)) + (IF p = q THEN 1 ELSE 0)
    <3>1. CASE p = q
      <4>1. Cardinality(CacheRefs(h, p) \cup {b}) = Cardinality(CacheRefs(h, p)) + 1
        BY <2>3, <2>4, <3>1, FS_AddElement
      <4> QED BY <2>2, <3>1, <4>1
    <3>2. CASE p # q
      BY <2>2, <2>4, <3>2
    <3> QED BY <3>1, <3>2
  <2>6. Inc(e, q)[p] = e[p] + (IF p = q THEN 1 ELSE 0) /\ e[p] \in Nat
    BY IncType
  <2>7. /\ Live(h, p) => h.obj[p].ref > 0
        /\ Inc(e, q)[p] + Cardinality(CacheRefs(h, p)) + Cardinality(PartRefs(h, p))
              = IF Live(h, p) THEN h.obj[p].ref ELSE 0
    BY DEF Sound, Counted
  <2>8. e[p] + Cardinality(CacheRefs(k, p)) + Cardinality(PartRefs(k, p))
          = Inc(e, q)[p] + Cardinality(CacheRefs(h, p)) + Cardinality(PartRefs(h, p))
    BY <2>1, <2>4, <2>5, <2>6
  <2> QED BY <1>2, <2>7, <2>8 DEF Live
<1>6. Shape(k)
  <2>1. \A o \in Objs, i \in {1, 2} : PartFits(h, o, i) => PartFits(k, o, i)
    BY <1>2 DEF PartFits, Live
  <2>2. ASSUME NEW c \in Blocks, k.cache[c] # NULL
        PROVE  Live(k, k.cache[c]) /\ k.obj[k.cache[c]].name = c
    BY <1>1, <1>2, <1>3, <1>4, <2>2 DEF Shape, Live
  <2> QED BY <1>1, <1>2, <2>1, <2>2 DEF Shape, Live
<1> QED BY <1>2, <1>5, <1>6 DEF Sound, Counted

\* The cache's reference becomes the caller's.
LEMMA UncachedCounts ==
  ASSUME NEW h, NEW e, Sound(h, e), NEW b \in Blocks, h.cache[b] # NULL,
         NEW k, k = [h EXCEPT !.cache[b] = NULL]
  PROVE  Sound(k, Inc(e, h.cache[b]))
<1> DEFINE q == h.cache[b]
<1>1. h \in Heap /\ Shape(h) /\ e \in [Objs -> Nat] /\ q \in Objs
  BY DEF Sound, Heap
<1>2. k \in Heap /\ k.obj = h.obj /\ k.cache = [h.cache EXCEPT ![b] = NULL]
  BY <1>1 DEF Heap
<1>3. Inc(e, q) \in [Objs -> Nat] /\ \A p \in Objs : Inc(e, q)[p] = e[p] + (IF p = q THEN 1 ELSE 0)
  BY <1>1, IncType
<1>4. k.cache[b] = NULL /\ \A c \in Blocks \ {b} : k.cache[c] = h.cache[c]
  BY <1>1, <1>2 DEF Heap
<1>5. ASSUME NEW p \in Objs
      PROVE  /\ Live(k, p) => k.obj[p].ref > 0
             /\ Inc(e, q)[p] + Cardinality(CacheRefs(k, p)) + Cardinality(PartRefs(k, p))
                  = IF Live(k, p) THEN k.obj[p].ref ELSE 0
  <2>1. PartRefs(k, p) = PartRefs(h, p)
    BY <1>2 DEF PartRefs, Live
  <2>2. CacheRefs(k, p) = CacheRefs(h, p) \ {b}
    <3>1. p # NULL
      BY NullAssumption
    <3> QED BY <1>4, <3>1 DEF CacheRefs
  <2>3. b \in CacheRefs(h, p) <=> p = q
    BY DEF CacheRefs
  <2>4. /\ Cardinality(CacheRefs(h, p)) \in Nat /\ Cardinality(PartRefs(h, p)) \in Nat
        /\ IsFiniteSet(CacheRefs(h, p))
    BY RefsFinite
  <2>5. Cardinality(CacheRefs(k, p)) = IF b \in CacheRefs(h, p)
           THEN Cardinality(CacheRefs(h, p)) - 1 ELSE Cardinality(CacheRefs(h, p))
    BY <2>2, <2>4, FS_RemoveElement
  <2>6. /\ Live(h, p) => h.obj[p].ref > 0
        /\ e[p] + Cardinality(CacheRefs(h, p)) + Cardinality(PartRefs(h, p))
              = IF Live(h, p) THEN h.obj[p].ref ELSE 0
    BY DEF Sound, Counted
  <2>7. Inc(e, q)[p] + Cardinality(CacheRefs(k, p)) + Cardinality(PartRefs(k, p))
          = e[p] + Cardinality(CacheRefs(h, p)) + Cardinality(PartRefs(h, p))
    <3> HIDE DEF q
    <3>1. e[p] \in Nat
      BY <1>1
    <3> QED BY <1>3, <2>1, <2>3, <2>4, <2>5, <3>1
  <2> QED BY <1>2, <2>6, <2>7 DEF Live
<1>6. Shape(k)
  <2>1. \A o \in Objs, i \in {1, 2} : PartFits(h, o, i) => PartFits(k, o, i)
    BY <1>2 DEF PartFits, Live
  <2>2. ASSUME NEW c \in Blocks, k.cache[c] # NULL
        PROVE  Live(k, k.cache[c]) /\ k.obj[k.cache[c]].name = c
    BY <1>1, <1>2, <1>4, <2>2 DEF Shape, Live
  <2> QED BY <1>1, <1>2, <2>1, <2>2 DEF Shape, Live
<1> QED BY <1>2, <1>3, <1>5, <1>6 DEF Sound, Counted

\* A slot that is not in use is referred to by nothing.
LEMMA FreeIsUnused ==
  ASSUME NEW h, NEW e, Sound(h, e), NEW o \in Objs, ~Live(h, o)
  PROVE  /\ e[o] = 0 /\ Cardinality(CacheRefs(h, o)) = 0 /\ Cardinality(PartRefs(h, o)) = 0
         /\ \A b \in Blocks : h.cache[b] # o
         /\ \A p \in Objs, i \in {1, 2} : Live(h, p) => h.obj[p].part[i] # o
<1>1. Cardinality(CacheRefs(h, o)) \in Nat /\ Cardinality(PartRefs(h, o)) \in Nat
  BY RefsFinite
<1>2. e[o] \in Nat /\ e[o] + Cardinality(CacheRefs(h, o)) + Cardinality(PartRefs(h, o)) = 0
  BY DEF Sound, Counted
<1>3. e[o] = 0 /\ Cardinality(CacheRefs(h, o)) = 0 /\ Cardinality(PartRefs(h, o)) = 0
  BY <1>1, <1>2
<1> QED BY <1>3, NoRefs

\* An object the caller has just made.
LEMMA MadeCounts ==
  ASSUME NEW h, NEW e, Sound(h, e), NEW o \in Objs, ~Live(h, o), NEW y \in Object,
         NEW k, k = Put(h, o, y), y.ref = 1, y.part = <<NULL, NULL>>, y.status # "good"
  PROVE  Sound(k, Inc(e, o))
<1>1. h \in Heap /\ Shape(h) /\ y \in Object \cup {FREE} /\ e \in [Objs -> Nat]
  BY DEF Sound
<1>2. k \in Heap /\ k.cache = h.cache /\ k.obj[o] = y /\ \A p \in Objs \ {o} : k.obj[p] = h.obj[p]
  BY <1>1, PutIs
<1>3. Inc(e, o) \in [Objs -> Nat] /\ \A p \in Objs : Inc(e, o)[p] = e[p] + (IF p = o THEN 1 ELSE 0)
  BY <1>1, IncType
<1>4. Live(k, o) /\ \A p \in Objs \ {o} : Live(k, p) <=> Live(h, p)
  BY <1>2, FreeAssumption DEF Live
<1>5. ASSUME NEW p \in Objs
      PROVE  /\ Live(k, p) => k.obj[p].ref > 0
             /\ Inc(e, o)[p] + Cardinality(CacheRefs(k, p)) + Cardinality(PartRefs(k, p))
                  = IF Live(k, p) THEN k.obj[p].ref ELSE 0
  <2>1. CacheRefs(k, p) = CacheRefs(h, p)
    BY <1>2 DEF CacheRefs
  <2>2. PartRefs(k, p) = PartRefs(h, p)
    <3>1. p # NULL
      BY NullAssumption
    <3>2. ASSUME NEW r \in Objs \X {1, 2}
          PROVE  r \in PartRefs(k, p) <=> r \in PartRefs(h, p)
      <4>1. CASE r[1] = o
        <5>1. r[2] \in {1, 2} /\ y.part[r[2]] = NULL
          OBVIOUS
        <5> QED BY <1>2, <3>1, <4>1, <5>1 DEF PartRefs
      <4>2. CASE r[1] # o
        BY <1>2, <1>4, <4>2 DEF PartRefs
      <4> QED BY <4>1, <4>2
    <3>3. PartRefs(k, p) \subseteq Objs \X {1, 2} /\ PartRefs(h, p) \subseteq Objs \X {1, 2}
      BY DEF PartRefs
    <3> QED BY <3>2, <3>3
  <2>3. /\ Live(h, p) => h.obj[p].ref > 0
        /\ e[p] + Cardinality(CacheRefs(h, p)) + Cardinality(PartRefs(h, p))
              = IF Live(h, p) THEN h.obj[p].ref ELSE 0
    BY DEF Sound, Counted
  <2>4. CASE p = o
    <3>1. e[o] = 0 /\ Cardinality(CacheRefs(h, o)) = 0 /\ Cardinality(PartRefs(h, o)) = 0
      BY FreeIsUnused
    <3> QED BY <1>2, <1>3, <1>4, <2>1, <2>2, <2>4, <3>1
  <2>5. CASE p # o
    <3>1. Inc(e, o)[p] = e[p] /\ k.obj[p] = h.obj[p] /\ (Live(k, p) <=> Live(h, p))
      <4>1. e[p] \in Nat
        BY <1>1
      <4> QED BY <1>2, <1>3, <1>4, <2>5, <4>1
    <3> QED BY <2>1, <2>2, <2>3, <3>1
  <2> QED BY <2>4, <2>5
<1>6. Shape(k)
  <2>1. ASSUME NEW p \in Objs, NEW j \in {1, 2}, Live(k, p)
        PROVE  PartFits(k, p, j) /\ (IsComposite(k.obj[p].name) /\ k.obj[p].status = "good"
                                       => k.obj[p].part[j] # NULL)
    <3>1. CASE p = o
      BY <1>2, <3>1 DEF PartFits
    <3>2. CASE p # o
      <4>1. Live(h, p) /\ k.obj[p] = h.obj[p]
        BY <1>2, <1>4, <2>1, <3>2
      <4>2. PartFits(h, p, j) /\ h.obj[p].part[j] \in Objs \cup {NULL}
        BY <1>1, <4>1, TypedObject DEF Shape
      <4>3. h.obj[p].part[j] # o
        BY <4>1, FreeIsUnused
      <4>4. PartFits(k, p, j)
        BY <1>2, <1>4, <4>1, <4>2, <4>3 DEF PartFits
      <4> QED BY <1>1, <4>1, <4>4 DEF Shape
    <3> QED BY <3>1, <3>2
  <2>2. ASSUME NEW b \in Blocks, k.cache[b] # NULL
        PROVE  Live(k, k.cache[b]) /\ k.obj[k.cache[b]].name = b
    <3>1. h.cache[b] \in Objs \ {o} /\ k.cache[b] = h.cache[b]
      BY <1>1, <1>2, <2>2, FreeIsUnused DEF Heap
    <3> QED BY <1>1, <1>2, <1>4, <2>2, <3>1 DEF Shape
  <2> QED BY <2>1, <2>2 DEF Shape
<1> QED BY <1>2, <1>3, <1>5, <1>6 DEF Sound, Counted

-----------------------------------------------------------------------------
(* Conversion of units.                                                        *)

\* k is h with other units, numbers and statuses of the objects of S, none of
\* which became good.
Touched(h, k, S) ==
  /\ Worked(h, k)
  /\ \A p \in Objs : /\ p \notin S => k.obj[p] = h.obj[p]
                     /\ Live(h, p) /\ k.obj[p].status = "good" => h.obj[p].status = "good"

GoodAt(h, o) ==
  Live(h, o) => (h.obj[o].status = "good" => h.obj[o].numbers = h.obj[o].units)

\* The components are in the units of the composite.
Together(h, o) ==
  LET x == h.obj[o]
  IN  IsComposite(x.name) /\ x.status = "good" /\ x.units # NULL =>
        \A i \in {1, 2} : h.obj[x.part[i]].units = x.units

LEMMA TouchedSelf ==
  ASSUME NEW h \in Heap, NEW S
  PROVE  Touched(h, h, S)
BY DEF Touched, Worked

LEMMA TouchedTwice ==
  ASSUME NEW h, NEW k, NEW l, NEW S, NEW T, NEW U, Touched(h, k, S), Touched(k, l, T),
         S \subseteq U, T \subseteq U
  PROVE  Touched(h, l, U)
BY DEF Touched, Worked

LEMMA TouchedCounts ==
  ASSUME NEW h, NEW e, Sound(h, e), NEW k, NEW S, Touched(h, k, S)
  PROVE  Sound(k, e)
<1>1. Whole(k)
  BY DEF Whole, Touched, Worked, Sound, Shape
<1> QED BY <1>1, WorkedCounts DEF Touched

LEMMA PutTouches ==
  ASSUME NEW h \in Heap, NEW o \in Objs, Live(h, o), NEW y \in Object, NEW k, k = Put(h, o, y),
         y.name = h.obj[o].name, y.ref = h.obj[o].ref, y.part = h.obj[o].part,
         y.status = "good" => h.obj[o].status = "good"
  PROVE  Touched(h, k, {o}) /\ k.obj[o] = y /\ Live(k, o)
<1>1. y \in Object \cup {FREE}
  OBVIOUS
<1>2. k \in Heap /\ k.cache = h.cache /\ k.obj[o] = y /\ \A p \in Objs \ {o} : k.obj[p] = h.obj[p]
  BY <1>1, PutIs
<1> QED BY <1>2, FreeAssumption DEF Touched, Worked, Live

\* The conversion of the object's own numbers writes those only.
Renumbers(h, o, r) ==
  /\ Touched(h, r.heap, {o}) /\ r.ret \in {0, 1}
  /\ r.heap.obj[o].units = h.obj[o].units /\ r.heap.obj[o].status = h.obj[o].status

LEMMA NumbersPut ==
  ASSUME NEW h \in Heap, NEW o \in Objs, Live(h, o), NEW n \in KnownUnits \cup {MIXED},
         NEW k, k = Put(h, o, [h.obj[o] EXCEPT !.numbers = n])
  PROVE  /\ Touched(h, k, {o}) /\ k.obj[o].numbers = n
         /\ k.obj[o].units = h.obj[o].units /\ k.obj[o].status = h.obj[o].status
<1> DEFINE x == h.obj[o]
           y == [x EXCEPT !.numbers = n]
<1>1. x \in Object
  BY TypedObject
<1>2. /\ y \in Object /\ y.name = x.name /\ y.ref = x.ref /\ y.part = x.part
      /\ y.status = x.status /\ y.units = x.units /\ y.numbers = n
  BY <1>1 DEF Object
<1>3. k = Put(h, o, y)
  OBVIOUS
<1> HIDE DEF y
<1>4. Touched(h, k, {o}) /\ k.obj[o] = y
  BY <1>2, <1>3, PutTouches
<1> QED BY <1>2, <1>4

LEMMA BaseParamsIs ==
  ASSUME NEW h \in Heap, NEW o \in Objs, Live(h, o), NEW from, NEW r, r = BaseParams(h, o, from)
  PROVE  Renumbers(h, o, r)
<1>1. CASE from \in NoBase
  BY <1>1, TouchedSelf DEF BaseParams, Returns, Renumbers
<1>2. CASE from \notin NoBase
  <2>1. r.heap = Put(h, o, [h.obj[o] EXCEPT !.numbers = MIXED]) /\ r.ret = 0
    BY <1>2 DEF BaseParams, Returns
  <2>2. PICK n : n = MIXED
    OBVIOUS
  <2>3. r.heap = Put(h, o, [h.obj[o] EXCEPT !.numbers = n]) /\ n \in KnownUnits \cup {MIXED}
    BY <2>1, <2>2
  <2> QED BY <2>1, <2>3, NumbersPut DEF Renumbers
<1> QED BY <1>1, <1>2

\* The class's own factors: its numbers follow, or the object keeps what it has.
Classes(r, o, was, from, to, m) ==
  /\ Touched(r.heap, m.heap, {o}) /\ m.ret \in Int
  /\ m.heap.obj[o].units = r.heap.obj[o].units
  /\ m.heap.obj[o].status = r.heap.obj[o].status
  /\ m.ret = 0 => r.ret = 0 /\ (was = from => m.heap.obj[o].numbers = to)

LEMMA ClassParamsIs ==
  ASSUME NEW r, r.heap \in Heap, r.ret \in Int, NEW o \in Objs, Live(r.heap, o), NEW was,
         NEW from, NEW to \in KnownUnits, NEW m, m = ClassParams(r, o, was, from, to)
  PROVE  /\ Classes(r, o, was, from, to, m)
         /\ r.ret \in {0, 1} => m.ret \in {0, 1}
<1>1. PICK h, x : h = r.heap /\ x = h.obj[o]
  OBVIOUS
<1>2. CASE r.ret # 0
  BY <1>2, TouchedSelf DEF ClassParams, Classes
<1>3. CASE r.ret = 0 /\ <<x.name, from>> \in NoOwn
  <2>1. m.heap = h /\ m.ret = 1
    BY <1>1, <1>3 DEF ClassParams, Returns
  <2> QED BY <1>1, <1>3, <2>1, TouchedSelf DEF Classes
<1>4. CASE r.ret = 0 /\ <<x.name, from>> \notin NoOwn
  <2>1. PICK n : n = IF was = from THEN to ELSE MIXED
    OBVIOUS
  <2>2. m.heap = Put(h, o, [h.obj[o] EXCEPT !.numbers = n]) /\ m.ret = 0
    BY <1>1, <1>4, <2>1 DEF ClassParams, Returns
  <2>3. n \in KnownUnits \cup {MIXED}
    BY <2>1
  <2>4. /\ Touched(h, m.heap, {o}) /\ m.heap.obj[o].numbers = n
        /\ m.heap.obj[o].units = h.obj[o].units /\ m.heap.obj[o].status = h.obj[o].status
    BY <1>1, <2>2, <2>3, NumbersPut
  <2> QED BY <1>1, <1>4, <2>1, <2>2, <2>4 DEF Classes
<1> QED BY <1>2, <1>3, <1>4

OwnsParams(h, o, from, to, r) ==
  /\ Renumbers(h, o, r)
  /\ r.ret = 0 /\ h.obj[o].numbers = from => r.heap.obj[o].numbers = to

LEMMA OwnParamsIs ==
  ASSUME NEW h \in Heap, NEW o \in Objs, Live(h, o), NEW from, NEW to \in KnownUnits,
         NEW r, r = OwnParams(h, o, from, to)
  PROVE  OwnsParams(h, o, from, to, r)
<1>1. PICK a, n : a = BaseParams(h, o, from) /\ n = h.obj[o].numbers
  OBVIOUS
<1>2. r = ClassParams(a, o, n, from, to)
  BY <1>1 DEF OwnParams
<1>3. /\ Touched(h, a.heap, {o}) /\ a.ret \in {0, 1}
      /\ a.heap.obj[o].units = h.obj[o].units /\ a.heap.obj[o].status = h.obj[o].status
  BY <1>1, BaseParamsIs DEF Renumbers
<1>4. a.heap \in Heap /\ a.ret \in Int /\ Live(a.heap, o)
  BY <1>3 DEF Touched, Worked
<1>5. Classes(a, o, n, from, to, r) /\ r.ret \in {0, 1}
  BY <1>2, <1>3, <1>4, ClassParamsIs
<1>6. Touched(h, r.heap, {o})
  BY <1>3, <1>5, TouchedTwice DEF Classes
<1> QED BY <1>1, <1>3, <1>5, <1>6 DEF Classes, OwnsParams, Renumbers

\* A conversion ends in the new units or in a status that is not good.
Finishes(r, o, to, f) ==
  /\ Touched(r.heap, f.heap, {o}) /\ f.ret \in Int
  /\ f.ret = 0 => r.ret = 0 /\ f.heap.obj[o].units = to
  /\ f.ret # 0 => f.heap.obj[o].status # "good"
  /\ f.heap.obj[o].numbers = r.heap.obj[o].numbers

LEMMA FinishIs ==
  ASSUME NEW r, r.heap \in Heap, r.ret \in Int, NEW o \in Objs, Live(r.heap, o),
         NEW to \in KnownUnits, NEW f, f = Finish(r, o, to)
  PROVE  Finishes(r, o, to, f)
<1> DEFINE h == r.heap
           x == h.obj[o]
           y == [x EXCEPT !.status = "fail"]
           z == [x EXCEPT !.status = "bad"]
           w == [x EXCEPT !.units = to]
<1>1. x \in Object
  BY TypedObject
<1>2. /\ y \in Object /\ y.name = x.name /\ y.ref = x.ref /\ y.part = x.part
      /\ y.status # "good" /\ y.numbers = x.numbers
  BY <1>1 DEF Object, Statuses
<1>3. /\ z \in Object /\ z.name = x.name /\ z.ref = x.ref /\ z.part = x.part
      /\ z.status # "good" /\ z.numbers = x.numbers
  BY <1>1 DEF Object, Statuses
<1>4. /\ w \in Object /\ w.name = x.name /\ w.ref = x.ref /\ w.part = x.part
      /\ w.status = x.status /\ w.numbers = x.numbers /\ w.units = to
  BY <1>1 DEF Object
<1>5. CASE r.ret > 0
  <2>1. f.heap = Put(h, o, y) /\ f.ret = 1
    BY <1>5 DEF Finish, Returns
  <2> HIDE DEF y
  <2>2. Touched(h, f.heap, {o}) /\ f.heap.obj[o] = y
    BY <1>2, <2>1, PutTouches
  <2> QED BY <1>2, <2>1, <2>2 DEF Finishes
<1>6. CASE r.ret < 0
  <2>1. f.heap = Put(h, o, z) /\ f.ret = -1
    BY <1>6 DEF Finish, Returns
  <2> HIDE DEF z
  <2>2. Touched(h, f.heap, {o}) /\ f.heap.obj[o] = z
    BY <1>3, <2>1, PutTouches
  <2> QED BY <1>3, <2>1, <2>2 DEF Finishes
<1>7. CASE r.ret = 0
  <2>1. f.heap = Put(h, o, w) /\ f.ret = 0
    BY <1>7 DEF Finish, Returns
  <2> HIDE DEF w
  <2>2. Touched(h, f.heap, {o}) /\ f.heap.obj[o] = w
    BY <1>4, <2>1, PutTouches
  <2> QED BY <1>4, <1>7, <2>1, <2>2 DEF Finishes
<1> QED BY <1>5, <1>6, <1>7

ConvertsSimple(h, o, to, r) ==
  /\ Touched(h, r.heap, {o}) /\ r.ret \in Int
  /\ r.ret = 0 => r.heap.obj[o].units = to
  /\ \A p \in Objs : GoodAt(h, p) => GoodAt(r.heap, p)

LEMMA ConvertSimpleIs ==
  ASSUME NEW h \in Heap, NEW o \in Objs, Live(h, o), NEW from, NEW to \in KnownUnits,
         NEW r, r = ConvertSimple(h, o, from, to)
  PROVE  ConvertsSimple(h, o, to, r)
<1> DEFINE x == h.obj[o]
<1>1. CASE Refuses(x, from, to)
  BY <1>1, TouchedSelf DEF ConvertSimple, Returns, ConvertsSimple
<1>2. CASE ~Refuses(x, from, to) /\ x.units = to
  BY <1>2, TouchedSelf DEF ConvertSimple, Returns, ConvertsSimple
<1>3. CASE ~Refuses(x, from, to) /\ x.units # to
  <2>1. PICK m : m = OwnParams(h, o, from, to)
    OBVIOUS
  <2>2. x.status = "good" /\ x.units = from
    BY <1>3 DEF Refuses
  <2>3. r = Finish(m, o, to)
    BY <1>3, <2>1 DEF ConvertSimple
  <2>4. /\ Touched(h, m.heap, {o}) /\ m.ret \in {0, 1}
        /\ m.heap.obj[o].units = x.units /\ m.heap.obj[o].status = x.status
        /\ m.ret = 0 /\ x.numbers = from => m.heap.obj[o].numbers = to
    <3>1. OwnsParams(h, o, from, to, m)
      BY <2>1, OwnParamsIs
    <3> QED BY <3>1 DEF OwnsParams, Renumbers
  <2>5. m.heap \in Heap /\ m.ret \in Int /\ Live(m.heap, o)
    BY <2>4 DEF Touched, Worked
  <2>6. /\ Touched(m.heap, r.heap, {o}) /\ r.ret \in Int
        /\ r.ret = 0 => m.ret = 0 /\ r.heap.obj[o].units = to
        /\ r.ret # 0 => r.heap.obj[o].status # "good"
        /\ r.heap.obj[o].numbers = m.heap.obj[o].numbers
    <3>1. Finishes(m, o, to, r)
      BY <2>3, <2>5, FinishIs
    <3> QED BY <3>1 DEF Finishes
  <2>7. Touched(h, r.heap, {o})
    BY <2>4, <2>6, TouchedTwice
  <2>8. GoodAt(h, o) => GoodAt(r.heap, o)
    BY <2>2, <2>4, <2>6 DEF GoodAt
  <2>9. ASSUME NEW p \in Objs, p # o
        PROVE  GoodAt(h, p) => GoodAt(r.heap, p)
    BY <2>7, <2>9 DEF GoodAt, Touched, Live
  <2> QED BY <2>6, <2>7, <2>8, <2>9 DEF ConvertsSimple
<1> QED BY <1>1, <1>2, <1>3

\* m is reached from h by r and then the conversion of q.
ThenConverts(h, S, r, q, to, m) ==
  /\ Touched(h, m.heap, S \cup {q}) /\ m.ret \in Int
  /\ \A p \in Objs : GoodAt(r.heap, p) => GoodAt(m.heap, p)
  /\ \A p \in Objs \ {q} : m.heap.obj[p] = r.heap.obj[p]
  /\ m.ret = 0 => r.ret = 0 /\ m.heap.obj[q].units = to

LEMMA ThenSimpleIs ==
  ASSUME NEW h, NEW S, NEW r, Touched(h, r.heap, S), r.ret \in Int, NEW q \in Objs, Live(h, q),
         NEW from, NEW to \in KnownUnits, NEW m, m = ThenSimple(r, q, from, to)
  PROVE  ThenConverts(h, S, r, q, to, m)
<1>1. CASE r.ret # 0
  BY <1>1 DEF ThenSimple, Touched, ThenConverts
<1>2. CASE r.ret = 0
  <2>1. m = ConvertSimple(r.heap, q, from, to)
    BY <1>2 DEF ThenSimple
  <2>2. r.heap \in Heap /\ Live(r.heap, q)
    BY DEF Touched, Worked
  <2>3. /\ Touched(r.heap, m.heap, {q}) /\ m.ret \in Int
        /\ m.ret = 0 => m.heap.obj[q].units = to
        /\ \A p \in Objs : GoodAt(r.heap, p) => GoodAt(m.heap, p)
    <3>1. ConvertsSimple(r.heap, q, to, m)
      BY <2>1, <2>2, ConvertSimpleIs
    <3> QED BY <3>1 DEF ConvertsSimple
  <2>4. Touched(h, m.heap, S \cup {q})
    <3>1. S \subseteq S \cup {q} /\ {q} \subseteq S \cup {q}
      OBVIOUS
    <3> QED BY <2>3, <3>1, TouchedTwice
  <2> QED BY <1>2, <2>3, <2>4 DEF Touched, ThenConverts
<1> QED BY <1>1, <1>2

ThenOwns(h, S, r, o, from, to, m) ==
  /\ Touched(h, m.heap, S \cup {o}) /\ m.ret \in Int
  /\ \A p \in Objs \ {o} : m.heap.obj[p] = r.heap.obj[p]
  /\ m.heap.obj[o].units = r.heap.obj[o].units
  /\ m.heap.obj[o].status = r.heap.obj[o].status
  /\ m.ret = 0 => r.ret = 0 /\ (r.heap.obj[o].numbers = from => m.heap.obj[o].numbers = to)

LEMMA ThenOwnIs ==
  ASSUME NEW h, NEW S, NEW r, Touched(h, r.heap, S), r.ret \in Int, NEW o \in Objs, Live(h, o),
         NEW from, NEW to \in KnownUnits, NEW m, m = ThenOwn(r, o, from, to)
  PROVE  ThenOwns(h, S, r, o, from, to, m)
<1>1. CASE r.ret # 0
  BY <1>1 DEF ThenOwn, Touched, ThenOwns
<1>2. CASE r.ret = 0
  <2>1. m = OwnParams(r.heap, o, from, to)
    BY <1>2 DEF ThenOwn
  <2>2. r.heap \in Heap /\ Live(r.heap, o)
    BY DEF Touched, Worked
  <2>3. /\ Touched(r.heap, m.heap, {o}) /\ m.ret \in {0, 1}
        /\ m.heap.obj[o].units = r.heap.obj[o].units
        /\ m.heap.obj[o].status = r.heap.obj[o].status
        /\ m.ret = 0 /\ r.heap.obj[o].numbers = from => m.heap.obj[o].numbers = to
    <3>1. OwnsParams(r.heap, o, from, to, m)
      BY <2>1, <2>2, OwnParamsIs
    <3> QED BY <3>1 DEF OwnsParams, Renumbers
  <2>4. Touched(h, m.heap, S \cup {o})
    <3>1. S \subseteq S \cup {o} /\ {o} \subseteq S \cup {o}
      OBVIOUS
    <3> QED BY <2>3, <3>1, TouchedTwice
  <2> QED BY <1>2, <2>3, <2>4 DEF Touched, ThenOwns
<1> QED BY <1>1, <1>2

\* The ConvertParams of a composite: when it succeeds, its own numbers and both
\* components are converted.
ConvertsParams(h, o, p1, p2, from, to, r) ==
  /\ Touched(h, r.heap, {o, p1, p2}) /\ r.ret \in Int
  /\ r.heap.obj[o].units = h.obj[o].units /\ r.heap.obj[o].status = h.obj[o].status
  /\ \A p \in Objs \ {o} : GoodAt(h, p) => GoodAt(r.heap, p)
  /\ r.ret = 0 => /\ h.obj[o].numbers = from => r.heap.obj[o].numbers = to
                  /\ r.heap.obj[p1].units = to /\ r.heap.obj[p2].units = to

LEMMA Elastic1DParamsIs ==
  ASSUME NEW h \in Heap, NEW o \in Objs, Live(h, o), NEW from, NEW to \in KnownUnits,
         NEW p1 \in Objs \ {o}, NEW p2 \in Objs \ {o}, Live(h, p1), Live(h, p2),
         h.obj[o].part = <<p1, p2>>, NEW r, r = Elastic1DParams(h, o, from, to)
  PROVE  ConvertsParams(h, o, p1, p2, from, to, r)
<1>1. PICK a : a = ConvertSimple(h, p1, from, to)
  OBVIOUS
<1>2. PICK b : b = ThenSimple(a, p2, from, to)
  OBVIOUS
<1>3. PICK c : c = ThenOwn(b, o, from, to)
  OBVIOUS
<1>4. r.heap = c.heap /\ r.ret = IF c.ret # 0 THEN 1 ELSE 0
  BY <1>1, <1>2, <1>3, NullAssumption DEF Elastic1DParams, Truth, Returns
<1>5. /\ Touched(h, a.heap, {p1}) /\ a.ret \in Int
      /\ a.ret = 0 => a.heap.obj[p1].units = to
      /\ \A p \in Objs : GoodAt(h, p) => GoodAt(a.heap, p)
  <2>1. ConvertsSimple(h, p1, to, a)
    BY <1>1, ConvertSimpleIs
  <2> QED BY <2>1 DEF ConvertsSimple
<1>6. /\ Touched(h, b.heap, {p1} \cup {p2}) /\ b.ret \in Int
      /\ \A p \in Objs : GoodAt(a.heap, p) => GoodAt(b.heap, p)
      /\ \A p \in Objs \ {p2} : b.heap.obj[p] = a.heap.obj[p]
      /\ b.ret = 0 => a.ret = 0 /\ b.heap.obj[p2].units = to
  <2>1. ThenConverts(h, {p1}, a, p2, to, b)
    BY <1>2, <1>5, ThenSimpleIs
  <2> QED BY <2>1 DEF ThenConverts
<1>7. /\ Touched(h, c.heap, ({p1} \cup {p2}) \cup {o}) /\ c.ret \in Int
      /\ \A p \in Objs \ {o} : c.heap.obj[p] = b.heap.obj[p]
      /\ c.heap.obj[o].units = b.heap.obj[o].units
      /\ c.heap.obj[o].status = b.heap.obj[o].status
      /\ c.ret = 0 => b.ret = 0 /\ (b.heap.obj[o].numbers = from => c.heap.obj[o].numbers = to)
  <2>1. ThenOwns(h, {p1} \cup {p2}, b, o, from, to, c)
    BY <1>3, <1>6, ThenOwnIs
  <2> QED BY <2>1 DEF ThenOwns
<1>8. ({p1} \cup {p2}) \cup {o} = {o, p1, p2}
  OBVIOUS
<1>9. b.heap.obj[o] = h.obj[o]
  BY <1>6 DEF Touched
<1>10. \A p \in Objs \ {o} : GoodAt(h, p) => GoodAt(c.heap, p)
  BY <1>5, <1>6, <1>7 DEF GoodAt, Live
<1>11. c.ret = 0 => c.heap.obj[p1].units = to /\ c.heap.obj[p2].units = to
  BY <1>5, <1>6, <1>7
<1>12. Touched(h, r.heap, {o, p1, p2}) /\ r.ret \in Int
  BY <1>4, <1>7, <1>8
<1>13. r.heap.obj[o].units = h.obj[o].units /\ r.heap.obj[o].status = h.obj[o].status
  BY <1>4, <1>7, <1>9
<1>14. \A p \in Objs \ {o} : GoodAt(h, p) => GoodAt(r.heap, p)
  BY <1>4, <1>10
<1>15. r.ret = 0 => /\ h.obj[o].numbers = from => r.heap.obj[o].numbers = to
                   /\ r.heap.obj[p1].units = to /\ r.heap.obj[p2].units = to
  BY <1>4, <1>7, <1>9, <1>11
<1> QED BY <1>12, <1>13, <1>14, <1>15 DEF ConvertsParams

LEMMA PTequilibriumParamsIs ==
  ASSUME NEW h \in Heap, NEW o \in Objs, Live(h, o), NEW from, NEW to \in KnownUnits,
         NEW p1 \in Objs \ {o}, NEW p2 \in Objs \ {o}, Live(h, p1), Live(h, p2),
         h.obj[o].part = <<p1, p2>>, NEW r, r = PTequilibriumParams(h, o, from, to)
  PROVE  ConvertsParams(h, o, p1, p2, from, to, r)
<1>1. PICK a, n : a = BaseParams(h, o, from) /\ n = h.obj[o].numbers
  OBVIOUS
<1>2. PICK b : b = ThenSimple(a, p1, from, to)
  OBVIOUS
<1>3. PICK c : c = ThenSimple(b, p2, from, to)
  OBVIOUS
<1>4. PICK d : d = ClassParams(c, o, n, from, to)
  OBVIOUS
<1>5. r.heap = d.heap /\ r.ret = IF d.ret # 0 THEN -1 ELSE 0
  BY <1>1, <1>2, <1>3, <1>4 DEF PTequilibriumParams, Truth, Returns
<1>6. /\ Touched(h, a.heap, {o}) /\ a.ret \in Int
      /\ a.heap.obj[o].units = h.obj[o].units /\ a.heap.obj[o].status = h.obj[o].status
  <2>1. Renumbers(h, o, a)
    BY <1>1, BaseParamsIs
  <2> QED BY <2>1 DEF Renumbers
<1>7. /\ Touched(h, b.heap, {o} \cup {p1}) /\ b.ret \in Int
      /\ \A p \in Objs : GoodAt(a.heap, p) => GoodAt(b.heap, p)
      /\ \A p \in Objs \ {p1} : b.heap.obj[p] = a.heap.obj[p]
      /\ b.ret = 0 => a.ret = 0 /\ b.heap.obj[p1].units = to
  <2>1. ThenConverts(h, {o}, a, p1, to, b)
    BY <1>2, <1>6, ThenSimpleIs
  <2> QED BY <2>1 DEF ThenConverts
<1>8. /\ Touched(h, c.heap, ({o} \cup {p1}) \cup {p2}) /\ c.ret \in Int
      /\ \A p \in Objs : GoodAt(b.heap, p) => GoodAt(c.heap, p)
      /\ \A p \in Objs \ {p2} : c.heap.obj[p] = b.heap.obj[p]
      /\ c.ret = 0 => b.ret = 0 /\ c.heap.obj[p2].units = to
  <2>1. ThenConverts(h, {o} \cup {p1}, b, p2, to, c)
    BY <1>3, <1>7, ThenSimpleIs
  <2> QED BY <2>1 DEF ThenConverts
<1>9. c.heap \in Heap /\ Live(c.heap, o)
  BY <1>8 DEF Touched, Worked
<1>10. /\ Touched(c.heap, d.heap, {o}) /\ d.ret \in Int
       /\ d.heap.obj[o].units = c.heap.obj[o].units
       /\ d.heap.obj[o].status = c.heap.obj[o].status
       /\ d.ret = 0 => c.ret = 0 /\ (n = from => d.heap.obj[o].numbers = to)
  <2>1. Classes(c, o, n, from, to, d)
    BY <1>4, <1>8, <1>9, ClassParamsIs
  <2> QED BY <2>1 DEF Classes
<1>11. ({o} \cup {p1}) \cup {p2} = {o, p1, p2}
  OBVIOUS
<1>12. Touched(h, d.heap, {o, p1, p2})
  <2>1. {o} \subseteq {o, p1, p2}
    OBVIOUS
  <2> QED BY <1>8, <1>10, <1>11, <2>1, TouchedTwice
<1>13. c.heap.obj[o] = a.heap.obj[o]
  BY <1>7, <1>8
<1>14. \A p \in Objs \ {o} : d.heap.obj[p] = c.heap.obj[p]
  BY <1>10 DEF Touched
<1>15. ASSUME NEW p \in Objs \ {o}, GoodAt(h, p)
       PROVE  GoodAt(d.heap, p)
  <2>1. GoodAt(a.heap, p)
    BY <1>6, <1>15 DEF GoodAt, Touched, Live
  <2>2. GoodAt(c.heap, p)
    BY <1>7, <1>8, <2>1
  <2> QED BY <1>14, <2>2 DEF GoodAt, Live
<1>16. d.ret = 0 => d.heap.obj[p1].units = to /\ d.heap.obj[p2].units = to
  BY <1>7, <1>8, <1>10, <1>14
<1>17. r.ret \in Int /\ (r.ret = 0 => d.ret = 0)
  BY <1>5, <1>10
<1>18. r.heap.obj[o].units = h.obj[o].units /\ r.heap.obj[o].status = h.obj[o].status
  BY <1>5, <1>6, <1>10, <1>13
<1>19. r.ret = 0 => /\ h.obj[o].numbers = from => r.heap.obj[o].numbers = to
                   /\ r.heap.obj[p1].units = to /\ r.heap.obj[p2].units = to
  BY <1>1, <1>5, <1>10, <1>16, <1>17
<1> QED BY <1>5, <1>12, <1>15, <1>17, <1>18, <1>19 DEF ConvertsParams

\* ConvertUnits keeps what is good and together, whatever fails.
Converts(h, o, to, r) ==
  /\ Touched(h, r.heap, {o, h.obj[o].part[1], h.obj[o].part[2]}) /\ r.ret \in Int
  /\ r.ret = 0 => r.heap.obj[o].units = to
  /\ \A p \in Objs : GoodAt(h, p) => GoodAt(r.heap, p)
  /\ Together(h, o) => Together(r.heap, o)

LEMMA ConvertUnitsIs ==
  ASSUME NEW h \in Heap, Shape(h), NEW o \in Objs, Live(h, o), NEW to \in KnownUnits,
         NEW r, r = ConvertUnits(h, o, to)
  PROVE  Converts(h, o, to, r)
<1> DEFINE x == h.obj[o]
<1>0. x.name \in Blocks /\ x.part \in (Objs \cup {NULL}) \X (Objs \cup {NULL}) /\ to # NULL
  BY TypedObject, NullAssumption
<1>1. ASSUME r.heap = h, r.ret \in Int, r.ret = 0 => x.units = to
      PROVE  Converts(h, o, to, r)
  BY <1>1, TouchedSelf DEF Converts
<1>2. CASE x.units = NULL
  <2>1. r.heap = h /\ r.ret = 1
    BY <1>2 DEF ConvertUnits, Returns
  <2> QED BY <1>1, <2>1
<1>3. CASE x.units # NULL /\ x.units = to
  <2>1. r.heap = h /\ r.ret = 0
    BY <1>3 DEF ConvertUnits, Returns
  <2> QED BY <1>1, <1>3, <2>1
<1>4. CASE x.units # NULL /\ x.units # to /\ ~IsComposite(x.name)
  <2>1. r = ConvertSimple(h, o, x.units, to)
    BY <1>4 DEF ConvertUnits
  <2>2. /\ Touched(h, r.heap, {o}) /\ r.ret \in Int
        /\ r.ret = 0 => r.heap.obj[o].units = to
        /\ \A p \in Objs : GoodAt(h, p) => GoodAt(r.heap, p)
    <3> HIDE DEF x
    <3>1. ConvertsSimple(h, o, to, r)
      BY <2>1, ConvertSimpleIs
    <3> QED BY <3>1 DEF ConvertsSimple
  <2>3. Touched(h, r.heap, {o, x.part[1], x.part[2]})
    BY <2>2 DEF Touched
  <2>4. r.heap.obj[o].name = x.name
    BY <2>2 DEF Touched, Worked
  <2>5. Together(r.heap, o)
    BY <1>4, <2>4 DEF Together
  <2> QED BY <2>2, <2>3, <2>5 DEF Converts
<1>5. CASE x.units # NULL /\ x.units # to /\ IsComposite(x.name)
  <2>1. r = ConvertComposite(h, o, x.units, to)
    BY <1>5 DEF ConvertUnits
  <2>2. CASE Refuses(x, x.units, to)
    <3>1. r.heap = h /\ r.ret = 1
      BY <2>1, <2>2 DEF ConvertComposite, Returns
    <3> QED BY <1>1, <3>1
  <2>3. CASE ~Refuses(x, x.units, to)
    <3> DEFINE p1 == x.part[1]
               p2 == x.part[2]
               from == x.units
    <3>1. x.status = "good"
      BY <2>3 DEF Refuses
    <3>2. p1 # NULL /\ p2 # NULL
      BY <1>5, <3>1 DEF Shape
    <3>3. p1 \in Objs \ {o} /\ p2 \in Objs \ {o} /\ Live(h, p1) /\ Live(h, p2)
      BY <3>2, PartIsSimple
    <3>4. x.part = <<p1, p2>>
      BY <1>0
    <3> HIDE DEF p1, p2, from
    <3>5. PICK m : m = IF KindOf[x.name] = "Elastic1D" THEN Elastic1DParams(h, o, from, to)
                       ELSE PTequilibriumParams(h, o, from, to)
      OBVIOUS
    <3>6. r = Finish(m, o, to)
      BY <2>1, <2>3, <3>5 DEF ConvertComposite, from
    <3>7. ConvertsParams(h, o, p1, p2, from, to, m)
      <4>1. CASE KindOf[x.name] = "Elastic1D"
        BY <3>3, <3>4, <3>5, <4>1, Elastic1DParamsIs
      <4>2. CASE KindOf[x.name] # "Elastic1D"
        BY <3>3, <3>4, <3>5, <4>2, PTequilibriumParamsIs
      <4> QED BY <4>1, <4>2
    <3>8. m.heap \in Heap /\ m.ret \in Int /\ Live(m.heap, o)
          /\ Touched(h, m.heap, {o, p1, p2})
      BY <3>7 DEF ConvertsParams, Touched, Worked
    <3>9. Finishes(m, o, to, r)
      BY <3>6, <3>8, FinishIs
    <3>10. Touched(h, r.heap, {o, p1, p2})
      <4>1. {o} \subseteq {o, p1, p2}
        OBVIOUS
      <4> QED BY <3>8, <3>9, <4>1, TouchedTwice DEF Finishes
    <3>11. /\ m.heap.obj[o].units = from /\ m.heap.obj[o].status = "good"
           /\ m.ret = 0 => /\ x.numbers = from => m.heap.obj[o].numbers = to
                           /\ m.heap.obj[p1].units = to /\ m.heap.obj[p2].units = to
           /\ \A p \in Objs \ {o} : GoodAt(h, p) => GoodAt(m.heap, p)
      BY <3>1, <3>7 DEF ConvertsParams, from
    <3>12. /\ r.ret \in Int
           /\ r.ret = 0 => m.ret = 0 /\ r.heap.obj[o].units = to
           /\ r.ret # 0 => r.heap.obj[o].status # "good"
           /\ r.heap.obj[o].numbers = m.heap.obj[o].numbers
           /\ \A p \in Objs \ {o} : r.heap.obj[p] = m.heap.obj[p]
      BY <3>9 DEF Finishes, Touched
    <3>13. ASSUME NEW p \in Objs, GoodAt(h, p)
           PROVE  GoodAt(r.heap, p)
      <4>1. CASE p = o
        <5>1. x.numbers = from
          BY <3>1, <3>13, <4>1 DEF GoodAt, from
        <5> QED BY <3>11, <3>12, <4>1, <5>1 DEF GoodAt
      <4>2. CASE p # o
        BY <3>11, <3>12, <3>13, <4>2 DEF GoodAt, Live
      <4> QED BY <4>1, <4>2
    <3>14. Together(r.heap, o)
      <4>1. r.heap.obj[o].part = <<p1, p2>>
        BY <3>4, <3>10 DEF Touched, Worked
      <4>2. CASE r.ret # 0
        BY <3>12, <4>2 DEF Together
      <4>3. CASE r.ret = 0
        <5>1. r.heap.obj[o].units = to /\ r.heap.obj[p1].units = to /\ r.heap.obj[p2].units = to
          BY <3>3, <3>11, <3>12, <4>3
        <5> QED BY <4>1, <5>1 DEF Together
      <4> QED BY <4>2, <4>3
    <3> QED BY <3>10, <3>12, <3>13, <3>14 DEF Converts, p1, p2
  <2> QED BY <2>2, <2>3
<1> QED BY <1>2, <1>3, <1>4, <1>5

-----------------------------------------------------------------------------
(* Making and initialising a simple object.                                    *)

\* k is h with other units, numbers and status of o.
Rewritten(h, k, o) == Worked(h, k) /\ \A p \in Objs \ {o} : k.obj[p] = h.obj[p]

LEMMA RewrittenTwice ==
  ASSUME NEW h, NEW k, NEW l, NEW o, Rewritten(h, k, o), Rewritten(k, l, o)
  PROVE  Rewritten(h, l, o)
BY DEF Rewritten, Worked

LEMMA RewrittenCounts ==
  ASSUME NEW h, NEW e, Sound(h, e), NEW o \in Objs, Live(h, o), NEW k, Rewritten(h, k, o),
         k.obj[o].status = "good" /\ IsComposite(k.obj[o].name) =>
           k.obj[o].part[1] # NULL /\ k.obj[o].part[2] # NULL
  PROVE  Sound(k, e)
<1>1. Whole(k)
  BY DEF Whole, Rewritten, Worked, Sound, Shape
<1> QED BY <1>1, WorkedCounts DEF Rewritten

LEMMA PutRewrites ==
  ASSUME NEW h \in Heap, NEW o \in Objs, Live(h, o), NEW y \in Object, NEW k, k = Put(h, o, y),
         y.name = h.obj[o].name, y.ref = h.obj[o].ref, y.part = h.obj[o].part
  PROVE  Rewritten(h, k, o) /\ k.obj[o] = y /\ Live(k, o)
<1>1. y \in Object \cup {FREE}
  OBVIOUS
<1>2. k \in Heap /\ k.cache = h.cache /\ k.obj[o] = y /\ \A p \in Objs \ {o} : k.obj[p] = h.obj[p]
  BY <1>1, PutIs
<1> QED BY <1>2, FreeAssumption DEF Rewritten, Worked, Live

SetsUnits(h, o, r) ==
  /\ Rewritten(h, r.heap, o) /\ r.ret \in {0, 1}
  /\ r.heap.obj[o].status = "bad"

LEMMA SetUnitsIs ==
  ASSUME NEW h \in Heap, NEW o \in Objs, Live(h, o), NEW r, r = SetUnits(h, o, h.obj[o].name)
  PROVE  SetsUnits(h, o, r)
<1> DEFINE x == h.obj[o]
           u == IF UnitsOf[x.name] \in KnownUnits \cup {NULL} THEN UnitsOf[x.name] ELSE NULL
           y == [x EXCEPT !.name = x.name, !.status = "bad", !.units = u]
<1>1. x \in Object /\ u \in KnownUnits \cup {NULL}
  BY TypedObject
<1>2. r.ret \in {0, 1}
  BY DEF SetUnits, Returns
<1> HIDE DEF u
<1>3. /\ y \in Object /\ y.name = x.name /\ y.ref = x.ref /\ y.part = x.part
      /\ y.status = "bad"
  BY <1>1 DEF Object, Statuses
<1>4. r.heap = Put(h, o, y)
  <2>1. r.heap = [h EXCEPT !.obj[o].name = x.name, !.obj[o].status = "bad", !.obj[o].units = u]
    BY DEF SetUnits, Returns, u
  <2>2. h.obj \in [Objs -> Object \cup {FREE}]
    BY DEF Heap
  <2> QED BY <1>1, <2>1, <2>2 DEF Put, Heap
<1> HIDE DEF y
<1>5. Rewritten(h, r.heap, o) /\ r.heap.obj[o] = y
  BY <1>3, <1>4, PutRewrites
<1> QED BY <1>2, <1>3, <1>5 DEF SetsUnits

\* The last step of an initialisation: good, in the units the object has, when
\* everything before it succeeded.
SetsRefState(r, o, m) ==
  /\ Rewritten(r.heap, m.heap, o) /\ m.ret \in Int
  /\ m.heap.obj[o].units = r.heap.obj[o].units
  /\ \/ m.heap.obj[o] = r.heap.obj[o]
     \/ m.heap.obj[o].status # "good"
     \/ r.ret = 0 /\ m.heap.obj[o].numbers = m.heap.obj[o].units

LEMMA SetRefStateIs ==
  ASSUME NEW r, r.heap \in Heap, r.ret \in Int, NEW o \in Objs, Live(r.heap, o), NEW b,
         NEW m, m = SetRefState(r, o, b)
  PROVE  SetsRefState(r, o, m)
<1> DEFINE h == r.heap
           x == h.obj[o]
           y == [x EXCEPT !.status = "bad"]
           z == [x EXCEPT !.status = "good", !.numbers = x.units]
<1>1. x \in Object
  BY TypedObject
<1>2. /\ y \in Object /\ y.name = x.name /\ y.ref = x.ref /\ y.part = x.part
      /\ y.status # "good" /\ y.units = x.units
  BY <1>1 DEF Object, Statuses
<1>3. /\ z \in Object /\ z.name = x.name /\ z.ref = x.ref /\ z.part = x.part
      /\ z.numbers = z.units /\ z.units = x.units
  BY <1>1 DEF Object, Statuses
<1>4. CASE r.ret # 0
  BY <1>4 DEF SetRefState, SetsRefState, Rewritten, Worked
<1>5. CASE r.ret = 0 /\ b \in NoRefState
  <2>1. m.heap = Put(h, o, y) /\ m.ret = 1
    BY <1>5 DEF SetRefState, Returns
  <2> HIDE DEF y
  <2>2. Rewritten(h, m.heap, o) /\ m.heap.obj[o] = y
    BY <1>2, <2>1, PutRewrites
  <2> QED BY <1>2, <2>1, <2>2 DEF SetsRefState
<1>6. CASE r.ret = 0 /\ b \notin NoRefState
  <2>1. m.heap = Put(h, o, z) /\ m.ret = 0
    BY <1>6 DEF SetRefState, Returns
  <2> HIDE DEF z
  <2>2. Rewritten(h, m.heap, o) /\ m.heap.obj[o] = z
    BY <1>3, <2>1, PutRewrites
  <2> QED BY <1>3, <1>6, <2>1, <2>2 DEF SetsRefState
<1> QED BY <1>4, <1>5, <1>6

LEMMA InitSimpleIs ==
  ASSUME NEW h, NEW r, NEW o \in Objs, Live(h, o), SetsUnits(h, o, r), NEW b,
         NEW m, m = InitSimple(r, o, b)
  PROVE  Rewritten(h, m.heap, o) /\ m.ret \in Int /\ GoodAt(m.heap, o)
<1> DEFINE y == [r.heap.obj[o] EXCEPT !.status = "abort", !.numbers = UNSET]
<1>1. Rewritten(h, r.heap, o) /\ r.ret \in Int /\ r.heap.obj[o].status = "bad"
      /\ r.heap \in Heap /\ Live(r.heap, o)
  BY DEF SetsUnits, Rewritten, Worked
<1>2. /\ y \in Object /\ y.name = r.heap.obj[o].name /\ y.ref = r.heap.obj[o].ref
      /\ y.part = r.heap.obj[o].part /\ y.status = "abort"
  <2>1. r.heap.obj[o] \in Object
    BY <1>1, TypedObject
  <2> QED BY <2>1 DEF Object, Statuses
<1>3. CASE r.ret # 0
  <2>1. m = r
    BY <1>3 DEF InitSimple
  <2> QED BY <1>1, <2>1 DEF GoodAt
<1>4. CASE r.ret = 0
  <2>1. PICK k : k = Put(r.heap, o, y)
    OBVIOUS
  <2>2. PICK n : n = Returns(k, IF b \in Unparsed THEN 1 ELSE 0)
    OBVIOUS
  <2>3. m = SetRefState(n, o, b)
    BY <1>4, <2>1, <2>2 DEF InitSimple
  <2> HIDE DEF y
  <2>4. Rewritten(r.heap, k, o) /\ k.obj[o] = y /\ Live(k, o)
    BY <1>1, <1>2, <2>1, PutRewrites
  <2>5. n.heap = k /\ n.ret \in Int
    BY <2>2 DEF Returns
  <2>6. n.heap \in Heap /\ Live(n.heap, o)
    BY <2>4, <2>5 DEF Rewritten, Worked
  <2>7. SetsRefState(n, o, m)
    BY <2>3, <2>5, <2>6, SetRefStateIs
  <2>8. Rewritten(k, m.heap, o) /\ m.ret \in Int
    BY <2>5, <2>7 DEF SetsRefState
  <2>9. Rewritten(h, m.heap, o)
    BY <1>1, <2>4, <2>8, RewrittenTwice
  <2>10. GoodAt(m.heap, o)
    BY <1>2, <2>4, <2>5, <2>7 DEF SetsRefState, GoodAt
  <2> QED BY <2>8, <2>9, <2>10
<1> QED BY <1>1, <1>3, <1>4 DEF SetsUnits

LEMMA ConstructIs ==
  ASSUME NEW b \in Blocks
  PROVE  /\ Construct(b) \in Object /\ Construct(b).name = b /\ Construct(b).ref = 1
         /\ Construct(b).part = <<NULL, NULL>> /\ Construct(b).status = "bad"
BY DEF Construct, Object, Statuses

\* f.obj is a new simple object of block b that only the caller refers to, or
\* NULL; no other object has changed.
Makes(h, e, b, f) ==
  /\ f.heap.cache = h.cache /\ \A p \in Objs \ {f.obj} : f.heap.obj[p] = h.obj[p]
  /\ \/ f.obj = NULL /\ Sound(f.heap, e)
     \/ /\ f.obj \in Objs /\ ~Live(h, f.obj) /\ Sound(f.heap, Inc(e, f.obj))
        /\ f.heap.obj[f.obj].name = b /\ GoodAt(f.heap, f.obj)

LEMMA NewSimpleIs ==
  ASSUME NEW h, NEW e, Sound(h, e), NEW b \in Blocks, ~IsComposite(b),
         \E o \in Objs : ~Live(h, o), NEW f, f = NewSimple(h, b)
  PROVE  Makes(h, e, b, f)
<1>1. PICK o : o = FreeSlot(h)
  OBVIOUS
<1>2. o \in Objs /\ ~Live(h, o)
  BY <1>1 DEF FreeSlot
<1>3. PICK h1 : h1 = Put(h, o, Construct(b))
  OBVIOUS
<1>4. PICK r : r = SetUnits(h1, o, b)
  OBVIOUS
<1>5. PICK m : m = InitSimple(r, o, b)
  OBVIOUS
<1>6. f = Constructed(m, o)
  BY <1>1, <1>3, <1>4, <1>5 DEF NewSimple, InitializeSimple
<1>7. h \in Heap /\ e \in [Objs -> Nat] /\ o # NULL /\ Construct(b) \in Object \cup {FREE}
  BY <1>2, NullAssumption, ConstructIs DEF Sound
<1>8. /\ h1 \in Heap /\ h1.cache = h.cache /\ h1.obj[o] = Construct(b)
      /\ \A p \in Objs \ {o} : h1.obj[p] = h.obj[p]
  BY <1>2, <1>3, <1>7, PutIs
<1>9. Live(h1, o) /\ h1.obj[o].name = b /\ h1.obj[o].ref = 1 /\ h1.obj[o].part = <<NULL, NULL>>
  BY <1>8, ConstructIs, FreeAssumption DEF Live
<1>10. Sound(h1, Inc(e, o))
  <2>1. \A y \in Object : y = Construct(b) => y.ref = 1 /\ y.part = <<NULL, NULL>> /\ y.status # "good"
    BY ConstructIs
  <2>2. PICK y \in Object : y = Construct(b)
    BY ConstructIs
  <2>3. y.ref = 1 /\ y.part = <<NULL, NULL>> /\ y.status # "good" /\ h1 = Put(h, o, y)
    BY <1>3, <2>1, <2>2
  <2> QED BY <1>2, <2>3, MadeCounts
<1>11. SetsUnits(h1, o, r)
  BY <1>2, <1>4, <1>8, <1>9, SetUnitsIs
<1>12. Rewritten(h1, m.heap, o) /\ m.ret \in Int /\ GoodAt(m.heap, o)
  BY <1>2, <1>5, <1>9, <1>11, InitSimpleIs
<1>13. /\ m.heap.obj[o].name = b /\ m.heap.obj[o].ref = 1 /\ m.heap.obj[o].part = <<NULL, NULL>>
       /\ m.heap.cache = h.cache /\ \A p \in Objs \ {o} : m.heap.obj[p] = h.obj[p]
  BY <1>2, <1>8, <1>9, <1>12 DEF Rewritten, Worked
<1>14. Sound(m.heap, Inc(e, o))
  BY <1>2, <1>9, <1>10, <1>12, <1>13, RewrittenCounts
<1>15. CASE m.ret = 0
  <2>1. f.heap = m.heap /\ f.obj = o
    BY <1>6, <1>15 DEF Constructed
  <2> QED BY <1>2, <1>12, <1>13, <1>14, <2>1 DEF Makes
<1>16. CASE m.ret # 0
  <2>1. f.heap = Release(m.heap, o) /\ f.obj = NULL
    BY <1>6, <1>16 DEF Constructed
  <2>2. Inc(e, o)[o] > 0 /\ Dec(Inc(e, o), o) = e
    BY <1>2, <1>7, IncType, IncDec
  <2>3. Sound(f.heap, e)
    BY <1>2, <1>14, <2>1, <2>2, ReleaseCounts
  <2>4. f.heap = Put(m.heap, o, FREE)
    BY <1>13, <2>1 DEF Release, Drop, DropPart
  <2>5. m.heap \in Heap
    BY <1>14 DEF Sound
  <2>6. /\ f.heap.cache = m.heap.cache /\ f.heap.obj[o] = FREE
        /\ \A p \in Objs \ {o} : f.heap.obj[p] = m.heap.obj[p]
    BY <1>2, <2>4, <2>5, PutIs
  <2>7. h.obj[o] = FREE
    BY <1>2 DEF Live
  <2> QED BY <1>13, <2>1, <2>3, <2>6, <2>7 DEF Makes
<1> QED BY <1>15, <1>16

-----------------------------------------------------------------------------
(* What work on an object o does to the other objects and the cache.           *)

\* Only the callers refer to p, e[p] times.
Private(h, e, p) == Live(h, p) /\ h.obj[p].ref <= e[p]

LEMMA PrivateIs ==
  ASSUME NEW h, NEW e, Sound(h, e), NEW p \in Objs, Private(h, e, p)
  PROVE  /\ \A b \in Blocks : h.cache[b] # p
         /\ \A o \in Objs, i \in {1, 2} : Live(h, o) => h.obj[o].part[i] # p
<1>1. e[p] \in Nat /\ h.obj[p].ref \in Nat /\ h.obj[p].ref > 0 /\ h.obj[p].ref <= e[p]
  BY TypedObject DEF Sound, Counted, Private
<1>2. e[p] > 0
  BY <1>1
<1>3. h.obj[p].ref >= e[p]
  BY <1>2, OnlyRef
<1>4. h.obj[p].ref = e[p]
  BY <1>1, <1>3
<1> QED BY <1>2, <1>4, OnlyRef

LEMMA PartNotPrivate ==
  ASSUME NEW h, NEW e, Sound(h, e), NEW o \in Objs, NEW i \in {1, 2}, Live(h, o),
         NEW p \in Objs, h.obj[o].part[i] = p
  PROVE  ~Private(h, e, p)
<1>1. Private(h, e, p) => \A u \in Objs, j \in {1, 2} : Live(h, u) => h.obj[u].part[j] # p
  BY PrivateIs
<1> QED BY <1>1

LEMMA PairExcept ==
  ASSUME NEW S, NEW p \in S \X S, NEW i \in {1, 2}, NEW q \in S, NEW w, w = [p EXCEPT ![i] = q]
  PROVE  w \in S \X S /\ \A j \in {1, 2} : w[j] = IF j = i THEN q ELSE p[j]
<1>1. PICK a \in S, b \in S : p = <<a, b>>
  OBVIOUS
<1>2. CASE i = 1
  <2>1. w = <<q, b>>
    BY <1>1, <1>2
  <2> QED BY <1>1, <1>2, <2>1
<1>3. CASE i = 2
  <2>1. w = <<a, q>>
    BY <1>1, <1>3
  <2> QED BY <1>1, <1>3, <2>1
<1> QED BY <1>2, <1>3

\* The data base gets new objects, made from the blocks B, in its cache; but for
\* o, private objects and objects of other blocks stay as they are, and no
\* object ceases to be good.
Works(h, k, e, o, B) ==
  /\ \A c \in Blocks : k.cache[c] # h.cache[c] =>
       h.cache[c] = NULL /\ c \in B /\ k.cache[c] \in Objs /\ e[k.cache[c]] = 0
  /\ \A p \in Objs \ {o} : Private(h, e, p) => k.obj[p] = h.obj[p]
  /\ \A p \in Objs \ {o} : Live(k, p) /\ k.obj[p].name \notin B =>
       Live(h, p) /\ SameFace(k.obj[p], h.obj[p])
  /\ \A p \in Objs \ {o} : GoodAt(h, p) => GoodAt(k, p)

\* e counts no more references than d.
AtMost(e, d) == e \in [Objs -> Nat] /\ d \in [Objs -> Nat] /\ \A p \in Objs : e[p] <= d[p]

LEMMA AtMostInc ==
  ASSUME NEW e \in [Objs -> Nat], NEW q \in Objs \cup {NULL}
  PROVE  AtMost(e, e) /\ AtMost(e, Inc(e, q))
<1>1. Inc(e, q) \in [Objs -> Nat] /\ \A p \in Objs : Inc(e, q)[p] = e[p] + (IF p = q THEN 1 ELSE 0)
  BY IncType
<1>2. \A p \in Objs : e[p] \in Nat
  OBVIOUS
<1> QED BY <1>1, <1>2 DEF AtMost

LEMMA WorksTwice ==
  ASSUME NEW h, NEW k, NEW l, NEW e, NEW d, NEW o, NEW B, h \in Heap, AtMost(e, d),
         Works(h, k, e, o, B), Works(k, l, d, o, B)
  PROVE  Works(h, l, e, o, B)
<1>1. ASSUME NEW c \in Blocks, l.cache[c] # h.cache[c]
      PROVE  h.cache[c] = NULL /\ c \in B /\ l.cache[c] \in Objs /\ e[l.cache[c]] = 0
  <2>1. CASE l.cache[c] = k.cache[c]
    BY <1>1, <2>1 DEF Works
  <2>2. CASE l.cache[c] # k.cache[c]
    <3>1. k.cache[c] = NULL /\ c \in B /\ l.cache[c] \in Objs /\ d[l.cache[c]] = 0
      BY <2>2 DEF Works
    <3>2. e[l.cache[c]] = 0
      <4>1. e[l.cache[c]] \in Nat /\ e[l.cache[c]] <= d[l.cache[c]]
        BY <3>1 DEF AtMost
      <4> QED BY <3>1, <4>1
    <3>3. k.cache[c] = h.cache[c]
      BY <3>1, NullAssumption DEF Works
    <3> QED BY <3>1, <3>2, <3>3
  <2> QED BY <2>1, <2>2
<1>2. ASSUME NEW p \in Objs \ {o}, Private(h, e, p)
      PROVE  l.obj[p] = h.obj[p]
  <2>1. k.obj[p] = h.obj[p]
    BY <1>2 DEF Works
  <2>2. Private(k, d, p)
    <3>1. h.obj[p].ref \in Nat /\ e[p] \in Nat /\ d[p] \in Nat /\ e[p] <= d[p]
      BY <1>2, TypedObject DEF AtMost, Private
    <3>2. h.obj[p].ref <= d[p]
      BY <1>2, <3>1 DEF Private
    <3> QED BY <1>2, <2>1, <3>2 DEF Private, Live
  <2> QED BY <2>1, <2>2 DEF Works
<1>3. ASSUME NEW p \in Objs \ {o}, Live(l, p), l.obj[p].name \notin B
      PROVE  Live(h, p) /\ SameFace(l.obj[p], h.obj[p])
  BY <1>3 DEF Works, SameFace
<1>4. \A p \in Objs \ {o} : GoodAt(h, p) => GoodAt(l, p)
  BY DEF Works
<1> QED BY <1>1, <1>2, <1>3, <1>4 DEF Works

\* Nothing but o changes.
LEMMA WorksOn ==
  ASSUME NEW h, NEW k, NEW e, NEW o, NEW B, k.cache = h.cache,
         \A p \in Objs \ {o} : k.obj[p] = h.obj[p]
  PROVE  Works(h, k, e, o, B)
BY DEF Works, Live, SameFace, GoodAt

\* o or its components are converted.
LEMMA WorksTouched ==
  ASSUME NEW h, NEW k, NEW e, NEW o \in Objs, NEW B, Sound(h, e), Live(h, o),
         Touched(h, k, {o, h.obj[o].part[1], h.obj[o].part[2]}),
         \A p \in Objs : GoodAt(h, p) => GoodAt(k, p),
         \A i \in {1, 2} : PartsOf[h.obj[o].name][i] \in B
  PROVE  Works(h, k, e, o, B)
<1>1. h \in Heap /\ Shape(h) /\ k.cache = h.cache
  BY DEF Sound, Touched, Worked
<1>2. ASSUME NEW p \in Objs \ {o}, Private(h, e, p)
      PROVE  k.obj[p] = h.obj[p]
  BY <1>2, PrivateIs DEF Touched
<1>3. ASSUME NEW p \in Objs \ {o}, Live(k, p), k.obj[p].name \notin B
      PROVE  Live(h, p) /\ SameFace(k.obj[p], h.obj[p])
  <2>1. Live(h, p) /\ k.obj[p].name = h.obj[p].name
    BY <1>3 DEF Touched, Worked
  <2>2. p # NULL
    BY NullAssumption
  <2>3. p # h.obj[o].part[1] /\ p # h.obj[o].part[2]
    BY <1>1, <1>3, <2>1, <2>2, PartIsSimple
  <2>4. k.obj[p] = h.obj[p]
    BY <2>3 DEF Touched
  <2> QED BY <2>1, <2>4 DEF SameFace
<1> QED BY <1>1, <1>2, <1>3 DEF Works

\* The caller gives up its reference to q.
LEMMA WorksMilder ==
  ASSUME NEW h, NEW k, NEW e, NEW d, NEW q \in Objs \cup {NULL}, Milder(h, k, {q}),
         AtMost(e, d), Sound(h, Inc(d, q)), NEW o, NEW B
  PROVE  Works(h, k, e, o, B)
<1>1. ASSUME NEW p \in Objs \ {o}, Private(h, e, p)
      PROVE  k.obj[p] = h.obj[p]
  <2>1. CASE p = q
    <3>1. h.obj[p].ref \in Nat /\ e[p] \in Nat /\ d[p] \in Nat /\ e[p] <= d[p]
          /\ Inc(d, q)[p] = d[p] + 1 /\ h.obj[p].ref <= e[p]
      BY <1>1, <2>1, TypedObject, IncType DEF AtMost, Private, Sound
    <3>2. Inc(d, q)[p] > 0
      BY <3>1
    <3>3. h.obj[p].ref >= Inc(d, q)[p]
      BY <3>2, OnlyRef
    <3> QED BY <3>1, <3>3
  <2>2. CASE p # q
    BY <2>2 DEF Milder
  <2> QED BY <2>1, <2>2
<1>2. k.cache = h.cache
  BY DEF Milder
<1>3. \A p \in Objs : Live(k, p) => Live(h, p) /\ SameFace(k.obj[p], h.obj[p])
  BY DEF Milder
<1>4. \A p \in Objs : GoodAt(h, p) => GoodAt(k, p)
  BY <1>3 DEF GoodAt, SameFace
<1> QED BY <1>1, <1>2, <1>3, <1>4 DEF Works

\* With no object excepted.
LEMMA WorksAll ==
  ASSUME NEW h, NEW k, NEW e, NEW o, NEW B, NEW C, Works(h, k, e, NULL, B), B \subseteq C
  PROVE  Works(h, k, e, o, C)
<1>1. Objs \ {NULL} = Objs
  BY NullAssumption
<1> QED BY <1>1 DEF Works

LEMMA WorksMore ==
  ASSUME NEW h, NEW k, NEW e, NEW o, NEW B, NEW C, Works(h, k, e, o, B), B \subseteq C
  PROVE  Works(h, k, e, o, C)
BY DEF Works

\* f.obj is the cached object of block c, with one more reference, or NULL.
Fetches(h, e, c, f) ==
  /\ Works(h, f.heap, e, NULL, {c})
  /\ \A p \in Objs \ {f.obj} : f.heap.obj[p] = h.obj[p]
  /\ \/ f.obj = NULL /\ Sound(f.heap, e)
     \/ /\ c \in Blocks /\ f.obj \in Objs /\ Sound(f.heap, Inc(e, f.obj))
        /\ f.heap.obj[f.obj].name = c /\ f.heap.cache[c] = f.obj
        /\ h.cache[c] = f.obj \/ (h.cache[c] = NULL /\ ~Live(h, f.obj))

LEMMA ShareIs ==
  ASSUME NEW h, NEW e \in [Objs -> Nat], NEW q \in Objs, Sound(h, Inc(e, q)),
         NEW b \in Blocks, h.cache[b] = NULL, h.obj[q].name = b,
         NEW n, n.heap = h, n.obj = q, NEW f, f = Share(n, b)
  PROVE  /\ f.obj = q /\ Sound(f.heap, Inc(e, q))
         /\ f.heap.cache = [h.cache EXCEPT ![b] = q]
         /\ \A p \in Objs \ {q} : f.heap.obj[p] = h.obj[p]
         /\ \A p \in Objs : /\ Live(f.heap, p) <=> Live(h, p)
                            /\ Live(h, p) => SameFace(f.heap.obj[p], h.obj[p])
<1>1. PICK k : k = [h EXCEPT !.cache[b] = q]
  OBVIOUS
<1>2. q # NULL /\ h \in Heap
  BY NullAssumption DEF Sound
<1>3. f.obj = q /\ f.heap = Duplicate(k, q)
  BY <1>1, <1>2 DEF Share
<1>4. Sound(k, e)
  BY <1>1, CachedCounts
<1>5. k.cache = [h.cache EXCEPT ![b] = q] /\ k.obj = h.obj
  BY <1>1, <1>2 DEF Heap
<1>6. Live(k, q)
  <2>1. Inc(e, q)[q] > 0
    BY IncType
  <2> QED BY <1>5, <2>1, OnlyRef DEF Live
<1>7. /\ Sound(f.heap, Inc(e, q)) /\ Recount(k, f.heap)
      /\ \A p \in Objs \ {q} : f.heap.obj[p] = k.obj[p]
  BY <1>3, <1>4, <1>6, DuplicateCounts
<1> QED BY <1>3, <1>5, <1>7 DEF Recount, Live

LEMMA FetchSimpleIs ==
  ASSUME NEW h, NEW e, Sound(h, e), NEW c \in Blocks \cup {NULL}, c # NULL => ~IsComposite(c),
         c # NULL /\ h.cache[c] = NULL => \E o \in Objs : ~Live(h, o),
         NEW f, f = FetchSimple(h, c)
  PROVE  Fetches(h, e, c, f)
<1>1. h \in Heap /\ e \in [Objs -> Nat] /\ Shape(h) /\ Objs \ {NULL} = Objs
  BY NullAssumption DEF Sound
<1>2. CASE c = NULL
  <2>1. f.heap = h /\ f.obj = NULL
    BY <1>2 DEF FetchSimple
  <2>2. Works(h, f.heap, e, NULL, {c})
    BY <2>1, WorksOn
  <2> QED BY <2>1, <2>2 DEF Fetches
<1>3. CASE c # NULL /\ h.cache[c] # NULL
  <2> DEFINE q == h.cache[c]
  <2>1. q \in Objs /\ c \in Blocks /\ Live(h, q) /\ h.obj[q].name = c
    BY <1>1, <1>3 DEF Heap, Shape
  <2>2. f = Share(Cached(h, c), c)
    BY <1>3 DEF FetchSimple
  <2>3. f.obj = q /\ f.heap = Duplicate([h EXCEPT !.cache[c] = q], q)
    BY <1>3, <2>2 DEF Share, Cached
  <2>4. [h EXCEPT !.cache[c] = q] = h
    <3>1. [h.cache EXCEPT ![c] = q] = h.cache
      BY <1>1, <2>1 DEF Heap
    <3>2. [h EXCEPT !.cache[c] = q] = [h EXCEPT !.cache = [h.cache EXCEPT ![c] = q]]
      BY <1>1 DEF Heap
    <3>3. [h EXCEPT !.cache = h.cache] = h
      BY <1>1 DEF Heap
    <3> QED BY <3>1, <3>2, <3>3
  <2>5. f.heap = Duplicate(h, q)
    BY <2>3, <2>4
  <2> HIDE DEF q
  <2>6. /\ Sound(f.heap, Inc(e, q)) /\ Recount(h, f.heap)
        /\ \A p \in Objs \ {q} : f.heap.obj[p] = h.obj[p]
    BY <2>1, <2>5, DuplicateCounts
  <2>7. f.heap.cache = h.cache /\ \A p \in Objs : Live(f.heap, p) =>
          Live(h, p) /\ SameFace(f.heap.obj[p], h.obj[p])
    BY <2>6 DEF Recount
  <2>8. Works(h, f.heap, e, NULL, {c})
    <3>1. ASSUME NEW p \in Objs, Private(h, e, p)
          PROVE  f.heap.obj[p] = h.obj[p]
      <4>1. p # q
        BY <2>1, <3>1, PrivateIs DEF q
      <4> QED BY <2>6, <4>1
    <3>2. \A p \in Objs : GoodAt(h, p) => GoodAt(f.heap, p)
      BY <2>7 DEF GoodAt, SameFace
    <3> QED BY <2>7, <3>1, <3>2 DEF Works
  <2>9. f.heap.obj[q].name = c
    BY <2>1, <2>6 DEF Recount, SameFace
  <2>10. f.obj = q /\ q = h.cache[c] /\ f.heap.cache[c] = q
    BY <2>3, <2>7 DEF q
  <2> QED BY <2>1, <2>6, <2>8, <2>9, <2>10 DEF Fetches
<1>4. CASE c # NULL /\ h.cache[c] = NULL
  <2>1. PICK n : n = NewSimple(h, c)
    OBVIOUS
  <2>2. f = Share(n, c)
    BY <1>4, <2>1 DEF FetchSimple
  <2>3. c \in Blocks /\ ~IsComposite(c) /\ \E o \in Objs : ~Live(h, o)
    BY <1>4
  <2>4. Makes(h, e, c, n)
    BY <2>1, <2>3, NewSimpleIs
  <2>5. CASE n.obj = NULL
    <3>1. f = n
      BY <2>2, <2>5 DEF Share
    <3>2. Sound(n.heap, e) /\ n.heap.cache = h.cache /\ \A p \in Objs : n.heap.obj[p] = h.obj[p]
      BY <1>1, <2>4, <2>5 DEF Makes
    <3>3. Works(h, n.heap, e, NULL, {c})
      BY <3>2, WorksOn
    <3> QED BY <1>1, <2>5, <3>1, <3>2, <3>3 DEF Fetches
  <2>6. CASE n.obj # NULL
    <3>1. PICK q : q = n.obj
      OBVIOUS
    <3>2. /\ n.heap.cache = h.cache /\ \A p \in Objs \ {q} : n.heap.obj[p] = h.obj[p]
          /\ q \in Objs /\ ~Live(h, q) /\ Sound(n.heap, Inc(e, q))
          /\ n.heap.obj[q].name = c /\ GoodAt(n.heap, q)
      BY <2>4, <2>6, <3>1 DEF Makes
    <3>3. /\ f.obj = q /\ Sound(f.heap, Inc(e, q))
          /\ f.heap.cache = [n.heap.cache EXCEPT ![c] = q]
          /\ \A p \in Objs \ {q} : f.heap.obj[p] = n.heap.obj[p]
          /\ \A p \in Objs : /\ Live(f.heap, p) <=> Live(n.heap, p)
                             /\ Live(n.heap, p) => SameFace(f.heap.obj[p], n.heap.obj[p])
      BY <1>1, <1>4, <2>2, <2>3, <3>1, <3>2, ShareIs
    <3>4. e[q] = 0
      BY <3>2, FreeIsUnused
    <3>5. /\ \A p \in Objs \ {q} : f.heap.obj[p] = h.obj[p]
          /\ Live(n.heap, q) /\ Live(f.heap, q) /\ SameFace(f.heap.obj[q], n.heap.obj[q])
      <4>1. Inc(e, q)[q] > 0
        BY <1>1, <3>2, IncType
      <4> QED BY <3>2, <3>3, <4>1, OnlyRef
    <3>6. f.heap.cache[c] = q /\ \A d \in Blocks \ {c} : f.heap.cache[d] = h.cache[d]
      BY <1>1, <2>3, <3>2, <3>3 DEF Heap
    <3>7. f.heap.obj[q].name = c /\ GoodAt(f.heap, q)
      BY <3>2, <3>5 DEF GoodAt, SameFace
    <3>8. Works(h, f.heap, e, NULL, {c})
      <4>1. ASSUME NEW p \in Objs, p # q
            PROVE  /\ Live(f.heap, p) => Live(h, p) /\ SameFace(f.heap.obj[p], h.obj[p])
                   /\ GoodAt(h, p) => GoodAt(f.heap, p)
        BY <3>5, <4>1 DEF GoodAt, Live, SameFace
      <4>2. \A d \in Blocks : f.heap.cache[d] # h.cache[d] => d = c
        BY <3>6
      <4>3. \A p \in Objs : Private(h, e, p) => p # q
        BY <3>2 DEF Private
      <4> QED BY <1>1, <1>4, <3>2, <3>4, <3>5, <3>6, <3>7, <4>1, <4>2, <4>3 DEF Works
    <3> QED BY <1>4, <2>3, <3>2, <3>3, <3>5, <3>6, <3>7, <3>8 DEF Fetches
  <2> QED BY <2>5, <2>6
<1> QED BY <1>2, <1>3, <1>4

\* Component i of o, of block c, is fetched and put into the units of o.  Of the
\* other objects only the component changes.
FetchesPart(h, e, o, i, c, k, n, q) ==
  /\ Sound(k, e) /\ Works(h, k, e, o, {c}) /\ n \in Int
  /\ Live(k, o) /\ k.obj[o].part[i] = q
  /\ k.obj[o].name = h.obj[o].name /\ k.obj[o].ref = h.obj[o].ref
  /\ k.obj[o].units = h.obj[o].units /\ k.obj[o].status = h.obj[o].status
  /\ \A j \in {1, 2} \ {i} : k.obj[o].part[j] = h.obj[o].part[j]
  /\ \A p \in Objs \ {o, q} : k.obj[p] = h.obj[p]
  /\ q # NULL => k.cache[c] = q /\ (h.cache[c] # NULL => h.cache[c] = q)
  /\ n = 0 => q # NULL /\ (h.obj[o].units # NULL => k.obj[q].units = h.obj[o].units)

LEMMA FetchesPartBy ==
  ASSUME NEW h, NEW e, NEW o \in Objs, NEW i, NEW c, NEW k, NEW n \in Int, NEW q,
         Sound(k, e), Works(h, k, e, o, {c}), Live(k, o),
         k.obj[o].name = h.obj[o].name, k.obj[o].ref = h.obj[o].ref, k.obj[o].status = h.obj[o].status,
         k.obj[o].units = h.obj[o].units, k.obj[o].part[i] = q,
         \A j \in {1, 2} \ {i} : k.obj[o].part[j] = h.obj[o].part[j],
         \A p \in Objs \ {o, q} : k.obj[p] = h.obj[p],
         k.cache[c] = q, h.cache[c] # NULL => h.cache[c] = q, q # NULL,
         n = 0 /\ h.obj[o].units # NULL => k.obj[q].units = h.obj[o].units
  PROVE  FetchesPart(h, e, o, i, c, k, n, q)
BY DEF FetchesPart

LEMMA FetchPartIs ==
  ASSUME NEW h, NEW e, Sound(h, e), NEW o \in Objs, Live(h, o), IsComposite(h.obj[o].name),
         NEW i \in {1, 2}, h.obj[o].part[i] = NULL, NEW c, c = PartsOf[h.obj[o].name][i],
         c # NULL /\ h.cache[c] = NULL => \E p \in Objs : ~Live(h, p),
         NEW r, r.ret = 0, r.heap = h, NEW m, m = FetchPart(r, o, i, c)
  PROVE  \E q : FetchesPart(h, e, o, i, c, m.heap, m.ret, q)
<1>1. h \in Heap /\ e \in [Objs -> Nat] /\ Shape(h) /\ h.obj[o].name \in Blocks
  BY TypedObject DEF Sound
<1>2. c \in Blocks \cup {NULL} /\ (c # NULL => ~IsComposite(c)) /\ c # h.obj[o].name
  <2>1. c \in Blocks \cup {NULL}
    BY <1>1, BlocksAssumption
  <2>2. c # NULL => ~IsComposite(c)
    BY <1>1, BlocksAssumption DEF IsComposite
  <2> QED BY <1>1, <2>1, <2>2, NullAssumption
<1>3. PICK f : f = FetchSimple(h, c)
  OBVIOUS
<1>4. PICK s : s = SetPart(f, o, i)
  OBVIOUS
<1>5. m = MatchPart(s, o)
  BY <1>3, <1>4 DEF FetchPart
<1>6. Fetches(h, e, c, f)
  BY <1>1, <1>2, <1>3, FetchSimpleIs
<1>7. f.obj # o /\ f.heap.obj[o] = h.obj[o] /\ Live(f.heap, o) /\ f.heap \in Heap
  <2>1. CASE f.obj = NULL
    BY <1>6, <2>1, NullAssumption DEF Fetches, Live, Sound
  <2>2. CASE f.obj # NULL
    <3>1. c \in Blocks /\ (h.cache[c] = f.obj \/ ~Live(h, f.obj)) /\ f.heap \in Heap
      BY <1>6, <2>2 DEF Fetches, Sound
    <3>2. f.obj # o
      BY <1>1, <1>2, <2>2, <3>1 DEF Shape
    <3> QED BY <1>6, <3>1, <3>2 DEF Fetches, Live
  <2> QED BY <2>1, <2>2
<1>8. CASE f.obj = NULL
  <2>1. s.heap = f.heap /\ s.obj = NULL
    <3> DEFINE k == f.heap
    <3>1. s.heap = [k EXCEPT !.obj[o].part[i] = NULL] /\ s.obj = NULL
      BY <1>4, <1>8 DEF SetPart
    <3>2. [k EXCEPT !.obj[o].part[i] = NULL] = k
      <4>1. k.obj \in [Objs -> Object \cup {FREE}] /\ k.obj[o] \in Object
        BY <1>7, TypedObject DEF Heap
      <4>2. [k.obj[o].part EXCEPT ![i] = NULL] = k.obj[o].part
        BY <1>7, <4>1 DEF Object
      <4>3. [k.obj[o] EXCEPT !.part = k.obj[o].part] = k.obj[o]
        BY <4>1 DEF Object
      <4>4. [k.obj EXCEPT ![o] = k.obj[o]] = k.obj
        BY <4>1
      <4>5. [k EXCEPT !.obj = k.obj] = k
        BY <1>7 DEF Heap
      <4>6. [k EXCEPT !.obj[o].part[i] = NULL] =
              [k EXCEPT !.obj = [k.obj EXCEPT ![o] =
                 [k.obj[o] EXCEPT !.part = [k.obj[o].part EXCEPT ![i] = NULL]]]]
        OBVIOUS
      <4> QED BY <4>2, <4>3, <4>4, <4>5, <4>6
    <3> QED BY <3>1, <3>2
  <2>2. m.heap = f.heap /\ m.ret = 1
    BY <1>5, <2>1 DEF MatchPart, Returns
  <2>3. Sound(m.heap, e) /\ \A p \in Objs : m.heap.obj[p] = h.obj[p]
    BY <1>6, <1>8, <2>2, NullAssumption DEF Fetches
  <2>4. Works(h, m.heap, e, o, {c})
    BY <1>6, <2>2, WorksAll DEF Fetches
  <2>5. m.heap.obj[o] = h.obj[o]
    BY <2>3
  <2>6. FetchesPart(h, e, o, i, c, m.heap, m.ret, NULL)
    BY <1>7, <2>2, <2>3, <2>4, <2>5 DEF FetchesPart
  <2> QED BY <2>6
<1>9. CASE f.obj # NULL
  <2>1. PICK q : q = f.obj
    OBVIOUS
  <2>0. PICK x : x = h.obj[o]
    OBVIOUS
  <2> DEFINE y == [x EXCEPT !.part = [@ EXCEPT ![i] = q]]
  <2>2. /\ c \in Blocks /\ q \in Objs \ {o} /\ Sound(f.heap, Inc(e, q))
        /\ f.heap.obj[q].name = c /\ f.heap.cache[c] = q
        /\ h.cache[c] = q \/ (h.cache[c] = NULL /\ ~Live(h, q))
        /\ \A p \in Objs \ {q} : f.heap.obj[p] = h.obj[p]
    BY <1>6, <1>7, <1>9, <2>1 DEF Fetches
  <2>3. s.heap = Put(f.heap, o, y) /\ s.obj = q
    BY <1>4, <1>7, <2>0, <2>1 DEF SetPart, Put, Heap
  <2>4. /\ y \in Object /\ y.name = x.name /\ y.ref = x.ref /\ y.status = x.status
        /\ y.units = x.units /\ \A j \in {1, 2} : y.part[j] = IF j = i THEN q ELSE x.part[j]
    <3>1. x \in Object /\ x.part \in (Objs \cup {NULL}) \X (Objs \cup {NULL})
      BY <1>1, <2>0, TypedObject
    <3>2. PICK w : w = [x.part EXCEPT ![i] = q]
      OBVIOUS
    <3>3. w \in (Objs \cup {NULL}) \X (Objs \cup {NULL})
          /\ \A j \in {1, 2} : w[j] = IF j = i THEN q ELSE x.part[j]
      <4>1. q \in Objs \cup {NULL}
        BY <2>2
      <4> HIDE DEF y
      <4> QED BY <3>1, <3>2, <4>1, PairExcept
    <3>4. y = [x EXCEPT !.part = w]
      BY <3>2
    <3> HIDE DEF y
    <3> QED BY <3>1, <3>3, <3>4 DEF Object
  <2> HIDE DEF y
  <2>5. PICK k : k = Put(f.heap, o, y)
    OBVIOUS
  <2>6. /\ k \in Heap /\ k.cache = f.heap.cache /\ k.obj[o] = y
        /\ \A p \in Objs \ {o} : k.obj[p] = f.heap.obj[p]
    <3>1. y \in Object \cup {FREE}
      BY <2>4
    <3> QED BY <1>7, <2>5, <3>1, PutIs
  <2>7. Sound(k, e)
    <3>1. /\ IsComposite(f.heap.obj[o].name) /\ f.heap.obj[o].part[i] = NULL
          /\ f.heap.obj[q].name = PartsOf[f.heap.obj[o].name][i]
          /\ y \in Object /\ Attaches(f.heap.obj[o], y, i, q)
      BY <1>7, <2>0, <2>2, <2>4 DEF Attaches
    <3> QED BY <1>1, <1>7, <2>2, <2>5, <3>1, AttachedCounts
  <2>8. Live(k, o) /\ Live(k, q) /\ k.obj[q].name = c
    <3>1. Live(f.heap, q)
      <4>1. Inc(e, q)[q] > 0
        BY <1>1, <2>2, IncType
      <4> QED BY <2>2, <4>1, OnlyRef
    <3> QED BY <2>2, <2>4, <2>6, <3>1, FreeAssumption DEF Live
  <2>9. Works(h, k, e, o, {c})
    <3>1. Works(h, f.heap, e, o, {c})
      BY <1>6, WorksAll DEF Fetches
    <3>2. Works(f.heap, k, e, o, {c})
      BY <2>6, WorksOn
    <3>3. AtMost(e, e)
      BY <1>1, AtMostInc, NullAssumption
    <3> QED BY <1>1, <3>1, <3>2, <3>3, WorksTwice
  <2>10. m = IF x.units = NULL THEN Returns(k, 0) ELSE Truth(ConvertUnits(k, q, x.units), 1)
    BY <1>5, <1>9, <2>1, <2>3, <2>4, <2>5, <2>6 DEF MatchPart
  <2>11. /\ k.obj[o].name = x.name /\ k.obj[o].ref = x.ref /\ k.obj[o].status = x.status
         /\ k.obj[o].units = x.units /\ k.obj[o].part[i] = q
         /\ \A j \in {1, 2} \ {i} : k.obj[o].part[j] = x.part[j]
         /\ \A p \in Objs \ {o, q} : k.obj[p] = h.obj[p]
         /\ k.cache[c] = q /\ (h.cache[c] # NULL => h.cache[c] = q) /\ q # NULL
    BY <2>2, <2>4, <2>6, NullAssumption
  <2>12. CASE x.units = NULL
    <3>1. m.heap = k /\ m.ret = 0
      BY <2>10, <2>12 DEF Returns
    <3>2. FetchesPart(h, e, o, i, c, k, 0, q)
      <4>1. 0 \in Int /\ ~(0 = 0 /\ x.units # NULL)
        BY <2>12
      <4> QED BY <2>0, <2>7, <2>8, <2>9, <2>11, <4>1, FetchesPartBy
    <3> QED BY <3>1, <3>2
  <2>13. CASE x.units # NULL
    <3>1. PICK n : n = ConvertUnits(k, q, x.units)
      OBVIOUS
    <3>2. m.heap = n.heap /\ m.ret = IF n.ret # 0 THEN 1 ELSE 0
      BY <2>10, <2>13, <3>1 DEF Truth, Returns
    <3>3. x.units \in KnownUnits
      BY <1>1, <2>0, <2>13, TypedObject
    <3>4. Shape(k) /\ Converts(k, q, x.units, n)
      BY <2>2, <2>6, <2>7, <2>8, <3>1, <3>3, ConvertUnitsIs DEF Sound
    <3>5. k.obj[q].part[1] = NULL /\ k.obj[q].part[2] = NULL
      <4>1. ~IsComposite(k.obj[q].name)
        BY <1>2, <2>2, <2>8, NullAssumption
      <4> QED BY <2>2, <2>6, <2>8, <3>4, <4>1, SimpleHasNoParts
    <3>6. Touched(k, n.heap, {q, NULL, NULL})
      BY <3>4, <3>5 DEF Converts
    <3>7. Sound(n.heap, e)
      BY <2>7, <3>6, TouchedCounts
    <3>8. Works(k, n.heap, e, o, {c})
      <4>1. \A p \in Objs \ {q} : n.heap.obj[p] = k.obj[p]
        BY <3>6, NullAssumption DEF Touched
      <4>2. n.heap.cache = k.cache /\ n.heap.obj[q].name = c
        BY <2>2, <2>8, <3>6 DEF Touched, Worked
      <4>3. ~Private(k, e, q)
        BY <2>2, <2>7, <2>8, <2>11, PartNotPrivate
      <4>4. \A p \in Objs : GoodAt(k, p) => GoodAt(n.heap, p)
        BY <3>4 DEF Converts
      <4> QED BY <4>1, <4>2, <4>3, <4>4 DEF Works, Live, SameFace
    <3>9. Works(h, n.heap, e, o, {c})
      BY <1>1, <2>9, <3>8, AtMostInc, NullAssumption, WorksTwice
    <3>10. /\ n.heap.obj[o] = k.obj[o] /\ \A p \in Objs \ {o, q} : n.heap.obj[p] = h.obj[p]
           /\ n.heap.cache = k.cache /\ Live(n.heap, o)
      <4>1. \A p \in Objs \ {q} : n.heap.obj[p] = k.obj[p]
        BY <3>6, NullAssumption DEF Touched
      <4>2. n.heap.cache = k.cache /\ Live(n.heap, o)
        BY <2>8, <3>6 DEF Touched, Worked
      <4> QED BY <2>2, <2>11, <4>1, <4>2
    <3>11. n.ret \in Int /\ (n.ret = 0 => n.heap.obj[q].units = x.units)
      BY <3>4 DEF Converts
    <3>12. m.ret \in Int /\ (m.ret = 0 => n.ret = 0)
      BY <3>2, <3>11
    <3>13. FetchesPart(h, e, o, i, c, n.heap, m.ret, q)
      <4>1. m.ret \in Int /\ (m.ret = 0 /\ x.units # NULL => n.heap.obj[q].units = x.units)
        BY <3>11, <3>12
      <4>2. PICK l : l = n.heap
        OBVIOUS
      <4>3. /\ l.obj[o].name = h.obj[o].name /\ l.obj[o].ref = h.obj[o].ref
            /\ l.obj[o].status = h.obj[o].status /\ l.obj[o].units = h.obj[o].units
            /\ l.obj[o].part[i] = q
            /\ \A j \in {1, 2} \ {i} : l.obj[o].part[j] = h.obj[o].part[j]
        BY <2>0, <2>11, <3>10, <4>2
      <4>4. /\ \A p \in Objs \ {o, q} : l.obj[p] = h.obj[p]
            /\ l.cache[c] = q /\ (h.cache[c] # NULL => h.cache[c] = q) /\ q # NULL
            /\ Sound(l, e) /\ Works(h, l, e, o, {c}) /\ Live(l, o)
            /\ (m.ret = 0 /\ h.obj[o].units # NULL => l.obj[q].units = h.obj[o].units)
        BY <2>0, <2>11, <3>7, <3>9, <3>10, <4>1, <4>2
      <4>5. FetchesPart(h, e, o, i, c, l, m.ret, q)
        BY <4>1, <4>3, <4>4, FetchesPartBy
      <4> QED BY <4>2, <4>5
    <3> QED BY <3>2, <3>13
  <2> QED BY <2>12, <2>13
<1> QED BY <1>8, <1>9

-----------------------------------------------------------------------------
(* The components of an earlier initialisation *)

\* What deleteEOSbase leaves in a slot
Lowered(x) == IF x.ref = 1 THEN FREE ELSE [x EXCEPT !.ref = @ - 1]

\* Writing two slots of a heap, in either order
LEMMA PutPut ==
  ASSUME NEW h, h.obj \in [Objs -> Object \cup {FREE}], NEW o \in Objs, NEW q \in Objs, o # q,
         NEW y, NEW z
  PROVE  Put(Put(h, q, z), o, y) = Put(Put(h, o, y), q, z)
<1>1. [[h.obj EXCEPT ![q] = z] EXCEPT ![o] = y] = [[h.obj EXCEPT ![o] = y] EXCEPT ![q] = z]
  OBVIOUS
<1>2. Put(Put(h, q, z), o, y) = [h EXCEPT !.obj = [[h.obj EXCEPT ![q] = z] EXCEPT ![o] = y]]
  BY DEF Put
<1>3. Put(Put(h, o, y), q, z) = [h EXCEPT !.obj = [[h.obj EXCEPT ![o] = y] EXCEPT ![q] = z]]
  BY DEF Put
<1> QED BY <1>1, <1>2, <1>3

LEMMA DropIsPut ==
  ASSUME NEW h, NEW o
  PROVE  Drop(h, o) = Put(h, o, Lowered(h.obj[o]))
BY DEF Drop, Put, Lowered

\* deleteEOS of a component and a change of another object do not meet
LEMMA PutDrop ==
  ASSUME NEW h \in Heap, NEW o \in Objs, NEW q \in Objs \cup {NULL}, q # o, NEW y
  PROVE  Put(DropPart(h, q), o, y) = DropPart(Put(h, o, y), q)
<1>1. CASE q = NULL
  BY <1>1 DEF DropPart
<1>2. CASE q # NULL
  <2>1. q \in Objs
    BY <1>2
  <2>2. Put(h, o, y).obj[q] = h.obj[q]
    BY <2>1 DEF Put, Heap
  <2>3. Put(Put(h, q, Lowered(h.obj[q])), o, y) = Put(Put(h, o, y), q, Lowered(h.obj[q]))
    BY <2>1, PutPut DEF Heap
  <2>4. DropPart(h, q) = Put(h, q, Lowered(h.obj[q]))
    BY <1>2, DropIsPut DEF DropPart
  <2>5. DropPart(Put(h, o, y), q) = Put(Put(h, o, y), q, Lowered(h.obj[q]))
    BY <1>2, <2>2, DropIsPut DEF DropPart
  <2> QED BY <2>3, <2>4, <2>5
<1> QED BY <1>1, <1>2

\* InitParams of a composite that has components: they are given up
Clears(h, e, o, k) ==
  /\ Sound(k, e) /\ Works(h, k, e, o, {}) /\ k.cache = h.cache
  /\ Live(k, o) /\ k.obj[o].part = <<NULL, NULL>> /\ k.obj[o].status = "abort"
  /\ k.obj[o].name = h.obj[o].name /\ k.obj[o].ref = h.obj[o].ref
  /\ k.obj[o].units = h.obj[o].units
  /\ \A p \in Objs : Live(k, p) => Live(h, p)

LEMMA ClearIs ==
  ASSUME NEW h, NEW e, Sound(h, e), NEW o \in Objs, Live(h, o), NEW p1, NEW p2,
         p1 = h.obj[o].part[1], p2 = h.obj[o].part[2],
         NEW y, y = [h.obj[o] EXCEPT !.part = <<NULL, NULL>>, !.numbers = UNSET,
                                     !.status = "abort"],
         NEW k, k = Put(DropPart(DropPart(h, p1), p2), o, y)
  PROVE  Clears(h, e, o, k)
<1>1. h \in Heap /\ Shape(h) /\ e \in [Objs -> Nat]
  BY DEF Sound
<1>2. /\ p1 \in (Objs \cup {NULL}) \ {o} /\ p2 \in (Objs \cup {NULL}) \ {o}
      /\ p1 # NULL => ~IsComposite(h.obj[p1].name)
      /\ p2 # NULL => ~IsComposite(h.obj[p2].name)
  <2>1. p1 \in Objs \cup {NULL} /\ p2 \in Objs \cup {NULL}
    BY <1>1, TypedObject
  <2>2. p1 # NULL => p1 # o /\ ~IsComposite(h.obj[p1].name)
    BY <1>1, PartIsSimple
  <2>3. p2 # NULL => p2 # o /\ ~IsComposite(h.obj[p2].name)
    BY <1>1, PartIsSimple
  <2> QED BY <2>1, <2>2, <2>3, NullAssumption
<1>3. /\ y \in Object /\ y.name = h.obj[o].name /\ y.ref = h.obj[o].ref
      /\ y.units = h.obj[o].units /\ y.part = <<NULL, NULL>> /\ y.status = "abort"
  <2>1. h.obj[o] \in Object
    BY <1>1, TypedObject
  <2> QED BY <2>1 DEF Object, Statuses
<1>4. PICK c : c = Put(h, o, y)
  OBVIOUS
<1>5. /\ c \in Heap /\ c.cache = h.cache /\ c.obj[o] = y
      /\ \A p \in Objs \ {o} : c.obj[p] = h.obj[p]
  <2>1. y \in Object \cup {FREE}
    BY <1>3
  <2> QED BY <1>1, <1>4, <2>1, PutIs
<1>6. PICK d : d = Inc(e, p2)
  OBVIOUS
<1>7. Sound(c, Inc(d, p1)) /\ d \in [Objs -> Nat]
  <2>1. y.status # "good"
    BY <1>3
  <2> QED BY <1>1, <1>2, <1>3, <1>4, <1>6, <2>1, ClearedCounts, IncType
<1>8. PICK f : f = DropPart(c, p1)
  OBVIOUS
<1>9. Sound(f, d) /\ Milder(c, f, {p1})
  <2>1. p1 # NULL => ~IsComposite(c.obj[p1].name)
    BY <1>2, <1>5
  <2> QED BY <1>2, <1>7, <1>8, <2>1, DropPartCounts
<1>10. PICK g : g = DropPart(f, p2)
  OBVIOUS
<1>11. Sound(g, e) /\ Milder(f, g, {p2})
  <2>1. CASE p2 = NULL
    BY <1>1, <1>2, <1>6, <1>9, <1>10, <2>1, DropPartCounts
  <2>2. CASE p2 # NULL
    <3>1. p2 \in Objs /\ d[p2] > 0
      BY <1>1, <1>2, <1>6, <2>2, IncType
    <3>2. Live(f, p2)
      BY <1>9, <3>1, OnlyRef
    <3>3. f.obj[p2].name = h.obj[p2].name
      BY <1>2, <1>5, <1>9, <3>1, <3>2 DEF Milder, SameFace
    <3> QED BY <1>1, <1>2, <1>6, <1>9, <1>10, <3>3, DropPartCounts
  <2> QED BY <2>1, <2>2
<1>12. k = g
  <2>1. PICK l : l = DropPart(h, p1)
    OBVIOUS
  <2>2. f = Put(l, o, y)
    BY <1>1, <1>2, <1>4, <1>8, <2>1, PutDrop
  <2>3. l \in Heap
    <3>1. CASE p1 = NULL
      BY <1>1, <2>1, <3>1 DEF DropPart
    <3>2. CASE p1 # NULL
      <4>1. p1 \in Objs /\ Live(h, p1) /\ h.obj[p1] \in Object /\ h.obj[p1].ref \in Nat \ {0}
        <5>1. p1 \in Objs /\ Live(h, p1)
          BY <1>1, <3>2, PartIsSimple
        <5> QED BY <1>1, <5>1, TypedObject DEF Sound, Counted
      <4>2. Lowered(h.obj[p1]) \in Object \cup {FREE}
        <5>1. PICK x : x = h.obj[p1]
          OBVIOUS
        <5>2. x \in Object /\ (x.ref # 1 => x.ref - 1 \in Nat)
          BY <4>1, <5>1
        <5>3. x.ref # 1 => [x EXCEPT !.ref = @ - 1] \in Object
          BY <5>2 DEF Object
        <5> QED BY <5>1, <5>3 DEF Lowered
      <4>3. l = Put(h, p1, Lowered(h.obj[p1]))
        BY <2>1, <3>2, DropIsPut DEF DropPart
      <4> QED BY <1>1, <4>1, <4>2, <4>3, PutIs
    <3> QED BY <3>1, <3>2
  <2> QED BY <1>2, <1>10, <2>1, <2>2, <2>3, PutDrop
<1>13. Works(h, g, e, o, {})
  <2>1. Works(h, c, e, o, {})
    BY <1>5, WorksOn
  <2>2. AtMost(e, e) /\ AtMost(e, d)
    BY <1>1, <1>2, <1>6, AtMostInc
  <2>3. Works(c, f, e, o, {})
    BY <1>2, <1>7, <1>9, <2>2, WorksMilder
  <2>4. Works(f, g, e, o, {})
    BY <1>2, <1>6, <1>9, <1>11, <2>2, WorksMilder
  <2>5. Works(h, f, e, o, {})
    BY <1>1, <2>1, <2>2, <2>3, WorksTwice
  <2> QED BY <1>1, <2>2, <2>4, <2>5, WorksTwice
<1>14. /\ g.obj[o] = y /\ g.cache = h.cache
       /\ \A p \in Objs : Live(g, p) => Live(h, p)
  <2>1. g.obj[o] = y /\ g.cache = h.cache
    BY <1>2, <1>5, <1>9, <1>11 DEF Milder
  <2>2. \A p \in Objs : Live(g, p) => Live(c, p)
    BY <1>9, <1>11 DEF Milder
  <2>3. \A p \in Objs : Live(c, p) => Live(h, p)
    BY <1>5 DEF Live
  <2> QED BY <2>1, <2>2, <2>3
<1>15. Live(g, o)
  BY <1>3, <1>14, FreeAssumption DEF Live
<1> QED BY <1>3, <1>11, <1>12, <1>13, <1>14, <1>15 DEF Clears

-----------------------------------------------------------------------------
(* Both components of a composite *)

\* The slots the components of b still need are free
Wanted(h, b, i) == PartsOf[b][i] # NULL /\ h.cache[PartsOf[b][i]] = NULL
PartsRoom(h, b) ==
  \E s, t \in Objs :
    /\ Wanted(h, b, 1) => ~Live(h, s)
    /\ Wanted(h, b, 2) => ~Live(h, t)
    /\ Wanted(h, b, 1) /\ Wanted(h, b, 2) /\ PartsOf[b][1] # PartsOf[b][2] => s # t

PartBlocks(b) == {PartsOf[b][1], PartsOf[b][2]}

FetchesBoth(h, e, o, b, k, n) ==
  /\ Sound(k, e) /\ Works(h, k, e, o, PartBlocks(b)) /\ n \in Int
  /\ Live(k, o) /\ k.obj[o].name = h.obj[o].name /\ k.obj[o].ref = h.obj[o].ref
  /\ k.obj[o].units = h.obj[o].units /\ k.obj[o].status = h.obj[o].status
  /\ \A i \in {1, 2} : k.obj[o].part[i] # NULL => k.cache[PartsOf[b][i]] = k.obj[o].part[i]
  /\ n = 0 => \A i \in {1, 2} :
       /\ k.obj[o].part[i] # NULL
       /\ h.obj[o].units # NULL => k.obj[k.obj[o].part[i]].units = h.obj[o].units

\* Fetching the first component leaves room for the second
LEMMA RoomAfterPart ==
  ASSUME NEW h, NEW e, Sound(h, e), NEW o \in Objs, Live(h, o),
         NEW b, b = h.obj[o].name, PartsRoom(h, b), NEW k, NEW n, NEW q, q # NULL, FetchesPart(h, e, o, 1, PartsOf[b][1], k, n, q),
         PartsOf[b][2] # NULL, k.cache[PartsOf[b][2]] = NULL, PartsOf[b][2] \in Blocks
  PROVE  \E p \in Objs : ~Live(k, p)
<1> DEFINE c1 == PartsOf[b][1]
           c2 == PartsOf[b][2]
<1>1. k.cache[c1] = q /\ (h.cache[c1] # NULL => h.cache[c1] = q)
      /\ \A p \in Objs \ {o, q} : k.obj[p] = h.obj[p]
  BY DEF FetchesPart
<1>2. Works(h, k, e, o, {c1})
  BY DEF FetchesPart
<1>3. c1 # c2 /\ h.cache[c2] = NULL
  BY <1>1, <1>2 DEF Works
<1>4. PICK s \in Objs, t \in Objs :
        /\ Wanted(h, b, 1) => ~Live(h, s)
        /\ Wanted(h, b, 2) => ~Live(h, t)
        /\ Wanted(h, b, 1) /\ Wanted(h, b, 2) /\ PartsOf[b][1] # PartsOf[b][2] => s # t
  BY DEF PartsRoom
<1>5. ~Live(h, t)
  BY <1>3, <1>4 DEF Wanted
<1>6. CASE t # q
  BY <1>1, <1>5, <1>6 DEF Live
<1>7. CASE t = q
  <2>1. c1 \in Blocks /\ c1 # NULL
    <3>1. Sound(k, e) /\ Live(k, o) /\ k.obj[o].part[1] = q /\ k.obj[o].name = b
      BY DEF FetchesPart
    <3>2. k \in Heap /\ Shape(k)
      BY <3>1 DEF Sound
    <3>3. PartsOf[k.obj[o].name][1] \in Blocks
      BY <3>1, <3>2, PartIsSimple
    <3> QED BY <3>1, <3>3, NullAssumption
  <2>3. h.cache[c1] = NULL
    BY <1>1, <1>5, <1>7, <2>1 DEF Sound, Shape
  <2>4. ~Live(h, s) /\ s # t
    BY <1>3, <1>4, <2>1, <2>3 DEF Wanted
  <2> QED BY <1>1, <1>7, <2>4 DEF Live
<1> QED BY <1>6, <1>7

LEMMA FetchBothIs ==
  ASSUME NEW h, NEW e, Sound(h, e), NEW o \in Objs, Live(h, o),
         NEW b, b = h.obj[o].name, IsComposite(b), h.obj[o].part = <<NULL, NULL>>,
         PartsRoom(h, b), NEW r, r.ret = 0, r.heap = h,
         NEW m, m = FetchPart(FetchPart(r, o, 1, PartsOf[b][1]), o, 2, PartsOf[b][2])
  PROVE  FetchesBoth(h, e, o, b, m.heap, m.ret)
<1>1. PICK c1 : c1 = PartsOf[b][1]
  OBVIOUS
<1>2. PICK c2 : c2 = PartsOf[b][2]
  OBVIOUS
<1>3. h \in Heap /\ e \in [Objs -> Nat] /\ b \in Blocks
      /\ c1 \in Blocks \cup {NULL} /\ c2 \in Blocks \cup {NULL}
  <2>1. h \in Heap /\ e \in [Objs -> Nat] /\ b \in Blocks
    BY TypedObject DEF Sound
  <2>2. PartsOf[b] \in (Blocks \cup {NULL}) \X (Blocks \cup {NULL})
    BY <2>1, BlocksAssumption
  <2> QED BY <1>1, <1>2, <2>1, <2>2
<1>4. PICK n : n = FetchPart(r, o, 1, c1)
  OBVIOUS
<1>5. PICK q : FetchesPart(h, e, o, 1, c1, n.heap, n.ret, q)
  <2>1. c1 # NULL /\ h.cache[c1] = NULL => \E p \in Objs : ~Live(h, p)
    BY <1>1 DEF PartsRoom, Wanted
  <2>2. h.obj[o].part[1] = NULL
    OBVIOUS
  <2> QED BY <1>1, <1>4, <2>1, <2>2, FetchPartIs
<1>6. PICK g : g = n.heap
  OBVIOUS
<1>7. /\ Sound(g, e) /\ Works(h, g, e, o, {c1}) /\ n.ret \in Int
      /\ Live(g, o) /\ g.obj[o].part[1] = q /\ g.obj[o].part[2] = NULL
      /\ g.obj[o].name = b /\ g.obj[o].ref = h.obj[o].ref
      /\ g.obj[o].units = h.obj[o].units /\ g.obj[o].status = h.obj[o].status
  <2>1. 2 \in {1, 2} \ {1} /\ h.obj[o].part[2] = NULL
    OBVIOUS
  <2> QED BY <1>5, <1>6, <2>1 DEF FetchesPart
<1>8. /\ q # NULL => g.cache[c1] = q
      /\ n.ret = 0 => q # NULL /\ (h.obj[o].units # NULL => g.obj[q].units = h.obj[o].units)
  BY <1>5, <1>6 DEF FetchesPart
<1>9. m = FetchPart(n, o, 2, c2)
  BY <1>1, <1>2, <1>4
<1>10. CASE n.ret # 0
  <2>1. m = n
    BY <1>9, <1>10 DEF FetchPart
  <2>2. Works(h, g, e, o, PartBlocks(b))
    <3>1. {c1} \subseteq PartBlocks(b)
      BY <1>1 DEF PartBlocks
    <3> QED BY <1>7, <3>1, WorksMore
  <2>3. \A i \in {1, 2} : g.obj[o].part[i] # NULL => g.cache[PartsOf[b][i]] = g.obj[o].part[i]
    BY <1>1, <1>7, <1>8
  <2>4. FetchesBoth(h, e, o, b, g, n.ret)
    BY <1>7, <1>10, <2>2, <2>3 DEF FetchesBoth
  <2> QED BY <1>6, <2>1, <2>4
<1>11. CASE n.ret = 0
  <2>1. q # NULL /\ g.cache[c1] = q
    BY <1>8, <1>11
  <2>2. PICK w : FetchesPart(g, e, o, 2, c2, m.heap, m.ret, w)
    <3>1. c2 # NULL /\ g.cache[c2] = NULL => \E p \in Objs : ~Live(g, p)
      <4>1. FetchesPart(h, e, o, 1, PartsOf[b][1], g, n.ret, q)
        BY <1>1, <1>5, <1>6
      <4>2. c2 # NULL => PartsOf[b][2] # NULL /\ PartsOf[b][2] \in Blocks
        BY <1>2, <1>3
      <4>3. g.cache[c2] = NULL => g.cache[PartsOf[b][2]] = NULL
        BY <1>2
      <4> QED BY <2>1, <4>1, <4>2, <4>3, RoomAfterPart
    <3>2. c2 = PartsOf[g.obj[o].name][2] /\ IsComposite(g.obj[o].name)
      BY <1>2, <1>7
    <3> QED BY <1>6, <1>7, <1>9, <1>11, <3>1, <3>2, FetchPartIs
  <2>3. PICK k : k = m.heap
    OBVIOUS
  <2>4. /\ Sound(k, e) /\ Works(g, k, e, o, {c2}) /\ m.ret \in Int
        /\ Live(k, o) /\ k.obj[o].part[1] = q /\ k.obj[o].part[2] = w
        /\ k.obj[o].name = h.obj[o].name /\ k.obj[o].ref = h.obj[o].ref
        /\ k.obj[o].units = h.obj[o].units /\ k.obj[o].status = h.obj[o].status
        /\ \A p \in Objs \ {o, w} : k.obj[p] = g.obj[p]
    <3>1. 1 \in {1, 2} \ {2}
      OBVIOUS
    <3> QED BY <1>7, <2>2, <2>3, <3>1 DEF FetchesPart
  <2>5. /\ w # NULL => k.cache[c2] = w
        /\ m.ret = 0 => w # NULL /\ (h.obj[o].units # NULL => k.obj[w].units = h.obj[o].units)
    BY <1>7, <2>2, <2>3 DEF FetchesPart
  <2>6. Works(h, k, e, o, PartBlocks(b))
    <3>1. {c1} \subseteq PartBlocks(b) /\ {c2} \subseteq PartBlocks(b)
      BY <1>1, <1>2 DEF PartBlocks
    <3>2. Works(h, g, e, o, PartBlocks(b)) /\ Works(g, k, e, o, PartBlocks(b))
      BY <1>7, <2>4, <3>1, WorksMore
    <3>3. AtMost(e, e)
      BY <1>3, AtMostInc
    <3> QED BY <1>3, <3>2, <3>3, WorksTwice
  <2>7. c1 \in Blocks /\ q \in Objs \ {o}
    <3>1. g \in Heap /\ Shape(g)
      BY <1>7 DEF Sound
    <3>2. g.obj[o].part[1] # NULL
      BY <1>7, <2>1
    <3>3. g.obj[o].part[1] \in Objs \ {o} /\ PartsOf[g.obj[o].name][1] \in Blocks
      BY <1>7, <3>1, <3>2, PartIsSimple
    <3> QED BY <1>1, <1>7, <3>3
  <2>8. k.cache[c1] = q
    BY <2>1, <2>4, <2>7 DEF Works
  <2>9. m.ret = 0 /\ h.obj[o].units # NULL => k.obj[q].units = h.obj[o].units
    <3>1. CASE q = w
      BY <2>5, <3>1
    <3>2. CASE q # w
      BY <1>8, <1>11, <2>4, <2>7, <3>2
    <3> QED BY <3>1, <3>2
  <2>10. \A i \in {1, 2} : k.obj[o].part[i] # NULL => k.cache[PartsOf[b][i]] = k.obj[o].part[i]
    BY <1>1, <1>2, <2>4, <2>5, <2>8
  <2>11. m.ret = 0 => \A i \in {1, 2} :
           /\ k.obj[o].part[i] # NULL
           /\ h.obj[o].units # NULL => k.obj[k.obj[o].part[i]].units = h.obj[o].units
    BY <2>1, <2>4, <2>5, <2>9
  <2>12. FetchesBoth(h, e, o, b, k, m.ret)
    BY <2>4, <2>6, <2>10, <2>11 DEF FetchesBoth
  <2> QED BY <2>3, <2>12
<1> QED BY <1>10, <1>11, <1>7

-----------------------------------------------------------------------------
(* EOSbase::Initialize *)

\* Where a component of an object comes from: it was there, or the data base
\* keeps it
PartFrom(h, k, o, b, i) ==
  \/ k.obj[o].part[i] = NULL
  \/ k.obj[o].part[i] = h.obj[o].part[i]
  \/ k.obj[o].part[i] = k.cache[PartsOf[b][i]]

Initializes(h, e, o, b, k, n) ==
  /\ Sound(k, e) /\ Works(h, k, e, o, PartBlocks(b)) /\ n \in Int
  /\ Live(k, o) /\ k.obj[o].name = h.obj[o].name /\ k.obj[o].ref = h.obj[o].ref
  /\ GoodAt(k, o) /\ Together(k, o)
  /\ PartFrom(h, k, o, b, 1) /\ PartFrom(h, k, o, b, 2)

LEMMA RewrittenWorks ==
  ASSUME NEW h, NEW k, NEW o \in Objs, Rewritten(h, k, o), NEW e, NEW B
  PROVE  Works(h, k, e, o, B)
<1>1. k.cache = h.cache /\ \A p \in Objs \ {o} : k.obj[p] = h.obj[p]
  BY DEF Rewritten, Worked
<1> QED BY <1>1, WorksOn

\* An object that is not good, its parts as they were or from the cache
LEMMA NotGood ==
  ASSUME NEW k, NEW o, k.obj[o].status # "good"
  PROVE  GoodAt(k, o) /\ Together(k, o)
BY DEF GoodAt, Together

LEMMA InitSimpleInitializes ==
  ASSUME NEW h, NEW e, Sound(h, e), NEW o \in Objs, Live(h, o), NEW b, b = h.obj[o].name,
         ~IsComposite(b), NEW r, SetsUnits(h, o, r), NEW m, m = InitSimple(r, o, b)
  PROVE  Initializes(h, e, o, b, m.heap, m.ret)
<1>1. PICK k : k = m.heap
  OBVIOUS
<1>2. Rewritten(h, k, o) /\ m.ret \in Int /\ GoodAt(k, o)
  BY <1>1, InitSimpleIs
<1>3. /\ Live(k, o) /\ k.obj[o].name = b /\ k.obj[o].ref = h.obj[o].ref
      /\ k.obj[o].part = h.obj[o].part
  BY <1>2 DEF Rewritten, Worked
<1>4. Sound(k, e)
  BY <1>2, <1>3, RewrittenCounts
<1>5. Works(h, k, e, o, PartBlocks(b))
  BY <1>2, RewrittenWorks
<1>6. Together(k, o)
  BY <1>3 DEF Together
<1>7. PartFrom(h, k, o, b, 1) /\ PartFrom(h, k, o, b, 2)
  BY <1>3 DEF PartFrom
<1> QED BY <1>1, <1>2, <1>3, <1>4, <1>5, <1>6, <1>7 DEF Initializes

LEMMA FewerLiveRoom ==
  ASSUME NEW h, NEW k, NEW b, k.cache = h.cache, \A p \in Objs : Live(k, p) => Live(h, p),
         PartsRoom(h, b)
  PROVE  PartsRoom(k, b)
BY DEF PartsRoom, Wanted

LEMMA InitCompositeInitializes ==
  ASSUME NEW h, NEW e, Sound(h, e), NEW o \in Objs, Live(h, o), NEW b, b = h.obj[o].name,
         IsComposite(b), PartsRoom(h, b),
         NEW r, SetsUnits(h, o, r), NEW m, m = InitComposite(r, o, b)
  PROVE  Initializes(h, e, o, b, m.heap, m.ret)
<1>1. PICK g : g = r.heap
  OBVIOUS
<1>2. Rewritten(h, g, o) /\ r.ret \in Int /\ g.obj[o].status = "bad"
  BY <1>1 DEF SetsUnits
<1>3. /\ Live(g, o) /\ g.obj[o].name = b /\ g.obj[o].ref = h.obj[o].ref
      /\ g.obj[o].part = h.obj[o].part /\ g.cache = h.cache
      /\ \A p \in Objs : Live(g, p) => Live(h, p)
  BY <1>2 DEF Rewritten, Worked
<1>4. Sound(g, e)
  BY <1>2, <1>3, RewrittenCounts
<1>5. Works(h, g, e, o, {}) /\ Works(h, g, e, o, PartBlocks(b))
  BY <1>2, RewrittenWorks
<1>6. CASE r.ret # 0
  <2>1. m.heap = g /\ m.ret = r.ret
    BY <1>1, <1>6 DEF InitComposite
  <2>2. GoodAt(g, o) /\ Together(g, o)
    <3>1. g.obj[o].status # "good"
      BY <1>2
    <3> QED BY <3>1, NotGood
  <2>3. PartFrom(h, g, o, b, 1) /\ PartFrom(h, g, o, b, 2)
    BY <1>3 DEF PartFrom
  <2>4. Initializes(h, e, o, b, g, r.ret)
    BY <1>2, <1>3, <1>4, <1>5, <2>2, <2>3 DEF Initializes
  <2> QED BY <2>1, <2>4
<1>7. CASE r.ret = 0
  <2>1. PICK p1, p2 : p1 = g.obj[o].part[1] /\ p2 = g.obj[o].part[2]
    OBVIOUS
  <2>2. PICK y : y = [g.obj[o] EXCEPT !.part = <<NULL, NULL>>, !.numbers = UNSET,
                                      !.status = "abort"]
    OBVIOUS
  <2>3. PICK c : c = Put(DropPart(DropPart(g, p1), p2), o, y)
    OBVIOUS
  <2>4. Clears(g, e, o, c)
    BY <1>3, <1>4, <2>1, <2>2, <2>3, ClearIs
  <2>5. /\ Sound(c, e) /\ Works(g, c, e, o, {}) /\ c.cache = g.cache
        /\ Live(c, o) /\ c.obj[o].part = <<NULL, NULL>> /\ c.obj[o].status = "abort"
        /\ c.obj[o].name = b /\ c.obj[o].ref = h.obj[o].ref
        /\ \A p \in Objs : Live(c, p) => Live(h, p)
    BY <1>3, <2>4 DEF Clears
  <2>6. Works(h, c, e, o, PartBlocks(b))
    <3>1. h \in Heap /\ AtMost(e, e)
      BY AtMostInc, NullAssumption DEF Sound
    <3>2. Works(h, c, e, o, {})
      BY <1>5, <2>5, <3>1, WorksTwice
    <3> QED BY <3>2, WorksMore
  <2>7. CASE b \in Unparsed
    <3>1. m.heap = c /\ m.ret = 1
      BY <1>1, <1>7, <2>1, <2>2, <2>3, <2>7 DEF InitComposite, Returns
    <3>2. GoodAt(c, o) /\ Together(c, o)
      BY <2>5, NotGood
    <3>3. PartFrom(h, c, o, b, 1) /\ PartFrom(h, c, o, b, 2)
      BY <2>5 DEF PartFrom
    <3>4. Initializes(h, e, o, b, c, 1)
      BY <2>5, <2>6, <3>2, <3>3 DEF Initializes
    <3> QED BY <3>1, <3>4
  <2>8. CASE b \notin Unparsed
    <3>1. PICK s : s = Returns(c, 0)
      OBVIOUS
    <3>2. PICK n : n = FetchPart(FetchPart(s, o, 1, PartsOf[b][1]), o, 2, PartsOf[b][2])
      OBVIOUS
    <3>3. m = SetRefState(n, o, b)
      BY <1>1, <1>7, <2>1, <2>2, <2>3, <2>8, <3>1, <3>2 DEF InitComposite
    <3>4. FetchesBoth(c, e, o, b, n.heap, n.ret)
      <4>1. PartsRoom(c, b)
        BY <1>3, <2>5, FewerLiveRoom
      <4>2. s.heap = c /\ s.ret = 0
        BY <3>1 DEF Returns
      <4> QED BY <2>5, <3>2, <4>1, <4>2, FetchBothIs
    <3>5. PICK l : l = n.heap
      OBVIOUS
    <3>6. /\ Sound(l, e) /\ Works(c, l, e, o, PartBlocks(b)) /\ n.ret \in Int
          /\ Live(l, o) /\ l.obj[o].name = b /\ l.obj[o].ref = h.obj[o].ref
          /\ l.obj[o].units = c.obj[o].units /\ l.obj[o].status = "abort"
      BY <2>5, <3>4, <3>5 DEF FetchesBoth
    <3>7. /\ \A i \in {1, 2} : l.obj[o].part[i] # NULL =>
               l.cache[PartsOf[b][i]] = l.obj[o].part[i]
          /\ n.ret = 0 => \A i \in {1, 2} :
               /\ l.obj[o].part[i] # NULL
               /\ l.obj[o].units # NULL => l.obj[l.obj[o].part[i]].units = l.obj[o].units
      BY <3>4, <3>5, <3>6 DEF FetchesBoth
    <3>8. PICK k : k = m.heap
      OBVIOUS
    <3>9. l \in Heap /\ Shape(l)
      BY <3>6 DEF Sound
    <3>10. SetsRefState(n, o, m)
      BY <3>3, <3>5, <3>6, <3>9, SetRefStateIs
    <3>11. /\ Rewritten(l, k, o) /\ m.ret \in Int /\ k.obj[o].units = l.obj[o].units
           /\ \/ k.obj[o] = l.obj[o]
              \/ k.obj[o].status # "good"
              \/ n.ret = 0 /\ k.obj[o].numbers = k.obj[o].units
      BY <3>5, <3>8, <3>10 DEF SetsRefState
    <3>12. /\ Live(k, o) /\ k.obj[o].name = b /\ k.obj[o].ref = h.obj[o].ref
           /\ k.obj[o].part = l.obj[o].part /\ k.cache = l.cache
           /\ \A p \in Objs \ {o} : k.obj[p] = l.obj[p]
      BY <3>6, <3>11 DEF Rewritten, Worked
    <3>13. k.obj[o].status = "good" => n.ret = 0 /\ k.obj[o].numbers = k.obj[o].units
      BY <3>6, <3>11
    <3>14. Sound(k, e)
      BY <3>6, <3>7, <3>11, <3>12, <3>13, RewrittenCounts
    <3>15. Works(h, k, e, o, PartBlocks(b))
      <4>1. Works(l, k, e, o, PartBlocks(b))
        BY <3>11, RewrittenWorks
      <4>2. h \in Heap /\ AtMost(e, e)
        BY AtMostInc, NullAssumption DEF Sound
      <4>3. Works(h, l, e, o, PartBlocks(b))
        BY <2>6, <3>6, <4>2, WorksTwice
      <4> QED BY <4>1, <4>2, <4>3, WorksTwice
    <3>16. GoodAt(k, o)
      BY <3>13 DEF GoodAt
    <3>17. Together(k, o)
      <4>1. CASE k.obj[o].status # "good"
        BY <4>1, NotGood
      <4>2. CASE k.obj[o].status = "good"
        <5>1. \A i \in {1, 2} : l.obj[o].part[i] # NULL =>
                l.obj[o].part[i] \in Objs \ {o}
          BY <3>6, <3>9, PartIsSimple
        <5>2. k.obj[o].units # NULL => \A i \in {1, 2} :
                k.obj[k.obj[o].part[i]].units = k.obj[o].units
          BY <3>7, <3>11, <3>12, <3>13, <4>2, <5>1
        <5> QED BY <5>2 DEF Together
      <4> QED BY <4>1, <4>2
    <3>18. PartFrom(h, k, o, b, 1) /\ PartFrom(h, k, o, b, 2)
      BY <3>7, <3>12 DEF PartFrom
    <3>19. Initializes(h, e, o, b, k, m.ret)
      BY <3>11, <3>12, <3>14, <3>15, <3>16, <3>17, <3>18 DEF Initializes
    <3> QED BY <3>8, <3>19
  <2> QED BY <2>7, <2>8
<1> QED BY <1>2, <1>6, <1>7

LEMMA InitializeIs ==
  ASSUME NEW h, NEW e, Sound(h, e), NEW o \in Objs, Live(h, o), NEW b, b = h.obj[o].name,
         IsComposite(b) => PartsRoom(h, b), NEW to \in KnownUnits \cup {NULL},
         NEW m, m = Initialize(h, o, b, to)
  PROVE  Initializes(h, e, o, b, m.heap, m.ret)
<1>1. PICK r : r = SetUnits(h, o, b)
  OBVIOUS
<1>2. SetsUnits(h, o, r)
  BY <1>1, SetUnitsIs DEF Sound
<1>3. PICK n : n = InitBase(r, o, b)
  OBVIOUS
<1>4. Initializes(h, e, o, b, n.heap, n.ret)
  <2>1. CASE IsComposite(b)
    BY <1>2, <1>3, <2>1, InitCompositeInitializes DEF InitBase
  <2>2. CASE ~IsComposite(b)
    BY <1>2, <1>3, <2>2, InitSimpleInitializes DEF InitBase
  <2> QED BY <2>1, <2>2
<1>5. m = ThenConvert(n, o, to)
  BY <1>1, <1>3 DEF Initialize
<1>6. CASE n.ret # 0 \/ to = NULL
  BY <1>4, <1>5, <1>6 DEF ThenConvert
<1>7. CASE ~(n.ret # 0 \/ to = NULL)
  <2>1. PICK l : l = n.heap
    OBVIOUS
  <2>2. m = ConvertUnits(l, o, to) /\ to \in KnownUnits
    BY <1>5, <1>7, <2>1 DEF ThenConvert
  <2>3. /\ Sound(l, e) /\ Works(h, l, e, o, PartBlocks(b))
        /\ Live(l, o) /\ l.obj[o].name = h.obj[o].name /\ l.obj[o].ref = h.obj[o].ref
        /\ GoodAt(l, o) /\ Together(l, o)
        /\ PartFrom(h, l, o, b, 1) /\ PartFrom(h, l, o, b, 2)
    BY <1>4, <2>1 DEF Initializes
  <2>4. Converts(l, o, to, m)
    BY <2>2, <2>3, ConvertUnitsIs DEF Sound
  <2>5. PICK k : k = m.heap
    OBVIOUS
  <2>6. /\ Touched(l, k, {o, l.obj[o].part[1], l.obj[o].part[2]}) /\ m.ret \in Int
        /\ \A p \in Objs : GoodAt(l, p) => GoodAt(k, p)
        /\ Together(l, o) => Together(k, o)
    BY <2>4, <2>5 DEF Converts
  <2>7. /\ Live(k, o) /\ k.obj[o].name = h.obj[o].name /\ k.obj[o].ref = h.obj[o].ref
        /\ k.obj[o].part = l.obj[o].part /\ k.cache = l.cache
    BY <2>3, <2>6 DEF Touched, Worked
  <2>8. Sound(k, e)
    BY <2>3, <2>6, TouchedCounts
  <2>9. Works(l, k, e, o, PartBlocks(b))
    <3>1. \A i \in {1, 2} : PartsOf[l.obj[o].name][i] \in PartBlocks(b)
      BY <2>3 DEF PartBlocks
    <3> QED BY <2>3, <2>6, <3>1, WorksTouched
  <2>10. Works(h, k, e, o, PartBlocks(b))
    <3>1. h \in Heap /\ AtMost(e, e)
      BY AtMostInc, NullAssumption DEF Sound
    <3> QED BY <2>3, <2>9, <3>1, WorksTwice
  <2>11. PartFrom(h, k, o, b, 1) /\ PartFrom(h, k, o, b, 2)
    BY <2>3, <2>7 DEF PartFrom
  <2>12. Initializes(h, e, o, b, k, m.ret)
    BY <2>3, <2>6, <2>7, <2>8, <2>10, <2>11 DEF Initializes
  <2> QED BY <2>5, <2>12
<1> QED BY <1>6, <1>7

-----------------------------------------------------------------------------
(* New objects *)

\* deleteEOS of an object works on its components
LEMMA WorksReleased ==
  ASSUME NEW h, NEW k, NEW e, Sound(h, e), NEW o \in Objs, Live(h, o),
         Milder(h, k, {o, h.obj[o].part[1], h.obj[o].part[2]}), NEW B
  PROVE  Works(h, k, e, o, B)
<1>1. k.cache = h.cache
  BY DEF Milder
<1>2. ASSUME NEW p \in Objs \ {o}, Private(h, e, p)
      PROVE  k.obj[p] = h.obj[p]
  <2>1. h.obj[o].part[1] # p /\ h.obj[o].part[2] # p
    BY <1>2, PrivateIs
  <2> QED BY <2>1 DEF Milder
<1>3. \A p \in Objs : Live(k, p) => Live(h, p) /\ SameFace(k.obj[p], h.obj[p])
  BY DEF Milder
<1>4. \A p \in Objs : GoodAt(h, p) => GoodAt(k, p)
  BY <1>3 DEF GoodAt, SameFace
<1> QED BY <1>1, <1>2, <1>3, <1>4 DEF Works

\* The free slots, and the blocks that initialising b may make objects of
FreeSlots(h) == {o \in Objs : ~Live(h, o)}
Missing(h, b) == {c \in PartBlocks(b) \ {NULL} : h.cache[c] = NULL}
HasRoom(h, b) == Cardinality(FreeSlots(h)) >= Cardinality({b} \cup Missing(h, b))

LEMMA FreeFinite ==
  ASSUME NEW h, NEW b
  PROVE  /\ IsFiniteSet(FreeSlots(h)) /\ Cardinality(FreeSlots(h)) \in Nat
         /\ IsFiniteSet(Missing(h, b)) /\ Cardinality(Missing(h, b)) \in Nat
<1>1. IsFiniteSet(FreeSlots(h))
  <2>1. FreeSlots(h) \subseteq Objs
    BY DEF FreeSlots
  <2> QED BY <2>1, FiniteAssumption, FS_Subset
<1>2. IsFiniteSet(Missing(h, b))
  <2>1. IsFiniteSet({PartsOf[b][1]} \cup {PartsOf[b][2]})
    BY FS_Singleton, FS_Union
  <2>2. Missing(h, b) \subseteq {PartsOf[b][1]} \cup {PartsOf[b][2]}
    BY DEF Missing, PartBlocks
  <2> QED BY <2>1, <2>2, FS_Subset
<1> QED BY <1>1, <1>2, FS_CardinalityType

LEMMA RoomForParts ==
  ASSUME NEW h, NEW b, NEW o \in Objs,
         Cardinality(FreeSlots(h)) >= Cardinality(Missing(h, b))
  PROVE  PartsRoom(h, b)
<1> DEFINE F == FreeSlots(h)
           W == Missing(h, b)
<1>1. /\ IsFiniteSet(F) /\ Cardinality(F) \in Nat
      /\ IsFiniteSet(W) /\ Cardinality(W) \in Nat
  BY FreeFinite
<1>2. \A i \in {1, 2} : Wanted(h, b, i) => PartsOf[b][i] \in W
  BY DEF Wanted, Missing, PartBlocks
<1>3. \A s \in F : s \in Objs /\ ~Live(h, s)
  BY DEF FreeSlots
<1>4. CASE ~Wanted(h, b, 1) /\ ~Wanted(h, b, 2)
  BY <1>4 DEF PartsRoom
<1>5. ASSUME NEW c \in W
      PROVE  \E s \in F : \A d \in W \ {c} : \E t \in F : s # t
  <2> HIDE DEF F, W
  <2>1. W # {}
    BY <1>5
  <2>2. Cardinality(W) # 0
    BY <1>1, <2>1, FS_EmptySet
  <2>7. Cardinality(F) >= Cardinality(W)
    BY DEF F, W
  <2>3. Cardinality(F) # 0
    BY <1>1, <2>2, <2>7
  <2>4. F # {}
    BY <2>3, FS_EmptySet
  <2>5. PICK s \in F : TRUE
    BY <2>4
  <2>6. ASSUME NEW d \in W \ {c}
        PROVE  \E t \in F : s # t
    <3>1. IsFiniteSet(W \ {c}) /\ Cardinality(W \ {c}) = Cardinality(W) - 1
      BY <1>1, <1>5, FS_RemoveElement
    <3>2. W \ {c} # {}
      BY <2>6
    <3>3. Cardinality(W \ {c}) # 0
      BY <3>1, <3>2, FS_EmptySet
    <3>4. IsFiniteSet(F \ {s}) /\ Cardinality(F \ {s}) = Cardinality(F) - 1
      BY <1>1, <2>5, FS_RemoveElement
    <3>6. Cardinality(F \ {s}) # 0
      <4>1. Cardinality(W) - 1 # 0
        BY <3>1, <3>3
      <4> QED BY <1>1, <2>2, <2>7, <3>4, <4>1
    <3>7. F \ {s} # {}
      BY <3>6, FS_EmptySet
    <3> QED BY <3>7
  <2> QED BY <2>5, <2>6
<1>6. CASE Wanted(h, b, 1)
  <2>1. PICK s \in F : \A d \in W \ {PartsOf[b][1]} : \E t \in F : s # t
    BY <1>2, <1>5, <1>6
  <2>2. CASE Wanted(h, b, 2) /\ PartsOf[b][1] # PartsOf[b][2]
    <3>1. PartsOf[b][2] \in W \ {PartsOf[b][1]}
      BY <1>2, <2>2
    <3>2. PICK t \in F : s # t
      BY <2>1, <3>1
    <3> QED BY <1>3, <3>2 DEF PartsRoom
  <2>3. CASE ~(Wanted(h, b, 2) /\ PartsOf[b][1] # PartsOf[b][2])
    BY <1>3, <2>3 DEF PartsRoom
  <2> QED BY <2>2, <2>3
<1>7. CASE ~Wanted(h, b, 1) /\ Wanted(h, b, 2)
  <2>1. PICK s \in F : TRUE
    BY <1>2, <1>5, <1>7
  <2> QED BY <1>3, <1>7 DEF PartsRoom
<1> QED BY <1>4, <1>6, <1>7

\* A block is none of its components
LEMMA NotOwnPart ==
  ASSUME NEW b \in Blocks
  PROVE  /\ b \notin PartBlocks(b)
         /\ \A c \in PartBlocks(b) : c \in Blocks => ~IsComposite(c)
<1>1. PartsOf[b] \in (Blocks \cup {NULL}) \X (Blocks \cup {NULL})
  BY BlocksAssumption
<1>2. \A i \in {1, 2} : PartsOf[b][i] # NULL =>
        KindOf[PartsOf[b][i]] = "simple"
  BY BlocksAssumption
<1>3. b # NULL /\ NULL \notin Blocks
  BY NullAssumption
<1>4. \A c \in PartBlocks(b) : c \in Blocks => ~IsComposite(c)
  BY <1>2, <1>3 DEF PartBlocks, IsComposite
<1>5. ~IsComposite(b) => PartsOf[b] = <<NULL, NULL>>
  BY BlocksAssumption DEF IsComposite
<1>6. b \notin PartBlocks(b)
  <2>1. CASE IsComposite(b)
    BY <1>4, <2>1
  <2>2. CASE ~IsComposite(b)
    BY <1>3, <1>5, <2>2 DEF PartBlocks
  <2> QED BY <2>1, <2>2
<1> QED BY <1>4, <1>6

LEMMA RoomForNew ==
  ASSUME NEW h, NEW b \in Blocks, HasRoom(h, b)
  PROVE  /\ \E o \in Objs : ~Live(h, o)
         /\ \A k, o : /\ o \in Objs /\ ~Live(h, o) /\ Live(k, o) /\ k.cache = h.cache
                      /\ \A p \in Objs \ {o} : k.obj[p] = h.obj[p]
                      => PartsRoom(k, b)
<1> DEFINE F == FreeSlots(h)
           W == Missing(h, b)
<1>1. /\ IsFiniteSet(F) /\ Cardinality(F) \in Nat
      /\ IsFiniteSet(W) /\ Cardinality(W) \in Nat
  BY FreeFinite
<1>2. Cardinality({b} \cup W) = Cardinality(W) + 1
  <2>1. b \notin W
    BY NotOwnPart DEF Missing
  <2>2. Cardinality(W \cup {b}) = Cardinality(W) + 1
    BY <1>1, <2>1, FS_AddElement
  <2>3. W \cup {b} = {b} \cup W
    OBVIOUS
  <2> QED BY <2>2, <2>3
<1>3. Cardinality(F) >= Cardinality(W) + 1
  BY <1>2 DEF HasRoom
<1>4. \E o \in Objs : ~Live(h, o)
  <2>1. F # {}
    <3> HIDE DEF F, W
    <3>1. Cardinality(F) # 0
      BY <1>1, <1>3
    <3> QED BY <3>1, FS_EmptySet
  <2> QED BY <2>1 DEF FreeSlots
<1>5. ASSUME NEW k, NEW o, o \in Objs, ~Live(h, o), Live(k, o), k.cache = h.cache,
             \A p \in Objs \ {o} : k.obj[p] = h.obj[p]
      PROVE  PartsRoom(k, b)
  <2>1. FreeSlots(k) = F \ {o} /\ o \in F
    BY <1>5 DEF FreeSlots, Live
  <2>2. Missing(k, b) = W
    BY <1>5 DEF Missing
  <2>3. Cardinality(FreeSlots(k)) >= Cardinality(Missing(k, b))
    <3> HIDE DEF F, W
    <3>1. Cardinality(F \ {o}) = Cardinality(F) - 1
      BY <1>1, <2>1, FS_RemoveElement
    <3> QED BY <1>1, <1>3, <2>1, <2>2, <3>1
  <2> QED BY <1>5, <2>3, RoomForParts
<1> QED BY <1>4, <1>5

\* DataBase::NewObject: a new object in a free slot, which only the caller
\* refers to
News(h, e, b, o, k) ==
  /\ o \in Objs /\ ~Live(h, o) /\ Sound(k, Inc(e, o)) /\ Works(h, k, e, o, PartBlocks(b))
  /\ k.obj[o].name = b /\ k.obj[o].ref = 1 /\ GoodAt(k, o) /\ Together(k, o)
  /\ \A i \in {1, 2} : k.obj[o].part[i] # NULL => k.obj[o].part[i] = k.cache[PartsOf[b][i]]

\* ... or none, when its initialisation fails: it is destroyed
Fails(h, e, b, f) ==
  f.obj = NULL /\ Sound(f.heap, e) /\ Works(h, f.heap, e, NULL, PartBlocks(b))

LEMMA WorksFreed ==
  ASSUME NEW h, NEW k, NEW e, NEW o, NEW B, Works(h, k, e, o, B), ~Live(h, o), ~Live(k, o)
  PROVE  Works(h, k, e, NULL, B)
BY DEF Works, Private, GoodAt

\* The object of a single reference, that of the caller, is destroyed
LEMMA ReleaseDestroys ==
  ASSUME NEW k, NEW e \in [Objs -> Nat], NEW o \in Objs, e[o] = 0, Sound(k, Inc(e, o)),
         k.obj[o].ref = 1, NEW l, l = Release(k, o)
  PROVE  Sound(l, e) /\ ~Live(l, o) /\ Milder(k, l, {o, k.obj[o].part[1], k.obj[o].part[2]})
<1>1. PICK d : d = Inc(e, o)
  OBVIOUS
<1>2. d \in [Objs -> Nat] /\ d[o] = 1 /\ Dec(d, o) = e
  BY <1>1, IncType, IncDec
<1>3. Sound(k, d)
  BY <1>1
<1>4. Sound(l, e) /\ Milder(k, l, {o, k.obj[o].part[1], k.obj[o].part[2]})
  BY <1>2, <1>3, ReleaseCounts
<1>5. /\ \A b \in Blocks : k.cache[b] # o
      /\ \A p \in Objs, i \in {1, 2} : Live(k, p) => k.obj[p].part[i] # o
  BY <1>2, <1>3, OnlyRef
<1>6. /\ \A b \in Blocks : l.cache[b] # o
      /\ \A p \in Objs, i \in {1, 2} : Live(l, p) => l.obj[p].part[i] # o
  BY <1>4, <1>5 DEF Milder, SameFace
<1>7. Cardinality(CacheRefs(l, o)) = 0 /\ Cardinality(PartRefs(l, o)) = 0
  BY <1>6, NoRefs
<1>8. ~Live(l, o)
  <2>1. SUFFICES ASSUME Live(l, o)
                 PROVE  FALSE
    OBVIOUS
  <2>2. l.obj[o].ref > 0 /\ e[o] + Cardinality(CacheRefs(l, o)) + Cardinality(PartRefs(l, o)) = l.obj[o].ref
    BY <1>4, <2>1 DEF Sound, Counted
  <2> QED BY <1>7, <2>2
<1> QED BY <1>4, <1>8

LEMMA NewObjectIs ==
  ASSUME NEW h, NEW e, Sound(h, e), NEW b \in Blocks, HasRoom(h, b),
         NEW f, f = NewObject(h, b)
  PROVE  Fails(h, e, b, f) \/ News(h, e, b, f.obj, f.heap)
<1>1. PICK o : o = FreeSlot(h)
  OBVIOUS
<1>2. o \in Objs /\ ~Live(h, o)
  <2>1. \E q \in Objs : ~Live(h, q)
    BY RoomForNew
  <2> QED BY <1>1, <2>1 DEF FreeSlot
<1>3. PICK c : c = Put(h, o, Construct(b))
  OBVIOUS
<1>4. PICK m : m = Initialize(c, o, b, NULL)
  OBVIOUS
<1>5. f = Constructed(m, o)
  BY <1>1, <1>3, <1>4 DEF NewObject
<1>6. /\ c \in Heap /\ c.cache = h.cache /\ c.obj[o] = Construct(b)
      /\ \A p \in Objs \ {o} : c.obj[p] = h.obj[p]
  <2>1. Construct(b) \in Object \cup {FREE} /\ h \in Heap
    BY ConstructIs DEF Sound
  <2> QED BY <1>2, <1>3, <2>1, PutIs
<1>7. PICK d : d = Inc(e, o)
  OBVIOUS
<1>8. /\ e \in [Objs -> Nat] /\ d \in [Objs -> Nat] /\ e[o] = 0 /\ AtMost(e, d) /\ AtMost(e, e)
      /\ h \in Heap
  <2>1. e \in [Objs -> Nat] /\ h \in Heap
    BY DEF Sound
  <2>2. e[o] = 0
    BY <1>2, FreeIsUnused
  <2> QED BY <1>2, <1>7, <2>1, <2>2, AtMostInc, IncType
<1>9. Sound(c, d) /\ Live(c, o) /\ c.obj[o].name = b /\ c.obj[o].ref = 1
      /\ c.obj[o].part = <<NULL, NULL>>
  <2>1. Sound(c, d)
    <3>1. Construct(b) \in Object /\ Construct(b).ref = 1
          /\ Construct(b).part = <<NULL, NULL>> /\ Construct(b).status # "good"
      BY ConstructIs
    <3> QED BY <1>2, <1>3, <1>7, <3>1, MadeCounts
  <2>2. Live(c, o)
    BY <1>6, ConstructIs, FreeAssumption DEF Live
  <2> QED BY <1>6, <2>1, <2>2, ConstructIs
<1>10. PICK k : k = m.heap
  OBVIOUS
<1>11. Initializes(c, d, o, b, k, m.ret)
  <2>1. PartsRoom(c, b)
    BY <1>2, <1>6, <1>9, RoomForNew
  <2>2. NULL \in KnownUnits \cup {NULL}
    OBVIOUS
  <2> QED BY <1>2, <1>4, <1>9, <1>10, <2>1, <2>2, InitializeIs
<1>12. /\ Sound(k, d) /\ Works(c, k, d, o, PartBlocks(b)) /\ Live(k, o)
       /\ k.obj[o].name = b /\ k.obj[o].ref = 1 /\ GoodAt(k, o) /\ Together(k, o)
       /\ PartFrom(c, k, o, b, 1) /\ PartFrom(c, k, o, b, 2)
  BY <1>9, <1>11 DEF Initializes
<1>13. Works(h, k, e, o, PartBlocks(b))
  <2>1. Works(h, c, e, o, PartBlocks(b))
    BY <1>6, WorksOn
  <2> QED BY <1>8, <1>12, <2>1, WorksTwice
<1>14. CASE m.ret = 0
  <2>1. f.obj = o /\ f.heap = k
    BY <1>5, <1>10, <1>14 DEF Constructed
  <2>2. \A i \in {1, 2} : k.obj[o].part[i] # NULL => k.obj[o].part[i] = k.cache[PartsOf[b][i]]
    BY <1>9, <1>12 DEF PartFrom
  <2>3. News(h, e, b, o, k)
    BY <1>2, <1>7, <1>12, <1>13, <2>2 DEF News
  <2> QED BY <2>1, <2>3
<1>15. CASE m.ret # 0
  <2>1. PICK l : l = Release(k, o)
    OBVIOUS
  <2>2. f.obj = NULL /\ f.heap = l
    BY <1>5, <1>10, <1>15, <2>1 DEF Constructed
  <2>3. Sound(l, e) /\ ~Live(l, o) /\ Milder(k, l, {o, k.obj[o].part[1], k.obj[o].part[2]})
    BY <1>2, <1>7, <1>8, <1>12, <2>1, ReleaseDestroys
  <2>4. Works(k, l, d, o, PartBlocks(b))
    BY <1>2, <1>12, <2>3, WorksReleased
  <2>5. Works(h, l, e, o, PartBlocks(b))
    BY <1>8, <1>13, <2>4, WorksTwice
  <2>6. Works(h, l, e, NULL, PartBlocks(b))
    BY <1>2, <2>3, <2>5, WorksFreed
  <2>7. Fails(h, e, b, f)
    BY <2>2, <2>3, <2>6 DEF Fails
  <2> QED BY <2>7
<1> QED BY <1>14, <1>15

\* DataBase::FetchObj: the data base keeps a new object under its name, and
\* hands out references to one it keeps
Keeps(n, k, b, o) ==
  /\ k.cache = [n.cache EXCEPT ![b] = o]
  /\ \A p \in Objs \ {o} : k.obj[p] = n.obj[p]
  /\ \A p \in Objs : /\ Live(k, p) <=> Live(n, p)
                     /\ Live(n, p) => SameFace(k.obj[p], n.obj[p])

FetchesNew(h, e, b, f) ==
  /\ h.cache[b] = NULL /\ Sound(f.heap, Inc(e, f.obj))
  /\ \E n : News(h, e, b, f.obj, n) /\ n.cache[b] = NULL /\ Keeps(n, f.heap, b, f.obj)

FetchesOld(h, b, f) ==
  f.obj \in Objs /\ h.cache[b] = f.obj /\ f.heap = Duplicate(h, f.obj)

LEMMA FetchObjIs ==
  ASSUME NEW h, NEW e, Sound(h, e), NEW b \in Blocks, HasRoom(h, b), NEW f, f = FetchObj(h, b)
  PROVE  Fails(h, e, b, f) \/ FetchesNew(h, e, b, f) \/ FetchesOld(h, b, f)
<1>1. h \in Heap /\ e \in [Objs -> Nat] /\ h.cache[b] \in Objs \cup {NULL}
  BY DEF Sound, Heap
<1>2. CASE h.cache[b] # NULL
  <2>1. PICK q : q = h.cache[b]
    OBVIOUS
  <2>2. q \in Objs /\ q # NULL
    BY <1>1, <1>2, <2>1
  <2>3. [h EXCEPT !.cache[b] = q] = h
    <3>1. [h.cache EXCEPT ![b] = q] = h.cache
      BY <1>1, <2>1 DEF Heap
    <3>2. [h EXCEPT !.cache = h.cache] = h
      BY <1>1 DEF Heap
    <3>3. [h EXCEPT !.cache[b] = q] = [h EXCEPT !.cache = [h.cache EXCEPT ![b] = q]]
      OBVIOUS
    <3> QED BY <3>1, <3>2, <3>3
  <2>4. f.heap = Duplicate(h, q) /\ f.obj = q
    <3>1. PICK n : n = Cached(h, b)
      OBVIOUS
    <3>2. n.heap = h /\ n.obj = q
      BY <2>1, <3>1 DEF Cached
    <3>3. f = Share(n, b)
      BY <1>2, <3>1 DEF FetchObj
    <3> QED BY <2>2, <2>3, <3>2, <3>3 DEF Share
  <2> QED BY <2>1, <2>2, <2>4 DEF FetchesOld
<1>3. CASE h.cache[b] = NULL
  <2>1. PICK n : n = NewObject(h, b)
    OBVIOUS
  <2>2. f = Share(n, b)
    BY <1>3, <2>1 DEF FetchObj
  <2>3. CASE Fails(h, e, b, n)
    <3>1. f = n
      BY <2>2, <2>3 DEF Share, Fails
    <3> QED BY <2>3, <3>1
  <2>4. CASE News(h, e, b, n.obj, n.heap)
    <3>1. PICK o, k : o = n.obj /\ k = n.heap
      OBVIOUS
    <3>2. /\ o \in Objs /\ Sound(k, Inc(e, o)) /\ k.obj[o].name = b
          /\ Works(h, k, e, o, PartBlocks(b))
      BY <2>4, <3>1 DEF News
    <3>3. k.cache[b] = NULL
      <4>1. b \notin PartBlocks(b)
        BY NotOwnPart
      <4> QED BY <1>3, <3>2, <4>1 DEF Works
    <3>4. /\ f.obj = o /\ Sound(f.heap, Inc(e, o))
          /\ f.heap.cache = [k.cache EXCEPT ![b] = o]
          /\ \A p \in Objs \ {o} : f.heap.obj[p] = k.obj[p]
          /\ \A p \in Objs : /\ Live(f.heap, p) <=> Live(k, p)
                             /\ Live(k, p) => SameFace(f.heap.obj[p], k.obj[p])
      BY <1>1, <2>2, <3>1, <3>2, <3>3, ShareIs
    <3>5. Keeps(k, f.heap, b, o)
      BY <3>4 DEF Keeps
    <3>6. News(h, e, b, f.obj, k)
      BY <2>4, <3>1, <3>4
    <3>7. FetchesNew(h, e, b, f)
      BY <1>3, <3>3, <3>4, <3>5, <3>6 DEF FetchesNew
    <3> QED BY <3>7
  <2> QED BY <2>1, <2>3, <2>4, NewObjectIs
<1> QED BY <1>2, <1>3
=============================================================================
