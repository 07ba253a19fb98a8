------------------------------ MODULE DBuseProofs ------------------------------
(* Use never appends the entries of a block to a block that is being expanded  *)
(* on its behalf, however the blocks refer to each other.  It succeeds on every *)
(* block whose directives resolve within Levels levels, and on no block that   *)
(* leads to a missing block or back to itself.  Expanded or not, no block ever *)
(* stands for anything else, and no object is stale for an expansion.          *)
EXTENDS DataBaseProofs, WellFoundedInduction

LEMMA LessThan == OpToRel(<, Nat) = {p \in Nat \X Nat : p[1] < p[2]}
BY Zenon DEF OpToRel

LEMMA Least ==
  ASSUME NEW T \in SUBSET Nat, T # {}
  PROVE  \E x \in T : \A y \in T : x <= y
<1>1. PICK R : R = OpToRel(<, Nat)
  OBVIOUS
<1>2. IsWellFoundedOn(R, Nat)
  BY <1>1, NatLessThanWellFounded, Zenon
<1>3. R = {p \in Nat \X Nat : p[1] < p[2]}
  BY <1>1, LessThan, Zenon
<1>4. PICK x \in T : \A y \in T : ~ (<<y, x>> \in R)
  BY <1>2, WFMin
<1>5. ASSUME NEW y \in T
      PROVE  x <= y
  <2>1. x \in Nat /\ y \in Nat
    OBVIOUS
  <2>2. ~ (<<y, x>> \in R)
    BY <1>4
  <2>3. ~ (y < x)
    BY <1>3, <2>1, <2>2
  <2> QED BY <2>1, <2>3
<1> QED BY <1>5

LEMMA Greatest ==
  ASSUME NEW n \in Nat, NEW T \in SUBSET (0 .. n), T # {}
  PROVE  \E x \in T : \A y \in T : y <= x
<1> DEFINE U == {n - y : y \in T}
<1>1. U \in SUBSET Nat /\ U # {}
  OBVIOUS
<1>2. PICK u \in U : \A v \in U : u <= v
  <2> HIDE DEF U
  <2> QED BY <1>1, Least
<1>3. PICK x \in T : u = n - x
  BY <1>2
<1>4. ASSUME NEW y \in T
      PROVE  y <= x
  <2>1. n - x <= n - y
    BY <1>2, <1>3
  <2>2. x \in Int /\ y \in Int
    OBVIOUS
  <2> QED BY <2>1, <2>2
<1> QED BY <1>4

(*******************************************************************************)
(* What the calls in progress know of the blocks and of each other.            *)
(*******************************************************************************)
(* The block whose directive a call follows, or followed last.                 *)
Directive(c) == <<c.key[1], c.v>>

(* Call i waits for the block of its directive, or has not taken the answer.   *)
Follows(cs, r, i) == i < Len(cs) \/ r # NoValue
EndsWith(s, x) == s # <<>> /\ s[Len(s)] = x

(* Call i is the last one of its block; k is the next call of the block of i.  *)
Topmost(cs, i) == \A j \in 1 .. Len(cs) : j > i => cs[j].key # cs[i].key
NextOf(cs, i, k) ==
  /\ i < k /\ cs[i].key = cs[k].key
  /\ \A j \in 1 .. Len(cs) : i < j /\ j < k => cs[j].key # cs[k].key

Linked(cs) == \A i, k \in 1 .. Len(cs) : k = i + 1 => cs[k].key = Directive(cs[i])

(* While a directive is followed it is the last entry of its block ...         *)
EndsAt(b, cs, i) == EndsWith(b[cs[i].key].entries, cs[i].v)
Ends(b, cs, r) ==
  \A i \in 1 .. Len(cs) : Follows(cs, r, i) /\ Topmost(cs, i) => EndsAt(b, cs, i)

(* ... unless the block is entered once more: then the inner call holds it, as *)
(* the last entry it has to copy back, or follows it itself, or has failed.    *)
Keeps(b, cs, r, i, k) ==
  \/ EndsWith(cs[k].old, cs[i].v)
  \/ cs[k].old = <<>> /\ Follows(cs, r, k) /\ cs[k].v = cs[i].v
  \/ /\ cs[k].old = <<>> /\ ~Follows(cs, r, k) /\ cs[k].status = -1
     /\ EndsWith(b[cs[k].key].entries, cs[i].v)
KeptBy(b, cs, r, k) == \A i \in 1 .. Len(cs) : NextOf(cs, i, k) => Keeps(b, cs, r, i, k)
AllKept(b, cs, r) == \A k \in 1 .. Len(cs) : KeptBy(b, cs, r, k)

Chain(b, cs, r) == Linked(cs) /\ Ends(b, cs, r) /\ AllKept(b, cs, r)

(* The block of a directive that was followed with success is not in progress. *)
Away(cs, r) ==
  cs # <<>> /\ r >= 0 => \A i \in 1 .. Len(cs) : cs[i].key # Directive(cs[Len(cs)])

LEMMA TopmostIs ==
  ASSUME NEW cs, Len(cs) \in Nat, NEW i \in 1 .. Len(cs)
  PROVE  \E m \in 1 .. Len(cs) : cs[m].key = cs[i].key /\ Topmost(cs, m)
<1> DEFINE T == {m \in 1 .. Len(cs) : cs[m].key = cs[i].key}
<1>1. T \in SUBSET (0 .. Len(cs)) /\ T # {}
  OBVIOUS
<1>2. PICK m \in T : \A y \in T : y <= m
  <2> HIDE DEF T
  <2> QED BY <1>1, Greatest
<1>3. m \in 1 .. Len(cs) /\ cs[m].key = cs[i].key
  OBVIOUS
<1>4. ASSUME NEW j \in 1 .. Len(cs), j > m
      PROVE  cs[j].key # cs[m].key
  <2>1. j \notin T
    <3> HIDE DEF T
    <3> QED BY <1>2, <1>3, <1>4
  <2> QED BY <1>3, <2>1
<1> QED BY <1>3, <1>4 DEF Topmost

LEMMA NextIs ==
  ASSUME NEW cs, Len(cs) \in Nat, NEW k \in 1 .. Len(cs), NEW i \in 1 .. Len(cs),
         i < k, cs[i].key = cs[k].key
  PROVE  \E m \in 1 .. Len(cs) : NextOf(cs, m, k)
<1> DEFINE T == {m \in 1 .. Len(cs) : m < k /\ cs[m].key = cs[k].key}
<1>1. T \in SUBSET (0 .. Len(cs)) /\ T # {}
  OBVIOUS
<1>2. PICK m \in T : \A y \in T : y <= m
  <2> HIDE DEF T
  <2> QED BY <1>1, Greatest
<1>3. m \in 1 .. Len(cs) /\ m < k /\ cs[m].key = cs[k].key
  OBVIOUS
<1>4. ASSUME NEW j \in 1 .. Len(cs), m < j, j < k
      PROVE  cs[j].key # cs[k].key
  <2>1. j \notin T
    <3> HIDE DEF T
    <3> QED BY <1>2, <1>3, <1>4
  <2> QED BY <1>4, <2>1
<1> QED BY <1>3, <1>4 DEF NextOf

(* The calls cs2 are cs with c for the innermost one.                          *)
Swapped(cs, cs2, c) ==
  /\ Len(cs2) = Len(cs)
  /\ \A j \in 1 .. Len(cs) : cs2[j] = IF j = Len(cs) THEN c ELSE cs[j]
Elsewhere(b, b2, k) == \A l \in Keys : l # k => b2[l] = b[l]

(* A call below the innermost one is kept whatever the innermost one does.     *)
LEMMA KeptBelow ==
  ASSUME NEW b, NEW b2, NEW cs, NEW cs2, NEW r, NEW r2, NEW k, NEW n \in Nat,
         Len(cs) \in Nat, Len(cs2) \in Nat, n <= Len(cs), n <= Len(cs2),
         \A j \in 1 .. n : cs2[j] = cs[j],
         k \in 1 .. n, Follows(cs, r, k), Follows(cs2, r2, k), KeptBy(b, cs, r, k)
  PROVE  KeptBy(b2, cs2, r2, k)
<1> SUFFICES ASSUME NEW i \in 1 .. Len(cs2), NextOf(cs2, i, k)
             PROVE  Keeps(b2, cs2, r2, i, k)
  BY DEF KeptBy
<1>1. i \in 1 .. n /\ cs2[i] = cs[i] /\ cs2[k] = cs[k] /\ i \in 1 .. Len(cs)
  BY DEF NextOf
<1>2. NextOf(cs, i, k)
  <2>1. ASSUME NEW j \in 1 .. Len(cs), i < j, j < k
        PROVE  cs[j].key # cs[k].key
    <3>1. j \in 1 .. Len(cs2) /\ cs2[j] = cs[j]
      BY <2>1
    <3> QED BY <1>1, <2>1, <3>1 DEF NextOf
  <2> QED BY <1>1, <2>1 DEF NextOf
<1>3. Keeps(b, cs, r, i, k)
  BY <1>1, <1>2 DEF KeptBy
<1> QED BY <1>1, <1>3 DEF Keeps

LEMMA SwappedChain ==
  ASSUME NEW b, NEW b2, NEW cs \in Seq(ACall), cs # <<>>, NEW cs2, NEW r, NEW r2, NEW c,
         Chain(b, cs, r), Swapped(cs, cs2, c), c.key = cs[Len(cs)].key,
         Elsewhere(b, b2, c.key),
         r2 # NoValue => EndsWith(b2[c.key].entries, c.v),
         KeptBy(b2, cs2, r2, Len(cs))
  PROVE  Chain(b2, cs2, r2)
<1>1. Len(cs) \in Nat \ {0} /\ Len(cs2) = Len(cs)
  BY FrontType DEF Swapped
<1> DEFINE n == Len(cs)
<1>2. /\ n \in Nat \ {0} /\ n \in 1 .. n
      /\ \A j \in 1 .. n : cs2[j].key = cs[j].key
      /\ \A j \in 1 .. n : j < n => cs2[j] = cs[j]
      /\ cs2[n] = c
  BY <1>1 DEF Swapped
<1>3. Linked(cs) /\ Ends(b, cs, r) /\ AllKept(b, cs, r)
  BY DEF Chain
<1>4. \A j \in 1 .. n : cs[j].key \in Keys
  BY CallKey
<1>5. Linked(cs2)
  <2> SUFFICES ASSUME NEW i \in 1 .. Len(cs2), NEW k \in 1 .. Len(cs2), k = i + 1
               PROVE  cs2[k].key = Directive(cs2[i])
    BY DEF Linked
  <2>1. i \in 1 .. n /\ k \in 1 .. n /\ i < n
    BY <1>1
  <2> QED BY <1>2, <1>3, <2>1 DEF Linked
<1>6. Ends(b2, cs2, r2)
  <2> SUFFICES ASSUME NEW i \in 1 .. Len(cs2), Follows(cs2, r2, i), Topmost(cs2, i)
               PROVE  EndsAt(b2, cs2, i)
    BY DEF Ends
  <2>1. CASE i = n
    <3>1. r2 # NoValue
      BY <1>1, <1>2, <2>1 DEF Follows
    <3> QED BY <1>2, <2>1, <3>1 DEF EndsAt
  <2>2. CASE i # n
    <3>1. i \in 1 .. n /\ i < n /\ cs2[i] = cs[i]
      BY <1>1, <1>2, <2>2
    <3>2. Topmost(cs, i) /\ Follows(cs, r, i) /\ cs[i].key # c.key
      BY <1>1, <1>2, <3>1 DEF Topmost, Follows
    <3>3. EndsAt(b, cs, i) /\ b2[cs[i].key] = b[cs[i].key]
      BY <1>3, <1>4, <3>1, <3>2 DEF Ends, Elsewhere
    <3> QED BY <3>1, <3>3 DEF EndsAt
  <2> QED BY <2>1, <2>2
<1>7. AllKept(b2, cs2, r2)
  <2> SUFFICES ASSUME NEW k \in 1 .. Len(cs2)
               PROVE  KeptBy(b2, cs2, r2, k)
    BY DEF AllKept
  <2>1. CASE k = n
    BY <2>1
  <2>2. CASE k # n
    <3>1. PICK m \in Nat : m = Len(cs) - 1
      <4>1. Len(cs) - 1 \in Nat
        BY <1>1
      <4> QED BY <4>1
    <3>2. k \in 1 .. m /\ k \in 1 .. Len(cs) /\ m <= Len(cs) /\ m <= Len(cs2)
      BY <1>1, <2>2, <3>1
    <3>3. Follows(cs, r, k) /\ Follows(cs2, r2, k) /\ KeptBy(b, cs, r, k)
      BY <1>1, <1>3, <3>1, <3>2 DEF Follows, AllKept
    <3>4. \A j \in 1 .. m : cs2[j] = cs[j]
      BY <1>1, <1>2, <3>1
    <3>5. Len(cs) \in Nat /\ Len(cs2) \in Nat
      BY <1>1
    <3> HIDE DEF n
    <3> QED BY <3>2, <3>3, <3>4, <3>5, KeptBelow
  <2> QED BY <2>1, <2>2
<1> QED BY <1>5, <1>6, <1>7 DEF Chain

(*******************************************************************************)
(* The steps of Use.                                                           *)
(*******************************************************************************)
LEMMA EndsUse ==
  ASSUME NEW s \in Seq(Entries), NEW x \in Names, EndsWith(s, x)
  PROVE  Use(s) # 0
<1>1. Len(s) \in Nat /\ Len(s) \in DOMAIN s /\ DOMAIN s = 1 .. Len(s)
  BY LenProperties, EmptySeq DEF EndsWith
<1>2. Len(s) \in UsesOf(s)
  BY <1>1 DEF UsesOf, EndsWith
<1>3. IsFiniteSet(1 .. Len(s)) /\ UsesOf(s) \in SUBSET (1 .. Len(s))
  BY <1>1, FS_Interval DEF UsesOf
<1>4. IsFiniteSet(UsesOf(s))
  BY <1>3, FS_Subset
<1> QED BY <1>2, <1>4, FS_EmptySet DEF Use

LEMMA CallTyped ==
  ASSUME NEW cs \in Seq(ACall), NEW i \in 1 .. Len(cs)
  PROVE  /\ cs[i] \in ACall /\ cs[i].key \in Keys /\ cs[i].v \in Names
         /\ cs[i].old \in Seq(Entries)
<1>1. cs[i] \in ACall
  BY ElementOfSeq
<1> QED BY <1>1 DEF ACall

(* Calls that all follow a directive: their blocks end with directives.        *)
LEMMA InProgressEnds ==
  ASSUME NEW b, NEW cs \in Seq(ACall), NEW r, r # NoValue, Chain(b, cs, r),
         NEW i \in 1 .. Len(cs)
  PROVE  \E m \in 1 .. Len(cs) :
           cs[m].key = cs[i].key /\ EndsWith(b[cs[i].key].entries, cs[m].v)
<1>1. Len(cs) \in Nat
  BY LenProperties
<1>2. PICK m \in 1 .. Len(cs) : cs[m].key = cs[i].key /\ Topmost(cs, m)
  BY <1>1, TopmostIs
<1>3. EndsAt(b, cs, m)
  BY <1>2 DEF Chain, Ends, Follows
<1> QED BY <1>2, <1>3 DEF EndsAt

(* Use is entered: for the block of the directive that the innermost call      *)
(* follows, or for the first.                                                  *)
LEMMA EnterChain ==
  ASSUME NEW b \in Blocks, NEW k \in Keys, b[k] \in Block, NEW n \in 0 .. Levels,
         NEW outer \in Seq(ACall), Chain(b, outer, 0),
         outer # <<>> => k = Directive(outer[Len(outer)]),
         Enter(b, k, n, outer)
  PROVE  Chain(blocks', calls', returned') /\ Away(calls', returned')
<1>1. Len(outer) \in Nat
  BY LenProperties
<1>2. b[k].entries \in Seq(Entries)
  BY BlockOrNot
<1>3. CASE NothingToUse(b, k, outer)
  <2>1. blocks' = b /\ calls' = outer /\ returned' = 0 /\ Use(b[k].entries) = 0
    BY <1>3 DEF NothingToUse
  <2>2. Away(outer, 0)
    <3> SUFFICES ASSUME outer # <<>>, NEW i \in 1 .. Len(outer), outer[i].key = k
                 PROVE  FALSE
      BY DEF Away
    <3>1. PICK m \in 1 .. Len(outer) : EndsWith(b[k].entries, outer[m].v)
      <4>1. 0 # NoValue
        BY DEF NoValue
      <4>2. PICK m \in 1 .. Len(outer) :
              outer[m].key = outer[i].key /\ EndsWith(b[outer[i].key].entries, outer[m].v)
        BY <4>1, InProgressEnds
      <4> QED BY <4>2
    <3>2. outer[m].v \in Names
      BY CallTyped
    <3> QED BY <1>2, <2>1, <3>1, <3>2, EndsUse
  <2> QED BY <2>1, <2>2
<1>4. CASE TooManyLevels(b, k, n, outer)
  <2>1. blocks' = b /\ calls' = outer /\ returned' = -1
    BY <1>4 DEF TooManyLevels
  <2>2. Chain(b, outer, -1)
    BY DEF Chain, Ends, AllKept, KeptBy, Keeps, Follows, NoValue
  <2> QED BY <2>1, <2>2 DEF Away
<1>5. CASE Transfer(b, k, n, outer)
  <2> DEFINE c == Call(k, b[k].entries, n - 1)
  <2>1. /\ blocks' = [b EXCEPT ![k].entries = <<>>]
        /\ calls' = Append(outer, c) /\ returned' = NoValue
    BY <1>5 DEF Transfer
  <2>2. c.key = k /\ c.old = b[k].entries
    BY DEF Call
  <2> HIDE DEF c
  <2>3. PICK N \in Nat : N = Len(outer)
    BY <1>1
  <2>4. /\ Len(calls') = N + 1 /\ calls'[N + 1] = c
        /\ \A i \in 1 .. N : calls'[i] = outer[i]
    BY <2>1, <2>3
  <2>5. PICK cs : cs = calls'
    OBVIOUS
  <2>6. PICK b2 : b2 = blocks'
    OBVIOUS
  <2>7. /\ Len(cs) = N + 1 /\ cs[N + 1] = c /\ \A i \in 1 .. N : cs[i] = outer[i]
    BY <2>4, <2>5
  <2>8. \A l \in Keys : l # k => b2[l] = b[l]
    BY <2>1, <2>6 DEF Blocks
  <2>9. Linked(outer) /\ Ends(b, outer, 0) /\ AllKept(b, outer, 0)
    BY DEF Chain
  <2>10. Linked(cs)
    <3> SUFFICES ASSUME NEW i \in 1 .. Len(cs), NEW m \in 1 .. Len(cs), m = i + 1
                 PROVE  cs[m].key = Directive(cs[i])
      BY DEF Linked
    <3>1. i \in 1 .. N /\ cs[i] = outer[i]
      BY <2>7
    <3>2. CASE m = N + 1
      <4>1. i = N /\ outer # <<>>
        BY <2>3, <3>1, <3>2, EmptySeq
      <4> QED BY <2>2, <2>3, <2>7, <3>1, <3>2, <4>1
    <3>3. CASE m # N + 1
      <4>1. m \in 1 .. N
        BY <2>7, <3>3
      <4> QED BY <2>3, <2>7, <2>9, <3>1, <4>1 DEF Linked
    <3> QED BY <3>2, <3>3
  <2>11. Ends(b2, cs, NoValue)
    <3> SUFFICES ASSUME NEW i \in 1 .. Len(cs), Follows(cs, NoValue, i), Topmost(cs, i)
                 PROVE  EndsAt(b2, cs, i)
      BY DEF Ends
    <3>1. i \in 1 .. N /\ cs[i] = outer[i] /\ N + 1 \in 1 .. Len(cs) /\ N + 1 > i
      BY <2>7 DEF Follows
    <3>2. cs[i].key # k
      BY <2>2, <2>7, <3>1 DEF Topmost
    <3>3. Topmost(outer, i) /\ Follows(outer, 0, i)
      BY <2>3, <2>7, <3>1 DEF Topmost, Follows, NoValue
    <3>4. EndsAt(b, outer, i) /\ cs[i].key \in Keys
      BY <2>3, <2>9, <3>1, <3>3, CallTyped DEF Ends
    <3> QED BY <2>8, <3>1, <3>2, <3>4 DEF EndsAt
  <2>12. AllKept(b2, cs, NoValue)
    <3> SUFFICES ASSUME NEW m \in 1 .. Len(cs)
                 PROVE  KeptBy(b2, cs, NoValue, m)
      BY DEF AllKept
    <3>1. CASE m = N + 1
      <4> SUFFICES ASSUME NEW i \in 1 .. Len(cs), NextOf(cs, i, m)
                   PROVE  Keeps(b2, cs, NoValue, i, m)
        BY DEF KeptBy
      <4>1. i \in 1 .. N /\ cs[i] = outer[i] /\ cs[i].key = k
        BY <2>2, <2>7, <3>1 DEF NextOf
      <4>2. Topmost(outer, i)
        <5>1. ASSUME NEW j \in 1 .. Len(outer), j > i
              PROVE  outer[j].key # outer[i].key
          <6>1. j \in 1 .. Len(cs) /\ cs[j] = outer[j] /\ j < m
            BY <2>3, <2>7, <3>1, <5>1
          <6> QED BY <4>1, <5>1, <6>1 DEF NextOf
        <5> QED BY <5>1 DEF Topmost
      <4>3. EndsAt(b, outer, i)
        BY <2>3, <2>9, <4>1, <4>2 DEF Ends, Follows, NoValue
      <4> QED BY <2>2, <2>7, <3>1, <4>1, <4>3 DEF EndsAt, Keeps
    <3>2. CASE m # N + 1
      <4>1. m \in 1 .. N /\ N <= Len(outer) /\ N <= Len(cs) /\ Len(cs) \in Nat
        BY <2>3, <2>7, <3>2
      <4>2. Follows(outer, 0, m) /\ Follows(cs, NoValue, m) /\ KeptBy(b, outer, 0, m)
        BY <2>3, <2>7, <2>9, <4>1 DEF Follows, NoValue, AllKept
      <4> QED BY <1>1, <2>7, <4>1, <4>2, KeptBelow
    <3> QED BY <3>1, <3>2
  <2> QED BY <2>1, <2>5, <2>6, <2>10, <2>11, <2>12 DEF Chain, Away, NoValue
<1> QED BY <1>3, <1>4, <1>5 DEF Enter

(* What replaces the innermost call.                                           *)
LEMMA OuterIs ==
  ASSUME UseTyped, calls # <<>>, NEW c \in ACall, c.key = inner.key
  PROVE  /\ Outer(c) \in Seq(ACall) /\ Swapped(calls, Outer(c), c)
         /\ inner = calls[Len(calls)] /\ Len(calls) \in 1 .. Len(calls)
         /\ Outer(c)[Len(calls)] = c /\ Len(Outer(c)) = Len(calls)
<1>1. /\ Len(calls) \in Nat \ {0} /\ inner = calls[Len(calls)]
      /\ calls \in Seq(ACall)
  BY FrontType DEF UseTyped, inner
<1>3. Len(calls) \in 1 .. Len(calls)
  BY <1>1
<1>2. /\ Outer(c) \in Seq(ACall) /\ Len(Outer(c)) = Len(calls)
      /\ \A j \in 1 .. Len(calls) : Outer(c)[j] = IF j = Len(calls) THEN c ELSE calls[j]
  BY <1>1, <1>3, ExceptSeq DEF Outer
<1> QED BY <1>1, <1>2, <1>3 DEF Swapped

LEMMA WithEntriesIs ==
  ASSUME UseTyped, NEW k \in Keys, blocks[k] \in Block, NEW s
  PROVE  WithEntries(k, s)[k].entries = s /\ Elsewhere(blocks, WithEntries(k, s), k)
BY DEF WithEntries, UseTyped, Blocks, Block, Elsewhere

LEMMA LastOfTail ==
  ASSUME NEW s \in Seq(Entries), s # <<>>, NEW x, EndsWith(s, x)
  PROVE  \/ EndsWith(Tail(s), x)
         \/ Tail(s) = <<>> /\ Head(s) = x
<1>1. Len(s) \in Nat \ {0} /\ s[Len(s)] = x
  BY EmptySeq, LenProperties DEF EndsWith
<1>2. /\ Head(s) = s[1] /\ Tail(s) \in Seq(Entries) /\ Len(Tail(s)) = Len(s) - 1
      /\ \A i \in 1 .. Len(Tail(s)) : Tail(s)[i] = s[i + 1]
  BY HeadTailProperties
<1>3. PICK t \in Seq(Entries) : t = Tail(s)
  BY <1>2
<1>4. /\ Len(t) = Len(s) - 1 /\ Len(t) \in Nat /\ (t = <<>> <=> Len(t) = 0)
      /\ \A i \in 1 .. Len(t) : t[i] = s[i + 1]
  BY <1>2, <1>3, LenProperties, EmptySeq
<1>5. CASE Len(s) = 1
  BY <1>1, <1>2, <1>3, <1>4, <1>5
<1>6. CASE Len(s) # 1
  <2>1. Len(t) \in 1 .. Len(t) /\ Len(t) + 1 = Len(s) /\ t # <<>>
    BY <1>1, <1>4, <1>6
  <2>2. t[Len(t)] = x
    BY <1>1, <1>4, <2>1
  <2> QED BY <1>3, <2>1, <2>2 DEF EndsWith
<1> QED BY <1>5, <1>6

(* An entry is copied back, and if it names a block this is followed.          *)
LEMMA CopyChain ==
  ASSUME UseTyped, Chain(blocks, calls, NoValue), Iterating,
         NEW c \in ACall, c.key = inner.key, c.old = Tail(inner.old), NEW r,
         \/ r = NoValue /\ c.v = inner.v /\ (entry \in Params \/ ~Defined(Named))
         \/ r = 0 /\ c.v = entry
  PROVE  Chain(Copied, Outer(c), r)
<1>1. calls # <<>> /\ inner.old # <<>> /\ calls \in Seq(ACall) /\ Under(blocks, calls)
  BY DEF Iterating, UseTyped
<1>2. inner \in ACall /\ inner.key \in Keys /\ blocks[inner.key] \in Block
  BY <1>1, InnerTyped
<1>3. /\ Swapped(calls, Outer(c), c) /\ inner = calls[Len(calls)]
      /\ Len(calls) \in 1 .. Len(calls) /\ Outer(c)[Len(calls)] = c
      /\ Len(Outer(c)) = Len(calls) /\ Len(calls) \in Nat
  BY <1>1, OuterIs, LenProperties
<1>4. inner.old \in Seq(Entries) /\ blocks[inner.key].entries \in Seq(Entries)
  BY <1>2 DEF ACall, Block
<1>5. entry \in Entries
  BY <1>1, <1>4, HeadTailProperties DEF entry
<1> DEFINE s == Append(blocks[inner.key].entries, entry)
<1>6. EndsWith(s, entry)
  <2>1. s \in Seq(Entries) /\ Len(s) = Len(blocks[inner.key].entries) + 1 /\ s[Len(s)] = entry
    BY <1>4, <1>5, AppendProperties
  <2>2. Len(s) # 0
    BY <1>4, <2>1, LenProperties
  <2> QED BY <2>1, <2>2, EmptySeq DEF EndsWith
<1>7. /\ Copied[inner.key].entries = s
      /\ Elsewhere(blocks, Copied, inner.key)
  BY <1>2, WithEntriesIs DEF Copied
<1> HIDE DEF s
<1>8. r # NoValue => EndsWith(Copied[c.key].entries, c.v)
  BY <1>6, <1>7
<1>9. KeptBy(Copied, Outer(c), r, Len(calls))
  <2> SUFFICES ASSUME NEW i \in 1 .. Len(calls), NextOf(Outer(c), i, Len(calls))
               PROVE  Keeps(Copied, Outer(c), r, i, Len(calls))
    BY <1>3 DEF KeptBy
  <2>1. i < Len(calls) /\ Outer(c)[i] = calls[i] /\ calls[i].key = inner.key
    BY <1>3 DEF NextOf, Swapped
  <2>2. NextOf(calls, i, Len(calls))
    <3>1. ASSUME NEW j \in 1 .. Len(calls), i < j, j < Len(calls)
          PROVE  calls[j].key # calls[Len(calls)].key
      <4>1. Outer(c)[j] = calls[j]
        BY <1>3, <3>1 DEF Swapped
      <4> QED BY <1>3, <3>1, <4>1 DEF NextOf
    <3> QED BY <1>3, <2>1, <3>1 DEF NextOf
  <2>3. Keeps(blocks, calls, NoValue, i, Len(calls))
    BY <1>3, <2>2 DEF Chain, AllKept, KeptBy
  <2>4. EndsWith(inner.old, calls[i].v)
    BY <1>1, <1>3, <2>3 DEF Keeps
  <2>5. CASE EndsWith(Tail(inner.old), calls[i].v)
    BY <1>3, <2>1, <2>5 DEF Keeps
  <2>6. CASE Tail(inner.old) = <<>> /\ entry = calls[i].v
    <3>1. CASE r = 0
      <4>1. /\ Outer(c)[Len(calls)].old = <<>>
            /\ Outer(c)[Len(calls)].v = Outer(c)[i].v
        <5>1. c.old = <<>>
          BY <2>6
        <5>2. c.v = calls[i].v
          BY <2>6, <3>1 DEF NoValue
        <5> QED BY <1>3, <2>1, <5>1, <5>2, Zenon
      <4>2. Follows(Outer(c), r, Len(calls))
        BY <3>1 DEF Follows, NoValue
      <4> QED BY <4>1, <4>2 DEF Keeps
    <3>2. CASE r = NoValue
      <4>1. i + 1 \in 1 .. Len(calls) /\ calls[i].v \in Names
        BY <1>1, <1>3, <2>1, CallTyped
      <4>2. calls[i + 1].key = Named
        BY <2>1, <2>6, <4>1 DEF Chain, Linked, Directive, Named
      <4>3. blocks[Named] \in Block
        BY <1>1, <4>1, <4>2 DEF Under
      <4>4. Defined(Named)
        <5>1. "units" \in DOMAIN blocks[Named] /\ "units" \notin DOMAIN NoParams
          BY <4>3 DEF Block, NoParams
        <5> QED BY <5>1, Zenon DEF Defined
      <4>5. entry \in Params
        BY <3>2, <4>4 DEF NoValue
      <4> QED BY <2>6, <4>1, <4>5, EntriesAssumption
    <3> QED BY <3>1, <3>2
  <2> QED BY <1>1, <1>4, <2>4, <2>5, <2>6, LastOfTail DEF entry
<1> QED BY <1>1, <1>3, <1>7, <1>8, <1>9, SwappedChain

UseInv == Chain(blocks, calls, returned) /\ Away(calls, returned)

LEMMA UseNamedInv ==
  ASSUME UseTyped, UseInv, UseNamed
  PROVE  UseInv'
<1>1. calls # <<>> /\ inner.old # <<>> /\ returned = NoValue /\ calls \in Seq(ACall)
  BY DEF UseNamed, Iterating, UseTyped
<1>2. inner \in ACall /\ inner.key \in Keys /\ blocks[inner.key] \in Block
  BY <1>1, InnerTyped
<1>3. inner.old \in Seq(Entries) /\ Tail(inner.old) \in Seq(Entries)
  BY <1>1, <1>2, HeadTailProperties DEF ACall
<1> DEFINE c == [inner EXCEPT !.old = Tail(@), !.v = entry]
<1>4. /\ entry \in Names /\ Defined(Named) /\ Iterating
      /\ Enter(Copied, Named, inner.count, Outer(c))
  BY DEF UseNamed
<1>5. /\ c \in ACall /\ c.key = inner.key /\ c.old = Tail(inner.old) /\ c.v = entry
      /\ inner.count \in 0 .. Levels
  BY <1>2, <1>3, <1>4 DEF ACall
<1> HIDE DEF c
<1>6. Chain(Copied, Outer(c), 0)
  BY <1>1, <1>4, <1>5, CopyChain DEF UseInv
<1>7. Outer(c) \in Seq(ACall) /\ Outer(c)[Len(Outer(c))] = c
  BY <1>1, <1>5, OuterIs
<1>8. blocks \in Blocks /\ Named \in Keys
  BY <1>2, <1>4 DEF Named, Keys, UseTyped
<1>9. blocks[Named] \in Block
  BY <1>4, <1>8, BlockOrNot DEF Defined
<1>10. Append(blocks[inner.key].entries, entry) \in Seq(Entries)
  <2>1. blocks[inner.key].entries \in Seq(Entries) /\ entry \in Entries
    BY <1>2, <1>4 DEF Block, Entries
  <2> QED BY <2>1, AppendProperties
<1>11. Copied \in Blocks /\ Copied[Named] \in Block
  BY <1>2, <1>8, <1>9, <1>10, WithEntriesTyped DEF Copied
<1>12. Named = Directive(Outer(c)[Len(Outer(c))])
  BY <1>5, <1>7 DEF Named, Directive
<1>13. Chain(blocks', calls', returned') /\ Away(calls', returned')
  BY <1>4, <1>5, <1>6, <1>7, <1>8, <1>11, <1>12, EnterChain
<1> QED BY <1>13 DEF UseInv

LEMMA CopyInv ==
  ASSUME UseTyped, UseInv, CopyParam \/ UseNotFound
  PROVE  UseInv'
<1>1. /\ calls # <<>> /\ inner.old # <<>> /\ returned = NoValue /\ calls \in Seq(ACall)
      /\ Iterating
  BY DEF CopyParam, UseNotFound, Iterating, UseTyped
<1>2. inner \in ACall
  BY <1>1, InnerTyped
<1>3. inner.old \in Seq(Entries) /\ Tail(inner.old) \in Seq(Entries)
  BY <1>1, <1>2, HeadTailProperties DEF ACall
<1> DEFINE c == [inner EXCEPT !.old = Tail(@)]
<1>4. c \in ACall /\ c.key = inner.key /\ c.old = Tail(inner.old) /\ c.v = inner.v
  BY <1>2, <1>3 DEF ACall
<1>5. /\ blocks' = Copied /\ calls' = Outer(c) /\ returned' = returned
      /\ entry \in Params \/ ~Defined(Named)
  BY DEF CopyParam, UseNotFound
<1> HIDE DEF c
<1>6. Chain(Copied, Outer(c), NoValue)
  BY <1>1, <1>4, <1>5, CopyChain DEF UseInv
<1> QED BY <1>1, <1>5, <1>6 DEF UseInv, Away, NoValue

(* The innermost call has the answer to the directive it followed: no entry is *)
(* left in the blocks that waited for its own only because of that directive.  *)
LEMMA ReplaceInv ==
  ASSUME UseTyped, UseInv, ReplaceUse
  PROVE  UseInv'
<1>1. /\ calls # <<>> /\ returned # NoValue /\ returned >= 0 /\ calls \in Seq(ACall)
      /\ calls' = calls /\ returned' = NoValue
  BY DEF ReplaceUse, Resuming, UseTyped
<1> DEFINE s == Front(blocks[inner.key].entries) \o Uparams.entries
<1>2. blocks' = WithEntries(inner.key, s)
  BY DEF ReplaceUse
<1> HIDE DEF s
<1>3. inner \in ACall /\ inner.key \in Keys /\ blocks[inner.key] \in Block
  BY <1>1, InnerTyped
<1>4. Elsewhere(blocks, blocks', inner.key)
  BY <1>2, <1>3, WithEntriesIs
<1>5. /\ inner = calls[Len(calls)] /\ Len(calls) \in 1 .. Len(calls) /\ Len(calls) \in Nat
  BY <1>1, <1>3, OuterIs, LenProperties
<1>6. Swapped(calls, calls, inner)
  BY <1>5 DEF Swapped
<1>7. KeptBy(blocks', calls, NoValue, Len(calls))
  <2> SUFFICES ASSUME NEW i \in 1 .. Len(calls), NextOf(calls, i, Len(calls))
               PROVE  Keeps(blocks', calls, NoValue, i, Len(calls))
    BY DEF KeptBy
  <2>1. Keeps(blocks, calls, returned, i, Len(calls))
    BY <1>5 DEF UseInv, Chain, AllKept, KeptBy
  <2>2. i < Len(calls) /\ calls[i].key = inner.key
    BY <1>5 DEF NextOf
  <2>3. inner.v # calls[i].v
    <3> SUFFICES ASSUME inner.v = calls[i].v
                 PROVE  FALSE
      OBVIOUS
    <3>1. i + 1 \in 1 .. Len(calls)
      BY <1>5, <2>2
    <3>2. calls[i + 1].key = Directive(inner)
      BY <2>2, <3>1 DEF UseInv, Chain, Linked, Directive
    <3>3. calls[i + 1].key # Directive(inner)
      BY <1>1, <1>5, <3>1 DEF UseInv, Away
    <3> QED BY <3>2, <3>3
  <2>4. EndsWith(inner.old, calls[i].v)
    BY <1>1, <1>5, <2>1, <2>3 DEF Keeps, Follows
  <2> QED BY <1>5, <2>4 DEF Keeps
<1>8. PICK b2 : b2 = blocks'
  OBVIOUS
<1>9. Chain(b2, calls, NoValue)
  BY <1>1, <1>4, <1>5, <1>6, <1>7, <1>8, SwappedChain DEF UseInv
<1> QED BY <1>1, <1>8, <1>9 DEF UseInv, Away, NoValue

LEMMA KeepInv ==
  ASSUME UseTyped, UseInv, KeepUse
  PROVE  UseInv'
<1> DEFINE c == [inner EXCEPT !.status = -1]
<1>1. /\ calls # <<>> /\ returned # NoValue /\ calls \in Seq(ACall)
      /\ calls' = Outer(c) /\ returned' = NoValue /\ blocks' = blocks
  BY DEF KeepUse, Resuming, UseTyped
<1>2. inner \in ACall
  BY <1>1, InnerTyped
<1>3. /\ c \in ACall /\ c.key = inner.key /\ c.old = inner.old /\ c.v = inner.v
      /\ c.status = -1
  BY <1>2 DEF ACall
<1> HIDE DEF c
<1>4. /\ Swapped(calls, Outer(c), c) /\ inner = calls[Len(calls)]
      /\ Len(calls) \in 1 .. Len(calls) /\ Outer(c)[Len(calls)] = c
      /\ Len(Outer(c)) = Len(calls) /\ Len(calls) \in Nat
  BY <1>1, <1>3, OuterIs, LenProperties
<1>5. EndsWith(blocks[inner.key].entries, inner.v)
  <2>1. Topmost(calls, Len(calls)) /\ Follows(calls, returned, Len(calls))
    BY <1>1, <1>4 DEF Topmost, Follows
  <2>2. EndsAt(blocks, calls, Len(calls))
    BY <1>4, <2>1 DEF UseInv, Chain, Ends
  <2> QED BY <1>4, <2>2 DEF EndsAt
<1>6. KeptBy(blocks, Outer(c), NoValue, Len(calls))
  <2> SUFFICES ASSUME NEW i \in 1 .. Len(calls), NextOf(Outer(c), i, Len(calls))
               PROVE  Keeps(blocks, Outer(c), NoValue, i, Len(calls))
    BY <1>4 DEF KeptBy
  <2>1. i < Len(calls) /\ Outer(c)[i] = calls[i] /\ calls[i].key = inner.key
    BY <1>3, <1>4 DEF NextOf, Swapped
  <2>2. NextOf(calls, i, Len(calls))
    <3>1. ASSUME NEW j \in 1 .. Len(calls), i < j, j < Len(calls)
          PROVE  calls[j].key # calls[Len(calls)].key
      <4>1. Outer(c)[j] = calls[j]
        BY <1>4, <3>1 DEF Swapped
      <4> QED BY <1>3, <1>4, <3>1, <4>1 DEF NextOf
    <3> QED BY <1>4, <2>1, <3>1 DEF NextOf
  <2>3. Keeps(blocks, calls, returned, i, Len(calls))
    BY <1>4, <2>2 DEF UseInv, Chain, AllKept, KeptBy
  <2>4. \/ EndsWith(c.old, calls[i].v)
        \/ c.old = <<>> /\ c.v = calls[i].v
    BY <1>1, <1>3, <1>4, <2>3 DEF Keeps, Follows
  <2>5. ~Follows(Outer(c), NoValue, Len(calls))
    BY <1>4 DEF Follows
  <2> QED BY <1>3, <1>4, <1>5, <2>1, <2>4, <2>5 DEF Keeps
<1>7. Chain(blocks, Outer(c), NoValue)
  <2>1. Elsewhere(blocks, blocks, c.key)
    BY DEF Elsewhere
  <2> QED BY <1>1, <1>3, <1>4, <1>6, <2>1, SwappedChain DEF UseInv
<1> QED BY <1>1, <1>7 DEF UseInv, Away, NoValue

(* A call that entered a block once more and did not succeed left the          *)
(* directive where it was; one that succeeded left no call of its block below. *)
LEMMA ReturnInv ==
  ASSUME UseTyped, UseInv, UseReturn
  PROVE  UseInv'
<1>1. /\ calls # <<>> /\ returned = NoValue /\ inner.old = <<>> /\ calls \in Seq(ACall)
      /\ returned' = IF inner.status = 0 THEN Use(blocks[inner.key].entries) ELSE -1
      /\ calls' = Front(calls) /\ blocks' = blocks
  BY DEF UseReturn, UseTyped
<1>2. /\ inner \in ACall /\ inner.key \in Keys /\ blocks[inner.key] \in Block
      /\ inner = calls[Len(calls)] /\ Len(calls) \in 1 .. Len(calls) /\ Len(calls) \in Nat
  <2>1. inner \in ACall /\ inner.key \in Keys /\ blocks[inner.key] \in Block
    BY <1>1, InnerTyped
  <2> QED BY <1>1, <2>1, OuterIs, LenProperties
<1>3. /\ returned' # NoValue /\ (returned' >= 0 => inner.status = 0)
  <2>1. Use(blocks[inner.key].entries) \in Nat
    BY <1>2, UseNat DEF Block
  <2> QED BY <1>1, <2>1 DEF NoValue
<1>4. PICK n \in Nat : n = Len(calls) - 1
  <2>1. Len(calls) - 1 \in Nat
    BY <1>2
  <2> QED BY <2>1
<1>5. PICK cs \in Seq(ACall) : cs = Front(calls)
  BY <1>1, FrontType
<1>6. PICK r : r = returned'
  OBVIOUS
<1>7. Len(cs) = n /\ Len(calls) = n + 1 /\ \A i \in 1 .. n : cs[i] = calls[i]
  BY <1>1, <1>2, <1>4, <1>5, FrontType
<1>8. Linked(calls) /\ Ends(blocks, calls, NoValue) /\ AllKept(blocks, calls, NoValue)
  BY <1>1 DEF UseInv, Chain
<1>9. ASSUME NEW i \in 1 .. n, NextOf(calls, i, Len(calls))
      PROVE  inner.status = -1 /\ EndsWith(blocks[inner.key].entries, calls[i].v)
  <2>1. Keeps(blocks, calls, NoValue, i, Len(calls))
    BY <1>2, <1>7, <1>8, <1>9 DEF AllKept, KeptBy
  <2>2. ~EndsWith(inner.old, calls[i].v) /\ ~Follows(calls, NoValue, Len(calls))
    BY <1>1, <1>2 DEF EndsWith, Follows
  <2> QED BY <1>2, <2>1, <2>2 DEF Keeps
<1>10. Linked(cs)
  BY <1>7, <1>8 DEF Linked
<1>11. Ends(blocks, cs, r)
  <2> SUFFICES ASSUME NEW i \in 1 .. Len(cs), Topmost(cs, i)
               PROVE  EndsAt(blocks, cs, i)
    BY DEF Ends
  <2>1. i \in 1 .. n /\ cs[i] = calls[i] /\ i \in 1 .. Len(calls) /\ i < Len(calls)
    BY <1>7
  <2>2. ASSUME NEW j \in 1 .. Len(calls), j > i, j < Len(calls)
        PROVE  calls[j].key # calls[i].key
    <3>1. j \in 1 .. Len(cs) /\ cs[j] = calls[j]
      BY <1>7, <2>2
    <3> QED BY <2>1, <2>2, <3>1 DEF Topmost
  <2>3. CASE calls[i].key = inner.key
    <3>1. NextOf(calls, i, Len(calls))
      BY <1>2, <2>1, <2>2, <2>3 DEF NextOf
    <3> QED BY <1>9, <2>1, <2>3, <3>1 DEF EndsAt
  <2>4. CASE calls[i].key # inner.key
    <3>1. ASSUME NEW j \in 1 .. Len(calls), j > i
          PROVE  calls[j].key # calls[i].key
      <4>1. CASE j = Len(calls)
        BY <1>2, <2>4, <4>1
      <4>2. CASE j # Len(calls)
        BY <1>2, <2>2, <3>1, <4>2
      <4> QED BY <4>1, <4>2
    <3>2. Topmost(calls, i) /\ Follows(calls, NoValue, i)
      BY <2>1, <3>1 DEF Topmost, Follows
    <3>3. EndsAt(blocks, calls, i)
      BY <1>8, <2>1, <3>2 DEF Ends
    <3> QED BY <2>1, <3>3 DEF EndsAt
  <2> QED BY <2>3, <2>4
<1>12. AllKept(blocks, cs, r)
  <2> SUFFICES ASSUME NEW k \in 1 .. Len(cs)
               PROVE  KeptBy(blocks, cs, r, k)
    BY DEF AllKept
  <2>1. /\ k \in 1 .. n /\ k \in 1 .. Len(calls) /\ n <= Len(calls) /\ n <= Len(cs)
        /\ Len(cs) \in Nat /\ k < Len(calls)
    BY <1>7
  <2>2. Follows(calls, NoValue, k) /\ Follows(cs, r, k) /\ KeptBy(blocks, calls, NoValue, k)
    BY <1>3, <1>6, <1>8, <2>1 DEF Follows, AllKept
  <2> QED BY <1>2, <1>7, <2>1, <2>2, KeptBelow
<1>13. Away(cs, r)
  <2> SUFFICES ASSUME cs # <<>>, r >= 0,
                      NEW i \in 1 .. Len(cs), cs[i].key = Directive(cs[Len(cs)])
               PROVE  FALSE
    BY DEF Away
  <2>1. /\ i \in 1 .. Len(calls) /\ i < Len(calls) /\ cs[i] = calls[i]
        /\ n \in 1 .. n /\ n \in 1 .. Len(calls)
    BY <1>7
  <2>2. calls[i].key = calls[Len(calls)].key
    BY <1>2, <1>7, <1>8, <2>1 DEF Linked
  <2>3. PICK m \in 1 .. Len(calls) : NextOf(calls, m, Len(calls))
    BY <1>2, <2>1, <2>2, NextIs
  <2>4. m \in 1 .. n
    BY <1>7, <2>3 DEF NextOf
  <2>5. inner.status = -1
    BY <1>9, <2>3, <2>4
  <2> QED BY <1>3, <1>6, <2>5
<1> QED BY <1>1, <1>5, <1>6, <1>10, <1>11, <1>12, <1>13 DEF UseInv, Chain

LEMMA UseStepInv ==
  ASSUME UseTyped, UseInv, UseStep
  PROVE  UseInv'
BY UseNamedInv, CopyInv, ReplaceInv, KeepInv, ReturnInv DEF UseStep

LEMMA NoCalls ==
  ASSUME NEW b, NEW r
  PROVE  Chain(b, <<>>, r) /\ Away(<<>>, r)
<1>1. Len(<<>>) = 0
  BY EmptySeq
<1> QED BY <1>1 DEF Chain, Linked, Ends, AllKept, Away

(* The calls of Use know this of each other at every step of every fetch.      *)
LEMMA UseInvariance == Spec => []UseInv
<1>1. Init => UseInv
  BY NoCalls DEF Init, UseInv
<1>2. IInv /\ UseInv /\ [Next]_vars_all => UseInv'
  <2> SUFFICES ASSUME IInv, UseInv, [Next]_vars_all
               PROVE  UseInv'
    OBVIOUS
  <2>1. UseTyped /\ Sequential
    BY DEF IInv
  <2>2. ASSUME calls' = <<>>
        PROVE  UseInv'
    BY <2>2, NoCalls DEF UseInv
  <2>3. ASSUME UNCHANGED <<blocks, use_vars>>
        PROVE  UseInv'
    BY <2>3 DEF UseInv, use_vars
  <2>4. CASE CallRead
    BY <2>1, <2>2, <2>4 DEF CallRead, Unfetched, use_vars, NewCall, Idle, Sequential
  <2>5. CASE Fetch
    <3>1. PICK kind \in Kinds, k \in Keys :
            NotFound(kind, k) \/ Kept(kind, k) \/ NotLoaded(kind, k) \/ Expand(kind, k)
      BY <2>5 DEF Fetch
    <3>2. CASE Expand(kind, k)
      <4>1. Enter(blocks, k, Levels, <<>>) /\ Defined(k)
        BY <3>2 DEF Expand
      <4>2. blocks \in Blocks /\ blocks[k] \in Block
        BY <2>1, <4>1, BlockOrNot DEF UseTyped, Defined
      <4>3. Levels \in 0 .. Levels /\ <<>> \in Seq(ACall)
        BY LevelsAssumption, EmptySeq
      <4>4. Chain(blocks, <<>>, 0)
        BY NoCalls
      <4>5. Chain(blocks', calls', returned') /\ Away(calls', returned')
        BY <4>1, <4>2, <4>3, <4>4, EnterChain
      <4> QED BY <4>5 DEF UseInv
    <3> QED BY <2>3, <3>1, <3>2 DEF NotFound, Kept, NotLoaded
  <2>6. CASE Reading
    <3>1. reading
      BY <2>6 DEF Reading, ReadStep, ReadNext, Include, SetBase, SetUnits, BadStatement,
                  AlreadyDefined, StoreParameters, CloseFile, ReadReturn, AtStatement, IInv, ReadTyped
    <3> QED BY <2>1, <2>2, <2>6, <3>1 DEF Reading, Unfetched, use_vars, Sequential
  <2>7. CASE Expanding
    BY <2>1, <2>7, UseStepInv DEF Expanding
  <2>8. CASE Answering
    BY <2>2, <2>8 DEF Answering, UseFailed, GiveParams, InitializeFailed, GiveObj, Give,
                      Expanded
  <2>9. CASE UNCHANGED vars_all
    BY <2>3, <2>9 DEF vars_all
  <2> QED BY <2>4, <2>5, <2>6, <2>7, <2>8, <2>9 DEF Next, Working
<1> QED BY <1>1, <1>2, Invariance, PTL DEF Spec

(* The entries of a block are never appended to a block that is being expanded *)
(* on its behalf (ReplaceUse): whatever the blocks and however they refer to   *)
(* each other, no call of Use that succeeds has its block expanded below it.   *)
THEOREM NeverIntoItselfHolds == Spec => []NeverIntoItself
<1>1. IInv /\ UseInv => NeverIntoItself
  <2> SUFFICES ASSUME IInv, UseInv, calls # <<>>, returned >= 0, NEW i \in DOMAIN calls
               PROVE  calls[i].key # <<inner.key[1], inner.v>>
    BY DEF NeverIntoItself, Resuming
  <2>1. calls \in Seq(ACall)
    BY DEF IInv, UseTyped
  <2>2. i \in 1 .. Len(calls) /\ inner = calls[Len(calls)]
    BY <2>1, FrontType, LenProperties DEF inner
  <2> QED BY <2>2 DEF UseInv, Away, Directive
<1> QED BY <1>1, UseInvariance, Invariance, PTL

-----------------------------------------------------------------------------
LEMMA Counting ==
  ASSUME NEW T \in SUBSET Nat, 0 \in T, \A n \in T : n + 1 \in T
  PROVE  \A n \in Nat : n \in T
<1> SUFFICES ASSUME Nat \ T # {}
             PROVE  FALSE
  OBVIOUS
<1>1. PICK x \in Nat \ T : \A y \in Nat \ T : x <= y
  <2>1. Nat \ T \in SUBSET Nat
    OBVIOUS
  <2> QED BY <2>1, Least
<1>2. x # 0 /\ x \in Nat
  OBVIOUS
<1>3. x - 1 \in Nat /\ ~(x <= x - 1)
  BY <1>2
<1>4. x - 1 \in T
  BY <1>1, <1>3
<1>5. x - 1 + 1 = x
  BY <1>2
<1> QED BY <1>4, <1>5

(*******************************************************************************)
(* Resolved: the recursion has a solution, whose sets grow and stop growing.   *)
(*******************************************************************************)
(* The blocks of b whose directives, if any, are in S (and n # 0).             *)
Within(b, n, S) ==
  {k \in Keys : /\ b[k] # NoParams
                /\ \A i \in UsesOf(b[k].entries) : n > 0 /\ <<k[1], b[k].entries[i]>> \in S}

Partial(b, f, n) ==
  f \in [0 .. n -> SUBSET Keys] /\ \A m \in 0 .. n : f[m] = Within(b, m, f[m - 1])

LEMMA WithinZero ==
  ASSUME NEW b, NEW S, NEW S2
  PROVE  Within(b, 0, S) = Within(b, 0, S2)
BY DEF Within

LEMMA WithinGrows ==
  ASSUME NEW b, NEW n \in Nat, NEW n2 \in Nat, NEW S, NEW S2,
         n > 0 => n2 > 0 /\ S \subseteq S2
  PROVE  Within(b, n, S) \subseteq Within(b, n2, S2)
<1> SUFFICES ASSUME NEW k \in Keys, b[k] # NoParams, NEW i \in UsesOf(b[k].entries),
                    n > 0, <<k[1], b[k].entries[i]>> \in S
             PROVE  n2 > 0 /\ <<k[1], b[k].entries[i]>> \in S2
  BY Zenon DEF Within
<1> QED OBVIOUS

LEMMA PartialIs ==
  ASSUME NEW b
  PROVE  \A n \in Nat : \E f : Partial(b, f, n)
<1> DEFINE T == {n \in Nat : \E f : Partial(b, f, n)}
<1>1. 0 \in T
  <2> DEFINE f == [m \in 0 .. 0 |-> Within(b, 0, {})]
  <2>1. Within(b, 0, {}) \in SUBSET Keys
    BY DEF Within
  <2>2. f \in [0 .. 0 -> SUBSET Keys] /\ f[0] = Within(b, 0, {})
    BY <2>1
  <2>3. f[0] = Within(b, 0, f[0 - 1])
    BY <2>2, WithinZero
  <2> HIDE DEF f
  <2>4. Partial(b, f, 0)
    BY <2>2, <2>3 DEF Partial
  <2> QED BY <2>4
<1>2. ASSUME NEW n \in T
      PROVE  n + 1 \in T
  <2>1. n \in Nat
    OBVIOUS
  <2>2. PICK f : Partial(b, f, n)
    OBVIOUS
  <2> DEFINE g == [m \in 0 .. n + 1 |-> IF m = n + 1 THEN Within(b, n + 1, f[n]) ELSE f[m]]
  <2>3. Within(b, n + 1, f[n]) \in SUBSET Keys
    BY DEF Within
  <2>4. f \in [0 .. n -> SUBSET Keys] /\ \A m \in 0 .. n : f[m] = Within(b, m, f[m - 1])
    BY <2>2 DEF Partial
  <2>5. /\ g \in [0 .. n + 1 -> SUBSET Keys] /\ g[n + 1] = Within(b, n + 1, f[n])
        /\ \A m \in 0 .. n : g[m] = f[m]
    <3>1. \A m \in 0 .. n + 1 : m # n + 1 => m \in 0 .. n
      BY <2>1
    <3>2. n + 1 \in 0 .. n + 1 /\ \A m \in 0 .. n : m \in 0 .. n + 1 /\ m # n + 1
      BY <2>1
    <3> QED BY <2>3, <2>4, <3>1, <3>2
  <2> HIDE DEF g
  <2>6. ASSUME NEW m \in 0 .. n + 1
        PROVE  g[m] = Within(b, m, g[m - 1])
    <3>1. CASE m = n + 1
      <4>1. m - 1 = n /\ n \in 0 .. n
        BY <2>1, <3>1
      <4> QED BY <2>5, <3>1, <4>1
    <3>2. CASE m = 0
      <4>1. m \in 0 .. n
        BY <2>1, <3>2
      <4>2. g[m] = Within(b, 0, f[m - 1])
        BY <2>4, <2>5, <3>2, <4>1
      <4>3. g[m] = Within(b, 0, g[m - 1])
        BY <4>2, WithinZero
      <4> QED BY <3>2, <4>3
    <3>3. CASE m # n + 1 /\ m # 0
      <4>1. m \in 0 .. n /\ m - 1 \in 0 .. n
        BY <2>1, <3>3
      <4> QED BY <2>4, <2>5, <4>1
    <3> QED BY <3>1, <3>2, <3>3
  <2>7. Partial(b, g, n + 1)
    BY <2>5, <2>6 DEF Partial
  <2> QED BY <2>1, <2>7
<1>3. T \in SUBSET Nat
  OBVIOUS
<1> HIDE DEF T
<1>4. \A n \in Nat : n \in T
  BY <1>1, <1>2, <1>3, Counting
<1> QED BY <1>4 DEF T

LEMMA PartialUnique ==
  ASSUME NEW b, NEW n \in Nat, NEW p \in Nat, NEW f, NEW g, Partial(b, f, n), Partial(b, g, p)
  PROVE  \A m \in Nat : m <= n /\ m <= p => f[m] = g[m]
<1> DEFINE T == {m \in Nat : m <= n /\ m <= p => f[m] = g[m]}
<1>1. 0 \in T
  <2>1. f[0] = Within(b, 0, f[0 - 1]) /\ g[0] = Within(b, 0, g[0 - 1])
    BY DEF Partial
  <2> QED BY <2>1, WithinZero
<1>2. ASSUME NEW m \in T
      PROVE  m + 1 \in T
  <2> SUFFICES ASSUME m + 1 <= n, m + 1 <= p
               PROVE  f[m + 1] = g[m + 1]
    OBVIOUS
  <2>1. m \in Nat /\ m + 1 \in 0 .. n /\ m + 1 \in 0 .. p /\ m + 1 - 1 = m
    OBVIOUS
  <2>2. f[m] = g[m]
    BY <2>1
  <2>3. f[m + 1] = Within(b, m + 1, f[m + 1 - 1]) /\ g[m + 1] = Within(b, m + 1, g[m + 1 - 1])
    BY <2>1 DEF Partial
  <2> QED BY <2>1, <2>2, <2>3
<1>3. T \in SUBSET Nat
  OBVIOUS
<1> HIDE DEF T
<1>4. \A m \in Nat : m \in T
  BY <1>1, <1>2, <1>3, Counting
<1> QED BY <1>4 DEF T

(* R has the levels of the blocks b.                                           *)
Recurs(b, R) == R = [n \in Nat |-> Within(b, n, R[n - 1])]

LEMMA LevelsExist ==
  ASSUME NEW b
  PROVE  \E R : Recurs(b, R)
<1> DEFINE f(n) == CHOOSE g : Partial(b, g, n)
           F == [n \in Nat |-> f(n)[n]]
<1>1. ASSUME NEW n \in Nat
      PROVE  Partial(b, f(n), n)
  BY PartialIs
<1> HIDE DEF f
<1>2. ASSUME NEW n \in Nat
      PROVE  F[n] = Within(b, n, F[n - 1])
  <2>1. Partial(b, f(n), n) /\ n \in 0 .. n
    BY <1>1
  <2>2. F[n] = Within(b, n, f(n)[n - 1])
    BY <2>1 DEF Partial
  <2>3. CASE n = 0
    BY <2>2, <2>3, WithinZero
  <2>4. CASE n # 0
    <3>1. n - 1 \in Nat /\ n - 1 <= n /\ n - 1 <= n - 1
      BY <2>4
    <3>2. Partial(b, f(n - 1), n - 1)
      BY <1>1, <3>1
    <3>3. f(n)[n - 1] = f(n - 1)[n - 1]
      BY <2>1, <3>1, <3>2, PartialUnique
    <3>4. F[n - 1] = f(n - 1)[n - 1]
      BY <3>1
    <3> QED BY <2>2, <3>3, <3>4
  <2> QED BY <2>3, <2>4
<1>3. F = [n \in Nat |-> Within(b, n, F[n - 1])]
  BY <1>2
<1> HIDE DEF F
<1> QED BY <1>3 DEF Recurs

LEMMA ResolvedRecurs == Recurs(blocks, Resolved)
<1>1. Resolved = CHOOSE R : Recurs(blocks, R)
  BY DEF Resolved, Recurs, Within, Defined
<1> QED BY <1>1, LevelsExist

LEMMA LevelIs ==
  ASSUME NEW b, NEW R, Recurs(b, R), NEW n \in Nat
  PROVE  /\ R[n] = Within(b, n, R[n - 1]) /\ R[n] \in SUBSET Keys
         /\ R[n + 1] = Within(b, n + 1, R[n])
<1>1. \A m \in Nat : R[m] = Within(b, m, R[m - 1])
  BY DEF Recurs
<1>2. n + 1 \in Nat /\ n + 1 - 1 = n
  OBVIOUS
<1>3. R[n + 1] = Within(b, n + 1, R[n + 1 - 1])
  BY <1>1, <1>2
<1>4. R[n] = Within(b, n, R[n - 1])
  BY <1>1
<1>5. Within(b, n, R[n - 1]) \in SUBSET Keys
  BY DEF Within
<1> QED BY <1>2, <1>3, <1>4, <1>5

LEMMA LevelsGrow ==
  ASSUME NEW b, NEW R, Recurs(b, R)
  PROVE  \A n \in Nat : R[n] \subseteq R[n + 1]
<1> DEFINE T == {n \in Nat : R[n] \subseteq R[n + 1]}
<1>1. 0 \in T
  <2>1. R[0] = Within(b, 0, R[0 - 1]) /\ R[0 + 1] = Within(b, 0 + 1, R[0])
    BY LevelIs
  <2> QED BY <2>1, WithinGrows
<1>2. ASSUME NEW n \in T
      PROVE  n + 1 \in T
  <2>1. n \in Nat /\ n + 1 \in Nat /\ R[n] \subseteq R[n + 1]
    OBVIOUS
  <2>2. R[n + 1] = Within(b, n + 1, R[n])
    BY <2>1, LevelIs
  <2>3. R[n + 1 + 1] = Within(b, n + 1 + 1, R[n + 1])
    BY <2>1, LevelIs
  <2>4. R[n + 1] \subseteq R[n + 1 + 1]
    <3>1. n + 1 > 0 => n + 1 + 1 > 0
      BY <2>1
    <3>2. Within(b, n + 1, R[n]) \subseteq Within(b, n + 1 + 1, R[n + 1])
      BY <2>1, <3>1, WithinGrows
    <3> QED BY <2>2, <2>3, <3>2
  <2> QED BY <2>1, <2>4
<1>3. T \in SUBSET Nat
  OBVIOUS
<1> HIDE DEF T
<1>4. \A n \in Nat : n \in T
  BY <1>1, <1>2, <1>3, Counting
<1> QED BY <1>4 DEF T

(* There are no more levels than blocks.                                       *)
LEMMA LevelsStop ==
  ASSUME NEW b, NEW R, Recurs(b, R), NEW N \in Nat, N = Cardinality(Keys)
  PROVE  R[N + 1] = R[N]
<1> SUFFICES ASSUME R[N + 1] # R[N]
             PROVE  FALSE
  OBVIOUS
<1>1. ASSUME NEW n \in Nat, n <= N, R[n + 1] = R[n]
      PROVE  FALSE
  <2> DEFINE T == {d \in Nat : R[n + d + 1] = R[n + d]}
  <2>1. 0 \in T
    BY <1>1
  <2>2. ASSUME NEW d \in T
        PROVE  d + 1 \in T
    <3>1. d \in Nat /\ n + d \in Nat /\ n + d + 1 \in Nat /\ R[n + d + 1] = R[n + d]
      OBVIOUS
    <3>2. R[n + d + 1] = Within(b, n + d + 1, R[n + d])
      BY <3>1, LevelIs
    <3>3. R[n + d + 1 + 1] = Within(b, n + d + 1 + 1, R[n + d + 1])
      BY <3>1, LevelIs
    <3>4. Within(b, n + d + 1 + 1, R[n + d]) = Within(b, n + d + 1, R[n + d])
      <4>1. n + d + 1 > 0 /\ n + d + 1 + 1 > 0
        BY <3>1
      <4> QED BY <4>1, Zenon DEF Within
    <3>5. n + (d + 1) + 1 = n + d + 1 + 1 /\ n + (d + 1) = n + d + 1
      BY <3>1
    <3>6. R[n + (d + 1) + 1] = R[n + (d + 1)]
      BY <3>1, <3>2, <3>3, <3>4, <3>5
    <3> QED BY <3>1, <3>6
  <2>3. T \in SUBSET Nat
    OBVIOUS
  <2> HIDE DEF T
  <2>4. \A d \in Nat : d \in T
    BY <2>1, <2>2, <2>3, Counting
  <2>5. N - n \in Nat /\ n + (N - n) = N
    BY <1>1
  <2>6. R[n + (N - n) + 1] = R[n + (N - n)]
    BY <2>4, <2>5 DEF T
  <2> QED BY <2>5, <2>6
<1>2. \A n \in Nat : R[n] \in SUBSET Keys /\ IsFiniteSet(R[n]) /\ Cardinality(R[n]) \in Nat
  <2> SUFFICES ASSUME NEW n \in Nat
               PROVE  R[n] \in SUBSET Keys /\ IsFiniteSet(R[n]) /\ Cardinality(R[n]) \in Nat
    OBVIOUS
  <2>1. R[n] \in SUBSET Keys
    BY LevelIs
  <2>2. IsFiniteSet(R[n])
    BY <2>1, KeysAssumption, FS_Subset
  <2> QED BY <2>1, <2>2, FS_CardinalityType
<1> DEFINE T == {n \in Nat : n <= N + 1 => Cardinality(R[n]) >= n}
<1>3. 0 \in T
  BY <1>2
<1>4. ASSUME NEW n \in T
      PROVE  n + 1 \in T
  <2> SUFFICES ASSUME n + 1 <= N + 1
               PROVE  Cardinality(R[n + 1]) >= n + 1
    OBVIOUS
  <2>1. n \in Nat /\ n + 1 \in Nat /\ n <= N /\ Cardinality(R[n]) >= n
    OBVIOUS
  <2>2. R[n] \subseteq R[n + 1] /\ R[n] # R[n + 1]
    BY <1>1, <2>1, LevelsGrow
  <2>3. /\ Cardinality(R[n]) <= Cardinality(R[n + 1])
        /\ Cardinality(R[n]) # Cardinality(R[n + 1])
    BY <1>2, <2>1, <2>2, FS_Subset
  <2>4. Cardinality(R[n]) \in Nat /\ Cardinality(R[n + 1]) \in Nat
    BY <1>2, <2>1
  <2> HIDE DEF T
  <2> QED BY <2>1, <2>3, <2>4
<1>5. T \in SUBSET Nat
  OBVIOUS
<1> HIDE DEF T
<1>6. \A n \in Nat : n \in T
  BY <1>3, <1>4, <1>5, Counting
<1>7. N + 1 \in T /\ N + 1 \in Nat
  BY <1>6
<1>8. Cardinality(R[N + 1]) >= N + 1
  BY <1>7 DEF T
<1>9. Cardinality(R[N + 1]) <= N /\ Cardinality(R[N + 1]) \in Nat
  BY <1>2, <1>7, KeysAssumption, FS_Subset
<1> QED BY <1>8, <1>9

(*******************************************************************************)
(* The directives of a block, those included that calls have still to copy     *)
(* back.                                                                       *)
(*******************************************************************************)
Refers(s, k, u) == \E i \in UsesOf(s) : u = <<k[1], s[i]>>
Held(b, cs, k, u) ==
  \/ Refers(b[k].entries, k, u)
  \/ \E i \in 1 .. Len(cs) : cs[i].key = k /\ Refers(cs[i].old, k, u)

(* A step that neither adds nor drops a directive.                             *)
SameHeld(b, cs, b2, cs2) ==
  \A k \in Keys : /\ b2[k] = NoParams <=> b[k] = NoParams
                  /\ \A u : Held(b2, cs2, k, u) <=> Held(b, cs, k, u)
SameUses(s, t, s2, t2, k) ==
  \A u : Refers(s2, k, u) \/ Refers(t2, k, u) <=> Refers(s, k, u) \/ Refers(t, k, u)

LEMMA BlockIs == \A x \in Block : x # NoParams
<1> SUFFICES ASSUME NEW x \in Block
             PROVE  x # NoParams
  OBVIOUS
<1>1. "units" \in DOMAIN x /\ "units" \notin DOMAIN NoParams
  BY DEF Block, NoParams
<1> QED BY <1>1, Zenon

LEMMA RefersNone ==
  ASSUME NEW k
  PROVE  \A u : ~Refers(<<>>, k, u)
<1>1. DOMAIN <<>> = {}
  OBVIOUS
<1> QED BY <1>1 DEF Refers, UsesOf

LEMMA RefersAppend ==
  ASSUME NEW s \in Seq(Entries), NEW x \in Entries, NEW k
  PROVE  \A u : Refers(Append(s, x), k, u) <=> Refers(s, k, u) \/ (x \in Names /\ u = <<k[1], x>>)
<1>1. PICK n \in Nat : n = Len(s)
  BY LenProperties
<1>2. PICK t \in Seq(Entries) : t = Append(s, x)
  BY AppendProperties
<1>3. /\ DOMAIN s = 1 .. n /\ DOMAIN t = 1 .. n + 1
      /\ t[n + 1] = x /\ \A i \in 1 .. n : t[i] = s[i]
  BY <1>1, <1>2, AppendProperties, LenProperties
<1>4. \A i : i \in 1 .. n + 1 <=> i \in 1 .. n \/ i = n + 1
  BY <1>1
<1>5. ASSUME NEW u
      PROVE  Refers(t, k, u) <=> Refers(s, k, u) \/ (x \in Names /\ u = <<k[1], x>>)
  BY <1>3, <1>4, Zenon DEF Refers, UsesOf
<1> QED BY <1>2, <1>5

LEMMA RefersTail ==
  ASSUME NEW s \in Seq(Entries), s # <<>>, NEW k
  PROVE  \A u : Refers(s, k, u) <=>
                  (Head(s) \in Names /\ u = <<k[1], Head(s)>>) \/ Refers(Tail(s), k, u)
<1>1. PICK n \in Nat : n + 1 = Len(s)
  <2>1. Len(s) \in Nat /\ Len(s) # 0
    BY LenProperties, EmptySeq
  <2> QED BY <2>1
<1>2. PICK t \in Seq(Entries) : t = Tail(s)
  BY HeadTailProperties
<1>3. PICK x : x = Head(s)
  OBVIOUS
<1>4. /\ DOMAIN s = 1 .. n + 1 /\ DOMAIN t = 1 .. n
      /\ s[1] = x /\ \A i \in 1 .. n : t[i] = s[i + 1]
  BY <1>1, <1>2, <1>3, HeadTailProperties, LenProperties
<1>5. ASSUME NEW u
      PROVE  Refers(s, k, u) <=> (x \in Names /\ u = <<k[1], x>>) \/ Refers(t, k, u)
  <2>1. ASSUME Refers(s, k, u)
        PROVE  (x \in Names /\ u = <<k[1], x>>) \/ Refers(t, k, u)
    <3>1. PICK i \in 1 .. n + 1 : s[i] \in Names /\ u = <<k[1], s[i]>>
      BY <1>4, <2>1 DEF Refers, UsesOf
    <3>2. CASE i = 1
      BY <1>4, <3>1, <3>2
    <3>3. CASE i # 1
      <4>1. i - 1 \in 1 .. n /\ t[i - 1] = s[i]
        <5>1. i - 1 \in 1 .. n /\ i - 1 + 1 = i
          BY <3>1, <3>3
        <5> QED BY <1>4, <5>1
      <4> QED BY <1>4, <3>1, <4>1 DEF Refers, UsesOf
    <3> QED BY <3>2, <3>3
  <2>2. ASSUME x \in Names, u = <<k[1], x>>
        PROVE  Refers(s, k, u)
    <3>1. 1 \in 1 .. n + 1
      OBVIOUS
    <3> QED BY <1>4, <2>2, <3>1 DEF Refers, UsesOf
  <2>3. ASSUME Refers(t, k, u)
        PROVE  Refers(s, k, u)
    <3>1. PICK i \in 1 .. n : t[i] \in Names /\ u = <<k[1], t[i]>>
      BY <1>4, <2>3 DEF Refers, UsesOf
    <3>2. i + 1 \in 1 .. n + 1 /\ s[i + 1] = t[i]
      BY <1>4
    <3> QED BY <1>4, <3>1, <3>2 DEF Refers, UsesOf
  <2> QED BY <2>1, <2>2, <2>3
<1> QED BY <1>2, <1>3, <1>5

(* The last entry, which names x, is replaced by t.                            *)
LEMMA RefersReplace ==
  ASSUME NEW s \in Seq(Entries), NEW x \in Names, EndsWith(s, x), NEW t \in Seq(Entries), NEW k
  PROVE  /\ Front(s) \o t \in Seq(Entries)
         /\ \A u : Refers(s, k, u) => Refers(Front(s) \o t, k, u) \/ u = <<k[1], x>>
         /\ \A u : Refers(t, k, u) => Refers(Front(s) \o t, k, u)
         /\ \A u : Refers(Front(s) \o t, k, u) => Refers(s, k, u) \/ Refers(t, k, u)
         /\ Refers(s, k, <<k[1], x>>)
<1>1. PICK n \in Nat : n + 1 = Len(s)
  <2>1. Len(s) \in Nat /\ Len(s) # 0
    BY LenProperties, EmptySeq DEF EndsWith
  <2> QED BY <2>1
<1>2. PICK f \in Seq(Entries) : f = Front(s)
  BY FrontType DEF EndsWith
<1>3. PICK m \in Nat : m = Len(t)
  BY LenProperties
<1>4. PICK g \in Seq(Entries) : g = f \o t
  BY ConcatProperties
<1>5. /\ DOMAIN s = 1 .. n + 1 /\ s[n + 1] = x /\ DOMAIN t = 1 .. m
      /\ Len(f) = n /\ \A i \in 1 .. n : f[i] = s[i]
  <2>1. Len(f) = Len(s) - 1 /\ \A i \in 1 .. Len(s) - 1 : f[i] = s[i]
    BY <1>2, FrontType DEF EndsWith
  <2>2. Len(s) - 1 = n
    BY <1>1
  <2> QED BY <1>1, <1>3, <2>1, <2>2, LenProperties DEF EndsWith
<1>6. /\ DOMAIN g = 1 .. n + m
      /\ \A i \in 1 .. n + m : g[i] = IF i <= n THEN f[i] ELSE t[i - n]
  <2>1. /\ Len(g) = Len(f) + Len(t)
        /\ \A i \in 1 .. Len(f) + Len(t) : g[i] = IF i <= Len(f) THEN f[i] ELSE t[i - Len(f)]
    BY <1>4, ConcatProperties
  <2>2. DOMAIN g = 1 .. Len(g)
    BY LenProperties
  <2> QED BY <1>3, <1>5, <2>1, <2>2
<1>7. ASSUME NEW u, Refers(s, k, u)
      PROVE  Refers(g, k, u) \/ u = <<k[1], x>>
  <2>1. PICK i \in 1 .. n + 1 : s[i] \in Names /\ u = <<k[1], s[i]>>
    BY <1>5, <1>7 DEF Refers, UsesOf
  <2>2. CASE i = n + 1
    BY <1>5, <2>1, <2>2
  <2>3. CASE i # n + 1
    <3>1. i \in 1 .. n /\ i \in 1 .. n + m /\ i <= n
      BY <2>3
    <3>2. g[i] = s[i]
      BY <1>5, <1>6, <3>1
    <3> QED BY <1>6, <2>1, <3>1, <3>2 DEF Refers, UsesOf
  <2> QED BY <2>2, <2>3
<1>8. ASSUME NEW u, Refers(t, k, u)
      PROVE  Refers(g, k, u)
  <2>1. PICK i \in 1 .. m : t[i] \in Names /\ u = <<k[1], t[i]>>
    BY <1>5, <1>8 DEF Refers, UsesOf
  <2>2. n + i \in 1 .. n + m /\ ~(n + i <= n) /\ n + i - n = i
    OBVIOUS
  <2>3. g[n + i] = t[i]
    BY <1>6, <2>2
  <2> QED BY <1>6, <2>1, <2>2, <2>3 DEF Refers, UsesOf
<1>9. ASSUME NEW u, Refers(g, k, u)
      PROVE  Refers(s, k, u) \/ Refers(t, k, u)
  <2>1. PICK i \in 1 .. n + m : g[i] \in Names /\ u = <<k[1], g[i]>>
    BY <1>6, <1>9 DEF Refers, UsesOf
  <2>2. CASE i <= n
    <3>1. i \in 1 .. n /\ i \in 1 .. n + 1
      BY <2>2
    <3>2. g[i] = s[i]
      BY <1>5, <1>6, <2>2, <3>1
    <3> QED BY <1>5, <2>1, <3>1, <3>2 DEF Refers, UsesOf
  <2>3. CASE ~(i <= n)
    <3>1. i - n \in 1 .. m
      BY <2>3
    <3>2. g[i] = t[i - n]
      BY <1>6, <2>3
    <3> QED BY <1>5, <2>1, <3>1, <3>2 DEF Refers, UsesOf
  <2> QED BY <2>2, <2>3
<1>10. Refers(s, k, <<k[1], x>>)
  <2>1. n + 1 \in 1 .. n + 1
    OBVIOUS
  <2> QED BY <1>5, <2>1 DEF Refers, UsesOf
<1> QED BY <1>2, <1>4, <1>7, <1>8, <1>9, <1>10

Absent(cs, k) == \A i \in 1 .. Len(cs) : cs[i].key # k

LEMMA AbsentHeld ==
  ASSUME NEW b, NEW cs, NEW k, Absent(cs, k)
  PROVE  \A u : Held(b, cs, k, u) <=> Refers(b[k].entries, k, u)
BY Zenon DEF Absent, Held

LEMMA SwappedHeld ==
  ASSUME NEW b, NEW b2, NEW cs, NEW cs2, NEW c, Len(cs) \in 1 .. Len(cs), Swapped(cs, cs2, c),
         c.key = cs[Len(cs)].key, Elsewhere(b, b2, c.key), b2[c.key] # NoParams,
         b[c.key] # NoParams,
         SameUses(b[c.key].entries, cs[Len(cs)].old, b2[c.key].entries, c.old, c.key)
  PROVE  SameHeld(b, cs, b2, cs2)
<1> SUFFICES ASSUME NEW k \in Keys
             PROVE  /\ b2[k] = NoParams <=> b[k] = NoParams
                    /\ \A u : Held(b2, cs2, k, u) <=> Held(b, cs, k, u)
  BY DEF SameHeld
<1>1. b2[k] = NoParams <=> b[k] = NoParams
  BY DEF Elsewhere
<1>2. CASE k = c.key
  <2> SUFFICES ASSUME NEW u
               PROVE  Held(b2, cs2, k, u) <=> Held(b, cs, k, u)
    BY <1>1
  <2>1. Refers(b2[k].entries, k, u) \/ Refers(c.old, k, u)
          <=> Refers(b[k].entries, k, u) \/ Refers(cs[Len(cs)].old, k, u)
    BY <1>2 DEF SameUses
  <2> QED BY <1>2, <2>1 DEF Held, Swapped
<1>3. CASE k # c.key
  BY <1>1, <1>3 DEF Held, Swapped, Elsewhere
<1> QED BY <1>2, <1>3

(*******************************************************************************)
(* What is known of the levels R while the blocks are taken apart.             *)
(*******************************************************************************)
Top == Cardinality(Keys)
Rising(R) == R \in [Nat -> SUBSET Keys] /\ \A n \in Nat : R[n] \subseteq R[n + 1]

(* A directive of a block is at a lower level than the block ...               *)
Below(R, k, u) == \A m \in Nat : k \in R[m] => m > 0 /\ u \in R[m - 1]
Ranked(R, b, cs) ==
  \A k \in Keys : /\ \A m \in Nat : k \in R[m] => b[k] # NoParams
                  /\ \A u : Held(b, cs, k, u) => Below(R, k, u)

(* ... and a block outside all levels has a directive that is.                 *)
Unresolved(R, b, cs, k) == \E u : Held(b, cs, k, u) /\ u \notin R[Top]
Leads(R, b, cs) ==
  \A k \in Keys : b[k] # NoParams /\ k \notin R[Top] => Unresolved(R, b, cs, k)

(* The block of a directive that was followed exists.                          *)
Found(b, cs, r) == cs # <<>> /\ r # NoValue => b[Directive(cs[Len(cs)])] # NoParams

LEMMA SameLevels ==
  ASSUME NEW R, NEW b, NEW cs, NEW b2, NEW cs2, SameHeld(b, cs, b2, cs2),
         Ranked(R, b, cs), Leads(R, b, cs)
  PROVE  Ranked(R, b2, cs2) /\ Leads(R, b2, cs2)
<1>1. \A k \in Keys : /\ b2[k] = NoParams <=> b[k] = NoParams
                      /\ \A u : Held(b2, cs2, k, u) <=> Held(b, cs, k, u)
  BY DEF SameHeld
<1>2. Ranked(R, b2, cs2)
  BY <1>1 DEF Ranked
<1>3. Leads(R, b2, cs2)
  BY <1>1 DEF Leads, Unresolved
<1> QED BY <1>2, <1>3

LEMMA BelowIsOther ==
  ASSUME NEW R, NEW k, NEW u, Below(R, k, u), NEW n \in Nat, k \in R[n]
  PROVE  k # u
<1> SUFFICES ASSUME k = u
             PROVE  FALSE
  OBVIOUS
<1> DEFINE T == {m \in Nat : k \in R[m]}
<1>1. T \in SUBSET Nat /\ T # {}
  OBVIOUS
<1>2. PICK m \in T : \A y \in T : m <= y
  <2> HIDE DEF T
  <2> QED BY <1>1, Least
<1>3. m \in Nat /\ m > 0 /\ k \in R[m - 1]
  BY DEF Below
<1>4. m - 1 \in T /\ ~(m <= m - 1)
  BY <1>3
<1> HIDE DEF T
<1> QED BY <1>2, <1>4

LEMMA BelowBelow ==
  ASSUME NEW R, Rising(R), NEW k, NEW l, NEW u, Below(R, k, l), Below(R, l, u)
  PROVE  Below(R, k, u)
<1> SUFFICES ASSUME NEW m \in Nat, k \in R[m]
             PROVE  m > 0 /\ u \in R[m - 1]
  BY DEF Below
<1>1. m > 0 /\ m - 1 \in Nat /\ l \in R[m - 1]
  BY DEF Below
<1>2. PICK p \in Nat : p = m - 1
  BY <1>1
<1>3. p > 0 /\ u \in R[p - 1]
  BY <1>1, <1>2 DEF Below
<1>4. p - 1 \in Nat /\ p - 1 + 1 = p
  BY <1>3
<1>5. R[p - 1] \subseteq R[p - 1 + 1]
  BY <1>4 DEF Rising
<1> QED BY <1>1, <1>2, <1>3, <1>4, <1>5

(* When the levels suffice: every call is below the calls outside it and has   *)
(* levels enough, its block has no directive but the one it follows, and       *)
(* nothing has failed.                                                         *)
Descends(R, cs) ==
  \A i, j \in 1 .. Len(cs) : i < j => Below(R, cs[i].key, cs[j].key)
Affords(R, cs) ==
  \A i \in 1 .. Len(cs) : cs[i].key \in R[cs[i].count + 1] /\ cs[i].status = 0
OnlyLast(s, any) == \A x \in UsesOf(s) : any /\ x = Len(s)
Clean(b, cs, r) ==
  \A i \in 1 .. Len(cs) : OnlyLast(b[cs[i].key].entries, Follows(cs, r, i))
Succeeds(b, cs, r) ==
  /\ r = NoValue \/ r = 0
  /\ cs = <<>> => r = 0
  /\ r = 0 /\ cs # <<>> => OnlyLast(b[Directive(cs[Len(cs)])].entries, FALSE)
Smooth(R, b, cs, r) ==
  Descends(R, cs) /\ Affords(R, cs) /\ Clean(b, cs, r) /\ Succeeds(b, cs, r)

LEMMA NoneLeft ==
  ASSUME NEW s \in Seq(Entries)
  PROVE  /\ Use(s) = 0 <=> OnlyLast(s, FALSE)
         /\ Use(s) > 0 => Use(s) # 0
         /\ \A k : ~OnlyLast(s, FALSE) => \E u : Refers(s, k, u)
         /\ \A k, u : Refers(s, k, u) => ~OnlyLast(s, FALSE)
<1>1. UsesOf(s) \subseteq 1 .. Len(s) /\ Len(s) \in Nat
  BY LenProperties DEF UsesOf
<1>2. IsFiniteSet(1 .. Len(s)) /\ UsesOf(s) \in SUBSET (1 .. Len(s))
  BY <1>1, FS_Interval
<1>3. IsFiniteSet(UsesOf(s))
  BY <1>2, FS_Subset
<1>4. Use(s) = 0 <=> UsesOf(s) = {}
  BY <1>3, FS_EmptySet DEF Use
<1>5. UsesOf(s) = {} <=> OnlyLast(s, FALSE)
  BY DEF OnlyLast
<1>6. Use(s) \in Nat
  BY UseNat
<1>7. ASSUME NEW k, ~OnlyLast(s, FALSE)
      PROVE  \E u : Refers(s, k, u)
  BY <1>7 DEF OnlyLast, Refers
<1>8. ASSUME NEW k, NEW u, Refers(s, k, u)
      PROVE  ~OnlyLast(s, FALSE)
  BY <1>8 DEF OnlyLast, Refers
<1>9. Use(s) > 0 => Use(s) # 0
  BY <1>6
<1>10. Use(s) = 0 <=> OnlyLast(s, FALSE)
  BY <1>4, <1>5
<1> QED BY <1>7, <1>8, <1>9, <1>10, Zenon

LEMMA CleanAppend ==
  ASSUME NEW s \in Seq(Entries), OnlyLast(s, FALSE), NEW x \in Entries
  PROVE  OnlyLast(Append(s, x), x \notin Params)
<1>1. PICK n \in Nat : n = Len(s)
  BY LenProperties
<1>2. PICK t \in Seq(Entries) : t = Append(s, x)
  BY AppendProperties
<1>3. /\ DOMAIN s = 1 .. n /\ DOMAIN t = 1 .. n + 1 /\ Len(t) = n + 1
      /\ t[n + 1] = x /\ \A i \in 1 .. n : t[i] = s[i]
  BY <1>1, <1>2, AppendProperties, LenProperties
<1>4. ASSUME NEW i \in 1 .. n + 1, t[i] \in Names
      PROVE  x \notin Params /\ i = n + 1
  <2>1. i \notin 1 .. n
    BY <1>3, <1>4 DEF OnlyLast, UsesOf
  <2>2. i = n + 1
    BY <2>1
  <2> QED BY <1>3, <1>4, <2>2, EntriesAssumption
<1>5. OnlyLast(t, x \notin Params)
  BY <1>3, <1>4 DEF OnlyLast, UsesOf
<1> QED BY <1>2, <1>5

LEMMA CleanReplace ==
  ASSUME NEW s \in Seq(Entries), s # <<>>, OnlyLast(s, TRUE),
         NEW t \in Seq(Entries), OnlyLast(t, FALSE)
  PROVE  OnlyLast(Front(s) \o t, FALSE)
<1>1. PICK n \in Nat : n + 1 = Len(s)
  <2>1. Len(s) \in Nat /\ Len(s) # 0
    BY LenProperties, EmptySeq
  <2> QED BY <2>1
<1>2. PICK f \in Seq(Entries) : f = Front(s)
  BY FrontType
<1>3. PICK m \in Nat : m = Len(t)
  BY LenProperties
<1>4. PICK g \in Seq(Entries) : g = f \o t
  BY ConcatProperties
<1>5. /\ DOMAIN s = 1 .. n + 1 /\ DOMAIN t = 1 .. m
      /\ Len(f) = n /\ \A i \in 1 .. n : f[i] = s[i]
  <2>1. Len(f) = Len(s) - 1 /\ \A i \in 1 .. Len(s) - 1 : f[i] = s[i]
    BY <1>2, FrontType
  <2>2. Len(s) - 1 = n
    BY <1>1
  <2> QED BY <1>1, <1>3, <2>1, <2>2, LenProperties
<1>6. /\ DOMAIN g = 1 .. n + m
      /\ \A i \in 1 .. n + m : g[i] = IF i <= n THEN f[i] ELSE t[i - n]
  <2>1. /\ Len(g) = Len(f) + Len(t)
        /\ \A i \in 1 .. Len(f) + Len(t) : g[i] = IF i <= Len(f) THEN f[i] ELSE t[i - Len(f)]
    BY <1>4, ConcatProperties
  <2>2. DOMAIN g = 1 .. Len(g)
    BY LenProperties
  <2> QED BY <1>3, <1>5, <2>1, <2>2
<1>7. ASSUME NEW i \in 1 .. n + m
      PROVE  g[i] \notin Names
  <2>1. CASE i <= n
    <3>1. i \in 1 .. n + 1 /\ i \in 1 .. n /\ i # n + 1
      BY <2>1
    <3>2. s[i] \notin Names
      BY <1>1, <1>5, <3>1 DEF OnlyLast, UsesOf
    <3> QED BY <1>5, <1>6, <2>1, <3>1, <3>2
  <2>2. CASE ~(i <= n)
    <3>1. i - n \in 1 .. m
      BY <2>2
    <3>2. t[i - n] \notin Names
      BY <1>5, <3>1 DEF OnlyLast, UsesOf
    <3> QED BY <1>6, <2>2, <3>2
  <2> QED BY <2>1, <2>2
<1> QED BY <1>2, <1>4, <1>6, <1>7 DEF OnlyLast, UsesOf

(*******************************************************************************)
(* Use is entered.                                                             *)
(*******************************************************************************)
(* What the call gets: the blocks, and the directive of the call outside it.   *)
Called(b, k, outer) ==
  /\ b \in Blocks /\ k \in Keys /\ b[k] \in Block /\ outer \in Seq(ACall)
  /\ outer # <<>> => k = Directive(outer[Len(outer)])

LEMMA EntryIs ==
  ASSUME NEW b, NEW k, NEW n, NEW outer, Called(b, k, outer), Transfer(b, k, n, outer),
         NEW N \in Nat, N = Len(outer)
  PROVE  \E c :
           /\ N = Len(outer) /\ Len(calls') = N + 1 /\ calls'[N + 1] = c
           /\ \A i \in 1 .. N : calls'[i] = outer[i]
           /\ c.key = k /\ c.old = b[k].entries /\ c.count = n - 1 /\ c.status = 0
           /\ blocks'[k].entries = <<>> /\ Elsewhere(b, blocks', k) /\ blocks'[k] # NoParams
           /\ returned' = NoValue /\ calls' # <<>>
<1> DEFINE c == Call(k, b[k].entries, n - 1)
<1>1. /\ blocks' = [b EXCEPT ![k].entries = <<>>] /\ calls' = Append(outer, c)
      /\ returned' = NoValue
  BY DEF Transfer
<1>2. c.key = k /\ c.old = b[k].entries /\ c.count = n - 1 /\ c.status = 0
  BY DEF Call
<1> HIDE DEF c
<1>4. /\ Len(calls') = N + 1 /\ calls'[N + 1] = c
      /\ \A i \in 1 .. N : calls'[i] = outer[i]
  BY <1>1 DEF Called
<1>5. calls' # <<>>
  <2>1. N + 1 # 0
    OBVIOUS
  <2> QED BY <1>4, <2>1, EmptySeq
<1>6. /\ blocks'[k].entries = <<>> /\ blocks'[k] \in Block /\ Elsewhere(b, blocks', k)
  BY <1>1, EmptySeq DEF Called, Blocks, Block, Elsewhere
<1> QED BY <1>1, <1>2, <1>4, <1>5, <1>6, BlockIs

LEMMA EnterSame ==
  ASSUME NEW b, NEW k, NEW n, NEW outer, Called(b, k, outer), Enter(b, k, n, outer)
  PROVE  SameHeld(b, outer, blocks', calls') /\ Found(blocks', calls', returned')
<1>1. CASE NothingToUse(b, k, outer) \/ TooManyLevels(b, k, n, outer)
  <2>1. blocks' = b /\ calls' = outer
    BY <1>1 DEF NothingToUse, TooManyLevels
  <2>2. SameHeld(b, outer, b, outer)
    BY DEF SameHeld
  <2>3. Found(b, outer, returned')
    BY BlockIs DEF Found, Called
  <2> QED BY <2>1, <2>2, <2>3
<1>2. CASE Transfer(b, k, n, outer)
  <2>0. PICK N \in Nat : N = Len(outer)
    BY LenProperties DEF Called
  <2>1. PICK c :
           /\ N = Len(outer) /\ Len(calls') = N + 1 /\ calls'[N + 1] = c
           /\ \A i \in 1 .. N : calls'[i] = outer[i]
           /\ c.key = k /\ c.old = b[k].entries
           /\ blocks'[k].entries = <<>> /\ Elsewhere(b, blocks', k) /\ blocks'[k] # NoParams
           /\ returned' = NoValue
    BY <1>2, <2>0, EntryIs
  <2>2. PICK cs : cs = calls'
    OBVIOUS
  <2>3. PICK b2 : b2 = blocks'
    OBVIOUS
  <2>4. /\ Len(cs) = N + 1 /\ cs[N + 1] = c /\ \A i \in 1 .. N : cs[i] = outer[i]
        /\ b2[k].entries = <<>> /\ \A l \in Keys : l # k => b2[l] = b[l]
    BY <2>1, <2>2, <2>3 DEF Elsewhere
  <2>5. ASSUME NEW l \in Keys, NEW u
        PROVE  Held(b2, cs, l, u) <=> Held(b, outer, l, u)
    <3>1. ASSUME Held(b2, cs, l, u)
          PROVE  Held(b, outer, l, u)
      <4>1. CASE Refers(b2[l].entries, l, u)
        <5>1. l # k
          BY <2>4, <4>1, RefersNone
        <5> QED BY <2>4, <4>1, <5>1 DEF Held
      <4>2. CASE \E i \in 1 .. Len(cs) : cs[i].key = l /\ Refers(cs[i].old, l, u)
        <5>1. PICK i \in 1 .. N + 1 : cs[i].key = l /\ Refers(cs[i].old, l, u)
          BY <2>4, <4>2
        <5>2. CASE i = N + 1
          BY <2>1, <2>4, <5>1, <5>2 DEF Held
        <5>3. CASE i # N + 1
          <6>1. i \in 1 .. N
            BY <5>3
          <6> QED BY <2>1, <2>4, <5>1, <6>1 DEF Held
        <5> QED BY <5>2, <5>3
      <4> QED BY <3>1, <4>1, <4>2 DEF Held
    <3>2. ASSUME Held(b, outer, l, u)
          PROVE  Held(b2, cs, l, u)
      <4>1. CASE Refers(b[l].entries, l, u)
        <5>1. N + 1 \in 1 .. Len(cs)
          BY <2>4
        <5> QED BY <2>1, <2>4, <4>1, <5>1 DEF Held
      <4>2. CASE \E i \in 1 .. Len(outer) : outer[i].key = l /\ Refers(outer[i].old, l, u)
        <5>1. PICK i \in 1 .. N : outer[i].key = l /\ Refers(outer[i].old, l, u)
          BY <2>1, <4>2
        <5>2. i \in 1 .. Len(cs)
          BY <2>4
        <5> QED BY <2>4, <5>1, <5>2 DEF Held
      <4> QED BY <3>2, <4>1, <4>2 DEF Held
    <3> QED BY <3>1, <3>2
  <2>6. SameHeld(b, outer, b2, cs)
    BY <2>1, <2>3, <2>4, <2>5, BlockIs DEF SameHeld, Called
  <2> QED BY <2>1, <2>2, <2>3, <2>6 DEF Found
<1> QED BY <1>1, <1>2 DEF Enter

LEMMA EnterSmooth ==
  ASSUME NEW R, NEW b, NEW k, NEW n \in Nat, NEW outer, Called(b, k, outer),
         Enter(b, k, n, outer), Ranked(R, b, outer), k \in R[n],
         Descends(R, outer), Affords(R, outer), Clean(b, outer, 0),
         \A i \in 1 .. Len(outer) : Below(R, outer[i].key, k)
  PROVE  Smooth(R, blocks', calls', returned')
<1>1. k \in Keys /\ b[k].entries \in Seq(Entries)
  BY BlockOrNot DEF Called
<1>2. CASE NothingToUse(b, k, outer)
  <2>1. blocks' = b /\ calls' = outer /\ returned' = 0 /\ OnlyLast(b[k].entries, FALSE)
    BY <1>1, <1>2, NoneLeft DEF NothingToUse
  <2>2. Succeeds(b, outer, 0)
    BY <2>1 DEF Succeeds, Called
  <2> QED BY <2>1, <2>2 DEF Smooth
<1>3. ASSUME Use(b[k].entries) > 0
      PROVE  n > 0
  <2>1. PICK u : Refers(b[k].entries, k, u)
    BY <1>1, <1>3, NoneLeft
  <2>2. Held(b, outer, k, u)
    BY <2>1 DEF Held
  <2>3. Below(R, k, u)
    BY <1>1, <2>2 DEF Ranked
  <2> QED BY <2>3 DEF Below
<1>4. CASE Transfer(b, k, n, outer)
  <2>0. PICK N \in Nat : N = Len(outer)
    BY LenProperties DEF Called
  <2>1. PICK c :
           /\ N = Len(outer) /\ Len(calls') = N + 1 /\ calls'[N + 1] = c
           /\ \A i \in 1 .. N : calls'[i] = outer[i]
           /\ c.key = k /\ c.count = n - 1 /\ c.status = 0
           /\ blocks'[k].entries = <<>> /\ Elsewhere(b, blocks', k)
           /\ returned' = NoValue /\ calls' # <<>>
    BY <1>4, <2>0, EntryIs
  <2>2. PICK cs : cs = calls'
    OBVIOUS
  <2>3. PICK b2 : b2 = blocks'
    OBVIOUS
  <2>4. /\ Len(cs) = N + 1 /\ cs[N + 1] = c /\ \A i \in 1 .. N : cs[i] = outer[i]
        /\ b2[k].entries = <<>> /\ \A l \in Keys : l # k => b2[l] = b[l]
    BY <2>1, <2>2, <2>3 DEF Elsewhere
  <2>5. \A i \in 1 .. N + 1 : i \in 1 .. N \/ i = N + 1
    OBVIOUS
  <2>6. Descends(R, cs)
    <3> SUFFICES ASSUME NEW i \in 1 .. N + 1, NEW j \in 1 .. N + 1, i < j
                 PROVE  Below(R, cs[i].key, cs[j].key)
      BY <2>4 DEF Descends
    <3>1. i \in 1 .. N
      OBVIOUS
    <3>2. CASE j = N + 1
      BY <2>1, <2>4, <3>1, <3>2
    <3>3. CASE j \in 1 .. N
      BY <2>1, <2>4, <3>1, <3>3 DEF Descends
    <3> QED BY <2>5, <3>2, <3>3
  <2>7. Affords(R, cs)
    <3> SUFFICES ASSUME NEW i \in 1 .. N + 1
                 PROVE  cs[i].key \in R[cs[i].count + 1] /\ cs[i].status = 0
      BY <2>4 DEF Affords
    <3>1. n - 1 + 1 = n
      OBVIOUS
    <3>2. CASE i = N + 1
      BY <2>1, <2>4, <3>1, <3>2
    <3>3. CASE i \in 1 .. N
      BY <2>1, <2>4, <3>3 DEF Affords
    <3> QED BY <2>5, <3>2, <3>3
  <2>8. Clean(b2, cs, NoValue)
    <3> SUFFICES ASSUME NEW i \in 1 .. N + 1
                 PROVE  OnlyLast(b2[cs[i].key].entries, Follows(cs, NoValue, i))
      BY <2>4 DEF Clean
    <3>1. CASE i = N + 1
      <4>1. DOMAIN <<>> = {}
        OBVIOUS
      <4> QED BY <2>1, <2>4, <3>1, <4>1 DEF OnlyLast, UsesOf
    <3>2. CASE i \in 1 .. N
      <4>1. /\ outer[i].key \in Keys /\ cs[i].key = outer[i].key
            /\ Below(R, outer[i].key, k) /\ outer[i].key \in R[outer[i].count + 1]
            /\ outer[i].count + 1 \in Nat
        <5>1. outer[i] \in ACall
          BY <2>1, <3>2, ElementOfSeq DEF Called
        <5>2. outer[i].key \in Keys /\ outer[i].count \in 0 .. Levels
          BY <5>1 DEF ACall
        <5>3. outer[i].count + 1 \in Nat
          BY <5>2, LevelsAssumption
        <5> QED BY <2>1, <2>4, <3>2, <5>2, <5>3 DEF Affords
      <4>2. outer[i].key # k
        BY <4>1, BelowIsOther
      <4>3. b2[cs[i].key] = b[outer[i].key]
        BY <2>4, <4>1, <4>2
      <4>4. OnlyLast(b[outer[i].key].entries, Follows(outer, 0, i))
        BY <2>1, <3>2 DEF Clean
      <4>5. Follows(cs, NoValue, i)
        BY <2>4, <3>2 DEF Follows
      <4> QED BY <4>3, <4>4, <4>5 DEF OnlyLast
    <3> QED BY <2>5, <3>1, <3>2
  <2>9. Succeeds(b2, cs, NoValue)
    BY <2>1, <2>2 DEF Succeeds, NoValue
  <2> QED BY <2>1, <2>2, <2>3, <2>6, <2>7, <2>8, <2>9 DEF Smooth
<1> QED BY <1>2, <1>3, <1>4 DEF Enter, TooManyLevels

(*******************************************************************************)
(* The steps of Use.                                                           *)
(*******************************************************************************)
LEMMA SwappedSmooth ==
  ASSUME NEW R, NEW b, NEW b2, NEW cs \in Seq(ACall), cs # <<>>, NEW cs2, NEW r, NEW r2, NEW c,
         Swapped(cs, cs2, c), c.key = cs[Len(cs)].key, c.count = cs[Len(cs)].count, c.status = 0,
         Elsewhere(b, b2, c.key), Descends(R, cs), Affords(R, cs), Clean(b, cs, r),
         NEW any, OnlyLast(b2[c.key].entries, any), any => r2 # NoValue
  PROVE  Descends(R, cs2) /\ Affords(R, cs2) /\ Clean(b2, cs2, r2)
<1>1. PICK n \in Nat : n = Len(cs) /\ n # 0 /\ n \in 1 .. n
  BY FrontType
<1>2. /\ Len(cs2) = n /\ cs2[n] = c
      /\ \A i \in 1 .. n : cs2[i].key = cs[i].key /\ cs2[i].count = cs[i].count
      /\ \A i \in 1 .. n : i # n => cs2[i] = cs[i]
  BY <1>1 DEF Swapped
<1>3. Descends(R, cs2)
  BY <1>1, <1>2 DEF Descends
<1>4. Affords(R, cs2)
  <2> SUFFICES ASSUME NEW i \in 1 .. n
               PROVE  cs2[i].key \in R[cs2[i].count + 1] /\ cs2[i].status = 0
    BY <1>2 DEF Affords
  <2> QED BY <1>1, <1>2 DEF Affords
<1>5. Clean(b2, cs2, r2)
  <2> SUFFICES ASSUME NEW i \in 1 .. n
               PROVE  OnlyLast(b2[cs2[i].key].entries, Follows(cs2, r2, i))
    BY <1>2 DEF Clean
  <2>1. CASE i = n
    <3>1. Follows(cs2, r2, i) <=> r2 # NoValue
      BY <1>1, <1>2, <2>1 DEF Follows
    <3> QED BY <1>2, <2>1, <3>1 DEF OnlyLast
  <2>2. CASE i # n
    <3>1. i < n /\ cs2[i] = cs[i] /\ Follows(cs, r, i) /\ Follows(cs2, r2, i)
      BY <1>1, <1>2, <2>2 DEF Follows
    <3>2. cs[i].key \in Keys /\ cs[i].count + 1 \in Nat
      <4>1. cs[i] \in ACall
        BY <1>1, ElementOfSeq
      <4>2. cs[i].key \in Keys /\ cs[i].count \in 0 .. Levels
        BY <4>1 DEF ACall
      <4> QED BY <4>2, LevelsAssumption
    <3>3. Below(R, cs[i].key, cs[n].key) /\ cs[i].key \in R[cs[i].count + 1]
      BY <1>1, <3>1 DEF Descends, Affords
    <3>4. cs[i].key # c.key
      BY <1>1, <3>2, <3>3, BelowIsOther
    <3>5. b2[cs2[i].key] = b[cs[i].key]
      BY <3>1, <3>2, <3>4 DEF Elsewhere
    <3>6. OnlyLast(b[cs[i].key].entries, Follows(cs, r, i))
      BY <1>1 DEF Clean
    <3> QED BY <3>1, <3>5, <3>6 DEF OnlyLast
  <2> QED BY <2>1, <2>2
<1> QED BY <1>3, <1>4, <1>5

LEMMA CopyIs ==
  ASSUME UseTyped, Iterating, NEW c \in ACall, c.key = inner.key, c.old = Tail(inner.old)
  PROVE  /\ SameHeld(blocks, calls, Copied, Outer(c))
         /\ Copied \in Blocks /\ Elsewhere(blocks, Copied, inner.key)
         /\ entry \in Entries /\ inner.old \in Seq(Entries) /\ inner.old # <<>>
         /\ blocks[inner.key].entries \in Seq(Entries)
         /\ Copied[inner.key].entries = Append(blocks[inner.key].entries, entry)
         /\ \A l \in Keys : blocks[l] \in Block => Copied[l] \in Block
<1>1. calls # <<>> /\ inner.old # <<>> /\ calls \in Seq(ACall) /\ blocks \in Blocks
  BY DEF Iterating, UseTyped
<1>2. inner \in ACall /\ inner.key \in Keys /\ blocks[inner.key] \in Block
  BY <1>1, InnerTyped
<1>3. inner.old \in Seq(Entries) /\ blocks[inner.key].entries \in Seq(Entries)
  BY <1>2 DEF ACall, Block
<1>4. entry \in Entries /\ entry = Head(inner.old)
  BY <1>1, <1>3, HeadTailProperties DEF entry
<1>5. Append(blocks[inner.key].entries, entry) \in Seq(Entries)
  BY <1>3, <1>4, AppendProperties
<1>6. /\ Copied \in Blocks /\ \A l \in Keys : blocks[l] \in Block => Copied[l] \in Block
  BY <1>1, <1>2, <1>5, WithEntriesTyped DEF Copied
<1>7. /\ Copied[inner.key].entries = Append(blocks[inner.key].entries, entry)
      /\ Elsewhere(blocks, Copied, inner.key)
  BY <1>2, WithEntriesIs DEF Copied
<1>8. /\ Swapped(calls, Outer(c), c) /\ inner = calls[Len(calls)]
      /\ Len(calls) \in 1 .. Len(calls)
  BY <1>1, OuterIs
<1>9. Copied[inner.key] # NoParams /\ blocks[inner.key] # NoParams
  BY <1>2, <1>6, BlockIs
<1>10. SameUses(blocks[inner.key].entries, inner.old, Copied[inner.key].entries, c.old, inner.key)
  <2> SUFFICES ASSUME NEW u
               PROVE  Refers(Append(blocks[inner.key].entries, entry), inner.key, u)
                        \/ Refers(Tail(inner.old), inner.key, u)
                      <=> Refers(blocks[inner.key].entries, inner.key, u)
                        \/ Refers(inner.old, inner.key, u)
    BY <1>7 DEF SameUses
  <2>1. Refers(Append(blocks[inner.key].entries, entry), inner.key, u) <=>
          Refers(blocks[inner.key].entries, inner.key, u)
            \/ (entry \in Names /\ u = <<inner.key[1], entry>>)
    <3>1. blocks[inner.key].entries \in Seq(Entries) /\ entry \in Entries
      BY <1>3, <1>4
    <3> QED BY <3>1, RefersAppend
  <2>2. Refers(inner.old, inner.key, u) <=>
          (entry \in Names /\ u = <<inner.key[1], entry>>) \/ Refers(Tail(inner.old), inner.key, u)
    BY <1>1, <1>3, <1>4, RefersTail
  <2> QED BY <2>1, <2>2, Zenon
<1>11. SameHeld(blocks, calls, Copied, Outer(c))
  BY <1>7, <1>8, <1>9, <1>10, SwappedHeld
<1> QED BY <1>1, <1>3, <1>4, <1>6, <1>7, <1>11

(* All that is known of the levels; w if they suffice.                         *)
LevelInv(R, b, cs, r, w) ==
  /\ Rising(R) /\ Ranked(R, b, cs) /\ Leads(R, b, cs) /\ Found(b, cs, r)
  /\ w => Smooth(R, b, cs, r)

StillDefined == \A k \in Keys : Defined(k) => blocks'[k] # NoParams

(* The directive about to be copied is at a lower level than its block.        *)
LEMMA EntryHeld ==
  ASSUME UseTyped, Iterating, entry \in Names
  PROVE  Held(blocks, calls, inner.key, Named) /\ inner.key \in Keys
<1>1. calls # <<>> /\ inner.old # <<>> /\ calls \in Seq(ACall)
  BY DEF Iterating, UseTyped
<1>2. inner \in ACall /\ inner.key \in Keys
  BY <1>1, InnerTyped
<1>3. inner.old \in Seq(Entries)
  BY <1>2 DEF ACall
<1>4. inner = calls[Len(calls)] /\ Len(calls) \in 1 .. Len(calls)
  BY <1>1, <1>2, OuterIs
<1>5. Refers(inner.old, inner.key, Named)
  BY <1>1, <1>3, RefersTail DEF Named, entry
<1> QED BY <1>2, <1>4, <1>5 DEF Held

(* When the levels suffice the block of a directive exists, one level down.    *)
LEMMA EntryResolved ==
  ASSUME UseTyped, Iterating, entry \in Names,
         NEW R, Rising(R), Ranked(R, blocks, calls), Affords(R, calls)
  PROVE  Defined(Named) /\ Named \in R[inner.count] /\ inner.count \in Nat
<1>1. calls # <<>> /\ calls \in Seq(ACall)
  BY DEF Iterating, UseTyped
<1>2. inner \in ACall
  BY <1>1, InnerTyped
<1>3. inner = calls[Len(calls)] /\ Len(calls) \in 1 .. Len(calls)
  BY <1>1, <1>2, OuterIs
<1>4. inner.count \in Nat /\ inner.count + 1 \in Nat /\ inner.count + 1 - 1 = inner.count
  <2>1. inner.count \in 0 .. Levels
    BY <1>2 DEF ACall
  <2> QED BY <2>1, LevelsAssumption
<1>5. Below(R, inner.key, Named)
  BY EntryHeld DEF Ranked
<1>6. inner.key \in R[inner.count + 1]
  BY <1>3 DEF Affords
<1>7. Named \in R[inner.count]
  BY <1>4, <1>5, <1>6 DEF Below
<1>8. Named \in Keys
  BY <1>4, <1>7 DEF Rising
<1>9. blocks[Named] # NoParams
  BY <1>4, <1>7, <1>8 DEF Ranked
<1> QED BY <1>4, <1>7, <1>9 DEF Defined

LEMMA CopySmooth ==
  ASSUME UseTyped, Iterating, NEW c \in ACall, c.key = inner.key, c.old = Tail(inner.old),
         c.count = inner.count, c.status = inner.status,
         NEW R, Smooth(R, blocks, calls, NoValue), NEW r, entry \in Params \/ r # NoValue
  PROVE  Descends(R, Outer(c)) /\ Affords(R, Outer(c)) /\ Clean(Copied, Outer(c), r)
<1>1. calls # <<>> /\ calls \in Seq(ACall)
  BY DEF Iterating, UseTyped
<1>2. /\ inner = calls[Len(calls)] /\ Len(calls) \in 1 .. Len(calls)
      /\ Swapped(calls, Outer(c), c)
  BY <1>1, OuterIs
<1>3. /\ Elsewhere(blocks, Copied, inner.key) /\ entry \in Entries
      /\ blocks[inner.key].entries \in Seq(Entries)
      /\ Copied[inner.key].entries = Append(blocks[inner.key].entries, entry)
  BY CopyIs
<1>4. inner.status = 0
  BY <1>2 DEF Smooth, Affords
<1>5. OnlyLast(blocks[inner.key].entries, FALSE)
  <2>1. OnlyLast(blocks[inner.key].entries, Follows(calls, NoValue, Len(calls)))
    BY <1>2 DEF Smooth, Clean
  <2>2. ~Follows(calls, NoValue, Len(calls))
    BY <1>2 DEF Follows
  <2> QED BY <2>1, <2>2 DEF OnlyLast
<1>6. OnlyLast(Copied[inner.key].entries, entry \notin Params)
  BY <1>3, <1>5, CleanAppend
<1>7. entry \notin Params => r # NoValue
  OBVIOUS
<1> QED BY <1>1, <1>2, <1>3, <1>4, <1>6, <1>7, SwappedSmooth DEF Smooth

LEMMA CopyLevels ==
  ASSUME UseTyped, CopyParam \/ UseNotFound, NEW R, NEW w,
         LevelInv(R, blocks, calls, returned, w)
  PROVE  LevelInv(R, blocks', calls', returned', w) /\ StillDefined
<1>1. /\ calls # <<>> /\ inner.old # <<>> /\ returned = NoValue /\ Iterating
  BY DEF CopyParam, UseNotFound, Iterating
<1>2. inner \in ACall
  BY <1>1, InnerTyped
<1>3. inner.old \in Seq(Entries) /\ Tail(inner.old) \in Seq(Entries)
  BY <1>1, <1>2, HeadTailProperties DEF ACall
<1> DEFINE c == [inner EXCEPT !.old = Tail(@)]
<1>4. /\ c \in ACall /\ c.key = inner.key /\ c.old = Tail(inner.old)
      /\ c.count = inner.count /\ c.status = inner.status
  BY <1>2, <1>3 DEF ACall
<1>5. /\ blocks' = Copied /\ calls' = Outer(c) /\ returned' = NoValue
      /\ entry \in Params \/ (entry \in Names /\ ~Defined(Named))
  BY <1>1 DEF CopyParam, UseNotFound
<1> HIDE DEF c
<1>6. SameHeld(blocks, calls, Copied, Outer(c))
  BY <1>1, <1>4, CopyIs
<1>7. Ranked(R, Copied, Outer(c)) /\ Leads(R, Copied, Outer(c))
  BY <1>6, SameLevels DEF LevelInv
<1>8. ASSUME w
      PROVE  Smooth(R, Copied, Outer(c), NoValue)
  <2>1. Smooth(R, blocks, calls, NoValue)
    BY <1>1, <1>8 DEF LevelInv
  <2>2. entry \in Params
    BY <1>1, <1>5, <2>1, EntryResolved DEF LevelInv, Smooth
  <2>3. Descends(R, Outer(c)) /\ Affords(R, Outer(c)) /\ Clean(Copied, Outer(c), NoValue)
    BY <1>1, <1>4, <2>1, <2>2, CopySmooth
  <2>4. Outer(c) # <<>>
    <3>1. Len(Outer(c)) = Len(calls) /\ Len(calls) \in 1 .. Len(calls)
      BY <1>1, <1>4, OuterIs
    <3>2. Len(Outer(c)) # 0
      BY <3>1
    <3> QED BY <3>2, EmptySeq
  <2>5. Succeeds(Copied, Outer(c), NoValue)
    BY <2>4 DEF Succeeds, NoValue
  <2> QED BY <2>3, <2>5 DEF Smooth
<1>9. StillDefined
  BY <1>5, <1>6 DEF SameHeld, StillDefined, Defined
<1> QED BY <1>5, <1>7, <1>8, <1>9 DEF LevelInv, Found

LEMMA UseNamedLevels ==
  ASSUME UseTyped, UseNamed, NEW R, NEW w, LevelInv(R, blocks, calls, returned, w)
  PROVE  LevelInv(R, blocks', calls', returned', w) /\ StillDefined
<1>1. /\ calls # <<>> /\ inner.old # <<>> /\ returned = NoValue /\ Iterating
      /\ entry \in Names /\ Defined(Named)
  BY DEF UseNamed, Iterating
<1>2. inner \in ACall /\ inner.key \in Keys
  BY <1>1, InnerTyped
<1>3. inner.old \in Seq(Entries) /\ Tail(inner.old) \in Seq(Entries)
  BY <1>1, <1>2, HeadTailProperties DEF ACall
<1> DEFINE c == [inner EXCEPT !.old = Tail(@), !.v = entry]
<1>4. /\ c \in ACall /\ c.key = inner.key /\ c.old = Tail(inner.old) /\ c.v = entry
      /\ c.count = inner.count /\ c.status = inner.status
  BY <1>1, <1>2, <1>3 DEF ACall
<1>5. Enter(Copied, Named, inner.count, Outer(c))
  BY DEF UseNamed
<1> HIDE DEF c
<1>6. /\ SameHeld(blocks, calls, Copied, Outer(c)) /\ Copied \in Blocks
      /\ \A l \in Keys : blocks[l] \in Block => Copied[l] \in Block
  BY <1>1, <1>4, CopyIs
<1>7. Ranked(R, Copied, Outer(c)) /\ Leads(R, Copied, Outer(c))
  BY <1>6, SameLevels DEF LevelInv
<1>8. PICK n \in Nat : /\ n = Len(calls) /\ n \in 1 .. n /\ Len(Outer(c)) = n
                       /\ Outer(c)[n] = c /\ inner = calls[n] /\ Swapped(calls, Outer(c), c)
  BY <1>1, <1>4, OuterIs, LenProperties
<1>9. Called(Copied, Named, Outer(c))
  <2>1. Named \in Keys
    BY <1>1, <1>2 DEF Named, Keys
  <2>2. Copied[Named] \in Block
    BY <1>1, <1>6, <2>1, BlockOrNot DEF UseTyped, Defined
  <2>3. Named = Directive(Outer(c)[Len(Outer(c))])
    BY <1>4, <1>8 DEF Named, Directive
  <2>4. Outer(c) \in Seq(ACall)
    BY <1>1, <1>4, OuterIs
  <2> QED BY <1>6, <2>1, <2>2, <2>3, <2>4 DEF Called
<1>10. SameHeld(Copied, Outer(c), blocks', calls') /\ Found(blocks', calls', returned')
  BY <1>5, <1>9, EnterSame
<1>11. Ranked(R, blocks', calls') /\ Leads(R, blocks', calls')
  BY <1>7, <1>10, SameLevels
<1>12. ASSUME w
       PROVE  Smooth(R, blocks', calls', returned')
  <2>1. Smooth(R, blocks, calls, NoValue)
    BY <1>1, <1>12 DEF LevelInv
  <2>2. Named \in R[inner.count] /\ inner.count \in Nat
    BY <1>1, <2>1, EntryResolved DEF LevelInv, Smooth
  <2>3. Descends(R, Outer(c)) /\ Affords(R, Outer(c)) /\ Clean(Copied, Outer(c), 0)
    BY <1>1, <1>4, <2>1, CopySmooth DEF NoValue
  <2>4. Below(R, inner.key, Named)
    BY <1>1, EntryHeld DEF LevelInv, Ranked
  <2>5. ASSUME NEW i \in 1 .. Len(Outer(c))
        PROVE  Below(R, Outer(c)[i].key, Named)
    <3>1. CASE i = n
      BY <1>4, <1>8, <2>4, <3>1
    <3>2. CASE i # n
      <4>1. i < n /\ i \in 1 .. n /\ Outer(c)[i] = calls[i]
        BY <1>8, <3>2 DEF Swapped
      <4>2. Below(R, calls[i].key, inner.key)
        BY <1>8, <2>1, <4>1 DEF Smooth, Descends
      <4> QED BY <2>4, <4>1, <4>2, BelowBelow DEF LevelInv
    <3> QED BY <3>1, <3>2
  <2> QED BY <1>5, <1>7, <1>9, <2>2, <2>3, <2>5, EnterSmooth
<1>13. StillDefined
  BY <1>6, <1>10 DEF SameHeld, StillDefined, Defined
<1> QED BY <1>10, <1>11, <1>12, <1>13 DEF LevelInv

(* The directive that is replaced, and what replaces it.                       *)
LEMMA FollowedIs ==
  ASSUME UseTyped, UseInv, Resuming, Found(blocks, calls, returned)
  PROVE  /\ calls \in Seq(ACall) /\ calls # <<>> /\ inner \in ACall /\ inner.key \in Keys
         /\ inner.v \in Names /\ inner = calls[Len(calls)] /\ Len(calls) \in 1 .. Len(calls)
         /\ blocks[inner.key] \in Block /\ blocks[inner.key].entries \in Seq(Entries)
         /\ EndsWith(blocks[inner.key].entries, inner.v)
         /\ Directive(inner) \in Keys /\ Defined(Directive(inner))
         /\ Uparams = blocks[Directive(inner)] /\ Uparams.entries \in Seq(Entries)
<1>1. /\ calls # <<>> /\ returned # NoValue /\ calls \in Seq(ACall) /\ blocks \in Blocks
  BY DEF Resuming, UseTyped
<1>2. /\ inner \in ACall /\ inner.key \in Keys /\ blocks[inner.key] \in Block
  BY <1>1, InnerTyped
<1>3. /\ inner = calls[Len(calls)] /\ Len(calls) \in 1 .. Len(calls)
  BY <1>1, <1>2, OuterIs
<1>4. inner.v \in Names /\ blocks[inner.key].entries \in Seq(Entries)
  BY <1>2 DEF ACall, Block
<1>5. EndsWith(blocks[inner.key].entries, inner.v)
  <2>1. Topmost(calls, Len(calls)) /\ Follows(calls, returned, Len(calls))
    BY <1>1, <1>3 DEF Topmost, Follows
  <2>2. EndsAt(blocks, calls, Len(calls))
    BY <1>3, <2>1 DEF UseInv, Chain, Ends
  <2> QED BY <1>3, <2>2 DEF EndsAt
<1>6. Directive(inner) \in Keys /\ Uparams = blocks[Directive(inner)]
  BY <1>2, <1>4 DEF Directive, Keys, Uparams
<1>7. Defined(Directive(inner))
  BY <1>1, <1>3 DEF Found, Defined
<1>8. Uparams.entries \in Seq(Entries)
  BY <1>1, <1>6, BlockOrNot
<1> QED BY <1>1, <1>2, <1>3, <1>4, <1>5, <1>6, <1>7, <1>8

(* In b2 block k0 has the directives of block d in the place of d.             *)
Substituted(b, cs, b2, k0, d) ==
  /\ \A k \in Keys : b2[k] = NoParams <=> b[k] = NoParams
  /\ \A k \in Keys : \A u :
       /\ Held(b2, cs, k, u) => Held(b, cs, k, u) \/ (k = k0 /\ Held(b, cs, d, u))
       /\ Held(b, cs, k, u) => Held(b2, cs, k, u) \/ (k = k0 /\ u = d)
  /\ \A u : Held(b, cs, d, u) => Held(b2, cs, k0, u)
  /\ Held(b, cs, k0, d)

LEMMA ReplaceHeld ==
  ASSUME UseTyped, UseInv, ReplaceUse, Found(blocks, calls, returned)
  PROVE  Substituted(blocks, calls, blocks', inner.key, Directive(inner))
<1> DEFINE d == Directive(inner)
           k0 == inner.key
           e == blocks[k0].entries
           t == Uparams.entries
           s == Front(e) \o t
<1>1. Resuming /\ returned >= 0 /\ blocks' = WithEntries(k0, s)
  BY DEF ReplaceUse
<1>2. /\ calls # <<>> /\ k0 \in Keys /\ inner.v \in Names
      /\ inner = calls[Len(calls)] /\ Len(calls) \in 1 .. Len(calls)
      /\ blocks[k0] \in Block /\ e \in Seq(Entries) /\ EndsWith(e, inner.v)
      /\ d \in Keys /\ Uparams = blocks[d] /\ t \in Seq(Entries)
  BY <1>1, FollowedIs
<1>3. d = <<k0[1], inner.v>> /\ d[1] = k0[1]
  BY DEF Directive
<1>4. /\ s \in Seq(Entries)
      /\ \A u : Refers(e, k0, u) => Refers(s, k0, u) \/ u = d
      /\ \A u : Refers(t, k0, u) => Refers(s, k0, u)
      /\ \A u : Refers(s, k0, u) => Refers(e, k0, u) \/ Refers(t, k0, u)
      /\ Refers(e, k0, d)
  <2> HIDE DEF e, t, k0, d
  <2> QED BY <1>2, <1>3, RefersReplace DEF s
<1>5. \A u : Refers(t, d, u) <=> Refers(t, k0, u)
  BY <1>3 DEF Refers
<1>6. \A u : Held(blocks, calls, d, u) <=> Refers(t, k0, u)
  <2>1. Absent(calls, Directive(calls[Len(calls)]))
    BY <1>1, <1>2 DEF UseInv, Away, Absent
  <2>2. Absent(calls, d) /\ t = blocks[d].entries
    BY <1>2, <2>1
  <2> HIDE DEF d, k0, e, t, s
  <2>3. \A u : Held(blocks, calls, d, u) <=> Refers(blocks[d].entries, d, u)
    BY <2>2, AbsentHeld, ZenonT(60)
  <2> QED BY <1>5, <2>2, <2>3, Zenon
<1>7. blocks'[k0].entries = s /\ Elsewhere(blocks, blocks', k0)
  BY <1>1, <1>2, WithEntriesIs
<1>8. blocks'[k0] # NoParams /\ blocks[k0] # NoParams
  BY <1>1, <1>2, <1>4, WithEntriesTyped, BlockIs DEF UseTyped
<1>9. PICK b2 : b2 = blocks'
  OBVIOUS
<1> HIDE DEF e, s, t, k0, d
<1>10. b2[k0].entries = s /\ \A k \in Keys : k # k0 => b2[k] = blocks[k]
  BY <1>7, <1>9 DEF Elsewhere
<1>11. \A k \in Keys : b2[k] = NoParams <=> blocks[k] = NoParams
  BY <1>8, <1>9, <1>10
<1>12. ASSUME NEW k \in Keys, NEW u
       PROVE  /\ Held(b2, calls, k, u) =>
                   Held(blocks, calls, k, u) \/ (k = k0 /\ Held(blocks, calls, d, u))
              /\ Held(blocks, calls, k, u) => Held(b2, calls, k, u) \/ (k = k0 /\ u = d)
  <2>1. CASE k = k0
    <3>1. Held(b2, calls, k0, u) =>
            Held(blocks, calls, k0, u) \/ Held(blocks, calls, d, u)
      <4> SUFFICES ASSUME Held(b2, calls, k0, u)
                   PROVE  Held(blocks, calls, k0, u) \/ Refers(t, k0, u)
        BY <1>6
      <4>1. CASE Refers(s, k0, u)
        BY <1>4, <4>1 DEF Held, e
      <4>2. CASE ~Refers(s, k0, u)
        BY <1>10, <4>2 DEF Held
      <4> QED BY <4>1, <4>2
    <3>2. Held(blocks, calls, k0, u) => Held(b2, calls, k0, u) \/ u = d
      BY <1>4, <1>10 DEF Held, e
    <3> QED BY <2>1, <3>1, <3>2
  <2>2. CASE k # k0
    BY <1>10, <2>2 DEF Held
  <2> QED BY <2>1, <2>2
<1>13. ASSUME NEW u, Held(blocks, calls, d, u)
       PROVE  Held(b2, calls, k0, u)
  BY <1>4, <1>6, <1>10, <1>13 DEF Held
<1>14. Held(blocks, calls, k0, d)
  BY <1>4 DEF Held, e
<1>15. Substituted(blocks, calls, b2, k0, d)
  BY <1>11, <1>12, <1>13, <1>14 DEF Substituted
<1> QED BY <1>9, <1>15 DEF d, k0

LEMMA ReplaceLevels ==
  ASSUME UseTyped, UseInv, ReplaceUse, NEW R, NEW w, LevelInv(R, blocks, calls, returned, w)
  PROVE  LevelInv(R, blocks', calls', returned', w) /\ StillDefined
<1> DEFINE d == Directive(inner)
           k0 == inner.key
<1>1. /\ Resuming /\ returned # NoValue /\ returned >= 0 /\ calls' = calls
      /\ returned' = NoValue /\ Found(blocks, calls, returned)
      /\ blocks' = WithEntries(k0, Front(blocks[k0].entries) \o Uparams.entries)
  BY DEF ReplaceUse, Resuming, LevelInv
<1>2. /\ calls \in Seq(ACall) /\ calls # <<>> /\ k0 \in Keys /\ d \in Keys
      /\ inner = calls[Len(calls)] /\ Len(calls) \in 1 .. Len(calls)
      /\ blocks[k0] \in Block /\ blocks[k0].entries \in Seq(Entries)
      /\ blocks[k0].entries # <<>>
      /\ blocks[d] # NoParams /\ Uparams = blocks[d] /\ Uparams.entries \in Seq(Entries)
  BY <1>1, FollowedIs DEF Defined, EndsWith
<1>3. PICK b2 : b2 = blocks'
  OBVIOUS
<1>4. /\ \A k \in Keys : b2[k] = NoParams <=> blocks[k] = NoParams
      /\ \A k \in Keys : \A u :
           /\ Held(b2, calls, k, u) =>
                Held(blocks, calls, k, u) \/ (k = k0 /\ Held(blocks, calls, d, u))
           /\ Held(blocks, calls, k, u) => Held(b2, calls, k, u) \/ (k = k0 /\ u = d)
      /\ \A u : Held(blocks, calls, d, u) => Held(b2, calls, k0, u)
      /\ Held(blocks, calls, k0, d)
  <2>1. Substituted(blocks, calls, blocks', inner.key, Directive(inner))
    <3>1. Found(blocks, calls, returned)
      BY <1>1
    <3> QED BY <3>1, ReplaceHeld, Zenon
  <2>2. Substituted(blocks, calls, b2, k0, d)
    BY <1>3, <2>1, ZenonT(60)
  <2> HIDE DEF k0, d
  <2> QED BY <2>2 DEF Substituted
<1>5. b2[k0].entries = Front(blocks[k0].entries) \o Uparams.entries
      /\ Elsewhere(blocks, b2, k0)
  BY <1>1, <1>2, <1>3, WithEntriesIs
<1> HIDE DEF d, k0
<1>6. Rising(R) /\ Ranked(R, blocks, calls) /\ Leads(R, blocks, calls)
  BY DEF LevelInv
<1>7. Ranked(R, b2, calls)
  <2>1. ASSUME NEW k \in Keys, NEW u, Held(b2, calls, k, u)
        PROVE  Below(R, k, u)
    <3>1. CASE Held(blocks, calls, k, u)
      BY <1>6, <3>1 DEF Ranked
    <3>2. CASE k = k0 /\ Held(blocks, calls, d, u)
      <4>1. Below(R, k0, d) /\ Below(R, d, u)
        BY <1>2, <1>4, <1>6, <3>2 DEF Ranked
      <4> QED BY <1>6, <3>2, <4>1, BelowBelow
    <3> QED BY <1>4, <2>1, <3>1, <3>2
  <2> QED BY <1>4, <1>6, <2>1 DEF Ranked
<1>8. Leads(R, b2, calls)
  <2> SUFFICES ASSUME NEW k \in Keys, b2[k] # NoParams, k \notin R[Top]
               PROVE  Unresolved(R, b2, calls, k)
    BY DEF Leads
  <2>1. PICK u : Held(blocks, calls, k, u) /\ u \notin R[Top]
    BY <1>4, <1>6 DEF Leads, Unresolved
  <2>2. CASE Held(b2, calls, k, u)
    BY <2>1, <2>2 DEF Unresolved
  <2>3. CASE k = k0 /\ u = d
    <3>1. PICK u2 : Held(blocks, calls, d, u2) /\ u2 \notin R[Top]
      BY <1>2, <1>6, <2>1, <2>3 DEF Leads, Unresolved
    <3> QED BY <1>4, <2>3, <3>1 DEF Unresolved
  <2> QED BY <1>4, <2>1, <2>2, <2>3
<1>9. ASSUME w
      PROVE  Smooth(R, b2, calls, NoValue)
  <2>1. Smooth(R, blocks, calls, returned)
    BY <1>9 DEF LevelInv
  <2>2. OnlyLast(Uparams.entries, FALSE)
    BY <1>1, <1>2, <2>1 DEF Smooth, Succeeds, d
  <2>3. OnlyLast(blocks[k0].entries, TRUE)
    <3>1. OnlyLast(blocks[k0].entries, Follows(calls, returned, Len(calls)))
      BY <1>2, <2>1 DEF Smooth, Clean, k0
    <3> QED BY <3>1 DEF OnlyLast
  <2>4. OnlyLast(b2[k0].entries, FALSE)
    BY <1>2, <1>5, <2>2, <2>3, CleanReplace
  <2>5. Swapped(calls, calls, inner)
    BY <1>2 DEF Swapped
  <2>6. inner.status = 0
    BY <1>2, <2>1 DEF Smooth, Affords
  <2>7. FALSE => NoValue # NoValue
    OBVIOUS
  <2>8. Descends(R, calls) /\ Affords(R, calls) /\ Clean(b2, calls, NoValue)
    BY <1>2, <1>5, <2>1, <2>4, <2>5, <2>6, <2>7, SwappedSmooth DEF Smooth, k0
  <2>9. Succeeds(b2, calls, NoValue)
    BY <1>2 DEF Succeeds, NoValue
  <2> QED BY <2>8, <2>9 DEF Smooth
<1>10. StillDefined
  BY <1>3, <1>4 DEF StillDefined, Defined
<1> QED BY <1>1, <1>3, <1>6, <1>7, <1>8, <1>9, <1>10 DEF LevelInv, Found

LEMMA KeepLevels ==
  ASSUME UseTyped, KeepUse, NEW R, NEW w, LevelInv(R, blocks, calls, returned, w)
  PROVE  LevelInv(R, blocks', calls', returned', w) /\ StillDefined
<1> DEFINE c == [inner EXCEPT !.status = -1]
<1>1. /\ calls # <<>> /\ calls \in Seq(ACall) /\ returned # NoValue /\ returned < 0
      /\ calls' = Outer(c) /\ returned' = NoValue /\ blocks' = blocks /\ blocks \in Blocks
  BY DEF KeepUse, Resuming, UseTyped
<1>2. inner \in ACall /\ inner.key \in Keys /\ blocks[inner.key] \in Block
  BY <1>1, InnerTyped
<1>3. c \in ACall /\ c.key = inner.key /\ c.old = inner.old
  BY <1>2 DEF ACall
<1> HIDE DEF c
<1>4. /\ Swapped(calls, Outer(c), c) /\ inner = calls[Len(calls)]
      /\ Len(calls) \in 1 .. Len(calls)
  BY <1>1, <1>3, OuterIs
<1>5. SameHeld(blocks, calls, blocks, Outer(c))
  <2>1. blocks[c.key] # NoParams /\ Elsewhere(blocks, blocks, c.key)
    BY <1>2, <1>3, BlockIs DEF Elsewhere
  <2>2. SameUses(blocks[c.key].entries, inner.old, blocks[c.key].entries, c.old, c.key)
    BY <1>3 DEF SameUses
  <2> QED BY <1>3, <1>4, <2>1, <2>2, SwappedHeld
<1>6. Ranked(R, blocks, Outer(c)) /\ Leads(R, blocks, Outer(c))
  BY <1>5, SameLevels DEF LevelInv
<1>7. ~w
  <2>1. w => returned = NoValue \/ returned = 0
    BY DEF LevelInv, Smooth, Succeeds
  <2> QED BY <1>1, <2>1
<1>8. StillDefined
  BY <1>1 DEF StillDefined, Defined
<1> QED BY <1>1, <1>6, <1>7, <1>8 DEF LevelInv, Found

LEMMA ReturnLevels ==
  ASSUME UseTyped, UseInv, UseReturn, NEW R, NEW w, LevelInv(R, blocks, calls, returned, w)
  PROVE  LevelInv(R, blocks', calls', returned', w) /\ StillDefined
<1>1. /\ calls # <<>> /\ returned = NoValue /\ inner.old = <<>> /\ calls \in Seq(ACall)
      /\ returned' = IF inner.status = 0 THEN Use(blocks[inner.key].entries) ELSE -1
      /\ calls' = Front(calls) /\ blocks' = blocks /\ Under(blocks, calls)
  BY DEF UseReturn, UseTyped
<1>2. /\ inner \in ACall /\ inner.key \in Keys /\ blocks[inner.key] \in Block
      /\ inner = calls[Len(calls)] /\ Len(calls) \in 1 .. Len(calls) /\ Len(calls) \in Nat
  <2>1. inner \in ACall /\ inner.key \in Keys /\ blocks[inner.key] \in Block
    BY <1>1, InnerTyped
  <2> QED BY <1>1, <2>1, OuterIs, LenProperties
<1>3. PICK n \in Nat : n = Len(calls) - 1
  <2>1. Len(calls) - 1 \in Nat
    BY <1>2
  <2> QED BY <2>1
<1>4. PICK cs \in Seq(ACall) : cs = Front(calls)
  BY <1>1, FrontType
<1>5. Len(cs) = n /\ Len(calls) = n + 1 /\ \A i \in 1 .. n : cs[i] = calls[i]
  <2>1. Len(cs) = Len(calls) - 1 /\ \A i \in 1 .. Len(calls) - 1 : cs[i] = calls[i]
    BY <1>1, <1>4, FrontType
  <2>2. Len(calls) = n + 1
    BY <1>2, <1>3
  <2> QED BY <1>3, <2>1, <2>2
<1>6. \A i \in 1 .. n : i \in 1 .. n + 1 /\ i < n + 1
  OBVIOUS
<1>7. SameHeld(blocks, calls, blocks, cs)
  <2>1. ASSUME NEW k \in Keys, NEW u, Held(blocks, calls, k, u)
        PROVE  Held(blocks, cs, k, u)
    <3>1. CASE Refers(blocks[k].entries, k, u)
      BY <3>1 DEF Held
    <3>2. CASE \E i \in 1 .. n + 1 : calls[i].key = k /\ Refers(calls[i].old, k, u)
      <4>1. PICK i \in 1 .. n + 1 : calls[i].key = k /\ Refers(calls[i].old, k, u)
        BY <3>2
      <4>2. i # n + 1
        BY <1>1, <1>2, <1>5, <4>1, RefersNone
      <4>3. i \in 1 .. n
        BY <4>2
      <4> QED BY <1>5, <4>1, <4>3 DEF Held
    <3> QED BY <1>5, <2>1, <3>1, <3>2 DEF Held
  <2>2. ASSUME NEW k \in Keys, NEW u, Held(blocks, cs, k, u)
        PROVE  Held(blocks, calls, k, u)
    BY <1>5, <1>6, <2>2 DEF Held
  <2> QED BY <2>1, <2>2 DEF SameHeld
<1>8. Ranked(R, blocks, cs) /\ Leads(R, blocks, cs)
  BY <1>7, SameLevels DEF LevelInv
<1>9. ASSUME cs # <<>>
      PROVE  Directive(cs[Len(cs)]) = inner.key
  <2>1. n \in 1 .. n
    BY <1>4, <1>5, <1>9, EmptySeq
  <2>2. n \in 1 .. Len(calls) /\ Len(calls) = n + 1
    BY <1>5, <2>1
  <2> QED BY <1>2, <1>5, <2>1, <2>2 DEF UseInv, Chain, Linked
<1>10. Found(blocks, cs, returned')
  BY <1>2, <1>9, BlockIs DEF Found
<1>11. ASSUME w
       PROVE  Smooth(R, blocks, cs, returned')
  <2>1. Descends(R, calls) /\ Affords(R, calls) /\ Clean(blocks, calls, NoValue)
    BY <1>1, <1>11 DEF LevelInv, Smooth
  <2>2. OnlyLast(blocks[inner.key].entries, FALSE)
    <3>1. OnlyLast(blocks[inner.key].entries, Follows(calls, NoValue, Len(calls)))
      BY <1>2, <2>1 DEF Clean
    <3>2. ~Follows(calls, NoValue, Len(calls))
      BY <1>2 DEF Follows
    <3> QED BY <3>1, <3>2 DEF OnlyLast
  <2>3. returned' = 0
    <3>1. inner.status = 0
      BY <1>2, <2>1 DEF Affords
    <3>2. Use(blocks[inner.key].entries) = 0
      BY <1>2, <2>2, NoneLeft DEF Block
    <3> QED BY <1>1, <3>1, <3>2
  <2>4. Succeeds(blocks, cs, 0)
    BY <1>9, <2>2 DEF Succeeds
  <2>5. Descends(R, cs) /\ Affords(R, cs)
    BY <1>5, <1>6, <2>1 DEF Descends, Affords
  <2>6. Clean(blocks, cs, 0)
    <3> SUFFICES ASSUME NEW i \in 1 .. n
                 PROVE  OnlyLast(blocks[cs[i].key].entries, Follows(cs, 0, i))
      BY <1>5 DEF Clean
    <3>1. OnlyLast(blocks[calls[i].key].entries, Follows(calls, NoValue, i))
      BY <1>5, <1>6, <2>1 DEF Clean
    <3>2. Follows(cs, 0, i)
      BY DEF Follows, NoValue
    <3> QED BY <1>5, <3>1, <3>2 DEF OnlyLast
  <2> QED BY <2>3, <2>4, <2>5, <2>6 DEF Smooth
<1>12. StillDefined
  BY <1>1 DEF StillDefined, Defined
<1> QED BY <1>1, <1>4, <1>8, <1>10, <1>11, <1>12 DEF LevelInv

LEMMA StepLevels ==
  ASSUME UseTyped, UseInv, UseStep, NEW R, NEW w, LevelInv(R, blocks, calls, returned, w)
  PROVE  LevelInv(R, blocks', calls', returned', w) /\ StillDefined
BY CopyLevels, UseNamedLevels, ReplaceLevels, KeepLevels, ReturnLevels DEF UseStep

(*******************************************************************************)
(* The fetch.                                                                  *)
(*******************************************************************************)
LEMMA FirstCall ==
  ASSUME UseTyped, UseStep
  PROVE  /\ calls # <<>>
         /\ IF calls' = <<>>
            THEN returned' = 0 => OnlyLast(blocks'[calls[1].key].entries, FALSE)
            ELSE calls'[1].key = calls[1].key
<1>1. calls # <<>> /\ calls \in Seq(ACall)
  BY DEF UseStep, CopyParam, UseNotFound, UseNamed, ReplaceUse, KeepUse, UseReturn,
         Iterating, Resuming, UseTyped
<1>2. /\ inner \in ACall /\ inner.key \in Keys /\ blocks[inner.key] \in Block
      /\ inner = calls[Len(calls)] /\ Len(calls) \in 1 .. Len(calls) /\ Len(calls) \in Nat
  <2>1. inner \in ACall /\ inner.key \in Keys /\ blocks[inner.key] \in Block
    BY <1>1, InnerTyped
  <2> QED BY <1>1, <2>1, OuterIs, LenProperties
<1>3. 1 \in 1 .. Len(calls)
  BY <1>2
<1>4. ASSUME NEW c \in ACall, c.key = inner.key
      PROVE  /\ Outer(c) # <<>> /\ Outer(c)[1].key = calls[1].key /\ Outer(c) \in Seq(ACall)
             /\ Len(Outer(c)) = Len(calls) /\ Outer(c)[Len(calls)] = c
  <2>1. /\ Outer(c) \in Seq(ACall) /\ Swapped(calls, Outer(c), c)
        /\ Len(Outer(c)) = Len(calls) /\ Outer(c)[Len(calls)] = c
    BY <1>1, <1>4, OuterIs
  <2>2. Outer(c) # <<>>
    <3>1. Len(Outer(c)) # 0
      BY <1>2, <2>1
    <3> QED BY <3>1, EmptySeq
  <2>3. Outer(c)[1].key = calls[1].key
    BY <1>2, <1>3, <1>4, <2>1 DEF Swapped
  <2> QED BY <2>1, <2>2, <2>3
<1>5. CASE CopyParam \/ UseNotFound
  <2>1. inner.old \in Seq(Entries) /\ inner.old # <<>>
    BY <1>2, <1>5 DEF CopyParam, UseNotFound, Iterating, ACall
  <2> DEFINE c == [inner EXCEPT !.old = Tail(@)]
  <2>2. c \in ACall /\ c.key = inner.key
    BY <1>2, <2>1, HeadTailProperties DEF ACall
  <2>3. calls' = Outer(c)
    BY <1>5 DEF CopyParam, UseNotFound
  <2> HIDE DEF c
  <2> QED BY <1>1, <1>4, <2>2, <2>3
<1>6. CASE UseNamed
  <2>1. inner.old \in Seq(Entries) /\ inner.old # <<>> /\ entry \in Names /\ Iterating
    BY <1>2, <1>6 DEF UseNamed, Iterating, ACall
  <2> DEFINE c == [inner EXCEPT !.old = Tail(@), !.v = entry]
  <2>2. c \in ACall /\ c.key = inner.key /\ c.old = Tail(inner.old) /\ c.v = entry
    BY <1>2, <2>1, HeadTailProperties DEF ACall
  <2>3. Enter(Copied, Named, inner.count, Outer(c))
    BY <1>6 DEF UseNamed
  <2> HIDE DEF c
  <2>4. /\ Outer(c) # <<>> /\ Outer(c)[1].key = calls[1].key /\ Outer(c) \in Seq(ACall)
        /\ Len(Outer(c)) = Len(calls) /\ Outer(c)[Len(calls)] = c
    BY <1>4, <2>2
  <2>5. CASE Transfer(Copied, Named, inner.count, Outer(c))
    <3>1. calls' = Append(Outer(c), Call(Named, Copied[Named].entries, inner.count - 1))
      BY <2>5 DEF Transfer
    <3>2. PICK x : x = Call(Named, Copied[Named].entries, inner.count - 1)
      OBVIOUS
    <3>3. PICK cs \in Seq(ACall) : cs = Outer(c)
      BY <2>4
    <3>4. Append(cs, x) # <<>> /\ Append(cs, x)[1] = cs[1]
      <4>1. Len(cs) \in Nat /\ 1 \in 1 .. Len(cs)
        BY <1>3, <2>4, <3>3, LenProperties
      <4>2. Len(Append(cs, x)) = Len(cs) + 1 /\ Append(cs, x)[1] = cs[1]
        BY <4>1
      <4>3. Len(Append(cs, x)) # 0
        BY <4>1, <4>2
      <4> QED BY <4>2, <4>3, EmptySeq
    <3> QED BY <1>1, <2>4, <3>1, <3>2, <3>3, <3>4
  <2>6. CASE calls' = Outer(c)
    BY <1>1, <2>4, <2>6
  <2> QED BY <2>3, <2>5, <2>6 DEF Enter, NothingToUse, TooManyLevels
<1>7. CASE ReplaceUse
  BY <1>1, <1>7 DEF ReplaceUse
<1>8. CASE KeepUse
  <2> DEFINE c == [inner EXCEPT !.status = -1]
  <2>1. c \in ACall /\ c.key = inner.key
    BY <1>2 DEF ACall
  <2>2. calls' = Outer(c)
    BY <1>8 DEF KeepUse
  <2> HIDE DEF c
  <2> QED BY <1>1, <1>4, <2>1, <2>2
<1>9. CASE UseReturn
  <2>1. /\ returned' = IF inner.status = 0 THEN Use(blocks[inner.key].entries) ELSE -1
        /\ calls' = Front(calls) /\ blocks' = blocks
    BY <1>9 DEF UseReturn
  <2>2. /\ Front(calls) \in Seq(ACall) /\ Len(Front(calls)) = Len(calls) - 1
        /\ \A i \in 1 .. Len(calls) - 1 : Front(calls)[i] = calls[i]
    BY <1>1, FrontType
  <2>3. CASE Len(calls) = 1
    <3>1. Len(Front(calls)) = 0
      BY <2>2, <2>3
    <3>2. calls' = <<>>
      BY <2>1, <2>2, <3>1, EmptySeq
    <3>3. returned' = 0 => Use(blocks[inner.key].entries) = 0
      BY <2>1
    <3>4. returned' = 0 => OnlyLast(blocks[inner.key].entries, FALSE)
      BY <1>2, <3>3, NoneLeft DEF Block
    <3>5. inner = calls[1]
      BY <1>2, <2>3
    <3> QED BY <1>1, <2>1, <3>2, <3>4, <3>5
  <2>4. CASE Len(calls) # 1
    <3>1. 1 \in 1 .. Len(calls) - 1 /\ Len(calls) - 1 # 0
      <4>1. PICK n \in Nat : n = Len(calls)
        BY <1>2
      <4>2. n \in 1 .. n /\ n # 1
        BY <1>2, <2>4, <4>1
      <4>3. 1 \in 1 .. n - 1 /\ n - 1 # 0
        BY <4>2
      <4> QED BY <4>1, <4>3
    <3>2. Front(calls) # <<>> /\ Front(calls)[1] = calls[1]
      BY <2>2, <3>1, EmptySeq
    <3> QED BY <1>1, <2>1, <3>2
  <2> QED BY <2>3, <2>4
<1> QED BY <1>5, <1>6, <1>7, <1>8, <1>9 DEF UseStep

(* The block that is fetched.                                                  *)
Outermost(k) ==
  /\ k \in Keys /\ Defined(k)
  /\ calls # <<>> => calls[1].key = k
  /\ calls = <<>> /\ returned = 0 => OnlyLast(blocks[k].entries, FALSE)

Promised(R, k) ==
  /\ promise.within = (k \in R[Levels])
  /\ promise.atAll = (k \in R[Top])
AnswerInv ==
  Fetching =>
    /\ Outermost(fetch.key)
    /\ \E R : /\ Promised(R, fetch.key)
              /\ LevelInv(R, blocks, calls, returned, fetch.key \in R[Levels])

LEMMA ExpandAnswer ==
  ASSUME IInv, NEW kind \in Kinds, NEW k \in Keys, Expand(kind, k)
  PROVE  AnswerInv'
<1>1. /\ Enter(blocks, k, Levels, <<>>) /\ Defined(k) /\ blocks \in Blocks
      /\ fetch' = [kind |-> kind, key |-> k]
      /\ promise' = [within |-> k \in Resolved[Levels],
                     atAll |-> k \in Resolved[Top],
                     meaning |-> [l \in {l \in Keys : Defined(l)} |-> Meaning(l)]]
  BY DEF Expand, IInv, UseTyped, Top
<1>2. PICK R : R = Resolved
  OBVIOUS
<1>3. Recurs(blocks, R) /\ \A n \in Nat : R[n] \subseteq R[n + 1]
  BY <1>2, ResolvedRecurs, LevelsGrow
<1>4. \A n \in Nat : R[n] = Within(blocks, n, R[n - 1]) /\ R[n] \in SUBSET Keys
  BY <1>3, LevelIs
<1>5. Rising(R)
  <2>1. R \in [Nat -> SUBSET Keys]
    <3>1. R = [n \in Nat |-> Within(blocks, n, R[n - 1])]
      BY <1>3 DEF Recurs
    <3>2. \A n \in Nat : Within(blocks, n, R[n - 1]) \in SUBSET Keys
      BY DEF Within
    <3> QED BY <3>1, <3>2, Zenon
  <2> QED BY <1>3, <2>1 DEF Rising
<1>6. \A l, u : Held(blocks, <<>>, l, u) <=> Refers(blocks[l].entries, l, u)
  <2>1. Len(<<>>) = 0
    BY EmptySeq
  <2>2. 1 .. Len(<<>>) = {}
    BY <2>1
  <2> QED BY <2>2 DEF Held
<1>7. Ranked(R, blocks, <<>>)
  <2>1. ASSUME NEW l \in Keys, NEW m \in Nat, l \in R[m]
        PROVE  blocks[l] # NoParams
    BY <1>4, <2>1 DEF Within
  <2>2. ASSUME NEW l \in Keys, NEW u, Held(blocks, <<>>, l, u)
        PROVE  Below(R, l, u)
    <3> SUFFICES ASSUME NEW m \in Nat, l \in R[m]
                 PROVE  m > 0 /\ u \in R[m - 1]
      BY DEF Below
    <3>1. PICK i \in UsesOf(blocks[l].entries) : u = <<l[1], blocks[l].entries[i]>>
      BY <1>6, <2>2 DEF Refers
    <3>2. l \in Within(blocks, m, R[m - 1])
      BY <1>4
    <3> QED BY <3>1, <3>2 DEF Within
  <2> QED BY <2>1, <2>2 DEF Ranked
<1>8. Leads(R, blocks, <<>>)
  <2>1. PICK N \in Nat : N = Top
    BY KeysAssumption, FS_CardinalityType DEF Top
  <2>2. R[N + 1] = R[N] /\ R[N + 1] = Within(blocks, N + 1, R[N])
    BY <1>3, <2>1, LevelsStop, LevelIs DEF Top
  <2> SUFFICES ASSUME NEW l \in Keys, blocks[l] # NoParams, l \notin R[N]
               PROVE  \E u : Held(blocks, <<>>, l, u) /\ u \notin R[N]
    BY <2>1 DEF Leads, Unresolved
  <2>3. l \notin Within(blocks, N + 1, R[N])
    BY <2>2
  <2>4. N + 1 > 0
    OBVIOUS
  <2>5. PICK i \in UsesOf(blocks[l].entries) : <<l[1], blocks[l].entries[i]>> \notin R[N]
    BY <2>3, <2>4 DEF Within
  <2>6. Held(blocks, <<>>, l, <<l[1], blocks[l].entries[i]>>)
    BY <1>6 DEF Refers
  <2> QED BY <2>5, <2>6
<1>9. Called(blocks, k, <<>>)
  <2>1. blocks[k] \in Block
    BY <1>1, BlockOrNot DEF Defined
  <2> QED BY <1>1, <2>1, EmptySeq DEF Called
<1>10. SameHeld(blocks, <<>>, blocks', calls') /\ Found(blocks', calls', returned')
  BY <1>1, <1>9, EnterSame
<1>11. Ranked(R, blocks', calls') /\ Leads(R, blocks', calls')
  BY <1>7, <1>8, <1>10, SameLevels
<1>12. ASSUME k \in R[Levels]
       PROVE  Smooth(R, blocks', calls', returned')
  <2>1. Len(<<>>) = 0
    BY EmptySeq
  <2>2. 1 .. Len(<<>>) = {}
    BY <2>1
  <2>3. Descends(R, <<>>) /\ Affords(R, <<>>) /\ Clean(blocks, <<>>, 0)
    BY <2>2 DEF Descends, Affords, Clean
  <2> QED BY <1>1, <1>7, <1>9, <1>12, <2>2, <2>3, LevelsAssumption, EnterSmooth
<1>13. LevelInv(R, blocks', calls', returned', k \in R[Levels])
  BY <1>5, <1>10, <1>11, <1>12 DEF LevelInv
<1>14. /\ promise'.within = (k \in R[Levels]) /\ promise'.atAll = (k \in R[Top])
       /\ fetch'.key = k
  BY <1>1, <1>2
<1>15. Outermost(k)'
  <2>1. blocks'[k] # NoParams
    BY <1>1, <1>10 DEF SameHeld, Defined
  <2>2. CASE Transfer(blocks, k, Levels, <<>>)
    <3>0. PICK N \in Nat : N = Len(<<>>)
      BY EmptySeq
    <3>1. PICK c : calls'[N + 1] = c /\ c.key = k /\ calls' # <<>>
      BY <1>9, <2>2, <3>0, EntryIs
    <3>2. N + 1 = 1
      BY <3>0, EmptySeq
    <3> QED BY <2>1, <3>1, <3>2 DEF Outermost, Defined
  <2>3. CASE NothingToUse(blocks, k, <<>>)
    <3>1. /\ blocks' = blocks /\ calls' = <<>> /\ Use(blocks[k].entries) = 0
      BY <2>3 DEF NothingToUse
    <3>2. OnlyLast(blocks[k].entries, FALSE)
      BY <1>1, <3>1, BlockOrNot, NoneLeft
    <3> QED BY <2>1, <3>1, <3>2 DEF Outermost, Defined
  <2>4. CASE TooManyLevels(blocks, k, Levels, <<>>)
    <3>1. calls' = <<>> /\ returned' = -1
      BY <2>4 DEF TooManyLevels
    <3> QED BY <2>1, <3>1 DEF Outermost, Defined
  <2> QED BY <1>1, <2>2, <2>3, <2>4 DEF Enter
<1> QED BY <1>13, <1>14, <1>15 DEF AnswerInv, Promised, Outermost, Defined

LEMMA ExpandingAnswer ==
  ASSUME IInv, UseInv, AnswerInv, Expanding
  PROVE  AnswerInv'
<1>1. UseTyped /\ UseStep /\ fetch' = fetch /\ promise' = promise
  BY DEF IInv, Expanding
<1> SUFFICES ASSUME Fetching
             PROVE  /\ Outermost(fetch.key)'
                    /\ \E R : /\ Promised(R, fetch.key)'
                              /\ LevelInv(R, blocks', calls', returned', fetch.key \in R[Levels])
  BY <1>1 DEF AnswerInv, Fetching
<1>2. PICK R : /\ Promised(R, fetch.key)
               /\ LevelInv(R, blocks, calls, returned, fetch.key \in R[Levels])
  BY DEF AnswerInv
<1>3. LevelInv(R, blocks', calls', returned', fetch.key \in R[Levels]) /\ StillDefined
  BY <1>1, <1>2, StepLevels
<1>4. Promised(R, fetch.key)'
  BY <1>1, <1>2 DEF Promised
<1>5. Outermost(fetch.key)'
  BY <1>1, <1>3, FirstCall DEF AnswerInv, Outermost, StillDefined, Defined
<1> QED BY <1>3, <1>4, <1>5

(* What the promise was made of stays true of the blocks while they are taken   *)
(* apart.                                                                      *)
LEMMA AnswerInvariance == Spec => []AnswerInv
<1>1. Init => AnswerInv
  BY DEF Init, AnswerInv, Fetching
<1>2. IInv /\ UseInv /\ AnswerInv /\ [Next]_vars_all => AnswerInv'
  <2> SUFFICES ASSUME IInv, UseInv, AnswerInv, [Next]_vars_all
               PROVE  AnswerInv'
    OBVIOUS
  <2>1. ASSUME fetch' = NoFetch
        PROVE  AnswerInv'
    BY <2>1 DEF AnswerInv, Fetching
  <2>2. ASSUME UNCHANGED <<blocks, use_vars, fetch, promise>>
        PROVE  AnswerInv'
    BY <2>2 DEF AnswerInv, Fetching, Outermost, Promised, Defined, use_vars
  <2>3. CASE CallRead
    BY <2>1, <2>3 DEF CallRead, NewCall, Idle, Fetching, Unfetched
  <2>4. CASE Fetch
    <3>1. PICK kind \in Kinds, k \in Keys :
            NotFound(kind, k) \/ Kept(kind, k) \/ NotLoaded(kind, k) \/ Expand(kind, k)
      BY <2>4 DEF Fetch
    <3>2. CASE Expand(kind, k)
      BY <3>2, ExpandAnswer
    <3> QED BY <2>2, <3>1, <3>2 DEF NotFound, Kept, NotLoaded
  <2>5. CASE Reading
    <3>1. reading
      BY <2>5 DEF Reading, ReadStep, ReadNext, Include, SetBase, SetUnits, BadStatement,
                  AlreadyDefined, StoreParameters, CloseFile, ReadReturn, AtStatement, IInv, ReadTyped
    <3> QED BY <2>1, <2>5, <3>1 DEF Reading, Unfetched, Sequential, IInv, Fetching
  <2>6. CASE Expanding
    BY <2>6, ExpandingAnswer
  <2>7. CASE Answering
    BY <2>1, <2>7 DEF Answering, UseFailed, GiveParams, InitializeFailed, GiveObj, Give
  <2>8. CASE UNCHANGED vars_all
    BY <2>2, <2>8 DEF vars_all
  <2> QED BY <2>3, <2>4, <2>5, <2>6, <2>7, <2>8 DEF Next, Working
<1> QED BY <1>1, <1>2, Invariance, UseInvariance, PTL DEF Spec

(* Use succeeds on every block whose directives resolve within Levels levels   *)
(* when it is called (NewObject, FetchParams), and on no block that leads to a *)
(* missing block or back to itself; no directive is left in it then.           *)
THEOREM UseAnswerHolds == Spec => []UseAnswer
<1>1. IInv /\ AnswerInv => UseAnswer
  <2> SUFFICES ASSUME IInv, AnswerInv, Expanded
               PROVE  /\ promise.within => returned = 0
                      /\ returned = 0 => promise.atAll /\ Use(expanded) = 0
    BY DEF UseAnswer
  <2>1. /\ calls = <<>> /\ Outermost(fetch.key) /\ blocks \in Blocks
    BY DEF Expanded, AnswerInv, IInv, UseTyped
  <2>2. PICK R : /\ Promised(R, fetch.key)
                 /\ LevelInv(R, blocks, calls, returned, fetch.key \in R[Levels])
    BY DEF Expanded, AnswerInv
  <2>3. promise.within => returned = 0
    BY <2>1, <2>2 DEF Promised, LevelInv, Smooth, Succeeds
  <2>4. ASSUME returned = 0
        PROVE  promise.atAll /\ Use(expanded) = 0
    <3>1. OnlyLast(blocks[fetch.key].entries, FALSE) /\ fetch.key \in Keys
          /\ blocks[fetch.key] # NoParams
      BY <2>1, <2>4 DEF Outermost, Defined
    <3>2. blocks[fetch.key].entries \in Seq(Entries)
      BY <2>1, <3>1, BlockOrNot
    <3>3. Use(expanded) = 0
      BY <3>1, <3>2, NoneLeft DEF expanded
    <3>4. ~Unresolved(R, blocks, calls, fetch.key)
      <4>1. Len(<<>>) = 0
        BY EmptySeq
      <4>2. 1 .. Len(calls) = {}
        BY <2>1, <4>1
      <4> QED BY <3>1, <3>2, <4>2, NoneLeft DEF Unresolved, Held
    <3>5. fetch.key \in R[Top]
      BY <2>2, <3>1, <3>4 DEF LevelInv, Leads
    <3> QED BY <2>2, <3>3, <3>5 DEF Promised
  <2> QED BY <2>3, <2>4
<1> QED BY <1>1, Invariance, AnswerInvariance, PTL

(*******************************************************************************)
(* Flattening: a recursion along a sequence of sequences.                      *)
(*******************************************************************************)
(* The sequences q in a row, one after the other: F[i] is the first i of them. *)
Flattens(q, F) ==
  F = [i \in 1 .. Len(q) |-> IF i = 1 THEN q[i] ELSE F[i - 1] \o q[i]]

(* The first n of them are a solution of the first n equations.                *)
FlattensTo(q, F, n) ==
  F = [i \in 1 .. n |-> IF i = 1 THEN q[i] ELSE F[i - 1] \o q[i]]

(* Such an F exists: one more sequence extends the one for n.                  *)
LEMMA FlattenExists ==
  ASSUME NEW q
  PROVE  \A n \in Nat : \E F : FlattensTo(q, F, n)
<1> DEFINE T == {n \in Nat : \E F : FlattensTo(q, F, n)}
<1>1. 0 \in T
  <2>1. FlattensTo(q, [i \in 1 .. 0 |-> q[i]], 0)
    BY DEF FlattensTo
  <2> QED BY <2>1
<1>2. ASSUME NEW n \in T
      PROVE  n + 1 \in T
  <2>1. PICK F : FlattensTo(q, F, n)
    OBVIOUS
  <2> DEFINE e == IF n = 0 THEN q[n + 1] ELSE F[n] \o q[n + 1]
             G == [i \in 1 .. n + 1 |-> IF i = n + 1 THEN e ELSE F[i]]
  <2> HIDE DEF e
  <2>2. \A i \in 1 .. n : F[i] = IF i = 1 THEN q[i] ELSE F[i - 1] \o q[i]
    BY <2>1 DEF FlattensTo
  <2>3. /\ \A i \in 1 .. n : i \in 1 .. n + 1 /\ G[i] = F[i]
        /\ G[n + 1] = e
    OBVIOUS
  <2>4. ASSUME NEW i \in 1 .. n + 1
        PROVE  G[i] = IF i = 1 THEN q[i] ELSE G[i - 1] \o q[i]
    <3>1. CASE i = n + 1 /\ n = 0
      BY <2>3, <3>1 DEF e
    <3>2. CASE i = n + 1 /\ n # 0
      <4>1. i - 1 = n /\ n \in 1 .. n /\ i # 1
        BY <3>2
      <4>2. G[i] = F[n] \o q[i] /\ G[i - 1] = F[n]
        BY <2>3, <3>2, <4>1 DEF e
      <4> QED BY <4>1, <4>2
    <3>3. CASE i # n + 1
      <4>1. i \in 1 .. n /\ (i # 1 => i - 1 \in 1 .. n)
        BY <3>3
      <4>2. G[i] = F[i] /\ (i # 1 => G[i - 1] = F[i - 1])
        BY <2>3, <4>1
      <4> QED BY <2>2, <4>1, <4>2
    <3> QED BY <3>1, <3>2, <3>3
  <2>5. G = [i \in 1 .. n + 1 |-> G[i]]
    OBVIOUS
  <2> HIDE DEF G
  <2>6. FlattensTo(q, G, n + 1)
    BY <2>4, <2>5 DEF FlattensTo
  <2> QED BY <2>6
<1>3. T \in SUBSET Nat
  OBVIOUS
<1> HIDE DEF T
<1>4. \A n \in Nat : n \in T
  BY <1>1, <1>2, <1>3, Counting
<1> QED BY <1>4 DEF T

(* The solution, at which FlattenSeq looks.                                    *)
Flat(q) == CHOOSE F : Flattens(q, F)

(* Hence the one FlattenSeq chooses satisfies the equations.                   *)
LEMMA FlatIs ==
  ASSUME NEW S, NEW q \in Seq(Seq(S))
  PROVE  /\ \A i \in 1 .. Len(q) : Flat(q)[i] = IF i = 1 THEN q[i] ELSE Flat(q)[i - 1] \o q[i]
         /\ \A i \in 1 .. Len(q) : Flat(q)[i] \in Seq(S)
         /\ FlattenSeq(q) = IF Len(q) = 0 THEN <<>> ELSE Flat(q)[Len(q)]
         /\ FlattenSeq(q) \in Seq(S)
<1> DEFINE n == Len(q)
           F == Flat(q)
<1>1. n \in Nat /\ \A i \in 1 .. n : q[i] \in Seq(S)
  OBVIOUS
<1>2. Flattens(q, F)
  <2>1. PICK G : FlattensTo(q, G, n)
    BY <1>1, FlattenExists
  <2>2. Flattens(q, G)
    BY <2>1 DEF Flattens, FlattensTo
  <2> QED BY <2>2 DEF Flat
<1>3. FlattenSeq(q) = IF n = 0 THEN q ELSE F[n]
  BY DEF FlattenSeq, Flat, Flattens
<1> HIDE DEF n, F
<1>4. \A i \in 1 .. n : F[i] = IF i = 1 THEN q[i] ELSE F[i - 1] \o q[i]
  BY <1>2 DEF Flattens, n
<1> DEFINE T == {i \in Nat : i \in 1 .. n => F[i] \in Seq(S)}
<1>5. 0 \in T
  OBVIOUS
<1>6. ASSUME NEW i \in T
      PROVE  i + 1 \in T
  <2> SUFFICES ASSUME i + 1 \in 1 .. n
               PROVE  F[i + 1] \in Seq(S)
    OBVIOUS
  <2>1. CASE i = 0
    <3>1. i + 1 = 1
      BY <2>1
    <3> QED BY <1>1, <1>4, <3>1
  <2>2. CASE i # 0
    <3> DEFINE j == i + 1
    <3>1. i \in 1 .. n /\ j \in 1 .. n /\ j # 1 /\ j - 1 = i
      BY <1>1, <2>2
    <3> HIDE DEF j
    <3>2. F[i] \in Seq(S) /\ q[j] \in Seq(S)
      BY <1>1, <3>1
    <3>3. F[j] = F[i] \o q[j]
      BY <1>4, <3>1
    <3> QED BY <3>2, <3>3, ConcatProperties DEF j
  <2> QED BY <2>1, <2>2
<1>7. T \in SUBSET Nat
  OBVIOUS
<1> HIDE DEF T
<1>8. \A i \in Nat : i \in T
  BY <1>5, <1>6, <1>7, Counting
<1>9. \A i \in 1 .. n : F[i] \in Seq(S)
  BY <1>8 DEF T
<1>10. n = 0 => q = <<>>
  BY DEF n
<1>11. FlattenSeq(q) \in Seq(S)
  BY <1>1, <1>3, <1>9, <1>10
<1> QED BY <1>3, <1>4, <1>9, <1>10, <1>11 DEF n, F

(* One sequence more.                                                          *)
LEMMA FlattenAppend ==
  ASSUME NEW S, NEW q \in Seq(Seq(S)), NEW x \in Seq(S)
  PROVE  FlattenSeq(Append(q, x)) = FlattenSeq(q) \o x
<1> DEFINE n == Len(q)
           p == Append(q, x)
<1>1. /\ n \in Nat /\ p \in Seq(Seq(S)) /\ Len(p) = n + 1 /\ p[n + 1] = x
      /\ \A i \in 1 .. n : p[i] = q[i] /\ i \in 1 .. n + 1
  OBVIOUS
<1>2. Len(q) = n
  OBVIOUS
<1> HIDE DEF n, p
<1>3. /\ \A i \in 1 .. n : Flat(q)[i] = IF i = 1 THEN q[i] ELSE Flat(q)[i - 1] \o q[i]
      /\ FlattenSeq(q) = IF n = 0 THEN <<>> ELSE Flat(q)[n]
  BY <1>2, FlatIs
<1>4. /\ \A i \in 1 .. n + 1 : Flat(p)[i] = IF i = 1 THEN p[i] ELSE Flat(p)[i - 1] \o p[i]
      /\ FlattenSeq(p) = Flat(p)[n + 1]
  <2>1. n + 1 # 0
    BY <1>1
  <2> QED BY <1>1, <2>1, FlatIs
<1> DEFINE T == {i \in Nat : i \in 1 .. n => Flat(p)[i] = Flat(q)[i]}
<1>5. 0 \in T
  OBVIOUS
<1>6. ASSUME NEW i \in T
      PROVE  i + 1 \in T
  <2> SUFFICES ASSUME i + 1 \in 1 .. n
               PROVE  Flat(p)[i + 1] = Flat(q)[i + 1]
    OBVIOUS
  <2>1. CASE i = 0
    <3>1. i + 1 = 1
      BY <2>1
    <3> QED BY <1>1, <1>3, <1>4, <3>1
  <2>2. CASE i # 0
    <3> DEFINE j == i + 1
    <3>1. i \in 1 .. n /\ j \in 1 .. n /\ j \in 1 .. n + 1 /\ j # 1 /\ j - 1 = i
      BY <1>1, <2>2
    <3> HIDE DEF j
    <3>2. Flat(p)[i] = Flat(q)[i] /\ p[j] = q[j]
      BY <1>1, <3>1
    <3>3. Flat(p)[j] = Flat(p)[i] \o p[j]
      BY <1>4, <3>1
    <3>4. Flat(q)[j] = Flat(q)[i] \o q[j]
      BY <1>3, <3>1
    <3> QED BY <3>2, <3>3, <3>4 DEF j
  <2> QED BY <2>1, <2>2
<1>7. T \in SUBSET Nat
  OBVIOUS
<1> HIDE DEF T
<1>8. \A i \in Nat : i \in T
  BY <1>5, <1>6, <1>7, Counting
<1>9. CASE n = 0
  <2>1. n + 1 = 1 /\ n + 1 \in 1 .. n + 1
    BY <1>9
  <2>2. FlattenSeq(p) = x /\ FlattenSeq(q) = <<>>
    BY <1>1, <1>3, <1>4, <1>9, <2>1
  <2> QED BY <2>2, ConcatEmptySeq DEF p
<1>10. CASE n # 0
  <2> DEFINE j == n + 1
  <2>1. n \in 1 .. n /\ j # 1 /\ j - 1 = n /\ j \in 1 .. n + 1
    BY <1>1, <1>10
  <2>2. Flat(p)[n] = Flat(q)[n]
    BY <1>8, <2>1 DEF T
  <2>3. FlattenSeq(p) = Flat(p)[j] /\ p[j] = x
    BY <1>1, <1>4
  <2> HIDE DEF j
  <2>4. Flat(p)[j] = Flat(p)[n] \o x
    BY <1>4, <2>1, <2>3
  <2> QED BY <1>3, <1>10, <2>2, <2>3, <2>4 DEF p
<1> QED BY <1>9, <1>10

(* And many.                                                                   *)
LEMMA FlattenConcat ==
  ASSUME NEW S, NEW p \in Seq(Seq(S)), NEW q \in Seq(Seq(S))
  PROVE  FlattenSeq(p \o q) = FlattenSeq(p) \o FlattenSeq(q)
<1> DEFINE Q == Seq(S)
           T == {n \in Nat : \A r \in Seq(Q) : Len(r) = n =>
                    FlattenSeq(p \o r) = FlattenSeq(p) \o FlattenSeq(r)}
<1>1. 0 \in T
  <2> SUFFICES ASSUME NEW r \in Seq(Q), Len(r) = 0
               PROVE  FlattenSeq(p \o r) = FlattenSeq(p) \o FlattenSeq(r)
    OBVIOUS
  <2>1. r = <<>> /\ p \o r = p
    BY EmptySeq, ConcatEmptySeq
  <2>2. FlattenSeq(r) = <<>> /\ FlattenSeq(p) \in Seq(S)
    BY <2>1, FlatIs
  <2> QED BY <2>1, <2>2, ConcatEmptySeq
<1>2. ASSUME NEW n \in T
      PROVE  n + 1 \in T
  <2> SUFFICES ASSUME NEW r \in Seq(Q), Len(r) = n + 1
               PROVE  FlattenSeq(p \o r) = FlattenSeq(p) \o FlattenSeq(r)
    OBVIOUS
  <2>1. r # <<>>
    BY EmptySeq
  <2>2. PICK s \in Seq(Q), x \in Q : r = Append(s, x)
    BY <2>1, SequenceEmptyOrAppend
  <2>3. Len(s) = n
    <3>1. Len(r) = Len(s) + 1 /\ Len(s) \in Nat
      BY <2>2, AppendProperties, LenProperties
    <3> QED BY <3>1
  <2>4. FlattenSeq(p \o s) = FlattenSeq(p) \o FlattenSeq(s)
    BY <2>3
  <2> HIDE DEF T
  <2>5. p \in Seq(Q) /\ p \o s \in Seq(Q) /\ p \o r = Append(p \o s, x)
    <3>1. p \in Seq(Q) /\ p \o s \in Seq(Q)
      BY ConcatProperties
    <3>2. <<x>> \in Seq(Q)
      OBVIOUS
    <3> HIDE DEF Q
    <3>4. r = s \o <<x>> /\ Append(p \o s, x) = (p \o s) \o <<x>>
      BY <2>2, <3>1, AppendIsConcat
    <3>3. (p \o s) \o <<x>> = p \o (s \o <<x>>)
      BY <3>1, <3>2, ConcatAssociative, SMTT(30)
    <3> QED BY <3>1, <3>3, <3>4
  <2>6. FlattenSeq(p \o r) = FlattenSeq(p \o s) \o x
    BY <2>5, FlattenAppend
  <2>7. FlattenSeq(r) = FlattenSeq(s) \o x
    BY <2>2, FlattenAppend
  <2>8. FlattenSeq(p) \in Seq(S) /\ FlattenSeq(s) \in Seq(S)
    BY FlatIs
  <2>9. x \in Seq(S)
    OBVIOUS
  <2> DEFINE a == FlattenSeq(p)
             b == FlattenSeq(s)
  <2> HIDE DEF Q, a, b
  <2>10. (a \o b) \o x = a \o (b \o x)
    <3>1. a \in Seq(S) /\ b \in Seq(S)
      BY <2>8 DEF a, b
    <3> QED BY <2>9, <3>1, ConcatAssociative, SMTT(30)
  <2> QED BY <2>4, <2>6, <2>7, <2>10 DEF a, b
<1>3. T \in SUBSET Nat
  OBVIOUS
<1>4. \A n \in Nat : n \in T
  <2> HIDE DEF T
  <2> QED BY <1>1, <1>2, <1>3, Counting
<1>5. q \in Seq(Q) /\ Len(q) \in Nat
  OBVIOUS
<1> QED BY <1>4, <1>5

(* Sequences of one.                                                           *)
LEMMA FlattenOne ==
  ASSUME NEW S, NEW x \in Seq(S)
  PROVE  FlattenSeq(<<x>>) = x
<1>1. <<>> \in Seq(Seq(S)) /\ Append(<<>>, x) = <<x>>
  OBVIOUS
<1>2. FlattenSeq(<<>>) = <<>>
  BY EmptySeq DEF FlattenSeq
<1>3. FlattenSeq(<<x>>) = <<>> \o x
  BY <1>1, <1>2, FlattenAppend
<1> QED BY <1>3, ConcatEmptySeq

(* Sequences of one entry in a row are the entries.                            *)
LEMMA FlattenSingles ==
  ASSUME NEW S, NEW s \in Seq(S)
  PROVE  FlattenSeq([i \in 1 .. Len(s) |-> <<s[i]>>]) = s
<1> DEFINE ones(r) == [i \in 1 .. Len(r) |-> <<r[i]>>]
           T == {n \in Nat : \A r \in Seq(S) : Len(r) = n => FlattenSeq(ones(r)) = r}
<1>1. 0 \in T
  <2> SUFFICES ASSUME NEW r \in Seq(S), Len(r) = 0
               PROVE  FlattenSeq(ones(r)) = r
    OBVIOUS
  <2>1. ones(r) = <<>> /\ r = <<>> /\ <<>> \in Seq(Seq(S)) /\ Len(<<>>) = 0
    OBVIOUS
  <2> QED BY <2>1, FlatIs
<1>2. ASSUME NEW n \in T
      PROVE  n + 1 \in T
  <2> SUFFICES ASSUME NEW r \in Seq(S), Len(r) = n + 1
               PROVE  FlattenSeq(ones(r)) = r
    OBVIOUS
  <2>1. r # <<>>
    BY EmptySeq
  <2>2. PICK t \in Seq(S), x \in S : r = Append(t, x)
    BY <2>1, SequenceEmptyOrAppend
  <2>3. Len(t) = n
    <3>1. Len(r) = Len(t) + 1 /\ Len(t) \in Nat
      BY <2>2, AppendProperties, LenProperties
    <3> QED BY <3>1
  <2>4. FlattenSeq(ones(t)) = t
    BY <2>3
  <2>5. ones(t) \in Seq(Seq(S)) /\ <<x>> \in Seq(S) /\ Append(ones(t), <<x>>) \in Seq(Seq(S))
    OBVIOUS
  <2>6. ones(r) = Append(ones(t), <<x>>)
    <3>1. n \in Nat /\ Len(ones(t)) = n
      BY <2>3
    <3>2. /\ Len(Append(ones(t), <<x>>)) = n + 1
          /\ \A i \in 1 .. n : Append(ones(t), <<x>>)[i] = <<t[i]>>
          /\ Append(ones(t), <<x>>)[n + 1] = <<x>>
      BY <2>3, <2>5, <3>1
    <3>3. \A i \in 1 .. n : r[i] = t[i]
      BY <2>2, <2>3
    <3>4. r[n + 1] = x
      BY <2>2, <2>3
    <3>5. ASSUME NEW i \in 1 .. n + 1
          PROVE  ones(r)[i] = Append(ones(t), <<x>>)[i]
      <4>1. CASE i = n + 1
        BY <3>2, <3>4, <4>1
      <4>2. CASE i # n + 1
        <5>1. i \in 1 .. n
          BY <3>1, <4>2
        <5> QED BY <3>2, <3>3, <5>1
      <4> QED BY <4>1, <4>2
    <3>6. ones(r) \in Seq(Seq(S)) /\ Len(ones(r)) = n + 1
      OBVIOUS
    <3> HIDE DEF ones
    <3> QED BY <2>5, <3>2, <3>5, <3>6, SeqEqual
  <2> HIDE DEF ones
  <2>7. FlattenSeq(ones(r)) = t \o <<x>>
    BY <2>4, <2>5, <2>6, FlattenAppend
  <2> QED BY <2>2, <2>7, AppendIsConcat
<1>3. T \in SUBSET Nat
  OBVIOUS
<1>4. \A n \in Nat : n \in T
  <2> HIDE DEF T
  <2> QED BY <1>1, <1>2, <1>3, Counting
<1>5. Len(s) \in Nat
  OBVIOUS
<1> QED BY <1>4, <1>5

(*******************************************************************************)
(* What blocks stand for: the recursion of Meaning has a solution.             *)
(*******************************************************************************)
(* Where the blocks D are there and hold C: what M says of an entry e of block *)
(* k, and of the entries s, when the blocks of path are being followed.        *)
Piece(D, M, path, k, e) ==
  LET u == <<k[1], e>> IN
  IF e \in Names /\ u \in D \ path THEN M[path \cup {u}][u] ELSE <<e>>
Pieces(D, M, path, k, s) == [i \in 1 .. Len(s) |-> Piece(D, M, path, k, s[i])]

Value(D, C, M, path, k) ==
  LET s == C[k] IN
  FlattenSeq([i \in DOMAIN s |->
    LET u == <<k[1], s[i]>> IN
    IF s[i] \in Names /\ u \in D \ path THEN M[path \cup {u}][u] ELSE <<s[i]>>])
Unfolds(D, C, M) == M = [path \in SUBSET Keys |-> [k \in Keys |-> Value(D, C, M, path, k)]]
Unfolding(D, C) == CHOOSE M : Unfolds(D, C, M)

Holds(D, C) == D \in SUBSET Keys /\ C \in [Keys -> Seq(Entries)]
(* M says of the blocks that path does not follow yet what N says.             *)
SameBelow(M, N, path) == \A u \in Keys \ path : M[path \cup {u}][u] = N[path \cup {u}][u]
TypedBelow(M, path) == \A u \in Keys \ path : M[path \cup {u}][u] \in Seq(Entries)

(* The recursion of Meaning, as an operator of the blocks.                     *)
LEMMA MeaningIs ==
  ASSUME NEW key
  PROVE  Meaning(key) = Unfolding(Present, Contents)[{key}][key]
BY DEF Meaning, Unfolding, Unfolds, Value

(* The right-hand side of its equation, piece by piece ...                     *)
LEMMA ValueIs ==
  ASSUME NEW D, NEW C, Holds(D, C), NEW M, NEW path, NEW k \in Keys
  PROVE  Value(D, C, M, path, k) = FlattenSeq(Pieces(D, M, path, k, C[k]))
<1>1. C[k] \in Seq(Entries)
  BY DEF Holds
<1>2. DOMAIN C[k] = 1 .. Len(C[k])
  BY <1>1, LenProperties
<1> QED BY <1>2 DEF Value, Pieces, Piece

(* ... depends only on what is said of the blocks not followed yet ...         *)
LEMMA PiecesSame ==
  ASSUME NEW D \in SUBSET Keys, NEW M, NEW N, NEW path, SameBelow(M, N, path), NEW k, NEW s
  PROVE  Pieces(D, M, path, k, s) = Pieces(D, N, path, k, s)
<1>1. ASSUME NEW e
      PROVE  Piece(D, M, path, k, e) = Piece(D, N, path, k, e)
  BY DEF Piece, SameBelow
<1> QED BY <1>1 DEF Pieces

(* ... and is a sequence of entries if that is.                                *)
LEMMA PiecesTyped ==
  ASSUME NEW D \in SUBSET Keys, NEW M, NEW path, TypedBelow(M, path), NEW k,
         NEW s \in Seq(Entries)
  PROVE  /\ Pieces(D, M, path, k, s) \in Seq(Seq(Entries))
         /\ FlattenSeq(Pieces(D, M, path, k, s)) \in Seq(Entries)
<1>1. ASSUME NEW e \in Entries
      PROVE  Piece(D, M, path, k, e) \in Seq(Entries)
  <2>1. <<e>> \in Seq(Entries)
    OBVIOUS
  <2> QED BY <2>1 DEF Piece, TypedBelow
<1>2. Len(s) \in Nat /\ \A i \in 1 .. Len(s) : s[i] \in Entries
  BY LenProperties, ElementOfSeq
<1>3. Pieces(D, M, path, k, s) \in Seq(Seq(Entries))
  BY <1>1, <1>2, IsASeq DEF Pieces
<1> QED BY <1>3, FlatIs

(* The same of the pieces in a row.                                            *)
LEMMA ValueSame ==
  ASSUME NEW D, NEW C, Holds(D, C), NEW M, NEW N, NEW path, SameBelow(M, N, path),
         NEW k \in Keys
  PROVE  Value(D, C, M, path, k) = Value(D, C, N, path, k)
BY ValueIs, PiecesSame, SMTT(30) DEF Holds

(* The value of a block is a sequence of entries.                              *)
LEMMA ValueTyped ==
  ASSUME NEW D, NEW C, Holds(D, C), NEW M, NEW path, TypedBelow(M, path), NEW k \in Keys
  PROVE  Value(D, C, M, path, k) \in Seq(Entries)
BY ValueIs, PiecesTyped DEF Holds

(* How many blocks a path does not follow yet: fewer with one more followed.   *)
Left(path) == Cardinality(Keys \ path)

(* There are finitely many.                                                    *)
LEMMA LeftIs ==
  ASSUME NEW path \in SUBSET Keys
  PROVE  /\ Left(path) \in Nat /\ Left(path) < Top + 1
         /\ \A u \in Keys \ path : /\ path \cup {u} \in SUBSET Keys
                                   /\ Left(path \cup {u}) < Left(path)
<1>1. IsFiniteSet(Keys \ path) /\ Keys \ path \in SUBSET Keys
  BY KeysAssumption, FS_Subset
<1>2. Left(path) \in Nat /\ Left(path) <= Top /\ Top \in Nat
  BY <1>1, KeysAssumption, FS_CardinalityType, FS_Subset DEF Left, Top
<1>3. ASSUME NEW u \in Keys \ path
      PROVE  path \cup {u} \in SUBSET Keys /\ Left(path \cup {u}) < Left(path)
  <2>1. Keys \ (path \cup {u}) = (Keys \ path) \ {u}
    OBVIOUS
  <2>2. Cardinality((Keys \ path) \ {u}) = Cardinality(Keys \ path) - 1
    BY <1>1, FS_RemoveElement
  <2> QED BY <1>2, <2>1, <2>2 DEF Left
<1> QED BY <1>2, <1>3

(* A solution where fewer than n blocks are left.                              *)
UnfoldsTo(D, C, M, n) ==
  /\ M = [path \in SUBSET Keys |-> [k \in Keys |-> M[path][k]]]
  /\ \A path \in SUBSET Keys : Left(path) < n =>
       \A k \in Keys : M[path][k] = Value(D, C, M, path, k)

(* A solution exists: paths that leave fewer than n blocks, by induction.      *)
LEMMA UnfoldingExists ==
  ASSUME NEW D, NEW C, Holds(D, C)
  PROVE  Unfolds(D, C, Unfolding(D, C))
<1> DEFINE T == {n \in Nat : \E M : UnfoldsTo(D, C, M, n)}
<1>1. 0 \in T
  <2> DEFINE M == [path \in SUBSET Keys |-> [k \in Keys |-> <<>>]]
  <2>1. \A path \in SUBSET Keys : ~(Left(path) < 0)
    <3> SUFFICES ASSUME NEW path \in SUBSET Keys
                 PROVE  ~(Left(path) < 0)
      OBVIOUS
    <3>1. Left(path) \in Nat
      BY LeftIs
    <3> QED BY <3>1
  <2>2. M = [path \in SUBSET Keys |-> [k \in Keys |-> M[path][k]]]
    OBVIOUS
  <2> HIDE DEF M
  <2>3. UnfoldsTo(D, C, M, 0)
    BY <2>1, <2>2 DEF UnfoldsTo
  <2> QED BY <2>3
<1>2. ASSUME NEW n \in T
      PROVE  n + 1 \in T
  <2>1. PICK M : UnfoldsTo(D, C, M, n)
    OBVIOUS
  <2> DEFINE N == [path \in SUBSET Keys |-> [k \in Keys |-> Value(D, C, M, path, k)]]
  <2>2. \A path \in SUBSET Keys, k \in Keys : N[path][k] = Value(D, C, M, path, k)
    OBVIOUS
  <2>3. N = [path \in SUBSET Keys |-> [k \in Keys |-> N[path][k]]]
    OBVIOUS
  <2> HIDE DEF N
  <2>4. ASSUME NEW path \in SUBSET Keys, Left(path) < n + 1, NEW k \in Keys
        PROVE  N[path][k] = Value(D, C, N, path, k)
    <3>1. ASSUME NEW u \in Keys \ path
          PROVE  M[path \cup {u}][u] = N[path \cup {u}][u]
      <4>1. /\ path \cup {u} \in SUBSET Keys /\ Left(path \cup {u}) < Left(path)
            /\ Left(path) \in Nat /\ Left(path \cup {u}) \in Nat
        BY LeftIs
      <4>2. Left(path \cup {u}) < n
        BY <2>4, <4>1
      <4>3. M[path \cup {u}][u] = Value(D, C, M, path \cup {u}, u)
        BY <2>1, <4>1, <4>2 DEF UnfoldsTo
      <4> QED BY <2>2, <4>1, <4>3
    <3>2. SameBelow(M, N, path)
      BY <3>1 DEF SameBelow
    <3> QED BY <2>2, <3>2, ValueSame
  <2>5. UnfoldsTo(D, C, N, n + 1)
    BY <2>3, <2>4 DEF UnfoldsTo
  <2> QED BY <2>5
<1>3. T \in SUBSET Nat
  OBVIOUS
<1>4. Top \in Nat
  BY KeysAssumption, FS_CardinalityType DEF Top
<1> HIDE DEF T
<1>5. Top + 1 \in T
  BY <1>1, <1>2, <1>3, <1>4, Counting
<1>6. PICK M : UnfoldsTo(D, C, M, Top + 1)
  BY <1>5 DEF T
<1>7. \A path \in SUBSET Keys, k \in Keys : M[path][k] = Value(D, C, M, path, k)
  BY <1>6, LeftIs DEF UnfoldsTo
<1>8. Unfolds(D, C, M)
  BY <1>6, <1>7 DEF Unfolds, UnfoldsTo
<1> QED BY <1>8 DEF Unfolding

(* The equation at a path and a block.                                         *)
LEMMA UnfoldsAt ==
  ASSUME NEW D, NEW C, NEW M, Unfolds(D, C, M), NEW path \in SUBSET Keys, NEW k \in Keys
  PROVE  M[path][k] = Value(D, C, M, path, k)
BY DEF Unfolds

(* What a block stands for is a sequence of entries.                           *)
LEMMA UnfoldsTyped ==
  ASSUME NEW D, NEW C, Holds(D, C), NEW M, Unfolds(D, C, M)
  PROVE  \A path \in SUBSET Keys, k \in Keys : M[path][k] \in Seq(Entries)
<1> DEFINE T == {n \in Nat : \A path \in SUBSET Keys : Left(path) < n =>
                              \A k \in Keys : M[path][k] \in Seq(Entries)}
<1>1. 0 \in T
  <2> SUFFICES ASSUME NEW path \in SUBSET Keys
               PROVE  ~(Left(path) < 0)
    OBVIOUS
  <2>1. Left(path) \in Nat
    BY LeftIs
  <2> QED BY <2>1
<1>2. ASSUME NEW n \in T
      PROVE  n + 1 \in T
  <2> SUFFICES ASSUME NEW path \in SUBSET Keys, Left(path) < n + 1, NEW k \in Keys
               PROVE  M[path][k] \in Seq(Entries)
    OBVIOUS
  <2>1. ASSUME NEW u \in Keys \ path
        PROVE  M[path \cup {u}][u] \in Seq(Entries)
    <3>1. /\ path \cup {u} \in SUBSET Keys /\ Left(path \cup {u}) < Left(path)
          /\ Left(path) \in Nat /\ Left(path \cup {u}) \in Nat
      BY LeftIs
    <3>2. Left(path \cup {u}) < n
      BY <3>1
    <3> QED BY <3>1, <3>2
  <2>2. TypedBelow(M, path)
    BY <2>1 DEF TypedBelow
  <2> QED BY <2>2, UnfoldsAt, ValueTyped
<1>3. T \in SUBSET Nat
  OBVIOUS
<1>4. Top + 1 \in Nat
  BY KeysAssumption, FS_CardinalityType DEF Top
<1> HIDE DEF T
<1>5. Top + 1 \in T
  BY <1>1, <1>2, <1>3, <1>4, Counting
<1> QED BY <1>5, LeftIs DEF T

(* No entry of s, in block k, is a directive that could be followed.           *)
Settled(D, k, s) == \A i \in 1 .. Len(s) : s[i] \in Names => <<k[1], s[i]>> \notin D

(* Such entries stand for themselves.                                          *)
LEMMA SettledPieces ==
  ASSUME NEW D \in SUBSET Keys, NEW M, NEW path, NEW k, NEW s \in Seq(Entries), Settled(D, k, s)
  PROVE  FlattenSeq(Pieces(D, M, path, k, s)) = s
<1>1. \A i \in 1 .. Len(s) : Piece(D, M, path, k, s[i]) = <<s[i]>>
  BY DEF Piece, Settled
<1>2. Pieces(D, M, path, k, s) = [i \in 1 .. Len(s) |-> <<s[i]>>]
  BY <1>1 DEF Pieces
<1> QED BY <1>2, FlattenSingles

(* What M says of entries in block k, as a function of the entries.            *)
Meant(D, M, path, k) == [s \in Seq(Entries) |-> FlattenSeq(Pieces(D, M, path, k, s))]
Additive(f) == \A s, t \in Seq(Entries) : f[s \o t] = f[s] \o f[t]

(* What M says of the blocks that path does not follow yet is entries.         *)
Typed(D, M, path) == D \in SUBSET Keys /\ TypedBelow(M, path)

(* Two sequences of entries, one after the other.                              *)
LEMMA PiecesConcat ==
  ASSUME NEW D, NEW M, NEW path, Typed(D, M, path), NEW k,
         NEW s \in Seq(Entries), NEW t \in Seq(Entries)
  PROVE  FlattenSeq(Pieces(D, M, path, k, s \o t)) =
           FlattenSeq(Pieces(D, M, path, k, s)) \o FlattenSeq(Pieces(D, M, path, k, t))
<1> DEFINE p == Pieces(D, M, path, k, s)
           q == Pieces(D, M, path, k, t)
           r == Pieces(D, M, path, k, s \o t)
<1>1. s \o t \in Seq(Entries)
  BY ConcatProperties
<1>2. p \in Seq(Seq(Entries)) /\ q \in Seq(Seq(Entries)) /\ r \in Seq(Seq(Entries))
  BY <1>1, PiecesTyped DEF Typed
<1>3. PICK m \in Nat, n \in Nat : m = Len(s) /\ n = Len(t)
  BY LenProperties
<1>4. /\ Len(s \o t) = m + n
      /\ \A i \in 1 .. m + n : (s \o t)[i] = IF i <= m THEN s[i] ELSE t[i - m]
  BY <1>3, ConcatProperties
<1>5. /\ Len(p) = m /\ \A i \in 1 .. m : p[i] = Piece(D, M, path, k, s[i])
      /\ Len(q) = n /\ \A i \in 1 .. n : q[i] = Piece(D, M, path, k, t[i])
      /\ Len(r) = m + n
      /\ \A i \in 1 .. m + n : r[i] = Piece(D, M, path, k, (s \o t)[i])
  BY <1>3, <1>4 DEF Pieces
<1> HIDE DEF p, q, r
<1>6. /\ p \o q \in Seq(Seq(Entries)) /\ Len(p \o q) = m + n
      /\ \A i \in 1 .. m + n : (p \o q)[i] = IF i <= m THEN p[i] ELSE q[i - m]
  BY <1>2, <1>5, ConcatProperties, Zenon
<1>7. ASSUME NEW i \in 1 .. m + n
      PROVE  (p \o q)[i] = r[i]
  <2>1. CASE i <= m
    <3>1. i \in 1 .. m
      BY <2>1
    <3>2. (p \o q)[i] = p[i] /\ (s \o t)[i] = s[i]
      BY <1>4, <1>6, <2>1
    <3> QED BY <1>5, <3>1, <3>2
  <2>2. CASE ~(i <= m)
    <3>1. i - m \in 1 .. n
      BY <2>2
    <3>2. (p \o q)[i] = q[i - m] /\ (s \o t)[i] = t[i - m]
      BY <1>4, <1>6, <2>2
    <3> QED BY <1>5, <3>1, <3>2
  <2> QED BY <2>1, <2>2
<1>8. p \o q = r
  BY <1>2, <1>5, <1>6, <1>7, SeqEqual
<1>9. FlattenSeq(r) = FlattenSeq(p) \o FlattenSeq(q)
  BY <1>2, <1>8, FlattenConcat
<1> QED BY <1>9 DEF p, q, r

(* What is said of entries is said of each in turn.                            *)
LEMMA MeantAdditive ==
  ASSUME NEW D, NEW M, NEW path, Typed(D, M, path), NEW k
  PROVE  Additive(Meant(D, M, path, k))
<1> DEFINE f == Meant(D, M, path, k)
<1> SUFFICES ASSUME NEW s \in Seq(Entries), NEW t \in Seq(Entries)
             PROVE  f[s \o t] = f[s] \o f[t]
  BY DEF Additive
<1>1. \A r \in Seq(Entries) : f[r] = FlattenSeq(Pieces(D, M, path, k, r))
  BY DEF Meant
<1>2. s \o t \in Seq(Entries)
  BY ConcatProperties
<1>3. FlattenSeq(Pieces(D, M, path, k, s \o t)) =
        FlattenSeq(Pieces(D, M, path, k, s)) \o FlattenSeq(Pieces(D, M, path, k, t))
  BY PiecesConcat
<1> QED BY <1>1, <1>2, <1>3, Zenon

(* The same of three sequences.                                                *)
LEMMA AdditiveTwice ==
  ASSUME NEW f, Additive(f),
         NEW s \in Seq(Entries), NEW r \in Seq(Entries), NEW t \in Seq(Entries)
  PROVE  f[(s \o r) \o t] = (f[s] \o f[r]) \o f[t]
<1>1. PICK x \in Seq(Entries) : x = s \o r
  BY ConcatProperties
<1>2. f[x \o t] = f[x] \o f[t]
  BY DEF Additive
<1>3. f[s \o r] = f[s] \o f[r]
  BY DEF Additive
<1> QED BY <1>1, <1>2, <1>3

(* In block k of E the directive v has been replaced by the entries of the     *)
(* block it names, all of which are settled; C was there before.               *)
Replaced(D, C, E, k, v) ==
  /\ v \in Names /\ <<k[1], v>> \in D /\ k \in Keys
  /\ Settled(D, k, C[<<k[1], v>>])
  /\ \A l \in Keys : l # k => E[l] = C[l]
  /\ \E s, t \in Seq(Entries) : /\ C[k] = (s \o <<v>>) \o t
                                /\ E[k] = (s \o C[<<k[1], v>>]) \o t

(* Then no block stands for anything else, unless the one that was named is    *)
(* being followed.                                                             *)
LEMMA ReplacedBlock ==
  ASSUME NEW D, NEW C, Holds(D, C), NEW E, Holds(D, E), NEW k, NEW v, Replaced(D, C, E, k, v),
         NEW M
  PROVE  /\ <<k[1], v>> # k /\ E[<<k[1], v>>] = C[<<k[1], v>>]
         /\ \A F \in {C, E} : \A path : Value(D, F, M, path, <<k[1], v>>) = C[<<k[1], v>>]
<1> DEFINE u == <<k[1], v>>
<1>1. /\ v \in Names /\ u \in D /\ k \in Keys /\ Settled(D, k, C[u]) /\ u \in Keys
      /\ \A l \in Keys : l # k => E[l] = C[l]
  BY DEF Replaced, Holds
<1>2. PICK s, t \in Seq(Entries) : C[k] = (s \o <<v>>) \o t
  BY DEF Replaced
<1>3. C[k] \in Seq(Entries) /\ C[u] \in Seq(Entries)
  BY <1>1 DEF Holds
<1>4. u # k
  <2> SUFFICES ASSUME u = k
               PROVE  FALSE
    OBVIOUS
  <2>1. PICK n \in Nat : n = Len(s) + 1
    BY LenProperties
  <2>2. n \in 1 .. Len(C[k]) /\ C[k][n] = v
    BY <1>1, <1>2, <2>1 DEF Entries
  <2> QED BY <1>1, <2>2 DEF Settled
<1>5. E[u] = C[u]
  BY <1>1, <1>4
<1>6. Settled(D, u, C[u])
  BY <1>1 DEF Settled
<1>7. ASSUME NEW F \in {C, E}, NEW path
      PROVE  Value(D, F, M, path, u) = C[u]
  <2>1. Value(D, F, M, path, u) = FlattenSeq(Pieces(D, M, path, u, F[u]))
    BY <1>1, ValueIs
  <2>2. F[u] = C[u]
    BY <1>5
  <2>3. FlattenSeq(Pieces(D, M, path, u, C[u])) = C[u]
    BY <1>1, <1>3, <1>6, SettledPieces DEF Holds
  <2> QED BY <2>1, <2>2, <2>3
<1> QED BY <1>4, <1>5, <1>7

(* M says of block u, followed from path, that it stands for s.                *)
Says(M, path, u, s) == M[path \cup {u}][u] = s

(* Along a path on which the two agree further down, block k has one value.    *)
LEMMA ReplacedValue ==
  ASSUME NEW D, NEW C, Holds(D, C), NEW E, Holds(D, E), NEW k, NEW v, Replaced(D, C, E, k, v),
         NEW M, NEW path, TypedBelow(M, path), <<k[1], v>> \notin path,
         Says(M, path, <<k[1], v>>, C[<<k[1], v>>]), NEW l \in Keys
  PROVE  Value(D, C, M, path, l) = Value(D, E, M, path, l)
<1> DEFINE u == <<k[1], v>>
<1>1. /\ Value(D, C, M, path, l) = FlattenSeq(Pieces(D, M, path, l, C[l]))
      /\ Value(D, E, M, path, l) = FlattenSeq(Pieces(D, M, path, l, E[l]))
  BY ValueIs
<1>2. CASE l # k
  BY <1>1, <1>2 DEF Replaced
<1>3. CASE l = k
  <2>1. /\ v \in Names /\ u \in D /\ D \in SUBSET Keys /\ k \in Keys /\ Settled(D, k, C[u])
        /\ C[u] \in Seq(Entries)
    BY DEF Replaced, Holds
  <2>2. PICK s, t \in Seq(Entries) : C[k] = (s \o <<v>>) \o t /\ E[k] = (s \o C[u]) \o t
    BY DEF Replaced
  <2>3. <<v>> \in Seq(Entries)
    BY <2>1 DEF Entries
  <2>4. PICK f : f = Meant(D, M, path, k)
    OBVIOUS
  <2>5. \A r \in Seq(Entries) : f[r] = FlattenSeq(Pieces(D, M, path, k, r))
    BY <2>4 DEF Meant
  <2>6. Additive(f)
    <3>1. Typed(D, M, path)
      BY <2>1 DEF Typed
    <3> QED BY <2>4, <3>1, MeantAdditive
  <2>7. f[<<v>>] = C[u]
    <3>1. Pieces(D, M, path, k, <<v>>) = <<C[u]>>
      <4>1. Piece(D, M, path, k, v) = C[u]
        BY <2>1 DEF Piece, Says
      <4>2. Pieces(D, M, path, k, <<v>>) = [i \in 1 .. 1 |-> Piece(D, M, path, k, v)]
        BY DEF Pieces
      <4> QED BY <4>1, <4>2
    <3>2. FlattenSeq(<<C[u]>>) = C[u]
      BY <2>1, FlattenOne
    <3> QED BY <2>3, <2>5, <3>1, <3>2
  <2>8. f[C[u]] = C[u]
    BY <2>1, <2>5, SettledPieces
  <2>9. PICK w \in Seq(Entries) : w = C[u]
    BY <2>1
  <2>10. f[C[k]] = (f[s] \o w) \o f[t] /\ f[E[k]] = (f[s] \o w) \o f[t]
    <3>1. PICK x \in Seq(Entries) : x = <<v>>
      BY <2>3
    <3>2. f[(s \o x) \o t] = (f[s] \o f[x]) \o f[t]
      BY <2>6, AdditiveTwice, ZenonT(30)
    <3>3. f[(s \o w) \o t] = (f[s] \o f[w]) \o f[t]
      BY <2>6, AdditiveTwice, ZenonT(30)
    <3> HIDE DEF u
    <3>4. f[x] = w /\ f[w] = w
      BY <2>7, <2>8, <2>9, <3>1
    <3>5. C[k] = (s \o x) \o t /\ E[k] = (s \o w) \o t
      BY <2>2, <2>9, <3>1
    <3> QED BY <3>2, <3>3, <3>4, <3>5
  <2>11. C[k] \in Seq(Entries) /\ E[k] \in Seq(Entries)
    BY <2>1 DEF Holds
  <2> QED BY <1>1, <1>3, <2>5, <2>10, <2>11, Zenon
<1> QED BY <1>2, <1>3

(* No block stands for anything else after a directive was replaced.           *)
LEMMA ReplacedMeaning ==
  ASSUME NEW D, NEW C, Holds(D, C), NEW E, Holds(D, E), NEW k, NEW v, Replaced(D, C, E, k, v),
         NEW l \in Keys
  PROVE  Unfolding(D, C)[{l}][l] = Unfolding(D, E)[{l}][l]
<1> DEFINE u == <<k[1], v>>
<1>1. PICK M, N : M = Unfolding(D, C) /\ N = Unfolding(D, E)
  OBVIOUS
<1>2. Unfolds(D, C, M) /\ Unfolds(D, E, N)
  BY <1>1, UnfoldingExists
<1>3. \A path \in SUBSET Keys, x \in Keys :
        /\ M[path][x] = Value(D, C, M, path, x) /\ M[path][x] \in Seq(Entries)
        /\ N[path][x] = Value(D, E, N, path, x) /\ N[path][x] \in Seq(Entries)
  BY <1>2, UnfoldsAt, UnfoldsTyped
<1>4. u \in Keys
  BY DEF Replaced, Holds
<1>5. \A path \in SUBSET Keys : M[path][u] = C[u] /\ N[path][u] = C[u]
  <2>1. \A F \in {C, E} : \A P, path : Value(D, F, P, path, u) = C[u]
    BY ReplacedBlock
  <2> HIDE DEF u
  <2> QED BY <1>3, <1>4, <2>1
<1> HIDE DEF u
<1> DEFINE T == {n \in Nat : \A path \in SUBSET Keys : u \notin path /\ Left(path) < n =>
                              \A x \in Keys : M[path][x] = N[path][x]}
<1>6. 0 \in T
  <2> SUFFICES ASSUME NEW path \in SUBSET Keys
               PROVE  ~(Left(path) < 0)
    OBVIOUS
  <2>1. Left(path) \in Nat
    BY LeftIs
  <2> QED BY <2>1
<1>7. ASSUME NEW n \in T
      PROVE  n + 1 \in T
  <2> SUFFICES ASSUME NEW path \in SUBSET Keys, u \notin path, Left(path) < n + 1, NEW x \in Keys
               PROVE  M[path][x] = N[path][x]
    OBVIOUS
  <2>1. ASSUME NEW y \in Keys \ path
        PROVE  M[path \cup {y}][y] = N[path \cup {y}][y] /\ N[path \cup {y}][y] \in Seq(Entries)
    <3>1. /\ path \cup {y} \in SUBSET Keys /\ Left(path \cup {y}) < Left(path)
          /\ Left(path) \in Nat /\ Left(path \cup {y}) \in Nat
      BY LeftIs
    <3>2. CASE y = u
      BY <1>3, <1>5, <3>1, <3>2
    <3>3. CASE y # u
      <4>1. Left(path \cup {y}) < n /\ u \notin path \cup {y}
        BY <3>1, <3>3
      <4> QED BY <1>3, <3>1, <4>1
    <3> QED BY <3>2, <3>3
  <2>2. SameBelow(M, N, path) /\ TypedBelow(N, path)
    BY <2>1 DEF SameBelow, TypedBelow
  <2>3. Value(D, C, M, path, x) = Value(D, C, N, path, x)
    BY <2>2, ValueSame
  <2>4. N[path \cup {u}][u] = C[u]
    <3>1. path \cup {u} \in SUBSET Keys
      BY <1>4
    <3> QED BY <1>5, <3>1
  <2>5. Value(D, C, N, path, x) = Value(D, E, N, path, x)
    BY <2>2, <2>4, ReplacedValue DEF u, Says
  <2> QED BY <1>3, <2>3, <2>5
<1>8. T \in SUBSET Nat
  OBVIOUS
<1>9. Top + 1 \in Nat
  BY KeysAssumption, FS_CardinalityType DEF Top
<1> HIDE DEF T
<1>10. Top + 1 \in T
  BY <1>6, <1>7, <1>8, <1>9, Counting
<1>11. CASE l = u
  BY <1>1, <1>5, <1>11
<1>12. CASE l # u
  <2>1. {l} \in SUBSET Keys /\ u \notin {l}
    BY <1>12
  <2> QED BY <1>1, <1>10, <2>1, LeftIs DEF T
<1> QED BY <1>11, <1>12

(*******************************************************************************)
(* Contents: what the steps of Use leave of them.                              *)
(*******************************************************************************)
(* The entries of block k that the calls above i have still to copy back, and  *)
(* with them all the entries of the block but those that i and the calls below *)
(* it hold.                                                                    *)
OldOf(c, k) == IF c.key = k THEN c.old ELSE <<>>
Olds(cs, k, i) == [j \in 1 .. Len(cs) - i |-> OldOf(cs[Len(cs) + 1 - j], k)]
Rest(cs, k, i) == FlattenSeq(Olds(cs, k, i))
After(b, cs, k, i) == b[k].entries \o Rest(cs, k, i)

(* A sequence of one.                                                          *)
LEMMA SingleSeq ==
  ASSUME NEW S, NEW x \in S
  PROVE  <<x>> \in Seq(S)
OBVIOUS

(* What a call still has to copy back, of its own block or of another.         *)
LEMMA OldTyped ==
  ASSUME NEW c \in ACall, NEW k
  PROVE  OldOf(c, k) \in Seq(Entries)
<1>1. c.old \in Seq(Entries) /\ <<>> \in Seq(Entries)
  BY EmptySeq DEF ACall
<1> QED BY <1>1 DEF OldOf

(* What the calls above call i have to copy back to block k, in order.         *)
LEMMA OldsTyped ==
  ASSUME NEW cs \in Seq(ACall), NEW k, NEW i \in 0 .. Len(cs)
  PROVE  /\ Olds(cs, k, i) \in Seq(Seq(Entries)) /\ Len(Olds(cs, k, i)) = Len(cs) - i
         /\ Rest(cs, k, i) \in Seq(Entries)
<1>1. PICK n \in Nat : n = Len(cs)
  BY LenProperties
<1>2. PICK m \in Nat : m = n - i
  <2>1. i \in 0 .. n
    BY <1>1
  <2>2. n - i \in Nat
    BY <2>1
  <2> QED BY <2>2
<1>3. ASSUME NEW j \in 1 .. m
      PROVE  OldOf(cs[n + 1 - j], k) \in Seq(Entries)
  <2>1. n + 1 - j \in 1 .. n
    BY <1>1, <1>2
  <2>2. cs[n + 1 - j] \in ACall
    BY <1>1, <2>1, ElementOfSeq
  <2> QED BY <2>2, OldTyped
<1>4. Olds(cs, k, i) = [j \in 1 .. m |-> OldOf(cs[n + 1 - j], k)]
  BY <1>1, <1>2 DEF Olds
<1>5. Olds(cs, k, i) \in Seq(Seq(Entries)) /\ Len(Olds(cs, k, i)) = m
  BY <1>3, <1>4
<1> QED BY <1>1, <1>2, <1>5, FlatIs DEF Rest

(* Nothing is above the innermost call.                                        *)
LEMMA RestNone ==
  ASSUME NEW cs \in Seq(ACall), NEW k
  PROVE  Rest(cs, k, Len(cs)) = <<>>
<1>1. PICK n \in Nat : n = Len(cs)
  BY LenProperties
<1>2. n \in 0 .. n
  OBVIOUS
<1>3. Olds(cs, k, n) \in Seq(Seq(Entries)) /\ Len(Olds(cs, k, n)) = 0
  BY <1>1, <1>2, OldsTyped
<1> QED BY <1>1, <1>3, FlatIs DEF Rest

(* A call entered later holds entries that come earlier.                       *)
LEMMA RestAppend ==
  ASSUME NEW cs \in Seq(ACall), NEW c \in ACall, NEW k, NEW i \in 0 .. Len(cs)
  PROVE  Rest(Append(cs, c), k, i) = OldOf(c, k) \o Rest(cs, k, i)
<1>1. PICK n \in Nat : n = Len(cs)
  BY LenProperties
<1>2. PICK m \in Nat : m = n - i
  <2>1. i \in 0 .. n
    BY <1>1
  <2>2. n - i \in Nat
    BY <2>1
  <2> QED BY <2>2
<1>3. PICK ds \in Seq(ACall) : ds = Append(cs, c)
  BY AppendProperties
<1>4. Len(ds) = n + 1 /\ ds[n + 1] = c /\ \A j \in 1 .. n : ds[j] = cs[j]
  BY <1>1, <1>3, AppendProperties
<1>5. PICK x \in Seq(Entries) : x = OldOf(c, k)
  BY OldTyped
<1>6. PICK q \in Seq(Seq(Entries)) : q = Olds(cs, k, i)
  BY OldsTyped
<1>7. PICK r \in Seq(Seq(Entries)) : r = Olds(ds, k, i)
  <2>1. i \in 0 .. Len(ds)
    BY <1>1, <1>4
  <2> QED BY <2>1, OldsTyped
<1>8. /\ Len(q) = m /\ \A j \in 1 .. m : q[j] = OldOf(cs[n + 1 - j], k)
      /\ Len(r) = m + 1 /\ \A j \in 1 .. m + 1 : r[j] = OldOf(ds[n + 2 - j], k)
  <2>1. q = [j \in 1 .. m |-> OldOf(cs[n + 1 - j], k)]
    BY <1>1, <1>2, <1>6 DEF Olds
  <2>2. n + 1 - i = m + 1 /\ \A j \in 1 .. m + 1 : n + 1 + 1 - j = n + 2 - j
    BY <1>1, <1>2
  <2>3. r = [j \in 1 .. m + 1 |-> OldOf(ds[n + 2 - j], k)]
    BY <1>4, <1>7, <2>2 DEF Olds
  <2> QED BY <2>1, <2>3
<1>9. PICK p \in Seq(Seq(Entries)) : p = <<x>>
  BY SingleSeq
<1>10. Len(p) = 1 /\ p[1] = x
  BY <1>9
<1>11. /\ p \o q \in Seq(Seq(Entries)) /\ Len(p \o q) = m + 1
       /\ \A j \in 1 .. m + 1 : (p \o q)[j] = IF j <= 1 THEN p[j] ELSE q[j - 1]
  <2>1. 1 + m = m + 1
    OBVIOUS
  <2>2. /\ p \o q \in Seq(Seq(Entries)) /\ Len(p \o q) = Len(p) + Len(q)
        /\ \A j \in 1 .. Len(p) + Len(q) : (p \o q)[j] = IF j <= Len(p) THEN p[j] ELSE q[j - Len(p)]
    BY ConcatProperties
  <2> QED BY <1>8, <1>10, <2>1, <2>2
<1>12. ASSUME NEW j \in 1 .. m + 1
       PROVE  (p \o q)[j] = r[j]
  <2>1. CASE j = 1
    <3>1. n + 2 - j = n + 1
      BY <2>1
    <3> QED BY <1>4, <1>5, <1>8, <1>10, <1>11, <2>1, <3>1
  <2>2. CASE j # 1
    <3>1. /\ j - 1 \in 1 .. m /\ ~(j <= 1) /\ n + 1 - (j - 1) = n + 2 - j
          /\ n + 2 - j \in 1 .. n
      BY <1>1, <1>2, <2>2
    <3>2. (p \o q)[j] = q[j - 1]
      BY <1>11, <3>1
    <3>3. q[j - 1] = OldOf(cs[n + 2 - j], k)
      BY <1>8, <3>1
    <3> QED BY <1>4, <1>8, <3>1, <3>2, <3>3
  <2> QED BY <2>1, <2>2
<1>13. r = p \o q
  BY <1>8, <1>11, <1>12, SeqEqual
<1>14. FlattenSeq(r) = FlattenSeq(p) \o FlattenSeq(q)
  BY <1>13, FlattenConcat
<1>15. FlattenSeq(p) = x
  BY <1>9, FlattenOne
<1> QED BY <1>3, <1>5, <1>6, <1>7, <1>14, <1>15 DEF Rest

(* The contents of a block: what is in it and what all calls hold of it.       *)
LEMMA ContentsIs ==
  ASSUME UseTyped
  PROVE  /\ Contents = [k \in Keys |-> After(blocks, calls, k, 0)]
         /\ Holds(Present, Contents)
<1>1. PICK n \in Nat : n = Len(calls) /\ DOMAIN calls = 1 .. n /\ n - 0 = n
  BY LenProperties DEF UseTyped
<1>2. \A k \in Keys : Olds(calls, k, 0) =
        [i \in DOMAIN calls |->
           LET c == calls[Len(calls) + 1 - i] IN IF c.key = k THEN c.old ELSE <<>>]
  BY <1>1 DEF Olds, OldOf
<1>3. Contents = [k \in Keys |-> After(blocks, calls, k, 0)]
  BY <1>2 DEF Contents, After, Rest
<1>4. ASSUME NEW k \in Keys
      PROVE  After(blocks, calls, k, 0) \in Seq(Entries)
  <2>1. blocks[k].entries \in Seq(Entries)
    BY BlockOrNot DEF UseTyped
  <2>2. Rest(calls, k, 0) \in Seq(Entries)
    <3>1. 0 \in 0 .. Len(calls)
      BY <1>1
    <3> QED BY <3>1, OldsTyped DEF UseTyped
  <2> QED BY <2>1, <2>2, ConcatProperties DEF After
<1>5. Contents \in [Keys -> Seq(Entries)]
  BY <1>3, <1>4
<1> QED BY <1>3, <1>5 DEF Holds, Present

(* The first of the entries that are held is copied back.                      *)
LEMMA HeadMoved ==
  ASSUME NEW s \in Seq(Entries), NEW old \in Seq(Entries), old # <<>>, NEW r \in Seq(Entries)
  PROVE  Append(s, Head(old)) \o (Tail(old) \o r) = s \o (old \o r)
<1>1. PICK t \in Seq(Entries), x \in Entries : t = Tail(old) /\ x = Head(old)
  BY HeadTailProperties
<1>2. <<x>> \in Seq(Entries) /\ old = <<x>> \o t
  BY <1>1
<1>3. Append(s, x) = s \o <<x>>
  BY AppendIsConcat
<1>4. t \o r \in Seq(Entries)
  BY ConcatProperties
<1>5. (s \o <<x>>) \o (t \o r) = s \o (<<x>> \o (t \o r))
  BY <1>2, <1>4, ConcatAssociative, SMTT(30)
<1>6. <<x>> \o (t \o r) = (<<x>> \o t) \o r
  BY <1>2, ConcatAssociative, SMTT(30)
<1> QED BY <1>1, <1>2, <1>3, <1>5, <1>6

(* The innermost call and the others.                                          *)
LEMMA CallsSplit ==
  ASSUME UseTyped, calls # <<>>
  PROVE  \E rest \in Seq(ACall) :
           /\ inner \in ACall /\ calls = Append(rest, inner) /\ Front(calls) = rest
           /\ \A c \in ACall : c.key = inner.key => Outer(c) = Append(rest, c)
           /\ Len(calls) = Len(rest) + 1 /\ Len(rest) \in Nat
<1>1. calls \in Seq(ACall) /\ inner \in ACall /\ inner = calls[Len(calls)]
  BY InnerTyped, OuterIs DEF UseTyped
<1>2. PICK n \in Nat : n + 1 = Len(calls)
  <2>1. Len(calls) \in Nat /\ Len(calls) # 0
    BY <1>1, EmptySeq, LenProperties
  <2> QED BY <2>1
<1>3. PICK rest \in Seq(ACall) : rest = Front(calls)
  BY <1>1, FrontType
<1>4. Len(rest) = n /\ \A j \in 1 .. n : rest[j] = calls[j]
  BY <1>1, <1>2, <1>3, FrontType
<1>5. ASSUME NEW c \in ACall, NEW cs \in Seq(ACall), Swapped(calls, cs, c)
      PROVE  cs = Append(rest, c)
  <2>1. Len(cs) = n + 1 /\ \A j \in 1 .. n + 1 : cs[j] = IF j = n + 1 THEN c ELSE calls[j]
    BY <1>2, <1>5 DEF Swapped
  <2>2. /\ Append(rest, c) \in Seq(ACall) /\ Len(Append(rest, c)) = n + 1
        /\ Append(rest, c)[n + 1] = c /\ \A j \in 1 .. n : Append(rest, c)[j] = rest[j]
    BY <1>4, AppendProperties
  <2>3. ASSUME NEW j \in 1 .. n + 1
        PROVE  cs[j] = Append(rest, c)[j]
    <3>1. CASE j = n + 1
      BY <2>1, <2>2, <3>1
    <3>2. CASE j # n + 1
      <4>1. j \in 1 .. n
        BY <3>2
      <4> QED BY <1>4, <2>1, <2>2, <3>2, <4>1
    <3> QED BY <3>1, <3>2
  <2> QED BY <2>1, <2>2, <2>3, SeqEqual
<1>6. calls = Append(rest, inner)
  <2>1. Swapped(calls, calls, inner)
    BY <1>1 DEF Swapped
  <2> QED BY <1>1, <1>5, <2>1
<1>7. \A c \in ACall : c.key = inner.key => Outer(c) = Append(rest, c)
  BY <1>5, OuterIs
<1> QED BY <1>1, <1>2, <1>3, <1>4, <1>6, <1>7

(* No block has other entries, whichever of the first n calls are left out.    *)
SameAfter(b, cs, b2, cs2, n) ==
  \A k \in Keys, i \in 0 .. n : After(b2, cs2, k, i) = After(b, cs, k, i)

(* Copying an entry back changes no content, seen from any call further out.   *)
LEMMA CopyAfter ==
  ASSUME UseTyped, Iterating, NEW c \in ACall, c.key = inner.key, c.old = Tail(inner.old)
  PROVE  SameAfter(blocks, calls, Copied, Outer(c), Len(calls) - 1)
<1>1. calls # <<>>
  BY DEF Iterating
<1>2. PICK rest \in Seq(ACall) :
        /\ inner \in ACall /\ calls = Append(rest, inner) /\ Outer(c) = Append(rest, c)
        /\ Len(calls) - 1 = Len(rest)
  <2>1. \A n \in Nat : n + 1 - 1 = n
    OBVIOUS
  <2> QED BY <1>1, <2>1, CallsSplit
<1>3. /\ Elsewhere(blocks, Copied, inner.key) /\ inner.old \in Seq(Entries) /\ inner.old # <<>>
      /\ blocks[inner.key].entries \in Seq(Entries)
      /\ Copied[inner.key].entries = Append(blocks[inner.key].entries, entry)
      /\ entry = Head(inner.old)
  BY CopyIs DEF entry
<1> SUFFICES ASSUME NEW k \in Keys, NEW i \in 0 .. Len(rest)
             PROVE  After(Copied, Append(rest, c), k, i) = After(blocks, Append(rest, inner), k, i)
  BY <1>2 DEF SameAfter
<1>4. /\ Rest(Append(rest, c), k, i) = OldOf(c, k) \o Rest(rest, k, i)
      /\ Rest(Append(rest, inner), k, i) = OldOf(inner, k) \o Rest(rest, k, i)
      /\ Rest(rest, k, i) \in Seq(Entries)
  BY <1>2, RestAppend, OldsTyped, SMTT(30)
<1>5. CASE k = inner.key
  <2>1. OldOf(c, k) = Tail(inner.old) /\ OldOf(inner, k) = inner.old
    BY <1>5, SMTT(30) DEF OldOf
  <2>2. Append(blocks[k].entries, entry) \o (Tail(inner.old) \o Rest(rest, k, i)) =
          blocks[k].entries \o (inner.old \o Rest(rest, k, i))
    BY <1>3, <1>4, <1>5, HeadMoved
  <2> QED BY <1>3, <1>4, <1>5, <2>1, <2>2 DEF After
<1>6. CASE k # inner.key
  <2>1. OldOf(c, k) = OldOf(inner, k) /\ Copied[k] = blocks[k]
    BY <1>3, <1>6 DEF OldOf, Elsewhere
  <2> QED BY <1>4, <2>1 DEF After
<1> QED BY <1>5, <1>6

(* Nor does entering a block, seen from any call outside it ...                *)
LEMMA EnterAfter ==
  ASSUME NEW b, NEW k, NEW n, NEW outer, Called(b, k, outer), Enter(b, k, n, outer),
         NEW N, N = Len(outer), n \in 0 .. Levels
  PROVE  SameAfter(b, outer, blocks', calls', N)
<1>1. CASE blocks' = b /\ calls' = outer
  BY <1>1 DEF SameAfter
<1>2. CASE Transfer(b, k, n, outer)
  <2> DEFINE c == Call(k, b[k].entries, n - 1)
  <2>1. blocks' = [b EXCEPT ![k].entries = <<>>] /\ calls' = Append(outer, c) /\ n > 0
    BY <1>2 DEF Transfer
  <2>2. /\ b \in Blocks /\ k \in Keys /\ b[k] \in Block /\ outer \in Seq(ACall)
        /\ b[k].entries \in Seq(Entries)
    BY BlockOrNot DEF Called
  <2>3. c.key = k /\ c.old = b[k].entries /\ c \in ACall
    <3>1. n - 1 \in 0 .. Levels
      BY <2>1, LevelsAssumption
    <3> QED BY <2>2, <3>1 DEF Call, ACall, Keys
  <2>4. /\ blocks'[k].entries = <<>>
        /\ \A l \in Keys : l # k => blocks'[l] = b[l]
    BY <2>1, <2>2 DEF Blocks, Block
  <2> HIDE DEF c
  <2> SUFFICES ASSUME NEW l \in Keys, NEW i \in 0 .. N
               PROVE  After(blocks', Append(outer, c), l, i) = After(b, outer, l, i)
    BY <2>1 DEF SameAfter
  <2>5. /\ Rest(Append(outer, c), l, i) = OldOf(c, l) \o Rest(outer, l, i)
        /\ Rest(outer, l, i) \in Seq(Entries)
    BY <2>2, <2>3, RestAppend, OldsTyped
  <2>6. CASE l = k
    <3>1. PICK r \in Seq(Entries) : r = b[k].entries \o Rest(outer, l, i)
      BY <2>2, <2>5, ConcatProperties
    <3>2. <<>> \o r = r
      BY ConcatEmptySeq
    <3>3. OldOf(c, l) = b[k].entries
      BY <2>3, <2>6 DEF OldOf
    <3> QED BY <2>4, <2>5, <2>6, <3>1, <3>2, <3>3 DEF After
  <2>7. CASE l # k
    <3>1. OldOf(c, l) = <<>>
      BY <2>3, <2>7 DEF OldOf
    <3>2. <<>> \o Rest(outer, l, i) = Rest(outer, l, i)
      BY <2>5, ConcatEmptySeq
    <3> QED BY <2>4, <2>5, <2>7, <3>1, <3>2 DEF After
  <2> QED BY <2>6, <2>7
<1> QED BY <1>1, <1>2 DEF Enter, NothingToUse, TooManyLevels

(* ... nor keeping a directive ...                                             *)
LEMMA KeepAfter ==
  ASSUME UseTyped, KeepUse
  PROVE  SameAfter(blocks, calls, blocks', calls', Len(calls) - 1)
<1> DEFINE c == [inner EXCEPT !.status = -1]
<1>1. calls # <<>> /\ blocks' = blocks /\ calls' = Outer(c)
  BY DEF KeepUse, Resuming
<1>2. inner \in ACall
  BY <1>1, InnerTyped
<1>3. c \in ACall /\ c.key = inner.key /\ c.old = inner.old
  BY <1>2 DEF ACall
<1> HIDE DEF c
<1>4. PICK rest \in Seq(ACall) :
        /\ calls = Append(rest, inner) /\ Outer(c) = Append(rest, c) /\ Len(calls) - 1 = Len(rest)
  <2>1. \A n \in Nat : n + 1 - 1 = n
    OBVIOUS
  <2> QED BY <1>1, <1>3, <2>1, CallsSplit
<1>5. \A k : OldOf(c, k) = OldOf(inner, k)
  BY <1>3 DEF OldOf
<1>6. ASSUME NEW k \in Keys, NEW i \in 0 .. Len(rest)
      PROVE  Rest(Append(rest, c), k, i) = Rest(Append(rest, inner), k, i)
  <2>1. /\ Rest(Append(rest, c), k, i) = OldOf(c, k) \o Rest(rest, k, i)
        /\ Rest(Append(rest, inner), k, i) = OldOf(inner, k) \o Rest(rest, k, i)
    BY <1>2, <1>3, RestAppend
  <2> QED BY <1>5, <2>1
<1> QED BY <1>1, <1>4, <1>6 DEF SameAfter, After

(* ... nor a return.                                                           *)
LEMMA ReturnAfter ==
  ASSUME UseTyped, UseReturn
  PROVE  SameAfter(blocks, calls, blocks', calls', Len(calls) - 1)
<1>1. calls # <<>> /\ blocks' = blocks /\ calls' = Front(calls) /\ inner.old = <<>>
  BY DEF UseReturn
<1>2. PICK rest \in Seq(ACall) :
        /\ calls = Append(rest, inner) /\ Front(calls) = rest /\ Len(calls) - 1 = Len(rest)
        /\ inner \in ACall
  <2>1. \A n \in Nat : n + 1 - 1 = n
    OBVIOUS
  <2> QED BY <1>1, <2>1, CallsSplit
<1>3. ASSUME NEW k \in Keys, NEW i \in 0 .. Len(rest)
      PROVE  Rest(Append(rest, inner), k, i) = Rest(rest, k, i)
  <2>1. OldOf(inner, k) = <<>>
    BY <1>1 DEF OldOf
  <2>2. Rest(rest, k, i) \in Seq(Entries)
    BY OldsTyped
  <2>3. Rest(Append(rest, inner), k, i) = <<>> \o Rest(rest, k, i)
    <3>1. Rest(Append(rest, inner), k, i) = OldOf(inner, k) \o Rest(rest, k, i)
      BY <1>2, RestAppend
    <3> QED BY <2>1, <3>1
  <2> QED BY <2>2, <2>3, ConcatEmptySeq
<1> QED BY <1>1, <1>2, <1>3 DEF SameAfter, After

(* What a call holds above itself: the entries of its block.                   *)
LEMMA AfterInner ==
  ASSUME NEW b \in Blocks, NEW cs \in Seq(ACall), NEW k \in Keys
  PROVE  After(b, cs, k, Len(cs)) = b[k].entries
<1>1. b[k].entries \in Seq(Entries)
  BY BlockOrNot
<1> QED BY <1>1, RestNone, ConcatEmptySeq DEF After

(*******************************************************************************)
(* What a call has copied back and replaced.                                   *)
(*******************************************************************************)
LEMMA SettledAppend ==
  ASSUME NEW D, NEW k, NEW s \in Seq(Entries), Settled(D, k, s), NEW x \in Entries,
         x \in Names => <<k[1], x>> \notin D
  PROVE  Append(s, x) \in Seq(Entries) /\ Settled(D, k, Append(s, x))
<1>1. PICK n \in Nat : n = Len(s)
  BY LenProperties
<1>2. PICK t \in Seq(Entries) : t = Append(s, x)
  BY AppendProperties
<1>3. Len(t) = n + 1 /\ t[n + 1] = x /\ \A i \in 1 .. n : t[i] = s[i]
  BY <1>1, <1>2, AppendProperties
<1>4. ASSUME NEW i \in 1 .. n + 1, t[i] \in Names
      PROVE  <<k[1], t[i]>> \notin D
  <2>1. CASE i = n + 1
    BY <1>3, <1>4, <2>1
  <2>2. CASE i # n + 1
    <3>1. i \in 1 .. n
      BY <2>2
    <3> QED BY <1>1, <1>3, <1>4, <3>1 DEF Settled
  <2> QED BY <2>1, <2>2
<1>5. Settled(D, k, t)
  BY <1>3, <1>4 DEF Settled
<1> QED BY <1>2, <1>5

(* Settled entries in a row.                                                   *)
LEMMA SettledConcat ==
  ASSUME NEW D, NEW k, NEW s \in Seq(Entries), Settled(D, k, s),
         NEW t \in Seq(Entries), Settled(D, k, t)
  PROVE  s \o t \in Seq(Entries) /\ Settled(D, k, s \o t)
<1>1. PICK m \in Nat, n \in Nat : m = Len(s) /\ n = Len(t)
  BY LenProperties
<1>2. PICK q \in Seq(Entries) : q = s \o t
  BY ConcatProperties
<1>3. Len(q) = m + n /\ \A i \in 1 .. m + n : q[i] = IF i <= m THEN s[i] ELSE t[i - m]
  BY <1>1, <1>2, ConcatProperties
<1>4. ASSUME NEW i \in 1 .. m + n, q[i] \in Names
      PROVE  <<k[1], q[i]>> \notin D
  <2>1. CASE i <= m
    <3>1. i \in 1 .. m
      BY <2>1
    <3> QED BY <1>1, <1>3, <1>4, <2>1, <3>1 DEF Settled
  <2>2. CASE ~(i <= m)
    <3>1. i - m \in 1 .. n
      BY <2>2
    <3> QED BY <1>1, <1>3, <1>4, <2>2, <3>1 DEF Settled
  <2> QED BY <2>1, <2>2
<1>5. Settled(D, k, q)
  BY <1>3, <1>4 DEF Settled
<1> QED BY <1>2, <1>5

(* No directive at all.                                                        *)
LEMMA SettledNone ==
  ASSUME NEW D, NEW k, NEW s \in Seq(Entries), Use(s) = 0
  PROVE  Settled(D, k, s)
<1>1. OnlyLast(s, FALSE)
  BY NoneLeft
<1>2. DOMAIN s = 1 .. Len(s)
  BY LenProperties
<1> QED BY <1>1, <1>2 DEF OnlyLast, UsesOf, Settled

(* A call that has not failed: what it and the calls above it hold of its      *)
(* block is settled but for the directive it follows, the last entry.          *)
DoneAt(D, b, cs, r, i) ==
  cs[i].status = 0 =>
    \E g \in Seq(Entries) :
      /\ Settled(D, cs[i].key, g)
      /\ After(b, cs, cs[i].key, i) = IF Follows(cs, r, i) THEN Append(g, cs[i].v) ELSE g
AllDone(D, b, cs, r) == \A i \in 1 .. Len(cs) : DoneAt(D, b, cs, r, i)

(* A block that was expanded for a call with success is settled.               *)
Answered(D, b, cs, r) ==
  cs # <<>> /\ r >= 0 =>
    Settled(D, cs[Len(cs)].key, b[Directive(cs[Len(cs)])].entries)

(* A call whose content is the same, and that follows the same directive.      *)
LEMMA DoneBelow ==
  ASSUME NEW D, NEW b, NEW cs \in Seq(ACall), NEW r, NEW b2, NEW cs2, NEW r2, NEW n \in Nat,
         SameAfter(b, cs, b2, cs2, n), NEW i \in 1 .. n, i \in 1 .. Len(cs), cs2[i] = cs[i],
         Follows(cs, r, i), Follows(cs2, r2, i), DoneAt(D, b, cs, r, i)
  PROVE  DoneAt(D, b2, cs2, r2, i)
<1>1. cs[i].key \in Keys
  BY CallKey
<1>2. After(b2, cs2, cs[i].key, i) = After(b, cs, cs[i].key, i)
  <2>1. i \in 0 .. n
    OBVIOUS
  <2> QED BY <1>1, <2>1 DEF SameAfter
<1> QED BY <1>2 DEF DoneAt

(* The entry copied back is settled or is the directive that is followed.      *)
LEMMA CopyDone ==
  ASSUME UseTyped, Iterating, NEW D, AllDone(D, blocks, calls, NoValue),
         NEW c \in ACall, c.key = inner.key, c.old = Tail(inner.old), c.status = inner.status,
         NEW r,
         \/ r # NoValue /\ c.v = entry
         \/ r = NoValue /\ (entry \in Names => Named \notin D)
  PROVE  AllDone(D, Copied, Outer(c), r)
<1>1. calls # <<>> /\ calls \in Seq(ACall) /\ blocks \in Blocks
  BY DEF Iterating, UseTyped
<1>2. PICK n \in Nat : n = Len(calls) /\ n \in 1 .. n /\ n - 1 \in Nat
  BY <1>1, OuterIs, LenProperties
<1>3. /\ inner = calls[n] /\ Len(Outer(c)) = n /\ Outer(c)[n] = c /\ Outer(c) \in Seq(ACall)
      /\ \A j \in 1 .. n : Outer(c)[j] = IF j = n THEN c ELSE calls[j]
  BY <1>1, <1>2, OuterIs DEF Swapped
<1>4. SameAfter(blocks, calls, Copied, Outer(c), n - 1)
  BY <1>2, CopyAfter
<1> SUFFICES ASSUME NEW i \in 1 .. n
             PROVE  DoneAt(D, Copied, Outer(c), r, i)
  BY <1>3 DEF AllDone
<1>5. DoneAt(D, blocks, calls, NoValue, i)
  BY <1>2 DEF AllDone
<1>6. CASE i # n
  <2>1. i \in 1 .. n - 1 /\ i < n
    BY <1>6
  <2>2. Follows(calls, NoValue, i) /\ Follows(Outer(c), r, i)
    BY <1>2, <1>3, <2>1 DEF Follows
  <2> QED BY <1>1, <1>2, <1>3, <1>4, <1>5, <1>6, <2>1, <2>2, DoneBelow
<1>7. CASE i = n
  <2> SUFFICES ASSUME c.status = 0
               PROVE  \E g \in Seq(Entries) :
                        /\ Settled(D, c.key, g)
                        /\ After(Copied, Outer(c), c.key, n) =
                             IF Follows(Outer(c), r, n) THEN Append(g, c.v) ELSE g
    BY <1>3, <1>7 DEF DoneAt
  <2>1. /\ inner.key \in Keys /\ Copied \in Blocks /\ entry \in Entries
        /\ Copied[inner.key].entries = Append(blocks[inner.key].entries, entry)
    BY <1>1, InnerTyped, CopyIs
  <2>2. PICK g \in Seq(Entries) :
          Settled(D, inner.key, g) /\ After(blocks, calls, inner.key, n) = g
    <3>1. ~Follows(calls, NoValue, n)
      BY <1>2 DEF Follows
    <3>2. inner = calls[n] /\ inner.status = 0
      BY <1>3
    <3> QED BY <1>5, <1>7, <3>1, <3>2 DEF DoneAt
  <2>3. blocks[inner.key].entries = g
    BY <1>1, <1>2, <2>1, <2>2, AfterInner
  <2>4. After(Copied, Outer(c), c.key, n) = Append(g, entry)
    BY <1>3, <2>1, <2>3, AfterInner
  <2>5. CASE r # NoValue /\ c.v = entry
    BY <1>3, <2>2, <2>4, <2>5 DEF Follows
  <2>6. CASE r = NoValue /\ (entry \in Names => Named \notin D)
    <3>1. Append(g, entry) \in Seq(Entries) /\ Settled(D, inner.key, Append(g, entry))
      BY <2>1, <2>2, <2>6, SettledAppend DEF Named
    <3>2. ~Follows(Outer(c), r, n)
      BY <1>2, <1>3, <2>6 DEF Follows
    <3> QED BY <2>4, <3>1, <3>2
  <2> QED BY <2>5, <2>6
<1> QED BY <1>6, <1>7

(* A call that begins has done nothing; a block without directives is settled. *)
LEMMA EnterDone ==
  ASSUME NEW D, NEW b, NEW k, NEW n \in 0 .. Levels, NEW outer,
         Called(b, k, outer), Enter(b, k, n, outer), AllDone(D, b, outer, 0)
  PROVE  AllDone(D, blocks', calls', returned') /\ Answered(D, blocks', calls', returned')
<1>1. outer \in Seq(ACall) /\ b[k].entries \in Seq(Entries)
  BY BlockOrNot DEF Called
<1>2. PICK N \in Nat : N = Len(outer)
  BY <1>1, LenProperties
<1>3. SameAfter(b, outer, blocks', calls', N)
  BY <1>2, EnterAfter
<1>4. ASSUME NEW i \in 1 .. N, calls'[i] = outer[i], Follows(calls', returned', i)
      PROVE  DoneAt(D, blocks', calls', returned', i)
  <2>1. Follows(outer, 0, i) /\ DoneAt(D, b, outer, 0, i)
    BY <1>2 DEF Follows, NoValue, AllDone
  <2> QED BY <1>1, <1>2, <1>3, <1>4, <2>1, DoneBelow
<1>5. CASE NothingToUse(b, k, outer) \/ TooManyLevels(b, k, n, outer)
  <2>1. /\ blocks' = b /\ calls' = outer
        /\ \/ returned' = 0 /\ Use(b[k].entries) = 0
           \/ returned' = -1
    BY <1>5 DEF NothingToUse, TooManyLevels
  <2>2. AllDone(D, blocks', calls', returned')
    BY <1>2, <1>4, <2>1 DEF AllDone, Follows, NoValue
  <2>3. Answered(D, blocks', calls', returned')
    <3> SUFFICES ASSUME outer # <<>>, returned' >= 0
                 PROVE  Settled(D, outer[Len(outer)].key, b[Directive(outer[Len(outer)])].entries)
      BY <2>1 DEF Answered
    <3>1. k = Directive(outer[Len(outer)]) /\ Use(b[k].entries) = 0
      BY <2>1 DEF Called
    <3> QED BY <1>1, <3>1, SettledNone
  <2> QED BY <2>2, <2>3
<1>6. CASE Transfer(b, k, n, outer)
  <2>1. PICK c :
           /\ Len(calls') = N + 1 /\ calls'[N + 1] = c
           /\ \A i \in 1 .. N : calls'[i] = outer[i]
           /\ c.key = k /\ blocks'[k].entries = <<>> /\ returned' = NoValue
    BY <1>2, <1>6, EntryIs
  <2>2. ASSUME NEW i \in 1 .. N
        PROVE  DoneAt(D, blocks', calls', returned', i)
    <3>1. Follows(calls', returned', i)
      BY <2>1 DEF Follows
    <3> QED BY <1>4, <2>1, <3>1
  <2>3. DoneAt(D, blocks', calls', returned', N + 1)
    <3>1. ~Follows(calls', returned', N + 1)
      BY <2>1 DEF Follows
    <3>2. calls' \in Seq(ACall) /\ blocks' \in Blocks /\ k \in Keys
      <4>1. PICK cc : cc = Call(k, b[k].entries, n - 1) /\ calls' = Append(outer, cc)
                      /\ blocks' = [b EXCEPT ![k].entries = <<>>] /\ n > 0
        BY <1>6 DEF Transfer
      <4>2. cc \in ACall
        <5>1. n - 1 \in 0 .. Levels
          BY <4>1, LevelsAssumption
        <5> QED BY <1>1, <4>1, <5>1 DEF Call, ACall, Called, Keys
      <4>3. [b[k] EXCEPT !.entries = <<>>] \in Block
        BY EmptySeq DEF Block, Called
      <4> QED BY <1>1, <4>1, <4>2, <4>3, AppendProperties DEF Blocks, Called
    <3>3. After(blocks', calls', k, N + 1) = <<>>
      BY <2>1, <3>2, AfterInner
    <3>4. <<>> \in Seq(Entries) /\ Settled(D, k, <<>>)
      <4>1. Len(<<>>) = 0
        BY EmptySeq
      <4> QED BY <4>1, EmptySeq DEF Settled
    <3> QED BY <2>1, <3>1, <3>3, <3>4 DEF DoneAt
  <2>4. AllDone(D, blocks', calls', returned')
    <3>1. \A i \in 1 .. N + 1 : i \in 1 .. N \/ i = N + 1
      OBVIOUS
    <3> QED BY <2>1, <2>2, <2>3, <3>1 DEF AllDone
  <2> QED BY <2>1, <2>4 DEF Answered, NoValue
<1> QED BY <1>5, <1>6 DEF Enter

(* Every step keeps what the calls have done: a directive that is followed ... *)
LEMMA UseNamedDone ==
  ASSUME UseTyped, UseNamed, NEW D, AllDone(D, blocks, calls, returned)
  PROVE  AllDone(D, blocks', calls', returned') /\ Answered(D, blocks', calls', returned')
<1>1. /\ calls # <<>> /\ inner.old # <<>> /\ returned = NoValue /\ Iterating
      /\ entry \in Names /\ Defined(Named)
  BY DEF UseNamed, Iterating
<1>2. inner \in ACall /\ inner.key \in Keys
  BY <1>1, InnerTyped
<1>3. inner.old \in Seq(Entries) /\ Tail(inner.old) \in Seq(Entries)
  BY <1>1, <1>2, HeadTailProperties DEF ACall
<1> DEFINE c == [inner EXCEPT !.old = Tail(@), !.v = entry]
<1>4. /\ c \in ACall /\ c.key = inner.key /\ c.old = Tail(inner.old) /\ c.v = entry
      /\ c.status = inner.status /\ inner.count \in 0 .. Levels
  BY <1>1, <1>2, <1>3 DEF ACall
<1>5. Enter(Copied, Named, inner.count, Outer(c))
  BY DEF UseNamed
<1> HIDE DEF c
<1>6. Called(Copied, Named, Outer(c))
  <2>1. /\ Copied \in Blocks /\ \A l \in Keys : blocks[l] \in Block => Copied[l] \in Block
    BY <1>1, <1>4, CopyIs
  <2>2. Named \in Keys
    BY <1>1, <1>2 DEF Named, Keys
  <2>3. Copied[Named] \in Block
    BY <1>1, <2>1, <2>2, BlockOrNot DEF UseTyped, Defined
  <2>4. Outer(c) \in Seq(ACall) /\ Outer(c)[Len(Outer(c))] = c
    BY <1>1, <1>4, OuterIs
  <2>5. Named = Directive(c)
    BY <1>4 DEF Named, Directive
  <2> QED BY <2>1, <2>2, <2>3, <2>4, <2>5 DEF Called
<1>7. AllDone(D, Copied, Outer(c), 0)
  <2>1. 0 # NoValue
    BY DEF NoValue
  <2> QED BY <1>1, <1>4, <2>1, CopyDone
<1> QED BY <1>4, <1>5, <1>6, <1>7, EnterDone

(* ... an entry that is only copied back ...                                   *)
LEMMA CopyParamDone ==
  ASSUME UseTyped, CopyParam \/ UseNotFound, AllDone(Present, blocks, calls, returned)
  PROVE  /\ AllDone(Present, blocks', calls', returned')
         /\ Answered(Present, blocks', calls', returned')
<1>1. /\ calls # <<>> /\ inner.old # <<>> /\ returned = NoValue /\ Iterating
      /\ entry \in Params \/ ~Defined(Named)
  BY DEF CopyParam, UseNotFound, Iterating
<1>2. inner \in ACall
  BY <1>1, InnerTyped
<1>3. inner.old \in Seq(Entries) /\ Tail(inner.old) \in Seq(Entries)
  BY <1>1, <1>2, HeadTailProperties DEF ACall
<1> DEFINE c == [inner EXCEPT !.old = Tail(@)]
<1>4. /\ c \in ACall /\ c.key = inner.key /\ c.old = Tail(inner.old) /\ c.status = inner.status
  BY <1>2, <1>3 DEF ACall
<1>5. blocks' = Copied /\ calls' = Outer(c) /\ returned' = NoValue
  BY <1>1 DEF CopyParam, UseNotFound
<1> HIDE DEF c
<1>6. entry \in Names => Named \notin Present
  BY <1>1, EntriesAssumption DEF Present
<1>7. AllDone(Present, Copied, Outer(c), NoValue)
  BY <1>1, <1>4, <1>6, CopyDone
<1> QED BY <1>5, <1>7 DEF Answered, NoValue

(* ... a call that fails, of which nothing is claimed any more ...             *)
LEMMA KeepDone ==
  ASSUME UseTyped, KeepUse, NEW D, AllDone(D, blocks, calls, returned)
  PROVE  AllDone(D, blocks', calls', returned') /\ Answered(D, blocks', calls', returned')
<1> DEFINE c == [inner EXCEPT !.status = -1]
<1>1. /\ calls # <<>> /\ calls \in Seq(ACall) /\ blocks' = blocks /\ calls' = Outer(c)
      /\ returned' = NoValue
  BY DEF KeepUse, Resuming, UseTyped
<1>2. inner \in ACall
  BY <1>1, InnerTyped
<1>3. c \in ACall /\ c.key = inner.key /\ c.status = -1
  BY <1>2 DEF ACall
<1> HIDE DEF c
<1>4. PICK n \in Nat : n = Len(calls) /\ n \in 1 .. n /\ n - 1 \in Nat
  BY <1>1, <1>3, OuterIs, LenProperties
<1>5. /\ Len(Outer(c)) = n /\ \A j \in 1 .. n : Outer(c)[j] = IF j = n THEN c ELSE calls[j]
  BY <1>1, <1>3, <1>4, OuterIs DEF Swapped
<1>6. SameAfter(blocks, calls, blocks', calls', n - 1)
  BY <1>4, KeepAfter
<1>7. ASSUME NEW i \in 1 .. n
      PROVE  DoneAt(D, blocks', calls', returned', i)
  <2>1. CASE i = n
    BY <1>1, <1>3, <1>5, <2>1 DEF DoneAt
  <2>2. CASE i # n
    <3>1. i \in 1 .. n - 1 /\ i < n
      BY <2>2
    <3>2. Follows(calls, returned, i) /\ Follows(calls', returned', i)
      BY <1>1, <1>4, <1>5, <3>1 DEF Follows
    <3>3. DoneAt(D, blocks, calls, returned, i) /\ calls'[i] = calls[i]
      BY <1>1, <1>4, <1>5, <2>2 DEF AllDone
    <3> QED BY <1>1, <1>4, <1>6, <3>1, <3>2, <3>3, DoneBelow
  <2> QED BY <2>1, <2>2
<1> QED BY <1>1, <1>5, <1>7 DEF AllDone, Answered, NoValue

(* ... a return, with success only when no directive is left in the block ...  *)
LEMMA ReturnDone ==
  ASSUME UseTyped, UseInv, UseReturn, NEW D, AllDone(D, blocks, calls, returned)
  PROVE  AllDone(D, blocks', calls', returned') /\ Answered(D, blocks', calls', returned')
<1>1. /\ calls # <<>> /\ calls \in Seq(ACall) /\ blocks \in Blocks /\ blocks' = blocks
      /\ returned = NoValue
      /\ returned' = IF inner.status = 0 THEN Use(blocks[inner.key].entries) ELSE -1
      /\ calls' = Front(calls)
  BY DEF UseReturn, UseTyped
<1>2. /\ inner \in ACall /\ inner.key \in Keys /\ blocks[inner.key].entries \in Seq(Entries)
      /\ inner = calls[Len(calls)] /\ Len(calls) \in 1 .. Len(calls)
  BY <1>1, InnerTyped, OuterIs, BlockOrNot
<1>3. PICK n \in Nat : n = Len(calls) /\ n \in 1 .. n /\ n - 1 \in Nat
  BY <1>1, <1>2, LenProperties
<1>4. PICK cs \in Seq(ACall) : cs = calls' /\ Len(cs) = n - 1 /\ \A i \in 1 .. n - 1 : cs[i] = calls[i]
  BY <1>1, <1>3, FrontType
<1>5. returned' # NoValue /\ (returned' >= 0 => inner.status = 0)
  <2>1. Use(blocks[inner.key].entries) \in Nat
    BY <1>2, UseNat
  <2> QED BY <1>1, <2>1 DEF NoValue
<1>6. SameAfter(blocks, calls, blocks', calls', n - 1)
  BY <1>3, ReturnAfter
<1>7. ASSUME NEW i \in 1 .. n - 1
      PROVE  DoneAt(D, blocks', calls', returned', i)
  <2>1. Follows(calls, returned, i) /\ Follows(calls', returned', i)
    BY <1>3, <1>5 DEF Follows
  <2>2. DoneAt(D, blocks, calls, returned, i) /\ calls'[i] = calls[i] /\ i \in 1 .. Len(calls)
    BY <1>3, <1>4 DEF AllDone
  <2> QED BY <1>1, <1>3, <1>6, <2>1, <2>2, DoneBelow
<1>8. AllDone(D, blocks', calls', returned')
  BY <1>4, <1>7 DEF AllDone
<1>9. ASSUME cs # <<>>, returned' >= 0
      PROVE  Settled(D, cs[Len(cs)].key, blocks[Directive(cs[Len(cs)])].entries)
  <2>1. PICK m \in Nat : m = n - 1 /\ m \in 1 .. m /\ m + 1 = n /\ m \in 1 .. n
    <3>1. n - 1 # 0
      BY <1>4, <1>9, EmptySeq
    <3> QED BY <1>3, <3>1
  <2>2. inner.key = Directive(calls[m])
    BY <1>2, <1>3, <2>1 DEF UseInv, Chain, Linked
  <2>3. cs[m] = calls[m] /\ Len(cs) = m
    BY <1>4, <2>1
  <2>4. ~Follows(calls, returned, n) /\ calls[n].status = 0 /\ calls[n].key = inner.key
    BY <1>1, <1>2, <1>3, <1>5, <1>9 DEF Follows
  <2>5. Settled(D, inner.key, After(blocks, calls, inner.key, n))
    BY <1>3, <2>4 DEF AllDone, DoneAt
  <2>6. After(blocks, calls, inner.key, n) = blocks[inner.key].entries
    BY <1>1, <1>2, <1>3, AfterInner
  <2>7. inner.key[1] = calls[m].key[1]
    BY <2>2 DEF Directive
  <2> QED BY <2>2, <2>3, <2>5, <2>6, <2>7 DEF Settled
<1> QED BY <1>1, <1>4, <1>8, <1>9 DEF Answered

(* A block that no call has.                                                   *)
LEMMA FlattenNothing ==
  ASSUME NEW S, NEW q \in Seq(Seq(S)), \A i \in 1 .. Len(q) : q[i] = <<>>
  PROVE  FlattenSeq(q) = <<>>
<1>1. PICK n \in Nat : n = Len(q)
  BY LenProperties
<1>2. PICK F : F = Flat(q)
  OBVIOUS
<1>3. /\ \A i \in 1 .. n : F[i] = IF i = 1 THEN q[i] ELSE F[i - 1] \o q[i]
      /\ FlattenSeq(q) = IF n = 0 THEN <<>> ELSE F[n]
  BY <1>1, <1>2, FlatIs
<1> DEFINE T == {i \in Nat : i \in 1 .. n => F[i] = <<>>}
<1>4. 0 \in T
  OBVIOUS
<1>5. ASSUME NEW i \in T
      PROVE  i + 1 \in T
  <2> SUFFICES ASSUME i + 1 \in 1 .. n
               PROVE  F[i + 1] = <<>>
    OBVIOUS
  <2>1. PICK j \in 1 .. n : j = i + 1 /\ j - 1 = i /\ q[j] = <<>>
    BY <1>1, SMTT(30)
  <2>2. CASE i = 0
    BY <1>3, <2>1, <2>2
  <2>3. CASE i # 0
    <3>1. i \in 1 .. n /\ j # 1
      BY <2>1, <2>3
    <3>2. F[i] = <<>>
      BY <3>1
    <3>3. F[j] = F[i] \o q[j]
      BY <1>3, <2>1, <3>1
    <3>4. <<>> \o <<>> = <<>>
      OBVIOUS
    <3> QED BY <2>1, <3>2, <3>3, <3>4
  <2> QED BY <2>2, <2>3
<1>6. T \in SUBSET Nat
  OBVIOUS
<1> HIDE DEF T
<1>7. \A i \in Nat : i \in T
  BY <1>4, <1>5, <1>6, Counting
<1> QED BY <1>3, <1>7 DEF T

(* No call holds entries of a block that no call has.                          *)
LEMMA RestAbsent ==
  ASSUME NEW cs \in Seq(ACall), NEW k, Absent(cs, k)
  PROVE  Rest(cs, k, 0) = <<>>
<1>1. PICK n \in Nat : n = Len(cs)
  BY LenProperties
<1>2. 0 \in 0 .. n /\ n - 0 = n
  OBVIOUS
<1>3. Olds(cs, k, 0) = [j \in 1 .. n |-> OldOf(cs[n + 1 - j], k)]
  BY <1>1, <1>2 DEF Olds
<1>4. ASSUME NEW j \in 1 .. n
      PROVE  OldOf(cs[n + 1 - j], k) = <<>>
  <2>1. n + 1 - j \in 1 .. n
    OBVIOUS
  <2> QED BY <1>1, <2>1 DEF OldOf, Absent
<1>5. Olds(cs, k, 0) \in Seq(Seq(Entries)) /\ Len(Olds(cs, k, 0)) = n
  BY <1>1, <1>2, OldsTyped, SMTT(30)
<1> QED BY <1>3, <1>4, <1>5, FlattenNothing DEF Rest

(* The last entry of block k0, the directive v, is replaced by the entries of  *)
(* block d: no other call that has not failed has block k0.                    *)
LEMMA ReplaceIs ==
  ASSUME UseTyped, UseInv, ReplaceUse, Found(blocks, calls, returned)
  PROVE  \E s \in Seq(Entries) :
           /\ blocks[inner.key].entries = Append(s, inner.v)
           /\ blocks'[inner.key].entries = s \o blocks[Directive(inner)].entries
           /\ Elsewhere(blocks, blocks', inner.key)
           /\ Absent(calls, Directive(inner))
           /\ calls' = calls /\ returned' = NoValue /\ returned # NoValue /\ returned >= 0
<1>1. /\ Resuming /\ returned # NoValue /\ returned >= 0 /\ calls' = calls /\ returned' = NoValue
      /\ blocks' = WithEntries(inner.key, Front(blocks[inner.key].entries) \o Uparams.entries)
  BY DEF ReplaceUse, Resuming
<1>2. /\ calls \in Seq(ACall) /\ calls # <<>> /\ inner.key \in Keys /\ inner.v \in Names
      /\ inner = calls[Len(calls)]
      /\ blocks[inner.key] \in Block /\ blocks[inner.key].entries \in Seq(Entries)
      /\ EndsWith(blocks[inner.key].entries, inner.v)
      /\ Uparams = blocks[Directive(inner)]
  BY <1>1, FollowedIs
<1>3. PICK e \in Seq(Entries) : e = blocks[inner.key].entries /\ e # <<>> /\ e[Len(e)] = inner.v
  BY <1>2 DEF EndsWith
<1>4. PICK s \in Seq(Entries) : s = Front(e) /\ e = Append(s, inner.v)
  <2>1. PICK s \in Seq(Entries), x \in Entries : e = Append(s, x)
    BY <1>3, SequenceEmptyOrAppend
  <2>2. Len(e) = Len(s) + 1 /\ e[Len(s) + 1] = x /\ Len(s) \in Nat
    BY <2>1, AppendProperties, LenProperties
  <2>3. Front(e) = s
    <3>1. /\ Front(e) \in Seq(Entries) /\ Len(Front(e)) = Len(e) - 1
          /\ \A i \in 1 .. Len(e) - 1 : Front(e)[i] = e[i]
      BY <1>3, FrontType
    <3>2. Len(e) - 1 = Len(s)
      BY <2>2
    <3>3. \A i \in 1 .. Len(s) : e[i] = s[i]
      BY <2>1, AppendProperties
    <3>4. \A i \in 1 .. Len(s) : Front(e)[i] = s[i]
      BY <3>1, <3>2, <3>3
    <3> QED BY <3>1, <3>2, <3>4, SeqEqual
  <2>4. x = inner.v
    BY <1>3, <2>2, SMTT(30)
  <2> QED BY <2>1, <2>3, <2>4
<1>5. /\ blocks'[inner.key].entries = s \o blocks[Directive(inner)].entries
      /\ Elsewhere(blocks, blocks', inner.key)
  BY <1>1, <1>2, <1>3, <1>4, WithEntriesIs
<1>6. Absent(calls, Directive(inner))
  BY <1>1, <1>2 DEF UseInv, Away, Absent
<1> QED BY <1>1, <1>3, <1>4, <1>5, <1>6

(* The elements of a sequence with one more.                                   *)
LEMMA AppendAt ==
  ASSUME NEW s \in Seq(Entries), NEW x \in Entries, NEW n \in Nat, n = Len(s)
  PROVE  /\ Append(s, x) \in Seq(Entries) /\ Len(Append(s, x)) = n + 1
         /\ Append(s, x)[n + 1] = x /\ \A j \in 1 .. n : Append(s, x)[j] = s[j]
BY AppendProperties

(* Else the entries that other call has settled would hold the directive.      *)
LEMMA ReplaceAlone ==
  ASSUME UseTyped, UseInv, ReplaceUse, Found(blocks, calls, returned),
         AllDone(Present, blocks, calls, returned),
         NEW i \in 1 .. Len(calls), i < Len(calls), calls[i].status = 0
  PROVE  calls[i].key # inner.key
<1> DEFINE k0 == inner.key
           d == Directive(inner)
<1>1. /\ Resuming /\ calls \in Seq(ACall) /\ Len(calls) \in Nat
      /\ k0 \in Keys /\ inner.v \in Names /\ d \in Keys /\ Defined(d)
      /\ d = <<k0[1], inner.v>>
  <2>1. Resuming
    BY DEF ReplaceUse
  <2> QED BY <2>1, FollowedIs, LenProperties DEF Directive
<1>2. PICK s \in Seq(Entries) :
        blocks[k0].entries = Append(s, inner.v) /\ Absent(calls, d)
  BY ReplaceIs
<1> SUFFICES ASSUME calls[i].key = k0
             PROVE  FALSE
  OBVIOUS
<1>3. Follows(calls, returned, i)
  BY DEF Follows
<1>4. PICK g \in Seq(Entries) :
        Settled(Present, k0, g) /\ After(blocks, calls, k0, i) = Append(g, calls[i].v)
  BY <1>3 DEF AllDone, DoneAt
<1>5. PICK r \in Seq(Entries) : r = Rest(calls, k0, i)
  <2>1. i \in 0 .. Len(calls)
    OBVIOUS
  <2> QED BY <1>1, <2>1, OldsTyped
<1>6. PICK v \in Entries, w \in Entries : v = inner.v /\ w = calls[i].v
  <2>1. calls[i] \in ACall
    BY <1>1, ElementOfSeq
  <2>2. calls[i].v \in Names
    BY <2>1 DEF ACall
  <2> QED BY <1>1, <2>2 DEF Entries
<1>7. Append(s, v) \o r = Append(g, w)
  BY <1>2, <1>4, <1>5, <1>6 DEF After
<1>8. PICK n \in Nat, m \in Nat, l \in Nat : n = Len(s) /\ m = Len(g) /\ l = Len(r)
  BY LenProperties
<1>9. PICK a \in Seq(Entries) : a = Append(s, v) /\ Len(a) = n + 1 /\ a[n + 1] = v
  <2>1. /\ Append(s, v) \in Seq(Entries) /\ Len(Append(s, v)) = n + 1
        /\ Append(s, v)[n + 1] = v
    BY <1>8, AppendAt
  <2> QED BY <2>1
<1>10. PICK z \in Seq(Entries) : z = Append(g, w) /\ Len(z) = m + 1 /\ z[m + 1] = w
                                 /\ \A j \in 1 .. m : z[j] = g[j]
  <2>1. /\ Append(g, w) \in Seq(Entries) /\ Len(Append(g, w)) = m + 1
        /\ Append(g, w)[m + 1] = w /\ \A j \in 1 .. m : Append(g, w)[j] = g[j]
    BY <1>8, AppendAt
  <2> QED BY <2>1
<1>11. z = a \o r
  BY <1>7, <1>9, <1>10
<1>12. Len(z) = n + 1 + l /\ z[n + 1] = v
  <2>1. /\ Len(a \o r) = Len(a) + Len(r)
        /\ \A j \in 1 .. Len(a) + Len(r) : (a \o r)[j] = IF j <= Len(a) THEN a[j] ELSE r[j - Len(a)]
    BY ConcatProperties
  <2>2. n + 1 \in 1 .. n + 1 + l /\ n + 1 <= n + 1
    OBVIOUS
  <2> QED BY <1>8, <1>9, <1>11, <2>1, <2>2
<1>13. CASE n + 1 <= m
  <2>1. n + 1 \in 1 .. m /\ g[n + 1] = v
    BY <1>10, <1>12, <1>13
  <2>2. <<k0[1], v>> \in Present
    BY <1>1, <1>6 DEF Present
  <2> QED BY <1>1, <1>4, <1>6, <1>8, <2>1, <2>2 DEF Settled
<1>14. CASE ~(n + 1 <= m)
  <2>1. n + 1 = m + 1
    BY <1>10, <1>12, <1>14
  <2>2. w = v
    BY <1>10, <1>12, <2>1
  <2>3. i + 1 \in 1 .. Len(calls)
    BY <1>1
  <2>4. calls[i + 1].key = Directive(calls[i])
    BY <2>3 DEF UseInv, Chain, Linked
  <2>5. calls[i + 1].key = d
    BY <1>1, <1>6, <2>2, <2>4 DEF Directive
  <2> QED BY <1>2, <2>3, <2>5 DEF Absent
<1> QED BY <1>13, <1>14

(* Sequences that are equal with one more are equal.                           *)
LEMMA AppendSame ==
  ASSUME NEW s \in Seq(Entries), NEW g \in Seq(Entries), NEW x \in Entries, NEW y \in Entries,
         Append(s, x) = Append(g, y)
  PROVE  s = g
<1>1. PICK n \in Nat, m \in Nat : n = Len(s) /\ m = Len(g)
  BY LenProperties
<1>2. PICK a : a = Append(s, x)
  OBVIOUS
<1>3. Len(a) = n + 1 /\ \A j \in 1 .. n : a[j] = s[j]
  BY <1>1, <1>2, AppendAt
<1>4. Len(a) = m + 1 /\ \A j \in 1 .. m : a[j] = g[j]
  BY <1>1, <1>2, AppendAt
<1>5. n = m /\ \A j \in 1 .. n : s[j] = g[j]
  BY <1>3, <1>4
<1> QED BY <1>1, <1>5, SeqEqual

(* ... and the directive itself, replaced by entries that are settled.         *)
LEMMA ReplaceDone ==
  ASSUME UseTyped, UseInv, ReplaceUse, Found(blocks, calls, returned),
         AllDone(Present, blocks, calls, returned), Answered(Present, blocks, calls, returned)
  PROVE  /\ AllDone(Present, blocks', calls', returned')
         /\ Answered(Present, blocks', calls', returned')
<1> DEFINE k0 == inner.key
           d == Directive(inner)
<1>1. PICK s \in Seq(Entries) :
        /\ blocks[k0].entries = Append(s, inner.v)
        /\ blocks'[k0].entries = s \o blocks[d].entries
        /\ Elsewhere(blocks, blocks', k0)
        /\ calls' = calls /\ returned' = NoValue /\ returned # NoValue /\ returned >= 0
  BY ReplaceIs
<1>2. /\ calls \in Seq(ACall) /\ calls # <<>> /\ k0 \in Keys /\ inner.v \in Entries
      /\ inner = calls[Len(calls)] /\ Uparams = blocks[d] /\ Uparams.entries \in Seq(Entries)
  <2>1. Resuming
    BY DEF ReplaceUse
  <2> QED BY <2>1, FollowedIs DEF Entries
<1>3. PICK n \in Nat : n = Len(calls) /\ n \in 1 .. n
  BY <1>2, LenProperties, FrontType
<1>4. blocks \in Blocks /\ blocks' \in Blocks
  <2>1. UseStep
    BY DEF UseStep
  <2> QED BY <2>1, UseStepTyped DEF UseTyped
<1>5. ASSUME NEW i \in 1 .. n, calls[i].status = 0
      PROVE  DoneAt(Present, blocks', calls, NoValue, i)
  <2>1. PICK g \in Seq(Entries) :
          /\ Settled(Present, calls[i].key, g)
          /\ After(blocks, calls, calls[i].key, i) = Append(g, calls[i].v)
    <3>1. Follows(calls, returned, i)
      BY <1>1 DEF Follows
    <3> QED BY <1>3, <1>5, <3>1 DEF AllDone, DoneAt
  <2>2. CASE i < n
    <3>1. calls[i].key # k0
      BY <1>3, <1>5, <2>2, ReplaceAlone
    <3>2. calls[i].key \in Keys
      BY <1>2, <1>3, CallTyped
    <3>3. blocks'[calls[i].key] = blocks[calls[i].key]
      BY <1>1, <3>1, <3>2, SMTT(30) DEF Elsewhere
    <3>4. After(blocks', calls, calls[i].key, i) = Append(g, calls[i].v)
      BY <2>1, <3>3 DEF After
    <3>5. Follows(calls, NoValue, i)
      BY <1>3, <2>2 DEF Follows
    <3> QED BY <2>1, <3>4, <3>5 DEF DoneAt
  <2>3. CASE ~(i < n)
    <3>1. i = n /\ calls[i] = inner
      BY <1>2, <1>3, <2>3
    <3>2. /\ After(blocks, calls, k0, n) = blocks[k0].entries
          /\ After(blocks', calls, k0, n) = blocks'[k0].entries
      BY <1>2, <1>3, <1>4, AfterInner
    <3>3. Append(s, inner.v) = Append(g, inner.v)
      BY <1>1, <2>1, <3>1, <3>2
    <3>4. s = g
      BY <1>2, <3>3, AppendSame
    <3>5. Settled(Present, k0, blocks[d].entries)
      BY <1>1, <1>2 DEF Answered
    <3>6. /\ s \o blocks[d].entries \in Seq(Entries)
          /\ Settled(Present, k0, s \o blocks[d].entries)
      BY <1>2, <2>1, <3>1, <3>4, <3>5, SettledConcat
    <3>7. ~Follows(calls, NoValue, i)
      BY <1>3, <3>1 DEF Follows
    <3> QED BY <1>1, <3>1, <3>2, <3>6, <3>7 DEF DoneAt
  <2> QED BY <2>2, <2>3
<1>6. AllDone(Present, blocks', calls, NoValue)
  BY <1>3, <1>5 DEF AllDone, DoneAt
<1> QED BY <1>1, <1>6 DEF Answered, NoValue

(* The contents of the blocks, before a step ...                               *)
LEMMA ContentsAre ==
  UseTyped => /\ Contents = [k \in Keys |-> After(blocks, calls, k, 0)]
              /\ Holds(Present, Contents)
BY ContentsIs

(* ... and after it.                                                           *)
LEMMA ContentsAreNext ==
  UseTyped' => /\ Contents' = [k \in Keys |-> After(blocks', calls', k, 0)]
               /\ Holds(Present', Contents')
<1>1. (/\ Contents = [k \in Keys |-> After(blocks, calls, k, 0)]
       /\ Holds(Present, Contents))'
      <=> /\ Contents' = [k \in Keys |-> After(blocks', calls', k, 0)]
          /\ Holds(Present', Contents')
  BY DEF Holds, After, Rest, Olds, OldOf
<1>2. UseTyped' => (/\ Contents = [k \in Keys |-> After(blocks, calls, k, 0)]
                   /\ Holds(Present, Contents))'
  BY ContentsAre, PTL
<1> QED BY <1>1, <1>2

(* ReplaceUse puts the contents of the named block in place of the directive.  *)
LEMMA ReplaceContents ==
  ASSUME UseTyped, UseInv, ReplaceUse, Found(blocks, calls, returned),
         Answered(Present, blocks, calls, returned)
  PROVE  Replaced(Present, Contents, Contents', inner.key, inner.v)
<1> DEFINE k0 == inner.key
           d == Directive(inner)
<1>1. PICK s \in Seq(Entries) :
        /\ blocks[k0].entries = Append(s, inner.v)
        /\ blocks'[k0].entries = s \o blocks[d].entries
        /\ Elsewhere(blocks, blocks', k0)
        /\ Absent(calls, d)
        /\ calls' = calls /\ returned >= 0
  BY ReplaceIs
<1>2. /\ calls \in Seq(ACall) /\ calls # <<>> /\ k0 \in Keys /\ inner.v \in Names
      /\ inner = calls[Len(calls)] /\ Uparams = blocks[d] /\ Uparams.entries \in Seq(Entries)
      /\ d \in Present /\ d = <<k0[1], inner.v>> /\ d \in Keys
  <2>1. Resuming
    BY DEF ReplaceUse
  <2> QED BY <2>1, FollowedIs DEF Present, Directive
<1>3. /\ Contents = [k \in Keys |-> After(blocks, calls, k, 0)]
      /\ Contents' = [k \in Keys |-> After(blocks', calls, k, 0)]
  <2>1. UseStep
    BY DEF UseStep
  <2>2. UseTyped'
    BY <2>1, UseStepTyped
  <2>3. Contents = [k \in Keys |-> After(blocks, calls, k, 0)]
    BY ContentsIs
  <2>4. Contents' = [k \in Keys |-> After(blocks', calls', k, 0)]
    BY <2>2, ContentsAreNext
  <2> QED BY <1>1, <2>3, <2>4
<1>4. PICK r \in Seq(Entries) : r = Rest(calls, k0, 0)
  <2>1. 0 \in 0 .. Len(calls)
    BY <1>2, LenProperties
  <2> QED BY <1>2, <2>1, OldsTyped
<1>5. Contents[d] = blocks[d].entries
  <2>1. Rest(calls, d, 0) = <<>>
    BY <1>1, <1>2, RestAbsent
  <2>2. blocks[d].entries \o <<>> = blocks[d].entries
    BY <1>2, ConcatEmptySeq
  <2>3. Contents[d] = After(blocks, calls, d, 0)
    BY <1>2, <1>3, SMTT(30)
  <2> QED BY <2>1, <2>2, <2>3 DEF After
<1>6. Settled(Present, k0, Contents[d])
  BY <1>1, <1>2, <1>5 DEF Answered
<1>7. \A l \in Keys : l # k0 => Contents'[l] = Contents[l]
  BY <1>1, <1>3 DEF Elsewhere, After
<1>8. Contents[k0] = (s \o <<inner.v>>) \o r
  <2>1. Append(s, inner.v) = s \o <<inner.v>>
    <3>1. inner.v \in Entries
      BY <1>2 DEF Entries
    <3> QED BY <3>1, AppendIsConcat
  <2>2. Contents[k0] = After(blocks, calls, k0, 0)
    BY <1>2, <1>3, SMTT(30)
  <2> QED BY <1>1, <1>4, <2>1, <2>2 DEF After
<1>9. Contents'[k0] = (s \o Contents[d]) \o r
  BY <1>1, <1>2, <1>3, <1>4, <1>5 DEF After
<1> QED BY <1>2, <1>6, <1>7, <1>8, <1>9 DEF Replaced

(* Use neither defines a block nor drops one.                                  *)
LEMMA StepPresent ==
  ASSUME UseTyped, UseStep
  PROVE  Present' = Present
<1>1. \A k \in Keys : blocks'[k] # NoParams <=> blocks[k] # NoParams
  BY UseStepUnits, UseStepGrows DEF SameUnits, Grows
<1> QED BY <1>1 DEF Present, Defined

(* The contents do not change if they do not, seen from the outermost call.    *)
LEMMA SameContents ==
  ASSUME UseTyped, UseTyped', NEW N \in Nat, SameAfter(blocks, calls, blocks', calls', N)
  PROVE  Contents' = Contents
<1>1. /\ Contents = [k \in Keys |-> After(blocks, calls, k, 0)]
      /\ Contents' = [k \in Keys |-> After(blocks', calls', k, 0)]
  BY ContentsAre, ContentsAreNext
<1>2. \A k \in Keys : After(blocks', calls', k, 0) = After(blocks, calls, k, 0)
  BY DEF SameAfter
<1> QED BY <1>1, <1>2

(* Only ReplaceUse changes the contents of a block.                            *)
LEMMA UseNamedContents ==
  ASSUME UseTyped, UseNamed
  PROVE  Contents' = Contents
<1>1. /\ calls # <<>> /\ inner.old # <<>> /\ returned = NoValue /\ Iterating
      /\ entry \in Names /\ Defined(Named)
  BY DEF UseNamed, Iterating
<1>2. inner \in ACall /\ inner.key \in Keys
  BY <1>1, InnerTyped
<1>3. inner.old \in Seq(Entries) /\ Tail(inner.old) \in Seq(Entries)
  BY <1>1, <1>2, HeadTailProperties DEF ACall
<1> DEFINE c == [inner EXCEPT !.old = Tail(@), !.v = entry]
<1>4. /\ c \in ACall /\ c.key = inner.key /\ c.old = Tail(inner.old) /\ c.v = entry
      /\ inner.count \in 0 .. Levels
  BY <1>1, <1>2, <1>3 DEF ACall
<1>5. Enter(Copied, Named, inner.count, Outer(c))
  BY DEF UseNamed
<1> HIDE DEF c
<1>6. Called(Copied, Named, Outer(c))
  <2>1. /\ Copied \in Blocks /\ \A l \in Keys : blocks[l] \in Block => Copied[l] \in Block
    BY <1>1, <1>4, CopyIs
  <2>2. Named \in Keys
    BY <1>1, <1>2 DEF Named, Keys
  <2>3. Copied[Named] \in Block
    BY <1>1, <2>1, <2>2, BlockOrNot DEF UseTyped, Defined
  <2>4. Outer(c) \in Seq(ACall) /\ Outer(c)[Len(Outer(c))] = c
    BY <1>1, <1>4, OuterIs
  <2>5. Named = Directive(c)
    BY <1>4 DEF Named, Directive
  <2> QED BY <2>1, <2>2, <2>3, <2>4, <2>5 DEF Called
<1>7. PICK n \in Nat : n = Len(Outer(c)) /\ n - 1 \in Nat /\ n = Len(calls)
  BY <1>1, <1>4, OuterIs, LenProperties
<1>8. SameAfter(Copied, Outer(c), blocks', calls', n)
  BY <1>4, <1>5, <1>6, <1>7, EnterAfter
<1>9. SameAfter(blocks, calls, Copied, Outer(c), n - 1)
  BY <1>1, <1>4, <1>7, CopyAfter
<1>10. SameAfter(blocks, calls, blocks', calls', n - 1)
  <2> SUFFICES ASSUME NEW k \in Keys, NEW i \in 0 .. n - 1
               PROVE  After(blocks', calls', k, i) = After(blocks, calls, k, i)
    BY DEF SameAfter
  <2>1. i \in 0 .. n
    BY <1>7
  <2> QED BY <1>8, <1>9, <2>1 DEF SameAfter
<1>11. UseTyped'
  BY UseStepTyped DEF UseStep
<1> QED BY <1>7, <1>10, <1>11, SameContents

(* An entry that is copied back leaves the block its contents ...              *)
LEMMA CopyContents ==
  ASSUME UseTyped, CopyParam \/ UseNotFound
  PROVE  Contents' = Contents
<1>1. /\ calls # <<>> /\ inner.old # <<>> /\ returned = NoValue /\ Iterating
  BY DEF CopyParam, UseNotFound, Iterating
<1>2. inner \in ACall
  BY <1>1, InnerTyped
<1>3. inner.old \in Seq(Entries) /\ Tail(inner.old) \in Seq(Entries)
  BY <1>1, <1>2, HeadTailProperties DEF ACall
<1> DEFINE c == [inner EXCEPT !.old = Tail(@)]
<1>4. c \in ACall /\ c.key = inner.key /\ c.old = Tail(inner.old)
  BY <1>1, <1>2, <1>3 DEF ACall
<1>5. blocks' = Copied /\ calls' = Outer(c)
  BY DEF CopyParam, UseNotFound
<1> HIDE DEF c
<1>6. PICK n \in Nat : n = Len(calls) /\ n - 1 \in Nat
  BY <1>1, <1>4, OuterIs, LenProperties
<1>7. SameAfter(blocks, calls, blocks', calls', n - 1)
  BY <1>1, <1>4, <1>5, <1>6, CopyAfter
<1>8. UseTyped'
  BY UseStepTyped DEF UseStep
<1> QED BY <1>6, <1>7, <1>8, SameContents

(* ... and so do a directive that is kept and a return.                        *)
LEMMA KeepContents ==
  ASSUME UseTyped, KeepUse \/ UseReturn
  PROVE  Contents' = Contents
<1>1. calls # <<>>
  BY DEF KeepUse, UseReturn, Resuming
<1>2. PICK n \in Nat : n = Len(calls) - 1
  BY <1>1, CallsSplit
<1>3. SameAfter(blocks, calls, blocks', calls', n)
  BY <1>2, KeepAfter, ReturnAfter
<1>4. UseTyped'
  BY UseStepTyped DEF UseStep
<1> QED BY <1>2, <1>3, <1>4, SameContents

(* What a step of Use may do to the contents.                                  *)
LEMMA StepContents ==
  ASSUME UseTyped, UseInv, UseStep, Found(blocks, calls, returned),
         Answered(Present, blocks, calls, returned)
  PROVE  \/ Contents' = Contents
         \/ Replaced(Present, Contents, Contents', inner.key, inner.v)
BY UseNamedContents, CopyContents, KeepContents, ReplaceContents DEF UseStep

(* What the calls have done stays so.                                          *)
LEMMA StepDone ==
  ASSUME UseTyped, UseInv, UseStep, Found(blocks, calls, returned),
         AllDone(Present, blocks, calls, returned), Answered(Present, blocks, calls, returned)
  PROVE  /\ AllDone(Present', blocks', calls', returned')
         /\ Answered(Present', blocks', calls', returned')
<1>1. Present' = Present
  BY StepPresent
<1>2. CASE CopyParam \/ UseNotFound
  BY <1>1, <1>2, CopyParamDone
<1>3. CASE UseNamed
  BY <1>1, <1>3, UseNamedDone
<1>4. CASE ReplaceUse
  BY <1>1, <1>4, ReplaceDone
<1>5. CASE KeepUse
  BY <1>1, <1>5, KeepDone
<1>6. CASE UseReturn
  BY <1>1, <1>6, ReturnDone
<1> QED BY <1>2, <1>3, <1>4, <1>5, <1>6 DEF UseStep

(* What the blocks stand for, before a step ...                                *)
LEMMA MeaningAre ==
  \A key \in Keys : Meaning(key) = Unfolding(Present, Contents)[{key}][key]
BY MeaningIs

(* ... and after it.                                                           *)
LEMMA MeaningNext ==
  \A key \in Keys : Meaning(key)' = Unfolding(Present', Contents')[{key}][key]
<1>1. (\A key \in Keys : Meaning(key) = Unfolding(Present, Contents)[{key}][key])'
      <=> \A key \in Keys : Meaning(key)' = Unfolding(Present', Contents')[{key}][key]
  BY DEF Unfolding, Unfolds, Value
<1>2. (\A key \in Keys : Meaning(key) = Unfolding(Present, Contents)[{key}][key])'
  BY MeaningAre, PTL
<1> QED BY <1>1, <1>2

(* No step of Use changes what a block stands for.                             *)
LEMMA StepMeaning ==
  ASSUME UseTyped, UseInv, UseStep, Found(blocks, calls, returned),
         Answered(Present, blocks, calls, returned), NEW l \in Keys
  PROVE  Meaning(l)' = Meaning(l)
<1>1. /\ Meaning(l) = Unfolding(Present, Contents)[{l}][l]
      /\ Meaning(l)' = Unfolding(Present', Contents')[{l}][l]
  BY MeaningAre, MeaningNext
<1>2. Present' = Present
  BY StepPresent
<1>3. CASE Contents' = Contents
  BY <1>1, <1>2, <1>3
<1>4. CASE Replaced(Present, Contents, Contents', inner.key, inner.v)
  <2>1. UseTyped'
    BY UseStepTyped
  <2>2. Holds(Present, Contents) /\ Holds(Present, Contents')
    BY <1>2, <2>1, ContentsAre, ContentsAreNext
  <2>3. Unfolding(Present, Contents)[{l}][l] = Unfolding(Present, Contents')[{l}][l]
    BY <1>4, <2>2, ReplacedMeaning
  <2> QED BY <1>1, <1>2, <2>3
<1> QED BY <1>3, <1>4, StepContents

(*******************************************************************************)
(* The fetch: what the blocks stand for.                                       *)
(*******************************************************************************)
(* Besides what is to be kept: what the calls have done, by which a directive  *)
(* is replaced only by entries that stand for themselves.                      *)
MeaningInv ==
  Fetching =>
    /\ AllDone(Present, blocks, calls, returned)
    /\ Answered(Present, blocks, calls, returned)
    /\ \A l \in DOMAIN promise.meaning : l \in Keys /\ Meaning(l) = promise.meaning[l]

(* Nor does a step that leaves the blocks and the calls alone.                 *)
LEMMA MeaningSame ==
  ASSUME blocks' = blocks, calls' = calls
  PROVE  /\ Present' = Present /\ Contents' = Contents
         /\ \A l \in Keys : Meaning(l)' = Meaning(l)
<1>1. Present' = Present /\ Contents' = Contents
  BY DEF Present, Defined, Contents
<1> QED BY <1>1, MeaningAre, MeaningNext

(* No call of Use is in progress before a fetch expands a block.               *)
LEMMA ExpandIs ==
  ASSUME IInv, IInv', NEW kind \in Kinds, NEW k \in Keys, Expand(kind, k)
  PROVE  /\ Called(blocks, k, <<>>) /\ Enter(blocks, k, Levels, <<>>) /\ calls = <<>>
         /\ Levels \in 0 .. Levels
         /\ Present' = Present /\ Contents' = Contents
         /\ \A l \in Keys : Meaning(l)' = Meaning(l)
<1>1. /\ Enter(blocks, k, Levels, <<>>) /\ Defined(k) /\ blocks \in Blocks /\ calls = <<>>
      /\ UseTyped /\ UseTyped'
  BY DEF Expand, IInv, UseTyped, NewCall, Idle, Sequential
<1>2. blocks[k] \in Block
  BY <1>1, BlockOrNot DEF Defined
<1>3. Called(blocks, k, <<>>)
  BY <1>1, <1>2, EmptySeq DEF Called
<1>4. PICK N \in Nat : N = Len(<<>>)
  BY EmptySeq
<1>5. Levels \in 0 .. Levels
  BY LevelsAssumption
<1>6. SameAfter(blocks, calls, blocks', calls', N)
  BY <1>1, <1>3, <1>4, <1>5, EnterAfter
<1>7. Contents' = Contents
  BY <1>1, <1>6, SameContents
<1>8. Present' = Present
  <2>1. \A l \in Keys : blocks'[l] # NoParams <=> blocks[l] # NoParams
    BY <1>1, <1>2, EnterUnits, EnterGrows DEF SameUnits, Grows
  <2> QED BY <2>1 DEF Present, Defined
<1>9. \A l \in Keys : Meaning(l)' = Meaning(l)
  BY <1>7, <1>8, MeaningAre, MeaningNext
<1> QED BY <1>1, <1>3, <1>5, <1>7, <1>8, <1>9

(* It holds at every step of every fetch.                                      *)
LEMMA MeaningInvariance == Spec => []MeaningInv
<1>1. Init => MeaningInv
  BY DEF Init, MeaningInv, Fetching
<1>2. IInv /\ IInv' /\ UseInv /\ AnswerInv /\ MeaningInv /\ [Next]_vars_all => MeaningInv'
  <2> SUFFICES ASSUME IInv, IInv', UseInv, AnswerInv, MeaningInv, [Next]_vars_all
               PROVE  MeaningInv'
    OBVIOUS
  <2>1. ASSUME fetch' = NoFetch
        PROVE  MeaningInv'
    BY <2>1 DEF MeaningInv, Fetching
  <2>2. ASSUME AllDone(Present', blocks', calls', returned'),
               Answered(Present', blocks', calls', returned'),
               \A l \in DOMAIN promise'.meaning :
                 l \in Keys /\ Meaning(l)' = promise'.meaning[l]
        PROVE  MeaningInv'
    <3>1. AllDone(Present, blocks, calls, returned)'
      BY <2>2 DEF AllDone, DoneAt, Settled, After, Rest, Olds, OldOf, Follows
    <3>2. Answered(Present, blocks, calls, returned)'
      BY <2>2 DEF Answered, Settled, Directive
    <3> QED BY <2>2, <3>1, <3>2 DEF MeaningInv
  <2>3. ASSUME UNCHANGED <<blocks, use_vars, fetch, promise>>
        PROVE  MeaningInv'
    <3> SUFFICES ASSUME Fetching
                 PROVE  MeaningInv'
      BY <2>3 DEF MeaningInv, Fetching
    <3>1. /\ Present' = Present /\ \A l \in Keys : Meaning(l)' = Meaning(l)
      BY <2>3, MeaningSame DEF use_vars
    <3> QED BY <2>2, <2>3, <3>1 DEF MeaningInv, use_vars
  <2>4. CASE CallRead
    BY <2>1, <2>4 DEF CallRead, NewCall, Idle, Fetching, Unfetched
  <2>5. CASE Fetch
    <3>1. PICK kind \in Kinds, k \in Keys :
            NotFound(kind, k) \/ Kept(kind, k) \/ NotLoaded(kind, k) \/ Expand(kind, k)
      BY <2>5 DEF Fetch
    <3>2. CASE Expand(kind, k)
      <4>1. /\ Called(blocks, k, <<>>) /\ Enter(blocks, k, Levels, <<>>)
            /\ Levels \in 0 .. Levels
            /\ Present' = Present /\ \A l \in Keys : Meaning(l)' = Meaning(l)
        BY <3>2, ExpandIs
      <4>2. AllDone(Present, blocks, <<>>, 0)
        <5>1. 1 .. Len(<<>>) = {}
          BY EmptySeq
        <5> QED BY <5>1 DEF AllDone
      <4>3. /\ AllDone(Present, blocks', calls', returned')
            /\ Answered(Present, blocks', calls', returned')
        BY <4>1, <4>2, EnterDone
      <4>4. /\ DOMAIN promise'.meaning \subseteq Keys
            /\ \A l \in DOMAIN promise'.meaning : promise'.meaning[l] = Meaning(l)
        BY <3>2 DEF Expand
      <4> QED BY <2>2, <4>1, <4>3, <4>4
    <3> QED BY <2>3, <3>1, <3>2 DEF NotFound, Kept, NotLoaded
  <2>6. CASE Reading
    <3>1. reading
      BY <2>6 DEF Reading, ReadStep, ReadNext, Include, SetBase, SetUnits, BadStatement,
                  AlreadyDefined, StoreParameters, CloseFile, ReadReturn, AtStatement, IInv, ReadTyped
    <3> QED BY <2>1, <2>6, <3>1 DEF Reading, Unfetched, Sequential, IInv, Fetching
  <2>7. CASE Expanding
    <3>1. UseTyped /\ UseStep /\ fetch' = fetch /\ promise' = promise
      BY <2>7 DEF IInv, Expanding
    <3> SUFFICES ASSUME Fetching
                 PROVE  MeaningInv'
      BY <3>1 DEF MeaningInv, Fetching
    <3>2. Found(blocks, calls, returned)
      BY DEF AnswerInv, LevelInv
    <3>3. /\ AllDone(Present, blocks, calls, returned)
          /\ Answered(Present, blocks, calls, returned)
          /\ \A l \in DOMAIN promise.meaning : l \in Keys /\ Meaning(l) = promise.meaning[l]
      BY DEF MeaningInv
    <3>4. /\ AllDone(Present', blocks', calls', returned')
          /\ Answered(Present', blocks', calls', returned')
      BY <3>1, <3>2, <3>3, StepDone
    <3>5. \A l \in Keys : Meaning(l)' = Meaning(l)
      BY <3>1, <3>2, <3>3, StepMeaning
    <3> QED BY <2>2, <3>1, <3>3, <3>4, <3>5
  <2>8. CASE Answering
    BY <2>1, <2>8 DEF Answering, UseFailed, GiveParams, InitializeFailed, GiveObj, Give
  <2>9. CASE UNCHANGED vars_all
    BY <2>3, <2>9 DEF vars_all
  <2> QED BY <2>4, <2>5, <2>6, <2>7, <2>8, <2>9 DEF Next, Working
<1> QED BY <1>1, <1>2, Invariance, UseInvariance, AnswerInvariance, PTL DEF Spec

(* At every step of a fetch every block stands for the parameters, in the      *)
(* order, it stood for when the fetch began (Use, in place; NewObject,         *)
(* FetchParams), whether the fetch succeeds or fails.                          *)
THEOREM MeaningKeptHolds == Spec => []MeaningKept
<1>1. MeaningInv => MeaningKept
  BY DEF MeaningInv, MeaningKept
<1> QED BY <1>1, MeaningInvariance, PTL

(* An object is kept of a block that is there, and has no directives.          *)
ObjInv ==
  \A k \in Keys : obj[k] # NULL =>
    Defined(k) /\ obj[k] \in Seq(Entries) /\ Use(obj[k]) = 0

(* A statement changes its own block only, and one that exists only by `+=' or *)
(* `:='.                                                                       *)
LEMMA StoreElsewhere ==
  ASSUME ReadTyped, StoreParameters
  PROVE  /\ Grows(blocks, blocks')
         /\ Elsewhere(blocks, blocks', BlockKey)
         /\ Defined(BlockKey) => blocks' = blocks \/ statement.eq \in {"ADD", "REPLACE"}
<1>1. /\ AtStatement /\ statement.cmd = "block"
      /\ blocks' = Stored(statement.eq, BlockKey, NewBlock)
      /\ ~(statement.eq = "NEW" /\ Defined(BlockKey))
  BY DEF StoreParameters
<1>2. top \in Frame /\ statement \in Statement
  BY <1>1, StatementTyped DEF ReadTyped
<1>3. /\ statement.eq \in {"NEW", "ADD", "REPLACE", "EXIST"} /\ BlockKey \in Keys
      /\ blocks \in Blocks /\ NewBlock # NoParams
  <2>1. "units" \in DOMAIN NewBlock /\ "units" \notin DOMAIN NoParams
    BY DEF NewBlock, NoParams
  <2>2. NewBlock # NoParams
    BY <2>1
  <2> QED BY <1>1, <1>2, <2>2 DEF Statement, BlockKey, Keys, Frame, ReadTyped, Blocks
<1> DEFINE k == BlockKey
           b == NewBlock
<1> HIDE DEF k, b
<1>4. ASSUME blocks' = [blocks EXCEPT ![k] = b]
      PROVE  Grows(blocks, blocks') /\ Elsewhere(blocks, blocks', BlockKey)
  BY <1>3, <1>4 DEF Grows, Elsewhere, Blocks, k, b
<1>5. ASSUME blocks' = blocks
      PROVE  Grows(blocks, blocks') /\ Elsewhere(blocks, blocks', BlockKey)
  BY <1>5 DEF Grows, Elsewhere
<1>6. ASSUME blocks' = WithEntries(k, blocks[k].entries \o b.entries), Defined(k)
      PROVE  Grows(blocks, blocks') /\ Elsewhere(blocks, blocks', BlockKey)
  <2>1. k \in Keys /\ blocks[k] \in Block
    BY <1>3, <1>6, BlockOrNot DEF Defined, k
  <2>2. Grows(blocks, blocks')
    BY <1>3, <1>6, <2>1, WithEntriesGrows DEF WithEntries
  <2> QED BY <1>6, <2>2 DEF Elsewhere, WithEntries, Blocks, k
<1>7. /\ \/ blocks' = [blocks EXCEPT ![k] = b]
         \/ blocks' = blocks
         \/ blocks' = WithEntries(k, blocks[k].entries \o b.entries) /\ Defined(k)
      /\ Defined(k) => blocks' = blocks \/ statement.eq \in {"ADD", "REPLACE"}
  BY <1>1, <1>3 DEF Stored, k, b
<1>8. Grows(blocks, blocks') /\ Elsewhere(blocks, blocks', BlockKey)
  BY <1>4, <1>5, <1>6, <1>7
<1> QED BY <1>7, <1>8 DEF k

(* Reading changes no object, and blocks only by a statement.                  *)
LEMMA ReadingBlocks ==
  ASSUME IInv, Reading
  PROVE  /\ obj' = obj /\ calls' = calls /\ Grows(blocks, blocks')
         /\ StoreParameters \/ blocks' = blocks
<1>1. ReadStep /\ obj' = obj /\ calls' = calls /\ ReadTyped
  BY DEF Reading, Unfetched, use_vars, IInv
<1>2. StoreParameters \/ blocks' = blocks
  BY <1>1 DEF ReadStep, ReadNext, Include, SetBase, SetUnits, BadStatement, AlreadyDefined,
              CloseFile, ReadReturn
<1>3. Grows(blocks, blocks')
  BY <1>1, <1>2, StoreElsewhere DEF Grows
<1> QED BY <1>1, <1>2, <1>3

(* An object is kept only when Use has answered 0 for its block.               *)
LEMMA ObjInvariance == Spec => []ObjInv
<1>1. Init => ObjInv
  BY DEF Init, ObjInv
<1>2. IInv /\ UseAnswer /\ AnswerInv /\ ObjInv /\ [Next]_vars_all => ObjInv'
  <2> SUFFICES ASSUME IInv, UseAnswer, AnswerInv, ObjInv, [Next]_vars_all
               PROVE  ObjInv'
    OBVIOUS
  <2>1. UseTyped /\ FetchTyped
    BY DEF IInv
  <2>2. ASSUME obj' = obj, Grows(blocks, blocks')
        PROVE  ObjInv'
    BY <2>2 DEF ObjInv, Grows, Defined, Use, UsesOf
  <2>3. Grows(blocks, blocks)
    BY DEF Grows
  <2>4. CASE CallRead
    BY <2>2, <2>3, <2>4 DEF CallRead, Read, Unfetched
  <2>5. CASE Fetch
    <3>1. PICK kind \in Kinds, k \in Keys :
            NotFound(kind, k) \/ Kept(kind, k) \/ NotLoaded(kind, k) \/ Expand(kind, k)
      BY <2>5 DEF Fetch
    <3>2. CASE Expand(kind, k)
      <4>1. blocks \in Blocks /\ blocks[k] \in Block
        BY <2>1, <3>2, BlockOrNot DEF UseTyped, Expand, Defined
      <4>2. Grows(blocks, blocks') /\ obj' = obj
        BY <3>2, <4>1, EnterGrows DEF Expand
      <4> QED BY <2>2, <4>2
    <3> QED BY <2>2, <2>3, <3>1, <3>2 DEF NotFound, Kept, NotLoaded
  <2>6. CASE Reading
    BY <2>2, <2>6, ReadingBlocks
  <2>7. CASE Expanding
    BY <2>1, <2>2, <2>7, UseStepGrows DEF Expanding
  <2>8. CASE Answering
    <3>1. blocks' = blocks
      BY <2>8 DEF Answering, UseFailed, GiveParams, InitializeFailed, GiveObj, Give
    <3>2. CASE obj' = obj
      BY <2>2, <2>3, <3>1, <3>2
    <3>3. CASE /\ Expanded /\ returned = 0 /\ obj' = [obj EXCEPT ![fetch.key] = expanded]
      <4>1. fetch.key \in Keys /\ Defined(fetch.key)
        BY <3>3 DEF AnswerInv, Outermost, Expanded
      <4>2. Use(expanded) = 0
        BY <3>3 DEF UseAnswer
      <4>3. expanded \in Seq(Entries)
        BY <2>1, <4>1, BlockOrNot DEF expanded, UseTyped
      <4>4. obj' \in [Keys -> Seq(Entries) \cup {NULL}] /\ obj'[fetch.key] = expanded
            /\ \A k \in Keys : k # fetch.key => obj'[k] = obj[k]
        BY <2>1, <3>3, <4>1, <4>3 DEF FetchTyped
      <4>5. ASSUME NEW k \in Keys, obj'[k] # NULL
            PROVE  blocks'[k] # NoParams /\ obj'[k] \in Seq(Entries) /\ Use(obj'[k]) = 0
        <5>1. CASE k = fetch.key
          BY <3>1, <4>1, <4>2, <4>3, <4>4, <5>1 DEF Defined
        <5>2. CASE k # fetch.key
          <6>1. obj'[k] = obj[k]
            BY <4>4, <5>2
          <6> QED BY <3>1, <4>5, <6>1 DEF ObjInv, Defined
        <5> QED BY <5>1, <5>2
      <4> QED BY <4>5 DEF ObjInv, Defined, Use, UsesOf
    <3> QED BY <2>8, <3>2, <3>3 DEF Answering, UseFailed, GiveParams, InitializeFailed, GiveObj
  <2>9. CASE UNCHANGED vars_all
    BY <2>2, <2>3, <2>9 DEF vars_all
  <2> QED BY <2>4, <2>5, <2>6, <2>7, <2>8, <2>9 DEF Next, Working
<1> QED BY <1>1, <1>2, Invariance, AnswerInvariance, UseAnswerHolds, PTL DEF Spec

(* A block is not changed that stays as it was in blocks and in the calls.     *)
LEMMA ContentsAt ==
  ASSUME UseTyped, UseTyped', calls' = calls, NEW k \in Keys, blocks'[k] = blocks[k]
  PROVE  Contents'[k] = Contents[k]
BY ContentsAre, ContentsAreNext DEF After

(* No call is in progress: the contents are what is in the block.              *)
LEMMA ContentsIdle ==
  ASSUME UseTyped, calls = <<>>, NEW k \in Keys
  PROVE  Contents[k] = blocks[k].entries
<1>1. calls \in Seq(ACall) /\ blocks \in Blocks
  BY DEF UseTyped
<1>2. Len(calls) = 0
  BY EmptySeq
<1>3. After(blocks, calls, k, 0) = blocks[k].entries
  BY <1>1, <1>2, AfterInner
<1> QED BY <1>3, ContentsAre

(* Where a directive is replaced there was one: no object agrees with that.    *)
LEMMA ReplacedFresh ==
  ASSUME NEW D, NEW C, Holds(D, C), NEW E, NEW k, NEW v, Replaced(D, C, E, k, v),
         NEW l \in Keys, Use(C[l]) = 0
  PROVE  E[l] = C[l]
<1>1. l # k => E[l] = C[l]
  BY DEF Replaced
<1>2. ASSUME l = k
      PROVE  FALSE
  <2>1. /\ v \in Names /\ <<k[1], v>> \in D /\ C[k] \in Seq(Entries)
    BY <1>2 DEF Replaced, Holds
  <2>2. PICK s, t \in Seq(Entries) : C[k] = (s \o <<v>>) \o t
    BY DEF Replaced
  <2>3. PICK n \in Nat : n = Len(s) + 1
    BY LenProperties
  <2>4. n \in 1 .. Len(C[k]) /\ C[k][n] = v
    BY <2>1, <2>2, <2>3 DEF Entries
  <2>5. Settled(D, k, C[k])
    BY <1>2, <2>1, SettledNone
  <2> QED BY <2>1, <2>4, <2>5 DEF Settled
<1> QED BY <1>1, <1>2

(* No step of Use makes an object stale ...                                    *)
LEMMA ExpandingFresh ==
  ASSUME IInv, UseInv, AnswerInv, MeaningInv, ObjInv, Expanding, NEW k \in Keys, Fresh(k)
  PROVE  obj'[k] \in {NULL, Contents'[k]}
<1>1. UseTyped /\ UseStep /\ obj' = obj
  BY DEF IInv, Expanding
<1>2. Fetching
  BY <1>1 DEF IInv, Sequential, UseStep, CopyParam, UseNotFound, UseNamed, ReplaceUse, KeepUse,
              UseReturn, Iterating, Resuming
<1>3. Found(blocks, calls, returned) /\ Answered(Present, blocks, calls, returned)
  BY <1>2 DEF AnswerInv, LevelInv, MeaningInv
<1>4. CASE Contents' = Contents
  BY <1>1, <1>4 DEF Fresh
<1>5. CASE Replaced(Present, Contents, Contents', inner.key, inner.v)
  <2> SUFFICES ASSUME obj[k] # NULL
               PROVE  obj'[k] = Contents'[k]
    BY <1>1
  <2>1. obj[k] = Contents[k] /\ Use(Contents[k]) = 0
    BY DEF Fresh, ObjInv
  <2>2. Holds(Present, Contents)
    BY <1>1, ContentsAre
  <2>3. Contents'[k] = Contents[k]
    BY <1>5, <2>1, <2>2, ReplacedFresh
  <2> QED BY <1>1, <2>1, <2>3
<1> QED BY <1>1, <1>3, <1>4, <1>5, StepContents

(* ... reading does by a statement on its block only ...                       *)
LEMMA ReadingFresh ==
  ASSUME IInv, IInv', ObjInv, Reading, NEW k \in Keys, Fresh(k),
         obj'[k] \notin {NULL, Contents'[k]}
  PROVE  StoreParameters /\ BlockKey = k /\ statement.eq \in {"ADD", "REPLACE"}
<1>1. UseTyped /\ UseTyped' /\ ReadTyped
  BY DEF IInv
<1>2. /\ obj' = obj /\ calls' = calls /\ (StoreParameters \/ blocks' = blocks)
  BY ReadingBlocks
<1>3. blocks'[k] # blocks[k]
  <2>1. Contents'[k] # Contents[k]
    BY <1>2 DEF Fresh
  <2> QED BY <1>1, <1>2, <2>1, ContentsAt
<1>4. StoreParameters
  BY <1>2, <1>3
<1>5. /\ Elsewhere(blocks, blocks', BlockKey)
      /\ Defined(BlockKey) => blocks' = blocks \/ statement.eq \in {"ADD", "REPLACE"}
  BY <1>1, <1>4, StoreElsewhere
<1>6. BlockKey = k
  BY <1>3, <1>5 DEF Elsewhere
<1>7. Defined(k)
  BY <1>2 DEF ObjInv
<1> QED BY <1>3, <1>4, <1>5, <1>6, <1>7

(* ... and the object that a fetch keeps agrees with its block.                *)
LEMMA GivenFresh ==
  ASSUME IInv, Answering, NEW k \in Keys, Fresh(k)
  PROVE  obj'[k] \in {NULL, Contents'[k]}
<1>1. UseTyped /\ FetchTyped
  BY DEF IInv
<1>2. blocks' = blocks /\ calls' = calls
  BY DEF Answering, UseFailed, GiveParams, InitializeFailed, GiveObj, Give
<1>3. Contents' = Contents
  BY <1>2, MeaningSame
<1>4. CASE obj'[k] = obj[k]
  BY <1>3, <1>4 DEF Fresh
<1>5. CASE Expanded /\ fetch.key = k /\ obj'[k] = expanded
  <2>1. Contents[k] = blocks[k].entries
    BY <1>1, <1>5, ContentsIdle DEF Expanded
  <2> QED BY <1>3, <1>5, <2>1 DEF expanded
<1>6. \/ obj'[k] = obj[k]
      \/ Expanded /\ fetch.key = k /\ obj'[k] = expanded
  BY <1>1 DEF Answering, UseFailed, GiveParams, InitializeFailed, GiveObj, FetchTyped
<1> QED BY <1>4, <1>5, <1>6

(* An object that agrees with its block stops doing so only by a statement     *)
(* that adds to this block or replaces it.                                     *)
THEOREM StaleByStoreHolds == Spec => StaleByStore
<1>1. IInv /\ IInv' /\ UseInv /\ AnswerInv /\ MeaningInv /\ ObjInv /\ [Next]_vars_all =>
        [\A k \in Keys : Fresh(k) /\ ~Fresh(k)' =>
           /\ StoreParameters /\ BlockKey = k
           /\ statement.eq \in {"ADD", "REPLACE"}]_vars_all
  <2> SUFFICES ASSUME IInv, IInv', UseInv, AnswerInv, MeaningInv, ObjInv, Next,
                      NEW k \in Keys, Fresh(k), obj'[k] \notin {NULL, Contents'[k]}
               PROVE  /\ StoreParameters /\ BlockKey = k
                      /\ statement.eq \in {"ADD", "REPLACE"}
    BY Zenon DEF Fresh
  <2>1. ASSUME obj' = obj, Contents' = Contents
        PROVE  FALSE
    BY <2>1 DEF Fresh
  <2>2. ASSUME obj' = obj, blocks' = blocks, calls' = calls
        PROVE  FALSE
    BY <2>1, <2>2, MeaningSame
  <2>3. CASE CallRead
    BY <2>2, <2>3 DEF CallRead, Read, Unfetched, use_vars
  <2>4. CASE Fetch
    <3>1. PICK kind \in Kinds, l \in Keys :
            NotFound(kind, l) \/ Kept(kind, l) \/ NotLoaded(kind, l) \/ Expand(kind, l)
      BY <2>4 DEF Fetch
    <3>2. CASE Expand(kind, l)
      <4>1. Contents' = Contents /\ obj' = obj
        BY <3>2, ExpandIs DEF Expand
      <4> QED BY <2>1, <4>1
    <3> QED BY <2>2, <3>1, <3>2 DEF NotFound, Kept, NotLoaded, use_vars
  <2>5. CASE Reading
    BY <2>5, ReadingFresh
  <2>6. CASE Expanding
    BY <2>6, ExpandingFresh
  <2>7. CASE Answering
    BY <2>7, GivenFresh
  <2> QED BY <2>3, <2>4, <2>5, <2>6, <2>7 DEF Next, Working
<1> QED BY <1>1, Invariance, UseInvariance, AnswerInvariance, MeaningInvariance, ObjInvariance,
           PTL DEF Spec, StaleByStore

================================================================================
