------------------------------ MODULE LinkList ------------------------------
(***************************************************************************)
(* Class _List of CClib/LinkList: a ring of links with a marked first      *)
(* link, a current link (the cursor) and a stack of saved cursors.  Two or *)
(* more lists share the heap, since Transfer moves links between them.     *)
(*                                                                         *)
(* The save stack is itself a ring of links in the code; here it is the    *)
(* sequence of the saved cursors, the top (save_link) last.                *)
(***************************************************************************)
EXTENDS Integers, Sequences, FiniteSets

CONSTANTS
  Lists,      \* the list objects
  Links,      \* the addresses a link may be allocated at
  Objects,    \* the objects entered into the lists
  Null,       \* the null pointer
  MaxSave,    \* bound: depth of a save stack
  SaveTwice   \* may a client save a link that is on the save stack already?

ASSUME LinkListAssumption ==
  /\ Null \notin Links \cup Objects \cup Lists
  /\ IsFiniteSet(Links)
  /\ MaxSave \in Nat
  /\ SaveTwice \in BOOLEAN

VARIABLES
  next, prev, object, permanent,      \* the fields of each link
  first, link, list_size, save,       \* the fields of each list
  home,                               \* ghost: the list a link is in, Null when it is free
  freed                               \* ghost: the objects DeAlloc has deleted

ring == <<next, prev>>
entries == <<object, permanent, freed>>
vars == <<next, prev, object, permanent, first, link, list_size, save, home, freed>>

Cells(a) == {p \in Links : home[p] = a}
Free == Cells(Null)
Holders(o) == {p \in Links \ Free : object[p] = o}

Init ==
  /\ next = [p \in Links |-> p]
  /\ prev = [p \in Links |-> p]
  /\ object = [p \in Links |-> Null]
  /\ permanent = [p \in Links |-> TRUE]
  /\ first = [a \in Lists |-> Null]
  /\ link = [a \in Lists |-> Null]
  /\ list_size = [a \in Lists |-> 0]
  /\ save = [a \in Lists |-> << >>]
  /\ home = [p \in Links |-> Null]
  /\ freed = {}

(***************************************************************************)
(* Links.                                                                  *)
(***************************************************************************)

\* new _Link(obj, perm), linked in a.  The client gives away an object only
\* once (perm = 0 hands it to the list), and never enters a deleted one.
NewLink(a, p, o, perm) ==
  /\ p \in Free
  /\ o \notin freed
  /\ \A q \in Holders(o) : perm /\ permanent[q]
  /\ home' = [home EXCEPT ![p] = a]
  /\ object' = [object EXCEPT ![p] = o]
  /\ permanent' = [permanent EXCEPT ![p] = perm]
  /\ list_size' = [list_size EXCEPT ![a] = @ + 1]
  /\ UNCHANGED <<save, freed>>

AddBefore(q, p) ==
  /\ next' = [next EXCEPT ![p] = q, ![prev[q]] = p]
  /\ prev' = [prev EXCEPT ![p] = prev[q], ![q] = p]

AddAfter(q, p) ==
  /\ prev' = [prev EXCEPT ![p] = q, ![next[q]] = p]
  /\ next' = [next EXCEPT ![p] = next[q], ![q] = p]

\* Mutant: the next link still points back at p.
UnlinkHalf(p) ==
  /\ next' = [next EXCEPT ![prev[p]] = next[p], ![p] = p]
  /\ prev' = [prev EXCEPT ![p] = p]

\* A deleted link gets back the fields a new one is constructed with.
Unlink(p) ==
  /\ next' = [next EXCEPT ![prev[p]] = next[p], ![p] = p]
  /\ prev' = [prev EXCEPT ![next[p]] = prev[p], ![p] = p]

\* Mutants: permanent links lose their objects too; object is cleared first.
OwnedAll(P) == {object[p] : p \in P}
OwnedCleared(P) == {Null : p \in {q \in P : ~permanent[q]}}

\* The objects PreDeLink hands to DeAlloc when the links P go.
Owned(P) == {object[p] : p \in {q \in P : ~permanent[q]}}

\* PreDeLink and delete of the links P.
DeleteLinks(P) ==
  /\ freed' = freed \cup Owned(P)
  /\ home' = [p \in Links |-> IF p \in P THEN Null ELSE home[p]]
  /\ object' = [p \in Links |-> IF p \in P THEN Null ELSE object[p]]
  /\ permanent' = [p \in Links |-> IF p \in P THEN TRUE ELSE permanent[p]]

\* A link is allocated with next = prev = this.
LinkAtEnd(a, p) ==
  IF first[a] = Null THEN UNCHANGED ring ELSE AddBefore(first[a], p)

(***************************************************************************)
(* Entering.                                                               *)
(***************************************************************************)
AppendLink(a, p, o, perm) ==
  /\ NewLink(a, p, o, perm)
  /\ LinkAtEnd(a, p)
  /\ first' = [first EXCEPT ![a] = IF @ = Null THEN p ELSE @]
  /\ link' = [link EXCEPT ![a] = IF first[a] = Null THEN p ELSE @]

Prepend(a, p, o, perm) ==
  /\ NewLink(a, p, o, perm)
  /\ LinkAtEnd(a, p)
  /\ first' = [first EXCEPT ![a] = p]
  /\ link' = [link EXCEPT ![a] = IF first[a] = Null THEN p ELSE @]

Insert(a, p, o, perm) ==
  /\ NewLink(a, p, o, perm)
  /\ link' = [link EXCEPT ![a] = p]
  /\ \/ /\ link[a] \in {Null, first[a]}
        /\ LinkAtEnd(a, p)
        /\ first' = [first EXCEPT ![a] = p]
     \/ /\ link[a] \notin {Null, first[a]}
        /\ AddBefore(link[a], p)
        /\ UNCHANGED first

Add(a, p, o, perm) ==
  /\ NewLink(a, p, o, perm)
  /\ link' = [link EXCEPT ![a] = p]
  /\ \/ /\ link[a] = Null
        /\ LinkAtEnd(a, p)
        /\ first' = [first EXCEPT ![a] = IF @ = Null THEN p ELSE @]
     \/ /\ link[a] # Null
        /\ AddAfter(link[a], p)
        /\ UNCHANGED first

\* Replace with a current link; without one it is AppendLink (ReplaceNull).
Replace(a, o, perm) ==
  LET p == link[a]
  IN  /\ p # Null
      /\ o \notin freed \cup Owned({p})
      /\ \A q \in Holders(o) \ {p} : perm /\ permanent[q]
      /\ freed' = freed \cup Owned({p})
      /\ object' = [object EXCEPT ![p] = o]
      /\ permanent' = [permanent EXCEPT ![p] = perm]
      /\ UNCHANGED <<ring, first, link, list_size, save, home>>

ReplaceNull(a, p, o, perm) ==
  /\ link[a] = Null
  /\ AppendLink(a, p, o, perm)

(***************************************************************************)
(* Removing.                                                               *)
(***************************************************************************)

\* Mutant: the save stack is not searched.
ForgetSavedNone(s, p) == s

\* Only the entry nearest the top is set to null: the loop ends with a break.
ForgetSaved(s, p) ==
  LET hits == {i \in DOMAIN s : s[i] = p}
  IN  IF hits = {} THEN s
      ELSE [s EXCEPT ![CHOOSE i \in hits : \A j \in hits : j <= i] = Null]

\* Mutant: backwards from the first link the cursor goes round to the last.
BesideWraps(a, p, dir) ==
  IF dir = 1 THEN IF next[p] = first[a] THEN Null ELSE next[p] ELSE prev[p]

\* Where the cursor goes from p, and which link is first without p.
Beside(a, p, dir) ==
  IF dir = 1
  THEN IF next[p] = first[a] THEN Null ELSE next[p]
  ELSE IF p = first[a] THEN Null ELSE prev[p]

\* Mutant: the removed link stays first.
FirstKept(a, p) == first[a]

FirstWithout(a, p) == IF p = first[a] THEN next[p] ELSE first[a]

RemoveLink(a, dir) ==
  LET p == link[a]
  IN  /\ p # Null
      /\ save' = [save EXCEPT ![a] = ForgetSaved(@, p)]
      /\ Unlink(p)
      /\ DeleteLinks({p})
      /\ list_size' = [list_size EXCEPT ![a] = @ - 1]
      /\ \/ /\ list_size[a] = 1
            /\ first' = [first EXCEPT ![a] = Null]
            /\ link' = [link EXCEPT ![a] = Null]
         \/ /\ list_size[a] # 1
            /\ first' = [first EXCEPT ![a] = FirstWithout(a, p)]
            /\ link' = [link EXCEPT ![a] = Beside(a, p, dir)]

EmptyList(a) ==
  /\ DeleteLinks(Cells(a))
  /\ first' = [first EXCEPT ![a] = Null]
  /\ link' = [link EXCEPT ![a] = Null]
  /\ list_size' = [list_size EXCEPT ![a] = 0]
  /\ save' = [save EXCEPT ![a] = << >>]
  /\ next' = [p \in Links |-> IF home[p] = a THEN p ELSE next[p]]
  /\ prev' = [p \in Links |-> IF home[p] = a THEN p ELSE prev[p]]

\* a << L.
Transfer(a, L) ==
  /\ a # L
  /\ first[L] # Null
  /\ LET Llast == prev[first[L]]
         at    == IF link[a] = Null THEN prev[first[a]] ELSE link[a]
         last  == next[at]
     IN /\ \/ /\ first[a] = Null
              /\ first' = [first EXCEPT ![a] = first[L], ![L] = Null]
              /\ UNCHANGED ring
           \/ /\ first[a] # Null
              /\ first' = [first EXCEPT ![L] = Null]
              /\ prev' = [prev EXCEPT ![first[L]] = at, ![last] = Llast]
              /\ next' = [next EXCEPT ![Llast] = last, ![at] = first[L]]
        /\ link' = [link EXCEPT ![a] = Llast, ![L] = Null]
  /\ list_size' = [list_size EXCEPT ![a] = @ + list_size[L], ![L] = 0]
  /\ save' = [save EXCEPT ![L] = << >>]
  /\ home' = [p \in Links |-> IF home[p] = L THEN a ELSE home[p]]
  /\ UNCHANGED entries

(***************************************************************************)
(* The cursor.                                                             *)
(***************************************************************************)
MoveTo(a, p) ==
  /\ link' = [link EXCEPT ![a] = p]
  /\ UNCHANGED <<ring, entries, first, list_size, save, home>>

Start(a) == MoveTo(a, first[a])
End(a)   == MoveTo(a, IF first[a] = Null THEN Null ELSE prev[first[a]])
Reset(a) == MoveTo(a, Null)

Next1(a) ==
  /\ link[a] # Null
  /\ MoveTo(a, Beside(a, link[a], 1))

Prev1(a) ==
  /\ link[a] # Null
  /\ MoveTo(a, Beside(a, link[a], 0))

\* Get(2, 1, force) and Get(-2, 1, force): a walk of two links, which meets
\* the mark before its first, before its second or before no step.
Forward2(a, force) ==
  LET p == link[a]
      stop(q) == ~force /\ q = first[a]
  IN  /\ p # Null
      /\ MoveTo(a, IF stop(next[p]) \/ stop(next[next[p]]) THEN Null ELSE next[next[p]])

Backward2(a, force) ==
  LET p == link[a]
      stop(q) == ~force /\ q = first[a]
  IN  /\ p # Null
      /\ MoveTo(a, IF stop(p) \/ stop(prev[p]) THEN Null ELSE prev[prev[p]])

SetFirst(a) ==
  /\ link[a] # Null
  /\ first' = [first EXCEPT ![a] = link[a]]
  /\ UNCHANGED <<ring, entries, link, list_size, save, home>>

(***************************************************************************)
(* The stack of saved cursors.                                             *)
(***************************************************************************)
MaySave(a) ==
  /\ Len(save[a]) < MaxSave
  /\ SaveTwice \/ link[a] = Null \/ \A i \in DOMAIN save[a] : save[a][i] # link[a]

Save(a) ==
  /\ MaySave(a)
  /\ save' = [save EXCEPT ![a] = Append(@, link[a])]
  /\ UNCHANGED <<ring, entries, first, link, list_size, home>>

\* save_link->AddBefore: the new entry comes next below the top.
SaveAtEnd(a) ==
  LET n == Len(save[a])
  IN  /\ MaySave(a)
      /\ save' = [save EXCEPT ![a] =
                    IF n = 0 THEN <<link[a]>>
                    ELSE [Append(save[a], save[a][n]) EXCEPT ![n] = link[a]]]
      /\ UNCHANGED <<ring, entries, first, link, list_size, home>>

Restore(a) ==
  LET n == Len(save[a])
  IN  /\ link' = [link EXCEPT ![a] = IF n = 0 THEN Null ELSE save[a][n]]
      /\ save' = [save EXCEPT ![a] = SubSeq(@, 1, n - 1)]
      /\ UNCHANGED <<ring, entries, first, list_size, home>>

PopSave(a) ==
  LET n == Len(save[a])
  IN  /\ n > 0
      /\ save' = [save EXCEPT ![a] = SubSeq(@, 1, n - 1)]
      /\ UNCHANGED <<ring, entries, first, link, list_size, home>>

EmptySave(a) ==
  /\ save' = [save EXCEPT ![a] = << >>]
  /\ UNCHANGED <<ring, entries, first, link, list_size, home>>

\* Permanent takes an object back from the list, NotPermanent gives it away.
SetPermanent(a, perm) ==
  LET p == link[a]
  IN  /\ p # Null
      /\ perm \/ Holders(object[p]) = {p}
      /\ permanent' = [permanent EXCEPT ![p] = perm]
      /\ UNCHANGED <<ring, object, freed, first, link, list_size, save, home>>

-----------------------------------------------------------------------------
Entering(a) ==
  \E p \in Links, o \in Objects, perm \in BOOLEAN :
    \/ AppendLink(a, p, o, perm)
    \/ Prepend(a, p, o, perm)
    \/ Insert(a, p, o, perm)
    \/ Add(a, p, o, perm)
    \/ ReplaceNull(a, p, o, perm)

Replacing(a) == \E o \in Objects, perm \in BOOLEAN : Replace(a, o, perm)

Removing(a) ==
  \/ \E dir \in {0, 1} : RemoveLink(a, dir)
  \/ EmptyList(a)
  \/ \E L \in Lists : Transfer(a, L)

Moving(a) ==
  \/ Start(a) \/ End(a) \/ Reset(a) \/ Next1(a) \/ Prev1(a) \/ SetFirst(a)
  \/ \E force \in BOOLEAN : Forward2(a, force) \/ Backward2(a, force)

Saving(a) ==
  \/ Save(a) \/ SaveAtEnd(a) \/ Restore(a) \/ PopSave(a) \/ EmptySave(a)
  \/ \E perm \in BOOLEAN : SetPermanent(a, perm)

Next ==
  \E a \in Lists :
    Entering(a) \/ Replacing(a) \/ Removing(a) \/ Moving(a) \/ Saving(a)

Spec == Init /\ [][Next]_vars

-----------------------------------------------------------------------------
(***************************************************************************)
(* The type invariant of the fields of links and lists.                    *)
(***************************************************************************)
TypeOK ==
  /\ next \in [Links -> Links]
  /\ prev \in [Links -> Links]
  /\ object \in [Links -> Objects \cup {Null}]
  /\ permanent \in [Links -> BOOLEAN]
  /\ first \in [Lists -> Links \cup {Null}]
  /\ link \in [Lists -> Links \cup {Null}]
  /\ list_size \in [Lists -> Nat]
  /\ save \in [Lists -> Seq(Links \cup {Null})]
  /\ home \in [Links -> Lists \cup {Null}]
  /\ freed \subseteq Objects

(***************************************************************************)
(* The links of a list form one ring: next and prev are inverse, they stay *)
(* in the list, and no part of the list is closed under next.  Free links  *)
(* are on no ring.  (_Link::AddBefore, AddAfter, unlink and the splice of  *)
(* _List::Transfer.)                                                       *)
(***************************************************************************)
TwoWay(p) == prev[next[p]] = p /\ next[prev[p]] = p
Closed(S) == \A p \in S : next[p] \in S
OneRing(a) == \A S \in SUBSET Cells(a) : S # {} /\ Closed(S) => S = Cells(a)

RingInv ==
  /\ \A p \in Links : TwoWay(p) /\ home[next[p]] = home[p]
  /\ \A p \in Free : next[p] = p
  /\ \A a \in Lists : OneRing(a)

(***************************************************************************)
(* The header of a list agrees with its ring: first and the cursor are     *)
(* links of this list (never of the list they came from by Transfer, never *)
(* deleted ones), first is null just when the list is empty, and           *)
(* list_size, which drives every loop that deletes, counts the links.      *)
(***************************************************************************)
HeaderInv ==
  \A a \in Lists :
    /\ first[a] \in Cells(a) \cup {Null}
    /\ first[a] = Null => Cells(a) = {}
    /\ link[a] \in Cells(a) \cup {Null}
    /\ list_size[a] = Cardinality(Cells(a))

(***************************************************************************)
(* No saved cursor dangles: Restore sets the cursor to a link of the list, *)
(* whatever was removed or transferred since the Save.  It needs clients   *)
(* that save a link once (SaveTwice = FALSE): Remove clears one entry.     *)
(***************************************************************************)
SavedAlive ==
  \A a \in Lists : \A i \in DOMAIN save[a] : save[a][i] \in Cells(a) \cup {Null}

(***************************************************************************)
(* Ownership: a link never holds an object that has been deleted, and an   *)
(* object a list is to delete is in no other link (a second deletion).     *)
(* (PreDeLink in Remove, Replace, Delete; Transfer moves the ownership.)   *)
(***************************************************************************)
ObjectsAlive ==
  \A p \in Links \ Free :
    /\ object[p] \in Objects \ freed
    /\ ~permanent[p] => Holders(object[p]) = {p}
=============================================================================
