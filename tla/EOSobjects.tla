----------------------------- MODULE EOSobjects ------------------------------
(***************************************************************************)
(* A program that fetches equation-of-state objects from a data base,      *)
(* converts their units, initialises them again and deletes them, and the  *)
(* EOSmanager (Manager/Subs/EOSmanager.C) that keeps an indexed list of    *)
(* them.  The objects, the cache and what every call does to them are      *)
(* EOSheap's.  The program is sequential: each call is one step.           *)
(***************************************************************************)
EXTENDS EOSheap, Sequences, FiniteSets, Functions

CONSTANTS
    Fetched,     \* blocks the program fetches with FetchEOS
    FetchedNew,  \* blocks the program fetches with FetchNewEOS
    Indexed,     \* blocks the program asks the manager for
    Targets,     \* sets of units the program converts to
    MaxHeld,     \* bound: references the program holds
    MaxIndex     \* bound: entries of the manager's list

ASSUME ProgramAssumption ==
    /\ Fetched \subseteq Blocks /\ FetchedNew \subseteq Blocks /\ Indexed \subseteq Blocks
    /\ Targets \subseteq KnownUnits

VARIABLES
    heap,        \* objects and cache
    open,        \* FALSE once the data base is being destroyed
    held,        \* references the program holds
    index,       \* the manager's array e: names and pointers
    lost         \* history: references index_eos let go of without deleteEOS

vars == <<heap, open, held, index, lost>>

TypeOK ==
    /\ heap \in Heap
    /\ open \in BOOLEAN
    /\ held \in [Objs -> Nat]
    /\ index \in Seq([name : Blocks, obj : Objs])
    /\ lost \subseteq Objs

Init ==
    /\ heap = [obj |-> [o \in Objs |-> FREE], cache |-> [b \in Blocks |-> NULL]]
    /\ open = TRUE
    /\ held = [o \in Objs |-> 0]
    /\ index = <<>>
    /\ lost = {}

\* the slots that initialising a block may take
Needed(b) == {b} \cup {c \in {PartsOf[b][1], PartsOf[b][2]} \ {NULL} : heap.cache[c] = NULL}
Room(b) == Cardinality({o \in Objs : ~Live(heap, o)}) >= Cardinality(Needed(b))

Hold(o) ==
    /\ FoldFunction(+, 0, held) < MaxHeld
    /\ held' = [held EXCEPT ![o] = @ + 1]

-----------------------------------------------------------------------------
(* The program *)

\* FetchEOS and FetchNewEOS: a reference, or NULL
Obtain(f) ==
    /\ heap' = f.heap
    /\ IF f.obj = NULL THEN UNCHANGED held
       ELSE Hold(f.obj)
    /\ UNCHANGED <<open, index, lost>>

Fetch(b)    == open /\ Room(b) /\ Obtain(FetchObj(heap, b))
FetchNew(b) == open /\ Room(b) /\ Obtain(NewObject(heap, b))

\* The program calls an object it has a reference to, or one of the manager's
\* list: EOSmanager::eos(i) hands that out without counting a reference
Usable(o) == held[o] > 0 \/ (open /\ \E i \in DOMAIN index : index[i].obj = o)

\* eos->Duplicate()
DuplicateEOS(o) ==
    /\ Usable(o)
    /\ heap' = Duplicate(heap, o)
    /\ Hold(o)
    /\ UNCHANGED <<open, index, lost>>

\* eos->ConvertUnits(units)
Convert(o, to) ==
    /\ Usable(o)
    /\ heap' = ConvertUnits(heap, o, to).heap
    /\ UNCHANGED <<open, held, index, lost>>

\* eos->Initialize(eos->Name(), db, uname)
Reinitialize(o, to) ==
    /\ open
    /\ Usable(o)
    /\ Room(heap.obj[o].name)
    /\ heap' = Initialize(heap, o, heap.obj[o].name, to).heap
    /\ UNCHANGED <<open, held, index, lost>>

\* deleteEOS(eos)
Delete(o) ==
    /\ held[o] > 0
    /\ heap' = Release(heap, o)
    /\ held' = [held EXCEPT ![o] = @ - 1]
    /\ UNCHANGED <<open, index, lost>>

-----------------------------------------------------------------------------
(* EOSmanager *)

\* Mutant: the search stops before the last entry
FindAllButLast(b, u) ==
    {i \in 1 .. Len(index) - 1 :
        index[i].name = b /\ heap.obj[index[i].obj].units = u}

\* EOS_Array::Find: the name it was added under, the units it is in now
FindIndex(b, u) ==
    {i \in DOMAIN index : index[i].name = b /\ heap.obj[index[i].obj].units = u}

\* EOSmanager::index_eos when the list does not have the material in the units:
\* an object that cannot be converted is forgotten
Add(r, o, b) ==
    /\ heap' = r.heap
    /\ IF r.ret # 0
       THEN lost' = lost \cup {o} /\ UNCHANGED index
       ELSE index' = Append(index, [name |-> b, obj |-> o]) /\ UNCHANGED lost

AddNew(f, b, u) ==
    IF f.obj = NULL THEN heap' = f.heap /\ UNCHANGED <<index, lost>>
    ELSE Add(ConvertUnits(f.heap, f.obj, u), f.obj, b)

IndexEOS(b, u) ==
    /\ open /\ Room(b)
    /\ Len(index) < MaxIndex
    /\ FindIndex(b, u) = {}
    /\ AddNew(NewObject(heap, b), b, u)
    /\ UNCHANGED <<open, held>>

-----------------------------------------------------------------------------
(* The manager goes away: its list is deleted first, then the data base it *)
(* derives from, whose ~Property gives up the cache's references one after *)
(* the other.  The program may still hold references.                      *)

Close ==
    /\ open
    /\ open' = FALSE
    /\ UNCHANGED <<heap, held, index, lost>>

\* ~EOS_Array
DropIndexed ==
    /\ ~open /\ index # <<>>
    /\ heap' = Release(heap, Head(index).obj)
    /\ index' = Tail(index)
    /\ UNCHANGED <<open, held, lost>>

\* ~Property
DropCached(b) ==
    /\ ~open /\ index = <<>>
    /\ heap.cache[b] # NULL
    /\ heap' = Release([heap EXCEPT !.cache[b] = NULL], heap.cache[b])
    /\ UNCHANGED <<open, held, index, lost>>

Next ==
    \/ \E b \in Fetched : Fetch(b)
    \/ \E b \in FetchedNew : FetchNew(b)
    \/ \E o \in Objs : DuplicateEOS(o) \/ Delete(o)
    \/ \E o \in Objs, to \in Targets : Convert(o, to)
    \/ \E o \in Objs, to \in Targets \cup {NULL} : Reinitialize(o, to)
    \/ \E b \in Indexed, u \in Targets : IndexEOS(b, u)
    \/ Close
    \/ \E b \in Blocks : DropCached(b)
    \/ DropIndexed

Spec == Init /\ [][Next]_vars

-----------------------------------------------------------------------------
(* Properties *)

Owners(o) == {r \in Objs \X {1, 2} : Live(heap, r[1]) /\ heap.obj[r[1]].part[r[2]] = o}

References(o) ==
    held[o] + Cardinality({b \in Blocks : heap.cache[b] = o}) + Cardinality(Owners(o))
    + Cardinality({i \in DOMAIN index : index[i].obj = o})
    + (IF o \in lost THEN 1 ELSE 0)

\* The reference count of an object is the number of references to it: those
\* of the program, of the cache, of the composites it is a component of and of
\* the manager's list.  So nothing refers to a destroyed object, and an object
\* nobody refers to is destroyed, whichever call failed half way (EOSbase.C's
\* deleteEOSbase, Duplicate and ~EOSbase; NewObject's and InitParams' returns).
RefCounts ==
    \A o \in Objs :
        /\ Live(heap, o) => heap.obj[o].ref > 0
        /\ References(o) = IF Live(heap, o) THEN heap.obj[o].ref ELSE 0

\* The numbers of an object whose status is good are in the units it names,
\* even after conversions that gave up half way (EOSbase::ConvertUnits).
GoodNumbers ==
    \A o \in Objs : Live(heap, o) =>
        (heap.obj[o].status = "good" => heap.obj[o].numbers = heap.obj[o].units)

\* A composite only one object of which is made and whose components nothing
\* else fetches
Exclusive(b) ==
    /\ IsComposite(b)
    /\ b \notin FetchedNew \cup Indexed
    /\ \A i \in {1, 2} :
           /\ PartsOf[b][i] \notin Fetched
           /\ \A c \in Blocks \ {b} : PartsOf[b][i] \notin {PartsOf[c][1], PartsOf[c][2]}

\* A composite in good status is in the same units as its components, if its
\* components are its own: initialisation and conversion keep them together.
\* (FetchEOS hands every composite the same component, so a component of two
\* composites follows whichever was converted last.)
Coherent ==
    \A o \in Objs : Live(heap, o) =>
        LET x == heap.obj[o]
        IN  Exclusive(x.name) /\ x.status = "good" /\ x.units # NULL =>
                \A i \in {1, 2} : heap.obj[x.part[i]].units = x.units

\* Pairs of objects of the manager's list under the same name, in the same units
Twins ==
    {r \in Objs \X Objs :
        \E i, j \in DOMAIN index :
            /\ i # j /\ index[i].name = index[j].name
            /\ r = <<index[i].obj, index[j].obj>>
            /\ heap.obj[r[1]].units = heap.obj[r[2]].units}

\* Two entries of the manager's list come to be of one name and in the same units
\* only by the program's own call of one of the two, eos(i).ConvertUnits or
\* eos(i).Initialize: index_eos adds no second object for a name and units the
\* list has, and no call of another object, no fetch and no deletion moves an
\* object of the list to other units (EOS_Array::Find, index_eos and FetchNewEOS
\* in EOSmanager.C).
IndexUnique ==
    [][\A r \in Twins' \ Twins : \E o \in {r[1], r[2]} :
           \/ \E to \in Targets : Convert(o, to)
           \/ \E to \in Targets \cup {NULL} : Reinitialize(o, to)]_vars

\* The numbers of an object and of its components
NumbersOf(o) ==
    LET x == heap.obj[o]
    IN  <<x.numbers, [i \in {1, 2} |-> IF x.part[i] = NULL THEN NULL
                                        ELSE heap.obj[x.part[i]].numbers]>>

\* "1 = error, unchanged" (EOSbase.h): a ConvertUnits that returns 1 has not
\* changed a number of the object or of its components.
ErrorLeavesUnchanged ==
    [][\A o \in Objs, to \in Targets :
           Convert(o, to) /\ ConvertUnits(heap, o, to).ret = 1
               => NumbersOf(o)' = NumbersOf(o)]_vars
=============================================================================
