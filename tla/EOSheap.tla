------------------------------- MODULE EOSheap -------------------------------
(***************************************************************************)
(* The equation-of-state objects and the data base's cache of them, as     *)
(* operators on a heap:                                                    *)
(*   EOS/SubsBase/EOSbase.C, BaseInitialize.C, BaseConvert.C               *)
(*   EOS/SubsVe/EOS.C (the numbers every EOS has: V_ref, e_ref, P_vac)     *)
(*   DataBase/Subs/FetchObj.C (FetchObj, FetchNewObj, NewObject)           *)
(* and the two ways a composite EOS converts its components:               *)
(*   Elastic1D     ExtEOStypes/Elastic1D/SubsElastic/Elastic1D.C           *)
(*   PTequilibrium EOStypes/PTequilibrium/Subs/PTequilibrium.C             *)
(*                                                                         *)
(* A heap is a record: obj says what each object slot holds, cache which   *)
(* object the data base keeps for each block.  The numbers of an object    *)
(* are abstracted to the set of units they are expressed in.               *)
(***************************************************************************)
EXTENDS Integers, FiniteSets

CONSTANTS
    Objs,        \* object slots (the bound on live objects)
    Blocks,      \* parameter blocks of the data base, "base:type::name"
    KindOf,      \* the class a block's type constructs
    PartsOf,     \* the two component blocks a composite block names
    UnitsOf,     \* the units of a block, or NULL when it names none
    KnownUnits,  \* the sets of units the data base has
    UnitType,    \* the type of a set of units ("hydro", ...)
    NoBase,      \* sets of units without V, e or P: EOS::ConvertParams refuses
    NoOwn,       \* <<block, units>>: the class's own quantity has no factor
    Unparsed,    \* blocks whose parameters InitParams refuses
    NoRefState,  \* blocks without a reference state
    NULL, FREE

Kinds    == {"simple", "Elastic1D", "PTequilibrium"}
Statuses == {"good", "bad", "fail", "abort"}
MIXED    == "mixed"       \* numbers some of which were rescaled
UNSET    == "unset"       \* numbers InitParams did not set

ASSUME FiniteAssumption == IsFiniteSet(Objs) /\ IsFiniteSet(Blocks)

ASSUME BlocksAssumption ==
    /\ KindOf \in [Blocks -> Kinds]
    /\ PartsOf \in [Blocks -> (Blocks \cup {NULL}) \X (Blocks \cup {NULL})]
    /\ \A b \in Blocks : \A i \in {1, 2} :
           PartsOf[b][i] # NULL => KindOf[PartsOf[b][i]] = "simple"
    /\ \A b \in Blocks : KindOf[b] = "simple" => PartsOf[b] = <<NULL, NULL>>

ASSUME NullAssumption ==
    /\ NULL \notin Objs \cup Blocks \cup KnownUnits \cup {MIXED, UNSET}
    /\ {MIXED, UNSET} \cap KnownUnits = {}

Object == [name    : Blocks,
           units   : KnownUnits \cup {NULL},
           numbers : KnownUnits \cup {NULL, MIXED, UNSET},
           status  : Statuses,
           ref     : Nat,
           part    : (Objs \cup {NULL}) \X (Objs \cup {NULL})]

ASSUME FreeAssumption == FREE \notin Object

Heap == [obj : [Objs -> Object \cup {FREE}], cache : [Blocks -> Objs \cup {NULL}]]

Live(h, o)       == h.obj[o] # FREE
Put(h, o, x)     == [h EXCEPT !.obj[o] = x]
IsComposite(b)   == KindOf[b] # "simple"
Returns(h, n)    == [heap |-> h, ret |-> n]

-----------------------------------------------------------------------------
(* Reference counts *)

\* EOSbase::Duplicate
Duplicate(h, o) == [h EXCEPT !.obj[o].ref = @ + 1]

\* deleteEOSbase: the last reference destroys the object
Drop(h, o) == IF h.obj[o].ref = 1 THEN Put(h, o, FREE)
              ELSE [h EXCEPT !.obj[o].ref = @ - 1]

\* deleteEOS(p) of a component: p may be NULL
DropPart(h, o) == IF o = NULL THEN h ELSE Drop(h, o)

\* Mutant: the destructor of a composite releases its first part only
ReleaseFirst(h, o) ==
    LET x == h.obj[o]
    IN  IF x.ref = 1 THEN DropPart(Drop(h, o), x.part[1]) ELSE Drop(h, o)

\* deleteEOS of any object: the destructor of a composite releases its parts
Release(h, o) ==
    LET x == h.obj[o]
    IN  IF x.ref = 1 THEN DropPart(DropPart(Drop(h, o), x.part[1]), x.part[2])
        ELSE Drop(h, o)

-----------------------------------------------------------------------------
(* Conversion of units.  Every operator returns the heap and the status.   *)

\* EOS::ConvertParams: the numbers every EOS has; those of the class still have
\* to follow
BaseParams(h, o, from) ==
    IF from \in NoBase THEN Returns(h, 1)
    ELSE Returns(Put(h, o, [h.obj[o] EXCEPT !.numbers = MIXED]), 0)

\* ... the numbers of the class itself, unless it lacks a factor for one; was
\* are the units all of them were in before
ClassParams(r, o, was, from, to) ==
    LET x == r.heap.obj[o]
    IN  IF r.ret # 0 THEN r
        ELSE IF <<x.name, from>> \in NoOwn THEN Returns(r.heap, 1)
        ELSE Returns(Put(r.heap, o, [x EXCEPT !.numbers =
                                        IF was = from THEN to ELSE MIXED]), 0)

\* the ConvertParams of a class: one after the other
OwnParams(h, o, from, to) ==
    ClassParams(BaseParams(h, o, from), o, h.obj[o].numbers, from, to)

\* EOSbase::ConvertUnits(Convert&) looks at the object before ConvertParams
Refuses(x, from, to) ==
    \/ x.status # "good"
    \/ UnitType[from] # UnitType[to]
    \/ x.units \notin {from, to}

\* Mutant: a conversion that fails leaves the status alone
FinishQuietly(r, o, to) ==
    IF r.ret # 0 THEN r
    ELSE Returns(Put(r.heap, o, [r.heap.obj[o] EXCEPT !.units = to]), 0)

\* ... and after it: "failed, unchanged", "failed, fatal" or the new units
Finish(r, o, to) ==
    LET x == r.heap.obj[o]
    IN  IF r.ret > 0 THEN Returns(Put(r.heap, o, [x EXCEPT !.status = "fail"]), 1)
        ELSE IF r.ret < 0 THEN Returns(Put(r.heap, o, [x EXCEPT !.status = "bad"]), -1)
        ELSE Returns(Put(r.heap, o, [x EXCEPT !.units = to]), 0)

ConvertSimple(h, o, from, to) ==
    LET x == h.obj[o]
    IN  IF Refuses(x, from, to) THEN Returns(h, 1)
        ELSE IF x.units = to THEN Returns(h, 0)
        ELSE Finish(OwnParams(h, o, from, to), o, to)

\* the || of ConvertParams: the next conversion runs when the last one succeeded
ThenSimple(r, o, from, to) ==
    IF r.ret # 0 THEN r ELSE ConvertSimple(r.heap, o, from, to)
ThenOwn(r, o, from, to) ==
    IF r.ret # 0 THEN r ELSE OwnParams(r.heap, o, from, to)

Truth(r, n) == Returns(r.heap, IF r.ret # 0 THEN n ELSE 0)

\* Elastic1D::ConvertParams: the components first, any failure is a 1
Elastic1DParams(h, o, from, to) ==
    LET part == h.obj[o].part
    IN  IF NULL \in {part[1], part[2]} THEN Returns(h, 1)
        ELSE Truth(ThenOwn(ThenSimple(ConvertSimple(h, part[1], from, to),
                                      part[2], from, to), o, from, to), 1)

\* PTequilibrium::ConvertParams: the numbers every EOS has, the components, and
\* then the mixture's own; any failure is a -1
PTequilibriumParams(h, o, from, to) ==
    LET part == h.obj[o].part
    IN  Truth(ClassParams(ThenSimple(ThenSimple(BaseParams(h, o, from),
                                                part[1], from, to),
                                     part[2], from, to),
                          o, h.obj[o].numbers, from, to), -1)

ConvertComposite(h, o, from, to) ==
    LET x == h.obj[o]
    IN  IF Refuses(x, from, to) THEN Returns(h, 1)
        ELSE Finish(IF KindOf[x.name] = "Elastic1D"
                    THEN Elastic1DParams(h, o, from, to)
                    ELSE PTequilibriumParams(h, o, from, to), o, to)

\* EOSbase::ConvertUnits(Units&)
ConvertUnits(h, o, to) ==
    LET x == h.obj[o]
    IN  IF x.units = NULL THEN Returns(h, 1)
        ELSE IF x.units = to THEN Returns(h, 0)
        ELSE IF IsComposite(x.name) THEN ConvertComposite(h, o, x.units, to)
        ELSE ConvertSimple(h, o, x.units, to)

-----------------------------------------------------------------------------
(* Initialisation and the data base's cache *)

\* Mutant: the reference of the caller of the constructor is not counted
ConstructUncounted(b) ==
    [name |-> b, units |-> NULL, numbers |-> UNSET, status |-> "bad", ref |-> 0,
     part |-> <<NULL, NULL>>]

\* the constructor: no name yet but the block's, nothing initialised
Construct(b) == [name |-> b, units |-> NULL, numbers |-> UNSET, status |-> "bad",
                 ref |-> 1, part |-> <<NULL, NULL>>]

FreeSlot(h) == CHOOSE o \in Objs : ~Live(h, o)

\* EOSbase::Initialize up to InitBase: the status, the name and the units
SetUnits(h, o, b) ==
    LET known == UnitsOf[b] \in KnownUnits \cup {NULL}
    IN  Returns([h EXCEPT !.obj[o].name = b,
                          !.obj[o].status = "bad",
                          !.obj[o].units = IF known THEN UnitsOf[b] ELSE NULL],
                IF known THEN 0 ELSE 1)

\* EOS::InitBase after InitParams: the reference state, and Initialize's good
SetRefState(r, o, b) ==
    LET x == r.heap.obj[o]
    IN  IF r.ret # 0 THEN r
        ELSE IF b \in NoRefState
             THEN Returns(Put(r.heap, o, [x EXCEPT !.status = "bad"]), 1)
             ELSE Returns(Put(r.heap, o, [x EXCEPT !.status = "good",
                                                   !.numbers = x.units]), 0)

\* EOS::InitBase and an InitParams that sets numbers only
InitSimple(r, o, b) ==
    LET x == [r.heap.obj[o] EXCEPT !.status = "abort", !.numbers = UNSET]
    IN  IF r.ret # 0 THEN r
        ELSE SetRefState(Returns(Put(r.heap, o, x), IF b \in Unparsed THEN 1 ELSE 0), o, b)

\* EOSbase::Initialize(Parameters&, DataBase*, Units*) of a simple object
InitializeSimple(h, o, b) == InitSimple(SetUnits(h, o, b), o, b)

\* DataBase::NewObject: an object whose initialisation fails is destroyed
Constructed(r, o) ==
    IF r.ret = 0 THEN [heap |-> r.heap, obj |-> o]
    ELSE [heap |-> Release(r.heap, o), obj |-> NULL]

NewSimple(h, b) ==
    LET o == FreeSlot(h)
    IN  Constructed(InitializeSimple(Put(h, o, Construct(b)), o, b), o)

\* DataBase::FetchObj: make the object once, then hand out references to it
Share(n, b) ==
    IF n.obj = NULL THEN n
    ELSE [heap |-> Duplicate([n.heap EXCEPT !.cache[b] = n.obj], n.obj), obj |-> n.obj]
Cached(h, b) == [heap |-> h, obj |-> h.cache[b]]

FetchSimple(h, b) ==
    IF b = NULL THEN [heap |-> h, obj |-> NULL]
    ELSE Share(IF h.cache[b] # NULL THEN Cached(h, b) ELSE NewSimple(h, b), b)

\* InitParams of a composite fetches a component and puts it into its own
\* units, if it has any
SetPart(f, o, i) == [f EXCEPT !.heap.obj[o].part[i] = f.obj]

\* Mutant: the component stays in the units it happens to be in
LeavePart(f, o) == Returns(f.heap, IF f.obj = NULL THEN 1 ELSE 0)

MatchPart(f, o) ==
    LET u == f.heap.obj[o].units
    IN  IF f.obj = NULL THEN Returns(f.heap, 1)
        ELSE IF u = NULL THEN Returns(f.heap, 0)
        ELSE Truth(ConvertUnits(f.heap, f.obj, u), 1)

FetchPart(r, o, i, b) ==
    IF r.ret # 0 THEN r ELSE MatchPart(SetPart(FetchSimple(r.heap, b), o, i), o)

\* EOS::InitBase and InitParams of Elastic1D or PTequilibrium: the components
\* of an earlier initialisation go first
InitComposite(r, o, b) ==
    LET x  == r.heap.obj[o]
        h0 == DropPart(DropPart(r.heap, x.part[1]), x.part[2])
        h  == Put(h0, o, [x EXCEPT !.part = <<NULL, NULL>>, !.numbers = UNSET,
                                   !.status = "abort"])
    IN  IF r.ret # 0 THEN r
        ELSE IF b \in Unparsed THEN Returns(h, 1)
        ELSE SetRefState(FetchPart(FetchPart(Returns(h, 0), o, 1, PartsOf[b][1]),
                                   o, 2, PartsOf[b][2]), o, b)

InitBase(r, o, b) ==
    IF IsComposite(b) THEN InitComposite(r, o, b) ELSE InitSimple(r, o, b)

ThenConvert(r, o, to) ==
    IF r.ret # 0 \/ to = NULL THEN r ELSE ConvertUnits(r.heap, o, to)

\* EOSbase::Initialize; to is NULL or the units the caller wants
Initialize(h, o, b, to) == ThenConvert(InitBase(SetUnits(h, o, b), o, b), o, to)

NewObject(h, b) ==
    LET o == FreeSlot(h)
    IN  Constructed(Initialize(Put(h, o, Construct(b)), o, b, NULL), o)

FetchObj(h, b) ==
    Share(IF h.cache[b] # NULL THEN Cached(h, b) ELSE NewObject(h, b), b)
=============================================================================
