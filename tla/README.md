# A verification development for EOSlib

EOSlib is a C++ library of equations of state for hydrodynamics codes. A host
code keeps a data base of materials, asks it for an equation of state (EOS) by
`type::name`, and then calls the EOS, its isentropes and Hugoniot loci, which are
computed by an ODE integrator and root finders. Everything runs in one thread:
there are no messages, locks or timers. What is hard is the *sequencing* of
calls on shared, pointer-linked, cached state: cursors that outlive what they
point at, caches that outlive what they were built from, files that include each
other, owners that change, loops whose exit conditions compare floating-point
times, and some seventy classes that each initialize and convert their own numbers.

Paths below are relative to the library's directory, `src/` of the repository
(in PROJECT.json, where the repository itself is `src/`, they start with `src/src/`).

## 1. Inventory

| component | state | operations | what must hold | modelled |
|---|---|---|---|---|
| `_List`, `LIST` (CClib/LinkList) | ring of links, `first`, cursor `link`, `list_size`, stack of saved cursors, `permanent` flags | Append, Prepend, Insert, Add, Replace, Remove, Delete, Transfer, moves of the cursor, Save, SaveAtEnd, Restore, PopSave | one ring per list, header agrees with ring, saved cursors alive, each owned object deleted once | `LinkList` |
| FIFO, FILO (List.h) | the list under them, an error count | `<<`, `>>`, Peek, Unget | queue and stack order, ownership handed over by `>>` | no |
| ReferenceList | hash table of sublists: a tag, and the list of the objects that have it | Enter, EnterRef, Get, GetAnd, GetOr, Delete | an object is in the sublist of each of its tags and in no other; GetAnd and GetOr are intersection and union | no |
| NameArray | hash table of sorted buckets, last name and entry | Get, Replace, Delete, SetTable, SetHashFunction | a map, for every hash function and history | no |
| `_Array`, `_PointerArray` | blocks of doubling size | `+=`, `[]`, get, Xget, ReAlloc | an index keeps its element, no read outside a block | no |
| OneDFunctionI | bracket x0, x1, y0, y1, cycles, status | inverse, PRE_ZERO, PRE_CONDITION, ZERO | a reported bracket brackets the goal; the search stays inside and ends | `OneDFunctionI` |
| OneDFunction | the same with doubles | inverse, zero, min | as above, to a tolerance | no |
| Spline, H_Interp | knots | Evaluate | the right interval is used | no |
| ODE | ring `Cache` of steps, lists `Initial` (outer states) and `Stops`, `dir`, `t_last` | Initialize, Integrate(t), Integrate(f, val), Forward, Backward, stop switches | the ring is one run of steps; an answer lies on the step that contains its time; no stop is passed; every call returns | `ODE` |
| Calc | variables, token stream | expressions, assignments | a failing line changes nothing it has not reached | no |
| DataBase: files | blocks by key, names of files read, stack of open files, list being read | Read, read, `.include`, `.base`, `.units`, NEW, ADD, REPLACE, EXIST | a file is read once, `.base` and `.units` stay in their file, a Read that succeeded loaded everything | `DBread` |
| DataBase: `:use` | blocks taken apart and rebuilt in place, by recursion to five levels | Use, FetchParams, FetchObj, FetchNewObj | a block never changes what it stands for; the expansion ends, and never adds a block to itself | `DBuse`, `DataBase` |
| EOSbase, EOS as objects | reference count, status, units, components; one cached object per block | FetchEOS, Duplicate, Initialize, ConvertUnits, deleteEOS | deleted exactly with the last reference; the numbers are in the units the object names; composite and components agree | `EOSheap`, `EOSobjects` |
| EOSmanager | array of (name, EOS), default units | index_eos, Find, destructor | one entry per material and units | `EOSobjects` |
| EOS and EOS_VT as functions | the reference state and the coefficients of the class, the view in the other variables | InitParams, ConvertParams, P, T, S, c2, e_PV, ... | nothing is computed from a number never set; after ConvertUnits every function answers in the new units | `EOSbasics`, `EOSclasses`, `ConvertUnits` |
| concrete EOSs (EOStypes): Davis, IdealGas, StiffenedGas, Hayes, GenHayes, JWL, HEfit, MieGruneisen, porous, mixtures | coefficients, components, splines, integrators | the same | the same | one module per family |
| wave curves: isentrope, isotherm, shock, detonation, deflagration, polars | the state ahead, the direction | P, V, u, u_s of a curve | the documented status; every field of the wave set, in its unit, direction and frame | `EOScurves`, `EOSdetonation` and the classes' own |
| ExtEOS, HEburn and reaction rates, elastic and plastic solids | internal degrees of freedom, a component EOS and a rate | the same, zdot, TimeStep, Integrate | the same | `HEburnEOS`, `HErates`, `HotSpotRates`, `ElasticEOS`, `PlasticEOS` |
| Units, Convert | tables of factors with reference counts | Initialize, factor, convert | a quantity has a factor or is known to have none | `Dimensions` |
| Riemann solver; ExtEOSmanager; 3D plasticity; ideal HE; DnKappa; Applications | | | | no, section 6 |

How they interact: the lists are the data structure under `ODE` (`Initial`,
`Stops`), `NameArray` and `ReferenceList`. `ODE` and `OneDFunction` are base
classes whose virtual functions (`F`, `StopCondition`, `f`) the EOS curves
supply. `DataBase` constructs EOS objects through constructors it finds in
shared libraries and keeps one object per parameter block, whose `:use`
directives it expands first; the `InitParams` of
a composite EOS calls `FetchEOS` on the same data base again. `EOSmanager` *is* a
`DataBase` with a list of its own on top, and is destroyed list first.
`ConvertUnits` of an EOS runs down the class hierarchy and the components; the
curves and the integrators that hold numbers of the EOS have to be told, or dropped.

Hard behaviours, by kind (the list with lines is `hazards` in PROJECT.json):

- *protocol sequences*: removing the linked, first or saved link in any order of
  calls; re-initialising an EOS that others hold; owners that go in any order;
  parameters left out of a block in any combination;
- *stale state*: `Stops` and its cursor against `t_last` and the direction; a
  shared component converted under another owner; a list keyed by units an
  object may leave; a kept object whose block is replaced; numbers that a conversion does not reach;
- *partial failure*: a step that fails after part of the ring was written; a
  function that fails at a trial point; a file that fails after it was marked as read; an
  expansion of `:use` that fails half way; a composite of which one component converts
  and the next refuses;
- *ordering*: which of several levels of `:use` was expanded before; stops found again by a restart;
- *numeric edges*: times exactly on an entry, steps rounded to 0, marks passed, states beyond the vacuum;
- *liveness*: loops that end only by their goal or a count; files and blocks that refer to each other.

## 2. Plan

Order of work; the most important shared state comes first.

| step | module | state of it |
|---|---|---|
| 1 | `LinkList`, abstract `CursorList`, proofs `LinkListProofs` and `CursorListProofs` | done |
| 2 | `ODE` on the list operators of `CursorOps` | done |
| 3 | `OneDFunctionI`, proofs `OneDFunctionIProofs` | done |
| 4 | `EOSheap` (objects, cache) and `EOSobjects` (program and manager on it) | done for simple EOSs and two kinds of composites |
| 5 | `DBread`, `DBuse` and `DataBase`: reading files, storing blocks, expanding `:use` with an explicit stack, and the kept objects; proofs `DataBaseProofs` | done |
| 6 | `Dimensions`, `EOSbasics`, the wave curves, a module per family of classes, `EOSclasses` and `ConvertUnits` | done for 79 classes and variants of classes |
| 7 | proofs: `EOSheapProofs` and `EOSobjectsProofs`; `ReadsComplete` and `DBuseProofs` of `DataBase`; `ODEProofs` | done |
| 8 | `ReferenceList` and `NameArray` on the operators of `CursorOps`, against a relation from tags to objects and a function from names to entries | to do |
| 9 | further classes of `ConvertUnits`: the Riemann solver, 3D elastic-plastic, ideal HE, DnKappa | to do |
| 10 | nested composites in `EOSobjects` (a stack of calls), ExtEOSmanager | to do |

Small components share a module and a run where they share a question, so
that the number of runs stays small: all the classes are one run, `ConvertUnits`.

## 3. Modules and how they correspond to the code

### CursorOps, CursorList, LinkList: CClib/LinkList/List.h, Subs/List.C

`CursorOps` gives the list operations as operators on a record `[items, cur]`:
a sequence and the position of the cursor, 0 for the null pointer. `CursorList` is the
abstract specification: lists of links with a cursor and a stack of saved
cursors, one action per call. `ODE` uses the same operators for its lists.

`LinkList` is the pointer structure: `next`, `prev`, `object`, `permanent` of
every link, `first`, `link`, `list_size` and the save stack of every list.
Several lists share one heap because `Transfer` moves links between them. An
action is a whole call: `RemoveLink` searches the save stack, unlinks, deletes
the object if the list owns it, and moves `first` and the cursor.
`home` and `freed` are ghosts: the list a link belongs to, and the objects that
were deleted. The save stack, a ring of links in the code, is a sequence.
`Get(i, 1, force)` is taken for i = 2 and -2, the shortest walks that meet the mark
of the first link at each of their steps; `Next` and `Prev` are i = 1 and -1.
Clients are constrained as the class comments require: an object is
given to a list as its own only once, and no deleted object is entered.

### ODE: CClib/ODE

The variables are the members of the class: `Cache` with `cach0`, `cach1` and
`cache`; `Initial`, `t_min`, `t_max`; `Stops`; `dir`, `n_steps`, `t_last`,
`IgnoreStop`. `Integrate(t)`, `Forward(t)` and `Backward(t)` share their cases,
one action each: a known stop (`StopAtKnown`), `Extend` the ring, answer `Within`
it, `KeepRing` over the next outer state, `Restart` from a saved one. Each case
that steps starts a loop (`call`); `OneStep` is one iteration, with the whole of
`Step` in it: the ring, the save of an outer state every `CacheStep` steps, the
search of a stop. `ans` is a ghost: what the call returned and the step it was
interpolated on.

`Integrate(f, val)` is the operation `Find`. A function f that is monotone along
the solution is known by the time at which it takes the value looked for, so the
request is that time; the search for it within a step is `OneDFunction`'s. With known stops the code first asks for the
state at `t_last` (`Recall`), which is a call of `Integrate(t)` of its own, and goes
on with what that call left (`FindValue`); if it fails, the workspace it read is
any time (`LastValues`). `Find` asks `Step` for an infinite time (`StepTo`).

Times are integers in units of `dt_min`, and the state at t is a function of
t, so an entry is known by its time. The numerics are parameters: the longest
step the error norm accepts (`MaxStep`), where F can be evaluated (`Tmin`, `Tmax`),
where the stop condition vanishes (`Zeros`) and where it is not finite (`BadStops`): a step that meets such
a value fails after the ring and `n_steps` were advanced, and saves no outer state
(Step.C:93). `FailLate` chooses where F fails:
while the step is tried, or at its accepted end. The stop condition of a ring slot
never written is nondeterministic. `Initialize` with an estimate tries one step (`TrialStep`) and, when its
error is small, longer ones, each half of the last, until one is taken (`LongerStep`). `IgnoreStop` can be switched by the client
between any two calls.

### OneDFunctionI: CClib/OneDFunction/OneDFunction.h, Subs/zeroI.C

One action for each phase of `inverse`: `PRE_ZERO` evaluates f at the ends,
`PRE_CONDITION` orders the limits and uses the guess, `ZERO` is one cycle of the loop.
The function is any element of `Functions` with a set of arguments where it
fails. The integer arithmetic is the code's: truncated center, `round_up`, the step
of Newton's method on the quadratic through three points. Its quotients are
doubles in the code; here they are exact.

### ParamBlocks, DBread, DBuse, DataBase: DataBase

`ParamBlocks` has the blocks (`Parameters`): units and a sequence of entries, a parameter with its value
or the name of another block (`:use`). A key is a base and a name; all blocks
of the model have one type.

`DBread` is `DataBase::Read`. A file is a script of statements, which the scanner
(`DataFile`) delivers; the open files are the stack `vars` of `DBvars`. One action
per statement: `Include` opens a file unless its name is in `Files`, with the
fallback to EOSLIB_DATA_PATH; `SetBase` and `SetUnits` change the innermost frame only;
`StoreParameters` does NEW, ADD, REPLACE or EXIST; a statement that does not
parse, a missing file and a block that exists already set `status`, with which `CloseFile`
takes down every open file.

`DBuse` is the recursion of `Use` as a stack of calls. A call transfers the entries of
its block to `old`, leaving the block empty, and copies them back one by one; a directive
that names a block is first appended, then the named block is expanded by an inner call,
and its entries replace the directive. So while the recursion runs, blocks
are partly rebuilt, and an inner call may meet them.

`DataBase` joins the two with the fetches: `NotFound`, the kept object (`Kept`), `NotLoaded` (the
class is not in any library), `Expand` and, after it, what was made of the
block. An object is known by the entries it was made from. `promise` and
`failed` are history variables: what could be expanded and what every block stood for when
the fetch began, and whether some Read failed. `Meaning` is the definition of `:use` that
the code never computes: the entries with every directive replaced by what the named block stands for.

### EOSheap, EOSobjects: EOS, DataBase/Subs/FetchObj.C, Manager

`EOSheap` has no variables: a heap is a record of objects and of the data
base's cache, and each call of the library is an operator from heap to heap and
status. An object has its block's name, units, status, reference count and two
components. Its numbers are abstracted to the units they are expressed in: `MIXED` when
only some were rescaled, `UNSET` before they are read. The causes of failure are parameters:
units the data base does not have, units without V, e or P (`NoBase`), a
quantity of one class without a factor (`NoOwn`), parameters that do not parse
(`Unparsed`), a missing reference state (`NoRefState`).

`ConvertUnits` keeps the order of the code: what the object refuses at once,
which components are converted before which numbers, what a failure leaves
behind. Two composites stand for the two orders in the library: `Elastic1D`
converts components first and reports every failure as 1, `PTequilibrium`
the reference state of its base class first, then the components, then the factors and numbers of
the mixture, and reports every failure as -1. Components are simple
EOSs.

`EOSobjects` is a program that fetches, duplicates, converts, re-initialises and
deletes EOSs. What it may use (`Usable`) is what it holds a reference to and what the manager's list
hands out by `eos(i)` (EOSmanager.h:57), so an object of the list may be converted or re-initialised behind the back of `Find`,
which compares the units an object is in now. The module has also `index_eos` and the manager's list; and the end: the
manager's list is deleted, then the blocks of the data base give up their
objects in any order, while the program may still hold references. `lost` is a
history variable: the references `index_eos` forgets (see section 7).

### Dimensions, EOSbasics, the families, EOSclasses, ConvertUnits

The numbers of an equation of state cannot be enumerated, but what goes wrong with
them in this code can: a coefficient that InitParams did not set, a term that
ConvertParams forgot, a tolerance that is compared with a pressure. So a number is abstracted
to *the unit it is held in* (`Dimensions`): the product of powers of the factors of L, m, t and T
it has been multiplied by since Initialize, plus the sign it takes when left and right are
exchanged and the number of times it contains the speed of the observer. `Unset` is a number never
assigned, `Bad` the sum or comparison of two different units, `Free` a literal. A C++ expression
becomes the same expression on units: `++` for sums, differences and joins of paths, `**`, `//`, `^^` for products, quotients and
powers, `Guard` for the comparisons made on the way. Before a conversion every number is
`One`; after one that scales every member rightly, every function
answers with exactly its own unit (`Answers` in `EOSbasics`). Where it does not, some path of the code mixes
numbers of both systems of units.

- `EOSbasics`: what a caller gets from a virtual function, the defaults that EOS and EOS_VT
  compute from the others, and the kinds of statements InitParams and ConvertParams are made of:
  `Need` a parameter or fail, `Put` a member, `Solve` an iteration that may fail, `Factors` that may
  be missing, `Scale` a member, convert a `Part`, and so on.
- `EOScurves`, `EOSdetonation`: the wave curves. The value of a function of a curve is the set of
  outcomes its paths have: the status returned, where on the curve the wave was set, and
  whether every field has its unit, direction and frame.
- `DavisEOS`, `IdealGasEOS`, `StiffenedEOS`, `HayesEOS`, `GenHayesEOS`, `JWLEOS`,
  `HEfitEOS`, `MieGruneisenEOS`: for each class the members as the constructor leaves them (`_start`), the statements
  of InitParams (`_init`) and ConvertParams (`_convert`), and the functions.
- `PTequilibriumEOS`, `PorousEOS`: composites. A component has units of its own, and a call takes
  and gives numbers in them. `Phi0`, `Phi1` and `EC` are taken a second time as objects that have
  been converted before ("again"), because that conversion keeps a running factor.
- `HErates`, `HotSpotRates`, `HEburnEOS`, `ElasticEOS`, `PlasticEOS`: reaction rates, explosives that own one, extended EOSs
  in equilibrium, elastic and plastic solids. `HotSpotRateCC` is taken with and without its parameter `fn`.
- `EOSclasses` says which constructor, InitParams, ConvertParams and functions belong to which class.
- `ConvertUnits` is the one state machine: a block that may leave parameters out, the statements of InitParams
  one by one, use of the object (which may create the view in the other variables, or fill an integrator),
  and the statements of ConvertParams, in units where some quantities may
  have no factor. Outcomes that depend on values are nondeterministic.

The code is sequential, so an action is a whole call wherever nothing can run
between its steps.

## 4. Runs

Passing runs. Together they fire every action and every disjunct of the next-state
relations.

| run | shows | distinct states |
|---|---|---|
| `LinkList` | in any order of calls on two lists: types, rings (`RingInv`), headers (`HeaderInv`), saved cursors (`SavedAlive`), ownership (`ObjectsAlive`), and that the pointers implement `CursorList` step by step (`ImplementsCursorList`) | 6108, up to symmetry |
| `ODE_stops` | default ring of two entries, one stop, a stop condition that is not finite, a first step without an estimate or to the end of F's domain, stops ignored and heeded again, requests on, between and beyond the steps, on the limit of F's domain and beyond it, by time and by value: Forward and Backward return the natural stop (`NaturalStop`), a call that heeds stops and finds the cursor of `Stops` in step with `t_last` passes none (`NoMissedStop`), every call returns (`CallReturns`) | 192109 |
| `ODE_ring` | eight entries, an outer state every three steps, trial steps, a ring carried over into the next outer interval over a retrace of the last one, by Integrate, Forward, Backward and Find, steps that fail after they were accepted: the ring is one run of steps (`RingContiguous`), answers lie on finished steps (`AnswerOnStep`), outer states stay ordered (`OuterSorted`), and `ODE_BUG` is returned only for a time that the ring already holds, by a call that retraced to the last outer state (`NoBug`) | 460905 |
| `OneDFunctionI` | functions that rise, fall, jump and fail: a bracket reported OK is one (`Refined`), the ends never leave the bracket (`Narrowing`), cycles are bounded (`CyclesBounded`), the search ends (`SearchEnds`) | 53810 |
| `EOSobjects` | simple and composite EOSs with failing conversions and initialisations: reference counts (`RefCounts`), units of the numbers (`GoodNumbers`), composites in step with their components (`Coherent`), two entries of the manager's list get the same material and units only when the program itself converts or re-initialises one of the two (`IndexUnique`) | 299810 |
| `DataBase` | files that include each other, fail, or are found through EOSLIB_DATA_PATH, and blocks that use each other in chains, cycles and through missing blocks: nothing is opened twice (`OpenOnce`), `.base` and `.units` stay in their file (`IncludeScope`), a Read that succeeded loaded everything (`ReadComplete`), Use succeeds where it can and fails where it must (`UseAnswer`), never adds a block to itself (`NeverIntoItself`), changes at no step what a block stands for (`MeaningKept`), a kept object goes stale only by ADD and REPLACE (`StaleByStore`), every call ends (`CallsEnd`) | 169247 |
| `ConvertUnits` | 79 classes from blocks that leave out any one parameter, used and converted: nothing is computed from a number never set (`SetBeforeUse`), every function answers in the new units (`Covariant`), what InitParams derives is scaled like what it derives it from (`DerivedAgree`), the status "failed, unchanged" is true (`FailUnchanged`), the curves return the documented status (`CurveStatus`) and set every field of the wave (`CurveWave`) | 37054 |

The properties of `ConvertUnits` hold but for the entries of `Known` in `MCConvertUnits`: the class, the property and the functions or members
that are known to break it. Section 7 goes through them; everything not listed there is checked. An entry excuses its own function only,
and for `FailUnchanged` its class.

Runs that show a disagreement of the code with its own comments:

| run | property | what the counterexample shows |
|---|---|---|
| `LinkList_remove_saved` | `SavedAlive` | a link saved twice and then removed: List.C:136 breaks out of the search after one entry, so the other names a deleted link, and a later Restore makes it the cursor; :116 says the entry is set to null |
| `ODE_stop_order` | `StopAtFirstZero` | a restart counts its steps, finds known stops again and appends them behind later ones (Step.C:137); `Integrate` then returns a later stop first |
| `ODE_missed_stop` | `StopsHeeded` | a `Forward` that fails at the end of F's domain has moved the cursor of `Stops` past the stop it stepped over and leaves `t_last` before it; the next `Integrate` beyond the stop answers OK and does not stop |
| `EOSobjects_unchanged` | `ErrorLeavesUnchanged` | Elastic1D.C:120 converts the hydro component before the shear component can refuse, and returns 1, which EOSbase.h:71 documents as "error, unchanged" |
| `ConvertUnits_units` | `Covariant` | DavisProducts.C:37 scales the coefficients of the class and returns 0 without `EOS::ConvertParams`: the reference state, the vacuum pressure and the view in (V, T) stay in the old units |

`NoMissedStop` is what is left of the claim of `ODE_missed_stop`: `ans.sync` records whether the call began with the current link
of `Stops` behind `t_last`, as ODE.h documents it. The passing `ODE` runs stay clear, by their parameters, of the pattern of
`ODE_stop_order` and of some of those listed for ODE in section 7, and
say nothing of them: `ODE_stops` has a single stop, a ring of two entries and no saved outer states;
`ODE_ring` has no stops. In `ODE_stops` a step fails while it is tried,
in `ODE_ring` after it was accepted.

### Bounds

- `LinkList`: two lists, three links, two objects, save depth 2. Three links give a first,
  a last and an inner link, which are all the places a link, the cursor
  or a saved cursor can have; two lists are what one call relates. The
  violation run needs one list and allows saving a link twice.
- `ODE`: two ring entries, the constructor's default, in the runs with stops, and eight in `ODE_ring`, where `n_cache/4` is 2: the smallest
  ring that is carried over when the next outer state is more than one step away, so that a retrace may take its last step
  beyond the time asked for or end on it. Steps of 1 to 4 units (to the goal, in the runs with stops), times from -5 to 9 and from -11 to 11: about ten
  steps fill the ring and cross an outer state on either side of T0. `MaxSteps` = 12 or 16 exceeds every walk there is, so that the
  step limit ends no call by itself. `MaxStops` = 4 bounds the list that
  repeated detection would let grow without end.
- `OneDFunctionI`: brackets of up to 17 points. A Newton step is tried only on brackets wider
  than 4 and skipped when bisection does better, so 17 is the width at which
  a search may try two. Functions are twelve patterns, monotonic or not, each with and without
  failing points.
- `EOSobjects`: four slots for objects (a composite with its components beside another object, or three mixtures of
  one component, two of them in the list), two references of the program, two entries of the manager's list.
  `Room` keeps calls that would need more slots out.
- `DataBase`: `Levels` = 2 instead of 5, so that four blocks make chains that are too
  long; `MaxCalls` = 3: a Read, a fetch that changes blocks, and a fetch or Read that meets
  them. One family of disks has a file with four blocks and the 160 graphs of
  directives of `MCDataBase`; the other has three files whose 100 combinations include
  each other, themselves, by either name, and fail.
- `ConvertUnits`: `MaxOmitted` = 1 parameter left out beyond the reference state, which is given by
  its variables, by P_ref or not at all. With 2, and the same table of known entries, TLC finds no error either (110189 states, three
  times as long); the entries of Keane and of fign in HotSpotRateCC need two. `Lackable`: units without a temperature, and without a
  mass; most classes need one or the other for their own numbers. One conversion suffices: exponents add.

Deadlock is not checked in `EOSobjects`, `DataBase` and `ConvertUnits`: a data base that is destroyed is
not used again, the client of `DataBase` stops after `MaxCalls` calls, and an object has been converted once.

### Fairness

The three modules with loops or recursion state fairness: `WF_vars(Loops)` in `ODE`,
`WF_vars(Search)` in `OneDFunctionI` and `WF_vars_all(Working)` in `DataBase`. A call that has started continues, because
it is ordinary sequential code with nothing to wait for; that includes, in `ODE`, the inner call that recalls
`t_last`. No call is ever assumed to be made.
`CallReturns` and `SearchEnds` follow from the goals, `max_steps` and the narrowing of the
bracket, `CallsEnd` from the marks on files and the count of levels. The mutants that retry a failed step without counting it, that set
the status without returning, or that leave the name in the list violate them.

## 5. Theorems

The only assumptions are the modules' named `ASSUME`s on constants, which TLC
evaluates in the passing runs, and the hypotheses that a theorem states (`~SaveTwice` of
`LinkList`, the three of `ODE`).

### LinkListProofs

`Invariance`: `~SaveTwice => (Spec => []IInv)`, for every set of lists, every
finite set of links, every set of objects and every save depth. From it
`TypeCorrect`, `RingsWellFormed` (`RingInv`), `HeadersAgree` (`HeaderInv`), `SavedCursorsAlive` and `OwnershipKept`.

    IInv == TypeOK /\ RingInv /\ HeaderInv /\ SavedAlive /\ SavedOnce /\ ObjectsAlive

The conjuncts need each other: the header needs `SavedAlive`, as `Restore` makes
a saved link the cursor; `SavedAlive` needs `SavedOnce` (no link is on a save
stack twice), as `Remove` clears one entry; the type of `freed` needs
`ObjectsAlive`, since an object is deleted when a link that holds it goes. A ring is
stated without recursion: `next` and `prev` are inverse, stay in the list, and
no proper part of the list's links is closed under `next` (`OneRing`). That is
what makes it inductive under insertion, removal and the splice of `Transfer`.
There is one lemma for each way to link and unlink (`LinkedBefore`, `LinkedAfter`, `LinkedAlone`,
`Unlinked`, `Emptied`, `Spliced`), and one for each group of
calls, which combines them with the facts on saved cursors and ownership.

The assumption `~SaveTwice` cannot be dropped: the run
`LinkList_remove_saved` is the counterexample.

### CursorListProofs

`RingsImplementSequences`: `~SaveTwice => (Spec => ImplementsCursorList)`, for every heap, any number of lists and any save depth: whatever is called,
the pointers of `LinkList` do to the entries, the cursor and the saved cursors what the sequences of `CursorList` say.
The mapping (`MCLinkList`) walks each ring from `first` in `list_size` steps. This is a recursive function, so the module first
proves what a walk is: it exists and is unique (`WalkExists`, `WalkIs`), by induction on its length in the form of a least counterexample (`Counting`). On a ring it meets
each link once: a link met twice would close a proper part of the ring under `next`, which `OneRing` of `LinkListProofs` excludes, since n steps meet n links at most (`Met`, `Ordered`).
So every list is at a view, a sequence of distinct links with the pointers between neighbours (`At`, `Viewed`), and
it suffices to show for each call that the pointers it leaves fit the sequence `CursorList` asks for (`ViewedNext`); the walk then is that sequence. One lemma
treats links that enter at any position (`EnteredView`, for `Append`, `Prepend`, `Insert`, `Add`), the others are
`RemoveLinkView`, `EmptiedView`, `TransferView`, `SetFirstView`, `MoveTargets`, `WalkTargets`, `SaveView` and `RestoreView`. The last needs
`SavedAlive`, `RemoveLinkView` needs `SavedOnce` (the code clears the first saved entry it meets, `CursorList` all of them): hence the same hypothesis as above.

### OneDFunctionIProofs

`Invariance`, and from it `TypeCorrect`, `GoodBracket` (`Refined`) and
`FewCycles` (`CyclesBounded`), for every interval, every set of functions on
it, every set of failing points, all goals, ends and guesses.

    IInv == TypeOK /\ Known /\ Bracketed /\ CyclesBounded /\ Refined

`Bracketed` is the strengthening: while `ZERO` runs, y0 and y1 are f at the ends and
lie strictly on either side of the goal, and the status is clear. The arithmetic is in
`RoundUpSign` (a quotient rounded away from zero has the sign of its
numerator and is not 0), `CenterBetween`, `StepInside`, `NewtonInside` and `GuessInside`: a
step that the code accepts lands strictly inside the bracket, on the side of the goal it
came from. So f is asked at its arguments only, and every cycle narrows the
bracket. Products of variables are beyond the SMT solver, so the signs of
products are a lemma (`SignOfProduct`) and products are hidden behind names.

`StaysInBracket` is the action property `Narrowing`, from the same invariant: no step of a search makes the
bracket wider or leaves it. Intervals whose ends come in either order are compared by `InWithin` and
`ReplacedWithin`; `GuessNarrower`, `PreConditionNarrower` and `ZERONarrower` treat the phases.

### DataBaseProofs

`Invariance`, and from it `TypeCorrect` and `NeverOpenTwice` (`OpenOnce`), for every set of disks, lists of files, directories, blocks
and every number of levels.

    IInv == ReadTyped /\ UseTyped /\ FetchTyped /\ Sequential

`ReadTyped` contains what makes `OpenOnce` inductive: the open files have different names, all of them marked, and
so has the part of the stack below the file that is just being opened or closed (`Marked`).
`UseTyped` needs more than types: the calls of Use end at blocks that are defined, or the entries
they copy back would go nowhere. `Sequential` says that no file is open and no call of Use runs outside a Read or a fetch.

`ScopeOfIncludes` (`IncludeScope`) has an invariant of its own, `ScopeInv`: the base and the units in the frame of
an open file are the last ones its script set before the current line (`Scoped`). `LastSetNext` says how that changes
from line to line; `SameUnits`, that Use and ADD leave the units of every block alone.

`ReadsComplete` (`ReadComplete`) needs more than what is true of the files that are closed: `ReadInv` says it of each line
an open file has passed (`FramesDone`), and that the file named by an include is closed and done, or above in the stack (`FilesDone`).
A block once defined stays defined through fetches (`Grows`), which rebuild it but never remove it.

### DBuseProofs

`NeverIntoItselfHolds` (`NeverIntoItself`), for any graph of directives, with cycles and missing blocks. While
`Use` runs, the blocks of the outer calls are emptied and partly copied back, so what a nested call meets is neither
the old block nor the new one. The invariant `UseInv` is about the stack of calls:

    UseInv == Chain(blocks, calls, returned) /\ Away(calls, returned)

Every outer call follows the directive that names the block of the next call (`Linked`), and that directive is the last
entry of its block (`Ends`), unless the block was entered again: then the inner call on it holds the directive as the last entry it has
to copy back, follows it itself, or has failed (`Keeps`). So a recursion that came back to a block of the chain goes round the same
cycle until the levels end, fails, and hands the failure up every call of the cycle. Only a
block that was expanded with success is added to another, and it is not in progress then (`Away`). `Least` and `Greatest` (a set
of numbers has a least, a bounded one a greatest member) come from the library's well-founded relations.

`UseAnswerHolds` (`UseAnswer`), for every finite set of keys (`KeysAssumption`: names come from files) and every number of levels.
`Resolved(n)`, the set of blocks that resolve within n levels, is a recursive function. Its equation is proved from
partial solutions (`PartialIs`, `PartialUnique`, `LevelsExist`) by induction on the number of levels, in the form of a least counterexample (`Counting`);
the sets grow with n and stop growing at the number of keys (`LevelsGrow`, `LevelsStop`), which bounds "at all". Then

    AnswerInv == Outermost /\ Promised /\ LevelInv

`Outermost` ties the bottom call to the block the fetch is about, `Promised` says what the history variable is while the recursion runs.
`LevelInv` is about the levels R as they were when the fetch began and the directives a block still has, in the block itself or in the calls that rebuild it (`Held`):
each of them is at a lower level than the block (`Ranked`), and a block outside all levels keeps one that is outside too (`Leads`). If the fetched block
resolves within `Levels`, then also (`Smooth`): every call is below the calls outside it (`Descends`), so no block is met inside itself; it has
levels enough (`Affords`); blocks in progress have no directive but the one that is followed (`Clean`); and nothing has failed (`Succeeds`).
One lemma for each step of the recursion: `EnterSmooth`, `CopyLevels`, `UseNamedLevels`, `ReplaceLevels`,
`KeepLevels`, `ReturnLevels`.

`MeaningKeptHolds` (`MeaningKept`), for every finite set of keys and every graph of directives, cycles and missing blocks included: at no step of
a fetch does any block stand for anything else, whether the fetch succeeds, fails, or fails half way. Three steps lead there.

1. `Meaning` is a recursion over the path of directives that are being followed, whose equation flattens sequences of sequences. That it has a solution is proved by
   induction on the number of blocks the path leaves (`UnfoldingExists`, `Left`), that flattening does by induction on the sequence (`FlatIs`); `FlattenConcat` and
   `MeantAdditive` say that entries in a row mean what each means in turn. The meaning depends on the blocks only through `Present` (which are there)
   and `Contents` (what is in a block and what the calls in progress have still to copy back to it).
2. `ReplacedMeaning`: a directive may be replaced in the contents of a block by the contents of the block it names when those are `Settled`, with
   no directive left that names a block that is there. A path that follows the named block already does tell the two apart,
   but such paths are entered only through that block, which is settled and leads nowhere further (`ReplacedBlock`).
3. Every step of Use but one leaves `Contents` alone (`CopyAfter`, `EnterAfter`, `KeepAfter`, `ReturnAfter`: seen from any call, `After`). That `ReplaceUse` finds settled entries is

        MeaningInv == AllDone /\ Answered /\ the promise

   `AllDone`: what a call that has not failed, and the calls it leads to, have put back is settled but for the directive being followed.
   `Answered`: so is a block that was expanded with success. `ReplaceAlone` is the case that could break it: no call further out that
   has not failed is on the block that `ReplaceUse` changes, for it would have put the directive back as settled.

`StaleByStoreHolds` (`StaleByStore`), an action property, for any disks and calls. An object agrees with its block (`Fresh`)
when it was made of the block's `Contents`. `ObjInv`: an object is kept only when Use answered 0, so its block, if it agrees with the
object, holds no directive (`UseAnswerHolds`); then `ReplaceUse` cannot be about it (`ReplacedFresh`), and every other step of Use leaves the contents alone.
Reading changes no other block than that of the statement, and one that is defined only by ADD and REPLACE (`StoreElsewhere`).

### EOSheapProofs, EOSobjectsProofs

`EOSheapProofs` states each operation of the heap as a contract. If the heap is `Sound` with e references from outside (typed,
`Counted`: the count of an object is the number of its references; `Shape`: components and kept objects come from the blocks that are named)
before, it is after, with one more, one less or the same, in every outcome. `Works`, `News` and `Fails` say which
objects the operation may have touched, and that numbers that were in their units still are. Cardinalities of the sets of referring blocks and
composites do the counting (`FiniteAssumption`: memory is finite). `EOSobjectsProofs` shows that the program's calls,
each a use of one or more contracts, keep

    IInv == State(heap, held, index, lost, open)

that is: the heap is `Sound`; every object in good status is in its units, and a composite of an `Exclusive` block is together with them, is the only one of its block and
is the one the data base keeps (`OwnSafe`, `Single`); nobody outside holds such components (`PartsKept`); and each entry of the manager's list is
the only reference to its object (`Indices`). The last is what `IndexUniqueHolds` rests on: no call of another object reaches an object of the list
through a composite, and no fetch or deletion moves it to other units, so two entries come to agree in name and units (`Twins`)
only by `eos(i).ConvertUnits` or `eos(i).Initialize` of one of them (`TwinStep`). `PartsKept` does the same for `CoherentHolds`.
It rests on what the program does, not on the library: a block is `Exclusive` when the program makes one object of it and fetches its components
in no other way. From `IInv`: `TypeCorrect`, `RefCountsHold`, `GoodNumbersHold`, `CoherentHolds`, `IndexUniqueHolds`. The assumptions name what the
constants stand for: the kinds and components of blocks (`BlocksAssumption`; components are simple), the null pointer (`NullAssumption`,
`FreeAssumption`), and that the program asks for blocks and units there are (`ProgramAssumption`).

### ODEProofs

`TypeOKHolds` (`TypeOK`), `RingContiguousHolds` (`RingContiguous`) and `OuterSortedHolds` (`OuterSorted`), for every size of the ring, domain of F,
longest step, set of requests and operations, and whether steps fail when they are tried or after they were accepted; `NaturalStopHolds`
(`NaturalStop`) for a ring of two entries, and for every ring what is left of it (`NaturalNearHolds`).

    IInv == CallInv /\ RingInv /\ NoStops

`RingInv` (`RingOf`) says of the entries in use, from `cach0` round to `cach1`, that each ends where the next begins, all in the direction `dir`; a step that
fails writes to the slot behind them only, or shortens the step that was to be tried (`RingStepped`). `CallInv` gives each phase of a call what it may rely on:
a list of saved states that runs backward before the initial one and forward after it (`OuterOf`, `Divided`), and, in a retrace, a known state to go to.
The searches over the saved states end at one from which a ring can start in its direction (`SeekIs`, `FindSeekIs`, `RestartIs`, `FindRestartIs`).

The order of the saved states needs more:

    OrderInv: the list is Ordered; AtLast when steps are counted; a retrace has steps enough
    ShortInv: no step that is tried, and none that is kept to restart with, exceeds MaxStep

Steps are counted, so saved, only behind the last state of their direction (`AtLast`). What endangers that is the retrace (Integrate.C:69): it goes through
a known interval without counting, and its outcome is not looked at before counting begins. It does arrive. It starts fewer than
n_cache/4 steps away, no step is cut shorter than the one before it (this is what `ShortInv` is for), and so the steps that are
left cover the distance (`Left`, `Pace`). Or F fails for good behind an accepted step (`Stuck`): then the entry never moves, and nothing is ever saved.

Where an answer is read needs

    UseInv:      the entry used last lies in the ring, and the step a loop took last began before its goal
    NaturalNear: what Forward and Backward returned is an end of a step that holds the time asked for

The loops of `FindNeighbor` end, in whatever slot they begin, at a step that holds the time (`UpIs`, `DownIs`, `NeighborIs`, `WithinIs`):
the last step that begins before it or the first that ends behind it, and the two differ at an entry's own time. This is where `NaturalNear`
is weaker than `NaturalStop`: with three entries or more, Forward on steps before T0 and Backward on steps after it may answer the time
asked for (section 7). With the two entries of the constructor's default (ODE.h:188) no search takes place.

`TypeOK` rests on `StopsInv` and `EntryInv` besides: `Stops` runs from -Inf to Inf, the current link is never its first, nor its last when a stop
was met; a slot holds a time within F's limits, and a step no longer than `MaxStep` unless it is the client's estimate.

`NoBugHolds` (`NoBug`) says, for every size of the ring, when a call may end in `ODE_BUG`. A loop, once begun, has a step to take: a call
restarts from a state on the near side of its answer (`OuterInv`, `Precedes`, `RestartsBefore`), so the first step begins before the goal, and
`n_steps` is positive. The exception is a retrace (`Retraces`, `BugOnlyRetracing`), which may itself go beyond what was asked for, and the loop that
follows then takes no step (section 7). Then the ring holds the time asked for (`Misled`): it ends beyond it because no step was taken, and begins before it
(`Carried`), which needs an invariant of its own,

    LowInv: the entries of a ring that counts no steps, the last one aside, lie before the next saved state

A ring is carried over only from within the interval it has to retrace, and what is stepped there stays before the saved state at its end, but for
one step that goes beyond it and ends the loop (`LowStepped`, `LowBegins`, `KeepRingUncounted`). `BugInv` is what is known of each phase.

`AnswerOnStepHolds` (`AnswerOnStep`) says that no answer is read on a stale slot. The hazard is a ring of one entry: an answer at its time is
read on the slot before or behind it, which belong to no step. `LoneInv` says what such a ring is when it is met. Either it is new and
its loop has not begun (`Fresh`); a loop that is left without a step answers no state. Or the slot behind it was written by a trial step or one that
failed (`Followed`); then `FindNeighbor` answers on the slot behind, at the beginning of that step, and the entry itself is what it returns
(`LoneNeighbor`). In between, a first step from the entry may fail at once, which leaves the ring as it was: so no ring
may begin at the end of F's domain (`SavedInside`), which is what the hypothesis `EdgesApart` is for. Everywhere
else the answer is on a step by `UseInv` and `WithinIs`.

Three hypotheses, named in the module (the first is enough for `TypeOK`, `RingContiguous` and `NaturalStop`):

- `FindIgnoresStops`: an ODE that is searched by value calculates no stop condition. With stops, a search goes on after the state at `t_last` could not be recalled
  and may then restart from a time that was never reached (section 7).
- `StepsSuffice`: `max_steps` exceeds n_cache/4, the number of steps a retrace may need. ODE.C:15 sets it to 100000; with fewer steps a retrace
  is cut off and counts steps of a known interval.
- `TrialUnsaved`: an ODE that saves every step or every other one, or with stops one in eight, is given no estimate of its first step: there are two trial steps, or up to eight when stops end longer ones. The constructor sets `CacheStep` to
  n_cache, 3 or more, or to -1 (ODE.C:10), but clients may change it; with `CacheStep` = 1, TLC finds the trial steps among the saved states, out
  of order, since Initialize.C:82 empties the ring and not `Initial`.

The constants of `ODE_ring` satisfy the three, and with them a fourth, which `AnswerOnStepHolds` needs as it needs `MaxSteps` > 1:

- `EdgesApart`: with two entries, F fails at once, no state is saved (the constructor's choice, ODE.C:10) and no first step is estimated; with more, F fails
  behind accepted steps or no state is saved, and an ODE with stops is given no estimate (its trial steps may go round the ring). Where it does not hold TLC finds answers on stale slots (section 7).

### Only model-checked

- liveness (`CallReturns`, `SearchEnds`, `CallsEnd`): the prover does no liveness;
- the properties of `ConvertUnits`: facts about 79 written-out classes, not about parameters, which TLC enumerates;
- `NoMissedStop` of `ODE`: it holds where the run looks, not for all constants (section 7). `NaturalStop` for
  rings of more than two entries, and `AnswerOnStep` where `EdgesApart` does not hold, fail (section 7).

## 6. Not modelled

- `NameArray`, `Array`, `ReferenceList`, FIFO and FILO: small data structures on the list operators,
  planned (section 2, step 8). Where a modelled module uses one, it appears as what it promises: the names of
  files and the blocks of the data base are sets and functions.
- `PointerArray`: the manager's list in `EOSobjects` has two entries, far from the 33rd, at
  which the array misbehaves (section 7).
- `Units`, `Calc`, `Local`: parsing and evaluating expressions over doubles and character strings. `Dimensions`
  keeps what the rest depends on: the exponents of every quantity, and whether a factor exists.
- Shared-library handles (`dlopen`): the operating system's state. `DataBase` has a class that cannot be loaded (`NotLoaded`).
- Floating-point work: `OneDFunction` on doubles, `Spline`, `H_Interp`, the iterations of the wave curves and of the pressure-temperature
  equilibrium. `ConvertUnits` abstracts a value to the units it is in, so it says which number an
  iteration starts from and what it sets, and nothing about convergence.
- The Riemann solver, `ExtEOSmanager`, 3D elastic-plastic flow, ideal HE (`IdealHE` and its rate), `DnKappa`,
  `ViscousProfile`: further code of the kinds modelled, planned (steps 9 and 10).
- `PrintParams` and `*_database.C`: formatted output.
- Applications and Examples: programs over the library, without state of
  their own that outlives a call; the GUI and the vendored code.

## 7. Observations

What was met while modelling and is not (or not only) the subject of a run. None of these was changed or assumed away: the
entries marked *excused* are the table `Known` of `MCConvertUnits`; the others are outside the parameters of the
passing runs, as said there.

### Lists, ODE, root finder

- List.C:98-103: the comment of `Replace` says that with no current link the object is added "and set current link"; `Append` sets the link of an empty list only.
  List.h:362: `LIST::Replace(const type&)` makes a copy that the list is not told to own. `SaveAtEnd` (List.C:266-273) puts the link below the top of the stack, which is
  the end of a stack of one.
- PointerArray.C:30: with 32 entries in use, `ReAlloc` doubles `dim`, allocates nothing and deletes the arrays in use.
- ReferenceList.C:126: `Delete` looks the address up without moving the cursor and removes whatever link is current.
- Initialize.C:67, :82-83: with `n_cache` = 2, the second trial step of `Initialize` is written over the initial state in entry 0, from which the ring is then restarted.
- Initialize.C:82 empties the ring after the trial steps but not `Initial`: with `CacheStep` = 1 or 2 they are saved, with stops up to 8, since a longer step that meets a stop is not taken and half of
  it is tried from where it ended (:59-70). With `CacheStep` = 1 the states before T0 get out of order.
- Step.C:93: a stop condition that is not finite at the end of a step ends the search for stops in that step; a zero the step has just passed is never entered.
- A `Forward` that fails leaves `Stops` and its cursor out of step with `t_last`: with `Zeros` = {3} and `Tmax` = 8, `Forward` asked for 8 steps over 3 and fails at the end of F's domain with the cursor
  behind 3 and `t_last` still 0, and `Integrate` to 6 then answers OK without stopping at 3. This is the run `ODE_missed_stop`.
  FindNeighbor.C:32-39: the search towards `cach0` stops at a step that begins at the very time asked for, and :45-63 correct this in the other
  direction only. So with `n_cache` > 2 (clients set it to 512 or 1024) `Forward` on steps before T0, and `Backward` on steps after it, can return that
  time itself; ODE.h:227 says "the first natural stop with t0 > t". With `NCache` = 4 TLC finds `NaturalStop` violated.
- Integrate.C:58-78: asked for the time of the last saved state, or a time that the retrace to it steps over, from fewer than n_cache/4 steps away, it retraces to that state; the loop that
  follows takes no step and `Integrate` returns `ODE_BUG`, and so do Forward (Forward.C:46-78) and Backward. The ring then holds the time, and the same call again answers it: this is what `NoBug` allows.
- Step.C:65, :80: a step that F fails behind the ring has overwritten the next slot and moved `cach0` past it. With `n_cache` = 2 one entry is left, and
  Integrate at its time is answered by interpolation on the failed step. The same happens where the first step of a restart fails at once: the ring is one entry
  with `dir` set (Integrate.C:53), and Integrate at its time reads stale slots. That takes a state saved at the very end of F's domain, or
  trial steps that end there. With `NCache` = 4, `CacheStep` = 2 and `Tmax` = 6 TLC finds `AnswerOnStep` violated, and so it does
  with `NCache` = 2 and `FailLate`, and with `NCache` = 2, `Dts` = {-1, 0, 1} and `Tmax` = 1.
- Integrate_f.C:122-131 and :143-147: on the side before T0, a search beyond the last outer state
  restarts one state too late, with `n_steps` = -1: its steps are not counted and stops beyond are not looked for. With `NCache` = 4,
  `CacheStep` = 2, `Zeros` = {-7} and requests at -5, 2 and -9, TLC finds `NoMissedStop` violated. The `&&` at :91
  extends a backward ring only beyond the last outer state; :197-205 does not set `t_last` when a stop lies behind the value
  looked for; :22-23 goes on with the workspace k1 when the state at `t_last` cannot be recalled; :157-160 takes half a difference of f for a time step.
- OneDFunctionI: with y0 and y1 supplied, a goal met at an end (zeroI.C:38) returns without clearing the status of the call before;
  zeroI.C:183 overflows when both limits are near INT_MAX; in zero.C:105 the test of the bounds has no braces and guards the replacement of an end only, not the trial.

### Data base and objects

- InitParams goes through the entries in order, so the last assignment of a parameter wins, on which the example in doc/Sample_database.data:40-52 relies;
  `Parameters::Value` (Parameters.C:268) returns the first. ADD drops the units of the added
  block (read.C:129). A last line without a newline is lost (DataFile.C:85).
- A file found through EOSLIB_DATA_PATH is marked by the name it was asked for; the same file by its own name is opened again, and its
  NEW blocks are then "already defined" (read.C:53). After a failed Read, a second Read of the file returns 0 and loads nothing.
- Whether a chain of `:use` is deeper than `Levels` depends on the order of the directives.
- FetchObj.C:98: a block that names itself as a *component* is fetched without end; a kept object whose conversion failed is handed out, with status fail, by later fetches.
- EOSmanager.C:143: `index_eos` drops an EOS whose conversion failed without deleting it; two materials that share a component convert it under each other. An EOS of the list that a client of
  `eos(i)` converts is found under its new units (EOSmanager.C:22): it is then missed in the old ones, or is the second entry in the new ones, of which `Find` hands out the first.
- BaseInitialize.C:29: the reference to the units is never given up. InitializeUnits.C:68 uses `names` before the test at :70; when one of the two
  is missing the destructor deletes the other, which is the data base's.

### The entries of `Known`

They are grouped by property. An entry names the functions or members for which the property fails.

**SetBeforeUse: a number is used that nothing set.**

- *JWL* {S, T, CV, Pref, eref, Tref}: Cv is not required (InitializeJWL.C:40). *JWL_VT*: JWL_VT.C:153-158 calls the
  copy before the CJ state (JWL.C:39, :43) is known.
- *HEfit* {P family, MaxNorm}: InitializeHEfit.C:66, :83 do not test that f and g were given. *HEprods*: HEprodsInit.C:137-150 tests a where it means b; HEprodsfunc.C:197, :205 read one past the last knot.
- *Keane*, *Keane_VT*: KeaneParams.C:164 lets a NaN Kp1 pass its test.
- *Mie-Grueneisen*, the view in the other variables: the constructors from the other view keep the status inverted (UsUp.C:45-48,
  UsUpVT.C:45-48, UsUpSpline.C:46-49, UsUpSplineVT.C:43-46, PeSpline.C:45-48, PeSplineVT.C:43-46).
- *StiffIdeal_VT*: with c0 and s instead of G1, P_p stays NaN (StiffIdealVT.C:133-143).
- *Rates* {copy}: `Copy` of a rate makes an object without units and with status bad, which never converts; the copies of HEburn hold one.
  `IgnitionGrowthRT::Copy` returns a blank rate. {zdot_shock}: ArrheniusRT and IgnitionGrowthRT. *IgnitionGrowth* {zdot, TimeStep, Integrate, Dt}: a and rho0 are not required.
- *HotSpotCC_Rate*, *HotSpotRateCC* {Integrate, rate_s2}: locals unset when s2 = 1 (HotSpotRateCCfunc.C:291-307, HotSpotCC_RateFunc.C:167-184);
  {dlambdadt}: a path without return (HotSpotRateCCfunc.C:48-57).
- *ElasticConstGV(_VT)*: Gref is an unset local when not given (ElasticConstGV.C:139, :172 and _VT.C:139, :172).
  *VonMisesConstGV* {Integrate}: `Step` falls off its end (VonMisesConstGVfunc.C:78-96).

**Covariant: after ConvertUnits, an answer in the old units.**

- *EOS*, the mixtures, extended and elastic-plastic classes {e_PV, PT}: the absolute tolerances of EOS.h:34-41, called dimensionless there, are pressures and energies.
- *Davis*: run `ConvertUnits_units`. *StiffIdeal(_VT)*: the reference state is not converted (StiffIdeal.C:78-99).
- *BM_VT*, *Keane_VT* {P_V}: GenHayesVT.C:39 lacks theta, which its twin scales.
- *HEfit* {NotInDomain}: compares a density with a volume (HEfit.C:150); *MaxNorm*, in HEfit and Mie-Grueneisen: ODE.C:79-90 adds 1 to a dimensional size.
  *HEprods*: s_P is scaled by the factor of s (HEprodsInit.C:291).
- *PTequilibrium* {dTdlambda}: PTequilibriumFunc.C:201.
- *Phi0, Phi1, EC* {dphi, d2phi (PhiEqSpline.C:58-59), energy (:91-106)}; EC also f, whose data stay in the old units. The variants *again*
  convert twice: PhiEqSplineConvert.C:14-18 multiplies up s_e, which it never resets. *EqPorous, DissipativePorous* {lastState}: the state kept from the last call (EqPorous.C:49) stays.
- *HEburn* {PT and the z_ref of its rate}: HEburn.C:111 and HEburn2.C:108 call `EOS::ConvertParams`, as *VMrate* {z_tauinv} does at ElasticPlastic1D.C:53;
  of the classes with internal variables only EqExtEOS converts z_ref.

**DerivedAgree: a derived number is scaled unlike what it is derived from.**

- *Davis* {V_ref, e_ref}, *StiffIdeal_VT* {dS, e_ref, P_ref}, *HEprods* {rho_cj, P_cj, e_sw}: members that ConvertParams leaves out.
- *Phi0* {PV_0, PV_1, PV_min, PV_smax} (Phi0Convert.C:20-21), *EC* {PV_min, PV_smax}, and the variants *again*.
- *Arrhenius(RT)* {T_cutoff}: the default is RMIN, a number, at Arrhenius.C:98; *PnRate* {P_cutoff}: PnRate.C:94.
- *HotSpotCC_Rate, HotSpotRateCC* {fign}: divided by tref when it is derived (HotSpotCC_Rate.C:156, HotSpotRateCC.C:221) and again when used.
- *VonMises1D* {eps_y}: VonMises1D.C:156-159 passes `hydro->e_ref` for a temperature.

**FailUnchanged: ConvertUnits says "error, unchanged" and changed something** (`HalfConverted`). The classes call the
ConvertParams of their base class or of a component before they know that they can convert their own numbers (IdealGas, Hayes, JWL and so on; Elastic1D.C:120 is the run
`EOSobjects_unchanged`); InitializeHEfit.C:199-204 returns 1 after all its numbers are converted.

**CurveStatus: a status other than the one documented in Wave.h.** Detonation, deflagration and polars of *EOS*, and the loci of *JWL, BKW, HEfit*, return 1
before the wave is set. *IdealGas, StiffenedGas*: IsentropeIdealGas.C:39-41 returns the outcome of P(p_vac), status 0, when the state asked for lies beyond the vacuum, and StiffenedGas does the same;
Wave.h:32-34 gives 0 the meaning that the wave is the one asked for. The isotherms of *Hayes* and *DissipativePorous* (DissipativeIsotherm.C:83, :96, :113, :126).

**CurveWave: a field of the wave is not set, or in another direction or frame.** *EOS* {isentrope_MaxNorm; detonation_P, in which Pw is not set; deflagration_V, u, u_s
(Deflagration_gen.C:259)}; *JWL, BKW* {detonation_u, deflagration_u}: `dir` is missing (JWLdetonation.C:158-159, JWLdeflagration.C:222); *HEfit* {detonation}:
HEfitHugoniot.C:138-139; *IdealGas* {shock_P, shock_V} and *StiffenedGas* {shock_V}: u_s without u0.

### Other observations in the classes

- Ownership: ElasticConstGV.C:48-61 and ElasticPolyG duplicate hydro and shear twice; ElasticConstGV.C:174-178 leaks when its
  Initialize fails; FrozenPorous.C:7, :31 shares the solid and phi_eq with the object it copies and deletes them; ExtEOS.C:39 deletes an array with `delete`;
  BMparams.C:23 copies the pointer `eos` of another object; EqExtEOS.C:75 converts the kept object that others hold.
- Values: VonMisesConstGV.C:67 copies set G0 and gv to 0; nu is required even when tau is given (VonMises1D.C:149, VonMisesConstGV.C:158); JWLfunc.C:19 has the sign of de
  reversed; PTequilibriumFunc.C:101 tests lambda1_max twice; PTequilibriumVTfunc.C:146, :170, :195 take Gamma of the second component at the volume of the
  first; EqPorous.C:79 returns P_min and leaves P_f of another state; DissipativePorous evaluates Gamma and CV at e - B_f and P, T, S and c2 at e;
  ECfit.C:34 and EC_Initialize.C:112 have constants in GPa; PorousIsotherm.C:98 takes the vacuum status 1 for a failure; PhiEq.C:85 returns 1 from ConvertParams.
- Rates: `HotSpotRate::Copy` leaves out s2; HotSpotRateCCfunc.C:201 has the power fn where the derivative has fn - 1; dt2 of Dt is shadowed; FFrate ignores the
  status of `hug.P`; HotSpotRateExp recomputes s0 in Integrate while Rate keeps z[5]; HEburn::z_f refreshes only lambda in ztmp.
