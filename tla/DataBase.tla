-------------------------------- MODULE DataBase --------------------------------
(* The property database (class DataBase) as its client uses it: data files    *)
(* are read, and parameters and objects are fetched, one call at a time.       *)
(* Fetching expands the `:use' directives of the block; an object is made from *)
(* the expanded block by its constructor and Initialize and kept (prop.obj).   *)
EXTENDS DBread, DBuse

CONSTANTS NULL,
          Disks,        \* what may be on the disk
          Lists,        \* the lists of files given to Read
          MaxCalls      \* bound: calls of the client

ASSUME CallsAssumption == MaxCalls \in Nat
ASSUME DisksAssumption ==
  /\ \A d \in Disks : \A path \in DOMAIN d : path \in Paths /\ d[path] \in Seq(Statement)
  /\ Lists \subseteq Seq(Paths)

VARIABLES obj,          \* objects kept, by key: the entries each was made from
          fetch,        \* the fetch in progress and its block
          answer,       \* what the last fetch returned
          asked,        \* number of calls so far (bounded by MaxCalls)
          promise,      \* history: whether the block could be expanded,
                        \* within Levels levels and at all, and what every block
                        \* stood for, when the fetch began
          failed        \* history: some Read has failed

vars_all == <<blocks, read_vars, use_vars, obj, fetch, answer, asked, promise, failed>>

Kinds == {"FetchParams", "FetchObj", "FetchNewObj"}
NoFetch == [kind |-> "none", key |-> CHOOSE k \in Keys : TRUE]
NoPromise == [within |-> FALSE, atAll |-> FALSE, meaning |-> <<>>]
Fetching == fetch # NoFetch
Idle == ~reading /\ ~Fetching

Init ==
  /\ blocks = [k \in Keys |-> NoParams]
  /\ disk \in Disks
  /\ Files = {} /\ vars = <<>> /\ todo = <<>> /\ reading = FALSE /\ status = 0
  /\ calls = <<>> /\ returned = NoValue
  /\ obj = [k \in Keys |-> NULL]
  /\ fetch = NoFetch /\ answer = NULL /\ asked = 0
  /\ promise = NoPromise /\ failed = FALSE

NewCall == Idle /\ asked < MaxCalls /\ asked' = asked + 1
Unfetched == UNCHANGED <<use_vars, obj, fetch, answer, promise>>

CallRead ==
  /\ NewCall
  /\ \E list \in Lists : Read(list)
  /\ UNCHANGED failed
  /\ Unfetched

Reading ==
  /\ ReadStep
  /\ failed' = (failed \/ status' = 1)
  /\ UNCHANGED asked
  /\ Unfetched

--------------------------------------------------------------------------------
(* FetchParams, FetchObj and FetchNewObj of a block that exists; those of one  *)
(* that does not return NULL.  FetchObj returns the object it keeps without    *)
(* looking at the block.                                                       *)
NotFound(kind, k) ==
  /\ NewCall /\ ~Defined(k)
  /\ answer' = NULL
  /\ UNCHANGED <<blocks, use_vars, obj, fetch, promise>>

Kept(kind, k) ==
  /\ NewCall /\ kind = "FetchObj" /\ obj[k] # NULL
  /\ answer' = obj[k]
  /\ UNCHANGED <<blocks, use_vars, obj, fetch, promise>>

(* NewObject gives up before it calls Use when the class cannot be loaded.     *)
NotLoaded(kind, k) ==
  /\ NewCall /\ kind # "FetchParams" /\ Defined(k)
  /\ kind = "FetchObj" => obj[k] = NULL
  /\ answer' = NULL
  /\ UNCHANGED <<blocks, use_vars, obj, fetch, promise>>

Expand(kind, k) ==
  /\ NewCall /\ Defined(k)
  /\ kind = "FetchObj" => obj[k] = NULL
  /\ fetch' = [kind |-> kind, key |-> k]
  /\ promise' = [within |-> k \in Resolved[Levels],
                 atAll |-> k \in Resolved[Cardinality(Keys)],
                 meaning |-> [l \in {l \in Keys : Defined(l)} |-> Meaning(l)]]
  /\ Enter(blocks, k, Levels, <<>>)
  /\ UNCHANGED <<obj, answer>>

Fetch ==
  /\ \E kind \in Kinds, k \in Keys :
       NotFound(kind, k) \/ Kept(kind, k) \/ NotLoaded(kind, k) \/ Expand(kind, k)
  /\ UNCHANGED <<read_vars, failed>>

Expanding ==
  /\ UseStep
  /\ UNCHANGED <<read_vars, obj, fetch, answer, asked, promise, failed>>

(* The outermost Use has returned: anything but 0 is a failure.                *)
expanded == blocks[fetch.key].entries
Expanded == Fetching /\ calls = <<>>
Give(ans) ==
  /\ answer' = ans /\ fetch' = NoFetch /\ returned' = NoValue
  /\ promise' = NoPromise
  /\ UNCHANGED <<blocks, read_vars, calls, asked, failed>>

UseFailed == Expanded /\ returned # 0 /\ Give(NULL) /\ UNCHANGED obj
GiveParams ==
  /\ Expanded /\ returned = 0 /\ fetch.kind = "FetchParams"
  /\ Give(expanded) /\ UNCHANGED obj
(* Initialize may refuse the parameters; the object is then destroyed.         *)
InitializeFailed ==
  /\ Expanded /\ returned = 0 /\ fetch.kind # "FetchParams"
  /\ Give(NULL) /\ UNCHANGED obj
GiveObj ==
  /\ Expanded /\ returned = 0 /\ fetch.kind # "FetchParams"
  /\ Give(expanded)
  /\ obj' = IF fetch.kind = "FetchObj" THEN [obj EXCEPT ![fetch.key] = expanded]
            ELSE obj

Answering == UseFailed \/ GiveParams \/ InitializeFailed \/ GiveObj
Working == Reading \/ Expanding \/ Answering
Next == CallRead \/ Fetch \/ Working

(* A call that was made keeps executing.                                       *)
Spec == Init /\ [][Next]_vars_all /\ WF_vars_all(Working)
--------------------------------------------------------------------------------
TypeOK ==
  /\ blocks \in [Keys -> Block \cup {NoParams}]
  /\ Files \subseteq Paths
  /\ vars \in Seq([file : Paths, path : DOMAIN disk, line : Nat \ {0},
                   base : Bases, units : UnitNames])
  /\ todo \in Seq(Paths) /\ reading \in BOOLEAN /\ status \in {0, 1}
  /\ calls \in Seq([key : Keys, old : Seq(Entries), v : Names, count : 0 .. Levels,
                    status : {0, -1}])
  /\ returned \in Int
  /\ obj \in [Keys -> Seq(Entries) \cup {NULL}]
  /\ fetch = NoFetch \/ fetch \in [kind : Kinds, key : Keys]
  /\ answer \in Seq(Entries) \cup {NULL}
  /\ asked \in 0 .. MaxCalls /\ promise.within \in BOOLEAN /\ failed \in BOOLEAN

(* The files that are open have different names, all of them marked as read:   *)
(* a chain of includes that comes back to a file by its name does not open it  *)
(* again.  Between calls nothing is open (read, CloseFile).                    *)
OpenOnce ==
  /\ \A i, j \in DOMAIN vars : vars[i].file = vars[j].file => i = j
  /\ \A i \in DOMAIN vars : vars[i].file \in Files
  /\ ~reading => vars = <<>>

(* The value that the commands before statement i of a script set, whatever    *)
(* files are included between them.                                            *)
LastSet(s, i, cmd, none) ==
  LET before == {j \in 1 .. i - 1 : s[j].cmd = cmd} IN
  IF before = {} THEN none ELSE s[CHOOSE j \in before : \A l \in before : l <= j][cmd]
Statements(s) == {i \in DOMAIN s : s[i].cmd = "block"}
KeyAt(s, i) ==
  <<IF s[i].base = NoBase THEN LastSet(s, i, "base", NoBase) ELSE s[i].base, s[i].name>>
UnitsAt(s, i) ==
  IF s[i].units = NoUnits THEN LastSet(s, i, "units", NoUnits) ELSE s[i].units

(* .base and .units reach neither into an included file nor back out of it:    *)
(* every block was stored under the base and with the units its own file       *)
(* states for it (DBvars, DotCommands, BlockId).                               *)
IncludeScope ==
  \A k \in Keys : Defined(k) =>
    \E path \in DOMAIN disk : \E i \in Statements(disk[path]) :
      KeyAt(disk[path], i) = k /\ UnitsAt(disk[path], i) = blocks[k].units

(* As long as no Read has failed, a Read that has returned leaves every block  *)
(* of every file it opened defined and every file they include read.  (After a *)
(* failure this is lost for good: the file that failed stays marked.)          *)
ReadComplete ==
  ~reading /\ ~failed =>
    \A file \in Files : \E path \in PathOf(file) :
      /\ \A i \in Statements(disk[path]) : Defined(KeyAt(disk[path], i))
      /\ \A i \in DOMAIN disk[path] : disk[path][i].cmd = "include" =>
           <<IF disk[path][i].dir = NoPath THEN path[1] ELSE disk[path][i].dir,
             disk[path][i].file>> \in Files

(* At every step of a fetch every block stands for what it stood for when the  *)
(* fetch began, were it interrupted there or does it fail later: neither the   *)
(* parameters a block stands for change nor their order, of which the last     *)
(* assignment wins (Use takes the blocks apart and puts them together again in *)
(* place, and leaves them partly expanded when it fails).                      *)
MeaningKept ==
  Fetching => \A k \in DOMAIN promise.meaning : Meaning(k) = promise.meaning[k]

(* Use succeeds on every block whose directives resolve within Levels levels   *)
(* when it is called, and on no block that leads to a missing block or back to *)
(* itself; no directive is left then.  Between the two it is the order of the  *)
(* directives, and of the fetches before, that decides: a block that was       *)
(* expanded on the way needs no levels any more.                               *)
UseAnswer ==
  Expanded => /\ promise.within => returned = 0
              /\ returned = 0 => promise.atAll /\ Use(expanded) = 0

(* The entries of a block are never appended to a block that is being expanded *)
(* on its behalf, its own above all (ReplaceUse would not end: the loop runs   *)
(* up to the number of entries it is adding to).                               *)
NeverIntoItself ==
  Resuming /\ returned >= 0 =>
    \A i \in DOMAIN calls : calls[i].key # <<inner.key[1], inner.v>>

(* An object that agrees with its block stops doing so only by a statement     *)
(* that adds to this block or replaces it (StoreParameters keeps prop.obj); no *)
(* statement on another block can do it, as the directives that named it were  *)
(* replaced for good, nor can any fetch, which may take the block apart.       *)
Fresh(k) == obj[k] \in {NULL, Contents[k]}
StaleByStore ==
  [][\A k \in Keys : Fresh(k) /\ ~Fresh(k)' =>
       /\ StoreParameters /\ BlockKey = k
       /\ statement.eq \in {"ADD", "REPLACE"}]_vars_all

(* Every call returns, with files that include each other and blocks that use  *)
(* each other too.                                                             *)
CallsEnd == ~Idle ~> Idle
================================================================================
