--------------------------------- MODULE DBread --------------------------------
(* Reading data files into the database: DataBase::Read and what it calls.     *)
(* A file is a script of statements.  The files that are open form a stack of  *)
(* DBvars; `.include' opens another file in the middle of one.                 *)
EXTENDS ParamBlocks

CONSTANTS Dirs,         \* directories
          FileNames,    \* file names within a directory
          DataPath,     \* value of EOSLIB_DATA_PATH, or NoPath
          NoPath,
          NoUnits       \* the empty string, initial value of .units

ASSUME PathAssumption == DataPath \in Dirs \cup {NoPath} /\ NoPath \notin Dirs
ASSUME UnitsAssumption == NoUnits \in UnitNames

Paths == Dirs \X FileNames
NoBase == ""            \* initial value of .base; no base in a statement
ASSUME BaseAssumption == NoBase \in Bases

VARIABLES disk,         \* the scripts on the disk, by path
          Files,        \* names under which a file was opened (Files)
          vars,         \* the open files, innermost last (vars)
          todo,         \* rest of the list given to Read (list)
          reading,      \* Read is executing
          status        \* result of Read, or of the calls of read so far

read_vars == <<disk, Files, vars, todo, reading, status>>

(* The statements of a file.                                                   *)
Statement ==
  [cmd : {"block"}, eq : {"NEW", "ADD", "REPLACE", "EXIST"}, base : Bases, name : Names,
   units : UnitNames, entries : Seq(Entries)]
  \cup [cmd : {"include"}, dir : Dirs \cup {NoPath}, file : FileNames]
  \cup [cmd : {"base"}, base : Bases] \cup [cmd : {"units"}, units : UnitNames]
  \cup [cmd : {"bad"}]

(* read(file) returns at once for a name it has seen.  OpenFile falls back to  *)
(* the same name in the directory EOSLIB_DATA_PATH.                            *)
PathOf(file) ==
  IF file \in DOMAIN disk THEN {file}
  ELSE {<<DataPath, file[2]>>} \cap DOMAIN disk

(* The constructor of DBvars: nothing is inherited from the including file.    *)
(* Mutant: the units of the including file are taken over.                     *)
OpenedInheriting(file, path) ==
  [file |-> file, path |-> path, line |-> 1, base |-> NoBase,
   units |-> IF vars = <<>> THEN NoUnits ELSE Last(vars).units]
Opened(file, path) ==
  [file |-> file, path |-> path, line |-> 1, base |-> NoBase, units |-> NoUnits]

SkipFile(file, rest) ==
  file \in Files /\ vars' = rest /\ UNCHANGED <<Files, status>>
(* Mutant: the file is not marked as read.                                     *)
OpenFileUnmarked(file, rest) ==
  /\ file \notin Files
  /\ \E path \in PathOf(file) : vars' = Append(rest, Opened(file, path))
  /\ UNCHANGED <<Files, status>>
OpenFile(file, rest) ==
  /\ file \notin Files
  /\ \E path \in PathOf(file) : vars' = Append(rest, Opened(file, path))
  /\ Files' = Files \cup {file}
  /\ UNCHANGED status
(* Mutant: the failure is forgotten.                                           *)
OpenFailsQuietly(file, rest) ==
  /\ file \notin Files /\ PathOf(file) = {}
  /\ vars' = rest
  /\ UNCHANGED <<Files, status>>
OpenFails(file, rest) ==
  /\ file \notin Files /\ PathOf(file) = {}
  /\ vars' = rest /\ status' = 1
  /\ UNCHANGED Files

read(file, rest) ==
  SkipFile(file, rest) \/ OpenFile(file, rest) \/ OpenFails(file, rest)

--------------------------------------------------------------------------------
(* Read takes the files of its list in order and stops at the first failure.   *)
Read(list) ==
  /\ ~reading
  /\ reading' = TRUE /\ todo' = list /\ vars' = <<>> /\ status' = 0
  /\ UNCHANGED <<disk, Files, blocks>>

(* Mutant: the name stays in the list.                                         *)
ReadNextAgain ==
  /\ reading /\ vars = <<>> /\ status = 0 /\ todo # <<>>
  /\ read(Head(todo), vars)
  /\ UNCHANGED <<disk, todo, reading, blocks>>
ReadNext ==
  /\ reading /\ vars = <<>> /\ status = 0 /\ todo # <<>>
  /\ read(Head(todo), vars)
  /\ todo' = Tail(todo)
  /\ UNCHANGED <<disk, reading, blocks>>

ReadReturn ==
  /\ reading /\ vars = <<>> /\ (status = 1 \/ todo = <<>>)
  /\ reading' = FALSE
  /\ UNCHANGED <<disk, Files, vars, todo, status, blocks>>

(* The statement the innermost file has come to.                               *)
top == Last(vars)
script == disk[top.path]
AtStatement == vars # <<>> /\ status = 0 /\ top.line <= Len(script)
statement == script[top.line]
Advance(frame) == [vars EXCEPT ![Len(vars)] = [frame EXCEPT !.line = @ + 1]]

(* .include file, relative to the directory of the file that includes it, or   *)
(* with an absolute path.                                                      *)
IncludedName == IF statement.dir = NoPath THEN <<top.path[1], statement.file>>
                ELSE <<statement.dir, statement.file>>
Include ==
  /\ AtStatement /\ statement.cmd = "include"
  /\ read(IncludedName, Advance(top))
  /\ UNCHANGED <<disk, todo, reading, blocks>>

SetBase ==
  /\ AtStatement /\ statement.cmd = "base"
  /\ vars' = Advance([top EXCEPT !.base = statement.base])
  /\ UNCHANGED <<disk, Files, todo, reading, status, blocks>>

SetUnits ==
  /\ AtStatement /\ statement.cmd = "units"
  /\ vars' = Advance([top EXCEPT !.units = statement.units])
  /\ UNCHANGED <<disk, Files, todo, reading, status, blocks>>

(* An unknown command, a block that does not parse, a comment that does not    *)
(* end: the statement has no effect and the file fails.                        *)
BadStatement ==
  /\ AtStatement /\ statement.cmd = "bad"
  /\ status' = 1
  /\ UNCHANGED <<disk, Files, vars, todo, reading, blocks>>

(* ReadParameters: base and units of a block are those of its statement or     *)
(* else those set in the file.                                                 *)
BlockKey == <<IF statement.base = NoBase THEN top.base ELSE statement.base,
              statement.name>>
NewBlock == [units |-> IF statement.units = NoUnits THEN top.units
                       ELSE statement.units,
             entries |-> statement.entries]

(* StoreParameters, by the operator of the statement.                          *)
(* Mutant: EXIST replaces the block.                                           *)
StoredExistReplaces(eq, k, b) ==
  IF ~Defined(k) \/ eq # "ADD" THEN [blocks EXCEPT ![k] = b]
  ELSE WithEntries(k, blocks[k].entries \o b.entries)
Stored(eq, k, b) ==
  IF ~Defined(k) THEN [blocks EXCEPT ![k] = b]
  ELSE CASE eq = "ADD"     -> WithEntries(k, blocks[k].entries \o b.entries)
         [] eq = "REPLACE" -> [blocks EXCEPT ![k] = b]
         [] eq = "EXIST"   -> blocks

StoreParameters ==
  /\ AtStatement /\ statement.cmd = "block"
  /\ ~(statement.eq = "NEW" /\ Defined(BlockKey))
  /\ blocks' = Stored(statement.eq, BlockKey, NewBlock)
  /\ vars' = Advance(top)
  /\ UNCHANGED <<disk, Files, todo, reading, status>>

AlreadyDefined ==
  /\ AtStatement /\ statement.cmd = "block"
  /\ statement.eq = "NEW" /\ Defined(BlockKey)
  /\ status' = 1
  /\ UNCHANGED <<disk, Files, vars, todo, reading, blocks>>

(* CloseFile, at the end of a file or after an error, which every file that is *)
(* open passes on to the one that included it.                                 *)
CloseFile ==
  /\ vars # <<>>
  /\ status = 1 \/ top.line > Len(script)
  /\ vars' = Front(vars)
  /\ UNCHANGED <<disk, Files, todo, reading, status, blocks>>

ReadStep ==
  \/ ReadNext \/ Include \/ SetBase \/ SetUnits \/ BadStatement
  \/ StoreParameters \/ AlreadyDefined \/ CloseFile \/ ReadReturn
================================================================================
