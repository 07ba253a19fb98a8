---------------------------- MODULE DataBaseProofs ----------------------------
(* Types and open files of the property database, whatever is on the disk and  *)
(* whatever is asked of it.                                                    *)
EXTENDS DataBase, FiniteSetTheorems, SequenceTheorems, TLAPS

Frame == [file : Paths, path : DOMAIN disk, line : Nat \ {0}, base : Bases, units : UnitNames]

LEMMA FrontType ==
  ASSUME NEW S, NEW s \in Seq(S), s # <<>>
  PROVE  /\ Front(s) \in Seq(S) /\ Len(Front(s)) = Len(s) - 1
         /\ \A i \in 1 .. Len(s) - 1 : Front(s)[i] = s[i]
         /\ Last(s) \in S /\ Len(s) \in Nat \ {0} /\ Last(s) = s[Len(s)]
<1>1. Len(s) \in Nat \ {0} /\ \A i \in 1 .. Len(s) : s[i] \in S
  BY EmptySeq, ElementOfSeq
<1> DEFINE n == Len(s) - 1
<1>2. n \in Int /\ 1 \in Int /\ \A i \in 1 .. n : s[i] \in S
  BY <1>1
<1> HIDE DEF n
<1>3. /\ SubSeq(s, 1, n) \in Seq(S)
      /\ Len(SubSeq(s, 1, n)) = IF 1 <= n THEN n - 1 + 1 ELSE 0
      /\ \A i \in 1 .. n - 1 + 1 : SubSeq(s, 1, n)[i] = s[1 + i - 1]
  BY <1>2, SubSeqProperties
<1>4. /\ Len(SubSeq(s, 1, n)) = n
      /\ \A i \in 1 .. n : SubSeq(s, 1, n)[i] = s[i]
  <2>1. n \in Nat
    BY <1>1 DEF n
  <2>2. n - 1 + 1 = n /\ \A i \in 1 .. n : 1 + i - 1 = i
    BY <2>1
  <2>3. Len(SubSeq(s, 1, n)) = n
    BY <1>3, <2>1, <2>2
  <2>4. ASSUME NEW i \in 1 .. n
        PROVE  SubSeq(s, 1, n)[i] = s[i]
    BY <1>3, <2>1, <2>2
  <2> QED BY <2>3, <2>4
<1> QED BY <1>1, <1>3, <1>4 DEF Front, Last, n

(*******************************************************************************)
(* The files that are open.                                                    *)
(*******************************************************************************)
(* The frames of s have different names, all of them in F.                     *)
Marked(s, F) ==
  /\ \A i, j \in 1 .. Len(s) : s[i].file = s[j].file => i = j
  /\ \A i \in 1 .. Len(s) : s[i].file \in F

LEMMA MarkedIsOpenOnce ==
  ASSUME vars \in Seq(Frame)
  PROVE  OpenOnce <=> Marked(vars, Files) /\ (~reading => vars = <<>>)
BY LenProperties DEF OpenOnce, Marked

(* Opening a file, or not.                                                     *)
LEMMA readTyped ==
  ASSUME NEW rest \in Seq(Frame), Marked(rest, Files), Files \subseteq Paths, status \in {0, 1},
         NEW file \in Paths, read(file, rest)
  PROVE  /\ vars' \in Seq(Frame) /\ Marked(vars', Files')
         /\ Files' \subseteq Paths /\ status' \in {0, 1}
<1>1. CASE SkipFile(file, rest)
  BY <1>1 DEF SkipFile
<1>2. CASE OpenFails(file, rest)
  BY <1>2 DEF OpenFails
<1>3. CASE OpenFile(file, rest)
  <2>1. PICK path \in PathOf(file) : vars' = Append(rest, Opened(file, path))
    BY <1>3 DEF OpenFile
  <2>2. Opened(file, path) \in Frame /\ Opened(file, path).file = file
    BY <2>1, BaseAssumption, UnitsAssumption DEF Opened, Frame, PathOf
  <2>3. /\ vars' \in Seq(Frame) /\ Len(vars') = Len(rest) + 1 /\ Len(rest) \in Nat
        /\ \A i \in 1 .. Len(rest) : vars'[i] = rest[i]
        /\ vars'[Len(rest) + 1].file = file
    BY <2>1, <2>2, AppendProperties, LenProperties
  <2>4. Files' = Files \cup {file} /\ file \notin Files /\ status' = status
    BY <1>3 DEF OpenFile
  <2> QED BY <2>3, <2>4 DEF Marked
<1> QED BY <1>1, <1>2, <1>3 DEF read

(* The innermost file goes on to its next statement.                           *)
LEMMA Advanced ==
  ASSUME vars \in Seq(Frame), vars # <<>>, Marked(vars, Files),
         NEW frame \in Frame, frame.file = top.file
  PROVE  Advance(frame) \in Seq(Frame) /\ Marked(Advance(frame), Files)
<1> DEFINE next == [frame EXCEPT !.line = @ + 1]
<1>1. Len(vars) \in Nat \ {0} /\ top = vars[Len(vars)]
  BY FrontType DEF top
<1>2. next \in Frame /\ next.file = vars[Len(vars)].file
  BY <1>1 DEF Frame
<1>3. /\ Advance(frame) \in Seq(Frame) /\ Len(Advance(frame)) = Len(vars)
      /\ \A j \in 1 .. Len(vars) :
           Advance(frame)[j] = IF j = Len(vars) THEN next ELSE vars[j]
  <2> HIDE DEF next
  <2>1. Len(vars) \in 1 .. Len(vars)
    BY <1>1
  <2> QED BY <1>2, <2>1, ExceptSeq DEF Advance, next
<1> HIDE DEF next
<1> QED BY <1>1, <1>2, <1>3 DEF Marked

(* What is at the head of the innermost file.                                  *)
LEMMA StatementTyped ==
  ASSUME disk \in Disks, vars \in Seq(Frame), AtStatement
  PROVE  vars # <<>> /\ top \in Frame /\ statement \in Statement
<1>1. vars # <<>> /\ top \in Frame
  BY FrontType DEF top, AtStatement
<1>2. script \in Seq(Statement) /\ top.line \in Nat \ {0} /\ top.line <= Len(script)
  BY <1>1, DisksAssumption DEF script, Frame, AtStatement
<1> QED BY <1>1, <1>2, ElementOfSeq, LenProperties DEF statement

ReadTyped ==
  /\ disk \in Disks /\ blocks \in [Keys -> Block \cup {NoParams}]
  /\ vars \in Seq(Frame) /\ Marked(vars, Files) /\ (~reading => vars = <<>>)
  /\ Files \subseteq Paths /\ todo \in Seq(Paths) /\ reading \in BOOLEAN /\ status \in {0, 1}

LEMMA StoreTyped ==
  ASSUME ReadTyped, StoreParameters
  PROVE  blocks' \in [Keys -> Block \cup {NoParams}]
<1>1. top \in Frame /\ statement \in Statement /\ statement.cmd = "block"
  BY StatementTyped DEF ReadTyped, StoreParameters
<1>2. /\ statement.base \in Bases /\ statement.name \in Names /\ statement.units \in UnitNames
      /\ statement.entries \in Seq(Entries)
      /\ statement.eq \in {"NEW", "ADD", "REPLACE", "EXIST"}
  BY <1>1 DEF Statement
<1>3. BlockKey \in Keys /\ NewBlock \in Block /\ NewBlock.entries \in Seq(Entries)
  BY <1>1, <1>2 DEF BlockKey, NewBlock, Keys, Block, Frame
<1> DEFINE k == BlockKey
           b == NewBlock
<1>4. CASE blocks' = blocks
  BY <1>4 DEF ReadTyped
<1>5. CASE blocks' = [blocks EXCEPT ![k] = b]
  BY <1>3, <1>5 DEF ReadTyped
<1>6. CASE Defined(k) /\ blocks' = WithEntries(k, blocks[k].entries \o b.entries)
  <2>1. blocks[k] \in Block /\ blocks[k].entries \in Seq(Entries)
    BY <1>3, <1>6 DEF ReadTyped, Defined, Block
  <2>2. blocks[k].entries \o b.entries \in Seq(Entries)
    BY <1>3, <2>1, ConcatProperties
  <2> HIDE DEF k, b
  <2>3. [blocks[k] EXCEPT !.entries = blocks[k].entries \o b.entries] \in Block
    BY <2>1, <2>2 DEF Block
  <2> QED BY <1>3, <1>6, <2>3 DEF ReadTyped, WithEntries
<1>7. \/ blocks' = blocks
      \/ blocks' = [blocks EXCEPT ![k] = b]
      \/ Defined(k) /\ blocks' = WithEntries(k, blocks[k].entries \o b.entries)
  <2>1. blocks' = Stored(statement.eq, k, b) /\ ~(statement.eq = "NEW" /\ Defined(k))
    BY DEF StoreParameters
  <2> HIDE DEF k, b
  <2> QED BY <1>2, <2>1 DEF Stored
<1> QED BY <1>4, <1>5, <1>6, <1>7

(* A step of reading.                                                          *)
LEMMA ReadStepTyped ==
  ASSUME ReadTyped, ReadStep
  PROVE  ReadTyped'
<1>1. /\ disk \in Disks /\ blocks \in [Keys -> Block \cup {NoParams}]
      /\ vars \in Seq(Frame) /\ Marked(vars, Files) /\ (~reading => vars = <<>>)
      /\ Files \subseteq Paths /\ todo \in Seq(Paths) /\ reading \in BOOLEAN
      /\ status \in {0, 1}
  BY DEF ReadTyped
<1>2. CASE ReadNext
  <2>1. Head(todo) \in Paths /\ Tail(todo) \in Seq(Paths)
    BY <1>1, <1>2, HeadTailProperties DEF ReadNext
  <2>2. /\ vars' \in Seq(Frame) /\ Marked(vars', Files')
        /\ Files' \subseteq Paths /\ status' \in {0, 1}
    BY <1>1, <1>2, <2>1, readTyped DEF ReadNext
  <2> QED BY <1>1, <1>2, <2>1, <2>2 DEF ReadNext, ReadTyped, Frame
<1>3. CASE Include
  <2>1. vars # <<>> /\ top \in Frame /\ statement \in Statement /\ statement.cmd = "include"
    BY <1>1, <1>3, StatementTyped DEF Include
  <2>2. IncludedName \in Paths
    <3>1. statement.dir \in Dirs \cup {NoPath} /\ statement.file \in FileNames
      BY <2>1 DEF Statement
    <3>2. top.path \in Paths
      BY <1>1, <2>1, DisksAssumption DEF Frame
    <3> QED BY <3>1, <3>2 DEF IncludedName, Paths
  <2>3. Advance(top) \in Seq(Frame) /\ Marked(Advance(top), Files)
    BY <1>1, <2>1, Advanced
  <2>4. /\ vars' \in Seq(Frame) /\ Marked(vars', Files')
        /\ Files' \subseteq Paths /\ status' \in {0, 1}
    BY <1>1, <1>3, <2>2, <2>3, readTyped DEF Include
  <2>5. reading
    BY <1>1, <2>1
  <2> QED BY <1>1, <1>3, <2>4, <2>5 DEF Include, ReadTyped, Frame
<1>4. ASSUME NEW frame \in Frame, frame.file = top.file, vars # <<>>, vars' = Advance(frame),
             UNCHANGED <<disk, Files, todo, reading, status>>,
             blocks' \in [Keys -> Block \cup {NoParams}]
      PROVE  ReadTyped'
  <2>1. Advance(frame) \in Seq(Frame) /\ Marked(Advance(frame), Files)
    BY <1>1, <1>4, Advanced
  <2> QED BY <1>1, <1>4, <2>1 DEF ReadTyped, Frame
<1>5. CASE SetBase
  <2>1. vars # <<>> /\ top \in Frame /\ statement \in Statement /\ statement.cmd = "base"
    BY <1>1, <1>5, StatementTyped DEF SetBase
  <2> DEFINE frame == [top EXCEPT !.base = statement.base]
  <2>2. frame \in Frame /\ frame.file = top.file
    BY <2>1 DEF Frame, Statement
  <2> HIDE DEF frame
  <2> QED BY <1>1, <1>4, <1>5, <2>1, <2>2 DEF SetBase, frame
<1>6. CASE SetUnits
  <2>1. vars # <<>> /\ top \in Frame /\ statement \in Statement /\ statement.cmd = "units"
    BY <1>1, <1>6, StatementTyped DEF SetUnits
  <2> DEFINE frame == [top EXCEPT !.units = statement.units]
  <2>2. frame \in Frame /\ frame.file = top.file
    BY <2>1 DEF Frame, Statement
  <2> HIDE DEF frame
  <2> QED BY <1>1, <1>4, <1>6, <2>1, <2>2 DEF SetUnits, frame
<1>7. CASE StoreParameters
  BY <1>1, <1>4, <1>7, StatementTyped, StoreTyped DEF StoreParameters
<1>8. CASE BadStatement \/ AlreadyDefined
  BY <1>1, <1>8 DEF BadStatement, AlreadyDefined, ReadTyped, Frame
<1>9. CASE CloseFile
  <2>1. vars # <<>> /\ vars' = Front(vars)
    BY <1>9 DEF CloseFile
  <2>2. /\ vars' \in Seq(Frame) /\ Len(vars') = Len(vars) - 1 /\ Len(vars) \in Nat \ {0}
        /\ \A i \in 1 .. Len(vars) - 1 : vars'[i] = vars[i]
    BY <1>1, <2>1, FrontType
  <2>3. Marked(vars', Files)
    BY <1>1, <2>2 DEF Marked
  <2> QED BY <1>1, <1>9, <2>1, <2>2, <2>3 DEF CloseFile, ReadTyped, Frame
<1>10. CASE ReadReturn
  BY <1>1, <1>10 DEF ReadReturn, ReadTyped, Frame
<1> QED BY <1>2, <1>3, <1>5, <1>6, <1>7, <1>8, <1>9, <1>10 DEF ReadStep

(*******************************************************************************)
(* The calls of Use.                                                           *)
(*******************************************************************************)
ACall == [key : Keys, old : Seq(Entries), v : Names, count : 0 .. Levels, status : {0, -1}]
Blocks == [Keys -> Block \cup {NoParams}]

(* The blocks of the calls cs are defined in b.                                *)
Under(b, cs) == \A i \in 1 .. Len(cs) : b[cs[i].key] \in Block

UseTyped ==
  /\ blocks \in Blocks /\ calls \in Seq(ACall) /\ Under(blocks, calls) /\ returned \in Int

LEMMA BlockOrNot ==
  ASSUME NEW b \in Blocks, NEW k \in Keys
  PROVE  /\ b[k].entries \in Seq(Entries)
         /\ b[k] # NoParams => b[k] \in Block
<1>1. CASE b[k] = NoParams
  BY <1>1, EmptySeq DEF NoParams
<1>2. CASE b[k] \in Block
  BY <1>2 DEF Block
<1> QED BY <1>1, <1>2 DEF Blocks

(* The number of directives of a block.                                        *)
LEMMA UseNat ==
  ASSUME NEW s \in Seq(Entries)
  PROVE  Use(s) \in Nat
<1>1. UsesOf(s) \subseteq 1 .. Len(s) /\ Len(s) \in Nat
  BY LenProperties DEF UsesOf
<1>2. IsFiniteSet(1 .. Len(s)) /\ UsesOf(s) \in SUBSET (1 .. Len(s))
  BY <1>1, FS_Interval
<1>3. IsFiniteSet(UsesOf(s))
  BY <1>2, FS_Subset
<1> QED BY <1>3, FS_CardinalityType DEF Use

LEMMA WithEntriesTyped ==
  ASSUME blocks \in Blocks, NEW k \in Keys, blocks[k] \in Block, NEW s \in Seq(Entries)
  PROVE  /\ WithEntries(k, s) \in Blocks
         /\ \A l \in Keys : blocks[l] \in Block => WithEntries(k, s)[l] \in Block
<1>1. [blocks[k] EXCEPT !.entries = s] \in Block
  BY DEF Block
<1> QED BY <1>1 DEF WithEntries, Blocks

LEMMA CallKey ==
  ASSUME NEW cs \in Seq(ACall), NEW i \in 1 .. Len(cs)
  PROVE  cs[i].key \in Keys
<1>1. cs[i] \in ACall
  BY ElementOfSeq
<1> QED BY <1>1 DEF ACall

LEMMA EnterTyped ==
  ASSUME NEW b \in Blocks, NEW k \in Keys, b[k] \in Block, NEW n \in 0 .. Levels,
         NEW outer \in Seq(ACall), Under(b, outer), Enter(b, k, n, outer)
  PROVE  UseTyped'
<1>1. CASE NothingToUse(b, k, outer)
  BY <1>1 DEF NothingToUse, UseTyped
<1>2. CASE TooManyLevels(b, k, n, outer)
  BY <1>2 DEF TooManyLevels, UseTyped
<1>3. CASE Transfer(b, k, n, outer)
  <2> DEFINE c == Call(k, b[k].entries, n - 1)
  <2>1. /\ blocks' = [b EXCEPT ![k].entries = <<>>] /\ n > 0
        /\ calls' = Append(outer, c) /\ returned' \in Int
    BY <1>3 DEF Transfer, NoValue
  <2>2. [b[k] EXCEPT !.entries = <<>>] \in Block
    BY EmptySeq DEF Block
  <2>3. blocks' \in Blocks /\ \A l \in Keys : b[l] \in Block => blocks'[l] \in Block
    BY <2>1, <2>2 DEF Blocks
  <2>4. b[k].entries \in Seq(Entries) /\ k[2] \in Names /\ n - 1 \in 0 .. Levels
    BY <2>1, BlockOrNot, LevelsAssumption DEF Keys
  <2>5. c \in ACall /\ c.key = k
    BY <2>4 DEF Call, ACall
  <2> HIDE DEF c
  <2>6. /\ calls' \in Seq(ACall) /\ Len(calls') = Len(outer) + 1 /\ Len(outer) \in Nat
        /\ \A i \in 1 .. Len(outer) : calls'[i] = outer[i]
        /\ calls'[Len(outer) + 1] = c
    BY <2>1, <2>5, AppendProperties, LenProperties
  <2>7. \A i \in 1 .. Len(outer) : outer[i].key \in Keys
    BY CallKey
  <2>8. Under(blocks', calls')
    BY <2>3, <2>5, <2>6, <2>7 DEF Under
  <2> QED BY <2>1, <2>3, <2>6, <2>8 DEF UseTyped
<1> QED BY <1>1, <1>2, <1>3 DEF Enter

(* The innermost call, and what may replace it.                                *)
LEMMA InnerTyped ==
  ASSUME UseTyped, calls # <<>>
  PROVE  /\ inner \in ACall /\ inner.key \in Keys /\ blocks[inner.key] \in Block
         /\ \A c \in ACall : c.key = inner.key =>
              /\ Outer(c) \in Seq(ACall)
              /\ \A b : (\A k \in Keys : blocks[k] \in Block => b[k] \in Block) => Under(b, Outer(c))
<1>1. /\ Len(calls) \in Nat \ {0} /\ inner = calls[Len(calls)] /\ inner \in ACall
      /\ calls \in Seq(ACall) /\ Under(blocks, calls)
  BY FrontType DEF UseTyped, inner
<1>2. Len(calls) \in 1 .. Len(calls)
  BY <1>1
<1>3. inner.key \in Keys /\ blocks[inner.key] \in Block
  BY <1>1, <1>2 DEF ACall, Under
<1>4. ASSUME NEW c \in ACall, c.key = inner.key
      PROVE  /\ Outer(c) \in Seq(ACall) /\ Len(Outer(c)) = Len(calls)
             /\ \A i \in 1 .. Len(calls) : Outer(c)[i].key = calls[i].key
  BY <1>1, <1>2, <1>4, ExceptSeq DEF Outer
<1>5. \A i \in 1 .. Len(calls) : calls[i].key \in Keys /\ blocks[calls[i].key] \in Block
  BY <1>1, CallKey DEF Under
<1>6. ASSUME NEW c \in ACall, c.key = inner.key, NEW b,
             \A k \in Keys : blocks[k] \in Block => b[k] \in Block
      PROVE  Under(b, Outer(c))
  BY <1>4, <1>5, <1>6 DEF Under
<1> QED BY <1>1, <1>3, <1>4, <1>6

LEMMA UseStepTyped ==
  ASSUME UseTyped, UseStep
  PROVE  UseTyped'
<1>1. calls # <<>>
  BY DEF UseStep, CopyParam, UseNotFound, UseNamed, ReplaceUse, KeepUse, UseReturn,
         Iterating, Resuming
<1>2. /\ inner \in ACall /\ inner.key \in Keys /\ blocks[inner.key] \in Block
      /\ blocks \in Blocks /\ calls \in Seq(ACall)
      /\ blocks[inner.key].entries \in Seq(Entries)
  BY <1>1, InnerTyped, BlockOrNot DEF UseTyped
<1>3. /\ inner.old \in Seq(Entries) /\ inner.v \in Names /\ inner.count \in 0 .. Levels
      /\ inner.key[1] \in Bases /\ inner.status \in {0, -1}
  BY <1>2 DEF ACall, Keys
<1>4. ASSUME Iterating
      PROVE  /\ entry \in Entries /\ Tail(inner.old) \in Seq(Entries)
             /\ Copied \in Blocks /\ \A l \in Keys : blocks[l] \in Block => Copied[l] \in Block
  <2>1. entry \in Entries /\ Tail(inner.old) \in Seq(Entries)
    BY <1>3, <1>4, HeadTailProperties DEF Iterating, entry
  <2>2. Append(blocks[inner.key].entries, entry) \in Seq(Entries)
    BY <1>2, <2>1, AppendProperties
  <2> QED BY <1>2, <2>1, <2>2, WithEntriesTyped DEF Copied
<1>5. CASE CopyParam \/ UseNotFound
  <2> DEFINE c == [inner EXCEPT !.old = Tail(@)]
  <2>1. Iterating /\ blocks' = Copied /\ calls' = Outer(c) /\ returned' = returned
    BY <1>5 DEF CopyParam, UseNotFound
  <2>2. c \in ACall /\ c.key = inner.key
    BY <1>2, <1>4, <2>1 DEF ACall
  <2> HIDE DEF c
  <2> QED BY <1>1, <1>4, <2>1, <2>2, InnerTyped DEF UseTyped
<1>6. CASE UseNamed
  <2> DEFINE c == [inner EXCEPT !.old = Tail(@), !.v = entry]
  <2>1. /\ Iterating /\ entry \in Names /\ Defined(Named)
        /\ Enter(Copied, Named, inner.count, Outer(c))
    BY <1>6 DEF UseNamed
  <2>2. c \in ACall /\ c.key = inner.key
    BY <1>2, <1>4, <2>1 DEF ACall
  <2>3. Named \in Keys
    BY <1>3, <2>1 DEF Named, Keys
  <2>4. Copied[Named] \in Block
    BY <1>2, <1>4, <2>1, <2>3, BlockOrNot DEF Defined
  <2> HIDE DEF c
  <2>5. Outer(c) \in Seq(ACall) /\ Under(Copied, Outer(c))
    BY <1>1, <1>4, <2>1, <2>2, InnerTyped
  <2> QED BY <1>3, <1>4, <2>1, <2>3, <2>4, <2>5, EnterTyped
<1>7. CASE ReplaceUse
  <2> DEFINE s == Front(blocks[inner.key].entries) \o Uparams.entries
  <2>1. blocks' = WithEntries(inner.key, s) /\ calls' = calls /\ returned' \in Int
    BY <1>7 DEF ReplaceUse, NoValue
  <2>2. Front(blocks[inner.key].entries) \in Seq(Entries)
    <3>1. CASE blocks[inner.key].entries = <<>>
      BY <3>1, SubSeqEmpty, EmptySeq DEF Front
    <3>2. CASE blocks[inner.key].entries # <<>>
      BY <1>2, <3>2, FrontType
    <3> QED BY <3>1, <3>2
  <2>3. Uparams.entries \in Seq(Entries)
    BY <1>2, <1>3, BlockOrNot DEF Uparams, Keys
  <2>4. s \in Seq(Entries)
    BY <2>2, <2>3, ConcatProperties
  <2> HIDE DEF s
  <2>5. blocks' \in Blocks /\ \A l \in Keys : blocks[l] \in Block => blocks'[l] \in Block
    BY <1>2, <2>1, <2>4, WithEntriesTyped
  <2>6. \A i \in 1 .. Len(calls) : calls[i].key \in Keys
    BY <1>2, CallKey
  <2> QED BY <1>2, <2>1, <2>5, <2>6 DEF UseTyped, Under
<1>8. CASE KeepUse
  <2> DEFINE c == [inner EXCEPT !.status = -1]
  <2>1. blocks' = blocks /\ calls' = Outer(c) /\ returned' \in Int
    BY <1>8 DEF KeepUse, NoValue
  <2>2. c \in ACall /\ c.key = inner.key
    BY <1>2 DEF ACall
  <2> HIDE DEF c
  <2> QED BY <1>1, <1>2, <2>1, <2>2, InnerTyped DEF UseTyped
<1>9. CASE UseReturn
  <2>1. blocks' = blocks /\ calls' = Front(calls)
    BY <1>9 DEF UseReturn
  <2>2. returned' \in Int
    BY <1>2, <1>9, UseNat DEF UseReturn
  <2>3. /\ calls' \in Seq(ACall) /\ Len(calls') = Len(calls) - 1 /\ Len(calls) \in Nat \ {0}
        /\ \A i \in 1 .. Len(calls) - 1 : calls'[i] = calls[i]
    BY <1>1, <1>2, <2>1, FrontType
  <2> QED BY <1>2, <2>1, <2>2, <2>3 DEF UseTyped, Under
<1> QED BY <1>5, <1>6, <1>7, <1>8, <1>9 DEF UseStep

(*******************************************************************************)
(* The calls of the client.                                                    *)
(*******************************************************************************)
FetchTyped ==
  /\ obj \in [Keys -> Seq(Entries) \cup {NULL}]
  /\ fetch = NoFetch \/ fetch \in [kind : Kinds, key : Keys]
  /\ answer \in Seq(Entries) \cup {NULL}
  /\ asked \in 0 .. MaxCalls /\ promise.within \in BOOLEAN /\ failed \in BOOLEAN

(* One call at a time: no block is expanded while files are read.              *)
Sequential ==
  /\ reading => ~Fetching
  /\ ~Fetching => calls = <<>>

IInv == ReadTyped /\ UseTyped /\ FetchTyped /\ Sequential

LEMMA IInvGives == IInv => TypeOK /\ OpenOnce
<1> SUFFICES ASSUME IInv
             PROVE  TypeOK /\ OpenOnce
  OBVIOUS
<1>1. OpenOnce
  BY MarkedIsOpenOnce DEF IInv, ReadTyped
<1>2. TypeOK
  BY DEF IInv, ReadTyped, UseTyped, FetchTyped, TypeOK, Frame, ACall, Blocks
<1> QED BY <1>1, <1>2

LEMMA NewFetch ==
  ASSUME NEW kind \in Kinds, NEW k
  PROVE  [kind |-> kind, key |-> k] # NoFetch
BY DEF Kinds, NoFetch

(* A step of Read while nothing is fetched.                                    *)
LEMMA ReadingInv ==
  ASSUME IInv, Reading
  PROVE  IInv'
<1>1. reading /\ ReadTyped'
  <2>1. reading
    BY DEF IInv, ReadTyped, Reading, ReadStep, ReadNext, Include, SetBase, SetUnits, BadStatement,
           StoreParameters, AlreadyDefined, CloseFile, ReadReturn, AtStatement
  <2> QED BY <2>1, ReadStepTyped DEF IInv, Reading
<1>2. calls = <<>> /\ ~Fetching
  BY <1>1 DEF IInv, Sequential
<1>3. UNCHANGED <<use_vars, obj, fetch, answer, promise, asked>> /\ failed' \in BOOLEAN
  BY DEF Reading, Unfetched, IInv, FetchTyped
<1>4. UseTyped'
  BY <1>1, <1>2, <1>3, EmptySeq DEF UseTyped, IInv, use_vars, Under, ReadTyped, Blocks
<1>5. FetchTyped' /\ Sequential'
  BY <1>2, <1>3 DEF IInv, FetchTyped, Sequential, Fetching, use_vars
<1> QED BY <1>1, <1>4, <1>5 DEF IInv

(* The end of a fetch.                                                         *)
LEMMA GiveInv ==
  ASSUME IInv, Expanded, NEW ans \in Seq(Entries) \cup {NULL}, Give(ans),
         obj' \in [Keys -> Seq(Entries) \cup {NULL}]
  PROVE  IInv'
<1>1. /\ fetch' = NoFetch /\ answer' = ans /\ promise' = NoPromise /\ returned' \in Int
      /\ UNCHANGED <<blocks, read_vars, calls, asked, failed>>
      /\ calls = <<>>
  BY DEF Give, Expanded, NoValue
<1>2. ReadTyped'
  BY <1>1 DEF IInv, ReadTyped, read_vars, Frame
<1>3. UseTyped'
  BY <1>1 DEF IInv, UseTyped
<1>4. FetchTyped' /\ Sequential'
  BY <1>1 DEF IInv, FetchTyped, NoPromise, Sequential, Fetching
<1> QED BY <1>2, <1>3, <1>4 DEF IInv

(* What leaves the files alone keeps what is known of them.                    *)
LEMMA Unread ==
  ASSUME ReadTyped, UNCHANGED read_vars, blocks' \in Blocks
  PROVE  ReadTyped'
BY DEF ReadTyped, read_vars, Frame, Blocks

(* Every call keeps the types, for every disk, every list of files and every   *)
(* depth of levels.                                                            *)
THEOREM Invariance == Spec => []IInv
<1>1. Init => IInv
  <2> SUFFICES ASSUME Init
               PROVE  IInv
    OBVIOUS
  <2>1. /\ blocks \in [Keys -> Block \cup {NoParams}]
        /\ obj \in [Keys -> Seq(Entries) \cup {NULL}]
    BY DEF Init
  <2>2. ReadTyped
    <3>1. vars \in Seq(Frame) /\ todo \in Seq(Paths) /\ Len(vars) = 0
      BY EmptySeq DEF Init
    <3>2. Marked(vars, Files)
      BY <3>1 DEF Marked
    <3>3. disk \in Disks /\ Files \subseteq Paths /\ reading \in BOOLEAN /\ status \in {0, 1}
      BY DEF Init
    <3>4. ~reading => vars = <<>>
      BY DEF Init
    <3> QED BY <2>1, <3>1, <3>2, <3>3, <3>4 DEF ReadTyped
  <2>3. UseTyped
    BY <2>1, EmptySeq DEF Init, UseTyped, Under, Blocks, NoValue
  <2>4. FetchTyped /\ Sequential
    <3>1. fetch = NoFetch /\ answer = NULL /\ asked = 0 /\ promise = NoPromise /\ failed = FALSE
          /\ calls = <<>> /\ reading = FALSE
      BY DEF Init
    <3>2. promise.within = FALSE /\ asked \in 0 .. MaxCalls
      BY <3>1, CallsAssumption DEF NoPromise
    <3> QED BY <2>1, <3>1, <3>2 DEF FetchTyped, Sequential, Fetching
  <2> QED BY <2>2, <2>3, <2>4 DEF IInv
<1>2. IInv /\ [Next]_vars_all => IInv'
  <2> SUFFICES ASSUME IInv, [Next]_vars_all
               PROVE  IInv'
    OBVIOUS
  <2>1. ASSUME NewCall
        PROVE  ~reading /\ ~Fetching /\ calls = <<>> /\ asked' \in 0 .. MaxCalls
    BY <2>1, CallsAssumption DEF NewCall, Idle, IInv, Sequential, FetchTyped
  <2>2. CASE CallRead
    <3>1. PICK list \in Lists : Read(list)
      BY <2>2 DEF CallRead
    <3>2. /\ NewCall /\ UNCHANGED <<use_vars, obj, fetch, answer, promise, failed, disk, Files, blocks>>
      BY <2>2, <3>1 DEF CallRead, Unfetched, Read
    <3>3. ReadTyped'
      BY <3>1, <3>2, DisksAssumption, EmptySeq DEF Read, IInv, ReadTyped, Marked, Frame
    <3>4. UseTyped' /\ FetchTyped' /\ Sequential'
      BY <2>1, <3>2 DEF IInv, UseTyped, FetchTyped, Sequential, Fetching, use_vars
    <3> QED BY <3>3, <3>4 DEF IInv
  <2>3. CASE Fetch
    <3>1. PICK kind \in Kinds, k \in Keys :
            NotFound(kind, k) \/ Kept(kind, k) \/ NotLoaded(kind, k) \/ Expand(kind, k)
      BY <2>3 DEF Fetch
    <3>2. NewCall /\ UNCHANGED <<read_vars, failed>>
      BY <2>3, <3>1 DEF Fetch, NotFound, Kept, NotLoaded, Expand
    <3>3. CASE NotFound(kind, k) \/ Kept(kind, k) \/ NotLoaded(kind, k)
      <4>1. answer' \in Seq(Entries) \cup {NULL}
            /\ UNCHANGED <<blocks, use_vars, obj, fetch, promise>>
        BY <3>3 DEF NotFound, Kept, NotLoaded, IInv, FetchTyped
      <4>2. ReadTyped'
        BY <3>2, <4>1, Unread DEF IInv, UseTyped
      <4>3. UseTyped' /\ FetchTyped' /\ Sequential'
        BY <2>1, <3>2, <4>1
           DEF IInv, UseTyped, FetchTyped, Sequential, Fetching, use_vars, read_vars
      <4> QED BY <4>2, <4>3 DEF IInv
    <3>4. CASE Expand(kind, k)
      <4>1. blocks \in Blocks /\ blocks[k] \in Block
        BY <3>4, BlockOrNot DEF IInv, UseTyped, Expand, Defined
      <4>2. Enter(blocks, k, Levels, <<>>) /\ Levels \in 0 .. Levels
        BY <3>4, LevelsAssumption DEF Expand
      <4>3. UseTyped'
        <5>1. <<>> \in Seq(ACall) /\ Under(blocks, <<>>)
          BY EmptySeq DEF Under
        <5> QED BY <4>1, <4>2, <5>1, EnterTyped
      <4>4. ReadTyped'
        BY <3>2, <4>3, Unread DEF IInv, UseTyped
      <4>5. /\ fetch' = [kind |-> kind, key |-> k] /\ promise'.within \in BOOLEAN
            /\ UNCHANGED <<obj, answer>>
        BY <3>4 DEF Expand
      <4>6. FetchTyped'
        BY <2>1, <3>2, <4>5 DEF IInv, FetchTyped
      <4>7. Sequential'
        BY <2>1, <3>2, <4>5, NewFetch DEF Sequential, Fetching, read_vars, NoFetch
      <4> QED BY <4>3, <4>4, <4>6, <4>7 DEF IInv
    <3> QED BY <3>1, <3>3, <3>4
  <2>4. CASE Reading
    BY <2>4, ReadingInv
  <2>5. CASE Expanding
    <3>1. UseTyped'
      BY <2>5, UseStepTyped DEF Expanding, IInv
    <3>2. UNCHANGED <<read_vars, obj, fetch, answer, asked, promise, failed>>
      BY <2>5 DEF Expanding
    <3>3. ReadTyped'
      BY <3>1, <3>2, Unread DEF IInv, UseTyped
    <3>4. FetchTyped'
      BY <3>2 DEF IInv, FetchTyped
    <3>5. calls # <<>>
      BY <2>5 DEF Expanding, UseStep, CopyParam, UseNotFound, UseNamed, ReplaceUse, KeepUse,
                  UseReturn, Iterating, Resuming
    <3>6. Sequential'
      BY <3>2, <3>5 DEF IInv, Sequential, Fetching, read_vars, NoFetch
    <3> QED BY <3>1, <3>3, <3>4, <3>6 DEF IInv
  <2>6. CASE Answering
    <3>1. Expanded /\ fetch.key \in Keys
      BY <2>6 DEF Answering, UseFailed, GiveParams, InitializeFailed, GiveObj,
                  Expanded, Fetching, IInv, FetchTyped
    <3>2. expanded \in Seq(Entries)
      BY <3>1, BlockOrNot DEF expanded, IInv, UseTyped
    <3>3. obj \in [Keys -> Seq(Entries) \cup {NULL}]
      BY DEF IInv, FetchTyped
    <3>4. obj' \in [Keys -> Seq(Entries) \cup {NULL}]
      BY <2>6, <3>1, <3>2, <3>3 DEF Answering, UseFailed, GiveParams, InitializeFailed, GiveObj
    <3>5. Give(NULL) \/ Give(expanded)
      BY <2>6 DEF Answering, UseFailed, GiveParams, InitializeFailed, GiveObj
    <3> QED BY <3>1, <3>2, <3>4, <3>5, GiveInv
  <2>7. CASE UNCHANGED vars_all
    BY <2>7 DEF vars_all, read_vars, use_vars, IInv, ReadTyped, Frame, UseTyped, FetchTyped,
                Sequential, Fetching
  <2> QED BY <2>2, <2>3, <2>4, <2>5, <2>6, <2>7 DEF Next, Working
<1> QED BY <1>1, <1>2, PTL DEF Spec

(* The variables keep their types.                                             *)
THEOREM TypeCorrect == Spec => []TypeOK
BY Invariance, IInvGives, PTL

(* Whatever files include each other, no file is opened while it is open, and  *)
(* every file that is open is marked; so a chain of includes ends.             *)
THEOREM NeverOpenTwice == Spec => []OpenOnce
BY Invariance, IInvGives, PTL

(*******************************************************************************)
(* The scope of .base and .units.                                              *)
(*******************************************************************************)
(* The base and the units of an open file are the last ones it set itself.     *)
Scoped(frame) ==
  /\ frame.base = LastSet(disk[frame.path], frame.line, "base", NoBase)
  /\ frame.units = LastSet(disk[frame.path], frame.line, "units", NoUnits)

AllScoped(s) == \A i \in 1 .. Len(s) : Scoped(s[i])

ScopeInv == AllScoped(vars) /\ IncludeScope

LEMMA LastSetFirst ==
  ASSUME NEW s, NEW cmd, NEW none
  PROVE  LastSet(s, 1, cmd, none) = none
<1>1. {j \in 1 .. 1 - 1 : s[j].cmd = cmd} = {}
  OBVIOUS
<1> QED BY <1>1 DEF LastSet

LEMMA LastSetNext ==
  ASSUME NEW s, NEW i \in Nat \ {0}, NEW cmd, NEW none
  PROVE  LastSet(s, i + 1, cmd, none)
           = IF s[i].cmd = cmd THEN s[i][cmd] ELSE LastSet(s, i, cmd, none)
<1>1. CASE s[i].cmd # cmd
  <2>1. {j \in 1 .. (i + 1) - 1 : s[j].cmd = cmd} = {j \in 1 .. i - 1 : s[j].cmd = cmd}
    BY <1>1
  <2> DEFINE Among(x) == IF x = {} THEN none
                         ELSE s[CHOOSE j \in x : \A l \in x : l <= j][cmd]
  <2>2. LastSet(s, i + 1, cmd, none) = Among({j \in 1 .. (i + 1) - 1 : s[j].cmd = cmd})
    BY Zenon DEF LastSet
  <2>3. LastSet(s, i, cmd, none) = Among({j \in 1 .. i - 1 : s[j].cmd = cmd})
    BY Zenon DEF LastSet
  <2> HIDE DEF Among
  <2> QED BY <1>1, <2>1, <2>2, <2>3, Zenon
<1>2. CASE s[i].cmd = cmd
  <2> DEFINE before == {j \in 1 .. (i + 1) - 1 : s[j].cmd = cmd}
             last == CHOOSE j \in before : \A l \in before : l <= j
  <2>1. i \in before /\ \A j \in before : j \in Int /\ j <= i
    BY <1>2
  <2>2. last \in before /\ \A l \in before : l <= last
    <3> HIDE DEF before
    <3> QED BY <2>1
  <2>3. last = i
    <3> HIDE DEF last, before
    <3>1. last \in Int /\ last <= i /\ i <= last
      BY <2>1, <2>2
    <3> QED BY <3>1
  <2>4. before # {}
    BY <2>1
  <2>5. LastSet(s, i + 1, cmd, none) = s[last][cmd]
    BY <2>4, Zenon DEF LastSet
  <2> QED BY <1>2, <2>3, <2>5
<1> QED BY <1>1, <1>2

(* The blocks that are defined in c are so in b, with the same units.          *)
SameUnits(b, c) ==
  \A l \in Keys : c[l] # NoParams => b[l] # NoParams /\ c[l].units = b[l].units

LEMMA ScopeKept ==
  ASSUME IncludeScope, disk' = disk, SameUnits(blocks, blocks')
  PROVE  IncludeScope'
BY DEF IncludeScope, SameUnits, Defined

LEMMA WithEntriesUnits ==
  ASSUME NEW b \in Blocks, NEW k \in Keys, b[k] \in Block, NEW s
  PROVE  SameUnits(b, [b EXCEPT ![k].entries = s])
<1>1. b[k] # NoParams
  <2>1. "units" \in DOMAIN b[k] /\ "units" \notin DOMAIN NoParams
    BY DEF Block, NoParams
  <2> QED BY <2>1
<1> QED BY <1>1 DEF SameUnits, Blocks, Block

LEMMA EnterUnits ==
  ASSUME NEW b \in Blocks, NEW k \in Keys, b[k] \in Block, NEW n, NEW outer,
         Enter(b, k, n, outer)
  PROVE  SameUnits(b, blocks')
<1>1. CASE blocks' = b
  BY <1>1 DEF SameUnits
<1>2. CASE blocks' = [b EXCEPT ![k].entries = <<>>]
  BY <1>2, WithEntriesUnits
<1> QED BY <1>1, <1>2 DEF Enter, NothingToUse, TooManyLevels, Transfer

(* The expansion of :use changes the units of no block.                        *)
LEMMA UseStepUnits ==
  ASSUME UseTyped, UseStep
  PROVE  SameUnits(blocks, blocks')
<1>1. calls # <<>>
  BY DEF UseStep, CopyParam, UseNotFound, UseNamed, ReplaceUse, KeepUse, UseReturn,
         Iterating, Resuming
<1>2. /\ inner \in ACall /\ inner.key \in Keys /\ blocks[inner.key] \in Block
      /\ blocks \in Blocks /\ blocks[inner.key].entries \in Seq(Entries)
  BY <1>1, InnerTyped, BlockOrNot DEF UseTyped
<1>3. SameUnits(blocks, Copied)
  BY <1>2, WithEntriesUnits DEF Copied, WithEntries
<1>4. CASE CopyParam \/ UseNotFound
  BY <1>3, <1>4 DEF CopyParam, UseNotFound
<1>5. CASE UseNamed
  <2>1. /\ Iterating /\ entry \in Names /\ Defined(Named)
        /\ Enter(Copied, Named, inner.count, Outer([inner EXCEPT !.old = Tail(@), !.v = entry]))
    BY <1>5 DEF UseNamed
  <2>2. inner.old \in Seq(Entries) /\ inner.key[1] \in Bases
    BY <1>2 DEF ACall, Keys
  <2>3. entry \in Entries
    BY <2>1, <2>2, HeadTailProperties DEF Iterating, entry
  <2>4. Append(blocks[inner.key].entries, entry) \in Seq(Entries)
    BY <1>2, <2>3, AppendProperties
  <2>5. Copied \in Blocks /\ \A l \in Keys : blocks[l] \in Block => Copied[l] \in Block
    BY <1>2, <2>4, WithEntriesTyped DEF Copied
  <2>6. Named \in Keys
    BY <2>1, <2>2 DEF Named, Keys
  <2>7. Copied[Named] \in Block
    BY <1>2, <2>1, <2>5, <2>6, BlockOrNot DEF Defined
  <2>8. SameUnits(Copied, blocks')
    BY <2>1, <2>5, <2>6, <2>7, EnterUnits
  <2> QED BY <1>3, <2>8 DEF SameUnits
<1>6. CASE ReplaceUse
  BY <1>2, <1>6, WithEntriesUnits DEF ReplaceUse, WithEntries
<1>7. CASE KeepUse \/ UseReturn
  BY <1>7 DEF KeepUse, UseReturn, SameUnits
<1> QED BY <1>4, <1>5, <1>6, <1>7 DEF UseStep

(* A file that is opened has set nothing yet.                                  *)
LEMMA readScoped ==
  ASSUME NEW rest \in Seq(Frame), AllScoped(rest), NEW file \in Paths, read(file, rest)
  PROVE  AllScoped(vars')
<1>1. CASE vars' = rest
  BY <1>1
<1>2. ASSUME NEW path \in PathOf(file), vars' = Append(rest, Opened(file, path))
      PROVE  AllScoped(vars')
  <2>1. Opened(file, path) \in Frame
    BY BaseAssumption, UnitsAssumption DEF Opened, Frame, PathOf
  <2>2. /\ Len(vars') = Len(rest) + 1 /\ Len(rest) \in Nat
        /\ \A i \in 1 .. Len(rest) : vars'[i] = rest[i]
        /\ vars'[Len(rest) + 1] = Opened(file, path)
    BY <1>2, <2>1, AppendProperties, LenProperties
  <2>3. Scoped(Opened(file, path))
    BY LastSetFirst DEF Scoped, Opened
  <2> QED BY <2>2, <2>3 DEF AllScoped
<1> QED BY <1>1, <1>2 DEF read, SkipFile, OpenFile, OpenFails

(* The innermost file has seen its statement.                                  *)
LEMMA AdvancedScoped ==
  ASSUME ReadTyped, AllScoped(vars), AtStatement,
         NEW frame \in Frame, frame.path = top.path, frame.line = top.line,
         frame.base = IF statement.cmd = "base" THEN statement.base ELSE top.base,
         frame.units = IF statement.cmd = "units" THEN statement.units ELSE top.units
  PROVE  AllScoped(Advance(frame))
<1> DEFINE next == [frame EXCEPT !.line = @ + 1]
<1>1. /\ Len(vars) \in Nat \ {0} /\ top = vars[Len(vars)] /\ top \in Frame
      /\ vars \in Seq(Frame)
  BY FrontType DEF top, ReadTyped, AtStatement
<1>2. Scoped(top) /\ statement = disk[top.path][top.line] /\ top.line \in Nat \ {0}
  BY <1>1 DEF AllScoped, statement, script, Frame
<1>3. /\ next \in Frame /\ next.path = top.path /\ next.line = top.line + 1
      /\ next.base = frame.base /\ next.units = frame.units
  BY <1>2 DEF Frame
<1> HIDE DEF next
<1>4. next.base = LastSet(disk[next.path], next.line, "base", NoBase)
  BY <1>2, <1>3, LastSetNext DEF Scoped
<1>5. next.units = LastSet(disk[next.path], next.line, "units", NoUnits)
  BY <1>2, <1>3, LastSetNext DEF Scoped
<1>6. /\ Len(Advance(frame)) = Len(vars)
      /\ \A j \in 1 .. Len(vars) :
           Advance(frame)[j] = IF j = Len(vars) THEN next ELSE vars[j]
  <2>1. Len(vars) \in 1 .. Len(vars)
    BY <1>1
  <2> QED BY <1>1, <1>3, <2>1, ExceptSeq DEF Advance, next
<1> QED BY <1>4, <1>5, <1>6 DEF AllScoped, Scoped

(* A block that is stored has the base and the units its file states.          *)
LEMMA StoreScoped ==
  ASSUME ReadTyped, ScopeInv, StoreParameters
  PROVE  IncludeScope'
<1>1. /\ AtStatement /\ statement.cmd = "block" /\ disk' = disk
      /\ blocks' = Stored(statement.eq, BlockKey, NewBlock)
      /\ ~(statement.eq = "NEW" /\ Defined(BlockKey))
  BY DEF StoreParameters
<1>2. vars # <<>> /\ top \in Frame /\ statement \in Statement
  BY <1>1, StatementTyped DEF ReadTyped
<1>3. /\ Len(vars) \in Nat \ {0} /\ top = vars[Len(vars)]
  BY <1>2, FrontType DEF top, ReadTyped
<1>4. Scoped(top)
  BY <1>3 DEF ScopeInv, AllScoped
<1>5. /\ top.path \in DOMAIN disk /\ top.line \in Nat \ {0} /\ top.line <= Len(script)
      /\ script = disk[top.path] /\ script \in Seq(Statement)
      /\ statement = disk[top.path][top.line]
  BY <1>1, <1>2, DisksAssumption DEF Frame, ReadTyped, AtStatement, script, statement
<1>6. top.line \in Statements(disk[top.path])
  BY <1>1, <1>5, LenProperties DEF Statements
<1>7. /\ KeyAt(disk[top.path], top.line) = BlockKey
      /\ UnitsAt(disk[top.path], top.line) = NewBlock.units
  BY <1>4, <1>5 DEF KeyAt, UnitsAt, BlockKey, NewBlock, Scoped
<1>8. /\ statement.eq \in {"NEW", "ADD", "REPLACE", "EXIST"} /\ BlockKey \in Keys
      /\ blocks \in Blocks
  BY <1>1, <1>2 DEF Statement, BlockKey, Keys, Frame, ReadTyped, Blocks
<1> DEFINE k == BlockKey
           b == NewBlock
<1>9. ASSUME NEW l \in Keys, blocks'[l] # NoParams
      PROVE  \/ l = k /\ blocks'[l].units = b.units
             \/ blocks[l] # NoParams /\ blocks'[l].units = blocks[l].units
  <2> HIDE DEF k, b
  <2>1. CASE blocks' = [blocks EXCEPT ![k] = b]
    BY <1>8, <1>9, <2>1 DEF Blocks
  <2>2. CASE blocks' = blocks
    BY <1>9, <2>2
  <2>3. CASE blocks' = WithEntries(k, blocks[k].entries \o b.entries) /\ Defined(k)
    <3>1. k \in Keys /\ blocks[k] \in Block
      BY <1>8, <2>3, BlockOrNot DEF Defined, k
    <3>2. SameUnits(blocks, blocks')
      BY <1>8, <2>3, <3>1, WithEntriesUnits DEF WithEntries
    <3> QED BY <1>9, <3>2 DEF SameUnits
  <2>4. \/ blocks' = [blocks EXCEPT ![k] = b] \/ blocks' = blocks
        \/ blocks' = WithEntries(k, blocks[k].entries \o b.entries) /\ Defined(k)
    BY <1>1, <1>8 DEF Stored, k, b
  <2> QED BY <2>1, <2>2, <2>3, <2>4
<1>10. ASSUME NEW l \in Keys, blocks'[l] # NoParams
       PROVE  \E path \in DOMAIN disk : \E i \in Statements(disk[path]) :
                KeyAt(disk[path], i) = l /\ UnitsAt(disk[path], i) = blocks'[l].units
  <2>1. CASE l = k /\ blocks'[l].units = b.units
    BY <1>5, <1>6, <1>7, <2>1
  <2>2. CASE blocks[l] # NoParams /\ blocks'[l].units = blocks[l].units
    BY <2>2 DEF ScopeInv, IncludeScope, Defined
  <2> QED BY <1>9, <1>10, <2>1, <2>2
<1> QED BY <1>1, <1>10 DEF IncludeScope, Defined

LEMMA ReadStepScoped ==
  ASSUME ReadTyped, ScopeInv, ReadStep
  PROVE  ScopeInv'
<1>1. /\ disk \in Disks /\ vars \in Seq(Frame) /\ Marked(vars, Files) /\ AllScoped(vars)
      /\ IncludeScope /\ todo \in Seq(Paths)
  BY DEF ReadTyped, ScopeInv
<1>2. ASSUME disk' = disk, AllScoped(vars')
      PROVE  AllScoped(vars)'
  BY <1>2 DEF AllScoped, Scoped
<1>3. ASSUME disk' = disk, blocks' = blocks, AllScoped(vars')
      PROVE  ScopeInv'
  BY <1>1, <1>2, <1>3, ScopeKept DEF ScopeInv, SameUnits
<1>4. CASE ReadNext
  <2>1. Head(todo) \in Paths
    BY <1>1, <1>4, HeadTailProperties DEF ReadNext
  <2>2. AllScoped(vars')
    BY <1>1, <1>4, <2>1, readScoped DEF ReadNext
  <2> QED BY <1>3, <1>4, <2>2 DEF ReadNext
<1>5. ASSUME AtStatement
      PROVE  vars # <<>> /\ top \in Frame /\ statement \in Statement
  BY <1>1, <1>5, StatementTyped
<1>6. CASE Include
  <2>1. AtStatement /\ statement.cmd = "include" /\ top \in Frame /\ statement \in Statement
    BY <1>5, <1>6 DEF Include
  <2>2. IncludedName \in Paths
    <3>1. statement.dir \in Dirs \cup {NoPath} /\ statement.file \in FileNames
      BY <2>1 DEF Statement
    <3>2. top.path \in Paths
      BY <1>1, <2>1, DisksAssumption DEF Frame
    <3> QED BY <3>1, <3>2 DEF IncludedName, Paths
  <2>3. AllScoped(Advance(top))
    BY <1>1, <2>1, AdvancedScoped
  <2>4. Advance(top) \in Seq(Frame)
    BY <1>1, <1>5, <2>1, Advanced
  <2>5. AllScoped(vars')
    BY <1>6, <2>2, <2>3, <2>4, readScoped DEF Include
  <2> QED BY <1>3, <1>6, <2>5 DEF Include
<1>7. CASE SetBase
  <2>1. AtStatement /\ statement.cmd = "base" /\ top \in Frame /\ statement \in Statement
    BY <1>5, <1>7 DEF SetBase
  <2> DEFINE frame == [top EXCEPT !.base = statement.base]
  <2>2. /\ frame \in Frame /\ frame.path = top.path /\ frame.line = top.line
        /\ frame.base = statement.base /\ frame.units = top.units
    BY <2>1 DEF Frame, Statement
  <2>3. vars' = Advance(frame) /\ disk' = disk /\ blocks' = blocks
    BY <1>7 DEF SetBase
  <2> HIDE DEF frame
  <2>4. AllScoped(vars')
    BY <1>1, <2>1, <2>2, <2>3, AdvancedScoped
  <2> QED BY <1>3, <2>3, <2>4
<1>8. CASE SetUnits
  <2>1. AtStatement /\ statement.cmd = "units" /\ top \in Frame /\ statement \in Statement
    BY <1>5, <1>8 DEF SetUnits
  <2> DEFINE frame == [top EXCEPT !.units = statement.units]
  <2>2. /\ frame \in Frame /\ frame.path = top.path /\ frame.line = top.line
        /\ frame.base = top.base /\ frame.units = statement.units
    BY <2>1 DEF Frame, Statement
  <2>3. vars' = Advance(frame) /\ disk' = disk /\ blocks' = blocks
    BY <1>8 DEF SetUnits
  <2> HIDE DEF frame
  <2>4. AllScoped(vars')
    BY <1>1, <2>1, <2>2, <2>3, AdvancedScoped
  <2> QED BY <1>3, <2>3, <2>4
<1>9. CASE StoreParameters
  <2>1. AtStatement /\ statement.cmd = "block" /\ vars' = Advance(top) /\ disk' = disk
    BY <1>9 DEF StoreParameters
  <2>2. AllScoped(vars')
    BY <1>1, <1>5, <2>1, AdvancedScoped
  <2> QED BY <1>2, <1>9, <2>1, <2>2, StoreScoped DEF ScopeInv
<1>10. CASE BadStatement \/ AlreadyDefined \/ ReadReturn
  BY <1>1, <1>3, <1>10 DEF BadStatement, AlreadyDefined, ReadReturn
<1>11. CASE CloseFile
  <2>1. vars # <<>> /\ vars' = Front(vars) /\ disk' = disk /\ blocks' = blocks
    BY <1>11 DEF CloseFile
  <2>2. /\ Len(vars') = Len(vars) - 1 /\ Len(vars) \in Nat \ {0}
        /\ \A i \in 1 .. Len(vars) - 1 : vars'[i] = vars[i]
    BY <1>1, <2>1, FrontType
  <2>3. AllScoped(vars')
    BY <1>1, <2>2 DEF AllScoped
  <2> QED BY <1>3, <2>1, <2>3
<1> QED BY <1>4, <1>6, <1>7, <1>8, <1>9, <1>10, <1>11 DEF ReadStep

(* The open files set their base and units themselves, and so do the blocks.   *)
THEOREM ScopeInvariance == Spec => []ScopeInv
<1>1. Init => ScopeInv
  <2> SUFFICES ASSUME Init
               PROVE  ScopeInv
    OBVIOUS
  <2>1. Len(vars) = 0 /\ \A k \in Keys : ~Defined(k)
    BY EmptySeq DEF Init, Defined
  <2> QED BY <2>1 DEF ScopeInv, AllScoped, IncludeScope
<1>2. IInv /\ ScopeInv /\ [Next]_vars_all => ScopeInv'
  <2> SUFFICES ASSUME IInv, ScopeInv, [Next]_vars_all
               PROVE  ScopeInv'
    OBVIOUS
  <2>1. ReadTyped /\ UseTyped /\ AllScoped(vars) /\ IncludeScope
    BY DEF IInv, ScopeInv
  <2>2. ASSUME disk' = disk, vars' = vars, SameUnits(blocks, blocks')
        PROVE  ScopeInv'
    <3>1. AllScoped(vars)'
      BY <2>1, <2>2 DEF AllScoped, Scoped
    <3> QED BY <2>1, <2>2, <3>1, ScopeKept DEF ScopeInv
  <2>3. SameUnits(blocks, blocks)
    BY DEF SameUnits
  <2>4. CASE CallRead
    <3>1. disk' = disk /\ blocks' = blocks /\ Len(vars') = 0
      BY <2>4, EmptySeq DEF CallRead, Read
    <3>2. AllScoped(vars)'
      BY <3>1 DEF AllScoped
    <3> QED BY <2>1, <2>3, <3>1, <3>2, ScopeKept DEF ScopeInv
  <2>5. CASE Fetch
    <3>1. PICK kind \in Kinds, k \in Keys :
            NotFound(kind, k) \/ Kept(kind, k) \/ NotLoaded(kind, k) \/ Expand(kind, k)
      BY <2>5 DEF Fetch
    <3>2. disk' = disk /\ vars' = vars
      BY <2>5 DEF Fetch, read_vars
    <3>3. CASE Expand(kind, k)
      <4>1. blocks \in Blocks /\ blocks[k] \in Block
        BY <2>1, <3>3, BlockOrNot DEF UseTyped, Expand, Defined
      <4>2. SameUnits(blocks, blocks')
        BY <3>3, <4>1, EnterUnits DEF Expand
      <4> QED BY <2>2, <3>2, <4>2
    <3>4. CASE blocks' = blocks
      BY <2>2, <2>3, <3>2, <3>4
    <3> QED BY <3>1, <3>3, <3>4 DEF NotFound, Kept, NotLoaded
  <2>6. CASE Reading
    BY <2>1, <2>6, ReadStepScoped DEF Reading
  <2>7. CASE Expanding
    BY <2>1, <2>2, <2>7, UseStepUnits DEF Expanding, read_vars
  <2>8. CASE Answering
    BY <2>2, <2>3, <2>8 DEF Answering, UseFailed, GiveParams, InitializeFailed, GiveObj, Give,
                            read_vars
  <2>9. CASE UNCHANGED vars_all
    BY <2>2, <2>3, <2>9 DEF vars_all, read_vars
  <2> QED BY <2>4, <2>5, <2>6, <2>7, <2>8, <2>9 DEF Next, Working
<1> QED BY <1>1, <1>2, Invariance, PTL DEF Spec

(* .base and .units reach neither into an included file nor back out of it, at *)
(* any depth of includes, and no expansion of :use moves a block to others.    *)
THEOREM ScopeOfIncludes == Spec => []IncludeScope
<1>1. ScopeInv => IncludeScope
  BY DEF ScopeInv
<1> QED BY <1>1, ScopeInvariance, PTL

(*******************************************************************************)
(* What Read has done of the files it opened.                                  *)
(*******************************************************************************)
(* The blocks of b stay defined in c.                                          *)
Grows(b, c) == \A l \in Keys : b[l] # NoParams => c[l] # NoParams

LEMMA WithEntriesGrows ==
  ASSUME NEW b \in Blocks, NEW k \in Keys, b[k] \in Block, NEW s
  PROVE  Grows(b, [b EXCEPT ![k].entries = s])
<1>1. [b[k] EXCEPT !.entries = s] # NoParams
  <2>1. "units" \in DOMAIN [b[k] EXCEPT !.entries = s] /\ "units" \notin DOMAIN NoParams
    BY DEF Block, NoParams
  <2> QED BY <2>1
<1> QED BY <1>1 DEF Grows, Blocks

LEMMA EnterGrows ==
  ASSUME NEW b \in Blocks, NEW k \in Keys, b[k] \in Block, NEW n, NEW outer,
         Enter(b, k, n, outer)
  PROVE  Grows(b, blocks')
<1>1. CASE blocks' = b
  BY <1>1 DEF Grows
<1>2. CASE blocks' = [b EXCEPT ![k].entries = <<>>]
  BY <1>2, WithEntriesGrows
<1> QED BY <1>1, <1>2 DEF Enter, NothingToUse, TooManyLevels, Transfer

LEMMA UseStepGrows ==
  ASSUME UseTyped, UseStep
  PROVE  Grows(blocks, blocks')
<1>1. calls # <<>>
  BY DEF UseStep, CopyParam, UseNotFound, UseNamed, ReplaceUse, KeepUse, UseReturn,
         Iterating, Resuming
<1>2. /\ inner \in ACall /\ inner.key \in Keys /\ blocks[inner.key] \in Block
      /\ blocks \in Blocks /\ blocks[inner.key].entries \in Seq(Entries)
  BY <1>1, InnerTyped, BlockOrNot DEF UseTyped
<1>3. Grows(blocks, Copied)
  BY <1>2, WithEntriesGrows DEF Copied, WithEntries
<1>4. CASE CopyParam \/ UseNotFound
  BY <1>3, <1>4 DEF CopyParam, UseNotFound
<1>5. CASE UseNamed
  <2>1. /\ Iterating /\ entry \in Names /\ Defined(Named)
        /\ Enter(Copied, Named, inner.count, Outer([inner EXCEPT !.old = Tail(@), !.v = entry]))
    BY <1>5 DEF UseNamed
  <2>2. inner.old \in Seq(Entries) /\ inner.key[1] \in Bases
    BY <1>2 DEF ACall, Keys
  <2>3. entry \in Entries
    BY <2>1, <2>2, HeadTailProperties DEF Iterating, entry
  <2>4. Append(blocks[inner.key].entries, entry) \in Seq(Entries)
    BY <1>2, <2>3, AppendProperties
  <2>5. Copied \in Blocks /\ \A l \in Keys : blocks[l] \in Block => Copied[l] \in Block
    BY <1>2, <2>4, WithEntriesTyped DEF Copied
  <2>6. Named \in Keys
    BY <2>1, <2>2 DEF Named, Keys
  <2>7. Copied[Named] \in Block
    BY <1>2, <2>1, <2>5, <2>6, BlockOrNot DEF Defined
  <2>8. Grows(Copied, blocks')
    BY <2>1, <2>5, <2>6, <2>7, EnterGrows
  <2> QED BY <1>3, <2>8 DEF Grows
<1>6. CASE ReplaceUse
  BY <1>2, <1>6, WithEntriesGrows DEF ReplaceUse, WithEntries
<1>7. CASE KeepUse \/ UseReturn
  BY <1>7 DEF KeepUse, UseReturn, Grows
<1> QED BY <1>4, <1>5, <1>6, <1>7 DEF UseStep

(* Statement i of a script has had its effect: the blocks are b, the files     *)
(* read are F.  Done: the first n statements have.                             *)
Included(path, i) ==
  <<IF disk[path][i].dir = NoPath THEN path[1] ELSE disk[path][i].dir, disk[path][i].file>>
StatementDone(b, F, path, i) ==
  /\ disk[path][i].cmd = "block" => /\ KeyAt(disk[path], i) \in Keys
                                    /\ b[KeyAt(disk[path], i)] # NoParams
  /\ disk[path][i].cmd = "include" => Included(path, i) \in F
Done(b, F, path, n) ==
  \A i \in 1 .. Len(disk[path]) : i <= n => StatementDone(b, F, path, i)

(* Every open file has done what is above its line; every file of G is open,   *)
(* or has done all it has.                                                     *)
FramesDone(b, F, s) ==
  \A j \in 1 .. Len(s) :
    s[j].path \in PathOf(s[j].file) /\ Done(b, F, s[j].path, s[j].line - 1)
IsOpen(s, file) == \E j \in 1 .. Len(s) : s[j].file = file
FileDone(b, F, file) == \E path \in PathOf(file) : Done(b, F, path, Len(disk[path]))
FilesDone(b, F, s, G) == \A file \in G : IsOpen(s, file) \/ FileDone(b, F, file)
ReadDone(b, F, s, G) == FramesDone(b, F, s) /\ FilesDone(b, F, s, G)

ReadInv == /\ status = 1 => failed
           /\ ~failed => ReadDone(blocks, Files, vars, Files)

LEMMA DoneGrows ==
  ASSUME NEW b, NEW c, Grows(b, c), NEW F, NEW F2, F \subseteq F2, NEW s, NEW G,
         ReadDone(b, F, s, G)
  PROVE  ReadDone(c, F2, s, G)
<1>1. ASSUME NEW path, NEW n, Done(b, F, path, n)
      PROVE  Done(c, F2, path, n)
  BY <1>1 DEF Done, StatementDone, Grows
<1> QED BY <1>1 DEF ReadDone, FramesDone, FilesDone, FileDone

(* The innermost file goes on to its next statement.                           *)
LEMMA AdvancedDone ==
  ASSUME ReadTyped, vars # <<>>, NEW b, NEW F, NEW G, ReadDone(b, F, vars, G),
         StatementDone(b, F, top.path, top.line),
         NEW frame \in Frame, frame.path = top.path, frame.line = top.line,
         frame.file = top.file
  PROVE  ReadDone(b, F, Advance(frame), G)
<1> DEFINE next == [frame EXCEPT !.line = @ + 1]
<1>1. /\ Len(vars) \in Nat \ {0} /\ top = vars[Len(vars)] /\ top \in Frame
      /\ vars \in Seq(Frame)
  BY FrontType DEF top, ReadTyped
<1>2. /\ top.line \in Nat \ {0} /\ top.path \in PathOf(top.file)
      /\ Done(b, F, top.path, top.line - 1)
  BY <1>1 DEF ReadDone, FramesDone, Frame
<1>3. /\ next \in Frame /\ next.path = top.path /\ next.line - 1 = top.line
      /\ next.file = top.file
  BY <1>2 DEF Frame
<1> HIDE DEF next
<1>4. Done(b, F, top.path, top.line)
  <2> SUFFICES ASSUME NEW i \in 1 .. Len(disk[top.path]), i <= top.line
               PROVE  StatementDone(b, F, top.path, i)
    BY DEF Done
  <2>1. CASE i = top.line
    BY <2>1
  <2>2. CASE i # top.line
    <3>1. i <= top.line - 1
      BY <1>2, <2>2
    <3> QED BY <1>2, <3>1 DEF Done
  <2> QED BY <2>1, <2>2
<1>5. /\ Len(Advance(frame)) = Len(vars)
      /\ \A j \in 1 .. Len(vars) :
           Advance(frame)[j] = IF j = Len(vars) THEN next ELSE vars[j]
  <2>1. Len(vars) \in 1 .. Len(vars)
    BY <1>1
  <2> QED BY <1>1, <1>3, <2>1, ExceptSeq DEF Advance, next
<1>6. FramesDone(b, F, Advance(frame))
  BY <1>2, <1>3, <1>4, <1>5 DEF ReadDone, FramesDone
<1>7. \A file : IsOpen(vars, file) => IsOpen(Advance(frame), file)
  <2>1. \A j \in 1 .. Len(vars) : Advance(frame)[j].file = vars[j].file
    BY <1>1, <1>3, <1>5
  <2> QED BY <1>5, <2>1 DEF IsOpen
<1> QED BY <1>6, <1>7 DEF ReadDone, FilesDone

(* A file is opened, is known already, or is not there.                        *)
LEMMA readDone ==
  ASSUME NEW rest \in Seq(Frame), NEW file \in Paths, read(file, rest),
         ReadDone(blocks, Files', rest, Files)
  PROVE  status' = 1 \/ ReadDone(blocks, Files', vars', Files')
<1>1. CASE SkipFile(file, rest)
  BY <1>1 DEF SkipFile
<1>2. CASE OpenFails(file, rest)
  BY <1>2 DEF OpenFails
<1>3. CASE OpenFile(file, rest)
  <2>1. /\ Files' = Files \cup {file} /\ status' = status
        /\ \E path \in PathOf(file) : vars' = Append(rest, Opened(file, path))
    BY <1>3 DEF OpenFile
  <2>2. PICK path \in PathOf(file) : vars' = Append(rest, Opened(file, path))
    BY <2>1
  <2>3. Opened(file, path) \in Frame /\ Opened(file, path).file = file
        /\ Opened(file, path).path = path /\ Opened(file, path).line - 1 = 0
    BY <2>2, BaseAssumption, UnitsAssumption DEF Opened, Frame, PathOf
  <2>4. /\ Len(vars') = Len(rest) + 1 /\ Len(rest) \in Nat
        /\ \A i \in 1 .. Len(rest) : vars'[i] = rest[i]
        /\ vars'[Len(rest) + 1] = Opened(file, path)
    BY <2>2, <2>3, AppendProperties, LenProperties
  <2>5. Done(blocks, Files', path, 0)
    BY DEF Done
  <2>6. FramesDone(blocks, Files', vars')
    <3> SUFFICES ASSUME NEW j \in 1 .. Len(vars')
                 PROVE  /\ vars'[j].path \in PathOf(vars'[j].file)
                        /\ Done(blocks, Files', vars'[j].path, vars'[j].line - 1)
      BY DEF FramesDone
    <3>1. CASE j = Len(rest) + 1
      BY <2>3, <2>4, <2>5, <3>1
    <3>2. CASE j # Len(rest) + 1
      <4>1. j \in 1 .. Len(rest) /\ vars'[j] = rest[j]
        BY <2>4, <3>2
      <4> QED BY <4>1 DEF ReadDone, FramesDone
    <3> QED BY <3>1, <3>2
  <2>7. IsOpen(vars', file) /\ \A f : IsOpen(rest, f) => IsOpen(vars', f)
    <3>1. Len(rest) + 1 \in 1 .. Len(vars') /\ \A i \in 1 .. Len(rest) : i \in 1 .. Len(vars')
      BY <2>4
    <3> QED BY <2>3, <2>4, <3>1 DEF IsOpen
  <2>8. FilesDone(blocks, Files', vars', Files')
    BY <2>1, <2>7 DEF ReadDone, FilesDone
  <2> QED BY <2>1, <2>6, <2>8 DEF ReadDone
<1> QED BY <1>1, <1>2, <1>3 DEF read

(* A block that is stored is defined.                                          *)
LEMMA StoreDone ==
  ASSUME ReadTyped, AllScoped(vars), StoreParameters, NEW F
  PROVE  Grows(blocks, blocks') /\ StatementDone(blocks', F, top.path, top.line)
<1>1. /\ AtStatement /\ statement.cmd = "block"
      /\ blocks' = Stored(statement.eq, BlockKey, NewBlock)
      /\ ~(statement.eq = "NEW" /\ Defined(BlockKey))
  BY DEF StoreParameters
<1>2. vars # <<>> /\ top \in Frame /\ statement \in Statement
  BY <1>1, StatementTyped DEF ReadTyped
<1>3. /\ Len(vars) \in Nat \ {0} /\ top = vars[Len(vars)]
  BY <1>2, FrontType DEF top, ReadTyped
<1>4. Scoped(top) /\ statement = disk[top.path][top.line]
  BY <1>3 DEF AllScoped, statement, script
<1>5. KeyAt(disk[top.path], top.line) = BlockKey
  BY <1>4 DEF KeyAt, BlockKey, Scoped
<1>6. /\ statement.eq \in {"NEW", "ADD", "REPLACE", "EXIST"} /\ BlockKey \in Keys
      /\ blocks \in Blocks /\ NewBlock # NoParams
  <2>1. "units" \in DOMAIN NewBlock /\ "units" \notin DOMAIN NoParams
    BY DEF NewBlock, NoParams
  <2>2. NewBlock # NoParams
    BY <2>1
  <2> QED BY <1>1, <1>2, <2>2 DEF Statement, BlockKey, Keys, Frame, ReadTyped, Blocks
<1> DEFINE k == BlockKey
           b == NewBlock
<1>7. Grows(blocks, blocks') /\ blocks'[k] # NoParams
  <2> HIDE DEF k, b
  <2>1. CASE blocks' = [blocks EXCEPT ![k] = b]
    BY <1>6, <2>1 DEF Grows, Blocks, k, b
  <2>2. CASE blocks' = blocks /\ Defined(k)
    BY <2>2 DEF Grows, Defined
  <2>3. CASE blocks' = WithEntries(k, blocks[k].entries \o b.entries) /\ Defined(k)
    <3>1. k \in Keys /\ blocks[k] \in Block
      BY <1>6, <2>3, BlockOrNot DEF Defined, k
    <3>2. Grows(blocks, blocks')
      BY <1>6, <2>3, <3>1, WithEntriesGrows DEF WithEntries
    <3> QED BY <2>3, <3>1, <3>2 DEF Grows, Defined
  <2>4. \/ blocks' = [blocks EXCEPT ![k] = b]
        \/ blocks' = blocks /\ Defined(k)
        \/ blocks' = WithEntries(k, blocks[k].entries \o b.entries) /\ Defined(k)
    BY <1>1, <1>6 DEF Stored, k, b
  <2> QED BY <2>1, <2>2, <2>3, <2>4
<1> QED BY <1>1, <1>4, <1>5, <1>6, <1>7 DEF StatementDone

LEMMA ReadStepDone ==
  ASSUME ReadTyped, AllScoped(vars), status # 1, ReadDone(blocks, Files, vars, Files), ReadStep
  PROVE  status' = 1 \/ ReadDone(blocks', Files', vars', Files')
<1>1. /\ disk \in Disks /\ vars \in Seq(Frame) /\ Files \subseteq Paths /\ todo \in Seq(Paths)
  BY DEF ReadTyped
<1>2. Grows(blocks, blocks)
  BY DEF Grows
<1>3. CASE ReadNext
  <2>1. Head(todo) \in Paths
    BY <1>1, <1>3, HeadTailProperties DEF ReadNext
  <2>2. read(Head(todo), vars) /\ blocks' = blocks
    BY <1>3 DEF ReadNext
  <2>3. Files \subseteq Files'
    BY <2>2 DEF read, SkipFile, OpenFile, OpenFails
  <2>4. ReadDone(blocks, Files', vars, Files)
    BY <1>2, <2>3, DoneGrows
  <2> QED BY <1>1, <2>1, <2>2, <2>4, readDone
<1>4. CASE Include
  <2>1. /\ AtStatement /\ statement.cmd = "include" /\ read(IncludedName, Advance(top))
        /\ blocks' = blocks
    BY <1>4 DEF Include
  <2>2. vars # <<>> /\ top \in Frame /\ statement \in Statement
    BY <1>1, <2>1, StatementTyped
  <2>3. IncludedName \in Paths
    <3>1. statement.dir \in Dirs \cup {NoPath} /\ statement.file \in FileNames
      BY <2>1, <2>2 DEF Statement
    <3>2. top.path \in Paths
      BY <1>1, <2>2, DisksAssumption DEF Frame
    <3> QED BY <3>1, <3>2 DEF IncludedName, Paths
  <2>4. Advance(top) \in Seq(Frame)
    BY <1>1, <2>2, Advanced DEF ReadTyped
  <2>5. CASE OpenFails(IncludedName, Advance(top))
    BY <2>5 DEF OpenFails
  <2>6. CASE ~OpenFails(IncludedName, Advance(top))
    <3>1. Files \subseteq Files' /\ IncludedName \in Files'
      BY <2>1, <2>6 DEF read, SkipFile, OpenFile
    <3>2. ReadDone(blocks, Files', vars, Files)
      BY <1>2, <3>1, DoneGrows
    <3>3. StatementDone(blocks, Files', top.path, top.line)
      BY <2>1, <3>1 DEF StatementDone, Included, IncludedName, statement, script
    <3>4. ReadDone(blocks, Files', Advance(top), Files)
      BY <2>2, <3>2, <3>3, AdvancedDone
    <3> QED BY <2>1, <2>3, <2>4, <3>4, readDone
  <2> QED BY <2>5, <2>6
<1>5. ASSUME NEW frame \in Frame, frame.path = top.path, frame.line = top.line,
             frame.file = top.file, vars # <<>>, vars' = Advance(frame), Files' = Files,
             Grows(blocks, blocks'), StatementDone(blocks', Files', top.path, top.line)
      PROVE  ReadDone(blocks', Files', vars', Files')
  <2>1. ReadDone(blocks', Files', vars, Files')
    BY <1>5, DoneGrows
  <2> QED BY <1>5, <2>1, AdvancedDone
<1>6. ASSUME NEW frame \in Frame, frame.path = top.path, frame.line = top.line,
             frame.file = top.file, vars # <<>>, vars' = Advance(frame), Files' = Files,
             blocks' = blocks, statement.cmd # "block", statement.cmd # "include"
      PROVE  ReadDone(blocks', Files', vars', Files')
  <2>1. StatementDone(blocks', Files', top.path, top.line)
    BY <1>6 DEF StatementDone, statement, script
  <2> QED BY <1>2, <1>5, <1>6, <2>1
<1>7. CASE SetBase
  <2>1. vars # <<>> /\ top \in Frame /\ statement \in Statement /\ statement.cmd = "base"
    BY <1>1, <1>7, StatementTyped DEF SetBase
  <2> DEFINE frame == [top EXCEPT !.base = statement.base]
  <2>2. frame \in Frame /\ frame.file = top.file /\ frame.path = top.path /\ frame.line = top.line
    BY <2>1 DEF Frame, Statement
  <2> HIDE DEF frame
  <2> QED BY <1>6, <1>7, <2>1, <2>2 DEF SetBase, frame
<1>8. CASE SetUnits
  <2>1. vars # <<>> /\ top \in Frame /\ statement \in Statement /\ statement.cmd = "units"
    BY <1>1, <1>8, StatementTyped DEF SetUnits
  <2> DEFINE frame == [top EXCEPT !.units = statement.units]
  <2>2. frame \in Frame /\ frame.file = top.file /\ frame.path = top.path /\ frame.line = top.line
    BY <2>1 DEF Frame, Statement
  <2> HIDE DEF frame
  <2> QED BY <1>6, <1>8, <2>1, <2>2 DEF SetUnits, frame
<1>9. CASE StoreParameters
  <2>1. vars # <<>> /\ top \in Frame
    BY <1>1, <1>9, StatementTyped DEF StoreParameters
  <2> QED BY <1>5, <1>9, <2>1, StoreDone DEF StoreParameters
<1>10. CASE BadStatement \/ AlreadyDefined
  BY <1>10 DEF BadStatement, AlreadyDefined
<1>11. CASE CloseFile
  <2>1. /\ vars # <<>> /\ vars' = Front(vars) /\ Files' = Files /\ blocks' = blocks
        /\ top.line > Len(script)
    BY <1>11 DEF CloseFile
  <2>2. /\ Len(vars') = Len(vars) - 1 /\ Len(vars) \in Nat \ {0} /\ top = vars[Len(vars)]
        /\ \A i \in 1 .. Len(vars) - 1 : vars'[i] = vars[i]
    BY <1>1, <2>1, FrontType DEF top
  <2>3. top \in Frame /\ top.path \in PathOf(top.file) /\ Done(blocks, Files, top.path, top.line - 1)
    BY <1>1, <2>1, <2>2, FrontType DEF ReadDone, FramesDone, top
  <2>4. Done(blocks, Files, top.path, Len(disk[top.path]))
    <3>1. top.line \in Int /\ Len(disk[top.path]) \in Nat /\ top.line > Len(disk[top.path])
      BY <1>1, <2>1, <2>3, DisksAssumption, LenProperties DEF Frame, script
    <3>2. \A i \in 1 .. Len(disk[top.path]) : i <= top.line - 1
      BY <3>1
    <3> QED BY <2>3, <3>2 DEF Done
  <2>5. FileDone(blocks, Files, top.file)
    BY <2>3, <2>4 DEF FileDone
  <2>6. ASSUME NEW file, IsOpen(vars, file), file # top.file
        PROVE  IsOpen(vars', file)
    <3>1. PICK j \in 1 .. Len(vars) : vars[j].file = file
      BY <2>6 DEF IsOpen
    <3>2. j \in 1 .. Len(vars')
      BY <2>2, <2>6, <3>1
    <3> QED BY <2>2, <3>1, <3>2 DEF IsOpen
  <2>7. FramesDone(blocks, Files, vars')
    BY <2>2 DEF ReadDone, FramesDone
  <2>8. FilesDone(blocks, Files, vars', Files)
    BY <2>5, <2>6 DEF ReadDone, FilesDone
  <2> QED BY <2>1, <2>7, <2>8 DEF ReadDone
<1>12. CASE ReadReturn
  BY <1>12 DEF ReadReturn
<1> QED BY <1>3, <1>4, <1>7, <1>8, <1>9, <1>10, <1>11, <1>12 DEF ReadStep

(* As long as no Read has failed, every block of every file that was opened is *)
(* defined and every file it includes was read, whatever fetches did between.  *)
THEOREM ReadsComplete == Spec => []ReadComplete
<1>1. Init => ReadInv
  <2>1. ASSUME Init
        PROVE  ReadInv
    <3>1. Len(vars) = 0 /\ Files = {} /\ status = 0
      BY <2>1, EmptySeq DEF Init
    <3> QED BY <3>1 DEF ReadInv, ReadDone, FramesDone, FilesDone
  <2> QED BY <2>1
<1>2. IInv /\ ScopeInv /\ ReadInv /\ [Next]_vars_all => ReadInv'
  <2> SUFFICES ASSUME IInv, ScopeInv, ReadInv, [Next]_vars_all
               PROVE  ReadInv'
    OBVIOUS
  <2>1. ReadTyped /\ UseTyped /\ AllScoped(vars)
    BY DEF IInv, ScopeInv
  <2>2. ASSUME disk' = disk, ReadDone(blocks', Files', vars', Files')
        PROVE  ReadDone(blocks, Files, vars, Files)'
    <3>1. FramesDone(blocks, Files, vars)'
      BY <2>2 DEF ReadDone, FramesDone, Done, StatementDone, Included, PathOf
    <3>2. FilesDone(blocks, Files, vars, Files)'
      BY <2>2 DEF ReadDone, FilesDone, FileDone, IsOpen, Done, StatementDone, Included, PathOf
    <3> QED BY <3>1, <3>2 DEF ReadDone
  <2>3. ASSUME Grows(blocks, blocks'), UNCHANGED <<disk, Files, vars>>,
               status' = status \/ status' = 0, failed' = failed
        PROVE  ReadInv'
    <3>1. CASE failed
      BY <2>3, <3>1 DEF ReadInv
    <3>2. CASE ~failed
      <4>1. ReadDone(blocks', Files', vars', Files')
        BY <2>3, <3>2, DoneGrows DEF ReadInv
      <4>2. ReadDone(blocks, Files, vars, Files)'
        BY <2>2, <2>3, <4>1
      <4> QED BY <2>3, <3>2, <4>2 DEF ReadInv
    <3> QED BY <3>1, <3>2
  <2>4. Grows(blocks, blocks)
    BY DEF Grows
  <2>5. CASE CallRead
    <3>1. ~reading /\ vars = <<>>
      BY <2>1, <2>5 DEF CallRead, NewCall, Idle, ReadTyped
    <3>2. UNCHANGED <<disk, Files, vars>> /\ status' = 0 /\ failed' = failed /\ blocks' = blocks
      BY <2>5, <3>1 DEF CallRead, Read
    <3> QED BY <2>3, <2>4, <3>2
  <2>6. CASE Fetch
    <3>1. PICK kind \in Kinds, k \in Keys :
            NotFound(kind, k) \/ Kept(kind, k) \/ NotLoaded(kind, k) \/ Expand(kind, k)
      BY <2>6 DEF Fetch
    <3>2. UNCHANGED <<disk, Files, vars, status, failed>>
      BY <2>6 DEF Fetch, read_vars
    <3>3. CASE Expand(kind, k)
      <4>1. blocks \in Blocks /\ blocks[k] \in Block
        BY <2>1, <3>3, BlockOrNot DEF UseTyped, Expand, Defined
      <4>2. Grows(blocks, blocks')
        BY <3>3, <4>1, EnterGrows DEF Expand
      <4> QED BY <2>3, <3>2, <4>2
    <3>4. CASE blocks' = blocks
      BY <2>3, <2>4, <3>2, <3>4
    <3> QED BY <3>1, <3>3, <3>4 DEF NotFound, Kept, NotLoaded
  <2>7. CASE Reading
    <3>1. ReadStep /\ failed' = (failed \/ status' = 1)
      BY <2>7 DEF Reading
    <3>2. CASE failed' = TRUE
      BY <3>2 DEF ReadInv
    <3>3. CASE failed' # TRUE
      <4>1. ~failed /\ status' # 1 /\ status # 1 /\ ReadDone(blocks, Files, vars, Files)
        BY <3>1, <3>3 DEF ReadInv
      <4>2. disk' = disk
        BY <3>1 DEF ReadStep, ReadNext, Include, SetBase, SetUnits, BadStatement,
                    StoreParameters, AlreadyDefined, CloseFile, ReadReturn
      <4>3. ReadDone(blocks', Files', vars', Files')
        BY <2>1, <3>1, <4>1, ReadStepDone
      <4> QED BY <2>2, <4>1, <4>2, <4>3 DEF ReadInv
    <3> QED BY <3>2, <3>3
  <2>8. CASE Expanding
    <3>1. Grows(blocks, blocks')
      BY <2>1, <2>8, UseStepGrows DEF Expanding
    <3> QED BY <2>3, <2>8, <3>1 DEF Expanding, read_vars
  <2>9. CASE Answering
    BY <2>3, <2>4, <2>9 DEF Answering, UseFailed, GiveParams, InitializeFailed, GiveObj, Give,
                            read_vars
  <2>10. CASE UNCHANGED vars_all
    BY <2>3, <2>4, <2>10 DEF vars_all, read_vars
  <2> QED BY <2>5, <2>6, <2>7, <2>8, <2>9, <2>10 DEF Next, Working
<1>3. IInv /\ ReadInv => ReadComplete
  <2> SUFFICES ASSUME IInv, ReadInv, ~reading, ~failed, NEW file \in Files
               PROVE  \E path \in PathOf(file) :
      /\ \A i \in Statements(disk[path]) : Defined(KeyAt(disk[path], i))
      /\ \A i \in DOMAIN disk[path] : disk[path][i].cmd = "include" => Included(path, i) \in Files
    BY DEF ReadComplete, Included
  <2>1. Len(vars) = 0 /\ disk \in Disks
    BY EmptySeq DEF IInv, ReadTyped
  <2>2. FileDone(blocks, Files, file)
    BY <2>1 DEF ReadInv, ReadDone, FilesDone, IsOpen
  <2>3. PICK path \in PathOf(file) : Done(blocks, Files, path, Len(disk[path]))
    BY <2>2 DEF FileDone
  <2>4. path \in DOMAIN disk
    BY <2>3 DEF PathOf
  <2>5. DOMAIN disk[path] = 1 .. Len(disk[path]) /\ Len(disk[path]) \in Nat
    BY <2>1, <2>4, DisksAssumption, LenProperties
  <2>6. \A i \in DOMAIN disk[path] : StatementDone(blocks, Files, path, i)
    BY <2>3, <2>5 DEF Done
  <2> QED BY <2>6 DEF StatementDone, Statements, Defined
<1> QED BY <1>1, <1>2, <1>3, Invariance, ScopeInvariance, PTL DEF Spec
================================================================================
