--------------------------------- MODULE DBuse ---------------------------------
(* DataBase::Use: replaces the `:use' directives of a block by the entries of  *)
(* the blocks they name, after those blocks' own directives were replaced.     *)
(* The blocks are changed in place.  The recursion is the stack calls.         *)
EXTENDS ParamBlocks, Integers

VARIABLES calls,        \* the calls of Use in progress, innermost last
          returned      \* value of the call that just returned, or NoValue

NoValue == -2
use_vars == <<calls, returned>>

(* A call: its block (params), the entries of Old that are still to be copied  *)
(* back (iter), the directive it is following (v), the levels left (count) and *)
(* status.                                                                     *)
Call(k, old, n) ==
  [key |-> k, old |-> old, v |-> k[2], count |-> n, status |-> 0]

(* Entering Use for block k, the blocks being b: nothing to do, too many       *)
(* levels, or params is transferred to Old and starts empty.                   *)
NothingToUse(b, k, outer) ==
  /\ Use(b[k].entries) = 0
  /\ blocks' = b /\ calls' = outer /\ returned' = 0
TooManyLevels(b, k, n, outer) ==
  /\ Use(b[k].entries) > 0 /\ n = 0
  /\ blocks' = b /\ calls' = outer /\ returned' = -1
(* Mutant: another level is always taken.                                      *)
TransferAnyLevel(b, k, n, outer) ==
  /\ Use(b[k].entries) > 0
  /\ blocks' = [b EXCEPT ![k].entries = <<>>]
  /\ calls' = Append(outer, Call(k, b[k].entries, n - 1))
  /\ returned' = NoValue
Transfer(b, k, n, outer) ==
  /\ Use(b[k].entries) > 0 /\ n > 0
  /\ blocks' = [b EXCEPT ![k].entries = <<>>]
  /\ calls' = Append(outer, Call(k, b[k].entries, n - 1))
  /\ returned' = NoValue
Enter(b, k, n, outer) ==
  NothingToUse(b, k, outer) \/ TooManyLevels(b, k, n, outer) \/ Transfer(b, k, n, outer)

inner == Last(calls)
entry == Head(inner.old)
Iterating == calls # <<>> /\ returned = NoValue /\ inner.old # <<>>
Outer(call) == [calls EXCEPT ![Len(calls)] = call]
Copied == WithEntries(inner.key, Append(blocks[inner.key].entries, entry))
Named == <<inner.key[1], entry>>

(* An ordinary parameter is appended to params.                                *)
CopyParam ==
  /\ Iterating /\ entry \in Params
  /\ blocks' = Copied
  /\ calls' = Outer([inner EXCEPT !.old = Tail(@)])
  /\ UNCHANGED returned

(* So is a directive; one that names no block stays and is logged.             *)
UseNotFound ==
  /\ Iterating /\ entry \in Names /\ ~Defined(Named)
  /\ blocks' = Copied
  /\ calls' = Outer([inner EXCEPT !.old = Tail(@)])
  /\ UNCHANGED returned

(* Mutant: the directive is not copied first.                                  *)
UseNamedBeforeCopy ==
  /\ Iterating /\ entry \in Names /\ Defined(Named)
  /\ Enter(blocks, Named, inner.count,
           Outer([inner EXCEPT !.old = Tail(@), !.v = entry]))
UseNamed ==
  /\ Iterating /\ entry \in Names /\ Defined(Named)
  /\ Enter(Copied, Named, inner.count,
           Outer([inner EXCEPT !.old = Tail(@), !.v = entry]))

(* Back from the call for the directive: it is replaced by the entries of the  *)
(* named block (Uparams), whatever directives those still hold, or it stays    *)
(* and the call will fail.                                                     *)
Uparams == blocks[<<inner.key[1], inner.v>>]
Resuming == calls # <<>> /\ returned # NoValue
(* Mutant: the entries go in front of those already there.                     *)
ReplaceUseInFront ==
  /\ Resuming /\ returned >= 0
  /\ blocks' = WithEntries(inner.key,
                           Uparams.entries \o Front(blocks[inner.key].entries))
  /\ returned' = NoValue
  /\ UNCHANGED calls
ReplaceUse ==
  /\ Resuming /\ returned >= 0
  /\ blocks' = WithEntries(inner.key,
                           Front(blocks[inner.key].entries) \o Uparams.entries)
  /\ returned' = NoValue
  /\ UNCHANGED calls
KeepUse ==
  /\ Resuming /\ returned < 0
  /\ calls' = Outer([inner EXCEPT !.status = -1])
  /\ returned' = NoValue
  /\ UNCHANGED blocks

(* Mutant: directives left in the block are not counted.                       *)
UseReturnStatus ==
  /\ calls # <<>> /\ returned = NoValue /\ inner.old = <<>>
  /\ returned' = inner.status
  /\ calls' = Front(calls)
  /\ UNCHANGED blocks
UseReturn ==
  /\ calls # <<>> /\ returned = NoValue /\ inner.old = <<>>
  /\ returned' = IF inner.status = 0 THEN Use(blocks[inner.key].entries) ELSE -1
  /\ calls' = Front(calls)
  /\ UNCHANGED blocks

UseStep ==
  CopyParam \/ UseNotFound \/ UseNamed \/ ReplaceUse \/ KeepUse \/ UseReturn

(* The entries of every block, those included that calls of Use have still to  *)
(* copy back: a call that was entered later holds entries that come earlier.   *)
Contents ==
  [k \in Keys |->
    blocks[k].entries \o
    FlattenSeq([i \in DOMAIN calls |->
      LET c == calls[Len(calls) + 1 - i] IN IF c.key = k THEN c.old ELSE <<>>])]

(* What a block stands for: its entries with every directive replaced by what  *)
(* the named block stands for, except where there is no such block or the      *)
(* block is being followed already.                                            *)
Present == {k \in Keys : Defined(k)}
Meaning(key) ==
  LET there == Present
      content == Contents
      M[path \in SUBSET Keys] ==
        [k \in Keys |->
          LET s == content[k] IN
          FlattenSeq([i \in DOMAIN s |->
            LET u == <<k[1], s[i]>> IN
            IF s[i] \in Names /\ u \in there \ path THEN M[path \cup {u}][u]
            ELSE <<s[i]>>])]
  IN M[{key}][key]
================================================================================
