----------------------------- MODULE CursorOps -----------------------------
(***************************************************************************)
(* What every operation of class _List (CClib/LinkList) does to a list,    *)
(* said of values and not of pointers.  A list is a record                 *)
(*     items : the entries, from the marked first link to the last one     *)
(*     cur   : the position of the current link, 0 when it is null         *)
(* LinkList.tla has the ring of links that implements these operators, and *)
(* the clients of the class (pipes, stacks, reference lists, name arrays,  *)
(* parameter lists) are modelled with them.                                *)
(***************************************************************************)
EXTENDS Integers, Sequences

Sq == INSTANCE SequencesExt

EmptyL == [items |-> << >>, cur |-> 0]

\* A current position is a position of the list, or 0.
IsCursorList(L) == L.cur \in 0 .. Len(L.items)

Current(L) == L.items[L.cur]
IsCurrent(L) == L.cur # 0
InList(L, x) == \E i \in DOMAIN L.items : L.items[i] = x

(***************************************************************************)
(* Entering.  Append and Prepend leave the current link alone, except that *)
(* the only link of a list is its current link.                            *)
(***************************************************************************)
AppendL(L, x) ==
  [items |-> Append(L.items, x), cur |-> IF L.items = << >> THEN 1 ELSE L.cur]

PrependL(L, x) ==
  [items |-> Sq!Cons(x, L.items),
   cur   |-> IF L.items = << >> THEN 1 ELSE IF IsCurrent(L) THEN L.cur + 1 ELSE 0]

\* Before the current link; at the front when that is the first link or null.
InsertL(L, x) ==
  LET at == IF L.cur <= 1 THEN 1 ELSE L.cur
  IN  [items |-> Sq!InsertAt(L.items, at, x), cur |-> at]

\* After the current link; at the end when that is null.
AddL(L, x) ==
  LET at == IF IsCurrent(L) THEN L.cur + 1 ELSE Len(L.items) + 1
  IN  [items |-> Sq!InsertAt(L.items, at, x), cur |-> at]

\* In place of the current link's entry; with no current link, as Append.
ReplaceL(L, x) ==
  IF IsCurrent(L) THEN [L EXCEPT !.items[L.cur] = x] ELSE AppendL(L, x)

(***************************************************************************)
(* Remove(dir) leaves the cursor on the next link (dir = 1) or on the      *)
(* previous one (dir = 0), on neither when there is none.                  *)
(***************************************************************************)
RemoveL(L, dir) ==
  IF ~IsCurrent(L) THEN L
  ELSE [items |-> Sq!RemoveAt(L.items, L.cur),
        cur   |-> IF dir = 0 THEN L.cur - 1
                  ELSE IF L.cur = Len(L.items) THEN 0 ELSE L.cur]

(***************************************************************************)
(* Moving the cursor.  The ring is walked past its mark only with force.   *)
(***************************************************************************)
StartL(L) == [L EXCEPT !.cur = IF L.items = << >> THEN 0 ELSE 1]
EndL(L)   == [L EXCEPT !.cur = Len(L.items)]
ResetL(L) == [L EXCEPT !.cur = 0]
NextL(L)  == [L EXCEPT !.cur = IF @ = 0 \/ @ = Len(L.items) THEN 0 ELSE @ + 1]
PrevL(L)  == [L EXCEPT !.cur = IF @ = 0 THEN 0 ELSE @ - 1]

\* Where Get(i, set, force) ends, 0 when it runs over an end of the list.
Offset(L, i, force) ==
  LET n == Len(L.items)
      p == L.cur + i
  IN  IF ~IsCurrent(L) THEN 0
      ELSE IF p \in 1 .. n THEN p
      ELSE IF force THEN ((p - 1) % n) + 1 ELSE 0

\* The mark of the first link is moved to the current one.
SetFirstL(L) ==
  IF ~IsCurrent(L) THEN L
  ELSE [items |-> SubSeq(L.items, L.cur, Len(L.items)) \o SubSeq(L.items, 1, L.cur - 1),
        cur   |-> 1]

\* All of M's entries go behind the current link of L, M is left empty.
TransferL(L, M) ==
  LET at == IF IsCurrent(L) THEN L.cur ELSE Len(L.items)
  IN  IF M.items = << >> THEN L
      ELSE [items |-> SubSeq(L.items, 1, at) \o M.items
                        \o SubSeq(L.items, at + 1, Len(L.items)),
            cur   |-> at + Len(M.items)]
=============================================================================
