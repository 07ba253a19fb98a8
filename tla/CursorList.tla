----------------------------- MODULE CursorList -----------------------------
(***************************************************************************)
(* What class _List promises its clients: lists are sequences of links     *)
(* with a cursor and a stack of saved cursors.  LinkList.tla implements    *)
(* it with rings of pointers.                                              *)
(***************************************************************************)
EXTENDS Integers, Sequences, CursorOps

CONSTANTS Lists, Links, Objects, Null

VARIABLES
  list,     \* list[a] is the cursor list of CursorOps, its items are links
  save,     \* save[a] is the stack of saved cursors, the top last
  object    \* the entry of each link, Null for a free link

vars == <<list, save, object>>

Linked(p) == \E a \in Lists : InList(list[a], p)
CurrentLink(a) == IF IsCurrent(list[a]) THEN Current(list[a]) ELSE Null

Init ==
  /\ list = [a \in Lists |-> EmptyL]
  /\ save = [a \in Lists |-> << >>]
  /\ object = [p \in Links |-> Null]

\* A free link is entered by one of the four ways.
Enter(a, p, o, After(_, _)) ==
  /\ ~Linked(p)
  /\ list' = [list EXCEPT ![a] = After(@, p)]
  /\ object' = [object EXCEPT ![p] = o]
  /\ UNCHANGED save

Replace(a, o) ==
  /\ IsCurrent(list[a])
  /\ object' = [object EXCEPT ![CurrentLink(a)] = o]
  /\ UNCHANGED <<list, save>>

\* A saved cursor on the removed link becomes null.
Remove(a, dir) ==
  LET p == CurrentLink(a)
  IN  /\ IsCurrent(list[a])
      /\ list' = [list EXCEPT ![a] = RemoveL(@, dir)]
      /\ save' = [save EXCEPT ![a] =
                    [i \in DOMAIN @ |-> IF @[i] = p THEN Null ELSE @[i]]]
      /\ object' = [object EXCEPT ![p] = Null]

Empty(a) ==
  /\ list' = [list EXCEPT ![a] = EmptyL]
  /\ save' = [save EXCEPT ![a] = << >>]
  /\ object' = [p \in Links |-> IF InList(list[a], p) THEN Null ELSE object[p]]

Transfer(a, L) ==
  /\ a # L
  /\ list[L].items # << >>
  /\ list' = [list EXCEPT ![a] = TransferL(@, list[L]), ![L] = EmptyL]
  /\ save' = [save EXCEPT ![L] = << >>]
  /\ UNCHANGED object

Move(a, After(_)) ==
  /\ list' = [list EXCEPT ![a] = After(@)]
  /\ UNCHANGED <<save, object>>

Walk(a, i, force) == Move(a, LAMBDA L : [L EXCEPT !.cur = Offset(L, i, force)])

\* The cursor is saved somewhere on the stack, or the top entry goes.
Push(a) ==
  /\ \E i \in 1 .. Len(save[a]) + 1 :
       save' = [save EXCEPT ![a] =
                  SubSeq(@, 1, i - 1) \o <<CurrentLink(a)>> \o SubSeq(@, i, Len(@))]
  /\ UNCHANGED <<list, object>>

Pop(a) ==
  /\ save' = [save EXCEPT ![a] = SubSeq(@, 1, Len(@) - 1)]
  /\ UNCHANGED <<list, object>>

EmptySave(a) ==
  /\ save' = [save EXCEPT ![a] = << >>]
  /\ UNCHANGED <<list, object>>

\* The cursor goes back to where it was saved, if that link is still there.
Restore(a) ==
  LET n == Len(save[a])
      p == IF n = 0 THEN Null ELSE save[a][n]
  IN  /\ \E c \in 0 .. Len(list[a].items) :
           /\ IF p = Null THEN c = 0 ELSE c # 0 /\ list[a].items[c] = p
           /\ list' = [list EXCEPT ![a].cur = c]
      /\ save' = [save EXCEPT ![a] = SubSeq(@, 1, n - 1)]
      /\ UNCHANGED object

Next ==
  \E a \in Lists :
    \/ \E p \in Links, o \in Objects :
         \/ Enter(a, p, o, AppendL) \/ Enter(a, p, o, PrependL)
         \/ Enter(a, p, o, InsertL) \/ Enter(a, p, o, AddL)
    \/ \E o \in Objects : Replace(a, o)
    \/ \E dir \in {0, 1} : Remove(a, dir)
    \/ Empty(a)
    \/ \E L \in Lists : Transfer(a, L)
    \/ Move(a, StartL) \/ Move(a, EndL) \/ Move(a, ResetL)
    \/ Move(a, NextL) \/ Move(a, PrevL) \/ Move(a, SetFirstL)
    \/ \E i \in {-2, 2}, force \in BOOLEAN : Walk(a, i, force)
    \/ Push(a) \/ Pop(a) \/ EmptySave(a) \/ Restore(a)

Spec == Init /\ [][Next]_vars
=============================================================================
