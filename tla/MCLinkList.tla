----------------------------- MODULE MCLinkList -----------------------------
(***************************************************************************)
(* Two lists over a small heap: the rings in order, and the refinement of  *)
(* CursorList.                                                             *)
(***************************************************************************)
EXTENDS LinkList, TLC

Symmetric == Permutations(Links) \cup Permutations(Objects) \cup Permutations(Lists)

\* The links of a in ring order from the first one.
InOrder(a) ==
  LET walk[n \in 1 .. list_size[a]] == IF n = 1 THEN first[a] ELSE next[walk[n - 1]]
  IN  walk

\* The position of p in s, 0 for the null pointer.
PositionOf(p, s) ==
  IF \E i \in DOMAIN s : s[i] = p THEN CHOOSE i \in DOMAIN s : s[i] = p ELSE 0

\* The pointers implement the sequences of CursorList: every call of a list
\* has the effect on entries and cursor that its comments describe.
Abstract ==
  INSTANCE CursorList WITH
    list <- [a \in Lists |-> [items |-> InOrder(a), cur |-> PositionOf(link[a], InOrder(a))]]

ImplementsCursorList == Abstract!Spec
=============================================================================
