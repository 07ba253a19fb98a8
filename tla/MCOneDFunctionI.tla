-------------------------- MODULE MCOneDFunctionI --------------------------
(***************************************************************************)
(* Brackets of up to 17 points, wide enough for Newton steps, on functions *)
(* that rise by patterns of three steps, fall, and jump up and down.       *)
(***************************************************************************)
EXTENDS OneDFunctionI

Lowest == -12
Left == -8
Patterns == {<<1, 1, 5>>, <<0, 5, 2>>, <<9, 0, 0>>, <<1, 3, 2>>}

Rising(p) ==
  LET sum[i \in 0 .. 20] == IF i = 0 THEN -13 ELSE sum[i - 1] + p[1 + (i % 3)]
  IN  [x \in X |-> IF x < Left THEN x - 5 ELSE sum[x - Left]]
Falling(p) == [x \in X |-> -Rising(p)[x]]
Jumping(p) == [x \in X |-> IF x % 4 = 0 THEN Rising(p)[x] ELSE 1 - p[1 + (x % 3)]]

SomeFunctions == UNION {{Rising(p), Falling(p), Jumping(p)} : p \in Patterns}
SomeFailing == {{}, {Left + 2, Left + 7}, {-3, 2}}
SomeGuesses == {Left, Left + 7}
SomeEnds == {Left, Left + 2, 8}
=============================================================================
