--------------------------- MODULE OneDFunctionI ---------------------------
(***************************************************************************)
(* Class OneDFunctionI of CClib/OneDFunction: the search of a bracket of   *)
(* two neighbouring integers on which f crosses y_goal, by bisection and   *)
(* by Newton steps on the quadratic through three points (class            *)
(* OneDFunction does the same with doubles, to a tolerance).               *)
(*                                                                         *)
(* f is any function on an interval of integers that may fail anywhere;    *)
(* its values are integers, and a quotient of them is exact.               *)
(***************************************************************************)
EXTENDS Integers

CONSTANTS
  Xlo, Xhi,    \* f is defined on Xlo .. Xhi
  Functions,   \* what f may be
  Failing,     \* sets of arguments where f calls SetError
  Goals,       \* values of y_goal
  Ends,        \* ends of brackets clients ask about
  Guesses      \* initial guesses

X == Xlo .. Xhi

ASSUME OneDAssumption ==
  /\ Xlo \in Int /\ Xhi \in Int
  /\ Functions \subseteq [X -> Int]
  /\ Failing \subseteq SUBSET X
  /\ Goals \subseteq Int /\ Ends \subseteq X /\ Guesses \subseteq Int

VARIABLES
  f, bad,           \* the function and the arguments it fails on
  y_goal,
  x0, x1, y0, y1,   \* last bracket
  cycles,
  status,
  pc,               \* the function that runs, "idle" before the first call, "done" after one
  guess,            \* x_guess
  width             \* ghost: the width of the bracket when ZERO started

bracket == <<x0, x1, y0, y1>>
vars == <<f, bad, y_goal, bracket, cycles, status, pc, guess, width>>

Abs(x) == IF x < 0 THEN -x ELSE x
Width == Abs(x1 - x0)

\* Division of C++ integers, and round_up of n / d for d > 0: away from zero.
Truncated(n, d) == IF n >= 0 THEN n \div d ELSE -((-n) \div d)
RoundUp(n, d) == IF n >= 0 THEN (n + d - 1) \div d ELSE -((d - 1 - n) \div d)

\* x strictly between a and b, whichever is the smaller.
Between(a, x, b) == (a < x /\ x < b) \/ (b < x /\ x < a)

\* Mutant: the status is set, but the function goes on.
GoesOn(s) == status' = s /\ UNCHANGED pc

Return(s) == status' = s /\ pc' = "done"

\* The bracket shrinks to the point x where f meets the goal.
Exactly(x) ==
  /\ x0' = x /\ x1' = x /\ y0' = f[x] /\ y1' = f[x]
  /\ Return("OK")

(***************************************************************************)
(* Calls.  inverse(y_g, x_0, x_1, x_guess) evaluates f at the ends.        *)
(***************************************************************************)
inverse(y_g, x_0, x_1, x_guess) ==
  /\ pc \in {"idle", "done"}
  /\ y_goal' = y_g /\ x0' = x_0 /\ x1' = x_1 /\ guess' = x_guess
  /\ pc' = "PRE_ZERO" /\ width' = 0
  /\ UNCHANGED <<f, bad, y0, y1, cycles, status>>

\* With y_0 = f(x_0) and y_1 = f(x_1) supplied the status is not cleared.
inverseWith(y_g, x_0, x_1, x_guess) ==
  /\ pc \in {"idle", "done"} /\ x_0 \notin bad /\ x_1 \notin bad
  /\ y_goal' = y_g /\ x0' = x_0 /\ x1' = x_1 /\ guess' = x_guess
  /\ y0' = f[x_0] /\ y1' = f[x_1]
  /\ pc' = "PRE_CONDITION" /\ width' = 0
  /\ UNCHANGED <<f, bad, cycles, status>>

\* y1 keeps its value when f fails at the lower limit.
PRE_ZERO ==
  /\ pc = "PRE_ZERO"
  /\ IF x0 \in bad THEN Return("ZERO_LOWER_LIMIT") /\ UNCHANGED y1
     ELSE /\ y1' = f[x1]
          /\ IF x1 \in bad THEN Return("ZERO_UPPER_LIMIT")
             ELSE status' = "OK" /\ pc' = "PRE_CONDITION"
  /\ y0' = f[x0]
  /\ UNCHANGED <<f, bad, y_goal, x0, x1, cycles, guess, width>>

(***************************************************************************)
(* Replacing an end of the bracket: c is [x0, x1, y0, y1] with x for the   *)
(* end on its side of the goal.                                            *)
(***************************************************************************)
Bracket == [x0 |-> x0, x1 |-> x1, y0 |-> y0, y1 |-> y1]

\* Mutants: the sign is taken for a goal of 0; the coordinates are swapped.
ReplacedAtZero(c, x) ==
  IF f[x] > 0 THEN [c EXCEPT !.x1 = x, !.y1 = f[x]] ELSE [c EXCEPT !.x0 = x, !.y0 = f[x]]
ReplacedSwapped(c, x) ==
  IF f[x] > y_goal THEN [c EXCEPT !.x1 = f[x], !.y1 = x] ELSE [c EXCEPT !.x0 = f[x], !.y0 = x]

Replaced(c, x) ==
  IF f[x] > y_goal THEN [c EXCEPT !.x1 = x, !.y1 = f[x]] ELSE [c EXCEPT !.x0 = x, !.y0 = f[x]]

SetBracket(c) == x0' = c.x0 /\ x1' = c.x1 /\ y0' = c.y0 /\ y1' = c.y1

(***************************************************************************)
(* PRE_CONDITION(x_guess).                                                 *)
(***************************************************************************)
\* The step of Newton's method from x in c with unevenly spaced points.
GuessStep(c, x) ==
  RoundUp(2 * (f[x] - y_goal) * (x - c.x0) * (c.x1 - x) * (c.x1 - c.x0),
          (c.x1 - x) * (c.x1 - x) * (f[x] - c.y0) + (x - c.x0) * (x - c.x0) * (c.y1 - f[x]))

\* Mutant: the step is not checked to stay in the bracket.
TryAnyGuess(c, x) == c.y0 < f[x] /\ f[x] < c.y1

\* It is tried when f is monotonic there and the step stays in the bracket.
TryGuess(c, x) ==
  /\ c.y0 < f[x] /\ f[x] < c.y1
  /\ Abs(GuessStep(c, x)) < IF f[x] > y_goal THEN Abs(x - c.x0) ELSE Abs(c.x1 - x)

\* Mutant: cycles goes on counting from the last search.
StartCounting(c) ==
  /\ SetBracket(c)
  /\ status' = "OK" /\ pc' = "ZERO" /\ UNCHANGED cycles /\ width' = Abs(c.x1 - c.x0)

StartZERO(c) ==
  /\ SetBracket(c)
  /\ status' = "OK" /\ pc' = "ZERO" /\ cycles' = 0 /\ width' = Abs(c.x1 - c.x0)

AtEnds == y_goal \in {y0, y1}
NoBracket == x0 = x1 \/ IF y0 > y_goal THEN y1 > y_goal ELSE y1 < y_goal

\* The limits interchanged for y0 < y1.
Ordered == IF y0 > y1 THEN [x0 |-> x1, x1 |-> x0, y0 |-> y1, y1 |-> y0] ELSE Bracket

UseGuess(c) ==
  LET d == Replaced(c, guess)
      x == guess - GuessStep(c, guess)
  IN  \/ guess \in bad /\ Return("ZERO_INSIDE") /\ SetBracket(c) /\ UNCHANGED <<cycles, width>>
      \/ /\ guess \notin bad /\ f[guess] = y_goal
         /\ Exactly(guess) /\ UNCHANGED <<cycles, width>>
      \/ /\ guess \notin bad /\ f[guess] # y_goal /\ ~TryGuess(c, guess)
         /\ StartZERO(d)
      \/ /\ guess \notin bad /\ f[guess] # y_goal /\ TryGuess(c, guess)
         /\ \/ x \in bad /\ Return("ZERO_INSIDE") /\ SetBracket(d) /\ UNCHANGED <<cycles, width>>
            \/ x \notin bad /\ f[x] = y_goal /\ Exactly(x) /\ UNCHANGED <<cycles, width>>
            \/ x \notin bad /\ f[x] # y_goal /\ StartZERO(Replaced(d, x))

PRE_CONDITION ==
  /\ pc = "PRE_CONDITION"
  /\ \/ /\ y0 = y_goal
        /\ x1' = x0 /\ y1' = y0 /\ pc' = "done"
        /\ UNCHANGED <<x0, y0, status, cycles, width>>
     \/ /\ y0 # y_goal /\ y1 = y_goal
        /\ x0' = x1 /\ y0' = y1 /\ pc' = "done"
        /\ UNCHANGED <<x1, y1, status, cycles, width>>
     \/ /\ ~AtEnds /\ NoBracket
        /\ Return("ZERO_NO_BRACKET")
        /\ UNCHANGED <<bracket, cycles, width>>
     \/ /\ ~AtEnds /\ ~NoBracket /\ Between(x0, guess, x1) /\ UseGuess(Ordered)
     \/ /\ ~AtEnds /\ ~NoBracket /\ ~Between(x0, guess, x1) /\ StartZERO(Ordered)
  /\ UNCHANGED <<f, bad, y_goal, guess>>

(***************************************************************************)
(* ZERO(): one cycle of the loop.                                          *)
(***************************************************************************)
Center == Truncated(x0 + x1, 2)

\* The quadratic through the ends and the center x is monotonic.
Monotonic(x) == 4 < Width /\ 2 * Abs(2 * f[x] - y0 - y1) < y1 - y0

\* Newton's step on it from the point nearest to the goal, be it x or an end.
NewtonFrom(x) ==
  IF f[x] > y_goal THEN IF f[x] - y_goal <= y_goal - y0 THEN x ELSE x0
  ELSE IF y_goal - f[x] <= y1 - y_goal THEN x ELSE x1

NewtonStep(x) ==
  LET y == f[x]
  IN  IF NewtonFrom(x) = x THEN RoundUp(2 * (y - y_goal) * (x1 - x0), y1 - y0)
      ELSE IF y > y_goal THEN RoundUp(2 * (y0 - y_goal) * (x1 - x0), 3 * (y - y0) - (y1 - y))
      ELSE RoundUp(2 * (y1 - y_goal) * (x1 - x0), 3 * (y1 - y) - (y - y0))

\* Skipped if the next bisection is better.
Skipped(c, x) == 2 * Abs(NewtonStep(x)) > Abs(c.x1 - c.x0)

ZERO ==
  LET x == Center
      c == Replaced(Bracket, x)
      xn == NewtonFrom(x) - NewtonStep(x)
  IN  /\ pc = "ZERO" /\ Width > 1
      /\ cycles' = cycles + 1
      /\ \/ x \in bad /\ Return("ZERO_INSIDE") /\ UNCHANGED bracket
         \/ x \notin bad /\ f[x] = y_goal /\ Exactly(x)
         \/ /\ x \notin bad /\ f[x] # y_goal /\ (Monotonic(x) => Skipped(c, x))
            /\ SetBracket(c) /\ UNCHANGED <<status, pc>>
         \/ /\ x \notin bad /\ f[x] # y_goal /\ Monotonic(x) /\ ~Skipped(c, x)
            /\ \/ xn \in bad /\ Return("ZERO_INSIDE") /\ SetBracket(c)
               \/ xn \notin bad /\ f[xn] = y_goal /\ Exactly(xn)
               \/ /\ xn \notin bad /\ f[xn] # y_goal
                  /\ SetBracket(Replaced(c, xn)) /\ UNCHANGED <<status, pc>>
      /\ UNCHANGED <<f, bad, y_goal, guess, width>>

ZEROEnd ==
  /\ pc = "ZERO" /\ Width <= 1
  /\ pc' = "done"
  /\ UNCHANGED <<f, bad, y_goal, bracket, cycles, status, guess, width>>

Init ==
  /\ f \in Functions /\ bad \in Failing
  /\ y_goal \in Goals
  /\ x0 \in Ends /\ x1 = x0 /\ y0 = f[x0] /\ y1 = f[x0]   \* set before the first call
  /\ cycles = 0 /\ status = "OK" /\ pc = "idle"
  /\ guess = x0 /\ width = 0

Call ==
  \E y_g \in Goals, x_0, x_1 \in Ends, x_guess \in Guesses :
    inverse(y_g, x_0, x_1, x_guess) \/ inverseWith(y_g, x_0, x_1, x_guess)

Search == PRE_ZERO \/ PRE_CONDITION \/ ZERO \/ ZEROEnd

Next == Call \/ Search

Spec == Init /\ [][Next]_vars /\ WF_vars(Search)

(***************************************************************************)
(* Properties.                                                             *)
(***************************************************************************)
TypeOK ==
  /\ f \in Functions /\ bad \in Failing /\ y_goal \in Goals
  /\ {x0, x1} \subseteq X /\ y0 \in Int /\ y1 \in Int
  /\ cycles \in Nat /\ width \in Nat /\ guess \in Int
  /\ pc \in {"idle", "PRE_ZERO", "PRE_CONDITION", "ZERO", "done"}

\* inverse() "refines bracket until |x0-x1| <= 1 and f(x0) <= y_g <= f(x1)"
\* (OneDFunction.h:148), whenever it reports OK.
Refined ==
  pc = "done" /\ status = "OK" =>
    /\ Width <= 1
    /\ y0 = f[x0] /\ y1 = f[x1]
    /\ f[x0] <= y_goal /\ y_goal <= f[x1]

\* f is asked between the ends only: the ends never leave the last bracket.
\* (x - dx in ZERO and in PRE_CONDITION.)
Narrower ==
  pc \in {"PRE_CONDITION", "ZERO"} =>
    \A x \in {x0', x1'} : (x \in {x0, x1}) \/ Between(x0, x, x1)

Narrowing == [][Narrower]_vars

\* The loop takes a bounded number of cycles: each makes the bracket narrower.
CyclesBounded == pc = "ZERO" => cycles + Width <= width

SearchEnds == (pc = "PRE_ZERO") ~> (pc = "done")
=============================================================================
