------------------------ MODULE OneDFunctionIProofs ------------------------
(***************************************************************************)
(* The brackets of OneDFunctionI: for every function, failing or not, and  *)
(* every sequence of calls.                                                *)
(***************************************************************************)
EXTENDS OneDFunctionI, TLAPS

\* The sign of a product.
LEMMA SignOfProduct ==
  ASSUME NEW a \in Int, NEW b \in Int
  PROVE  /\ a * b \in Int
         /\ (a > 0 /\ b > 0) \/ (a < 0 /\ b < 0) => a * b > 0
         /\ (a > 0 /\ b < 0) \/ (a < 0 /\ b > 0) => a * b < 0
BY SMT

\* round_up keeps the sign: a Newton step is never 0.
LEMMA RoundUpSign ==
  ASSUME NEW n \in Int, NEW d \in Int, d > 0
  PROVE  /\ RoundUp(n, d) \in Int
         /\ n > 0 => RoundUp(n, d) > 0
         /\ n < 0 => RoundUp(n, d) < 0
BY SMT DEF RoundUp

\* The center of a bracket is inside of it.
LEMMA CenterBetween ==
  ASSUME x0 \in Int, x1 \in Int, Width > 1
  PROVE  Center \in Int /\ Between(x0, Center, x1)
BY SMT DEF Center, Width, Abs, Truncated, Between

(***************************************************************************)
(* A Newton step 2 k w / d from the end of [a, b] that k points away from, *)
(* rounded up, of at most half of [a, b]: it leads inside of [a, b].  w is *)
(* the signed width of a bracket that runs the same way.                   *)
(***************************************************************************)
LEMMA StepInside ==
  ASSUME NEW a \in Int, NEW b \in Int, a # b,
         NEW w \in Int, w # 0, w > 0 <=> b > a,
         NEW k \in Int, k # 0, NEW d \in Int, d > 0,
         NEW s, s = RoundUp(2 * k * w, d), ~(2 * Abs(s) > Abs(b - a))
  PROVE  /\ s \in Int
         /\ k > 0 => Between(a, b - s, b)
         /\ k < 0 => Between(a, a - s, b)
<1> DEFINE n == 2 * k * w
<1>1. /\ n \in Int
      /\ (k > 0 /\ w > 0) \/ (k < 0 /\ w < 0) => n > 0
      /\ (k > 0 /\ w < 0) \/ (k < 0 /\ w > 0) => n < 0
  <2> DEFINE j == 2 * k
  <2>1. j \in Int /\ (k > 0 => j > 0) /\ (k < 0 => j < 0)
    BY SMT
  <2> HIDE DEF j
  <2> DEFINE m == j * w
  <2>2. /\ m \in Int
        /\ (j > 0 /\ w > 0) \/ (j < 0 /\ w < 0) => m > 0
        /\ (j > 0 /\ w < 0) \/ (j < 0 /\ w > 0) => m < 0
    BY <2>1, SignOfProduct
  <2> HIDE DEF m
  <2>3. /\ m \in Int
        /\ (k > 0 /\ w > 0) \/ (k < 0 /\ w < 0) => m > 0
        /\ (k > 0 /\ w < 0) \/ (k < 0 /\ w > 0) => m < 0
    BY <2>1, <2>2
  <2> QED BY <2>3 DEF j, m
<1>2. s \in Int /\ s # 0 /\ (s > 0 <=> n > 0)
  <2>1. s = RoundUp(n, d)
    OBVIOUS
  <2> HIDE DEF n
  <2>2. (n > 0 \/ n < 0) /\ n \in Int
    BY <1>1, SMT
  <2>3. s \in Int /\ (n > 0 => s > 0) /\ (n < 0 => s < 0)
    BY <2>1, <2>2, RoundUpSign
  <2> QED BY <2>2, <2>3, SMT
<1>3. 2 * Abs(s) <= Abs(b - a)
  BY <1>2, SMT DEF Abs
<1> HIDE DEF n
<1> QED BY <1>1, <1>2, <1>3, SMT DEF Between, Abs

\* Facts about a bracket and a point inside of it where f misses the goal.
Inside(x) ==
  /\ f \in [X -> Int] /\ X \subseteq Int /\ y_goal \in Int
  /\ x0 \in X /\ x1 \in X /\ x \in X
  /\ y0 \in Int /\ y1 \in Int /\ y0 < y_goal /\ y_goal < y1
  /\ Between(x0, x, x1) /\ f[x] # y_goal

\* The step of ZERO leads inside of the bracket that has x for one end.
LEMMA NewtonInside ==
  ASSUME NEW x, Inside(x), Monotonic(x), ~Skipped(Replaced(Bracket, x), x)
  PROVE  LET c == Replaced(Bracket, x)
         IN  /\ NewtonFrom(x) - NewtonStep(x) \in Int
             /\ Between(c.x0, NewtonFrom(x) - NewtonStep(x), c.x1)
<1> DEFINE c == Replaced(Bracket, x)
           y == f[x]
           s == NewtonStep(x)
           w == x1 - x0
<1>1. /\ y \in Int /\ x \in Int /\ x0 \in Int /\ x1 \in Int
      /\ y0 \in Int /\ y1 \in Int /\ y_goal \in Int
      /\ y0 < y_goal /\ y_goal < y1 /\ y # y_goal
  BY SMT DEF Inside
<1>2. Between(x0, x, x1)
  BY DEF Inside
<1>3. /\ y1 - y0 \in Int /\ y1 - y0 > 0
      /\ 3 * (y - y0) - (y1 - y) \in Int /\ 3 * (y - y0) - (y1 - y) > 0
      /\ 3 * (y1 - y) - (y - y0) \in Int /\ 3 * (y1 - y) - (y - y0) > 0
  BY <1>1, SMT DEF Monotonic, Abs
<1>4. ~(2 * Abs(s) > Abs(c.x1 - c.x0))
  BY DEF Skipped
<1>5. /\ w \in Int /\ w # 0
      /\ x0 # x /\ (w > 0 <=> x > x0)
      /\ x # x1 /\ (w > 0 <=> x1 > x)
  BY <1>1, <1>2, SMT DEF Between
<1>6. CASE y > y_goal
  <2>1. c.x0 = x0 /\ c.x1 = x
    BY <1>6 DEF Replaced, Bracket
  <2>2. ~(2 * Abs(s) > Abs(x - x0))
    BY <1>4, <2>1
  <2>3. CASE y - y_goal <= y_goal - y0
    <3> DEFINE k == y - y_goal
               d == y1 - y0
    <3>1. NewtonFrom(x) = x
      BY <1>6, <2>3 DEF NewtonFrom
    <3>2. s = RoundUp(2 * k * w, d)
      BY <3>1 DEF NewtonStep
    <3>3. k \in Int /\ k > 0
      BY <1>1, <1>6, SMT
    <3>4. d \in Int /\ d > 0
      BY <1>3
    <3> HIDE DEF s, w, y, k, d
    <3>5. s \in Int /\ Between(x0, x - s, x)
      BY <1>1, <1>3, <1>5, <2>2, <3>2, <3>3, <3>4, StepInside
    <3> QED BY <1>1, <2>1, <3>1, <3>5, SMT DEF s
  <2>4. CASE ~(y - y_goal <= y_goal - y0)
    <3> DEFINE k == y0 - y_goal
               d == 3 * (y - y0) - (y1 - y)
    <3>1. NewtonFrom(x) = x0
      BY <1>6, <2>4 DEF NewtonFrom
    <3>2. s = RoundUp(2 * k * w, d)
      BY <1>5, <1>6, <3>1 DEF NewtonStep
    <3>3. k \in Int /\ k < 0
      BY <1>1, SMT
    <3>4. d \in Int /\ d > 0
      BY <1>3
    <3> HIDE DEF s, w, y, k, d
    <3>5. s \in Int /\ Between(x0, x0 - s, x)
      BY <1>1, <1>3, <1>5, <2>2, <3>2, <3>3, <3>4, StepInside
    <3> QED BY <1>1, <2>1, <3>1, <3>5, SMT DEF s
  <2> QED BY <2>3, <2>4
<1>7. CASE y < y_goal
  <2>1. c.x0 = x /\ c.x1 = x1 /\ ~(y > y_goal)
    <3>1. ~(y > y_goal)
      BY <1>1, <1>7, SMT
    <3> QED BY <3>1 DEF Replaced, Bracket
  <2>2. ~(2 * Abs(s) > Abs(x1 - x))
    BY <1>4, <2>1
  <2>3. CASE y_goal - y <= y1 - y_goal
    <3> DEFINE k == y - y_goal
               d == y1 - y0
    <3>1. NewtonFrom(x) = x
      BY <2>1, <2>3 DEF NewtonFrom
    <3>2. s = RoundUp(2 * k * w, d)
      BY <3>1 DEF NewtonStep
    <3>3. k \in Int /\ k < 0
      BY <1>1, <1>7, SMT
    <3>4. d \in Int /\ d > 0
      BY <1>3
    <3> HIDE DEF s, w, y, k, d
    <3>5. s \in Int /\ Between(x, x - s, x1)
      BY <1>1, <1>3, <1>5, <2>2, <3>2, <3>3, <3>4, StepInside
    <3> QED BY <1>1, <2>1, <3>1, <3>5, SMT DEF s
  <2>4. CASE ~(y_goal - y <= y1 - y_goal)
    <3> DEFINE k == y1 - y_goal
               d == 3 * (y1 - y) - (y - y0)
    <3>1. NewtonFrom(x) = x1
      BY <2>1, <2>4 DEF NewtonFrom
    <3>2. s = RoundUp(2 * k * w, d)
      BY <1>5, <2>1, <3>1 DEF NewtonStep
    <3>3. k \in Int /\ k > 0
      BY <1>1, SMT
    <3>4. d \in Int /\ d > 0
      BY <1>3
    <3> HIDE DEF s, w, y, k, d
    <3>5. s \in Int /\ Between(x, x1 - s, x1)
      BY <1>1, <1>3, <1>5, <2>2, <3>2, <3>3, <3>4, StepInside
    <3> QED BY <1>1, <2>1, <3>1, <3>5, SMT DEF s
  <2> QED BY <2>3, <2>4
<1> QED BY <1>1, <1>6, <1>7, SMT

\* So does the step from the initial guess when PRE_CONDITION takes it.
LEMMA GuessInside ==
  ASSUME NEW c, NEW x \in Int,
         c.x0 \in Int, c.x1 \in Int, c.y0 \in Int, c.y1 \in Int, Between(c.x0, x, c.x1),
         f[x] \in Int, y_goal \in Int, f[x] # y_goal, TryGuess(c, x)
  PROVE  /\ GuessStep(c, x) \in Int
         /\ f[x] > y_goal => Between(c.x0, x - GuessStep(c, x), x)
         /\ f[x] < y_goal => Between(x, x - GuessStep(c, x), c.x1)
<1> DEFINE k == f[x] - y_goal
           p == x - c.x0
           q == c.x1 - x
           w == c.x1 - c.x0
           u == f[x] - c.y0
           v == c.y1 - f[x]
           s == GuessStep(c, x)
           n == 2 * k * p * q * w
           d == q * q * u + p * p * v
<1>1. /\ k \in Int /\ k # 0 /\ p \in Int /\ q \in Int /\ w \in Int
      /\ (p > 0 /\ q > 0 /\ w > 0) \/ (p < 0 /\ q < 0 /\ w < 0)
      /\ u \in Int /\ u > 0 /\ v \in Int /\ v > 0
  BY SMT DEF Between, TryGuess
<1>2. s = RoundUp(n, d)
  BY DEF GuessStep
<1>3. /\ n \in Int
      /\ (k > 0 /\ w > 0) \/ (k < 0 /\ w < 0) => n > 0
      /\ (k > 0 /\ w < 0) \/ (k < 0 /\ w > 0) => n < 0
  <2> DEFINE k2 == 2 * k
             kp == k2 * p
             kpq == kp * q
             m == kpq * w
  <2>1. k2 \in Int /\ (k > 0 => k2 > 0) /\ (k < 0 => k2 < 0)
    BY <1>1, SMT
  <2> HIDE DEF k, p, q, w, k2
  <2>2. /\ kp \in Int
        /\ (k2 > 0 /\ p > 0) \/ (k2 < 0 /\ p < 0) => kp > 0
        /\ (k2 > 0 /\ p < 0) \/ (k2 < 0 /\ p > 0) => kp < 0
    BY <1>1, <2>1, SignOfProduct
  <2> HIDE DEF kp
  <2>3. /\ kpq \in Int
        /\ (kp > 0 /\ q > 0) \/ (kp < 0 /\ q < 0) => kpq > 0
        /\ (kp > 0 /\ q < 0) \/ (kp < 0 /\ q > 0) => kpq < 0
    BY <1>1, <2>2, SignOfProduct
  <2> HIDE DEF kpq
  <2>4. /\ m \in Int
        /\ (kpq > 0 /\ w > 0) \/ (kpq < 0 /\ w < 0) => m > 0
        /\ (kpq > 0 /\ w < 0) \/ (kpq < 0 /\ w > 0) => m < 0
    BY <1>1, <2>3, SignOfProduct
  <2> HIDE DEF m
  <2>5. /\ m \in Int
        /\ (k > 0 /\ w > 0) \/ (k < 0 /\ w < 0) => m > 0
        /\ (k > 0 /\ w < 0) \/ (k < 0 /\ w > 0) => m < 0
    BY <1>1, <2>1, <2>2, <2>3, <2>4, SMT
  <2> QED BY <2>5 DEF m, kpq, kp, k2
<1>4. d \in Int /\ d > 0
  <2> HIDE DEF p, q, u, v
  <2>1. q * q \in Int /\ q * q > 0 /\ p * p \in Int /\ p * p > 0
    BY <1>1, SignOfProduct
  <2> DEFINE qq == q * q
             pp == p * p
             qu == qq * u
             pv == pp * v
  <2> HIDE DEF qq, pp
  <2>2. qu \in Int /\ qu > 0 /\ pv \in Int /\ pv > 0
    BY <1>1, <2>1, SignOfProduct DEF qq, pp
  <2> HIDE DEF qu, pv
  <2>3. qu + pv \in Int /\ qu + pv > 0
    BY <2>2, SMT
  <2> QED BY <2>3 DEF qq, pp, qu, pv
<1>5. s \in Int /\ (n > 0 => s > 0) /\ (n < 0 => s < 0)
  <2> HIDE DEF n, d, s
  <2> QED BY <1>2, <1>3, <1>4, RoundUpSign
<1>6. /\ k > 0 => ~(Abs(s) >= Abs(p))
      /\ k < 0 => ~(Abs(s) >= Abs(q))
  <2> HIDE DEF s
  <2>1. Abs(s) < IF f[x] > y_goal THEN Abs(p) ELSE Abs(q)
    BY DEF TryGuess, s
  <2> QED BY <1>5, <1>1, <2>1, SMT DEF Abs
<1> DEFINE f_x == f[x]
           c_0 == c.x0
           c_1 == c.x1
<1>7. /\ f_x > y_goal => k > 0
      /\ f_x < y_goal => k < 0
      /\ c_0 = x - p /\ c_1 = x + q
  BY SMT
<1> HIDE DEF n, s, k, p, q, f_x, c_0, c_1, w
<1>8. /\ f_x > y_goal => Between(c_0, x - s, x)
      /\ f_x < y_goal => Between(x, x - s, c_1)
  BY <1>1, <1>3, <1>5, <1>6, <1>7, SMT DEF Between, Abs
<1> QED BY <1>5, <1>8 DEF s, f_x, c_0, c_1

(***************************************************************************)
(* The inductive invariant.  ZERO works on a bracket of the goal and of f, *)
(* with the status cleared; PRE_CONDITION knows f at both ends.            *)
(***************************************************************************)
Known == pc = "PRE_CONDITION" => y0 = f[x0] /\ y1 = f[x1]

\* c is a bracket: f at its ends is known and on either side of the goal.
IsBracket(c) ==
  /\ c \in [x0 : X, x1 : X, y0 : Int, y1 : Int]
  /\ c.y0 = f[c.x0] /\ c.y1 = f[c.x1]
  /\ c.y0 < y_goal /\ y_goal < c.y1

Bracketed == pc = "ZERO" => IsBracket(Bracket) /\ status = "OK"

IInv == TypeOK /\ Known /\ Bracketed /\ CyclesBounded /\ Refined

Typed ==
  /\ f \in [X -> Int] /\ bad \subseteq X /\ X \subseteq Int
  /\ y_goal \in Int /\ x0 \in X /\ x1 \in X /\ y0 \in Int /\ y1 \in Int

LEMMA TypedByInv == TypeOK => Typed
BY OneDAssumption, SMT DEF TypeOK, Typed, X

\* The points between two arguments of f are arguments of f.
LEMMA ArgumentBetween ==
  ASSUME NEW a \in X, NEW b \in X, NEW x \in Int, Between(a, x, b)
  PROVE  x \in X
BY OneDAssumption, SMT DEF X, Between

\* A bracket that ends inside of another is narrower.
LEMMA Narrows ==
  ASSUME NEW a \in Int, NEW b \in Int, NEW x \in Int, Between(a, x, b)
  PROVE  Abs(x - a) < Abs(b - a) /\ Abs(b - x) < Abs(b - a)
BY SMT DEF Between, Abs

\* A bracket with an end replaced is a narrower bracket inside of it.
LEMMA ReplacedBracket ==
  ASSUME Typed, NEW c, IsBracket(c), NEW x \in X, Between(c.x0, x, c.x1), f[x] # y_goal
  PROVE  LET d == Replaced(c, x)
         IN  /\ IsBracket(d)
             /\ Abs(d.x1 - d.x0) < Abs(c.x1 - c.x0)
             /\ f[x] > y_goal => d.x0 = c.x0 /\ d.x1 = x
             /\ f[x] < y_goal => d.x0 = x /\ d.x1 = c.x1
<1> DEFINE d == Replaced(c, x)
<1>1. f[x] \in Int /\ X \subseteq Int /\ y_goal \in Int
  BY DEF Typed
<1>2. c.x0 \in X /\ c.x1 \in X /\ c.y0 \in Int /\ c.y1 \in Int
  BY DEF IsBracket
<1>n. Abs(x - c.x0) < Abs(c.x1 - c.x0) /\ Abs(c.x1 - x) < Abs(c.x1 - c.x0)
  BY <1>1, <1>2, Narrows
<1>c. c = [x0 |-> c.x0, x1 |-> c.x1, y0 |-> c.y0, y1 |-> c.y1]
  BY DEF IsBracket
<1>3. CASE f[x] > y_goal
  <2>1. d = [c EXCEPT !.x1 = x, !.y1 = f[x]]
    BY <1>3 DEF Replaced
  <2>r. d = [x0 |-> c.x0, x1 |-> x, y0 |-> c.y0, y1 |-> f[x]]
    BY <1>c, <2>1
  <2>2. /\ d \in [x0 : X, x1 : X, y0 : Int, y1 : Int]
        /\ d.x0 = c.x0 /\ d.y0 = c.y0 /\ d.x1 = x /\ d.y1 = f[x]
    <3> HIDE DEF d
    <3> QED BY <1>1, <1>2, <2>r
  <2>4. ~(f[x] < y_goal)
    BY <1>1, <1>3, SMT
  <2> QED BY <1>3, <1>n, <2>2, <2>4 DEF IsBracket
<1>4. CASE f[x] < y_goal
  <2>1. ~(f[x] > y_goal)
    BY <1>1, <1>4, SMT
  <2>2. d = [c EXCEPT !.x0 = x, !.y0 = f[x]]
    BY <2>1 DEF Replaced
  <2>r. d = [x0 |-> x, x1 |-> c.x1, y0 |-> f[x], y1 |-> c.y1]
    BY <1>c, <2>2
  <2>3. /\ d \in [x0 : X, x1 : X, y0 : Int, y1 : Int]
        /\ d.x1 = c.x1 /\ d.y1 = c.y1 /\ d.x0 = x /\ d.y0 = f[x]
    <3> HIDE DEF d
    <3> QED BY <1>1, <1>2, <2>r
  <2> QED BY <1>4, <1>n, <2>1, <2>3 DEF IsBracket
<1> QED BY <1>1, <1>3, <1>4, SMT

(***************************************************************************)
(* Three ways to leave a step, each with the invariant.                    *)
(***************************************************************************)
\* What a step of a search leaves alone.
Unasked == UNCHANGED <<f, bad, y_goal, guess>>

LEMMA ExactlyInv ==
  ASSUME TypeOK, Unasked, NEW x \in X, f[x] = y_goal, Exactly(x),
         cycles' \in Nat, width' \in Nat
  PROVE  IInv'
<1>1. /\ x0' = x /\ x1' = x /\ y0' = f[x] /\ y1' = f[x] /\ status' = "OK" /\ pc' = "done"
      /\ f' = f /\ y_goal' = y_goal /\ bad' = bad /\ guess' = guess
  BY DEF Exactly, Return, Unasked
<1>2. Typed /\ x \in Int /\ f[x] \in Int
  BY TypedByInv DEF Typed
<1>3. TypeOK'
  BY <1>1, <1>2 DEF TypeOK
<1>4. Refined'
  BY <1>1, <1>2, SMT DEF Refined, Width, Abs, Typed
<1>5. Known' /\ Bracketed' /\ CyclesBounded'
  BY <1>1 DEF Known, Bracketed, CyclesBounded
<1> QED BY <1>3, <1>4, <1>5 DEF IInv

LEMMA ErrorInv ==
  ASSUME TypeOK, Unasked, NEW s, s # "OK", Return(s),
         x0' \in X, x1' \in X, y0' \in Int, y1' \in Int,
         cycles' \in Nat, width' \in Nat
  PROVE  IInv'
<1>1. /\ status' # "OK" /\ pc' = "done"
      /\ f' = f /\ y_goal' = y_goal /\ bad' = bad /\ guess' = guess
  BY DEF Return, Unasked
<1> QED BY <1>1 DEF TypeOK, IInv, Refined, Known, Bracketed, CyclesBounded

LEMMA SearchInv ==
  ASSUME TypeOK, Unasked, NEW c, IsBracket(c), SetBracket(c),
         pc' = "ZERO", status' = "OK",
         cycles' \in Nat, width' \in Nat, cycles' + Abs(c.x1 - c.x0) <= width'
  PROVE  IInv'
<1>1. f' = f /\ y_goal' = y_goal /\ bad' = bad /\ guess' = guess
  BY DEF Unasked
<1>2. x0' = c.x0 /\ x1' = c.x1 /\ y0' = c.y0 /\ y1' = c.y1
  BY DEF SetBracket
<1>3. /\ c.x0 \in X /\ c.x1 \in X /\ c.y0 \in Int /\ c.y1 \in Int
      /\ c.y0 = f[c.x0] /\ c.y1 = f[c.x1] /\ c.y0 < y_goal /\ y_goal < c.y1
  BY DEF IsBracket
<1>4. TypeOK'
  BY <1>1, <1>2, <1>3 DEF TypeOK
<1>5. Bracketed'
  BY <1>1, <1>2, <1>3 DEF Bracketed, IsBracket, Bracket
<1>6. CyclesBounded'
  BY <1>2 DEF CyclesBounded, Width
<1>7. Known' /\ Refined'
  BY DEF Known, Refined
<1> QED BY <1>4, <1>5, <1>6, <1>7 DEF IInv

(***************************************************************************)
(* PRE_CONDITION.                                                          *)
(***************************************************************************)
LEMMA OrderedBracket ==
  ASSUME TypeOK, y0 = f[x0], y1 = f[x1], ~AtEnds, ~NoBracket
  PROVE  /\ IsBracket(Ordered)
         /\ \A x : Between(x0, x, x1) => Between(Ordered.x0, x, Ordered.x1)
<1>1. Typed
  BY TypedByInv
<1>2. y0 # y_goal /\ y1 # y_goal
  BY DEF AtEnds
<1>3. CASE y0 > y1
  <2>1. Ordered = [x0 |-> x1, x1 |-> x0, y0 |-> y1, y1 |-> y0]
    BY <1>3 DEF Ordered
  <2>2. y1 < y_goal /\ y_goal < y0
    BY <1>1, <1>2, <1>3, SMT DEF Typed, NoBracket
  <2> QED BY <1>1, <2>1, <2>2 DEF IsBracket, Typed, Between
<1>4. CASE ~(y0 > y1)
  <2>1. Ordered = [x0 |-> x0, x1 |-> x1, y0 |-> y0, y1 |-> y1]
    BY <1>4 DEF Ordered, Bracket
  <2>2. y0 < y_goal /\ y_goal < y1
    BY <1>1, <1>2, <1>4, SMT DEF Typed, NoBracket
  <2> QED BY <1>1, <2>1, <2>2 DEF IsBracket, Typed, Between
<1> QED BY <1>3, <1>4

LEMMA StartZEROInv ==
  ASSUME TypeOK, Unasked, NEW c, IsBracket(c), StartZERO(c)
  PROVE  IInv'
<1>1. c.x0 \in Int /\ c.x1 \in Int
  BY TypedByInv DEF IsBracket, Typed
<1>2. /\ SetBracket(c) /\ status' = "OK" /\ pc' = "ZERO"
      /\ cycles' = 0 /\ width' = Abs(c.x1 - c.x0)
  BY DEF StartZERO
<1>3. Abs(c.x1 - c.x0) \in Nat /\ 0 + Abs(c.x1 - c.x0) <= Abs(c.x1 - c.x0)
  BY <1>1, SMT DEF Abs
<1> QED BY <1>2, <1>3, SearchInv

LEMMA UseGuessInv ==
  ASSUME TypeOK, Unasked, NEW c, IsBracket(c), Between(c.x0, guess, c.x1), UseGuess(c)
  PROVE  IInv'
<1> DEFINE d == Replaced(c, guess)
           x == guess - GuessStep(c, guess)
<1>1. Typed
  BY TypedByInv
<1>2. /\ c.x0 \in X /\ c.x1 \in X /\ c.y0 \in Int /\ c.y1 \in Int
      /\ guess \in Int /\ cycles \in Nat /\ width \in Nat /\ X \subseteq Int
  BY <1>1 DEF IsBracket, TypeOK, Typed
<1>3. guess \in X /\ f[guess] \in Int
  BY <1>1, <1>2, ArgumentBetween DEF Typed
<1>4. CASE guess \in bad /\ Return("ZERO_INSIDE") /\ SetBracket(c) /\ UNCHANGED <<cycles, width>>
  BY <1>2, <1>4, ErrorInv DEF SetBracket
<1>5. CASE f[guess] = y_goal /\ Exactly(guess) /\ UNCHANGED <<cycles, width>>
  BY <1>2, <1>3, <1>5, ExactlyInv
<1>6. CASE f[guess] # y_goal /\ ~TryGuess(c, guess) /\ StartZERO(d)
  <2>1. IsBracket(d)
    BY <1>1, <1>3, <1>6, ReplacedBracket
  <2> QED BY <1>6, <2>1, StartZEROInv
<1>7. CASE /\ guess \notin bad /\ f[guess] # y_goal /\ TryGuess(c, guess)
           /\ \/ x \in bad /\ Return("ZERO_INSIDE") /\ SetBracket(d) /\ UNCHANGED <<cycles, width>>
              \/ x \notin bad /\ f[x] = y_goal /\ Exactly(x) /\ UNCHANGED <<cycles, width>>
              \/ x \notin bad /\ f[x] # y_goal /\ StartZERO(Replaced(d, x))
  <2>1. /\ IsBracket(d)
        /\ f[guess] > y_goal => d.x0 = c.x0 /\ d.x1 = guess
        /\ f[guess] < y_goal => d.x0 = guess /\ d.x1 = c.x1
    BY <1>1, <1>3, <1>7, ReplacedBracket
  <2>2. d.x0 \in X /\ d.x1 \in X /\ d.y0 \in Int /\ d.y1 \in Int
    BY <2>1 DEF IsBracket
  <2>3. Between(d.x0, x, d.x1)
    <3>1. f[guess] > y_goal \/ f[guess] < y_goal
      BY <1>1, <1>3, <1>7, SMT DEF Typed
    <3>2. c.x0 \in Int /\ c.x1 \in Int /\ y_goal \in Int
      BY <1>1, <1>2 DEF Typed
    <3>3. /\ f[guess] > y_goal => Between(c.x0, x, guess)
          /\ f[guess] < y_goal => Between(guess, x, c.x1)
      BY <1>2, <1>3, <1>7, <3>2, GuessInside
    <3> QED BY <2>1, <3>1, <3>3
  <2>4. x \in Int
    <3>1. c.x0 \in Int /\ c.x1 \in Int /\ y_goal \in Int
      BY <1>1, <1>2 DEF Typed
    <3>2. GuessStep(c, guess) \in Int
      BY <1>2, <1>3, <1>7, <3>1, GuessInside
    <3> QED BY <1>2, <3>2, SMT
  <2>5. x \in X
    BY <2>2, <2>3, <2>4, ArgumentBetween
  <2>6. CASE x \in bad /\ Return("ZERO_INSIDE") /\ SetBracket(d) /\ UNCHANGED <<cycles, width>>
    BY <1>2, <2>2, <2>6, ErrorInv DEF SetBracket
  <2>7. CASE f[x] = y_goal /\ Exactly(x) /\ UNCHANGED <<cycles, width>>
    BY <1>2, <2>5, <2>7, ExactlyInv
  <2>8. CASE f[x] # y_goal /\ StartZERO(Replaced(d, x))
    <3>1. IsBracket(Replaced(d, x))
      BY <1>1, <2>1, <2>3, <2>5, <2>8, ReplacedBracket
    <3> QED BY <2>8, <3>1, StartZEROInv
  <2> QED BY <1>7, <2>6, <2>7, <2>8
<1> QED BY <1>4, <1>5, <1>6, <1>7 DEF UseGuess

LEMMA PreConditionInv ==
  ASSUME IInv, PRE_CONDITION
  PROVE  IInv'
<1>1. /\ TypeOK /\ Typed /\ Unasked /\ pc = "PRE_CONDITION"
      /\ y0 = f[x0] /\ y1 = f[x1]
  BY TypedByInv DEF IInv, PRE_CONDITION, Known, Unasked
<1>2. CASE y0 = y_goal /\ x1' = x0 /\ y1' = y0 /\ pc' = "done" /\ UNCHANGED <<x0, y0, status, cycles, width>>
  <2>1. TypeOK'
    BY <1>1, <1>2 DEF TypeOK, Unasked
  <2>2. Refined'
    <3>1. x0' = x0 /\ x1' = x0 /\ y0' = y_goal /\ y1' = y_goal /\ f' = f /\ y_goal' = y_goal
      BY <1>1, <1>2 DEF Unasked
    <3>2. x0 \in Int /\ f[x0] = y_goal /\ y_goal \in Int
      BY <1>1, <1>2 DEF Typed
    <3> QED BY <3>1, <3>2, SMT DEF Refined, Width, Abs
  <2> QED BY <1>2, <2>1, <2>2 DEF IInv, Known, Bracketed, CyclesBounded
<1>3. CASE y1 = y_goal /\ x0' = x1 /\ y0' = y1 /\ pc' = "done" /\ UNCHANGED <<x1, y1, status, cycles, width>>
  <2>1. TypeOK'
    BY <1>1, <1>3 DEF TypeOK, Unasked
  <2>2. Refined'
    <3>1. x0' = x1 /\ x1' = x1 /\ y0' = y_goal /\ y1' = y_goal /\ f' = f /\ y_goal' = y_goal
      BY <1>1, <1>3 DEF Unasked
    <3>2. x1 \in Int /\ f[x1] = y_goal /\ y_goal \in Int
      BY <1>1, <1>3 DEF Typed
    <3> QED BY <3>1, <3>2, SMT DEF Refined, Width, Abs
  <2> QED BY <1>3, <2>1, <2>2 DEF IInv, Known, Bracketed, CyclesBounded
<1>4. CASE Return("ZERO_NO_BRACKET") /\ UNCHANGED <<bracket, cycles, width>>
  BY <1>1, <1>4, ErrorInv DEF TypeOK, Typed, bracket
<1>5. CASE ~AtEnds /\ ~NoBracket /\ Between(x0, guess, x1) /\ UseGuess(Ordered)
  <2>1. IsBracket(Ordered) /\ Between(Ordered.x0, guess, Ordered.x1)
    BY <1>1, <1>5, OrderedBracket
  <2> QED BY <1>1, <1>5, <2>1, UseGuessInv
<1>6. CASE ~AtEnds /\ ~NoBracket /\ StartZERO(Ordered)
  <2>1. IsBracket(Ordered)
    BY <1>1, <1>6, OrderedBracket
  <2> QED BY <1>1, <1>6, <2>1, StartZEROInv
<1> QED BY <1>2, <1>3, <1>4, <1>5, <1>6 DEF PRE_CONDITION

(***************************************************************************)
(* A cycle of ZERO.                                                        *)
(***************************************************************************)
LEMMA ZEROInv ==
  ASSUME IInv, ZERO
  PROVE  IInv'
<1> DEFINE x == Center
           c == Replaced(Bracket, x)
           xn == NewtonFrom(x) - NewtonStep(x)
<1>1. /\ TypeOK /\ Typed /\ Unasked /\ pc = "ZERO" /\ Width > 1
      /\ IsBracket(Bracket) /\ status = "OK" /\ cycles + Width <= width
      /\ cycles' = cycles + 1 /\ width' = width
  BY TypedByInv DEF IInv, ZERO, Bracketed, CyclesBounded, Unasked
<1>2. /\ x0 \in X /\ x1 \in X /\ y0 \in Int /\ y1 \in Int /\ X \subseteq Int
      /\ cycles \in Nat /\ width \in Nat /\ f \in [X -> Int] /\ y_goal \in Int
  BY <1>1 DEF TypeOK, Typed
<1>3. x \in X /\ Between(x0, x, x1)
  <2>1. x \in Int /\ Between(x0, x, x1)
    BY <1>1, <1>2, CenterBetween
  <2> QED BY <1>2, <2>1, ArgumentBetween
<1>4. Bracket.x0 = x0 /\ Bracket.x1 = x1 /\ y0 < y_goal /\ y_goal < y1
  BY <1>1 DEF Bracket, IsBracket
<1>5. cycles' \in Nat /\ width' \in Nat
  BY <1>1, <1>2, SMT
<1> HIDE DEF x, c, xn
<1>6. CASE x \in bad /\ Return("ZERO_INSIDE") /\ UNCHANGED bracket
  BY <1>1, <1>2, <1>5, <1>6, ErrorInv DEF bracket
<1>7. CASE f[x] = y_goal /\ Exactly(x)
  BY <1>1, <1>3, <1>5, <1>7, ExactlyInv
<1>8. ASSUME f[x] # y_goal
      PROVE  /\ IsBracket(c) /\ Abs(c.x1 - c.x0) < Width
             /\ c.x0 \in X /\ c.x1 \in X /\ c.y0 \in Int /\ c.y1 \in Int
  <2>1. IsBracket(c) /\ Abs(c.x1 - c.x0) < Abs(Bracket.x1 - Bracket.x0)
    BY <1>1, <1>3, <1>4, <1>8, ReplacedBracket DEF c
  <2> QED BY <1>4, <2>1 DEF Width, IsBracket
<1>9. ASSUME NEW d, IsBracket(d), Abs(d.x1 - d.x0) < Width
      PROVE  cycles' + Abs(d.x1 - d.x0) <= width'
  <2>1. d.x0 \in Int /\ d.x1 \in Int /\ x0 \in Int /\ x1 \in Int
    BY <1>2, <1>9 DEF IsBracket
  <2>2. Abs(d.x1 - d.x0) \in Int /\ Width \in Int
    BY <2>1, SMT DEF Abs, Width
  <2> QED BY <1>1, <1>2, <1>9, <2>2, SMT
<1>10. CASE f[x] # y_goal /\ SetBracket(c) /\ UNCHANGED <<status, pc>>
  BY <1>1, <1>5, <1>8, <1>9, <1>10, SearchInv
<1>11. CASE /\ f[x] # y_goal /\ Monotonic(x) /\ ~Skipped(c, x)
            /\ \/ xn \in bad /\ Return("ZERO_INSIDE") /\ SetBracket(c)
               \/ xn \notin bad /\ f[xn] = y_goal /\ Exactly(xn)
               \/ /\ xn \notin bad /\ f[xn] # y_goal
                  /\ SetBracket(Replaced(c, xn)) /\ UNCHANGED <<status, pc>>
  <2>1. Inside(x)
    BY <1>2, <1>3, <1>4, <1>11 DEF Inside
  <2>2. xn \in Int /\ Between(c.x0, xn, c.x1)
    BY <1>11, <2>1, NewtonInside DEF c, xn
  <2>3. xn \in X
    BY <1>8, <1>11, <2>2, ArgumentBetween
  <2>4. CASE xn \in bad /\ Return("ZERO_INSIDE") /\ SetBracket(c)
    BY <1>1, <1>5, <1>8, <1>11, <2>4, ErrorInv DEF SetBracket
  <2>5. CASE f[xn] = y_goal /\ Exactly(xn)
    BY <1>1, <1>5, <2>3, <2>5, ExactlyInv
  <2>6. CASE f[xn] # y_goal /\ SetBracket(Replaced(c, xn)) /\ UNCHANGED <<status, pc>>
    <3> DEFINE d == Replaced(c, xn)
    <3>1. IsBracket(d) /\ Abs(d.x1 - d.x0) < Abs(c.x1 - c.x0)
      BY <1>1, <1>8, <1>11, <2>2, <2>3, <2>6, ReplacedBracket
    <3>2. Abs(d.x1 - d.x0) < Width
      <4> HIDE DEF d
      <4>1. /\ d.x0 \in Int /\ d.x1 \in Int /\ c.x0 \in Int /\ c.x1 \in Int
            /\ x0 \in Int /\ x1 \in Int
        BY <1>2, <1>8, <1>11, <3>1 DEF IsBracket
      <4>2. Abs(d.x1 - d.x0) \in Int /\ Width \in Int /\ Abs(c.x1 - c.x0) \in Int
        BY <4>1, SMT DEF Abs, Width
      <4> QED BY <1>8, <1>11, <3>1, <4>2, SMT
    <3>3. cycles' + Abs(d.x1 - d.x0) <= width'
      BY <1>9, <3>1, <3>2
    <3> QED BY <1>1, <1>5, <2>6, <3>1, <3>3, SearchInv
  <2> QED BY <1>11, <2>4, <2>5, <2>6
<1> QED BY <1>6, <1>7, <1>10, <1>11 DEF ZERO, x, c, xn

(***************************************************************************)
(* A search stays inside of its bracket.                                   *)
(***************************************************************************)
In(c, x) == x = c.x0 \/ x = c.x1 \/ Between(c.x0, x, c.x1)

\* The bracket d lies in the bracket c.
Within(d, c) == In(c, d.x0) /\ In(c, d.x1)

LEMMA InWithin ==
  ASSUME NEW c, NEW d, c.x0 \in Int, c.x1 \in Int, d.x0 \in Int, d.x1 \in Int,
         Within(d, c), NEW x \in Int, In(d, x)
  PROVE  In(c, x)
BY SMT DEF In, Within, Between

\* The ends a step leaves behind are those of a bracket inside of the old one,
\* or one point of it.
LEMMA NarrowerBracket ==
  ASSUME NEW d, Within(d, Bracket), SetBracket(d)
  PROVE  Narrower
BY DEF SetBracket, Within, In, Bracket, Narrower

LEMMA NarrowerPoint ==
  ASSUME NEW x, In(Bracket, x), x0' = x, x1' = x
  PROVE  Narrower
BY DEF In, Bracket, Narrower

LEMMA ReplacedWithin ==
  ASSUME Typed, NEW c, IsBracket(c), NEW x \in X, Between(c.x0, x, c.x1), f[x] # y_goal
  PROVE  Within(Replaced(c, x), c)
<1>1. f[x] > y_goal \/ f[x] < y_goal
  BY SMT DEF Typed
<1> QED BY <1>1, ReplacedBracket DEF Within, In

LEMMA GuessNarrower ==
  ASSUME TypeOK, NEW c, IsBracket(c), Within(c, Bracket), Between(c.x0, guess, c.x1),
         UseGuess(c)
  PROVE  Narrower
<1> DEFINE d == Replaced(c, guess)
           x == guess - GuessStep(c, guess)
<1>1. /\ Typed /\ x0 \in Int /\ x1 \in Int /\ y_goal \in Int
      /\ c.x0 \in Int /\ c.x1 \in Int /\ c.y0 \in Int /\ c.y1 \in Int
  BY TypedByInv DEF Typed, IsBracket
<1>2. guess \in Int /\ guess \in X /\ f[guess] \in Int
  BY <1>1, ArgumentBetween DEF TypeOK, Typed, IsBracket
<1>3. Bracket.x0 = x0 /\ Bracket.x1 = x1
  BY DEF Bracket
<1>4. \A z \in Int : In(c, z) => In(Bracket, z)
  BY <1>1, <1>3, InWithin
<1>5. CASE SetBracket(c)
  BY <1>5, NarrowerBracket
<1>6. CASE Exactly(guess)
  BY <1>2, <1>4, <1>6, NarrowerPoint DEF In, Exactly
<1>7. ASSUME f[guess] # y_goal
      PROVE  /\ IsBracket(d) /\ Within(d, c) /\ Within(d, Bracket)
             /\ d.x0 \in Int /\ d.x1 \in Int
             /\ f[guess] > y_goal => d.x0 = c.x0 /\ d.x1 = guess
             /\ f[guess] < y_goal => d.x0 = guess /\ d.x1 = c.x1
  <2>1. /\ IsBracket(d) /\ Within(d, c)
        /\ f[guess] > y_goal => d.x0 = c.x0 /\ d.x1 = guess
        /\ f[guess] < y_goal => d.x0 = guess /\ d.x1 = c.x1
    BY <1>1, <1>2, <1>7, ReplacedBracket, ReplacedWithin
  <2>2. d.x0 \in Int /\ d.x1 \in Int
    BY <1>1, <2>1 DEF IsBracket, Typed
  <2> QED BY <1>4, <2>1, <2>2 DEF Within
<1>8. CASE f[guess] # y_goal /\ StartZERO(d)
  BY <1>7, <1>8, NarrowerBracket DEF StartZERO
<1>9. CASE f[guess] # y_goal /\ SetBracket(d)
  BY <1>7, <1>9, NarrowerBracket
<1>10. ASSUME f[guess] # y_goal, TryGuess(c, guess)
       PROVE  x \in Int /\ x \in X /\ Between(d.x0, x, d.x1)
  <2>1. f[guess] > y_goal \/ f[guess] < y_goal
    BY <1>1, <1>2, <1>10, SMT
  <2>2. /\ GuessStep(c, guess) \in Int
        /\ f[guess] > y_goal => Between(c.x0, x, guess)
        /\ f[guess] < y_goal => Between(guess, x, c.x1)
    BY <1>1, <1>2, <1>10, GuessInside
  <2>3. Between(d.x0, x, d.x1)
    BY <1>7, <1>10, <2>1, <2>2
  <2>4. x \in Int
    BY <1>2, <2>2, SMT
  <2> QED BY <1>7, <1>10, <2>3, <2>4, ArgumentBetween DEF IsBracket
<1>11. CASE f[guess] # y_goal /\ TryGuess(c, guess) /\ Exactly(x)
  <2>1. In(d, x) /\ x \in Int
    BY <1>10, <1>11 DEF In
  <2>2. In(c, x)
    BY <1>1, <1>7, <1>11, <2>1, InWithin
  <2> QED BY <1>4, <1>11, <2>1, <2>2, NarrowerPoint DEF Exactly
<1>12. CASE /\ f[guess] # y_goal /\ TryGuess(c, guess)
            /\ f[x] # y_goal /\ StartZERO(Replaced(d, x))
  <2> DEFINE b == Replaced(d, x)
  <2>1. IsBracket(b) /\ Within(b, d)
    BY <1>1, <1>7, <1>10, <1>12, ReplacedBracket, ReplacedWithin
  <2>2. b.x0 \in Int /\ b.x1 \in Int
    BY <1>1, <2>1 DEF IsBracket, Typed
  <2>3. \A z \in Int : In(d, z) => In(Bracket, z)
    BY <1>1, <1>4, <1>7, <1>12, InWithin
  <2>4. Within(b, Bracket)
    BY <2>1, <2>2, <2>3 DEF Within
  <2> QED BY <1>12, <2>4, NarrowerBracket DEF StartZERO
<1> QED BY <1>5, <1>6, <1>8, <1>9, <1>11, <1>12 DEF UseGuess

LEMMA PreConditionNarrower ==
  ASSUME IInv, PRE_CONDITION
  PROVE  Narrower
<1>1. /\ TypeOK /\ y0 = f[x0] /\ y1 = f[x1]
  BY DEF IInv, PRE_CONDITION, Known
<1>2. CASE UNCHANGED x0 /\ x1' = x0
  BY <1>2 DEF Narrower
<1>3. CASE UNCHANGED x1 /\ x0' = x1
  BY <1>3 DEF Narrower
<1>4. CASE UNCHANGED bracket
  BY <1>4 DEF Narrower, bracket
<1>5. Within(Ordered, Bracket)
  BY DEF Within, In, Ordered, Bracket
<1>6. CASE ~AtEnds /\ ~NoBracket /\ Between(x0, guess, x1) /\ UseGuess(Ordered)
  <2>1. IsBracket(Ordered) /\ Between(Ordered.x0, guess, Ordered.x1)
    BY <1>1, <1>6, OrderedBracket
  <2> QED BY <1>1, <1>5, <1>6, <2>1, GuessNarrower
<1>7. CASE StartZERO(Ordered)
  BY <1>5, <1>7, NarrowerBracket DEF StartZERO
<1> QED BY <1>2, <1>3, <1>4, <1>6, <1>7 DEF PRE_CONDITION

LEMMA ZERONarrower ==
  ASSUME IInv, ZERO
  PROVE  Narrower
<1> DEFINE x == Center
           c == Replaced(Bracket, x)
           xn == NewtonFrom(x) - NewtonStep(x)
<1>1. /\ Typed /\ Width > 1 /\ IsBracket(Bracket)
      /\ Bracket.x0 = x0 /\ Bracket.x1 = x1
  BY TypedByInv DEF IInv, ZERO, Bracketed, Bracket
<1>2. /\ x0 \in Int /\ x1 \in Int /\ y0 \in Int /\ y1 \in Int /\ y_goal \in Int
      /\ x0 \in X /\ x1 \in X /\ y0 < y_goal /\ y_goal < y1
  BY <1>1 DEF Typed, IsBracket, Bracket
<1>3. x \in Int /\ x \in X /\ Between(x0, x, x1) /\ f[x] \in Int
  <2>1. x \in Int /\ Between(x0, x, x1)
    BY <1>1, <1>2, CenterBetween DEF Center, Width
  <2> QED BY <1>1, <1>2, <2>1, ArgumentBetween DEF Typed
<1> HIDE DEF x, c, xn
<1>4. CASE UNCHANGED bracket
  BY <1>4 DEF Narrower, bracket
<1>5. CASE Exactly(x)
  BY <1>1, <1>3, <1>5, NarrowerPoint DEF In, Exactly
<1>6. ASSUME f[x] # y_goal
      PROVE  IsBracket(c) /\ Within(c, Bracket) /\ c.x0 \in Int /\ c.x1 \in Int
  <2>1. IsBracket(c) /\ Within(c, Bracket)
    BY <1>1, <1>3, <1>6, ReplacedBracket, ReplacedWithin DEF c
  <2> QED BY <1>1, <2>1 DEF IsBracket, Typed
<1>7. CASE f[x] # y_goal /\ SetBracket(c)
  BY <1>6, <1>7, NarrowerBracket
<1>8. ASSUME f[x] # y_goal, Monotonic(x), ~Skipped(c, x)
      PROVE  xn \in Int /\ xn \in X /\ Between(c.x0, xn, c.x1)
  <2>1. Inside(x)
    BY <1>1, <1>2, <1>3, <1>8 DEF Inside, Typed
  <2>2. xn \in Int /\ Between(c.x0, xn, c.x1)
    BY <1>8, <2>1, NewtonInside DEF c, xn
  <2> QED BY <1>6, <1>8, <2>2, ArgumentBetween DEF IsBracket
<1>9. \A z \in Int : f[x] # y_goal /\ In(c, z) => In(Bracket, z)
  BY <1>1, <1>2, <1>6, InWithin
<1>10. CASE f[x] # y_goal /\ Monotonic(x) /\ ~Skipped(c, x) /\ Exactly(xn)
  BY <1>8, <1>9, <1>10, NarrowerPoint DEF In, Exactly
<1>11. CASE /\ f[x] # y_goal /\ Monotonic(x) /\ ~Skipped(c, x)
            /\ f[xn] # y_goal /\ SetBracket(Replaced(c, xn))
  <2> DEFINE d == Replaced(c, xn)
  <2>1. IsBracket(d) /\ Within(d, c)
    BY <1>1, <1>6, <1>8, <1>11, ReplacedBracket, ReplacedWithin
  <2>2. d.x0 \in Int /\ d.x1 \in Int
    BY <1>1, <2>1 DEF IsBracket, Typed
  <2>3. Within(d, Bracket)
    BY <1>9, <1>11, <2>1, <2>2 DEF Within
  <2> QED BY <1>11, <2>3, NarrowerBracket
<1> QED BY <1>4, <1>5, <1>7, <1>10, <1>11 DEF ZERO, x, c, xn

(***************************************************************************)
(* The theorems.                                                           *)
(***************************************************************************)
\* IInv holds in every state a sequence of calls reaches.
THEOREM Invariance == Spec => []IInv
<1>1. Init => IInv
  <2> SUFFICES ASSUME Init
               PROVE  IInv
    OBVIOUS
  <2>1. TypeOK
    BY OneDAssumption DEF Init, TypeOK, X
  <2>2. Known /\ Bracketed /\ CyclesBounded /\ Refined
    BY DEF Init, Known, Bracketed, CyclesBounded, Refined
  <2> QED BY <2>1, <2>2 DEF IInv
<1>2. IInv /\ [Next]_vars => IInv'
  <2> SUFFICES ASSUME IInv, [Next]_vars
               PROVE  IInv'
    OBVIOUS
  <2>1. TypeOK /\ Typed
    BY TypedByInv DEF IInv
  <2>2. ASSUME NEW y_g \in Goals, NEW x_0 \in Ends, NEW x_1 \in Ends, NEW x_guess \in Guesses,
               inverse(y_g, x_0, x_1, x_guess)
        PROVE  IInv'
    <3>1. TypeOK'
      BY <2>1, <2>2, OneDAssumption DEF inverse, TypeOK
    <3> QED BY <2>2, <3>1 DEF inverse, IInv, Known, Bracketed, CyclesBounded, Refined
  <2>3. ASSUME NEW y_g \in Goals, NEW x_0 \in Ends, NEW x_1 \in Ends, NEW x_guess \in Guesses,
               inverseWith(y_g, x_0, x_1, x_guess)
        PROVE  IInv'
    <3>1. x_0 \in X /\ x_1 \in X /\ x_guess \in Int /\ f[x_0] \in Int /\ f[x_1] \in Int
      BY <2>1, OneDAssumption DEF Typed
    <3>2. TypeOK'
      BY <2>1, <2>3, <3>1 DEF inverseWith, TypeOK
    <3> QED BY <2>3, <3>2 DEF inverseWith, IInv, Known, Bracketed, CyclesBounded, Refined
  <2>4. CASE PRE_ZERO
    <3>1. f[x0] \in Int /\ f[x1] \in Int
      BY <2>1 DEF Typed
    <3>2. TypeOK'
      BY <2>1, <2>4, <3>1 DEF PRE_ZERO, TypeOK, Return
    <3> QED BY <2>4, <3>2 DEF PRE_ZERO, IInv, Known, Bracketed, CyclesBounded, Refined, Return
  <2>5. CASE PRE_CONDITION
    BY <2>5, PreConditionInv
  <2>6. CASE ZERO
    BY <2>6, ZEROInv
  <2>7. CASE ZEROEnd
    <3>1. /\ pc = "ZERO" /\ Width <= 1 /\ pc' = "done"
          /\ UNCHANGED <<f, bad, y_goal, bracket, cycles, status, guess, width>>
      BY <2>7 DEF ZEROEnd
    <3>2. TypeOK'
      BY <2>1, <3>1 DEF TypeOK, bracket
    <3>3. y0 = f[x0] /\ y1 = f[x1] /\ y0 < y_goal /\ y_goal < y1
      BY <3>1 DEF IInv, Bracketed, IsBracket, Bracket
    <3>4. f[x0] <= y_goal /\ y_goal <= f[x1]
      BY <2>1, <3>3, SMT DEF Typed
    <3>5. Refined'
      BY <3>1, <3>3, <3>4 DEF Refined, Width, bracket
    <3> QED BY <3>1, <3>2, <3>5 DEF IInv, Known, Bracketed, CyclesBounded
  <2>8. CASE UNCHANGED vars
    BY <2>8 DEF vars, bracket, IInv, TypeOK, Known, Bracketed, IsBracket, Bracket,
                CyclesBounded, Width, Refined
  <2> QED BY <2>2, <2>3, <2>4, <2>5, <2>6, <2>7, <2>8 DEF Next, Call, Search
<1> QED BY <1>1, <1>2, PTL DEF Spec

\* The fields keep their types; the ends of the bracket are arguments of f.
THEOREM TypeCorrect == Spec => []TypeOK
BY Invariance, PTL DEF IInv

\* A bracket reported good is one: two neighbours, f on either side of the goal.
THEOREM GoodBracket == Spec => []Refined
BY Invariance, PTL DEF IInv

\* The loop of ZERO takes fewer cycles than the width of its bracket.
THEOREM FewCycles == Spec => []CyclesBounded
BY Invariance, PTL DEF IInv

\* f is asked between the ends of the bracket only, which never moves out of
\* itself: not by a bisection, a Newton step or a guess.
THEOREM StaysInBracket == Spec => Narrowing
<1>1. IInv /\ [Next]_vars => [Narrower]_vars
  <2> SUFFICES ASSUME IInv, Next
               PROVE  Narrower \/ UNCHANGED vars
    OBVIOUS
  <2>1. CASE Call
    BY <2>1 DEF Call, inverse, inverseWith, Narrower
  <2>2. CASE PRE_ZERO
    BY <2>2 DEF PRE_ZERO, Narrower
  <2>3. CASE PRE_CONDITION
    BY <2>3, PreConditionNarrower
  <2>4. CASE ZERO
    BY <2>4, ZERONarrower
  <2>5. CASE ZEROEnd
    BY <2>5 DEF ZEROEnd, bracket, Narrower
  <2> QED BY <2>1, <2>2, <2>3, <2>4, <2>5 DEF Next, Search
<1> QED BY <1>1, Invariance, PTL DEF Spec, Narrowing
=============================================================================
