----------------------------- MODULE Dimensions -----------------------------
(***************************************************************************)
(* The unit in which a number of the library is held.                      *)
(*                                                                         *)
(* ConvertUnits replaces a system of units by another: a number x of       *)
(* dimension d becomes x * s_d, where s_d = Convert::factor("d") is a      *)
(* product of powers of the factors of the fundamental units L, m, t, T    *)
(* (DATA/Units.data:44-54).  A number is abstracted to the product it has  *)
(* been multiplied by, as the exponents of L, m, t, T (doubled, so that    *)
(* square roots stay integral), and the C++ expressions to the rules for   *)
(* those exponents: a sum, a comparison or a call needs equal exponents,   *)
(* products add them, exp and log need none.                               *)
(*                                                                         *)
(* An expression of the model is the C++ expression with the literal       *)
(* factors left out.  A literal added to or compared with a number, 0, and *)
(* the NaN returned outside a domain have the value Free: they are taken in *)
(* the unit of the number.  The absolute tolerances of the solvers         *)
(* (OneDFunc_abs_tol and the like) are numbers of the dimension One.  A    *)
(* function is the combination of all its paths: `++' joins the results of *)
(* its returns, and Guard(S) stands for the comparisons S made on the way. *)
(*                                                                         *)
(* Velocities also depend on the observer.  A fifth exponent, modulo 2,    *)
(* says whether the number changes sign when left and right are exchanged  *)
(* (the directions 1 and -1 of a wave do); the sixth entry how often the   *)
(* speed of the observer is contained in the number: 1 for a velocity, 0   *)
(* for the difference of two of them and for everything else.              *)
(***************************************************************************)
EXTENDS Integers

Unset == <<0, 0>>            \* a number never assigned, a NULL component
Bad   == <<>>                \* a sum or a comparison of different units
Free  == <<0>>
One   == <<0, 0, 0, 0, 0, 0>>    \* dimensionless; or not converted yet

Moved(a) == a \notin {Unset, Bad, Free}
Unit(a)  == [i \in 1..5 |-> a[i]]

\* Sum; minimum, maximum and the join of two paths, for what no observer
\* changes.
a ++ b == IF Unset \in {a, b} THEN Unset
          ELSE IF a = Free THEN b
          ELSE IF b = Free THEN a
          ELSE IF a = Bad \/ b = Bad \/ Unit(a) # Unit(b) THEN Bad
          ELSE [a EXCEPT ![6] = a[6] + b[6]]

\* Difference, comparison.
a -- b == IF Moved(b) THEN a ++ [b EXCEPT ![6] = -b[6]] ELSE a ++ b

\* Product.
a ** b == IF Unset \in {a, b} THEN Unset
          ELSE IF Bad \in {a, b} THEN Bad
          ELSE IF Free \in {a, b} THEN Free
          ELSE IF a[6] # 0 \/ b[6] # 0 THEN Bad
          ELSE [i \in 1..6 |-> IF i = 5 THEN (a[5] + b[5]) % 2 ELSE a[i] + b[i]]

\* Integral power n, and half of it.
a ^^ n == IF ~Moved(a) THEN a
          ELSE IF a[6] # 0 THEN Bad
          ELSE [i \in 1..6 |-> IF i = 5 THEN (n * a[5]) % 2 ELSE n * a[i]]

a // b == a ** b^^(-1)

Sqrt(a) == IF ~Moved(a) THEN a
           ELSE IF a[5] = 0 /\ a[6] = 0 /\ \A i \in 1..4 : a[i] % 2 = 0
                THEN [i \in 1..6 |-> a[i] \div 2]
           ELSE Bad

\* exp, log, sin ... and the exponents of pow: the argument is a pure number.
Pure(a) == IF a = Free THEN One ELSE a ++ One

\* pow(a, b) where b is not an integer known in the program text.
Pow(a, b) == Pure(a) ** Pure(b)

\* The comparisons made before a result, each the difference of its sides:
\* One, the neutral factor, when no observer sees another outcome.
Guard(S) == IF Unset \in S THEN Unset
            ELSE IF \E x \in S : x = Bad \/ (Moved(x) /\ (x[5] # 0 \/ x[6] # 0)) THEN Bad
            ELSE One

\* A component of a composite object: still in the old units, converted, or
\* with the status abort (it cannot be converted).
OldUnits == Bad
NewUnits == One
Aborted  == <<1>>

\* Convert::factor of the derived quantities.
U == LET L == <<2, 0, 0, 0, 0, 0>>
         m == <<0, 2, 0, 0, 0, 0>>
         t == <<0, 0, 2, 0, 0, 0>>
         T == <<0, 0, 0, 2, 0, 0>>
         u == L // t
     IN  [ L |-> L, m |-> m, t |-> t, T |-> T, u |-> u,
           rho |-> m // L^^3, V |-> L^^3 // m, e |-> u^^2, E |-> m ** u^^2,
           P |-> (m // L^^3) ** u^^2, S |-> u^^2 // T, Cv |-> u^^2 // T,
           beta |-> One // T ]

\* The direction of a wave, and a velocity.
dir == <<0, 0, 0, 0, 1, 0>>
Velocity == [(dir ** U.u) EXCEPT ![6] = 1]

\* A call of a function of (V, e), of (V, T) or of one number, in the units
\* of the object that holds the function.
OfVe(V, e, want) == Guard({V ++ U.V, e ++ U.e}) ** want
OfVT(V, T, want) == Guard({V ++ U.V, T ++ U.T}) ** want
Of(x, dim, want) == Guard({x ++ dim}) ** want

=============================================================================
