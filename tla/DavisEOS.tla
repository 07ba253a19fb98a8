------------------------------ MODULE DavisEOS ------------------------------
(***************************************************************************)
(* DavisProducts and DavisReactants.  ConvertParams of both classes scales *)
(* the coefficients of the class only.                                     *)
(***************************************************************************)
EXTENDS EOSbasics

-----------------------------------------------------------------------------
(* DavisProducts                                                           *)

DP_start == EOS_start @@
  [ V0 |-> Unset, e0 |-> Unset, S0 |-> Unset, a |-> Unset, n |-> Unset,
    Vc |-> Unset, pc |-> Unset, b |-> Unset, k |-> Unset, Cv |-> Unset,
    ec |-> Free, Tc |-> Free, T0 |-> Free ]

\* V/Vc and its powers vn, vk, va.
DP_v(o, V)  == V // o.Vc
DP_vn(o, V) == Pow(DP_v(o, V), o.n)
DP_va(o, V, x) == Pow(DP_vn(o, V) ++ One // DP_vn(o, V), (o.a ** x) // o.n)

DP_fref(o, vn) == o.a // (One ++ vn^^2)

DP_Pref(o, V) ==
  LET vk == Pow(DP_v(o, V), o.k ++ o.a)
  IN  ((o.pc ** DP_va(o, V, One)) // vk)
        ** ((o.k ++ One ++ DP_fref(o, DP_vn(o, V))) // (o.k ++ One ++ o.a))

DP_dPref(o, V) ==
  LET f  == DP_fref(o, DP_vn(o, V))
      df == (o.n ** (f ** DP_vn(o, V))^^2) // o.a
  IN  ((o.a ++ o.k ++ df // (o.k ++ One ++ f)) ** DP_Pref(o, V)) // V

DP_eref(o, V) ==
  LET vk == Pow(DP_v(o, V), o.k ++ One ++ o.a)
  IN  (o.ec ** DP_va(o, V, One)) // vk ++ o.e0

\* The ratio va/vk of Tref and S.
DP_ratio(o, V) ==
  LET x == One ++ o.b
  IN  DP_va(o, V, x) // Pow(DP_v(o, V), o.k ++ One ++ o.a ** x)

DP_Tref(o, V) == o.Tc ** DP_ratio(o, V)

DP_Gamma(o, V) == o.k ++ One ++ (One ++ o.b) ** DP_fref(o, DP_vn(o, V))
DP_P(o, V, e)  == DP_Pref(o, V) ++ (DP_Gamma(o, V) // V) ** (e ++ DP_eref(o, V))
DP_e_PV(o, p, V) ==
  DP_eref(o, V) ++ (V ** (p ++ DP_Pref(o, V))) // DP_Gamma(o, V)
DP_T(o, V, e) == DP_Tref(o, V) ++ (e ++ DP_eref(o, V)) // o.Cv
DP_S(o, V, e) ==
  o.Cv ** Pure((DP_T(o, V, e) // o.T0) // DP_ratio(o, V)) ++ o.S0

DP_c2(o, V, e) ==
  LET vn   == DP_vn(o, V)
      fn   == DP_fref(o, vn)
      GoV  == DP_Gamma(o, V) // V
      dGoV == GoV // V ++ ((One ++ o.b) ** o.n ** ((fn ** vn) // V)^^2) // o.a
  IN  V^^2 ** (DP_dPref(o, V) ++ (GoV^^2 ++ dGoV) ** (e ++ DP_eref(o, V)))

\* Mutant: S0 is taken as given.
DP_init_S0(o) ==
  << Need({"V0", "e0", "a", "n", "Vc", "pc", "b", "k", "Cv"}),
     Put("ec", (o.pc ** o.Vc) // (o.k ++ One ++ o.a)),
     PutIf(o.Tc = Free, "Tc", ((o.pc ** o.Vc) // (o.k ++ One ++ o.a)) // o.Cv),
     Put("T0", DP_Tref(o, o.V0)), PutIf(~Is(o.V_ref), "V_ref", o.V0),
     PutIf(~Is(o.e_ref), "e_ref", Free) >>

DP_init(o) ==
  << Need({"V0", "e0", "a", "n", "Vc", "pc", "b", "k", "Cv"}),
     Put("ec", (o.pc ** o.Vc) // (o.k ++ One ++ o.a)),
     PutIf(o.Tc = Free, "Tc", ((o.pc ** o.Vc) // (o.k ++ One ++ o.a)) // o.Cv),
     Put("T0", DP_Tref(o, o.V0)),
     \* S(V0, 0) is subtracted from the entropy the reactants have at 300 K
     PutIf(~Is(o.S0), "S0",
           (o.e0 ++ o.Cv ** o.T0) // Free ++ DP_S([o EXCEPT !.S0 = Free], o.V0, Free)),
     PutIf(~Is(o.V_ref), "V_ref", o.V0),
     PutIf(~Is(o.e_ref), "e_ref", Free) >>

DP_convert ==
  << Factors({"V", "e", "T"}), Scale({"V0", "Vc"}, U.V), Scale({"e0", "ec"}, U.e),
     Scale({"S0", "Cv"}, U.e // U.T), Scale({"pc"}, U.e // U.V),
     Scale({"Tc", "T0"}, U.T) >>

DP_functions(o) ==
  LET V == U.V
      e == U.e
  IN  [ P |-> DP_P(o, V, e), T |-> DP_T(o, V, e), S |-> DP_S(o, V, e),
        Gamma |-> DP_Gamma(o, V), CV |-> o.Cv, c2 |-> DP_c2(o, V, e),
        e_PV |-> DP_e_PV(o, U.P, V) ]

-----------------------------------------------------------------------------
(* DavisReactants                                                          *)

DR_start == EOS_start @@
  [ V0 |-> Unset, e0 |-> Free, P0 |-> One, S0 |-> Free, T0 |-> One,
    A |-> Unset, B |-> Unset, C |-> Unset, G0 |-> Unset, Z |-> Unset,
    Cv |-> Unset, alpha |-> Unset, ps |-> Free ]

DR_y(o, V) == One ++ V // o.V0

DR_Pref(o, V) ==
  LET yb == o.B ** DR_y(o, V)
  IN  o.P0 ++ o.ps ** (yb ** (One ++ yb ** (One ++ yb ** (One ++ o.C ** yb)))
                         ++ (DR_y(o, V) ** (o.V0 // V)^^2)^^2)

DR_dPref(o, V) ==
  LET y  == DR_y(o, V)
      yb == o.B ** y
  IN  o.ps ** ((o.B // o.V0) ** (One ++ yb ** (One ++ yb ** (One ++ o.C ** yb)))
                 ++ y ** (o.V0 // V)^^4 ** (One // o.V0 ++ y // V))

DR_eref(o, V) ==
  LET y  == DR_y(o, V)
      yb == o.B ** y
      v  == o.V0 // V
  IN  o.e0 ++ o.P0 ** (o.V0 ++ V)
        ++ o.ps ** o.V0
             ** (y ** yb ** (One ++ yb ** (One ++ yb ** (One ++ o.C ** yb)))
                   ++ v ** (One ++ v ** (One ++ v)) ++ One)

DR_Tref(o, V) ==
  LET v == V // o.V0
  IN  o.T0 ** Pure(o.Z ** (One ++ v)) ** Pow(v, o.G0 ++ o.Z)

DR_Gamma(o, V) == o.G0 ++ o.Z ** DR_y(o, V)
DR_P(o, V, e)  == DR_Pref(o, V) ++ (DR_Gamma(o, V) // V) ** (e ++ DR_eref(o, V))
DR_e_PV(o, p, V) ==
  DR_eref(o, V) ++ (V ** (p ++ DR_Pref(o, V))) // DR_Gamma(o, V)

\* 1 + (1+alpha) (e-es)/(Cv*Ts), raised to a power of alpha
DR_bracket(o, V, e) ==
  Pow(One ++ ((One ++ o.alpha) ** (e ++ DR_eref(o, V))) // (o.Cv ** DR_Tref(o, V)),
      o.alpha // (One ++ o.alpha))
DR_T(o, V, e)  == DR_Tref(o, V) ** DR_bracket(o, V, e)
DR_S(o, V, e)  == o.S0 ++ (o.Cv ** (DR_bracket(o, V, e) ++ One)) // o.alpha
DR_CV(o, V, e) == o.Cv ++ o.alpha ** (DR_S(o, V, e) ++ o.S0)

DR_c2(o, V, e) ==
  LET GoV  == DR_Gamma(o, V) // V
      dGoV == (o.G0 ++ o.Z) // V^^2
  IN  V^^2 ** (DR_dPref(o, V) ++ (GoV^^2 ++ dGoV) ** (e ++ DR_eref(o, V)))

DR_init(o) ==
  << Need({"V0", "A", "B", "C", "G0", "Z", "Cv", "alpha"}),
     Put("ps", (o.A^^2 // o.B) // o.V0),
     PutIf(~Is(o.V_ref), "V_ref", o.V0),
     PutIf(~Is(o.e_ref), "e_ref", o.e0) >>

\* Mutant: the factors are looked up one by one.
DR_convert_late ==
  << Factors({"V"}), Scale({"V0"}, U.V), Factors({"e", "u", "T"}), Scale({"e0"}, U.e),
     Scale({"P0", "ps"}, U.e // U.V), Scale({"T0"}, U.T),
     Scale({"S0", "Cv"}, U.e // U.T), Scale({"A"}, U.u) >>

DR_convert ==
  << Factors({"V", "e", "u", "T"}), Scale({"V0"}, U.V), Scale({"e0"}, U.e),
     Scale({"P0", "ps"}, U.e // U.V), Scale({"T0"}, U.T),
     Scale({"S0", "Cv"}, U.e // U.T), Scale({"A"}, U.u) >>

DR_functions(o) ==
  LET V == U.V
      e == U.e
  IN  [ P |-> DR_P(o, V, e), T |-> DR_T(o, V, e), S |-> DR_S(o, V, e),
        Gamma |-> DR_Gamma(o, V), CV |-> DR_CV(o, V, e), c2 |-> DR_c2(o, V, e),
        e_PV |-> DR_e_PV(o, U.P, V) ]

=============================================================================
