------------------------------ MODULE HEfitEOS ------------------------------
(***************************************************************************)
(* HEfit and HEprods: detonation products fitted by power series in the    *)
(* density.  A series has a coefficient with index 0 and one with index 1. *)
(* The exponents given as parameters (Gamma0, gamma1, gamma2) have one     *)
(* representative value.                                                   *)
(***************************************************************************)
EXTENDS JWLEOS

PowGamma(x) == x^^3

\* ODE::MaxNorm, the error of a step: |y0-y1| / ((|y0|+|y1| + 1.)*epsilon).
ODE_MaxNorm(y) == (y -- y) // (y ++ One)

-----------------------------------------------------------------------------
(* HEfit: the energy on the CJ isentrope is integrated from (rho_CJ, e_CJ); *)
(* x and y are the unit of the steps kept.                                 *)

HF_start ==
  EOS_start @@
  [ V0 |-> Unset, e0 |-> Free, P0 |-> Free, rho_CJ |-> Unset, e_CJ |-> Unset,
    P_CJ |-> Unset, rho_min |-> Unset, rho_max |-> Unset, Pmin |-> Unset, Pmax |-> Unset,
    Gamma0 |-> Unset, f_0 |-> Unset, f_1 |-> Unset, g_0 |-> Unset, g_1 |-> Unset,
    x |-> Unset, y |-> Unset ]

HF_sum_f(o, d)  == o.f_0 ++ d ** o.f_1
HF_dsum_f(o)    == o.f_1
HF_sum_g(o, d)  == o.g_0 ++ d ** o.g_1
HF_dsum_g(o)    == o.g_1
HF_Pcj(o, rho)  == Pure(o.Gamma0) ** PowGamma(rho) ** HF_sum_f(o, rho -- o.rho_CJ)
HF_dPdrho(o, rho) ==
  PowGamma(rho) ** ((o.Gamma0 ** HF_sum_f(o, rho -- o.rho_CJ)) // rho ++ HF_dsum_f(o))
HF_F(o, rho)    == HF_Pcj(o, rho) // rho^^2
HF_Ecj(o, rho)  ==
  Guard({rho -- o.rho_min, rho -- o.rho_max, rho -- o.x}) ** (o.y ++ HF_F(o, rho) ** rho)

\* ODE::Initialize(rho_CJ, &e_CJ, drho)
HF_integrate(o) ==
  << Put("x", o.rho_CJ ++ o.P_CJ // HF_dPdrho(o, o.rho_CJ)), Put("y", o.e_CJ) >>

\* The coefficients up to nfCJ and ngCJ, exclusive, must be given.
HF_init(o) ==
  << Need({"V0", "rho_CJ", "P_CJ", "rho_min", "rho_max"}),
     Put("e_CJ", o.e0 ++ (o.P_CJ ++ o.P0) ** (o.V0 ++ One // o.rho_CJ)),
     Need({"f_0", "g_0"}),
     PutIf(~Is(o.V_ref), "V_ref", o.V0), PutIf(~Is(o.e_ref), "e_ref", o.e0) >>
    \o HF_integrate(o) \o << SolveIf(TRUE, {}) >>

HF_convert(o) ==
  LET s_P == U.e // U.V
  IN  << Factors({"V", "e"}), Scale({"V0"}, U.V), Scale({"e0"}, U.e), Scale({"P0"}, s_P),
         Scale({"rho_CJ"}, One // U.V), Scale({"e_CJ"}, U.e), Scale({"P_CJ"}, s_P),
         Scale({"rho_min", "rho_max"}, One // U.V), Scale({"Pmin", "Pmax"}, s_P),
         Scale({"f_0"}, s_P ** PowGamma(U.V)), Scale({"f_1"}, s_P ** PowGamma(U.V) ** U.V),
         Scale({"g_0"}, s_P // U.e), Scale({"g_1"}, (s_P // U.e) ** U.V) >>
      \o HF_integrate(o) \o << SolveIf(TRUE, {}) >>

\* T, S and CV are NaN, PT returns 1.
HF_functions(o) ==
  LET V   == U.V
      rho == One // V
      d   == rho -- o.rho_CJ
      g   == HF_sum_g(o, d)
      e   == U.e ++ HF_Ecj(o, rho)
      P   == HF_Pcj(o, rho) ++ g ** e
  IN  [ P |-> P, c2 |-> HF_dPdrho(o, rho) ++ (HF_dsum_g(o) ++ (V ** g)^^2) ** e,
        Gamma |-> V ** g, T |-> Free, S |-> Free, CV |-> Free, PT |-> One,
        NotInDomain |-> Guard({V -- One // o.rho_max, o.rho_min -- V, P -- o.Pmin,
                               P -- o.Pmax}),
        MaxNorm |-> ODE_MaxNorm(HF_Ecj(o, rho)) ]

\* The Gamma of a detonation is that of the object.
HF_curves(o) == JWD_curves(U.V ** HF_sum_g(o, One // U.V -- o.rho_CJ))

-----------------------------------------------------------------------------
(* HEprods: coefficients a1, b1 for densities below rho_sw, a2, b2 above.  *)
(* b_n is the element after the last coefficient.                          *)

HP_start ==
  EOS_start @@
  [ V0 |-> Unset, e0 |-> Free, P0 |-> Free, rho_min |-> Unset, rho_max |-> Unset,
    rho_sw |-> Unset, gamma1 |-> Unset, gamma2 |-> Unset, Cv |-> Unset, T_cj |-> Unset,
    S_cj |-> Unset, a1_0 |-> Unset, a1_1 |-> Unset, a2_0 |-> Unset, a2_1 |-> Unset,
    b1_0 |-> Unset, b1_1 |-> Unset, b1_n |-> Unset, b2_0 |-> Unset, b2_1 |-> Unset,
    b2_n |-> Unset, rho_cj |-> Unset, P_cj |-> Unset, e_cj |-> Unset, e_sw |-> Unset,
    T_sw |-> Unset ]

HP_in(o, rho)  == Guard({rho -- o.rho_min, rho -- o.rho_max, rho -- o.rho_sw})
HP_low(o)  == [ a0 |-> o.a1_0, a1 |-> o.a1_1, b0 |-> o.b1_0, b1 |-> o.b1_1, bn |-> o.b1_n,
                gamma |-> o.gamma1, rho |-> o.rho_sw, e |-> o.e_sw, T |-> o.T_sw ]
HP_high(o) == [ a0 |-> o.a2_0, a1 |-> o.a2_1, b0 |-> o.b2_0, b1 |-> o.b2_1, bn |-> o.b2_n,
                gamma |-> o.gamma2, rho |-> o.rho_cj, e |-> o.e_cj, T |-> o.T_cj ]

\* One side of rho_sw, and both.
HP_P1(k, rho) == PowGamma(rho) ** (rho ** k.a1 ++ k.a0)
HP_e1(k, rho) ==
  LET e(r) == (r ** (k.a1 // k.gamma) ++ k.a0 // (One ++ k.gamma)) ** (PowGamma(r) // r)
  IN  k.e ++ e(rho) ++ e(k.rho)
HP_c1(k, rho) == PowGamma(rho) ** (k.a1 ++ (k.gamma ** (rho ** k.a1 ++ k.a0)) // rho)
HP_T1(k, rho) ==
  k.T ** Pure(k.b0 // rho ++ k.b0 // k.rho ++ k.b1 ** Pure(rho // k.rho))
\* The loop begins with element nb and ends with element 1.
HP_G1(k, rho) == rho ** k.bn ++ k.b1
HP_dG1(k) == k.b1

HP_both(o, rho, f(_, _)) == HP_in(o, rho) ** (f(HP_low(o), rho) ++ f(HP_high(o), rho))
HP_Pref(o, rho)   == HP_both(o, rho, HP_P1)
HP_eref(o, rho)   == HP_both(o, rho, HP_e1)
HP_c2ref(o, rho)  == HP_both(o, rho, HP_c1)
HP_Tref(o, rho)   == HP_both(o, rho, HP_T1)
HP_GammaV(o, rho) == HP_both(o, rho, HP_G1)
HP_dGammaV(o, rho) == HP_in(o, rho) ** (HP_dG1(HP_low(o)) ++ HP_dG1(HP_high(o)))

\* FindCJ: bisection on fsonic.
HP_fsonic(o, rho) ==
  LET P == HP_P1(HP_high(o), rho)
      R == (P ++ o.P0) // (o.V0 ++ One // rho)
  IN  ((R ++ rho^^2 ** HP_c1(HP_high(o), rho)) ** o.V0) // P

\* The coefficients a are looked at twice, b never.
HP_init(o) ==
  << Need({"V0", "T_cj", "S_cj", "rho_min", "rho_max", "rho_sw", "gamma1", "gamma2",
           "a1_0", "a1_1", "a2_0", "a2_1", "Cv"}),
     SolveIf(TRUE, {}), Put("rho_cj", Guard({HP_fsonic(o, o.rho_sw)}) ** o.rho_sw),
     Put("P_cj", HP_P1(HP_high(o), o.rho_cj)),
     Put("e_cj", (o.P_cj ++ o.P0) ** (o.V0 ++ One // o.rho_cj) ++ o.e0),
     Put("e_sw", HP_e1(HP_high(o), o.rho_sw)), Put("T_sw", HP_T1(HP_high(o), o.rho_sw)),
     PutIf(~Is(o.V_ref), "V_ref", o.V0), PutIf(~Is(o.e_ref), "e_ref", o.e0) >>

\* The second loop of a multiplies by s_P where the first multiplies by s.
HP_convert ==
  LET s_P == U.e // U.V
      s_rho == One // U.V
  IN  << Factors({"V", "e", "T"}), Scale({"V0"}, U.V), Scale({"e0"}, U.e), Scale({"P0"}, s_P),
         Scale({"rho_min", "rho_max", "rho_sw"}, s_rho), Scale({"e_sw"}, U.e),
         Scale({"T_sw"}, U.T), Scale({"Cv", "S_cj"}, U.e // U.T), Scale({"T_cj"}, U.T),
         Scale({"rho_cj"}, s_rho), Scale({"e_cj"}, U.e), Scale({"P_cj"}, s_P),
         Scale({"a1_0"}, s_P ** PowGamma(U.V)), Scale({"a1_1"}, s_P ** PowGamma(U.V) ** U.V),
         Scale({"a2_0", "a2_1"}, s_P),
         Scale({"b1_0", "b2_0"}, s_rho), Scale({"b1_1", "b2_1"}, One) >>

HP_functions(o) ==
  LET V   == U.V
      rho == One // V
      GV  == HP_GammaV(o, rho)
      e   == U.e ++ HP_eref(o, rho)
      P   == HP_Pref(o, rho) ++ GV ** e
      c2  == HP_c2ref(o, rho) ++ ((V ** GV)^^2 ++ HP_dGammaV(o, rho)) ** e
      T   == HP_Tref(o, rho) ++ e // o.Cv
  IN  [ P |-> P, e_PV |-> (U.P ++ HP_Pref(o, rho)) // GV ++ HP_eref(o, rho), c2 |-> c2,
        Gamma |-> V ** GV, T |-> T, S |-> o.Cv ** Pure(T // o.T_cj) ++ o.S_cj,
        CV |-> o.Cv, NotInDomain |-> Guard({c2, P}) ]

=============================================================================
