------------------------------ MODULE HayesEOS ------------------------------
(***************************************************************************)
(* Hayes, Hayes_VT (HayesParams) and HayesBM, HayesBM_VT (HayesBMparams).  *)
(***************************************************************************)
EXTENDS EOScurves

HayesParams ==
  [ V0 |-> Unset, e0 |-> Unset, P0 |-> Unset, T0 |-> Unset, K0 |-> Unset,
    N |-> Unset, Gamma0 |-> Unset, Cv |-> Unset, c0 |-> Unset, s |-> Unset ]
HY_start  == EOS_start @@ HayesParams
HYT_start == VT_start @@ HayesParams

\* InitParams of both; the reference state is completed from it.
Hayes_init(o) ==
  LET R == (o.Gamma0 ** o.Cv ** o.T0) // (o.K0 ** o.V0)
  IN  << NeedIf(Is(o.c0), {"Gamma0", "V0", "Cv", "T0"}),
         PutIf(Is(o.c0), "K0", (o.c0^^2 ++ o.Gamma0^^2 ** o.Cv ** o.T0) // o.V0),
         NeedIf(Is(o.s), {"Gamma0", "V0", "K0", "Cv", "T0"}),
         PutIf(Is(o.s), "N", o.s ** (One ++ o.Gamma0 ** R) ++ (One ++ o.Gamma0^^2 ** R)),
         Need({"V0", "e0", "P0", "T0", "K0", "N", "Gamma0", "Cv"}),
         PutIf(~Is(o.V_ref), "V_ref", o.V0) >>
HY_init(o)  == Hayes_init(o) \o << PutIf(~Is(o.e_ref), "e_ref", o.e0) >>
HYT_init(o) == Hayes_init(o) \o << PutIf(~Is(o.T_ref), "T_ref", o.T0) >>

Hayes_convert ==
  << Factors({"V", "e", "T"}), Scale({"V0"}, U.V), Scale({"e0"}, U.e),
     Scale({"P0", "K0"}, U.e // U.V), Scale({"T0"}, U.T), Scale({"Cv"}, U.e // U.T) >>

HY_P(o, V, e) ==
  LET v  == o.V0 // V
      dV == o.V0 ++ V
      GV == o.Gamma0 // o.V0
  IN  o.P0 ++ (o.K0 // o.N)
                ** (Pow(v, o.N) ++ One ++ (o.Gamma0 // (o.N ++ One)) ** (Pow(v, o.N ++ One) ++ One)
                      ++ GV ** dV)
        ++ GV ** (e ++ o.e0 ++ o.Cv ** o.T0 ** GV ** dV ++ o.P0 ** dV)
HY_e_PV(o, p, V) ==
  LET v  == o.V0 // V
      dV == o.V0 ++ V
      GV == o.Gamma0 // o.V0
      pref == o.P0 ++ (o.K0 // o.N)
                ** (Pow(v, o.N) ++ One ++ (o.Gamma0 // (o.N ++ One)) ** (Pow(v, o.N ++ One) ++ One)
                      ++ GV ** dV)
  IN  o.e0 ++ o.Cv ** o.T0 ** GV ** dV ++ o.P0 ** dV ++ (o.V0 ** (p ++ pref)) // o.Gamma0
HY_T(o, V, e) ==
  LET dV == o.V0 ++ V
  IN  o.T0 ++ o.T0 ** (o.Gamma0 // o.V0) ** dV
        ++ (e ++ o.e0 ++ o.P0 ** dV
              ++ ((o.K0 ** o.V0) // o.N)
                   ** ((Pow(o.V0 // V, o.N ++ One) ++ One) // (o.N ++ One) ++ dV // o.V0)) // o.Cv
HY_S(o, V, e) ==
  o.Cv ** (Pure(HY_T(o, V, e) // o.T0) ++ (o.Gamma0 // o.V0) ** (o.V0 ++ V))
HY_c2(o, V, e) ==
  LET vN == Pow(o.V0 // V, o.N)
      GV == o.Gamma0 // o.V0
  IN  o.K0 ** V ** vN
        ++ GV ** (HY_P(o, V, e) ++ o.P0 ++ (o.K0 // o.N) ** (vN ++ One) ++ o.Cv ** o.T0 ** GV)
             ** V^^2
HY_Gamma(o, V) == o.Gamma0 ** (V // o.V0)
HY_FD(o, V, e) ==
  LET G == HY_Gamma(o, V)
      R == (o.K0 ** Pow(o.V0 // V, o.N) ** V) // (G ** o.Cv ** HY_T(o, V, e))
  IN  ((o.N ++ One) ** R ++ G^^2) // (R ++ G)

HY_P_VT(o, V, T) ==
  o.P0 ++ (o.Gamma0 // o.V0) ** o.Cv ** (T ++ o.T0)
    ++ (o.K0 // o.N) ** (Pow(o.V0 // V, o.N) ++ One)
HY_e_VT(o, V, T) ==
  o.e0 ++ o.P0 ** (o.V0 ++ V) ++ o.Cv ** (T ++ o.T0)
    ++ o.Cv ** o.T0 ** o.Gamma0 ** (One ++ V // o.V0)
    ++ (((o.K0 ** o.V0) // o.N) // (o.N ++ One))
         ** (Pow(o.V0 // V, o.N ++ One) ++ One ++ (o.N ++ One) ** (One ++ V // o.V0))
HY_V_PT(o, P, T) ==
  o.V0 // Pow(One ++ (o.N // o.K0) ** (P ++ o.P0 ++ (o.Gamma0 // o.V0) ** o.Cv ** (T ++ o.T0)),
              One // o.N)

HY_functions(o) ==
  LET V == U.V
      e == U.e
      V1 == HY_V_PT(o, U.P, U.T)
  IN  [ P |-> HY_P(o, V, e), T |-> HY_T(o, V, e), S |-> HY_S(o, V, e),
        c2 |-> HY_c2(o, V, e), Gamma |-> HY_Gamma(o, V), CV |-> o.Cv,
        FD |-> HY_FD(o, V, e), e_PV |-> HY_e_PV(o, U.P, V),
        NotInDomain |-> Guard({HY_P(o, V, e), HY_T(o, V, e)}),
        PT |-> Guard({V1 ++ U.V, HY_e_VT(o, V1, U.T) ++ U.e}) ]

\* Isotherm_Hayes: p_vac is not looked at, an impossible p or v returns 1.
HY_curves(o) ==
  LET V1 == HY_V_PT(o, U.P, state0.T)
  IN  [ isotherm_P |-> ErrorOne \cup Ok(Thermal(V1, HY_e_VT(o, V1, state0.T), U.P, state0.T)),
        isotherm_V |-> ErrorOne \cup
          Ok(Thermal(U.V, HY_e_VT(o, U.V, state0.T), HY_P_VT(o, U.V, state0.T), state0.T)) ]

HYT_functions(o) ==
  LET V  == U.V
      T  == U.T
      vN == Pow(o.V0 // V, o.N)
      KT == o.K0 ** vN
      GV == o.Gamma0 // o.V0
      cold == o.e0 ++ o.P0 ** (o.V0 ++ V)
                ++ ((o.K0 ** o.V0) // o.N)
                     ** ((Pow(V // o.V0, o.N ++ One) ++ One) // (o.N ++ One)
                           ++ (One ++ V // o.V0))
      logT == Pure(T // o.T0)
  IN  [ P |-> HY_P_VT(o, V, T),
        e |-> cold ++ o.Cv ** (T ++ o.T0 ** (One ++ o.Gamma0 ** (One ++ V // o.V0))),
        S |-> o.Cv ** (logT ++ (o.Gamma0 ** (o.V0 ++ V)) // o.V0),
        P_V |-> (o.K0 // V) ** vN, P_T |-> GV ** o.Cv, CV |-> o.Cv,
        F |-> cold ++ o.Cv ** (T ++ o.T0) ** (One ++ o.Gamma0 ** (One ++ V // o.V0))
                ++ o.Cv ** T ** logT,
        CP |-> (One ++ ((GV^^2 ** V ** o.Cv ** T) // o.K0) ** Pow(V // o.V0, o.N)) ** o.Cv,
        KS |-> KT ++ GV^^2 ** V ** o.Cv ** T, KT |-> KT, Gamma |-> HY_Gamma(o, V),
        beta |-> ((o.Gamma0 ** o.Cv) // (o.V0 ** o.K0)) ** Pow(V // o.V0, o.N),
        c2 |-> KT ** V ++ (GV ** V)^^2 ** o.Cv ** T, cT2 |-> KT ** V ]

-----------------------------------------------------------------------------
(* HayesBM: the cold curve of Birch and Murnaghan, Gamma linear in V.      *)

HayesBMparams ==
  [ V0 |-> Unset, e0 |-> Unset, P0 |-> Unset, T0 |-> Unset, K0 |-> Unset,
    Kp0 |-> Unset, G0 |-> Unset, G1 |-> Unset, Cv |-> Unset ]
HB_start  == EOS_start @@ HayesBMparams
HBT_start == VT_start @@ HayesBMparams

HayesBM_init(o) ==
  << Need({"V0", "e0", "P0", "T0", "K0", "Kp0", "G0", "G1", "Cv"}),
     PutIf(~Is(o.V_ref), "V_ref", o.V0) >>
HB_init(o)  == HayesBM_init(o) \o << PutIf(~Is(o.e_ref), "e_ref", o.e0) >>
HBT_init(o) == HayesBM_init(o) \o << PutIf(~Is(o.T_ref), "T_ref", o.T0) >>

HB_eta2(o, V) == Pow(o.V0 // V, One)
HB_kp(o, V)  == One ++ (o.Kp0 ++ One) ** (HB_eta2(o, V) ++ One)
HB_Pc(o, V)  ==
  o.P0 ++ o.K0 ** (o.V0 // V) ** HB_eta2(o, V) ** (HB_eta2(o, V) ++ One) ** HB_kp(o, V)
HB_dP(o, V)  == (o.K0 // V) ** (o.V0 // V) ** HB_eta2(o, V) ** (HB_eta2(o, V) ++ One) ** HB_kp(o, V)
HB_d2P(o, V) == HB_dP(o, V) // V
HB_ec(o, V)  ==
  o.e0 ++ o.P0 ** (o.V0 ++ V)
    ++ o.V0 ** o.K0 ** (HB_eta2(o, V)^^2 ++ HB_eta2(o, V) ++ (o.Kp0 ++ One) ** (o.V0 // V)^^2)
HB_Gamma(o, V) == o.G0 ++ (o.G1 // o.V0) ** (V ++ o.V0)
HB_Gp(o, V)  == (o.G1 // o.V0) ** (V ++ o.V0) ++ (o.G0 ++ o.G1) ** Pure(V // o.V0)
HB_dG(o, V)  == (o.G0 ++ o.G1) // V^^2
HB_d2G(o, V) == (o.G0 ++ o.G1) // V^^3
HB_eT0(o, V) == HB_ec(o, V) ++ o.Cv ** o.T0 ** HB_Gp(o, V)

HB_functions(o) ==
  LET V  == U.V
      e  == U.e
      G  == HB_Gamma(o, V)
      dT == (e ++ HB_eT0(o, V)) // o.Cv
      P  == HB_Pc(o, V) ++ (G // V) ** (e ++ HB_eT0(o, V))
      T  == o.T0 ++ dT
      c2 == V^^2 ** (HB_dP(o, V) ++ o.Cv ** dT ** HB_dG(o, V)) ++ G^^2 ** o.Cv ** T
      GV == G // V
  IN  [ P |-> P, T |-> T, c2 |-> c2, Gamma |-> G, CV |-> o.Cv,
        e_PV |-> HB_eT0(o, V) ++ (V ** (U.P ++ HB_Pc(o, V))) // G,
        S |-> o.Cv ** (Pure(One ++ (e ++ HB_eT0(o, V)) // (o.Cv ** o.T0)) ++ HB_Gp(o, V)),
        FD |-> (V^^3 ** (HB_d2P(o, V) ++ o.Cv ** dT ** HB_d2G(o, V)
                           ++ o.Cv ** T ** GV ** (GV^^2 ++ HB_dG(o, V)))) // c2,
        NotInDomain |-> Guard({P, T}) ]

HBT_functions(o) ==
  LET V  == U.V
      T  == U.T
      G  == HB_Gamma(o, V)
      Gp == HB_Gp(o, V)
      thermal == o.Cv ** (T ++ o.T0)
      P_V == HB_dP(o, V) ++ thermal ** HB_dG(o, V)
      logT == Pure(T // o.T0)
  IN  [ P |-> HB_Pc(o, V) ++ (thermal ** G) // V,
        e |-> HB_ec(o, V) ++ thermal ++ o.Cv ** o.T0 ** Gp,
        S |-> o.Cv ** (logT ++ Gp), P_V |-> P_V, P_T |-> (o.Cv ** G) // V, CV |-> o.Cv,
        F |-> HB_ec(o, V) ++ thermal ** (One ++ Gp) ++ o.Cv ** T ** logT,
        CP |-> o.Cv ** (One ++ (G^^2 ** o.Cv ** T) // (V^^2 ** P_V)),
        KS |-> V ** P_V ++ (G^^2 ** o.Cv ** T) // V, KT |-> V ** P_V, Gamma |-> G,
        beta |-> (o.Cv ** G) // (V^^2 ** P_V),
        c2 |-> V^^2 ** P_V ++ G^^2 ** o.Cv ** T, cT2 |-> V^^2 ** P_V ]

=============================================================================
