--------------------------- MODULE MieGruneisenEOS ---------------------------
(***************************************************************************)
(* Mie-Gruneisen forms P = Pref(V) + GoV(V) (e - eref(V)): the reference   *)
(* curve is a Hugoniot with linear us(up) (UsUp), with a spline through    *)
(* data (UsUpSpline), or a pair of splines P(V), e(V) (PeSpline).          *)
(*                                                                         *)
(* Tref integrates an ODE for an energy and keeps the steps: y is their    *)
(* unit, Free while there is none.  An array has one representative        *)
(* element.                                                                *)
(***************************************************************************)
EXTENDS HEfitEOS

MG_params ==
  [ V0 |-> Unset, e0 |-> Free, T0 |-> Free, S0 |-> Free, P0 |-> Free, G0 |-> Unset,
    G1 |-> Unset, Cv |-> Unset, K0 |-> Unset, Vmax |-> Unset, Pmin |-> Unset, y |-> Free ]

\* The reference curve r, as functions of V.
MG_functions(o, r) ==
  LET de == U.e ++ r.e
      T  == r.T ++ de // o.Cv
  IN  [ P |-> r.P ++ r.G ** de, e_PV |-> r.e ++ (U.P ++ r.P) // r.G, T |-> T,
        S |-> o.S0 ++ o.Cv ** (Pure(T // o.T0) ++ r.iG), Gamma |-> r.G ** U.V,
        CV |-> o.Cv, c2 |-> r.c2 ++ U.V^^2 ** (r.G^^2 ++ r.dG) ** de, FD |-> r.FD,
        NotInDomain |-> r.domain, MaxNorm |-> ODE_MaxNorm(r.y) ]

MGT_functions(o, r) ==
  LET V  == U.V
      dT == U.T ++ r.T
      release == r.dP ++ (r.dP ** (o.V0 ++ V) ++ (r.P ++ o.P0)) ** r.G
  IN  [ P |-> r.P ++ r.G ** o.Cv ** dT, e |-> r.e ++ dT ** o.Cv,
        S |-> o.S0 ++ o.Cv ** (Pure(U.T // o.T0) ++ r.iG),
        P_V |-> r.G^^2 ** o.Cv ** U.T ++ release ++ (r.dG ++ r.G^^2) ** o.Cv ** dT,
        P_T |-> r.G ** o.Cv, CV |-> o.Cv, Gamma |-> r.G ** V,
        c2 |-> V^^2 ** (release ++ (r.dG ++ r.G^^2) ** o.Cv ** dT),
        NotInDomain |-> r.domain, MaxNorm |-> ODE_MaxNorm(r.y) ]

\* ODE::Initialize(V0, 0, dV): the steps begin anew.
MG_restart == << Put("y", Free), SolveIf(TRUE, {}) >>

\* Pmin becomes P_vac, (V0, e0) or (V0, T0) the reference state.
MG_reference(o) ==
  << Put("P_vac", o.Pmin), PutIf(~Is(o.V_ref), "V_ref", o.V0),
     PutIf(~Is(o.e_ref), "e_ref", o.e0) >>
MGT_reference(o) ==
  << PutIf(~Is(o.V_ref), "V_ref", o.V0), PutIf(~Is(o.T_ref), "T_ref", o.T0) >>

MG_scale ==
  << Scale({"V0"}, U.V), Scale({"e0"}, U.e), Scale({"P0"}, U.e // U.V), Scale({"T0"}, U.T),
     Scale({"S0", "Cv"}, U.e // U.T) >>

\* Make the object in the other variables: the copy of the parameters answers 0
\* when it succeeds, which the constructors take for a failure.
MG_copy == 0
MG_twin == IF MG_copy # 0 THEN OldUnits ELSE Aborted

\* Gruneisen coefficient over V.
MG_GoV(o, V)    == (o.G0 ++ o.G1) // V ++ o.G1 // o.V0
MG_dGoV(o, V)   == (o.G0 ++ o.G1) // V^^2
MG_d2GoV(o, V)  == (o.G0 ++ o.G1) // V^^3
MG_intGoV(o, V) == (o.G0 ++ o.G1) ** Pure(V // o.V0) ++ (o.G1 // o.V0) ** (V ++ o.V0)

\* The Hugoniot energy and the integrand of Tref.
MG_eH(o, V, P)        == o.e0 ++ (o.P0 ++ P) ** (o.V0 ++ V)
MG_deH(o, V, P, dP)   == (o.V0 ++ V) ** dP ++ (o.P0 ++ P)
MG_F(o, V, P, dP, iG) == (dP ** (o.V0 ++ V) ++ P ++ o.P0) ** Pure(iG)

-----------------------------------------------------------------------------
(* UsUp.                                                                   *)

UU_params == MG_params @@ [ c0 |-> Unset, s |-> Unset ]
UU_start  == EOS_start @@ UU_params
UUT_start == VT_start @@ UU_params

UU_x(o, V)  == One ++ o.s ** (One ++ V // o.V0)       \* 1 - s (1 - v)
UU_Pref(o, V)   == o.P0 ++ (o.K0 ** (One ++ V // o.V0)) // UU_x(o, V)^^2
UU_dPref(o, V)  == (o.K0 // o.V0) ** (UU_x(o, V) // UU_x(o, V)^^3)
UU_d2Pref(o, V) == (o.s ** o.K0 ** UU_x(o, V)) // (o.V0 ** UU_x(o, V)^^2)^^2
UU_c2ref(o, V) ==
  LET eta == One ++ V // o.V0
      us  == o.c0 // UU_x(o, V)
  IN  ((V // o.V0) ** us)^^2
        ** (One ++ (One ++ MG_GoV(o, V) ** o.V0 ** eta) ** (us // o.c0 ++ One))

\* Vmax by bisection on c2ref.
UU_K0(o) == o.c0^^2 // o.V0
UU_reinit(o) ==
  << Put("K0", UU_K0(o)),
     Put("Vmax", Guard({UU_c2ref(o, o.V0)}) ** ((One ++ One // o.s) ** o.V0 ++ o.V0)),
     Put("Pmin", UU_Pref(o, o.Vmax)) >> \o MG_restart

UU_given == << Need({"V0", "e0", "P0", "T0", "S0", "c0", "s", "G0", "G1", "Cv"}) >>
UU_init(o)  == UU_given \o UU_reinit(o) \o MG_reference(o)
UUT_init(o) == UU_given \o UU_reinit(o) \o MGT_reference(o)
UU_convert(o) ==
  << Factors({"V", "e", "u", "T"}) >> \o MG_scale \o << Scale({"c0"}, U.u) >> \o UU_reinit(o)

UU_ref(o) ==
  LET V   == U.V
      P   == UU_Pref(o, V)
      dP  == UU_dPref(o, V)
      e   == MG_eH(o, V, P)
      iG  == MG_intGoV(o, V)
      G   == MG_GoV(o, V)
      dG  == MG_dGoV(o, V)
      y   == o.y ++ MG_F(o, V, P, dP, iG) ** V
      de  == U.e ++ e
      rc2 == dP ++ (dP ** (o.V0 ++ V) ++ (P ++ o.P0)) ** G ++ (dG ++ G^^2) ** de
      d2e == (o.V0 ++ V) ** UU_d2Pref(o, V) ++ dP
      d2P == UU_d2Pref(o, V) ++ de ** MG_d2GoV(o, V) ++ dG ** MG_deH(o, V, P, dP) ++ G ** d2e
               ++ G ** rc2 ++ (P ++ G ** de) ** dG
  IN  [ P |-> P, dP |-> dP, e |-> e, iG |-> iG, G |-> G, dG |-> dG, y |-> y,
        T |-> Pure(iG) ** (o.T0 ++ y // o.Cv), c2 |-> UU_c2ref(o, V),
        FD |-> (V ** d2P) // rc2,
        domain |-> Guard({V // o.V0 -- (One ++ One // o.s), o.Vmax -- V}) ]

-----------------------------------------------------------------------------
(* UsUpSpline: Us_inv is the spline of 1/us over 1 - V/V0, whose end slope *)
(* is given by dusdup0.                                                    *)

US_params == MG_params @@
  [ s1 |-> Unset, dusdup0 |-> Unset, us_data |-> Unset, up_data |-> Unset,
    V1 |-> Unset, Us_inv |-> Unset, FD0 |-> Unset ]
US_start  == EOS_start @@ US_params
UST_start == VT_start @@ US_params

US_eta(o, V) == One ++ V // o.V0
US_spline(o) ==
  LET us_inv == One // o.us_data
      eta    == Pure(o.up_data // o.us_data) ++ One // o.s1
  IN  Guard({eta}) ** (us_inv ++ IF Is(o.dusdup0) THEN o.dusdup0 ** us_inv ELSE Free)
\* Legendre at eta = 0: c0 and s0.
US_c0(o) == One // (o.Us_inv ++ o.Us_inv)
US_s0(o) == o.Us_inv ** US_c0(o)

US_reinit(o) ==
  << Need({"s1"}), Put("V1", (One ++ One // o.s1) ** o.V0), Need({"us_data", "up_data"}),
     SolveIf(TRUE, {}), Put("Us_inv", US_spline(o)),
     Put("K0", US_c0(o)^^2 // o.V0), Put("FD0", US_s0(o)),
     Put("Vmax", (One ++ One // o.FD0) ** o.V0), Put("Pmin", o.P0 ++ o.K0 // o.FD0) >>
    \o MG_restart

US_given == << Need({"V0", "e0", "P0", "T0", "S0", "G0", "G1", "Cv"}) >>
US_init(o)  == US_given \o US_reinit(o) \o MG_reference(o)
UST_init(o) == US_given \o US_reinit(o) \o MGT_reference(o)
US_convert(o) ==
  << Factors({"V", "e", "u", "T"}) >> \o MG_scale
    \o << Scale({"up_data", "us_data"}, U.u) >> \o US_reinit(o)

\* In tension, V0 < V < Vmax, and beyond.
MG_tension(o, V) ==
  LET eta == One ++ V // o.V0
      x   == One ++ o.FD0 ** eta
  IN  [ P |-> o.P0 ++ o.K0 ** eta ** x ++ o.Pmin, dP |-> (o.K0 // o.V0) ** x,
        d2P |-> (o.FD0 ** o.K0) // o.V0^^2,
        e |-> o.e0 ++ o.P0 ** o.V0 ** eta ++ o.K0 ** o.V0 ** eta^^2 ** x,
        de |-> o.P0 ++ o.K0 ** eta ** x, d2e |-> (o.K0 // o.V0) ** x,
        sides |-> Guard({eta, V -- o.V0, V -- o.Vmax}) ]

US_Pref(o, V) == o.P0 ++ (US_eta(o, V) // o.Us_inv^^2) // o.V0
US_dPref(o, V) ==
  LET us == One // o.Us_inv
  IN  (us // o.V0)^^2 ** (One ++ US_eta(o, V) ** us ** o.Us_inv)
US_d2Pref(o, V) ==
  LET us   == One // o.Us_inv
      fpof == o.Us_inv // o.Us_inv
  IN  (One // o.V0) ** (us // o.V0)^^2
        ** (fpof ** (One ++ US_eta(o, V) ** fpof) ++ US_eta(o, V) ** us ** o.Us_inv)
US_rhoc2ref(o, V) ==
  LET us == One // o.Us_inv
  IN  (us // o.V0)^^2
        ** (One ++ US_eta(o, V) ** us ** o.Us_inv ** (MG_GoV(o, V) ** o.V0 ** US_eta(o, V) ++ One))
US_drhoc2ref(o, V) ==
  LET us   == One // o.Us_inv
      fpof == o.Us_inv // o.Us_inv
      dv   == o.V0 ++ V
      dp   == One ++ US_eta(o, V) ** fpof
      d2p  == (One // o.V0) ** (fpof ** (One ++ US_eta(o, V) ** fpof)
                                  ++ US_eta(o, V) ** us ** o.Us_inv)
  IN  (us // o.V0)^^2
        ** ((MG_GoV(o, V) ** dv ++ One) ** d2p ++ MG_dGoV(o, V) ** dv ** (dp ++ One))

\* FD of UsUpSpline and PeSpline.
MG_FD(V, r, rhoc2, drhoc2, d2G) ==
  LET de == U.e ++ r.e
      gg == r.G^^2 ++ r.dG
      d  == drhoc2 ++ gg ** (r.P ++ r.de) ++ (r.G ** (r.dG ++ gg) ++ d2G) ** de
  IN  (V ** d) // (rhoc2 ++ gg ** de)

US_ref(o) ==
  LET V  == U.V
      t  == MG_tension(o, V)
      iG == MG_intGoV(o, V)
      P  == t.sides ** (US_Pref(o, V) ++ t.P)
      dP == t.sides ** (US_dPref(o, V) ++ t.dP)
      rc2 == t.sides ** (US_rhoc2ref(o, V) ++ t.dP)
      y  == o.y ++ MG_F(o, V, P, dP, iG) ** V
      r  == [ P |-> P, dP |-> dP, e |-> MG_eH(o, V, P) ++ t.e,
              de |-> MG_deH(o, V, P, dP) ++ t.de, iG |-> iG, G |-> MG_GoV(o, V),
              dG |-> MG_dGoV(o, V), y |-> y, T |-> Pure(iG) ** (o.T0 ++ y // o.Cv),
              c2 |-> V^^2 ** rc2, domain |-> Guard({V -- o.V1, o.Vmax -- V}) ]
  IN  r @@ [ FD |-> MG_FD(V, r, rc2, US_drhoc2ref(o, V) ++ t.d2P, MG_d2GoV(o, V)) ]

-----------------------------------------------------------------------------
(* PeSpline: Ps and es are the splines over 1 - V/V0.                      *)

PS_params == MG_params @@
  [ G2 |-> Free, Vmin |-> Free, dPdV0 |-> Unset, dPdV1 |-> Unset, dedV0 |-> Unset,
    dedV1 |-> Unset, Pref |-> Unset, eref |-> Unset, Ps |-> Unset, es |-> Unset,
    FD0 |-> Unset ]
PS_start  == EOS_start @@ PS_params
PST_start == VT_start @@ PS_params

\* A spline through data with end slopes, NaN for a natural end.
PS_spline(o, data, slopes) ==
  LET given == { x \in slopes : Is(x) }
      join(x) == IF x \in given THEN o.V0 ** x ELSE Free
  IN  Guard({o.Vmin // o.V0 ++ One} \cup { data -- join(x) : x \in slopes }) ** data

PS_Reinit(o) ==
  << SolveIf(TRUE, {}), Put("Ps", PS_spline(o, o.Pref, {o.dPdV0, o.dPdV1})),
     Put("es", PS_spline(o, o.eref, {o.dedV0, o.dedV1})),
     Put("K0", o.Ps), Put("FD0", o.Ps // o.K0),
     Put("Vmax", (One ++ One // o.FD0) ** o.V0), Put("Pmin", o.P0 ++ o.K0 // o.FD0) >>
    \o MG_restart

\* Vmin is 0 unless given, which init rejects.
PS_given(o) ==
  << Need({"V0", "e0", "P0", "T0", "S0", "G0", "G1", "Cv", "Pref", "eref"}),
     NeedIf(o.Vmin = Free, {"Ps"}) >>
PS_init(o)  == PS_given(o) \o PS_Reinit(o) \o MG_reference(o)
PST_init(o) == PS_given(o) \o PS_Reinit(o) \o MGT_reference(o)
PS_convert(o) ==
  << Factors({"V", "e", "T"}) >> \o MG_scale \o
  << Scale({"Vmin"}, U.V), Scale({"dPdV0", "dPdV1"}, (U.e // U.V) // U.V),
     Scale({"dedV0", "dedV1", "Pref"}, U.e // U.V), Scale({"eref"}, U.e) >> \o PS_Reinit(o)

\* Three coefficients of the Gruneisen coefficient.
PS_GoV(o, V) == (o.G0 ++ o.G1 ++ o.G2) // V ++ (o.G1 ++ o.G2 ** (One ++ V // o.V0)) // o.V0
PS_dGoV(o, V)  == (o.G0 ++ o.G1 ++ o.G2) // V^^2 ++ o.G2 // o.V0^^2
PS_d2GoV(o, V) == (o.G0 ++ o.G1 ++ o.G2) // V^^3
PS_intGoV(o, V) ==
  LET eta == V // o.V0 ++ One
  IN  (o.G0 ++ o.G1 ++ o.G2) ** Pure(V // o.V0) ++ (o.G1 ++ o.G2) ** eta ++ o.G2 ** eta^^2

PS_ref(o) ==
  LET V  == U.V
      t  == MG_tension(o, V)
      iG == PS_intGoV(o, V)
      G  == PS_GoV(o, V)
      P  == t.sides ** (o.P0 ++ o.Ps ++ t.P)
      dP == t.sides ** (o.Ps // o.V0 ++ t.dP)
      de == t.sides ** (o.es // o.V0 ++ t.de)
      d2P == t.sides ** (o.Ps // o.V0^^2 ++ t.d2P)
      d2e == t.sides ** (o.es // o.V0^^2 ++ t.d2e)
      rc2 == dP ++ G ** (P ++ de)
      y  == o.y ++ (P ++ de) ** Pure(iG) ** V
      r  == [ P |-> P, dP |-> dP, e |-> t.sides ** (o.e0 ++ o.es ++ t.e), de |-> de,
              iG |-> iG, G |-> G, dG |-> PS_dGoV(o, V), y |-> y,
              T |-> Pure(iG) ** (o.T0 ++ y // o.Cv), c2 |-> V^^2 ** rc2,
              domain |-> Guard({V -- o.Vmin, o.Vmax -- V}) ]
  IN  r @@ [ FD |-> MG_FD(V, r, rc2, d2P ++ G ** (dP ++ d2e) ++ r.dG ** (P ++ de),
                          PS_d2GoV(o, V)) ]

=============================================================================
